SPECIFICATION FairSpec
CONSTANTS
  Paths = {"a", "b"}
  Stem <- TwoStems
  Contents <- NamedOrBroken
  First <- FirstNamed
  Listed <- Both
  RunIds = {r1}
  MaxEdits = 2
  EditPoints = {"reload", "install", "wait"}
  Requests = {"add", "remove", "reload", "list"}
  MayCrash = FALSE
INVARIANT JobsFollowRegistry
PROPERTIES HistoryKept EditSeen
