SPECIFICATION Spec
CONSTANTS
  Paths = {"a", "b"}
  Stem <- TwoStems
  Contents <- NamedOrBroken
  First <- FirstNamed
  Listed <- JustA
  RunIds = {r1, r2}
  MaxEdits = 2
  EditPoints = {"wait"}
  Requests = {}
  MayCrash = FALSE
INVARIANT NoOverlap
