SPECIFICATION Spec
CONSTANTS
  Paths = {"a", "b"}
  Stem <- TwoStems
  Contents <- SandboxLost
  First <- FirstPlain
  Listed <- Both
  RunIds = {r1, r2}
  MaxEdits = 2
  EditPoints = {"reload", "install", "wait"}
  Requests = {"add", "reload", "pause"}
  MayCrash = TRUE
SYMMETRY RunSymmetry
INVARIANT NoOverlap
PROPERTIES LateOnlyMended WaitingFireKept
