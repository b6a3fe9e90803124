SPECIFICATION Spec
CONSTANTS
  N = 2
  Limit = 2
  RunIds = {r1, r2, r3}
  Sched <- TwoCrons
  Recurring = {1, 2}
  Overlap <- ParallelQueue
  CatchUp = {2}
  Disabled = {}
  Broken = {}
  Second = 2
  MaxSleep = 3
  MaxTime = 6
  ClockSteps = TRUE
  Requests = {"pause", "trigger", "stop", "signal"}
  CrashPoints = {"loop", "fire", "wait", "drain"}
  SaveMayFail = FALSE
SYMMETRY RunSymmetry
INVARIANTS RunLimit NoOverlap NoRepeatedFire WakesInTime WaitingHasReason MissedStaysMissed
PROPERTIES DiskNeverGoesBack NotOvertaken
