SPECIFICATION FairSpec
CONSTANTS
  N = 2
  Limit = 1
  RunIds = {r1, r2}
  Sched <- TwoCrons
  Recurring = {1, 2}
  Overlap <- SkipQueue
  CatchUp = {2}
  Disabled = {}
  Broken = {}
  Second = 2
  MaxSleep = 3
  MaxTime = 6
  ClockSteps = FALSE
  Requests = {"pause", "stop"}
  CrashPoints = {"wait"}
  SaveMayFail = TRUE
PROPERTIES DueFireHandled StopEnds
