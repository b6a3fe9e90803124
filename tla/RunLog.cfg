SPECIFICATION Spec
CONSTANTS
  a = a
  b = b
  c = c
  Runs = {a, c}
  Daemon = {a}
  Pid <- Pids
  TaskCount <- Counts
  Grouped = TRUE
  Keep = 1
  Old <- TwoOld
  MaxClock = 3
  MaxLines <- Lines
  Fates <- AllFates
  SameTick = FALSE
  MayFail = {c}
INVARIANTS NothingLost LatestKept
PROPERTY NewestKept
