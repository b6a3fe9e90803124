SPECIFICATION FairSpec
CONSTANTS
  N = 4
  Deps <- Wide
  Reads <- WideReads
  Fates <- SomeFates
  MaxLines = 1
  ReportMayFail = TRUE
INVARIANTS LinesBeforeResult ZeroMeansAllPassed Deterministic
PROPERTIES ExecutionSpec Returns
