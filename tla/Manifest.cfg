SPECIFICATION Spec
CONSTANTS
  Bad = Bad
  Hours = 2
  Days = 10
  Horizon = 41
  LIMIT = 2
  Word = 16
  Kinds <- AllKinds
  BadIds = {"", "a-b"}
  BadText = "bad"
  BadTime = 99
  Harnesses = {"claude", "codex"}
INVARIANTS ValidationSound FiresAsCrontab LoadsAsWritten
