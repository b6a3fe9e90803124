SPECIFICATION Spec
CONSTANTS
  r1 = r1
  r2 = r2
  r3 = r3
  Runs = {r1, r2, r3}
  Pid <- TwoProcesses
  Policies <- ThreePolicies
  Defaults <- DefaultPaths
  StatePaths <- State
  PathDirs <- Search
  Files <- AllFiles
  Shebang <- Scripts
  HARNESS_PROGRAMS = {"sh", "env"}
  DEFAULT_EXECUTABLE_GROUPS <- JustGit
  GIT_HELPER_DIRECTORIES <- Helpers
  Loaders <- Loader
  WorkingDirectory <- W
  Home <- H
  Tmp <- T
  Tree <- Paths
  Links <- TwoLinks
  Existing <- WithOrWithoutD
  MARK_ATTEMPTS = 2
  CrashPoints = {"plan", "arguments", "spawn", "run"}
SYMMETRY DaemonSymmetry
INVARIANTS WritesHeld ExecutesAsMeant MasksStay HostRestored
