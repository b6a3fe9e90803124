SPECIFICATION Spec
CONSTANTS
  c1 = c1
  c2 = c2
  Processes = 2
  Clients = {c1, c2}
  Commands <- TwoClients
  Listed = {c2}
  Silent = {}
  FailingFiles = {"manifests"}
  Attempts = 1
  MaxCommands = 2
  MaxCrashes = 2
INVARIANT Reachable
PROPERTIES AnswersHold CommandAnswered
CHECK_DEADLOCK FALSE
