SPECIFICATION Spec
CONSTANTS
  c1 = c1
  c2 = c2
  Conns = {c1, c2}
  MAX_CONNECTIONS = 1
  Requests <- Asked
  Servers <- FiveServers
  Profile <- OneDefault
  Addresses <- Names
  Bytes = 1
  Faults = {"aborted", "permanent", "wake", "gone", "lookup", "duplicate"}
INVARIANTS SlotsCounted ReachesAsGranted BytesArrive StopHeard
PROPERTIES DropEnds ConnectionsEnd
