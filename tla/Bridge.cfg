SPECIFICATION BridgeSpec
CONSTANTS
  Nodes = {n1}
  Operations = {o1, o2}
  Requests = {r1, r2}
  Payloads = {p1}
  None = None
  Torn = Torn
  Serial = FALSE
  Republish = FALSE
  Trashing = FALSE
  MaxRestarts = 1
  Faults <- NoFaults
  Overlap = FALSE
  MaxTimeouts = 1
INVARIANTS
  ToldIsTrue
PROPERTIES
  ReplayNotDenied
  OperationSettles
  PendingResolves
