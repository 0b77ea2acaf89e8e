SPECIFICATION Spec
CONSTANTS
  Nodes = {n1}
  Operations = {o1}
  Requests = {r1}
  Payloads = {p1, p2}
  None = None
  Torn = Torn
  Serial = TRUE
  Republish = TRUE
  Trashing = FALSE
  MaxRestarts = 1
  Faults = {}
INVARIANTS
  PayloadPreserved
