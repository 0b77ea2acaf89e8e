SPECIFICATION Spec
CONSTANTS
  Nodes = {n1}
  Operations = {o1, o2}
  Requests = {r1, r2, r3}
  Payloads = {p1}
  None = None
  Torn = Torn
  Serial = FALSE
  Republish = FALSE
  Trashing = TRUE
  MaxRestarts = 1
  Faults <- ButStatObject
SYMMETRY Perms
INVARIANTS
  TypeOK
  ClaimPrecedesPayload
  IsolatedIsInactive
  PayloadPreserved
  AnswersHold
PROPERTIES
  ClaimIsFinal
  AppliesAtomically
