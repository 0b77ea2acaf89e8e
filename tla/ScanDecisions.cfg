SPECIFICATION Spec
CONSTANTS
  Resources <- MCResources
  Envelopes <- MCEnvelopes
  AskedActions <- MCActions
  MaxTime = 4
INVARIANTS
  TypeOK
  ReleaseIsExact
  HandoffOnlyForBoundEvidence
PROPERTIES
  MaliciousStaysBlocking
  ExpiryIsFinal
CHECK_DEADLOCK FALSE
