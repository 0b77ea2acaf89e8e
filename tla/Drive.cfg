SPECIFICATION DriveSpec
CONSTANTS
  a = a
  z = z
  UploadIDs = {u1, u2}
  Nodes = {n1}
  Inodes = {i1, i2}
  Byte = {a, z}
  Zero = z
  None = None
  Bodies <- OneBody
  Verdicts <- CleanOnly
  MaxChunk = 1
  TTL = 1
  MaxSize = 2
  MaxTime = 2
  Operations = {o1}
  Torn = Torn
  MaxRestarts = 1
  Requests = {a1}
  Serial = TRUE
  Durable = FALSE
  Faults <- AfterPublication
  QuarantineRequests = {r1}
  QuarantineSerial = TRUE
  QuarantineFaults <- HalfMoved
SYMMETRY Perms
INVARIANTS
  KeptIsInspected
  IsolatedIsInactive
PROPERTY
  NeverRevived
