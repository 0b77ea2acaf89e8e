SPECIFICATION Spec
CONSTANTS
  a = a
  b = b
  z = z
  r1 = r1
  r2 = r2
  u1 = u1
  u2 = u2
  i1 = i1
  i2 = i2
  i3 = i3
  UploadIDs = {u1}
  Nodes = {n1}
  Requests = {r1, r2}
  Inodes = {i1, i2, i3}
  Byte = {a, b, z}
  Zero = z
  None = None
  Bodies <- TwoBodies
  Verdicts <- CleanOnly
  MaxChunk = 1
  TTL = 1
  MaxSize = 2
  MaxTime = 2
  Serial = FALSE
  Durable = FALSE
  Faults <- NoFaults
SYMMETRY Perms
INVARIANTS
  AckedBytesDurable
