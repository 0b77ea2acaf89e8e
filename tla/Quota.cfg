SPECIFICATION Spec
CONSTANTS
  c1 = c1
  c2 = c2
  c3 = c3
  Callers = {c1, c2, c3}
  Sizes <- MCSizes
  Limits <- MCLimits
  NoLimit = NoLimit
  MaxBigint = 7
  MaxDoubt = 4
SYMMETRY CallerSymmetry
INVARIANTS TypeOK UsageIsAccounted
PROPERTY NeverRaisedPastLimit
