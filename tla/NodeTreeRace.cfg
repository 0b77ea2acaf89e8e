SPECIFICATION Spec
CONSTANTS
  Accounts = {ada}
  Spaces = {home, team}
  IDs = {n1, n2}
  RawNames <- TwoRawNames
  Names <- TwoNames
  trimmed <- TwoTrimmed
  Requests = {r1, r2}
  Memberships <- EditorOnly
  Faults = {"check", "statement"}
  r1 = r1
  r2 = r2
  n1 = n1
  n2 = n2
  ada = ada
  bob = bob
  home = home
  team = team
  None = None
SYMMETRY RaceSymmetry
INVARIANTS TypeOK ActiveNamesUnique ParentsInSpace
PROPERTY TrashedIsFrozen
