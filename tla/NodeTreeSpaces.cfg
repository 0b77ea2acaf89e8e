SPECIFICATION Spec
CONSTANTS
  Accounts = {ada, bob}
  Spaces = {home, team}
  IDs = {n1}
  RawNames <- RefusedRawNames
  Names <- OneName
  trimmed <- RefusedTrimmed
  Requests = {r1}
  Memberships <- DropAndContribute
  Faults = {"check", "statement", "answer"}
  r1 = r1
  r2 = r2
  n1 = n1
  n2 = n2
  ada = ada
  bob = bob
  home = home
  team = team
  None = None
SYMMETRY SpaceSymmetry
INVARIANTS SeenByReaders SessionsTargetFiles
PROPERTY ChangesAreGranted
