CONSTANTS
  ours = ours
  theirs = theirs
  followed = followed
  finishing = finishing
  Importers = {i1, i2}
  Logged <- MCLogged
  Import <- MCImport
  Live = {finishing}
  GroupOf <- MCGroupOf
  MaxImports = 2
  MaxFaults = 2

SYMMETRY MCSymmetry
SPECIFICATION Spec
CHECK_DEADLOCK FALSE

INVARIANTS
  TypeOK
  FlagHonest
  LoggedKept
  ImportedArrive
  OwnDetails
  GroupsKept
