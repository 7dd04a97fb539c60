\* Two requests at a time, one writer, one fault, a user of either kind.
SPECIFICATION Spec
CONSTANTS
  Users = {local, jellyfin}
  Numeric = {local}
  NoUser = NoUser
  Writers = {w}
  Requests = {r1, r2}
  MaxRows = 2
  MaxRequests = 2
  MaxFaults = 1
SYMMETRY RequestSymmetry
INVARIANTS
  TypeOK
  NoOrphans
  DeletedAsTold
  DeletedHaveNone
CHECK_DEADLOCK FALSE
