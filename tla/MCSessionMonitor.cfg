\* The server may fail: requests raise and the table is emptied.
SPECIFICATION Spec
CONSTANTS
  Keys = {k1}
  Items = {i1, i2}
  NoItem = NoItem
  NoKey = NoKey
  Handlers = {h1}
  MaxAttempts = 2
  EventStates = {"playing", "stopped"}
  ServerFails = TRUE
  MaxRows = 2
  MaxEvents = 2
SYMMETRY ItemSymmetry
INVARIANTS
  TypeOK
  CallbackCoverage
CHECK_DEADLOCK FALSE
