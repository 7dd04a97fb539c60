\* The server answers; every kind of event.
SPECIFICATION FairSpec
CONSTANTS
  Keys = {k1}
  Items = {i1}
  NoItem = NoItem
  NoKey = NoKey
  Handlers = {h1}
  MaxAttempts = 2
  EventStates = {"playing", "buffering", "paused", "stopped", "error"}
  ServerFails = FALSE
  MaxRows = 2
  MaxEvents = 2
INVARIANTS
  AttemptsCounted
PROPERTIES
  RowsLeaveAfterLastAttempt
  PlaysEnd
CHECK_DEADLOCK FALSE
