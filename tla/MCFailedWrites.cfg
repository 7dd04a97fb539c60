\* A failing request ends the attempts to write a play.
SPECIFICATION FairSpec
CONSTANTS
  Keys = {k1}
  Items = {i1}
  NoItem = NoItem
  NoKey = NoKey
  Handlers = {h1}
  MaxAttempts = 2
  EventStates = {"playing"}
  ServerFails = TRUE
  MaxRows = 1
  MaxEvents = 1
PROPERTIES
  FailedWritesRetried
CHECK_DEADLOCK FALSE
