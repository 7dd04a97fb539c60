\* Two websocket threads.
SPECIFICATION FairSpec
CONSTANTS
  Threads = {t1, t2}
  NoThread = NoThread
  MaxFaults = 2
INVARIANTS
  TypeOK
  NeverStranded
  JobMatchesConnection
PROPERTIES
  Reconnects
CHECK_DEADLOCK FALSE
