\* One websocket thread at a time.
SPECIFICATION RemoteSpec
CONSTANTS
  Threads = {t1}
  NoThread = NoThread
  MaxFaults = 3
  MaxReports = 5
INVARIANTS
  
  AnnouncementsBalance
  
CHECK_DEADLOCK FALSE
