\* One worker with up to three events, or two with two; the settings are there.
SPECIFICATION FairSpec
CONSTANTS
  Workers = {w1, w2}
  Email = Email
  Script = Script
  Notifiers <- MCNotifiers
  NoNotifier = NoNotifier
  Streams = {s1}
  NoStream = NoStream
  Subscribed <- MCSubscribed
  Produced = {"on_play", "on_watched", "on_intdown"}
  HasServerSettings = TRUE
  MaxEvents = 3
  MaxShared = 2
  MaxTime = 1
INVARIANTS
  TypeOK
  
  WatchedOnce
  InOrderWithOneThread
PROPERTIES
  EventsHandled
CHECK_DEADLOCK FALSE
