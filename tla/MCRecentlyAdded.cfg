\* A show, two seasons, two episodes, three events.
SPECIFICATION Spec
CONSTANTS
  Show = Show
  Season1 = Season1
  Season2 = Season2
  Episode1 = Episode1
  Episode2 = Episode2
  Items <- MCItems
  Parent <- MCParent
  NoItem = NoItem
  Websocket = Websocket
  Unavailable <- MCUnavailable
  MaxEvents = 3
SYMMETRY EpisodeSymmetry
INVARIANTS
  TypeOK
  
  QueueMatchesCallbacks
  AnnouncedOnce
CHECK_DEADLOCK FALSE
