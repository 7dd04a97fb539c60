\* Three concurrent writers, up to three rows.
SPECIFICATION Spec
CONSTANTS
  Writers = {w1, w2, w3}
  AliceFilm = AliceFilm
  BobTrack = BobTrack
  Views <- MCViews
  NoView = NoView
  Sessions <- MCSessions
  WatchedOffset = 85
  IgnoreInterval = 120
  MaxRows = 3
SYMMETRY WriterSymmetry
INVARIANTS
  TypeOK
  GroupedCorrectly
  

  
CHECK_DEADLOCK FALSE
