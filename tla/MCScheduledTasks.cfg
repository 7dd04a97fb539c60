\* Two requests that save settings and the websocket thread; the intervals are
\* none, one unit and the fallback.
SPECIFICATION Spec
CONSTANTS
  Savers = {s1, s2}
  Link = link
  Nobody = Nobody
  Hours = {0, 1}
  Fallback = 2
SYMMETRY SaverSymmetry
INVARIANTS
  TypeOK
  JobsAsConfigured
  
