SPECIFICATION Spec
CONSTANTS
  h1 = h1
  h2 = h2
  c1 = c1
  c2 = c2
  k1 = k1
  k2 = k2
  p1 = p1
  p2 = p2
  HomeDirs = {h1, h2}
  AppHome = h1
  Clis = {c1, c2}
  CallIds = {k1, k2}
  Passes = {p1, p2}
  NoH = NoH
  MaxSpawns = 2
  NoProcess = 0

  
  
PROPERTIES
  IdleSessionLocks
  StatusCatchesUp
CHECK_DEADLOCK FALSE
