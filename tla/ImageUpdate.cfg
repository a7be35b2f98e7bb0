CONSTANTS
  g1 = g1
  g2 = g2
  b = b
  r = r
  Good = {g1, g2}
  Bad = {b}
  Remote = {r}
  Erased = Erased
  Torn = Torn
  P = 3
  SectorPages = 2
  BootRetries = 1
  HostRetries = 1
SPECIFICATION UpdateFairSpec
CHECK_DEADLOCK FALSE
INVARIANTS UpdateTypeOK NeverStranded RunsWholeImage
PROPERTIES LoaderLostToStrayBlock Completes
