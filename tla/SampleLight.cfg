SPECIFICATION PartSpec
CONSTANTS
  Ep = {e1, e2}
  Global = z
  Group = {z, g1, g2}
  SceneId = {s1}
  GroupSlots = 2
  EpSlots = 2
  SceneSlots = 2
  Unit = 8
  Min = 1
  Max = 4
  Forever = 12
  Targets = {0, 3, 5}
  Times = {0, 3, 10}
  Steps = {1}
  Rates = {0, 5}
  OnTimes = {0, 1, 12}
  StartUp = {"toggle"}
  Worlds <- SomeWorlds
INVARIANTS TypeOK NoOrphans Restored AsTold AsSaid
PROPERTIES LightSettles
CHECK_DEADLOCK FALSE
