SPECIFICATION PartSpec
CONSTANTS
  i1 = i1
  i2 = i2
  v1 = v1
  Item = {i1, i2}
  Value = {v1}
  Absent = Absent
  Off = Off
  NoSect = NoSect
  ItemSize <- EqualSize
  IdxNum = 2
  ContextSize = 36
  CrcCoversState = TRUE
  Removable = {i1}
  Faults = {"crash", "refuse", "noheap"}
INVARIANTS TypeOK HeaderInv
PROPERTIES SectorTakeover CountSurvives CallsReturn
