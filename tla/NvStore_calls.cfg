SPECIFICATION PartSpec
CONSTANTS
  i1 = i1
  i2 = i2
  i3 = i3
  v1 = v1
  v2 = v2
  j1 = j1
  j2 = j2
  w1 = w1
  w2 = w2
  Item = {j1, j2}
  Value = {w1, w2}
  Absent = Absent
  ItemSize <- EqualSize
  IdxNum = 2
  ContextSize = 36
  CrcCoversState = TRUE
  Removable = {}
  Faults = {"crash", "refuse", "noheap"}
SYMMETRY Interchangeable
PROPERTIES MapSpec SuccessIsDurable SpaceReclaimed UndisturbedCalls
