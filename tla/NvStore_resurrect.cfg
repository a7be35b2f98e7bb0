SPECIFICATION Spec
CONSTANTS
  i1 = i1
  i2 = i2
  v1 = v1
  v2 = v2
  Item = {i1, i2}
  Value = {v1, v2}
  Absent = Absent
  ItemSize <- EqualSize
  IdxNum = 2
  ContextSize = 36
  CrcCoversState = TRUE
  Removable = {i1}
  Faults = {"crash"}
PROPERTIES SuccessIsDurable
