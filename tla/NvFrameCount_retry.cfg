CONSTANTS
  CntNum = 2
  Thres = 1
  MaxGap = 2
  MaxCount <- Bounds
  TornMore = 0
  Off = Off
  NoSect = NoSect
  FaultSets = {{"refuse"}}
SPECIFICATION Spec
INVARIANTS RetryKeepsCount
