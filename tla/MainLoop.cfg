SPECIFICATION PartSpec
CONSTANTS
  Wrap = 32
  Margin = 3
  Interval = 9
  u1 = u1
  u2 = u2
  u3 = u3
  st = st
  NULL = NULL
  SlotNum = 1
  PoolUser = {u1}
  StaticUser = {st}
  Period = {1, 3}
  Tpm = 3
  MaxBlock = 4
  MaxOps = 2
  MaxAge = 20
  RearmListed = FALSE
INVARIANTS TypeOK OwnSlot EndWillBeSeen ComparesTime AllDueServed OnTime NoneLate PoolKept
PROPERTIES KeepsGoing
