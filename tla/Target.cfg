SPECIFICATION PoliteSpec
CONSTANTS
  v1 = v1
  NoList = NoList
  Service = {v1}
  ServiceLists <- HiddenOrPublished
  MaxSlots = 3
  Served = {1, 2}
  Carrying = {1}
  MaxEdits = 2
INVARIANTS
  PoolInv
  HotStandby
  GrowsOncePerSlot
  NoStreamOutlivesItsSession
PROPERTIES
  EditsReachSessions
  LostSlotsReconnect
  StoppedTargetReturns
CHECK_DEADLOCK FALSE
