SPECIFICATION ReadingSpec
CONSTANTS
  v1 = v1
  NoList = NoList
  Service = {v1}
  ServiceLists <- HiddenOrPublished
  MaxSlots = 2
  Served = {1}
  Carrying = {1}
  MaxEdits = 0
PROPERTIES
  RunningSlotsReconnect
CHECK_DEADLOCK FALSE
