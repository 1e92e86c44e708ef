SPECIFICATION Spec
\* The clock stops at MaxTime.
CHECK_DEADLOCK FALSE
CONSTANTS
  i1 = i1
  i2 = i2
  Slot <- TwoSlots
  Buckets = 10
  RttMin = 1
  RttMax = 9
  InitialVar = 1
  MaxTime = 8
  Leap = 12
  MaxTransmits = 14
  ClockMayGoBack = TRUE
  DeviceMayBlock = TRUE
INVARIANT TimeNeverBeforeLast
