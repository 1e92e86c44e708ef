SPECIFICATION Spec
\* The clock stops at MaxTime.
CHECK_DEADLOCK FALSE
CONSTANTS
  i1 = i1
  i2 = i2
  Slot <- TwoSlots
  Buckets = 5
  RttMin = 1
  RttMax = 4
  InitialVar = 0
  MaxTime = 7
  Leap = 6
  MaxTransmits = 2
  ClockMayGoBack = TRUE
  DeviceMayBlock = TRUE
INVARIANT TypeOK
INVARIANT TimerForEveryPacket
INVARIANT RingHoldsOneTurn
PROPERTY NeverEarly
PROPERTY BackoffOnce
