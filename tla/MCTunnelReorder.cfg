SPECIFICATION Spec
CONSTANTS
  WindowSize = 2
  Word = 8
  Limit <- TwoWay31
  Ordered = FALSE
  Capacity = 3
  DeviceMayBlock = FALSE
  SendMayFail = FALSE
INVARIANT InOrderDelivery
INVARIANT NoPrematureRelease
INVARIANT WindowHoldsUnacknowledged
INVARIANT EarlyPacketsInPlace
INVARIANT AcknowledgementOwed
INVARIANT ReadyIsListed
PROPERTY FreedPacketUnlisted
PROPERTY ImplementsChannel
