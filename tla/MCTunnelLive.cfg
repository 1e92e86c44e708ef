SPECIFICATION FairSpec
CONSTANTS
  WindowSize = 1
  Word = 4
  Limit <- TwoWay21
  Ordered = TRUE
  Capacity = 1
  DeviceMayBlock = FALSE
  SendMayFail = FALSE
PROPERTY EventuallyDelivered
PROPERTY EventuallyReleased
