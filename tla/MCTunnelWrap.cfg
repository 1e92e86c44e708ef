SPECIFICATION Spec
CONSTANTS
  WindowSize = 2
  Word = 4
  Limit <- OneWay6
  Ordered = TRUE
  Capacity = 2
  DeviceMayBlock = FALSE
  SendMayFail = FALSE
INVARIANT TypeOK
INVARIANT InOrderDelivery
INVARIANT QueueContinuesWindow
PROPERTY ImplementsChannel
