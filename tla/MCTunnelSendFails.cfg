SPECIFICATION Spec
CONSTANTS
  WindowSize = 2
  Word = 8
  Limit <- OneWay3
  Ordered = FALSE
  Capacity = 3
  DeviceMayBlock = FALSE
  SendMayFail = TRUE
PROPERTY FreedPacketUnlisted
