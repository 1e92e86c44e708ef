SPECIFICATION Spec
\* The kernel opens MaxOpened connections, sends MaxCalls messages, then stops.
CHECK_DEADLOCK FALSE
CONSTANTS
  FirstAllocation = 4
  TableSizes = {4, 8, 16}
  Payload = 2
  Lengths <- Lengths32
  MaxOpened <- Two1
  MaxCalls <- Two0
  MayReject = TRUE
INVARIANT TypeOK
INVARIANT HandlersAccept
INVARIANT FreeListSound
INVARIANT WholeMessages
INVARIANT QuietAgreement
