SPECIFICATION Spec
\* The kernel opens MaxOpened connections, sends MaxCalls messages, then stops.
CHECK_DEADLOCK FALSE
CONSTANTS
  FirstAllocation = 4
  TableSizes = {4, 8, 16}
  Payload = 2
  Lengths <- Lengths32
  MaxOpened <- Two1
  MaxCalls <- One1
  MayReject = TRUE
INVARIANT RequestFindsNoConnection
