SPECIFICATION FairSpec
CONSTANTS
  RingSize = 6
  HeaderSize = 3
  A2RCount = 2
  R2ACount = 4
  A2ROff <- A2RThrees
  R2AOff <- R2ATurn
  PortCap = 1
  IrqCap = 1
  StoresInOrder = TRUE
CHECK_DEADLOCK FALSE
INVARIANTS TypeOK DeliveredInOrder NoticePending EventPending NothingStranded
PROPERTIES R2ADelivered A2RDelivered
