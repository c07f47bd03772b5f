SPECIFICATION FairSpec
CONSTANTS
  RingSize = 5
  HeaderSize = 3
  A2RCount = 1
  R2ACount = 1
  A2ROff <- A2RThrees
  R2AOff <- R2AThrees
  PortCap = 1
  IrqCap = 1
  StoresInOrder = TRUE
CHECK_DEADLOCK FALSE
PROPERTY EventsCommunicated
