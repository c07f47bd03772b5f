SPECIFICATION FairSpec
CONSTANTS
  SetVars <- MCSetVars
  Z2Fast <- MCZ2Fast
  Z3Fast <- MCZ3Fast
  Own <- MCOwn
  ConfigBase <- MCConfigBase
  Shuts <- MCShuts
  Base <- MCBase
  Size <- MCSize
  AC_PIC_LIMIT = 16
  MaxRanges = 6
  MaxResets = 2
CHECK_DEADLOCK FALSE
INVARIANTS TypeOK BoardsAsGiven MemoryWhereGiven DevicesReachable
PROPERTIES AllConfigured
