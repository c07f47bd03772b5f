SPECIFICATION FairSpec
CONSTANTS
  MaxSwitches = 1
CHECK_DEADLOCK FALSE
INVARIANTS TypeOK
PROPERTIES EndsWhenAsked LeftoversEnd
