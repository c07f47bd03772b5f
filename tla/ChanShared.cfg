SPECIFICATION Spec
CONSTANTS
  k1 = k1
  k2 = k2
  c1 = c1
  c2 = c2
  Keys = {k1, k2}
  Clients = {c1}
  OnDemand = {}
  Name <- OneName
  ServiceOf <- OneService
  NoOne = NoOne
  NumIds = 8
  A2RCap = 1
  R2ACap = 1
  Budget <- Share
  Answers = {0, 3}
  Speaks = {"RESET"}
  MaxSends = 0
  MaxCloses = 0
  MaxReboots = 1
CHECK_DEADLOCK FALSE
INVARIANTS QueuedIffUnsent StreamsAgree TablesAgree
SYMMETRY KeySymmetry
