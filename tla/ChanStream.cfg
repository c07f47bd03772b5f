SPECIFICATION Spec
CONSTANTS
  k1 = k1
  k2 = k2
  c1 = c1
  c2 = c2
  Keys = {k1}
  Clients = {c1}
  OnDemand = {c1}
  Name <- OneName
  ServiceOf <- OneService
  NoOne = NoOne
  NumIds = 8
  A2RCap = 1
  R2ACap = 1
  Budget <- Talk
  Answers = {0}
  Speaks = {"DATA", "EOS"}
  MaxSends = 2
  MaxCloses = 1
  MaxReboots = 0
CHECK_DEADLOCK FALSE
INVARIANTS TypeOK RequestsHeld DataInOrder EosAfterData
PROPERTIES KeepsPromise
