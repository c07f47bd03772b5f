SPECIFICATION FairSpec
CONSTANTS
  k1 = k1
  k2 = k2
  c1 = c1
  c2 = c2
  Keys = {k1}
  Clients = {c1}
  OnDemand = {c1}
  Name <- OneName
  ServiceOf <- OneService
  NoOne = NoOne
  NumIds = 8
  A2RCap = 1
  R2ACap = 1
  Budget <- Live
  Answers = {0, 3}
  Speaks = {"DATA", "EOS", "RESET"}
  MaxSends = 1
  MaxCloses = 0
  MaxReboots = 0
CHECK_DEADLOCK FALSE
PROPERTIES ConnectAnswered ClientLearns ReaderLearns
