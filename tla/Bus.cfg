SPECIFICATION Spec
CONSTANTS
    cpu = cpu
    a314 = a314
    Users = {cpu, a314}
    Addrs <- MCAddrs
    Bytes <- MCBytes
    Ops <- DirectOps
    MayStall = {2}
    Batch = FALSE
    QueueMax = 2
    Nobody = Nobody
INVARIANT TypeOK
INVARIANT CyclesAsAsked
INVARIANT NoCycleInReset
INVARIANT WriteIsMade
PROPERTY ActsAtOnce
PROPERTY CallsReturn
