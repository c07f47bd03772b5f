SPECIFICATION Spec
CONSTANTS
    cpu = cpu
    a314 = a314
    Users = {cpu, a314}
    Addrs <- MCAddrs
    Bytes <- MCBytes
    Ops <- BatchOps
    MayStall = {}
    Batch = TRUE
    QueueMax = 2
    Nobody = Nobody
INVARIANT ReadIsCurrent
INVARIANT FlushedIsMade
PROPERTY QueueDrains
