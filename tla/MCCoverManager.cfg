SPECIFICATION FairSpec
CONSTANTS
    Users = {u1, u2}
    Addrs = {a1, a2}
    MaxMsgs = 2
    Stranger = Stranger
    Sentinel = Sentinel
    u1 = u1
    u2 = u2
    a1 = a1
    a2 = a2
INVARIANTS
    ManagerInv
    RemovedOrMissed
PROPERTIES
    ManagerEnds
