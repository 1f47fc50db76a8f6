SPECIFICATION Spec
CONSTANTS
    Users = {u1}
    Addrs = {a1, a2}
    MaxMsgs = 2
    Stranger = Stranger
    Sentinel = Sentinel
    u1 = u1
    a1 = a1
    a2 = a2
PROPERTIES
    CloseCloses
