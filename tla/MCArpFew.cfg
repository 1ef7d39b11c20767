SPECIFICATION FairSpec
CONSTANTS
    ARP_TABLE_SIZE = 3
    ARP_TABLE_TIMEOUT_SEC = 1
    PATROL_SEC = 0
    MaxTime = 2
    Caller = {c1, c2}
    ETHERNET_ADDR_ANY = ETHERNET_ADDR_ANY
    NoDev = NoDev
    NoData = NoData
    d1 = d1
    d2 = d2
    a = a
    b = b
    zero = zero
    h1 = h1
    h2 = h2
    h3 = h3
    p1 = p1
    p2 = p2
    p3 = p3
    ZeroPA = zero
    Dev <- MCDev
    PA <- MCPA
    HA <- MCHA
    IPDev <- MCIPDev
    Announce <- MCFewAnnounce
    Packet <- MCFewPacket
    Dst <- MCFewDst
    Via <- MCFewVia
CHECK_DEADLOCK FALSE
INVARIANTS
    DuplicatesBounded
    NoLostWakeup
PROPERTIES
    CallReturns
