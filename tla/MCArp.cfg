SPECIFICATION Spec
CONSTANTS
    ARP_TABLE_SIZE = 2
    ARP_TABLE_TIMEOUT_SEC = 1
    PATROL_SEC = 0
    MaxTime = 2
    Caller = {c1, c2}
    ETHERNET_ADDR_ANY = ETHERNET_ADDR_ANY
    NoDev = NoDev
    NoData = NoData
    d1 = d1
    d2 = d2
    a = a
    b = b
    zero = zero
    h1 = h1
    h2 = h2
    h3 = h3
    p1 = p1
    p2 = p2
    p3 = p3
    ZeroPA = zero
    Dev <- MCDev
    PA <- MCPA
    HA <- MCHA
    IPDev <- MCIPDev
    Announce <- MCAnnounce
    Packet <- MCPacket
    Dst <- MCDst
    Via <- MCVia
SYMMETRY Symmetry
CHECK_DEADLOCK FALSE
INVARIANTS
    TypeOK
    FreeEntriesBlank
    HeldPacketPending
    HeldExactlyOnce
    TableAnnounced
    OneQueryPerAddress
    SentExactlyOnce
    SentToAnnounced
PROPERTIES
    BindingKept
    AskedWhenWaiting
    ServiceImplemented
