SPECIFICATION TransferSpec
CONSTANTS
    IP_FRAGMENT_TIMEOUT_SEC = 0
    IP_FRAGMENT_NUM_MAX = 2
    WORD = 1
    ENDIAN = 1234
    MASK_WORDS = 1
    MaxTime = 1
    MaxUnits = 3
    Dev = {d1, d2}
    Sender = {s1, s2}
    PIECE = 2
    OFF_MOD = 3
    ID_FIRST = 2
    ID_MOD = 3
    None = None
    Zero = Zero
    g1 = g1
    g2 = g2
    g3 = g3
    Datagram <- MCDatagram
    Id <- MCDatagram
    Key <- MCKey
    Size <- MCSize
SYMMETRY Symmetry
CHECK_DEADLOCK FALSE
INVARIANTS
    TransferTypeOK
    IdsUnique
PROPERTIES
    ServiceProvided
