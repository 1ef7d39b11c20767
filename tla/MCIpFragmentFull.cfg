SPECIFICATION Spec
CONSTANTS
    IP_FRAGMENT_TIMEOUT_SEC = 1
    IP_FRAGMENT_NUM_MAX = 2
    WORD = 2
    ENDIAN = 1234
    MASK_WORDS = 1
    MaxTime = 3
    MaxUnits = 3
    Dev = {d1, d2}
    Zero = Zero
    g1 = g1
    g2 = g2
    g3 = g3
    k1 = k1
    k2 = k2
    k3 = k3
    Datagram <- MCDatagram
    Id <- MCId
    Key <- MCKey
    Size <- MCSize
SYMMETRY Symmetry
CHECK_DEADLOCK FALSE
INVARIANTS
    RefusedOnlyWhenFull
