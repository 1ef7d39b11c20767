SPECIFICATION FairSpec
CONSTANTS
    TCP_CB_TABLE_SIZE = 2
    PORT_MIN = 1
    PORT_MAX = 2
    OFFSET = 2
    SEQ = 4
    t1 = t1
    t2 = t2
    e1 = e1
    e2 = e2
    pr1 = pr1
    pr2 = pr2
    NoIface = NoIface
    NoPeer = NoPeer
    Thread = {t1}
    Iface = {e1, e2}
    DefaultIface = e1
    Peer = {pr1}
    PeerSeq <- MCPeerSeq
    StrayAck <- MCStrayAck
    PayloadLen = {1}
    MaxConnect = 1
PROPERTIES
    ConnectWaitEnds
