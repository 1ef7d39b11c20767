SPECIFICATION FairSpec
CONSTANTS
    d1 = d1
    d2 = d2
    a1 = a1
    p1 = p1
    n1 = n1
    n2 = n2
    Dev <- MCDev
    App <- MCApp
    PA <- MCPA
    Netif <- MCNetif
    Proto <- MCProto
    MAX_OPEN <- MCOpen
INVARIANTS TypeOK ReceiverHasDevice UndefinedOnlyKnown MutexHeldInside
PROPERTIES ReceivesUntilAsked JoinReturns MutexReleased
CHECK_DEADLOCK FALSE
