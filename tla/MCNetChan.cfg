SPECIFICATION Spec
CONSTANTS
    m1 = m1
    m2 = m2
    Byte <- MCByte
    Message <- MCMessage
    FragmentSize = 2
    MaxMsgLen = 5
    MaxMessages = 3
INVARIANTS
    TypeOK
    DeliveredIntact
    NetChanInv
    StillCompletable
PROPERTY
    ImplementsChannel
