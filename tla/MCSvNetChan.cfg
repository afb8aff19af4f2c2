SPECIFICATION SvSpec
CONSTANTS
    Byte <- MCByte
    Message <- MCMessage
    Snapshot <- MCSnapshot
    GameState <- MCGameState
    FragmentSize = 2
    MaxMsgLen = 6
    MaxMessages = 4
    MaxGameStates = 2
INVARIANTS
    SvTypeOK
    NetChanInv
    QueueLosesNothing
    OrderedUnlessStranded
PROPERTIES
    ImplementsChannel
    ImplementsSendQueue
