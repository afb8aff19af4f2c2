SPECIFICATION FairPacketSpec
CONSTANTS
    Retransmit = 3
    ReconnectLimit = 3
    ZombieTime = 2
    SvTimeout = 3
    ClTimeout = 3
    MaxDelay = 1
    MaxAttempts = 1
    MaxKicks = 1
    MaxDuplicates = 1
    Challenge = {1, 2, 3, 4, 5, 6, 7, 8, 9}
PROPERTY
    DroppedClientLeaves
