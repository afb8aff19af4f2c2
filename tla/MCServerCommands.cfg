SPECIFICATION Spec
CONSTANTS
    Dropped = Dropped
    PlayerGone = PlayerGone
    Disconnect = Disconnect
    MaxReliable = 2
    SnapshotBackup = 1
    SnapshotSizes = {1, 2}
    GameStateSizes = {2}
    GameChanges = {2}
    MaxInFlight = 1
    MaxCommands = 3
    MaxGameStates = 2
INVARIANTS
    TypeOK
    ExecutedAsAdded
    ShownAfterItsCommands
    AcknowledgedIsStored
    PacketsDecode
