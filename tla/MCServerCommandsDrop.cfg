SPECIFICATION Spec
CONSTANTS
    Dropped = Dropped
    PlayerGone = PlayerGone
    Disconnect = Disconnect
    MaxReliable = 4
    SnapshotBackup = 1
    SnapshotSizes = {1, 2}
    GameStateSizes = {2}
    GameChanges = {3}
    MaxInFlight = 1
    MaxCommands = 5
    MaxGameStates = 1
INVARIANT
    DroppedOnce
