SPECIFICATION Spec
CONSTANTS
    Disconnect = Disconnect
    MaxReliable = 2
    SnapshotSizes = {1, 2}
    GameStateSizes = {2}
    MaxInFlight = 2
    MaxCommands = 3
    MaxGameStates = 1
INVARIANT
    KeyIsAcknowledged
