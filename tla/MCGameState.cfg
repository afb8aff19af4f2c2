SPECIFICATION FairSpec
CONSTANTS
    MaxInFlight = 1
    SnapshotBackup = 2
    MaxSpawns = 1
    MaxRestarts = 1
    MaxChanges = 1
INVARIANTS
    TypeOK
    ConfigstringsReachTheClient
    PacketsAreOfThisMap
    GameStateIsSentIfMissed
PROPERTY
    EntersTheWorld
