SPECIFICATION Spec
CONSTANTS
    Garbled = Garbled
    MaxInFlight = 1
    Backup = 4
    DeltaMargin = 1
    NumSnapshotEntities = 10
    MaxParseEntities = 9
    ParseMargin = 4
    EndOfEntities = 5
    MaxEntitiesInSnapshot = 2
    Views <- TwoViews
    Unchanging = {2}
    MaxSequence = 7
    MaxSpawns = 1
    MaxEvents = 1
INVARIANTS
    TypeOK
    ActiveSnapshotsAsBuilt
    BaseIsHeld
    SlotsHoldTheirNumber
