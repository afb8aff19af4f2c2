SPECIFICATION Spec
CONSTANTS
    SnapshotSizes = {1, 2, 3}
    GameStateSizes = {1, 2, 3}
    MaxGameStates = 2
INVARIANT
    TypeOK
PROPERTIES
    FragmentsPullTheQueue
    FinalMessageGoesOut
CHECK_DEADLOCK FALSE
