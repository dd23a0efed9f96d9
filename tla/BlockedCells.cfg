SPECIFICATION FairCellsSpec
CONSTANTS
    Caller = {c1, c2}
    Implementation = {i1, i2}
    NoCode = NoCode
    MaxNotifications = 3
INVARIANTS
    NoSleeperMissed
PROPERTIES
    GateKept
    CallsReturn
CHECK_DEADLOCK FALSE
