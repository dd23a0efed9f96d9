SPECIFICATION FairSpec
CONSTANTS
    Thread = {t1, t2}
    Creators = {t1}
    MaxHandles = 2
    Payload = {p1, p2, p3, p4}
    Null = Null
    Schemas = {1, 2}
    Transitions <- MCTransitions
    MaxEpoch = 1
INVARIANTS
    LeaseExcludes
    Owned
PROPERTIES
    GraphKept
    MigrationEnds
CHECK_DEADLOCK FALSE
