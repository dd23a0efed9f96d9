SPECIFICATION FairFuturesSpec
CONSTANTS
    Core = {f1, f2, f3}
    NoCore = NoCore
INVARIANTS
    RefsExact
    ValueEndsOnce
    ReadyMeansTakeable
PROPERTY Reclaimed
CHECK_DEADLOCK FALSE
