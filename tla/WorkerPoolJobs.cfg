SPECIFICATION Spec
CONSTANTS
    Worker = {k1}
    Block = {b1}
    NoBlock = NoBlock
    Deadlines = {1}
    Times = {0, 1}
    HighSlots = 1
    MediumSlots = 1
    LowSlots = 1
    Patience = {FALSE}
    Wakes = {TRUE}
    UsedLanes = {"medium"}
    MaxSlots = 2
    MaxGeneration = 2
    MaxJobs = 4
INVARIANTS
    BlocksOwnedOnce
    CompletionsExact
PROPERTY KeepsPromise
CHECK_DEADLOCK FALSE
