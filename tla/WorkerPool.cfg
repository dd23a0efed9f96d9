SPECIFICATION FairSpec
CONSTANTS
    Worker = {k1, k2}
    Block = {b1, b2}
    NoBlock = NoBlock
    Deadlines = {}
    Times = {0}
    HighSlots = 1
    MediumSlots = 1
    LowSlots = 1
    Patience = {TRUE, FALSE}
    Wakes = {FALSE}
    UsedLanes = {"low"}
    MaxSlots = 2
    MaxGeneration = 1
    MaxJobs = 2
INVARIANTS
    NoUseAfterFree
    NoSleeperBesideWork
PROPERTIES
    FreeTerminates
    EventuallySettled
CHECK_DEADLOCK FALSE
