SPECIFICATION FairSpec
CONSTANTS
    Scope = {sa, sb}
    NoScope = NoScope
    Block = {b1}
    NoBlock = NoBlock
    Deadlines = {1}
    Patience = {TRUE}
    MaxSlots = 2
    MaxGeneration = 2
INVARIANTS
    ScopeCovers
    CancelExact
PROPERTY ScopeDrains
CHECK_DEADLOCK FALSE
