SPECIFICATION Spec
CONSTANTS
    Task = {f1, f2, f3, f4, f5}
    WaitQueue = {f1, f2, f3, f4, f5}
    NoTask = NoTask
SYMMETRY FutureSymmetry
INVARIANTS
    AwaitersAccounted
    NothingTouchesFreed
    DeadlockIsReal
CHECK_DEADLOCK FALSE
