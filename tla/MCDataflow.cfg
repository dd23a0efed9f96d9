SPECIFICATION Spec
CONSTANTS
    Task = {1, 2}
    WaitQueue = {x, y, z}
    NoTask = 0
    NoVar = NoVar
    N = 2
    Operations = {"sum", "product", "percent"}
    Inputs <- SignedInputs
    Half = 2048
    MaxForms = 3
SYMMETRY VarSymmetry
INVARIANTS
    LeastSolution
    GatePasses
    AbortsExactly
CHECK_DEADLOCK FALSE
