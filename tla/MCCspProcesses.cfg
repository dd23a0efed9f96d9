SPECIFICATION FairSpec
CONSTANTS
    p1 = p1
    p2 = p2
    p3 = p3
    c1 = c1
    NoValue = NoValue
    NoOp = NoOp
    Task <- ThreeTasks
    NoTask = NoTask
    WaitQueue <- Queues
    Channel <- OneChannel
    Capacity <- CapacityTwo
    Value <- MCValue
    MaxOps = 3
INVARIANTS
    Fifo
    NoLostWakeup
PROPERTIES
    ClosedMeansDrained
    CloseReleases
CHECK_DEADLOCK FALSE
