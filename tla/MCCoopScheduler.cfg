SPECIFICATION FairSpec
CONSTANTS
    t1 = t1
    t2 = t2
    t3 = t3
    t4 = t4
    q1 = q1
    q2 = q2
    NoTask = NoTask
    Task <- MCTask
    WaitQueue <- MCWaitQueue
INVARIANTS
    HeldOnce
    NoOvertaking
PROPERTIES
    VerdictExact
    QueuedGetsTurn
