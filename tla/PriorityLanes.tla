---------------------------- MODULE PriorityLanes ----------------------------
(***************************************************************************)
(* The service order of the gpui worker pool: the lanes of WorkLanes       *)
(* driven by every interleaving of pool-enqueue! calls of the owner and    *)
(* pool-pop-weighted! calls of the workers.  Each action is one critical   *)
(* section of the pool's mutex, so the threads themselves do not matter    *)
(* here (WorkerPool has them).                                             *)
(***************************************************************************)
EXTENDS WorkLanes, FiniteSets

VARIABLES
    pool,       \* the lanes
    waited,     \* history: selections since a lane last was empty or served
    ahead       \* history: the work that was in w's lane before w and has
                \* not been selected yet

laneVars == <<pool, waited, ahead>>

Queued(w) == \E q \in Priorities : \E i \in 1 .. Len(pool.lane[q]) :
                pool.lane[q][i] = w

\* The work before position i of lane q.
Before(p, q, i) == {p.lane[q][j] : j \in 1 .. i - 1}

LanesTypeOK ==
    /\ pool \in LaneRecord
    /\ waited \in [Priorities -> Nat]
    /\ ahead \in [Work -> SUBSET Work]

LanesInit ==
    /\ pool = EmptyLanes
    /\ waited = [q \in Priorities |-> 0]
    /\ ahead = [w \in Work |-> {}]

\* A fresh block is queued; malloc reuses the blocks that left the lanes.
Enqueue(q, w) ==
    /\ ~Queued(w)
    /\ pool' = LaneEnqueue(pool, q, w)
    /\ ahead' = [ahead EXCEPT ![w] = Before(pool, q, Len(pool.lane[q]) + 1)]
    /\ UNCHANGED waited

\* One selection.
Select ==
    /\ pool' = AfterPop(pool)
    /\ waited' = [q \in Priorities |->
                    IF pool.lane[q] = <<>> \/ q = Served(pool) THEN 0
                    ELSE waited[q] + 1]
    /\ ahead' = IF Served(pool) = "none" THEN ahead
                ELSE [w \in Work |-> ahead[w] \ {Popped(pool)}]

LanesNext ==
    \/ \E q \in Priorities, w \in Work : Enqueue(q, w)
    \/ Select

LanesSpec == LanesInit /\ [][LanesNext]_laneVars

-----------------------------------------------------------------------------
(* Properties. *)

\* The depth counters scheduler-stats reports are the lengths of the lists,
\* and the high-water mark was never below the total (the counters are kept
\* apart from the lists, by pops and enqueues of several threads).
CountersExact ==
    /\ \A q \in Priorities : pool.queued[q] = Len(pool.lane[q])
    /\ pool.highWater >= Depth(pool)

\* Starvation bounds of the weighted cycle.  A continuously nonempty low lane
\* is served within one cycle, thirteen selections in the code, as the README
\* of the library promises; a medium lane within ten and a high lane within
\* six, whatever is queued in between and whichever selections found nothing.
ServiceBounds ==
    /\ waited["low"] <= HighSlots + MediumSlots
    /\ waited["medium"] <= HighSlots + LowSlots
    /\ waited["high"] <= MediumSlots + LowSlots

\* A lane is first in, first out: the work before w in its lane is exactly
\* the work that was there when w came and has not been selected since, so
\* what is selected had nothing before it.
FifoLanes ==
    \A q \in Priorities : \A i \in 1 .. Len(pool.lane[q]) :
        ahead[pool.lane[q][i]] = Before(pool, q, i)

\* A selection comes back with work whenever a lane has some: a worker never
\* goes to sleep beside a queued job.
WorkConserving ==
    [][Select /\ ~NoneQueued(pool) =>
          \E w \in Work : Queued(w) /\ ~Queued(w)']_laneVars
=============================================================================
