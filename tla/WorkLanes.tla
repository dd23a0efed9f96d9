------------------------------ MODULE WorkLanes ------------------------------
(***************************************************************************)
(* The three priority lanes a WorkerPool queues background work in         *)
(* (src/experiments/coil_gpui/scheduler.coil).  The lanes, their counters  *)
(* and the service ticket are one record p, guarded in the code by the     *)
(* pool's mutex: every operator below is one critical section, or part of  *)
(* one.  A lane's singly linked list is a sequence of work blocks.         *)
(***************************************************************************)
EXTENDS Integers, Sequences

CONSTANTS
    Work,           \* the BackgroundWork blocks
    HighSlots,      \* the slots of the service cycle that ask for each lane:
    MediumSlots,    \* 8, 4 and 1 in the code
    LowSlots

ASSUME CycleAssumption ==
    HighSlots \in Nat \ {0} /\ MediumSlots \in Nat \ {0} /\ LowSlots \in Nat \ {0}

Priorities == {"high", "medium", "low"}

\* Thirteen in the code.
Cycle == HighSlots + MediumSlots + LowSlots

LaneRecord ==
    [lane      : [Priorities -> Seq(Work)],
     queued    : [Priorities -> Int],
     highWater : Int,
     ticket    : 0 .. Cycle - 1]

EmptyLanes ==
    [lane      |-> [q \in Priorities |-> <<>>],
     queued    |-> [q \in Priorities |-> 0],
     highWater |-> 0,
     ticket    |-> 0]

\* All three lists are empty.
NoneQueued(p) == \A q \in Priorities : p.lane[q] = <<>>

-----------------------------------------------------------------------------
\* The lane the ticket asks for.
DesiredLateLow(t) ==
    IF t < HighSlots THEN "high"
    ELSE IF t <= HighSlots + MediumSlots THEN "medium"
    ELSE "low"

Desired(t) ==
    IF t < HighSlots THEN "high"
    ELSE IF t < HighSlots + MediumSlots THEN "medium"
    ELSE "low"

\* The lane a pop serves: the desired one, or the first nonempty one in the
\* order of the fallbacks, or none.
ServedShortFallback(p) ==
    IF p.lane[Desired(p.ticket)] # <<>> THEN Desired(p.ticket)
    ELSE IF p.lane["high"] # <<>> THEN "high"
    ELSE IF p.lane["medium"] # <<>> THEN "medium"
    ELSE "none"

Served(p) ==
    IF p.lane[Desired(p.ticket)] # <<>> THEN Desired(p.ticket)
    ELSE IF p.lane["high"] # <<>> THEN "high"
    ELSE IF p.lane["medium"] # <<>> THEN "medium"
    ELSE IF p.lane["low"] # <<>> THEN "low"
    ELSE "none"

\* What is left of a lane after its head is unlinked.
PopLane(p, q) == [p EXCEPT !.lane[q] = Tail(@), !.queued[q] = @ - 1]

\* pool-pop-weighted!: the block it returns, and the lanes it leaves.  The
\* ticket moves on every call, also on one that finds nothing.
Popped(p) == Head(p.lane[Served(p)])

Advance(p) == [p EXCEPT !.ticket = (@ + 1) % Cycle]

AfterPop(p) == Advance(IF Served(p) = "none" THEN p ELSE PopLane(p, Served(p)))

-----------------------------------------------------------------------------
\* pool-enqueue! of work w on an open pool: linked at its lane's tail.
Link(p, q, w) ==
    [p EXCEPT !.lane[q] = Append(@, w), !.queued[q] = @ + 1]

Depth(p) == p.queued["high"] + p.queued["medium"] + p.queued["low"]

NoteHighWater(p) ==
    [p EXCEPT !.highWater = IF Depth(p) > @ THEN Depth(p) ELSE @]

LaneEnqueue(p, q, w) == NoteHighWater(Link(p, q, w))
=============================================================================
