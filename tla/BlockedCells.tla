----------------------------- MODULE BlockedCells -----------------------------
(***************************************************************************)
(* A blockable function (src/experiments/manual-live/blocked.coil): its    *)
(* cell, one controller that blocks, publishes and finally closes it, and  *)
(* callers that park on its event while it is blocked.                     *)
(*                                                                         *)
(* Every atomic access is an action.  The diagnostic is stored with the    *)
(* pointer before it; no caller reads it.  The counter of calls is left    *)
(* out.  Event operations do not fail while the event exists; afterwards   *)
(* they are undefined.  One thread makes the three operations and ends     *)
(* with close!, as in blocked_jit_test.coil; calls may come at any time.   *)
(***************************************************************************)
EXTENDS Integers, FiniteSets

CONSTANTS
    Caller,             \* the threads that call through the gate
    Implementation,     \* the native addresses that are published
    NoCode,             \* the null pointer
    MaxNotifications    \* bound: publications and blocks in all

ASSUME CellConstants ==
    /\ IsFiniteSet(Caller)
    /\ NoCode \notin Implementation
    /\ MaxNotifications \in Nat

VARIABLES
    cell,       \* the BlockedFunction
    event,      \* the generation of its sync/Event
    controller, \* where the controller is in block!, publish! or close!
    caller,     \* where each call is, and the generation it read
    answer,     \* what the caller's last call invoked; NoCode if refused
    exposed     \* history: the calls that met a cell neither ready nor blocked

cellVars == <<cell, event, controller, caller, answer, exposed>>

States == {"empty", "blocked", "ready", "closed"}

CellRecord ==
    [state : States, implementation : Implementation \cup {NoCode},
     diagnosed : BOOLEAN, waiters : Int]

ControllerPlaces == {"idle", "blocking", "publishing", "notifying", "closing", "clearing",
                     "destroying"}

\* "state", "pointer", "generation", "count", "recheck", "parked", "uncount":
\* about to make the access of that name.
CallerPlaces ==
    {"out", "state", "pointer", "generation", "count", "recheck", "parked", "uncount"}

\* The places between the two updates of waiters.
Counted == {"recheck", "parked", "uncount"}

CellsTypeOK ==
    /\ cell \in CellRecord
    /\ event \in Nat
    /\ controller \in ControllerPlaces
    /\ caller \in [Caller -> [at : CallerPlaces, generation : Nat]]
    /\ answer \in [Caller -> Implementation \cup {NoCode}]
    /\ exposed \subseteq Caller

Inside == {c \in Caller : caller[c].at # "out"}

CellsInit ==
    /\ cell = [state |-> "empty", implementation |-> NoCode, diagnosed |-> FALSE,
               waiters |-> 0]
    /\ event = 0
    /\ controller = "idle"
    /\ caller = [c \in Caller |-> [at |-> "out", generation |-> 0]]
    /\ answer = [c \in Caller |-> NoCode]
    /\ exposed = {}

-----------------------------------------------------------------------------
(* The controller. *)

\* A cell that was closed is not used again, and changes are bounded.
Usable == controller = "idle" /\ cell.state # "closed" /\ event < MaxNotifications

\* blocked-i64-block!: no implementation, then the state,
BlockPointer ==
    /\ Usable
    /\ cell' = [cell EXCEPT !.implementation = NoCode, !.diagnosed = TRUE]
    /\ controller' = "blocking"
    /\ UNCHANGED <<event, caller, answer>>

BlockState ==
    /\ controller = "blocking"
    /\ cell' = [cell EXCEPT !.state = "blocked"]
    /\ controller' = "notifying"
    /\ UNCHANGED <<event, caller, answer>>

\* blocked-i64-publish!: the implementation, then the state,
PublishPointer(i) ==
    /\ Usable
    /\ cell' = [cell EXCEPT !.implementation = i, !.diagnosed = FALSE]
    /\ controller' = "publishing"
    /\ UNCHANGED <<event, caller, answer>>

PublishState ==
    /\ controller = "publishing"
    /\ cell' = [cell EXCEPT !.state = "ready"]
    /\ controller' = "notifying"
    /\ UNCHANGED <<event, caller, answer>>

\* A notification that reaches nobody.
NotifyNobody ==
    /\ controller = "notifying"
    /\ controller' = "idle"
    /\ UNCHANGED <<cell, event, caller, answer>>

\* and both end with event-notify-all!.
Notify ==
    /\ controller = "notifying"
    /\ event' = event + 1
    /\ controller' = "idle"
    /\ UNCHANGED <<cell, caller, answer>>

\* blocked-i64-close!: refused while somebody is counted.
Close ==
    /\ controller = "idle" /\ cell.state # "closed" /\ cell.waiters = 0
    /\ controller' = "closing"
    /\ UNCHANGED <<cell, event, caller, answer>>

CloseState ==
    /\ controller = "closing"
    /\ cell' = [cell EXCEPT !.state = "closed"]
    /\ controller' = "clearing"
    /\ UNCHANGED <<event, caller, answer>>

CloseClear ==
    /\ controller = "clearing"
    /\ cell' = [cell EXCEPT !.implementation = NoCode]
    /\ controller' = "destroying"
    /\ UNCHANGED <<event, caller, answer>>

\* event-destroy! comes last, and nobody is notified.
CloseEvent ==
    /\ controller = "destroying"
    /\ controller' = "idle"
    /\ UNCHANGED <<cell, event, caller, answer>>

Destroyed == cell.state = "closed" /\ controller = "idle"

-----------------------------------------------------------------------------
(* A call: blocked-i64-call, or blocked-wait-implementation in a generated  *)
(* gate, which returns null where the other returns a code.                  *)

CallGoes(c, from, to) ==
    /\ caller[c].at = from
    /\ caller' = [caller EXCEPT ![c].at = to]

Begin(c) ==
    /\ CallGoes(c, "out", "state")
    /\ answer' = [answer EXCEPT ![c] = NoCode]
    /\ UNCHANGED <<cell, event, controller>>

\* The call is refused when the cell is empty or closed.
ReadState(c) ==
    /\ CallGoes(c, "state", CASE cell.state = "ready" -> "pointer"
                              [] cell.state = "blocked" -> "generation"
                              [] OTHER -> "out")
    /\ UNCHANGED <<cell, event, controller, answer>>

\* The implementation is called, or the call is refused when it is null.
ReadPointer(c) ==
    /\ CallGoes(c, "pointer", "out")
    /\ answer' = [answer EXCEPT ![c] = cell.implementation]
    /\ UNCHANGED <<cell, event, controller>>

ReadGeneration(c) ==
    /\ ~Destroyed /\ caller[c].at = "generation"
    /\ caller' = [caller EXCEPT ![c] = [at |-> "count", generation |-> event]]
    /\ UNCHANGED <<cell, event, controller, answer>>

Count(c) ==
    /\ CallGoes(c, "count", "recheck")
    /\ cell' = [cell EXCEPT !.waiters = @ + 1]
    /\ UNCHANGED <<event, controller, answer>>

\* A caller that parks without a second look.
RecheckNothing(c) ==
    /\ CallGoes(c, "recheck", "parked")
    /\ UNCHANGED <<cell, event, controller, answer>>

Recheck(c) ==
    /\ CallGoes(c, "recheck", IF cell.state = "blocked" THEN "parked" ELSE "uncount")
    /\ UNCHANGED <<cell, event, controller, answer>>

\* event-wait! returns when the generation is no longer the one that was read.
Unpark(c) ==
    /\ ~Destroyed /\ event # caller[c].generation
    /\ CallGoes(c, "parked", "uncount")
    /\ UNCHANGED <<cell, event, controller, answer>>

\* close! tests the count only, so a call may have read "blocked" without being
\* counted.  What it then asks of the destroyed event answers as before, fails,
\* which refuses the call, or never returns.
StrayRead(c) ==
    /\ Destroyed /\ caller[c].at = "generation"
    /\ \E to \in {"count", "out"} :
          caller' = [caller EXCEPT ![c] = [at |-> to, generation |-> event]]
    /\ UNCHANGED <<cell, event, controller, answer>>

StrayWake(c) ==
    /\ Destroyed
    /\ CallGoes(c, "parked", "uncount")
    /\ UNCHANGED <<cell, event, controller, answer>>

StrayFails(c) ==
    /\ Destroyed
    /\ CallGoes(c, "parked", "out")
    /\ cell' = [cell EXCEPT !.waiters = @ - 1]
    /\ UNCHANGED <<event, controller, answer>>

\* A caller that takes its wake-up for a publication.
UncountTrusting(c) ==
    /\ CallGoes(c, "uncount", "pointer")
    /\ cell' = [cell EXCEPT !.waiters = @ - 1]
    /\ UNCHANGED <<event, controller, answer>>

Uncount(c) ==
    /\ CallGoes(c, "uncount", "state")
    /\ cell' = [cell EXCEPT !.waiters = @ - 1]
    /\ UNCHANGED <<event, controller, answer>>

CallStep(c) ==
    \/ ReadState(c) \/ ReadPointer(c) \/ ReadGeneration(c)
    \/ Count(c) \/ Recheck(c) \/ Unpark(c) \/ Uncount(c)

StrayStep(c) == StrayRead(c) \/ StrayWake(c) \/ StrayFails(c)

ControllerStep ==
    BlockState \/ PublishState \/ Notify \/ CloseState \/ CloseClear \/ CloseEvent

\* The gate as callers see it.
Gate ==
    CASE cell.state = "empty" -> "unpublished"
      [] cell.state = "blocked" -> "held"
      [] cell.state = "closed" -> "shut"
      [] cell.state = "ready" /\ cell.implementation # NoCode -> "open"
      [] OTHER -> "withdrawn"

Gaps == {"unpublished", "withdrawn", "shut"}

Observed == exposed' = IF Gate' \in Gaps THEN Inside' ELSE exposed \cap Inside'

CellsNext ==
    /\ \/ BlockPointer \/ Close \/ ControllerStep
       \/ \E i \in Implementation : PublishPointer(i)
       \/ \E c \in Caller : Begin(c) \/ CallStep(c) \/ StrayStep(c)
    /\ Observed

CellsSpec == CellsInit /\ [][CellsNext]_cellVars

\* Threads run: a call goes on, and so does an operation of the controller once
\* it began; nobody has to call, publish or close.
FairCellsSpec ==
    /\ CellsSpec
    /\ \A c \in Caller : WF_cellVars(CallStep(c) /\ Observed)
    /\ WF_cellVars(ControllerStep /\ Observed)
-----------------------------------------------------------------------------
(* Properties. *)

\* No wake-up is lost: a call sleeps on the generation it read only while the
\* function is blocked, until the notification that is on its way, or after
\* close!, which wakes nobody.  The state may change between reading it, the
\* generation, the second look and the wait.
NoSleeperMissed ==
    \A c \in Caller :
        caller[c].at = "parked" /\ caller[c].generation = event =>
            cell.state \in {"blocked", "closed"} \/ controller = "notifying"

\* The count close! relies on is the number of calls between their two updates
\* of it.
WaitersExact == cell.waiters = Cardinality({c \in Caller : caller[c].at \in Counted})

\* Callers see a FunctionGate: a call invokes what is published at that moment,
\* and one that met no gap, however often it slept, is never refused.  The
\* gaps are the time before the first publication, the closed cell, and the
\* moment between the two stores of block! of a ready function.  The last one
\* is what the code does and not what the source says: by blocked.coil:80-81 a
\* caller that observes Ready observes the implementation, by 98-100 the wait
\* returns only after one is ready, and a generated gate (blocked_meta.coil:46)
\* calls what it gets, null included.
Promise == INSTANCE FunctionGate
           WITH Null <- NoCode, current <- cell.implementation, gate <- Gate,
                pending <- Inside

GateKept == Promise!GateSpec

\* Once the function stays unblocked, every call under way returns, but for one
\* that close! left with a destroyed event.
CallsReturn ==
    <>[](cell.state # "blocked") =>
        \A c \in Caller : (caller[c].at # "out") ~>
            \/ caller[c].at = "out"
            \/ Destroyed /\ caller[c].at \in {"generation", "parked"}
=============================================================================
