----------------------------- MODULE FunctionGate -----------------------------
(***************************************************************************)
(* What the callers of a blockable function may rely on                    *)
(* (src/experiments/manual-live/README.md, Deferred function errors),      *)
(* without cells, events or generations.  The gate is open, holds its      *)
(* calls, or is in a gap: it has no publication yet, a publication is      *)
(* being withdrawn, or it is shut for good.                                *)
(*                                                                         *)
(* The README promises more.  A repaired function wakes every waiter, and  *)
(* "the gate invokes that implementation exactly once"; blocked.coil:98    *)
(* says that a call waits until an implementation is ready.  Neither knows *)
(* the gap of a withdrawal, in which the code refuses calls.  It is here   *)
(* because the code has it, under a name of its own.                       *)
(***************************************************************************)
CONSTANTS Caller, Implementation, Null

VARIABLES
    current,    \* the implementation behind the gate, or Null
    gate,       \* "unpublished", "open", "withdrawn", "held" or "shut"
    pending,    \* the calls that have not returned
    answer,     \* what the last call of each caller invoked; Null if refused
    exposed     \* the pending calls that were inside during a gap

gateVars == <<current, gate, pending, answer, exposed>>

GateInit ==
    /\ current = Null
    /\ gate = "unpublished"
    /\ pending = {}
    /\ answer = [c \in Caller |-> Null]
    /\ exposed = {}

\* Whoever is inside while the gate is in a gap has met it.
Gaps == {"unpublished", "withdrawn", "shut"}
Exposure ==
    exposed' = IF gate' \in Gaps THEN pending' ELSE exposed \cap pending'

Stage == current' \in Implementation /\ UNCHANGED <<gate, pending, answer>>
Open ==
    /\ current # Null
    /\ gate # "shut"
    /\ gate' = "open"
    /\ UNCHANGED <<current, pending, answer>>

\* An open gate falls into a gap when its implementation is withdrawn, and
\* leaves it by holding its calls.
Withdraw ==
    /\ current' = Null
    /\ gate' = IF gate = "open" THEN "withdrawn" ELSE gate
    /\ UNCHANGED <<pending, answer>>
Hold ==
    /\ current = Null
    /\ gate # "shut"
    /\ gate' = "held"
    /\ UNCHANGED <<current, pending, answer>>
Shut == gate' = "shut" /\ UNCHANGED <<current, pending, answer>>

Begin(c) ==
    /\ c \notin pending
    /\ pending' = pending \cup {c}
    /\ answer' = [answer EXCEPT ![c] = Null]
    /\ UNCHANGED <<current, gate>>

\* A call ends by invoking what is behind the gate at that moment, or it is
\* refused because it met a gap.
Returns(c, what) ==
    /\ c \in pending
    /\ pending' = pending \ {c}
    /\ answer' = [answer EXCEPT ![c] = what]
    /\ UNCHANGED <<current, gate>>
Invoke(c) == current \in Implementation /\ Returns(c, current)
Refuse(c) == c \in exposed /\ Returns(c, Null)

GateNext ==
    /\ \/ Stage \/ Open \/ Withdraw \/ Hold \/ Shut
       \/ \E c \in Caller : Begin(c) \/ Invoke(c) \/ Refuse(c)
    /\ Exposure

GateSpec == GateInit /\ [][GateNext]_gateVars
=============================================================================
