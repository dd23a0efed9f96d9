----------------------------- MODULE JobLifecycle -----------------------------
(***************************************************************************)
(* What a gpui Scheduler promises about a job, whatever threads run it: a  *)
(* handle is given to one job, and the job ends in exactly one way.  It is *)
(* delivered (its callback or completion is called once), or withdrawn by  *)
(* a cancellation of its own handle, or dropped with the whole scheduler.  *)
(* Background work is never withdrawn: its cancellation is cooperative and *)
(* its completion is still delivered.                                      *)
(***************************************************************************)
CONSTANT Handle

VARIABLES
    fate,       \* where each handle stands
    background, \* the handles that were given to background work
    asked,      \* the handles a cancellation was asked for
    open        \* the scheduler has not been freed

vars == <<fate, background, asked, open>>

Fates == {"none", "pending", "delivered", "withdrawn", "dropped"}

Init ==
    /\ fate = [h \in Handle |-> "none"]
    /\ background = {}
    /\ asked = {}
    /\ open = TRUE

Issue(h) ==
    /\ open
    /\ fate[h] = "none"
    /\ fate' = [fate EXCEPT ![h] = "pending"]
    /\ background' \in {background, background \cup {h}}
    /\ UNCHANGED <<asked, open>>

Deliver(h) ==
    /\ open
    /\ fate[h] = "pending"
    /\ fate' = [fate EXCEPT ![h] = "delivered"]
    /\ UNCHANGED <<background, asked, open>>

\* A cancellation of h touches h alone.
Ask(h) ==
    /\ open
    /\ fate[h] # "none"
    /\ asked' = asked \cup {h}
    /\ fate' = IF fate[h] = "pending" /\ h \notin background
               THEN [fate EXCEPT ![h] = "withdrawn"] ELSE fate
    /\ UNCHANGED <<background, open>>

Close ==
    /\ open
    /\ open' = FALSE
    /\ fate' = [h \in Handle |-> IF fate[h] = "pending" THEN "dropped" ELSE fate[h]]
    /\ UNCHANGED <<background, asked>>

Next ==
    \/ \E h \in Handle : Issue(h) \/ Deliver(h) \/ Ask(h)
    \/ Close

Spec == Init /\ [][Next]_vars
=============================================================================
