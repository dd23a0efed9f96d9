------------------------------ MODULE LiveGraph -------------------------------
(***************************************************************************)
(* What the manual-live runtime promises about live values                 *)
(* (src/experiments/manual-live/README.md, Demonstrated protocol), without *)
(* payload addresses, staging or the gate: handles with a schema and a     *)
(* link to another handle, threads that lease the graph or borrow one of   *)
(* its values, and a migration that changes every schema in one step.      *)
(***************************************************************************)
EXTENDS Integers

CONSTANTS Thread, Handle, Schema, Transitions

VARIABLES
    schema,     \* the schema of every handle; 0 before it exists
    link,       \* the handle its reference names; 0 for none
    leased,     \* the threads inside a lease
    borrowed    \* the handle each thread borrows; 0 for none

graphVars == <<schema, link, leased, borrowed>>

Exists == {h \in Handle : schema[h] # 0}

GraphInit ==
    /\ schema = [h \in Handle |-> 0]
    /\ link = [h \in Handle |-> 0]
    /\ leased = {}
    /\ borrowed = [t \in Thread |-> 0]

Enter(t) == leased' = leased \cup {t} /\ UNCHANGED <<schema, link, borrowed>>
Exit(t) == leased' = leased \ {t} /\ UNCHANGED <<schema, link, borrowed>>

\* Values are created, linked and borrowed inside a lease only.
New(h) ==
    /\ leased # {} /\ h \notin Exists
    /\ \E s \in Schema : schema' = [schema EXCEPT ![h] = s]
    /\ UNCHANGED <<link, leased, borrowed>>

Link(h, g) ==
    /\ leased # {} /\ h \in Exists /\ g \in Exists \cup {0}
    /\ link' = [link EXCEPT ![h] = g]
    /\ UNCHANGED <<schema, leased, borrowed>>

Borrow(t, h) ==
    /\ t \in leased /\ h \in Exists
    /\ borrowed' = [borrowed EXCEPT ![t] = h]
    /\ UNCHANGED <<schema, link, leased>>

Release(t) ==
    /\ borrowed' = [borrowed EXCEPT ![t] = 0]
    /\ UNCHANGED <<schema, link, leased>>

\* All or nothing, with nobody inside and no value that moves borrowed; every
\* link names the same handle afterwards, so sharing and cycles survive.
Migrate(target) ==
    LET moved == {h \in Exists : schema[h] # target}
    IN  /\ leased = {}
        /\ \A t \in Thread : borrowed[t] \notin moved
        /\ \A h \in moved : <<schema[h], target>> \in Transitions
        /\ schema' = [h \in Handle |-> IF h \in moved THEN target ELSE schema[h]]
        /\ UNCHANGED <<link, leased, borrowed>>

\* The runtime ends.
Destroy ==
    /\ leased = {}
    /\ \A t \in Thread : borrowed[t] = 0
    /\ schema' = [h \in Handle |-> 0]
    /\ link' = [h \in Handle |-> 0]
    /\ UNCHANGED <<leased, borrowed>>

GraphNext ==
    \/ \E t \in Thread : Enter(t) \/ Exit(t) \/ Release(t)
    \/ \E h \in Handle : New(h)
    \/ \E h \in Handle, g \in Handle \cup {0} : Link(h, g)
    \/ \E t \in Thread, h \in Handle : Borrow(t, h)
    \/ \E target \in Schema : Migrate(target)
    \/ Destroy

GraphSpec == GraphInit /\ [][GraphNext]_graphVars
=============================================================================
