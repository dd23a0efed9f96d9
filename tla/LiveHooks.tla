------------------------------ MODULE LiveHooks -------------------------------
(***************************************************************************)
(* The code-change hook of a live program                                  *)
(* (src/experiments/live-hooks/hooks.coil): the publisher counts           *)
(* generations, and the program's own thread runs the hook from pump!.     *)
(***************************************************************************)
EXTENDS Integers

VARIABLES
    hooks,      \* the Hooks cell of the process
    pump,       \* where the program's thread is in pump!, and what it loaded
    told        \* history: the epoch that was current when the hook last ran

hookVars == <<hooks, pump, told>>

HooksTypeOK ==
    /\ hooks \in [registered : BOOLEAN, generation : Nat, served : Nat]
    /\ pump \in [at : {"idle", "loaded", "calling"}, current : Nat]
    /\ told \in Nat

NoPump == [at |-> "idle", current |-> 0]

HooksInit ==
    /\ hooks = [registered |-> FALSE, generation |-> 0, served |-> 0]
    /\ pump = NoPump
    /\ told = 0

\* A flag instead of a count.
NoteFlag(h) == [h EXCEPT !.generation = 1]

\* note-code-change!, on the publisher's thread.
Note(h) == [h EXCEPT !.generation = @ + 1]

\* on-code-change! and clear-code-change-hook!, on the program's thread.
Register ==
    /\ pump.at = "idle"
    /\ hooks' = [hooks EXCEPT !.registered = ~@]
    /\ UNCHANGED <<pump, told>>

\* pump!: the generation is loaded,
PumpLoad ==
    /\ pump.at = "idle" /\ hooks.generation # hooks.served
    /\ pump' = [at |-> "loaded", current |-> hooks.generation]
    /\ UNCHANGED <<hooks, told>>

\* stored as served whether or not there is a hook,
PumpServe ==
    /\ pump.at = "loaded"
    /\ hooks' = [hooks EXCEPT !.served = pump.current]
    /\ pump' = IF hooks.registered THEN [pump EXCEPT !.at = "calling"] ELSE NoPump
    /\ UNCHANGED told

\* and the hook is called; it runs code of the current epoch.
PumpCall(epoch) ==
    /\ pump.at = "calling"
    /\ told' = epoch
    /\ pump' = NoPump
    /\ UNCHANGED hooks

PumpStep(epoch) == PumpLoad \/ PumpServe \/ PumpCall(epoch)
=============================================================================
