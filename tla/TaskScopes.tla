------------------------------ MODULE TaskScopes ------------------------------
(***************************************************************************)
(* The structured task scopes of coil_gpui                                 *)
(* (src/experiments/coil_gpui/scheduler.coil) over the slot table of       *)
(* JobSlots.  A scope keeps the handles of the jobs started through it.    *)
(* Its handles go stale as polls deliver jobs and other jobs take over     *)
(* their slots; prune compacts them, cancel closes the scope and passes    *)
(* every handle to scheduler-cancel!.                                      *)
(*                                                                         *)
(* All of it runs on the owner thread, between the callbacks of a poll or  *)
(* inside one, so that each call is one action; only the worker functions  *)
(* run beside it.  Calls that change nothing (a start through a closed     *)
(* scope, a spawn the pool refuses) are left out.                          *)
(***************************************************************************)
EXTENDS JobSlots, FiniteSets

CONSTANTS
    Scope,          \* the task scopes
    NoScope,        \* the owner of a job started without one
    Patience,       \* whether work may wait for its cancellation
    MaxSlots,       \* bound: slots the table grows to
    MaxGeneration   \* bound: jobs a slot is used for

ASSUME ScopeConstants ==
    /\ NoScope \notin Scope /\ NoBlock \notin Block
    /\ Patience \subseteq BOOLEAN
    /\ MaxSlots \in Nat /\ MaxGeneration \in Nat

VARIABLES
    table,      \* the scheduler's slots and its active counter
    scopes,     \* the TaskScopes
    work,       \* the BackgroundWork in each block
    owner,      \* history: the scope each handle was issued through
    asked,      \* history: handles passed to scheduler-cancel! by the program
    withdrawn   \* history: handles whose job a cancellation removed

vars == <<table, scopes, work, owner, asked, withdrawn>>

Handle == [slot : 1 .. MaxSlots, generation : 1 .. MaxGeneration]

ScopeRecord == [handles : Seq(Handle), closed : BOOLEAN]

WorkRecord == [patient : BOOLEAN, cancel : BOOLEAN, done : BOOLEAN]

TypeOK ==
    /\ table \in TableRecord
    /\ scopes \in [Scope -> ScopeRecord]
    /\ work \in [Block -> WorkRecord]
    /\ owner \in [Handle -> Scope \cup {NoScope}]
    /\ asked \subseteq Handle
    /\ withdrawn \subseteq Handle
    /\ table.active = Cardinality({i \in DOMAIN table.jobs : table.jobs[i].kind # "empty"})

Init ==
    /\ table = EmptyTable
    /\ scopes = [sc \in Scope |-> [handles |-> <<>>, closed |-> FALSE]]
    /\ work = [b \in Block |-> [patient |-> FALSE, cancel |-> FALSE, done |-> FALSE]]
    /\ owner = [h \in Handle |-> NoScope]
    /\ asked = {}
    /\ withdrawn = {}

-----------------------------------------------------------------------------
\* A new job of some kind; work gets a block of its own, flags cleared.
Room == HandleFor(table) \in Handle

FreeBlocks == Block \ {table.jobs[i].background : i \in WorkSlots(table)}

Start ==
    /\ Room
    /\ \/ /\ \/ table' = Activate(table, "immediate", 0, NoBlock)
             \/ \E d \in Deadlines : table' = Activate(table, "timer", d, NoBlock)
          /\ UNCHANGED work
       \/ \E b \in FreeBlocks, patient \in Patience :
             /\ table' = Activate(table, "work", 0, b)
             /\ work' = [work EXCEPT ![b] = [patient |-> patient, cancel |-> FALSE,
                                             done |-> FALSE]]

\* scheduler-dispatch!, scheduler-at! or scheduler-spawn! without a scope.
StartOutside ==
    /\ Start
    /\ UNCHANGED <<scopes, owner, asked, withdrawn>>

\* task-scope-dispatch!, -after!, -spawn! and -spawn-priority! of an open scope,
\* with task-scope-track!.
StartIn(sc) ==
    /\ ~scopes[sc].closed
    /\ Start
    /\ scopes' = [scopes EXCEPT ![sc].handles = Append(@, HandleFor(table))]
    /\ owner' = [owner EXCEPT ![HandleFor(table)] = sc]
    /\ UNCHANGED <<asked, withdrawn>>

-----------------------------------------------------------------------------
\* task-scope-prune!: one pass over the handles. The live ones move down to
\* write, which starts below them and counts them; the length is cut last.
KeepHandleInPlace(s, pass, read) ==
    IF Live(s, pass.handles[read])
    THEN [pass EXCEPT !.write = @ + 1]
    ELSE pass

KeepHandle(s, pass, read) ==
    IF Live(s, pass.handles[read])
    THEN [handles |-> [pass.handles EXCEPT ![pass.write + 1] = pass.handles[read]],
          write |-> pass.write + 1]
    ELSE pass

PruneCut(pass) == SubSeq(pass.handles, 1, pass.write)

Pruned(s, handles) ==
    LET after[n \in 0 .. Len(handles)] ==
            IF n = 0 THEN [handles |-> handles, write |-> 0]
            ELSE KeepHandle(s, after[n - 1], n)
    IN  PruneCut(after[Len(handles)])

Prune(sc) ==
    /\ scopes' = [scopes EXCEPT ![sc].handles = Pruned(table, @)]
    /\ UNCHANGED <<table, work, owner, asked, withdrawn>>

-----------------------------------------------------------------------------
\* scheduler-cancel! of a set of handles: live work is flagged, any other live
\* job is removed, a stale handle does nothing.
Foreground(s, hs) == {h \in hs : Live(s, h) /\ s.jobs[h.slot].kind # "work"}

FlaggedNone(s, hs) == {}

Flagged(s, hs) ==
    {s.jobs[h.slot].background : h \in {k \in hs : Live(s, k) /\ s.jobs[k.slot].kind = "work"}}

\* The removals touch different slots, so their order does not matter.
WithoutJobs(s, slots) ==
    [jobs |-> [i \in DOMAIN s.jobs |->
                 IF i \in slots THEN EmptyJob(s.jobs[i].generation) ELSE s.jobs[i]],
     active |-> s.active - Cardinality(slots)]

CancelHandles(hs) ==
    LET gone == Foreground(table, hs)
    IN  /\ table' = WithoutJobs(table, {h.slot : h \in gone})
        /\ withdrawn' = withdrawn \cup gone
        /\ work' = [b \in Block |-> IF b \in Flagged(table, hs)
                                    THEN [work[b] EXCEPT !.cancel = TRUE] ELSE work[b]]

\* scheduler-cancel! by the program, of any handle it was ever given.
Cancel(h) ==
    /\ Issued(table, h)
    /\ CancelHandles({h})
    /\ asked' = asked \cup {h}
    /\ UNCHANGED <<scopes, owner>>

\* task-scope-cancel!, and the same call in task-scope-free!.
CancelScope(sc) ==
    /\ CancelHandles({scopes[sc].handles[i] : i \in DOMAIN scopes[sc].handles})
    /\ scopes' = [scopes EXCEPT ![sc] = [handles |-> <<>>, closed |-> TRUE]]
    /\ UNCHANGED <<owner, asked>>

-----------------------------------------------------------------------------
\* The worker function of b returns; patient work does when it is cancelled.
WorkerReturns(b) ==
    /\ b \notin FreeBlocks /\ ~work[b].done
    /\ work[b].patient => work[b].cancel
    /\ work' = [work EXCEPT ![b].done = TRUE]
    /\ UNCHANGED <<table, scopes, owner, asked, withdrawn>>

\* A poll reaches slot i and delivers its job, which empties the slot. A timer
\* may be due at any poll.
Deliver(i) ==
    /\ i \in DOMAIN table.jobs
    /\ \/ table.jobs[i].kind \in {"immediate", "timer"}
       \/ table.jobs[i].kind = "work" /\ work[table.jobs[i].background].done
    /\ table' = EmptySlot(table, i)
    /\ UNCHANGED <<scopes, work, owner, asked, withdrawn>>

Next ==
    \/ StartOutside
    \/ \E sc \in Scope : StartIn(sc) \/ Prune(sc) \/ CancelScope(sc)
    \/ \E h \in Handle : Cancel(h)
    \/ \E b \in Block : WorkerReturns(b)
    \/ \E i \in 1 .. MaxSlots : Deliver(i)

Spec == Init /\ [][Next]_vars

\* Work that may return does, and the program polls again and again.
FairSpec ==
    /\ Spec
    /\ \A b \in Block : WF_vars(WorkerReturns(b))
    /\ \A i \in 1 .. MaxSlots : WF_vars(Deliver(i))

-----------------------------------------------------------------------------
(* Properties. *)

LiveOf(sc) == {h \in Handle : owner[h] = sc /\ Live(table, h)}

Tracked(sc) == {scopes[sc].handles[i] : i \in DOMAIN scopes[sc].handles}

\* While a scope is open none of its jobs escapes it: however often it was
\* pruned and its slots reused, the handle of each live one is there.
ScopeCovers ==
    \A sc \in Scope : ~scopes[sc].closed => LiveOf(sc) \subseteq Tracked(sc)

\* Cancellation reaches exactly what it is meant for.  What is left of a closed
\* scope is background work that was told to stop, and nothing joins it; and
\* the stale handles a scope keeps until it is pruned never hit the job that
\* took over the slot: a job is cancelled only through its own scope or handle.
Cancelled(h) ==
    /\ Live(table, h) /\ table.jobs[h.slot].kind = "work"
    /\ work[table.jobs[h.slot].background].cancel

CancelExact ==
    \A h \in Handle :
        LET closed == owner[h] # NoScope /\ scopes[owner[h]].closed
        IN  /\ closed /\ Live(table, h) => Cancelled(h)
            /\ h \in withdrawn \/ Cancelled(h) => h \in asked \/ closed

\* A closed scope drains: also work that runs until it is cancelled ends.
ScopeDrains ==
    \A sc \in Scope : scopes[sc].closed ~> LiveOf(sc) = {}
=============================================================================
