------------------------------ MODULE ManualLive ------------------------------
(***************************************************************************)
(* The manual-live runtime (src/experiments/manual-live/runtime.coil):     *)
(* program threads that use payloads inside leases and borrows, and a      *)
(* controller that moves all payloads of a type to another schema.         *)
(*                                                                         *)
(* One type with one reference to its own type, as in main.coil.  Every    *)
(* atomic access of the gate is an action; inside it the controller works  *)
(* alone, one handle at a time while borrows may still be released, and in *)
(* one step for each later pass over the staged handles.  Allocation,      *)
(* transitions and validation may fail.  Slices with their relocations,    *)
(* roots and the dependency table are left out.                            *)
(*                                                                         *)
(* The program keeps these rules: it creates, links and borrows inside a   *)
(* lease, new values have the accepted schema, the runtime is destroyed    *)
(* when nobody uses it any more, and one thread creates (OneCreator).  The *)
(* last one is stated nowhere in the source, whose programs and tests all  *)
(* create from one thread; but leases are shared and handle-new! takes no  *)
(* lock.  Instantiated with two creators, without that assumption, a       *)
(* handle is overwritten in the table and its payload is lost.             *)
(***************************************************************************)
EXTENDS Integers, FiniteSets

CONSTANTS
    Thread,         \* program threads
    Creators,       \* those that call handle-new!
    MaxHandles,     \* bound: MAX_HANDLES
    Payload,        \* payload addresses; the allocator may hand them out again
    Null,
    Schemas,        \* schema ids of the type, the first one is 1
    Transitions,    \* the registered <<from-schema, to-schema>>
    MaxEpoch        \* bound: successful migrations

ASSUME RuntimeConstants ==
    /\ IsFiniteSet(Thread) /\ IsFiniteSet(Payload) /\ Creators \subseteq Thread
    /\ MaxHandles \in Nat /\ MaxEpoch \in Nat
    /\ Null \notin Payload
    /\ Schemas \subseteq Nat \ {0} /\ 1 \in Schemas
    /\ Transitions \subseteq Schemas \X Schemas

ASSUME OneCreator == \A t, u \in Creators : t = u

VARIABLES
    gate,       \* Runtime.writer and Runtime.readers
    version,    \* the accepted schema, that of new values, the epoch, and
                \* handle-count
    handles,    \* the Handle at each index; schema 0 before handle-new!
    memory,     \* what is at each payload address
    thread,     \* where each thread is, the handle and payload it borrows, and
                \* the payload of the handle it is creating
    job         \* where the controller is in migrate-type! or runtime-destroy!

vars == <<gate, version, handles, memory, thread, job>>

Handle == 1 .. MaxHandles

HandleRecord ==
    [schema : Schemas \cup {0}, payload : Payload \cup {Null}, borrows : Int]

PayloadRecord == [used : BOOLEAN, ref : Payload \cup {Null}]

\* "entering", "seen", "counted", "refused": inside enter!; "in": in a lease.
\* fresh is not Null inside handle-new!; stored: the handle is in the table.
ThreadRecord ==
    [at : {"out", "entering", "seen", "counted", "refused", "in"},
     borrows : Handle \cup {0}, payload : Payload \cup {Null},
     fresh : Payload \cup {Null}, stored : BOOLEAN]

\* staged maps the handles staged so far to their candidate payloads.
JobPlaces ==
    {"idle", "pausing", "draining", "staging", "publishing", "retiring",
     "aborting", "resuming", "destroyed"}

NoHandle == [schema |-> 0, payload |-> Null, borrows |-> 0]
NoneStaged == [h \in Handle |-> Null]
IdleJob == [at |-> "idle", target |-> 1, next |-> 1, staged |-> NoneStaged,
            old |-> NoneStaged]

TypeOK ==
    /\ gate \in [writer : {0, 1}, readers : Int]
    /\ version \in [schema : Schemas, epoch : Nat, count : Nat]
    /\ handles \in [Handle -> HandleRecord]
    /\ \A h \in Handle : handles[h].schema # 0 => handles[h].payload \in Payload
    /\ memory \in [Payload -> PayloadRecord]
    /\ thread \in [Thread -> ThreadRecord]
    /\ job \in [at : JobPlaces, target : Schemas, next : Nat,
                staged : [Handle -> Payload \cup {Null}],
                old : [Handle -> Payload \cup {Null}]]

Init ==
    /\ gate = [writer |-> 0, readers |-> 0]
    /\ version = [schema |-> 1, epoch |-> 0, count |-> 0]
    /\ handles = [h \in Handle |-> NoHandle]
    /\ memory = [p \in Payload |-> [used |-> FALSE, ref |-> Null]]
    /\ thread = [t \in Thread |-> [at |-> "out", borrows |-> 0, payload |-> Null,
                                  fresh |-> Null, stored |-> FALSE]]
    /\ job = IdleJob

Created == {h \in Handle : h <= version.count}

\* What allocate-payload may return.
Unused == {p \in Payload : ~memory[p].used}

-----------------------------------------------------------------------------
(* enter! and exit!. *)

Goes(t, from, to) ==
    /\ thread[t].at = from
    /\ thread' = [thread EXCEPT ![t].at = to]

EnterBegin(t) ==
    /\ job.at # "destroyed"
    /\ Goes(t, "out", "entering")
    /\ UNCHANGED <<gate, version, handles, memory, job>>

\* The spin ends when no writer is seen,
EnterSees(t) ==
    /\ gate.writer = 0
    /\ Goes(t, "entering", "seen")
    /\ UNCHANGED <<gate, version, handles, memory, job>>

\* the thread counts itself,
EnterCounts(t) ==
    /\ Goes(t, "seen", "counted")
    /\ gate' = [gate EXCEPT !.readers = @ + 1]
    /\ UNCHANGED <<version, handles, memory, job>>

\* A reader that relies on its first look.
EnterTrusting(t) ==
    /\ Goes(t, "counted", "in")
    /\ UNCHANGED <<gate, version, handles, memory, job>>

\* and looks again: a writer that came in between makes it start over.
EnterLooks(t) ==
    /\ Goes(t, "counted", IF gate.writer = 0 THEN "in" ELSE "refused")
    /\ UNCHANGED <<gate, version, handles, memory, job>>

\* A reader that backs off without taking back its count.
EnterStaysCounted(t) ==
    /\ Goes(t, "refused", "entering")
    /\ UNCHANGED <<gate, version, handles, memory, job>>

EnterBacksOff(t) ==
    /\ Goes(t, "refused", "entering")
    /\ gate' = [gate EXCEPT !.readers = @ - 1]
    /\ UNCHANGED <<version, handles, memory, job>>

Exit(t) ==
    /\ thread[t].fresh = Null
    /\ Goes(t, "in", "out")
    /\ gate' = [gate EXCEPT !.readers = @ - 1]
    /\ UNCHANGED <<version, handles, memory, job>>

-----------------------------------------------------------------------------
(* What a thread does inside its lease, and the release of a borrow, which  *)
(* may come after it.                                                        *)

\* Not inside handle-new!, which the thread leaves before it goes on.
Working(t) == thread[t].at = "in" /\ thread[t].fresh = Null

\* handle-new!: there is room in the table and memory for the payload,
NewAllocates(t) ==
    /\ t \in Creators /\ Working(t)
    /\ version.count < MaxHandles
    /\ \E p \in Unused :
        /\ memory' = [memory EXCEPT ![p] = [used |-> TRUE, ref |-> Null]]
        /\ thread' = [thread EXCEPT ![t].fresh = p]
    /\ UNCHANGED <<gate, version, handles, job>>

Freed(addresses) ==
    memory' = [p \in Payload |->
                IF p \in addresses THEN [used |-> FALSE, ref |-> Null] ELSE memory[p]]

\* but perhaps none for the Handle, and the payload is given back.
NewFails(t) ==
    /\ thread[t].fresh # Null /\ ~thread[t].stored
    /\ Freed({thread[t].fresh})
    /\ thread' = [thread EXCEPT ![t].fresh = Null]
    /\ UNCHANGED <<gate, version, handles, job>>

\* The handle is stored at the index handle-count has by then,
NewStores(t) ==
    /\ thread[t].fresh # Null /\ ~thread[t].stored
    /\ handles' = [handles EXCEPT ![version.count + 1] =
                    [schema |-> version.schema, payload |-> thread[t].fresh, borrows |-> 0]]
    /\ thread' = [thread EXCEPT ![t].stored = TRUE]
    /\ UNCHANGED <<gate, version, memory, job>>

\* and handle-count moves on.
NewCounts(t) ==
    /\ thread[t].stored
    /\ version' = [version EXCEPT !.count = @ + 1]
    /\ thread' = [thread EXCEPT ![t].fresh = Null, ![t].stored = FALSE]
    /\ UNCHANGED <<gate, handles, memory, job>>

\* The program stores the payload address of a handle in a reference field.
Link(t, h, g) ==
    /\ Working(t)
    /\ h \in Created /\ g \in Created
    /\ memory' = [memory EXCEPT ![handles[h].payload].ref = handles[g].payload]
    /\ UNCHANGED <<gate, version, handles, thread, job>>

\* handle-borrow!; the model gives each thread one borrow at a time.
Borrow(t, h) ==
    /\ Working(t) /\ thread[t].borrows = 0
    /\ h \in Created
    /\ handles' = [handles EXCEPT ![h].borrows = @ + 1]
    /\ thread' = [thread EXCEPT ![t].borrows = h, ![t].payload = handles[h].payload]
    /\ UNCHANGED <<gate, version, memory, job>>

\* handle-release-borrow!.
Release(t) ==
    /\ thread[t].borrows # 0 /\ thread[t].fresh = Null
    /\ handles' = [handles EXCEPT ![thread[t].borrows].borrows =
                    IF @ <= 0 THEN @ ELSE @ - 1]
    /\ thread' = [thread EXCEPT ![t].borrows = 0, ![t].payload = Null]
    /\ UNCHANGED <<gate, version, memory, job>>

-----------------------------------------------------------------------------
(* migrate-type!. *)

MigrateBegin(target) ==
    /\ job.at = "idle" /\ version.epoch < MaxEpoch
    /\ job' = [IdleJob EXCEPT !.at = "pausing", !.target = target]
    /\ UNCHANGED <<gate, version, handles, memory, thread>>

\* pause!: the writer is set, then the readers are waited for.
Pause ==
    /\ job.at = "pausing" /\ gate.writer = 0
    /\ gate' = [gate EXCEPT !.writer = 1]
    /\ job' = [job EXCEPT !.at = "draining"]
    /\ UNCHANGED <<version, handles, memory, thread>>

Drained ==
    /\ job.at = "draining" /\ gate.readers = 0
    /\ job' = [job EXCEPT !.at = "staging"]
    /\ UNCHANGED <<gate, version, handles, memory, thread>>

\* Pass 1 at the next handle of the array.
Stages == job.at = "staging" /\ job.next \in Created

Moves(h) == handles[h].schema # job.target

StageSkip ==
    /\ Stages /\ ~Moves(job.next)
    /\ job' = [job EXCEPT !.next = @ + 1]
    /\ UNCHANGED <<gate, version, handles, memory, thread>>

\* A borrowed handle or a missing transition stops the migration; and it may
\* stop for want of memory or because the transition says so.
MayStage(h) ==
    /\ handles[h].borrows <= 0
    /\ <<handles[h].schema, job.target>> \in Transitions

StageFails ==
    /\ Stages /\ Moves(job.next)
    /\ job' = [job EXCEPT !.at = "aborting"]
    /\ UNCHANGED <<gate, version, handles, memory, thread>>

\* The candidate still holds the old payload's reference.
Stage ==
    /\ Stages /\ Moves(job.next) /\ MayStage(job.next)
    /\ \E p \in Unused :
        /\ memory' = [memory EXCEPT ![p] =
                        [used |-> TRUE, ref |-> memory[handles[job.next].payload].ref]]
        /\ job' = [job EXCEPT !.next = @ + 1, !.staged[job.next] = p,
                              !.old[job.next] = handles[job.next].payload]
    /\ UNCHANGED <<gate, version, handles, thread>>

Staged == {h \in Handle : job.staged[h] # Null}
Candidates == {job.staged[h] : h \in Staged}

\* References that are copied as they are.
ForwardNothing(p) == p

\* staged-forward: the candidate of an old payload; other references stay.
Forward(p) ==
    IF \E h \in Staged : job.old[h] = p
    THEN job.staged[CHOOSE h \in Staged : job.old[h] = p]
    ELSE p

Resolved ==
    \A h \in Staged : LET p == memory[job.staged[h]].ref
                      IN  p = Null \/ \E g \in Staged : job.old[g] = p

\* Pass 2 and validation of the rewritten candidates; a reference that cannot
\* be forwarded stops the migration.
Rewrite ==
    /\ job.at = "staging" /\ job.next \notin Created
    /\ memory' = [p \in Payload |->
                    IF p \in Candidates THEN [memory[p] EXCEPT !.ref = Forward(@)]
                    ELSE memory[p]]
    /\ \E next \in {"aborting"} \cup (IF Resolved THEN {"publishing"} ELSE {}) :
          job' = [job EXCEPT !.at = next]
    /\ UNCHANGED <<gate, version, handles, thread>>

\* Publication: the headers first,
Publish ==
    /\ job.at = "publishing"
    /\ handles' = [h \in Handle |->
                    IF h \in Staged
                    THEN [handles[h] EXCEPT !.schema = job.target, !.payload = job.staged[h]]
                    ELSE handles[h]]
    /\ version' = [version EXCEPT !.schema = job.target]
    /\ job' = [job EXCEPT !.at = "retiring"]
    /\ UNCHANGED <<gate, memory, thread>>

\* then the old allocations are retired.
Retire ==
    /\ job.at = "retiring"
    /\ Freed({job.old[h] : h \in Staged})
    /\ version' = [version EXCEPT !.epoch = @ + 1]
    /\ job' = [job EXCEPT !.at = "resuming", !.staged = NoneStaged, !.old = NoneStaged]
    /\ UNCHANGED <<gate, handles, thread>>

\* An abort that forgets what it staged.
AbortKeeping ==
    /\ job.at = "aborting"
    /\ job' = [job EXCEPT !.at = "resuming", !.staged = NoneStaged, !.old = NoneStaged]
    /\ UNCHANGED <<gate, version, handles, memory, thread>>

\* abort-staged!: every candidate is freed.
Abort ==
    /\ job.at = "aborting"
    /\ Freed(Candidates)
    /\ job' = [job EXCEPT !.at = "resuming", !.staged = NoneStaged, !.old = NoneStaged]
    /\ UNCHANGED <<gate, version, handles, thread>>

\* resume!.
Resume ==
    /\ job.at = "resuming"
    /\ gate' = [gate EXCEPT !.writer = 0]
    /\ job' = IdleJob
    /\ UNCHANGED <<version, handles, memory, thread>>

\* runtime-destroy!, with nobody left who uses it.
Destroy ==
    /\ job.at = "idle"
    /\ \A t \in Thread : thread[t].at = "out" /\ thread[t].borrows = 0
    /\ Freed({handles[h].payload : h \in Created})
    /\ handles' = [h \in Handle |-> NoHandle]
    /\ version' = [version EXCEPT !.count = 0]
    /\ job' = [IdleJob EXCEPT !.at = "destroyed"]
    /\ UNCHANGED <<gate, thread>>

-----------------------------------------------------------------------------
EnterStep(t) == EnterSees(t) \/ EnterCounts(t) \/ EnterLooks(t) \/ EnterBacksOff(t)

NewStep(t) == NewFails(t) \/ NewStores(t) \/ NewCounts(t)

JobStep ==
    \/ Pause \/ Drained \/ StageSkip \/ StageFails \/ Stage \/ Rewrite
    \/ Publish \/ Retire \/ Abort \/ Resume

Next ==
    \/ \E t \in Thread :
          \/ EnterBegin(t) \/ EnterStep(t) \/ Exit(t) \/ Release(t)
          \/ NewAllocates(t) \/ NewStep(t)
          \/ \E h \in Handle : Borrow(t, h)
          \/ \E h, g \in Handle : Link(t, h, g)
    \/ \E target \in Schemas : MigrateBegin(target)
    \/ JobStep
    \/ Destroy

Spec == Init /\ [][Next]_vars

\* Threads run and leave their leases, however often they create in one;
\* nothing makes them enter, create, release or migrate.
FairSpec ==
    /\ Spec
    /\ \A t \in Thread : WF_vars(EnterStep(t) \/ NewStep(t)) /\ SF_vars(Exit(t))
    /\ WF_vars(JobStep)
-----------------------------------------------------------------------------
(* Properties. *)

\* Between pause! and resume! no thread is in a lease, whatever the order in
\* which readers count themselves and the writer is set.
Exclusive ==
    {"staging", "publishing", "retiring", "aborting", "resuming"}

LeaseExcludes ==
    job.at \in Exclusive => \A t \in Thread : thread[t].at # "in"

\* What is allocated is what handles own, what a creation under way has
\* allocated and, during a migration, its candidates and the payloads it
\* replaces: a migration that fails half-way frees each candidate, one that
\* succeeds frees each old payload, a creation that fails frees its payload
\* and one that ends has it in the table, and no reference of an accepted
\* payload names freed memory.  The part about creations needs OneCreator.
Owned ==
    LET live == {handles[h].payload : h \in Created}
        retired == IF job.at = "retiring" THEN {job.old[h] : h \in Staged} ELSE {}
        fresh == {thread[t].fresh : t \in Thread} \ {Null}
    IN  /\ {p \in Payload : memory[p].used} = live \cup fresh \cup Candidates \cup retired
        /\ \A h, g \in Created : handles[h].payload = handles[g].payload => h = g
        /\ live \cap fresh = {}
        /\ \A p \in live : memory[p].ref \in live \cup {Null}

\* A step that is not part of a lease holder's own work changes nothing a lease
\* holder relies on: no payload or schema moves while a thread is in its lease.
LeaseStable ==
    [][\A t \in Thread : thread[t].at = "in" =>
          \A h \in Created : /\ handles'[h].payload = handles[h].payload
                             /\ handles'[h].schema = handles[h].schema]_vars

\* The runtime implements the LiveGraph; a link is the handle that owns the
\* payload a reference names.
LinkOf(h) ==
    LET p == IF h \in Created THEN memory[handles[h].payload].ref ELSE Null
    IN  IF p = Null \/ \A g \in Created : handles[g].payload # p THEN 0
        ELSE CHOOSE g \in Created : handles[g].payload = p

Graph == INSTANCE LiveGraph
         WITH Schema <- Schemas,
              schema <- [h \in Handle |-> IF h \in Created THEN handles[h].schema ELSE 0],
              link <- [h \in Handle |-> LinkOf(h)],
              leased <- {t \in Thread : thread[t].at = "in"},
              borrowed <- [t \in Thread |-> thread[t].borrows]

GraphKept == Graph!GraphSpec

\* A migration ends although readers keep coming: who comes late backs off.
MigrationEnds == (job.at = "pausing") ~> (job.at \in {"idle", "destroyed"})
=============================================================================
