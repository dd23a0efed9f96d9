-------------------------------- MODULE Futures --------------------------------
(***************************************************************************)
(* The typed futures of coil_gpui (src/experiments/coil_gpui/future.coil)  *)
(* over the job service that JobLifecycle describes.  A FutureCore is      *)
(* shared by two parties, the background job whose completion fills it and *)
(* the Future handle, and the last of them to let go destroys it together  *)
(* with a result nobody took.                                              *)
(*                                                                         *)
(* The completion runs on the owner thread, in a poll.  A Future may be    *)
(* taken from or dropped on another thread while it does (the fields are   *)
(* atomic and neither call needs the scheduler), so a completion's stores  *)
(* and both releases are steps of their own.                               *)
(***************************************************************************)
EXTENDS Integers, FiniteSets

CONSTANTS
    Core,       \* one per future-spawn! call; a core is also its future, its
                \* job and the result its worker may return
    NoCore      \* no completion is running

ASSUME NoCoreIsNone == NoCore \notin Core

VARIABLES
    core,       \* the FutureCore of each call
    handle,     \* the Future: "none", "held", "releasing" (its core pointer
                \* is null, its reference still counted)
    job,        \* the background job
    value,      \* what became of the result the worker returned
    completing, \* the completion a poll is in: its core, step and arguments
    closed      \* scheduler-free! has returned

futureVars == <<core, handle, job, value, completing, closed>>

\* FutureCore: its memory, its fields; filled: result is not null.
CoreRecord ==
    [memory : {"unused", "live", "freed"},
     state : {"pending", "ready", "cancelled"},
     references : 0..2, filled : BOOLEAN]

\* "queued": queued or running; "done": published, not polled; "lost": freed
\* with the scheduler, its completion never called.
FutureJobRecord ==
    [at : {"none", "queued", "done", "over", "lost"}, cancel : BOOLEAN]

\* "passed": returned by the worker and owned by job or core; ends counts how
\* often it was taken or destroyed.
ValueRecord == [at : {"none", "passed", "taken", "destroyed"}, ends : Nat]

Idle == [core |-> NoCore, step |-> "idle", accepted |-> FALSE]

FuturesTypeOK ==
    /\ core \in [Core -> CoreRecord]
    /\ handle \in [Core -> {"none", "held", "releasing"}]
    /\ job \in [Core -> FutureJobRecord]
    /\ value \in [Core -> ValueRecord]
    /\ completing \in [core : Core \cup {NoCore}, accepted : BOOLEAN,
                       step : {"idle", "fill", "publish", "release"}]
    /\ closed \in BOOLEAN

FuturesInit ==
    /\ core = [c \in Core |-> [memory |-> "unused", state |-> "pending",
                               references |-> 0, filled |-> FALSE]]
    /\ handle = [c \in Core |-> "none"]
    /\ job = [c \in Core |-> [at |-> "none", cancel |-> FALSE]]
    /\ value = [c \in Core |-> [at |-> "none", ends |-> 0]]
    /\ completing = Idle
    /\ closed = FALSE

-----------------------------------------------------------------------------
\* The owner thread is between completions.
OwnerRuns == completing = Idle

Ended(v, how) == [at |-> how, ends |-> v.ends + 1]

\* The core after one reference is dropped, and the value after that: the last
\* release frees the core and destroys a result still in it.
LastReference(k) == k.references = 1

Released(k) ==
    [k EXCEPT !.references = @ - 1,
              !.memory = IF LastReference(k) THEN "freed" ELSE @]

ValueAfterRelease(k, v) ==
    IF LastReference(k) /\ k.filled THEN Ended(v, "destroyed") ELSE v

\* future-spawn! with a scheduler that takes the job: one reference for the
\* job, one for the handle.
Spawn(c) ==
    /\ OwnerRuns /\ ~closed
    /\ core[c].memory = "unused"
    /\ core' = [core EXCEPT ![c] = [memory |-> "live", state |-> "pending",
                                    references |-> 2, filled |-> FALSE]]
    /\ job' = [job EXCEPT ![c].at = "queued"]
    /\ handle' = [handle EXCEPT ![c] = "held"]
    /\ UNCHANGED <<value, completing, closed>>

\* ... and with one that does not (no workers, no memory, already freed): both
\* references are released again and the Future is null.
SpawnRefusedOnce(c) ==
    /\ OwnerRuns
    /\ core[c].memory = "unused"
    /\ core' = [core EXCEPT ![c] = Released(
                    [memory |-> "live", state |-> "pending",
                     references |-> 2, filled |-> FALSE])]
    /\ UNCHANGED <<handle, job, value, completing, closed>>

SpawnRefused(c) ==
    /\ OwnerRuns
    /\ core[c].memory = "unused"
    /\ core' = [core EXCEPT ![c] = Released(Released(
                    [memory |-> "live", state |-> "pending",
                     references |-> 2, filled |-> FALSE]))]
    /\ UNCHANGED <<handle, job, value, completing, closed>>

\* The worker function returns an owned value, or zero, cancelled or not.
JobReturns(c) ==
    /\ job[c].at = "queued"
    /\ job' = [job EXCEPT ![c].at = "done"]
    /\ \/ value' = [value EXCEPT ![c].at = "passed"]
       \/ UNCHANGED value
    /\ UNCHANGED <<core, handle, completing, closed>>

-----------------------------------------------------------------------------
(* future-completion, called by a poll with the result and the cancel flag. *)

Complete(c) ==
    /\ OwnerRuns /\ ~closed
    /\ job[c].at = "done"
    /\ job' = [job EXCEPT ![c].at = "over"]
    /\ completing' = [core |-> c, step |-> "fill",
                      accepted |-> value[c].at = "passed" /\ ~job[c].cancel]
    /\ UNCHANGED <<core, handle, value, closed>>

\* The result goes into the core, or is destroyed at once.
FillKeepingRejected ==
    LET c == completing.core
    IN  /\ completing.step = "fill"
        /\ completing' = [completing EXCEPT !.step = "publish"]
        /\ core' = [core EXCEPT ![c].filled = completing.accepted]
        /\ UNCHANGED <<handle, job, value, closed>>

Fill ==
    LET c == completing.core
    IN  /\ completing.step = "fill"
        /\ completing' = [completing EXCEPT !.step = "publish"]
        /\ core' = [core EXCEPT ![c].filled = completing.accepted]
        /\ value' = IF ~completing.accepted /\ value[c].at = "passed"
                    THEN [value EXCEPT ![c] = Ended(@, "destroyed")]
                    ELSE value
        /\ UNCHANGED <<handle, job, closed>>

PublishReady ==
    LET c == completing.core
    IN  /\ completing.step = "publish"
        /\ completing' = [completing EXCEPT !.step = "release"]
        /\ core' = [core EXCEPT ![c].state = "ready"]
        /\ UNCHANGED <<handle, job, value, closed>>

Publish ==
    LET c == completing.core
    IN  /\ completing.step = "publish"
        /\ completing' = [completing EXCEPT !.step = "release"]
        /\ core' = [core EXCEPT ![c].state =
                      IF completing.accepted THEN "ready" ELSE "cancelled"]
        /\ UNCHANGED <<handle, job, value, closed>>

CompletionForgets ==
    /\ completing.step = "release"
    /\ completing' = Idle
    /\ UNCHANGED <<core, handle, job, value, closed>>

CompletionReleases ==
    LET c == completing.core
    IN  /\ completing.step = "release"
        /\ completing' = Idle
        /\ core' = [core EXCEPT ![c] = Released(@)]
        /\ value' = [value EXCEPT ![c] = ValueAfterRelease(core[c], @)]
        /\ UNCHANGED <<handle, job, closed>>

-----------------------------------------------------------------------------
(* The Future. *)

\* future-cancel!, on the owner thread: scheduler-cancel! of the core's job.
FutureCancel(c) ==
    /\ OwnerRuns
    /\ handle[c] = "held"
    /\ job[c].at \in {"queued", "done"}
    /\ job' = [job EXCEPT ![c].cancel = TRUE]
    /\ UNCHANGED <<core, handle, value, completing, closed>>

\* future-take! of a ready future: the value leaves the core.
TakeLeavingResult(c) ==
    /\ handle[c] = "held"
    /\ core[c].state = "ready"
    /\ value' = [value EXCEPT ![c] = Ended(@, "taken")]
    /\ handle' = [handle EXCEPT ![c] = "releasing"]
    /\ UNCHANGED <<core, job, completing, closed>>

Take(c) ==
    /\ handle[c] = "held"
    /\ core[c].state = "ready"
    /\ value' = [value EXCEPT ![c] = Ended(@, "taken")]
    /\ core' = [core EXCEPT ![c].filled = FALSE]
    /\ handle' = [handle EXCEPT ![c] = "releasing"]
    /\ UNCHANGED <<job, completing, closed>>

\* future-free!, on the owner thread: a pending job is asked to stop.
FutureFree(c) ==
    /\ OwnerRuns
    /\ handle[c] = "held"
    /\ job' = IF core[c].state = "pending" /\ job[c].at \in {"queued", "done"}
              THEN [job EXCEPT ![c].cancel = TRUE] ELSE job
    /\ handle' = [handle EXCEPT ![c] = "releasing"]
    /\ UNCHANGED <<core, value, completing, closed>>

\* The end of a Future's scope, on any thread.
Drop(c) ==
    /\ handle[c] = "held"
    /\ handle' = [handle EXCEPT ![c] = "releasing"]
    /\ UNCHANGED <<core, job, value, completing, closed>>

HandleReleases(c) ==
    /\ handle[c] = "releasing"
    /\ handle' = [handle EXCEPT ![c] = "none"]
    /\ core' = [core EXCEPT ![c] = Released(@)]
    /\ value' = [value EXCEPT ![c] = ValueAfterRelease(core[c], @)]
    /\ UNCHANGED <<job, completing, closed>>

\* scheduler-free!: the workers are joined, so every job has returned, and the
\* unpolled ones are freed without their completion.
SchedulerFree ==
    /\ OwnerRuns /\ ~closed
    /\ \A c \in Core : job[c].at # "queued"
    /\ closed' = TRUE
    /\ job' = [c \in Core |-> IF job[c].at = "done"
                              THEN [at |-> "lost", cancel |-> TRUE] ELSE job[c]]
    /\ UNCHANGED <<core, handle, value, completing>>

CompletionStep == Fill \/ Publish \/ CompletionReleases

FuturesNext ==
    \/ \E c \in Core :
          \/ Spawn(c) \/ SpawnRefused(c) \/ JobReturns(c) \/ Complete(c)
          \/ FutureCancel(c) \/ Take(c) \/ FutureFree(c) \/ Drop(c) \/ HandleReleases(c)
    \/ CompletionStep
    \/ SchedulerFree

FuturesSpec == FuturesInit /\ [][FuturesNext]_futureVars

\* Workers return, polls come and completions run to their end; a thread that
\* began to release does.
FairFuturesSpec ==
    /\ FuturesSpec
    /\ WF_futureVars(CompletionStep)
    /\ \A c \in Core : /\ WF_futureVars(JobReturns(c))
                       /\ WF_futureVars(HandleReleases(c))
                       /\ SF_futureVars(Complete(c))

-----------------------------------------------------------------------------
(* Properties. *)

\* The job's side still counts a reference.
JobRefers(c) ==
    \/ job[c].at \in {"queued", "done", "lost"}
    \/ completing.core = c

\* references counts the parties that have not let go.
RefsExact ==
    \A c \in Core :
        core[c].references =
            (IF JobRefers(c) THEN 1 ELSE 0) + (IF handle[c] = "none" THEN 0 ELSE 1)

\* A core is freed only when no job, completion or handle can reach it, and it
\* is freed then: whichever side is last, on whichever thread.
FreedWithLast ==
    \A c \in Core :
        /\ handle[c] # "none" \/ JobRefers(c) => core[c].memory = "live"
        /\ handle[c] = "none" /\ ~JobRefers(c) => core[c].memory # "live"

\* A result ends at most once, and a core that is gone took its result with
\* it: taken by the program or destroyed, never both and never forgotten.
ValueEndsOnce ==
    \A c \in Core : /\ value[c].ends <= 1
                    /\ core[c].memory = "freed" => value[c].at # "passed"

\* A future that says it is ready has a value to give.
ReadyMeansTakeable ==
    \A c \in Core :
        handle[c] = "held" /\ core[c].state = "ready" =>
            core[c].filled /\ value[c].at = "passed"

\* A future that was let go is reclaimed, unless the scheduler is freed first.
Reclaimed ==
    \A c \in Core :
        handle[c] = "releasing" ~> (core[c].memory = "freed" \/ closed)
=============================================================================
