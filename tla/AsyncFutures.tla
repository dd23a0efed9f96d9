----------------------------- MODULE AsyncFutures -----------------------------
(***************************************************************************)
(* The async dialect of src/experiments/async/async.coil.  A call of a     *)
(* defasync-i64 function allocates a job: a Future with its result, the    *)
(* queue of its waiters and the Task that runs its body.  The body is a    *)
(* transition function, called once per turn of scheduler-run!, which may  *)
(* call other async functions, await, complete its future and destroy      *)
(* futures.  Which of these a body does is left open: every set of bodies  *)
(* that keep the rules of the dialect is a behaviour.                      *)
(*                                                                         *)
(* The rules are those the source states: a transition returns when        *)
(* future-await! answers false, a body completes its own future and does   *)
(* it last, a future is destroyed once, when it is complete and nobody     *)
(* will read it any more (the comment at line 9).                          *)
(***************************************************************************)
EXTENDS CoopTasks

\* The jobs malloc hands out, named by the Task each embeds; the WaitQueue a
\* job embeds has the same name.
Future == Task
NoFuture == NoTask

ASSUME FuturesAreQueues == Future \subseteq WaitQueue

VARIABLES
    sched,      \* the scheduler, the embedded tasks and wait queues
    complete,   \* Future.complete
    memory,     \* the job's block
    resume,     \* the future a task reads when its next turn begins: the
                \* continuation future-await! recorded
    running,    \* the task whose transition is being called
    phase       \* main: before, inside and after scheduler-run!

vars == <<sched, complete, memory, resume, running, phase>>

TypeOK ==
    /\ sched \in SchedulerRecord
    /\ complete \in [Future -> BOOLEAN]
    /\ memory \in [Future -> {"unused", "live", "freed"}]
    /\ resume \in [Future -> Future \cup {NoFuture}]
    /\ running \in Future \cup {NoFuture}
    /\ phase \in {"before", "run", "after"}
    \* the scheduler's live counter counts the unfinished computations
    /\ sched.live = Cardinality({f \in Future : memory[f] = "live" /\ ~complete[f]})

Init ==
    /\ sched = EmptyScheduler
    /\ complete = [f \in Future |-> FALSE]
    /\ memory = [f \in Future |-> "unused"]
    /\ resume = [f \in Future |-> NoFuture]
    /\ running = NoFuture
    /\ phase = "before"

-----------------------------------------------------------------------------
(* scheduler-run!. *)

RunCall ==
    /\ phase = "before"
    /\ phase' = "run"
    /\ UNCHANGED <<sched, complete, memory, resume, running>>

\* A turn begins; a task that was parked, or found its future complete, reads
\* the result (future-result aborts on an incomplete future).
Begin ==
    /\ phase = "run" /\ running = NoFuture
    /\ sched.ready # <<>>
    /\ running' = Head(sched.ready)
    /\ sched' = Take(sched)
    /\ resume' = [resume EXCEPT ![Head(sched.ready)] = NoFuture]
    /\ UNCHANGED <<complete, memory, phase>>

\* The transition returns without parking: a yield, or the end of a body.
Return ==
    /\ running # NoFuture
    /\ running' = NoFuture
    /\ sched' = AfterStep(sched, running)
    /\ UNCHANGED <<complete, memory, resume, phase>>

RunReturn ==
    /\ phase = "run" /\ running = NoFuture
    /\ sched.ready = <<>>
    /\ phase' = "after"
    /\ UNCHANGED <<sched, complete, memory, resume, running>>

-----------------------------------------------------------------------------
(* What main, before the run, and a transition may do. *)

\* A transition that has not completed its future.
BodyRuns == running # NoFuture /\ ~complete[running]

\* The launcher of a defasync-i64 function.
Launch(f) ==
    /\ phase = "before" \/ BodyRuns
    /\ memory[f] = "unused"
    /\ memory' = [memory EXCEPT ![f] = "live"]
    /\ sched' = TaskInit(sched, f)
    /\ UNCHANGED <<complete, resume, running, phase>>

\* future-await!: a complete future is read at once; on an incomplete one the
\* task parks and its transition returns. The resume state is recorded first.
Await(f) ==
    /\ BodyRuns
    /\ memory[f] = "live" /\ ~complete[f]
    /\ resume' = [resume EXCEPT ![running] = f]
    /\ sched' = AfterStep(Park(sched, f, running), running)
    /\ running' = NoFuture
    /\ UNCHANGED <<complete, memory, phase>>

\* future-complete! of the body's own future.
CompleteWakingOne ==
    /\ BodyRuns
    /\ complete' = [complete EXCEPT ![running] = TRUE]
    /\ sched' = Complete(WakeOne(sched, running), running)
    /\ UNCHANGED <<memory, resume, running, phase>>

CompleteOwn ==
    /\ BodyRuns
    /\ complete' = [complete EXCEPT ![running] = TRUE]
    /\ sched' = Complete(WakeAll(sched, running), running)
    /\ UNCHANGED <<memory, resume, running, phase>>

\* future-destroy!, by main after the run or by a body that is done with f;
\* it aborts when f is not complete.
NobodyReads(f) == \A t \in Future : resume[t] # f

DestroyOwn(f) ==
    /\ phase = "after" \/ running # NoFuture
    /\ memory[f] = "live" /\ complete[f]
    /\ NobodyReads(f)
    /\ memory' = [memory EXCEPT ![f] = "freed"]
    /\ UNCHANGED <<sched, complete, resume, running, phase>>

Destroy(f) ==
    /\ phase = "after" \/ running # NoFuture
    /\ f # running
    /\ memory[f] = "live" /\ complete[f]
    /\ NobodyReads(f)
    /\ memory' = [memory EXCEPT ![f] = "freed"]
    /\ UNCHANGED <<sched, complete, resume, running, phase>>

Next ==
    \/ RunCall \/ Begin \/ Return \/ RunReturn
    \/ CompleteOwn
    \/ \E f \in Future : Launch(f) \/ Await(f) \/ Destroy(f)

Spec == Init /\ [][Next]_vars

-----------------------------------------------------------------------------
(* Properties. *)

Unfinished == {f \in Future : memory[f] = "live" /\ ~complete[f]}

\* "wakes every waiter": a task whose future completed is on its way to read
\* it, however many waited and in whatever order; a task whose future did not
\* is parked there and nowhere else, so that future-result never aborts.  The
\* future is still there in either case.
AwaitersAccounted ==
    \A t \in Unfinished \ {running} :
        LET g == resume[t] IN
        /\ g # NoFuture => memory[g] = "live"
        /\ IF g = NoFuture \/ complete[g]
           THEN t \in ToSet(sched.ready) /\ ~Waiting(sched, t)
           ELSE /\ t \in ToSet(sched.wait[g])
                /\ t \notin ToSet(sched.ready)

\* A destroyed job is in no list of the scheduler and is not being run: its
\* Task and WaitQueue went with it.
NothingTouchesFreed ==
    \A f \in Future : memory[f] = "freed" =>
        /\ f # running
        /\ f \notin ToSet(sched.ready) /\ ~Waiting(sched, f)
        /\ sched.wait[f] = <<>>

\* A deadlock that scheduler-run! reports is one: the unfinished computations
\* all await each other, so that no order of turns could have gone on.
DeadlockIsReal ==
    phase = "after" =>
        /\ sched.live = 0 <=> Unfinished = {}
        /\ \A f \in Unfinished : resume[f] \in Unfinished

=============================================================================
