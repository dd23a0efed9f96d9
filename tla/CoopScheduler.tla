---------------------------- MODULE CoopScheduler ----------------------------
(***************************************************************************)
(* scheduler-run! of src/experiments/coop/scheduler.coil driven by the     *)
(* most general client its dialects can generate.  One OS thread runs      *)
(* everything: the loop takes the head of the run queue and calls its step *)
(* function, and the step may start tasks, wake waiters, and end its turn  *)
(* by parking itself, completing itself or just returning.                 *)
(*                                                                         *)
(* The client contract is the one the generated code keeps (a csp state    *)
(* runs one operation per turn, an async await returns right after         *)
(* future-await! parked it): a step that parked or completed its task      *)
(* returns without another call.                                           *)
(***************************************************************************)
EXTENDS CoopTasks, FiniteSets

VARIABLES
    sched,      \* the scheduler and its tasks (CoopTasks)
    loop,       \* "idle": outside scheduler-run!, "run": inside it
    current,    \* the task whose step is being called, or NoTask
    settled,    \* the current step has parked or completed its task
    verdict,    \* what the last scheduler-run! returned
    passed      \* history: passed[t] are the tasks that took a turn since t
                \* last entered the run queue

vars == <<sched, loop, current, settled, verdict, passed>>

TypeOK ==
    /\ sched \in SchedulerRecord
    /\ sched.live >= 0
    /\ loop \in {"idle", "run"}
    /\ current \in Task \cup {NoTask}
    /\ settled \in BOOLEAN
    /\ verdict \in BOOLEAN
    /\ passed \in [Task -> SUBSET Task]

Init ==
    /\ sched = EmptyScheduler
    /\ loop = "idle"
    /\ current = NoTask
    /\ settled = FALSE
    /\ verdict = FALSE
    /\ passed = [t \in Task |-> {}]

-----------------------------------------------------------------------------
(* The loop of scheduler-run!. *)

RunCall ==
    /\ loop = "idle"
    /\ loop' = "run"
    /\ UNCHANGED <<sched, current, settled, verdict, passed>>

TakeTurn ==
    /\ loop = "run"
    /\ current = NoTask
    /\ sched.ready # <<>>
    /\ current' = Head(sched.ready)
    /\ settled' = FALSE
    /\ sched' = Take(sched)
    /\ passed' = [t \in Task |->
                    IF t = Head(sched.ready) THEN {}
                    ELSE IF sched.queued[t] THEN passed[t] \cup {Head(sched.ready)}
                    ELSE {}]
    /\ UNCHANGED <<loop, verdict>>

StepReturn ==
    /\ current # NoTask
    /\ current' = NoTask
    /\ settled' = FALSE
    /\ sched' = AfterStep(sched, current)
    /\ UNCHANGED <<loop, verdict, passed>>

VerdictDrained == sched.ready = <<>>

Verdict == sched.live = 0

RunReturn ==
    /\ loop = "run"
    /\ current = NoTask
    /\ sched.ready = <<>>
    /\ loop' = "idle"
    /\ verdict' = Verdict
    /\ UNCHANGED <<sched, current, settled, passed>>

-----------------------------------------------------------------------------
(* What a step, or the program between two runs, may call. *)

\* Code of the program is running: a step that may still call, or the caller
\* of scheduler-run!.
ClientRuns == loop = "idle" \/ (current # NoTask /\ ~settled)

Spawn(t) ==
    /\ ClientRuns
    /\ t \notin sched.spawned
    /\ sched' = TaskInit(sched, t)
    /\ UNCHANGED <<loop, current, settled, verdict, passed>>

WakeOneOf(q) ==
    /\ ClientRuns
    /\ sched.wait[q] # <<>>
    /\ sched' = WakeOne(sched, q)
    /\ UNCHANGED <<loop, current, settled, verdict, passed>>

ParkSelf(q) ==
    /\ current # NoTask
    /\ ~settled
    /\ sched' = Park(sched, q, current)
    /\ settled' = TRUE
    /\ UNCHANGED <<loop, current, verdict, passed>>

CompleteSelf ==
    /\ current # NoTask
    /\ ~settled
    /\ sched' = Complete(sched, current)
    /\ settled' = TRUE
    /\ UNCHANGED <<loop, current, verdict, passed>>

Next ==
    \/ RunCall
    \/ TakeTurn
    \/ StepReturn
    \/ RunReturn
    \/ \E t \in Task : Spawn(t)
    \/ \E q \in WaitQueue : WakeOneOf(q)
    \/ \E q \in WaitQueue : ParkSelf(q)
    \/ CompleteSelf

Spec == Init /\ [][Next]_vars

\* The loop goes on as long as it has work, and every step function returns:
\* the generated steps are straight-line code.
FairSpec == Spec /\ WF_vars(TakeTurn) /\ WF_vars(StepReturn)

-----------------------------------------------------------------------------
\* No task is lost and none is held twice: the run queue and the wait queues
\* hold each task at most once between them, a task that may run is in the
\* run queue or is running, and a live task that may not run waits in a wait
\* queue.  (A lost wake-up, or a task linked into two lists, breaks this.)
HeldOnce ==
    /\ \A i, j \in 1 .. Len(sched.ready) :
          sched.ready[i] = sched.ready[j] => i = j
    /\ \A p, q \in WaitQueue :
          \A i \in 1 .. Len(sched.wait[p]), j \in 1 .. Len(sched.wait[q]) :
             sched.wait[p][i] = sched.wait[q][j] => p = q /\ i = j
    /\ \A t \in Undone(sched) :
          IF sched.runnable[t]
          THEN (t = current) # (t \in ToSet(sched.ready))
          ELSE Waiting(sched, t)

\* A task that completed is in no queue, so no step is called for it again.
NoTurnAfterDone ==
    \A t \in Task :
       t \notin Undone(sched) =>
          t \notin ToSet(sched.ready) /\ ~Waiting(sched, t)

\* Scheduler.live counts the live tasks, over any history of starts and
\* completions.
LiveCountExact == sched.live = Cardinality(Undone(sched))

\* What scheduler-run! promises its caller: it returns true exactly when
\* every task has completed, and false only on deadlock, when every live task
\* is parked and nothing in the run queue could ever wake it.
VerdictExact ==
    [][loop = "run" /\ loop' = "idle" =>
          IF verdict'
          THEN Undone(sched) = {}
          ELSE /\ Undone(sched) # {}
               /\ \A t \in Undone(sched) : Waiting(sched, t)]_vars

\* "Cooperative fairness": while a task is in the run queue, every other task
\* takes at most one turn.  A task that already passed t stands behind t.
NoOvertaking ==
    \A i, j \in 1 .. Len(sched.ready) :
       sched.ready[j] \in passed[sched.ready[i]] => i < j

\* A task in the run queue gets its turn, whatever the other tasks do.
QueuedGetsTurn ==
    \A t \in Task : (loop = "run" /\ sched.queued[t]) ~> (current = t)
=============================================================================
