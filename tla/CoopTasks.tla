------------------------------ MODULE CoopTasks ------------------------------
(***************************************************************************)
(* The task and wait-queue operations of the cooperative runtime that the  *)
(* csp, async and dataflow dialects share                                  *)
(* (src/experiments/coop/scheduler.coil).  A scheduler and the tasks bound *)
(* to it are one record s; every function of the source is an operator     *)
(* from the record before the call to the record after it, so a dialect's  *)
(* step composes the calls in the order its code makes them.               *)
(*                                                                         *)
(* The intrusive lists threaded through Task.next and Task.wait-next are   *)
(* sequences here: no operation reaches into the middle of a list.         *)
(***************************************************************************)
EXTENDS Integers, Sequences, SequencesExt, FiniteSets

CONSTANTS
    Task,       \* the Task blocks a program allocates
    WaitQueue,  \* the WaitQueue blocks it allocates
    NoTask      \* the null task

ASSUME TasksFinite == IsFiniteSet(Task)
ASSUME NoTaskIsNone == NoTask \notin Task

\* ready: the run queue; wait: the wait queues; queued, runnable, done: the
\* flags of each Task; live: Scheduler.live; spawned: the tasks that went
\* through task-init!, the only ones whose fields hold anything.
SchedulerRecord ==
    [ready    : Seq(Task),
     wait     : [WaitQueue -> Seq(Task)],
     queued   : [Task -> BOOLEAN],
     runnable : [Task -> BOOLEAN],
     done     : [Task -> BOOLEAN],
     live     : Int,
     spawned  : SUBSET Task]

\* scheduler-init! and wait-queue-init! on every queue.
EmptyScheduler ==
    [ready    |-> <<>>,
     wait     |-> [q \in WaitQueue |-> <<>>],
     queued   |-> [t \in Task |-> FALSE],
     runnable |-> [t \in Task |-> FALSE],
     done     |-> [t \in Task |-> FALSE],
     live     |-> 0,
     spawned  |-> {}]

\* The live tasks: started and not completed.
Undone(s) == {t \in s.spawned : ~s.done[t]}

\* t sits in some wait queue.
Waiting(s, t) == \E q \in WaitQueue : t \in ToSet(s.wait[q])

-----------------------------------------------------------------------------
EnqueueAtHead(s, t) ==
    IF s.queued[t] \/ s.done[t]
    THEN s
    ELSE [s EXCEPT !.ready = <<t>> \o @, !.queued[t] = TRUE]

Enqueue(s, t) ==
    IF s.queued[t] \/ s.done[t]
    THEN s
    ELSE [s EXCEPT !.ready = Append(@, t), !.queued[t] = TRUE]

\* The fields task-init! gives a fresh task.
Fresh(s, t) ==
    [s EXCEPT !.queued[t] = FALSE, !.runnable[t] = TRUE, !.done[t] = FALSE]

TaskInit(s, t) ==
    Enqueue([Fresh(s, t) EXCEPT !.live = @ + 1, !.spawned = @ \cup {t}], t)

\* A scheduler on which the tasks of order were started one after another.
Started(order) ==
    LET after[n \in 0 .. Len(order)] ==
            IF n = 0 THEN EmptyScheduler ELSE TaskInit(after[n - 1], order[n])
    IN  after[Len(order)]

Park(s, q, t) ==
    IF ~s.runnable[t]
    THEN s
    ELSE [s EXCEPT !.runnable[t] = FALSE, !.wait[q] = Append(@, t)]

Wake(s, t) ==
    IF s.done[t] THEN s ELSE Enqueue([s EXCEPT !.runnable[t] = TRUE], t)

WakeOne(s, q) ==
    IF s.wait[q] = <<>>
    THEN s
    ELSE Wake([s EXCEPT !.wait[q] = Tail(@)], Head(s.wait[q]))

\* The loop runs until the queue is empty: once per task that waits on entry.
WakeAll(s, q) ==
    LET after[n \in 0 .. Len(s.wait[q])] ==
            IF n = 0 THEN s ELSE WakeOne(after[n - 1], q)
    IN  after[Len(s.wait[q])]

Complete(s, t) ==
    IF s.done[t]
    THEN s
    ELSE [s EXCEPT !.done[t] = TRUE, !.runnable[t] = FALSE, !.live = @ - 1]

\* The part of a scheduler-run! turn before the step is called: the head of
\* the run queue leaves it.
TakeKeepsFlag(s) == [s EXCEPT !.ready = Tail(@)]

Take(s) == [s EXCEPT !.ready = Tail(@), !.queued[Head(s.ready)] = FALSE]

\* The part after the call: a task that neither parked nor completed goes to
\* the tail of the run queue.
AfterStep(s, t) ==
    IF s.runnable[t] /\ ~s.done[t] THEN Enqueue(s, t) ELSE s
=============================================================================
