------------------------ MODULE CoopScheduler_proofs ------------------------
(***************************************************************************)
(* Proofs about CoopScheduler, for any tasks and wait queues: the lemmas   *)
(* of CoopTasks_proofs put together along the client contract.             *)
(***************************************************************************)
EXTENDS CoopScheduler, CoopTasks_proofs

-----------------------------------------------------------------------------
(* The specification. *)

\* The task that is being called and may still call operations.
Active == IF settled THEN NoTask ELSE current

\* The inductive invariant.
IInv ==
    /\ RecordOK(sched, Active)
    /\ loop \in {"idle", "run"}
    /\ current \in Task \cup {NoTask}
    /\ settled \in BOOLEAN
    /\ verdict \in BOOLEAN
    /\ passed \in [Task -> SUBSET Task]
    /\ current = NoTask => ~settled
    /\ loop = "idle" => current = NoTask
    /\ settled => ~sched.runnable[current]

\* The scheduler starts well formed.
LEMMA InitIInv == Init => IInv
<1> SUFFICES ASSUME Init PROVE IInv
  OBVIOUS
<1> USE DEF Init
<1>1. sched \in SchedulerRecord
  BY DEF EmptyScheduler, SchedulerRecord
<1>2. LiveOK(sched)
  <2>1. Undone(sched) = {}
    BY DEF Undone, EmptyScheduler
  <2> QED BY <2>1, FS_EmptySet DEF LiveOK, EmptyScheduler
<1>3. ReadyOK(sched, NoTask) /\ WaitOK(sched) /\ NoneLost(sched, NoTask)
  BY DEF ReadyOK, WaitOK, NoneLost, EmptyScheduler
<1>4. RunningOK(sched, NoTask)
  BY DEF RunningOK
<1> QED BY <1>1, <1>2, <1>3, <1>4 DEF IInv, RecordOK, Active

\* Every step keeps the scheduler well formed.
LEMMA NextIInv == IInv /\ [Next]_vars => IInv'
<1> SUFFICES ASSUME IInv, [Next]_vars PROVE IInv'
  OBVIOUS
<1>1. sched \in SchedulerRecord /\ sched.ready \in Seq(Task)
      /\ sched.queued \in [Task -> BOOLEAN] /\ sched.spawned \subseteq Task
  BY DEF IInv, RecordOK, SchedulerRecord
<1>2. CASE RunCall
  <2>1. loop = "idle" => current = NoTask
    BY DEF IInv
  <2> QED BY <1>2, <2>1 DEF IInv, RunCall, Active
<1>3. CASE TakeTurn
  <2>1. Active = NoTask
    BY <1>3 DEF IInv, TakeTurn, Active
  <2>2. sched.ready # <<>> /\ Head(sched.ready) \in Task
    BY <1>1, <1>3, TailIndices DEF TakeTurn
  <2>3. RecordOK(Take(sched), Head(sched.ready))
    BY <2>1, <2>2, TakeOK DEF IInv
  <2>4. RecordOK(sched', Active')
    BY <1>3, <2>3 DEF TakeTurn, Active
  <2>5. passed' \in [Task -> SUBSET Task]
    BY <1>3, <2>2 DEF TakeTurn, IInv
  <2>6. current' \in Task /\ current' # NoTask /\ settled' = FALSE
    BY <1>3, <2>2, NoTaskIsNone DEF TakeTurn
  <2>7. loop' = "run" /\ verdict' = verdict
    BY <1>3 DEF TakeTurn
  <2> QED BY <2>4, <2>5, <2>6, <2>7 DEF IInv
<1>4. CASE StepReturn
  <2>1. current \in Task
    BY <1>4 DEF StepReturn, IInv
  <2>2. RecordOK(AfterStep(sched, current), NoTask)
    <3>1. CASE settled
      BY <3>1 DEF IInv, Active, AfterStep
    <3>2. CASE ~settled
      BY <2>1, <3>2, AfterStepOK DEF IInv, Active
    <3> QED BY <3>1, <3>2 DEF IInv
  <2> QED BY <1>4, <2>2 DEF IInv, StepReturn, Active
<1>5. CASE RunReturn
  <2>1. sched \in SchedulerRecord /\ Verdict \in BOOLEAN
    BY <1>1 DEF Verdict
  <2> QED BY <1>5, <2>1 DEF IInv, RunReturn, Active
<1>6. ASSUME NEW t \in Task, Spawn(t) PROVE IInv'
  <2>1. RecordOK(TaskInit(sched, t), Active)
    BY <1>6, TaskInitOK DEF Spawn, IInv
  <2>2. ~settled
    BY <1>6 DEF Spawn, ClientRuns, IInv
  <2> QED BY <1>6, <2>1, <2>2 DEF IInv, Spawn, Active
<1>7. ASSUME NEW q \in WaitQueue, WakeOneOf(q) PROVE IInv'
  <2>1. RecordOK(WakeOne(sched, q), Active)
    BY <1>7, WakeOneOK DEF WakeOneOf, IInv
  <2>2. ~settled
    BY <1>7 DEF WakeOneOf, ClientRuns, IInv
  <2> QED BY <1>7, <2>1, <2>2 DEF IInv, WakeOneOf, Active
<1>8. ASSUME NEW q \in WaitQueue, ParkSelf(q) PROVE IInv'
  <2>1. current \in Task /\ RecordOK(sched, current)
    BY <1>8 DEF ParkSelf, IInv, Active
  <2>2. /\ RecordOK(Park(sched, q, current), NoTask)
        /\ ~Park(sched, q, current).runnable[current]
    BY <2>1, ParkOK
  <2> QED BY <1>8, <2>1, <2>2, NoTaskIsNone DEF IInv, ParkSelf, Active
<1>9. CASE CompleteSelf
  <2>1. current \in Task /\ RecordOK(sched, current)
    BY <1>9 DEF CompleteSelf, IInv, Active
  <2>2. /\ RecordOK(Complete(sched, current), NoTask)
        /\ ~Complete(sched, current).runnable[current]
    BY <2>1, CompleteOK
  <2> QED BY <1>9, <2>1, <2>2, NoTaskIsNone DEF IInv, CompleteSelf, Active
<1>10. CASE UNCHANGED vars
  BY <1>10 DEF vars, IInv, Active
<1> QED BY <1>2, <1>3, <1>4, <1>5, <1>6, <1>7, <1>8, <1>9, <1>10 DEF Next

\* A scheduler driven through the client contract stays well formed.
THEOREM WellFormed == Spec => []IInv
<1>1. Init => IInv
  BY InitIInv
<1>2. IInv /\ [Next]_vars => IInv'
  BY NextIInv
<1> QED BY <1>1, <1>2, PTL DEF Spec

\* Every field keeps its type, and the live count is never negative.
THEOREM TypeCorrect == Spec => []TypeOK
<1>1. IInv => TypeOK
  <2> SUFFICES ASSUME IInv PROVE TypeOK
    OBVIOUS
  <2>1. sched \in SchedulerRecord /\ LiveOK(sched) /\ sched.spawned \subseteq Task
    BY DEF IInv, RecordOK, SchedulerRecord
  <2>2. IsFiniteSet(Undone(sched))
    BY <2>1, TasksFinite, FS_Subset DEF Undone
  <2>3. sched.live \in Nat
    BY <2>1, <2>2, FS_CardinalityType DEF LiveOK
  <2> QED BY <2>1, <2>3 DEF IInv, TypeOK
<1> QED BY <1>1, WellFormed, PTL

\* No wake-up is lost and no task is in two lists, for any number of tasks and
\* wait queues.
THEOREM NoTaskLost == Spec => []HeldOnce
<1>1. IInv => HeldOnce
  <2> SUFFICES ASSUME IInv PROVE HeldOnce
    OBVIOUS
  <2>1. /\ ReadyOK(sched, Active) /\ WaitOK(sched)
        /\ NoneLost(sched, Active) /\ RunningOK(sched, Active)
        /\ sched.ready \in Seq(Task) /\ sched.spawned \subseteq Task
        /\ sched.wait \in [WaitQueue -> Seq(Task)]
    BY DEF IInv, RecordOK, SchedulerRecord
  <2>2. ASSUME NEW t \in Undone(sched)
        PROVE  IF sched.runnable[t]
               THEN (t = current) # (t \in ToSet(sched.ready))
               ELSE Waiting(sched, t)
    <3>1. t \in sched.spawned /\ t \in Task /\ ~sched.done[t]
      BY <2>1 DEF Undone
    <3>2. t \in ToSet(sched.ready) <=> sched.queued[t]
      BY <2>1, <3>1 DEF ToSet, ReadyOK
    <3>3. ASSUME NEW p \in WaitQueue, NEW i \in 1 .. Len(sched.wait[p])
          PROVE  sched.wait[p][i] \in ToSet(sched.wait[p])
      BY <2>1 DEF ToSet
    <3>4. CASE sched.runnable[t]
      <4>1. sched.queued[t] \/ t = Active
        BY <2>1, <3>1, <3>4 DEF NoneLost, WaitOK
      <4>2. CASE settled
        <5>1. sched.queued[t] /\ t # NoTask
          BY <3>1, <4>1, <4>2, NoTaskIsNone DEF Active
        <5>2. t # current
          BY <3>4, <4>2 DEF IInv
        <5> QED BY <3>2, <3>4, <5>1, <5>2
      <4>3. CASE ~settled
        <5>1. t = current => ~sched.queued[t]
          BY <2>1, <3>1, <4>3 DEF ReadyOK, Active
        <5> QED BY <3>2, <3>4, <4>1, <4>3, <5>1 DEF Active
      <4> QED BY <4>2, <4>3 DEF IInv
    <3>5. CASE ~sched.runnable[t]
      <4>1. ~sched.queued[t]
        BY <2>1, <3>1, <3>5 DEF ReadyOK
      <4>2. t # Active
        BY <2>1, <3>1, <3>5, NoTaskIsNone DEF RunningOK
      <4>3. PICK p \in WaitQueue : \E i \in 1 .. Len(sched.wait[p]) : sched.wait[p][i] = t
        BY <2>1, <3>1, <4>1, <4>2 DEF NoneLost
      <4> QED BY <3>3, <3>5, <4>3 DEF Waiting
    <3> QED BY <3>4, <3>5
  <2> QED BY <2>1, <2>2 DEF HeldOnce, ReadyOK, WaitOK
<1> QED BY <1>1, WellFormed, PTL

\* A completed task is in no queue, so its step is never called again.
THEOREM DoneStaysOut == Spec => []NoTurnAfterDone
<1>1. IInv => NoTurnAfterDone
  BY DEF IInv, RecordOK, SchedulerRecord, ReadyOK, WaitOK, NoTurnAfterDone,
         Undone, Waiting, ToSet
<1> QED BY <1>1, WellFormed, PTL

\* Scheduler.live is the number of live tasks.
THEOREM LiveIsExact == Spec => []LiveCountExact
<1>1. IInv => LiveCountExact
  BY DEF IInv, RecordOK, LiveOK, LiveCountExact
<1> QED BY <1>1, WellFormed, PTL

\* scheduler-run! returns true exactly when every task completed, and false
\* only when every live task is parked.
THEOREM VerdictIsExact == Spec => VerdictExact
<1> DEFINE Promise ==
       loop = "run" /\ loop' = "idle" =>
          IF verdict'
          THEN Undone(sched) = {}
          ELSE /\ Undone(sched) # {}
               /\ \A t \in Undone(sched) : Waiting(sched, t)
<1>1. IInv /\ [Next]_vars => [Promise]_vars
  <2> SUFFICES ASSUME IInv, RunReturn PROVE Promise
    BY DEF Next, RunCall, TakeTurn, StepReturn, Spawn, WakeOneOf, ParkSelf,
           CompleteSelf, vars
  <2>1. /\ sched.live = Cardinality(Undone(sched))
        /\ sched.spawned \subseteq Task /\ sched.ready \in Seq(Task)
        /\ sched.wait \in [WaitQueue -> Seq(Task)]
        /\ ReadyOK(sched, NoTask) /\ NoneLost(sched, NoTask)
    BY DEF IInv, RecordOK, SchedulerRecord, LiveOK, RunReturn, Active
  <2>2. IsFiniteSet(Undone(sched))
    BY <2>1, TasksFinite, FS_Subset DEF Undone
  <2>3. verdict' <=> Undone(sched) = {}
    BY <2>1, <2>2, FS_EmptySet DEF RunReturn, Verdict
  <2>4. ASSUME NEW t \in Undone(sched) PROVE Waiting(sched, t)
    <3>1. t \in sched.spawned /\ ~sched.done[t] /\ t # NoTask /\ t \in Task
      BY <2>1, NoTaskIsNone DEF Undone
    <3>2. ~sched.queued[t]
      BY <2>1, <3>1 DEF ReadyOK, RunReturn
    <3>3. PICK p \in WaitQueue : \E i \in 1 .. Len(sched.wait[p]) : sched.wait[p][i] = t
      BY <2>1, <3>1, <3>2 DEF NoneLost
    <3>4. t \in ToSet(sched.wait[p])
      BY <2>1, <3>3 DEF ToSet
    <3> QED BY <3>3, <3>4 DEF Waiting
  <2> QED BY <2>3, <2>4
<1> QED BY <1>1, WellFormed, PTL DEF Spec, VerdictExact

-----------------------------------------------------------------------------
(* Cooperative fairness. *)

\* The run queue and its flags are as they were, or one task that was not
\* queued went to the tail.
Grows(s, n) ==
    \/ n.ready = s.ready /\ n.queued = s.queued
    \/ \E e \in Task : /\ ~s.queued[e]
                       /\ n.ready = Append(s.ready, e)
                       /\ n.queued = [s.queued EXCEPT ![e] = TRUE]

\* wait-queue-wake-one! appends at most the head of the wait queue.
LEMMA OnlyGrowsWake ==
    ASSUME NEW s \in SchedulerRecord, NEW q \in WaitQueue, s.wait[q] # <<>>
    PROVE  Grows(s, WakeOne(s, q))
<1> DEFINE h == Head(s.wait[q])
           m == [s EXCEPT !.wait[q] = Tail(@)]
           n == [m EXCEPT !.runnable[h] = TRUE]
<1>1. h \in Task
  BY TailIndices DEF SchedulerRecord
<1>2. /\ m.ready = s.ready /\ m.queued = s.queued /\ m.done = s.done
      /\ n.ready = s.ready /\ n.queued = s.queued /\ n.done = s.done
  BY DEF SchedulerRecord
<1>3. WakeOne(s, q) = m \/ WakeOne(s, q) = Enqueue(n, h)
  BY DEF WakeOne, Wake
<1>4. Grows(s, m)
  BY <1>2 DEF Grows
<1>5. Grows(s, Enqueue(n, h))
  <2> HIDE DEF n, h, m
  <2>1. CASE s.queued[h] \/ s.done[h]
    BY <1>2, <2>1 DEF Enqueue, Grows
  <2>2. CASE ~(s.queued[h] \/ s.done[h])
    <3>1. Enqueue(n, h) = [n EXCEPT !.ready = Append(@, h), !.queued[h] = TRUE]
      BY <1>2, <2>2 DEF Enqueue
    <3>2. /\ Enqueue(n, h).ready = Append(s.ready, h)
          /\ Enqueue(n, h).queued = [s.queued EXCEPT ![h] = TRUE]
      BY <1>2, <3>1 DEF SchedulerRecord, n, m
    <3> QED BY <1>1, <2>2, <3>2 DEF Grows
  <2> QED BY <2>1, <2>2
<1> QED BY <1>3, <1>4, <1>5

\* task-init! appends the new task.
LEMMA OnlyGrowsInit ==
    ASSUME NEW s \in SchedulerRecord, NEW c \in Task, ~s.queued[c]
    PROVE  Grows(s, TaskInit(s, c))
<1> DEFINE f == Fresh(s, c)
           n == [f EXCEPT !.live = @ + 1, !.spawned = @ \cup {c}]
<1>1. /\ f.ready = s.ready /\ f.queued = s.queued /\ ~f.done[c]
      /\ f \in SchedulerRecord
  <2>1. /\ s.queued \in [Task -> BOOLEAN] /\ s.runnable \in [Task -> BOOLEAN]
        /\ s.done \in [Task -> BOOLEAN]
    BY DEF SchedulerRecord
  <2>2. /\ f.ready = s.ready
        /\ f.queued = [s.queued EXCEPT ![c] = FALSE]
        /\ f.done = [s.done EXCEPT ![c] = FALSE]
    BY DEF Fresh, SchedulerRecord
  <2>3. f \in SchedulerRecord
    BY DEF Fresh, SchedulerRecord
  <2>4. ~f.done[c]
    BY <2>1, <2>2
  <2>5. [s.queued EXCEPT ![c] = FALSE] = s.queued
    <3>1. s.queued[c] = FALSE
      BY <2>1
    <3> QED BY <2>1, <3>1
  <2> QED BY <2>2, <2>3, <2>4, <2>5
<1> HIDE DEF f
<1>2. n.ready = s.ready /\ n.queued = s.queued /\ ~n.done[c]
  BY <1>1 DEF SchedulerRecord
<1>3. Enqueue(n, c).ready = Append(s.ready, c)
      /\ Enqueue(n, c).queued = [s.queued EXCEPT ![c] = TRUE]
  BY <1>1, <1>2 DEF Enqueue, SchedulerRecord
<1> QED BY <1>3 DEF Grows, TaskInit, f

\* The inductive form of NoOvertaking: a task outside the run queue has been
\* passed by none.
PassedInv ==
    /\ NoOvertaking
    /\ \A t \in Task : ~sched.queued[t] => passed[t] = {}

\* Appending a task that nobody passed keeps NoOvertaking.
LEMMA GrowsKeepsPassed ==
    ASSUME IInv, PassedInv, Grows(sched, sched'), passed' = passed
    PROVE  PassedInv'
<1>1. /\ sched.ready \in Seq(Task) /\ sched.queued \in [Task -> BOOLEAN]
      /\ Len(sched.ready) \in Nat
      /\ passed \in [Task -> SUBSET Task]
  BY DEF IInv, RecordOK, SchedulerRecord
<1>2. CASE sched'.ready = sched.ready /\ sched'.queued = sched.queued
  BY <1>2 DEF PassedInv, NoOvertaking
<1>3. ASSUME NEW e \in Task, ~sched.queued[e],
             sched'.ready = Append(sched.ready, e),
             sched'.queued = [sched.queued EXCEPT ![e] = TRUE]
      PROVE  PassedInv'
  <2>1. /\ Len(sched'.ready) = Len(sched.ready) + 1
        /\ \A i \in 1 .. Len(sched.ready) : sched'.ready[i] = sched.ready[i]
        /\ sched'.ready[Len(sched.ready) + 1] = e
    BY <1>1, <1>3, AppendIndices
  <2>2. passed[e] = {}
    BY <1>3 DEF PassedInv
  <2>3. ASSUME NEW i \in 1 .. Len(sched'.ready), NEW j \in 1 .. Len(sched'.ready),
               sched'.ready[j] \in passed[sched'.ready[i]]
        PROVE  i < j
    <3>1. i # Len(sched.ready) + 1
      BY <2>1, <2>2, <2>3
    <3>2. i \in 1 .. Len(sched.ready) /\ sched'.ready[i] = sched.ready[i]
      BY <1>1, <2>1, <3>1
    <3>3. CASE j = Len(sched.ready) + 1
      BY <1>1, <3>2, <3>3
    <3>4. CASE j # Len(sched.ready) + 1
      <4>1. j \in 1 .. Len(sched.ready) /\ sched'.ready[j] = sched.ready[j]
        BY <1>1, <2>1, <3>4
      <4>2. sched.ready[j] \in passed[sched.ready[i]]
        BY <2>3, <3>2, <4>1
      <4> QED BY <3>2, <4>1, <4>2 DEF PassedInv, NoOvertaking
    <3> QED BY <3>3, <3>4
  <2>4. NoOvertaking'
    BY <1>3, <2>3 DEF NoOvertaking
  <2>5. \A t \in Task : ~sched'.queued[t] => passed'[t] = {}
    BY <1>1, <1>3 DEF PassedInv
  <2> QED BY <2>4, <2>5 DEF PassedInv
<1> QED BY <1>2, <1>3 DEF Grows

\* While a task is in the run queue, every other task takes at most one turn:
\* the "cooperative fairness" of scheduler-run!.
THEOREM Fairness == Spec => []NoOvertaking
<1>1. Init => PassedInv
  BY DEF Init, EmptyScheduler, PassedInv, NoOvertaking
<1>2. IInv /\ PassedInv /\ [Next]_vars => PassedInv'
  <2> SUFFICES ASSUME IInv, PassedInv, [Next]_vars PROVE PassedInv'
    OBVIOUS
  <2>1. /\ sched \in SchedulerRecord /\ current \in Task \cup {NoTask}
        /\ sched.ready \in Seq(Task) /\ sched.queued \in [Task -> BOOLEAN]
        /\ passed \in [Task -> SUBSET Task]
        /\ ReadyOK(sched, Active)
    BY DEF IInv, RecordOK, SchedulerRecord
  <2>2. CASE RunCall \/ RunReturn \/ UNCHANGED vars
    BY <2>2 DEF RunCall, RunReturn, vars, PassedInv, NoOvertaking
  <2>3. CASE TakeTurn
    <3> DEFINE h == Head(sched.ready)
    <3>1. /\ Tail(sched.ready) \in Seq(Task)
          /\ Len(sched.ready) \in Nat /\ Len(sched.ready) >= 1
          /\ Len(Tail(sched.ready)) = Len(sched.ready) - 1
          /\ \A i \in 1 .. Len(sched.ready) - 1 :
                Tail(sched.ready)[i] = sched.ready[i + 1]
          /\ h = sched.ready[1]
          /\ h \in Task
      BY <2>1, <2>3, TailIndices DEF TakeTurn
    <3>2. /\ sched'.ready = Tail(sched.ready)
          /\ sched'.queued = [sched.queued EXCEPT ![h] = FALSE]
      BY <2>1, <2>3 DEF TakeTurn, Take, SchedulerRecord
    <3>3. /\ passed'[h] = {}
          /\ \A t \in Task \ {h} :
                passed'[t] = IF sched.queued[t] THEN passed[t] \cup {h} ELSE {}
      BY <2>3, <3>1 DEF TakeTurn
    <3> HIDE DEF h
    <3>4. ASSUME NEW i \in 1 .. Len(sched'.ready), NEW j \in 1 .. Len(sched'.ready),
                 sched'.ready[j] \in passed'[sched'.ready[i]]
          PROVE  i < j
      <4>1. /\ i \in Int /\ j \in Int /\ i >= 1 /\ j >= 1
            /\ i + 1 \in 1 .. Len(sched.ready) /\ j + 1 \in 1 .. Len(sched.ready)
            /\ 1 \in 1 .. Len(sched.ready)
            /\ i + 1 # 1 /\ j + 1 # 1
        BY <3>1, <3>2
      <4>2. /\ sched'.ready[i] = sched.ready[i + 1]
            /\ sched'.ready[j] = sched.ready[j + 1]
        BY <3>1, <3>2
      <4>3. sched.ready[i + 1] # h /\ sched.ready[j + 1] # h
        BY <2>1, <3>1, <4>1 DEF ReadyOK
      <4>4. sched.ready[i + 1] \in Task
        BY <2>1, <4>1
      <4>5. sched.ready[j + 1] \in passed[sched.ready[i + 1]]
        BY <3>3, <3>4, <4>2, <4>3, <4>4
      <4>6. i + 1 < j + 1
        BY <4>1, <4>5 DEF PassedInv, NoOvertaking
      <4> QED BY <4>1, <4>6
    <3>5. NoOvertaking'
      BY <3>4 DEF NoOvertaking
    <3>6. \A t \in Task : ~sched'.queued[t] => passed'[t] = {}
      BY <2>1, <3>2, <3>3
    <3> QED BY <3>5, <3>6 DEF PassedInv
  <2>4. CASE StepReturn
    <3>1. Grows(sched, sched') /\ passed' = passed
      <4>1. current \in Task
        BY <2>1, <2>4 DEF StepReturn
      <4>2. Grows(sched, AfterStep(sched, current))
        BY <2>1, <4>1 DEF AfterStep, Enqueue, Grows, SchedulerRecord
      <4> QED BY <2>4, <4>2 DEF StepReturn
    <3> QED BY <3>1, GrowsKeepsPassed
  <2>5. ASSUME NEW t \in Task, Spawn(t) PROVE PassedInv'
    <3>1. ~sched.queued[t]
      BY <2>1, <2>5 DEF Spawn, ReadyOK
    <3>2. Grows(sched, TaskInit(sched, t))
      BY <2>1, <3>1, OnlyGrowsInit
    <3> QED BY <2>5, <3>2, GrowsKeepsPassed DEF Spawn
  <2>6. ASSUME NEW q \in WaitQueue, WakeOneOf(q) PROVE PassedInv'
    <3>1. Grows(sched, WakeOne(sched, q))
      BY <2>1, <2>6, OnlyGrowsWake DEF WakeOneOf
    <3> QED BY <2>6, <3>1, GrowsKeepsPassed DEF WakeOneOf
  <2>7. ASSUME NEW q \in WaitQueue, ParkSelf(q) PROVE PassedInv'
    <3>1. Grows(sched, Park(sched, q, current))
      BY <2>1 DEF Park, Grows, SchedulerRecord
    <3> QED BY <2>7, <3>1, GrowsKeepsPassed DEF ParkSelf
  <2>8. CASE CompleteSelf
    <3>1. Grows(sched, Complete(sched, current))
      BY <2>1 DEF Complete, Grows, SchedulerRecord
    <3> QED BY <2>8, <3>1, GrowsKeepsPassed DEF CompleteSelf
  <2> QED BY <2>2, <2>3, <2>4, <2>5, <2>6, <2>7, <2>8 DEF Next
<1>3. PassedInv => NoOvertaking
  BY DEF PassedInv
<1> QED BY <1>1, <1>2, <1>3, WellFormed, PTL DEF Spec
=============================================================================
