-------------------------- MODULE CoopTasks_proofs --------------------------
(***************************************************************************)
(* Lemmas about the operations of CoopTasks, for the proofs about the      *)
(* scheduler and about the dialects that compose them: each operation      *)
(* keeps the scheduler record well formed, and what each one changes.      *)
(***************************************************************************)
EXTENDS CoopTasks, FiniteSetTheorems, WellFoundedInduction, TLAPS

-----------------------------------------------------------------------------
(* Sequences: what Append and Tail do to indices. *)

\* Append keeps the indices and adds one at the end.
LEMMA AppendIndices ==
    ASSUME NEW S, NEW f \in Seq(S), NEW e \in S
    PROVE  /\ Append(f, e) \in Seq(S)
           /\ Len(Append(f, e)) = Len(f) + 1
           /\ \A i \in 1 .. Len(f) : Append(f, e)[i] = f[i]
           /\ Append(f, e)[Len(f) + 1] = e
  OBVIOUS

\* Tail shifts the indices by one and drops the head.
LEMMA TailIndices ==
    ASSUME NEW S, NEW f \in Seq(S), f # <<>>
    PROVE  /\ Tail(f) \in Seq(S)
           /\ Len(f) \in Nat /\ Len(f) >= 1
           /\ Len(Tail(f)) = Len(f) - 1
           /\ \A i \in 1 .. Len(f) - 1 : Tail(f)[i] = f[i + 1]
           /\ Head(f) = f[1]
           /\ Head(f) \in S
  OBVIOUS

\* Every nonempty set of natural numbers has a least element: the argument of
\* the lemmas about the two recursive functions, by least counterexample.
LEMMA LeastNatural ==
    ASSUME NEW T \in SUBSET Nat, T # {}
    PROVE  \E x \in T : \A y \in T : x <= y
<1> DEFINE Intervals == {0 .. y : y \in T}
<1>1. IsWellFoundedOn(StrictSubsetOrdering(Nat), FiniteSubsetsOf(Nat))
  BY FS_StrictSubsetOrderingWellFounded
<1>2. Intervals \subseteq FiniteSubsetsOf(Nat) /\ Intervals # {}
  <2>1. \A y \in T : 0 .. y \subseteq Nat /\ IsFiniteSet(0 .. y)
    BY FS_Interval
  <2> QED BY <2>1 DEF FiniteSubsetsOf
<1>3. PICK i \in Intervals : \A j \in Intervals : <<j, i>> \notin StrictSubsetOrdering(Nat)
  <2> HIDE DEF Intervals
  <2> QED BY <1>1, <1>2, WFMin
<1>4. PICK x \in T : i = 0 .. x
  OBVIOUS
<1>5. ASSUME NEW y \in T, y < x PROVE FALSE
  <2>1. x \in 0 .. x /\ x \notin 0 .. y /\ 0 .. y \subseteq 0 .. x
    BY <1>5
  <2>2. 0 .. y \in Intervals /\ <<0 .. y, 0 .. x>> \in StrictSubsetOrdering(Nat)
    BY <2>1 DEF StrictSubsetOrdering
  <2> QED BY <1>3, <1>4, <2>2
<1> QED BY <1>5

-----------------------------------------------------------------------------
(* The inductive invariant of a scheduler record.  c is the task whose step *)
(* is being called and has neither parked nor completed, or NoTask.         *)

ReadyOK(s, c) ==
    /\ \A i, j \in 1 .. Len(s.ready) : s.ready[i] = s.ready[j] => i = j
    /\ \A i \in 1 .. Len(s.ready) :
          /\ s.queued[s.ready[i]]
          /\ s.runnable[s.ready[i]]
          /\ s.ready[i] \in s.spawned
          /\ ~s.done[s.ready[i]]
          /\ s.ready[i] # c
    /\ \A t \in Task :
          s.queued[t] => \E i \in 1 .. Len(s.ready) : s.ready[i] = t

WaitOK(s) ==
    /\ \A p, q \in WaitQueue :
          \A i \in 1 .. Len(s.wait[p]), j \in 1 .. Len(s.wait[q]) :
             s.wait[p][i] = s.wait[q][j] => p = q /\ i = j
    /\ \A q \in WaitQueue : \A i \in 1 .. Len(s.wait[q]) :
          /\ s.wait[q][i] \in s.spawned
          /\ ~s.done[s.wait[q][i]]
          /\ ~s.runnable[s.wait[q][i]]

NoneLost(s, c) ==
    \A t \in s.spawned :
       ~s.done[t] =>
          \/ s.queued[t]
          \/ t = c
          \/ \E q \in WaitQueue : \E i \in 1 .. Len(s.wait[q]) : s.wait[q][i] = t

RunningOK(s, c) ==
    c # NoTask => c \in s.spawned /\ ~s.done[c] /\ s.runnable[c]

LiveOK(s) == s.live = Cardinality(Undone(s))

RecordOK(s, c) ==
    /\ s \in SchedulerRecord
    /\ ReadyOK(s, c)
    /\ WaitOK(s)
    /\ NoneLost(s, c)
    /\ RunningOK(s, c)
    /\ LiveOK(s)

-----------------------------------------------------------------------------
(* One lemma per operation. *)

\* Storing the live count and the set of started tasks keeps the type.
LEMMA LiveUpdate ==
    ASSUME NEW r \in SchedulerRecord, NEW l \in Int, NEW p \in SUBSET Task
    PROVE  [r EXCEPT !.live = l, !.spawned = p] \in SchedulerRecord
  BY DEF SchedulerRecord

\* Storing the flags and the count of a completion keeps the type.
LEMMA CompleteUpdate ==
    ASSUME NEW r \in SchedulerRecord, NEW l \in Int, NEW t \in Task
    PROVE  [r EXCEPT !.done[t] = TRUE, !.runnable[t] = FALSE, !.live = l]
              \in SchedulerRecord
  BY DEF SchedulerRecord

\* scheduler-run! taking the head of the run queue: it becomes the running
\* task.
LEMMA TakeOK ==
    ASSUME NEW s, RecordOK(s, NoTask), s.ready # <<>>
    PROVE  RecordOK(Take(s), Head(s.ready))
<1> DEFINE h == Head(s.ready)
           n == Take(s)
<1>1. s \in SchedulerRecord
  BY DEF RecordOK
<1>2. /\ s.ready \in Seq(Task)
      /\ s.queued \in [Task -> BOOLEAN]
  BY <1>1 DEF SchedulerRecord
<1>3. /\ Tail(s.ready) \in Seq(Task)
      /\ Len(s.ready) \in Nat /\ Len(s.ready) >= 1
      /\ Len(Tail(s.ready)) = Len(s.ready) - 1
      /\ \A i \in 1 .. Len(s.ready) - 1 : Tail(s.ready)[i] = s.ready[i + 1]
      /\ h = s.ready[1]
      /\ h \in Task
  BY <1>2, TailIndices
<1>4. /\ n.ready = Tail(s.ready)
      /\ n.queued = [s.queued EXCEPT ![h] = FALSE]
      /\ n.wait = s.wait /\ n.runnable = s.runnable /\ n.done = s.done
      /\ n.live = s.live /\ n.spawned = s.spawned
      /\ n \in SchedulerRecord
  BY <1>1, <1>3 DEF Take, SchedulerRecord
<1> HIDE DEF n, h
<1>5. ReadyOK(n, h)
  <2>1. ReadyOK(s, NoTask)
    BY DEF RecordOK
  <2>2. \A i \in 1 .. Len(n.ready) : /\ i + 1 \in 1 .. Len(s.ready)
                                    /\ n.ready[i] = s.ready[i + 1]
    BY <1>3, <1>4
  <2>3. \A i, j \in 1 .. Len(n.ready) : n.ready[i] = n.ready[j] => i = j
    BY <1>3, <1>4, <2>1, <2>2 DEF ReadyOK
  <2>4. ASSUME NEW i \in 1 .. Len(n.ready)
        PROVE  /\ n.queued[n.ready[i]]
               /\ n.runnable[n.ready[i]]
               /\ n.ready[i] \in n.spawned
               /\ ~n.done[n.ready[i]]
               /\ n.ready[i] # h
    <3>1. n.ready[i] # h
      BY <1>3, <1>4, <2>1, <2>2 DEF ReadyOK
    <3>2. n.ready[i] \in Task
      BY <1>3, <1>4
    <3> QED BY <1>2, <1>4, <2>1, <2>2, <3>1, <3>2 DEF ReadyOK
  <2>5. ASSUME NEW t \in Task, n.queued[t]
        PROVE  \E i \in 1 .. Len(n.ready) : n.ready[i] = t
    <3>1. t # h /\ s.queued[t]
      BY <1>2, <1>3, <1>4, <2>5
    <3>2. PICK i \in 1 .. Len(s.ready) : s.ready[i] = t
      BY <2>1, <3>1 DEF ReadyOK
    <3>3. i - 1 \in 1 .. Len(n.ready) /\ n.ready[i - 1] = t
      BY <1>3, <1>4, <3>1, <3>2
    <3> QED BY <3>3
  <2> QED BY <2>3, <2>4, <2>5 DEF ReadyOK
<1>6. WaitOK(n)
  BY <1>4 DEF RecordOK, WaitOK
<1>7. NoneLost(n, h)
  <2> SUFFICES ASSUME NEW t \in n.spawned, ~n.done[t], t # h, ~n.queued[t]
               PROVE  \E q \in WaitQueue : \E i \in 1 .. Len(n.wait[q]) :
                         n.wait[q][i] = t
    BY DEF NoneLost
  <2>1. t \in Task /\ t # NoTask
    BY <1>4, NoTaskIsNone DEF SchedulerRecord
  <2>2. t \in s.spawned /\ ~s.done[t] /\ ~s.queued[t]
    BY <1>2, <1>4, <2>1
  <2> QED BY <1>4, <2>1, <2>2 DEF RecordOK, NoneLost
<1>8. RunningOK(n, h)
  BY <1>3, <1>4 DEF RecordOK, RunningOK, ReadyOK
<1>9. LiveOK(n)
  <2>1. Undone(n) = Undone(s)
    BY <1>4 DEF Undone
  <2> QED BY <2>1, <1>4 DEF RecordOK, LiveOK
<1> QED BY <1>4, <1>5, <1>6, <1>7, <1>8, <1>9 DEF RecordOK, n, h

\* scheduler-enqueue! of a task that is ready to run, in no queue and not
\* running: it gives the task the only place that was missing.
LEMMA EnqueueOK ==
    ASSUME NEW s \in SchedulerRecord, NEW c, NEW t \in Task,
           ReadyOK(s, c), WaitOK(s), RunningOK(s, c), LiveOK(s),
           t \in s.spawned, ~s.queued[t], ~s.done[t], s.runnable[t], t # c,
           \A u \in s.spawned \ {t} :
              ~s.done[u] =>
                 \/ s.queued[u]
                 \/ u = c
                 \/ \E q \in WaitQueue : \E i \in 1 .. Len(s.wait[q]) : s.wait[q][i] = u
    PROVE  RecordOK(Enqueue(s, t), c)
<1> DEFINE n == Enqueue(s, t)
<1>1. /\ s.ready \in Seq(Task)
      /\ s.queued \in [Task -> BOOLEAN]
  BY DEF SchedulerRecord
<1>2. /\ Append(s.ready, t) \in Seq(Task)
      /\ Len(s.ready) \in Nat
      /\ Len(Append(s.ready, t)) = Len(s.ready) + 1
      /\ \A i \in 1 .. Len(s.ready) : Append(s.ready, t)[i] = s.ready[i]
      /\ Append(s.ready, t)[Len(s.ready) + 1] = t
  BY <1>1, AppendIndices
<1>3. /\ n.ready = Append(s.ready, t)
      /\ n.queued = [s.queued EXCEPT ![t] = TRUE]
      /\ n.wait = s.wait /\ n.runnable = s.runnable /\ n.done = s.done
      /\ n.live = s.live /\ n.spawned = s.spawned
      /\ n \in SchedulerRecord
  BY <1>2 DEF Enqueue, SchedulerRecord
<1> HIDE DEF n
<1>4. ReadyOK(n, c)
  <2>1. \A i \in 1 .. Len(s.ready) : s.ready[i] # t /\ s.ready[i] \in Task
    BY <1>1 DEF ReadyOK
  <2>2. \A i, j \in 1 .. Len(n.ready) : n.ready[i] = n.ready[j] => i = j
    BY <1>2, <1>3, <2>1 DEF ReadyOK
  <2>3. ASSUME NEW i \in 1 .. Len(n.ready)
        PROVE  /\ n.queued[n.ready[i]]
               /\ n.runnable[n.ready[i]]
               /\ n.ready[i] \in n.spawned
               /\ ~n.done[n.ready[i]]
               /\ n.ready[i] # c
    <3>1. CASE i \in 1 .. Len(s.ready)
      BY <1>1, <1>2, <1>3, <2>1, <3>1 DEF ReadyOK
    <3>2. CASE i = Len(s.ready) + 1
      BY <1>1, <1>2, <1>3, <3>2
    <3> QED BY <1>2, <1>3, <3>1, <3>2
  <2>4. ASSUME NEW u \in Task, n.queued[u]
        PROVE  \E i \in 1 .. Len(n.ready) : n.ready[i] = u
    <3>1. CASE u = t
      <4>1. Len(s.ready) + 1 \in 1 .. Len(n.ready)
        BY <1>2, <1>3
      <4> QED BY <1>2, <1>3, <3>1, <4>1
    <3>2. CASE u # t
      <4>1. PICK i \in 1 .. Len(s.ready) : s.ready[i] = u
        BY <1>1, <1>3, <2>4, <3>2 DEF ReadyOK
      <4> QED BY <1>2, <1>3, <4>1
    <3> QED BY <3>1, <3>2
  <2> QED BY <2>2, <2>3, <2>4 DEF ReadyOK
<1>5. WaitOK(n)
  BY <1>3 DEF WaitOK
<1>6. NoneLost(n, c)
  <2> SUFFICES ASSUME NEW u \in n.spawned, ~n.done[u], u # c, ~n.queued[u]
               PROVE  \E q \in WaitQueue : \E i \in 1 .. Len(n.wait[q]) :
                         n.wait[q][i] = u
    BY DEF NoneLost
  <2>1. u \in Task /\ u # t /\ ~s.queued[u]
    BY <1>1, <1>3 DEF SchedulerRecord
  <2> QED BY <1>3, <2>1
<1>7. RunningOK(n, c)
  BY <1>3 DEF RunningOK
<1>8. LiveOK(n)
  <2>1. Undone(n) = Undone(s)
    BY <1>3 DEF Undone
  <2> QED BY <2>1, <1>3 DEF LiveOK
<1> QED BY <1>3, <1>4, <1>5, <1>6, <1>7, <1>8 DEF RecordOK, n

\* The end of a turn: a task that may still run goes back into the run queue.
LEMMA AfterStepOK ==
    ASSUME NEW s, NEW c \in Task, RecordOK(s, c)
    PROVE  RecordOK(AfterStep(s, c), NoTask)
<1>1. /\ s \in SchedulerRecord
      /\ c # NoTask
      /\ c \in s.spawned /\ ~s.done[c] /\ s.runnable[c]
  BY NoTaskIsNone DEF RecordOK, RunningOK
<1>2. ~s.queued[c]
  BY DEF RecordOK, ReadyOK
<1>3. ReadyOK(s, NoTask)
  <2>1. \A i \in 1 .. Len(s.ready) : s.ready[i] # NoTask
    BY <1>1, NoTaskIsNone DEF RecordOK, ReadyOK, SchedulerRecord
  <2> QED BY <2>1 DEF RecordOK, ReadyOK
<1>4. RunningOK(s, NoTask)
  BY DEF RunningOK
<1>5. RecordOK(Enqueue(s, c), NoTask)
  BY <1>1, <1>2, <1>3, <1>4, EnqueueOK DEF RecordOK, NoneLost
<1> QED BY <1>1, <1>5 DEF AfterStep

\* task-init! of a task block that is not in use.
LEMMA TaskInitOK ==
    ASSUME NEW s, NEW c, NEW t \in Task, t \notin s.spawned, RecordOK(s, c)
    PROVE  RecordOK(TaskInit(s, t), c)
<1> DEFINE f == Fresh(s, t)
           n == [f EXCEPT !.live = @ + 1, !.spawned = @ \cup {t}]
<1>1. s \in SchedulerRecord
  BY DEF RecordOK
<1>2. /\ n.ready = s.ready
      /\ n.queued = [s.queued EXCEPT ![t] = FALSE]
      /\ n.runnable = [s.runnable EXCEPT ![t] = TRUE]
      /\ n.done = [s.done EXCEPT ![t] = FALSE]
      /\ n.wait = s.wait
      /\ n.live = s.live + 1
      /\ n.spawned = s.spawned \cup {t}
      /\ n \in SchedulerRecord
  <2>1. /\ f \in SchedulerRecord
        /\ f.ready = s.ready /\ f.wait = s.wait
        /\ f.queued = [s.queued EXCEPT ![t] = FALSE]
        /\ f.runnable = [s.runnable EXCEPT ![t] = TRUE]
        /\ f.done = [s.done EXCEPT ![t] = FALSE]
        /\ f.live = s.live /\ f.spawned = s.spawned
    BY <1>1 DEF SchedulerRecord, Fresh
  <2> HIDE DEF f
  <2>2. n \in SchedulerRecord
    <3>1. f.live + 1 \in Int /\ f.spawned \cup {t} \in SUBSET Task
      BY <2>1 DEF SchedulerRecord
    <3> QED BY <2>1, <3>1, LiveUpdate
  <2>3. /\ n.ready = f.ready /\ n.wait = f.wait
        /\ n.queued = f.queued /\ n.runnable = f.runnable /\ n.done = f.done
        /\ n.live = f.live + 1 /\ n.spawned = f.spawned \cup {t}
    BY <2>1 DEF SchedulerRecord
  <2> QED BY <2>1, <2>2, <2>3
<1> HIDE DEF n, f
<1>3. /\ s.queued \in [Task -> BOOLEAN] /\ s.runnable \in [Task -> BOOLEAN]
      /\ s.done \in [Task -> BOOLEAN] /\ s.live \in Int
      /\ s.ready \in Seq(Task) /\ s.wait \in [WaitQueue -> Seq(Task)]
      /\ s.spawned \subseteq Task
  BY <1>1 DEF SchedulerRecord
<1>4. t # c
  BY NoTaskIsNone DEF RecordOK, RunningOK
<1>5. ReadyOK(n, c)
  <2>1. \A i \in 1 .. Len(s.ready) : s.ready[i] \in s.spawned /\ s.ready[i] # t
    BY DEF RecordOK, ReadyOK
  <2>2. \A u \in Task : n.queued[u] => s.queued[u]
    BY <1>2, <1>3
  <2>3. \A u \in s.spawned : /\ n.queued[u] = s.queued[u]
                             /\ n.runnable[u] = s.runnable[u]
                             /\ n.done[u] = s.done[u]
    BY <1>2, <1>3
  <2> QED BY <1>2, <2>1, <2>2, <2>3 DEF RecordOK, ReadyOK
<1>6. WaitOK(n)
  <2>1. \A u \in s.spawned : n.runnable[u] = s.runnable[u] /\ n.done[u] = s.done[u]
    BY <1>2, <1>3
  <2> QED BY <1>2, <2>1 DEF RecordOK, WaitOK
<1>7. RunningOK(n, c)
  BY <1>2, <1>3 DEF RecordOK, RunningOK
<1>8. LiveOK(n)
  <2>1. Undone(n) = Undone(s) \cup {t} /\ t \notin Undone(s)
    BY <1>2, <1>3 DEF Undone
  <2>2. IsFiniteSet(Undone(s))
    BY <1>3, TasksFinite, FS_Subset DEF Undone
  <2>3. Cardinality(Undone(n)) = Cardinality(Undone(s)) + 1
    BY <2>1, <2>2, FS_AddElement
  <2> QED BY <1>2, <2>3 DEF RecordOK, LiveOK
<1>9. ASSUME NEW u \in n.spawned \ {t}, ~n.done[u]
      PROVE  \/ n.queued[u]
             \/ u = c
             \/ \E q \in WaitQueue : \E i \in 1 .. Len(n.wait[q]) : n.wait[q][i] = u
  <2>1. /\ u \in Task /\ u \in s.spawned /\ ~s.done[u]
        /\ n.queued[u] = s.queued[u]
    BY <1>2, <1>3, <1>9
  <2> QED BY <1>2, <2>1 DEF RecordOK, NoneLost
<1>10. t \in n.spawned /\ ~n.queued[t] /\ ~n.done[t] /\ n.runnable[t]
  BY <1>2, <1>3
<1>11. RecordOK(Enqueue(n, t), c)
  BY <1>2, <1>4, <1>5, <1>6, <1>7, <1>8, <1>9, <1>10, EnqueueOK
<1> QED BY <1>11 DEF TaskInit, n, f

\* task-park! of the running task: its place is the tail of the wait queue.
LEMMA ParkOK ==
    ASSUME NEW s, NEW c \in Task, NEW q \in WaitQueue, RecordOK(s, c)
    PROVE  /\ RecordOK(Park(s, q, c), NoTask)
           /\ ~Park(s, q, c).runnable[c]
<1> DEFINE n == Park(s, q, c)
<1>1. s \in SchedulerRecord
  BY DEF RecordOK
<1>2. /\ c \in s.spawned /\ ~s.done[c] /\ s.runnable[c]
      /\ s.ready \in Seq(Task) /\ s.queued \in [Task -> BOOLEAN]
      /\ s.runnable \in [Task -> BOOLEAN]
      /\ s.wait \in [WaitQueue -> Seq(Task)] /\ s.wait[q] \in Seq(Task)
      /\ c # NoTask
  BY <1>1, NoTaskIsNone DEF RecordOK, RunningOK, SchedulerRecord
<1>3. /\ Append(s.wait[q], c) \in Seq(Task)
      /\ Len(s.wait[q]) \in Nat
      /\ Len(Append(s.wait[q], c)) = Len(s.wait[q]) + 1
      /\ \A i \in 1 .. Len(s.wait[q]) : Append(s.wait[q], c)[i] = s.wait[q][i]
      /\ Append(s.wait[q], c)[Len(s.wait[q]) + 1] = c
  BY <1>2, AppendIndices
<1>4. /\ n.runnable = [s.runnable EXCEPT ![c] = FALSE]
      /\ n.wait = [s.wait EXCEPT ![q] = Append(s.wait[q], c)]
      /\ n.ready = s.ready /\ n.queued = s.queued /\ n.done = s.done
      /\ n.live = s.live /\ n.spawned = s.spawned
      /\ n \in SchedulerRecord
  BY <1>1, <1>2, <1>3 DEF Park, SchedulerRecord
<1> HIDE DEF n
<1>5. ReadyOK(n, NoTask)
  <2>1. ReadyOK(s, c)
    BY DEF RecordOK
  <2>2. \A i \in 1 .. Len(s.ready) : s.ready[i] \in Task \ {c}
    BY <1>2, <2>1 DEF ReadyOK
  <2>3. \A u \in Task \ {c} : n.runnable[u] = s.runnable[u]
    BY <1>2, <1>4
  <2>4. \A i \in 1 .. Len(n.ready) : n.ready[i] # NoTask
    BY <1>4, <2>2, NoTaskIsNone
  <2> QED BY <1>4, <2>1, <2>2, <2>3, <2>4 DEF ReadyOK
<1>6. WaitOK(n)
  <2>1. /\ \A p \in WaitQueue \ {q} : n.wait[p] = s.wait[p]
        /\ n.wait[q] = Append(s.wait[q], c)
    BY <1>2, <1>4
  <2>2. \A p \in WaitQueue : \A i \in 1 .. Len(s.wait[p]) :
           /\ s.wait[p][i] # c
           /\ s.wait[p][i] \in Task
    BY <1>2, <1>1 DEF RecordOK, WaitOK, SchedulerRecord
  <2>3. \A u \in Task \ {c} : n.runnable[u] = s.runnable[u]
    BY <1>2, <1>4
  <2>4. ~n.runnable[c]
    BY <1>2, <1>4
  <2>5. ASSUME NEW p \in WaitQueue, NEW i \in 1 .. Len(n.wait[p])
        PROVE  \/ i \in 1 .. Len(s.wait[p]) /\ n.wait[p][i] = s.wait[p][i]
               \/ p = q /\ i = Len(s.wait[q]) + 1 /\ n.wait[p][i] = c
    <3>1. CASE p = q
      BY <1>3, <2>1, <3>1
    <3>2. CASE p # q
      BY <2>1, <3>2
    <3> QED BY <3>1, <3>2
  <2>6. ASSUME NEW p \in WaitQueue, NEW r \in WaitQueue,
               NEW i \in 1 .. Len(n.wait[p]), NEW j \in 1 .. Len(n.wait[r]),
               n.wait[p][i] = n.wait[r][j]
        PROVE  p = r /\ i = j
    <3>1. CASE i \in 1 .. Len(s.wait[p]) /\ j \in 1 .. Len(s.wait[r])
      <4>1. n.wait[p][i] = s.wait[p][i] /\ n.wait[r][j] = s.wait[r][j]
        <5>1. \A x \in WaitQueue : \A k \in 1 .. Len(s.wait[x]) :
                 n.wait[x][k] = s.wait[x][k]
          <6> TAKE x \in WaitQueue
          <6> TAKE k \in 1 .. Len(s.wait[x])
          <6>1. CASE x = q
            BY <1>3, <2>1, <6>1
          <6>2. CASE x # q
            BY <2>1, <6>2
          <6> QED BY <6>1, <6>2
        <5>2. n.wait[p][i] = s.wait[p][i]
          BY <3>1, <5>1
        <5>3. n.wait[r][j] = s.wait[r][j]
          BY <3>1, <5>1
        <5> QED BY <5>2, <5>3
      <4>2. s.wait[p][i] = s.wait[r][j]
        BY <2>6, <4>1
      <4> QED BY <3>1, <4>2 DEF RecordOK, WaitOK
    <3>2. CASE i \notin 1 .. Len(s.wait[p])
      <4>1. p = q /\ i = Len(s.wait[q]) + 1 /\ n.wait[p][i] = c
        BY <2>5, <3>2
      <4>2. r = q /\ j = Len(s.wait[q]) + 1
        BY <2>2, <2>5, <2>6, <4>1
      <4> QED BY <4>1, <4>2
    <3>3. CASE j \notin 1 .. Len(s.wait[r])
      <4>1. r = q /\ j = Len(s.wait[q]) + 1 /\ n.wait[r][j] = c
        BY <2>5, <3>3
      <4>2. p = q /\ i = Len(s.wait[q]) + 1
        BY <2>2, <2>5, <2>6, <4>1
      <4> QED BY <4>1, <4>2
    <3> QED BY <3>1, <3>2, <3>3
  <2>7. ASSUME NEW p \in WaitQueue, NEW i \in 1 .. Len(n.wait[p])
        PROVE  /\ n.wait[p][i] \in n.spawned
               /\ ~n.done[n.wait[p][i]]
               /\ ~n.runnable[n.wait[p][i]]
    BY <1>2, <1>4, <2>2, <2>3, <2>4, <2>5 DEF RecordOK, WaitOK
  <2> QED BY <2>6, <2>7 DEF WaitOK
<1>7. NoneLost(n, NoTask)
  <2> SUFFICES ASSUME NEW u \in n.spawned, ~n.done[u], ~n.queued[u]
               PROVE  \E p \in WaitQueue : \E i \in 1 .. Len(n.wait[p]) :
                         n.wait[p][i] = u
    BY DEF NoneLost
  <2>1. CASE u = c
    <3>1. /\ Len(s.wait[q]) + 1 \in 1 .. Len(n.wait[q])
          /\ n.wait[q][Len(s.wait[q]) + 1] = c
      BY <1>2, <1>3, <1>4
    <3> QED BY <2>1, <3>1
  <2>2. CASE u # c
    <3>1. PICK p \in WaitQueue : \E i \in 1 .. Len(s.wait[p]) : s.wait[p][i] = u
      BY <1>4, <2>2 DEF RecordOK, NoneLost
    <3>2. PICK i \in 1 .. Len(s.wait[p]) : s.wait[p][i] = u
      BY <3>1
    <3>3. i \in 1 .. Len(n.wait[p]) /\ n.wait[p][i] = u
      BY <1>2, <1>3, <1>4, <3>2
    <3> QED BY <3>3
  <2> QED BY <2>1, <2>2
<1>8. RunningOK(n, NoTask)
  BY DEF RunningOK
<1>9. LiveOK(n)
  <2>1. Undone(n) = Undone(s)
    BY <1>4 DEF Undone
  <2> QED BY <2>1, <1>4 DEF RecordOK, LiveOK
<1> QED BY <1>2, <1>4, <1>5, <1>6, <1>7, <1>8, <1>9 DEF RecordOK, n

\* task-complete! of the running task: it leaves the live tasks.
LEMMA CompleteOK ==
    ASSUME NEW s, NEW c \in Task, RecordOK(s, c)
    PROVE  /\ RecordOK(Complete(s, c), NoTask)
           /\ ~Complete(s, c).runnable[c]
<1> DEFINE n == Complete(s, c)
<1>1. s \in SchedulerRecord
  BY DEF RecordOK
<1>2. /\ c \in s.spawned /\ ~s.done[c] /\ s.runnable[c]
      /\ s.done \in [Task -> BOOLEAN] /\ s.runnable \in [Task -> BOOLEAN]
      /\ s.ready \in Seq(Task) /\ s.live \in Int /\ s.spawned \subseteq Task
      /\ s.wait \in [WaitQueue -> Seq(Task)]
      /\ c # NoTask
  BY <1>1, NoTaskIsNone DEF RecordOK, RunningOK, SchedulerRecord
<1>3. /\ n.runnable = [s.runnable EXCEPT ![c] = FALSE]
      /\ n.done = [s.done EXCEPT ![c] = TRUE]
      /\ n.live = s.live - 1
      /\ n.ready = s.ready /\ n.queued = s.queued /\ n.wait = s.wait
      /\ n.spawned = s.spawned
      /\ n \in SchedulerRecord
  <2>1. n = [s EXCEPT !.done[c] = TRUE, !.runnable[c] = FALSE, !.live = @ - 1]
    BY <1>2 DEF Complete
  <2> HIDE DEF n
  <2>2. n \in SchedulerRecord
    <3>1. s.live - 1 \in Int
      BY <1>2
    <3> QED BY <1>1, <2>1, <3>1, CompleteUpdate
  <2>3. /\ n.runnable = [s.runnable EXCEPT ![c] = FALSE]
        /\ n.done = [s.done EXCEPT ![c] = TRUE]
        /\ n.live = s.live - 1
    BY <1>1, <2>1 DEF SchedulerRecord
  <2>4. /\ n.ready = s.ready /\ n.queued = s.queued /\ n.wait = s.wait
        /\ n.spawned = s.spawned
    BY <1>1, <2>1 DEF SchedulerRecord
  <2> QED BY <2>2, <2>3, <2>4
<1> HIDE DEF n
<1>4. \A u \in Task \ {c} : n.runnable[u] = s.runnable[u] /\ n.done[u] = s.done[u]
  BY <1>2, <1>3
<1>5. n.done[c] /\ ~n.runnable[c]
  BY <1>2, <1>3
<1>6. ReadyOK(n, NoTask)
  <2>1. \A i \in 1 .. Len(s.ready) : s.ready[i] \in Task \ {c}
    BY <1>2 DEF RecordOK, ReadyOK
  <2> QED BY <1>3, <1>4, <2>1, NoTaskIsNone DEF RecordOK, ReadyOK
<1>7. WaitOK(n)
  <2>1. \A p \in WaitQueue : \A i \in 1 .. Len(s.wait[p]) : s.wait[p][i] \in Task \ {c}
    BY <1>2 DEF RecordOK, WaitOK
  <2> QED BY <1>3, <1>4, <2>1 DEF RecordOK, WaitOK
<1>8. NoneLost(n, NoTask)
  <2> SUFFICES ASSUME NEW u \in n.spawned, ~n.done[u], ~n.queued[u]
               PROVE  \E p \in WaitQueue : \E i \in 1 .. Len(n.wait[p]) :
                         n.wait[p][i] = u
    BY DEF NoneLost
  <2>1. u \in Task \ {c}
    BY <1>2, <1>3, <1>5
  <2> QED BY <1>3, <1>4, <2>1 DEF RecordOK, NoneLost
<1>9. RunningOK(n, NoTask)
  BY DEF RunningOK
<1>10. LiveOK(n)
  <2>1. Undone(n) = Undone(s) \ {c} /\ c \in Undone(s)
    BY <1>2, <1>3, <1>4, <1>5 DEF Undone
  <2>2. IsFiniteSet(Undone(s))
    BY <1>2, TasksFinite, FS_Subset DEF Undone
  <2>3. Cardinality(Undone(n)) = Cardinality(Undone(s)) - 1
    BY <2>1, <2>2, FS_RemoveElement
  <2> QED BY <1>3, <2>3 DEF RecordOK, LiveOK
<1> QED BY <1>2, <1>3, <1>6, <1>7, <1>8, <1>9, <1>10 DEF RecordOK, n

\* wait-queue-wake-one!: the head of the wait queue moves to the run queue.
LEMMA WakeOneOK ==
    ASSUME NEW s, NEW c, NEW q \in WaitQueue, RecordOK(s, c), s.wait[q] # <<>>
    PROVE  RecordOK(WakeOne(s, q), c)
<1> DEFINE t == Head(s.wait[q])
           m == [s EXCEPT !.wait[q] = Tail(s.wait[q])]
           n == [m EXCEPT !.runnable[t] = TRUE]
<1>1. s \in SchedulerRecord
  BY DEF RecordOK
<1>2. /\ s.ready \in Seq(Task) /\ s.queued \in [Task -> BOOLEAN]
      /\ s.runnable \in [Task -> BOOLEAN] /\ s.spawned \subseteq Task
      /\ s.wait \in [WaitQueue -> Seq(Task)] /\ s.wait[q] \in Seq(Task)
  BY <1>1 DEF SchedulerRecord
<1>3. /\ Tail(s.wait[q]) \in Seq(Task)
      /\ Len(s.wait[q]) \in Nat /\ Len(s.wait[q]) >= 1
      /\ Len(Tail(s.wait[q])) = Len(s.wait[q]) - 1
      /\ \A i \in 1 .. Len(s.wait[q]) - 1 : Tail(s.wait[q])[i] = s.wait[q][i + 1]
      /\ t = s.wait[q][1]
      /\ t \in Task
  BY <1>2, TailIndices
<1>4. 1 \in 1 .. Len(s.wait[q])
  BY <1>3
<1>5. t \in s.spawned /\ ~s.done[t] /\ ~s.runnable[t]
  BY <1>3, <1>4 DEF RecordOK, WaitOK
<1>6. /\ m \in SchedulerRecord
      /\ m.wait = [s.wait EXCEPT ![q] = Tail(s.wait[q])]
      /\ m.ready = s.ready /\ m.queued = s.queued /\ m.done = s.done
      /\ m.runnable = s.runnable /\ m.live = s.live /\ m.spawned = s.spawned
  BY <1>1, <1>3 DEF SchedulerRecord
<1>7. WakeOne(s, q) = Enqueue(n, t)
  BY <1>5, <1>6 DEF WakeOne, Wake
<1> HIDE DEF m
<1>8. /\ n \in SchedulerRecord
      /\ n.wait = m.wait
      /\ n.runnable = [s.runnable EXCEPT ![t] = TRUE]
      /\ n.ready = s.ready /\ n.queued = s.queued /\ n.done = s.done
      /\ n.live = s.live /\ n.spawned = s.spawned
  BY <1>3, <1>6 DEF SchedulerRecord
<1> HIDE DEF n, t
<1>9. /\ \A p \in WaitQueue \ {q} : n.wait[p] = s.wait[p]
      /\ n.wait[q] = Tail(s.wait[q])
  BY <1>2, <1>6, <1>8
\* Every waiter that is left was a waiter, at the next index of q.
<1>10. ASSUME NEW p \in WaitQueue, NEW i \in 1 .. Len(n.wait[p])
       PROVE  /\ p # q => i \in 1 .. Len(s.wait[p]) /\ n.wait[p][i] = s.wait[p][i]
              /\ p = q => i + 1 \in 1 .. Len(s.wait[q]) /\ n.wait[p][i] = s.wait[q][i + 1]
  <2>1. CASE p # q
    BY <1>9, <2>1
  <2>2. CASE p = q
    <3>1. n.wait[p] = Tail(s.wait[q])
      BY <1>9, <2>2
    <3>2. i \in 1 .. Len(s.wait[q]) - 1
      BY <1>3, <3>1
    <3> QED BY <1>3, <2>2, <3>1, <3>2
  <2> QED BY <2>1, <2>2
<1>11. ASSUME NEW p \in WaitQueue, NEW i \in 1 .. Len(n.wait[p])
       PROVE  /\ n.wait[p][i] # t
              /\ n.wait[p][i] \in s.spawned
              /\ ~s.done[n.wait[p][i]]
              /\ ~s.runnable[n.wait[p][i]]
  <2>1. CASE p # q
    <3>1. i \in 1 .. Len(s.wait[p]) /\ n.wait[p][i] = s.wait[p][i]
      BY <1>10, <2>1
    <3>2. s.wait[p][i] # t
      BY <1>3, <1>4, <2>1, <3>1 DEF RecordOK, WaitOK
    <3> QED BY <3>1, <3>2 DEF RecordOK, WaitOK
  <2>2. CASE p = q
    <3>1. i \in Nat /\ i >= 1
      BY <1>3, <1>9, <2>2
    <3>2. i + 1 # 1
      BY <3>1
    <3>3. i + 1 \in 1 .. Len(s.wait[q]) /\ n.wait[p][i] = s.wait[q][i + 1]
      BY <1>10, <2>2
    <3>4. s.wait[q][i + 1] # t
      BY <1>3, <1>4, <3>2, <3>3 DEF RecordOK, WaitOK
    <3> QED BY <3>3, <3>4 DEF RecordOK, WaitOK
  <2> QED BY <2>1, <2>2
<1>12. WaitOK(n)
  <2>1. ASSUME NEW p \in WaitQueue, NEW r \in WaitQueue,
               NEW i \in 1 .. Len(n.wait[p]), NEW j \in 1 .. Len(n.wait[r]),
               n.wait[p][i] = n.wait[r][j]
        PROVE  p = r /\ i = j
    <3>1. /\ i \in Int /\ j \in Int
      OBVIOUS
    <3>2. CASE p # q /\ r # q
      <4>1. /\ i \in 1 .. Len(s.wait[p]) /\ j \in 1 .. Len(s.wait[r])
            /\ s.wait[p][i] = s.wait[r][j]
        BY <1>10, <2>1, <3>2
      <4> QED BY <4>1 DEF RecordOK, WaitOK
    <3>3. CASE p = q /\ r # q
      <4>1. /\ i + 1 \in 1 .. Len(s.wait[q]) /\ j \in 1 .. Len(s.wait[r])
            /\ s.wait[q][i + 1] = s.wait[r][j]
        BY <1>10, <2>1, <3>3
      <4> QED BY <3>3, <4>1 DEF RecordOK, WaitOK
    <3>4. CASE p # q /\ r = q
      <4>1. /\ i \in 1 .. Len(s.wait[p]) /\ j + 1 \in 1 .. Len(s.wait[q])
            /\ s.wait[p][i] = s.wait[q][j + 1]
        BY <1>10, <2>1, <3>4
      <4> QED BY <3>4, <4>1 DEF RecordOK, WaitOK
    <3>5. CASE p = q /\ r = q
      <4>1. /\ i + 1 \in 1 .. Len(s.wait[q]) /\ j + 1 \in 1 .. Len(s.wait[q])
            /\ s.wait[q][i + 1] = s.wait[q][j + 1]
        BY <1>10, <2>1, <3>5
      <4>2. i + 1 = j + 1
        BY <4>1 DEF RecordOK, WaitOK
      <4> QED BY <3>1, <3>5, <4>2
    <3> QED BY <3>2, <3>3, <3>4, <3>5
  <2>2. ASSUME NEW p \in WaitQueue, NEW i \in 1 .. Len(n.wait[p])
        PROVE  /\ n.wait[p][i] \in n.spawned
               /\ ~n.done[n.wait[p][i]]
               /\ ~n.runnable[n.wait[p][i]]
    <3>1. n.wait[p][i] \in Task \ {t}
      BY <1>2, <1>11
    <3> QED BY <1>2, <1>8, <1>11, <3>1
  <2> QED BY <2>1, <2>2 DEF WaitOK
<1>13. ReadyOK(n, c)
  <2>1. ReadyOK(s, c)
    BY DEF RecordOK
  <2>2. \A i \in 1 .. Len(s.ready) : s.ready[i] \in Task \ {t}
    BY <1>2, <1>5, <2>1 DEF ReadyOK
  <2>3. \A u \in Task \ {t} : n.runnable[u] = s.runnable[u]
    BY <1>2, <1>8
  <2> QED BY <1>8, <2>1, <2>2, <2>3 DEF ReadyOK
<1>14. t # c
  BY <1>3, <1>5, NoTaskIsNone DEF RecordOK, RunningOK
<1>15. RunningOK(n, c)
  BY <1>2, <1>8, <1>14 DEF RecordOK, RunningOK
<1>16. LiveOK(n)
  <2>1. Undone(n) = Undone(s)
    BY <1>8 DEF Undone
  <2> QED BY <2>1, <1>8 DEF RecordOK, LiveOK
<1>17. ~s.queued[t]
  <2>1. ASSUME s.queued[t] PROVE FALSE
    <3>1. PICK i \in 1 .. Len(s.ready) : s.ready[i] = t
      BY <1>3, <2>1 DEF RecordOK, ReadyOK
    <3> QED BY <1>5, <3>1 DEF RecordOK, ReadyOK
  <2> QED BY <2>1
<1>18. ASSUME NEW u \in n.spawned \ {t}, ~n.done[u], ~n.queued[u], u # c
       PROVE  \E p \in WaitQueue : \E i \in 1 .. Len(n.wait[p]) : n.wait[p][i] = u
  <2>1. PICK p \in WaitQueue : \E i \in 1 .. Len(s.wait[p]) : s.wait[p][i] = u
    BY <1>8, <1>18 DEF RecordOK, NoneLost
  <2>2. PICK i \in 1 .. Len(s.wait[p]) : s.wait[p][i] = u
    BY <2>1
  <2>3. CASE p # q
    BY <1>9, <2>2, <2>3
  <2>4. CASE p = q
    <3>1. i # 1
      BY <1>3, <1>18, <2>2, <2>4
    <3>2. i - 1 \in 1 .. Len(n.wait[q]) /\ n.wait[q][i - 1] = u
      BY <1>3, <1>9, <2>2, <2>4, <3>1
    <3> QED BY <3>2
  <2> QED BY <2>3, <2>4
<1>19. t \in n.spawned /\ ~n.queued[t] /\ ~n.done[t] /\ n.runnable[t]
  BY <1>2, <1>3, <1>5, <1>8, <1>17
<1>20. RecordOK(Enqueue(n, t), c)
  BY <1>3, <1>8, <1>12, <1>13, <1>14, <1>15, <1>16, <1>18, <1>19, EnqueueOK
<1> QED BY <1>7, <1>20

-----------------------------------------------------------------------------
(* What each operation changes. *)

\* The flag of a task says whether it is in the run queue.
LEMMA QueuedIs ==
    ASSUME NEW s, NEW c, RecordOK(s, c), NEW t \in Task
    PROVE  t \in ToSet(s.ready) <=> s.queued[t]
<1>1. s.ready \in Seq(Task) /\ ReadyOK(s, c)
  BY DEF RecordOK, SchedulerRecord
<1>2. t \in ToSet(s.ready) <=> \E i \in 1 .. Len(s.ready) : s.ready[i] = t
  BY <1>1 DEF ToSet
<1>3. \A i \in 1 .. Len(s.ready) : s.queued[s.ready[i]]
  BY <1>1 DEF ReadyOK
<1>4. s.queued[t] => \E i \in 1 .. Len(s.ready) : s.ready[i] = t
  BY <1>1 DEF ReadyOK
<1> QED BY <1>2, <1>3, <1>4

\* A waiting task is neither runnable, done, queued nor running.
LEMMA WaiterIs ==
    ASSUME NEW s, NEW c, RecordOK(s, c), NEW q \in WaitQueue,
           NEW i \in 1 .. Len(s.wait[q])
    PROVE  /\ s.wait[q][i] \in Task /\ s.wait[q][i] \in s.spawned
           /\ ~s.done[s.wait[q][i]] /\ ~s.runnable[s.wait[q][i]]
           /\ ~s.queued[s.wait[q][i]] /\ s.wait[q][i] # c
<1>1. s.wait[q] \in Seq(Task) /\ s.wait[q][i] \in Task
  BY DEF RecordOK, SchedulerRecord
<1>2. /\ s.wait[q][i] \in s.spawned
      /\ ~s.done[s.wait[q][i]] /\ ~s.runnable[s.wait[q][i]]
  BY DEF RecordOK, WaitOK
<1>3. ~s.queued[s.wait[q][i]]
  BY <1>1, <1>2 DEF RecordOK, ReadyOK
<1>4. s.wait[q][i] # c
  BY <1>1, <1>2, NoTaskIsNone DEF RecordOK, RunningOK
<1> QED BY <1>1, <1>2, <1>3, <1>4

TakeChanges(s, h, n) ==
    /\ \A u \in Task : n.queued[u] <=> s.queued[u] /\ u # h
    /\ n.wait = s.wait /\ n.runnable = s.runnable /\ n.done = s.done
    /\ n.live = s.live /\ n.spawned = s.spawned

ReturnChanges(s, c, n) ==
    /\ \A u \in Task : n.queued[u] <=> s.queued[u] \/ u = c
    /\ n.wait = s.wait /\ n.runnable = s.runnable /\ n.done = s.done
    /\ n.live = s.live /\ n.spawned = s.spawned

InitChanges(s, t, n) ==
    /\ \A u \in Task : /\ n.queued[u] <=> s.queued[u] \/ u = t
                       /\ n.done[u] <=> s.done[u] /\ u # t
                       /\ n.runnable[u] <=> s.runnable[u] \/ u = t
    /\ n.wait = s.wait
    /\ n.live = s.live + 1 /\ n.spawned = s.spawned \cup {t}

ParkChanges(s, q, c, n) ==
    /\ n.wait[q] = Append(s.wait[q], c)
    /\ \A p \in WaitQueue \ {q} : n.wait[p] = s.wait[p]
    /\ \A u \in Task : n.runnable[u] <=> s.runnable[u] /\ u # c
    /\ n.ready = s.ready /\ n.queued = s.queued /\ n.done = s.done
    /\ n.live = s.live /\ n.spawned = s.spawned

CompleteChanges(s, c, n) ==
    /\ \A u \in Task : /\ n.done[u] <=> s.done[u] \/ u = c
                       /\ n.runnable[u] <=> s.runnable[u] /\ u # c
    /\ n.wait = s.wait /\ n.ready = s.ready /\ n.queued = s.queued
    /\ n.live = s.live - 1 /\ n.spawned = s.spawned

WakeOneChanges(s, q, n) ==
    /\ \A u \in Task : /\ n.queued[u] <=> s.queued[u] \/ u = s.wait[q][1]
                       /\ n.runnable[u] <=> s.runnable[u] \/ u = s.wait[q][1]
    /\ Len(n.wait[q]) = Len(s.wait[q]) - 1
    /\ \A i \in 1 .. Len(s.wait[q]) - 1 : n.wait[q][i] = s.wait[q][i + 1]
    /\ \A p \in WaitQueue \ {q} : n.wait[p] = s.wait[p]
    /\ n.done = s.done /\ n.live = s.live /\ n.spawned = s.spawned

WakeAllChanges(s, q, n) ==
    /\ \A u \in Task :
          /\ n.queued[u] <=>
                s.queued[u] \/ \E i \in 1 .. Len(s.wait[q]) : s.wait[q][i] = u
          /\ n.runnable[u] <=>
                s.runnable[u] \/ \E i \in 1 .. Len(s.wait[q]) : s.wait[q][i] = u
    /\ n.wait[q] = <<>>
    /\ \A p \in WaitQueue \ {q} : n.wait[p] = s.wait[p]
    /\ n.done = s.done /\ n.live = s.live /\ n.spawned = s.spawned

LEMMA TakeEffect ==
    ASSUME NEW s, NEW c, RecordOK(s, c), s.ready # <<>>
    PROVE  /\ Head(s.ready) \in Task /\ Head(s.ready) \in s.spawned
           /\ Head(s.ready) # c /\ s.queued[Head(s.ready)]
           /\ s.runnable[Head(s.ready)] /\ ~s.done[Head(s.ready)]
           /\ TakeChanges(s, Head(s.ready), Take(s))
<1>1. s \in SchedulerRecord /\ s.ready \in Seq(Task) /\ ReadyOK(s, c)
  BY DEF RecordOK, SchedulerRecord
<1>2. Head(s.ready) = s.ready[1] /\ Head(s.ready) \in Task /\ 1 \in 1 .. Len(s.ready)
  BY <1>1, TailIndices
<1>3. /\ Head(s.ready) \in s.spawned /\ Head(s.ready) # c
      /\ s.queued[Head(s.ready)] /\ s.runnable[Head(s.ready)]
      /\ ~s.done[Head(s.ready)]
  BY <1>1, <1>2 DEF ReadyOK
<1>4. LET n == Take(s)
      IN  /\ n.queued = [s.queued EXCEPT ![Head(s.ready)] = FALSE]
          /\ n.wait = s.wait /\ n.runnable = s.runnable /\ n.done = s.done
          /\ n.live = s.live /\ n.spawned = s.spawned
  BY <1>1 DEF Take, SchedulerRecord
<1>5. s.queued \in [Task -> BOOLEAN]
  BY <1>1 DEF SchedulerRecord
<1> HIDE DEF Take
<1> QED BY <1>2, <1>3, <1>4, <1>5 DEF TakeChanges

\* A step that neither parked nor completed its task puts it at the tail.
LEMMA AfterStepEffect ==
    ASSUME NEW s, NEW c \in Task, RecordOK(s, c)
    PROVE  ReturnChanges(s, c, AfterStep(s, c))
<1>1. s \in SchedulerRecord /\ s.runnable[c] /\ ~s.done[c] /\ ~s.queued[c]
  BY NoTaskIsNone DEF RecordOK, RunningOK, ReadyOK
<1> QED BY <1>1 DEF AfterStep, Enqueue, SchedulerRecord, ReturnChanges

LEMMA TaskInitEffect ==
    ASSUME NEW s, NEW c, RecordOK(s, c), NEW t \in Task, t \notin s.spawned
    PROVE  InitChanges(s, t, TaskInit(s, t))
<1> DEFINE f == [Fresh(s, t) EXCEPT !.live = @ + 1, !.spawned = @ \cup {t}]
<1>1. s \in SchedulerRecord
  BY DEF RecordOK
<1>2. /\ f.queued = [s.queued EXCEPT ![t] = FALSE]
      /\ f.done = [s.done EXCEPT ![t] = FALSE]
      /\ f.runnable = [s.runnable EXCEPT ![t] = TRUE]
      /\ f.wait = s.wait /\ f.live = s.live + 1 /\ f.spawned = s.spawned \cup {t}
      /\ f \in SchedulerRecord
  <2> DEFINE r == Fresh(s, t)
  <2>1. /\ r \in SchedulerRecord
        /\ r.wait = s.wait
        /\ r.queued = [s.queued EXCEPT ![t] = FALSE]
        /\ r.runnable = [s.runnable EXCEPT ![t] = TRUE]
        /\ r.done = [s.done EXCEPT ![t] = FALSE]
        /\ r.live = s.live /\ r.spawned = s.spawned
    BY <1>1 DEF SchedulerRecord, Fresh
  <2>2. r.live + 1 \in Int /\ r.spawned \cup {t} \in SUBSET Task
    BY <2>1 DEF SchedulerRecord
  <2> HIDE DEF r
  <2>3. f = [r EXCEPT !.live = r.live + 1, !.spawned = r.spawned \cup {t}]
    BY DEF r
  <2>4. f \in SchedulerRecord
    <3>1. [r EXCEPT !.live = r.live + 1, !.spawned = r.spawned \cup {t}]
             \in SchedulerRecord
      BY <2>1, <2>2, LiveUpdate
    <3> QED BY <2>3, <3>1
  <2>5. /\ f.wait = r.wait
        /\ f.queued = r.queued /\ f.runnable = r.runnable /\ f.done = r.done
        /\ f.live = r.live + 1 /\ f.spawned = r.spawned \cup {t}
    BY <2>1, <2>3 DEF SchedulerRecord
  <2> HIDE DEF f
  <2> QED BY <2>1, <2>4, <2>5
<1>3. TaskInit(s, t) = Enqueue(f, t)
  BY DEF TaskInit
<1> HIDE DEF f
<1>4. s.queued \in [Task -> BOOLEAN] /\ s.done \in [Task -> BOOLEAN]
  BY <1>1 DEF SchedulerRecord
<1>5. ~f.queued[t] /\ ~f.done[t]
  BY <1>2, <1>4
<1>6. Enqueue(f, t) = [f EXCEPT !.ready = Append(@, t), !.queued[t] = TRUE]
  BY <1>5 DEF Enqueue
<1> DEFINE n == Enqueue(f, t)
<1>7. /\ n.queued = [s.queued EXCEPT ![t] = TRUE]
      /\ n.done = [s.done EXCEPT ![t] = FALSE]
      /\ n.runnable = [s.runnable EXCEPT ![t] = TRUE]
      /\ n.wait = s.wait /\ n.live = s.live + 1
      /\ n.spawned = s.spawned \cup {t}
  <2>1. /\ n.queued = [f.queued EXCEPT ![t] = TRUE] /\ n.done = f.done
        /\ n.runnable = f.runnable /\ n.wait = f.wait /\ n.live = f.live
        /\ n.spawned = f.spawned
    BY <1>2, <1>6 DEF SchedulerRecord
  <2>2. [f.queued EXCEPT ![t] = TRUE] = [s.queued EXCEPT ![t] = TRUE]
    BY <1>2, <1>4
  <2> HIDE DEF n
  <2> QED BY <1>2, <2>1, <2>2
<1> HIDE DEF n
<1>8. s.runnable \in [Task -> BOOLEAN]
  BY <1>1 DEF SchedulerRecord
<1>9. \A u \in Task : /\ n.queued[u] <=> s.queued[u] \/ u = t
                      /\ n.done[u] <=> s.done[u] /\ u # t
                      /\ n.runnable[u] <=> s.runnable[u] \/ u = t
  BY <1>4, <1>7, <1>8
<1>10. InitChanges(s, t, n)
  BY <1>7, <1>9 DEF InitChanges
<1> QED BY <1>3, <1>10 DEF n

LEMMA ParkEffect ==
    ASSUME NEW s, NEW c \in Task, RecordOK(s, c), NEW q \in WaitQueue
    PROVE  /\ ParkChanges(s, q, c, Park(s, q, c))
           /\ AfterStep(Park(s, q, c), c) = Park(s, q, c)
<1>1. s \in SchedulerRecord /\ s.runnable[c]
  BY NoTaskIsNone DEF RecordOK, RunningOK
<1> QED BY <1>1 DEF Park, AfterStep, SchedulerRecord, ParkChanges

LEMMA CompleteEffect ==
    ASSUME NEW s, NEW c \in Task, RecordOK(s, c)
    PROVE  /\ CompleteChanges(s, c, Complete(s, c))
           /\ AfterStep(Complete(s, c), c) = Complete(s, c)
<1>1. s \in SchedulerRecord /\ ~s.done[c]
  BY NoTaskIsNone DEF RecordOK, RunningOK
<1> QED BY <1>1 DEF Complete, AfterStep, SchedulerRecord, CompleteChanges

\* The head of the wait queue goes to the tail of the run queue.
LEMMA WakeOneEffect ==
    ASSUME NEW s, NEW c, RecordOK(s, c), NEW q \in WaitQueue, s.wait[q] # <<>>
    PROVE  /\ s.wait[q][1] \in Task /\ 1 \in 1 .. Len(s.wait[q])
           /\ ~s.queued[s.wait[q][1]] /\ s.wait[q][1] # c
           /\ WakeOneChanges(s, q, WakeOne(s, q))
<1> DEFINE h == Head(s.wait[q])
           m == [[s EXCEPT !.wait[q] = Tail(@)] EXCEPT !.runnable[h] = TRUE]
<1>1. s \in SchedulerRecord /\ s.wait[q] \in Seq(Task)
  BY DEF RecordOK, SchedulerRecord
<1>2. h \in Task /\ h = s.wait[q][1] /\ 1 \in 1 .. Len(s.wait[q])
  BY <1>1, TailIndices
<1>3. ~s.queued[h] /\ h # c /\ ~s.done[h]
  BY <1>2, WaiterIs
<1>4. /\ m.queued = s.queued /\ m.runnable = [s.runnable EXCEPT ![h] = TRUE]
      /\ m.wait = [s.wait EXCEPT ![q] = Tail(@)]
      /\ m.done = s.done /\ m.live = s.live /\ m.spawned = s.spawned
      /\ [s EXCEPT !.wait[q] = Tail(@)].done = s.done
  BY <1>1 DEF SchedulerRecord
<1>5. WakeOne(s, q) = Enqueue(m, h)
  BY <1>3, <1>4 DEF WakeOne, Wake
<1>6. Enqueue(m, h) = [m EXCEPT !.ready = Append(@, h), !.queued[h] = TRUE]
  BY <1>3, <1>4 DEF Enqueue
<1>7. /\ Enqueue(m, h).queued = [s.queued EXCEPT ![h] = TRUE]
      /\ Enqueue(m, h).runnable = m.runnable /\ Enqueue(m, h).wait = m.wait
      /\ Enqueue(m, h).done = m.done /\ Enqueue(m, h).live = m.live
      /\ Enqueue(m, h).spawned = m.spawned
  <2>1. m \in SchedulerRecord
    <3>1. Tail(s.wait[q]) \in Seq(Task)
      BY <1>1, TailIndices
    <3> DEFINE k == [s EXCEPT !.wait[q] = Tail(@)]
    <3>2. k \in SchedulerRecord
      BY <1>1, <3>1 DEF SchedulerRecord
    <3> HIDE DEF k
    <3>3. [k EXCEPT !.runnable[h] = TRUE] \in SchedulerRecord
      BY <1>2, <3>2 DEF SchedulerRecord
    <3> QED BY <3>3 DEF k
  <2> HIDE DEF m
  <2>2. LET e == [m EXCEPT !.ready = Append(@, h), !.queued[h] = TRUE]
        IN  /\ e.queued = [m.queued EXCEPT ![h] = TRUE]
            /\ e.runnable = m.runnable /\ e.wait = m.wait
            /\ e.done = m.done /\ e.live = m.live /\ e.spawned = m.spawned
    BY <2>1 DEF SchedulerRecord
  <2> QED BY <1>4, <1>6, <2>2
<1> HIDE DEF m
<1>8. /\ Len(m.wait[q]) = Len(s.wait[q]) - 1
      /\ \A i \in 1 .. Len(s.wait[q]) - 1 : m.wait[q][i] = s.wait[q][i + 1]
      /\ \A p \in WaitQueue \ {q} : m.wait[p] = s.wait[p]
  <2>1. s.wait \in [WaitQueue -> Seq(Task)]
    BY <1>1 DEF SchedulerRecord
  <2>2. m.wait[q] = Tail(s.wait[q]) /\ \A p \in WaitQueue \ {q} : m.wait[p] = s.wait[p]
    BY <1>4, <2>1
  <2>3. /\ Len(Tail(s.wait[q])) = Len(s.wait[q]) - 1
        /\ \A i \in 1 .. Len(s.wait[q]) - 1 : Tail(s.wait[q])[i] = s.wait[q][i + 1]
    BY <1>1, TailIndices
  <2> QED BY <2>2, <2>3
<1>9. h = s.wait[q][1]
  BY <1>2
<1> HIDE DEF h
<1>10. \A u \in Task :
          /\ [s.queued EXCEPT ![h] = TRUE][u] <=> s.queued[u] \/ u = h
          /\ [s.runnable EXCEPT ![h] = TRUE][u] <=> s.runnable[u] \/ u = h
  BY <1>1, <1>2 DEF SchedulerRecord
<1> DEFINE n == WakeOne(s, q)
<1>11. /\ n.queued = [s.queued EXCEPT ![h] = TRUE]
       /\ n.runnable = [s.runnable EXCEPT ![h] = TRUE]
       /\ n.wait = m.wait /\ n.done = s.done /\ n.live = s.live
       /\ n.spawned = s.spawned
  BY <1>4, <1>5, <1>7
<1> HIDE DEF n
<1>12. \A u \in Task : /\ n.queued[u] <=> s.queued[u] \/ u = s.wait[q][1]
                       /\ n.runnable[u] <=> s.runnable[u] \/ u = s.wait[q][1]
  BY <1>9, <1>10, <1>11
<1>13. WakeOneChanges(s, q, n)
  BY <1>8, <1>11, <1>12 DEF WakeOneChanges
<1> QED BY <1>2, <1>3, <1>9, <1>13 DEF n
-----------------------------------------------------------------------------
(* waitq-wake-all!: a WakeOne for each task that waits on entry. *)

\* The calls so far, as the function that WakeAll is defined by.
WakeSteps(s, q) ==
    LET after[n \in 0 .. Len(s.wait[q])] ==
            IF n = 0 THEN s ELSE WakeOne(after[n - 1], q)
    IN  after

\* The recursion is well defined: a first length it fails at cannot exist.
LEMMA WakeDefined ==
    ASSUME NEW s, NEW q \in WaitQueue, s.wait[q] \in Seq(Task)
    PROVE  WakeSteps(s, q) =
              [n \in 0 .. Len(s.wait[q]) |->
                  IF n = 0 THEN s ELSE WakeOne(WakeSteps(s, q)[n - 1], q)]
<1> DEFINE Steps(f, m) ==
              f = [n \in 0 .. m |-> IF n = 0 THEN s ELSE WakeOne(f[n - 1], q)]
           Fails == {m \in Nat : ~\E f : Steps(f, m)}
<1>1. ASSUME Fails # {} PROVE FALSE
  <2>1. PICK m \in Fails : \A k \in Fails : m <= k
    BY <1>1, LeastNatural
  <2>2. CASE m = 0
    <3>1. Steps([n \in 0 .. 0 |-> s], 0)
      OBVIOUS
    <3> QED BY <2>2, <3>1
  <2>3. CASE m # 0
    <3>1. m - 1 \in Nat /\ m \in Nat /\ m - 1 \notin Fails
      <4>1. m \in Nat
        OBVIOUS
      <4> HIDE DEF Fails
      <4> QED BY <2>1, <2>3, <4>1
    <3>2. PICK f : Steps(f, m - 1)
      BY <3>1
    <3> DEFINE g == [n \in 0 .. m |-> IF n = m THEN WakeOne(f[m - 1], q) ELSE f[n]]
    <3>3. \A n \in 0 .. m - 1 : g[n] = f[n]
      BY <3>1
    <3>4. ASSUME NEW n \in 0 .. m
          PROVE  g[n] = IF n = 0 THEN s ELSE WakeOne(g[n - 1], q)
      <4>1. CASE n = m
        <5>1. g[m] = WakeOne(f[m - 1], q) /\ m - 1 \in 0 .. m - 1
          BY <3>1
        <5> QED BY <2>3, <3>3, <4>1, <5>1
      <4>2. CASE n = 0
        <5>1. f[0] = s
          BY <3>1, <3>2
        <5> QED BY <2>3, <3>1, <3>3, <4>2, <5>1
      <4>3. CASE n # m /\ n # 0
        <5>1. n \in 0 .. m - 1 /\ n - 1 \in 0 .. m - 1
          BY <3>1, <4>3
        <5>2. f[n] = WakeOne(f[n - 1], q)
          BY <3>2, <4>3, <5>1
        <5>3. g[n] = f[n] /\ g[n - 1] = f[n - 1]
          BY <3>3, <5>1
        <5> QED BY <4>3, <5>2, <5>3
      <4> QED BY <4>1, <4>2, <4>3
    <3>5. Steps(g, m)
      BY <3>4
    <3> HIDE DEF g
    <3> QED BY <2>1, <3>5
  <2> QED BY <2>2, <2>3
<1>2. Len(s.wait[q]) \notin Fails
  <2> HIDE DEF Fails
  <2> QED BY <1>1
<1>3. \E f : Steps(f, Len(s.wait[q]))
  BY <1>2
<1>4. WakeSteps(s, q) = CHOOSE f : Steps(f, Len(s.wait[q]))
  BY DEF WakeSteps
<1>5. Steps(WakeSteps(s, q), Len(s.wait[q]))
  <2> HIDE DEF Steps
  <2> QED BY <1>3, <1>4
<1> QED BY <1>5

\* After n calls the first n waiters are in the run queue, the others still wait.
WakesSoFar(s, c, q, n, r) ==
    /\ RecordOK(r, c)
    /\ Len(r.wait[q]) = Len(s.wait[q]) - n
    /\ \A i \in 1 .. Len(s.wait[q]) - n : r.wait[q][i] = s.wait[q][i + n]
    /\ \A p \in WaitQueue \ {q} : r.wait[p] = s.wait[p]
    /\ \A t \in Task :
          /\ r.queued[t] <=> s.queued[t] \/ \E i \in 1 .. n : s.wait[q][i] = t
          /\ r.runnable[t] <=> s.runnable[t] \/ \E i \in 1 .. n : s.wait[q][i] = t
    /\ r.done = s.done /\ r.live = s.live /\ r.spawned = s.spawned

LEMMA WakesStart ==
    ASSUME NEW s, NEW c, RecordOK(s, c), NEW q \in WaitQueue
    PROVE  WakesSoFar(s, c, q, 0, s)
<1>1. /\ s.wait[q] \in Seq(Task) /\ Len(s.wait[q]) \in Nat
      /\ s.queued \in [Task -> BOOLEAN] /\ s.runnable \in [Task -> BOOLEAN]
  BY DEF RecordOK, SchedulerRecord
<1> QED BY <1>1 DEF WakesSoFar

LEMMA WakesAdvance ==
    ASSUME NEW s, NEW c, RecordOK(s, c), NEW q \in WaitQueue,
           NEW n \in 1 .. Len(s.wait[q]), NEW r, WakesSoFar(s, c, q, n - 1, r)
    PROVE  WakesSoFar(s, c, q, n, WakeOne(r, q))
<1> DEFINE w == WakeOne(r, q)
           h == r.wait[q][1]
<1>1. s.wait[q] \in Seq(Task) /\ Len(s.wait[q]) \in Nat /\ n \in Nat /\ n >= 1
  BY DEF RecordOK, SchedulerRecord
<1>2. RecordOK(r, c) /\ Len(r.wait[q]) = Len(s.wait[q]) - (n - 1)
  BY DEF WakesSoFar
<1>3. /\ r.wait \in [WaitQueue -> Seq(Task)]
      /\ r.queued \in [Task -> BOOLEAN] /\ r.runnable \in [Task -> BOOLEAN]
  BY <1>2 DEF RecordOK, SchedulerRecord
<1>4. r.wait[q] \in Seq(Task) /\ r.wait[q] # <<>>
  <2>1. Len(r.wait[q]) # 0
    BY <1>1, <1>2
  <2> QED BY <1>3, <2>1
<1>5. /\ h \in Task
      /\ \A u \in Task : /\ w.queued[u] <=> r.queued[u] \/ u = h
                         /\ w.runnable[u] <=> r.runnable[u] \/ u = h
      /\ Len(w.wait[q]) = Len(r.wait[q]) - 1
      /\ \A i \in 1 .. Len(r.wait[q]) - 1 : w.wait[q][i] = r.wait[q][i + 1]
      /\ \A p \in WaitQueue \ {q} : w.wait[p] = r.wait[p]
      /\ w.done = r.done /\ w.live = r.live /\ w.spawned = r.spawned
  <2>1. r.wait[q][1] \in Task /\ WakeOneChanges(r, q, WakeOne(r, q))
    BY <1>2, <1>4, WakeOneEffect
  <2> HIDE DEF w
  <2>2. WakeOneChanges(r, q, w)
    BY <2>1 DEF w
  <2> QED BY <2>1, <2>2 DEF WakeOneChanges
<1>6. RecordOK(w, c)
  BY <1>2, WakeOneOK
<1>7. h = r.wait[q][1]
  OBVIOUS
<1> HIDE DEF w, h
<1>9. Len(w.wait[q]) = Len(s.wait[q]) - n
  BY <1>1, <1>2, <1>5
<1>10. ASSUME NEW i \in 1 .. Len(s.wait[q]) - n
       PROVE  w.wait[q][i] = s.wait[q][i + n]
  <2>1. /\ i \in 1 .. Len(r.wait[q]) - 1
        /\ i + 1 \in 1 .. Len(s.wait[q]) - (n - 1)
        /\ i + 1 + (n - 1) = i + n
    BY <1>1, <1>2
  <2>2. r.wait[q][i + 1] = s.wait[q][i + 1 + (n - 1)]
    BY <2>1 DEF WakesSoFar
  <2> QED BY <1>5, <2>1, <2>2
<1>11. h = s.wait[q][n]
  <2>1. 1 \in 1 .. Len(s.wait[q]) - (n - 1) /\ 1 + (n - 1) = n
    BY <1>1
  <2> QED BY <1>7, <2>1 DEF WakesSoFar
<1>12. \A p \in WaitQueue \ {q} : w.wait[p] = s.wait[p]
  BY <1>5 DEF WakesSoFar
<1>13. ASSUME NEW t \in Task
       PROVE  (\E i \in 1 .. n : s.wait[q][i] = t) <=>
                 (t = h \/ \E i \in 1 .. n - 1 : s.wait[q][i] = t)
  <2>1. \A i : i \in 1 .. n <=> (i = n \/ i \in 1 .. n - 1)
    BY <1>1
  <2> QED BY <1>11, <2>1
<1>14. ASSUME NEW t \in Task
       PROVE  /\ w.queued[t] <=> s.queued[t] \/ \E i \in 1 .. n : s.wait[q][i] = t
              /\ w.runnable[t] <=> s.runnable[t] \/ \E i \in 1 .. n : s.wait[q][i] = t
  <2>1. /\ r.queued[t] <=> s.queued[t] \/ \E i \in 1 .. n - 1 : s.wait[q][i] = t
        /\ r.runnable[t] <=> s.runnable[t] \/ \E i \in 1 .. n - 1 : s.wait[q][i] = t
    BY DEF WakesSoFar
  <2>2. CASE t = h
    <3>1. w.queued[t] /\ w.runnable[t]
      BY <1>3, <1>5, <2>2
    <3>2. \E i \in 1 .. n : s.wait[q][i] = t
      BY <1>13, <2>2
    <3> QED BY <3>1, <3>2
  <2>3. CASE t # h
    <3>1. (w.queued[t] <=> r.queued[t]) /\ (w.runnable[t] <=> r.runnable[t])
      BY <1>3, <1>5, <2>3
    <3> QED BY <1>13, <2>1, <2>3, <3>1
  <2> QED BY <2>2, <2>3
<1>15. w.done = s.done /\ w.live = s.live /\ w.spawned = s.spawned
  BY <1>5 DEF WakesSoFar
<1> QED BY <1>6, <1>9, <1>10, <1>12, <1>14, <1>15 DEF WakesSoFar, w

LEMMA WakesRight ==
    ASSUME NEW s, NEW c, RecordOK(s, c), NEW q \in WaitQueue,
           NEW n \in 0 .. Len(s.wait[q])
    PROVE  WakesSoFar(s, c, q, n, WakeSteps(s, q)[n])
<1> DEFINE Wrong == {m \in Nat : m <= Len(s.wait[q])
                                 /\ ~WakesSoFar(s, c, q, m, WakeSteps(s, q)[m])}
<1>1. s.wait[q] \in Seq(Task) /\ Len(s.wait[q]) \in Nat
  BY DEF RecordOK, SchedulerRecord
<1>2. ASSUME Wrong # {} PROVE FALSE
  <2>1. PICK m \in Wrong : \A k \in Wrong : m <= k
    BY <1>2, LeastNatural
  <2>2. CASE m = 0
    <3>1. WakeSteps(s, q)[0] = s
      BY <1>1, WakeDefined
    <3> QED BY <2>1, <2>2, <3>1, WakesStart
  <2>3. CASE m # 0
    <3>1. m \in 1 .. Len(s.wait[q]) /\ m \in 0 .. Len(s.wait[q]) /\ m - 1 \in Nat
          /\ m - 1 <= Len(s.wait[q])
      BY <1>1, <2>1, <2>3
    <3>2. WakesSoFar(s, c, q, m - 1, WakeSteps(s, q)[m - 1])
      BY <2>1, <3>1
    <3>3. WakeSteps(s, q)[m] = WakeOne(WakeSteps(s, q)[m - 1], q)
      BY <1>1, <2>3, <3>1, WakeDefined
    <3> QED BY <2>1, <3>1, <3>2, <3>3, WakesAdvance
  <2> QED BY <2>2, <2>3
<1> HIDE DEF Wrong
<1>3. n \notin Wrong
  BY <1>2
<1> QED BY <1>1, <1>3 DEF Wrong

\* waitq-wake-all! empties the queue into the run queue and keeps the record
\* well formed.
LEMMA WakeAllEffect ==
    ASSUME NEW s, NEW c, RecordOK(s, c), NEW q \in WaitQueue
    PROVE  RecordOK(WakeAll(s, q), c) /\ WakeAllChanges(s, q, WakeAll(s, q))
<1> DEFINE n == WakeAll(s, q)
<1>1. /\ s.wait[q] \in Seq(Task) /\ Len(s.wait[q]) \in Nat
      /\ s.wait \in [WaitQueue -> Seq(Task)]
  BY DEF RecordOK, SchedulerRecord
<1>2. n = WakeSteps(s, q)[Len(s.wait[q])]
  BY DEF WakeAll, WakeSteps
<1> HIDE DEF n
<1>3. WakesSoFar(s, c, q, Len(s.wait[q]), n)
  BY <1>1, <1>2, WakesRight
<1>4. RecordOK(n, c) /\ n.wait \in [WaitQueue -> Seq(Task)] /\ Len(n.wait[q]) = 0
  BY <1>1, <1>3 DEF WakesSoFar, RecordOK, SchedulerRecord
<1>5. n.wait[q] = <<>>
  BY <1>4
<1>6. WakeAllChanges(s, q, n)
  BY <1>1, <1>3, <1>5 DEF WakesSoFar, WakeAllChanges
<1> QED BY <1>4, <1>6 DEF n

-----------------------------------------------------------------------------
(* A scheduler on which tasks were started.                                 *)

\* The empty scheduler is well formed.
LEMMA EmptyOK == RecordOK(EmptyScheduler, NoTask)
<1> DEFINE s == EmptyScheduler
<1>1. /\ s.ready = <<>> /\ s.wait = [q \in WaitQueue |-> <<>>]
      /\ s.queued = [t \in Task |-> FALSE] /\ s.runnable = [t \in Task |-> FALSE]
      /\ s.done = [t \in Task |-> FALSE] /\ s.live = 0 /\ s.spawned = {}
      /\ s \in SchedulerRecord
  BY DEF EmptyScheduler, SchedulerRecord
<1> HIDE DEF s
<1>2. ReadyOK(s, NoTask)
  BY <1>1 DEF ReadyOK
<1>3. WaitOK(s)
  BY <1>1 DEF WaitOK
<1>4. NoneLost(s, NoTask) /\ RunningOK(s, NoTask)
  BY <1>1 DEF NoneLost, RunningOK
<1>5. LiveOK(s)
  <2>1. Undone(s) = {}
    BY <1>1 DEF Undone
  <2> QED BY <1>1, <2>1, FS_EmptySet DEF LiveOK
<1> QED BY <1>1, <1>2, <1>3, <1>4, <1>5 DEF RecordOK, s

\* The task-init! calls so far, as the function that Started is defined by.
StartSteps(order) ==
    LET after[n \in 0 .. Len(order)] ==
            IF n = 0 THEN EmptyScheduler ELSE TaskInit(after[n - 1], order[n])
    IN  after

LEMMA StartDefined ==
    ASSUME NEW order \in Seq(Task)
    PROVE  StartSteps(order) =
              [n \in 0 .. Len(order) |->
                  IF n = 0 THEN EmptyScheduler
                  ELSE TaskInit(StartSteps(order)[n - 1], order[n])]
<1> DEFINE Steps(f, m) ==
              f = [n \in 0 .. m |-> IF n = 0 THEN EmptyScheduler
                                    ELSE TaskInit(f[n - 1], order[n])]
           Fails == {m \in Nat : ~\E f : Steps(f, m)}
<1>1. ASSUME Fails # {} PROVE FALSE
  <2>1. PICK m \in Fails : \A k \in Fails : m <= k
    BY <1>1, LeastNatural
  <2>2. CASE m = 0
    <3>1. Steps([n \in 0 .. 0 |-> EmptyScheduler], 0)
      OBVIOUS
    <3> QED BY <2>2, <3>1
  <2>3. CASE m # 0
    <3>1. m - 1 \in Nat /\ m \in Nat /\ m - 1 \notin Fails
      <4>1. m \in Nat
        OBVIOUS
      <4> HIDE DEF Fails
      <4> QED BY <2>1, <2>3, <4>1
    <3>2. PICK f : Steps(f, m - 1)
      BY <3>1
    <3> DEFINE g == [n \in 0 .. m |-> IF n = m THEN TaskInit(f[m - 1], order[m])
                                      ELSE f[n]]
    <3>3. \A n \in 0 .. m - 1 : g[n] = f[n]
      BY <3>1
    <3>4. ASSUME NEW n \in 0 .. m
          PROVE  g[n] = IF n = 0 THEN EmptyScheduler ELSE TaskInit(g[n - 1], order[n])
      <4>1. CASE n = m
        <5>1. g[m] = TaskInit(f[m - 1], order[m]) /\ m - 1 \in 0 .. m - 1
          BY <3>1
        <5> QED BY <2>3, <3>3, <4>1, <5>1
      <4>2. CASE n = 0
        <5>1. f[0] = EmptyScheduler
          BY <3>1, <3>2
        <5> QED BY <2>3, <3>1, <3>3, <4>2, <5>1
      <4>3. CASE n # m /\ n # 0
        <5>1. n \in 0 .. m - 1 /\ n - 1 \in 0 .. m - 1
          BY <3>1, <4>3
        <5>2. f[n] = TaskInit(f[n - 1], order[n])
          BY <3>2, <4>3, <5>1
        <5>3. g[n] = f[n] /\ g[n - 1] = f[n - 1]
          BY <3>3, <5>1
        <5> QED BY <4>3, <5>2, <5>3
      <4> QED BY <4>1, <4>2, <4>3
    <3>5. Steps(g, m)
      BY <3>4
    <3> HIDE DEF g
    <3> QED BY <2>1, <3>5
  <2> QED BY <2>2, <2>3
<1>2. Len(order) \notin Fails
  <2> HIDE DEF Fails
  <2> QED BY <1>1
<1>3. \E f : Steps(f, Len(order))
  BY <1>2
<1>4. StartSteps(order) = CHOOSE f : Steps(f, Len(order))
  BY DEF StartSteps
<1>5. Steps(StartSteps(order), Len(order))
  <2> HIDE DEF Steps
  <2> QED BY <1>3, <1>4
<1> QED BY <1>5

\* After n starts the first n tasks are started, none is done, and nobody waits.
StartedSoFar(order, n, r) ==
    /\ RecordOK(r, NoTask)
    /\ \A t \in Task : ~r.done[t]
    /\ \A t \in Task : t \in r.spawned <=> \E i \in 1 .. n : order[i] = t
    /\ \A q \in WaitQueue : r.wait[q] = <<>>

LEMMA StartsAdvance ==
    ASSUME NEW order \in Seq(Task), NEW n \in 1 .. Len(order),
           \A i, j \in 1 .. Len(order) : order[i] = order[j] => i = j,
           NEW r, StartedSoFar(order, n - 1, r)
    PROVE  StartedSoFar(order, n, TaskInit(r, order[n]))
<1> DEFINE w == TaskInit(r, order[n])
<1>1. order[n] \in Task /\ n \in Nat /\ Len(order) \in Nat
  OBVIOUS
<1>2. RecordOK(r, NoTask) /\ order[n] \notin r.spawned
  <2>1. \A i \in 1 .. n - 1 : i \in 1 .. Len(order) /\ i # n
    BY <1>1
  <2> QED BY <1>1, <2>1 DEF StartedSoFar
<1>3. RecordOK(w, NoTask)
  BY <1>1, <1>2, TaskInitOK
<1>4. InitChanges(r, order[n], w)
  BY <1>1, <1>2, TaskInitEffect
<1> HIDE DEF w
<1>5. /\ w.wait = r.wait /\ w.spawned = r.spawned \cup {order[n]}
      /\ \A t \in Task : w.done[t] => r.done[t]
  BY <1>4 DEF InitChanges
<1>6. ASSUME NEW t \in Task
      PROVE  (\E i \in 1 .. n : order[i] = t) <=>
                (t = order[n] \/ \E i \in 1 .. n - 1 : order[i] = t)
  <2>1. \A i : i \in 1 .. n <=> (i = n \/ i \in 1 .. n - 1)
    BY <1>1
  <2> QED BY <2>1
<1> QED BY <1>3, <1>5, <1>6 DEF StartedSoFar, w

\* Starting tasks one after another, each once, leaves them all ready.
LEMMA StartedOK ==
    ASSUME NEW order \in Seq(Task),
           \A i, j \in 1 .. Len(order) : order[i] = order[j] => i = j
    PROVE  StartedSoFar(order, Len(order), Started(order))
<1> DEFINE Wrong == {m \in Nat : m <= Len(order)
                                 /\ ~StartedSoFar(order, m, StartSteps(order)[m])}
<1>1. Len(order) \in Nat
  OBVIOUS
<1>2. ASSUME Wrong # {} PROVE FALSE
  <2>1. PICK m \in Wrong : \A k \in Wrong : m <= k
    BY <1>2, LeastNatural
  <2>2. CASE m = 0
    <3>1. StartSteps(order)[0] = EmptyScheduler
      BY <1>1, StartDefined
    <3>2. /\ EmptyScheduler.spawned = {}
          /\ EmptyScheduler.wait = [q \in WaitQueue |-> <<>>]
          /\ EmptyScheduler.done = [t \in Task |-> FALSE]
      BY DEF EmptyScheduler
    <3>3. StartedSoFar(order, 0, EmptyScheduler)
      BY <3>2, EmptyOK DEF StartedSoFar
    <3> QED BY <2>1, <2>2, <3>1, <3>3
  <2>3. CASE m # 0
    <3>1. m \in 1 .. Len(order) /\ m \in 0 .. Len(order) /\ m - 1 \in Nat
          /\ m - 1 <= Len(order)
      BY <1>1, <2>1, <2>3
    <3>2. StartedSoFar(order, m - 1, StartSteps(order)[m - 1])
      BY <2>1, <3>1
    <3>3. StartSteps(order)[m] = TaskInit(StartSteps(order)[m - 1], order[m])
      BY <1>1, <2>3, <3>1, StartDefined
    <3> QED BY <2>1, <3>1, <3>2, <3>3, StartsAdvance
  <2> QED BY <2>2, <2>3
<1> HIDE DEF Wrong
<1>3. StartedSoFar(order, Len(order), StartSteps(order)[Len(order)])
  <2>1. Len(order) \notin Wrong
    BY <1>2
  <2> QED BY <1>1, <2>1 DEF Wrong
<1>4. Started(order) = StartSteps(order)[Len(order)]
  BY DEF Started, StartSteps
<1> QED BY <1>3, <1>4
=============================================================================
