------------------------- MODULE AsyncFutures_proofs -------------------------
(***************************************************************************)
(* Proofs about AsyncFutures, for any number of jobs and any bodies that   *)
(* keep the rules of the dialect: the lemmas of CoopTasks_proofs about the *)
(* scheduler, tied to the completion flags, the memory and the resume      *)
(* states of the jobs.                                                     *)
(***************************************************************************)
EXTENDS AsyncFutures, CoopTasks_proofs

-----------------------------------------------------------------------------
(* The inductive invariant. *)

\* The task whose transition is being called and may still park.
Active == IF running # NoFuture /\ ~complete[running] THEN running ELSE NoFuture

Typed ==
    /\ complete \in [Future -> BOOLEAN]
    /\ memory \in [Future -> {"unused", "live", "freed"}]
    /\ resume \in [Future -> Future \cup {NoFuture}]
    /\ running \in Future \cup {NoFuture}
    /\ phase \in {"before", "run", "after"}

\* The allocated jobs are the started tasks, and Future.complete and Task.done
\* agree.
JobsAreTasks ==
    \A f \in Future :
        /\ memory[f] = "unused" <=> f \notin sched.spawned
        /\ complete[f] <=> f \in sched.spawned /\ sched.done[f]

\* Who waits, waits for the unfinished job it will read.
WaitersRead ==
    \A g \in WaitQueue : \A i \in 1 .. Len(sched.wait[g]) :
        /\ g \in Future /\ memory[g] = "live" /\ ~complete[g]
        /\ resume[sched.wait[g][i]] = g

\* Who is on its way to a turn has its result.
ReadersHaveResult ==
    \A t \in Future :
        sched.queued[t] => resume[t] = NoFuture \/ complete[resume[t]]

\* Only a task that was started, is not finished and is not running has a
\* result to read, and that result is still there.
ResumeLive ==
    \A t \in Future : resume[t] # NoFuture =>
        /\ t \in sched.spawned /\ ~complete[t] /\ t # running
        /\ memory[resume[t]] = "live"

\* A destroyed job is complete, and its turn is over.
FreedOK ==
    \A f \in Future : memory[f] = "freed" => complete[f] /\ f # running

\* Before and after scheduler-run! nothing runs; after it nothing is ready.
PhaseOK ==
    /\ phase # "run" => running = NoFuture
    /\ phase = "after" => sched.ready = <<>>
    /\ running # NoFuture => running \in sched.spawned

IInv ==
    /\ RecordOK(sched, Active)
    /\ Typed
    /\ JobsAreTasks
    /\ WaitersRead
    /\ ReadersHaveResult
    /\ ResumeLive
    /\ FreedOK
    /\ PhaseOK
-----------------------------------------------------------------------------
(* The initial state. *)

LEMMA InitIInv == Init => IInv
<1> SUFFICES ASSUME Init PROVE IInv
  OBVIOUS
<1>1. RecordOK(sched, Active)
  BY EmptyOK DEF Init, Active, NoFuture
<1>2. Typed
  BY DEF Init, Typed
<1>3. /\ sched.spawned = {} /\ sched.wait = [q \in WaitQueue |-> <<>>]
      /\ sched.queued = [t \in Task |-> FALSE]
  BY DEF Init, EmptyScheduler
<1>4. JobsAreTasks
  BY <1>3 DEF Init, JobsAreTasks, Future
<1>5. WaitersRead /\ ReadersHaveResult
  BY <1>3 DEF WaitersRead, ReadersHaveResult, Future
<1>6. ResumeLive /\ FreedOK /\ PhaseOK
  BY DEF Init, ResumeLive, FreedOK, PhaseOK
<1> QED BY <1>1, <1>2, <1>4, <1>5, <1>6 DEF IInv

-----------------------------------------------------------------------------
(* scheduler-run!. *)

LEMMA RunCallStep == IInv /\ RunCall => IInv'
<1> SUFFICES ASSUME IInv, RunCall PROVE IInv'
  OBVIOUS
<1>1. /\ phase = "before" /\ phase' = "run"
      /\ sched' = sched /\ complete' = complete /\ memory' = memory
      /\ resume' = resume /\ running' = running
  BY DEF RunCall
<1>2. RecordOK(sched, Active)' /\ Typed'
  BY <1>1 DEF IInv, Active, Typed
<1>3. JobsAreTasks' /\ WaitersRead' /\ ReadersHaveResult' /\ ResumeLive' /\ FreedOK'
  BY <1>1 DEF IInv, JobsAreTasks, WaitersRead, ReadersHaveResult, ResumeLive, FreedOK
<1>4. PhaseOK'
  BY <1>1 DEF IInv, PhaseOK
<1> QED BY <1>2, <1>3, <1>4 DEF IInv

LEMMA RunReturnStep == IInv /\ RunReturn => IInv'
<1> SUFFICES ASSUME IInv, RunReturn PROVE IInv'
  OBVIOUS
<1>1. /\ running = NoFuture /\ sched.ready = <<>> /\ phase' = "after"
      /\ sched' = sched /\ complete' = complete /\ memory' = memory
      /\ resume' = resume /\ running' = running
  BY DEF RunReturn
<1>2. RecordOK(sched, Active)' /\ Typed'
  BY <1>1 DEF IInv, Active, Typed
<1>3. JobsAreTasks' /\ WaitersRead' /\ ReadersHaveResult' /\ ResumeLive' /\ FreedOK'
  BY <1>1 DEF IInv, JobsAreTasks, WaitersRead, ReadersHaveResult, ResumeLive, FreedOK
<1>4. PhaseOK'
  BY <1>1 DEF IInv, PhaseOK
<1> QED BY <1>2, <1>3, <1>4 DEF IInv

\* A queued task is started, not finished and not the one being called.
LEMMA QueuedFacts ==
    ASSUME NEW s, NEW c, RecordOK(s, c), NEW t \in Task, s.queued[t]
    PROVE  t \in s.spawned /\ ~s.done[t] /\ t # c /\ s.ready # <<>>
<1>1. PICK i \in 1 .. Len(s.ready) : s.ready[i] = t
  BY DEF RecordOK, ReadyOK
<1>2. s.ready # <<>>
  BY <1>1
<1> QED BY <1>1, <1>2 DEF RecordOK, ReadyOK

LEMMA BeginStep == IInv /\ Begin => IInv'
<1> SUFFICES ASSUME IInv, Begin PROVE IInv'
  OBVIOUS
<1> DEFINE h == Head(sched.ready)
<1>1. /\ phase = "run" /\ running = NoFuture /\ sched.ready # <<>>
      /\ running' = h /\ sched' = Take(sched)
      /\ resume' = [resume EXCEPT ![h] = NoFuture]
      /\ complete' = complete /\ memory' = memory /\ phase' = phase
  BY DEF Begin
<1>2. RecordOK(sched, NoTask) /\ Typed
  BY <1>1 DEF IInv, Active, NoFuture
<1>3. /\ h \in Task /\ h \in sched.spawned /\ ~sched.done[h]
      /\ TakeChanges(sched, h, Take(sched))
  BY <1>1, <1>2, TakeEffect
<1>4. RecordOK(Take(sched), h)
  BY <1>1, <1>2, TakeOK
<1> HIDE DEF h
<1>5. /\ \A u \in Task : sched'.queued[u] <=> sched.queued[u] /\ u # h
      /\ sched'.wait = sched.wait /\ sched'.done = sched.done
      /\ sched'.spawned = sched.spawned
  BY <1>1, <1>3 DEF TakeChanges
<1>6. ~complete[h] /\ h # NoFuture
  BY <1>3, NoTaskIsNone DEF IInv, JobsAreTasks, Future, NoFuture
<1>7. RecordOK(sched', Active')
  <2>1. Active' = h
    BY <1>1, <1>6 DEF Active
  <2> QED BY <1>1, <1>4, <2>1
<1>8. Typed'
  BY <1>1, <1>2, <1>3 DEF Typed, Future, NoFuture
<1>9. JobsAreTasks'
  BY <1>1, <1>5 DEF IInv, JobsAreTasks
<1>10. \A t \in Future : resume'[t] = IF t = h THEN NoFuture ELSE resume[t]
  BY <1>1, <1>2 DEF Typed
<1>11. ASSUME NEW g \in WaitQueue, NEW i \in 1 .. Len(sched.wait[g])
       PROVE  /\ g \in Future /\ memory[g] = "live" /\ ~complete[g]
              /\ resume'[sched.wait[g][i]] = g
  <2>1. /\ g \in Future /\ memory[g] = "live" /\ ~complete[g]
        /\ resume[sched.wait[g][i]] = g
    BY DEF IInv, WaitersRead
  <2>2. sched.wait[g][i] \in Task /\ ~sched.queued[sched.wait[g][i]]
    BY <1>2, WaiterIs
  <2>3. sched.queued[h]
    BY <1>1, <1>2, TakeEffect DEF h
  <2> QED BY <1>10, <2>1, <2>2, <2>3 DEF Future
<1>12. WaitersRead'
  BY <1>1, <1>5, <1>11 DEF WaitersRead
<1>13. ReadersHaveResult'
  BY <1>1, <1>5, <1>10 DEF IInv, ReadersHaveResult, Future
<1>14. ResumeLive'
  BY <1>1, <1>5, <1>10 DEF IInv, ResumeLive
<1>15. FreedOK'
  BY <1>1, <1>6 DEF IInv, FreedOK
<1>16. PhaseOK'
  BY <1>1, <1>3, <1>5 DEF PhaseOK
<1> QED BY <1>7, <1>8, <1>9, <1>12, <1>13, <1>14, <1>15, <1>16 DEF IInv

LEMMA ReturnStep == IInv /\ Return => IInv'
<1> SUFFICES ASSUME IInv, Return PROVE IInv'
  OBVIOUS
<1>1. /\ running # NoFuture /\ running' = NoFuture
      /\ sched' = AfterStep(sched, running)
      /\ complete' = complete /\ memory' = memory /\ resume' = resume
      /\ phase' = phase
  BY DEF Return
<1>2. Typed /\ running \in Task /\ Active' = NoTask
  BY <1>1 DEF IInv, Typed, Active, Future, NoFuture
<1>3. /\ RecordOK(sched', NoTask)
      /\ \A u \in Task : sched'.queued[u] => sched.queued[u] \/ u = running
      /\ sched'.wait = sched.wait /\ sched'.done = sched.done
      /\ sched'.spawned = sched.spawned
  <2>1. CASE complete[running]
    <3>1. sched.done[running] /\ Active = NoTask
      BY <1>2, <2>1 DEF IInv, JobsAreTasks, Active, Future, NoFuture
    <3>2. AfterStep(sched, running) = sched
      BY <3>1 DEF AfterStep
    <3> QED BY <1>1, <3>1, <3>2 DEF IInv
  <2>2. CASE ~complete[running]
    <3>1. RecordOK(sched, running)
      BY <1>1, <2>2 DEF IInv, Active
    <3>2. /\ RecordOK(AfterStep(sched, running), NoTask)
          /\ ReturnChanges(sched, running, AfterStep(sched, running))
      BY <1>2, <3>1, AfterStepOK, AfterStepEffect
    <3> QED BY <1>1, <3>2 DEF ReturnChanges
  <2> QED BY <2>1, <2>2
<1>4. Typed'
  BY <1>1, <1>2 DEF Typed
<1>5. JobsAreTasks' /\ WaitersRead'
  BY <1>1, <1>3 DEF IInv, JobsAreTasks, WaitersRead
<1>6. ReadersHaveResult'
  BY <1>1, <1>3 DEF IInv, ReadersHaveResult, ResumeLive, Future
<1>7. ResumeLive'
  BY <1>1, <1>3, NoTaskIsNone DEF IInv, ResumeLive, Future, NoFuture
<1>8. FreedOK'
  BY <1>1, NoTaskIsNone DEF IInv, FreedOK, Future, NoFuture
<1>9. PhaseOK'
  BY <1>1 DEF IInv, PhaseOK
<1> QED BY <1>1, <1>2, <1>3, <1>4, <1>5, <1>6, <1>7, <1>8, <1>9 DEF IInv
-----------------------------------------------------------------------------
(* What main and the transitions do. *)

\* The task that may launch and await is the active one.
LEMMA BodyIsActive ==
    ASSUME IInv, BodyRuns
    PROVE  /\ Active = running /\ running \in Task /\ phase = "run"
           /\ RecordOK(sched, running) /\ running \in sched.spawned
<1>1. Active = running /\ running \in Task
  BY DEF IInv, BodyRuns, Active, Typed, Future, NoFuture
<1>2. phase = "run" /\ running \in sched.spawned
  BY DEF IInv, BodyRuns, PhaseOK, Typed
<1> QED BY <1>1, <1>2 DEF IInv

LEMMA LaunchStep ==
    ASSUME IInv, NEW f \in Future, Launch(f)
    PROVE  IInv'
<1>1. /\ phase = "before" \/ BodyRuns
      /\ memory[f] = "unused" /\ memory' = [memory EXCEPT ![f] = "live"]
      /\ sched' = TaskInit(sched, f)
      /\ complete' = complete /\ resume' = resume /\ running' = running
      /\ phase' = phase
  BY DEF Launch
<1>2. Typed /\ f \in Task /\ f \notin sched.spawned /\ RecordOK(sched, Active)
  BY <1>1 DEF IInv, JobsAreTasks, Future
<1>3. RecordOK(TaskInit(sched, f), Active)
  BY <1>2, TaskInitOK
<1>4. InitChanges(sched, f, TaskInit(sched, f))
  BY <1>2, TaskInitEffect
<1>5. /\ \A u \in Task : /\ sched'.queued[u] <=> sched.queued[u] \/ u = f
                         /\ sched'.done[u] <=> sched.done[u] /\ u # f
      /\ sched'.wait = sched.wait
      /\ sched'.spawned = sched.spawned \cup {f}
  BY <1>1, <1>4 DEF InitChanges
<1>6. RecordOK(sched', Active')
  <2>1. Active' = Active
    BY <1>1 DEF Active
  <2> QED BY <1>1, <1>3, <2>1
<1>7. Typed'
  BY <1>1, <1>2 DEF Typed
<1>8. \A g \in Future : memory'[g] = IF g = f THEN "live" ELSE memory[g]
  BY <1>1, <1>2 DEF Typed
<1>9. ~complete[f]
  BY <1>2 DEF IInv, JobsAreTasks
<1>10. JobsAreTasks'
  <2> SUFFICES ASSUME NEW g \in Future
               PROVE  /\ memory'[g] = "unused" <=> g \notin sched'.spawned
                      /\ complete'[g] <=> g \in sched'.spawned /\ sched'.done[g]
    BY DEF JobsAreTasks
  <2>1. CASE g = f
    BY <1>1, <1>2, <1>5, <1>8, <1>9, <2>1
  <2>2. CASE g # f
    BY <1>1, <1>2, <1>5, <1>8, <2>2 DEF IInv, JobsAreTasks, Future
  <2> QED BY <2>1, <2>2
<1>11. WaitersRead'
  BY <1>1, <1>5, <1>8 DEF IInv, WaitersRead
<1>12. ASSUME resume[f] # NoFuture PROVE FALSE
  BY <1>2, <1>12 DEF IInv, ResumeLive
<1>13. ReadersHaveResult'
  BY <1>1, <1>5, <1>12 DEF IInv, ReadersHaveResult, Future
<1>14. ResumeLive'
  BY <1>1, <1>2, <1>5, <1>8 DEF IInv, ResumeLive, Typed
<1>15. FreedOK'
  BY <1>1, <1>8 DEF IInv, FreedOK
<1>16. PhaseOK'
  <2>1. phase # "after"
    BY <1>1, BodyIsActive
  <2> QED BY <1>1, <1>5, <2>1 DEF IInv, PhaseOK
<1> QED BY <1>6, <1>7, <1>10, <1>11, <1>13, <1>14, <1>15, <1>16 DEF IInv

LEMMA AwaitStep ==
    ASSUME IInv, NEW f \in Future, Await(f)
    PROVE  IInv'
<1> DEFINE c == running
<1>1. /\ BodyRuns /\ memory[f] = "live" /\ ~complete[f]
      /\ resume' = [resume EXCEPT ![c] = f]
      /\ sched' = AfterStep(Park(sched, f, c), c) /\ running' = NoFuture
      /\ complete' = complete /\ memory' = memory /\ phase' = phase
  BY DEF Await
<1>2. /\ Typed /\ c \in Task /\ phase = "run" /\ c \in sched.spawned
      /\ RecordOK(sched, c) /\ f \in WaitQueue /\ ~complete[c]
  BY <1>1, BodyIsActive, FuturesAreQueues DEF IInv, BodyRuns
<1>3. RecordOK(Park(sched, f, c), NoTask)
  BY <1>2, ParkOK
<1>4. /\ ParkChanges(sched, f, c, Park(sched, f, c))
      /\ AfterStep(Park(sched, f, c), c) = Park(sched, f, c)
  BY <1>2, ParkEffect
<1>5. RecordOK(sched', Active')
  <2>1. Active' = NoTask
    BY <1>1 DEF Active, NoFuture
  <2> QED BY <1>1, <1>3, <1>4, <2>1
<1>6. /\ sched'.wait[f] = Append(sched.wait[f], c)
      /\ \A p \in WaitQueue \ {f} : sched'.wait[p] = sched.wait[p]
      /\ sched'.queued = sched.queued /\ sched'.done = sched.done
      /\ sched'.ready = sched.ready /\ sched'.spawned = sched.spawned
  BY <1>1, <1>4 DEF ParkChanges
<1> HIDE DEF c
<1>7. Typed'
  BY <1>1, <1>2 DEF Typed, Future, NoFuture
<1>8. JobsAreTasks' /\ FreedOK'
  BY <1>1, <1>6, NoTaskIsNone DEF IInv, JobsAreTasks, FreedOK, Future, NoFuture
<1>9. \A t \in Future : resume'[t] = IF t = c THEN f ELSE resume[t]
  BY <1>1, <1>2 DEF Typed
<1>10. sched.wait[f] \in Seq(Task) /\ Len(sched.wait[f]) \in Nat
  BY <1>2 DEF RecordOK, SchedulerRecord
<1>11. ASSUME NEW g \in WaitQueue, NEW i \in 1 .. Len(sched.wait[g])
       PROVE  /\ g \in Future /\ memory[g] = "live" /\ ~complete[g]
              /\ resume'[sched.wait[g][i]] = g
  <2>1. /\ g \in Future /\ memory[g] = "live" /\ ~complete[g]
        /\ resume[sched.wait[g][i]] = g
    BY DEF IInv, WaitersRead
  <2>2. sched.wait[g][i] \in Task /\ sched.wait[g][i] # c
    BY <1>2, WaiterIs
  <2> QED BY <1>9, <2>1, <2>2 DEF Future
<1>12. WaitersRead'
  <2> SUFFICES ASSUME NEW g \in WaitQueue, NEW i \in 1 .. Len(sched'.wait[g])
               PROVE  /\ g \in Future /\ memory'[g] = "live" /\ ~complete'[g]
                      /\ resume'[sched'.wait[g][i]] = g
    BY DEF WaitersRead
  <2>1. CASE g # f
    BY <1>1, <1>6, <1>11, <2>1
  <2>2. CASE g = f
    <3>1. /\ Len(sched'.wait[f]) = Len(sched.wait[f]) + 1
          /\ \A j \in 1 .. Len(sched.wait[f]) : sched'.wait[f][j] = sched.wait[f][j]
          /\ sched'.wait[f][Len(sched.wait[f]) + 1] = c
      BY <1>2, <1>6, <1>10, AppendIndices
    <3>2. CASE i \in 1 .. Len(sched.wait[f])
      BY <1>1, <1>11, <2>2, <3>1, <3>2
    <3>3. CASE i = Len(sched.wait[f]) + 1
      BY <1>1, <1>2, <1>9, <2>2, <3>1, <3>3 DEF Future
    <3>4. i \in 1 .. Len(sched.wait[f]) \/ i = Len(sched.wait[f]) + 1
      <4>1. Len(sched.wait[f]) \in Nat /\ i \in 1 .. Len(sched.wait[f]) + 1
        BY <1>10, <2>2, <3>1
      <4> QED BY <4>1
    <3> QED BY <3>2, <3>3, <3>4
  <2> QED BY <2>1, <2>2
<1>13. ~sched.queued[c]
  BY <1>2, QueuedFacts
<1>14. ReadersHaveResult'
  BY <1>1, <1>6, <1>9, <1>13 DEF IInv, ReadersHaveResult
<1>15. ResumeLive'
  BY <1>1, <1>2, <1>6, <1>9, NoTaskIsNone DEF IInv, ResumeLive, Future, NoFuture
<1>16. PhaseOK'
  BY <1>1, <1>2 DEF PhaseOK
<1> QED BY <1>5, <1>7, <1>8, <1>12, <1>14, <1>15, <1>16 DEF IInv

LEMMA CompleteOwnStep == IInv /\ CompleteOwn => IInv'
<1> SUFFICES ASSUME IInv, CompleteOwn PROVE IInv'
  OBVIOUS
<1> DEFINE c == running
           w == WakeAll(sched, c)
<1>1. /\ BodyRuns /\ complete' = [complete EXCEPT ![c] = TRUE]
      /\ sched' = Complete(w, c)
      /\ memory' = memory /\ resume' = resume /\ running' = running
      /\ phase' = phase
  BY DEF CompleteOwn
<1>2. /\ Typed /\ c \in Task /\ phase = "run" /\ c \in sched.spawned
      /\ RecordOK(sched, c) /\ c \in WaitQueue /\ ~complete[c] /\ c # NoFuture
  BY <1>1, BodyIsActive, FuturesAreQueues DEF IInv, BodyRuns, Future
<1>3. RecordOK(w, c) /\ WakeAllChanges(sched, c, w)
  BY <1>2, WakeAllEffect
<1> HIDE DEF w
<1>4. RecordOK(Complete(w, c), NoTask) /\ CompleteChanges(w, c, Complete(w, c))
  BY <1>2, <1>3, CompleteOK, CompleteEffect
<1>5. /\ \A u \in Task : sched'.queued[u] <=> w.queued[u]
      /\ \A u \in Task : sched'.done[u] <=> w.done[u] \/ u = c
      /\ sched'.wait = w.wait /\ sched'.spawned = w.spawned
  BY <1>1, <1>4 DEF CompleteChanges
<1>6. /\ \A u \in Task : w.queued[u] <=>
            sched.queued[u] \/ \E i \in 1 .. Len(sched.wait[c]) : sched.wait[c][i] = u
      /\ w.wait[c] = <<>>
      /\ \A p \in WaitQueue \ {c} : w.wait[p] = sched.wait[p]
      /\ w.done = sched.done /\ w.spawned = sched.spawned
  BY <1>3 DEF WakeAllChanges
<1> HIDE DEF c
<1>7. \A f \in Future : complete'[f] <=> complete[f] \/ f = c
  BY <1>1, <1>2 DEF Typed
<1>8. RecordOK(sched', Active')
  <2>1. Active' = NoTask
    BY <1>1, <1>2, <1>7 DEF Active, Future, NoFuture, c
  <2> QED BY <1>1, <1>4, <2>1
<1>9. Typed'
  BY <1>1, <1>2 DEF Typed
<1>10. JobsAreTasks'
  BY <1>1, <1>2, <1>5, <1>6, <1>7 DEF IInv, JobsAreTasks, Future
<1>11. WaitersRead'
  <2> SUFFICES ASSUME NEW g \in WaitQueue, NEW i \in 1 .. Len(sched'.wait[g])
               PROVE  /\ g \in Future /\ memory'[g] = "live" /\ ~complete'[g]
                      /\ resume'[sched'.wait[g][i]] = g
    BY DEF WaitersRead
  <2>1. g # c
    BY <1>5, <1>6
  <2>2. i \in 1 .. Len(sched.wait[g]) /\ sched'.wait[g] = sched.wait[g]
    BY <1>5, <1>6, <2>1
  <2> QED BY <1>1, <1>7, <2>1, <2>2 DEF IInv, WaitersRead
<1>12. ReadersHaveResult'
  <2> SUFFICES ASSUME NEW t \in Future, sched'.queued[t]
               PROVE  resume'[t] = NoFuture \/ complete'[resume'[t]]
    BY DEF ReadersHaveResult
  <2>1. CASE sched.queued[t]
    <3>1. resume[t] = NoFuture \/ (resume[t] \in Future /\ complete[resume[t]])
      BY <1>2, <2>1 DEF IInv, ReadersHaveResult, Typed
    <3> QED BY <1>1, <1>7, <3>1
  <2>2. CASE ~sched.queued[t]
    <3>1. PICK i \in 1 .. Len(sched.wait[c]) : sched.wait[c][i] = t
      BY <1>5, <1>6, <2>2 DEF Future
    <3>2. resume[t] = c
      BY <1>2, <3>1 DEF IInv, WaitersRead
    <3> QED BY <1>1, <1>2, <1>7, <3>2 DEF Future
  <2> QED BY <2>1, <2>2
<1>13. ResumeLive'
  BY <1>1, <1>5, <1>6, <1>7 DEF IInv, ResumeLive, c
<1>14. FreedOK' /\ PhaseOK'
  BY <1>1, <1>2, <1>5, <1>6, <1>7 DEF IInv, FreedOK, PhaseOK, c
<1> QED BY <1>8, <1>9, <1>10, <1>11, <1>12, <1>13, <1>14 DEF IInv

LEMMA DestroyStep ==
    ASSUME IInv, NEW f \in Future, Destroy(f)
    PROVE  IInv'
<1>1. /\ f # running /\ memory[f] = "live" /\ complete[f] /\ NobodyReads(f)
      /\ memory' = [memory EXCEPT ![f] = "freed"]
      /\ sched' = sched /\ complete' = complete /\ resume' = resume
      /\ running' = running /\ phase' = phase
  BY DEF Destroy
<1>2. RecordOK(sched, Active)' /\ Typed'
  BY <1>1 DEF IInv, Active, Typed
<1>3. \A g \in Future : memory'[g] = IF g = f THEN "freed" ELSE memory[g]
  BY <1>1 DEF IInv, Typed
<1>4. JobsAreTasks'
  BY <1>1, <1>3 DEF IInv, JobsAreTasks
<1>5. WaitersRead'
  BY <1>1, <1>3 DEF IInv, WaitersRead
<1>6. ReadersHaveResult' /\ PhaseOK'
  BY <1>1 DEF IInv, ReadersHaveResult, PhaseOK
<1>7. ResumeLive'
  BY <1>1, <1>3 DEF IInv, ResumeLive, NobodyReads, Typed
<1>8. FreedOK'
  BY <1>1, <1>3 DEF IInv, FreedOK
<1> QED BY <1>2, <1>4, <1>5, <1>6, <1>7, <1>8 DEF IInv
-----------------------------------------------------------------------------
(* The theorems. *)

LEMMA NextIInv == IInv /\ [Next]_vars => IInv'
<1> SUFFICES ASSUME IInv, [Next]_vars PROVE IInv'
  OBVIOUS
<1>1. CASE RunCall
  BY <1>1, RunCallStep
<1>2. CASE Begin
  BY <1>2, BeginStep
<1>3. CASE Return
  BY <1>3, ReturnStep
<1>4. CASE RunReturn
  BY <1>4, RunReturnStep
<1>5. CASE CompleteOwn
  BY <1>5, CompleteOwnStep
<1>6. ASSUME NEW f \in Future, Launch(f) \/ Await(f) \/ Destroy(f) PROVE IInv'
  BY <1>6, LaunchStep, AwaitStep, DestroyStep
<1>7. CASE UNCHANGED vars
  <2>1. /\ sched' = sched /\ complete' = complete /\ memory' = memory
        /\ resume' = resume /\ running' = running /\ phase' = phase
    BY <1>7 DEF vars
  <2>2. RecordOK(sched, Active)' /\ Typed'
    BY <2>1 DEF IInv, Active, Typed
  <2>3. JobsAreTasks' /\ WaitersRead' /\ ReadersHaveResult'
    BY <2>1 DEF IInv, JobsAreTasks, WaitersRead, ReadersHaveResult
  <2>4. ResumeLive' /\ FreedOK' /\ PhaseOK'
    BY <2>1 DEF IInv, ResumeLive, FreedOK, PhaseOK
  <2> QED BY <2>2, <2>3, <2>4 DEF IInv
<1> QED BY <1>1, <1>2, <1>3, <1>4, <1>5, <1>6, <1>7 DEF Next

LEMMA IInvAlways == Spec => []IInv
  BY InitIInv, NextIInv, PTL DEF Spec

\* The unfinished computations are the live tasks of the scheduler.
LEMMA UnfinishedAreUndone ==
    ASSUME IInv
    PROVE  Unfinished = Undone(sched)
<1>1. Undone(sched) \subseteq Future
  BY DEF IInv, RecordOK, SchedulerRecord, Undone, Future
<1>2. ASSUME NEW f \in Future PROVE f \in Unfinished <=> f \in Undone(sched)
  BY DEF IInv, Typed, JobsAreTasks, FreedOK, Unfinished, Undone
<1> QED BY <1>1, <1>2 DEF Unfinished

\* An unfinished computation that is neither running nor ready waits for the
\* unfinished job it will read.
LEMMA ParkedWhereItReads ==
    ASSUME IInv, NEW t \in Unfinished, t # running, ~sched.queued[t]
    PROVE  \E i \in 1 .. Len(sched.wait[resume[t]]) :
              /\ resume[t] \in Future /\ ~complete[resume[t]]
              /\ memory[resume[t]] = "live" /\ sched.wait[resume[t]][i] = t
<1>1. t \in sched.spawned /\ ~sched.done[t] /\ t \in Task
  BY UnfinishedAreUndone DEF Undone, Unfinished, Future
<1>2. t # Active
  BY <1>1, NoTaskIsNone DEF Active, NoFuture
<1>3. PICK q \in WaitQueue : \E i \in 1 .. Len(sched.wait[q]) : sched.wait[q][i] = t
  BY <1>1, <1>2 DEF IInv, RecordOK, NoneLost
<1>4. PICK i \in 1 .. Len(sched.wait[q]) : sched.wait[q][i] = t
  BY <1>3, Zenon
<1>5. resume[t] = q /\ q \in Future /\ ~complete[q] /\ memory[q] = "live"
  BY <1>4 DEF IInv, WaitersRead
<1> QED BY <1>4, <1>5

\* A waiting task waits where it will read.
LEMMA WaitingReads ==
    ASSUME IInv, NEW t \in Task, Waiting(sched, t)
    PROVE  /\ ~sched.queued[t] /\ ~sched.done[t] /\ t # Active
           /\ resume[t] \in Future /\ ~complete[resume[t]]
<1>1. RecordOK(sched, Active)
  BY DEF IInv
<1>2. PICK q \in WaitQueue : t \in ToSet(sched.wait[q])
  BY DEF Waiting
<1>3. PICK i \in 1 .. Len(sched.wait[q]) : sched.wait[q][i] = t
  <2>1. sched.wait[q] \in Seq(Task)
    BY <1>1 DEF RecordOK, SchedulerRecord
  <2>2. \E i \in 1 .. Len(sched.wait[q]) : sched.wait[q][i] = t
    BY <1>2, <2>1 DEF ToSet
  <2> QED BY <2>2
<1>4. ~sched.queued[t] /\ ~sched.done[t] /\ t # Active
  BY <1>1, <1>3, WaiterIs
<1>5. resume[t] = q /\ q \in Future /\ ~complete[q]
  BY <1>3 DEF IInv, WaitersRead
<1> QED BY <1>4, <1>5

\* Every variable keeps its type, and the scheduler's live counter counts the
\* unfinished computations.
THEOREM TypeCorrect == Spec => []TypeOK
<1>1. ASSUME IInv PROVE TypeOK
  <2>1. Unfinished = Undone(sched)
    BY <1>1, UnfinishedAreUndone
  <2>2. sched \in SchedulerRecord /\ sched.live = Cardinality(Undone(sched))
    BY <1>1 DEF IInv, RecordOK, LiveOK
  <2>3. sched.live = Cardinality({f \in Future : memory[f] = "live" /\ ~complete[f]})
    BY <2>1, <2>2 DEF Unfinished
  <2> QED BY <1>1, <2>2, <2>3 DEF IInv, Typed, TypeOK
<1> QED BY <1>1, IInvAlways, PTL

\* future-complete! wakes every waiter, future-await! parks each task where it
\* will read, and future-result never finds its future incomplete or gone.
THEOREM AwaitersAreAccounted == Spec => []AwaitersAccounted
<1>1. ASSUME IInv PROVE AwaitersAccounted
  <2> SUFFICES ASSUME NEW t \in Unfinished \ {running}
               PROVE  /\ resume[t] # NoFuture => memory[resume[t]] = "live"
                      /\ IF resume[t] = NoFuture \/ complete[resume[t]]
                         THEN t \in ToSet(sched.ready) /\ ~Waiting(sched, t)
                         ELSE /\ t \in ToSet(sched.wait[resume[t]])
                              /\ t \notin ToSet(sched.ready)
    BY DEF AwaitersAccounted
  <2>1. t \in Task /\ t # running /\ t \in Future
    BY DEF Unfinished, Future
  <2>2. resume[t] # NoFuture => memory[resume[t]] = "live"
    BY <1>1, <2>1 DEF IInv, ResumeLive
  <2>3. t \in ToSet(sched.ready) <=> sched.queued[t]
    BY <1>1, <2>1, QueuedIs DEF IInv
  <2>4. CASE resume[t] = NoFuture \/ complete[resume[t]]
    <3>1. ~Waiting(sched, t)
      BY <1>1, <2>1, <2>4, WaitingReads, NoTaskIsNone DEF Future, NoFuture
    <3>2. sched.queued[t]
      BY <1>1, <2>1, <2>4, ParkedWhereItReads, NoTaskIsNone DEF Future, NoFuture
    <3> QED BY <2>2, <2>3, <2>4, <3>1, <3>2
  <2>5. CASE ~(resume[t] = NoFuture \/ complete[resume[t]])
    <3>1. ~sched.queued[t]
      BY <1>1, <2>1, <2>5 DEF IInv, ReadersHaveResult
    <3>2. t \in ToSet(sched.wait[resume[t]])
      BY <1>1, <2>1, <3>1, ParkedWhereItReads DEF ToSet
    <3> QED BY <2>2, <2>3, <2>5, <3>1, <3>2
  <2> QED BY <2>4, <2>5
<1> QED BY <1>1, IInvAlways, PTL

\* future-destroy! leaves no task that still runs, is ready, waits or is waited
\* for: nothing of the scheduler reads the freed job.
THEOREM FreedJobsUntouched == Spec => []NothingTouchesFreed
<1>1. ASSUME IInv PROVE NothingTouchesFreed
  <2> SUFFICES ASSUME NEW f \in Future, memory[f] = "freed"
               PROVE  /\ f # running
                      /\ f \notin ToSet(sched.ready) /\ ~Waiting(sched, f)
                      /\ sched.wait[f] = <<>>
    BY DEF NothingTouchesFreed
  <2>1. /\ complete[f] /\ f # running /\ f \in Task /\ f \in WaitQueue
        /\ sched.done[f] /\ RecordOK(sched, Active)
    BY <1>1, FuturesAreQueues DEF IInv, FreedOK, JobsAreTasks, Future
  <2>2. f \notin ToSet(sched.ready)
    <3>1. ~sched.queued[f]
      BY <2>1, QueuedFacts
    <3> QED BY <2>1, <3>1, QueuedIs
  <2>3. ~Waiting(sched, f)
    BY <1>1, <2>1, WaitingReads
  <2>4. sched.wait[f] = <<>>
    <3>1. sched.wait[f] \in Seq(Task)
      BY <2>1 DEF RecordOK, SchedulerRecord
    <3>2. \A i \in 1 .. Len(sched.wait[f]) : FALSE
      BY <1>1, <2>1 DEF IInv, WaitersRead
    <3> QED BY <3>1, <3>2
  <2> QED BY <2>1, <2>2, <2>3, <2>4
<1> QED BY <1>1, IInvAlways, PTL

\* When scheduler-run! returns with live tasks, they all await one another.
THEOREM DeadlocksAreReal == Spec => []DeadlockIsReal
<1>1. ASSUME IInv PROVE DeadlockIsReal
  <2> SUFFICES ASSUME phase = "after"
               PROVE  /\ sched.live = 0 <=> Unfinished = {}
                      /\ \A f \in Unfinished : resume[f] \in Unfinished
    BY DEF DeadlockIsReal
  <2>1. Unfinished = Undone(sched) /\ RecordOK(sched, Active)
    BY <1>1, UnfinishedAreUndone DEF IInv
  <2>2. sched.live = 0 <=> Unfinished = {}
    <3>1. sched.live = Cardinality(Unfinished)
      BY <2>1 DEF RecordOK, LiveOK
    <3>2. IsFiniteSet(Unfinished)
      BY TasksFinite, FS_Subset DEF Unfinished, Future
    <3> QED BY <3>1, <3>2, FS_EmptySet
  <2>3. ASSUME NEW f \in Unfinished PROVE resume[f] \in Unfinished
    <3>1. running = NoFuture /\ sched.ready = <<>> /\ f \in Task
      BY <1>1 DEF IInv, PhaseOK, Unfinished, Future
    <3>2. ~sched.queued[f]
      BY <2>1, <3>1, QueuedFacts
    <3>3. f # running
      BY <3>1, NoTaskIsNone DEF NoFuture
    <3>4. resume[f] \in Future /\ ~complete[resume[f]] /\ memory[resume[f]] = "live"
      BY <1>1, <3>2, <3>3, ParkedWhereItReads
    <3> QED BY <3>4 DEF Unfinished
  <2> QED BY <2>2, <2>3
<1> QED BY <1>1, IInvAlways, PTL
=============================================================================
