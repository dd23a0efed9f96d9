---------------------------- MODULE Dataflow_proofs ----------------------------
(***************************************************************************)
(* Proofs about Dataflow, for any number of equations, any variables,      *)
(* inputs and operations and any body: when the scheduler is quiet the     *)
(* variables hold the least solution of the equations, the check after the *)
(* first run never fires, and the program aborts exactly when what it      *)
(* waits for has no solution.                                              *)
(***************************************************************************)
EXTENDS Dataflow, CoopTasks_proofs

-----------------------------------------------------------------------------
(* The inductive invariant. *)

\* Here values may be any: which integers they are is left to TypeCorrect.
VarTyped == \E S : var \in [Var -> [bound : BOOLEAN, value : S]]
MachineTyped ==
    \E S : machine \in [Rule -> [state : 0 .. 2, left : S, right : S]]

Typed ==
    /\ rules \in [Rule -> Equation]
    /\ steps \in Nat
    /\ VarTyped
    /\ MachineTyped
    /\ phase \in Phases
    /\ wanted \in Var \cup {NoVar}
    /\ forms \in Nat
    /\ DOMAIN given \subseteq Var
    /\ dropped \subseteq Rule

\* Every equation is a task that was started, and done when its rule fired.
RulesAreTasks ==
    /\ sched.spawned = Task
    /\ \A r \in Rule : sched.done[r] <=> machine[r].state = 2

\* Who waits, waits for an input of its that is not bound.
WaitersUnfed ==
    \A v \in Var : \A i \in 1 .. Len(sched.wait[v]) :
        /\ ~var[v].bound
        /\ v \in {rules[sched.wait[v][i]].left, rules[sched.wait[v][i]].right}

\* What a rule has captured is the value of its left input, and what a rule
\* made of its inputs is the value of its output, unless it was dropped.
Captured ==
    \A r \in Rule :
        /\ machine[r].state > 0 =>
              /\ var[rules[r].left].bound
              /\ machine[r].left = var[rules[r].left].value
        /\ machine[r].state = 2 =>
              /\ var[rules[r].right].bound /\ var[rules[r].output].bound
              /\ r \notin dropped =>
                    var[rules[r].output].value =
                       Apply(rules[r].operation, var[rules[r].left].value,
                             var[rules[r].right].value)

\* What the body bound stays.
GivenStays ==
    \A v \in DOMAIN given : var[v].bound /\ var[v].value = given[v]

\* The variables that follow from what the body bound: S has them all.
Closed(eqs, base, S) ==
    /\ base \subseteq S
    /\ \A r \in Rule :
          eqs[r].left \in S /\ eqs[r].right \in S => eqs[r].output \in S

\* Nothing is bound that does not follow.
KnownFollows ==
    \A S \in SUBSET Var : Closed(rules, DOMAIN given, S) => Known \subseteq S

\* In the first run nothing is bound, and each turn parks one more equation.
FirstRun ==
    phase = "first" =>
        /\ \A v \in Var : ~var[v].bound
        /\ \A r \in Rule : machine[r].state = 0
        /\ steps = Cardinality({r \in Rule : ~sched.queued[r]})

\* What the phases know of the variable that is waited for.
PhaseOK ==
    /\ phase \notin {"resolving", "aborted"} => wanted = NoVar
    /\ phase = "resolving" => wanted \in Var
    /\ phase \in {"done", "aborted"} => Quiet
    /\ phase = "aborted" =>
          IF wanted = NoVar THEN sched.live # 0 ELSE ~var[wanted].bound
    /\ phase = "done" => sched.live = 0

IInv ==
    /\ RecordOK(sched, NoTask)
    /\ Typed
    /\ RulesAreTasks
    /\ WaitersUnfed
    /\ Captured
    /\ GivenStays
    /\ KnownFollows
    /\ FirstRun
    /\ PhaseOK

-----------------------------------------------------------------------------
(* One turn, bind or read of the scheduler. *)

\* The types of values survive what leaves them alone.
LEMMA ValuesKept ==
    /\ VarTyped /\ var' = var => VarTyped'
    /\ MachineTyped /\ machine' = machine => MachineTyped'
  BY DEF VarTyped, MachineTyped

\* The variable and the flags a turn looks at.
LEMMA Types ==
    ASSUME IInv
    PROVE  /\ sched \in SchedulerRecord
           /\ Rule = Task /\ Var = WaitQueue
           /\ \A r \in Rule : /\ rules[r].left \in Var /\ rules[r].right \in Var
                              /\ rules[r].output \in Var
                              /\ machine[r].state \in 0 .. 2
           /\ \A v \in Var : var[v].bound \in BOOLEAN
           /\ DOMAIN var = Var /\ DOMAIN machine = Rule
           /\ \A r \in Rule : r # NoTask
           /\ IsFiniteSet(Rule)
  BY TasksFinite, NoTaskIsNone
  DEF IInv, RecordOK, Typed, VarTyped, MachineTyped, Equation, Rule, Var

\* Whose turn it is was ready, and is not done.
LEMMA TurnTakes ==
    ASSUME IInv, NEW r \in Rule, Turn(r)
    PROVE  /\ RecordOK(Take(sched), r)
           /\ TakeChanges(sched, r, Take(sched))
           /\ sched.queued[r] /\ ~sched.done[r]
  BY Types, TakeOK, TakeEffect DEF IInv, Turn

\* What a turn that parks r at v does to the scheduler.
Parked(r, v) ==
    /\ RecordOK(sched', NoTask)
    /\ sched'.spawned = sched.spawned /\ sched'.done = sched.done
    /\ sched'.live = sched.live
    /\ \A u \in Task : sched'.queued[u] <=> sched.queued[u] /\ u # r
    /\ sched'.wait[v] = Append(sched.wait[v], r)
    /\ \A p \in Var \ {v} : sched'.wait[p] = sched.wait[p]

LEMMA ParkTurn ==
    ASSUME IInv, NEW r \in Rule, NEW v \in Var, Turn(r), ParkOn(r, v)
    PROVE  Parked(r, v)
<1> DEFINE t == Take(sched)
<1>1. RecordOK(t, r) /\ TakeChanges(sched, r, t) /\ r \in Task /\ v \in WaitQueue
  BY Types, TurnTakes
<1> HIDE DEF t
<1>2. RecordOK(Park(t, v, r), NoTask)
  BY <1>1, ParkOK
<1>3. ParkChanges(t, v, r, Park(t, v, r)) /\ AfterStep(Park(t, v, r), r) = Park(t, v, r)
  BY <1>1, ParkEffect
<1>4. sched' = Park(t, v, r)
  BY <1>3 DEF ParkOn, t
<1> QED BY <1>1, <1>2, <1>3, <1>4, Types DEF Parked, ParkChanges, TakeChanges

\* The readers of a variable leave its queue when it is bound for the first
\* time; nothing happens to them when it was bound before.
Served(s, v, n) ==
    /\ n.spawned = s.spawned /\ n.done = s.done /\ n.live = s.live
    /\ var[v].bound => n = s
    /\ ~var[v].bound => n.wait[v] = <<>>
    /\ \A p \in Var \ {v} : n.wait[p] = s.wait[p]

LEMMA ReadersServed ==
    ASSUME NEW s, NEW c, RecordOK(s, c), NEW v \in Var
    PROVE  RecordOK(ReadersWoken(s, v), c) /\ Served(s, v, ReadersWoken(s, v))
<1>1. CASE var[v].bound
  BY <1>1 DEF ReadersWoken, Served
<1>2. CASE ~var[v].bound
  <2>1. RecordOK(WakeAll(s, v), c) /\ WakeAllChanges(s, v, WakeAll(s, v))
    BY WakeAllEffect DEF Var
  <2> QED BY <1>2, <2>1 DEF ReadersWoken, Served, WakeAllChanges, Var
<1> QED BY <1>1, <1>2

\* What the last turn of r, which binds v, does to the scheduler.
Fired(r, v) ==
    /\ RecordOK(sched', NoTask)
    /\ sched'.spawned = sched.spawned
    /\ \A u \in Task : sched'.done[u] <=> sched.done[u] \/ u = r
    /\ ~var[v].bound => sched'.wait[v] = <<>>
    /\ var[v].bound => sched'.wait[v] = sched.wait[v]
    /\ \A p \in Var \ {v} : sched'.wait[p] = sched.wait[p]

LEMMA FireTurn ==
    ASSUME IInv, NEW r \in Rule, NEW v \in Var, Turn(r),
           sched' = AfterStep(Complete(ReadersWoken(Take(sched), v), r), r)
    PROVE  Fired(r, v)
<1> DEFINE t == Take(sched)
           w == ReadersWoken(t, v)
<1>1. RecordOK(t, r) /\ TakeChanges(sched, r, t) /\ r \in Task
  BY Types, TurnTakes
<1> HIDE DEF t
<1>2. RecordOK(w, r) /\ Served(t, v, w)
  BY <1>1, ReadersServed
<1> HIDE DEF w
<1>3. RecordOK(Complete(w, r), NoTask)
  BY <1>1, <1>2, CompleteOK
<1>4. CompleteChanges(w, r, Complete(w, r)) /\ AfterStep(Complete(w, r), r) = Complete(w, r)
  BY <1>1, <1>2, CompleteEffect
<1>5. sched' = Complete(w, r)
  BY <1>4 DEF w, t
<1>6. t.wait = sched.wait /\ t.done = sched.done /\ t.spawned = sched.spawned
  BY <1>1 DEF TakeChanges
<1>7. /\ sched'.wait = w.wait /\ sched'.spawned = w.spawned
      /\ \A u \in Task : sched'.done[u] <=> w.done[u] \/ u = r
  BY <1>4, <1>5 DEF CompleteChanges
<1> QED BY <1>2, <1>3, <1>5, <1>6, <1>7 DEF Fired, Served

\* dataflow-bind! of v to x: the first value stays.
BoundTo(v, x) ==
    /\ \A p \in Var : p # v \/ var[p].bound => var'[p] = var[p]
    /\ var'[v].bound
    /\ ~var[v].bound => var'[v].value = x
    /\ VarTyped'
    /\ Known' = Known \cup {v}

LEMMA UnifiedBinds ==
    ASSUME IInv, NEW v \in Var, NEW x, var' = Unified(v, x)
    PROVE  BoundTo(v, x)
<1>1. PICK S : var \in [Var -> [bound : BOOLEAN, value : S]]
  BY DEF IInv, Typed, VarTyped
<1>2. CASE var[v].bound
  <2>1. var' = var
    BY <1>2 DEF Unified
  <2> QED BY <1>1, <1>2, <2>1 DEF BoundTo, VarTyped, Known
<1>3. CASE ~var[v].bound
  <2>1. var' = [var EXCEPT ![v] = [bound |-> TRUE, value |-> x]]
    BY <1>3 DEF Unified
  <2>2. var'[v].bound /\ var'[v].value = x
    BY <1>1, <2>1
  <2>3. \A p \in Var \ {v} : var'[p] = var[p]
    BY <1>1, <2>1
  <2>4. var' \in [Var -> [bound : BOOLEAN, value : S \cup {x}]]
    <3>1. var \in [Var -> [bound : BOOLEAN, value : S \cup {x}]]
      BY <1>1
    <3>2. [bound |-> TRUE, value |-> x] \in [bound : BOOLEAN, value : S \cup {x}]
      OBVIOUS
    <3> QED BY <2>1, <3>1, <3>2
  <2>5. Known' = Known \cup {v}
    BY <2>2, <2>3 DEF Known
  <2> QED BY <1>3, <2>2, <2>3, <2>4, <2>5 DEF BoundTo, VarTyped
<1> QED BY <1>2, <1>3

\* Bound variables keep their values, so that what was captured and given and
\* what no longer waits stays so.
LEMMA BindingKeeps ==
    ASSUME IInv, NEW v \in Var, NEW x, BoundTo(v, x), rules' = rules
    PROVE  /\ machine' = machine /\ dropped' = dropped => Captured'
           /\ \A p \in DOMAIN given : var'[p].bound /\ var'[p].value = given[p]
           /\ (/\ ~var[v].bound => sched'.wait[v] = <<>>
               /\ var[v].bound => sched'.wait[v] = sched.wait[v]
               /\ \A p \in Var \ {v} : sched'.wait[p] = sched.wait[p]) => WaitersUnfed'
<1>1. \A p \in Var : var[p].bound => var'[p] = var[p]
  BY DEF BoundTo
<1>2. machine' = machine /\ dropped' = dropped => Captured'
  BY <1>1, Types DEF IInv, Captured
<1>3. \A p \in DOMAIN given : var'[p].bound /\ var'[p].value = given[p]
  BY <1>1 DEF IInv, Typed, GivenStays
<1>4. ASSUME ~var[v].bound => sched'.wait[v] = <<>>,
             var[v].bound => sched'.wait[v] = sched.wait[v],
             \A p \in Var \ {v} : sched'.wait[p] = sched.wait[p]
      PROVE  WaitersUnfed'
  <2>1. ASSUME NEW p \in Var, NEW i \in 1 .. Len(sched'.wait[p])
        PROVE  p # v /\ i \in 1 .. Len(sched.wait[p]) /\ sched'.wait[p] = sched.wait[p]
    BY <1>4, <2>1 DEF IInv, WaitersUnfed
  <2> QED BY <2>1 DEF IInv, WaitersUnfed, BoundTo
<1> QED BY <1>2, <1>3, <1>4

-----------------------------------------------------------------------------
(* The turns. *)

\* Who parks at an unbound input joins those who wait for one.
LEMMA ParkedUnfed ==
    ASSUME IInv, NEW r \in Rule, NEW v \in Var, Parked(r, v), ~var[v].bound,
           v \in {rules[r].left, rules[r].right}, UNCHANGED <<rules, var>>
    PROVE  WaitersUnfed'
<1>1. sched.wait[v] \in Seq(Task) /\ r \in Task
  BY Types DEF SchedulerRecord
<1> SUFFICES ASSUME NEW p \in Var, NEW i \in 1 .. Len(sched'.wait[p])
             PROVE  /\ ~var[p].bound
                    /\ p \in {rules[sched'.wait[p][i]].left, rules[sched'.wait[p][i]].right}
  BY DEF WaitersUnfed
<1>2. CASE p # v
  BY <1>2 DEF IInv, WaitersUnfed, Parked
<1>3. CASE p = v
  <2>1. sched'.wait[p] = Append(sched.wait[v], r)
    BY <1>3 DEF Parked
  <2>2. CASE i \in 1 .. Len(sched.wait[v])
    <3>1. sched'.wait[p][i] = sched.wait[v][i]
      BY <1>1, <2>1, <2>2, AppendIndices
    <3> QED BY <1>3, <2>2, <3>1 DEF IInv, WaitersUnfed
  <2>3. CASE i = Len(sched.wait[v]) + 1
    <3>1. sched'.wait[p][i] = r
      BY <1>1, <2>1, <2>3, AppendIndices
    <3> QED BY <1>3, <3>1
  <2>4. Len(sched'.wait[p]) = Len(sched.wait[v]) + 1 /\ Len(sched.wait[v]) \in Nat
    BY <1>1, <2>1, AppendIndices
  <2> QED BY <2>2, <2>3, <2>4
<1> QED BY <1>2, <1>3

\* A turn of the first run takes one more task out of the run queue.
LEMMA ParkedCounts ==
    ASSUME IInv, phase = "first", NEW r \in Rule, NEW v \in Var, Turn(r), Parked(r, v)
    PROVE  steps' = Cardinality({u \in Rule : ~sched'.queued[u]})
<1> DEFINE Q == {u \in Rule : ~sched.queued[u]}
           R == {u \in Rule : ~sched'.queued[u]}
<1>1. sched.queued[r] /\ Rule = Task /\ IsFiniteSet(Rule)
  BY Types, TurnTakes
<1>2. R = Q \cup {r} /\ r \notin Q
  BY <1>1 DEF Parked
<1>3. IsFiniteSet(Q)
  BY <1>1, FS_Subset
<1>4. steps' = steps + 1 /\ steps = Cardinality(Q)
  BY DEF Turn, IInv, FirstRun
<1> HIDE DEF Q, R
<1>5. Cardinality(R) = Cardinality(Q) + 1
  BY <1>2, <1>3, FS_AddElement
<1> QED BY <1>4, <1>5 DEF R

\* A rule that knows its left input knows the value it has now.
LEMMA LeftCaptured ==
    ASSUME IInv, NEW r \in Rule, LeftKnown(r)
    PROVE  var[rules[r].left].bound /\ LeftValue(r) = var[rules[r].left].value
  BY Types DEF IInv, Captured, LeftKnown, LeftValue

LEMMA FieldsStored ==
    ASSUME NEW T, NEW x \in T, NEW a \in [state : 0 .. 2, left : T, right : T]
    PROVE  [a EXCEPT !.state = 1, !.left = x] \in [state : 0 .. 2, left : T, right : T]
<1>1. [a EXCEPT !.state = 1] \in [state : 0 .. 2, left : T, right : T]
  OBVIOUS
<1>2. [[a EXCEPT !.state = 1] EXCEPT !.left = x] \in [state : 0 .. 2, left : T, right : T]
  BY <1>1
<1> QED BY <1>2

\* Storing a rule's program counter and inputs.
LEMMA MachineMoves ==
    ASSUME IInv, NEW r \in Rule, NEW x, NEW y,
           \/ machine' = [machine EXCEPT ![r].state = 1, ![r].left = x]
           \/ machine' = [machine EXCEPT ![r] = [state |-> 2, left |-> x, right |-> y]]
    PROVE  /\ \A u \in Rule \ {r} : machine'[u] = machine[u]
           /\ machine'[r].state \in {1, 2} /\ machine'[r].left = x
           /\ machine' = [machine EXCEPT ![r].state = 1, ![r].left = x] =>
                 machine'[r].state = 1
           /\ machine' = [machine EXCEPT ![r] = [state |-> 2, left |-> x, right |-> y]] =>
                 machine'[r].state = 2
           /\ MachineTyped'
<1>1. PICK S : machine \in [Rule -> [state : 0 .. 2, left : S, right : S]]
  BY DEF IInv, Typed, MachineTyped
<1> DEFINE T == S \cup {x, y}
<1>2. machine \in [Rule -> [state : 0 .. 2, left : T, right : T]]
  BY <1>1
<1>3. CASE machine' = [machine EXCEPT ![r].state = 1, ![r].left = x]
  <2>1. machine' \in [Rule -> [state : 0 .. 2, left : T, right : T]]
    <3> DEFINE M == [state : 0 .. 2, left : T, right : T]
               m == [machine[r] EXCEPT !.state = 1, !.left = x]
    <3>1. machine \in [Rule -> M] /\ x \in T
      BY <1>2
    <3>2. m \in M
      BY <3>1, FieldsStored
    <3>3. machine' = [machine EXCEPT ![r] = m]
      BY <1>1, <1>3
    <3> HIDE DEF M, m
    <3>4. machine' \in [Rule -> M]
      BY <3>1, <3>2, <3>3
    <3> QED BY <3>4 DEF M
  <2>2. machine'[r].state = 1 /\ machine'[r].left = x
    BY <1>1, <1>3
  <2>3. \A u \in Rule \ {r} : machine'[u] = machine[u]
    BY <1>1, <1>3
  <2>4. machine' # [machine EXCEPT ![r] = [state |-> 2, left |-> x, right |-> y]]
    BY <1>1, <2>2
  <2> QED BY <2>1, <2>2, <2>3, <2>4 DEF MachineTyped
<1>4. CASE machine' = [machine EXCEPT ![r] = [state |-> 2, left |-> x, right |-> y]]
  <2>1. machine' \in [Rule -> [state : 0 .. 2, left : T, right : T]]
    <3> DEFINE M == [state : 0 .. 2, left : T, right : T]
               m == [state |-> 2, left |-> x, right |-> y]
    <3>1. m \in M
      OBVIOUS
    <3>2. machine \in [Rule -> M] /\ machine' = [machine EXCEPT ![r] = m]
      BY <1>2, <1>4
    <3> HIDE DEF M, m
    <3>3. machine' \in [Rule -> M]
      BY <3>1, <3>2
    <3> QED BY <3>3 DEF M
  <2>2. machine'[r].state = 2 /\ machine'[r].left = x
    BY <1>1, <1>4
  <2>3. \A u \in Rule \ {r} : machine'[u] = machine[u]
    BY <1>1, <1>4
  <2>4. machine' # [machine EXCEPT ![r].state = 1, ![r].left = x]
    BY <1>1, <2>2
  <2> QED BY <2>1, <2>2, <2>3, <2>4 DEF MachineTyped
<1> QED BY <1>3, <1>4

LEMMA ParksLeftIInv ==
    ASSUME IInv, NEW r \in Rule, ParksLeft(r)
    PROVE  IInv'
<1> DEFINE v == rules[r].left
<1>1. /\ v \in Var /\ ~var[v].bound
      /\ Turn(r) /\ ParkOn(r, v) /\ r \in Task
      /\ UNCHANGED <<rules, var, machine, phase, wanted, forms, given, dropped>>
  BY Types DEF ParksLeft, LeftKnown
<1>2. Parked(r, v)
  BY <1>1, ParkTurn
<1>3. RecordOK(sched', NoTask)
  BY <1>2 DEF Parked
<1>4. Typed'
  BY <1>1, ValuesKept DEF IInv, Typed, Turn
<1>5. RulesAreTasks'
  BY <1>1, <1>2 DEF IInv, RulesAreTasks, Parked
<1>6. WaitersUnfed'
  BY <1>1, <1>2, ParkedUnfed
<1>7. Captured' /\ GivenStays' /\ KnownFollows'
  BY <1>1 DEF IInv, Captured, GivenStays, KnownFollows, Closed, Known
<1>8. FirstRun'
  BY <1>1, <1>2, ParkedCounts DEF IInv, FirstRun
<1>9. PhaseOK'
  BY <1>1 DEF IInv, PhaseOK, Turn, Runs
<1> QED BY <1>3, <1>4, <1>5, <1>6, <1>7, <1>8, <1>9 DEF IInv

LEMMA ParksRightIInv ==
    ASSUME IInv, NEW r \in Rule, ParksRight(r)
    PROVE  IInv'
<1> DEFINE v == rules[r].right
           l == rules[r].left
<1>1. /\ v \in Var /\ l \in Var /\ ~var[v].bound /\ LeftKnown(r)
      /\ Turn(r) /\ ParkOn(r, v) /\ r \in Task
      /\ machine' = [machine EXCEPT ![r].state = 1, ![r].left = LeftValue(r)]
      /\ UNCHANGED <<rules, var, phase, wanted, forms, given, dropped>>
  BY Types DEF ParksRight
<1>2. Parked(r, v)
  BY <1>1, ParkTurn
<1>3. var[l].bound /\ LeftValue(r) = var[l].value
  BY <1>1, LeftCaptured
<1>4. /\ \A u \in Rule \ {r} : machine'[u] = machine[u]
      /\ machine'[r].state = 1 /\ machine'[r].left = var[l].value
      /\ MachineTyped'
  BY <1>1, <1>3, MachineMoves
<1>5. ~sched.done[r]
  BY <1>1, TurnTakes
<1>6. RecordOK(sched', NoTask)
  BY <1>2 DEF Parked
<1>7. Typed'
  <2>1. Typed /\ UNCHANGED <<rules, var, phase, wanted, forms, given, dropped>>
    BY <1>1 DEF IInv
  <2>2. steps' \in Nat
    BY <1>1, <2>1 DEF Typed, Turn
  <2>3. MachineTyped'
    BY <1>4
  <2> QED BY <2>1, <2>2, <2>3, ValuesKept DEF Typed
<1>8. RulesAreTasks'
  <2>1. sched'.spawned = sched.spawned /\ sched'.done = sched.done
    BY <1>2 DEF Parked
  <2>2. RulesAreTasks
    BY DEF IInv
  <2>3. machine[r].state # 2
    BY <1>5, <2>2 DEF RulesAreTasks
  <2> QED BY <1>4, <2>1, <2>2, <2>3 DEF RulesAreTasks
<1>9. WaitersUnfed'
  BY <1>1, <1>2, ParkedUnfed
<1>10. Captured'
  <2>1. Captured /\ rules' = rules /\ var' = var /\ dropped' = dropped
    BY <1>1 DEF IInv
  <2> QED BY <1>3, <1>4, <2>1 DEF Captured
<1>11. GivenStays' /\ KnownFollows'
  BY <1>1 DEF IInv, GivenStays, KnownFollows, Closed, Known
<1>12. phase # "first"
  BY <1>1, <1>3 DEF IInv, FirstRun
<1>13. FirstRun' /\ PhaseOK'
  BY <1>1, <1>12 DEF IInv, FirstRun, PhaseOK, Turn, Runs
<1> QED BY <1>6, <1>7, <1>8, <1>9, <1>10, <1>11, <1>13 DEF IInv

LEMMA FiresIInv ==
    ASSUME IInv, NEW r \in Rule, Fires(r)
    PROVE  IInv'
<1> DEFINE l == rules[r].left
           w == rules[r].right
           v == rules[r].output
<1>1. l \in Var /\ w \in Var /\ v \in Var /\ r \in Task
  BY Types
<1>2. /\ Turn(r) /\ LeftKnown(r) /\ var[w].bound
      /\ UNCHANGED <<rules, phase, wanted, forms, given>>
  BY DEF Fires
<1>3. var[l].bound /\ LeftValue(r) = var[l].value
  BY <1>2, LeftCaptured
<1> DEFINE x == Apply(rules[r].operation, var[l].value, var[w].value)
<1>4. /\ machine' = [machine EXCEPT ![r] = [state |-> 2, left |-> var[l].value,
                                            right |-> var[w].value]]
      /\ var' = Unified(v, x)
      /\ sched' = AfterStep(Complete(ReadersWoken(Take(sched), v), r), r)
      /\ dropped' = IF Conflicts(v, x) THEN dropped \cup {r} ELSE dropped
  BY <1>3 DEF Fires
<1> HIDE DEF x
<1>5. BoundTo(v, x)
  BY <1>1, <1>4, UnifiedBinds
<1>6. Fired(r, v)
  BY <1>1, <1>2, <1>4, FireTurn
<1>7. /\ \A u \in Rule \ {r} : machine'[u] = machine[u]
      /\ machine'[r].state = 2 /\ machine'[r].left = var[l].value
      /\ MachineTyped'
  BY <1>4, MachineMoves
<1>8. dropped \subseteq dropped' /\ dropped' \subseteq Rule
      /\ (r \notin dropped' => ~Conflicts(v, x))
  BY <1>4 DEF IInv, Typed
<1>9. Typed'
  BY <1>2, <1>5, <1>7, <1>8 DEF IInv, Typed, BoundTo, Turn
<1>10. RulesAreTasks'
  <2>1. sched'.spawned = sched.spawned
    BY <1>6 DEF Fired
  <2>2. \A u \in Rule : sched'.done[u] <=> sched.done[u] \/ u = r
    BY <1>6, Types DEF Fired
  <2>3. \A u \in Rule : machine'[u].state = 2 <=> machine[u].state = 2 \/ u = r
    BY <1>7
  <2>4. /\ sched.spawned = Task
        /\ \A u \in Rule : sched.done[u] <=> machine[u].state = 2
    BY DEF IInv, RulesAreTasks
  <2>5. \A u \in Rule : sched'.done[u] <=> machine'[u].state = 2
    BY <2>2, <2>3, <2>4
  <2> QED BY <2>1, <2>4, <2>5 DEF RulesAreTasks
<1>11. WaitersUnfed' /\ GivenStays'
  BY <1>1, <1>2, <1>5, <1>6, BindingKeeps DEF Fired, GivenStays
<1>12. Captured'
  <2>1. \A p \in Var : var[p].bound => var'[p] = var[p]
    BY <1>5 DEF BoundTo
  <2>2. ASSUME NEW u \in Rule \ {r}
        PROVE  /\ machine'[u].state > 0 =>
                     /\ var'[rules[u].left].bound
                     /\ machine'[u].left = var'[rules[u].left].value
               /\ machine'[u].state = 2 =>
                     /\ var'[rules[u].right].bound /\ var'[rules[u].output].bound
                     /\ u \notin dropped' =>
                           var'[rules[u].output].value =
                              Apply(rules[u].operation, var'[rules[u].left].value,
                                    var'[rules[u].right].value)
    BY <1>7, <1>8, <2>1, Types DEF IInv, Captured
  <2>3. var'[l] = var[l] /\ var'[w] = var[w] /\ var'[v].bound
    BY <1>1, <1>2, <1>3, <1>5, <2>1 DEF BoundTo
  <2>4. r \notin dropped' => var'[v].value = x
    BY <1>1, <1>5, <1>8, <2>1 DEF BoundTo, Conflicts
  <2> QED BY <1>2, <1>3, <1>7, <2>2, <2>3, <2>4 DEF Captured, x
<1>13. KnownFollows'
  <2> SUFFICES ASSUME NEW S \in SUBSET Var, Closed(rules, DOMAIN given, S)
               PROVE  Known' \subseteq S
    BY <1>2 DEF KnownFollows
  <2>1. Known \subseteq S
    BY DEF IInv, KnownFollows
  <2>2. v \in S
    BY <1>1, <1>2, <1>3, <2>1 DEF Known, Closed
  <2> QED BY <1>5, <2>1, <2>2 DEF BoundTo
<1>14. phase # "first"
  BY <1>1, <1>3 DEF IInv, FirstRun
<1>15. FirstRun' /\ PhaseOK'
  BY <1>2, <1>14 DEF IInv, FirstRun, PhaseOK, Turn, Runs
<1>16. RecordOK(sched', NoTask)
  BY <1>6 DEF Fired
<1> QED BY <1>9, <1>10, <1>11, <1>12, <1>13, <1>15, <1>16 DEF IInv

-----------------------------------------------------------------------------
(* The program. *)

LEMMA BindIInv ==
    ASSUME IInv, NEW v \in Var, NEW x \in Inputs, Bind(v, x)
    PROVE  IInv'
<1>1. /\ phase = "body" /\ forms > 0 /\ forms' = forms - 1
      /\ var' = Unified(v, x) /\ sched' = ReadersWoken(sched, v)
      /\ given' = IF var[v].bound THEN given
                  ELSE [w \in DOMAIN given \cup {v} |-> IF w = v THEN x ELSE given[w]]
      /\ UNCHANGED <<rules, steps, machine, phase, wanted, dropped>>
  BY DEF Bind
<1>2. BoundTo(v, x)
  BY <1>1, UnifiedBinds
<1>3. RecordOK(sched', NoTask) /\ Served(sched, v, sched')
  BY <1>1, ReadersServed DEF IInv
<1>4. DOMAIN given' = IF var[v].bound THEN DOMAIN given ELSE DOMAIN given \cup {v}
  BY <1>1
<1>5. Typed'
  BY <1>1, <1>2, <1>4, ValuesKept DEF IInv, Typed, BoundTo
<1>6. RulesAreTasks'
  BY <1>1, <1>3 DEF IInv, RulesAreTasks, Served
<1>7. Captured' /\ WaitersUnfed'
  BY <1>1, <1>2, <1>3, BindingKeeps DEF Served
<1>8. GivenStays'
  <2>1. \A p \in DOMAIN given : var'[p].bound /\ var'[p].value = given[p]
    BY <1>1, <1>2, BindingKeeps
  <2>2. CASE var[v].bound
    BY <1>1, <2>1, <2>2 DEF GivenStays
  <2>3. CASE ~var[v].bound
    <3>1. var'[v].bound /\ var'[v].value = x /\ v \notin DOMAIN given
      BY <1>2, <2>3 DEF BoundTo, IInv, GivenStays
    <3>2. given' = [w \in DOMAIN given \cup {v} |-> IF w = v THEN x ELSE given[w]]
      BY <1>1, <2>3
    <3> QED BY <2>1, <3>1, <3>2 DEF GivenStays
  <2> QED BY <2>2, <2>3
<1>9. KnownFollows'
  <2> SUFFICES ASSUME NEW S \in SUBSET Var, Closed(rules, DOMAIN given', S)
               PROVE  Known' \subseteq S
    BY <1>1 DEF KnownFollows
  <2>1. Closed(rules, DOMAIN given, S)
    BY <1>4 DEF Closed
  <2>2. Known \subseteq S
    BY <2>1 DEF IInv, KnownFollows
  <2>3. v \in S
    BY <1>4, <2>2 DEF Closed, Known
  <2> QED BY <1>2, <2>2, <2>3 DEF BoundTo
<1>10. FirstRun' /\ PhaseOK'
  BY <1>1 DEF IInv, FirstRun, PhaseOK
<1> QED BY <1>3, <1>5, <1>6, <1>7, <1>8, <1>9, <1>10 DEF IInv

\* The state in which every equation had its first turn: none left the run
\* queue but to wait.
LEMMA FirstRunParks ==
    ASSUME IInv, phase = "first", Quiet
    PROVE  sched.live = N /\ steps = N
<1>1. RecordOK(sched, NoTask) /\ sched.ready = <<>> /\ Rule = Task
  BY Types DEF IInv, Quiet
<1>2. Cardinality(Task) = N
  BY FS_Interval, DataflowConstants
<1>3. \A r \in Rule : ~sched.queued[r]
  BY <1>1 DEF RecordOK, ReadyOK
<1>4. {r \in Rule : ~sched.queued[r]} = Task
  BY <1>1, <1>3
<1>5. Undone(sched) = Task
  BY <1>1, Types DEF Undone, IInv, RulesAreTasks, FirstRun
<1> QED BY <1>1, <1>2, <1>4, <1>5 DEF RecordOK, LiveOK, IInv, FirstRun

\* What leaves the variables and the scheduler alone keeps what is said of them.
LEMMA OnlyPhase ==
    ASSUME IInv, UNCHANGED <<rules, sched, steps, var, machine, given, dropped>>,
           phase' \in Phases, wanted' \in Var \cup {NoVar}, forms' \in Nat,
           phase' # "first", PhaseOK'
    PROVE  IInv'
<1>1. RecordOK(sched', NoTask)
  BY DEF IInv
<1>2. Typed'
  BY ValuesKept DEF IInv, Typed
<1>3. RulesAreTasks' /\ WaitersUnfed' /\ Captured'
  BY DEF IInv, RulesAreTasks, WaitersUnfed, Captured
<1>4. GivenStays' /\ KnownFollows'
  BY DEF IInv, GivenStays, KnownFollows, Closed, Known
<1>5. FirstRun'
  BY DEF FirstRun
<1> QED BY <1>1, <1>2, <1>3, <1>4, <1>5 DEF IInv

LEMMA ProgramIInv ==
    ASSUME IInv, Gate \/ Resolved \/ BodyEnds \/ Finish \/ \E v \in Var : Resolve(v)
    PROVE  IInv'
<1>1. /\ phase \in Phases /\ wanted \in Var \cup {NoVar} /\ forms \in Nat /\ PhaseOK
      /\ NoVar \notin Var
  BY DataflowConstants DEF IInv, Typed
<1>2. CASE Gate
  <2>1. phase' = "body" /\ wanted' = wanted /\ wanted = NoVar /\ forms' = forms
    BY <1>1, <1>2, FirstRunParks, DataflowConstants DEF Gate, PhaseOK
  <2>2. PhaseOK'
    BY <2>1 DEF PhaseOK
  <2> QED BY <1>1, <1>2, <2>1, <2>2, OnlyPhase DEF Gate, Phases
<1>3. CASE Resolved
  <2>1. /\ phase' = IF var[wanted].bound THEN "body" ELSE "aborted"
        /\ wanted' = IF var[wanted].bound THEN NoVar ELSE wanted
        /\ var' = var /\ sched' = sched /\ Quiet /\ forms' = forms /\ wanted \in Var
    BY <1>1, <1>3 DEF Resolved, PhaseOK
  <2>2. PhaseOK'
    BY <1>1, <2>1 DEF PhaseOK, Quiet
  <2>3. phase' \in Phases /\ phase' # "first" /\ wanted' \in Var \cup {NoVar}
    BY <2>1 DEF Phases
  <2> QED BY <1>1, <1>3, <2>1, <2>2, <2>3, OnlyPhase DEF Resolved
<1>4. CASE BodyEnds
  <2>1. phase' = "finishing" /\ wanted' = wanted /\ wanted = NoVar /\ forms' = forms
    BY <1>1, <1>4 DEF BodyEnds, PhaseOK
  <2>2. PhaseOK'
    BY <2>1 DEF PhaseOK
  <2> QED BY <1>1, <1>4, <2>1, <2>2, OnlyPhase DEF BodyEnds, Phases
<1>5. CASE Finish
  <2>1. /\ phase' = IF sched.live = 0 THEN "done" ELSE "aborted"
        /\ wanted' = wanted /\ wanted = NoVar /\ forms' = forms
        /\ sched' = sched /\ Quiet
    BY <1>1, <1>5 DEF Finish, PhaseOK
  <2>2. PhaseOK'
    BY <2>1 DEF PhaseOK, Quiet
  <2>3. phase' \in Phases /\ phase' # "first"
    BY <2>1 DEF Phases
  <2> QED BY <1>1, <1>5, <2>1, <2>2, <2>3, OnlyPhase DEF Finish
<1>6. ASSUME NEW v \in Var, Resolve(v)
      PROVE  IInv'
  <2>1. /\ phase' = IF var[v].bound THEN "body" ELSE "resolving"
        /\ wanted' = IF var[v].bound THEN NoVar ELSE v
        /\ forms' = forms - 1 /\ forms > 0
    BY <1>6 DEF Resolve
  <2>2. PhaseOK'
    BY <2>1 DEF PhaseOK
  <2>3. phase' \in Phases /\ phase' # "first" /\ wanted' \in Var \cup {NoVar}
        /\ forms' \in Nat
    BY <1>1, <2>1 DEF Phases
  <2> QED BY <1>6, <2>2, <2>3, OnlyPhase DEF Resolve
<1> QED BY <1>2, <1>3, <1>4, <1>5, <1>6

LEMMA InitIInv ==
    ASSUME Init
    PROVE  IInv
<1> DEFINE order == [i \in Rule |-> i]
<1>1. Rule = 1 .. N /\ Task = 1 .. N /\ N \in Nat
  BY DataflowConstants DEF Rule
<1>2. order \in Seq(Task) /\ Len(order) = N
  BY <1>1
<1>3. \A i \in 1 .. N : order[i] = i
  BY <1>1
<1> HIDE DEF order
<1>4. StartedSoFar(order, N, Started(order)) /\ sched = Started(order)
  BY <1>2, <1>3, StartedOK DEF Init, order
<1>5. RecordOK(sched, NoTask)
  BY <1>4 DEF StartedSoFar
<1>6. /\ \A t \in Task : ~sched.done[t] /\ t \in sched.spawned
      /\ \A q \in WaitQueue : sched.wait[q] = <<>>
  BY <1>1, <1>3, <1>4 DEF StartedSoFar
<1>7. sched.spawned = Task
  BY <1>5, <1>6 DEF RecordOK, SchedulerRecord
<1>8. Typed
  <2>1. var \in [Var -> [bound : BOOLEAN, value : {0}]]
    BY DEF Init, NewVar
  <2>2. machine \in [Rule -> [state : 0 .. 2, left : {0}, right : {0}]]
    BY DEF Init
  <2>3. VarTyped /\ MachineTyped
    BY <2>1, <2>2 DEF VarTyped, MachineTyped
  <2>4. DOMAIN given = {}
    BY DEF Init
  <2> QED BY <2>3, <2>4, DataflowConstants DEF Init, Typed, Phases
<1>9. (\A v \in Var : ~var[v].bound) /\ (\A r \in Rule : machine[r].state = 0)
  BY DEF Init, NewVar
<1>10. RulesAreTasks
  BY <1>1, <1>6, <1>7, <1>9 DEF RulesAreTasks
<1>11. WaitersUnfed
  BY <1>6 DEF WaitersUnfed, Var
<1>12. Captured /\ GivenStays /\ KnownFollows
  BY <1>9 DEF Init, Captured, GivenStays, KnownFollows, Known
<1>13. FirstRun
  <2>1. \A t \in Task : sched.queued[t]
    <3>1. ASSUME NEW t \in Task PROVE sched.queued[t]
      BY <1>5, <1>6, NoTaskIsNone DEF RecordOK, NoneLost
    <3> QED BY <3>1
  <2>2. {r \in Rule : ~sched.queued[r]} = {}
    BY <1>1, <2>1
  <2> QED BY <1>9, <2>2, FS_EmptySet DEF FirstRun, Init
<1>14. PhaseOK
  BY DEF Init, PhaseOK
<1> QED BY <1>5, <1>8, <1>10, <1>11, <1>12, <1>13, <1>14 DEF IInv

LEMMA NextIInv ==
    ASSUME IInv, [Next]_vars
    PROVE  IInv'
<1>1. CASE RuleStep
  BY <1>1, ParksLeftIInv, ParksRightIInv, FiresIInv DEF RuleStep
<1>2. CASE Gate \/ Resolved \/ BodyEnds \/ Finish \/ \E v \in Var : Resolve(v)
  BY <1>2, ProgramIInv
<1>3. CASE \E v \in Var, x \in Inputs : Bind(v, x)
  BY <1>3, BindIInv
<1>4. CASE UNCHANGED vars
  <2>1. UNCHANGED <<rules, sched, steps, var, machine, given, dropped>>
        /\ UNCHANGED <<phase, wanted, forms>>
    BY <1>4 DEF vars
  <2>2. RecordOK(sched', NoTask)
    BY <2>1 DEF IInv
  <2>3. Typed'
    BY <2>1, ValuesKept DEF IInv, Typed
  <2>4. RulesAreTasks' /\ WaitersUnfed' /\ Captured'
    BY <2>1 DEF IInv, RulesAreTasks, WaitersUnfed, Captured
  <2>5. GivenStays' /\ KnownFollows'
    BY <2>1 DEF IInv, GivenStays, KnownFollows, Closed, Known
  <2>6. FirstRun' /\ PhaseOK'
    BY <2>1 DEF IInv, FirstRun, PhaseOK, Quiet
  <2> QED BY <2>2, <2>3, <2>4, <2>5, <2>6 DEF IInv
<1> QED BY <1>1, <1>2, <1>3, <1>4 DEF Next

\* The inductive invariant holds in every state of every execution.
THEOREM Inductive == Spec => []IInv
<1>1. Init => IInv
  BY InitIInv
<1>2. IInv /\ [Next]_vars => IInv'
  BY NextIInv
<1> QED BY <1>1, <1>2, PTL DEF Spec

-----------------------------------------------------------------------------
(* Types: every value is an integer of the machine. *)

LEMMA WrappedRange ==
    ASSUME NEW x \in Int
    PROVE  Wrapped(x) \in Values
<1> DEFINE y == (x + Half) % (2 * Half)
<1>1. Half \in Nat \ {0} /\ 2 * Half \in Nat \ {0} /\ x + Half \in Int
  BY DataflowConstants
<1>2. \A a \in Int, b \in Nat \ {0} : a % b \in 0 .. b - 1
  OBVIOUS
<1>3. y \in 0 .. 2 * Half - 1
  BY <1>1, <1>2
<1> HIDE DEF y
<1>4. y - Half \in -Half .. Half - 1
  BY <1>1, <1>3
<1> QED BY <1>4 DEF Wrapped, Values, y

LEMMA TruncatedRange ==
    ASSUME NEW x \in Values
    PROVE  Truncated(x, 100) \in Values
<1>1. Half \in Nat \ {0} /\ x \in Int /\ -Half <= x /\ x <= Half - 1
  BY DataflowConstants DEF Values
<1>2. \A a \in Nat : a \div 100 \in Nat /\ a \div 100 <= a
  OBVIOUS
<1>3. CASE x < 0
  <2>1. -x \in Nat /\ -x <= Half
    BY <1>1, <1>3
  <2>2. (-x) \div 100 \in Nat /\ (-x) \div 100 <= Half
    BY <1>1, <1>2, <2>1
  <2> QED BY <1>1, <1>3, <2>2 DEF Truncated, Values
<1>4. CASE ~(x < 0)
  <2>1. x \div 100 \in Nat /\ x \div 100 <= x
    BY <1>1, <1>2, <1>4
  <2> QED BY <1>1, <1>4, <2>1 DEF Truncated, Values
<1> QED BY <1>3, <1>4

LEMMA ApplyRange ==
    ASSUME NEW operation \in Operations, NEW l \in Values, NEW r \in Values
    PROVE  Apply(operation, l, r) \in Values
<1>1. l + r \in Int /\ l * r \in Int /\ operation \in {"sum", "product", "percent"}
  BY DataflowConstants DEF Values
<1>2. Wrapped(l + r) \in Values /\ Wrapped(l * r) \in Values
  BY <1>1, WrappedRange
<1>3. Truncated(Wrapped(l * r), 100) \in Values
  BY <1>2, TruncatedRange
<1> HIDE DEF Wrapped, Truncated
<1> QED BY <1>1, <1>2, <1>3 DEF Apply

VarTypes == var \in [Var -> [bound : BOOLEAN, value : Values]]
MachineTypes == machine \in [Rule -> [state : 0 .. 2, left : Values, right : Values]]

LEMMA ValueTypesStep ==
    ASSUME IInv, VarTypes, MachineTypes, [Next]_vars
    PROVE  VarTypes' /\ MachineTypes'
<1>1. /\ \A r \in Rule : /\ rules[r].operation \in Operations
                         /\ rules[r].left \in Var /\ rules[r].right \in Var
                         /\ rules[r].output \in Var
      /\ Inputs \subseteq Values
  BY DataflowConstants DEF IInv, Typed, Equation, Values
<1>2. /\ \A v \in Var : var[v].value \in Values
      /\ \A r \in Rule : LeftValue(r) \in Values
  BY <1>1 DEF VarTypes, MachineTypes, LeftValue
<1>3. ASSUME NEW v \in Var, NEW x \in Values, var' = Unified(v, x)
      PROVE  VarTypes'
  <2> DEFINE cell == [bound |-> TRUE, value |-> x]
  <2>1. cell \in [bound : BOOLEAN, value : Values]
    OBVIOUS
  <2>2. var' = var \/ var' = [var EXCEPT ![v] = cell]
    BY <1>3 DEF Unified
  <2> HIDE DEF cell
  <2> QED BY <2>1, <2>2 DEF VarTypes
<1>4. ASSUME NEW r \in Rule, ParksLeft(r)
      PROVE  VarTypes' /\ MachineTypes'
  BY <1>4 DEF ParksLeft, VarTypes, MachineTypes
<1>5. ASSUME NEW r \in Rule, ParksRight(r)
      PROVE  VarTypes' /\ MachineTypes'
  <2> DEFINE M == [state : 0 .. 2, left : Values, right : Values]
             m == [machine[r] EXCEPT !.state = 1, !.left = LeftValue(r)]
  <2>1. machine \in [Rule -> M] /\ var' = var
    BY <1>5 DEF ParksRight, MachineTypes
  <2>2. m \in M
    BY <1>2, <2>1, FieldsStored
  <2>3. machine' = [machine EXCEPT ![r] = m]
    BY <1>5, <2>1 DEF ParksRight
  <2> HIDE DEF M, m
  <2>4. machine' \in [Rule -> M]
    BY <2>1, <2>2, <2>3
  <2> QED BY <2>1, <2>4 DEF M, VarTypes, MachineTypes
<1>6. ASSUME NEW r \in Rule, Fires(r)
      PROVE  VarTypes' /\ MachineTypes'
  <2> DEFINE right == var[rules[r].right].value
             x == Apply(rules[r].operation, LeftValue(r), right)
             M == [state : 0 .. 2, left : Values, right : Values]
             m == [state |-> 2, left |-> LeftValue(r), right |-> right]
  <2>1. right \in Values /\ LeftValue(r) \in Values
    BY <1>1, <1>2
  <2>2. x \in Values
    BY <1>1, <2>1, ApplyRange
  <2>3. var' = Unified(rules[r].output, x) /\ machine' = [machine EXCEPT ![r] = m]
    BY <1>6 DEF Fires
  <2>4. m \in M /\ machine \in [Rule -> M]
    BY <2>1 DEF MachineTypes
  <2>5. VarTypes'
    BY <1>1, <1>3, <2>2, <2>3
  <2> HIDE DEF M, m
  <2>6. machine' \in [Rule -> M]
    BY <2>3, <2>4
  <2> QED BY <2>5, <2>6 DEF M, MachineTypes
<1>7. ASSUME NEW v \in Var, NEW x \in Inputs, Bind(v, x)
      PROVE  VarTypes' /\ MachineTypes'
  <2>1. var' = Unified(v, x) /\ machine' = machine /\ x \in Values
    BY <1>1, <1>7 DEF Bind
  <2> QED BY <1>3, <2>1 DEF MachineTypes
<1>8. CASE UNCHANGED <<var, machine>>
  BY <1>8 DEF VarTypes, MachineTypes
<1>9. CASE \/ Gate \/ Resolved \/ BodyEnds \/ Finish \/ \E v \in Var : Resolve(v)
           \/ UNCHANGED vars
  BY <1>8, <1>9 DEF Gate, Resolved, BodyEnds, Finish, Resolve, vars
<1> QED BY <1>4, <1>5, <1>6, <1>7, <1>9 DEF Next, RuleStep

\* The counters stay in their bounds.
Counters == steps \in 0 .. N /\ forms \in 0 .. MaxForms

LEMMA CountersStep ==
    ASSUME IInv, IInv', Counters, [Next]_vars
    PROVE  Counters'
<1>1. forms' \in 0 .. MaxForms
  <2>1. forms' = forms \/ (forms > 0 /\ forms' = forms - 1)
    BY DEF Next, RuleStep, ParksLeft, ParksRight, Fires, Gate, Resolved, BodyEnds, Finish,
           Resolve, Bind, vars
  <2> QED BY <2>1, DataflowConstants DEF Counters
<1>2. phase' = "first" \/ steps' = steps
  BY DEF Next, RuleStep, ParksLeft, ParksRight, Fires, Turn, Gate, Resolved, BodyEnds,
         Finish, Resolve, Bind, vars
<1>3. CASE phase' = "first"
  <2>1. IsFiniteSet(Rule) /\ Cardinality(Rule) = N /\ N \in Nat
    BY FS_Interval, DataflowConstants DEF Rule
  <2>2. steps' = Cardinality({r \in Rule : ~sched'.queued[r]})
    BY <1>3 DEF IInv, FirstRun
  <2>3. {r \in Rule : ~sched'.queued[r]} \in SUBSET Rule
    OBVIOUS
  <2>4. steps' \in Nat /\ steps' <= N
    BY <2>1, <2>2, <2>3, FS_Subset, FS_CardinalityType
  <2> QED BY <1>1, <2>1, <2>4 DEF Counters
<1> QED BY <1>1, <1>2, <1>3 DEF Counters

\* Every part keeps its type, no operation leaves the integers of the machine,
\* and the live count is the number of equations that have not fired.
THEOREM TypeCorrect == Spec => []TypeOK
<1>1. Init => VarTypes /\ MachineTypes /\ Counters
  <2> SUFFICES ASSUME Init PROVE VarTypes /\ MachineTypes /\ Counters
    OBVIOUS
  <2>1. 0 \in Values
    BY DataflowConstants DEF Values
  <2>2. VarTypes
    BY <2>1 DEF Init, NewVar, VarTypes
  <2>3. MachineTypes
    BY <2>1 DEF Init, MachineTypes
  <2>4. Counters
    BY DataflowConstants DEF Init, Counters
  <2> QED BY <2>2, <2>3, <2>4
<1>2. /\ IInv /\ IInv' /\ VarTypes /\ MachineTypes /\ Counters /\ [Next]_vars
      => VarTypes' /\ MachineTypes' /\ Counters'
  BY ValueTypesStep, CountersStep
<1>3. IInv /\ VarTypes /\ MachineTypes /\ Counters => TypeOK
  <2> SUFFICES ASSUME IInv, VarTypes, MachineTypes, Counters PROVE TypeOK
    OBVIOUS
  <2>1. Undone(sched) = {r \in Rule : machine[r].state # 2}
    BY Types DEF Undone, IInv, RulesAreTasks
  <2>2. sched.live = Cardinality({r \in Rule : machine[r].state # 2})
    BY <2>1 DEF IInv, RecordOK, LiveOK
  <2>3. Typed /\ sched \in SchedulerRecord
    BY Types DEF IInv
  <2> QED BY <2>2, <2>3 DEF Typed, TypeOK, VarTypes, MachineTypes, Counters
<1> QED BY <1>1, <1>2, <1>3, Inductive, PTL DEF Spec

\* The check after the first run of the scheduler never aborts a program.
THEOREM TheGatePasses == Spec => []GatePasses
<1>1. IInv => GatePasses
  BY FirstRunParks DEF GatePasses
<1> QED BY <1>1, Inductive, PTL

-----------------------------------------------------------------------------
(* When the scheduler is quiet, what follows from the bindings is bound. *)

LEMMA QuietFed ==
    ASSUME IInv, Quiet, NEW r \in Rule, {rules[r].left, rules[r].right} \subseteq Known
    PROVE  machine[r].state = 2
<1>1. /\ RecordOK(sched, NoTask) /\ sched.ready = <<>> /\ Rule = Task /\ Var = WaitQueue
      /\ r # NoTask /\ r \in sched.spawned
  BY Types DEF IInv, Quiet, RulesAreTasks
<1>2. SUFFICES ASSUME ~sched.done[r] PROVE FALSE
  BY DEF IInv, RulesAreTasks
<1>3. ~sched.queued[r]
  BY <1>1 DEF RecordOK, ReadyOK
<1>4. PICK q \in WaitQueue : \E i \in 1 .. Len(sched.wait[q]) : sched.wait[q][i] = r
  BY <1>1, <1>2, <1>3 DEF RecordOK, NoneLost
<1>5. ~var[q].bound /\ q \in {rules[r].left, rules[r].right}
  BY <1>1, <1>4 DEF IInv, WaitersUnfed
<1> QED BY <1>5 DEF Known

LEMMA QuietClosed ==
    ASSUME IInv, Quiet
    PROVE  Closed(rules, DOMAIN given, Known)
<1>1. DOMAIN given \subseteq Known
  BY DEF IInv, Typed, GivenStays, Known
<1>2. ASSUME NEW r \in Rule, rules[r].left \in Known, rules[r].right \in Known
      PROVE  rules[r].output \in Known
  <2>1. machine[r].state = 2
    BY <1>2, QuietFed
  <2> QED BY <2>1, Types DEF IInv, Captured, Known
<1> QED BY <1>1, <1>2 DEF Closed

-----------------------------------------------------------------------------
(* The rounds of the reference. *)

RoundsTo(f, m) ==
    f = [n \in 0 .. m |-> IF n = 0 THEN given ELSE Round(f[n - 1])]

Rounds == CHOOSE f : RoundsTo(f, N)

LEMMA RoundsDefined ==
    /\ \A n \in 0 .. N : Rounds[n] = IF n = 0 THEN given ELSE Round(Rounds[n - 1])
    /\ Solution = Rounds[N]
<1> DEFINE Fails == {m \in Nat : ~\E f : RoundsTo(f, m)}
<1>1. ASSUME Fails # {} PROVE FALSE
  <2>1. PICK m \in Fails : \A k \in Fails : m <= k
    BY <1>1, LeastNatural
  <2>2. CASE m = 0
    <3>1. RoundsTo([n \in 0 .. 0 |-> given], 0)
      BY DEF RoundsTo
    <3> QED BY <2>2, <3>1
  <2>3. CASE m # 0
    <3>1. m - 1 \in Nat /\ m \in Nat /\ m - 1 \notin Fails
      <4>1. m \in Nat
        OBVIOUS
      <4> HIDE DEF Fails
      <4> QED BY <2>1, <2>3, <4>1
    <3>2. PICK f : RoundsTo(f, m - 1)
      BY <3>1
    <3> DEFINE g == [n \in 0 .. m |-> IF n = m THEN Round(f[m - 1]) ELSE f[n]]
    <3>3. \A n \in 0 .. m - 1 : g[n] = f[n]
      BY <3>1
    <3>4. ASSUME NEW n \in 0 .. m
          PROVE  g[n] = IF n = 0 THEN given ELSE Round(g[n - 1])
      <4>1. CASE n = m
        <5>1. g[m] = Round(f[m - 1]) /\ m - 1 \in 0 .. m - 1
          BY <3>1
        <5> QED BY <2>3, <3>3, <4>1, <5>1
      <4>2. CASE n = 0
        <5>1. f[0] = given
          BY <3>1, <3>2 DEF RoundsTo
        <5> QED BY <2>3, <3>1, <3>3, <4>2, <5>1
      <4>3. CASE n # m /\ n # 0
        <5>1. n \in 0 .. m - 1 /\ n - 1 \in 0 .. m - 1
          BY <3>1, <4>3
        <5>2. f[n] = Round(f[n - 1])
          BY <3>2, <4>3, <5>1 DEF RoundsTo
        <5>3. g[n] = f[n] /\ g[n - 1] = f[n - 1]
          BY <3>3, <5>1
        <5> QED BY <4>3, <5>2, <5>3
      <4> QED BY <4>1, <4>2, <4>3
    <3>5. RoundsTo(g, m)
      BY <3>4 DEF RoundsTo
    <3> HIDE DEF g
    <3> QED BY <2>1, <3>5
  <2> QED BY <2>2, <2>3
<1>2. N \notin Fails /\ N \in Nat
  <2> HIDE DEF Fails
  <2> QED BY <1>1, DataflowConstants
<1>3. RoundsTo(Rounds, N)
  <2>1. \E f : RoundsTo(f, N)
    BY <1>2
  <2> QED BY <2>1 DEF Rounds
<1>4. \A n \in 0 .. N : Rounds[n] = IF n = 0 THEN given ELSE Round(Rounds[n - 1])
  BY <1>3 DEF RoundsTo
<1>5. Solution = Rounds[N]
  BY DEF Solution, Rounds, RoundsTo
<1> QED BY <1>4, <1>5

\* A round keeps what it has, and gives a variable a value when an equation has
\* its inputs.
LEMMA RoundGives ==
    ASSUME NEW env, NEW v \in Var
    PROVE  /\ v \in DOMAIN Round(env) <=> v \in DOMAIN env \/ Enabled(env, v) # {}
           /\ v \in DOMAIN env => Round(env)[v] = env[v]
           /\ v \in DOMAIN Round(env) \ DOMAIN env =>
                 \E r \in Enabled(env, v) :
                    Round(env)[v] = Apply(rules[r].operation, env[rules[r].left],
                                          env[rules[r].right])
<1> DEFINE new == {w \in Var \ DOMAIN env : Enabled(env, w) # {}}
           rule(w) == CHOOSE r \in Enabled(env, w) : TRUE
           made(w) == Apply(rules[rule(w)].operation, env[rules[rule(w)].left],
                            env[rules[rule(w)].right])
<1>1. Round(env) = [w \in DOMAIN env \cup new |-> IF w \in DOMAIN env THEN env[w] ELSE made(w)]
  BY DEF Round
<1>2. v \in new <=> v \notin DOMAIN env /\ Enabled(env, v) # {}
  OBVIOUS
<1>3. v \in new => rule(v) \in Enabled(env, v)
  BY <1>2
<1> HIDE DEF new
<1>4. v \in new => Round(env)[v] = made(v)
  BY <1>1, <1>2
<1>5. v \in DOMAIN env => Round(env)[v] = env[v]
  BY <1>1
<1>6. DOMAIN Round(env) = DOMAIN env \cup new
  BY <1>1
<1> HIDE DEF rule
<1> QED BY <1>2, <1>3, <1>4, <1>5, <1>6

\* The equations that have their inputs and their output.
Satisfied(env) ==
    {r \in Rule : {rules[r].left, rules[r].right, rules[r].output} \subseteq DOMAIN env}

\* After n rounds: everything there follows from what the body bound; with the
\* scheduler quiet and no conflict it is what the variables hold; and nothing
\* more follows, or each round satisfied one more equation.
RoundOK(n, env) ==
    /\ DOMAIN given \subseteq DOMAIN env /\ DOMAIN env \subseteq Var
    /\ \A S \in SUBSET Var : Closed(rules, DOMAIN given, S) => DOMAIN env \subseteq S
    /\ Quiet /\ dropped = {} => \A v \in DOMAIN env : env[v] = var[v].value
    /\ Closed(rules, DOMAIN given, DOMAIN env) \/ Cardinality(Satisfied(env)) >= n

LEMMA RoundAdvances ==
    ASSUME IInv, NEW n \in Nat, NEW env, RoundOK(n, env)
    PROVE  RoundOK(n + 1, Round(env))
<1> DEFINE nxt == Round(env)
<1>1. /\ DOMAIN given \subseteq DOMAIN env /\ DOMAIN env \subseteq Var
      /\ \A r \in Rule : rules[r].left \in Var /\ rules[r].right \in Var
                         /\ rules[r].output \in Var
  BY Types DEF RoundOK
<1>2. DOMAIN nxt \subseteq Var
  BY <1>1 DEF Round
<1>3. DOMAIN env \subseteq DOMAIN nxt
  BY <1>1, RoundGives
<1>4. ASSUME NEW v \in DOMAIN nxt \ DOMAIN env
      PROVE  \E r \in Rule :
                /\ rules[r].output = v
                /\ rules[r].left \in DOMAIN env /\ rules[r].right \in DOMAIN env
                /\ nxt[v] = Apply(rules[r].operation, env[rules[r].left],
                                  env[rules[r].right])
  BY <1>2, RoundGives DEF Enabled
<1>5. ASSUME NEW r \in Rule, rules[r].left \in DOMAIN env, rules[r].right \in DOMAIN env
      PROVE  rules[r].output \in DOMAIN nxt
  <2>1. r \in Enabled(env, rules[r].output)
    BY <1>5 DEF Enabled
  <2> QED BY <1>1, <2>1, RoundGives
<1>6. \A v \in DOMAIN env : nxt[v] = env[v]
  BY <1>1, RoundGives
<1> HIDE DEF nxt
<1>7. ASSUME NEW S \in SUBSET Var, Closed(rules, DOMAIN given, S)
      PROVE  DOMAIN nxt \subseteq S
  <2>1. DOMAIN env \subseteq S
    BY <1>7 DEF RoundOK
  <2> QED BY <1>4, <1>7, <2>1 DEF Closed
<1>8. ASSUME Quiet, dropped = {}, NEW v \in DOMAIN nxt
      PROVE  nxt[v] = var[v].value
  <2>1. \A w \in DOMAIN env : env[w] = var[w].value
    BY <1>8 DEF RoundOK
  <2>2. CASE v \in DOMAIN env
    BY <1>6, <2>1, <2>2
  <2>3. CASE v \notin DOMAIN env
    <3>1. PICK r \in Rule :
                /\ rules[r].output = v
                /\ rules[r].left \in DOMAIN env /\ rules[r].right \in DOMAIN env
                /\ nxt[v] = Apply(rules[r].operation, env[rules[r].left],
                                  env[rules[r].right])
      BY <1>4, <2>3
    <3>2. DOMAIN env \subseteq Known
      <4>1. Known \in SUBSET Var
        BY DEF Known
      <4> QED BY <1>8, <4>1, QuietClosed DEF RoundOK
    <3>3. machine[r].state = 2
      BY <1>8, <3>1, <3>2, QuietFed
    <3>4. var[v].value = Apply(rules[r].operation, var[rules[r].left].value,
                               var[rules[r].right].value)
      BY <1>8, <3>1, <3>3 DEF IInv, Captured
    <3> QED BY <2>1, <3>1, <3>4
  <2> QED BY <2>2, <2>3
<1>9. CASE Closed(rules, DOMAIN given, DOMAIN env)
  <2>1. DOMAIN nxt = DOMAIN env
    BY <1>1, <1>3, <1>7, <1>9
  <2> QED BY <1>1, <1>3, <1>7, <1>8, <1>9, <2>1 DEF RoundOK, nxt
<1>10. CASE ~Closed(rules, DOMAIN given, DOMAIN env)
  <2>1. Cardinality(Satisfied(env)) >= n
    BY <1>10 DEF RoundOK
  <2>2. PICK r \in Rule : /\ rules[r].left \in DOMAIN env /\ rules[r].right \in DOMAIN env
                          /\ rules[r].output \notin DOMAIN env
    BY <1>1, <1>10 DEF Closed
  <2>3. r \notin Satisfied(env) /\ Satisfied(env) \cup {r} \subseteq Satisfied(nxt)
    BY <1>3, <1>5, <2>2 DEF Satisfied
  <2>4. IsFiniteSet(Satisfied(env)) /\ IsFiniteSet(Satisfied(nxt))
    BY Types, FS_Subset DEF Satisfied
  <2>5. Cardinality(Satisfied(env) \cup {r}) = Cardinality(Satisfied(env)) + 1
    BY <2>3, <2>4, FS_AddElement
  <2>6. Cardinality(Satisfied(env) \cup {r}) <= Cardinality(Satisfied(nxt))
    BY <2>3, <2>4, FS_Subset
  <2>7. Cardinality(Satisfied(env)) \in Nat /\ Cardinality(Satisfied(nxt)) \in Nat
    BY <2>4, FS_CardinalityType
  <2>8. Cardinality(Satisfied(nxt)) >= n + 1
    BY <2>1, <2>5, <2>6, <2>7
  <2> QED BY <1>1, <1>2, <1>3, <1>7, <1>8, <2>8 DEF RoundOK, nxt
<1> QED BY <1>9, <1>10

LEMMA RoundsRight ==
    ASSUME IInv
    PROVE  RoundOK(N, Solution)
<1>1. N \in Nat
  BY DataflowConstants
<1> DEFINE Wrong == {m \in Nat : m <= N /\ ~RoundOK(m, Rounds[m])}
<1>2. ASSUME Wrong # {} PROVE FALSE
  <2>1. PICK m \in Wrong : \A k \in Wrong : m <= k
    BY <1>2, LeastNatural
  <2>2. CASE m = 0
    <3>1. Rounds[0] = given
      BY <1>1, RoundsDefined
    <3>2. IsFiniteSet(Satisfied(given))
      BY Types, FS_Subset DEF Satisfied
    <3>3. Cardinality(Satisfied(given)) >= 0
      BY <3>2, FS_CardinalityType
    <3>4. RoundOK(0, given)
      BY <3>3 DEF RoundOK, IInv, Typed, GivenStays, Closed
    <3> QED BY <2>1, <2>2, <3>1, <3>4
  <2>3. CASE m # 0
    <3>1. m \in 0 .. N /\ m - 1 \in Nat /\ m - 1 <= N /\ (m - 1) + 1 = m
      BY <1>1, <2>1, <2>3
    <3>2. RoundOK(m - 1, Rounds[m - 1])
      BY <2>1, <3>1
    <3>3. Rounds[m] = Round(Rounds[m - 1])
      BY <2>3, <3>1, RoundsDefined
    <3>4. RoundOK((m - 1) + 1, Round(Rounds[m - 1]))
      BY <3>1, <3>2, RoundAdvances
    <3> QED BY <2>1, <3>1, <3>3, <3>4
  <2> QED BY <2>2, <2>3
<1> HIDE DEF Wrong
<1>3. N \notin Wrong
  BY <1>2
<1>4. RoundOK(N, Rounds[N])
  BY <1>1, <1>3 DEF Wrong
<1> QED BY <1>4, RoundsDefined

\* After N rounds nothing more follows: every equation is satisfied by then.
LEMMA SolutionClosed ==
    ASSUME IInv
    PROVE  Closed(rules, DOMAIN given, DOMAIN Solution)
<1>1. RoundOK(N, Solution)
  BY RoundsRight
<1>2. CASE Cardinality(Satisfied(Solution)) >= N
  <2>1. IsFiniteSet(Rule) /\ Cardinality(Rule) = N /\ N \in Nat
    BY FS_Interval, DataflowConstants DEF Rule
  <2>2. Satisfied(Solution) \subseteq Rule
    BY DEF Satisfied
  <2>3. Cardinality(Satisfied(Solution)) <= N /\ Cardinality(Satisfied(Solution)) \in Nat
    BY <2>1, <2>2, FS_Subset, FS_CardinalityType
  <2>4. Satisfied(Solution) = Rule
    BY <1>2, <2>1, <2>2, <2>3, FS_Subset
  <2> QED BY <1>1, <2>4 DEF RoundOK, Closed, Satisfied
<1> QED BY <1>1, <1>2 DEF RoundOK

\* With the scheduler quiet, what is bound is what the reference computes.
LEMMA QuietSolved ==
    ASSUME IInv, Quiet
    PROVE  /\ Known = DOMAIN Solution
           /\ dropped = {} => \A v \in Known : var[v].value = Solution[v]
<1>1. RoundOK(N, Solution) /\ Known \in SUBSET Var
  BY RoundsRight DEF Known
<1>2. DOMAIN Solution \subseteq Known
  BY <1>1, QuietClosed DEF RoundOK
<1>3. Known \subseteq DOMAIN Solution
  BY <1>1, SolutionClosed DEF RoundOK, IInv, KnownFollows
<1> QED BY <1>1, <1>2, <1>3 DEF RoundOK

\* When the scheduler is quiet and no equation conflicted, the variables hold
\* the least solution, whatever the order of bindings, reads and turns was.
THEOREM LeastSolutionReached == Spec => []LeastSolution
<1>1. IInv => LeastSolution
  BY QuietSolved DEF LeastSolution
<1> QED BY <1>1, Inductive, PTL

\* A program aborts at a dependency that the bindings cannot resolve and only
\* there, and one that ends normally left none.
THEOREM AbortsAreExact == Spec => []AbortsExactly
<1>1. ASSUME IInv, phase = "aborted"
      PROVE  \/ wanted # NoVar /\ wanted \notin DOMAIN Solution
             \/ wanted = NoVar /\ \E r \in Rule :
                   ~({rules[r].left, rules[r].right} \subseteq DOMAIN Solution)
  <2>1. Quiet /\ Known = DOMAIN Solution
    BY <1>1, QuietSolved DEF IInv, PhaseOK
  <2>2. CASE wanted # NoVar
    BY <1>1, <2>1, <2>2 DEF IInv, PhaseOK, Known
  <2>3. CASE wanted = NoVar
    <3>1. sched.live # 0 /\ sched.live = Cardinality(Undone(sched))
      BY <1>1, <2>3 DEF IInv, PhaseOK, RecordOK, LiveOK
    <3>2. PICK r : r \in Undone(sched)
      BY <3>1, FS_EmptySet
    <3>3. r \in Rule /\ machine[r].state # 2
      BY <1>1, <3>2, Types DEF Undone, IInv, RulesAreTasks
    <3>4. ~({rules[r].left, rules[r].right} \subseteq Known)
      BY <1>1, <2>1, <3>3, QuietFed
    <3> QED BY <2>1, <2>3, <3>3, <3>4
  <2> QED BY <2>2, <2>3
<1>2. ASSUME IInv, phase = "done", NEW r \in Rule
      PROVE  {rules[r].left, rules[r].right} \subseteq DOMAIN Solution
  <2>1. Quiet /\ Known = DOMAIN Solution /\ sched.live = 0
    BY <1>2, QuietSolved DEF IInv, PhaseOK
  <2>2. sched.done[r]
    <3>1. IsFiniteSet(Undone(sched)) /\ Cardinality(Undone(sched)) = 0
      BY <1>2, <2>1, TasksFinite, FS_Subset DEF Undone, IInv, RecordOK, LiveOK, RulesAreTasks
    <3>2. Undone(sched) = {}
      BY <3>1, FS_EmptySet
    <3> QED BY <1>2, <3>2, Types DEF Undone, IInv, RulesAreTasks
  <2>3. machine[r].state = 2
    BY <1>2, <2>2 DEF IInv, RulesAreTasks
  <2> QED BY <1>2, <2>1, <2>3, Types DEF IInv, Captured, Known
<1>3. IInv => AbortsExactly
  BY <1>1, <1>2 DEF AbortsExactly
<1> QED BY <1>3, Inductive, PTL
=============================================================================
