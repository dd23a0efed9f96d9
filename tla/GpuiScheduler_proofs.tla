------------------------ MODULE GpuiScheduler_proofs ------------------------
(***************************************************************************)
(* Proofs about the parts of the coil_gpui scheduler that have a module of *)
(* their own, for any work, futures, scopes, blocks, slots and handles.    *)
(* PriorityLanes: the lanes are FIFO, their counters are exact, and the    *)
(* service cycle starves nobody.  Futures: each core is on its own, so the *)
(* inductive invariant relates one core to its handle, job, value and      *)
(* completion; it is a predicate of those values, Coherent, so that a step *)
(* is proved on plain records.  TaskScopes: an open scope tracks all its   *)
(* jobs, and cancellations reach what they are meant for and nothing else. *)
(***************************************************************************)
EXTENDS PriorityLanes, Futures, TaskScopes,
        FiniteSetTheorems, SequenceTheorems, TLAPS

-----------------------------------------------------------------------------
(* PART 1. PriorityLanes. *)

\* Append keeps the indices and adds one at the end.
LEMMA AppendIndices ==
    ASSUME NEW S, NEW f \in Seq(S), NEW e \in S
    PROVE  /\ Append(f, e) \in Seq(S)
           /\ Len(f) \in Nat
           /\ Len(Append(f, e)) = Len(f) + 1
           /\ \A i \in 1 .. Len(f) : Append(f, e)[i] = f[i]
           /\ Append(f, e)[Len(f) + 1] = e
  OBVIOUS

\* Tail shifts the indices by one and drops the head.
LEMMA TailIndices ==
    ASSUME NEW S, NEW f \in Seq(S), f # <<>>
    PROVE  /\ Tail(f) \in Seq(S)
           /\ Len(f) \in Nat /\ Len(f) >= 1
           /\ Len(Tail(f)) = Len(f) - 1
           /\ \A i \in 1 .. Len(f) - 1 : Tail(f)[i] = f[i + 1]
           /\ Head(f) = f[1]
           /\ Head(f) \in S
  OBVIOUS

-----------------------------------------------------------------------------
(* The inductive invariant. *)

\* No block is linked twice.
LinkedOnce ==
    \A q, r \in Priorities :
      \A i \in 1 .. Len(pool.lane[q]), j \in 1 .. Len(pool.lane[r]) :
        pool.lane[q][i] = pool.lane[r][j] => q = r /\ i = j

\* How long each lane can have waited when the cycle stands at a ticket: a
\* lane that waits has lost every selection whose ticket asked for another
\* lane and won every one that asked for it, so the ticket alone bounds it.
WaitBound ==
    /\ waited["low"] <= IF pool.ticket <= HighSlots + MediumSlots
                        THEN pool.ticket ELSE 0
    /\ waited["medium"] <= IF pool.ticket <= HighSlots
                           THEN pool.ticket + LowSlots
                           ELSE IF pool.ticket > HighSlots + MediumSlots
                                THEN pool.ticket - HighSlots - MediumSlots
                                ELSE 0
    /\ waited["high"] <= IF pool.ticket = 0 THEN MediumSlots + LowSlots
                         ELSE IF pool.ticket > HighSlots
                              THEN pool.ticket - HighSlots ELSE 0

LanesIInv ==
    /\ LanesTypeOK
    /\ LinkedOnce
    /\ CountersExact
    /\ FifoLanes
    /\ WaitBound

-----------------------------------------------------------------------------
(* The selection. *)

\* What a selection serves is a nonempty lane, and it serves one whenever
\* there is one.
LEMMA ServedLane ==
    ASSUME NEW p \in LaneRecord
    PROVE  /\ Served(p) \in Priorities \cup {"none"}
           /\ Served(p) # "none" => p.lane[Served(p)] # <<>>
           /\ Served(p) = "none" <=> NoneQueued(p)
           /\ p.lane[Desired(p.ticket)] # <<>> => Served(p) = Desired(p.ticket)
           /\ Desired(p.ticket) \in Priorities
  BY DEF Served, Desired, Priorities, NoneQueued, LaneRecord

\* The ticket after a selection.
LEMMA WrapTicket ==
    ASSUME NEW t \in 0 .. Cycle - 1
    PROVE  /\ (t + 1) % Cycle \in 0 .. Cycle - 1
           /\ t + 1 < Cycle => (t + 1) % Cycle = t + 1
           /\ t + 1 = Cycle => (t + 1) % Cycle = 0
  <1>1. Cycle \in Nat /\ Cycle > 0 /\ t \in Nat /\ t + 1 <= Cycle
    BY CycleAssumption DEF Cycle
  <1>2. /\ t + 1 < Cycle => (t + 1) % Cycle = t + 1
        /\ t + 1 = Cycle => (t + 1) % Cycle = 0
    BY <1>1
  <1> QED
    BY <1>1, <1>2

\* The fields of the record after a selection that finds work.
LEMMA PopFields ==
    ASSUME NEW p \in LaneRecord, NEW q \in Priorities, p.lane[q] # <<>>,
           NEW n, n = Advance(PopLane(p, q))
    PROVE  /\ n \in LaneRecord
           /\ n.lane[q] = Tail(p.lane[q])
           /\ n.queued[q] = p.queued[q] - 1
           /\ \A r \in Priorities \ {q} : n.lane[r] = p.lane[r]
                                        /\ n.queued[r] = p.queued[r]
           /\ n.highWater = p.highWater
           /\ n.ticket = (p.ticket + 1) % Cycle
  <1>1. Tail(p.lane[q]) \in Seq(Work)
    BY TailIndices DEF LaneRecord
  <1>2. (p.ticket + 1) % Cycle \in 0 .. Cycle - 1
    BY WrapTicket DEF LaneRecord
  <1>3. p.queued[q] - 1 \in Int
    BY DEF LaneRecord
  <1>4. PopLane(p, q) = [p EXCEPT !.lane = [p.lane EXCEPT ![q] = Tail(p.lane[q])],
                                  !.queued = [p.queued EXCEPT ![q] = p.queued[q] - 1]]
    BY DEF PopLane, LaneRecord
  <1>5. /\ [p.lane EXCEPT ![q] = Tail(p.lane[q])] \in [Priorities -> Seq(Work)]
        /\ [p.queued EXCEPT ![q] = p.queued[q] - 1] \in [Priorities -> Int]
    BY <1>1, <1>3 DEF LaneRecord
  <1>6. PopLane(p, q) \in LaneRecord
    BY <1>4, <1>5 DEF LaneRecord
  <1>7. Advance(PopLane(p, q)) \in LaneRecord
    BY <1>2, <1>4, <1>6 DEF Advance, LaneRecord
  <1>8. /\ n.lane = PopLane(p, q).lane
        /\ n.queued = PopLane(p, q).queued
        /\ n.highWater = PopLane(p, q).highWater
        /\ n.ticket = (PopLane(p, q).ticket + 1) % Cycle
    BY <1>6 DEF Advance, LaneRecord
  <1>9. /\ p.lane \in [Priorities -> Seq(Work)]
        /\ p.queued \in [Priorities -> Int]
    BY DEF LaneRecord
  <1>10. /\ PopLane(p, q).lane = [p.lane EXCEPT ![q] = Tail(p.lane[q])]
         /\ PopLane(p, q).queued = [p.queued EXCEPT ![q] = p.queued[q] - 1]
         /\ PopLane(p, q).highWater = p.highWater
         /\ PopLane(p, q).ticket = p.ticket
    BY <1>4 DEF LaneRecord
  <1>11. /\ n.lane[q] = Tail(p.lane[q])
         /\ n.queued[q] = p.queued[q] - 1
    BY <1>8, <1>9, <1>10
  <1>12. ASSUME NEW r \in Priorities \ {q}
         PROVE  n.lane[r] = p.lane[r] /\ n.queued[r] = p.queued[r]
    BY <1>8, <1>9, <1>10
  <1> QED
    BY <1>7, <1>8, <1>10, <1>11, <1>12

\* An empty-handed selection only moves the ticket.
LEMMA MissFields ==
    ASSUME NEW p \in LaneRecord
    PROVE  /\ Advance(p) \in LaneRecord
           /\ Advance(p).lane = p.lane
           /\ Advance(p).queued = p.queued
           /\ Advance(p).highWater = p.highWater
           /\ Advance(p).ticket = (p.ticket + 1) % Cycle
  <1>1. (p.ticket + 1) % Cycle \in 0 .. Cycle - 1
    BY WrapTicket DEF LaneRecord
  <1> QED
    BY <1>1 DEF Advance, LaneRecord

\* The fields of the record after an enqueue.
LEMMA EnqueueFields ==
    ASSUME NEW p \in LaneRecord, NEW q \in Priorities, NEW w \in Work,
           NEW n, n = LaneEnqueue(p, q, w)
    PROVE  /\ n \in LaneRecord
           /\ n.lane[q] = Append(p.lane[q], w)
           /\ n.queued[q] = p.queued[q] + 1
           /\ \A r \in Priorities \ {q} : n.lane[r] = p.lane[r]
                                        /\ n.queued[r] = p.queued[r]
           /\ n.highWater >= Depth(n)
           /\ n.ticket = p.ticket
  <1> DEFINE l == Link(p, q, w)
  <1>1. /\ Append(p.lane[q], w) \in Seq(Work)
        /\ p.queued[q] + 1 \in Int
    BY DEF LaneRecord
  <1>2. l = [p EXCEPT !.lane = [p.lane EXCEPT ![q] = Append(p.lane[q], w)],
                      !.queued = [p.queued EXCEPT ![q] = p.queued[q] + 1]]
    BY DEF Link, LaneRecord
  <1>3. /\ [p.lane EXCEPT ![q] = Append(p.lane[q], w)] \in [Priorities -> Seq(Work)]
        /\ [p.queued EXCEPT ![q] = p.queued[q] + 1] \in [Priorities -> Int]
    BY <1>1 DEF LaneRecord
  <1>4. /\ l \in LaneRecord
        /\ l.lane = [p.lane EXCEPT ![q] = Append(p.lane[q], w)]
        /\ l.queued = [p.queued EXCEPT ![q] = p.queued[q] + 1]
        /\ l.highWater = p.highWater
        /\ l.ticket = p.ticket
    BY <1>2, <1>3 DEF LaneRecord
  <1> HIDE DEF l
  <1>5. Depth(l) \in Int /\ l.highWater \in Int
    <2>1. l.queued \in [Priorities -> Int] /\ l.highWater \in Int
      BY <1>4 DEF LaneRecord
    <2>2. l.queued["high"] \in Int /\ l.queued["medium"] \in Int
          /\ l.queued["low"] \in Int
      BY <2>1 DEF Priorities
    <2> QED
      BY <2>1, <2>2 DEF Depth
  <1>6. PICK h \in Int : /\ NoteHighWater(l) = [l EXCEPT !.highWater = h]
                         /\ h >= Depth(l)
    BY <1>4, <1>5 DEF NoteHighWater
  <1>7. /\ NoteHighWater(l) \in LaneRecord
        /\ NoteHighWater(l).lane = l.lane
        /\ NoteHighWater(l).queued = l.queued
        /\ NoteHighWater(l).highWater = h
        /\ NoteHighWater(l).ticket = l.ticket
    BY <1>4, <1>6 DEF LaneRecord
  <1>8. n = NoteHighWater(l)
    BY DEF LaneEnqueue, l
  <1>9. /\ p.lane \in [Priorities -> Seq(Work)]
        /\ p.queued \in [Priorities -> Int]
    BY DEF LaneRecord
  <1>10. /\ n.lane[q] = Append(p.lane[q], w)
         /\ n.queued[q] = p.queued[q] + 1
    BY <1>4, <1>7, <1>8, <1>9
  <1>11. ASSUME NEW r \in Priorities \ {q}
         PROVE  n.lane[r] = p.lane[r] /\ n.queued[r] = p.queued[r]
    BY <1>4, <1>7, <1>8, <1>9
  <1>12. n.highWater >= Depth(n)
    BY <1>6, <1>7, <1>8 DEF Depth
  <1> QED
    BY <1>4, <1>7, <1>8, <1>10, <1>11, <1>12

-----------------------------------------------------------------------------
(* Steps. *)

LEMMA LanesInitIInv == LanesInit => LanesIInv
  BY CycleAssumption
  DEF LanesInit, LanesIInv, LanesTypeOK, LinkedOnce, CountersExact, FifoLanes, WaitBound,
      EmptyLanes, LaneRecord, Priorities, Depth, Cycle

\* A new block becomes the last of its lane.
LEMMA EnqueueIInv ==
    ASSUME LanesIInv, NEW q \in Priorities, NEW w \in Work, Enqueue(q, w)
    PROVE  LanesIInv'
  <1> DEFINE f == pool.lane[q]
  <1>1. /\ pool \in LaneRecord
        /\ ahead \in [Work -> SUBSET Work]
        /\ waited \in [Priorities -> Nat]
        /\ pool' = LaneEnqueue(pool, q, w)
        /\ ahead' = [ahead EXCEPT ![w] = Before(pool, q, Len(f) + 1)]
        /\ waited' = waited
    BY DEF LanesIInv, LanesTypeOK, Enqueue
  <1>2. /\ pool' \in LaneRecord
        /\ pool'.lane[q] = Append(f, w)
        /\ pool'.queued[q] = pool.queued[q] + 1
        /\ \A r \in Priorities \ {q} : pool'.lane[r] = pool.lane[r]
                                     /\ pool'.queued[r] = pool.queued[r]
        /\ pool'.highWater >= Depth(pool')
        /\ pool'.ticket = pool.ticket
    BY <1>1, EnqueueFields
  <1>3. pool.lane \in [Priorities -> Seq(Work)] /\ f \in Seq(Work)
        /\ pool.queued \in [Priorities -> Int]
    BY <1>1 DEF LaneRecord
  <1>4. /\ Len(f) \in Nat
        /\ Len(Append(f, w)) = Len(f) + 1
        /\ \A i \in 1 .. Len(f) : Append(f, w)[i] = f[i]
        /\ Append(f, w)[Len(f) + 1] = w
    BY <1>3, AppendIndices
  <1>a. \A k \in 1 .. Len(Append(f, w)) :
           \/ k \in 1 .. Len(f) /\ Append(f, w)[k] = f[k]
           \/ k = Len(f) + 1 /\ Append(f, w)[k] = w
    BY <1>4
  <1>5. \A r \in Priorities : /\ r = q => pool'.lane[r] = Append(f, w)
                              /\ r # q => pool'.lane[r] = pool.lane[r]
    BY <1>2, <1>3
  <1>6. \A r \in Priorities : \A i \in 1 .. Len(pool.lane[r]) :
            pool.lane[r][i] # w /\ pool.lane[r][i] \in Work
    BY <1>3 DEF Enqueue, Queued
  <1>7. LanesTypeOK'
    <2>1. Before(pool, q, Len(f) + 1) \in SUBSET Work
      BY <1>4, <1>6 DEF Before
    <2> QED
      BY <1>1, <1>2, <2>1 DEF LanesTypeOK
  <1>8. LinkedOnce'
    <2> SUFFICES ASSUME NEW r \in Priorities, NEW s \in Priorities,
                        NEW i \in 1 .. Len(pool'.lane[r]),
                        NEW j \in 1 .. Len(pool'.lane[s]),
                        pool'.lane[r][i] = pool'.lane[s][j]
                 PROVE  r = s /\ i = j
      BY DEF LinkedOnce
    <2>0. \A t \in Priorities : \A k \in 1 .. Len(pool'.lane[t]) :
             \/ k \in 1 .. Len(pool.lane[t]) /\ pool'.lane[t][k] = pool.lane[t][k]
             \/ t = q /\ k = Len(f) + 1 /\ pool'.lane[t][k] = w
      <3> SUFFICES ASSUME NEW t \in Priorities, NEW k \in 1 .. Len(pool'.lane[t])
                   PROVE  \/ k \in 1 .. Len(pool.lane[t])
                             /\ pool'.lane[t][k] = pool.lane[t][k]
                          \/ t = q /\ k = Len(f) + 1 /\ pool'.lane[t][k] = w
        OBVIOUS
      <3>1. CASE t = q
        BY <1>5, <1>a, <3>1
      <3>2. CASE t # q
        BY <1>5, <3>2
      <3> QED
        BY <3>1, <3>2
    <2>1. \/ i \in 1 .. Len(pool.lane[r]) /\ pool'.lane[r][i] = pool.lane[r][i]
          \/ r = q /\ i = Len(f) + 1 /\ pool'.lane[r][i] = w
      BY <2>0
    <2>2. \/ j \in 1 .. Len(pool.lane[s]) /\ pool'.lane[s][j] = pool.lane[s][j]
          \/ s = q /\ j = Len(f) + 1 /\ pool'.lane[s][j] = w
      BY <2>0
    <2> QED
      BY <1>6, <2>1, <2>2 DEF LanesIInv, LinkedOnce
  <1>9. CountersExact'
    <2>1. \A r \in Priorities : pool'.queued[r] = Len(pool'.lane[r])
      BY <1>2, <1>3, <1>4, <1>5 DEF LanesIInv, CountersExact
    <2> QED
      BY <1>2, <2>1 DEF CountersExact
  <1>10. FifoLanes'
    <2> SUFFICES ASSUME NEW r \in Priorities, NEW i \in 1 .. Len(pool'.lane[r])
                 PROVE  ahead'[pool'.lane[r][i]] = Before(pool', r, i)
      BY DEF FifoLanes
    <2>1. CASE i \in 1 .. Len(pool.lane[r]) /\ (r = q => i # Len(f) + 1)
      <3>1. pool'.lane[r][i] = pool.lane[r][i]
        BY <1>4, <1>5, <2>1
      <3>2. \A j \in 1 .. i - 1 : pool'.lane[r][j] = pool.lane[r][j]
        BY <1>4, <1>5, <2>1
      <3>3. ahead'[pool.lane[r][i]] = ahead[pool.lane[r][i]]
        BY <1>1, <1>6, <2>1
      <3>4. ahead[pool.lane[r][i]] = Before(pool, r, i)
        BY <2>1 DEF LanesIInv, FifoLanes
      <3>5. Before(pool', r, i) = Before(pool, r, i)
        BY <3>2 DEF Before
      <3> QED
        BY <3>1, <3>3, <3>4, <3>5
    <2>2. CASE r = q /\ i = Len(f) + 1
      <3>1. pool'.lane[r][i] = w
        BY <1>4, <1>5, <2>2
      <3>2. ahead'[w] = Before(pool, r, i)
        BY <1>1, <2>2
      <3>3. \A j \in 1 .. i - 1 : pool'.lane[r][j] = pool.lane[r][j]
        BY <1>4, <1>5, <2>2
      <3>4. Before(pool', r, i) = Before(pool, r, i)
        BY <3>3 DEF Before
      <3> QED
        BY <3>1, <3>2, <3>4
    <2>3. i \in 1 .. Len(pool.lane[r]) \/ (r = q /\ i = Len(f) + 1)
      <3>1. CASE r = q
        BY <1>5, <1>a, <3>1
      <3>2. CASE r # q
        BY <1>5, <3>2
      <3> QED
        BY <3>1, <3>2
    <2> QED
      BY <1>4, <2>1, <2>2, <2>3
  <1>11. WaitBound'
    BY <1>1, <1>2 DEF LanesIInv, WaitBound
  <1> QED
    BY <1>7, <1>8, <1>9, <1>10, <1>11 DEF LanesIInv

\* The ticket bounds the waiting times after a selection too.
LEMMA SelectWaitBound ==
    ASSUME LanesIInv, Select, pool'.ticket = (pool.ticket + 1) % Cycle
    PROVE  WaitBound'
  <1> DEFINE t == pool.ticket
             u == pool'.ticket
  <1>1. /\ pool \in LaneRecord /\ t \in 0 .. Cycle - 1
        /\ waited \in [Priorities -> Nat]
        /\ waited' = [q \in Priorities |->
                         IF pool.lane[q] = <<>> \/ q = Served(pool) THEN 0
                         ELSE waited[q] + 1]
    BY DEF LanesIInv, LanesTypeOK, Select, LaneRecord
  <1>2. \A q \in Priorities : /\ waited'[q] = 0 \/ waited'[q] = waited[q] + 1
                              /\ waited[q] \in Nat
                              /\ Desired(t) = q => waited'[q] = 0
    BY <1>1, ServedLane
  <1>3. /\ t < HighSlots => Desired(t) = "high"
        /\ t >= HighSlots /\ t < HighSlots + MediumSlots => Desired(t) = "medium"
        /\ t >= HighSlots + MediumSlots => Desired(t) = "low"
    BY <1>1, CycleAssumption DEF Desired, Cycle
  <1>4. /\ t + 1 < Cycle => u = t + 1
        /\ t + 1 = Cycle => u = 0
    BY <1>1, WrapTicket
  <1>5. "high" \in Priorities /\ "medium" \in Priorities /\ "low" \in Priorities
    BY DEF Priorities
  <1>6. /\ waited'["high"] = 0 \/ waited'["high"] = waited["high"] + 1
        /\ waited'["medium"] = 0 \/ waited'["medium"] = waited["medium"] + 1
        /\ waited'["low"] = 0 \/ waited'["low"] = waited["low"] + 1
        /\ waited["high"] \in Nat /\ waited["medium"] \in Nat
        /\ waited["low"] \in Nat
        /\ t < HighSlots => waited'["high"] = 0
        /\ t >= HighSlots /\ t < HighSlots + MediumSlots => waited'["medium"] = 0
        /\ t >= HighSlots + MediumSlots => waited'["low"] = 0
    BY <1>2, <1>3, <1>5
  <1>7. /\ t \in Nat /\ t + 1 <= HighSlots + MediumSlots + LowSlots
        /\ Cycle = HighSlots + MediumSlots + LowSlots
        /\ HighSlots \in Nat \ {0} /\ MediumSlots \in Nat \ {0} /\ LowSlots \in Nat \ {0}
    BY <1>1, CycleAssumption DEF Cycle
  <1>8. WaitBound
    BY DEF LanesIInv
  <1> HIDE DEF u
  <1>9. waited'["low"] <= IF u <= HighSlots + MediumSlots THEN u ELSE 0
    BY <1>4, <1>6, <1>7, <1>8 DEF WaitBound
  <1>10. waited'["medium"] <= IF u <= HighSlots THEN u + LowSlots
                             ELSE IF u > HighSlots + MediumSlots
                                  THEN u - HighSlots - MediumSlots
                                  ELSE 0
    BY <1>4, <1>6, <1>7, <1>8 DEF WaitBound
  <1>11. waited'["high"] <= IF u = 0 THEN MediumSlots + LowSlots
                           ELSE IF u > HighSlots THEN u - HighSlots ELSE 0
    BY <1>4, <1>6, <1>7, <1>8 DEF WaitBound
  <1> QED
    BY <1>9, <1>10, <1>11 DEF WaitBound, u

\* What a selection unlinks is the head of its lane: the rest keeps its order.
LEMMA SelectIInv ==
    ASSUME LanesIInv, Select
    PROVE  LanesIInv'
  <1>1. /\ pool \in LaneRecord
        /\ ahead \in [Work -> SUBSET Work]
        /\ waited \in [Priorities -> Nat]
        /\ pool' = AfterPop(pool)
        /\ waited' = [q \in Priorities |->
                         IF pool.lane[q] = <<>> \/ q = Served(pool) THEN 0
                         ELSE waited[q] + 1]
        /\ pool.lane \in [Priorities -> Seq(Work)]
        /\ pool.queued \in [Priorities -> Int]
    BY DEF LanesIInv, LanesTypeOK, Select, LaneRecord
  <1>2. waited' \in [Priorities -> Nat]
    BY <1>1
  <1>3. CASE Served(pool) = "none"
    <2>1. pool' = Advance(pool) /\ ahead' = ahead
      BY <1>3 DEF Select, AfterPop
    <2>2. /\ pool' \in LaneRecord /\ pool'.lane = pool.lane
          /\ pool'.queued = pool.queued /\ pool'.highWater = pool.highWater
          /\ pool'.ticket = (pool.ticket + 1) % Cycle
      BY <1>1, <2>1, MissFields
    <2>3. WaitBound'
      BY <2>2, SelectWaitBound
    <2>4. LanesTypeOK'
      BY <1>1, <1>2, <2>1, <2>2 DEF LanesTypeOK
    <2>5. LinkedOnce'
      BY <2>2 DEF LanesIInv, LinkedOnce
    <2>6. CountersExact'
      <3>1. Depth(pool') = Depth(pool)
        BY <2>2 DEF Depth
      <3> QED
        BY <2>2, <3>1 DEF LanesIInv, CountersExact
    <2>7. FifoLanes'
      <3>1. \A q \in Priorities : \A i \in 1 .. Len(pool.lane[q]) :
               Before(pool', q, i) = Before(pool, q, i)
        BY <2>2 DEF Before
      <3> QED
        BY <2>1, <2>2, <3>1 DEF LanesIInv, FifoLanes
    <2> QED
      BY <2>3, <2>4, <2>5, <2>6, <2>7 DEF LanesIInv
  <1>4. CASE Served(pool) # "none"
    <2>0. PICK q \in Priorities : q = Served(pool) /\ pool.lane[q] # <<>>
      BY <1>1, <1>4, ServedLane
    <2> DEFINE f == pool.lane[q]
    <2>1. q \in Priorities /\ f # <<>> /\ f \in Seq(Work)
      BY <1>1, <2>0
    <2>2. /\ pool' = Advance(PopLane(pool, q))
          /\ ahead' = [w \in Work |-> ahead[w] \ {Head(f)}]
      BY <1>4, <2>0 DEF Select, AfterPop, Popped
    <2>3. /\ pool' \in LaneRecord
          /\ pool'.lane[q] = Tail(f)
          /\ pool'.queued[q] = pool.queued[q] - 1
          /\ \A r \in Priorities \ {q} : pool'.lane[r] = pool.lane[r]
                                       /\ pool'.queued[r] = pool.queued[r]
          /\ pool'.highWater = pool.highWater
          /\ pool'.ticket = (pool.ticket + 1) % Cycle
      BY <1>1, <2>1, <2>2, PopFields
    <2>4. /\ Len(f) \in Nat /\ Len(f) >= 1
          /\ Len(Tail(f)) = Len(f) - 1
          /\ \A i \in 1 .. Len(f) - 1 : Tail(f)[i] = f[i + 1]
          /\ Head(f) = f[1]
      BY <2>1, TailIndices
    <2>5. \A r \in Priorities : /\ r = q => pool'.lane[r] = Tail(f)
                                /\ r # q => pool'.lane[r] = pool.lane[r]
      BY <1>1, <2>3
    <2>a. \A k \in 1 .. Len(Tail(f)) :
             k \in Nat /\ k >= 1 /\ k + 1 \in 1 .. Len(f) /\ Tail(f)[k] = f[k + 1]
      BY <2>4
    <2>6. WaitBound'
      BY <2>3, SelectWaitBound
    <2>7. LanesTypeOK'
      <3>1. ahead' \in [Work -> SUBSET Work]
        BY <1>1, <2>2
      <3> QED
        BY <1>2, <2>3, <3>1 DEF LanesTypeOK
    <2>8. LinkedOnce'
      <3> SUFFICES ASSUME NEW r \in Priorities, NEW s \in Priorities,
                          NEW i \in 1 .. Len(pool'.lane[r]),
                          NEW j \in 1 .. Len(pool'.lane[s]),
                          pool'.lane[r][i] = pool'.lane[s][j]
                   PROVE  r = s /\ i = j
        BY DEF LinkedOnce
      <3>0. \A t \in Priorities : \A k \in 1 .. Len(pool'.lane[t]) :
               /\ t = q => k + 1 \in 1 .. Len(pool.lane[t])
                           /\ pool'.lane[t][k] = pool.lane[t][k + 1]
               /\ t # q => k \in 1 .. Len(pool.lane[t])
                           /\ pool'.lane[t][k] = pool.lane[t][k]
        BY <2>5, <2>a
      <3>1. /\ r = q => i + 1 \in 1 .. Len(pool.lane[r])
                        /\ pool'.lane[r][i] = pool.lane[r][i + 1]
            /\ r # q => i \in 1 .. Len(pool.lane[r])
                        /\ pool'.lane[r][i] = pool.lane[r][i]
        BY <3>0
      <3>2. /\ s = q => j + 1 \in 1 .. Len(pool.lane[s])
                        /\ pool'.lane[s][j] = pool.lane[s][j + 1]
            /\ s # q => j \in 1 .. Len(pool.lane[s])
                        /\ pool'.lane[s][j] = pool.lane[s][j]
        BY <3>0
      <3>3. i \in Int /\ j \in Int
        OBVIOUS
      <3> QED
        BY <3>1, <3>2, <3>3 DEF LanesIInv, LinkedOnce
    <2>9. CountersExact'
      <3>1. \A r \in Priorities : /\ pool'.queued[r] = Len(pool'.lane[r])
                                  /\ pool'.queued[r] <= pool.queued[r]
                                  /\ pool'.queued[r] \in Int
                                  /\ pool.queued[r] \in Int
        <4> SUFFICES ASSUME NEW r \in Priorities
                     PROVE  /\ pool'.queued[r] = Len(pool'.lane[r])
                            /\ pool'.queued[r] <= pool.queued[r]
                            /\ pool'.queued[r] \in Int
                            /\ pool.queued[r] \in Int
          OBVIOUS
        <4>1. pool.queued[r] = Len(pool.lane[r]) /\ pool.queued[r] \in Int
          BY <1>1 DEF LanesIInv, CountersExact
        <4>2. CASE r = q
          <5>1. /\ pool'.queued[r] = pool.queued[r] - 1
                /\ pool'.lane[r] = Tail(f)
                /\ Len(pool.lane[r]) = Len(f)
            BY <2>3, <4>2
          <5> QED
            BY <2>4, <4>1, <5>1
        <4>3. CASE r # q
          BY <2>3, <4>1, <4>3
        <4> QED
          BY <4>2, <4>3
      <3>2. /\ pool'.queued["high"] <= pool.queued["high"]
            /\ pool'.queued["medium"] <= pool.queued["medium"]
            /\ pool'.queued["low"] <= pool.queued["low"]
            /\ pool.queued["high"] \in Int /\ pool.queued["medium"] \in Int
            /\ pool.queued["low"] \in Int /\ pool'.queued["high"] \in Int
            /\ pool'.queued["medium"] \in Int /\ pool'.queued["low"] \in Int
        BY <3>1 DEF Priorities
      <3>3. pool.highWater >= Depth(pool) /\ pool.highWater \in Int
        BY <1>1 DEF LanesIInv, CountersExact, LaneRecord
      <3>4. pool'.highWater >= Depth(pool')
        BY <2>3, <3>2, <3>3 DEF Depth
      <3> QED
        BY <3>1, <3>4 DEF CountersExact
    <2>10. FifoLanes'
      <3> SUFFICES ASSUME NEW r \in Priorities, NEW i \in 1 .. Len(pool'.lane[r])
                   PROVE  ahead'[pool'.lane[r][i]] = Before(pool', r, i)
        BY DEF FifoLanes
      <3>0. i \in Nat /\ i >= 1
        OBVIOUS
      <3>1. CASE r = q
        <4>1. /\ i + 1 \in 1 .. Len(f) /\ pool'.lane[r][i] = f[i + 1]
              /\ f[i + 1] \in Work
          <5>1. pool'.lane[r] = Tail(f) /\ i \in 1 .. Len(Tail(f))
            BY <2>5, <3>1
          <5>2. i + 1 \in 1 .. Len(f) /\ Tail(f)[i] = f[i + 1]
            BY <2>a, <5>1
          <5> QED
            BY <2>1, <5>1, <5>2
        <4>2. ahead[f[i + 1]] = {f[j] : j \in 1 .. i}
          <5>1. (i + 1) - 1 = i
            BY <3>0
          <5>2. ahead[f[i + 1]] = Before(pool, q, i + 1)
            BY <2>1, <4>1 DEF LanesIInv, FifoLanes
          <5> QED
            BY <5>1, <5>2 DEF Before
        <4>3. ahead'[f[i + 1]] = {f[j] : j \in 1 .. i} \ {f[1]}
          BY <2>2, <2>4, <4>1, <4>2
        <4>4. \A j \in 1 .. i - 1 : /\ pool'.lane[r][j] = f[j + 1]
                                    /\ j + 1 \in 1 .. i
          <5> SUFFICES ASSUME NEW j \in 1 .. i - 1
                       PROVE  pool'.lane[r][j] = f[j + 1] /\ j + 1 \in 1 .. i
            OBVIOUS
          <5>1. j \in 1 .. Len(pool'.lane[r]) /\ j + 1 \in 1 .. i
            BY <2>4, <2>5, <3>0, <3>1
          <5> QED
            BY <2>5, <2>a, <3>1, <5>1
        <4>5. \A j \in 1 .. i : f[j] = f[1] => j = 1
          BY <2>1, <2>4, <3>0, <4>1 DEF LanesIInv, LinkedOnce
        <4>6. \A j \in 2 .. i : j - 1 \in 1 .. i - 1 /\ (j - 1) + 1 = j
          BY <3>0
        <4>7. {f[j] : j \in 1 .. i} \ {f[1]} = {f[j] : j \in 2 .. i}
          BY <3>0, <4>5
        <4>8. {pool'.lane[r][j] : j \in 1 .. i - 1} = {f[j] : j \in 2 .. i}
          <5>1. \A j \in 1 .. i - 1 : j + 1 \in 2 .. i
            BY <3>0
          <5>2. ASSUME NEW j \in 2 .. i
                PROVE  \E k \in 1 .. i - 1 : pool'.lane[r][k] = f[j]
            BY <4>4, <4>6
          <5>3. ASSUME NEW j \in 1 .. i - 1
                PROVE  \E k \in 2 .. i : pool'.lane[r][j] = f[k]
            BY <4>4, <5>1
          <5>4. {pool'.lane[r][j] : j \in 1 .. i - 1} \subseteq {f[j] : j \in 2 .. i}
            BY <5>3
          <5>5. {f[j] : j \in 2 .. i} \subseteq {pool'.lane[r][j] : j \in 1 .. i - 1}
            BY <5>2
          <5> QED
            BY <5>4, <5>5
        <4> QED
          BY <4>1, <4>3, <4>7, <4>8 DEF Before
      <3>2. CASE r # q
        <4>1. pool'.lane[r] = pool.lane[r] /\ i \in 1 .. Len(pool.lane[r])
          BY <2>5, <3>2
        <4>2. pool.lane[r][i] \in Work
          BY <1>1, <4>1
        <4>3. \A j \in 1 .. Len(pool.lane[r]) : pool.lane[r][j] # f[1]
          BY <2>1, <2>4, <3>2 DEF LanesIInv, LinkedOnce
        <4>4. ahead[pool.lane[r][i]] = Before(pool, r, i)
          BY <4>1 DEF LanesIInv, FifoLanes
        <4>5. 1 .. i - 1 \subseteq 1 .. Len(pool.lane[r])
          BY <1>1, <3>0, <4>1
        <4>6. f[1] \notin Before(pool, r, i)
          BY <4>3, <4>5 DEF Before
        <4>7. Before(pool', r, i) = Before(pool, r, i)
          BY <4>1 DEF Before
        <4> QED
          BY <2>2, <2>4, <4>1, <4>2, <4>4, <4>6, <4>7
      <3> QED
        BY <3>1, <3>2
    <2> QED
      BY <2>6, <2>7, <2>8, <2>9, <2>10 DEF LanesIInv
  <1> QED
    BY <1>3, <1>4

LEMMA LanesNextIInv == LanesIInv /\ [LanesNext]_laneVars => LanesIInv'
  <1> SUFFICES ASSUME LanesIInv, [LanesNext]_laneVars
               PROVE  LanesIInv'
    OBVIOUS
  <1>1. ASSUME NEW q \in Priorities, NEW w \in Work, Enqueue(q, w)
        PROVE  LanesIInv'
    BY <1>1, EnqueueIInv
  <1>2. CASE Select
    BY <1>2, SelectIInv
  <1>3. CASE UNCHANGED laneVars
    <2>1. pool' = pool /\ waited' = waited /\ ahead' = ahead
      BY <1>3 DEF laneVars
    <2>2. LanesTypeOK' /\ LinkedOnce' /\ WaitBound'
      BY <2>1 DEF LanesIInv, LanesTypeOK, LinkedOnce, WaitBound
    <2>3. CountersExact' /\ FifoLanes'
      BY <2>1 DEF LanesIInv, CountersExact, FifoLanes
    <2> QED
      BY <2>2, <2>3 DEF LanesIInv
  <1> QED
    BY <1>1, <1>2, <1>3 DEF LanesNext

-----------------------------------------------------------------------------
(* The theorems. *)

\* The lanes keep their types and no block is ever linked twice.
THEOREM WellFormed == LanesSpec => []LanesIInv
  BY LanesInitIInv, LanesNextIInv, PTL DEF LanesSpec

\* Types.
THEOREM LanesTyped == LanesSpec => []LanesTypeOK
  BY WellFormed, PTL DEF LanesIInv

\* The depth counters and the high-water mark of scheduler-stats are exact.
THEOREM CountersAreExact == LanesSpec => []CountersExact
  BY WellFormed, PTL DEF LanesIInv

\* A lane is first in, first out.
THEOREM LanesAreFifo == LanesSpec => []FifoLanes
  BY WellFormed, PTL DEF LanesIInv

\* No lane starves: with the code's 8, 4 and 1 low work is served within
\* thirteen selections, medium within ten and high within six.
THEOREM NoStarvation == LanesSpec => []ServiceBounds
  <1>1. LanesIInv => ServiceBounds
    <2> SUFFICES ASSUME LanesIInv PROVE ServiceBounds
      OBVIOUS
    <2>1. pool.ticket \in 0 .. Cycle - 1
      BY DEF LanesIInv, LanesTypeOK, LaneRecord
    <2>2. waited["low"] \in Nat /\ waited["medium"] \in Nat /\ waited["high"] \in Nat
      BY DEF LanesIInv, LanesTypeOK, Priorities
    <2> QED
      BY <2>1, <2>2, CycleAssumption DEF LanesIInv, WaitBound, ServiceBounds, Cycle
  <1> QED
    BY <1>1, WellFormed, PTL

\* A selection never comes back empty-handed beside queued work.
THEOREM NeverIdleBesideWork == LanesSpec => WorkConserving
  <1>1. LanesIInv /\ [LanesNext]_laneVars =>
          [Select /\ ~NoneQueued(pool) =>
             \E w \in Work : Queued(w) /\ ~Queued(w)']_laneVars
    <2> SUFFICES ASSUME LanesIInv, Select, ~NoneQueued(pool)
                 PROVE  \E w \in Work : Queued(w) /\ ~Queued(w)'
      OBVIOUS
    <2>1. pool \in LaneRecord /\ pool.lane \in [Priorities -> Seq(Work)]
      BY DEF LanesIInv, LanesTypeOK, LaneRecord
    <2>0. PICK q \in Priorities : /\ q = Served(pool) /\ q # "none"
                                 /\ pool.lane[q] # <<>>
      BY <2>1, ServedLane
    <2> DEFINE f == pool.lane[q]
    <2>2. f # <<>> /\ f \in Seq(Work)
      BY <2>0, <2>1
    <2>3. pool' = Advance(PopLane(pool, q))
      BY <2>0 DEF Select, AfterPop
    <2>4. /\ pool'.lane[q] = Tail(f)
          /\ \A r \in Priorities \ {q} : pool'.lane[r] = pool.lane[r]
      BY <2>0, <2>1, <2>2, <2>3, PopFields
    <2>5. /\ Len(f) \in Nat /\ Len(f) >= 1 /\ Len(Tail(f)) = Len(f) - 1
          /\ \A i \in 1 .. Len(f) - 1 : Tail(f)[i] = f[i + 1]
          /\ f[1] \in Work
      BY <2>2, TailIndices
    <2>6. Queued(f[1])
      BY <2>2, <2>5 DEF Queued
    <2>7. ASSUME NEW r \in Priorities, NEW i \in 1 .. Len(pool'.lane[r])
          PROVE  pool'.lane[r][i] # f[1]
      <3>1. CASE r = q
        <4>1. i + 1 \in 1 .. Len(f) /\ i + 1 # 1 /\ pool'.lane[r][i] = f[i + 1]
          <5>1. pool'.lane[r] = Tail(f) /\ i \in 1 .. Len(f) - 1
            BY <2>4, <2>5, <3>1
          <5> QED
            BY <2>5, <5>1
        <4> QED
          BY <2>2, <2>5, <4>1 DEF LanesIInv, LinkedOnce
      <3>2. CASE r # q
        BY <2>1, <2>2, <2>4, <2>5, <3>2 DEF LanesIInv, LinkedOnce
      <3> QED
        BY <3>1, <3>2
    <2> QED
      BY <2>5, <2>6, <2>7 DEF Queued
  <1> QED
    BY <1>1, WellFormed, PTL DEF LanesSpec, WorkConserving

-----------------------------------------------------------------------------
(* PART 2. Futures. *)

\* The step of c's completion, "idle" when none of c's runs.
StepOf(c) == IF completing.core = c THEN completing.step ELSE "idle"
AcceptedOf(c) == completing.core = c /\ completing.accepted

\* The job's side counts its reference until the completion's release.
Refers(j, step) == j.at \in {"queued", "done", "lost"} \/ step # "idle"

CountOf(h, j, step) ==
    (IF Refers(j, step) THEN 1 ELSE 0) + (IF h = "none" THEN 0 ELSE 1)

\* References are exact, and the memory is there while one is counted.
Counted(k, h, j, step) ==
    /\ k.references = CountOf(h, j, step)
    /\ k.memory = "live" <=> k.references > 0
    /\ k.memory = "unused" => j.at = "none" /\ ~k.filled
    /\ j.at = "none" => h = "none" /\ step = "idle"
    /\ step # "idle" => j.at = "over"

\* The value is passed by the worker, and ended once.
EndsExact(j, v) ==
    /\ v.ends = (IF v.at \in {"taken", "destroyed"} THEN 1 ELSE 0)
    /\ j.at \in {"none", "queued"} => v.at = "none"

\* Before the completion fills the core, between fill and publish, after.
Unfilled(k, v) == k.state = "pending" /\ ~k.filled /\ v.ends = 0

Filled(k, j, v, step, accepted) ==
    /\ j.at \in {"queued", "done", "lost"} => Unfilled(k, v)
    /\ step = "fill" => Unfilled(k, v) /\ (accepted => v.at = "passed")
    /\ step = "publish" => /\ k.state = "pending"
                           /\ k.filled <=> accepted
                           /\ k.filled <=> v.at = "passed"
    /\ step = "release" => k.filled <=> v.at = "passed"

\* Once the job is over the core holds the value iff nothing ended it yet, and
\* says ready while the handle can still take it.
Settled(k, h, j, v, step) ==
    /\ j.at = "over" /\ step \in {"idle", "release"} /\ k.memory = "live" =>
          /\ k.filled <=> v.at = "passed"
          /\ k.state = "ready" /\ h = "held" => k.filled
    /\ k.memory = "freed" => v.at # "passed"

Coherent(k, h, j, v, step, accepted) ==
    /\ Counted(k, h, j, step)
    /\ EndsExact(j, v)
    /\ Filled(k, j, v, step, accepted)
    /\ Settled(k, h, j, v, step)

CoherentAt(c) == Coherent(core[c], handle[c], job[c], value[c],
                          StepOf(c), AcceptedOf(c))

FuturesIInv ==
    /\ FuturesTypeOK
    /\ completing.core = NoCore <=> completing.step = "idle"
    /\ \A c \in Core : CoherentAt(c)

-----------------------------------------------------------------------------
(* The invariant gives the properties.                                     *)

LEMMA CoherentFacts ==
    ASSUME NEW k \in CoreRecord, NEW h \in {"none", "held", "releasing"},
           NEW j \in FutureJobRecord, NEW v \in ValueRecord,
           NEW step \in {"idle", "fill", "publish", "release"},
           NEW accepted \in BOOLEAN, Coherent(k, h, j, v, step, accepted)
    PROVE  /\ k.references = CountOf(h, j, step)
           /\ h # "none" \/ Refers(j, step) => k.memory = "live"
           /\ h = "none" /\ ~Refers(j, step) => k.memory # "live"
           /\ v.ends <= 1
           /\ k.memory = "freed" => v.at # "passed"
           /\ h = "held" /\ k.state = "ready" => k.filled /\ v.at = "passed"
    BY DEF Coherent, Counted, EndsExact, Filled, Unfilled, Settled, CountOf,
           Refers, CoreRecord, FutureJobRecord, ValueRecord

-----------------------------------------------------------------------------
(* The parts of a step, on the values of one core.                         *)

\* Letting go of one reference, the job's or the handle's.
LEMMA ReleasedFields ==
    ASSUME NEW k \in CoreRecord, k.references > 0
    PROVE  /\ Released(k) \in CoreRecord
           /\ Released(k).references = k.references - 1
           /\ Released(k).filled = k.filled
           /\ Released(k).state = k.state
           /\ Released(k).memory = IF k.references = 1 THEN "freed" ELSE k.memory
<1>1. PICK n \in 0..2 : n = k.references - 1
    BY DEF CoreRecord
<1>2. PICK m \in {"unused", "live", "freed"} :
          m = IF k.references = 1 THEN "freed" ELSE k.memory
    BY DEF CoreRecord
<1>3. Released(k) = [k EXCEPT !.references = n, !.memory = m]
    BY <1>1, <1>2 DEF Released, LastReference
<1>4. /\ Released(k) \in CoreRecord
      /\ Released(k).references = n /\ Released(k).memory = m
      /\ Released(k).state = k.state /\ Released(k).filled = k.filled
    BY <1>3 DEF CoreRecord
<1> QED BY <1>1, <1>2, <1>4

LEMMA EndedFields ==
    ASSUME NEW v \in ValueRecord, NEW how \in {"taken", "destroyed"}
    PROVE  /\ Ended(v, how) \in ValueRecord
           /\ Ended(v, how).at = how
           /\ Ended(v, how).ends = v.ends + 1
    BY DEF Ended, ValueRecord

LEMMA ValueAfterReleaseFields ==
    ASSUME NEW k \in CoreRecord, NEW v \in ValueRecord
    PROVE  /\ ValueAfterRelease(k, v) \in ValueRecord
           /\ k.references = 1 /\ k.filled =>
                 /\ ValueAfterRelease(k, v).at = "destroyed"
                 /\ ValueAfterRelease(k, v).ends = v.ends + 1
           /\ ~(k.references = 1 /\ k.filled) => ValueAfterRelease(k, v) = v
    BY EndedFields DEF ValueAfterRelease, LastReference, CoreRecord

LEMMA HandleLetsGo ==
    ASSUME NEW k \in CoreRecord, NEW j \in FutureJobRecord, NEW v \in ValueRecord,
           NEW step \in {"idle", "fill", "publish", "release"},
           NEW accepted \in BOOLEAN,
           Coherent(k, "releasing", j, v, step, accepted)
    PROVE  /\ Released(k) \in CoreRecord
           /\ ValueAfterRelease(k, v) \in ValueRecord
           /\ Coherent(Released(k), "none", j, ValueAfterRelease(k, v),
                       step, accepted)
<1>1. k.references > 0
    BY DEF Coherent, Counted, CountOf, Refers, CoreRecord
<1>2. ValueAfterRelease(k, v) \in ValueRecord
    BY ValueAfterReleaseFields
<1>3. Counted(Released(k), "none", j, step)
    BY <1>1, ReleasedFields
    DEF Coherent, Counted, CountOf, Refers, CoreRecord, FutureJobRecord
<1>4. EndsExact(j, ValueAfterRelease(k, v))
  <2>1. CASE k.references = 1 /\ k.filled
    <3>1. j.at = "over" /\ step = "idle" /\ k.memory = "live"
        BY <2>1, <1>1
        DEF Coherent, Counted, CountOf, Refers, CoreRecord, FutureJobRecord
    <3>2. v.at = "passed" /\ v.ends = 0
        BY <2>1, <3>1 DEF Coherent, Settled, EndsExact
    <3> QED BY <2>1, <3>1, <3>2, ValueAfterReleaseFields DEF EndsExact
  <2>2. CASE ~(k.references = 1 /\ k.filled)
      BY <2>2, ValueAfterReleaseFields DEF Coherent
  <2> QED BY <2>1, <2>2
<1>5. Filled(Released(k), j, ValueAfterRelease(k, v), step, accepted)
  <2>1. CASE Refers(j, step)
    <3>1. k.references # 1 /\ ValueAfterRelease(k, v) = v
        BY <2>1, ValueAfterReleaseFields DEF Coherent, Counted, CountOf
    <3>2. Released(k).filled = k.filled /\ Released(k).state = k.state
        BY <1>1, ReleasedFields
    <3> QED BY <3>1, <3>2 DEF Coherent, Filled, Unfilled
  <2>2. CASE ~Refers(j, step)
    BY <2>2 DEF Refers, Filled
  <2> QED BY <2>1, <2>2
<1>6. Settled(Released(k), "none", j, ValueAfterRelease(k, v), step)
  <2>1. CASE k.references = 1
    <3>1. /\ Released(k).memory = "freed"
          /\ k.memory = "live" /\ j.at = "over" /\ step = "idle"
        BY <1>1, <2>1, ReleasedFields
        DEF Coherent, Counted, CountOf, Refers, CoreRecord, FutureJobRecord
    <3>2. k.filled <=> v.at = "passed"
        BY <3>1 DEF Coherent, Settled
    <3>3. ValueAfterRelease(k, v).at # "passed"
        BY <2>1, <3>2, ValueAfterReleaseFields
    <3> QED BY <3>1, <3>3 DEF Settled
  <2>2. CASE k.references # 1
    <3>1. /\ ValueAfterRelease(k, v) = v
          /\ Released(k).memory = k.memory
          /\ Released(k).filled = k.filled
        BY <1>1, <2>2, ReleasedFields, ValueAfterReleaseFields
    <3> QED BY <3>1 DEF Coherent, Settled
  <2> QED BY <2>1, <2>2
<1> QED BY <1>1, <1>2, <1>3, <1>4, <1>5, <1>6, ReleasedFields DEF Coherent

LEMMA CompletionLetsGo ==
    ASSUME NEW k \in CoreRecord, NEW h \in {"none", "held", "releasing"},
           NEW j \in FutureJobRecord, NEW v \in ValueRecord, NEW accepted \in BOOLEAN,
           Coherent(k, h, j, v, "release", accepted)
    PROVE  /\ Released(k) \in CoreRecord
           /\ ValueAfterRelease(k, v) \in ValueRecord
           /\ Coherent(Released(k), h, j, ValueAfterRelease(k, v), "idle", FALSE)
<1>1. k.references > 0 /\ j.at = "over" /\ k.memory = "live"
    BY DEF Coherent, Counted, CountOf, Refers, CoreRecord
<1>2. ValueAfterRelease(k, v) \in ValueRecord
    BY ValueAfterReleaseFields
<1>3. Counted(Released(k), h, j, "idle")
    BY <1>1, ReleasedFields
    DEF Coherent, Counted, CountOf, Refers, CoreRecord, FutureJobRecord
<1>4. EndsExact(j, ValueAfterRelease(k, v))
    BY <1>1, ValueAfterReleaseFields
    DEF Coherent, EndsExact, Filled, Settled, CoreRecord, ValueRecord
<1>5. Filled(Released(k), j, ValueAfterRelease(k, v), "idle", FALSE)
    BY <1>1 DEF Filled
<1>6. Settled(Released(k), h, j, ValueAfterRelease(k, v), "idle")
    BY <1>1, ReleasedFields, ValueAfterReleaseFields
    DEF Coherent, Counted, CountOf, Refers, EndsExact, Filled,
        Settled, CoreRecord, FutureJobRecord, ValueRecord
<1> QED BY <1>1, <1>2, <1>3, <1>4, <1>5, <1>6, ReleasedFields DEF Coherent

-----------------------------------------------------------------------------
(* The initial states and the steps.                                       *)

LEMMA FuturesInitIInv == FuturesInit => FuturesIInv
<1> SUFFICES ASSUME FuturesInit PROVE FuturesIInv
    OBVIOUS
<1>1. FuturesTypeOK
  <2>1. core \in [Core -> CoreRecord]
      BY DEF FuturesInit, CoreRecord
  <2>2. job \in [Core -> FutureJobRecord]
      BY DEF FuturesInit, FutureJobRecord
  <2>3. value \in [Core -> ValueRecord]
      BY DEF FuturesInit, ValueRecord
  <2>4. completing \in [core : Core \cup {NoCore}, accepted : BOOLEAN,
                        step : {"idle", "fill", "publish", "release"}]
      BY DEF FuturesInit, Idle
  <2> QED BY <2>1, <2>2, <2>3, <2>4 DEF FuturesInit, FuturesTypeOK
<1>2. ASSUME NEW c \in Core PROVE CoherentAt(c)
  <2>1. StepOf(c) = "idle"
      BY NoCoreIsNone DEF FuturesInit, Idle, StepOf
  <2> QED BY <2>1 DEF FuturesInit, CoherentAt, Coherent, Counted, CountOf, Refers,
                     EndsExact, Filled, Settled
<1> QED BY <1>1, <1>2 DEF FuturesIInv, FuturesInit, Idle

\* A future none of whose parts moves stays coherent.
LEMMA Frame ==
    ASSUME NEW d \in Core, CoherentAt(d), core'[d] = core[d],
           handle'[d] = handle[d], job'[d] = job[d], value'[d] = value[d],
           StepOf(d)' = StepOf(d), AcceptedOf(d)' = AcceptedOf(d)
    PROVE  CoherentAt(d)'
    BY DEF CoherentAt

\* So a step of c, whose completion moves at most for c, needs only c's part.
LEMMA OnlyMoves ==
    ASSUME FuturesIInv, NEW c \in Core,
           \A d \in Core \ {c} : /\ core'[d] = core[d] /\ handle'[d] = handle[d]
                                 /\ job'[d] = job[d] /\ value'[d] = value[d],
           completing' = completing \/ {completing.core, completing.core'} \subseteq {c, NoCore},
           completing.core' = NoCore <=> completing.step' = "idle",
           FuturesTypeOK', CoherentAt(c)'
    PROVE  FuturesIInv'
<1>1. ASSUME NEW d \in Core \ {c} PROVE CoherentAt(d)'
  <2>1. StepOf(d)' = StepOf(d) /\ AcceptedOf(d)' = AcceptedOf(d)
      BY NoCoreIsNone DEF StepOf, AcceptedOf
  <2>2. CoherentAt(d)
      BY DEF FuturesIInv
  <2> QED BY <2>1, <2>2, Frame
<1> QED BY <1>1 DEF FuturesIInv

\* What the invariant says of one future.
LEMMA OfOne ==
    ASSUME FuturesIInv, NEW c \in Core
    PROVE  /\ core[c] \in CoreRecord /\ handle[c] \in {"none", "held", "releasing"}
           /\ job[c] \in FutureJobRecord /\ value[c] \in ValueRecord
           /\ StepOf(c) \in {"idle", "fill", "publish", "release"}
           /\ AcceptedOf(c) \in BOOLEAN
           /\ Coherent(core[c], handle[c], job[c], value[c], StepOf(c), AcceptedOf(c))
    BY DEF FuturesIInv, FuturesTypeOK, CoherentAt, StepOf, AcceptedOf

LEMMA SpawnIInv ==
    ASSUME FuturesIInv, NEW c \in Core, Spawn(c)
    PROVE  FuturesIInv'
<1> DEFINE fresh == [memory |-> "live", state |-> "pending",
                     references |-> 2, filled |-> FALSE]
<1>1. core' = [core EXCEPT ![c] = fresh] /\ fresh \in CoreRecord
    BY DEF Spawn, CoreRecord
<1>2. PICK j \in FutureJobRecord : /\ j.at = "queued"
                             /\ job' = [job EXCEPT ![c] = j]
  <2>1. [job[c] EXCEPT !.at = "queued"] \in FutureJobRecord
      BY DEF FuturesIInv, FuturesTypeOK, FutureJobRecord
  <2>2. [job[c] EXCEPT !.at = "queued"].at = "queued"
      BY DEF FuturesIInv, FuturesTypeOK, FutureJobRecord
  <2>3. job' = [job EXCEPT ![c] = [job[c] EXCEPT !.at = "queued"]]
      BY DEF Spawn
  <2> QED BY <2>1, <2>2, <2>3
<1>3. FuturesTypeOK'
    BY <1>1, <1>2 DEF FuturesIInv, FuturesTypeOK, Spawn
<1>4. CoherentAt(c)'
  <2>1. core[c].memory = "unused" /\ job[c].at = "none"
        /\ value[c].at = "none" /\ StepOf(c) = "idle"
      BY OfOne DEF Spawn, Coherent, Counted, EndsExact
  <2>2. value[c].ends = 0
      BY <2>1, OfOne DEF Coherent, EndsExact
  <2>3. /\ core'[c] = fresh /\ handle'[c] = "held" /\ job'[c] = j
        /\ value'[c] = value[c] /\ StepOf(c)' = "idle"
      BY <1>1, <1>2, <2>1 DEF FuturesIInv, FuturesTypeOK, Spawn, StepOf
  <2> QED BY <1>2, <2>1, <2>2, <2>3
          DEF CoherentAt, Coherent, Counted, CountOf, Refers, EndsExact, Filled,
              Unfilled, Settled
<1> QED BY <1>1, <1>2, <1>3, <1>4, OnlyMoves DEF FuturesIInv, FuturesTypeOK, Spawn

LEMMA SpawnRefusedIInv ==
    ASSUME FuturesIInv, NEW c \in Core, SpawnRefused(c)
    PROVE  FuturesIInv'
<1> DEFINE fresh == [memory |-> "live", state |-> "pending",
                     references |-> 2, filled |-> FALSE]
<1>1. /\ Released(Released(fresh)) \in CoreRecord
      /\ Released(Released(fresh)).references = 0
      /\ Released(Released(fresh)).memory = "freed"
  <2>1. fresh \in CoreRecord /\ fresh.references = 2
      BY DEF CoreRecord
  <2> HIDE DEF fresh
  <2>2. Released(fresh) \in CoreRecord /\ Released(fresh).references = 1
      BY <2>1, ReleasedFields
  <2> QED BY <2>2, ReleasedFields
<1> DEFINE gone == Released(Released(fresh))
<1>2. core' = [core EXCEPT ![c] = gone]
    BY DEF SpawnRefused
<1> HIDE DEF gone
<1>3. gone \in CoreRecord /\ gone.references = 0 /\ gone.memory = "freed"
    BY <1>1 DEF gone
<1>4. FuturesTypeOK'
    BY <1>2, <1>3 DEF FuturesIInv, FuturesTypeOK, SpawnRefused
<1>5. CoherentAt(c)'
  <2>1. core[c].memory = "unused" /\ job[c].at = "none"
        /\ value[c].at = "none" /\ StepOf(c) = "idle" /\ handle[c] = "none"
      BY OfOne DEF SpawnRefused, Coherent, Counted, EndsExact
  <2>2. value[c].ends = 0
      BY <2>1, OfOne DEF Coherent, EndsExact
  <2>3. /\ core'[c] = gone /\ handle'[c] = "none" /\ job'[c] = job[c]
        /\ value'[c] = value[c] /\ StepOf(c)' = "idle"
      BY <1>2, <2>1 DEF FuturesIInv, FuturesTypeOK, SpawnRefused, StepOf
  <2> QED BY <1>3, <2>1, <2>2, <2>3
          DEF CoherentAt, Coherent, Counted, CountOf, Refers, EndsExact, Filled,
              Settled
<1> QED BY <1>2, <1>4, <1>5, OnlyMoves DEF FuturesIInv, FuturesTypeOK, SpawnRefused

LEMMA WorkerReturnsIInv ==
    ASSUME FuturesIInv, NEW c \in Core, JobReturns(c)
    PROVE  FuturesIInv'
<1>1. /\ core[c] \in CoreRecord /\ job[c] \in FutureJobRecord /\ value[c] \in ValueRecord
      /\ job[c].at = "queued" /\ value[c].at = "none" /\ value[c].ends = 0
      /\ StepOf(c) = "idle" /\ Unfilled(core[c], value[c])
      /\ Counted(core[c], handle[c], job[c], "idle")
    BY OfOne DEF JobReturns, Coherent, Counted, EndsExact, Filled
<1>2. PICK j \in FutureJobRecord : j.at = "done" /\ job' = [job EXCEPT ![c] = j]
  <2>1. [job[c] EXCEPT !.at = "done"] \in FutureJobRecord
      BY <1>1 DEF FutureJobRecord
  <2>2. [job[c] EXCEPT !.at = "done"].at = "done"
      BY <1>1 DEF FutureJobRecord
  <2>3. job' = [job EXCEPT ![c] = [job[c] EXCEPT !.at = "done"]]
      BY DEF JobReturns
  <2> QED BY <2>1, <2>2, <2>3
<1>3. PICK v \in ValueRecord : /\ v.at \in {"none", "passed"} /\ v.ends = 0
                               /\ value' = [value EXCEPT ![c] = v]
  <2>1. CASE UNCHANGED value
      BY <1>1, <2>1 DEF FuturesIInv, FuturesTypeOK
  <2>2. CASE value' = [value EXCEPT ![c].at = "passed"]
    <3>1. [value[c] EXCEPT !.at = "passed"] \in ValueRecord
        BY <1>1 DEF ValueRecord
    <3>2. /\ [value[c] EXCEPT !.at = "passed"].at = "passed"
          /\ [value[c] EXCEPT !.at = "passed"].ends = 0
        BY <1>1 DEF ValueRecord
    <3>3. value' = [value EXCEPT ![c] = [value[c] EXCEPT !.at = "passed"]]
        BY <2>2
    <3> QED BY <3>1, <3>2, <3>3
  <2> QED BY <2>1, <2>2 DEF JobReturns
<1>4. FuturesTypeOK'
    BY <1>2, <1>3 DEF FuturesIInv, FuturesTypeOK, JobReturns
<1>5. CoherentAt(c)'
  <2>1. /\ core'[c] = core[c] /\ handle'[c] = handle[c] /\ job'[c] = j
        /\ value'[c] = v /\ StepOf(c)' = "idle"
      BY <1>1, <1>2, <1>3 DEF FuturesIInv, FuturesTypeOK, JobReturns, StepOf
  <2>2. /\ Counted(core[c], handle[c], j, "idle")
        /\ EndsExact(j, v)
      BY <1>1, <1>2, <1>3 DEF Counted, CountOf, Refers, EndsExact
  <2>3. core[c].memory = "live"
      BY <1>1 DEF Counted, CountOf, Refers, CoreRecord
  <2>4. /\ Filled(core[c], j, v, "idle", AcceptedOf(c)')
        /\ Settled(core[c], handle[c], j, v, "idle")
      BY <1>1, <1>2, <1>3, <2>3 DEF Filled, Unfilled, Settled
  <2> QED BY <2>1, <2>2, <2>4 DEF CoherentAt, Coherent
<1> QED BY <1>2, <1>3, <1>4, <1>5, OnlyMoves DEF FuturesIInv, FuturesTypeOK, JobReturns

LEMMA CompleteIInv ==
    ASSUME FuturesIInv, NEW c \in Core, Complete(c)
    PROVE  FuturesIInv'
<1>1. /\ core[c] \in CoreRecord /\ job[c] \in FutureJobRecord /\ value[c] \in ValueRecord
      /\ job[c].at = "done" /\ StepOf(c) = "idle"
      /\ Unfilled(core[c], value[c])
      /\ Counted(core[c], handle[c], job[c], "idle") /\ EndsExact(job[c], value[c])
      /\ core[c].memory = "live"
    BY OfOne DEF Complete, Coherent, Counted, CountOf, Refers, Filled, CoreRecord
<1>2. PICK j \in FutureJobRecord : j.at = "over" /\ job' = [job EXCEPT ![c] = j]
  <2>1. [job[c] EXCEPT !.at = "over"] \in FutureJobRecord
      BY <1>1 DEF FutureJobRecord
  <2>2. [job[c] EXCEPT !.at = "over"].at = "over"
      BY <1>1 DEF FutureJobRecord
  <2>3. job' = [job EXCEPT ![c] = [job[c] EXCEPT !.at = "over"]]
      BY DEF Complete
  <2> QED BY <2>1, <2>2, <2>3
<1>3. /\ completing'.core = c /\ completing'.step = "fill"
      /\ completing'.accepted => value[c].at = "passed"
    BY DEF Complete
<1>4. FuturesTypeOK'
  <2>1. completing' \in [core : Core \cup {NoCore}, accepted : BOOLEAN,
                         step : {"idle", "fill", "publish", "release"}]
      BY DEF Complete
  <2> QED BY <1>2, <2>1 DEF FuturesIInv, FuturesTypeOK, Complete
<1>5. CoherentAt(c)'
  <2>1. /\ core'[c] = core[c] /\ handle'[c] = handle[c] /\ job'[c] = j
        /\ value'[c] = value[c] /\ StepOf(c)' = "fill"
        /\ AcceptedOf(c)' => value[c].at = "passed"
      BY <1>2, <1>3 DEF FuturesIInv, FuturesTypeOK, Complete, StepOf, AcceptedOf
  <2>2. /\ Counted(core[c], handle[c], j, "fill")
        /\ EndsExact(j, value[c])
      BY <1>1, <1>2 DEF Counted, CountOf, Refers, EndsExact
  <2>3. /\ Filled(core[c], j, value[c], "fill", AcceptedOf(c)')
        /\ Settled(core[c], handle[c], j, value[c], "fill")
      BY <1>1, <1>2, <2>1 DEF Filled, Settled
  <2> QED BY <2>1, <2>2, <2>3 DEF CoherentAt, Coherent
<1>6. completing.core = NoCore
    BY DEF Complete, OwnerRuns, Idle
<1>7. completing'.core = NoCore <=> completing'.step = "idle"
    BY <1>3, NoCoreIsNone
<1>8. {completing.core, completing'.core} \subseteq {c, NoCore}
    BY <1>3, <1>6
<1> QED BY <1>2, <1>4, <1>5, <1>7, <1>8, OnlyMoves DEF FuturesIInv, FuturesTypeOK, Complete

\* The completion that is running, and its future.
LEMMA TheCompletion ==
    ASSUME FuturesIInv, completing.step # "idle"
    PROVE  /\ completing.core \in Core
           /\ StepOf(completing.core) = completing.step
           /\ AcceptedOf(completing.core) = completing.accepted
           /\ completing.accepted \in BOOLEAN
    BY DEF FuturesIInv, FuturesTypeOK, StepOf, AcceptedOf

LEMMA FillIInv ==
    ASSUME FuturesIInv, Fill
    PROVE  FuturesIInv'
<1>0. PICK c \in Core : c = completing.core
    BY TheCompletion DEF Fill
<1>1. /\ c \in Core /\ StepOf(c) = "fill" /\ AcceptedOf(c) = completing.accepted
      /\ completing.accepted \in BOOLEAN
    BY <1>0, TheCompletion DEF Fill
<1>2. /\ core[c] \in CoreRecord /\ job[c] \in FutureJobRecord /\ value[c] \in ValueRecord
      /\ job[c].at = "over" /\ core[c].memory = "live"
      /\ Unfilled(core[c], value[c])
      /\ completing.accepted => value[c].at = "passed"
      /\ Counted(core[c], handle[c], job[c], "fill") /\ EndsExact(job[c], value[c])
  <2>1. Coherent(core[c], handle[c], job[c], value[c], "fill", completing.accepted)
      BY <1>1, OfOne
  <2> QED BY <1>1, <2>1, OfOne
          DEF Coherent, Counted, CountOf, Refers, Filled, CoreRecord
<1>3. PICK k \in CoreRecord : /\ core' = [core EXCEPT ![c] = k]
                              /\ k.filled <=> completing.accepted
                              /\ k.memory = "live" /\ k.state = core[c].state
                              /\ k.references = core[c].references
  <2> DEFINE k == [core[c] EXCEPT !.filled = completing.accepted]
  <2>1. k \in CoreRecord
      BY <1>1, <1>2 DEF CoreRecord
  <2>2. k.memory = "live" /\ k.state = core[c].state
        /\ k.references = core[c].references
      BY <1>2 DEF CoreRecord
  <2>3. k.filled = completing.accepted
      BY <1>1, <1>2 DEF CoreRecord
  <2>4. core' = [core EXCEPT ![c] = k]
      BY <1>0 DEF Fill
  <2> QED BY <2>1, <2>2, <2>3, <2>4
<1>4. PICK v \in ValueRecord : /\ value' = [value EXCEPT ![c] = v]
                               /\ completing.accepted => v = value[c]
                               /\ ~completing.accepted => v.at # "passed"
                               /\ EndsExact(job[c], v)
  <2>1. CASE ~completing.accepted /\ value[c].at = "passed"
    <3>1. value' = [value EXCEPT ![c] = Ended(value[c], "destroyed")]
        BY <1>0, <2>1 DEF Fill
    <3>2. EndsExact(job[c], Ended(value[c], "destroyed"))
        BY <1>2, EndedFields DEF EndsExact, Unfilled
    <3> QED BY <1>2, <2>1, <3>1, <3>2, EndedFields
  <2>2. CASE ~(~completing.accepted /\ value[c].at = "passed")
    <3>1. value' = value
        BY <1>0, <2>2 DEF Fill
    <3> QED BY <1>1, <1>2, <2>2, <3>1 DEF FuturesIInv, FuturesTypeOK
  <2> QED BY <2>1, <2>2
<1>5. /\ completing' \in [core : Core \cup {NoCore}, accepted : BOOLEAN,
                         step : {"idle", "fill", "publish", "release"}]
      /\ completing'.core = c /\ completing'.step = "publish"
      /\ completing'.accepted = completing.accepted
    BY <1>0 DEF Fill, FuturesIInv, FuturesTypeOK
<1>6. FuturesTypeOK'
    BY <1>3, <1>4, <1>5 DEF FuturesIInv, FuturesTypeOK, Fill
<1>7. CoherentAt(c)'
  <2>1. /\ core'[c] = k /\ handle'[c] = handle[c] /\ job'[c] = job[c]
        /\ value'[c] = v /\ StepOf(c)' = "publish"
      BY <1>1, <1>3, <1>4, <1>5 DEF FuturesIInv, FuturesTypeOK, Fill, StepOf
  <2>2. AcceptedOf(c)' <=> completing.accepted
      BY <1>1, <1>5 DEF AcceptedOf
  <2>3. Counted(k, handle[c], job[c], "publish")
      BY <1>2, <1>3 DEF Counted, CountOf, Refers
  <2>4. Filled(k, job[c], v, "publish", AcceptedOf(c)')
      BY <1>2, <1>3, <1>4, <2>2 DEF Filled, Unfilled
  <2>5. Settled(k, handle[c], job[c], v, "publish")
      BY <1>3 DEF Settled
  <2> QED BY <1>4, <2>1, <2>3, <2>4, <2>5 DEF CoherentAt, Coherent
<1>8. /\ {completing.core, completing'.core} \subseteq {c, NoCore}
      /\ completing'.core = NoCore <=> completing'.step = "idle"
    BY <1>1, <1>5, <1>0, NoCoreIsNone
<1> QED BY <1>1, <1>3, <1>4, <1>6, <1>7, <1>8, OnlyMoves DEF FuturesIInv, FuturesTypeOK, Fill

LEMMA PublishIInv ==
    ASSUME FuturesIInv, Publish
    PROVE  FuturesIInv'
<1>0. PICK c \in Core : c = completing.core
    BY TheCompletion DEF Publish
<1>1. /\ StepOf(c) = "publish" /\ AcceptedOf(c) = completing.accepted
      /\ completing.accepted \in BOOLEAN
    BY <1>0, TheCompletion DEF Publish
<1>2. /\ core[c] \in CoreRecord /\ job[c] \in FutureJobRecord /\ value[c] \in ValueRecord
      /\ job[c].at = "over" /\ core[c].memory = "live"
      /\ core[c].filled <=> completing.accepted
      /\ core[c].filled <=> value[c].at = "passed"
      /\ Counted(core[c], handle[c], job[c], "publish") /\ EndsExact(job[c], value[c])
  <2>1. Coherent(core[c], handle[c], job[c], value[c], "publish", completing.accepted)
      BY <1>1, OfOne
  <2> QED BY <1>1, <2>1, OfOne
          DEF Coherent, Counted, CountOf, Refers, Filled, CoreRecord
<1>3. PICK k \in CoreRecord : /\ core' = [core EXCEPT ![c] = k]
                              /\ k.state = "ready" => completing.accepted
                              /\ k.filled <=> core[c].filled
                              /\ k.memory = "live"
                              /\ k.references = core[c].references
  <2>1. PICK state \in {"ready", "cancelled"} :
            /\ state = IF completing.accepted THEN "ready" ELSE "cancelled"
            /\ state = "ready" => completing.accepted
      OBVIOUS
  <2> DEFINE k == [core[c] EXCEPT !.state = state]
  <2>2. k \in CoreRecord
      BY <1>2 DEF CoreRecord
  <2>3. k.memory = "live" /\ k.state = state
        /\ k.references = core[c].references
      BY <1>2 DEF CoreRecord
  <2>4. k.filled = core[c].filled
      BY <1>2 DEF CoreRecord
  <2>5. core' = [core EXCEPT ![c] = k]
      BY <1>0, <2>1 DEF Publish
  <2> QED BY <2>1, <2>2, <2>3, <2>4, <2>5
<1>5. /\ completing' \in [core : Core \cup {NoCore}, accepted : BOOLEAN,
                         step : {"idle", "fill", "publish", "release"}]
      /\ completing'.core = c /\ completing'.step = "release"
    BY <1>0 DEF Publish, FuturesIInv, FuturesTypeOK
<1>6. FuturesTypeOK'
    BY <1>3, <1>5 DEF FuturesIInv, FuturesTypeOK, Publish
<1>7. CoherentAt(c)'
  <2>1. /\ core'[c] = k /\ handle'[c] = handle[c] /\ job'[c] = job[c]
        /\ value'[c] = value[c] /\ StepOf(c)' = "release"
      BY <1>1, <1>3, <1>5 DEF FuturesIInv, FuturesTypeOK, Publish, StepOf
  <2>2. Counted(k, handle[c], job[c], "release")
      BY <1>2, <1>3 DEF Counted, CountOf, Refers
  <2>3. /\ Filled(k, job[c], value[c], "release", AcceptedOf(c)')
        /\ Settled(k, handle[c], job[c], value[c], "release")
      BY <1>2, <1>3 DEF Filled, Settled
  <2> QED BY <1>2, <2>1, <2>2, <2>3 DEF CoherentAt, Coherent
<1>8. /\ {completing.core, completing'.core} \subseteq {c, NoCore}
      /\ completing'.core = NoCore <=> completing'.step = "idle"
    BY <1>0, <1>5, NoCoreIsNone
<1> QED BY <1>3, <1>6, <1>7, <1>8, OnlyMoves DEF FuturesIInv, FuturesTypeOK, Publish

LEMMA CompletionReleasesIInv ==
    ASSUME FuturesIInv, CompletionReleases
    PROVE  FuturesIInv'
<1>0. PICK c \in Core : c = completing.core
    BY TheCompletion DEF CompletionReleases
<1>1. /\ core[c] \in CoreRecord /\ handle[c] \in {"none", "held", "releasing"}
      /\ job[c] \in FutureJobRecord /\ value[c] \in ValueRecord
      /\ completing.accepted \in BOOLEAN
      /\ Coherent(core[c], handle[c], job[c], value[c], "release", completing.accepted)
    BY <1>0, OfOne, TheCompletion DEF CompletionReleases
<1>2. PICK k : k = Released(core[c])
    OBVIOUS
<1>3. PICK v : v = ValueAfterRelease(core[c], value[c])
    OBVIOUS
<1>4. /\ k \in CoreRecord /\ v \in ValueRecord
      /\ Coherent(k, handle[c], job[c], v, "idle", FALSE)
  <2>1. /\ Released(core[c]) \in CoreRecord
        /\ ValueAfterRelease(core[c], value[c]) \in ValueRecord
        /\ Coherent(Released(core[c]), handle[c], job[c],
                    ValueAfterRelease(core[c], value[c]), "idle", FALSE)
    BY <1>1, CompletionLetsGo
  <2> QED BY <1>2, <1>3, <2>1
<1>5. core' = [core EXCEPT ![c] = k] /\ value' = [value EXCEPT ![c] = v]
    BY <1>0, <1>2, <1>3 DEF CompletionReleases
<1>6. /\ completing' \in [core : Core \cup {NoCore}, accepted : BOOLEAN,
                         step : {"idle", "fill", "publish", "release"}]
      /\ completing'.core = NoCore /\ completing'.step = "idle"
    BY DEF CompletionReleases, Idle
<1>7. FuturesTypeOK'
    BY <1>4, <1>5, <1>6 DEF FuturesIInv, FuturesTypeOK, CompletionReleases
<1>8. CoherentAt(c)'
  <2>1. /\ core'[c] = k /\ handle'[c] = handle[c] /\ job'[c] = job[c]
        /\ value'[c] = v /\ StepOf(c)' = "idle"
      BY <1>4, <1>5, <1>6 DEF FuturesIInv, FuturesTypeOK, CompletionReleases, StepOf
  <2>2. AcceptedOf(c)' = FALSE
      BY <1>6, NoCoreIsNone DEF AcceptedOf
  <2> QED BY <1>4, <2>1, <2>2 DEF CoherentAt
<1>9. /\ {completing.core, completing'.core} \subseteq {c, NoCore}
      /\ completing'.core = NoCore <=> completing'.step = "idle"
    BY <1>0, <1>6
<1> QED BY <1>5, <1>7, <1>8, <1>9, OnlyMoves DEF FuturesIInv, FuturesTypeOK, CompletionReleases

\* The job's cancel flag and the moment a handle starts to let go are no part
\* of what keeps a future coherent, so FutureCancel, FutureFree and Drop share a proof.
LEMMA LettingGoIInv ==
    ASSUME FuturesIInv, NEW c \in Core, FutureCancel(c) \/ FutureFree(c) \/ Drop(c)
    PROVE  FuturesIInv'
<1>1. /\ core[c] \in CoreRecord /\ job[c] \in FutureJobRecord /\ value[c] \in ValueRecord
      /\ handle[c] = "held"
      /\ Coherent(core[c], "held", job[c], value[c], StepOf(c), AcceptedOf(c))
    BY OfOne DEF FutureCancel, FutureFree, Drop
<1>2. PICK j \in FutureJobRecord : j.at = job[c].at /\ job' = [job EXCEPT ![c] = j]
  <2>1. CASE job' = job
      BY <1>1, <2>1 DEF FuturesIInv, FuturesTypeOK
  <2>2. CASE job' = [job EXCEPT ![c].cancel = TRUE]
    <3>1. [job[c] EXCEPT !.cancel = TRUE] \in FutureJobRecord
        BY <1>1 DEF FutureJobRecord
    <3>2. [job[c] EXCEPT !.cancel = TRUE].at = job[c].at
        BY <1>1 DEF FutureJobRecord
    <3>3. job' = [job EXCEPT ![c] = [job[c] EXCEPT !.cancel = TRUE]]
        BY <2>2
    <3> QED BY <3>1, <3>2, <3>3
  <2> QED BY <2>1, <2>2 DEF FutureCancel, FutureFree, Drop
<1>3. /\ handle' \in [Core -> {"none", "held", "releasing"}]
      /\ handle'[c] \in {"held", "releasing"}
      /\ \A d \in Core \ {c} : handle'[d] = handle[d]
    BY <1>1 DEF FuturesIInv, FuturesTypeOK, FutureCancel, FutureFree, Drop
<1>4. UNCHANGED <<core, value, completing, closed>>
    BY DEF FutureCancel, FutureFree, Drop
<1>5. FuturesTypeOK'
    BY <1>2, <1>3, <1>4 DEF FuturesIInv, FuturesTypeOK
<1>6. CoherentAt(c)'
  <2>1. /\ core'[c] = core[c] /\ job'[c] = j /\ value'[c] = value[c]
        /\ StepOf(c)' = StepOf(c) /\ AcceptedOf(c)' = AcceptedOf(c)
      BY <1>2, <1>4 DEF FuturesIInv, FuturesTypeOK, StepOf, AcceptedOf
  <2>2. Counted(core[c], handle'[c], j, StepOf(c)) /\ EndsExact(j, value[c])
      BY <1>1, <1>2, <1>3 DEF Coherent, Counted, CountOf, Refers, EndsExact
  <2>3. /\ Filled(core[c], j, value[c], StepOf(c), AcceptedOf(c))
        /\ Settled(core[c], handle'[c], j, value[c], StepOf(c))
      BY <1>1, <1>2 DEF Coherent, Filled, Settled
  <2> QED BY <2>1, <2>2, <2>3 DEF CoherentAt, Coherent
<1> QED BY <1>2, <1>3, <1>4, <1>5, <1>6, OnlyMoves DEF FuturesIInv, FuturesTypeOK

LEMMA TakeIInv ==
    ASSUME FuturesIInv, NEW c \in Core, Take(c)
    PROVE  FuturesIInv'
<1>1. /\ core[c] \in CoreRecord /\ job[c] \in FutureJobRecord /\ value[c] \in ValueRecord
      /\ handle[c] = "held" /\ core[c].state = "ready"
      /\ StepOf(c) \in {"idle", "fill", "publish", "release"}
      /\ Coherent(core[c], "held", job[c], value[c], StepOf(c), AcceptedOf(c))
    BY OfOne DEF Take
<1>2. /\ job[c].at = "over" /\ core[c].memory = "live"
      /\ StepOf(c) \in {"idle", "release"}
      /\ value[c].at = "passed" /\ value[c].ends = 0
  <2>1. core[c].memory = "live"
      BY <1>1 DEF Coherent, Counted, CountOf, Refers, CoreRecord
  <2>2. job[c].at = "over" /\ StepOf(c) \in {"idle", "release"}
      BY <1>1 DEF Coherent, Counted, Filled, Unfilled, FutureJobRecord
  <2> QED BY <1>1, <2>1, <2>2 DEF Coherent, Settled, EndsExact
<1>3. PICK k \in CoreRecord : /\ core' = [core EXCEPT ![c] = k]
                              /\ ~k.filled /\ k.memory = "live"
                              /\ k.references = core[c].references
  <2> DEFINE k == [core[c] EXCEPT !.filled = FALSE]
  <2>1. k \in CoreRecord
      BY <1>1 DEF CoreRecord
  <2>2. k.memory = "live" /\ k.references = core[c].references
      BY <1>1, <1>2 DEF CoreRecord
  <2>3. ~k.filled
      BY <1>1 DEF CoreRecord
  <2>4. core' = [core EXCEPT ![c] = k]
      BY DEF Take
  <2> QED BY <2>1, <2>2, <2>3, <2>4
<1>4. PICK v \in ValueRecord : /\ value' = [value EXCEPT ![c] = v]
                               /\ v.at = "taken" /\ v.ends = 1
  <2>1. /\ Ended(value[c], "taken") \in ValueRecord
        /\ Ended(value[c], "taken").at = "taken"
        /\ Ended(value[c], "taken").ends = 1
      BY <1>1, <1>2, EndedFields
  <2>2. value' = [value EXCEPT ![c] = Ended(value[c], "taken")]
      BY DEF Take
  <2> QED BY <2>1, <2>2
<1>5. FuturesTypeOK'
  <2>1. handle' \in [Core -> {"none", "held", "releasing"}]
      BY DEF FuturesIInv, FuturesTypeOK, Take
  <2>2. core' \in [Core -> CoreRecord] /\ value' \in [Core -> ValueRecord]
      BY <1>3, <1>4 DEF FuturesIInv, FuturesTypeOK
  <2>3. UNCHANGED <<job, completing, closed>>
      BY DEF Take
  <2> QED BY <2>1, <2>2, <2>3 DEF FuturesIInv, FuturesTypeOK
<1>6. CoherentAt(c)'
  <2>1. /\ core'[c] = k /\ handle'[c] = "releasing" /\ job'[c] = job[c]
        /\ value'[c] = v /\ StepOf(c)' = StepOf(c) /\ AcceptedOf(c)' = AcceptedOf(c)
      BY <1>3, <1>4 DEF FuturesIInv, FuturesTypeOK, Take, StepOf, AcceptedOf
  <2>2. Counted(k, "releasing", job[c], StepOf(c)) /\ EndsExact(job[c], v)
      BY <1>1, <1>2, <1>3, <1>4 DEF Coherent, Counted, CountOf, Refers, EndsExact
  <2>3. /\ Filled(k, job[c], v, StepOf(c), AcceptedOf(c))
        /\ Settled(k, "releasing", job[c], v, StepOf(c))
      BY <1>2, <1>3, <1>4 DEF Filled, Settled
  <2> QED BY <2>1, <2>2, <2>3 DEF CoherentAt, Coherent
<1> QED BY <1>3, <1>4, <1>5, <1>6, OnlyMoves DEF FuturesIInv, FuturesTypeOK, Take

LEMMA HandleReleasesIInv ==
    ASSUME FuturesIInv, NEW c \in Core, HandleReleases(c)
    PROVE  FuturesIInv'
<1>1. PICK k : k = Released(core[c])
    OBVIOUS
<1>2. PICK v : v = ValueAfterRelease(core[c], value[c])
    OBVIOUS
<1>3. /\ k \in CoreRecord /\ v \in ValueRecord
      /\ Coherent(k, "none", job[c], v, StepOf(c), AcceptedOf(c))
    BY <1>1, <1>2, OfOne, HandleLetsGo DEF HandleReleases
<1>4. core' = [core EXCEPT ![c] = k] /\ value' = [value EXCEPT ![c] = v]
    BY <1>1, <1>2 DEF HandleReleases
<1>5. FuturesTypeOK'
    BY <1>3, <1>4 DEF FuturesIInv, FuturesTypeOK, HandleReleases
<1>6. CoherentAt(c)'
  <2>1. /\ core'[c] = k /\ handle'[c] = "none" /\ job'[c] = job[c]
        /\ value'[c] = v /\ StepOf(c)' = StepOf(c) /\ AcceptedOf(c)' = AcceptedOf(c)
      BY <1>3, <1>4 DEF FuturesIInv, FuturesTypeOK, HandleReleases, StepOf, AcceptedOf
  <2> QED BY <1>3, <2>1 DEF CoherentAt
<1> QED BY <1>4, <1>5, <1>6, OnlyMoves DEF FuturesIInv, FuturesTypeOK, HandleReleases

LEMMA SchedulerFreeIInv ==
    ASSUME FuturesIInv, SchedulerFree
    PROVE  FuturesIInv'
<1>1. ASSUME NEW c \in Core
      PROVE  /\ job'[c] \in FutureJobRecord
             /\ job'[c] # job[c] => job[c].at = "done" /\ job'[c].at = "lost"
  <2>1. [at |-> "lost", cancel |-> TRUE] \in FutureJobRecord
      BY DEF FutureJobRecord
  <2> QED BY <2>1, OfOne DEF SchedulerFree
<1>2. job' \in [Core -> FutureJobRecord]
    BY <1>1 DEF SchedulerFree
<1>3. FuturesTypeOK'
    BY <1>2 DEF FuturesIInv, FuturesTypeOK, SchedulerFree
<1>4. ASSUME NEW c \in Core PROVE CoherentAt(c)'
  <2>1. /\ core'[c] = core[c] /\ handle'[c] = handle[c] /\ value'[c] = value[c]
        /\ StepOf(c)' = StepOf(c) /\ AcceptedOf(c)' = AcceptedOf(c)
      BY DEF SchedulerFree, StepOf, AcceptedOf
  <2>2. /\ Coherent(core[c], handle[c], job[c], value[c], StepOf(c), AcceptedOf(c))
        /\ StepOf(c) = "idle"
      BY OfOne, NoCoreIsNone DEF SchedulerFree, OwnerRuns, Idle, StepOf
  <2>3. CASE job'[c] = job[c]
      BY <2>1, <2>2, <2>3 DEF CoherentAt
  <2>4. CASE job[c].at = "done" /\ job'[c].at = "lost"
    <3>1. Counted(core[c], handle[c], job'[c], "idle") /\ EndsExact(job'[c], value[c])
        BY <2>2, <2>4 DEF Coherent, Counted, CountOf, Refers, EndsExact
    <3>2. /\ Filled(core[c], job'[c], value[c], "idle", AcceptedOf(c))
          /\ Settled(core[c], handle[c], job'[c], value[c], "idle")
        BY <2>2, <2>4 DEF Coherent, Filled, Settled
    <3> QED BY <2>1, <2>2, <3>1, <3>2 DEF CoherentAt, Coherent
  <2> QED BY <1>1, <2>3, <2>4
<1> QED BY <1>3, <1>4 DEF FuturesIInv, SchedulerFree

LEMMA FuturesNextIInv == FuturesIInv /\ [FuturesNext]_futureVars => FuturesIInv'
<1> SUFFICES ASSUME FuturesIInv, [FuturesNext]_futureVars PROVE FuturesIInv'
    OBVIOUS
<1>1. CASE UNCHANGED futureVars
    BY <1>1 DEF futureVars, FuturesIInv, FuturesTypeOK, CoherentAt, StepOf, AcceptedOf
<1>2. ASSUME NEW c \in Core, Spawn(c) \/ SpawnRefused(c) \/ JobReturns(c) \/ Complete(c)
      PROVE  FuturesIInv'
    BY <1>2, SpawnIInv, SpawnRefusedIInv, WorkerReturnsIInv, CompleteIInv
<1>3. ASSUME NEW c \in Core,
             FutureCancel(c) \/ Take(c) \/ FutureFree(c) \/ Drop(c) \/ HandleReleases(c)
      PROVE  FuturesIInv'
    BY <1>3, LettingGoIInv, TakeIInv, HandleReleasesIInv
<1>4. CASE CompletionStep
    BY <1>4, FillIInv, PublishIInv, CompletionReleasesIInv DEF CompletionStep
<1>5. CASE SchedulerFree
    BY <1>5, SchedulerFreeIInv
<1> QED BY <1>1, <1>2, <1>3, <1>4, <1>5 DEF FuturesNext

-----------------------------------------------------------------------------
(* The theorems.                                                           *)

LEMMA Invariance == FuturesSpec => []FuturesIInv
    BY FuturesInitIInv, FuturesNextIInv, PTL DEF FuturesSpec

LEMMA RefersIsJobRefers ==
    ASSUME FuturesIInv, NEW c \in Core
    PROVE  JobRefers(c) <=> Refers(job[c], StepOf(c))
    BY NoCoreIsNone DEF FuturesIInv, JobRefers, Refers, StepOf

\* The types of futures, cores, jobs and completions.
THEOREM FuturesTyped == FuturesSpec => []FuturesTypeOK
<1>1. FuturesIInv => FuturesTypeOK
    BY DEF FuturesIInv
<1> QED BY <1>1, Invariance, PTL

\* The atomic count of a core is the number of parties that hold it, whichever
\* of them lets go first.
THEOREM ReferencesAreExact == FuturesSpec => []RefsExact
<1>1. FuturesIInv => RefsExact
    BY OfOne, CoherentFacts, RefersIsJobRefers DEF RefsExact, CountOf
<1> QED BY <1>1, Invariance, PTL

\* The last of job and handle frees the core; no one can reach it then, and
\* nobody else leaves it behind.
THEOREM LastPartyFrees == FuturesSpec => []FreedWithLast
<1>1. FuturesIInv => FreedWithLast
    BY OfOne, CoherentFacts, RefersIsJobRefers DEF FreedWithLast
<1> QED BY <1>1, Invariance, PTL

\* A result is taken or destroyed at most once, and before its core is gone.
THEOREM ResultsEndOnce == FuturesSpec => []ValueEndsOnce
<1>1. FuturesIInv => ValueEndsOnce
    BY OfOne, CoherentFacts DEF ValueEndsOnce
<1> QED BY <1>1, Invariance, PTL

\* A future that reports ready can be taken: the state is published after the
\* result is in place.
THEOREM ReadyIsTakeable == FuturesSpec => []ReadyMeansTakeable
<1>1. FuturesIInv => ReadyMeansTakeable
    BY OfOne, CoherentFacts DEF ReadyMeansTakeable
<1> QED BY <1>1, Invariance, PTL

-----------------------------------------------------------------------------
(* PART 3. TaskScopes. *)

-----------------------------------------------------------------------------
(* Numbers and sequences. *)

\* A set of naturals has a least element: the least of the intervals 0 .. y
\* under strict inclusion, which is well founded on finite sets.
LEMMA LeastNatural ==
    ASSUME NEW T \in SUBSET Nat, T # {}
    PROVE  \E x \in T : \A y \in T : x <= y
<1> DEFINE Intervals == {0 .. y : y \in T}
<1>1. IsWellFoundedOn(StrictSubsetOrdering(Nat), FiniteSubsetsOf(Nat))
  BY FS_StrictSubsetOrderingWellFounded
<1>2. Intervals \subseteq FiniteSubsetsOf(Nat) /\ Intervals # {}
  <2>1. \A y \in T : 0 .. y \subseteq Nat /\ IsFiniteSet(0 .. y)
    BY FS_Interval
  <2> QED BY <2>1 DEF FiniteSubsetsOf
<1>3. PICK i \in Intervals : \A j \in Intervals : <<j, i>> \notin StrictSubsetOrdering(Nat)
  <2> HIDE DEF Intervals
  <2> QED BY <1>1, <1>2, WFMin
<1>4. PICK x \in T : i = 0 .. x
  OBVIOUS
<1>5. ASSUME NEW y \in T, y < x PROVE FALSE
  <2>1. x \in 0 .. x /\ x \notin 0 .. y /\ 0 .. y \subseteq 0 .. x
    BY <1>5
  <2>2. 0 .. y \in Intervals /\ <<0 .. y, 0 .. x>> \in StrictSubsetOrdering(Nat)
    BY <2>1 DEF StrictSubsetOrdering
  <2> QED BY <1>3, <1>4, <2>2
<1> QED BY <1>5

-----------------------------------------------------------------------------
(* The table. *)

LEMMA TableTypes ==
    ASSUME NEW t \in TableRecord
    PROVE  /\ t.jobs \in Seq(JobRecord) /\ Len(t.jobs) \in Nat
           /\ DOMAIN t.jobs = 1 .. Len(t.jobs)
           /\ t.active \in Int
           /\ \A i \in DOMAIN t.jobs :
                /\ t.jobs[i] \in JobRecord
                /\ t.jobs[i].generation \in Nat /\ t.jobs[i].kind \in Kinds
                /\ t.jobs[i].background \in Block \cup {NoBlock}
<1>1. t.jobs \in Seq(JobRecord) /\ t.active \in Int
  BY DEF TableRecord
<1>2. \A i \in DOMAIN t.jobs : t.jobs[i] \in JobRecord
  BY <1>1
<1> QED BY <1>1, <1>2 DEF JobRecord

\* scheduler-slot! finds an empty slot, or the one behind the last.
LEMMA SlotFacts ==
    ASSUME NEW t \in TableRecord
    PROVE  /\ SlotFor(t) \in DOMAIN t.jobs =>
                 /\ t.jobs[SlotFor(t)].kind = "empty"
                 /\ NextGeneration(t) = t.jobs[SlotFor(t)].generation + 1
           /\ SlotFor(t) \notin DOMAIN t.jobs =>
                 SlotFor(t) = Len(t.jobs) + 1 /\ NextGeneration(t) = 1
           /\ SlotFor(t) \in 1 .. Len(t.jobs) + 1
           /\ NextGeneration(t) \in Nat \ {0}
<1>1. CASE Free(t) = {}
  BY <1>1, TableTypes DEF SlotFor, NextGeneration
<1>2. CASE Free(t) # {}
  <2>1. Free(t) \in SUBSET Nat /\ Free(t) \subseteq DOMAIN t.jobs
    BY TableTypes DEF Free
  <2>2. \E i \in Free(t) : \A j \in Free(t) : i <= j
    BY <1>2, <2>1, LeastNatural
  <2>3. SlotFor(t) \in Free(t)
    BY <1>2, <2>2 DEF SlotFor
  <2>4. t.jobs[SlotFor(t)].kind = "empty" /\ SlotFor(t) \in DOMAIN t.jobs
    BY <2>3 DEF Free
  <2>5. NextGeneration(t) = t.jobs[SlotFor(t)].generation + 1
    BY <1>2 DEF NextGeneration
  <2> QED BY <2>4, <2>5, TableTypes
<1> QED BY <1>1, <1>2

\* A new job goes into one slot, under the next generation.
LEMMA ActivateFacts ==
    ASSUME NEW t \in TableRecord, NEW kind \in Kinds, NEW d \in Deadlines \cup {0},
           NEW b \in Block \cup {NoBlock},
           NEW n, n = Activate(t, kind, d, b)
    PROVE  /\ n \in TableRecord
           /\ DOMAIN n.jobs = DOMAIN t.jobs \cup {SlotFor(t)}
           /\ n.jobs[SlotFor(t)] = [generation |-> NextGeneration(t), kind |-> kind,
                                    deadline |-> d, background |-> b]
           /\ \A i \in DOMAIN t.jobs : i # SlotFor(t) => n.jobs[i] = t.jobs[i]
<1> DEFINE j == [generation |-> NextGeneration(t), kind |-> kind,
                 deadline |-> d, background |-> b]
           s == SlotFor(t)
           jobs == IF s = Len(t.jobs) + 1 THEN Append(t.jobs, j)
                   ELSE [t.jobs EXCEPT ![s] = j]
<1>1. j \in JobRecord
  BY SlotFacts DEF JobRecord
<1>2. n = [t EXCEPT !.jobs = jobs, !.active = t.active + 1]
  BY DEF Activate, PutJob, TableRecord
<1>3. s \in 1 .. Len(t.jobs) + 1
  BY SlotFacts
<1>4. /\ jobs \in Seq(JobRecord)
      /\ DOMAIN jobs = DOMAIN t.jobs \cup {s}
      /\ jobs[s] = j
      /\ \A i \in DOMAIN t.jobs : i # s => jobs[i] = t.jobs[i]
  <2> HIDE DEF j, s
  <2>0. t.jobs \in Seq(JobRecord) /\ Len(t.jobs) \in Nat /\ DOMAIN t.jobs = 1 .. Len(t.jobs)
    BY TableTypes
  <2>1. CASE s = Len(t.jobs) + 1
    <3>1. jobs = Append(t.jobs, j)
      BY <2>1
    <3>2. /\ jobs \in Seq(JobRecord) /\ Len(jobs) = Len(t.jobs) + 1
          /\ jobs[s] = j /\ \A i \in 1 .. Len(t.jobs) : jobs[i] = t.jobs[i]
      BY <1>1, <2>0, <2>1, <3>1, AppendIndices
    <3> QED BY <2>0, <2>1, <3>2
  <2>2. CASE s # Len(t.jobs) + 1
    <3>1. jobs = [t.jobs EXCEPT ![s] = j] /\ s \in DOMAIN t.jobs
      BY <1>3, <2>0, <2>2
    <3> QED BY <1>1, <2>0, <3>1
  <2> QED BY <2>1, <2>2
<1> HIDE DEF jobs, s, j
<1>5. t.active + 1 \in Int
  BY TableTypes
<1> QED BY <1>2, <1>4, <1>5 DEF TableRecord, s, j

\* An emptied slot keeps its generation.
LEMMA EmptySlotFacts ==
    ASSUME NEW t \in TableRecord, NEW s \in DOMAIN t.jobs, NEW n, n = EmptySlot(t, s)
    PROVE  /\ n \in TableRecord
           /\ DOMAIN n.jobs = DOMAIN t.jobs
           /\ n.jobs[s] = EmptyJob(t.jobs[s].generation)
           /\ \A i \in DOMAIN t.jobs : i # s => n.jobs[i] = t.jobs[i]
<1> DEFINE jobs == [t.jobs EXCEPT ![s] = EmptyJob(t.jobs[s].generation)]
<1>1. n = [t EXCEPT !.jobs = jobs, !.active = t.active - 1]
  BY DEF EmptySlot, TableRecord
<1>2. EmptyJob(t.jobs[s].generation) \in JobRecord
  BY TableTypes DEF EmptyJob, JobRecord, Kinds
<1>3. /\ jobs \in Seq(JobRecord)
      /\ DOMAIN jobs = DOMAIN t.jobs
      /\ jobs[s] = EmptyJob(t.jobs[s].generation)
      /\ \A i \in DOMAIN t.jobs : i # s => jobs[i] = t.jobs[i]
  BY <1>2, TableTypes
<1> HIDE DEF jobs
<1>4. t.active - 1 \in Int
  BY TableTypes
<1> QED BY <1>1, <1>3, <1>4 DEF TableRecord

\* What a new job does to the handles: one that was never issued goes live.
LEMMA ActivateHandles ==
    ASSUME NEW t \in TableRecord, NEW kind \in Kinds \ {"empty"},
           NEW d \in Deadlines \cup {0}, NEW b \in Block \cup {NoBlock},
           NEW n, n = Activate(t, kind, d, b), NEW h \in Handle
    PROVE  /\ Issued(n, h) <=> Issued(t, h) \/ h = HandleFor(t)
           /\ Live(n, h) <=> Live(t, h) \/ h = HandleFor(t)
           /\ ~Issued(t, HandleFor(t))
           /\ Live(t, h) => h.slot # SlotFor(t)
<1>1. /\ DOMAIN n.jobs = DOMAIN t.jobs \cup {SlotFor(t)}
      /\ n.jobs[SlotFor(t)] = [generation |-> NextGeneration(t), kind |-> kind,
                               deadline |-> d, background |-> b]
      /\ \A i \in DOMAIN t.jobs : i # SlotFor(t) => n.jobs[i] = t.jobs[i]
  BY ActivateFacts
<1>2. /\ HandleFor(t).slot = SlotFor(t) /\ HandleFor(t).generation = NextGeneration(t)
      /\ h = HandleFor(t) <=> h.slot = SlotFor(t) /\ h.generation = NextGeneration(t)
  BY DEF HandleFor, Handle
<1>3. h.slot \in Nat /\ h.generation \in Nat \ {0}
  BY ScopeConstants DEF Handle
<1>4. CASE SlotFor(t) \in DOMAIN t.jobs
  <2>1. /\ t.jobs[SlotFor(t)].kind = "empty" /\ t.jobs[SlotFor(t)].generation \in Nat
        /\ NextGeneration(t) = t.jobs[SlotFor(t)].generation + 1
    BY <1>4, SlotFacts, TableTypes
  <2>2. ~Issued(t, HandleFor(t))
    BY <1>2, <2>1 DEF Issued
  <2>3. CASE h.slot = SlotFor(t)
    BY <1>1, <1>2, <1>3, <1>4, <2>1, <2>2, <2>3 DEF Issued, Live
  <2>4. CASE h.slot # SlotFor(t)
    BY <1>1, <1>2, <1>3, <2>2, <2>4 DEF Issued, Live
  <2> QED BY <2>3, <2>4
<1>5. CASE SlotFor(t) \notin DOMAIN t.jobs
  <2>1. NextGeneration(t) = 1
    BY <1>5, SlotFacts
  <2>2. CASE h.slot = SlotFor(t)
    BY <1>1, <1>2, <1>3, <1>5, <2>1, <2>2 DEF Issued, Live
  <2>3. CASE h.slot # SlotFor(t)
    BY <1>1, <1>2, <1>3, <1>5, <2>3 DEF Issued, Live
  <2> QED BY <2>2, <2>3
<1> QED BY <1>4, <1>5

\* What emptying a slot does to them: its handle ends, for good.
LEMMA EmptySlotHandles ==
    ASSUME NEW t \in TableRecord, NEW s \in DOMAIN t.jobs, t.jobs[s].kind # "empty",
           NEW n, n = EmptySlot(t, s), NEW h \in Handle
    PROVE  /\ Issued(n, h) <=> Issued(t, h)
           /\ Live(n, h) <=> Live(t, h) /\ h # HandleOf(t, s)
           /\ h = HandleOf(t, s) => Live(t, h)
<1>1. /\ DOMAIN n.jobs = DOMAIN t.jobs
      /\ n.jobs[s] = EmptyJob(t.jobs[s].generation)
      /\ \A i \in DOMAIN t.jobs : i # s => n.jobs[i] = t.jobs[i]
  BY EmptySlotFacts
<1>2. h = HandleOf(t, s) <=> h.slot = s /\ h.generation = t.jobs[s].generation
  BY DEF HandleOf, Handle
<1> QED BY <1>1, <1>2 DEF Issued, Live, EmptyJob

\* What removing some of the live foreground jobs does: their handles end, and
\* nothing else.
LEMMA WithoutFacts ==
    ASSUME NEW t \in TableRecord, NEW hs \in SUBSET Handle,
           NEW n, n = WithoutJobs(t, {h.slot : h \in Foreground(t, hs)})
    PROVE  /\ n \in TableRecord
           /\ DOMAIN n.jobs = DOMAIN t.jobs
           /\ \A i \in DOMAIN t.jobs :
                 \/ n.jobs[i] = t.jobs[i]
                 \/ /\ n.jobs[i].kind = "empty"
                    /\ n.jobs[i].generation = t.jobs[i].generation
           /\ \A h \in Handle :
                 /\ Issued(n, h) <=> Issued(t, h)
                 /\ Live(n, h) <=> Live(t, h) /\ h \notin Foreground(t, hs)
                 /\ Live(n, h) => n.jobs[h.slot] = t.jobs[h.slot]
           /\ {i \in DOMAIN n.jobs : n.jobs[i].kind # "empty"} =
                 {i \in DOMAIN t.jobs : t.jobs[i].kind # "empty"}
                    \ {h.slot : h \in Foreground(t, hs)}
           /\ {h.slot : h \in Foreground(t, hs)} \subseteq
                 {i \in DOMAIN t.jobs : t.jobs[i].kind # "empty"}
<1> DEFINE gone == {h.slot : h \in Foreground(t, hs)}
           jobs == [i \in DOMAIN t.jobs |->
                      IF i \in gone THEN EmptyJob(t.jobs[i].generation) ELSE t.jobs[i]]
<1>1. gone \subseteq {i \in DOMAIN t.jobs : t.jobs[i].kind # "empty"}
  BY DEF Foreground, Live
<1>2. n = [jobs |-> jobs, active |-> t.active - Cardinality(gone)]
  BY DEF WithoutJobs
<1>3. \A i \in DOMAIN t.jobs : /\ EmptyJob(t.jobs[i].generation) \in JobRecord
                               /\ EmptyJob(t.jobs[i].generation).kind = "empty"
                               /\ EmptyJob(t.jobs[i].generation).generation
                                    = t.jobs[i].generation
  BY TableTypes DEF EmptyJob, JobRecord, Kinds
<1>4. Cardinality(gone) \in Nat
  <2>1. IsFiniteSet(1 .. Len(t.jobs))
    <3>1. 1 \in Int /\ Len(t.jobs) \in Int
      BY TableTypes
    <3> QED BY <3>1, FS_Interval
  <2>2. gone \subseteq 1 .. Len(t.jobs)
    BY <1>1, TableTypes
  <2> HIDE DEF gone
  <2> QED BY <2>1, <2>2, FS_Subset, FS_CardinalityType
<1>5. jobs \in Seq(JobRecord) /\ DOMAIN jobs = DOMAIN t.jobs
  <2>1. jobs \in [1 .. Len(t.jobs) -> JobRecord]
    BY <1>3, TableTypes
  <2> HIDE DEF jobs
  <2> QED BY <2>1, TableTypes
<1>6. \A i \in DOMAIN t.jobs : IF i \in gone THEN /\ jobs[i].kind = "empty"
                                                  /\ jobs[i].generation = t.jobs[i].generation
                                             ELSE jobs[i] = t.jobs[i]
  <2> HIDE DEF gone
  <2> QED BY <1>3
<1>7. n \in TableRecord /\ n.jobs = jobs
  <2> HIDE DEF jobs, gone
  <2> QED BY <1>2, <1>4, <1>5, TableTypes DEF TableRecord
<1> HIDE DEF jobs
<1>8. ASSUME NEW h \in Handle, Live(t, h), h.slot \in gone
      PROVE  h \in Foreground(t, hs)
  <2>1. PICK k \in Foreground(t, hs) : k.slot = h.slot
    BY <1>8
  <2>2. Live(t, k) /\ k \in Handle
    BY DEF Foreground
  <2>3. k.generation = h.generation
    BY <1>8, <2>1, <2>2 DEF Live
  <2>4. k = h
    BY <2>1, <2>2, <2>3 DEF Handle
  <2> QED BY <2>4
<1>9. \A h \in Foreground(t, hs) : h.slot \in gone
  OBVIOUS
<1> HIDE DEF gone
<1>10. ASSUME NEW h \in Handle
       PROVE  /\ Issued(n, h) <=> Issued(t, h)
              /\ Live(n, h) <=> Live(t, h) /\ h \notin Foreground(t, hs)
              /\ Live(n, h) => n.jobs[h.slot] = t.jobs[h.slot]
  <2>1. Issued(n, h) <=> Issued(t, h)
    BY <1>5, <1>6, <1>7 DEF Issued
  <2>2. CASE h.slot \in gone
    BY <1>1, <1>5, <1>6, <1>7, <1>8, <2>1, <2>2 DEF Live
  <2>3. CASE h.slot \notin gone
    BY <1>5, <1>6, <1>7, <1>9, <2>1, <2>3 DEF Live
  <2> QED BY <2>2, <2>3
<1>11. {i \in DOMAIN n.jobs : n.jobs[i].kind # "empty"} =
           {i \in DOMAIN t.jobs : t.jobs[i].kind # "empty"} \ gone
  BY <1>5, <1>6, <1>7
<1>12. \A i \in DOMAIN t.jobs :
          \/ n.jobs[i] = t.jobs[i]
          \/ n.jobs[i].kind = "empty" /\ n.jobs[i].generation = t.jobs[i].generation
  BY <1>6, <1>7
<1> QED BY <1>1, <1>5, <1>7, <1>10, <1>11, <1>12 DEF gone

-----------------------------------------------------------------------------
(* Pruning. *)

\* What a pass has done to the handles hs when it has read n of them.
PassOK(s, hs, n, pass) ==
    /\ pass \in [handles : Seq(Handle), write : 0 .. n]
    /\ Len(pass.handles) = Len(hs)
    /\ \A i \in n + 1 .. Len(hs) : pass.handles[i] = hs[i]
    /\ \A i \in 1 .. n :
          Live(s, hs[i]) => \E j \in 1 .. pass.write : pass.handles[j] = hs[i]
    /\ \A j \in 1 .. Len(hs) : \E i \in 1 .. Len(hs) : pass.handles[j] = hs[i]

LEMMA PassStarts ==
    ASSUME NEW s, NEW hs \in Seq(Handle)
    PROVE  PassOK(s, hs, 0, [handles |-> hs, write |-> 0])
  BY DEF PassOK

\* A read never overtakes a write, so it finds the handle that was there.
LEMMA PassAdvances ==
    ASSUME NEW s, NEW hs \in Seq(Handle), NEW n \in 1 .. Len(hs), NEW pass,
           PassOK(s, hs, n - 1, pass)
    PROVE  PassOK(s, hs, n, KeepHandle(s, pass, n))
<1>0. Len(hs) \in Nat /\ n \in Nat /\ n >= 1 /\ n <= Len(hs) /\ n - 1 + 1 = n
  OBVIOUS
<1>1. pass \in [handles : Seq(Handle), write : 0 .. n - 1] /\ Len(pass.handles) = Len(hs)
  BY DEF PassOK
<1>2. \A i \in n .. Len(hs) : pass.handles[i] = hs[i]
  BY <1>0 DEF PassOK
<1>3. \A i \in 1 .. n - 1 :
         Live(s, hs[i]) => \E j \in 1 .. pass.write : pass.handles[j] = hs[i]
  BY DEF PassOK
<1>4. \A j \in 1 .. Len(hs) : \E i \in 1 .. Len(hs) : pass.handles[j] = hs[i]
  BY DEF PassOK
<1>5. pass.handles \in Seq(Handle) /\ pass.write \in Nat /\ pass.write <= n - 1
  BY <1>0, <1>1
<1>6. n \in n .. Len(hs) /\ n \in 1 .. Len(hs)
  BY <1>0
<1>7. pass.handles[n] = hs[n]
  BY <1>2, <1>6
<1>8. hs[n] \in Handle
  BY <1>6
<1>9. \A i \in n + 1 .. Len(hs) : i \in n .. Len(hs)
  BY <1>0
<1>10. CASE ~Live(s, hs[n])
  <2>1. KeepHandle(s, pass, n) = pass
    BY <1>7, <1>10 DEF KeepHandle
  <2>2. pass.write \in 0 .. n
    BY <1>0, <1>5
  <2>3. pass \in [handles : Seq(Handle), write : 0 .. n]
    BY <1>1, <2>2
  <2>4. \A i \in 1 .. n : i = n \/ i \in 1 .. n - 1
    BY <1>0
  <2>5. \A i \in 1 .. n :
           Live(s, hs[i]) => \E j \in 1 .. pass.write : pass.handles[j] = hs[i]
    BY <1>3, <1>10, <2>4
  <2>6. \A i \in n + 1 .. Len(hs) : pass.handles[i] = hs[i]
    BY <1>2, <1>9
  <2> QED BY <1>1, <1>4, <2>1, <2>3, <2>5, <2>6 DEF PassOK
<1>11. CASE Live(s, hs[n])
  <2> DEFINE w == pass.write + 1
             new == [pass.handles EXCEPT ![w] = hs[n]]
  <2>1. KeepHandle(s, pass, n) = [handles |-> new, write |-> w]
    BY <1>7, <1>11 DEF KeepHandle
  <2>2. w \in Nat /\ w >= 1 /\ w <= n /\ w \in 1 .. w /\ w \in 1 .. Len(hs)
    BY <1>0, <1>5
  <2>3. DOMAIN pass.handles = 1 .. Len(hs)
    BY <1>1, <1>5
  <2>4. \A j \in 1 .. pass.write : j \in 1 .. w /\ j # w /\ j \in 1 .. Len(hs)
    BY <1>0, <1>5
  <2> HIDE DEF w
  <2>5. /\ new \in Seq(Handle) /\ Len(new) = Len(hs)
        /\ new[w] = hs[n]
        /\ \A j \in 1 .. Len(hs) : j # w => new[j] = pass.handles[j]
    BY <1>1, <1>5, <1>8, <2>2, <2>3
  <2> HIDE DEF new
  <2>6. \A i \in n + 1 .. Len(hs) : i # w /\ i \in 1 .. Len(hs)
    BY <1>0, <2>2
  <2>7. \A i \in n + 1 .. Len(hs) : new[i] = hs[i]
    BY <1>2, <1>9, <2>5, <2>6
  <2>8. ASSUME NEW i \in 1 .. n, Live(s, hs[i])
        PROVE  \E j \in 1 .. w : new[j] = hs[i]
    <3>1. CASE i = n
      BY <2>2, <2>5, <3>1
    <3>2. CASE i # n
      <4>1. i \in 1 .. n - 1
        BY <1>0, <3>2
      <4>2. PICK j \in 1 .. pass.write : pass.handles[j] = hs[i]
        BY <1>3, <2>8, <4>1
      <4> QED BY <2>4, <2>5, <4>2
    <3> QED BY <3>1, <3>2
  <2>9. ASSUME NEW j \in 1 .. Len(hs) PROVE \E i \in 1 .. Len(hs) : new[j] = hs[i]
    <3>1. CASE j = w
      BY <1>6, <2>5, <3>1
    <3>2. CASE j # w
      BY <1>4, <2>5, <3>2
    <3> QED BY <3>1, <3>2
  <2>10. w \in 0 .. n
    BY <1>0, <2>2
  <2> QED BY <2>1, <2>5, <2>7, <2>8, <2>9, <2>10 DEF PassOK
<1> QED BY <1>10, <1>11

\* The pass, as the function that Pruned is defined by.
PassSteps(s, hs) ==
    LET after[n \in 0 .. Len(hs)] ==
            IF n = 0 THEN [handles |-> hs, write |-> 0]
            ELSE KeepHandle(s, after[n - 1], n)
    IN  after

\* The recursion is well defined: a first length it fails at cannot exist.
LEMMA PassDefined ==
    ASSUME NEW s, NEW hs \in Seq(Handle)
    PROVE  PassSteps(s, hs) =
              [n \in 0 .. Len(hs) |->
                  IF n = 0 THEN [handles |-> hs, write |-> 0]
                  ELSE KeepHandle(s, PassSteps(s, hs)[n - 1], n)]
<1> DEFINE start == [handles |-> hs, write |-> 0]
           Steps(f, m) == f = [n \in 0 .. m |-> IF n = 0 THEN start
                                                ELSE KeepHandle(s, f[n - 1], n)]
           Fails == {m \in Nat : ~\E f : Steps(f, m)}
<1>1. ASSUME Fails # {} PROVE FALSE
  <2>1. PICK m \in Fails : \A k \in Fails : m <= k
    BY <1>1, LeastNatural
  <2>2. CASE m = 0
    <3>1. Steps([n \in 0 .. 0 |-> start], 0)
      OBVIOUS
    <3> QED BY <2>2, <3>1
  <2>3. CASE m # 0
    <3>1. m - 1 \in Nat /\ m \in Nat /\ m - 1 \notin Fails
      <4>1. m \in Nat
        OBVIOUS
      <4> HIDE DEF Fails
      <4> QED BY <2>1, <2>3, <4>1
    <3>2. PICK f : Steps(f, m - 1)
      BY <3>1
    <3> DEFINE g == [n \in 0 .. m |-> IF n = m THEN KeepHandle(s, f[m - 1], m) ELSE f[n]]
    <3>3. \A n \in 0 .. m - 1 : g[n] = f[n]
      BY <3>1
    <3>4. ASSUME NEW n \in 0 .. m
          PROVE  g[n] = IF n = 0 THEN start ELSE KeepHandle(s, g[n - 1], n)
      <4>1. CASE n = m
        <5>1. g[m] = KeepHandle(s, f[m - 1], m) /\ m - 1 \in 0 .. m - 1
          BY <3>1
        <5> QED BY <2>3, <3>3, <4>1, <5>1
      <4>2. CASE n = 0
        <5>1. f[0] = start
          BY <3>1, <3>2
        <5> QED BY <2>3, <3>1, <3>3, <4>2, <5>1
      <4>3. CASE n # m /\ n # 0
        <5>1. n \in 0 .. m - 1 /\ n - 1 \in 0 .. m - 1
          BY <3>1, <4>3
        <5>2. f[n] = KeepHandle(s, f[n - 1], n)
          BY <3>2, <4>3, <5>1
        <5>3. g[n] = f[n] /\ g[n - 1] = f[n - 1]
          BY <3>3, <5>1
        <5> QED BY <4>3, <5>2, <5>3
      <4> QED BY <4>1, <4>2, <4>3
    <3>5. Steps(g, m)
      BY <3>4
    <3> HIDE DEF g
    <3> QED BY <2>1, <3>5
  <2> QED BY <2>2, <2>3
<1>2. Len(hs) \notin Fails
  <2> HIDE DEF Fails
  <2> QED BY <1>1
<1>3. \E f : Steps(f, Len(hs))
  BY <1>2
<1>4. PassSteps(s, hs) = CHOOSE f : Steps(f, Len(hs))
  BY DEF PassSteps
<1>5. Steps(PassSteps(s, hs), Len(hs))
  <2> HIDE DEF Steps
  <2> QED BY <1>3, <1>4
<1> QED BY <1>5

\* A pass is right after every read, by the same argument.
LEMMA PassesRight ==
    ASSUME NEW s, NEW hs \in Seq(Handle), NEW n \in 0 .. Len(hs)
    PROVE  PassOK(s, hs, n, PassSteps(s, hs)[n])
<1> DEFINE Wrong == {m \in Nat : m <= Len(hs) /\ ~PassOK(s, hs, m, PassSteps(s, hs)[m])}
<1>1. ASSUME Wrong # {} PROVE FALSE
  <2>1. PICK m \in Wrong : \A k \in Wrong : m <= k
    BY <1>1, LeastNatural
  <2>2. CASE m = 0
    <3>1. PassSteps(s, hs)[0] = [handles |-> hs, write |-> 0]
      BY PassDefined
    <3> QED BY <2>1, <2>2, <3>1, PassStarts
  <2>3. CASE m # 0
    <3>1. m \in 1 .. Len(hs) /\ m \in 0 .. Len(hs) /\ m - 1 \in Nat
          /\ m - 1 <= Len(hs)
      BY <2>1, <2>3
    <3>2. PassOK(s, hs, m - 1, PassSteps(s, hs)[m - 1])
      BY <2>1, <3>1
    <3>3. PassSteps(s, hs)[m] = KeepHandle(s, PassSteps(s, hs)[m - 1], m)
      BY <2>3, <3>1, PassDefined
    <3> QED BY <2>1, <3>1, <3>2, <3>3, PassAdvances
  <2> QED BY <2>2, <2>3
<1> HIDE DEF Wrong
<1>2. n \notin Wrong
  BY <1>1
<1> QED BY <1>2 DEF Wrong

\* task-scope-prune! keeps every live handle, and invents none.
LEMMA PrunedFacts ==
    ASSUME NEW s, NEW hs \in Seq(Handle)
    PROVE  /\ Pruned(s, hs) \in Seq(Handle)
           /\ \A i \in 1 .. Len(hs) : Live(s, hs[i]) =>
                 \E j \in 1 .. Len(Pruned(s, hs)) : Pruned(s, hs)[j] = hs[i]
           /\ \A j \in 1 .. Len(Pruned(s, hs)) :
                 \E i \in 1 .. Len(hs) : Pruned(s, hs)[j] = hs[i]
<1>1. PICK pass : pass = PassSteps(s, hs)[Len(hs)]
  OBVIOUS
<1>2. Len(hs) \in Nat /\ Len(hs) \in 0 .. Len(hs)
  OBVIOUS
<1>3. PassOK(s, hs, Len(hs), pass)
  BY <1>1, <1>2, PassesRight
<1>4. /\ pass.handles \in Seq(Handle) /\ pass.write \in 0 .. Len(hs)
      /\ Len(pass.handles) = Len(hs)
      /\ \A i \in 1 .. Len(hs) :
            Live(s, hs[i]) => \E j \in 1 .. pass.write : pass.handles[j] = hs[i]
      /\ \A j \in 1 .. Len(hs) : \E i \in 1 .. Len(hs) : pass.handles[j] = hs[i]
  BY <1>3 DEF PassOK
<1>5. Pruned(s, hs) = SubSeq(pass.handles, 1, pass.write)
  BY <1>1 DEF Pruned, PruneCut, PassSteps
<1>6. /\ Pruned(s, hs) \in Seq(Handle)
      /\ Len(Pruned(s, hs)) = pass.write
      /\ \A j \in 1 .. pass.write : Pruned(s, hs)[j] = pass.handles[j]
  <2>1. \A j \in 1 .. pass.write : pass.handles[j] \in Handle
    BY <1>2, <1>4
  <2>2. /\ SubSeq(pass.handles, 1, pass.write) \in Seq(Handle)
        /\ Len(SubSeq(pass.handles, 1, pass.write)) =
              IF 1 <= pass.write THEN pass.write - 1 + 1 ELSE 0
        /\ \A j \in 1 .. pass.write - 1 + 1 :
              SubSeq(pass.handles, 1, pass.write)[j] = pass.handles[1 + j - 1]
    BY <1>4, <2>1, SubSeqProperties
  <2>3. pass.write \in Nat /\ pass.write - 1 + 1 = pass.write
    BY <1>4
  <2>4. \A j \in 1 .. pass.write : 1 + j - 1 = j
    OBVIOUS
  <2> QED BY <1>5, <2>2, <2>3, <2>4
<1>7. \A j \in 1 .. pass.write : j \in 1 .. Len(hs)
  BY <1>2, <1>4
<1> QED BY <1>4, <1>6, <1>7

-----------------------------------------------------------------------------
(* The inductive invariant. *)

\* The jobs that work has are in blocks of their own.
BlocksApart(t) ==
    \A i \in WorkSlots(t) :
        /\ t.jobs[i].background \in Block
        /\ \A j \in WorkSlots(t) : t.jobs[i].background = t.jobs[j].background => i = j

\* A handle that was not handed out is nobody's.
FreshIsNobodys ==
    \A h \in Handle : ~Issued(table, h) =>
        owner[h] = NoScope /\ h \notin asked /\ h \notin withdrawn

\* A scope tracks only what was started through it.
TrackedOwned == \A sc \in Scope : \A h \in Tracked(sc) : owner[h] = sc

Safe ==
    /\ TypeOK /\ BlocksApart(table) /\ FreshIsNobodys /\ TrackedOwned
    /\ ScopeCovers /\ CancelExact

\* The flag of the job in a slot, told from the job and the blocks.
LEMMA SafeTypes ==
    ASSUME Safe
    PROVE  /\ table \in TableRecord /\ work \in [Block -> WorkRecord]
           /\ owner \in [Handle -> Scope \cup {NoScope}]
           /\ scopes \in [Scope -> ScopeRecord]
           /\ asked \subseteq Handle /\ withdrawn \subseteq Handle
           /\ BlocksApart(table)
           /\ \A sc \in Scope : /\ scopes[sc].handles \in Seq(Handle)
                                /\ DOMAIN scopes[sc].handles = 1 .. Len(scopes[sc].handles)
                                /\ Tracked(sc) \subseteq Handle
           /\ table.active =
                 Cardinality({i \in DOMAIN table.jobs : table.jobs[i].kind # "empty"})
           /\ IsFiniteSet({i \in DOMAIN table.jobs : table.jobs[i].kind # "empty"})
<1>1. /\ table \in TableRecord /\ work \in [Block -> WorkRecord]
      /\ owner \in [Handle -> Scope \cup {NoScope}]
      /\ scopes \in [Scope -> ScopeRecord]
      /\ asked \subseteq Handle /\ withdrawn \subseteq Handle
      /\ BlocksApart(table)
      /\ table.active =
            Cardinality({i \in DOMAIN table.jobs : table.jobs[i].kind # "empty"})
  BY DEF Safe, TypeOK
<1>2. ASSUME NEW sc \in Scope
      PROVE  /\ scopes[sc].handles \in Seq(Handle)
             /\ DOMAIN scopes[sc].handles = 1 .. Len(scopes[sc].handles)
             /\ Tracked(sc) \subseteq Handle
  <2>1. scopes[sc].handles \in Seq(Handle)
    BY <1>1 DEF ScopeRecord
  <2> QED BY <2>1 DEF Tracked
<1>3. IsFiniteSet({i \in DOMAIN table.jobs : table.jobs[i].kind # "empty"})
  <2>1. DOMAIN table.jobs = 1 .. Len(table.jobs) /\ Len(table.jobs) \in Nat
    BY <1>1, TableTypes
  <2>2. IsFiniteSet(DOMAIN table.jobs)
    BY <2>1, FS_Interval
  <2> QED BY <2>2, FS_Subset
<1> QED BY <1>1, <1>2, <1>3

-----------------------------------------------------------------------------
(* What the calls do to the jobs. *)

Busy(t) == {i \in DOMAIN t.jobs : t.jobs[i].kind # "empty"}

\* A start adds one job, not cancelled, under a handle that was nobody's.
LEMMA StartFacts ==
    ASSUME Safe, Start, NEW k \in Handle, k = HandleFor(table)
    PROVE  /\ table' \in TableRecord /\ work' \in [Block -> WorkRecord]
           /\ BlocksApart(table')
           /\ table'.active = Cardinality(Busy(table'))
           /\ ~Issued(table, k) /\ ~Live(table, k)
           /\ \A h \in Handle : /\ Issued(table', h) <=> Issued(table, h) \/ h = k
                                /\ Live(table', h) <=> Live(table, h) \/ h = k
           /\ ~Cancelled(k)'
           /\ \A h \in Handle : h # k => (Cancelled(h)' <=> Cancelled(h))
<1>0. /\ table \in TableRecord /\ work \in [Block -> WorkRecord] /\ BlocksApart(table)
      /\ table.active = Cardinality(Busy(table)) /\ IsFiniteSet(Busy(table))
  BY SafeTypes DEF Busy
<1>1. PICK kind \in {"immediate", "timer", "work"}, d \in Deadlines \cup {0},
           b \in Block \cup {NoBlock} :
         /\ table' = Activate(table, kind, d, b)
         /\ kind # "work" => UNCHANGED work
         /\ kind = "work" =>
               /\ b \in FreeBlocks
               /\ \E patient \in Patience :
                     work' = [work EXCEPT ![b] = [patient |-> patient, cancel |-> FALSE,
                                                  done |-> FALSE]]
  BY DEF Start, FreeBlocks
<1>2. kind \in Kinds \ {"empty"} /\ kind \in Kinds /\ kind # "empty"
  BY DEF Kinds
<1> DEFINE s == SlotFor(table)
<1>3. /\ table' \in TableRecord
      /\ DOMAIN table'.jobs = DOMAIN table.jobs \cup {s}
      /\ table'.jobs[s] = [generation |-> NextGeneration(table), kind |-> kind,
                           deadline |-> d, background |-> b]
      /\ \A i \in DOMAIN table.jobs : i # s => table'.jobs[i] = table.jobs[i]
  BY <1>0, <1>1, <1>2, ActivateFacts
<1>4. /\ ~Issued(table, k)
      /\ \A h \in Handle : /\ Issued(table', h) <=> Issued(table, h) \/ h = k
                           /\ Live(table', h) <=> Live(table, h) \/ h = k
                           /\ Live(table, h) => h.slot # s
  BY <1>0, <1>1, <1>2, ActivateHandles
<1>5. k.slot = s
  BY DEF HandleFor
<1>6. s \in DOMAIN table.jobs => table.jobs[s].kind = "empty"
  BY <1>0, SlotFacts
<1>7. table'.jobs[s].kind = kind /\ table'.jobs[s].background = b
  BY <1>3
<1> HIDE DEF s
<1>8. WorkSlots(table') = IF kind = "work" THEN WorkSlots(table) \cup {s} ELSE WorkSlots(table)
  BY <1>2, <1>3, <1>6, <1>7 DEF WorkSlots
<1>9. \A i \in WorkSlots(table) : i \in DOMAIN table.jobs /\ i # s
                                  /\ table'.jobs[i] = table.jobs[i]
  BY <1>3, <1>6 DEF WorkSlots
<1>10. kind = "work" => b \in Block /\ \A i \in WorkSlots(table) : table.jobs[i].background # b
  BY <1>1 DEF FreeBlocks
<1>11. BlocksApart(table')
  BY <1>0, <1>7, <1>8, <1>9, <1>10 DEF BlocksApart
<1>12. table'.active = Cardinality(Busy(table'))
  <2>1. Busy(table') = Busy(table) \cup {s} /\ s \notin Busy(table)
    BY <1>2, <1>3, <1>6, <1>7 DEF Busy
  <2>2. table'.active = table.active + 1
    BY <1>0, <1>1 DEF Activate, PutJob, TableRecord
  <2> QED BY <1>0, <2>1, <2>2, FS_AddElement
<1>13. /\ work' \in [Block -> WorkRecord]
       /\ kind = "work" => work'[b].cancel = FALSE
       /\ \A c \in Block : (kind = "work" => c # b) => work'[c] = work[c]
  <2>1. CASE kind = "work"
    <3>1. PICK patient \in Patience :
             work' = [work EXCEPT ![b] = [patient |-> patient, cancel |-> FALSE,
                                          done |-> FALSE]]
      BY <1>1, <2>1
    <3>2. [patient |-> patient, cancel |-> FALSE, done |-> FALSE] \in WorkRecord
      BY ScopeConstants DEF WorkRecord
    <3> QED BY <1>0, <1>10, <2>1, <3>1, <3>2
  <2>2. CASE kind # "work"
    BY <1>0, <1>1, <2>2
  <2> QED BY <2>1, <2>2
<1>14. ~Cancelled(k)'
  BY <1>5, <1>7, <1>13 DEF Cancelled
<1>15. ASSUME NEW h \in Handle, h # k PROVE Cancelled(h)' <=> Cancelled(h)
  <2>1. Live(table', h) <=> Live(table, h)
    BY <1>4, <1>15
  <2>2. ASSUME Live(table, h), table.jobs[h.slot].kind = "work"
        PROVE  work'[table.jobs[h.slot].background] = work[table.jobs[h.slot].background]
    <3>1. h.slot \in WorkSlots(table)
      BY <2>2 DEF Live, WorkSlots
    <3>2. table.jobs[h.slot].background \in Block
      BY <1>0, <3>1 DEF BlocksApart
    <3> QED BY <1>10, <1>13, <3>1, <3>2
  <2>3. Live(table, h) => table'.jobs[h.slot] = table.jobs[h.slot]
    BY <1>3, <1>4 DEF Live
  <2> QED BY <2>1, <2>2, <2>3 DEF Cancelled
<1>16. ~Live(table, k)
  <2>1. k.generation \in Nat \ {0}
    BY ScopeConstants DEF Handle
  <2> QED BY <1>4, <2>1 DEF Live, Issued
<1> QED BY <1>3, <1>4, <1>11, <1>12, <1>13, <1>14, <1>15, <1>16

\* Cancelling handles removes foreground jobs and flags work, of these alone.
LEMMA CancelFacts ==
    ASSUME Safe, NEW hs \in SUBSET Handle, CancelHandles(hs)
    PROVE  /\ table' \in TableRecord /\ work' \in [Block -> WorkRecord]
           /\ BlocksApart(table')
           /\ table'.active = Cardinality(Busy(table'))
           /\ withdrawn' = withdrawn \cup Foreground(table, hs)
           /\ \A h \in Handle :
                 /\ Issued(table', h) <=> Issued(table, h)
                 /\ Live(table', h) <=> Live(table, h) /\ h \notin Foreground(table, hs)
                 /\ Cancelled(h)' <=> \/ Cancelled(h)
                                      \/ h \in hs /\ Live(table, h)
                                         /\ table.jobs[h.slot].kind = "work"
<1>0. /\ table \in TableRecord /\ work \in [Block -> WorkRecord] /\ BlocksApart(table)
      /\ table.active = Cardinality(Busy(table)) /\ IsFiniteSet(Busy(table))
  BY SafeTypes DEF Busy
<1> DEFINE gone == {h.slot : h \in Foreground(table, hs)}
<1>1. table' = WithoutJobs(table, gone) /\ withdrawn' = withdrawn \cup Foreground(table, hs)
  BY DEF CancelHandles
<1>2. /\ table' \in TableRecord
      /\ DOMAIN table'.jobs = DOMAIN table.jobs
      /\ \A i \in DOMAIN table.jobs :
            \/ table'.jobs[i] = table.jobs[i]
            \/ /\ table'.jobs[i].kind = "empty"
               /\ table'.jobs[i].generation = table.jobs[i].generation
      /\ \A h \in Handle :
            /\ Issued(table', h) <=> Issued(table, h)
            /\ Live(table', h) <=> Live(table, h) /\ h \notin Foreground(table, hs)
            /\ Live(table', h) => table'.jobs[h.slot] = table.jobs[h.slot]
      /\ Busy(table') = Busy(table) \ gone /\ gone \subseteq Busy(table)
  BY <1>0, <1>1, WithoutFacts DEF Busy
<1>3. \A i \in WorkSlots(table') : i \in WorkSlots(table) /\ table'.jobs[i] = table.jobs[i]
  BY <1>2 DEF WorkSlots
<1>4. BlocksApart(table')
  BY <1>0, <1>3 DEF BlocksApart
<1>5. table'.active = Cardinality(Busy(table'))
  <2>1. table'.active = table.active - Cardinality(gone)
    BY <1>1 DEF WithoutJobs
  <2> HIDE DEF gone
  <2>2. Busy(table) \cap gone = gone
    BY <1>2
  <2>3. Cardinality(Busy(table) \ gone) = Cardinality(Busy(table)) - Cardinality(Busy(table) \cap gone)
    BY <1>0, FS_Difference
  <2> QED BY <1>0, <1>2, <2>1, <2>2, <2>3
<1> HIDE DEF gone
<1>6. /\ work' \in [Block -> WorkRecord]
      /\ \A b \in Block : work'[b].cancel <=> work[b].cancel \/ b \in Flagged(table, hs)
  <2>1. work' = [b \in Block |-> IF b \in Flagged(table, hs)
                                 THEN [work[b] EXCEPT !.cancel = TRUE] ELSE work[b]]
    BY DEF CancelHandles
  <2> QED BY <1>0, <2>1 DEF WorkRecord
<1>7. ASSUME NEW h \in Handle
      PROVE  Cancelled(h)' <=> \/ Cancelled(h)
                               \/ h \in hs /\ Live(table, h) /\ table.jobs[h.slot].kind = "work"
  <2>1. CASE ~(Live(table, h) /\ table.jobs[h.slot].kind = "work")
    BY <1>2, <2>1 DEF Cancelled
  <2>2. CASE Live(table, h) /\ table.jobs[h.slot].kind = "work"
    <3>1. h.slot \in WorkSlots(table) /\ table.jobs[h.slot].background \in Block
      BY <1>0, <2>2 DEF Live, WorkSlots, BlocksApart
    <3>2. Live(table', h) /\ table'.jobs[h.slot] = table.jobs[h.slot]
      BY <1>2, <2>2 DEF Foreground
    <3>3. table.jobs[h.slot].background \in Flagged(table, hs) <=> h \in hs
      <4>1. h \in hs => table.jobs[h.slot].background \in Flagged(table, hs)
        BY <2>2 DEF Flagged
      <4>2. ASSUME table.jobs[h.slot].background \in Flagged(table, hs)
            PROVE  h \in hs
        <5>1. PICK k \in hs : /\ Live(table, k) /\ table.jobs[k.slot].kind = "work"
                              /\ table.jobs[k.slot].background = table.jobs[h.slot].background
          BY <4>2 DEF Flagged
        <5>2. k.slot \in WorkSlots(table)
          BY <5>1 DEF Live, WorkSlots
        <5>3. k.slot = h.slot
          BY <1>0, <3>1, <5>1, <5>2 DEF BlocksApart
        <5>4. k.generation = h.generation
          BY <2>2, <5>1, <5>3 DEF Live
        <5>5. k = h
          BY <5>3, <5>4 DEF Handle
        <5> QED BY <5>5
      <4> QED BY <4>1, <4>2
    <3> QED BY <1>6, <2>2, <3>1, <3>2, <3>3 DEF Cancelled
  <2> QED BY <2>1, <2>2
<1> QED BY <1>1, <1>2, <1>4, <1>5, <1>6, <1>7

\* A delivery ends one handle and nothing else.
LEMMA DeliverFacts ==
    ASSUME Safe, NEW i \in 1 .. MaxSlots, Deliver(i)
    PROVE  /\ table' \in TableRecord
           /\ BlocksApart(table')
           /\ table'.active = Cardinality(Busy(table'))
           /\ \A h \in Handle :
                 /\ Issued(table', h) <=> Issued(table, h)
                 /\ Live(table', h) => Live(table, h)
                 /\ Cancelled(h)' <=> Cancelled(h) /\ Live(table', h)
<1>0. /\ table \in TableRecord /\ BlocksApart(table)
      /\ table.active = Cardinality(Busy(table)) /\ IsFiniteSet(Busy(table))
  BY SafeTypes DEF Busy
<1>1. /\ i \in DOMAIN table.jobs /\ table.jobs[i].kind # "empty"
      /\ table' = EmptySlot(table, i) /\ UNCHANGED work
  BY DEF Deliver
<1>2. /\ table' \in TableRecord
      /\ DOMAIN table'.jobs = DOMAIN table.jobs
      /\ table'.jobs[i] = EmptyJob(table.jobs[i].generation)
      /\ \A j \in DOMAIN table.jobs : j # i => table'.jobs[j] = table.jobs[j]
  BY <1>0, <1>1, EmptySlotFacts
<1>3. table'.jobs[i].kind = "empty"
  BY <1>2 DEF EmptyJob
<1>4. \A h \in Handle : /\ Issued(table', h) <=> Issued(table, h)
                        /\ Live(table', h) => Live(table, h)
  BY <1>0, <1>1, EmptySlotHandles
<1>5. \A j \in WorkSlots(table') : j \in WorkSlots(table) /\ table'.jobs[j] = table.jobs[j]
  BY <1>2, <1>3 DEF WorkSlots
<1>6. BlocksApart(table')
  BY <1>0, <1>5 DEF BlocksApart
<1>7. table'.active = Cardinality(Busy(table'))
  <2>1. Busy(table') = Busy(table) \ {i} /\ i \in Busy(table)
    BY <1>1, <1>2, <1>3 DEF Busy
  <2>2. table'.active = table.active - 1
    BY <1>0, <1>1 DEF EmptySlot, TableRecord
  <2>3. Cardinality(Busy(table) \ {i}) = Cardinality(Busy(table)) - 1
    BY <1>0, <2>1, FS_RemoveElement
  <2> QED BY <1>0, <2>1, <2>2, <2>3
<1>8. ASSUME NEW h \in Handle PROVE Cancelled(h)' <=> Cancelled(h) /\ Live(table', h)
  <2>1. CASE Live(table', h)
    <3>1. h.slot \in DOMAIN table.jobs /\ table'.jobs[h.slot] = table.jobs[h.slot]
      BY <1>2, <1>3, <2>1 DEF Live
    <3> QED BY <1>1, <1>4, <2>1, <3>1 DEF Cancelled
  <2>2. CASE ~Live(table', h)
    BY <2>2 DEF Cancelled
  <2> QED BY <2>1, <2>2
<1> QED BY <1>2, <1>4, <1>6, <1>7, <1>8

\* A worker's return sets its done flag and no other.
LEMMA ReturnFacts ==
    ASSUME Safe, NEW b \in Block, WorkerReturns(b)
    PROVE  /\ work' \in [Block -> WorkRecord] /\ UNCHANGED table
           /\ \A h \in Handle : Cancelled(h)' <=> Cancelled(h)
<1>0. table \in TableRecord /\ work \in [Block -> WorkRecord] /\ BlocksApart(table)
  BY SafeTypes
<1>1. work' = [work EXCEPT ![b].done = TRUE] /\ UNCHANGED table
  BY DEF WorkerReturns
<1>2. work' \in [Block -> WorkRecord] /\ \A c \in Block : work'[c].cancel = work[c].cancel
  BY <1>0, <1>1 DEF WorkRecord
<1>3. ASSUME NEW h \in Handle PROVE Cancelled(h)' <=> Cancelled(h)
  <2>1. Live(table, h) /\ table.jobs[h.slot].kind = "work" =>
           table.jobs[h.slot].background \in Block
    BY <1>0 DEF Live, WorkSlots, BlocksApart
  <2> QED BY <1>1, <1>2, <2>1 DEF Cancelled
<1> QED BY <1>1, <1>2, <1>3

-----------------------------------------------------------------------------
(* The steps. *)

\* A live handle was handed out.
LEMMA LiveIsIssued ==
    ASSUME NEW t \in TableRecord, NEW h \in Handle, Live(t, h)
    PROVE  Issued(t, h)
<1>1. h.generation \in Nat /\ h.generation >= 1
  BY ScopeConstants DEF Handle
<1>2. t.jobs[h.slot].generation = h.generation /\ h.slot \in DOMAIN t.jobs
  BY DEF Live
<1> QED BY <1>1, <1>2 DEF Issued

\* The invariant in terms of single handles and scopes.
LEMMA SafeParts ==
    ASSUME Safe
    PROVE  /\ \A h \in Handle : ~Issued(table, h) =>
                 owner[h] = NoScope /\ h \notin asked /\ h \notin withdrawn
           /\ \A sc \in Scope : \A h \in Tracked(sc) : owner[h] = sc
           /\ \A sc \in Scope, h \in Handle :
                 ~scopes[sc].closed /\ owner[h] = sc /\ Live(table, h) => h \in Tracked(sc)
           /\ \A h \in Handle :
                 owner[h] # NoScope /\ scopes[owner[h]].closed /\ Live(table, h) =>
                    Cancelled(h)
           /\ \A h \in Handle :
                 h \in withdrawn \/ Cancelled(h) =>
                    h \in asked \/ (owner[h] # NoScope /\ scopes[owner[h]].closed)
<1>1. FreshIsNobodys /\ TrackedOwned /\ ScopeCovers /\ CancelExact
  BY DEF Safe
<1>2. \A sc \in Scope, h \in Handle :
         ~scopes[sc].closed /\ owner[h] = sc /\ Live(table, h) => h \in Tracked(sc)
  BY <1>1 DEF ScopeCovers, LiveOf
<1> QED BY <1>1, <1>2 DEF FreshIsNobodys, TrackedOwned, CancelExact

\* A job started outside the scopes is nobody's.
LEMMA StartOutsideKeeps ==
    ASSUME Safe, StartOutside
    PROVE  Safe'
<1> DEFINE k == HandleFor(table)
<1>1. Start /\ UNCHANGED <<scopes, owner, asked, withdrawn>> /\ k \in Handle
  BY DEF StartOutside, Start, Room
<1>2. PICK n \in Handle : n = k
  BY <1>1
<1>3. /\ table' \in TableRecord /\ work' \in [Block -> WorkRecord]
      /\ BlocksApart(table') /\ table'.active = Cardinality(Busy(table'))
      /\ ~Issued(table, n)
      /\ \A h \in Handle : /\ Issued(table', h) <=> Issued(table, h) \/ h = n
                           /\ Live(table', h) <=> Live(table, h) \/ h = n
      /\ ~Cancelled(n)'
      /\ \A h \in Handle : h # n => (Cancelled(h)' <=> Cancelled(h))
  BY <1>1, <1>2, StartFacts
<1> HIDE DEF k
<1>4. owner[n] = NoScope /\ n \notin asked /\ n \notin withdrawn
  BY <1>3, SafeParts
<1>5. TypeOK'
  BY <1>1, <1>3, SafeTypes DEF TypeOK, Busy
<1>6. FreshIsNobodys'
  BY <1>1, <1>3, SafeParts DEF FreshIsNobodys
<1>7. TrackedOwned'
  BY <1>1, SafeParts DEF TrackedOwned, Tracked
<1>8. ScopeCovers'
  <2>1. \A sc \in Scope : Tracked(sc)' = Tracked(sc)
    BY <1>1 DEF Tracked
  <2>2. ASSUME NEW sc \in Scope, ~scopes'[sc].closed,
               NEW h \in Handle, owner'[h] = sc, Live(table', h)
        PROVE  h \in Tracked(sc)'
    BY <1>1, <1>3, <1>4, <2>1, <2>2, SafeParts, ScopeConstants
  <2> QED BY <2>2 DEF ScopeCovers, LiveOf
<1>9. CancelExact'
  BY <1>1, <1>3, <1>4, SafeParts DEF CancelExact
<1> QED BY <1>3, <1>5, <1>6, <1>7, <1>8, <1>9 DEF Safe

\* What appending a handle does to the handles of a scope.
LEMMA AppendedHandles ==
    ASSUME NEW f \in Seq(Handle), NEW e \in Handle
    PROVE  /\ Append(f, e) \in Seq(Handle)
           /\ {Append(f, e)[i] : i \in DOMAIN Append(f, e)} =
                 {f[i] : i \in DOMAIN f} \cup {e}
<1> DEFINE g == Append(f, e)
<1>1. /\ g \in Seq(Handle) /\ Len(f) \in Nat /\ Len(g) = Len(f) + 1
      /\ \A i \in 1 .. Len(f) : g[i] = f[i]
      /\ g[Len(f) + 1] = e
  BY AppendIndices
<1> HIDE DEF g
<1>2. DOMAIN f = 1 .. Len(f) /\ DOMAIN g = 1 .. Len(f) + 1
  BY <1>1
<1>3. \A i : i \in 1 .. Len(f) + 1 <=> i \in 1 .. Len(f) \/ i = Len(f) + 1
  BY <1>1
<1>4. {g[i] : i \in DOMAIN g} = {f[i] : i \in DOMAIN f} \cup {e}
  BY <1>1, <1>2, <1>3
<1> QED BY <1>1, <1>4 DEF g

\* A job started through an open scope is tracked by it.
LEMMA StartInKeeps ==
    ASSUME Safe, NEW sc \in Scope, StartIn(sc)
    PROVE  Safe'
<1> DEFINE k == HandleFor(table)
<1>1. /\ Start /\ UNCHANGED <<asked, withdrawn>> /\ k \in Handle /\ ~scopes[sc].closed
      /\ scopes' = [scopes EXCEPT ![sc].handles = Append(@, k)]
      /\ owner' = [owner EXCEPT ![k] = sc]
  BY DEF StartIn, Start, Room
<1>2. PICK n \in Handle : n = k
  BY <1>1
<1>3. /\ table' \in TableRecord /\ work' \in [Block -> WorkRecord]
      /\ BlocksApart(table') /\ table'.active = Cardinality(Busy(table'))
      /\ ~Issued(table, n)
      /\ \A h \in Handle : /\ Issued(table', h) <=> Issued(table, h) \/ h = n
                           /\ Live(table', h) <=> Live(table, h) \/ h = n
      /\ ~Cancelled(n)'
      /\ \A h \in Handle : h # n => (Cancelled(h)' <=> Cancelled(h))
  BY <1>1, <1>2, StartFacts
<1>4. /\ scopes' = [scopes EXCEPT ![sc].handles = Append(@, n)]
      /\ owner' = [owner EXCEPT ![n] = sc]
  BY <1>1, <1>2
<1> HIDE DEF k
<1>5. owner[n] = NoScope /\ n \notin asked /\ n \notin withdrawn
  BY <1>3, SafeParts
<1>6. /\ owner'[n] = sc /\ sc # NoScope
      /\ owner' \in [Handle -> Scope \cup {NoScope}]
      /\ \A h \in Handle : h # n => owner'[h] = owner[h]
  BY <1>4, SafeTypes, ScopeConstants
<1>7. scopes' \in [Scope -> ScopeRecord] /\ Tracked(sc)' = Tracked(sc) \cup {n}
      /\ \A x \in Scope : /\ scopes'[x].closed = scopes[x].closed
                          /\ x # sc => Tracked(x)' = Tracked(x)
  <2>1. scopes \in [Scope -> ScopeRecord] /\ scopes[sc].handles \in Seq(Handle)
    BY SafeTypes
  <2> DEFINE g == Append(scopes[sc].handles, n)
  <2>2. g \in Seq(Handle) /\ {g[i] : i \in DOMAIN g} = Tracked(sc) \cup {n}
    BY <2>1, AppendedHandles DEF Tracked
  <2>3. scopes' = [scopes EXCEPT ![sc] = [scopes[sc] EXCEPT !.handles = g]]
    BY <1>4, <2>1
  <2> HIDE DEF g
  <2>4. scopes' \in [Scope -> ScopeRecord] /\ scopes'[sc].handles = g
        /\ \A x \in Scope : /\ scopes'[x].closed = scopes[x].closed
                            /\ x # sc => scopes'[x] = scopes[x]
    BY <2>1, <2>2, <2>3 DEF ScopeRecord
  <2>5. Tracked(sc)' = {g[i] : i \in DOMAIN g}
    BY <2>4 DEF Tracked
  <2>6. \A x \in Scope : x # sc => Tracked(x)' = Tracked(x)
    BY <2>4 DEF Tracked
  <2> QED BY <2>2, <2>4, <2>5, <2>6
<1>8. TypeOK'
  BY <1>1, <1>3, <1>6, <1>7, SafeTypes DEF TypeOK, Busy
<1>9. FreshIsNobodys'
  BY <1>1, <1>3, <1>6, SafeParts DEF FreshIsNobodys
<1>10. TrackedOwned'
  <2>1. ASSUME NEW x \in Scope, NEW h \in Tracked(x)' PROVE owner'[h] = x
    <3>1. CASE x = sc /\ h = n
      BY <1>6, <3>1
    <3>2. CASE ~(x = sc /\ h = n)
      <4>1. h \in Tracked(x)
        BY <1>7, <2>1, <3>2
      <4>2. h \in Handle /\ owner[h] = x
        BY <4>1, SafeParts, SafeTypes
      <4>3. h # n
        BY <1>5, <4>2, ScopeConstants
      <4> QED BY <1>6, <4>2, <4>3
    <3> QED BY <3>1, <3>2
  <2> QED BY <2>1 DEF TrackedOwned
<1>11. ScopeCovers'
  <2>1. ASSUME NEW x \in Scope, ~scopes'[x].closed,
               NEW h \in Handle, owner'[h] = x, Live(table', h)
        PROVE  h \in Tracked(x)'
    <3>1. CASE h = n
      BY <1>6, <1>7, <2>1, <3>1
    <3>2. CASE h # n
      <4>1. h \in Tracked(x)
        BY <1>3, <1>6, <1>7, <2>1, <3>2, SafeParts
      <4> QED BY <1>7, <4>1
    <3> QED BY <3>1, <3>2
  <2> QED BY <2>1 DEF ScopeCovers, LiveOf
<1>12. CancelExact'
  <2>1. ASSUME NEW h \in Handle
        PROVE  /\ owner'[h] # NoScope /\ scopes'[owner'[h]].closed /\ Live(table', h) =>
                     Cancelled(h)'
               /\ h \in withdrawn' \/ Cancelled(h)' =>
                     h \in asked' \/ (owner'[h] # NoScope /\ scopes'[owner'[h]].closed)
    <3>1. CASE h = n
      BY <1>1, <1>3, <1>5, <1>6, <1>7, <3>1
    <3>2. CASE h # n
      <4>1. owner'[h] = owner[h] /\ owner[h] \in Scope \cup {NoScope}
        BY <1>6, <3>2, SafeTypes
      <4>2. owner[h] # NoScope => scopes'[owner[h]].closed = scopes[owner[h]].closed
        BY <1>7, <4>1
      <4> QED BY <1>1, <1>3, <3>2, <4>1, <4>2, SafeParts
    <3> QED BY <3>1, <3>2
  <2> QED BY <2>1 DEF CancelExact
<1> QED BY <1>3, <1>8, <1>9, <1>10, <1>11, <1>12 DEF Safe

\* Pruning drops stale handles of one scope and nothing else.
LEMMA PruneKeeps ==
    ASSUME Safe, NEW sc \in Scope, Prune(sc)
    PROVE  Safe'
<1> DEFINE p == Pruned(table, scopes[sc].handles)
<1>1. /\ UNCHANGED <<table, work, owner, asked, withdrawn>>
      /\ scopes' = [scopes EXCEPT ![sc].handles = p]
  BY SafeTypes DEF Prune
<1>2. scopes \in [Scope -> ScopeRecord] /\ scopes[sc].handles \in Seq(Handle)
      /\ DOMAIN scopes[sc].handles = 1 .. Len(scopes[sc].handles)
  BY SafeTypes
<1>3. /\ p \in Seq(Handle)
      /\ \A i \in 1 .. Len(scopes[sc].handles) : Live(table, scopes[sc].handles[i]) =>
            \E j \in 1 .. Len(p) : p[j] = scopes[sc].handles[i]
      /\ \A j \in 1 .. Len(p) : \E i \in 1 .. Len(scopes[sc].handles) :
            p[j] = scopes[sc].handles[i]
  BY <1>2, PrunedFacts
<1> HIDE DEF p
<1>4. DOMAIN p = 1 .. Len(p)
  BY <1>3
<1>5. scopes' \in [Scope -> ScopeRecord] /\ scopes'[sc].handles = p
      /\ \A x \in Scope : /\ scopes'[x].closed = scopes[x].closed
                          /\ x # sc => scopes'[x] = scopes[x]
  BY <1>1, <1>2, <1>3 DEF ScopeRecord
<1>6. /\ \A h : h \in Tracked(sc)' <=> \E j \in 1 .. Len(p) : h = p[j]
      /\ \A h : h \in Tracked(sc) <=>
            \E i \in 1 .. Len(scopes[sc].handles) : h = scopes[sc].handles[i]
  <2>1. Tracked(sc)' = {p[j] : j \in DOMAIN p}
    BY <1>5 DEF Tracked
  <2>2. Tracked(sc) = {scopes[sc].handles[i] : i \in DOMAIN scopes[sc].handles}
    BY DEF Tracked
  <2> QED BY <1>2, <1>4, <2>1, <2>2
<1>7. \A h \in Tracked(sc)' : h \in Tracked(sc)
  BY <1>3, <1>6
<1>8. ASSUME NEW h \in Tracked(sc), Live(table, h) PROVE h \in Tracked(sc)'
  <2>1. PICK i \in 1 .. Len(scopes[sc].handles) : h = scopes[sc].handles[i]
    BY <1>6
  <2>2. Live(table, scopes[sc].handles[i])
    BY <1>8, <2>1
  <2>3. PICK j \in 1 .. Len(p) : p[j] = scopes[sc].handles[i]
    BY <1>3, <2>2
  <2> QED BY <1>6, <2>1, <2>3
<1>9. \A x \in Scope : x # sc => Tracked(x)' = Tracked(x)
  BY <1>5 DEF Tracked
<1>10. TypeOK' /\ BlocksApart(table')
  BY <1>1, <1>5, SafeTypes DEF TypeOK
<1>11. FreshIsNobodys'
  BY <1>1, SafeParts DEF FreshIsNobodys
<1>12. TrackedOwned'
  BY <1>1, <1>7, <1>9, SafeParts DEF TrackedOwned
<1>13. ScopeCovers'
  <2>1. ASSUME NEW x \in Scope, ~scopes'[x].closed,
               NEW h \in Handle, owner'[h] = x, Live(table', h)
        PROVE  h \in Tracked(x)'
    <3>1. h \in Tracked(x) /\ Live(table, h)
      BY <1>1, <1>5, <2>1, SafeParts
    <3> QED BY <1>8, <1>9, <3>1
  <2> QED BY <2>1 DEF ScopeCovers, LiveOf
<1>14. CancelExact'
  <2>1. \A h \in Handle : Cancelled(h)' <=> Cancelled(h)
    BY <1>1 DEF Cancelled
  <2>2. \A h \in Handle : owner[h] # NoScope => owner[h] \in Scope
    BY SafeTypes
  <2> QED BY <1>1, <1>5, <2>1, <2>2, SafeParts DEF CancelExact
<1> QED BY <1>10, <1>11, <1>12, <1>13, <1>14 DEF Safe

\* A cancellation by the program answers to the handles it was asked for.
LEMMA CancelKeeps ==
    ASSUME Safe, NEW k \in Handle, Cancel(k)
    PROVE  Safe'
<1>1. /\ CancelHandles({k}) /\ asked' = asked \cup {k} /\ UNCHANGED <<scopes, owner>>
      /\ Issued(table, k)
  BY DEF Cancel
<1>2. {k} \in SUBSET Handle
  OBVIOUS
<1>3. /\ table' \in TableRecord /\ work' \in [Block -> WorkRecord]
      /\ BlocksApart(table') /\ table'.active = Cardinality(Busy(table'))
      /\ withdrawn' = withdrawn \cup Foreground(table, {k})
      /\ \A h \in Handle :
            /\ Issued(table', h) <=> Issued(table, h)
            /\ Live(table', h) <=> Live(table, h) /\ h \notin Foreground(table, {k})
            /\ Cancelled(h)' <=> \/ Cancelled(h)
                                 \/ h \in {k} /\ Live(table, h)
                                    /\ table.jobs[h.slot].kind = "work"
  BY <1>1, <1>2, CancelFacts
<1>4. Foreground(table, {k}) \subseteq {k}
  BY DEF Foreground
<1>5. TypeOK'
  <2>1. withdrawn' \subseteq Handle /\ asked' \subseteq Handle
    BY <1>1, <1>3, <1>4, SafeTypes
  <2> QED BY <1>1, <1>3, <2>1, SafeTypes DEF TypeOK, Busy
<1>6. FreshIsNobodys'
  BY <1>1, <1>3, <1>4, SafeParts DEF FreshIsNobodys
<1>7. \A x \in Scope : Tracked(x)' = Tracked(x)
  BY <1>1 DEF Tracked
<1>8. TrackedOwned'
  BY <1>1, <1>7, SafeParts DEF TrackedOwned
<1>9. ScopeCovers'
  <2>1. ASSUME NEW x \in Scope, ~scopes'[x].closed,
               NEW h \in Handle, owner'[h] = x, Live(table', h)
        PROVE  h \in Tracked(x)'
    BY <1>1, <1>3, <1>7, <2>1, SafeParts
  <2> QED BY <2>1 DEF ScopeCovers, LiveOf
<1>10. CancelExact'
  BY <1>1, <1>3, <1>4, SafeParts DEF CancelExact
<1> QED BY <1>3, <1>5, <1>6, <1>8, <1>9, <1>10 DEF Safe

\* Closing a scope reaches all its jobs, since it tracks the live ones, and no
\* other, since it tracks only its own.
LEMMA CancelScopeKeeps ==
    ASSUME Safe, NEW sc \in Scope, CancelScope(sc)
    PROVE  Safe'
<1> DEFINE gone == Foreground(table, Tracked(sc))
<1>1. /\ CancelHandles(Tracked(sc)) /\ UNCHANGED <<owner, asked>>
      /\ scopes' = [scopes EXCEPT ![sc] = [handles |-> <<>>, closed |-> TRUE]]
  BY DEF CancelScope, Tracked
<1>2. Tracked(sc) \in SUBSET Handle
  BY SafeTypes
<1>3. /\ table' \in TableRecord /\ work' \in [Block -> WorkRecord]
      /\ BlocksApart(table') /\ table'.active = Cardinality(Busy(table'))
      /\ withdrawn' = withdrawn \cup gone
      /\ \A h \in Handle :
            /\ Issued(table', h) <=> Issued(table, h)
            /\ Live(table', h) <=> Live(table, h) /\ h \notin gone
            /\ Cancelled(h)' <=> \/ Cancelled(h)
                                 \/ h \in Tracked(sc) /\ Live(table, h)
                                    /\ table.jobs[h.slot].kind = "work"
  BY <1>1, <1>2, CancelFacts
<1>4. \A h \in gone : h \in Tracked(sc) /\ Live(table, h) /\ h \in Handle
  BY <1>2 DEF Foreground
<1>5. \A h \in Tracked(sc) : Live(table, h) /\ h \notin gone => table.jobs[h.slot].kind = "work"
  BY DEF Foreground
<1> HIDE DEF gone
<1>6. /\ scopes' \in [Scope -> ScopeRecord]
      /\ scopes'[sc].closed /\ scopes'[sc].handles = <<>>
      /\ \A x \in Scope : x # sc => scopes'[x] = scopes[x]
  <2>1. [handles |-> <<>>, closed |-> TRUE] \in ScopeRecord
    BY DEF ScopeRecord
  <2> QED BY <1>1, <2>1, SafeTypes
<1>7. Tracked(sc)' = {} /\ \A x \in Scope : x # sc => Tracked(x)' = Tracked(x)
  BY <1>6 DEF Tracked
<1>8. TypeOK'
  <2>1. withdrawn' \subseteq Handle
    BY <1>3, <1>4, SafeTypes
  <2> QED BY <1>1, <1>3, <1>6, <2>1, SafeTypes DEF TypeOK, Busy
<1>9. FreshIsNobodys'
  <2>1. \A h \in gone : Issued(table, h)
    BY <1>4, SafeTypes, LiveIsIssued
  <2> QED BY <1>1, <1>3, <2>1, SafeParts DEF FreshIsNobodys
<1>10. TrackedOwned'
  BY <1>1, <1>7, SafeParts DEF TrackedOwned
<1>11. ScopeCovers'
  <2>1. ASSUME NEW x \in Scope, ~scopes'[x].closed,
               NEW h \in Handle, owner'[h] = x, Live(table', h)
        PROVE  h \in Tracked(x)'
    BY <1>1, <1>3, <1>6, <1>7, <2>1, SafeParts
  <2> QED BY <2>1 DEF ScopeCovers, LiveOf
<1>12. CancelExact'
  <2>1. ASSUME NEW h \in Handle, owner'[h] # NoScope, scopes'[owner'[h]].closed,
               Live(table', h)
        PROVE  Cancelled(h)'
    <3>1. owner'[h] = owner[h] /\ owner[h] \in Scope /\ Live(table, h) /\ h \notin gone
      BY <1>1, <1>3, <2>1, SafeTypes
    <3>2. CASE scopes[owner[h]].closed
      BY <1>3, <3>1, <3>2, SafeParts, ScopeConstants
    <3>3. CASE ~scopes[owner[h]].closed
      <4>1. owner[h] = sc /\ h \in Tracked(sc)
        BY <1>6, <2>1, <3>1, <3>3, SafeParts
      <4> QED BY <1>3, <1>5, <3>1, <4>1
    <3> QED BY <3>2, <3>3
  <2>2. ASSUME NEW h \in Handle, h \in withdrawn' \/ Cancelled(h)', h \notin asked'
        PROVE  owner'[h] # NoScope /\ scopes'[owner'[h]].closed
    <3>1. CASE h \in Tracked(sc)
      <4>1. owner[h] = sc
        BY <3>1, SafeParts
      <4> QED BY <1>1, <1>6, <4>1, ScopeConstants
    <3>2. CASE h \notin Tracked(sc)
      <4>1. h \in withdrawn \/ Cancelled(h)
        BY <1>3, <1>4, <2>2, <3>2
      <4>2. owner[h] # NoScope /\ scopes[owner[h]].closed /\ owner[h] \in Scope
        BY <1>1, <2>2, <4>1, SafeParts, SafeTypes
      <4> QED BY <1>1, <1>6, <4>2
    <3> QED BY <3>1, <3>2
  <2> QED BY <2>1, <2>2 DEF CancelExact
<1> QED BY <1>3, <1>8, <1>9, <1>10, <1>11, <1>12 DEF Safe

\* A delivered job is no longer live, and keeps the flags of the others.
LEMMA DeliverKeeps ==
    ASSUME Safe, NEW i \in 1 .. MaxSlots, Deliver(i)
    PROVE  Safe'
<1>1. UNCHANGED <<scopes, work, owner, asked, withdrawn>>
  BY DEF Deliver
<1>2. /\ table' \in TableRecord /\ BlocksApart(table')
      /\ table'.active = Cardinality(Busy(table'))
      /\ \A h \in Handle :
            /\ Issued(table', h) <=> Issued(table, h)
            /\ Live(table', h) => Live(table, h)
            /\ Cancelled(h)' <=> Cancelled(h) /\ Live(table', h)
  BY DeliverFacts
<1>3. TypeOK'
  BY <1>1, <1>2, SafeTypes DEF TypeOK, Busy
<1>4. FreshIsNobodys'
  BY <1>1, <1>2, SafeParts DEF FreshIsNobodys
<1>5. \A x \in Scope : Tracked(x)' = Tracked(x)
  BY <1>1 DEF Tracked
<1>6. TrackedOwned'
  BY <1>1, <1>5, SafeParts DEF TrackedOwned
<1>7. ScopeCovers'
  <2>1. ASSUME NEW x \in Scope, ~scopes'[x].closed,
               NEW h \in Handle, owner'[h] = x, Live(table', h)
        PROVE  h \in Tracked(x)'
    BY <1>1, <1>2, <1>5, <2>1, SafeParts
  <2> QED BY <2>1 DEF ScopeCovers, LiveOf
<1>8. CancelExact'
  BY <1>1, <1>2, SafeParts DEF CancelExact
<1> QED BY <1>2, <1>3, <1>4, <1>6, <1>7, <1>8 DEF Safe

LEMMA WorkerReturnsKeeps ==
    ASSUME Safe, NEW b \in Block, WorkerReturns(b)
    PROVE  Safe'
<1>1. UNCHANGED <<table, scopes, owner, asked, withdrawn>>
  BY DEF WorkerReturns
<1>2. work' \in [Block -> WorkRecord] /\ \A h \in Handle : Cancelled(h)' <=> Cancelled(h)
  BY ReturnFacts
<1>3. TypeOK' /\ BlocksApart(table')
  BY <1>1, <1>2, SafeTypes DEF TypeOK
<1>4. FreshIsNobodys'
  BY <1>1, SafeParts DEF FreshIsNobodys
<1>5. TrackedOwned' /\ ScopeCovers'
  BY <1>1 DEF Safe, TrackedOwned, ScopeCovers, LiveOf, Tracked
<1>6. CancelExact'
  BY <1>1, <1>2, SafeParts DEF CancelExact
<1> QED BY <1>3, <1>4, <1>5, <1>6 DEF Safe

-----------------------------------------------------------------------------
(* The theorems. *)

LEMMA InitSafe == Init => Safe
<1> SUFFICES ASSUME Init PROVE Safe
  OBVIOUS
<1>1. /\ table = [jobs |-> <<>>, active |-> 0] /\ asked = {} /\ withdrawn = {}
      /\ scopes = [sc \in Scope |-> [handles |-> <<>>, closed |-> FALSE]]
      /\ work = [b \in Block |-> [patient |-> FALSE, cancel |-> FALSE, done |-> FALSE]]
      /\ owner = [h \in Handle |-> NoScope]
  BY DEF Init, EmptyTable
<1>2. \A h : ~Live(table, h) /\ ~Cancelled(h)
  BY <1>1 DEF Live, Cancelled
<1>3. table \in TableRecord /\ DOMAIN table.jobs = {} /\ table.active = 0
  BY <1>1 DEF TableRecord
<1>4. table.active = Cardinality({i \in DOMAIN table.jobs : table.jobs[i].kind # "empty"})
  <2>1. {i \in DOMAIN table.jobs : table.jobs[i].kind # "empty"} = {}
    BY <1>3
  <2> QED BY <1>3, <2>1, FS_EmptySet
<1>5. TypeOK
  BY <1>1, <1>3, <1>4 DEF TypeOK, ScopeRecord, WorkRecord
<1>6. BlocksApart(table)
  BY <1>3 DEF BlocksApart, WorkSlots
<1>7. FreshIsNobodys /\ TrackedOwned
  BY <1>1 DEF FreshIsNobodys, TrackedOwned, Tracked
<1>8. ScopeCovers /\ CancelExact
  BY <1>1, <1>2 DEF ScopeCovers, LiveOf, CancelExact
<1> QED BY <1>5, <1>6, <1>7, <1>8 DEF Safe

LEMMA NextSafe == Safe /\ [Next]_vars => Safe'
<1> SUFFICES ASSUME Safe, [Next]_vars PROVE Safe'
  OBVIOUS
<1>1. CASE StartOutside
  BY <1>1, StartOutsideKeeps
<1>2. ASSUME NEW sc \in Scope, StartIn(sc) \/ Prune(sc) \/ CancelScope(sc) PROVE Safe'
  BY <1>2, StartInKeeps, PruneKeeps, CancelScopeKeeps
<1>3. ASSUME NEW h \in Handle, Cancel(h) PROVE Safe'
  BY <1>3, CancelKeeps
<1>4. ASSUME NEW b \in Block, WorkerReturns(b) PROVE Safe'
  BY <1>4, WorkerReturnsKeeps
<1>5. ASSUME NEW i \in 1 .. MaxSlots, Deliver(i) PROVE Safe'
  BY <1>5, DeliverKeeps
<1>6. CASE UNCHANGED vars
  <2>1. UNCHANGED <<table, scopes, work, owner, asked, withdrawn>>
    BY <1>6 DEF vars
  <2>2. TypeOK' /\ BlocksApart(table')
    BY <2>1 DEF Safe, TypeOK
  <2>3. FreshIsNobodys' /\ TrackedOwned'
    BY <2>1 DEF Safe, FreshIsNobodys, TrackedOwned, Tracked
  <2>4. ScopeCovers'
    BY <2>1 DEF Safe, ScopeCovers, LiveOf, Tracked
  <2>5. CancelExact'
    BY <2>1 DEF Safe, CancelExact, Cancelled
  <2> QED BY <2>2, <2>3, <2>4, <2>5 DEF Safe
<1> QED BY <1>1, <1>2, <1>3, <1>4, <1>5, <1>6 DEF Next

LEMMA SafeKept == Spec => []Safe
<1> QED BY InitSafe, NextSafe, PTL DEF Spec

\* The scopes, the table, whose active counter counts the busy slots, and the
\* flags keep their types, whatever is started, pruned, cancelled and delivered.
THEOREM TypeCorrect == Spec => []TypeOK
<1>1. Safe => TypeOK
  BY DEF Safe
<1> QED BY <1>1, SafeKept, PTL

\* No live job of an open scope is missing from its handles, so that closing
\* the scope would reach it: pruning drops only handles of finished jobs, also
\* when their slots hold other jobs by then.
THEOREM ScopesCover == Spec => []ScopeCovers
<1>1. Safe => ScopeCovers
  BY DEF Safe
<1> QED BY <1>1, SafeKept, PTL

\* A closed scope leaves no live job but background work that was told to stop,
\* and no job is cancelled that was not asked for by its own handle or scope:
\* the stale handles that a scope still holds do not reach the jobs that took
\* over their slots.
THEOREM CancellationsExact == Spec => []CancelExact
<1>1. Safe => CancelExact
  BY DEF Safe
<1> QED BY <1>1, SafeKept, PTL
=============================================================================
