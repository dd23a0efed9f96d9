-------------------------- MODULE WorkerPool_proofs --------------------------
(***************************************************************************)
(* Proofs about WorkerPool, for any number of workers, blocks, slots and   *)
(* handles: no worker touches a freed block, every block has one owner,    *)
(* every job runs and completes at most once, nobody sleeps beside work.   *)
(***************************************************************************)
EXTENDS WorkerPool, FiniteSetTheorems, TLAPS

-----------------------------------------------------------------------------
(* Numbers, sequences and sets. *)

\* A set of naturals has a least element: the least of the intervals 0 .. y
\* under strict inclusion, which is well founded on finite sets.
LEMMA LeastNatural ==
    ASSUME NEW T \in SUBSET Nat, T # {}
    PROVE  \E x \in T : \A y \in T : x <= y
<1> DEFINE Intervals == {0 .. y : y \in T}
<1>1. IsWellFoundedOn(StrictSubsetOrdering(Nat), FiniteSubsetsOf(Nat))
  BY FS_StrictSubsetOrderingWellFounded
<1>2. Intervals \subseteq FiniteSubsetsOf(Nat) /\ Intervals # {}
  <2>1. \A y \in T : 0 .. y \subseteq Nat /\ IsFiniteSet(0 .. y)
    BY FS_Interval
  <2> QED BY <2>1 DEF FiniteSubsetsOf
<1>3. PICK i \in Intervals : \A j \in Intervals : <<j, i>> \notin StrictSubsetOrdering(Nat)
  <2> HIDE DEF Intervals
  <2> QED BY <1>1, <1>2, WFMin
<1>4. PICK x \in T : i = 0 .. x
  OBVIOUS
<1>5. ASSUME NEW y \in T, y < x PROVE FALSE
  <2>1. x \in 0 .. x /\ x \notin 0 .. y /\ 0 .. y \subseteq 0 .. x
    BY <1>5
  <2>2. 0 .. y \in Intervals /\ <<0 .. y, 0 .. x>> \in StrictSubsetOrdering(Nat)
    BY <2>1 DEF StrictSubsetOrdering
  <2> QED BY <1>3, <1>4, <2>2
<1> QED BY <1>5

\* Append keeps the indices and adds one at the end.
LEMMA AppendIndices ==
    ASSUME NEW S, NEW f \in Seq(S), NEW e \in S
    PROVE  /\ Append(f, e) \in Seq(S)
           /\ Len(f) \in Nat
           /\ Len(Append(f, e)) = Len(f) + 1
           /\ \A i \in 1 .. Len(f) : Append(f, e)[i] = f[i]
           /\ Append(f, e)[Len(f) + 1] = e
  OBVIOUS

\* Tail shifts the indices by one and drops the head.
LEMMA TailIndices ==
    ASSUME NEW S, NEW f \in Seq(S), f # <<>>
    PROVE  /\ Tail(f) \in Seq(S)
           /\ Len(f) \in Nat /\ Len(f) >= 1
           /\ Len(Tail(f)) = Len(f) - 1
           /\ \A i \in 1 .. Len(f) - 1 : Tail(f)[i] = f[i + 1]
           /\ Head(f) = f[1]
           /\ Head(f) \in S
  OBVIOUS

-----------------------------------------------------------------------------
(* The lanes. *)

\* No block is linked twice.
LinkedOnce(p) ==
    \A q, r \in Lanes!Priorities :
      \A i \in 1 .. Len(p.lane[q]), j \in 1 .. Len(p.lane[r]) :
        p.lane[q][i] = p.lane[r][j] => q = r /\ i = j

LanesOK(p) ==
    /\ p \in Lanes!LaneRecord
    /\ \A q \in Lanes!Priorities : p.queued[q] = Len(p.lane[q])
    /\ LinkedOnce(p)

QueuedIn(p) ==
    {b \in Block : \E q \in Lanes!Priorities : \E i \in 1 .. Len(p.lane[q]) :
                      p.lane[q][i] = b}

LEMMA LaneTypes ==
    ASSUME NEW p \in Lanes!LaneRecord
    PROVE  /\ p.lane \in [Lanes!Priorities -> Seq(Block)]
           /\ p.queued \in [Lanes!Priorities -> Int]
           /\ p.highWater \in Int
           /\ p.ticket \in 0 .. Lanes!Cycle - 1
           /\ Lanes!Depth(p) \in Int
           /\ \A q \in Lanes!Priorities : p.lane[q] \in Seq(Block)
<1>1. p.queued \in [Lanes!Priorities -> Int]
  BY DEF Lanes!LaneRecord
<1>2. p.queued["high"] \in Int /\ p.queued["medium"] \in Int /\ p.queued["low"] \in Int
  BY <1>1 DEF Lanes!Priorities
<1> QED BY <1>1, <1>2 DEF Lanes!LaneRecord, Lanes!Depth

\* A selection serves a nonempty lane, and it serves one whenever there is one.
LEMMA ServedLane ==
    ASSUME NEW p, LanesOK(p)
    PROVE  /\ Lanes!Served(p) # "none" => /\ Lanes!Served(p) \in Lanes!Priorities
                                          /\ p.lane[Lanes!Served(p)] # <<>>
           /\ Lanes!Served(p) = "none" => QueuedIn(p) = {} /\ Lanes!Depth(p) = 0
<1>1. p.lane \in [Lanes!Priorities -> Seq(Block)]
  BY LaneTypes DEF LanesOK
<1>2. ASSUME Lanes!Served(p) # "none"
      PROVE  Lanes!Served(p) \in Lanes!Priorities /\ p.lane[Lanes!Served(p)] # <<>>
  BY <1>2 DEF Lanes!Served, Lanes!Desired, Lanes!Priorities
<1>3. ASSUME Lanes!Served(p) = "none"
      PROVE  \A q \in Lanes!Priorities : p.lane[q] = <<>>
  BY <1>3 DEF Lanes!Served, Lanes!Desired, Lanes!Priorities
<1>4. ASSUME Lanes!Served(p) = "none"
      PROVE  QueuedIn(p) = {} /\ Lanes!Depth(p) = 0
  <2>1. \A q \in Lanes!Priorities : p.queued[q] = 0 /\ Len(p.lane[q]) = 0
    BY <1>3, <1>4 DEF LanesOK
  <2>2. p.queued["high"] = 0 /\ p.queued["medium"] = 0 /\ p.queued["low"] = 0
    BY <2>1 DEF Lanes!Priorities
  <2> QED BY <2>1, <2>2 DEF QueuedIn, Lanes!Depth
<1> QED BY <1>2, <1>4

LEMMA NextTicket ==
    ASSUME NEW t \in 0 .. Lanes!Cycle - 1
    PROVE  (t + 1) % Lanes!Cycle \in 0 .. Lanes!Cycle - 1
<1>1. Lanes!Cycle \in Nat /\ Lanes!Cycle > 0
  BY PoolConstants DEF Lanes!Cycle
<1> QED BY <1>1

\* A selection that finds nothing moves only the ticket.
LEMMA MissFacts ==
    ASSUME NEW p, LanesOK(p), Lanes!Served(p) = "none"
    PROVE  /\ LanesOK(Lanes!AfterPop(p))
           /\ QueuedIn(Lanes!AfterPop(p)) = QueuedIn(p)
           /\ Lanes!Depth(Lanes!AfterPop(p)) = Lanes!Depth(p)
<1> DEFINE n == Lanes!AfterPop(p)
<1>1. n = [p EXCEPT !.ticket = (@ + 1) % Lanes!Cycle]
  BY DEF Lanes!AfterPop, Lanes!Advance
<1>2. p \in Lanes!LaneRecord /\ (p.ticket + 1) % Lanes!Cycle \in 0 .. Lanes!Cycle - 1
  BY NextTicket, LaneTypes DEF LanesOK
<1>3. n \in Lanes!LaneRecord /\ n.lane = p.lane /\ n.queued = p.queued
  BY <1>1, <1>2 DEF Lanes!LaneRecord
<1> HIDE DEF n
<1> QED BY <1>3 DEF LanesOK, LinkedOnce, QueuedIn, Lanes!Depth, n

\* A selection that finds work unlinks the head of one lane.
LEMMA PopFacts ==
    ASSUME NEW p, LanesOK(p), Lanes!Served(p) # "none"
    PROVE  /\ LanesOK(Lanes!AfterPop(p))
           /\ Lanes!Popped(p) \in QueuedIn(p)
           /\ QueuedIn(Lanes!AfterPop(p)) = QueuedIn(p) \ {Lanes!Popped(p)}
           /\ Lanes!Depth(Lanes!AfterPop(p)) = Lanes!Depth(p) - 1
<1> DEFINE n == Lanes!AfterPop(p)
           q == Lanes!Served(p)
           f == p.lane[q]
<1>1. /\ p.lane \in [Lanes!Priorities -> Seq(Block)]
      /\ p.queued \in [Lanes!Priorities -> Int]
      /\ q \in Lanes!Priorities /\ f # <<>> /\ f \in Seq(Block)
      /\ p \in Lanes!LaneRecord
      /\ \A r \in Lanes!Priorities : p.queued[r] = Len(p.lane[r])
  BY ServedLane, LaneTypes DEF LanesOK
<1>2. /\ Tail(f) \in Seq(Block)
      /\ Len(f) \in Nat /\ Len(f) >= 1
      /\ Len(Tail(f)) = Len(f) - 1
      /\ \A i \in 1 .. Len(f) - 1 : Tail(f)[i] = f[i + 1]
      /\ Lanes!Popped(p) = f[1] /\ f[1] \in Block
  <2> HIDE DEF f
  <2>1. Lanes!Popped(p) = Head(f)
    BY DEF f, Lanes!Popped
  <2> QED BY <1>1, <2>1, TailIndices
<1>3. /\ n \in Lanes!LaneRecord
      /\ n.lane = [p.lane EXCEPT ![q] = Tail(f)]
      /\ n.queued = [p.queued EXCEPT ![q] = p.queued[q] - 1]
  <2>1. n = Lanes!Advance(Lanes!PopLane(p, q))
    BY DEF Lanes!AfterPop
  <2>2. Lanes!PopLane(p, q) = [p EXCEPT !.lane = [p.lane EXCEPT ![q] = Tail(f)],
                                 !.queued = [p.queued EXCEPT ![q] = p.queued[q] - 1]]
    BY <1>1 DEF Lanes!PopLane, Lanes!LaneRecord
  <2> DEFINE l == [p.lane EXCEPT ![q] = Tail(f)]
             c == [p.queued EXCEPT ![q] = p.queued[q] - 1]
  <2>3. l \in [Lanes!Priorities -> Seq(Block)] /\ c \in [Lanes!Priorities -> Int]
    BY <1>1, <1>2
  <2>4. (p.ticket + 1) % Lanes!Cycle \in 0 .. Lanes!Cycle - 1
    BY <1>1, NextTicket, LaneTypes
  <2> HIDE DEF n, q, l, c
  <2>5. n = [p EXCEPT !.lane = l, !.queued = c, !.ticket = (@ + 1) % Lanes!Cycle]
    BY <1>1, <2>1, <2>2 DEF Lanes!Advance, Lanes!LaneRecord, l, c
  <2>6. n \in Lanes!LaneRecord /\ n.lane = l /\ n.queued = c
    BY <1>1, <2>3, <2>4, <2>5 DEF Lanes!LaneRecord
  <2> QED BY <2>6 DEF l, c, q
<1> HIDE DEF n, q, f
<1>4. \A r \in Lanes!Priorities : r # q => n.lane[r] = p.lane[r] /\ n.queued[r] = p.queued[r]
  BY <1>1, <1>3
<1>5. n.lane[q] = Tail(f) /\ n.queued[q] = p.queued[q] - 1 /\ p.lane[q] = f
  BY <1>1, <1>3 DEF f
<1>6. \A r \in Lanes!Priorities : n.queued[r] = Len(n.lane[r])
  BY <1>1, <1>2, <1>4, <1>5
\* Where an entry of the new lanes was before.
<1> DEFINE was(r, i) == IF r = q THEN i + 1 ELSE i
<1>7. ASSUME NEW r \in Lanes!Priorities, NEW i \in 1 .. Len(n.lane[r])
      PROVE  was(r, i) \in 1 .. Len(p.lane[r]) /\ n.lane[r][i] = p.lane[r][was(r, i)]
             /\ (r = q => was(r, i) > 1)
  <2>1. CASE r = q
    <3>0. PICK k \in Nat : k = Len(f)
      BY <1>2
    <3>1. Len(n.lane[r]) = k - 1 /\ Len(p.lane[r]) = k
      BY <1>2, <1>5, <2>1, <3>0
    <3>2. i \in 1 .. k - 1 /\ i + 1 \in 1 .. k /\ i + 1 > 1
      BY <3>1
    <3>3. n.lane[r][i] = p.lane[r][i + 1]
      BY <1>2, <1>5, <2>1, <3>0, <3>2
    <3> QED BY <2>1, <3>1, <3>2, <3>3
  <2>2. CASE r # q
    BY <1>4, <2>2
  <2> QED BY <2>1, <2>2
<1>8. LinkedOnce(n)
  <2> SUFFICES ASSUME NEW r1 \in Lanes!Priorities, NEW r2 \in Lanes!Priorities,
                      NEW i \in 1 .. Len(n.lane[r1]), NEW j \in 1 .. Len(n.lane[r2]),
                      n.lane[r1][i] = n.lane[r2][j]
               PROVE  r1 = r2 /\ i = j
    BY DEF LinkedOnce
  <2>1. PICK k1 \in 1 .. Len(p.lane[r1]) : n.lane[r1][i] = p.lane[r1][k1] /\ k1 = was(r1, i)
    BY <1>7
  <2>2. PICK k2 \in 1 .. Len(p.lane[r2]) : n.lane[r2][j] = p.lane[r2][k2] /\ k2 = was(r2, j)
    BY <1>7
  <2>3. r1 = r2 /\ k1 = k2
    <3>1. p.lane[r1][k1] = p.lane[r2][k2]
      BY <2>1, <2>2
    <3>2. LinkedOnce(p)
      BY DEF LanesOK
    <3> QED BY <3>1, <3>2 DEF LinkedOnce
  <2> QED BY <2>1, <2>2, <2>3
<1>9. Lanes!Popped(p) \in QueuedIn(p)
  BY <1>1, <1>2, <1>5 DEF QueuedIn
<1>10. QueuedIn(n) \subseteq QueuedIn(p) \ {Lanes!Popped(p)}
  <2> SUFFICES ASSUME NEW r \in Lanes!Priorities, NEW i \in 1 .. Len(n.lane[r]),
                      n.lane[r][i] \in Block
               PROVE  n.lane[r][i] \in QueuedIn(p) /\ n.lane[r][i] # f[1]
    <3>1. \A x \in QueuedIn(n) : \E r \in Lanes!Priorities :
             \E i \in 1 .. Len(n.lane[r]) : n.lane[r][i] = x /\ x \in Block
      BY DEF QueuedIn
    <3> QED BY <1>2, <3>1
  <2>1. n.lane[r][i] \in QueuedIn(p)
    BY <1>7 DEF QueuedIn
  <2>2. ASSUME n.lane[r][i] = f[1] PROVE FALSE
    <3>1. p.lane[r][was(r, i)] = p.lane[q][1] /\ 1 \in 1 .. Len(p.lane[q])
      BY <1>2, <1>5, <1>7, <2>2
    <3>2. r = q /\ was(r, i) = 1
      BY <1>1, <1>7, <3>1 DEF LanesOK, LinkedOnce
    <3> QED BY <1>7, <3>2
  <2> QED BY <2>1, <2>2
<1>11. QueuedIn(p) \ {Lanes!Popped(p)} \subseteq QueuedIn(n)
  <2> SUFFICES ASSUME NEW r \in Lanes!Priorities, NEW i \in 1 .. Len(p.lane[r]),
                      p.lane[r][i] # f[1], p.lane[r][i] \in Block
               PROVE  p.lane[r][i] \in QueuedIn(n)
    <3>1. \A x \in QueuedIn(p) : \E r \in Lanes!Priorities :
             \E i \in 1 .. Len(p.lane[r]) : p.lane[r][i] = x /\ x \in Block
      BY DEF QueuedIn
    <3> QED BY <1>2, <3>1
  <2>1. CASE r # q
    BY <1>4, <2>1 DEF QueuedIn
  <2>2. CASE r = q
    <3>1. i - 1 \in 1 .. Len(n.lane[r]) /\ n.lane[r][i - 1] = p.lane[r][i]
      BY <1>2, <1>5, <2>2
    <3> QED BY <3>1 DEF QueuedIn
  <2> QED BY <2>1, <2>2
<1>12. Lanes!Depth(n) = Lanes!Depth(p) - 1
  <2>1. /\ p.queued["high"] \in Int /\ p.queued["medium"] \in Int /\ p.queued["low"] \in Int
        /\ q \in {"high", "medium", "low"}
    BY <1>1 DEF Lanes!Priorities
  <2>2. \A r \in {"high", "medium", "low"} :
          n.queued[r] = IF r = q THEN p.queued[r] - 1 ELSE p.queued[r]
    BY <1>4, <1>5 DEF Lanes!Priorities
  <2> QED BY <2>1, <2>2 DEF Lanes!Depth
<1> QED BY <1>3, <1>6, <1>8, <1>9, <1>10, <1>11, <1>12 DEF LanesOK, n

\* An enqueue links a block that was in no lane.
LEMMA EnqueueFacts ==
    ASSUME NEW p, LanesOK(p), NEW q \in Lanes!Priorities, NEW b \in Block,
           b \notin QueuedIn(p)
    PROVE  /\ LanesOK(Lanes!LaneEnqueue(p, q, b))
           /\ QueuedIn(Lanes!LaneEnqueue(p, q, b)) = QueuedIn(p) \cup {b}
           /\ Lanes!Depth(Lanes!LaneEnqueue(p, q, b)) = Lanes!Depth(p) + 1
<1> DEFINE n == Lanes!LaneEnqueue(p, q, b)
           f == p.lane[q]
<1>1. /\ p.lane \in [Lanes!Priorities -> Seq(Block)]
      /\ p.queued \in [Lanes!Priorities -> Int]
      /\ f \in Seq(Block)
      /\ p \in Lanes!LaneRecord
      /\ \A r \in Lanes!Priorities : p.queued[r] = Len(p.lane[r])
  BY LaneTypes DEF LanesOK
<1>2. /\ Append(f, b) \in Seq(Block)
      /\ Len(f) \in Nat
      /\ Len(Append(f, b)) = Len(f) + 1
      /\ \A i \in 1 .. Len(f) : Append(f, b)[i] = f[i]
      /\ Append(f, b)[Len(f) + 1] = b
  <2> HIDE DEF f
  <2> QED BY <1>1, AppendIndices
<1>3. /\ n \in Lanes!LaneRecord
      /\ n.lane = [p.lane EXCEPT ![q] = Append(f, b)]
      /\ n.queued = [p.queued EXCEPT ![q] = p.queued[q] + 1]
  <2> DEFINE m == Lanes!Link(p, q, b)
             l == [p.lane EXCEPT ![q] = Append(f, b)]
             c == [p.queued EXCEPT ![q] = p.queued[q] + 1]
  <2>1. n = Lanes!NoteHighWater(m)
    BY DEF Lanes!LaneEnqueue
  <2>2. m = [p EXCEPT !.lane = l, !.queued = c]
    BY <1>1 DEF Lanes!Link, Lanes!LaneRecord
  <2>3. l \in [Lanes!Priorities -> Seq(Block)] /\ c \in [Lanes!Priorities -> Int]
    BY <1>1, <1>2
  <2> HIDE DEF n, m, l, c
  <2>4. m \in Lanes!LaneRecord /\ m.lane = l /\ m.queued = c
    BY <1>1, <2>2, <2>3 DEF Lanes!LaneRecord
  <2>5. PICK h \in Int : n = [m EXCEPT !.highWater = h]
    BY <2>1, <2>4, LaneTypes DEF Lanes!NoteHighWater
  <2>6. n \in Lanes!LaneRecord /\ n.lane = l /\ n.queued = c
    BY <2>4, <2>5 DEF Lanes!LaneRecord
  <2> QED BY <2>6 DEF l, c
<1> HIDE DEF n, f
<1>4. \A r \in Lanes!Priorities : r # q => n.lane[r] = p.lane[r] /\ n.queued[r] = p.queued[r]
  BY <1>1, <1>3
<1>5. n.lane[q] = Append(f, b) /\ n.queued[q] = p.queued[q] + 1 /\ p.lane[q] = f
  BY <1>1, <1>3 DEF f
<1>6. \A r \in Lanes!Priorities : n.queued[r] = Len(n.lane[r])
  BY <1>1, <1>2, <1>4, <1>5
\* An entry of the new lanes is the new one, or it was there before.
<1>7. ASSUME NEW r \in Lanes!Priorities, NEW i \in 1 .. Len(n.lane[r])
      PROVE  \/ i \in 1 .. Len(p.lane[r]) /\ n.lane[r][i] = p.lane[r][i]
                /\ n.lane[r][i] \in QueuedIn(p)
             \/ r = q /\ i = Len(f) + 1 /\ n.lane[r][i] = b
  <2>1. ASSUME NEW k \in 1 .. Len(p.lane[r]) PROVE p.lane[r][k] \in QueuedIn(p)
    <3>1. p.lane[r] \in Seq(Block)
      BY <1>1
    <3>2. p.lane[r][k] \in Block
      BY <3>1
    <3> QED BY <3>2 DEF QueuedIn
  <2>2. CASE r # q
    BY <1>4, <2>1, <2>2
  <2>3. CASE r = q
    <3>1. n.lane[r] = Append(f, b) /\ p.lane[r] = f
      BY <1>5, <2>3
    <3>2. i \in 1 .. Len(f) \/ i = Len(f) + 1
      BY <1>2, <3>1
    <3>3. CASE i \in 1 .. Len(f)
      <4>1. n.lane[r][i] = p.lane[r][i]
        BY <1>2, <3>1, <3>3
      <4> QED BY <2>1, <3>1, <3>3, <4>1
    <3>4. CASE i = Len(f) + 1
      BY <1>2, <2>3, <3>1, <3>4
    <3> QED BY <3>2, <3>3, <3>4
  <2> QED BY <2>2, <2>3
<1>8. LinkedOnce(n)
  <2> SUFFICES ASSUME NEW r1 \in Lanes!Priorities, NEW r2 \in Lanes!Priorities,
                      NEW i \in 1 .. Len(n.lane[r1]), NEW j \in 1 .. Len(n.lane[r2]),
                      n.lane[r1][i] = n.lane[r2][j]
               PROVE  r1 = r2 /\ i = j
    BY DEF LinkedOnce
  <2> DEFINE Old(r, k) == k \in 1 .. Len(p.lane[r]) /\ n.lane[r][k] = p.lane[r][k]
                          /\ n.lane[r][k] \in QueuedIn(p)
             New(r, k) == r = q /\ k = Len(f) + 1 /\ n.lane[r][k] = b
  <2>0. (Old(r1, i) \/ New(r1, i)) /\ (Old(r2, j) \/ New(r2, j))
    <3>1. Old(r1, i) \/ New(r1, i)
      BY <1>7
    <3>2. Old(r2, j) \/ New(r2, j)
      BY <1>7
    <3> QED BY <3>1, <3>2
  <2>1. CASE n.lane[r1][i] = b
    BY <2>0, <2>1
  <2>2. CASE n.lane[r1][i] # b
    <3>1. /\ i \in 1 .. Len(p.lane[r1]) /\ j \in 1 .. Len(p.lane[r2])
          /\ p.lane[r1][i] = p.lane[r2][j]
      BY <2>0, <2>2
    <3>2. LinkedOnce(p)
      BY DEF LanesOK
    <3> QED BY <3>1, <3>2 DEF LinkedOnce
  <2> QED BY <2>1, <2>2
<1>9. QueuedIn(n) \subseteq QueuedIn(p) \cup {b}
  BY <1>7 DEF QueuedIn
<1>10. QueuedIn(p) \subseteq QueuedIn(n)
  <2> SUFFICES ASSUME NEW r \in Lanes!Priorities, NEW i \in 1 .. Len(p.lane[r]),
                      p.lane[r][i] \in Block
               PROVE  p.lane[r][i] \in QueuedIn(n)
    <3>1. \A x \in QueuedIn(p) : \E r \in Lanes!Priorities :
             \E i \in 1 .. Len(p.lane[r]) : p.lane[r][i] = x /\ x \in Block
      BY DEF QueuedIn
    <3> QED BY <3>1
  <2>1. i \in 1 .. Len(n.lane[r]) /\ n.lane[r][i] = p.lane[r][i]
    <3>1. CASE r = q
      <4>1. PICK k \in Nat : k = Len(f)
        BY <1>2
      <4>2. Len(p.lane[r]) = k /\ Len(n.lane[r]) = k + 1
        BY <1>2, <1>5, <3>1, <4>1
      <4>3. i \in 1 .. k /\ i \in 1 .. k + 1
        BY <4>2
      <4> QED BY <1>2, <1>5, <3>1, <4>1, <4>2, <4>3
    <3>2. CASE r # q
      BY <1>4, <3>2
    <3> QED BY <3>1, <3>2
  <2> QED BY <2>1 DEF QueuedIn
<1>11. b \in QueuedIn(n)
  <2>1. Len(f) + 1 \in 1 .. Len(n.lane[q]) /\ n.lane[q][Len(f) + 1] = b
    BY <1>2, <1>5
  <2> QED BY <2>1 DEF QueuedIn
<1>12. Lanes!Depth(n) = Lanes!Depth(p) + 1
  <2>1. /\ p.queued["high"] \in Int /\ p.queued["medium"] \in Int /\ p.queued["low"] \in Int
        /\ q \in {"high", "medium", "low"}
    BY <1>1 DEF Lanes!Priorities
  <2>2. \A r \in {"high", "medium", "low"} :
          n.queued[r] = IF r = q THEN p.queued[r] + 1 ELSE p.queued[r]
    BY <1>4, <1>5 DEF Lanes!Priorities
  <2> QED BY <2>1, <2>2 DEF Lanes!Depth
<1> QED BY <1>3, <1>6, <1>8, <1>9, <1>10, <1>11, <1>12 DEF LanesOK, n

-----------------------------------------------------------------------------
(* The table. *)

LEMMA TableTypes ==
    ASSUME NEW t \in TableRecord
    PROVE  /\ t.jobs \in Seq(JobRecord) /\ Len(t.jobs) \in Nat
           /\ DOMAIN t.jobs = 1 .. Len(t.jobs)
           /\ t.active \in Int
           /\ \A i \in DOMAIN t.jobs :
                /\ t.jobs[i] \in JobRecord
                /\ t.jobs[i].generation \in Nat /\ t.jobs[i].kind \in Kinds
                /\ t.jobs[i].background \in Block \cup {NoBlock}
<1>1. t.jobs \in Seq(JobRecord) /\ t.active \in Int
  BY DEF TableRecord
<1>2. \A i \in DOMAIN t.jobs : t.jobs[i] \in JobRecord
  BY <1>1
<1> QED BY <1>1, <1>2 DEF JobRecord

\* scheduler-slot! finds an empty slot, or the one behind the last.
LEMMA SlotFacts ==
    ASSUME NEW t \in TableRecord
    PROVE  /\ SlotFor(t) \in DOMAIN t.jobs =>
                 /\ t.jobs[SlotFor(t)].kind = "empty"
                 /\ NextGeneration(t) = t.jobs[SlotFor(t)].generation + 1
           /\ SlotFor(t) \notin DOMAIN t.jobs =>
                 SlotFor(t) = Len(t.jobs) + 1 /\ NextGeneration(t) = 1
           /\ SlotFor(t) \in 1 .. Len(t.jobs) + 1
           /\ NextGeneration(t) \in Nat \ {0}
<1>1. CASE Free(t) = {}
  BY <1>1, TableTypes DEF SlotFor, NextGeneration
<1>2. CASE Free(t) # {}
  <2>1. Free(t) \in SUBSET Nat /\ Free(t) \subseteq DOMAIN t.jobs
    BY TableTypes DEF Free
  <2>2. \E i \in Free(t) : \A j \in Free(t) : i <= j
    BY <1>2, <2>1, LeastNatural
  <2>3. SlotFor(t) \in Free(t)
    BY <1>2, <2>2 DEF SlotFor
  <2>4. t.jobs[SlotFor(t)].kind = "empty" /\ SlotFor(t) \in DOMAIN t.jobs
    BY <2>3 DEF Free
  <2>5. NextGeneration(t) = t.jobs[SlotFor(t)].generation + 1
    BY <1>2 DEF NextGeneration
  <2> QED BY <2>4, <2>5, TableTypes
<1> QED BY <1>1, <1>2

\* A new job goes into one slot, under the next generation.
LEMMA ActivateFacts ==
    ASSUME NEW t \in TableRecord, NEW kind \in Kinds, NEW d \in Deadlines \cup {0},
           NEW b \in Block \cup {NoBlock},
           NEW n, n = Activate(t, kind, d, b)
    PROVE  /\ n \in TableRecord
           /\ DOMAIN n.jobs = DOMAIN t.jobs \cup {SlotFor(t)}
           /\ n.jobs[SlotFor(t)] = [generation |-> NextGeneration(t), kind |-> kind,
                                    deadline |-> d, background |-> b]
           /\ \A i \in DOMAIN t.jobs : i # SlotFor(t) => n.jobs[i] = t.jobs[i]
<1> DEFINE j == [generation |-> NextGeneration(t), kind |-> kind,
                 deadline |-> d, background |-> b]
           s == SlotFor(t)
           jobs == IF s = Len(t.jobs) + 1 THEN Append(t.jobs, j)
                   ELSE [t.jobs EXCEPT ![s] = j]
<1>1. j \in JobRecord
  BY SlotFacts DEF JobRecord
<1>2. n = [t EXCEPT !.jobs = jobs, !.active = t.active + 1]
  BY DEF Activate, PutJob, TableRecord
<1>3. s \in 1 .. Len(t.jobs) + 1
  BY SlotFacts
<1>4. /\ jobs \in Seq(JobRecord)
      /\ DOMAIN jobs = DOMAIN t.jobs \cup {s}
      /\ jobs[s] = j
      /\ \A i \in DOMAIN t.jobs : i # s => jobs[i] = t.jobs[i]
  <2> HIDE DEF j, s
  <2>0. t.jobs \in Seq(JobRecord) /\ Len(t.jobs) \in Nat /\ DOMAIN t.jobs = 1 .. Len(t.jobs)
    BY TableTypes
  <2>1. CASE s = Len(t.jobs) + 1
    <3>1. jobs = Append(t.jobs, j)
      BY <2>1
    <3>2. /\ jobs \in Seq(JobRecord) /\ Len(jobs) = Len(t.jobs) + 1
          /\ jobs[s] = j /\ \A i \in 1 .. Len(t.jobs) : jobs[i] = t.jobs[i]
      BY <1>1, <2>0, <2>1, <3>1, AppendIndices
    <3> QED BY <2>0, <2>1, <3>2
  <2>2. CASE s # Len(t.jobs) + 1
    <3>1. jobs = [t.jobs EXCEPT ![s] = j] /\ s \in DOMAIN t.jobs
      BY <1>3, <2>0, <2>2
    <3> QED BY <1>1, <2>0, <3>1
  <2> QED BY <2>1, <2>2
<1> HIDE DEF jobs, s, j
<1>5. t.active + 1 \in Int
  BY TableTypes
<1> QED BY <1>2, <1>4, <1>5 DEF TableRecord, s, j

\* An emptied slot keeps its generation.
LEMMA EmptySlotFacts ==
    ASSUME NEW t \in TableRecord, NEW s \in DOMAIN t.jobs, NEW n, n = EmptySlot(t, s)
    PROVE  /\ n \in TableRecord
           /\ DOMAIN n.jobs = DOMAIN t.jobs
           /\ n.jobs[s] = EmptyJob(t.jobs[s].generation)
           /\ \A i \in DOMAIN t.jobs : i # s => n.jobs[i] = t.jobs[i]
<1> DEFINE jobs == [t.jobs EXCEPT ![s] = EmptyJob(t.jobs[s].generation)]
<1>1. n = [t EXCEPT !.jobs = jobs, !.active = t.active - 1]
  BY DEF EmptySlot, TableRecord
<1>2. EmptyJob(t.jobs[s].generation) \in JobRecord
  BY TableTypes DEF EmptyJob, JobRecord, Kinds
<1>3. /\ jobs \in Seq(JobRecord)
      /\ DOMAIN jobs = DOMAIN t.jobs
      /\ jobs[s] = EmptyJob(t.jobs[s].generation)
      /\ \A i \in DOMAIN t.jobs : i # s => jobs[i] = t.jobs[i]
  BY <1>2, TableTypes
<1> HIDE DEF jobs
<1>4. t.active - 1 \in Int
  BY TableTypes
<1> QED BY <1>1, <1>3, <1>4 DEF TableRecord

\* What a new job does to the handles: one that was never issued goes live.
LEMMA ActivateHandles ==
    ASSUME NEW t \in TableRecord, NEW kind \in Kinds \ {"empty"},
           NEW d \in Deadlines \cup {0}, NEW b \in Block \cup {NoBlock},
           NEW n, n = Activate(t, kind, d, b), NEW h \in Handle
    PROVE  /\ Issued(n, h) <=> Issued(t, h) \/ h = HandleFor(t)
           /\ Live(n, h) <=> Live(t, h) \/ h = HandleFor(t)
           /\ ~Issued(t, HandleFor(t))
           /\ Live(t, h) => h.slot # SlotFor(t)
<1>1. /\ DOMAIN n.jobs = DOMAIN t.jobs \cup {SlotFor(t)}
      /\ n.jobs[SlotFor(t)] = [generation |-> NextGeneration(t), kind |-> kind,
                               deadline |-> d, background |-> b]
      /\ \A i \in DOMAIN t.jobs : i # SlotFor(t) => n.jobs[i] = t.jobs[i]
  BY ActivateFacts
<1>2. /\ HandleFor(t).slot = SlotFor(t) /\ HandleFor(t).generation = NextGeneration(t)
      /\ h = HandleFor(t) <=> h.slot = SlotFor(t) /\ h.generation = NextGeneration(t)
  BY DEF HandleFor, Handle
<1>3. h.slot \in Nat /\ h.generation \in Nat \ {0}
  BY PoolConstants DEF Handle
<1>4. CASE SlotFor(t) \in DOMAIN t.jobs
  <2>1. /\ t.jobs[SlotFor(t)].kind = "empty" /\ t.jobs[SlotFor(t)].generation \in Nat
        /\ NextGeneration(t) = t.jobs[SlotFor(t)].generation + 1
    BY <1>4, SlotFacts, TableTypes
  <2>2. ~Issued(t, HandleFor(t))
    BY <1>2, <2>1 DEF Issued
  <2>3. CASE h.slot = SlotFor(t)
    BY <1>1, <1>2, <1>3, <1>4, <2>1, <2>2, <2>3 DEF Issued, Live
  <2>4. CASE h.slot # SlotFor(t)
    BY <1>1, <1>2, <1>3, <2>2, <2>4 DEF Issued, Live
  <2> QED BY <2>3, <2>4
<1>5. CASE SlotFor(t) \notin DOMAIN t.jobs
  <2>1. NextGeneration(t) = 1
    BY <1>5, SlotFacts
  <2>2. CASE h.slot = SlotFor(t)
    BY <1>1, <1>2, <1>3, <1>5, <2>1, <2>2 DEF Issued, Live
  <2>3. CASE h.slot # SlotFor(t)
    BY <1>1, <1>2, <1>3, <1>5, <2>3 DEF Issued, Live
  <2> QED BY <2>2, <2>3
<1> QED BY <1>4, <1>5

\* What emptying a slot does to them: its handle ends, for good.
LEMMA EmptySlotHandles ==
    ASSUME NEW t \in TableRecord, NEW s \in DOMAIN t.jobs, t.jobs[s].kind # "empty",
           NEW n, n = EmptySlot(t, s), NEW h \in Handle
    PROVE  /\ Issued(n, h) <=> Issued(t, h)
           /\ Live(n, h) <=> Live(t, h) /\ h # HandleOf(t, s)
           /\ h = HandleOf(t, s) => Live(t, h)
<1>1. /\ DOMAIN n.jobs = DOMAIN t.jobs
      /\ n.jobs[s] = EmptyJob(t.jobs[s].generation)
      /\ \A i \in DOMAIN t.jobs : i # s => n.jobs[i] = t.jobs[i]
  BY EmptySlotFacts
<1>2. h = HandleOf(t, s) <=> h.slot = s /\ h.generation = t.jobs[s].generation
  BY DEF HandleOf, Handle
<1> QED BY <1>1, <1>2 DEF Issued, Live, EmptyJob

-----------------------------------------------------------------------------
(* The inductive invariant. *)

\* The slots and generations stay inside the bounds, and work has a block.
TableOK ==
    /\ DOMAIN table.jobs \subseteq 1 .. MaxSlots
    /\ \A i \in DOMAIN table.jobs :
          /\ table.jobs[i].generation \in 1 .. MaxGeneration
          /\ table.jobs[i].kind = "work" => table.jobs[i].background \in Block

Holding == {"taken", "running", "left", "stored", "woken"}

Shapes ==
    /\ \A w \in Worker : worker[w].block # NoBlock <=> worker[w].at \in Holding
    /\ owner.at # "callback" => owner.block = NoBlock
    /\ owner.at = "freed" => \A w \in Worker : worker[w].at \in {"absent", "stopped"}

RunningExact == counters.running = Cardinality({w \in Worker : worker[w].at = "running"})

\* The block of a job in the table knows its handle; the block whose completion
\* is being called is published, and its handle has ended.
JobsMatch ==
    /\ \A i \in WorkSlots(table) :
          memory[table.jobs[i].background].job = HandleOf(table, i)
    /\ owner.block # NoBlock =>
          /\ memory[owner.block].done
          /\ memory[owner.block].job \in Handle
          /\ Issued(table, memory[owner.block].job)
          /\ ~Live(table, memory[owner.block].job)

\* A block that is queued or held is not published, and it is in one place.
HeldOnce ==
    /\ \A w \in Worker :
          worker[w].block # NoBlock =>
             /\ ~memory[worker[w].block].done
             /\ worker[w].block \notin QueuedIn(pool)
    /\ \A v, w \in Worker :
          worker[v].block # NoBlock /\ worker[v].block = worker[w].block => v = w
    /\ owner.at # "freed" =>
          \A b \in QueuedIn(pool) : b \in allocated /\ ~memory[b].done

\* How often handles were called and run, by where they stand.
HandlesCount ==
    /\ \A h \in Handle : ~Issued(table, h) => calls[h] = 0 /\ runs[h] = 0 /\ h \notin background
    /\ \A h \in Handle : Live(table, h) =>
          calls[h] = 0 /\ (h \in background <=> table.jobs[h.slot].kind = "work")
    /\ \A h \in Handle : calls[h] <= 1 /\ runs[h] <= 1
                         /\ (h \in background /\ calls[h] = 1 => runs[h] = 1)

RunsMatch ==
    /\ owner.at # "freed" => \A b \in QueuedIn(pool) : runs[memory[b].job] = 0
    /\ \A w \in Worker :
          /\ worker[w].at = "taken" => runs[worker[w].job] = 0
          /\ worker[w].at \in Holding \ {"taken"} => runs[worker[w].job] = 1
          /\ worker[w].at \in {"stored", "woken"} =>
                memory[worker[w].block].result = worker[w].job
    /\ \A b \in allocated : memory[b].done =>
          memory[b].result = memory[b].job /\ runs[memory[b].job] = 1

\* The functions that have returned.
Returned == {h \in Handle : runs[h] = 1}
              \ {worker[w].job : w \in {v \in Worker : worker[v].at = "running"}}

CompletedExact == counters.completed = Cardinality(Returned)

Safe ==
    /\ TypeOK /\ TableOK /\ Shapes /\ RunningExact
    /\ LanesOK(pool) /\ NoSleeperBesideWork
    /\ BlocksOwnedOnce /\ JobsMatch
    /\ NoUseAfterFree /\ HeldOnce
    /\ HandlesCount /\ RunsMatch /\ CompletedExact

LEMMA SafeParts ==
    ASSUME Safe
    PROVE  /\ TypeOK /\ TableOK /\ Shapes /\ RunningExact
           /\ LanesOK(pool) /\ NoSleeperBesideWork
           /\ BlocksOwnedOnce /\ JobsMatch
           /\ NoUseAfterFree /\ HeldOnce
           /\ HandlesCount /\ RunsMatch /\ CompletedExact
  BY DEF Safe

LEMMA NoBlockIsNone == NoBlock \notin Block
  BY PoolConstants

\* The handle of a job in the table is in the model's bounds.
LEMMA HandleInBounds ==
    ASSUME TableOK, NEW i \in DOMAIN table.jobs
    PROVE  HandleOf(table, i) \in Handle
  BY DEF TableOK, HandleOf, Handle

\* What an allocated block is: the block of work in the table, or the one whose
\* completion is being called.
LEMMA AllocatedFacts ==
    ASSUME TypeOK, TableOK, Shapes, BlocksOwnedOnce, JobsMatch, NEW b \in allocated
    PROVE  /\ b \in Block /\ owner.at # "freed"
           /\ memory[b].job \in Handle
           /\ Issued(table, memory[b].job)
           /\ \/ /\ b # owner.block /\ Live(table, memory[b].job)
                 /\ \E i \in WorkSlots(table) : /\ table.jobs[i].background = b
                                                /\ memory[b].job = HandleOf(table, i)
              \/ b = owner.block /\ memory[b].done /\ ~Live(table, memory[b].job)
<1>1. b \in Block
  BY DEF TypeOK
<1>2. owner.at # "freed"
  BY DEF BlocksOwnedOnce, Shapes
<1>3. CASE b = owner.block
  BY <1>1, <1>2, <1>3, NoBlockIsNone DEF JobsMatch
<1>4. CASE b # owner.block
  <2>1. PICK i \in WorkSlots(table) : table.jobs[i].background = b
    BY <1>2, <1>4 DEF BlocksOwnedOnce
  <2>2. i \in DOMAIN table.jobs /\ table.jobs[i].kind = "work"
    BY DEF WorkSlots
  <2>3. memory[b].job = HandleOf(table, i)
    BY <2>1 DEF JobsMatch
  <2>4. HandleOf(table, i) \in Handle
    BY <2>2, HandleInBounds
  <2>5. Live(table, HandleOf(table, i)) /\ Issued(table, HandleOf(table, i))
    <3>1. table.jobs[i].generation \in Nat \ {0}
      BY <2>2, PoolConstants DEF TableOK
    <3> QED BY <2>2, <3>1 DEF Live, Issued, HandleOf
  <2> QED BY <1>1, <1>2, <1>4, <2>1, <2>3, <2>4, <2>5
<1> QED BY <1>3, <1>4

\* Two blocks never belong to one job.
LEMMA JobsDistinct ==
    ASSUME TypeOK, TableOK, Shapes, BlocksOwnedOnce, JobsMatch,
           NEW b \in allocated, NEW c \in allocated, memory[b].job = memory[c].job
    PROVE  b = c
<1>1. CASE b = owner.block \/ c = owner.block
  BY <1>1, AllocatedFacts
<1>2. CASE b # owner.block /\ c # owner.block
  <2>1. PICK i \in WorkSlots(table) : table.jobs[i].background = b
                                      /\ memory[b].job = HandleOf(table, i)
    BY <1>2, AllocatedFacts
  <2>2. PICK j \in WorkSlots(table) : table.jobs[j].background = c
                                      /\ memory[c].job = HandleOf(table, j)
    BY <1>2, AllocatedFacts
  <2>3. i = j
    <3>1. HandleOf(table, i).slot = i /\ HandleOf(table, j).slot = j
      BY DEF HandleOf
    <3> QED BY <2>1, <2>2, <3>1
  <2> QED BY <2>1, <2>2, <2>3
<1> QED BY <1>1, <1>2

\* The block a worker holds is one of the table's work, and its job is live.
LEMMA HeldFacts ==
    ASSUME Safe, NEW w \in Worker, worker[w].at \in Holding
    PROVE  /\ worker[w].block \in allocated /\ worker[w].block \in Block
           /\ worker[w].block # NoBlock
           /\ worker[w].block # owner.block
           /\ worker[w].job = memory[worker[w].block].job
           /\ worker[w].job \in Handle
           /\ Issued(table, worker[w].job)
           /\ Live(table, worker[w].job)
           /\ owner.at # "freed"
<1>1. worker[w].block # NoBlock
  BY DEF Safe, Shapes
<1>2. worker[w].block \in allocated /\ worker[w].job = memory[worker[w].block].job
  BY <1>1 DEF Safe, NoUseAfterFree
<1>3. ~memory[worker[w].block].done
  BY <1>1 DEF Safe, HeldOnce
<1> QED BY <1>1, <1>2, <1>3, AllocatedFacts, SafeParts

-----------------------------------------------------------------------------
(* Types. *)

\* What a step does to the table.
LEMMA TableCases ==
    ASSUME Safe, [Next]_vars
    PROVE  \/ \E kind \in {"immediate", "timer"}, d \in Deadlines \cup {0} :
                 Room /\ table' = Activate(table, kind, d, NoBlock)
           \/ \E b \in Block : Room /\ table' = Activate(table, "work", 0, b)
           \/ \E s \in DOMAIN table.jobs : /\ table.jobs[s].kind # "empty"
                                           /\ table' = EmptySlot(table, s)
           \/ table'.jobs = table.jobs /\ table' \in TableRecord
<1> DEFINE Same == table'.jobs = table.jobs /\ table' \in TableRecord
<1>0. table \in TableRecord
  BY DEF Safe, TypeOK
<1>1. UNCHANGED table => Same
  BY <1>0
<1>2. CASE Dispatch \/ \E d \in Deadlines : At(d)
  BY <1>2 DEF Dispatch, At
<1>3. ASSUME NEW q \in UsedLanes, NEW patient \in Patience, NEW wakes \in Wakes,
             Spawn(q, patient, wakes)
      PROVE  \E b \in Block : Room /\ table' = Activate(table, "work", 0, b)
  BY <1>3 DEF Spawn
<1>4. ASSUME NEW h \in Handle, Cancel(h)
      PROVE  \/ UNCHANGED table
             \/ \E s \in DOMAIN table.jobs : /\ table.jobs[s].kind # "empty"
                                             /\ table' = EmptySlot(table, s)
  BY <1>4 DEF Cancel, Live
<1>5. CASE PollForeground \/ PollWork
  BY <1>5 DEF PollForeground, PollWork, AtSlot, SlotJob, Due
<1>6. CASE FreeRelease
  <2>1. table' = [table EXCEPT !.active = 0]
    BY <1>6 DEF FreeRelease
  <2> QED BY <1>0, <2>1 DEF TableRecord
<1>7. CASE (\E now \in Times : PollStart(now)) \/ PollSkip \/ CallbackReturns \/ PollEnd
  BY <1>1, <1>7 DEF PollStart, PollSkip, CallbackReturns, PollEnd
<1>8. CASE Sleep \/ Roused \/ TimedOut \/ FreeBegin \/ FreeShutdown
  BY <1>1, <1>8 DEF Sleep, Roused, TimedOut, FreeBegin, FreeShutdown
<1>9. ASSUME NEW w \in Worker, WorkerStep(w) \/ SpuriousWakeup(w)
      PROVE  UNCHANGED table
  BY <1>9 DEF WorkerStep, TakeWork, TakeStop, TakeWait, SpuriousWakeup, Begin, Leave,
              StoreResult, Wake, Publish
<1>10. CASE UNCHANGED vars
  BY <1>1, <1>10 DEF vars
<1> HIDE DEF Same
<1> QED BY <1>1, <1>2, <1>3, <1>4, <1>5, <1>6, <1>7, <1>8, <1>9, <1>10
        DEF Next, PollStep, FreeStep, Same

\* The table stays in its bounds.
LEMMA TableStep ==
    ASSUME Safe, [Next]_vars
    PROVE  table' \in TableRecord /\ TableOK'
<1>0. /\ table \in TableRecord /\ TableOK
      /\ DOMAIN table.jobs \subseteq 1 .. MaxSlots
  BY DEF Safe, TypeOK, TableOK
<1>1. ASSUME NEW kind \in Kinds \ {"empty"}, NEW d \in Deadlines \cup {0},
             NEW b \in Block \cup {NoBlock}, kind = "work" => b \in Block,
             Room, table' = Activate(table, kind, d, b)
      PROVE  table' \in TableRecord /\ TableOK'
  <2>1. /\ table' \in TableRecord
        /\ DOMAIN table'.jobs = DOMAIN table.jobs \cup {SlotFor(table)}
        /\ table'.jobs[SlotFor(table)] = [generation |-> NextGeneration(table), kind |-> kind,
                                          deadline |-> d, background |-> b]
        /\ \A i \in DOMAIN table.jobs : i # SlotFor(table) => table'.jobs[i] = table.jobs[i]
    BY <1>0, <1>1, ActivateFacts
  <2>2. SlotFor(table) \in 1 .. MaxSlots /\ NextGeneration(table) \in 1 .. MaxGeneration
    BY <1>1 DEF Room, HandleFor, Handle
  <2>3. ASSUME NEW i \in DOMAIN table'.jobs
        PROVE  /\ table'.jobs[i].generation \in 1 .. MaxGeneration
               /\ table'.jobs[i].kind = "work" => table'.jobs[i].background \in Block
    BY <1>0, <1>1, <2>1, <2>2 DEF TableOK
  <2> QED BY <1>0, <2>1, <2>2, <2>3 DEF TableOK
<1>2. ASSUME NEW s \in DOMAIN table.jobs, table' = EmptySlot(table, s)
      PROVE  table' \in TableRecord /\ TableOK'
  <2>1. /\ table' \in TableRecord
        /\ DOMAIN table'.jobs = DOMAIN table.jobs
        /\ table'.jobs[s] = EmptyJob(table.jobs[s].generation)
        /\ \A i \in DOMAIN table.jobs : i # s => table'.jobs[i] = table.jobs[i]
    BY <1>0, <1>2, EmptySlotFacts
  <2>2. ASSUME NEW i \in DOMAIN table'.jobs
        PROVE  /\ table'.jobs[i].generation \in 1 .. MaxGeneration
               /\ table'.jobs[i].kind = "work" => table'.jobs[i].background \in Block
    BY <1>0, <2>1 DEF TableOK, EmptyJob
  <2> QED BY <1>0, <2>1, <2>2 DEF TableOK
<1>3. CASE table'.jobs = table.jobs /\ table' \in TableRecord
  BY <1>0, <1>3 DEF TableOK
<1>4. {"immediate", "timer", "work"} \subseteq Kinds \ {"empty"}
  BY DEF Kinds
<1> QED BY <1>1, <1>2, <1>3, <1>4, TableCases

LEMMA RunningMoves ==
    ASSUME Safe, NEW w \in Worker, NEW to \in WorkerPlaces,
           worker' \in [Worker -> [at : WorkerPlaces, block : Block \cup {NoBlock},
                                   job : Handle \cup {InvalidHandle}]],
           worker'[w].at = to,
           \A v \in Worker : v # w => worker'[v].at = worker[v].at
    PROVE  LET at == worker[w].at
               now == Cardinality({v \in Worker : worker'[v].at = "running"})
           IN  /\ at # "running" /\ to = "running" => now = counters.running + 1
               /\ at = "running" /\ to # "running" => now = counters.running - 1
               /\ (at = "running" <=> to = "running") => now = counters.running
               /\ now \in 0 .. Cardinality(Worker)
<1> DEFINE R == {v \in Worker : worker[v].at = "running"}
           N == {v \in Worker : worker'[v].at = "running"}
<1>1. IsFiniteSet(Worker) /\ IsFiniteSet(R) /\ IsFiniteSet(N)
      /\ Cardinality(N) \in 0 .. Cardinality(Worker) /\ Cardinality(R) \in Nat
  <2>1. IsFiniteSet(Worker)
    BY PoolConstants
  <2>2. \A S \in SUBSET Worker : /\ IsFiniteSet(S) /\ Cardinality(S) \in Nat
                                 /\ Cardinality(S) <= Cardinality(Worker)
    BY <2>1, FS_Subset, FS_CardinalityType
  <2>3. R \in SUBSET Worker /\ N \in SUBSET Worker
    OBVIOUS
  <2> HIDE DEF R, N
  <2> QED BY <2>1, <2>2, <2>3, FS_CardinalityType
<1>2. counters.running = Cardinality(R)
  BY DEF Safe, RunningExact
<1>3. worker[w].at # "running" /\ to = "running" => N = R \cup {w} /\ w \notin R
  OBVIOUS
<1>4. worker[w].at = "running" /\ to # "running" => N = R \ {w} /\ w \in R
  OBVIOUS
<1>5. (worker[w].at = "running" <=> to = "running") => N = R
  OBVIOUS
<1> HIDE DEF R, N
<1>6. /\ N = R \cup {w} /\ w \notin R => Cardinality(N) = counters.running + 1
      /\ N = R \ {w} /\ w \in R => Cardinality(N) = counters.running - 1
      /\ N = R => Cardinality(N) = counters.running
  BY <1>1, <1>2, FS_AddElement, FS_RemoveElement
<1>7. /\ worker[w].at # "running" /\ to = "running" => Cardinality(N) = counters.running + 1
      /\ worker[w].at = "running" /\ to # "running" => Cardinality(N) = counters.running - 1
      /\ (worker[w].at = "running" <=> to = "running") => Cardinality(N) = counters.running
      /\ Cardinality(N) \in 0 .. Cardinality(Worker)
  BY <1>1, <1>3, <1>4, <1>5, <1>6
<1> QED BY <1>7 DEF N

WorkerTypes == [Worker -> [at : WorkerPlaces, block : Block \cup {NoBlock},
                           job : Handle \cup {InvalidHandle}]]

\* The steps of anyone but a worker: some that were waiting go and look again.
Notified ==
    /\ worker' \in WorkerTypes
    /\ \A w \in Worker :
          /\ worker'[w].block = worker[w].block /\ worker'[w].job = worker[w].job
          /\ \/ worker'[w].at = worker[w].at
             \/ worker[w].at = "waiting" /\ worker'[w].at = "take"

\* A step of worker w, to a place.
Moved(w, to) ==
    /\ worker' \in WorkerTypes
    /\ worker'[w].at = to
    /\ \A v \in Worker : v # w => worker'[v] = worker[v]

LEMMA OneNotified ==
    ASSUME Safe, NotifyOne
    PROVE  /\ Notified
           /\ \/ worker' = worker /\ \A w \in Worker : worker[w].at # "waiting"
              \/ \E w \in Worker : /\ worker[w].at = "waiting"
                                   /\ worker' = [worker EXCEPT ![w].at = "take"]
<1>1. worker \in WorkerTypes
  BY DEF Safe, TypeOK, WorkerTypes
<1>2. \/ worker' = worker /\ \A w \in Worker : worker[w].at # "waiting"
      \/ \E w \in Worker : /\ worker[w].at = "waiting"
                           /\ worker' = [worker EXCEPT ![w].at = "take"]
  BY DEF NotifyOne
<1>3. ASSUME worker' = worker PROVE Notified
  BY <1>1, <1>3 DEF Notified
<1>4. ASSUME NEW w \in Worker, worker[w].at = "waiting",
             worker' = [worker EXCEPT ![w].at = "take"]
      PROVE  Notified
  BY <1>1, <1>4 DEF Notified, WorkerTypes, WorkerPlaces
<1>5. Notified
  BY <1>2, <1>3, <1>4
<1> QED BY <1>2, <1>5

LEMMA GoesFacts ==
    ASSUME Safe, NEW w \in Worker, NEW from \in WorkerPlaces, NEW to \in WorkerPlaces,
           Goes(w, from, to)
    PROVE  /\ Moved(w, to)
           /\ worker[w].at = from
           /\ worker'[w].block = worker[w].block /\ worker'[w].job = worker[w].job
<1>1. worker \in WorkerTypes
  BY DEF Safe, TypeOK, WorkerTypes
<1>2. worker[w].at = from /\ worker' = [worker EXCEPT ![w].at = to]
  BY DEF Goes
<1> QED BY <1>1, <1>2 DEF Moved, WorkerTypes

\* The owner's actions, and a wake-up of its own accord, as far as the workers
\* are concerned.
OwnerStep ==
    \/ Dispatch \/ (\E d \in Deadlines : At(d))
    \/ \E q \in UsedLanes, patient \in Patience, wakes \in Wakes : Spawn(q, patient, wakes)
    \/ \E h \in Handle : Cancel(h)
    \/ (\E now \in Times : PollStart(now)) \/ PollStep
    \/ Sleep \/ Roused \/ TimedOut
    \/ FreeBegin \/ FreeStep

LEMMA OwnerNotifies ==
    ASSUME Safe, OwnerStep \/ (\E w \in Worker : SpuriousWakeup(w)) \/ UNCHANGED vars
    PROVE  Notified /\ UNCHANGED <<counters, runs>>
<1>0. worker \in WorkerTypes
  BY DEF Safe, TypeOK, WorkerTypes
<1>1. worker' = worker => Notified
  BY <1>0 DEF Notified
<1>2. CASE \/ Dispatch \/ (\E d \in Deadlines : At(d)) \/ (\E h \in Handle : Cancel(h))
           \/ (\E now \in Times : PollStart(now)) \/ PollStep \/ Sleep \/ Roused
           \/ TimedOut \/ FreeBegin \/ FreeRelease \/ UNCHANGED vars
  BY <1>1, <1>2 DEF Dispatch, At, Cancel, PollStart, PollStep, PollSkip, PollForeground,
     PollWork, CallbackReturns, PollEnd, Sleep, Roused, TimedOut, FreeBegin, FreeRelease, vars
<1>3. ASSUME NEW q \in UsedLanes, NEW patient \in Patience, NEW wakes \in Wakes,
             Spawn(q, patient, wakes)
      PROVE  Notified /\ UNCHANGED <<counters, runs>>
  BY <1>3, OneNotified DEF Spawn
<1>4. CASE FreeShutdown
  <2>1. worker' = [w \in Worker |-> IF worker[w].at = "waiting"
                                    THEN [worker[w] EXCEPT !.at = "take"] ELSE worker[w]]
    BY <1>4 DEF FreeShutdown
  <2>2. ASSUME NEW w \in Worker
        PROVE  /\ worker'[w] \in [at : WorkerPlaces, block : Block \cup {NoBlock},
                                  job : Handle \cup {InvalidHandle}]
               /\ worker'[w].block = worker[w].block /\ worker'[w].job = worker[w].job
               /\ \/ worker'[w].at = worker[w].at
                  \/ worker[w].at = "waiting" /\ worker'[w].at = "take"
    <3>1. worker[w] \in [at : WorkerPlaces, block : Block \cup {NoBlock},
                         job : Handle \cup {InvalidHandle}]
      BY <1>0 DEF WorkerTypes
    <3> QED BY <2>1, <3>1 DEF WorkerPlaces
  <2> QED BY <1>4, <2>1, <2>2 DEF Notified, WorkerTypes, FreeShutdown
<1>5. ASSUME NEW w \in Worker, SpuriousWakeup(w)
      PROVE  Notified /\ UNCHANGED <<counters, runs>>
  <2>1. worker[w].at = "waiting" /\ worker' = [worker EXCEPT ![w].at = "take"]
    BY <1>5 DEF SpuriousWakeup, Goes
  <2> QED BY <1>0, <1>5, <2>1 DEF Notified, WorkerTypes, WorkerPlaces, SpuriousWakeup
<1> QED BY <1>2, <1>3, <1>4, <1>5 DEF OwnerStep, FreeStep

\* The lanes stay in order, and what is queued changes by one block at most.
LEMMA LanesStep ==
    ASSUME Safe, [Next]_vars
    PROVE  /\ LanesOK(pool')
           /\ \/ pool' = pool
              \/ \E q \in UsedLanes, patient \in Patience, wakes \in Wakes :
                    /\ Spawn(q, patient, wakes)
                    /\ Lanes!Depth(pool') = Lanes!Depth(pool) + 1
                    /\ \E b \in Block \ allocated :
                          allocated' = allocated \cup {b}
                          /\ QueuedIn(pool') = QueuedIn(pool) \cup {b}
              \/ \E w \in Worker : /\ TakeWork(w)
                                   /\ Lanes!Popped(pool) \in QueuedIn(pool)
                                   /\ QueuedIn(pool') = QueuedIn(pool) \ {Lanes!Popped(pool)}
                                   /\ Lanes!Depth(pool') = Lanes!Depth(pool) - 1
              \/ /\ \E w \in Worker : TakeStop(w) \/ TakeWait(w)
                 /\ QueuedIn(pool') = QueuedIn(pool)
                 /\ Lanes!Depth(pool') = 0 /\ Lanes!Depth(pool) = 0
<1>0. LanesOK(pool)
  BY DEF Safe
<1>1. ASSUME NEW q \in UsedLanes, NEW patient \in Patience, NEW wakes \in Wakes,
             Spawn(q, patient, wakes)
      PROVE  /\ LanesOK(pool')
             /\ Lanes!Depth(pool') = Lanes!Depth(pool) + 1
             /\ \E b \in Block \ allocated :
                   allocated' = allocated \cup {b}
                   /\ QueuedIn(pool') = QueuedIn(pool) \cup {b}
  <2>1. PICK b \in Block \ allocated : /\ allocated' = allocated \cup {b}
                                       /\ pool' = Lanes!LaneEnqueue(pool, q, b)
    BY <1>1 DEF Spawn
  <2>2. q \in Lanes!Priorities
    BY ModelledUse
  <2>3. b \notin QueuedIn(pool)
    BY <1>1, <2>1 DEF Safe, HeldOnce, Spawn, ClientRuns
  <2> QED BY <1>0, <2>1, <2>2, <2>3, EnqueueFacts
<1>2. ASSUME NEW w \in Worker, TakeWork(w)
      PROVE  /\ LanesOK(pool')
             /\ Lanes!Popped(pool) \in QueuedIn(pool)
             /\ QueuedIn(pool') = QueuedIn(pool) \ {Lanes!Popped(pool)}
             /\ Lanes!Depth(pool') = Lanes!Depth(pool) - 1
  BY <1>0, <1>2, PopFacts DEF TakeWork
<1>3. ASSUME NEW w \in Worker, TakeStop(w) \/ TakeWait(w)
      PROVE  /\ LanesOK(pool')
             /\ QueuedIn(pool') = QueuedIn(pool)
             /\ Lanes!Depth(pool') = 0 /\ Lanes!Depth(pool) = 0
  <2>1. pool' = Lanes!AfterPop(pool) /\ Lanes!Served(pool) = "none"
    BY <1>3 DEF TakeStop, TakeWait
  <2> QED BY <1>0, <2>1, MissFacts, ServedLane
<1>4. CASE \/ Dispatch \/ (\E d \in Deadlines : At(d)) \/ (\E h \in Handle : Cancel(h))
           \/ (\E now \in Times : PollStart(now)) \/ PollStep \/ Sleep \/ Roused
           \/ TimedOut \/ FreeBegin \/ FreeStep \/ UNCHANGED vars
  <2>1. pool' = pool
    BY <1>4 DEF Dispatch, At, Cancel, PollStart, PollStep, PollSkip, PollForeground, PollWork,
       CallbackReturns, PollEnd, Sleep, Roused, TimedOut, FreeBegin, FreeStep, FreeShutdown,
       FreeRelease, vars
  <2> QED BY <1>0, <2>1
<1>5. ASSUME NEW w \in Worker, \/ SpuriousWakeup(w) \/ Begin(w) \/ Leave(w)
                               \/ StoreResult(w) \/ Wake(w) \/ Publish(w)
      PROVE  pool' = pool /\ LanesOK(pool')
  <2>1. pool' = pool
    BY <1>5 DEF SpuriousWakeup, Begin, Leave, StoreResult, Wake, Publish
  <2> QED BY <1>0, <2>1
<1> QED BY <1>1, <1>2, <1>3, <1>4, <1>5 DEF Next, WorkerStep

\* The steps of a worker.
LEMMA WorkerFacts ==
    ASSUME Safe, NEW w \in Worker
    PROVE  /\ TakeWork(w) =>
                /\ worker[w].at = "take" /\ Moved(w, "taken")
                /\ worker'[w].block = Lanes!Popped(pool)
                /\ worker'[w].job = memory[Lanes!Popped(pool)].job
                /\ Lanes!Popped(pool) \in QueuedIn(pool)
                /\ Lanes!Popped(pool) \in Block
           /\ \A from, to \in WorkerPlaces :
                 Goes(w, from, to) => /\ worker[w].at = from /\ Moved(w, to)
                                      /\ worker'[w].block = worker[w].block
                                      /\ worker'[w].job = worker[w].job
           /\ Publish(w) => /\ worker[w].at = "woken" /\ Moved(w, "take")
                            /\ worker'[w].block = NoBlock
           /\ worker[w].block \in Block \cup {NoBlock}
           /\ worker[w].job \in Handle \cup {InvalidHandle}
<1>0. /\ worker \in WorkerTypes /\ memory \in [Block -> WorkRecord]
      /\ worker[w].block \in Block \cup {NoBlock}
      /\ worker[w].job \in Handle \cup {InvalidHandle}
  BY DEF Safe, TypeOK, WorkerTypes
<1>1. ASSUME TakeWork(w)
      PROVE  /\ worker[w].at = "take" /\ Moved(w, "taken")
             /\ worker'[w].block = Lanes!Popped(pool)
             /\ worker'[w].job = memory[Lanes!Popped(pool)].job
             /\ Lanes!Popped(pool) \in QueuedIn(pool)
             /\ Lanes!Popped(pool) \in Block
  <2> DEFINE p == Lanes!Popped(pool)
  <2>1. p \in QueuedIn(pool)
    BY <1>1, PopFacts DEF TakeWork, Safe
  <2>2. p \in Block
    BY <2>1 DEF QueuedIn
  <2>3. memory[p].job \in Handle \cup {InvalidHandle}
    BY <1>0, <2>2 DEF WorkRecord
  <2>4. worker' = [worker EXCEPT ![w] = [at |-> "taken", block |-> p, job |-> memory[p].job]]
    BY <1>1 DEF TakeWork
  <2>5. worker[w].at = "take"
    BY <1>1 DEF TakeWork
  <2> HIDE DEF p
  <2>6. /\ Moved(w, "taken") /\ worker'[w].block = p /\ worker'[w].job = memory[p].job
    BY <1>0, <2>2, <2>3, <2>4 DEF WorkerTypes, WorkerPlaces, Moved
  <2> QED BY <2>1, <2>2, <2>5, <2>6 DEF p
<1>2. ASSUME Publish(w)
      PROVE  worker[w].at = "woken" /\ Moved(w, "take") /\ worker'[w].block = NoBlock
  BY <1>0, <1>2 DEF Publish, NoWork, Moved, WorkerTypes, WorkerPlaces
<1> QED BY <1>0, <1>1, <1>2, GoesFacts

\* The workers that step, and where to.
LEMMA WorkerStepFacts ==
    ASSUME Safe, NEW w \in Worker, WorkerStep(w)
    PROVE  \/ /\ TakeWork(w) /\ worker[w].at = "take" /\ Moved(w, "taken")
              /\ worker'[w].block = Lanes!Popped(pool)
              /\ worker'[w].job = memory[Lanes!Popped(pool)].job
              /\ UNCHANGED counters
           \/ /\ ((TakeStop(w) /\ shutdown) \/ TakeWait(w)) /\ worker[w].at = "take"
              /\ (Moved(w, "stopped") \/ Moved(w, "waiting"))
              /\ worker'[w].block = worker[w].block /\ worker'[w].job = worker[w].job
              /\ UNCHANGED counters
           \/ /\ Begin(w) /\ worker[w].at = "taken" /\ Moved(w, "running")
              /\ worker'[w].block = worker[w].block /\ worker'[w].job = worker[w].job
              /\ counters' = [counters EXCEPT !.running = @ + 1]
           \/ /\ Leave(w) /\ worker[w].at = "running" /\ Moved(w, "left")
              /\ worker'[w].block = worker[w].block /\ worker'[w].job = worker[w].job
              /\ counters' = [running |-> counters.running - 1,
                              completed |-> counters.completed + 1]
           \/ /\ StoreResult(w) /\ worker[w].at = "left" /\ Moved(w, "stored")
              /\ worker'[w].block = worker[w].block /\ worker'[w].job = worker[w].job
              /\ UNCHANGED counters
           \/ /\ Wake(w) /\ worker[w].at = "stored" /\ Moved(w, "woken")
              /\ worker'[w].block = worker[w].block /\ worker'[w].job = worker[w].job
              /\ UNCHANGED counters
           \/ /\ Publish(w) /\ worker[w].at = "woken" /\ Moved(w, "take")
              /\ worker'[w].block = NoBlock
              /\ UNCHANGED counters
<1>0. {"take", "waiting", "taken", "running", "left", "stored", "woken", "stopped"}
          \subseteq WorkerPlaces
  BY DEF WorkerPlaces
<1>1. CASE TakeWork(w)
  BY <1>1, WorkerFacts DEF TakeWork
<1>2. CASE TakeStop(w) \/ TakeWait(w)
  BY <1>0, <1>2, WorkerFacts DEF TakeStop, TakeWait
<1>3. CASE Begin(w)
  BY <1>0, <1>3, WorkerFacts DEF Begin
<1>4. CASE Leave(w)
  BY <1>0, <1>4, WorkerFacts DEF Leave
<1>5. CASE StoreResult(w)
  BY <1>0, <1>5, WorkerFacts DEF StoreResult
<1>6. CASE Wake(w)
  BY <1>0, <1>6, WorkerFacts DEF Wake
<1>7. CASE Publish(w)
  BY <1>7, WorkerFacts DEF Publish
<1> QED BY <1>1, <1>2, <1>3, <1>4, <1>5, <1>6, <1>7 DEF WorkerStep

\* Every step is one or the other.
LEMMA StepKinds ==
    ASSUME [Next]_vars
    PROVE  \/ OwnerStep \/ (\E w \in Worker : SpuriousWakeup(w)) \/ UNCHANGED vars
           \/ \E w \in Worker : WorkerStep(w)
  BY DEF Next, OwnerStep

LEMMA WorkersStep ==
    ASSUME Safe, [Next]_vars
    PROVE  /\ worker' \in WorkerTypes
           /\ counters' \in [running : 0 .. Cardinality(Worker), completed : Nat]
           /\ RunningExact'
<1>0. /\ counters \in [running : 0 .. Cardinality(Worker), completed : Nat]
      /\ counters.running = Cardinality({w \in Worker : worker[w].at = "running"})
  BY DEF Safe, TypeOK, RunningExact
<1>1. ASSUME Notified, UNCHANGED counters
      PROVE  /\ worker' \in WorkerTypes
             /\ counters' \in [running : 0 .. Cardinality(Worker), completed : Nat]
             /\ RunningExact'
  <2>1. {w \in Worker : worker'[w].at = "running"} = {w \in Worker : worker[w].at = "running"}
    BY <1>1 DEF Notified
  <2> QED BY <1>0, <1>1, <2>1 DEF Notified, RunningExact
<1>2. ASSUME NEW w \in Worker, WorkerStep(w)
      PROVE  /\ worker' \in WorkerTypes
             /\ counters' \in [running : 0 .. Cardinality(Worker), completed : Nat]
             /\ RunningExact'
  <2> DEFINE now == Cardinality({v \in Worker : worker'[v].at = "running"})
  <2>1. PICK to \in WorkerPlaces :
           /\ Moved(w, to)
           /\ \/ worker[w].at # "running" /\ to # "running" /\ UNCHANGED counters
              \/ worker[w].at = "taken" /\ to = "running"
                 /\ counters' = [counters EXCEPT !.running = @ + 1]
              \/ worker[w].at = "running" /\ to = "left"
                 /\ counters' = [running |-> counters.running - 1,
                                 completed |-> counters.completed + 1]
    BY <1>2, WorkerStepFacts DEF WorkerPlaces
  <2>2. /\ worker' \in WorkerTypes
        /\ worker[w].at # "running" /\ to = "running" => now = counters.running + 1
        /\ worker[w].at = "running" /\ to # "running" => now = counters.running - 1
        /\ (worker[w].at = "running" <=> to = "running") => now = counters.running
        /\ now \in 0 .. Cardinality(Worker)
    <3>1. \A v \in Worker : v # w => worker'[v].at = worker[v].at
      BY <2>1 DEF Moved
    <3>2. worker' \in WorkerTypes /\ worker'[w].at = to
      BY <2>1 DEF Moved
    <3> QED BY <3>1, <3>2, RunningMoves DEF WorkerTypes
  <2> HIDE DEF now
  <2>3. /\ counters' \in [running : 0 .. Cardinality(Worker), completed : Nat]
        /\ counters'.running = now
    BY <1>0, <2>1, <2>2
  <2> QED BY <2>2, <2>3 DEF RunningExact, now
<1> QED BY <1>1, <1>2, StepKinds, OwnerNotifies

OwnerTypes == [at : OwnerPlaces, slot : Nat, bound : Nat, now : Times \cup {0},
               block : Block \cup {NoBlock}]

LEMMA OwnerAtType ==
    ASSUME NEW place \in OwnerPlaces
    PROVE  OwnerAt(place) \in OwnerTypes
  BY DEF OwnerAt, OwnerTypes

LEMMA MemoryChanges ==
    ASSUME NEW m \in [Block -> WorkRecord], NEW b, NEW n
    PROVE  /\ n = [m EXCEPT ![b].cancel = TRUE] => n \in [Block -> WorkRecord]
           /\ n = [m EXCEPT ![b].done = TRUE] => n \in [Block -> WorkRecord]
           /\ \A j \in Handle \cup {InvalidHandle} :
                n = [m EXCEPT ![b].result = j] => n \in [Block -> WorkRecord]
<1>1. \A r \in WorkRecord : /\ [r EXCEPT !.cancel = TRUE] \in WorkRecord
                             /\ [r EXCEPT !.done = TRUE] \in WorkRecord
                             /\ \A j \in Handle \cup {InvalidHandle} :
                                   [r EXCEPT !.result = j] \in WorkRecord
  BY DEF WorkRecord
<1>2. \A r \in WorkRecord : b \in Block => [m EXCEPT ![b] = r] \in [Block -> WorkRecord]
  OBVIOUS
<1>3. CASE b \in Block
  <2>1. m[b] \in WorkRecord
    BY <1>3
  <2> QED BY <1>1, <1>3, <2>1
<1>4. CASE b \notin Block
  BY <1>4
<1> QED BY <1>3, <1>4

LEMMA OneMore ==
    ASSUME NEW S, NEW f \in [S -> Nat], NEW x \in S, NEW g, g = [f EXCEPT ![x] = @ + 1]
    PROVE  /\ g \in [S -> Nat]
           /\ g[x] = f[x] + 1
           /\ \A y \in S : y # x => g[y] = f[y]
  OBVIOUS

\* The owner's place and its block, and the memory, of each step.
LEMMA OwnerStepTypes ==
    ASSUME Safe, OwnerStep
    PROVE  /\ owner' \in OwnerTypes
           /\ shutdown' \in BOOLEAN
           /\ memory' \in [Block -> WorkRecord]
           /\ allocated' \subseteq Block
           /\ signal' \in BOOLEAN
           /\ calls' \in [Handle -> Nat]
           /\ asked' \subseteq Handle
           /\ background' \subseteq Handle
<1> DEFINE Good == /\ owner' \in OwnerTypes
                   /\ shutdown' \in BOOLEAN
                   /\ memory' \in [Block -> WorkRecord]
                   /\ allocated' \subseteq Block
                   /\ signal' \in BOOLEAN
                   /\ calls' \in [Handle -> Nat]
                   /\ asked' \subseteq Handle
                   /\ background' \subseteq Handle
<1>0. /\ owner \in OwnerTypes /\ shutdown \in BOOLEAN
      /\ memory \in [Block -> WorkRecord] /\ allocated \subseteq Block /\ signal \in BOOLEAN
      /\ calls \in [Handle -> Nat] /\ asked \subseteq Handle /\ background \subseteq Handle
      /\ table \in TableRecord
  BY DEF Safe, TypeOK, OwnerTypes
<1>1. CASE Dispatch \/ \E d \in Deadlines : At(d)
  BY <1>0, <1>1 DEF Dispatch, At
<1>2. ASSUME NEW q \in UsedLanes, NEW patient \in Patience, NEW wakes \in Wakes,
             Spawn(q, patient, wakes)
      PROVE  Good
  <2>1. HandleFor(table) \in Handle
    BY <1>2 DEF Spawn, Room
  <2>2. PICK b \in Block : /\ allocated' = allocated \cup {b}
                           /\ memory' = [memory EXCEPT ![b] =
                                [ZeroedWork EXCEPT !.job = HandleFor(table),
                                    !.patient = patient, !.wakes = wakes]]
    BY <1>2 DEF Spawn
  <2>3. [ZeroedWork EXCEPT !.job = HandleFor(table), !.patient = patient, !.wakes = wakes]
          \in WorkRecord
    BY <2>1, ModelledUse DEF ZeroedWork, WorkRecord
  <2>4. memory' \in [Block -> WorkRecord]
    BY <1>0, <2>2, <2>3
  <2> QED BY <1>0, <1>2, <2>1, <2>2, <2>4 DEF Spawn
<1>3. ASSUME NEW h \in Handle, Cancel(h)
      PROVE  Good
  <2>1. memory' = memory
        \/ memory' = [memory EXCEPT ![table.jobs[h.slot].background].cancel = TRUE]
    BY <1>3 DEF Cancel
  <2>2. memory' \in [Block -> WorkRecord]
    BY <1>0, <2>1, MemoryChanges
  <2> QED BY <1>0, <1>3, <2>2 DEF Cancel
<1>4. ASSUME NEW now \in Times, PollStart(now)
      PROVE  Good
  <2>1. Len(table.jobs) \in Nat
    BY <1>0, TableTypes
  <2>2. owner' \in OwnerTypes
    BY <1>4, <2>1 DEF PollStart, OwnerTypes, OwnerPlaces
  <2> QED BY <1>0, <1>4, <2>2 DEF PollStart
<1>5. CASE PollSkip \/ CallbackReturns
  <2>0. owner.slot + 1 \in Nat
    BY <1>0 DEF OwnerTypes
  <2>1. PICK n \in Nat :
           \/ owner' = [owner EXCEPT !.slot = n]
           \/ owner' = [owner EXCEPT !.at = "polling", !.slot = n, !.block = NoBlock]
    BY <1>5, <2>0 DEF PollSkip, CallbackReturns
  <2>2. owner' \in OwnerTypes
    BY <1>0, <2>1 DEF OwnerTypes, OwnerPlaces
  <2> QED BY <1>0, <1>5, <2>2 DEF PollSkip, CallbackReturns
<1>6. CASE PollForeground \/ PollWork
  <2>1. HandleOf(table, owner.slot) \in Handle /\ owner.slot \in DOMAIN table.jobs
    BY <1>6, HandleInBounds, SafeParts DEF PollForeground, PollWork, AtSlot
  <2>2. /\ calls' = [calls EXCEPT ![HandleOf(table, owner.slot)] = @ + 1]
        /\ \/ owner' = [owner EXCEPT !.at = "callback"]
           \/ owner' = [owner EXCEPT !.at = "callback",
                                     !.block = table.jobs[owner.slot].background]
        /\ UNCHANGED <<shutdown, memory, allocated, signal, asked, background>>
    BY <1>6 DEF PollForeground, PollWork, SlotJob
  <2>3. calls' \in [Handle -> Nat]
    BY <1>0, <2>1, <2>2, OneMore
  <2>4. owner' \in OwnerTypes
    BY <1>0, <2>1, <2>2, TableTypes DEF OwnerTypes, OwnerPlaces
  <2> QED BY <1>0, <2>2, <2>3, <2>4
<1>7. CASE PollEnd \/ Sleep \/ Roused \/ TimedOut
  <2>1. owner' = OwnerAt("idle") \/ owner' = OwnerAt("asleep")
    BY <1>7 DEF PollEnd, Sleep, Roused, TimedOut
  <2>2. owner' \in OwnerTypes
    BY <2>1, OwnerAtType DEF OwnerPlaces
  <2> QED BY <1>0, <1>7, <2>2 DEF PollEnd, Sleep, Roused, TimedOut
<1>8. CASE FreeBegin \/ FreeStep
  <2>1. \/ owner' = OwnerAt("stopping") \/ owner' = OwnerAt("joining")
        \/ owner' = OwnerAt("freed")
    BY <1>8 DEF FreeBegin, FreeStep, FreeShutdown, FreeRelease
  <2>2. owner' \in OwnerTypes
    BY <2>1, OwnerAtType DEF OwnerPlaces
  <2>3. memory' \in [Block -> WorkRecord]
    <3>1. CASE FreeBegin
      <4> DEFINE used(b) == \E i \in WorkSlots(table) : table.jobs[i].background = b
      <4>1. memory' = [b \in Block |-> IF used(b) THEN [memory[b] EXCEPT !.cancel = TRUE]
                                       ELSE memory[b]]
        BY <3>1 DEF FreeBegin
      <4> HIDE DEF used
      <4> QED BY <1>0, <4>1 DEF WorkRecord
    <3>2. CASE FreeStep
      BY <1>0, <3>2 DEF FreeStep, FreeShutdown, FreeRelease
    <3> QED BY <1>8, <3>1, <3>2
  <2> QED BY <1>0, <1>8, <2>2, <2>3 DEF FreeBegin, FreeStep, FreeShutdown, FreeRelease
<1> QED BY <1>1, <1>2, <1>3, <1>4, <1>5, <1>6, <1>7, <1>8 DEF OwnerStep, PollStep

LEMMA TypeStep == ASSUME Safe, [Next]_vars PROVE TypeOK'
<1> DEFINE Rest == /\ owner' \in OwnerTypes
                   /\ shutdown' \in BOOLEAN
                   /\ memory' \in [Block -> WorkRecord]
                   /\ allocated' \subseteq Block
                   /\ signal' \in BOOLEAN
                   /\ calls' \in [Handle -> Nat]
                   /\ runs' \in [Handle -> Nat]
                   /\ asked' \subseteq Handle
                   /\ background' \subseteq Handle
<1>0. /\ owner \in OwnerTypes /\ shutdown \in BOOLEAN
      /\ memory \in [Block -> WorkRecord] /\ allocated \subseteq Block /\ signal \in BOOLEAN
      /\ calls \in [Handle -> Nat] /\ runs \in [Handle -> Nat]
      /\ asked \subseteq Handle /\ background \subseteq Handle
  BY DEF Safe, TypeOK, OwnerTypes
<1>1. ASSUME OwnerStep PROVE Rest
  <2>1. UNCHANGED runs
    BY <1>1, OwnerNotifies
  <2> QED BY <1>0, <1>1, <2>1, OwnerStepTypes
<1>2. ASSUME NEW w \in Worker, SpuriousWakeup(w) PROVE Rest
  BY <1>0, <1>2 DEF SpuriousWakeup
<1>3. ASSUME UNCHANGED vars PROVE Rest
  BY <1>0, <1>3 DEF vars
<1>4. ASSUME NEW w \in Worker, WorkerStep(w) PROVE Rest
  <2>1. CASE Begin(w)
    <3>1. worker[w].job \in Handle
      BY <2>1, HeldFacts DEF Begin, Goes, Holding
    <3>2. runs' \in [Handle -> Nat]
      BY <1>0, <2>1, <3>1, OneMore DEF Begin
    <3> QED BY <1>0, <2>1, <3>2 DEF Begin
  <2>2. CASE StoreResult(w)
    BY <1>0, <2>2, MemoryChanges, WorkerFacts DEF StoreResult
  <2>3. CASE Publish(w)
    BY <1>0, <2>3, MemoryChanges DEF Publish
  <2>4. CASE Wake(w)
    <3>1. signal' \in BOOLEAN
      <4>1. worker[w].block \in Block
        BY <2>4, NoBlockIsNone, WorkerFacts DEF Wake, Goes, Safe, Shapes, Holding
      <4>2. memory[worker[w].block].wakes \in BOOLEAN
        BY <1>0, <4>1 DEF WorkRecord
      <4> QED BY <1>0, <2>4, <4>2 DEF Wake
    <3>2. UNCHANGED <<owner, shutdown, memory, allocated, calls, runs, asked, background>>
      BY <2>4 DEF Wake
    <3> QED BY <1>0, <3>1, <3>2
  <2>5. CASE TakeWork(w) \/ TakeStop(w) \/ TakeWait(w) \/ Leave(w)
    BY <1>0, <2>5 DEF TakeWork, TakeStop, TakeWait, Leave
  <2> QED BY <1>4, <2>1, <2>2, <2>3, <2>4, <2>5 DEF WorkerStep
<1>5. Rest
  <2> HIDE DEF Rest
  <2> QED BY <1>1, <1>2, <1>3, <1>4, StepKinds
<1>6. pool' \in Lanes!LaneRecord
  BY LanesStep DEF LanesOK
<1> QED BY <1>5, <1>6, TableStep, WorkersStep DEF TypeOK, OwnerTypes, WorkerTypes

-----------------------------------------------------------------------------
(* Nobody sleeps beside work. *)

LEMMA TakersCount ==
    ASSUME NEW S \in SUBSET Worker
    PROVE  /\ IsFiniteSet(S) /\ Cardinality(S) \in Nat
           /\ \A w \in S : Cardinality(S \ {w}) = Cardinality(S) - 1
           /\ \A w \in Worker \ S : Cardinality(S \cup {w}) = Cardinality(S) + 1
           /\ \A T \in SUBSET S : Cardinality(T) <= Cardinality(S)
<1>1. IsFiniteSet(S)
  BY PoolConstants, FS_Subset
<1> QED BY <1>1, FS_CardinalityType, FS_RemoveElement, FS_AddElement, FS_Subset

LEMMA SleepersStep == ASSUME Safe, [Next]_vars PROVE NoSleeperBesideWork'
<1> DEFINE T == {w \in Worker : worker[w].at = "take"}
           N == {w \in Worker : worker'[w].at = "take"}
           d == Lanes!Depth(pool)
           e == Lanes!Depth(pool')
<1>0. /\ T \in SUBSET Worker /\ N \in SUBSET Worker /\ d \in Int /\ e \in Int
      /\ (\E w \in Worker : worker[w].at = "waiting") => d <= Cardinality(T)
  <2>1. pool \in Lanes!LaneRecord /\ pool' \in Lanes!LaneRecord
    BY LanesStep DEF Safe, LanesOK
  <2> QED BY <2>1, LaneTypes DEF Safe, NoSleeperBesideWork
<1> SUFFICES (\E w \in Worker : worker'[w].at = "waiting") => e <= Cardinality(N)
  BY DEF NoSleeperBesideWork
<1>1. ASSUME NEW q \in UsedLanes, NEW patient \in Patience, NEW wakes \in Wakes,
             Spawn(q, patient, wakes), e = d + 1
      PROVE  (\E w \in Worker : worker'[w].at = "waiting") => e <= Cardinality(N)
  <2>1. \/ worker' = worker /\ \A w \in Worker : worker[w].at # "waiting"
        \/ \E w \in Worker : /\ worker[w].at = "waiting"
                             /\ worker' = [worker EXCEPT ![w].at = "take"]
    BY <1>1, OneNotified DEF Spawn
  <2>2. ASSUME NEW w \in Worker, worker[w].at = "waiting",
               worker' = [worker EXCEPT ![w].at = "take"]
        PROVE  e <= Cardinality(N)
    <3>1. worker \in WorkerTypes
      BY DEF Safe, TypeOK, WorkerTypes
    <3>2. N = T \cup {w} /\ w \notin T
      BY <2>2, <3>1 DEF WorkerTypes
    <3>3. Cardinality(T \cup {w}) = Cardinality(T) + 1 /\ Cardinality(T) \in Nat
      <4> HIDE DEF T, N
      <4> QED BY <1>0, <3>2, TakersCount
    <3>4. d <= Cardinality(T)
      BY <1>0, <2>2
    <3> HIDE DEF T, N, d, e
    <3> QED BY <1>0, <1>1, <3>2, <3>3, <3>4
  <2> QED BY <2>1, <2>2
<1>2. ASSUME Notified, e = d
      PROVE  (\E w \in Worker : worker'[w].at = "waiting") => e <= Cardinality(N)
  <2>1. T \subseteq N
    BY <1>2 DEF Notified
  <2>2. Cardinality(T) <= Cardinality(N) /\ Cardinality(T) \in Nat /\ Cardinality(N) \in Nat
    <3> HIDE DEF T, N
    <3> QED BY <1>0, <2>1, TakersCount
  <2>3. (\E w \in Worker : worker'[w].at = "waiting")
          => \E w \in Worker : worker[w].at = "waiting"
    BY <1>2 DEF Notified
  <2> HIDE DEF T, N, d, e
  <2> QED BY <1>0, <1>2, <2>2, <2>3
<1>3. ASSUME NEW w \in Worker, TakeWork(w), e = d - 1
      PROVE  (\E v \in Worker : worker'[v].at = "waiting") => e <= Cardinality(N)
  <2>1. worker[w].at = "take" /\ Moved(w, "taken")
    BY <1>3, WorkerFacts
  <2>2. N = T \ {w} /\ w \in T
    BY <2>1 DEF Moved
  <2>3. (\E v \in Worker : worker'[v].at = "waiting")
          => \E v \in Worker : worker[v].at = "waiting"
    BY <2>1 DEF Moved
  <2>4. Cardinality(N) = Cardinality(T) - 1 /\ Cardinality(T) \in Nat
    <3> HIDE DEF T, N
    <3> QED BY <1>0, <2>2, TakersCount
  <2> HIDE DEF T, N, d, e
  <2> QED BY <1>0, <1>3, <2>3, <2>4
<1>4. ASSUME e = 0
      PROVE  e <= Cardinality(N)
  <2>1. Cardinality(N) \in Nat
    <3> HIDE DEF T, N
    <3> QED BY <1>0, TakersCount
  <2> HIDE DEF T, N, d, e
  <2> QED BY <1>4, <2>1
<1>5. ASSUME NEW w \in Worker, WorkerStep(w), ~TakeWork(w), ~TakeStop(w), ~TakeWait(w), e = d
      PROVE  (\E v \in Worker : worker'[v].at = "waiting") => e <= Cardinality(N)
  <2>1. PICK to \in WorkerPlaces :
           Moved(w, to) /\ worker[w].at # "take" /\ to # "waiting"
    BY <1>5, WorkerStepFacts DEF WorkerPlaces
  <2>2. T \subseteq N
    BY <2>1 DEF Moved
  <2>3. (\E v \in Worker : worker'[v].at = "waiting")
          => \E v \in Worker : worker[v].at = "waiting"
    BY <2>1 DEF Moved
  <2>4. Cardinality(T) <= Cardinality(N) /\ Cardinality(T) \in Nat /\ Cardinality(N) \in Nat
    <3> HIDE DEF T, N
    <3> QED BY <1>0, <2>2, TakersCount
  <2> HIDE DEF T, N, d, e
  <2> QED BY <1>0, <1>5, <2>3, <2>4
<1>6. CASE pool' = pool
  <2>1. e = d
    BY <1>6
  <2> HIDE DEF N, d, e
  <2>2. ASSUME NEW w \in Worker, WorkerStep(w), TakeWork(w) \/ TakeStop(w) \/ TakeWait(w)
        PROVE  (\E v \in Worker : worker'[v].at = "waiting") => e <= Cardinality(N)
    <3>1. pool' = Lanes!AfterPop(pool)
      BY <2>2 DEF TakeWork, TakeStop, TakeWait
    <3>2. CASE Lanes!Served(pool) = "none"
      <4>1. d = 0
        BY <3>2, ServedLane DEF d, Safe
      <4> QED BY <1>4, <2>1, <4>1
    <3>3. CASE Lanes!Served(pool) # "none"
      <4>1. e = d - 1
        BY <3>1, <3>3, PopFacts DEF d, e, Safe
      <4> QED BY <1>0, <2>1, <4>1 DEF e, d
    <3> QED BY <3>2, <3>3
  <2> QED BY <1>2, <1>5, <2>1, <2>2, StepKinds, OwnerNotifies
<1>7. CASE pool' # pool
  <2> HIDE DEF N, d, e
  <2>1. \/ \E q \in UsedLanes, patient \in Patience, wakes \in Wakes :
              Spawn(q, patient, wakes) /\ e = d + 1
        \/ \E w \in Worker : TakeWork(w) /\ e = d - 1
        \/ e = 0
    BY <1>7, LanesStep DEF d, e
  <2> QED BY <1>1, <1>3, <1>4, <2>1
<1> QED BY <1>6, <1>7

-----------------------------------------------------------------------------
(* Where the owner and the workers are. *)

\* Where each of the owner's actions takes it, and the block it holds.
LEMMA OwnerMoves ==
    ASSUME Safe
    PROVE  /\ \A now \in Times : PollStart(now) =>
                 owner.at = "idle" /\ owner'.at = "polling" /\ owner'.block = NoBlock
           /\ PollSkip => owner.at = "polling" /\ owner'.at = "polling"
                          /\ owner'.block = owner.block
           /\ PollForeground => owner.at = "polling" /\ owner'.at = "callback"
                                /\ owner'.block = owner.block
           /\ PollWork => owner.at = "polling" /\ owner'.at = "callback"
                          /\ owner'.block = table.jobs[owner.slot].background
           /\ CallbackReturns => owner.at = "callback" /\ owner'.at = "polling"
                                 /\ owner'.block = NoBlock
           /\ PollEnd => owner.at = "polling" /\ owner'.at = "idle" /\ owner'.block = NoBlock
           /\ Sleep => owner.at = "idle" /\ owner'.at = "asleep" /\ owner'.block = NoBlock
           /\ Roused \/ TimedOut => owner.at \in {"idle", "asleep"} /\ owner'.at = "idle"
                                    /\ owner'.block = NoBlock
           /\ FreeBegin => owner.at = "idle" /\ owner'.at = "stopping" /\ owner'.block = NoBlock
           /\ FreeShutdown => owner.at = "stopping" /\ owner'.at = "joining"
                              /\ owner'.block = NoBlock
           /\ FreeRelease => owner.at = "joining" /\ owner'.at = "freed"
                             /\ owner'.block = NoBlock
<1>0. owner \in OwnerTypes
  BY DEF Safe, TypeOK, OwnerTypes
<1>1. /\ \A now \in Times : PollStart(now) =>
            owner.at = "idle" /\ owner'.at = "polling" /\ owner'.block = NoBlock
      /\ PollEnd => owner.at = "polling" /\ owner'.at = "idle" /\ owner'.block = NoBlock
      /\ Sleep => owner.at = "idle" /\ owner'.at = "asleep" /\ owner'.block = NoBlock
      /\ Roused \/ TimedOut => owner.at \in {"idle", "asleep"} /\ owner'.at = "idle"
                               /\ owner'.block = NoBlock
  BY DEF PollStart, PollEnd, Sleep, Roused, TimedOut, OwnerAt
<1>2. /\ FreeBegin => owner.at = "idle" /\ owner'.at = "stopping" /\ owner'.block = NoBlock
      /\ FreeShutdown => owner.at = "stopping" /\ owner'.at = "joining"
                         /\ owner'.block = NoBlock
      /\ FreeRelease => owner.at = "joining" /\ owner'.at = "freed" /\ owner'.block = NoBlock
  BY DEF FreeBegin, FreeShutdown, FreeRelease, OwnerAt
<1>3. PollSkip => owner.at = "polling" /\ owner'.at = "polling" /\ owner'.block = owner.block
  BY <1>0 DEF PollSkip, AtSlot, OwnerTypes
<1>4. PollForeground => owner.at = "polling" /\ owner'.at = "callback"
                        /\ owner'.block = owner.block
  BY <1>0 DEF PollForeground, AtSlot, OwnerTypes
<1>5. PollWork => owner.at = "polling" /\ owner'.at = "callback"
                  /\ owner'.block = table.jobs[owner.slot].background
  BY <1>0 DEF PollWork, AtSlot, SlotJob, OwnerTypes
<1>6. CallbackReturns => owner.at = "callback" /\ owner'.at = "polling"
                         /\ owner'.block = NoBlock
  BY <1>0 DEF CallbackReturns, OwnerTypes
<1> QED BY <1>1, <1>2, <1>3, <1>4, <1>5, <1>6

\* The steps that leave it where it is.
LEMMA OwnerStays ==
    ASSUME \/ Dispatch \/ (\E d \in Deadlines : At(d)) \/ (\E h \in Handle : Cancel(h))
           \/ (\E q \in UsedLanes, patient \in Patience, wakes \in Wakes :
                  Spawn(q, patient, wakes))
           \/ (\E w \in Worker : WorkerStep(w) \/ SpuriousWakeup(w)) \/ UNCHANGED vars
    PROVE  UNCHANGED owner
  BY DEF Dispatch, At, Cancel, Spawn, WorkerStep, SpuriousWakeup, TakeWork, TakeStop,
     TakeWait, Begin, Leave, StoreResult, Wake, Publish, vars

LEMMA ShapesStep == ASSUME Safe, [Next]_vars PROVE Shapes'
<1>0. /\ \A w \in Worker : worker[w].block # NoBlock <=> worker[w].at \in Holding
      /\ owner.at # "callback" => owner.block = NoBlock
      /\ owner.at = "freed" => \A w \in Worker : worker[w].at \in {"absent", "stopped"}
      /\ owner \in OwnerTypes
  BY DEF Safe, TypeOK, OwnerTypes, Shapes
<1>1. ASSUME NEW w \in Worker
      PROVE  worker'[w].block # NoBlock <=> worker'[w].at \in Holding
  <2>1. CASE Notified
    BY <1>0, <2>1 DEF Notified, Holding
  <2>2. ASSUME NEW v \in Worker, WorkerStep(v)
        PROVE  worker'[w].block # NoBlock <=> worker'[w].at \in Holding
    <3>1. CASE w # v
      <4>1. worker'[w] = worker[w]
        BY <2>2, <3>1, WorkerStepFacts DEF Moved
      <4> QED BY <1>0, <4>1
    <3>2. CASE w = v
      <4>1. TakeWork(v) => Lanes!Popped(pool) # NoBlock
        BY WorkerFacts, NoBlockIsNone
      <4> QED BY <1>0, <2>2, <3>2, <4>1, WorkerStepFacts DEF Moved, Holding
    <3> QED BY <3>1, <3>2
  <2> QED BY <2>1, <2>2, StepKinds, OwnerNotifies
<1>2. owner'.at # "callback" => owner'.block = NoBlock
  <2>1. CASE UNCHANGED owner
    BY <1>0, <2>1
  <2> QED BY <1>0, <2>1, OwnerMoves, OwnerStays DEF Next, PollStep, FreeStep
<1>3. owner'.at = "freed" => \A w \in Worker : worker'[w].at \in {"absent", "stopped"}
  <2>1. CASE owner.at = "freed"
    <3>1. ASSUME NEW v \in Worker, WorkerStep(v) PROVE FALSE
      BY <1>0, <2>1, <3>1, WorkerStepFacts
    <3>2. Notified
      BY <3>1, StepKinds, OwnerNotifies
    <3> QED BY <1>0, <2>1, <3>2 DEF Notified
  <2>2. CASE owner.at # "freed" /\ owner'.at = "freed"
    <3>1. CASE FreeRelease
      BY <3>1 DEF FreeRelease, Started
    <3>2. CASE ~FreeRelease
      <4>1. ~(UNCHANGED owner)
        BY <2>2
      <4> QED BY <2>2, <3>2, <4>1, OwnerMoves, OwnerStays DEF Next, PollStep, FreeStep
    <3> QED BY <3>1, <3>2
  <2> QED BY <2>1, <2>2
<1> QED BY <1>1, <1>2, <1>3 DEF Shapes

-----------------------------------------------------------------------------
(* The blocks. *)

SomeSpawn == \E q \in UsedLanes, patient \in Patience, wakes \in Wakes : Spawn(q, patient, wakes)

\* A spawn fills one free block and one slot with a new job.
LEMMA SpawnFacts ==
    ASSUME Safe, SomeSpawn
    PROVE  /\ ClientRuns
           /\ HandleFor(table) \in Handle
           /\ background' = background \cup {HandleFor(table)}
           /\ UNCHANGED <<owner, counters, calls, runs>>
           /\ \E b \in Block \ allocated :
                 /\ allocated' = allocated \cup {b}
                 /\ table' = Activate(table, "work", 0, b)
                 /\ memory'[b].job = HandleFor(table) /\ ~memory'[b].done
                 /\ \A c \in Block : c # b => memory'[c] = memory[c]
                 /\ QueuedIn(pool') = QueuedIn(pool) \cup {b}
<1>0. memory \in [Block -> WorkRecord]
  BY DEF Safe, TypeOK
<1>1. PICK q \in UsedLanes, patient \in Patience, wakes \in Wakes : Spawn(q, patient, wakes)
  BY DEF SomeSpawn
<1>2. PICK b \in Block \ allocated :
         /\ allocated' = allocated \cup {b}
         /\ memory' = [memory EXCEPT ![b] =
                         [ZeroedWork EXCEPT !.job = HandleFor(table),
                                            !.patient = patient, !.wakes = wakes]]
         /\ table' = Activate(table, "work", 0, b)
         /\ pool' = Lanes!LaneEnqueue(pool, q, b)
  BY <1>1 DEF Spawn
<1>3. /\ memory'[b].job = HandleFor(table) /\ ~memory'[b].done
      /\ \A c \in Block : c # b => memory'[c] = memory[c]
  BY <1>0, <1>2 DEF ZeroedWork
<1>4. QueuedIn(pool') = QueuedIn(pool) \cup {b}
  <2>1. q \in Lanes!Priorities
    BY ModelledUse
  <2>2. b \notin QueuedIn(pool)
    BY <1>1, <1>2 DEF Safe, HeldOnce, Spawn, ClientRuns
  <2> QED BY <1>2, <2>1, <2>2, EnqueueFacts DEF Safe
<1> QED BY <1>1, <1>2, <1>3, <1>4 DEF Spawn, Room

\* What every other step leaves in a block: its job; whether it is published,
\* but for a publication; and its result, but for the store of one.
LEMMA MemoryFacts ==
    ASSUME Safe, [Next]_vars, ~SomeSpawn, NEW b \in Block
    PROVE  /\ memory'[b].job = memory[b].job
           /\ \/ memory'[b].done = memory[b].done
              \/ \E w \in Worker : Publish(w) /\ b = worker[w].block /\ memory'[b].done
           /\ \/ memory'[b].result = memory[b].result
              \/ \E w \in Worker : StoreResult(w) /\ b = worker[w].block
                                   /\ memory'[b].result = worker[w].job
<1> DEFINE Kept == /\ memory'[b].job = memory[b].job
                   /\ memory'[b].done = memory[b].done
                   /\ memory'[b].result = memory[b].result
<1>0. memory \in [Block -> WorkRecord] /\ memory[b] \in WorkRecord
  BY DEF Safe, TypeOK
<1>1. UNCHANGED memory => Kept
  OBVIOUS
<1>2. ASSUME NEW c, memory' = [memory EXCEPT ![c].cancel = TRUE] PROVE Kept
  <2>1. memory' = [memory EXCEPT ![c] = [memory[c] EXCEPT !.cancel = TRUE]]
    BY <1>2
  <2> QED BY <1>0, <2>1 DEF WorkRecord
<1>3. ASSUME NEW h \in Handle, Cancel(h) PROVE Kept
  <2>1. UNCHANGED memory \/ \E c : memory' = [memory EXCEPT ![c].cancel = TRUE]
    BY <1>3 DEF Cancel
  <2> QED BY <1>1, <1>2, <2>1
<1>4. ASSUME FreeBegin PROVE Kept
  <2> DEFINE used(x) == \E i \in WorkSlots(table) : table.jobs[i].background = x
  <2>1. memory' = [x \in Block |-> IF used(x) THEN [memory[x] EXCEPT !.cancel = TRUE]
                                   ELSE memory[x]]
    BY <1>4 DEF FreeBegin
  <2> HIDE DEF used
  <2> QED BY <1>0, <2>1 DEF WorkRecord
<1>5. ASSUME NEW w \in Worker, StoreResult(w)
      PROVE  /\ memory'[b].job = memory[b].job /\ memory'[b].done = memory[b].done
             /\ \/ memory'[b].result = memory[b].result
                \/ b = worker[w].block /\ memory'[b].result = worker[w].job
  <2>1. memory' = [memory EXCEPT ![worker[w].block] =
                     [memory[worker[w].block] EXCEPT !.result = worker[w].job]]
    BY <1>5 DEF StoreResult
  <2> QED BY <1>0, <2>1 DEF WorkRecord
<1>6. ASSUME NEW w \in Worker, Publish(w)
      PROVE  /\ memory'[b].job = memory[b].job /\ memory'[b].result = memory[b].result
             /\ \/ memory'[b].done = memory[b].done
                \/ b = worker[w].block /\ memory'[b].done
  <2>1. memory' = [memory EXCEPT ![worker[w].block] =
                     [memory[worker[w].block] EXCEPT !.done = TRUE]]
    BY <1>6 DEF Publish
  <2> QED BY <1>0, <2>1 DEF WorkRecord
<1>7. ASSUME \/ Dispatch \/ (\E d \in Deadlines : At(d)) \/ (\E now \in Times : PollStart(now))
             \/ PollStep \/ Sleep \/ Roused \/ TimedOut \/ FreeStep \/ UNCHANGED vars
             \/ \E w \in Worker : \/ TakeWork(w) \/ TakeStop(w) \/ TakeWait(w) \/ Begin(w)
                                  \/ Leave(w) \/ Wake(w) \/ SpuriousWakeup(w)
      PROVE  UNCHANGED memory
  BY <1>7 DEF Dispatch, At, PollStart, PollStep, PollSkip, PollForeground, PollWork,
     CallbackReturns, PollEnd, Sleep, Roused, TimedOut, FreeStep, FreeShutdown, FreeRelease,
     TakeWork, TakeStop, TakeWait, Begin, Leave, Wake, SpuriousWakeup, vars
<1> HIDE DEF Kept
<1>8. \/ Kept
      \/ \E w \in Worker : StoreResult(w) \/ Publish(w)
  BY <1>1, <1>3, <1>4, <1>7 DEF Next, WorkerStep, SomeSpawn
<1> QED BY <1>5, <1>6, <1>8 DEF Kept

BlocksGood == BlocksOwnedOnce /\ JobsMatch

\* A step that moves no block.
LEMMA BlocksFrame ==
    ASSUME Safe, [Next]_vars, ~SomeSpawn,
           table' \in TableRecord,
           WorkSlots(table') = WorkSlots(table),
           \A i \in WorkSlots(table) : table'.jobs[i] = table.jobs[i],
           \A h \in Handle : Issued(table, h) => Issued(table', h),
           \A h \in Handle : Issued(table, h) /\ Live(table', h) => Live(table, h),
           allocated' = allocated, owner'.block = owner.block,
           owner'.at = "freed" <=> owner.at = "freed"
    PROVE  BlocksGood'
<1>0. BlocksOwnedOnce /\ JobsMatch /\ owner \in OwnerTypes
  BY DEF Safe, TypeOK, OwnerTypes
<1>1. \A i \in WorkSlots(table) : table.jobs[i].background \in Block
  BY DEF Safe, TableOK, WorkSlots
<1>2. BlocksOwnedOnce'
  BY <1>0 DEF BlocksOwnedOnce
<1>3. ASSUME NEW i \in WorkSlots(table')
      PROVE  memory'[table'.jobs[i].background].job = HandleOf(table', i)
  <2>1. memory[table.jobs[i].background].job = HandleOf(table, i)
    BY <1>0 DEF JobsMatch
  <2> QED BY <1>1, <2>1, MemoryFacts DEF HandleOf
<1>4. ASSUME owner'.block # NoBlock
      PROVE  /\ memory'[owner'.block].done
             /\ memory'[owner'.block].job \in Handle
             /\ Issued(table', memory'[owner'.block].job)
             /\ ~Live(table', memory'[owner'.block].job)
  <2>1. /\ memory[owner.block].done /\ memory[owner.block].job \in Handle
        /\ Issued(table, memory[owner.block].job) /\ ~Live(table, memory[owner.block].job)
    BY <1>0, <1>4 DEF JobsMatch
  <2>2. owner.block \in Block
    BY <1>0, <1>4 DEF OwnerTypes
  <2> QED BY <2>1, <2>2, MemoryFacts
<1> QED BY <1>2, <1>3, <1>4 DEF BlocksGood, JobsMatch

\* A new job without a block, or the end of one, moves no block.
LEMMA OtherJobs ==
    ASSUME Safe
    PROVE  /\ \A kind \in {"immediate", "timer"}, d \in Deadlines \cup {0} :
                 table' = Activate(table, kind, d, NoBlock) =>
                    /\ table' \in TableRecord
                    /\ WorkSlots(table') = WorkSlots(table)
                    /\ \A i \in WorkSlots(table) : table'.jobs[i] = table.jobs[i]
                    /\ \A h \in Handle : Issued(table, h) => Issued(table', h)
                    /\ \A h \in Handle : Issued(table, h) /\ Live(table', h) => Live(table, h)
           /\ \A s \in DOMAIN table.jobs :
                 table' = EmptySlot(table, s) /\ table.jobs[s].kind \in {"immediate", "timer"} =>
                    /\ table' \in TableRecord
                    /\ WorkSlots(table') = WorkSlots(table)
                    /\ \A i \in WorkSlots(table) : table'.jobs[i] = table.jobs[i]
                    /\ \A h \in Handle : Issued(table, h) => Issued(table', h)
                    /\ \A h \in Handle : Issued(table, h) /\ Live(table', h) => Live(table, h)
<1>0. table \in TableRecord
  BY DEF Safe, TypeOK
<1>1. ASSUME NEW kind \in {"immediate", "timer"}, NEW d \in Deadlines \cup {0},
             table' = Activate(table, kind, d, NoBlock)
      PROVE  /\ table' \in TableRecord
             /\ WorkSlots(table') = WorkSlots(table)
             /\ \A i \in WorkSlots(table) : table'.jobs[i] = table.jobs[i]
             /\ \A h \in Handle : Issued(table, h) => Issued(table', h)
             /\ \A h \in Handle : Issued(table, h) /\ Live(table', h) => Live(table, h)
  <2>0. kind \in Kinds \ {"empty"} /\ kind # "work"
    BY DEF Kinds
  <2>1. /\ table' \in TableRecord
        /\ DOMAIN table'.jobs = DOMAIN table.jobs \cup {SlotFor(table)}
        /\ table'.jobs[SlotFor(table)] = [generation |-> NextGeneration(table),
                                          kind |-> kind, deadline |-> d,
                                          background |-> NoBlock]
        /\ \A i \in DOMAIN table.jobs : i # SlotFor(table) => table'.jobs[i] = table.jobs[i]
    BY <1>0, <1>1, <2>0, ActivateFacts
  <2>2. SlotFor(table) \notin WorkSlots(table)
    BY <1>0, SlotFacts DEF WorkSlots
  <2>3. /\ WorkSlots(table') = WorkSlots(table)
        /\ \A i \in WorkSlots(table) : table'.jobs[i] = table.jobs[i]
    BY <2>0, <2>1, <2>2 DEF WorkSlots
  <2>4. ASSUME NEW h \in Handle
        PROVE  /\ Issued(table, h) => Issued(table', h)
               /\ Issued(table, h) /\ Live(table', h) => Live(table, h)
    BY <1>0, <1>1, <2>0, ActivateHandles
  <2> QED BY <2>1, <2>3, <2>4
<1>2. ASSUME NEW s \in DOMAIN table.jobs, table' = EmptySlot(table, s),
             table.jobs[s].kind \in {"immediate", "timer"}
      PROVE  /\ table' \in TableRecord
             /\ WorkSlots(table') = WorkSlots(table)
             /\ \A i \in WorkSlots(table) : table'.jobs[i] = table.jobs[i]
             /\ \A h \in Handle : Issued(table, h) => Issued(table', h)
             /\ \A h \in Handle : Issued(table, h) /\ Live(table', h) => Live(table, h)
  <2>1. /\ table' \in TableRecord
        /\ DOMAIN table'.jobs = DOMAIN table.jobs
        /\ table'.jobs[s] = EmptyJob(table.jobs[s].generation)
        /\ \A i \in DOMAIN table.jobs : i # s => table'.jobs[i] = table.jobs[i]
    BY <1>0, <1>2, EmptySlotFacts
  <2>2. table'.jobs[s].kind = "empty" /\ s \notin WorkSlots(table)
    BY <1>2, <2>1 DEF EmptyJob, WorkSlots
  <2>3. /\ WorkSlots(table') = WorkSlots(table)
        /\ \A i \in WorkSlots(table) : table'.jobs[i] = table.jobs[i]
    BY <2>1, <2>2 DEF WorkSlots
  <2>4. ASSUME NEW h \in Handle
        PROVE  /\ Issued(table, h) => Issued(table', h)
               /\ Live(table', h) => Live(table, h)
    BY <1>0, <1>2, EmptySlotHandles
  <2> QED BY <2>1, <2>3, <2>4
<1> QED BY <1>1, <1>2

\* What the blocks of the table are before the owner's actions on them.
LEMMA BlockFacts ==
    ASSUME Safe
    PROVE  /\ owner.at # "freed" =>
                 allocated = {table.jobs[i].background : i \in WorkSlots(table)}
                               \cup ({owner.block} \ {NoBlock})
           /\ owner.at # "freed" =>
                 /\ \A i, j \in WorkSlots(table) :
                       table.jobs[i].background = table.jobs[j].background => i = j
                 /\ \A i \in WorkSlots(table) : table.jobs[i].background # owner.block
           /\ \A i \in WorkSlots(table) :
                 /\ i \in DOMAIN table.jobs /\ table.jobs[i].kind = "work"
                 /\ table.jobs[i].background \in Block
                 /\ table.jobs[i].background # NoBlock
                 /\ memory[table.jobs[i].background].job = HandleOf(table, i)
                 /\ HandleOf(table, i) \in Handle
                 /\ Live(table, HandleOf(table, i)) /\ Issued(table, HandleOf(table, i))
           /\ owner.block \in Block \cup {NoBlock}
<1>1. \A i \in WorkSlots(table) : i \in DOMAIN table.jobs /\ table.jobs[i].kind = "work"
  BY DEF WorkSlots
<1>2. ASSUME NEW i \in WorkSlots(table)
      PROVE  /\ table.jobs[i].background \in Block
             /\ HandleOf(table, i) \in Handle
             /\ Live(table, HandleOf(table, i)) /\ Issued(table, HandleOf(table, i))
  <2>1. table.jobs[i].generation \in Nat \ {0} /\ table.jobs[i].background \in Block
    BY <1>1, PoolConstants DEF Safe, TableOK
  <2>2. HandleOf(table, i) \in Handle
    BY <1>1, HandleInBounds DEF Safe
  <2> QED BY <1>1, <2>1, <2>2 DEF Live, Issued, HandleOf
<1>3. owner.block \in Block \cup {NoBlock}
  BY DEF Safe, TypeOK
<1>4. /\ owner.at # "freed" =>
            allocated = {table.jobs[i].background : i \in WorkSlots(table)}
                          \cup ({owner.block} \ {NoBlock})
      /\ owner.at # "freed" =>
            /\ \A i, j \in WorkSlots(table) :
                  table.jobs[i].background = table.jobs[j].background => i = j
            /\ \A i \in WorkSlots(table) : table.jobs[i].background # owner.block
  BY DEF Safe, BlocksOwnedOnce
<1> QED BY <1>1, <1>2, <1>3, <1>4, NoBlockIsNone DEF Safe, JobsMatch

LEMMA SpawnBlocks == ASSUME Safe, [Next]_vars, SomeSpawn PROVE BlocksGood'
<1>0. /\ table \in TableRecord /\ owner.at # "freed" /\ UNCHANGED owner
      /\ HandleFor(table) \in Handle /\ BlocksOwnedOnce /\ JobsMatch
  BY SpawnFacts DEF Safe, TypeOK, ClientRuns
<1>1. PICK b \in Block \ allocated :
         /\ allocated' = allocated \cup {b}
         /\ table' = Activate(table, "work", 0, b)
         /\ memory'[b].job = HandleFor(table) /\ ~memory'[b].done
         /\ \A c \in Block : c # b => memory'[c] = memory[c]
  BY SpawnFacts
<1> DEFINE s == SlotFor(table)
<1>2. /\ DOMAIN table'.jobs = DOMAIN table.jobs \cup {s}
      /\ table'.jobs[s] = [generation |-> NextGeneration(table), kind |-> "work",
                           deadline |-> 0, background |-> b]
      /\ \A i \in DOMAIN table.jobs : i # s => table'.jobs[i] = table.jobs[i]
      /\ s \notin WorkSlots(table)
  BY <1>0, <1>1, ActivateFacts, SlotFacts DEF WorkSlots, Kinds
<1>3. ASSUME NEW h \in Handle
      PROVE  /\ Issued(table, h) => Issued(table', h)
             /\ Issued(table, h) /\ Live(table', h) => Live(table, h)
  BY <1>0, <1>1, ActivateHandles DEF Kinds
<1> HIDE DEF s
<1>4. WorkSlots(table') = WorkSlots(table) \cup {s}
  BY <1>2 DEF WorkSlots
<1>5. \A i \in WorkSlots(table) : table'.jobs[i] = table.jobs[i] /\ i # s
  BY <1>2 DEF WorkSlots
<1>6. table'.jobs[s].background = b /\ HandleOf(table', s) = HandleFor(table)
  BY <1>2 DEF HandleOf, HandleFor, s
<1>7. \A i \in WorkSlots(table) : table.jobs[i].background \in allocated
                                  /\ table.jobs[i].background # b
  BY <1>0, <1>1, BlockFacts
<1>8. owner.block # b
  BY <1>0, <1>1, BlockFacts, NoBlockIsNone
<1>9. BlocksOwnedOnce'
  <2>1. allocated' = {table'.jobs[i].background : i \in WorkSlots(table')}
                       \cup ({owner'.block} \ {NoBlock})
    BY <1>0, <1>1, <1>4, <1>5, <1>6, BlockFacts
  <2>2. \A i, j \in WorkSlots(table') :
           table'.jobs[i].background = table'.jobs[j].background => i = j
    BY <1>0, <1>4, <1>5, <1>6, <1>7, BlockFacts
  <2>3. \A i \in WorkSlots(table') : table'.jobs[i].background # owner'.block
    BY <1>0, <1>4, <1>5, <1>6, <1>8, BlockFacts
  <2> QED BY <1>0, <2>1, <2>2, <2>3 DEF BlocksOwnedOnce
<1>10. ASSUME NEW i \in WorkSlots(table')
       PROVE  memory'[table'.jobs[i].background].job = HandleOf(table', i)
  <2>1. CASE i = s
    BY <1>1, <1>6, <2>1
  <2>2. CASE i # s
    <3>1. i \in WorkSlots(table) /\ table'.jobs[i] = table.jobs[i]
      BY <1>4, <1>5, <2>2
    <3>2. memory'[table.jobs[i].background].job = HandleOf(table, i)
      BY <1>1, <1>7, <3>1, BlockFacts
    <3> QED BY <3>1, <3>2 DEF HandleOf
  <2> QED BY <2>1, <2>2
<1>11. ASSUME owner'.block # NoBlock
       PROVE  /\ memory'[owner'.block].done
              /\ memory'[owner'.block].job \in Handle
              /\ Issued(table', memory'[owner'.block].job)
              /\ ~Live(table', memory'[owner'.block].job)
  <2>1. owner'.block = owner.block /\ memory'[owner.block] = memory[owner.block]
    BY <1>0, <1>1, <1>8, <1>11, BlockFacts
  <2> QED BY <1>0, <1>3, <1>11, <2>1 DEF JobsMatch
<1> QED BY <1>9, <1>10, <1>11 DEF BlocksGood, JobsMatch

LEMMA BlocksStep == ASSUME Safe, [Next]_vars PROVE BlocksGood'
<1>0. /\ table \in TableRecord /\ owner \in OwnerTypes /\ BlocksOwnedOnce /\ JobsMatch
      /\ owner.at # "callback" => owner.block = NoBlock
  BY DEF Safe, TypeOK, OwnerTypes, Shapes
<1>1. CASE SomeSpawn
  BY <1>1, SpawnBlocks
<1>2. ASSUME ~SomeSpawn, allocated' = allocated, owner'.block = owner.block,
             owner'.at = "freed" <=> owner.at = "freed", UNCHANGED table
      PROVE  BlocksGood'
  BY <1>0, <1>2, BlocksFrame
<1>3. CASE ~SomeSpawn /\ (Dispatch \/ \E d \in Deadlines : At(d))
  <2>1. /\ \E kind \in {"immediate", "timer"}, d \in Deadlines \cup {0} :
              table' = Activate(table, kind, d, NoBlock)
        /\ UNCHANGED <<allocated, owner>>
    BY <1>3 DEF Dispatch, At
  <2> QED BY <1>3, <2>1, OtherJobs, BlocksFrame
<1>4. ASSUME ~SomeSpawn, NEW h \in Handle, Cancel(h) PROVE BlocksGood'
  <2>1. UNCHANGED <<allocated, owner>>
    BY <1>4 DEF Cancel
  <2>2. CASE UNCHANGED table
    BY <1>2, <1>4, <2>1, <2>2
  <2>3. CASE ~(UNCHANGED table)
    <3>1. /\ h.slot \in DOMAIN table.jobs
          /\ table' = EmptySlot(table, h.slot)
          /\ table.jobs[h.slot].kind \in {"immediate", "timer"}
      BY <1>0, <1>4, <2>3, TableTypes DEF Cancel, Live, Kinds
    <3> QED BY <1>4, <2>1, <3>1, OtherJobs, BlocksFrame
  <2> QED BY <2>2, <2>3
<1>5. CASE ~SomeSpawn /\ PollForeground
  <2>1. /\ owner.slot \in DOMAIN table.jobs
        /\ table' = EmptySlot(table, owner.slot)
        /\ table.jobs[owner.slot].kind \in {"immediate", "timer"}
        /\ UNCHANGED allocated
    BY <1>5 DEF PollForeground, AtSlot, Due
  <2>2. owner'.block = owner.block /\ (owner'.at = "freed" <=> owner.at = "freed")
    BY <1>5, OwnerMoves
  <2> QED BY <1>5, <2>1, <2>2, OtherJobs, BlocksFrame
<1>6. CASE ~SomeSpawn /\ PollWork
  <2> DEFINE s == owner.slot
             b == table.jobs[s].background
  <2>1. /\ s \in WorkSlots(table) /\ s \in DOMAIN table.jobs
        /\ table' = EmptySlot(table, s)
        /\ memory[b].done
        /\ UNCHANGED <<allocated, memory>>
        /\ owner'.block = b /\ owner'.at = "callback"
        /\ owner.block = NoBlock /\ owner.at = "polling"
    BY <1>0, <1>6, OwnerMoves DEF PollWork, AtSlot, SlotJob, Done, WorkSlots
  <2> HIDE DEF s
  <2>2. /\ DOMAIN table'.jobs = DOMAIN table.jobs
        /\ table'.jobs[s] = EmptyJob(table.jobs[s].generation)
        /\ \A i \in DOMAIN table.jobs : i # s => table'.jobs[i] = table.jobs[i]
    BY <1>0, <2>1, EmptySlotFacts
  <2>3. /\ WorkSlots(table') = WorkSlots(table) \ {s}
        /\ \A i \in WorkSlots(table') : table'.jobs[i] = table.jobs[i]
    BY <2>1, <2>2 DEF WorkSlots, EmptyJob
  <2>4. BlocksOwnedOnce'
    <3>1. allocated' = {table'.jobs[i].background : i \in WorkSlots(table')}
                         \cup ({owner'.block} \ {NoBlock})
      <4>1. allocated = {table.jobs[i].background : i \in WorkSlots(table)}
        BY <2>1, BlockFacts
      <4>2. b \in allocated /\ b # NoBlock
        BY <2>1, BlockFacts
      <4> QED BY <2>1, <2>3, <4>1, <4>2
    <3>2. \A i, j \in WorkSlots(table') :
             table'.jobs[i].background = table'.jobs[j].background => i = j
      BY <2>1, <2>3, BlockFacts
    <3>3. \A i \in WorkSlots(table') : table'.jobs[i].background # owner'.block
      BY <2>1, <2>3, BlockFacts
    <3> QED BY <2>1, <3>1, <3>2, <3>3 DEF BlocksOwnedOnce
  <2>5. \A i \in WorkSlots(table') :
           memory'[table'.jobs[i].background].job = HandleOf(table', i)
    BY <2>1, <2>3, BlockFacts DEF HandleOf
  <2>6. /\ memory'[owner'.block].done
        /\ memory'[owner'.block].job \in Handle
        /\ Issued(table', memory'[owner'.block].job)
        /\ ~Live(table', memory'[owner'.block].job)
    <3>1. /\ memory[b].job = HandleOf(table, s) /\ HandleOf(table, s) \in Handle
          /\ Issued(table, HandleOf(table, s)) /\ table.jobs[s].kind # "empty"
      BY <2>1, BlockFacts
    <3>2. Issued(table', HandleOf(table, s)) /\ ~Live(table', HandleOf(table, s))
      BY <1>0, <2>1, <3>1, EmptySlotHandles
    <3> QED BY <2>1, <3>1, <3>2
  <2> QED BY <2>4, <2>5, <2>6 DEF BlocksGood, JobsMatch
<1>7. CASE ~SomeSpawn /\ CallbackReturns
  <2>1. /\ owner.at # "freed" /\ owner'.at # "freed" /\ owner'.block = NoBlock
        /\ allocated' = allocated \ {owner.block}
        /\ UNCHANGED <<table, memory>>
    BY <1>7, OwnerMoves DEF CallbackReturns
  <2>2. BlocksOwnedOnce'
    <3>1. allocated' = {table.jobs[i].background : i \in WorkSlots(table)}
      BY <2>1, BlockFacts
    <3>2. \A i \in WorkSlots(table) : table.jobs[i].background # NoBlock
      BY BlockFacts
    <3> QED BY <2>1, <3>1, <3>2, BlockFacts DEF BlocksOwnedOnce
  <2>3. JobsMatch'
    BY <2>1, BlockFacts DEF JobsMatch
  <2> QED BY <2>2, <2>3 DEF BlocksGood
<1>8. CASE ~SomeSpawn /\ FreeRelease
  <2>1. /\ owner.at # "freed" /\ owner'.at = "freed" /\ owner'.block = NoBlock
        /\ owner.block = NoBlock
        /\ allocated' = allocated \ {table.jobs[i].background : i \in WorkSlots(table)}
        /\ table' = [table EXCEPT !.active = 0]
        /\ UNCHANGED memory
    BY <1>0, <1>8, OwnerMoves DEF FreeRelease
  <2>2. table'.jobs = table.jobs
    BY <1>0, <2>1 DEF TableRecord
  <2>3. WorkSlots(table') = WorkSlots(table)
    BY <2>2 DEF WorkSlots
  <2>4. allocated' = {}
    BY <2>1, BlockFacts
  <2>5. BlocksOwnedOnce'
    BY <2>1, <2>4 DEF BlocksOwnedOnce
  <2>6. JobsMatch'
    BY <2>1, <2>2, <2>3, BlockFacts DEF JobsMatch, HandleOf
  <2> QED BY <2>5, <2>6 DEF BlocksGood
<1>9. CASE ~SomeSpawn /\ \/ (\E now \in Times : PollStart(now)) \/ PollSkip \/ PollEnd
                         \/ Sleep \/ Roused \/ TimedOut \/ FreeBegin \/ FreeShutdown
  <2>1. UNCHANGED <<allocated, table>>
    BY <1>9 DEF PollStart, PollSkip, PollEnd, Sleep, Roused, TimedOut, FreeBegin, FreeShutdown
  <2>2. owner'.block = owner.block /\ (owner'.at = "freed" <=> owner.at = "freed")
    BY <1>0, <1>9, OwnerMoves
  <2> QED BY <1>2, <1>9, <2>1, <2>2
<1>10. CASE ~SomeSpawn /\ \/ \E w \in Worker : WorkerStep(w) \/ SpuriousWakeup(w)
                          \/ UNCHANGED vars
  <2>1. UNCHANGED <<allocated, table, owner>>
    BY <1>10 DEF WorkerStep, SpuriousWakeup, TakeWork, TakeStop,
       TakeWait, Begin, Leave, StoreResult, Wake, Publish, vars
  <2> QED BY <1>2, <1>10, <2>1
<1> QED BY <1>1, <1>3, <1>4, <1>5, <1>6, <1>7, <1>8, <1>9, <1>10
        DEF Next, PollStep, FreeStep, SomeSpawn

-----------------------------------------------------------------------------
(* The blocks in use. *)

HeldGood == NoUseAfterFree /\ HeldOnce

HeldBlocks == {b \in Block : \E w \in Worker : worker[w].block = b}

\* A step that hands over no block and leaves those in use as they are.
LEMMA HeldFrame ==
    ASSUME Safe,
           \A w \in Worker : /\ worker'[w].block = worker[w].block
                             /\ worker'[w].job = worker[w].job,
           QueuedIn(pool') = QueuedIn(pool),
           owner.at = "freed" => owner'.at = "freed",
           \A b \in HeldBlocks \cup QueuedIn(pool) :
              b \in allocated =>
                 /\ owner'.at # "freed" => b \in allocated'
                 /\ b \in HeldBlocks => b \in allocated'
                 /\ memory'[b].job = memory[b].job /\ memory'[b].done = memory[b].done
    PROVE  HeldGood'
<1>0. /\ NoUseAfterFree /\ HeldOnce
      /\ \A w \in Worker : worker[w].block \in Block \cup {NoBlock}
  BY WorkerFacts DEF Safe
<1>1. ASSUME NEW w \in Worker, worker'[w].block # NoBlock
      PROVE  /\ worker'[w].block \in allocated'
             /\ memory'[worker'[w].block].job = worker'[w].job
             /\ ~memory'[worker'[w].block].done
             /\ worker'[w].block \notin QueuedIn(pool')
  <2>1. worker[w].block \in HeldBlocks /\ worker[w].block \in allocated
    BY <1>0, <1>1 DEF HeldBlocks, NoUseAfterFree
  <2> QED BY <1>0, <1>1, <2>1 DEF NoUseAfterFree, HeldOnce
<1>2. \A v, w \in Worker :
         worker'[v].block # NoBlock /\ worker'[v].block = worker'[w].block => v = w
  BY <1>0 DEF HeldOnce
<1>3. ASSUME owner'.at # "freed", NEW b \in QueuedIn(pool')
      PROVE  b \in allocated' /\ ~memory'[b].done
  BY <1>0, <1>3 DEF HeldOnce
<1> QED BY <1>1, <1>2, <1>3 DEF HeldGood, NoUseAfterFree, HeldOnce

LEMMA SpawnHeld == ASSUME Safe, [Next]_vars, SomeSpawn PROVE HeldGood'
<1>0. /\ NoUseAfterFree /\ HeldOnce /\ owner.at # "freed" /\ UNCHANGED owner
      /\ \A w \in Worker : worker[w].block \in Block \cup {NoBlock}
      /\ Notified
  BY SpawnFacts, WorkerFacts, OwnerNotifies DEF Safe, ClientRuns, OwnerStep, SomeSpawn
<1>1. PICK b \in Block \ allocated :
         /\ allocated' = allocated \cup {b}
         /\ ~memory'[b].done
         /\ \A c \in Block : c # b => memory'[c] = memory[c]
         /\ QueuedIn(pool') = QueuedIn(pool) \cup {b}
  BY SpawnFacts
<1>2. ASSUME NEW w \in Worker, worker'[w].block # NoBlock
      PROVE  /\ worker'[w].block \in allocated'
             /\ memory'[worker'[w].block].job = worker'[w].job
             /\ ~memory'[worker'[w].block].done
             /\ worker'[w].block \notin QueuedIn(pool')
  <2>1. worker'[w].block = worker[w].block /\ worker'[w].job = worker[w].job
    BY <1>0 DEF Notified
  <2>2. worker[w].block \in allocated /\ worker[w].block \in Block /\ worker[w].block # b
    BY <1>0, <1>1, <1>2, <2>1 DEF NoUseAfterFree
  <2> QED BY <1>0, <1>1, <1>2, <2>1, <2>2 DEF NoUseAfterFree, HeldOnce
<1>3. \A v, w \in Worker :
         worker'[v].block # NoBlock /\ worker'[v].block = worker'[w].block => v = w
  BY <1>0 DEF HeldOnce, Notified
<1>4. ASSUME NEW c \in QueuedIn(pool')
      PROVE  c \in allocated' /\ ~memory'[c].done
  BY <1>0, <1>1 DEF HeldOnce, QueuedIn
<1> QED BY <1>2, <1>3, <1>4 DEF HeldGood, NoUseAfterFree, HeldOnce

LEMMA TakeHeld == ASSUME Safe, [Next]_vars, NEW w \in Worker, TakeWork(w) PROVE HeldGood'
<1> DEFINE p == Lanes!Popped(pool)
<1>0. /\ NoUseAfterFree /\ HeldOnce
      /\ \A v \in Worker : worker[v].block \in Block \cup {NoBlock}
      /\ UNCHANGED <<owner, memory, allocated>>
  BY WorkerFacts DEF Safe, TakeWork
<1>1. /\ worker[w].at = "take" /\ Moved(w, "taken")
      /\ worker'[w].block = p /\ worker'[w].job = memory[p].job
      /\ p \in QueuedIn(pool) /\ p \in Block
  BY WorkerFacts
<1>2. owner.at # "freed"
  BY <1>1 DEF Safe, Shapes
<1>3. QueuedIn(pool') = QueuedIn(pool) \ {p}
  BY PopFacts DEF Safe, TakeWork
<1>4. p \in allocated /\ ~memory[p].done /\ \A v \in Worker : worker[v].block # p
  BY <1>0, <1>1, <1>2, NoBlockIsNone DEF HeldOnce
<1> HIDE DEF p
<1>5. ASSUME NEW v \in Worker, worker'[v].block # NoBlock
      PROVE  /\ worker'[v].block \in allocated'
             /\ memory'[worker'[v].block].job = worker'[v].job
             /\ ~memory'[worker'[v].block].done
             /\ worker'[v].block \notin QueuedIn(pool')
  <2>1. CASE v = w
    BY <1>0, <1>1, <1>3, <1>4, <2>1
  <2>2. CASE v # w
    <3>1. worker'[v] = worker[v]
      BY <1>1, <2>2 DEF Moved
    <3> QED BY <1>0, <1>3, <1>5, <3>1 DEF NoUseAfterFree, HeldOnce
  <2> QED BY <2>1, <2>2
<1>6. \A u, v \in Worker :
         worker'[u].block # NoBlock /\ worker'[u].block = worker'[v].block => u = v
  BY <1>0, <1>1, <1>4 DEF HeldOnce, Moved
<1>7. ASSUME owner'.at # "freed", NEW b \in QueuedIn(pool')
      PROVE  b \in allocated' /\ ~memory'[b].done
  BY <1>0, <1>2, <1>3 DEF HeldOnce
<1> QED BY <1>5, <1>6, <1>7 DEF HeldGood, NoUseAfterFree, HeldOnce

LEMMA PublishHeld == ASSUME Safe, [Next]_vars, NEW w \in Worker, Publish(w) PROVE HeldGood'
<1> DEFINE p == worker[w].block
<1>0. /\ NoUseAfterFree /\ HeldOnce
      /\ \A v \in Worker : worker[v].block \in Block \cup {NoBlock}
      /\ UNCHANGED <<owner, pool, allocated>>
      /\ memory \in [Block -> WorkRecord] /\ allocated \subseteq Block
      /\ memory' = [memory EXCEPT ![p].done = TRUE]
  BY WorkerFacts DEF Safe, TypeOK, Publish
<1>1. worker[w].at = "woken" /\ Moved(w, "take") /\ worker'[w].block = NoBlock
  BY WorkerFacts
<1>2. p # NoBlock
  BY <1>1, HeldFacts DEF Holding
<1>3. \A b \in Block : b # p => memory'[b] = memory[b]
  BY <1>0
<1>4. ASSUME NEW v \in Worker, worker'[v].block # NoBlock
      PROVE  /\ worker'[v].block \in allocated'
             /\ memory'[worker'[v].block].job = worker'[v].job
             /\ ~memory'[worker'[v].block].done
             /\ worker'[v].block \notin QueuedIn(pool')
  <2>1. v # w /\ worker'[v] = worker[v]
    BY <1>1, <1>4 DEF Moved
  <2>2. worker[v].block # p /\ worker[v].block \in Block
    BY <1>0, <1>2, <1>4, <2>1 DEF HeldOnce
  <2> QED BY <1>0, <1>3, <1>4, <2>1, <2>2 DEF NoUseAfterFree, HeldOnce
<1>5. \A u, v \in Worker :
         worker'[u].block # NoBlock /\ worker'[u].block = worker'[v].block => u = v
  BY <1>0, <1>1 DEF HeldOnce, Moved
<1>6. ASSUME owner'.at # "freed", NEW b \in QueuedIn(pool')
      PROVE  b \in allocated' /\ ~memory'[b].done
  <2>1. b # p
    BY <1>0, <1>2, <1>6 DEF HeldOnce
  <2> QED BY <1>0, <1>3, <1>6, <2>1 DEF HeldOnce
<1> QED BY <1>4, <1>5, <1>6 DEF HeldGood, NoUseAfterFree, HeldOnce

LEMMA HeldStep == ASSUME Safe, [Next]_vars PROVE HeldGood'
<1>0. /\ NoUseAfterFree /\ HeldOnce /\ allocated \subseteq Block
      /\ \A w \in Worker : worker[w].block \in Block \cup {NoBlock}
  BY WorkerFacts DEF Safe, TypeOK
<1>1. CASE SomeSpawn
  BY <1>1, SpawnHeld
<1>2. ASSUME NEW w \in Worker, TakeWork(w) PROVE HeldGood'
  BY <1>2, TakeHeld
<1>3. ASSUME NEW w \in Worker, Publish(w) PROVE HeldGood'
  BY <1>3, PublishHeld
\* Everything else leaves the jobs, the flags and the places of the blocks.
<1>4. ASSUME ~SomeSpawn, ~\E w \in Worker : TakeWork(w) \/ Publish(w)
      PROVE  /\ \A w \in Worker : /\ worker'[w].block = worker[w].block
                                  /\ worker'[w].job = worker[w].job
             /\ QueuedIn(pool') = QueuedIn(pool)
             /\ \A b \in Block : /\ memory'[b].job = memory[b].job
                                 /\ memory'[b].done = memory[b].done
  <2>1. ASSUME NEW w \in Worker
        PROVE  worker'[w].block = worker[w].block /\ worker'[w].job = worker[w].job
    <3>1. CASE Notified
      BY <3>1 DEF Notified
    <3>2. ASSUME NEW v \in Worker, WorkerStep(v)
          PROVE  worker'[w].block = worker[w].block /\ worker'[w].job = worker[w].job
      BY <1>4, <3>2, WorkerStepFacts DEF Moved
    <3> QED BY <3>1, <3>2, StepKinds, OwnerNotifies
  <2>2. QueuedIn(pool') = QueuedIn(pool)
    BY <1>4, LanesStep DEF SomeSpawn
  <2> QED BY <1>4, <2>1, <2>2, MemoryFacts
<1>5. CASE CallbackReturns
  <2>1. /\ allocated' = allocated \ {owner.block} /\ owner.at # "freed" /\ owner'.at # "freed"
        /\ UNCHANGED <<worker, pool, memory>>
    BY <1>5, OwnerMoves DEF CallbackReturns
  <2>2. owner.block # NoBlock => memory[owner.block].done
    BY DEF Safe, JobsMatch
  <2>3. owner.block \notin HeldBlocks \cup QueuedIn(pool)
    BY <1>0, <2>1, <2>2, NoBlockIsNone DEF HeldBlocks, QueuedIn, HeldOnce
  <2> QED BY <2>1, <2>3, HeldFrame
<1>6. CASE FreeRelease
  <2>1. owner'.at = "freed" /\ UNCHANGED <<worker, pool, memory>>
    BY <1>6, OwnerMoves DEF FreeRelease
  <2>2. \A w \in Worker : worker[w].at \in {"absent", "stopped"}
    BY <1>6 DEF FreeRelease, Started
  <2>3. HeldBlocks = {}
    BY <2>2, NoBlockIsNone DEF HeldBlocks, Safe, Shapes, Holding
  <2> QED BY <2>1, <2>3, HeldFrame
<1>7. ASSUME ~SomeSpawn, ~CallbackReturns, ~FreeRelease
      PROVE  allocated' = allocated /\ (owner.at = "freed" => owner'.at = "freed")
  <2>1. UNCHANGED allocated
    BY <1>7 DEF Next, SomeSpawn, Dispatch, At, Cancel, PollStart, PollStep, PollSkip,
       PollForeground, PollWork, PollEnd, Sleep, Roused, TimedOut, FreeBegin, FreeStep,
       FreeShutdown, WorkerStep, SpuriousWakeup, TakeWork, TakeStop,
       TakeWait, Begin, Leave, StoreResult, Wake, Publish, vars
  <2>2. owner.at = "freed" => owner'.at = "freed"
    BY OwnerMoves, OwnerStays DEF Next, PollStep, FreeStep
  <2> QED BY <2>1, <2>2
<1>8. CASE /\ ~SomeSpawn /\ ~CallbackReturns /\ ~FreeRelease
           /\ ~\E w \in Worker : TakeWork(w) \/ Publish(w)
  <2>1. \A b \in HeldBlocks \cup QueuedIn(pool) : b \in Block
    BY DEF HeldBlocks, QueuedIn
  <2> QED BY <1>4, <1>7, <1>8, <2>1, HeldFrame
<1> QED BY <1>1, <1>2, <1>3, <1>5, <1>6, <1>8

-----------------------------------------------------------------------------
(* How often things happen. *)

\* The histories that each step leaves alone.
LEMMA HistoryFacts ==
    ASSUME Safe, [Next]_vars
    PROVE  /\ runs' = runs \/ \E w \in Worker : Begin(w)
           /\ calls' = calls \/ PollForeground \/ PollWork
           /\ background' = background \/ SomeSpawn
           /\ (\E w \in Worker : Begin(w)) =>
                 UNCHANGED <<table, calls, background, memory, allocated, owner, pool>>
           /\ PollForeground \/ PollWork =>
                 UNCHANGED <<runs, background, memory, allocated, pool, worker>>
<1>1. runs' = runs \/ \E w \in Worker : Begin(w)
  <2>1. ASSUME NEW w \in Worker, WorkerStep(w), ~Begin(w) PROVE runs' = runs
    BY <2>1 DEF WorkerStep, TakeWork, TakeStop, TakeWait, Leave, StoreResult, Wake, Publish
  <2> QED BY <2>1, StepKinds, OwnerNotifies
<1>2. (calls' = calls \/ PollForeground \/ PollWork) /\ (background' = background \/ SomeSpawn)
  BY DEF Next, SomeSpawn, Dispatch, At, Spawn, Cancel, PollStart, PollStep,
     PollSkip, CallbackReturns, PollEnd, Sleep, Roused, TimedOut, FreeBegin, FreeStep,
     FreeShutdown, FreeRelease, WorkerStep, SpuriousWakeup, TakeWork, TakeStop,
     TakeWait, Begin, Leave, StoreResult, Wake, Publish, PollForeground, PollWork, vars
<1> QED BY <1>1, <1>2 DEF Begin, PollForeground, PollWork

\* A worker begins a job that has not run, and no other block's job.
LEMMA BeginFacts ==
    ASSUME Safe, NEW w \in Worker, Begin(w)
    PROVE  /\ worker[w].at = "taken" /\ Moved(w, "running")
           /\ worker'[w].block = worker[w].block /\ worker'[w].job = worker[w].job
           /\ worker[w].job \in Handle /\ Issued(table, worker[w].job)
           /\ runs[worker[w].job] = 0
           /\ runs' \in [Handle -> Nat]
           /\ runs'[worker[w].job] = 1
           /\ \A h \in Handle : h # worker[w].job => runs'[h] = runs[h]
           /\ \A b \in allocated :
                 b # worker[w].block => /\ memory[b].job # worker[w].job
                                        /\ runs'[memory[b].job] = runs[memory[b].job]
           /\ counters' = [counters EXCEPT !.running = @ + 1]
<1>0. runs \in [Handle -> Nat]
  BY DEF Safe, TypeOK
<1>1. /\ worker[w].at = "taken" /\ Moved(w, "running")
      /\ worker'[w].block = worker[w].block /\ worker'[w].job = worker[w].job
      /\ counters' = [counters EXCEPT !.running = @ + 1]
  BY WorkerStepFacts DEF WorkerStep, WorkerPlaces, Begin, TakeWork, TakeStop, TakeWait, Leave,
     StoreResult, Wake, Publish, Goes
<1>2. /\ worker[w].job \in Handle /\ Issued(table, worker[w].job)
      /\ worker[w].block \in allocated /\ worker[w].job = memory[worker[w].block].job
  BY <1>1, HeldFacts DEF Holding
<1>3. runs[worker[w].job] = 0
  BY <1>1 DEF Safe, RunsMatch
<1>4. runs' = [runs EXCEPT ![worker[w].job] = @ + 1]
  BY DEF Begin
<1>5. /\ runs' \in [Handle -> Nat]
      /\ runs'[worker[w].job] = 1
      /\ \A h \in Handle : h # worker[w].job => runs'[h] = runs[h]
  BY <1>0, <1>2, <1>3, <1>4, OneMore
<1>6. ASSUME NEW b \in allocated, b # worker[w].block
      PROVE  memory[b].job # worker[w].job /\ memory[b].job \in Handle
  BY <1>2, <1>6, JobsDistinct, AllocatedFacts, SafeParts
<1> QED BY <1>1, <1>2, <1>3, <1>5, <1>6

LEMMA HandlesStep == ASSUME Safe, [Next]_vars PROVE HandlesCount'
<1>0. /\ HandlesCount /\ table \in TableRecord
      /\ calls \in [Handle -> Nat] /\ runs \in [Handle -> Nat]
  BY DEF Safe, TypeOK
<1> DEFINE Count(h) ==
      /\ ~Issued(table', h) => calls'[h] = 0 /\ runs'[h] = 0 /\ h \notin background'
      /\ Live(table', h) =>
            calls'[h] = 0 /\ (h \in background' <=> table'.jobs[h.slot].kind = "work")
      /\ calls'[h] <= 1 /\ runs'[h] <= 1 /\ (h \in background' /\ calls'[h] = 1 => runs'[h] = 1)
<1> SUFFICES ASSUME NEW h \in Handle PROVE Count(h)
  BY DEF HandlesCount
<1>1. /\ ~Issued(table, h) => calls[h] = 0 /\ runs[h] = 0 /\ h \notin background
      /\ Live(table, h) =>
            calls[h] = 0 /\ (h \in background <=> table.jobs[h.slot].kind = "work")
      /\ calls[h] <= 1 /\ runs[h] <= 1 /\ (h \in background /\ calls[h] = 1 => runs[h] = 1)
      /\ calls[h] \in Nat /\ runs[h] \in Nat
  BY <1>0 DEF HandlesCount
\* A new job.
<1>2. ASSUME NEW kind \in Kinds \ {"empty"}, NEW d \in Deadlines \cup {0},
             NEW b \in Block \cup {NoBlock}, table' = Activate(table, kind, d, b),
             UNCHANGED <<calls, runs>>,
             background' = IF kind = "work" THEN background \cup {HandleFor(table)}
                           ELSE background
      PROVE  Count(h)
  <2>1. /\ Issued(table', h) <=> Issued(table, h) \/ h = HandleFor(table)
        /\ Live(table', h) <=> Live(table, h) \/ h = HandleFor(table)
        /\ h = HandleFor(table) => ~Issued(table, h)
        /\ Live(table, h) => h.slot # SlotFor(table)
    BY <1>0, <1>2, ActivateHandles
  <2>2. /\ table'.jobs[SlotFor(table)] = [generation |-> NextGeneration(table), kind |-> kind,
                                          deadline |-> d, background |-> b]
        /\ \A i \in DOMAIN table.jobs : i # SlotFor(table) => table'.jobs[i] = table.jobs[i]
    BY <1>0, <1>2, ActivateFacts
  <2>3. CASE h = HandleFor(table)
    <3>1. table'.jobs[h.slot].kind = kind
      BY <2>2, <2>3 DEF HandleFor
    <3> QED BY <1>1, <1>2, <2>1, <2>3, <3>1
  <2>4. CASE h # HandleFor(table)
    <3>1. Live(table, h) => table'.jobs[h.slot] = table.jobs[h.slot]
      BY <2>1, <2>2 DEF Live
    <3> QED BY <1>1, <1>2, <2>1, <2>4, <3>1
  <2> QED BY <2>3, <2>4
\* A job that ends, with a call or without.
<1>3. ASSUME NEW s \in DOMAIN table.jobs, table.jobs[s].kind # "empty",
             table' = EmptySlot(table, s), UNCHANGED <<runs, background>>,
             \/ calls' = calls
             \/ /\ calls' = [calls EXCEPT ![HandleOf(table, s)] = @ + 1]
                /\ HandleOf(table, s) \in background => runs[HandleOf(table, s)] = 1
      PROVE  Count(h)
  <2>1. /\ Issued(table', h) <=> Issued(table, h)
        /\ Live(table', h) <=> Live(table, h) /\ h # HandleOf(table, s)
        /\ h = HandleOf(table, s) => Live(table, h)
    BY <1>0, <1>3, EmptySlotHandles
  <2>2. HandleOf(table, s) \in Handle
    BY HandleInBounds, SafeParts
  <2>3. /\ h # HandleOf(table, s) => calls'[h] = calls[h]
        /\ h = HandleOf(table, s) =>
              \/ calls'[h] = calls[h]
              \/ /\ calls'[h] = calls[h] + 1
                 /\ h \in background => runs[h] = 1
    <3>1. ASSUME calls' = [calls EXCEPT ![HandleOf(table, s)] = @ + 1]
          PROVE  /\ calls'[HandleOf(table, s)] = calls[HandleOf(table, s)] + 1
                 /\ h # HandleOf(table, s) => calls'[h] = calls[h]
      BY <1>0, <2>2, <3>1, OneMore
    <3> QED BY <1>3, <3>1
  <2>4. /\ \A i \in DOMAIN table.jobs : i # s => table'.jobs[i] = table.jobs[i]
        /\ table'.jobs[s].kind = "empty"
    <3>1. /\ table'.jobs[s] = EmptyJob(table.jobs[s].generation)
          /\ \A i \in DOMAIN table.jobs : i # s => table'.jobs[i] = table.jobs[i]
      BY <1>0, <1>3, EmptySlotFacts
    <3> QED BY <3>1 DEF EmptyJob
  <2>5. Live(table', h) => table'.jobs[h.slot] = table.jobs[h.slot]
    BY <2>1, <2>4 DEF Live
  <2>7. Live(table, h) => Issued(table, h)
    <3>1. h.generation \in Nat \ {0}
      BY PoolConstants DEF Handle
    <3> QED BY <3>1 DEF Live, Issued
  <2> QED BY <1>1, <1>3, <2>1, <2>3, <2>5, <2>7
\* A step that leaves the table.
<1>4. ASSUME table'.jobs = table.jobs, UNCHANGED <<calls, background>> PROVE Count(h)
  <2>1. (Issued(table', h) <=> Issued(table, h)) /\ (Live(table', h) <=> Live(table, h))
    BY <1>4 DEF Issued, Live
  <2>2. CASE runs' = runs
    BY <1>1, <1>4, <2>1, <2>2
  <2>3. ASSUME NEW w \in Worker, Begin(w) PROVE Count(h)
    <3>1. CASE h = worker[w].job
      BY <1>1, <1>4, <2>1, <2>3, <3>1, BeginFacts
    <3>2. CASE h # worker[w].job
      <4>1. runs'[h] = runs[h]
        BY <2>3, <3>2, BeginFacts
      <4> QED BY <1>1, <1>4, <2>1, <4>1
    <3> QED BY <3>1, <3>2
  <2> HIDE DEF Count
  <2> QED BY <2>2, <2>3, HistoryFacts
<1> HIDE DEF Count
<1>5. CASE SomeSpawn
  <2>1. /\ background' = background \cup {HandleFor(table)} /\ UNCHANGED <<calls, runs>>
        /\ \E b \in Block : table' = Activate(table, "work", 0, b)
    BY <1>5, SpawnFacts
  <2> QED BY <1>2, <2>1 DEF Kinds
<1>6. CASE Dispatch \/ \E d \in Deadlines : At(d)
  <2>1. /\ \E kind \in {"immediate", "timer"}, d \in Deadlines \cup {0} :
              table' = Activate(table, kind, d, NoBlock)
        /\ UNCHANGED <<calls, runs, background>>
    BY <1>6 DEF Dispatch, At
  <2> QED BY <1>2, <2>1 DEF Kinds
<1>7. ASSUME NEW k \in Handle, Cancel(k) PROVE Count(h)
  <2>1. UNCHANGED <<calls, runs, background>>
    BY <1>7 DEF Cancel
  <2>2. \/ UNCHANGED table
        \/ /\ k.slot \in DOMAIN table.jobs /\ table.jobs[k.slot].kind # "empty"
           /\ table' = EmptySlot(table, k.slot)
    BY <1>7 DEF Cancel, Live
  <2> QED BY <1>3, <1>4, <2>1, <2>2
<1>8. CASE PollForeground \/ PollWork
  <2> DEFINE s == owner.slot
  <2>1. /\ s \in DOMAIN table.jobs /\ table.jobs[s].kind # "empty"
        /\ table' = EmptySlot(table, s)
        /\ calls' = [calls EXCEPT ![HandleOf(table, s)] = @ + 1]
        /\ UNCHANGED <<runs, background>>
    BY <1>8 DEF PollForeground, PollWork, AtSlot, SlotJob, Due
  <2>2. HandleOf(table, s) \in Handle /\ Live(table, HandleOf(table, s))
    BY <2>1, HandleInBounds, SafeParts DEF Live, HandleOf
  <2>3. HandleOf(table, s) \in background => runs[HandleOf(table, s)] = 1
    <3>1. HandleOf(table, s) \in background <=> table.jobs[s].kind = "work"
      <4>1. HandleOf(table, s).slot = s
        BY DEF HandleOf
      <4> QED BY <1>0, <2>2, <4>1 DEF HandlesCount
    <3>2. ASSUME table.jobs[s].kind = "work" PROVE runs[HandleOf(table, s)] = 1
      <4>1. PollWork
        BY <1>8, <3>2 DEF PollForeground, Due
      <4>2. /\ s \in WorkSlots(table) /\ memory[table.jobs[s].background].done
            /\ owner.at # "freed"
        BY <2>1, <3>2, <4>1 DEF WorkSlots, PollWork, Done, AtSlot
      <4>3. /\ table.jobs[s].background \in allocated
            /\ memory[table.jobs[s].background].job = HandleOf(table, s)
        BY <4>2, BlockFacts
      <4> QED BY <4>2, <4>3 DEF Safe, RunsMatch
    <3> QED BY <3>1, <3>2
  <2> HIDE DEF s
  <2> QED BY <1>3, <2>1, <2>3
<1>9. CASE FreeRelease
  <2>1. table'.jobs = table.jobs /\ UNCHANGED <<calls, background>>
    BY <1>0, <1>9 DEF FreeRelease, TableRecord
  <2> QED BY <1>4, <2>1
<1>10. CASE \/ (\E now \in Times : PollStart(now)) \/ PollSkip \/ CallbackReturns \/ PollEnd
            \/ Sleep \/ Roused \/ TimedOut \/ FreeBegin \/ FreeShutdown
            \/ (\E w \in Worker : WorkerStep(w) \/ SpuriousWakeup(w)) \/ UNCHANGED vars
  <2>1. UNCHANGED <<table, calls, background>>
    BY <1>10 DEF PollStart, PollSkip, CallbackReturns, PollEnd, Sleep, Roused, TimedOut,
       FreeBegin, FreeShutdown, WorkerStep, SpuriousWakeup, TakeWork, TakeStop, TakeWait,
       Begin, Leave, StoreResult, Wake, Publish, vars
  <2> QED BY <1>4, <2>1
<1> QED BY <1>5, <1>6, <1>7, <1>8, <1>9, <1>10 DEF Next, PollStep, FreeStep, SomeSpawn

\* The jobs a beginning worker leaves: of every other block.
LEMMA OtherRuns ==
    ASSUME Safe, [Next]_vars
    PROVE  /\ \A w \in Worker : worker[w].at \in Holding /\ ~Begin(w) =>
                 runs'[worker[w].job] = runs[worker[w].job]
           /\ \A b \in allocated : ~(\E w \in Worker : Begin(w) /\ worker[w].block = b) =>
                 runs'[memory[b].job] = runs[memory[b].job]
<1>1. ASSUME NEW b \in allocated, ~\E w \in Worker : Begin(w) /\ worker[w].block = b
      PROVE  runs'[memory[b].job] = runs[memory[b].job]
  <2>1. ASSUME NEW v \in Worker, Begin(v) PROVE runs'[memory[b].job] = runs[memory[b].job]
    BY <1>1, <2>1, BeginFacts
  <2> QED BY <2>1, HistoryFacts
<1>2. ASSUME NEW w \in Worker, worker[w].at \in Holding, ~Begin(w)
      PROVE  runs'[worker[w].job] = runs[worker[w].job]
  <2>1. /\ worker[w].block \in allocated /\ worker[w].block # NoBlock
        /\ worker[w].job = memory[worker[w].block].job
    BY <1>2, HeldFacts
  <2>2. ASSUME NEW v \in Worker, Begin(v), worker[v].block = worker[w].block PROVE FALSE
    BY <1>2, <2>1, <2>2 DEF Safe, HeldOnce
  <2> QED BY <1>1, <2>1, <2>2
<1> QED BY <1>1, <1>2

RunsOfQueued ==
    owner.at # "freed" => \A b \in QueuedIn(pool) : runs[memory[b].job] = 0

RunsOfHeld ==
    \A w \in Worker :
        /\ worker[w].at = "taken" => runs[worker[w].job] = 0
        /\ worker[w].at \in Holding \ {"taken"} => runs[worker[w].job] = 1
        /\ worker[w].at \in {"stored", "woken"} =>
              memory[worker[w].block].result = worker[w].job

RunsOfPublished ==
    \A b \in allocated : memory[b].done =>
        memory[b].result = memory[b].job /\ runs[memory[b].job] = 1

LEMMA RunsParts == RunsMatch <=> RunsOfQueued /\ RunsOfHeld /\ RunsOfPublished
BY DEF RunsMatch, RunsOfQueued, RunsOfHeld, RunsOfPublished

LEMMA SpawnRuns == ASSUME Safe, [Next]_vars, SomeSpawn PROVE RunsMatch'
<1>0. /\ RunsOfQueued /\ RunsOfHeld /\ RunsOfPublished
      /\ owner.at # "freed" /\ UNCHANGED <<owner, runs>> /\ Notified
      /\ allocated \subseteq Block /\ table \in TableRecord
      /\ HandleFor(table) \in Handle
  BY SpawnFacts, RunsParts, OwnerNotifies DEF Safe, TypeOK, ClientRuns, OwnerStep, SomeSpawn
<1>1. PICK b \in Block \ allocated :
         /\ allocated' = allocated \cup {b}
         /\ table' = Activate(table, "work", 0, b)
         /\ memory'[b].job = HandleFor(table) /\ ~memory'[b].done
         /\ \A c \in Block : c # b => memory'[c] = memory[c]
         /\ QueuedIn(pool') = QueuedIn(pool) \cup {b}
  BY SpawnFacts
<1>2. runs[HandleFor(table)] = 0
  <2>1. "work" \in Kinds \ {"empty"} /\ 0 \in Deadlines \cup {0} /\ b \in Block \cup {NoBlock}
    BY DEF Kinds
  <2>2. ~Issued(table, HandleFor(table))
    BY <1>0, <1>1, <2>1, ActivateHandles
  <2> QED BY <1>0, <2>2 DEF Safe, HandlesCount
<1>3. RunsOfQueued'
  <2>1. \A c \in QueuedIn(pool) : c \in Block /\ c # b
    BY <1>0, <1>1 DEF Safe, HeldOnce, QueuedIn
  <2> QED BY <1>0, <1>1, <1>2, <2>1 DEF RunsOfQueued
<1>4. RunsOfHeld'
  <2>1. ASSUME NEW w \in Worker, worker'[w].at \in Holding
        PROVE  /\ worker'[w] = worker[w]
               /\ memory'[worker[w].block] = memory[worker[w].block]
    <3>1. /\ worker'[w].at = worker[w].at
          /\ worker'[w].block = worker[w].block /\ worker'[w].job = worker[w].job
      BY <1>0, <2>1 DEF Notified, Holding
    <3>2. worker' \in WorkerTypes /\ worker \in WorkerTypes
      BY WorkersStep DEF Safe, TypeOK, WorkerTypes
    <3>3. worker'[w] = worker[w]
      BY <3>1, <3>2 DEF WorkerTypes
    <3>4. worker[w].block \in allocated
      BY <2>1, <3>1, HeldFacts
    <3> QED BY <1>0, <1>1, <3>3, <3>4
  <2> QED BY <1>0, <2>1 DEF RunsOfHeld, Holding
<1>5. RunsOfPublished'
  BY <1>0, <1>1 DEF RunsOfPublished
<1> QED BY <1>3, <1>4, <1>5, RunsParts DEF RunsMatch, RunsOfQueued, RunsOfHeld, RunsOfPublished

\* A worker's result stays what it is, or is stored.
LEMMA HeldResults ==
    ASSUME Safe, [Next]_vars, ~SomeSpawn, NEW w \in Worker, worker[w].at \in Holding
    PROVE  \/ memory'[worker[w].block].result = memory[worker[w].block].result
           \/ memory'[worker[w].block].result = worker[w].job
<1>1. worker[w].block \in Block /\ worker[w].block # NoBlock
  BY HeldFacts
<1>2. ASSUME NEW v \in Worker, worker[v].block = worker[w].block PROVE v = w
  BY <1>1, <1>2 DEF Safe, HeldOnce
<1> QED BY <1>1, <1>2, MemoryFacts

LEMMA WorkerRuns ==
    ASSUME Safe, [Next]_vars, ~SomeSpawn
    PROVE  RunsOfHeld'
<1>0. /\ RunsOfHeld /\ RunsOfQueued
      /\ \A b \in Block : memory'[b].job = memory[b].job
  BY RunsParts, MemoryFacts DEF Safe
<1> DEFINE Good(w) ==
      /\ worker'[w].at = "taken" => runs'[worker'[w].job] = 0
      /\ worker'[w].at \in Holding \ {"taken"} => runs'[worker'[w].job] = 1
      /\ worker'[w].at \in {"stored", "woken"} =>
            memory'[worker'[w].block].result = worker'[w].job
<1> SUFFICES ASSUME NEW w \in Worker PROVE Good(w)
  BY DEF RunsOfHeld
\* A worker that stays where it is.
<1>1. ASSUME worker'[w].at = worker[w].at, worker'[w].block = worker[w].block,
             worker'[w].job = worker[w].job, ~Begin(w)
      PROVE  Good(w)
  <2>1. worker[w].at \in Holding => runs'[worker[w].job] = runs[worker[w].job]
    BY <1>1, OtherRuns
  <2>2. worker[w].at \in Holding =>
           \/ memory'[worker[w].block].result = memory[worker[w].block].result
           \/ memory'[worker[w].block].result = worker[w].job
    BY HeldResults
  <2> QED BY <1>0, <1>1, <2>1, <2>2 DEF RunsOfHeld, Holding
<1>2. ASSUME worker'[w].at \notin Holding PROVE Good(w)
  BY <1>2 DEF Holding
<1>3. CASE Notified
  <2>1. ~Begin(w)
    BY <1>3, BeginFacts DEF Notified, Moved
  <2> QED BY <1>1, <1>2, <1>3, <2>1 DEF Notified, Holding
<1>4. ASSUME NEW v \in Worker, v # w, WorkerStep(v) PROVE Good(w)
  <2>1. worker'[w] = worker[w]
    BY <1>4, WorkerStepFacts DEF Moved
  <2>2. ~Begin(w)
    <3>1. Begin(w) => worker'[w] # worker[w]
      BY BeginFacts DEF Moved
    <3> QED BY <2>1, <3>1
  <2> QED BY <1>1, <2>1, <2>2
<1>5. CASE TakeWork(w)
  <2>1. /\ worker[w].at = "take" /\ worker'[w].at = "taken" /\ runs' = runs
        /\ worker'[w].job = memory[Lanes!Popped(pool)].job
        /\ Lanes!Popped(pool) \in QueuedIn(pool)
    BY <1>5, WorkerFacts DEF TakeWork, Moved
  <2>2. owner.at # "freed"
    BY <2>1 DEF Safe, Shapes
  <2> QED BY <1>0, <2>1, <2>2 DEF RunsOfQueued, Holding
<1>6. CASE Begin(w)
  <2>1. worker'[w].at = "running" /\ runs'[worker'[w].job] = 1
    BY <1>6, BeginFacts DEF Moved
  <2> QED BY <2>1 DEF Holding
<1>7. CASE Leave(w) \/ StoreResult(w) \/ Wake(w)
  <2>1. /\ runs' = runs
        /\ worker'[w].block = worker[w].block /\ worker'[w].job = worker[w].job
        /\ \/ Leave(w) /\ worker[w].at = "running" /\ worker'[w].at = "left"
           \/ StoreResult(w) /\ worker[w].at = "left" /\ worker'[w].at = "stored"
           \/ Wake(w) /\ worker[w].at = "stored" /\ worker'[w].at = "woken"
    <3>1. runs' = runs
      BY <1>7 DEF Leave, StoreResult, Wake
    <3>2. {"running", "left", "stored", "woken"} \subseteq WorkerPlaces
      BY DEF WorkerPlaces
    <3> QED BY <1>7, <3>1, <3>2, GoesFacts DEF Leave, StoreResult, Wake, Moved
  <2>2. runs'[worker'[w].job] = 1
    BY <1>0, <2>1 DEF RunsOfHeld, Holding
  <2>3. StoreResult(w) => memory'[worker'[w].block].result = worker'[w].job
    <3>1. worker[w].at \in Holding => worker[w].block \in Block
      BY HeldFacts
    <3>2. memory \in [Block -> WorkRecord]
      BY DEF Safe, TypeOK
    <3>3. ASSUME StoreResult(w)
          PROVE  memory'[worker[w].block].result = worker[w].job
      <4>1. memory' = [memory EXCEPT ![worker[w].block] =
                         [memory[worker[w].block] EXCEPT !.result = worker[w].job]]
        BY <3>3 DEF StoreResult
      <4>2. worker[w].block \in Block
        BY <2>1, <3>1, <3>3 DEF StoreResult, Goes, Holding
      <4> QED BY <3>2, <4>1, <4>2 DEF WorkRecord
    <3> QED BY <2>1, <3>3
  <2>4. Wake(w) => memory'[worker'[w].block].result = worker'[w].job
    <3>1. Wake(w) => UNCHANGED memory /\ worker[w].at = "stored"
      BY DEF Wake, Goes
    <3> QED BY <1>0, <2>1, <3>1 DEF RunsOfHeld
  <2> QED BY <2>1, <2>2, <2>3, <2>4 DEF Holding
<1>8. CASE TakeStop(w) \/ TakeWait(w) \/ Publish(w)
  <2>1. {"take", "stopped", "waiting"} \subseteq WorkerPlaces
    BY DEF WorkerPlaces
  <2>2. worker'[w].at \in {"take", "stopped", "waiting"}
    BY <1>8, <2>1, WorkerFacts DEF TakeStop, TakeWait, Moved
  <2> QED BY <1>2, <2>2 DEF Holding
<1> HIDE DEF Good
<1>9. ASSUME NEW v \in Worker, WorkerStep(v) PROVE Good(w)
  <2>1. CASE v # w
    BY <1>4, <1>9, <2>1
  <2>2. CASE v = w
    BY <1>5, <1>6, <1>7, <1>8, <1>9, <2>2 DEF WorkerStep
  <2> QED BY <2>1, <2>2
<1> QED BY <1>3, <1>9, StepKinds, OwnerNotifies

LEMMA RunsStep == ASSUME Safe, [Next]_vars PROVE RunsMatch'
<1>1. CASE SomeSpawn
  BY <1>1, SpawnRuns
<1>2. CASE ~SomeSpawn
  <2>0. /\ RunsOfQueued /\ RunsOfHeld /\ RunsOfPublished
        /\ \A b \in Block : memory'[b].job = memory[b].job
        /\ allocated' \subseteq allocated /\ allocated \subseteq Block
        /\ owner.at = "freed" => owner'.at = "freed"
    <3>1. allocated' \subseteq allocated
      BY <1>2 DEF Next, SomeSpawn, Dispatch, At, Cancel, PollStart, PollStep, PollSkip,
         PollForeground, PollWork, CallbackReturns, PollEnd, Sleep, Roused, TimedOut,
         FreeBegin, FreeStep, FreeShutdown, FreeRelease, WorkerStep, SpuriousWakeup,
         TakeWork, TakeStop, TakeWait, Begin, Leave, StoreResult, Wake, Publish, vars
    <3>2. owner.at = "freed" => owner'.at = "freed"
      BY OwnerMoves, OwnerStays DEF Next, PollStep, FreeStep
    <3> QED BY <1>2, <3>1, <3>2, RunsParts, MemoryFacts DEF Safe, TypeOK
  <2>1. RunsOfHeld'
    BY <1>2, WorkerRuns
  <2>2. RunsOfQueued'
    <3>1. QueuedIn(pool') \subseteq QueuedIn(pool)
      BY <1>2, LanesStep DEF SomeSpawn
    <3>2. ASSUME owner.at # "freed", NEW b \in QueuedIn(pool)
          PROVE  runs'[memory'[b].job] = 0
      <4>1. b \in allocated /\ ~\E w \in Worker : Begin(w) /\ worker[w].block = b
        <5>1. b \in allocated /\ b \in Block
          BY <3>2 DEF Safe, HeldOnce, QueuedIn
        <5>2. ASSUME NEW w \in Worker, worker[w].block = b PROVE FALSE
          BY <3>2, <5>1, <5>2, NoBlockIsNone DEF Safe, HeldOnce
        <5> QED BY <5>1, <5>2
      <4> QED BY <2>0, <3>2, <4>1, OtherRuns DEF RunsOfQueued
    <3> QED BY <2>0, <3>1, <3>2 DEF RunsOfQueued
  <2>3. RunsOfPublished'
    <3> SUFFICES ASSUME NEW b \in allocated', memory'[b].done
                 PROVE  memory'[b].result = memory'[b].job /\ runs'[memory'[b].job] = 1
      BY DEF RunsOfPublished
    <3>0. b \in allocated /\ b \in Block /\ b # NoBlock
      BY <2>0, NoBlockIsNone
    <3>1. CASE memory[b].done
      <4>1. \A w \in Worker : worker[w].block # b
        BY <3>0, <3>1 DEF Safe, HeldOnce
      <4>2. memory'[b].result = memory[b].result
        BY <1>2, <3>0, <4>1, MemoryFacts
      <4>3. runs'[memory[b].job] = runs[memory[b].job]
        BY <3>0, <4>1, OtherRuns
      <4> QED BY <2>0, <3>0, <3>1, <4>2, <4>3 DEF RunsOfPublished
    <3>2. CASE ~memory[b].done
      <4>1. PICK w \in Worker : Publish(w) /\ b = worker[w].block
        BY <1>2, <3>0, <3>2, MemoryFacts
      <4>2. worker[w].at = "woken" /\ worker[w].at \in Holding /\ runs' = runs
        BY <4>1 DEF Publish, Holding
      <4>3. worker[w].job = memory[b].job
        BY <4>1, <4>2, HeldFacts
      <4>4. memory[b].result = worker[w].job /\ runs[worker[w].job] = 1
        BY <2>0, <4>1, <4>2 DEF RunsOfHeld, Holding
      <4>5. memory'[b].result = worker[w].job
        BY <1>2, <4>1, <4>2, <4>4, HeldResults
      <4> QED BY <2>0, <3>0, <4>2, <4>3, <4>4, <4>5
    <3> QED BY <3>1, <3>2
  <2> QED BY <2>1, <2>2, <2>3 DEF RunsMatch, RunsOfQueued, RunsOfHeld, RunsOfPublished
<1> QED BY <1>1, <1>2

-----------------------------------------------------------------------------
(* The statistics. *)

LEMMA HandleFinite == IsFiniteSet(Handle)
<1> DEFINE Pairs == (1 .. MaxSlots) \X (1 .. MaxGeneration)
           named == [p \in Pairs |-> [slot |-> p[1], generation |-> p[2]]]
<1>1. IsFiniteSet(Pairs)
  <2>1. 1 \in Int /\ MaxSlots \in Int /\ MaxGeneration \in Int
    BY PoolConstants
  <2>2. IsFiniteSet(1 .. MaxSlots) /\ IsFiniteSet(1 .. MaxGeneration)
    BY <2>1, FS_Interval
  <2> QED BY <2>2, FS_Product
<1>2. \A h \in Handle : <<h.slot, h.generation>> \in Pairs
                        /\ h = [slot |-> h.slot, generation |-> h.generation]
  BY DEF Handle
<1>3. named \in [Pairs -> Handle]
  BY DEF Handle
<1>4. ASSUME NEW h \in Handle PROVE \E p \in Pairs : named[p] = h
  <2>1. named[<<h.slot, h.generation>>] = h
    BY <1>2
  <2> QED BY <1>2, <2>1
<1>5. named \in Surjection(Pairs, Handle)
  <2> HIDE DEF named, Pairs
  <2> QED BY <1>3, <1>4 DEF Surjection
<1> HIDE DEF named, Pairs
<1> QED BY <1>1, <1>5, FS_Surjection

\* Whether the function of a handle is running.
InFlight(h) == \E w \in Worker : worker[w].at = "running" /\ worker[w].job = h

LEMMA ReturnedFacts ==
    /\ Returned = {h \in Handle : runs[h] = 1 /\ ~InFlight(h)}
    /\ Returned' = {h \in Handle : runs'[h] = 1 /\ ~InFlight(h)'}
    /\ IsFiniteSet(Returned)
<1>1. Returned = {h \in Handle : runs[h] = 1 /\ ~InFlight(h)}
  BY DEF Returned, InFlight
<1>2. Returned' = {h \in Handle : runs'[h] = 1 /\ ~InFlight(h)'}
  BY DEF Returned, InFlight
<1> QED BY <1>1, <1>2, HandleFinite, FS_Subset

LEMMA CompletedStep == ASSUME Safe, [Next]_vars PROVE CompletedExact'
<1>0. /\ counters.completed = Cardinality(Returned)
      /\ counters \in [running : 0 .. Cardinality(Worker), completed : Nat]
      /\ runs \in [Handle -> Nat]
  BY DEF Safe, TypeOK, CompletedExact
<1>1. ASSUME runs' = runs, counters'.completed = counters.completed,
             \A w \in Worker : /\ worker'[w].job = worker[w].job
                               /\ worker'[w].at = "running" <=> worker[w].at = "running"
      PROVE  CompletedExact'
  <2>1. \A h \in Handle : InFlight(h)' <=> InFlight(h)
    BY <1>1 DEF InFlight
  <2>2. Returned' = Returned
    BY <1>1, <2>1, ReturnedFacts
  <2> QED BY <1>0, <1>1, <2>2 DEF CompletedExact
<1>2. CASE Notified /\ UNCHANGED <<counters, runs>>
  BY <1>1, <1>2 DEF Notified
<1>3. ASSUME NEW w \in Worker, Begin(w) PROVE CompletedExact'
  <2>1. /\ worker[w].at = "taken" /\ Moved(w, "running") /\ worker'[w].job = worker[w].job
        /\ worker[w].job \in Handle /\ runs[worker[w].job] = 0
        /\ \A h \in Handle : h # worker[w].job => runs'[h] = runs[h]
        /\ counters'.completed = counters.completed
    BY <1>0, <1>3, BeginFacts
  <2>2. InFlight(worker[w].job)'
    BY <2>1 DEF InFlight, Moved
  <2>3. \A h \in Handle : h # worker[w].job => (InFlight(h)' <=> InFlight(h))
    BY <2>1 DEF InFlight, Moved
  <2>4. Returned' = Returned
    BY <2>1, <2>2, <2>3, ReturnedFacts
  <2> QED BY <1>0, <2>1, <2>4 DEF CompletedExact
<1>4. ASSUME NEW w \in Worker, Leave(w) PROVE CompletedExact'
  <2>0. PICK j \in Handle : j = worker[w].job
    BY <1>4, HeldFacts DEF Leave, Goes, Holding
  <2>1. /\ worker[w].at = "running" /\ Moved(w, "left") /\ worker'[w].job = j
        /\ counters'.completed = counters.completed + 1
        /\ runs' = runs
    <3>1. {"running", "left"} \subseteq WorkerPlaces
      BY DEF WorkerPlaces
    <3> QED BY <1>4, <2>0, <3>1, WorkerFacts DEF Leave
  <2>2. /\ worker[w].at \in Holding /\ j \in Handle /\ runs[j] = 1
        /\ worker[w].block \in allocated /\ j = memory[worker[w].block].job
        /\ worker[w].block # NoBlock
    <3>1. worker[w].at \in Holding \ {"taken"}
      BY <2>1 DEF Holding
    <3>2. worker[w].at \in Holding
      BY <3>1
    <3>3. runs[worker[w].job] = 1
      BY <3>1 DEF Safe, RunsMatch
    <3> QED BY <2>0, <3>2, <3>3, HeldFacts
  <2>3. ASSUME NEW v \in Worker, v # w, worker[v].at = "running", worker[v].job = j
        PROVE  FALSE
    <3>1. worker[v].block \in allocated /\ j = memory[worker[v].block].job
      BY <2>3, HeldFacts DEF Holding
    <3>2. worker[v].block = worker[w].block
      BY <2>2, <3>1, JobsDistinct, SafeParts
    <3> QED BY <2>2, <2>3, <3>2 DEF Safe, HeldOnce
  <2>4. InFlight(j) /\ ~InFlight(j)'
    BY <2>0, <2>1, <2>3 DEF InFlight, Moved
  <2>5. \A h \in Handle : h # j => (InFlight(h)' <=> InFlight(h))
    BY <2>0, <2>1 DEF InFlight, Moved
  <2>6. Returned' = Returned \cup {j} /\ j \notin Returned
    <3>1. j \in Returned' /\ j \notin Returned
      BY <2>1, <2>2, <2>4, ReturnedFacts
    <3>2. \A h \in Handle : h # j => (h \in Returned' <=> h \in Returned)
      BY <2>1, <2>5, ReturnedFacts
    <3>3. Returned \subseteq Handle /\ Returned' \subseteq Handle
      BY ReturnedFacts
    <3> QED BY <2>2, <3>1, <3>2, <3>3
  <2>7. Cardinality(Returned') = Cardinality(Returned) + 1
    BY <2>6, ReturnedFacts, FS_AddElement
  <2> QED BY <1>0, <2>1, <2>7 DEF CompletedExact
<1>5. ASSUME NEW w \in Worker, TakeWork(w) PROVE CompletedExact'
  <2>1. /\ worker[w].at = "take" /\ Moved(w, "taken") /\ UNCHANGED <<runs, counters>>
    BY <1>5, WorkerFacts DEF TakeWork
  <2>2. \A h \in Handle : InFlight(h)' <=> InFlight(h)
    BY <2>1 DEF InFlight, Moved
  <2>3. Returned' = Returned
    BY <2>1, <2>2, ReturnedFacts
  <2> QED BY <1>0, <2>1, <2>3 DEF CompletedExact
<1>6. ASSUME NEW w \in Worker,
             TakeStop(w) \/ TakeWait(w) \/ StoreResult(w) \/ Wake(w) \/ Publish(w)
      PROVE  CompletedExact'
  <2>1. UNCHANGED <<runs, counters>>
    BY <1>6 DEF TakeStop, TakeWait, StoreResult, Wake, Publish
  <2>2. worker[w].at # "running" /\ \E to \in WorkerPlaces \ {"running"} : Moved(w, to)
    <3>1. {"take", "stopped", "waiting", "left", "stored", "woken"} \subseteq WorkerPlaces
      BY DEF WorkerPlaces
    <3> QED BY <1>6, <3>1, WorkerFacts DEF TakeStop, TakeWait, StoreResult, Wake
  <2>3. \A h \in Handle : InFlight(h)' <=> InFlight(h)
    BY <2>2 DEF InFlight, Moved
  <2>4. Returned' = Returned
    BY <2>1, <2>3, ReturnedFacts
  <2> QED BY <1>0, <2>1, <2>4 DEF CompletedExact
<1> QED BY <1>2, <1>3, <1>4, <1>5, <1>6, StepKinds, OwnerNotifies DEF WorkerStep

-----------------------------------------------------------------------------
(* The invariant holds from the start. *)

LEMMA InitSafe == Init => Safe
<1> SUFFICES ASSUME Init PROVE Safe
  OBVIOUS
<1>1. PICK started \in SUBSET Worker :
         worker = [w \in Worker |->
                     [NoWork EXCEPT !.at = IF w \in started THEN "take" ELSE "absent"]]
  BY DEF Init
<1>2. \A w \in Worker : /\ worker[w].at \in {"take", "absent"}
                        /\ worker[w].block = NoBlock /\ worker[w].job = InvalidHandle
  BY <1>1 DEF NoWork
<1>3. LanesOK(pool) /\ QueuedIn(pool) = {} /\ Lanes!Depth(pool) = 0
  <2>1. pool = Lanes!EmptyLanes
    BY DEF Init
  <2>2. pool.ticket \in 0 .. Lanes!Cycle - 1
    <3>1. Lanes!Cycle \in Nat /\ Lanes!Cycle > 0
      BY PoolConstants DEF Lanes!Cycle
    <3> QED BY <2>1, <3>1 DEF Lanes!EmptyLanes
  <2>3. pool \in Lanes!LaneRecord
    BY <2>1, <2>2 DEF Lanes!EmptyLanes, Lanes!LaneRecord
  <2>4. \A q \in Lanes!Priorities : pool.lane[q] = <<>> /\ pool.queued[q] = 0
    BY <2>1 DEF Lanes!EmptyLanes
  <2>5. \A q \in Lanes!Priorities : 1 .. Len(pool.lane[q]) = {}
    BY <2>4
  <2>6. LanesOK(pool)
    BY <2>3, <2>4, <2>5 DEF LanesOK, LinkedOnce
  <2>7. pool.queued["high"] = 0 /\ pool.queued["medium"] = 0 /\ pool.queued["low"] = 0
    BY <2>4 DEF Lanes!Priorities
  <2> QED BY <2>5, <2>6, <2>7 DEF QueuedIn, Lanes!Depth
<1>4. TypeOK
  <2>1. worker \in [Worker -> [at : WorkerPlaces, block : Block \cup {NoBlock},
                               job : Handle \cup {InvalidHandle}]]
    BY <1>1 DEF NoWork, WorkerPlaces
  <2>2. memory \in [Block -> WorkRecord]
    BY DEF Init, ZeroedWork, WorkRecord
  <2>3. table \in TableRecord
    BY DEF Init, EmptyTable, TableRecord
  <2>4. owner \in [at : OwnerPlaces, slot : Nat, bound : Nat, now : Times \cup {0},
                   block : Block \cup {NoBlock}]
    BY DEF Init, OwnerAt, OwnerPlaces
  <2>5. counters \in [running : 0 .. Cardinality(Worker), completed : Nat]
    BY PoolConstants, FS_CardinalityType DEF Init
  <2> QED BY <1>3, <2>1, <2>2, <2>3, <2>4, <2>5 DEF Init, TypeOK, LanesOK
<1>5. table.jobs = <<>> /\ DOMAIN table.jobs = {} /\ WorkSlots(table) = {}
  BY DEF Init, EmptyTable, WorkSlots
<1>6. TableOK /\ JobsMatch /\ BlocksOwnedOnce
  BY <1>5 DEF Init, OwnerAt, TableOK, JobsMatch, BlocksOwnedOnce
<1>7. Shapes /\ NoUseAfterFree /\ HeldOnce
  BY <1>2, <1>3 DEF Init, OwnerAt, Shapes, Holding, NoUseAfterFree, HeldOnce
<1>8. RunningExact /\ NoSleeperBesideWork
  <2>1. {w \in Worker : worker[w].at = "running"} = {}
    BY <1>2
  <2> QED BY <1>2, <2>1, FS_EmptySet DEF Init, RunningExact, NoSleeperBesideWork
<1>9. HandlesCount
  BY <1>5 DEF Init, HandlesCount, Live
<1>10. RunsMatch
  BY <1>2, <1>3 DEF Init, RunsMatch, Holding
<1>11. CompletedExact
  <2>1. Returned = {}
    BY DEF Init, Returned
  <2> QED BY <2>1, FS_EmptySet DEF Init, CompletedExact
<1> QED BY <1>3, <1>4, <1>6, <1>7, <1>8, <1>9, <1>10, <1>11 DEF Safe

LEMMA NextSafe == ASSUME Safe, [Next]_vars PROVE Safe'
<1>1. TypeOK' /\ TableOK' /\ Shapes'
  BY TypeStep, TableStep, ShapesStep
<1>2. RunningExact' /\ LanesOK(pool)' /\ NoSleeperBesideWork'
  BY WorkersStep, LanesStep, SleepersStep
<1>3. BlocksOwnedOnce' /\ JobsMatch' /\ NoUseAfterFree' /\ HeldOnce'
  BY BlocksStep, HeldStep DEF BlocksGood, HeldGood
<1>4. HandlesCount' /\ RunsMatch' /\ CompletedExact'
  BY HandlesStep, RunsStep, CompletedStep
<1> QED BY <1>1, <1>2, <1>3, <1>4 DEF Safe

\* Every reachable state of the scheduler is a Safe one.
THEOREM SafeKept == Spec => []Safe
<1>1. Safe /\ [Next]_vars => Safe'
  BY NextSafe
<1> QED BY InitSafe, <1>1, PTL DEF Spec

\* Every variable, the histories included, has its type.
THEOREM TypeCorrect == Spec => []TypeOK
<1>1. Safe => TypeOK
  BY DEF Safe
<1> QED BY SafeKept, <1>1, PTL

\* pool-worker-entry touches the block it took until its store of done, while
\* the owner frees blocks after completions and in scheduler-free!: no worker
\* ever holds a block that was freed, or that was handed out for another job.
THEOREM WorkersNeverTouchFreed == Spec => []NoUseAfterFree
<1>1. Safe => NoUseAfterFree
  BY DEF Safe
<1> QED BY SafeKept, <1>1, PTL

\* scheduler-spawn-priority! allocates a block, and a completion or
\* scheduler-free! frees it: every allocated block has one owner.
THEOREM BlocksStayOwned == Spec => []BlocksOwnedOnce
<1>1. Safe => BlocksOwnedOnce
  BY DEF Safe
<1> QED BY SafeKept, <1>1, PTL

\* pool-enqueue! notifies one worker and pool-take! waits only on empty lanes:
\* whenever a worker sleeps, every queued block has a worker coming for it.
THEOREM NobodySleepsBesideWork == Spec => []NoSleeperBesideWork
<1>1. Safe => NoSleeperBesideWork
  BY DEF Safe
<1> QED BY SafeKept, <1>1, PTL

\* The published blocks, and the work whose completion was called, are
\* functions that have returned.
LEMMA CompletionsCounted ==
    ASSUME Safe
    PROVE  CompletionsExact
<1> DEFINE published == {b \in allocated : memory[b].done}
           told == {memory[b].job : b \in published} \cup {h \in background : calls[h] > 0}
<1>0. /\ HandlesCount /\ RunsMatch /\ CompletedExact
      /\ background \subseteq Handle /\ calls \in [Handle -> Nat]
  BY DEF Safe, TypeOK
<1>1. \A h \in Handle : /\ calls[h] <= 1 /\ runs[h] <= 1
                        /\ h \in background /\ calls[h] = 1 => runs[h] = 1
  BY <1>0 DEF HandlesCount
<1>2. \A b \in published : memory[b].result = memory[b].job /\ runs[memory[b].job] = 1
  BY <1>0 DEF RunsMatch
\* A function in flight is neither published nor told of.
<1>3. ASSUME NEW h \in Handle, InFlight(h)
      PROVE  /\ \A b \in published : memory[b].job # h
             /\ calls[h] = 0
  <2>1. PICK w \in Worker : worker[w].at = "running" /\ worker[w].job = h
    BY <1>3 DEF InFlight
  <2>2. /\ worker[w].block \in allocated /\ worker[w].block # NoBlock
        /\ h = memory[worker[w].block].job
        /\ Live(table, h)
    BY <2>1, HeldFacts DEF Holding
  <2>3. ~memory[worker[w].block].done
    BY <2>2 DEF Safe, HeldOnce
  <2>4. ASSUME NEW b \in published, memory[b].job = h PROVE FALSE
    <3>1. b = worker[w].block
      BY <2>2, <2>4, JobsDistinct, SafeParts
    <3> QED BY <2>3, <3>1
  <2> QED BY <1>0, <2>2, <2>4 DEF HandlesCount
<1>4. told \subseteq Returned
  <2>1. ASSUME NEW b \in published PROVE memory[b].job \in Returned
    <3>1. memory[b].job \in Handle
      BY AllocatedFacts, SafeParts
    <3> QED BY <1>2, <1>3, <3>1, ReturnedFacts
  <2>2. ASSUME NEW h \in background, calls[h] > 0 PROVE h \in Returned
    <3>1. h \in Handle /\ calls[h] = 1 /\ runs[h] = 1
      BY <1>0, <1>1, <2>2
    <3> QED BY <1>3, <3>1, ReturnedFacts
  <2> QED BY <2>1, <2>2
<1>5. Cardinality(told) <= counters.completed
  <2> HIDE DEF told
  <2> QED BY <1>0, <1>4, ReturnedFacts, FS_Subset DEF CompletedExact
<1> QED BY <1>1, <1>2, <1>5 DEF CompletionsExact

\* Callbacks and worker functions run at most once, in that order, published
\* work carries its own result, and scheduler-stats counts every completion
\* the owner was told of (pool-worker-entry, scheduler-complete-job!).
THEOREM CompletionsAreExact == Spec => []CompletionsExact
<1>1. Safe => CompletionsExact
  BY CompletionsCounted
<1> QED BY SafeKept, <1>1, PTL

-----------------------------------------------------------------------------
(* The promise of JobLifecycle. *)

\* The fates are read off the table, the calls, and whether the owner is done.
LEMMA FateFrame ==
    ASSUME NEW h \in Handle,
           Issued(table', h) <=> Issued(table, h), Live(table', h) <=> Live(table, h),
           calls'[h] = calls[h], owner'.at = "freed" <=> owner.at = "freed"
    PROVE  Fate(h)' = Fate(h)
  BY DEF Fate

LEMMA FateStutters ==
    ASSUME table'.jobs = table.jobs, UNCHANGED <<calls, background, asked>>,
           owner'.at = "freed" <=> owner.at = "freed"
    PROVE  UNCHANGED Lifecycle!vars
<1>1. \A h \in Handle : /\ Issued(table', h) <=> Issued(table, h)
                        /\ Live(table', h) <=> Live(table, h)
  BY DEF Issued, Live
<1>2. \A h \in Handle : Fate(h)' = Fate(h)
  BY <1>1, FateFrame
<1> QED BY <1>2 DEF Lifecycle!vars

\* A new job is issued.
LEMMA FateIssued ==
    ASSUME Safe, owner.at # "freed", HandleFor(table) \in Handle,
           NEW kind \in Kinds \ {"empty"}, NEW d \in Deadlines \cup {0},
           NEW b \in Block \cup {NoBlock}, table' = Activate(table, kind, d, b),
           UNCHANGED <<owner, calls, asked>>,
           background' \in {background, background \cup {HandleFor(table)}}
    PROVE  Lifecycle!Next
<1>0. table \in TableRecord
  BY DEF Safe, TypeOK
<1>1. PICK k \in Handle : k = HandleFor(table)
  OBVIOUS
<1>2. /\ ~Issued(table, k)
      /\ \A h \in Handle : /\ Issued(table', h) <=> Issued(table, h) \/ h = k
                           /\ Live(table', h) <=> Live(table, h) \/ h = k
  BY <1>0, <1>1, ActivateHandles
<1>3. \A h \in Handle : h # k => Fate(h)' = Fate(h)
  BY <1>2, FateFrame
<1>4. Fate(k) = "none" /\ Fate(k)' = "pending"
  BY <1>2 DEF Fate
<1>5. Lifecycle!Issue(k)
  BY <1>1, <1>3, <1>4 DEF Lifecycle!Issue
<1> QED BY <1>5 DEF Lifecycle!Next

\* A call of a job delivers it.
LEMMA FateDelivered ==
    ASSUME Safe, PollForeground \/ PollWork
    PROVE  Lifecycle!Next
<1>0. table \in TableRecord /\ calls \in [Handle -> Nat] /\ HandlesCount
  BY DEF Safe, TypeOK
<1>1. /\ owner.slot \in DOMAIN table.jobs /\ table.jobs[owner.slot].kind # "empty"
      /\ table' = EmptySlot(table, owner.slot)
      /\ calls' = [calls EXCEPT ![HandleOf(table, owner.slot)] = @ + 1]
      /\ UNCHANGED <<asked, background>>
  BY DEF PollForeground, PollWork, AtSlot, SlotJob, Due
<1>2. owner.at # "freed" /\ owner'.at # "freed"
  BY OwnerMoves
<1>3. PICK k \in Handle : k = HandleOf(table, owner.slot)
  BY <1>1, HandleInBounds, SafeParts
<1>4. /\ Live(table, k)
      /\ \A h \in Handle : /\ Issued(table', h) <=> Issued(table, h)
                           /\ Live(table', h) <=> Live(table, h) /\ h # k
  BY <1>0, <1>1, <1>3, EmptySlotHandles
<1>5. /\ calls'[k] = calls[k] + 1 /\ calls[k] \in Nat
      /\ \A h \in Handle : h # k => calls'[h] = calls[h]
  BY <1>0, <1>1, <1>3, OneMore
<1>6. Issued(table, k)
  BY <1>4 DEF Live, Issued, Handle
<1>7. \A h \in Handle : h # k => Fate(h)' = Fate(h)
  BY <1>2, <1>4, <1>5, FateFrame
<1>8. Fate(k) = "pending" /\ Fate(k)' = "delivered"
  BY <1>2, <1>4, <1>5, <1>6 DEF Fate
<1>9. Lifecycle!Deliver(k)
  BY <1>1, <1>2, <1>7, <1>8 DEF Lifecycle!Deliver
<1> QED BY <1>9 DEF Lifecycle!Next

\* A cancellation asks for its own handle, and withdraws it when it is not work.
LEMMA FateAsked ==
    ASSUME Safe, NEW k \in Handle, Cancel(k)
    PROVE  Lifecycle!Next
<1>0. /\ table \in TableRecord /\ HandlesCount
      /\ owner.at # "freed" /\ Issued(table, k)
      /\ asked' = asked \cup {k} /\ UNCHANGED <<owner, calls, background>>
  BY DEF Safe, TypeOK, Cancel, ClientRuns
<1>1. Fate(k) # "none"
  BY <1>0 DEF Fate
<1>2. CASE ~Live(table, k) \/ table.jobs[k.slot].kind = "work"
  <2>1. UNCHANGED table
    BY <1>2 DEF Cancel
  <2>2. Fate(k) # "pending" \/ k \in background
    BY <1>0, <1>2 DEF Fate, HandlesCount
  <2>3. \A h \in Handle : Fate(h)' = Fate(h)
    BY <1>0, <2>1, FateFrame
  <2>4. Lifecycle!Ask(k)
    BY <1>0, <1>1, <2>2, <2>3 DEF Lifecycle!Ask
  <2> QED BY <2>4 DEF Lifecycle!Next
<1>3. CASE Live(table, k) /\ table.jobs[k.slot].kind # "work"
  <2>1. /\ table' = EmptySlot(table, k.slot)
        /\ k.slot \in DOMAIN table.jobs /\ table.jobs[k.slot].kind # "empty"
    BY <1>3 DEF Cancel, Live
  <2>2. k = HandleOf(table, k.slot)
    BY <1>3 DEF Live, HandleOf, Handle
  <2>3. \A h \in Handle : /\ Issued(table', h) <=> Issued(table, h)
                          /\ Live(table', h) <=> Live(table, h) /\ h # k
    BY <1>0, <2>1, <2>2, EmptySlotHandles
  <2>4. k \notin background /\ calls[k] = 0
    BY <1>0, <1>3 DEF HandlesCount
  <2>5. \A h \in Handle : h # k => Fate(h)' = Fate(h)
    BY <1>0, <2>3, FateFrame
  <2>6. Fate(k) = "pending" /\ Fate(k)' = "withdrawn"
    BY <1>0, <1>3, <2>3, <2>4 DEF Fate
  <2>7. Lifecycle!Ask(k)
    BY <1>0, <2>4, <2>5, <2>6 DEF Lifecycle!Ask
  <2> QED BY <2>7 DEF Lifecycle!Next
<1> QED BY <1>2, <1>3

\* The end of scheduler-free! drops what is left.
LEMMA FateDropped ==
    ASSUME Safe, FreeRelease
    PROVE  Lifecycle!Next
<1>1. /\ table'.jobs = table.jobs /\ UNCHANGED <<calls, background, asked>>
      /\ owner.at # "freed" /\ owner'.at = "freed"
  BY OwnerMoves DEF Safe, TypeOK, TableRecord, FreeRelease
<1>2. \A h \in Handle : /\ Issued(table', h) <=> Issued(table, h)
                        /\ Live(table', h) <=> Live(table, h)
  BY <1>1 DEF Issued, Live
<1>3. \A h \in Handle : Fate(h)' = IF Fate(h) = "pending" THEN "dropped" ELSE Fate(h)
  BY <1>1, <1>2 DEF Fate
<1>4. Lifecycle!Close
  BY <1>1, <1>3 DEF Lifecycle!Close
<1> QED BY <1>4 DEF Lifecycle!Next

\* With threads, polls and frees in any order, every handle has one fate: the
\* scheduler implements JobLifecycle (scheduler-dispatch!, -at!,
\* -spawn-priority!, -cancel!, -poll-at! and -free!).
THEOREM SchedulerKeepsPromise == Spec => KeepsPromise
<1>1. Init => Lifecycle!Init
  <2> SUFFICES ASSUME Init PROVE Lifecycle!Init
    OBVIOUS
  <2>1. \A h \in Handle : Fate(h) = "none"
    BY DEF Init, EmptyTable, Fate, Issued
  <2> QED BY <2>1 DEF Init, OwnerAt, Lifecycle!Init
<1>2. Safe /\ [Next]_vars => [Lifecycle!Next]_(Lifecycle!vars)
  <2> SUFFICES ASSUME Safe, [Next]_vars PROVE Lifecycle!Next \/ UNCHANGED Lifecycle!vars
    OBVIOUS
  <2>1. CASE SomeSpawn
    <3>1. /\ background' = background \cup {HandleFor(table)} /\ UNCHANGED <<owner, calls, asked>>
          /\ HandleFor(table) \in Handle /\ owner.at # "freed"
          /\ \E b \in Block : table' = Activate(table, "work", 0, b)
      BY <2>1, SpawnFacts DEF SomeSpawn, Spawn, ClientRuns
    <3> QED BY <3>1, FateIssued DEF Kinds
  <2>2. CASE Dispatch \/ \E d \in Deadlines : At(d)
    <3>1. /\ \E kind \in {"immediate", "timer"}, d \in Deadlines \cup {0} :
                table' = Activate(table, kind, d, NoBlock)
          /\ UNCHANGED <<owner, calls, asked, background>>
          /\ HandleFor(table) \in Handle /\ owner.at # "freed"
      BY <2>2 DEF Dispatch, At, ClientRuns, Room
    <3> QED BY <3>1, FateIssued DEF Kinds
  <2>3. CASE PollForeground \/ PollWork \/ (\E k \in Handle : Cancel(k)) \/ FreeRelease
    BY <2>3, FateDelivered, FateAsked, FateDropped
  <2>4. CASE \/ (\E now \in Times : PollStart(now)) \/ PollSkip \/ CallbackReturns \/ PollEnd
             \/ Sleep \/ Roused \/ TimedOut \/ FreeBegin \/ FreeShutdown
             \/ (\E w \in Worker : WorkerStep(w) \/ SpuriousWakeup(w)) \/ UNCHANGED vars
    <3>1. UNCHANGED <<table, calls, background, asked>>
      BY <2>4 DEF PollStart, PollSkip, CallbackReturns, PollEnd, Sleep, Roused, TimedOut,
         FreeBegin, FreeShutdown, WorkerStep, SpuriousWakeup, TakeWork, TakeStop, TakeWait,
         Begin, Leave, StoreResult, Wake, Publish, vars
    <3>2. owner'.at = "freed" <=> owner.at = "freed"
      BY <2>4, OwnerMoves, OwnerStays
    <3> QED BY <3>1, <3>2, FateStutters
  <2> QED BY <2>1, <2>2, <2>3, <2>4 DEF Next, PollStep, FreeStep, SomeSpawn
<1> QED BY <1>1, <1>2, SafeKept, PTL DEF Spec, KeepsPromise, Lifecycle!Spec
=============================================================================
