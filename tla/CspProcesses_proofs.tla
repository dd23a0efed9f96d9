------------------------- MODULE CspProcesses_proofs -------------------------
(***************************************************************************)
(* Proofs about CspProcesses, for any processes, channels and capacities:  *)
(* the lemmas of CoopTasks_proofs about the scheduler, lemmas about the    *)
(* ring buffer, and the accounting that ties the two wait queues of a      *)
(* channel to the operations its processes are at.                         *)
(***************************************************************************)
EXTENDS CspProcesses, CoopTasks_proofs, SequenceTheorems

-----------------------------------------------------------------------------
(* The inductive invariant. *)

AnyChannel == UNION {ChannelRecord(ch) : ch \in Channel}

StateRecord == [sched : SchedulerRecord, chan : [Channel -> AnyChannel]]

Typed ==
    /\ st \in StateRecord
    /\ pending \in [Task -> Ops \cup {NoOp}]
    /\ left \in [Task -> 0 .. MaxOps]
    /\ sent \in [Channel -> Seq(Value)]
    /\ received \in [Channel -> Seq(Value)]

\* The ring of a channel: tail is count slots after head.
RingOK(c, ch) ==
    /\ c \in ChannelRecord(ch)
    /\ c.tail = (c.head + c.count) % Capacity[ch]

RingsOK == \A ch \in Channel : RingOK(st.chan[ch], ch)

\* The book of one queue.  Who waits in it is at its operation, nobody waits on
\* a closed channel, and while somebody waits, all there is to claim is claimed
\* by tasks that were woken for it.
Kinds == {"send", "receive"}
Other(k) == IF k = "send" THEN "receive" ELSE "send"
Queue(ch, k) == IF k = "send" THEN Senders(ch) ELSE Receivers(ch)
Op(ch, k) == [kind |-> k, ch |-> ch]

\* Free slots for senders, values for receivers.
Claimable(c, ch, k) == IF k = "send" THEN Capacity[ch] - c.count ELSE c.count

\* The tasks on their way to retry an operation.
OnTheWay(s, p, ch, k) == {u \in Task : s.queued[u] /\ p[u] = Op(ch, k)}

Book(s, p, c, ch, k) ==
    /\ \A i \in 1 .. Len(s.wait[Queue(ch, k)]) : p[s.wait[Queue(ch, k)][i]] = Op(ch, k)
    /\ c.closed => s.wait[Queue(ch, k)] = <<>>
    /\ s.wait[Queue(ch, k)] # <<>> =>
          Claimable(c, ch, k) <= Cardinality(OnTheWay(s, p, ch, k))

Books(s, p, chan) ==
    \A ch \in Channel : \A k \in Kinds : Book(s, p, chan[ch], ch, k)

\* An operation that is being retried was started.
RetriesStarted == \A t \in Task : pending[t] # NoOp => left[t] < MaxOps

IInv ==
    /\ RecordOK(st.sched, NoTask)
    /\ Typed
    /\ RingsOK
    /\ Books(st.sched, pending, st.chan)
    /\ RetriesStarted
    /\ Fifo
-----------------------------------------------------------------------------
(* The ring buffer. *)

\* The remainder of an index that passed the end of the ring at most once.
LEMMA Wrap ==
    ASSUME NEW n \in Nat \ {0}, NEW x \in Nat, x < 2 * n
    PROVE  /\ x < n => x % n = x
           /\ x >= n => x % n = x - n
<1>1. ASSUME x < n PROVE x % n = x
  <2>1. x \in 0 .. n - 1
    BY <1>1
  <2> QED BY <2>1
<1>2. ASSUME x >= n PROVE x % n = x - n
  <2>1. x - n \in 0 .. n - 1
    BY <1>2
  <2>2. ((x - n) + n) % n = x - n
    BY <2>1
  <2>3. (x - n) + n = x
    OBVIOUS
  <2> QED BY <2>2, <2>3
<1> QED BY <1>1, <1>2

\* The i-th slot of a ring of n slots whose head is h, and the slot behind the
\* last of k.
Slot(n, h, i) == (h + i - 1) % n
End(n, h, k) == (h + k) % n

\* The slot behind a slot.
LEMMA NextSlot ==
    ASSUME NEW n \in Nat \ {0}, NEW h \in 0 .. n - 1
    PROVE  (h + 1) % n \in 0 .. n - 1
<1>1. h + 1 \in Nat
  OBVIOUS
<1> QED BY <1>1

LEMMA SlotTyped ==
    ASSUME NEW n \in Nat \ {0}, NEW h \in 0 .. n - 1, NEW i \in Nat \ {0}
    PROVE  Slot(n, h, i) \in 0 .. n - 1
<1>1. h + i - 1 \in Nat
  OBVIOUS
<1> QED BY <1>1 DEF Slot

\* Advancing the tail is counting one more.
LEMMA EndAdvances ==
    ASSUME NEW n \in Nat \ {0}, NEW h \in 0 .. n - 1, NEW k \in 0 .. n - 1
    PROVE  (End(n, h, k) + 1) % n = End(n, h, k + 1)
<1> DEFINE x == h + k
           y == h + (k + 1)
<1>1. x \in Nat /\ y \in Nat /\ x < 2 * n /\ y < 2 * n /\ y = x + 1 /\ x <= 2 * n - 2
  OBVIOUS
<1>2. End(n, h, k) = x % n /\ End(n, h, k + 1) = y % n
  BY DEF End
<1> HIDE DEF x, y
<1>3. CASE x < n
  <2>1. x % n = x
    BY <1>1, <1>3, Wrap
  <2> QED BY <1>1, <1>2, <2>1
<1>4. CASE x >= n
  <2>1. x % n = x - n /\ y % n = y - n
    <3>1. x >= n /\ y >= n
      BY <1>1, <1>4
    <3>2. x % n = x - n
      BY <1>1, <3>1, Wrap
    <3>3. y % n = y - n
      BY <1>1, <3>1, Wrap
    <3> QED BY <3>2, <3>3
  <2> DEFINE z == x - n
  <2>2. z \in 0 .. n - 2 /\ z + 1 = y - n
    BY <1>1, <1>4
  <2>3. z + 1 \in 0 .. n - 1
    BY <2>2
  <2> HIDE DEF z
  <2>4. (z + 1) % n = z + 1
    BY <2>3
  <2>5. End(n, h, k) = z
    BY <1>2, <2>1 DEF z
  <2> QED BY <1>2, <2>1, <2>2, <2>4, <2>5
<1> QED BY <1>1, <1>3, <1>4

\* The slot behind the last is none of the slots that hold a value.
LEMMA EndIsFree ==
    ASSUME NEW n \in Nat \ {0}, NEW h \in 0 .. n - 1, NEW k \in 0 .. n - 1,
           NEW i \in 1 .. k
    PROVE  Slot(n, h, i) # End(n, h, k)
<1> DEFINE x == h + i - 1
           y == h + k
<1>1. /\ x \in Nat /\ y \in Nat /\ x < 2 * n /\ y < 2 * n
      /\ x < y /\ y - x < n
  OBVIOUS
<1>2. Slot(n, h, i) = x % n /\ End(n, h, k) = y % n
  BY DEF Slot, End
<1> HIDE DEF x, y
<1>3. /\ x < n => x % n = x
      /\ x >= n => x % n = x - n
      /\ y < n => y % n = y
      /\ y >= n => y % n = y - n
  BY <1>1, Wrap
<1>4. CASE y < n
  BY <1>1, <1>2, <1>3, <1>4
<1>5. CASE y >= n /\ x < n
  <2>1. x % n = x /\ y % n = y - n
    BY <1>3, <1>5
  <2> QED BY <1>1, <1>2, <2>1
<1>6. CASE y >= n /\ x >= n
  <2>1. x % n = x - n /\ y % n = y - n
    BY <1>3, <1>6
  <2> QED BY <1>1, <1>2, <2>1
<1> QED BY <1>1, <1>4, <1>5, <1>6

\* Counting from the advanced head is counting from one further on.
LEMMA HeadAdvances ==
    ASSUME NEW n \in Nat \ {0}, NEW h \in 0 .. n - 1, NEW k \in 0 .. n - 1
    PROVE  (((h + 1) % n) + k) % n = (h + 1 + k) % n
<1>2. CASE h + 1 < n
  <2>1. h + 1 \in 0 .. n - 1
    BY <1>2
  <2>2. (h + 1) % n = h + 1
    BY <2>1
  <2> QED BY <2>2
<1>3. CASE h + 1 = n
  <2>1. (h + 1) % n = 0
    BY <1>3
  <2>2. k % n = k
    OBVIOUS
  <2>3. (k + n) % n = k
    OBVIOUS
  <2>4. h + 1 + k = k + n /\ 0 + k = k
    BY <1>3
  <2> QED BY <2>1, <2>2, <2>3, <2>4
<1> QED BY <1>2, <1>3

LEMMA SlotsShift ==
    ASSUME NEW n \in Nat \ {0}, NEW h \in 0 .. n - 1, NEW i \in 1 .. n - 1
    PROVE  Slot(n, (h + 1) % n, i) = Slot(n, h, i + 1)
<1> DEFINE g == (h + 1) % n
           k == i - 1
<1>1. k \in 0 .. n - 1 /\ i = k + 1
  OBVIOUS
<1>2. g \in 0 .. n - 1
  BY NextSlot
<1>3. (g + k) % n = (h + 1 + k) % n
  BY <1>1, HeadAdvances
<1> HIDE DEF g, k
<1>4. g + i - 1 = g + k /\ h + (i + 1) - 1 = h + 1 + k
  BY <1>1, <1>2
<1>5. Slot(n, g, i) = (g + k) % n
  <2>1. Slot(n, g, i) = (g + i - 1) % n
    BY DEF Slot
  <2> QED BY <1>4, <2>1
<1>6. Slot(n, h, i + 1) = (h + 1 + k) % n
  <2>1. Slot(n, h, i + 1) = (h + (i + 1) - 1) % n
    BY DEF Slot
  <2> QED BY <1>4, <2>1
<1> QED BY <1>3, <1>5, <1>6 DEF g

\* After a receive the tail is as far behind the head as the count says.
LEMMA EndStays ==
    ASSUME NEW n \in Nat \ {0}, NEW h \in 0 .. n - 1, NEW k \in 1 .. n
    PROVE  End(n, (h + 1) % n, k - 1) = End(n, h, k)
<1> DEFINE j == k - 1
<1>1. j \in 0 .. n - 1 /\ h + 1 + j = h + k
  OBVIOUS
<1> HIDE DEF j
<1>2. (((h + 1) % n) + j) % n = (h + 1 + j) % n
  BY <1>1, HeadAdvances
<1>3. End(n, (h + 1) % n, j) = End(n, h, k)
  BY <1>1, <1>2 DEF End
<1> QED BY <1>3 DEF j

LEMMA FirstSlot ==
    ASSUME NEW n \in Nat \ {0}, NEW h \in 0 .. n - 1
    PROVE  Slot(n, h, 1) = h
<1>1. h + 1 - 1 = h /\ h % n = h
  OBVIOUS
<1>2. Slot(n, h, 1) = (h + 1 - 1) % n
  BY DEF Slot
<1> QED BY <1>1, <1>2

Slots == Value \cup {NoValue}

LEMMA RingTyped ==
    ASSUME NEW ch \in Channel, NEW c, RingOK(c, ch)
    PROVE  /\ Capacity[ch] \in Nat \ {0}
           /\ c.head \in 0 .. Capacity[ch] - 1 /\ c.tail \in 0 .. Capacity[ch] - 1
           /\ c.count \in 0 .. Capacity[ch] /\ c.closed \in BOOLEAN
           /\ c.buffer \in [0 .. Capacity[ch] - 1 -> Slots]
           /\ c.tail = End(Capacity[ch], c.head, c.count)
           /\ c \in ChannelRecord(ch)
  BY CapacityPositive DEF RingOK, ChannelRecord, Slots, End

\* The contents are as many slots as the count says.
ContentsOK(c, ch) ==
    /\ Contents(c, ch) \in Seq(Slots)
    /\ Len(Contents(c, ch)) = c.count
    /\ \A i \in 1 .. c.count :
          Contents(c, ch)[i] = c.buffer[Slot(Capacity[ch], c.head, i)]

LEMMA ContentsTyped ==
    ASSUME NEW ch \in Channel, NEW c, RingOK(c, ch)
    PROVE  ContentsOK(c, ch)
<1>1. /\ Capacity[ch] \in Nat \ {0} /\ c.head \in 0 .. Capacity[ch] - 1
      /\ c.count \in Nat /\ c.buffer \in [0 .. Capacity[ch] - 1 -> Slots]
  BY RingTyped
<1>2. ASSUME NEW i \in 1 .. c.count
      PROVE  Slot(Capacity[ch], c.head, i) \in 0 .. Capacity[ch] - 1
  <2>1. i \in Nat \ {0}
    BY <1>1
  <2> QED BY <1>1, <2>1, SlotTyped
<1>3. \A i \in 1 .. c.count : c.buffer[Slot(Capacity[ch], c.head, i)] \in Slots
  BY <1>1, <1>2
<1>4. [i \in 1 .. c.count |-> c.buffer[Slot(Capacity[ch], c.head, i)]] \in Seq(Slots)
  BY <1>1, <1>3
<1>5. Len([i \in 1 .. c.count |-> c.buffer[Slot(Capacity[ch], c.head, i)]]) = c.count
  BY <1>1
<1>6. Contents(c, ch) = [i \in 1 .. c.count |-> c.buffer[Slot(Capacity[ch], c.head, i)]]
  BY DEF Contents, Slot
<1> QED BY <1>1, <1>4, <1>5, <1>6 DEF ContentsOK

\* The ring after a committed send and after a committed receive.
Pushed(c, ch, v) ==
    [c EXCEPT !.buffer = [c.buffer EXCEPT ![c.tail] = v],
              !.tail = (c.tail + 1) % Capacity[ch],
              !.count = c.count + 1]

Popped(c, ch) ==
    [c EXCEPT !.head = (c.head + 1) % Capacity[ch],
              !.count = c.count - 1]

\* A committed send: the value goes behind the others.
LEMMA RingSend ==
    ASSUME NEW ch \in Channel, NEW c, RingOK(c, ch), c.count < Capacity[ch],
           NEW v \in Value, NEW n, n = Pushed(c, ch, v)
    PROVE  /\ RingOK(n, ch)
           /\ n.closed = c.closed /\ n.count = c.count + 1
           /\ Contents(n, ch) = Append(Contents(c, ch), v)
<1> DEFINE N == Capacity[ch]
<1>1. /\ N \in Nat \ {0} /\ c.head \in 0 .. N - 1 /\ c.tail \in 0 .. N - 1
      /\ c.count \in 0 .. N - 1 /\ c.buffer \in [0 .. N - 1 -> Slots]
      /\ c \in ChannelRecord(ch) /\ c.tail = End(N, c.head, c.count)
  BY RingTyped
<1>2. /\ n.buffer = [c.buffer EXCEPT ![c.tail] = v]
      /\ n.tail = (c.tail + 1) % N /\ n.count = c.count + 1
      /\ n.head = c.head /\ n.closed = c.closed
  BY <1>1 DEF ChannelRecord, Pushed
<1>3. n.buffer \in [0 .. N - 1 -> Slots]
  BY <1>1, <1>2 DEF Slots
<1>4. n.tail \in 0 .. N - 1 /\ n.count \in 0 .. N
  <2>1. n.count \in 0 .. N
    BY <1>1, <1>2
  <2> QED BY <1>1, <1>2, <2>1, NextSlot
<1>5. n \in ChannelRecord(ch)
  BY <1>1, <1>3, <1>4, <1>2 DEF ChannelRecord, Slots, Pushed
<1>6. n.tail = End(N, n.head, n.count)
  BY <1>1, <1>2, EndAdvances
<1>7. RingOK(n, ch)
  BY <1>5, <1>6 DEF RingOK, End
<1>8. v \in Slots
  BY DEF Slots
<1>9. /\ Contents(c, ch) \in Seq(Slots) /\ Len(Contents(c, ch)) = c.count
      /\ \A i \in 1 .. c.count : Contents(c, ch)[i] = c.buffer[Slot(N, c.head, i)]
  <2>1. ContentsOK(c, ch)
    BY ContentsTyped
  <2> QED BY <2>1 DEF ContentsOK
<1>10. /\ Contents(n, ch) \in Seq(Slots) /\ Len(Contents(n, ch)) = n.count
       /\ \A i \in 1 .. n.count : Contents(n, ch)[i] = n.buffer[Slot(N, n.head, i)]
  <2>1. ContentsOK(n, ch)
    BY <1>7, ContentsTyped
  <2> QED BY <2>1 DEF ContentsOK
<1>11. /\ Append(Contents(c, ch), v) \in Seq(Slots)
       /\ Len(Append(Contents(c, ch), v)) = c.count + 1
       /\ \A i \in 1 .. c.count : Append(Contents(c, ch), v)[i] = Contents(c, ch)[i]
       /\ Append(Contents(c, ch), v)[c.count + 1] = v
  BY <1>8, <1>9, AppendIndices
<1>12. ASSUME NEW i \in 1 .. c.count + 1
       PROVE  Contents(n, ch)[i] = Append(Contents(c, ch), v)[i]
  <2>1. Contents(n, ch)[i] = n.buffer[Slot(N, c.head, i)]
    BY <1>2, <1>10
  <2>2. CASE i = c.count + 1
    <3>1. Slot(N, c.head, i) = c.tail
      <4>1. c.head + i - 1 = c.head + c.count
        BY <1>1, <2>2
      <4> QED BY <1>1, <4>1 DEF Slot, End
    <3> QED BY <1>1, <1>2, <1>11, <2>1, <2>2, <3>1
  <2>3. CASE i \in 1 .. c.count
    <3>1. Slot(N, c.head, i) # c.tail
      BY <1>1, <2>3, EndIsFree
    <3>2. Slot(N, c.head, i) \in 0 .. N - 1
      <4>1. i \in Nat \ {0}
        BY <1>1, <2>3
      <4> QED BY <1>1, <4>1, SlotTyped
    <3>3. n.buffer[Slot(N, c.head, i)] = c.buffer[Slot(N, c.head, i)]
      BY <1>1, <1>2, <3>1, <3>2
    <3> QED BY <1>9, <1>11, <2>1, <2>3, <3>3
  <2>4. i = c.count + 1 \/ i \in 1 .. c.count
    <3>1. c.count \in Nat
      BY <1>1
    <3> QED BY <3>1
  <2> QED BY <2>2, <2>3, <2>4
<1>13. Contents(n, ch) = Append(Contents(c, ch), v)
  BY <1>2, <1>10, <1>11, <1>12, SeqEqual
<1> QED BY <1>2, <1>7, <1>13

\* A committed receive: the oldest value leaves.
LEMMA RingReceive ==
    ASSUME NEW ch \in Channel, NEW c, RingOK(c, ch), c.count > 0,
           NEW n, n = Popped(c, ch)
    PROVE  /\ RingOK(n, ch)
           /\ n.closed = c.closed /\ n.count = c.count - 1
           /\ c.buffer[c.head] = Contents(c, ch)[1]
           /\ \A i \in 1 .. n.count : Contents(n, ch)[i] = Contents(c, ch)[i + 1]
<1> DEFINE N == Capacity[ch]
<1>1. /\ N \in Nat \ {0} /\ c.head \in 0 .. N - 1 /\ c.tail \in 0 .. N - 1
      /\ c.count \in 1 .. N /\ c.buffer \in [0 .. N - 1 -> Slots]
      /\ c \in ChannelRecord(ch) /\ c.tail = End(N, c.head, c.count)
  BY RingTyped
<1>2. /\ n.buffer = c.buffer /\ n.tail = c.tail /\ n.count = c.count - 1
      /\ n.head = (c.head + 1) % N /\ n.closed = c.closed
  BY <1>1 DEF ChannelRecord, Popped
<1>3. n.head \in 0 .. N - 1 /\ n.count \in 0 .. N
  <2>1. n.count \in 0 .. N
    BY <1>1, <1>2
  <2> QED BY <1>1, <1>2, <2>1, NextSlot
<1>4. n \in ChannelRecord(ch)
  BY <1>1, <1>3, <1>2 DEF ChannelRecord, Popped
<1>5. n.tail = End(N, n.head, n.count)
  BY <1>1, <1>2, EndStays
<1>6. RingOK(n, ch)
  BY <1>4, <1>5 DEF RingOK, End
<1>7. \A i \in 1 .. c.count : Contents(c, ch)[i] = c.buffer[Slot(N, c.head, i)]
  <2>1. ContentsOK(c, ch)
    BY ContentsTyped
  <2> QED BY <2>1 DEF ContentsOK
<1>8. \A i \in 1 .. n.count : Contents(n, ch)[i] = n.buffer[Slot(N, n.head, i)]
  <2>1. ContentsOK(n, ch)
    BY <1>6, ContentsTyped
  <2> QED BY <2>1 DEF ContentsOK
<1>9. ASSUME NEW i \in 1 .. n.count
      PROVE  Contents(n, ch)[i] = Contents(c, ch)[i + 1]
  <2>1. i \in 1 .. N - 1 /\ i + 1 \in 1 .. c.count
    BY <1>1, <1>2
  <2>2. Slot(N, n.head, i) = Slot(N, c.head, i + 1)
    BY <1>1, <1>2, <2>1, SlotsShift
  <2> QED BY <1>2, <1>7, <1>8, <2>1, <2>2
<1>10. c.buffer[c.head] = Contents(c, ch)[1]
  <2>1. 1 \in 1 .. c.count
    BY <1>1
  <2>2. Slot(N, c.head, 1) = c.head
    BY <1>1, FirstSlot
  <2> QED BY <1>7, <2>1, <2>2
<1> QED BY <1>2, <1>6, <1>9, <1>10

-----------------------------------------------------------------------------
(* What was sent, what was received and what is in between. *)

LEMMA AppendOver ==
    ASSUME NEW S, NEW a \in Seq(S), NEW b \in Seq(S), NEW x \in S
    PROVE  a \o Append(b, x) = Append(a \o b, x)
  OBVIOUS

\* Moving the first element of the second sequence to the end of the first.
LEMMA MoveOver ==
    ASSUME NEW S, NEW a \in Seq(S), NEW b \in Seq(S), NEW c \in Seq(S),
           b # <<>>, Len(c) = Len(b) - 1, \A i \in 1 .. Len(c) : c[i] = b[i + 1]
    PROVE  Append(a, b[1]) \o c = a \o b
<1> DEFINE d == Append(a, b[1])
<1>1. Len(a) \in Nat /\ Len(b) \in Nat /\ Len(b) >= 1 /\ b[1] \in S
  OBVIOUS
<1>2. /\ d \in Seq(S) /\ Len(d) = Len(a) + 1
      /\ \A i \in 1 .. Len(a) : d[i] = a[i]
      /\ d[Len(a) + 1] = b[1]
  BY <1>1, AppendIndices
<1> HIDE DEF d
<1>3. /\ d \o c \in Seq(S) /\ Len(d \o c) = Len(d) + Len(c)
      /\ \A i \in 1 .. Len(d) + Len(c) :
            (d \o c)[i] = IF i <= Len(d) THEN d[i] ELSE c[i - Len(d)]
  BY <1>2, ConcatProperties
<1>4. /\ a \o b \in Seq(S) /\ Len(a \o b) = Len(a) + Len(b)
      /\ \A i \in 1 .. Len(a) + Len(b) :
            (a \o b)[i] = IF i <= Len(a) THEN a[i] ELSE b[i - Len(a)]
  BY ConcatProperties
<1>5. Len(d) + Len(c) = Len(a) + Len(b)
  BY <1>1, <1>2
<1>6. ASSUME NEW i \in 1 .. Len(a) + Len(b)
      PROVE  (d \o c)[i] = (a \o b)[i]
  <2>1. CASE i <= Len(a)
    BY <1>1, <1>2, <1>3, <1>4, <1>5, <2>1
  <2>2. CASE i = Len(a) + 1
    <3>1. (a \o b)[i] = b[1]
      BY <1>1, <1>4, <2>2
    <3>2. (d \o c)[i] = d[Len(a) + 1]
      BY <1>1, <1>2, <1>3, <1>5, <2>2
    <3> QED BY <1>2, <3>1, <3>2
  <2>3. CASE i > Len(a) + 1
    <3> DEFINE k == i - Len(d)
    <3>1. k \in 1 .. Len(c) /\ k + 1 = i - Len(a)
      BY <1>1, <1>2, <1>5, <2>3
    <3>2. (d \o c)[i] = c[k]
      BY <1>1, <1>2, <1>3, <1>5, <2>3
    <3> HIDE DEF k
    <3>3. (a \o b)[i] = b[i - Len(a)]
      BY <1>1, <1>4, <2>3
    <3> QED BY <3>1, <3>2, <3>3
  <2>4. i <= Len(a) \/ i = Len(a) + 1 \/ i > Len(a) + 1
    <3>1. i \in Int /\ Len(a) \in Int
      BY <1>1
    <3> QED BY <3>1
  <2> QED BY <2>1, <2>2, <2>3, <2>4
<1>7. d \o c = a \o b
  BY <1>3, <1>4, <1>5, <1>6, SeqEqual
<1> QED BY <1>7 DEF d
-----------------------------------------------------------------------------
(* One turn of the scheduler: s is the record before it, n the one after.   *)

\* An operation that neither parks nor wakes.
TurnKeeps(s, n) ==
    /\ \A u \in Task : n.queued[u] <=> s.queued[u]
    /\ n.wait = s.wait

\* An operation that wakes one waiter of q.
TurnWakes(s, q, n) ==
    /\ \A u \in Task :
          n.queued[u] <=> s.queued[u] \/ (s.wait[q] # <<>> /\ u = s.wait[q][1])
    /\ \A p \in WaitQueue \ {q} : n.wait[p] = s.wait[p]
    /\ s.wait[q] = <<>> => n.wait[q] = <<>>
    /\ s.wait[q] # <<>> =>
          /\ Len(n.wait[q]) = Len(s.wait[q]) - 1
          /\ \A i \in 1 .. Len(s.wait[q]) - 1 : n.wait[q][i] = s.wait[q][i + 1]

\* An operation that parks its task t in q.
TurnParks(s, q, t, n) ==
    /\ \A u \in Task : n.queued[u] <=> s.queued[u] /\ u # t
    /\ n.wait[q] = Append(s.wait[q], t)
    /\ \A p \in WaitQueue \ {q} : n.wait[p] = s.wait[p]

\* An operation that empties p and q.
TurnEmpties(s, p, q, n) ==
    /\ \A u \in Task : s.queued[u] => n.queued[u]
    /\ n.wait[p] = <<>> /\ n.wait[q] = <<>>
    /\ \A r \in WaitQueue \ {p, q} : n.wait[r] = s.wait[r]

\* The last turn of t.
TurnCompletes(s, t, n) ==
    /\ \A u \in Task : n.queued[u] <=> s.queued[u] /\ u # t
    /\ n.wait = s.wait

LEMMA TurnStarts ==
    ASSUME NEW s, RecordOK(s, NoTask), s.ready # <<>>, NEW t, t = Head(s.ready)
    PROVE  /\ t \in Task /\ s.queued[t]
           /\ RecordOK(Take(s), t) /\ TakeChanges(s, t, Take(s))
  BY TakeOK, TakeEffect

LEMMA KeepingTurn ==
    ASSUME NEW s, RecordOK(s, NoTask), s.ready # <<>>, NEW t, t = Head(s.ready)
    PROVE  /\ RecordOK(AfterStep(Take(s), t), NoTask)
           /\ TurnKeeps(s, AfterStep(Take(s), t))
<1> DEFINE k == Take(s)
           n == AfterStep(k, t)
<1>1. t \in Task /\ s.queued[t] /\ RecordOK(k, t) /\ TakeChanges(s, t, k)
  BY TurnStarts
<1> HIDE DEF k
<1>2. RecordOK(n, NoTask) /\ ReturnChanges(k, t, n)
  BY <1>1, AfterStepOK, AfterStepEffect
<1> HIDE DEF n
<1>3. TurnKeeps(s, n)
  BY <1>1, <1>2 DEF TakeChanges, ReturnChanges, TurnKeeps
<1> QED BY <1>2, <1>3 DEF n, k

LEMMA WakingTurn ==
    ASSUME NEW s, RecordOK(s, NoTask), s.ready # <<>>, NEW t, t = Head(s.ready),
           NEW q \in WaitQueue
    PROVE  /\ RecordOK(AfterStep(WakeOne(Take(s), q), t), NoTask)
           /\ TurnWakes(s, q, AfterStep(WakeOne(Take(s), q), t))
<1> DEFINE k == Take(s)
           w == WakeOne(k, q)
           n == AfterStep(w, t)
<1>1. t \in Task /\ s.queued[t] /\ RecordOK(k, t) /\ TakeChanges(s, t, k)
  BY TurnStarts
<1> HIDE DEF k
<1>2. k.wait = s.wait
  BY <1>1 DEF TakeChanges
<1>3. CASE s.wait[q] = <<>>
  <2>1. w = k
    BY <1>2, <1>3 DEF WakeOne
  <2>2. RecordOK(n, NoTask) /\ ReturnChanges(k, t, n)
    BY <1>1, <2>1, AfterStepOK, AfterStepEffect
  <2> HIDE DEF n, w
  <2>3. TurnWakes(s, q, n)
    <3>1. \A u \in Task : n.queued[u] <=> s.queued[u]
      BY <1>1, <2>2 DEF TakeChanges, ReturnChanges
    <3>2. n.wait = s.wait
      BY <1>2, <2>2 DEF ReturnChanges
    <3> QED BY <1>3, <3>1, <3>2 DEF TurnWakes
  <2> QED BY <2>2, <2>3 DEF n, w, k
<1>4. CASE s.wait[q] # <<>>
  <2>1. k.wait[q] # <<>>
    BY <1>2, <1>4
  <2>2. RecordOK(w, t) /\ WakeOneChanges(k, q, w)
    BY <1>1, <2>1, WakeOneOK, WakeOneEffect
  <2> HIDE DEF w
  <2>3. RecordOK(n, NoTask) /\ ReturnChanges(w, t, n)
    BY <1>1, <2>2, AfterStepOK, AfterStepEffect
  <2> HIDE DEF n
  <2>4. n.wait = w.wait
    BY <2>3 DEF ReturnChanges
  <2>5. ASSUME NEW u \in Task
        PROVE  n.queued[u] <=> s.queued[u] \/ u = s.wait[q][1]
    BY <1>1, <1>2, <2>2, <2>3 DEF TakeChanges, WakeOneChanges, ReturnChanges
  <2>6. /\ \A p \in WaitQueue \ {q} : n.wait[p] = s.wait[p]
        /\ Len(n.wait[q]) = Len(s.wait[q]) - 1
        /\ \A i \in 1 .. Len(s.wait[q]) - 1 : n.wait[q][i] = s.wait[q][i + 1]
    BY <1>2, <2>2, <2>4 DEF WakeOneChanges
  <2>7. TurnWakes(s, q, n)
    <3>1. \A u \in Task :
             n.queued[u] <=> s.queued[u] \/ (s.wait[q] # <<>> /\ u = s.wait[q][1])
      BY <1>4, <2>5
    <3> QED BY <1>4, <2>6, <3>1, Zenon DEF TurnWakes
  <2> QED BY <2>3, <2>7 DEF n, w, k
<1> QED BY <1>3, <1>4

LEMMA ParkingTurn ==
    ASSUME NEW s, RecordOK(s, NoTask), s.ready # <<>>, NEW t, t = Head(s.ready),
           NEW q \in WaitQueue
    PROVE  /\ RecordOK(AfterStep(Park(Take(s), q, t), t), NoTask)
           /\ TurnParks(s, q, t, AfterStep(Park(Take(s), q, t), t))
<1> DEFINE k == Take(s)
           n == Park(k, q, t)
<1>1. t \in Task /\ s.queued[t] /\ RecordOK(k, t) /\ TakeChanges(s, t, k)
  BY TurnStarts
<1> HIDE DEF k
<1>2. RecordOK(n, NoTask) /\ ParkChanges(k, q, t, n) /\ AfterStep(n, t) = n
  BY <1>1, ParkOK, ParkEffect
<1> HIDE DEF n
<1>3. TurnParks(s, q, t, n)
  BY <1>1, <1>2 DEF TakeChanges, ParkChanges, TurnParks
<1> QED BY <1>2, <1>3 DEF n, k

LEMMA EmptyingTurn ==
    ASSUME NEW s, RecordOK(s, NoTask), s.ready # <<>>, NEW t, t = Head(s.ready),
           NEW p \in WaitQueue, NEW q \in WaitQueue
    PROVE  /\ RecordOK(AfterStep(WakeAll(WakeAll(Take(s), p), q), t), NoTask)
           /\ TurnEmpties(s, p, q, AfterStep(WakeAll(WakeAll(Take(s), p), q), t))
<1> DEFINE k == Take(s)
           w == WakeAll(k, p)
           x == WakeAll(w, q)
           n == AfterStep(x, t)
<1>1. t \in Task /\ s.queued[t] /\ RecordOK(k, t) /\ TakeChanges(s, t, k)
  BY TurnStarts
<1> HIDE DEF k
<1>2. RecordOK(w, t) /\ WakeAllChanges(k, p, w)
  BY <1>1, WakeAllEffect
<1> HIDE DEF w
<1>3. RecordOK(x, t) /\ WakeAllChanges(w, q, x)
  BY <1>2, WakeAllEffect
<1> HIDE DEF x
<1>4. RecordOK(n, NoTask) /\ ReturnChanges(x, t, n)
  BY <1>1, <1>3, AfterStepOK, AfterStepEffect
<1> HIDE DEF n
<1>5. ASSUME NEW u \in Task, s.queued[u] PROVE n.queued[u]
  <2>1. CASE u = t
    BY <1>4, <2>1 DEF ReturnChanges
  <2>2. CASE u # t
    <3>1. k.queued[u]
      BY <1>1, <1>5, <2>2 DEF TakeChanges
    <3>2. w.queued[u]
      BY <1>2, <3>1 DEF WakeAllChanges
    <3>3. x.queued[u]
      BY <1>3, <3>2 DEF WakeAllChanges
    <3> QED BY <1>4, <3>3 DEF ReturnChanges
  <2> QED BY <2>1, <2>2
<1>6. n.wait = x.wait /\ k.wait = s.wait
  BY <1>1, <1>4 DEF ReturnChanges, TakeChanges
<1>7. /\ x.wait[q] = <<>> /\ \A r \in WaitQueue \ {q} : x.wait[r] = w.wait[r]
      /\ w.wait[p] = <<>> /\ \A r \in WaitQueue \ {p} : w.wait[r] = k.wait[r]
  BY <1>2, <1>3 DEF WakeAllChanges
<1>8. TurnEmpties(s, p, q, n)
  BY <1>5, <1>6, <1>7 DEF TurnEmpties
<1> QED BY <1>4, <1>8 DEF n, x, w, k

LEMMA CompletingTurn ==
    ASSUME NEW s, RecordOK(s, NoTask), s.ready # <<>>, NEW t, t = Head(s.ready)
    PROVE  /\ RecordOK(AfterStep(Complete(Take(s), t), t), NoTask)
           /\ TurnCompletes(s, t, AfterStep(Complete(Take(s), t), t))
<1> DEFINE k == Take(s)
           n == Complete(k, t)
<1>1. t \in Task /\ s.queued[t] /\ RecordOK(k, t) /\ TakeChanges(s, t, k)
  BY TurnStarts
<1> HIDE DEF k
<1>2. RecordOK(n, NoTask) /\ CompleteChanges(k, t, n) /\ AfterStep(n, t) = n
  BY <1>1, CompleteOK, CompleteEffect
<1> HIDE DEF n
<1>3. TurnCompletes(s, t, n)
  BY <1>1, <1>2 DEF TakeChanges, CompleteChanges, TurnCompletes
<1> QED BY <1>2, <1>3 DEF n, k
-----------------------------------------------------------------------------
(* The books of the queues.                                                 *)

LEMMA QueueFacts ==
    ASSUME NEW ch \in Channel, NEW k \in Kinds
    PROVE  /\ Queue(ch, k) \in WaitQueue
           /\ Other(k) \in Kinds /\ Other(k) # k /\ Op(ch, k) # NoOp
<1>1. Queue(ch, k) \in WaitQueue
  BY ChannelQueues DEF Queue, Kinds, Senders, Receivers
<1>2. Other(k) \in Kinds /\ Other(k) # k
  BY DEF Kinds, Other
<1>3. Op(ch, k) # NoOp
  BY NoOpIsNone DEF Op, Kinds
<1> QED BY <1>1, <1>2, <1>3

\* Each kind of operation of each channel has its own queue.
LEMMA QueuesDiffer ==
    ASSUME NEW ch \in Channel, NEW k \in Kinds, NEW ch2 \in Channel, NEW k2 \in Kinds
    PROVE  /\ Queue(ch, k) = Queue(ch2, k2) => ch = ch2 /\ k = k2
           /\ Op(ch, k) = Op(ch2, k2) => ch = ch2 /\ k = k2
  BY DEF Kinds, Queue, Senders, Receivers, Op

\* A set of tasks that loses at most one member, none, or gains one.
LEMMA Counting ==
    ASSUME NEW A \in SUBSET Task, NEW B \in SUBSET Task, NEW t
    PROVE  /\ Cardinality(A) \in Nat /\ Cardinality(B) \in Nat
           /\ A \ {t} \subseteq B => Cardinality(A) - 1 <= Cardinality(B)
           /\ A \subseteq B => Cardinality(A) <= Cardinality(B)
           /\ A \subseteq B /\ t \in B /\ t \notin A =>
                 Cardinality(A) + 1 <= Cardinality(B)
<1>1. IsFiniteSet(A) /\ IsFiniteSet(B)
  BY TasksFinite, FS_Subset
<1>2. Cardinality(A) \in Nat /\ Cardinality(B) \in Nat
  BY <1>1, FS_CardinalityType
<1>3. ASSUME A \ {t} \subseteq B PROVE Cardinality(A) - 1 <= Cardinality(B)
  <2>1. Cardinality(A \ {t}) <= Cardinality(B)
    BY <1>1, <1>3, FS_Subset
  <2>2. /\ IsFiniteSet(A \ {t})
        /\ Cardinality(A \ {t}) = IF t \in A THEN Cardinality(A) - 1 ELSE Cardinality(A)
    BY <1>1, FS_RemoveElement
  <2> QED BY <1>2, <2>1, <2>2
<1>4. ASSUME A \subseteq B PROVE Cardinality(A) <= Cardinality(B)
  BY <1>1, <1>4, FS_Subset
<1>5. ASSUME A \subseteq B, t \in B, t \notin A
      PROVE  Cardinality(A) + 1 <= Cardinality(B)
  <2>1. A \cup {t} \subseteq B
    BY <1>5
  <2>2. Cardinality(A \cup {t}) <= Cardinality(B)
    BY <1>1, <2>1, FS_Subset
  <2>3. Cardinality(A \cup {t}) = Cardinality(A) + 1
    BY <1>1, <1>5, FS_AddElement
  <2> QED BY <2>2, <2>3
<1> QED BY <1>2, <1>3, <1>4, <1>5

\* Nobody waits: nothing to account for.
LEMMA BookEmpty ==
    ASSUME NEW n, NEW p, NEW c, NEW ch, NEW k, n.wait[Queue(ch, k)] = <<>>
    PROVE  Book(n, p, c, ch, k)
<1> HIDE DEF Queue
<1> QED BY DEF Book

\* Nothing more to claim than before, and nobody on the way lost.
LEMMA BookKept ==
    ASSUME NEW s, NEW n, NEW p, NEW o, NEW c, NEW d, NEW ch, NEW k,
           Book(s, p, c, ch, k),
           n.wait[Queue(ch, k)] = s.wait[Queue(ch, k)],
           \A i \in 1 .. Len(s.wait[Queue(ch, k)]) :
              o[s.wait[Queue(ch, k)][i]] = p[s.wait[Queue(ch, k)][i]],
           d.closed <=> c.closed, d.count = c.count,
           OnTheWay(s, p, ch, k) \subseteq OnTheWay(n, o, ch, k),
           Claimable(c, ch, k) \in Int
    PROVE  Book(n, o, d, ch, k)
<1> DEFINE A == OnTheWay(s, p, ch, k)
           B == OnTheWay(n, o, ch, k)
<1>1. A \in SUBSET Task /\ B \in SUBSET Task
  BY DEF OnTheWay
<1>2. /\ Cardinality(A) \in Nat /\ Cardinality(B) \in Nat
      /\ Cardinality(A) <= Cardinality(B)
  <2> HIDE DEF A, B
  <2>1. A \subseteq B
    BY DEF A, B
  <2> QED BY <1>1, <2>1, Counting
<1>3. Claimable(d, ch, k) = Claimable(c, ch, k)
  BY DEF Claimable
<1> HIDE DEF A, B
<1>4. s.wait[Queue(ch, k)] # <<>> => Claimable(c, ch, k) <= Cardinality(A)
  BY DEF Book, A
<1>5. n.wait[Queue(ch, k)] # <<>> => Claimable(d, ch, k) <= Cardinality(B)
  BY <1>2, <1>3, <1>4
<1> QED BY <1>5 DEF Book, B

\* One less to claim, by a task that was at most one of those on the way.
LEMMA BookTaken ==
    ASSUME NEW s, NEW n, NEW p, NEW o, NEW c, NEW d, NEW ch, NEW k, NEW t,
           Book(s, p, c, ch, k),
           n.wait[Queue(ch, k)] = s.wait[Queue(ch, k)],
           \A i \in 1 .. Len(s.wait[Queue(ch, k)]) :
              o[s.wait[Queue(ch, k)][i]] = p[s.wait[Queue(ch, k)][i]],
           d.closed <=> c.closed,
           OnTheWay(s, p, ch, k) \ {t} \subseteq OnTheWay(n, o, ch, k),
           Claimable(c, ch, k) \in Int,
           Claimable(d, ch, k) = Claimable(c, ch, k) - 1
    PROVE  Book(n, o, d, ch, k)
<1> DEFINE A == OnTheWay(s, p, ch, k)
           B == OnTheWay(n, o, ch, k)
<1>1. A \in SUBSET Task /\ B \in SUBSET Task
  BY DEF OnTheWay
<1>2. /\ Cardinality(A) \in Nat /\ Cardinality(B) \in Nat
      /\ Cardinality(A) - 1 <= Cardinality(B)
  <2> HIDE DEF A, B
  <2>1. A \ {t} \subseteq B
    BY DEF A, B
  <2> QED BY <1>1, <2>1, Counting
<1> HIDE DEF A, B
<1>3. s.wait[Queue(ch, k)] # <<>> => Claimable(c, ch, k) <= Cardinality(A)
  BY DEF Book, A
<1>4. n.wait[Queue(ch, k)] # <<>> => Claimable(d, ch, k) <= Cardinality(B)
  BY <1>2, <1>3
<1> QED BY <1>4 DEF Book, B

\* One more to claim, and the first waiter was sent to claim it.
LEMMA BookWoken ==
    ASSUME NEW s, NEW n, NEW p, NEW o, NEW c, NEW d, NEW ch, NEW k, NEW h,
           Book(s, p, c, ch, k),
           Len(s.wait[Queue(ch, k)]) \in Nat,
           s.wait[Queue(ch, k)] # <<>>,
           Len(n.wait[Queue(ch, k)]) = Len(s.wait[Queue(ch, k)]) - 1,
           \A i \in 1 .. Len(s.wait[Queue(ch, k)]) - 1 :
              n.wait[Queue(ch, k)][i] = s.wait[Queue(ch, k)][i + 1],
           \A i \in 1 .. Len(s.wait[Queue(ch, k)]) :
              o[s.wait[Queue(ch, k)][i]] = p[s.wait[Queue(ch, k)][i]],
           d.closed <=> c.closed,
           OnTheWay(s, p, ch, k) \subseteq OnTheWay(n, o, ch, k),
           h \in OnTheWay(n, o, ch, k), h \notin OnTheWay(s, p, ch, k),
           Claimable(c, ch, k) \in Int,
           Claimable(d, ch, k) = Claimable(c, ch, k) + 1
    PROVE  Book(n, o, d, ch, k)
<1> DEFINE A == OnTheWay(s, p, ch, k)
           B == OnTheWay(n, o, ch, k)
           q == Queue(ch, k)
<1>1. A \in SUBSET Task /\ B \in SUBSET Task
  BY DEF OnTheWay
<1>2. /\ Cardinality(A) \in Nat /\ Cardinality(B) \in Nat
      /\ Cardinality(A) + 1 <= Cardinality(B)
  <2> HIDE DEF A, B
  <2>1. A \subseteq B /\ h \in B /\ h \notin A
    BY DEF A, B
  <2> QED BY <1>1, <2>1, Counting
<1> HIDE DEF A, B
<1>3. Claimable(c, ch, k) <= Cardinality(A) /\ ~c.closed
  BY DEF Book, A
<1>4. Claimable(d, ch, k) <= Cardinality(B) /\ ~d.closed
  BY <1>2, <1>3
<1> HIDE DEF q
<1>5. ASSUME NEW i \in 1 .. Len(n.wait[q]) PROVE o[n.wait[q][i]] = Op(ch, k)
  <2>1. i \in 1 .. Len(s.wait[q]) - 1 /\ i + 1 \in 1 .. Len(s.wait[q])
    BY DEF q
  <2>2. n.wait[q][i] = s.wait[q][i + 1]
    BY <2>1 DEF q
  <2>3. o[s.wait[q][i + 1]] = p[s.wait[q][i + 1]]
    BY <2>1 DEF q
  <2>4. p[s.wait[q][i + 1]] = Op(ch, k)
    BY <2>1 DEF Book, q
  <2> QED BY <2>2, <2>3, <2>4
<1> QED BY <1>4, <1>5 DEF Book, B, q

\* Nothing to claim: whoever joins the queue is at the operation.
LEMMA BookParked ==
    ASSUME NEW n, NEW o, NEW d, NEW ch, NEW k,
           \A i \in 1 .. Len(n.wait[Queue(ch, k)]) :
              o[n.wait[Queue(ch, k)][i]] = Op(ch, k),
           ~d.closed, Claimable(d, ch, k) = 0
    PROVE  Book(n, o, d, ch, k)
<1> DEFINE B == OnTheWay(n, o, ch, k)
<1>1. B \in SUBSET Task
  BY DEF OnTheWay
<1> HIDE DEF B
<1>2. Cardinality(B) \in Nat
  BY <1>1, Counting
<1>3. Claimable(d, ch, k) <= Cardinality(B)
  BY <1>2
<1> QED BY <1>3 DEF Book, B
-----------------------------------------------------------------------------
(* What each kind of turn does to the books of all the queues.              *)

\* The turn of t, seen from the books.
TurnOf(s, p, chan, t) ==
    /\ RecordOK(s, NoTask)
    /\ \A ch \in Channel : RingOK(chan[ch], ch)
    /\ Books(s, p, chan)
    /\ p \in [Task -> Ops \cup {NoOp}]
    /\ t \in Task /\ s.queued[t]

LEMMA TurnFacts ==
    ASSUME NEW s, NEW p, NEW chan, NEW t, TurnOf(s, p, chan, t),
           NEW ch \in Channel, NEW k \in Kinds, NEW x
    PROVE  /\ Len(s.wait[Queue(ch, k)]) \in Nat
           /\ \A i \in 1 .. Len(s.wait[Queue(ch, k)]) :
                 /\ s.wait[Queue(ch, k)][i] \in Task
                 /\ s.wait[Queue(ch, k)][i] # t
                 /\ ~s.queued[s.wait[Queue(ch, k)][i]]
                 /\ [p EXCEPT ![t] = x][s.wait[Queue(ch, k)][i]]
                       = p[s.wait[Queue(ch, k)][i]]
           /\ Claimable(chan[ch], ch, k) \in Int
           /\ Book(s, p, chan[ch], ch, k)
<1> DEFINE q == Queue(ch, k)
<1>1. q \in WaitQueue
  BY QueueFacts
<1> HIDE DEF q
<1>2. s.wait[q] \in Seq(Task)
  BY <1>1 DEF TurnOf, RecordOK, SchedulerRecord
<1>3. ASSUME NEW i \in 1 .. Len(s.wait[q])
      PROVE  /\ s.wait[q][i] \in Task /\ s.wait[q][i] # t
             /\ ~s.queued[s.wait[q][i]]
             /\ [p EXCEPT ![t] = x][s.wait[q][i]] = p[s.wait[q][i]]
  <2>1. s.wait[q][i] \in Task /\ ~s.queued[s.wait[q][i]]
    BY <1>1, WaiterIs DEF TurnOf
  <2>2. s.wait[q][i] # t
    BY <2>1 DEF TurnOf
  <2> QED BY <2>1, <2>2 DEF TurnOf
<1>4. Claimable(chan[ch], ch, k) \in Int
  <2>1. RingOK(chan[ch], ch)
    BY DEF TurnOf
  <2>2. chan[ch].count \in Int /\ Capacity[ch] \in Int
    BY <2>1, RingTyped
  <2> QED BY <2>2 DEF Claimable
<1>5. Book(s, p, chan[ch], ch, k)
  BY DEF TurnOf, Books
<1> QED BY <1>2, <1>3, <1>4, <1>5 DEF q

\* Only the ring of ch0 changed its count, and no channel was closed.
OneCountChanges(C, D, ch0) ==
    \A ch \in Channel : /\ D[ch].closed <=> C[ch].closed
                        /\ ch # ch0 => D[ch].count = C[ch].count

\* A committed operation of kind k0 on ch0: one less for its kind to claim and
\* one more for the other, whose first waiter is woken.
LEMMA BooksCommit ==
    ASSUME NEW s, NEW p, NEW chan, NEW t, TurnOf(s, p, chan, t),
           NEW ch0 \in Channel, NEW k0 \in Kinds,
           p[t] = NoOp \/ p[t] = Op(ch0, k0),
           NEW n, TurnWakes(s, Queue(ch0, Other(k0)), n),
           NEW chan2, OneCountChanges(chan, chan2, ch0),
           Claimable(chan2[ch0], ch0, k0) = Claimable(chan[ch0], ch0, k0) - 1,
           Claimable(chan2[ch0], ch0, Other(k0))
              = Claimable(chan[ch0], ch0, Other(k0)) + 1
    PROVE  Books(n, [p EXCEPT ![t] = NoOp], chan2)
<1> DEFINE o == [p EXCEPT ![t] = NoOp]
           r == Queue(ch0, Other(k0))
<1> SUFFICES ASSUME NEW ch \in Channel, NEW k \in Kinds
             PROVE  Book(n, o, chan2[ch], ch, k)
  BY DEF Books
<1>1. /\ Queue(ch, k) \in WaitQueue /\ Other(k0) \in Kinds /\ Other(k0) # k0
      /\ r \in WaitQueue
      /\ (Queue(ch, k) = r => ch = ch0 /\ k = Other(k0))
      /\ Op(ch, k) # NoOp /\ (Op(ch, k) = Op(ch0, k0) => ch = ch0 /\ k = k0)
  <2>1. Queue(ch, k) \in WaitQueue /\ Op(ch, k) # NoOp
    BY QueueFacts
  <2>2. Other(k0) \in Kinds /\ Other(k0) # k0
    BY QueueFacts
  <2>3. r \in WaitQueue
    BY <2>2, QueueFacts
  <2>4. Queue(ch, k) = r => ch = ch0 /\ k = Other(k0)
    BY <2>2, QueuesDiffer
  <2>5. Op(ch, k) = Op(ch0, k0) => ch = ch0 /\ k = k0
    BY QueuesDiffer
  <2> QED BY <2>1, <2>2, <2>3, <2>4, <2>5
<1>2. /\ Len(s.wait[Queue(ch, k)]) \in Nat
      /\ \A i \in 1 .. Len(s.wait[Queue(ch, k)]) :
            /\ s.wait[Queue(ch, k)][i] \in Task
            /\ ~s.queued[s.wait[Queue(ch, k)][i]]
            /\ s.wait[Queue(ch, k)][i] # t
            /\ o[s.wait[Queue(ch, k)][i]] = p[s.wait[Queue(ch, k)][i]]
      /\ Claimable(chan[ch], ch, k) \in Int
      /\ Book(s, p, chan[ch], ch, k)
  BY TurnFacts
<1>3. /\ \A u \in Task : s.queued[u] => n.queued[u]
      /\ \A q \in WaitQueue \ {r} : n.wait[q] = s.wait[q]
      /\ s.wait[r] = <<>> => n.wait[r] = <<>>
      /\ s.wait[r] # <<>> =>
            /\ Len(n.wait[r]) = Len(s.wait[r]) - 1
            /\ \A i \in 1 .. Len(s.wait[r]) - 1 : n.wait[r][i] = s.wait[r][i + 1]
            /\ \A u \in Task : u = s.wait[r][1] => n.queued[u]
  BY DEF TurnWakes
<1>4. \A u \in Task : u # t => o[u] = p[u]
  BY DEF TurnOf
<1>5. OnTheWay(s, p, ch, k) \ {t} \subseteq OnTheWay(n, o, ch, k)
  BY <1>3, <1>4 DEF OnTheWay
<1>6. ~(ch = ch0 /\ k = k0) => OnTheWay(s, p, ch, k) \subseteq OnTheWay(n, o, ch, k)
  <2>1. ~(ch = ch0 /\ k = k0) => p[t] # Op(ch, k)
    BY <1>1
  <2>2. p[t] # Op(ch, k) => t \notin OnTheWay(s, p, ch, k)
    BY DEF OnTheWay
  <2> QED BY <1>5, <2>1, <2>2
<1>7. \A i \in 1 .. Len(s.wait[Queue(ch, k)]) :
         o[s.wait[Queue(ch, k)][i]] = p[s.wait[Queue(ch, k)][i]]
  BY <1>2
<1>8. /\ chan2[ch].closed <=> chan[ch].closed
      /\ ch # ch0 => chan2[ch].count = chan[ch].count
  BY DEF OneCountChanges
<1>9. CASE ch = ch0 /\ k = k0
  <2>1. n.wait[Queue(ch, k)] = s.wait[Queue(ch, k)]
    BY <1>1, <1>3, <1>9
  <2> HIDE DEF o
  <2>2. Claimable(chan2[ch], ch, k) = Claimable(chan[ch], ch, k) - 1
    BY <1>9
  <2> QED BY <1>2, <1>5, <1>7, <1>8, <2>1, <2>2, BookTaken
<1>10. CASE ch = ch0 /\ k = Other(k0)
  <2>1. Queue(ch, k) = r /\ ~(ch = ch0 /\ k = k0)
    BY <1>1, <1>10
  <2>2. CASE s.wait[r] = <<>>
    <3>1. n.wait[Queue(ch, k)] = <<>>
      BY <1>3, <2>1, <2>2
    <3> QED BY <3>1, BookEmpty
  <2>3. CASE s.wait[r] # <<>>
    <3> DEFINE h == s.wait[r][1]
    <3>1. 1 \in 1 .. Len(s.wait[r])
      <4>1. s.wait[r] \in Seq(Task)
        BY <1>1 DEF TurnOf, RecordOK, SchedulerRecord
      <4> QED BY <2>3, <4>1
    <3>2. h \in Task /\ ~s.queued[h] /\ o[h] = p[h]
      BY <1>2, <2>1, <3>1
    <3>3. p[h] = Op(ch, k)
      BY <1>2, <2>1, <3>1 DEF Book
    <3>4. h \in OnTheWay(n, o, ch, k) /\ h \notin OnTheWay(s, p, ch, k)
      BY <1>3, <2>3, <3>2, <3>3 DEF OnTheWay
    <3>5. Claimable(chan2[ch], ch, k) = Claimable(chan[ch], ch, k) + 1
      BY <1>10
    <3>6. /\ s.wait[Queue(ch, k)] # <<>>
          /\ Len(n.wait[Queue(ch, k)]) = Len(s.wait[Queue(ch, k)]) - 1
          /\ \A i \in 1 .. Len(s.wait[Queue(ch, k)]) - 1 :
                n.wait[Queue(ch, k)][i] = s.wait[Queue(ch, k)][i + 1]
      BY <1>3, <2>1, <2>3
    <3>7. OnTheWay(s, p, ch, k) \subseteq OnTheWay(n, o, ch, k)
      BY <1>6, <2>1
    <3> HIDE DEF o, h
    <3> QED BY <1>2, <1>7, <1>8, <3>4, <3>5, <3>6, <3>7, BookWoken
  <2> QED BY <2>2, <2>3
<1>11. CASE ch # ch0
  <2>1. n.wait[Queue(ch, k)] = s.wait[Queue(ch, k)]
    BY <1>1, <1>3, <1>11
  <2>2. chan2[ch].count = chan[ch].count
    BY <1>8, <1>11
  <2>3. OnTheWay(s, p, ch, k) \subseteq OnTheWay(n, o, ch, k)
    BY <1>6, <1>11
  <2> HIDE DEF o
  <2> QED BY <1>2, <1>7, <1>8, <2>1, <2>2, <2>3, BookKept
<1>12. k = k0 \/ k = Other(k0)
  BY DEF Kinds, Other
<1> QED BY <1>9, <1>10, <1>11, <1>12

\* A parking operation: there is nothing to claim, and its task joins the queue.
LEMMA BooksPark ==
    ASSUME NEW s, NEW p, NEW chan, NEW t, TurnOf(s, p, chan, t),
           NEW ch0 \in Channel, NEW k0 \in Kinds,
           p[t] = NoOp \/ p[t] = Op(ch0, k0),
           NEW n, TurnParks(s, Queue(ch0, k0), t, n),
           ~chan[ch0].closed, Claimable(chan[ch0], ch0, k0) = 0
    PROVE  Books(n, [p EXCEPT ![t] = Op(ch0, k0)], chan)
<1> DEFINE o == [p EXCEPT ![t] = Op(ch0, k0)]
           r == Queue(ch0, k0)
<1> SUFFICES ASSUME NEW ch \in Channel, NEW k \in Kinds
             PROVE  Book(n, o, chan[ch], ch, k)
  BY DEF Books
<1>1. /\ Queue(ch, k) \in WaitQueue /\ r \in WaitQueue
      /\ (Queue(ch, k) = r => ch = ch0 /\ k = k0)
      /\ Op(ch, k) # NoOp /\ (Op(ch, k) = Op(ch0, k0) => ch = ch0 /\ k = k0)
  <2>1. Queue(ch, k) \in WaitQueue /\ Op(ch, k) # NoOp /\ r \in WaitQueue
    BY QueueFacts
  <2>2. Queue(ch, k) = r => ch = ch0 /\ k = k0
    BY QueuesDiffer
  <2>3. Op(ch, k) = Op(ch0, k0) => ch = ch0 /\ k = k0
    BY QueuesDiffer
  <2> QED BY <2>1, <2>2, <2>3
<1>2. /\ Len(s.wait[Queue(ch, k)]) \in Nat
      /\ \A i \in 1 .. Len(s.wait[Queue(ch, k)]) :
            o[s.wait[Queue(ch, k)][i]] = p[s.wait[Queue(ch, k)][i]]
      /\ Claimable(chan[ch], ch, k) \in Int
      /\ Book(s, p, chan[ch], ch, k)
  BY TurnFacts
<1>3. /\ \A u \in Task : n.queued[u] <=> s.queued[u] /\ u # t
      /\ n.wait[r] = Append(s.wait[r], t)
      /\ \A q \in WaitQueue \ {r} : n.wait[q] = s.wait[q]
  BY DEF TurnParks
<1>4. o[t] = Op(ch0, k0) /\ t \in Task /\ \A u \in Task : u # t => o[u] = p[u]
  BY DEF TurnOf
<1>5. CASE ch = ch0 /\ k = k0
  <2>1. s.wait[r] \in Seq(Task)
    BY <1>1 DEF TurnOf, RecordOK, SchedulerRecord
  <2>2. /\ Len(s.wait[r]) \in Nat /\ Len(n.wait[r]) = Len(s.wait[r]) + 1
        /\ \A i \in 1 .. Len(s.wait[r]) : n.wait[r][i] = s.wait[r][i]
        /\ n.wait[r][Len(s.wait[r]) + 1] = t
    BY <1>3, <1>4, <2>1, AppendIndices
  <2>3. \A i \in 1 .. Len(s.wait[r]) : o[s.wait[r][i]] = Op(ch, k)
    BY <1>2, <1>5 DEF Book
  <2>4. ASSUME NEW i \in 1 .. Len(n.wait[r]) PROVE o[n.wait[r][i]] = Op(ch, k)
    <3>1. CASE i \in 1 .. Len(s.wait[r])
      BY <2>2, <2>3, <3>1
    <3>2. CASE i = Len(s.wait[r]) + 1
      <4>1. n.wait[r][i] = t
        BY <2>2, <3>2
      <4>2. o[t] = Op(ch, k)
        BY <1>4, <1>5
      <4> QED BY <4>1, <4>2
    <3>3. i \in 1 .. Len(s.wait[r]) \/ i = Len(s.wait[r]) + 1
      BY <2>2
    <3> QED BY <3>1, <3>2, <3>3
  <2> HIDE DEF o
  <2>5. /\ \A i \in 1 .. Len(n.wait[Queue(ch, k)]) :
              o[n.wait[Queue(ch, k)][i]] = Op(ch, k)
        /\ ~chan[ch].closed /\ Claimable(chan[ch], ch, k) = 0
    BY <1>5, <2>4
  <2> QED BY <2>5, BookParked
<1>6. CASE ~(ch = ch0 /\ k = k0)
  <2>1. n.wait[Queue(ch, k)] = s.wait[Queue(ch, k)]
    BY <1>1, <1>3, <1>6
  <2>2. OnTheWay(s, p, ch, k) \subseteq OnTheWay(n, o, ch, k)
    <3>1. p[t] # Op(ch, k)
      BY <1>1, <1>6
    <3>2. ASSUME NEW u \in OnTheWay(s, p, ch, k) PROVE u \in OnTheWay(n, o, ch, k)
      <4>1. u \in Task /\ s.queued[u] /\ p[u] = Op(ch, k) /\ u # t
        BY <3>1 DEF OnTheWay
      <4> QED BY <1>3, <1>4, <4>1 DEF OnTheWay
    <3> QED BY <3>2
  <2> HIDE DEF o
  <2> QED BY <1>2, <2>1, <2>2, BookKept
<1> QED BY <1>5, <1>6

\* Closing ch0 empties its two queues.
LEMMA BooksClose ==
    ASSUME NEW s, NEW p, NEW chan, NEW t, TurnOf(s, p, chan, t),
           NEW ch0 \in Channel,
           NEW n, TurnEmpties(s, Senders(ch0), Receivers(ch0), n),
           NEW chan2, \A ch \in Channel : ch # ch0 => chan2[ch] = chan[ch]
    PROVE  Books(n, p, chan2)
<1> SUFFICES ASSUME NEW ch \in Channel, NEW k \in Kinds
             PROVE  Book(n, p, chan2[ch], ch, k)
  BY DEF Books
<1>1. CASE ch = ch0
  <2>1. n.wait[Queue(ch, k)] = <<>>
    BY <1>1 DEF Queue, TurnEmpties
  <2> QED BY <2>1, BookEmpty
<1>2. CASE ch # ch0
  <2>1. Queue(ch, k) \in WaitQueue \ {Senders(ch0), Receivers(ch0)}
    <3>1. Queue(ch, k) # Senders(ch0) /\ Queue(ch, k) # Receivers(ch0)
      BY <1>2 DEF Queue, Senders, Receivers
    <3> QED BY <3>1, QueueFacts
  <2>2. n.wait[Queue(ch, k)] = s.wait[Queue(ch, k)] /\ chan2[ch] = chan[ch]
    BY <1>2, <2>1 DEF TurnEmpties
  <2>3. OnTheWay(s, p, ch, k) \subseteq OnTheWay(n, p, ch, k)
    BY DEF OnTheWay, TurnEmpties
  <2>4. Claimable(chan[ch], ch, k) \in Int /\ Book(s, p, chan[ch], ch, k)
    BY TurnFacts
  <2> QED BY <2>2, <2>3, <2>4, BookKept
<1> QED BY <1>1, <1>2

\* A turn that leaves the queues alone, of a task that is at no operation or
\* at one on a closed channel.
LEMMA BooksPass ==
    ASSUME NEW s, NEW p, NEW chan, NEW t, TurnOf(s, p, chan, t),
           NEW n, n.wait = s.wait,
           \A u \in Task \ {t} : s.queued[u] => n.queued[u],
           \A ch \in Channel : \A k \in Kinds : p[t] = Op(ch, k) => chan[ch].closed
    PROVE  Books(n, [p EXCEPT ![t] = NoOp], chan)
<1> DEFINE o == [p EXCEPT ![t] = NoOp]
<1> SUFFICES ASSUME NEW ch \in Channel, NEW k \in Kinds
             PROVE  Book(n, o, chan[ch], ch, k)
  BY DEF Books
<1>1. /\ \A i \in 1 .. Len(s.wait[Queue(ch, k)]) :
            o[s.wait[Queue(ch, k)][i]] = p[s.wait[Queue(ch, k)][i]]
      /\ Claimable(chan[ch], ch, k) \in Int
      /\ Book(s, p, chan[ch], ch, k)
  BY TurnFacts
<1>2. CASE p[t] = Op(ch, k)
  <2>1. s.wait[Queue(ch, k)] = <<>>
    BY <1>1, <1>2 DEF Book
  <2>2. n.wait[Queue(ch, k)] = <<>>
    BY <2>1
  <2> QED BY <2>2, BookEmpty
<1>3. CASE p[t] # Op(ch, k)
  <2>1. \A u \in Task : u # t => o[u] = p[u]
    BY DEF TurnOf
  <2>2. OnTheWay(s, p, ch, k) \subseteq OnTheWay(n, o, ch, k)
    BY <1>3, <2>1 DEF OnTheWay
  <2>3. n.wait[Queue(ch, k)] = s.wait[Queue(ch, k)]
    OBVIOUS
  <2> HIDE DEF o
  <2> QED BY <1>1, <2>2, <2>3, BookKept
<1> QED BY <1>2, <1>3
-----------------------------------------------------------------------------
(* One action at a time. *)

\* The parts of a state record.
LEMMA StateParts ==
    ASSUME NEW s \in StateRecord
    PROVE  /\ s = [sched |-> s.sched, chan |-> s.chan]
           /\ s.sched \in SchedulerRecord /\ s.chan \in [Channel -> AnyChannel]
           /\ \A x : [s EXCEPT !.sched = x] = [sched |-> x, chan |-> s.chan]
  BY DEF StateRecord

\* What a committed send makes of the state.
LEMMA SendCommits ==
    ASSUME NEW s \in StateRecord, NEW ch \in Channel, NEW t, NEW v,
           RingOK(s.chan[ch], ch), SendStatus(s, ch) = Committed
    PROVE  SendStep(s, ch, t, v) =
             [sched |-> WakeOne(s.sched, Receivers(ch)),
              chan  |-> [s.chan EXCEPT ![ch] = Pushed(s.chan[ch], ch, v)]]
<1>1. s = [sched |-> s.sched, chan |-> s.chan] /\ s.chan \in [Channel -> AnyChannel]
  BY StateParts
<1>2. SendStep(s, ch, t, v) =
           [s EXCEPT !.chan[ch].buffer[s.chan[ch].tail] = v,
                     !.chan[ch].tail = Advance(ch, @),
                     !.chan[ch].count = @ + 1,
                     !.sched = WakeOne(@, Receivers(ch))]
  <2>1. SendStatus(s, ch) # Parked
    BY DEF Committed, Parked
  <2> QED BY <2>1, Zenon DEF SendStep
<1>3. s.chan[ch] \in ChannelRecord(ch)
  BY DEF RingOK
<1> DEFINE c == s.chan[ch]
           c1 == [c EXCEPT !.buffer = [c.buffer EXCEPT ![c.tail] = v]]
           c2 == [c1 EXCEPT !.tail = (c.tail + 1) % Capacity[ch]]
           c3 == [c2 EXCEPT !.count = c.count + 1]
           s1 == [s EXCEPT !.chan = [s.chan EXCEPT ![ch] = c1]]
           s2 == [s EXCEPT !.chan = [s.chan EXCEPT ![ch] = c2]]
           s3 == [s EXCEPT !.chan = [s.chan EXCEPT ![ch] = c3]]
<1>4. s1 = [s EXCEPT !.chan[ch].buffer[s.chan[ch].tail] = v]
  OBVIOUS
<1>5. s2 = [s1 EXCEPT !.chan[ch].tail = Advance(ch, @)]
  BY <1>1, <1>3 DEF Advance, ChannelRecord
<1>6. s3 = [s2 EXCEPT !.chan[ch].count = @ + 1]
  BY <1>1, <1>3 DEF ChannelRecord
<1>7. c3 = Pushed(c, ch, v)
  BY <1>3 DEF ChannelRecord, Pushed
<1> HIDE DEF c3
<1>8. [s3 EXCEPT !.sched = WakeOne(@, Receivers(ch))] =
         [sched |-> WakeOne(s.sched, Receivers(ch)),
          chan |-> [s.chan EXCEPT ![ch] = c3]]
  <2> DEFINE m == [s.chan EXCEPT ![ch] = c3]
  <2> HIDE DEF m
  <2>1. s3 = [sched |-> s.sched, chan |-> m]
    BY StateParts DEF StateRecord, m
  <2> HIDE DEF s3
  <2>2. [s3 EXCEPT !.sched = WakeOne(@, Receivers(ch))] =
           [sched |-> WakeOne(s.sched, Receivers(ch)), chan |-> m]
    BY <2>1
  <2> QED BY <2>2 DEF m
<1>9. [s3 EXCEPT !.sched = WakeOne(@, Receivers(ch))] =
           [s EXCEPT !.chan[ch].buffer[s.chan[ch].tail] = v,
                     !.chan[ch].tail = Advance(ch, @),
                     !.chan[ch].count = @ + 1,
                     !.sched = WakeOne(@, Receivers(ch))]
  <2>1. s2 = [s EXCEPT !.chan[ch].buffer[s.chan[ch].tail] = v,
                       !.chan[ch].tail = Advance(ch, @)]
    BY <1>1, <1>3, <1>4, <1>5 DEF ChannelRecord
  <2>2. s3 = [s EXCEPT !.chan[ch].buffer[s.chan[ch].tail] = v,
                       !.chan[ch].tail = Advance(ch, @),
                       !.chan[ch].count = @ + 1]
    BY <1>1, <1>3, <1>6, <2>1 DEF ChannelRecord
  <2> HIDE DEF s3
  <2> QED BY <1>1, <2>2
<1> QED BY <1>2, <1>7, <1>8, <1>9

\* What a committed receive makes of the state.
LEMMA ReceiveCommits ==
    ASSUME NEW s \in StateRecord, NEW ch \in Channel, NEW t,
           RingOK(s.chan[ch], ch), ReceiveStatus(s, ch) = Committed
    PROVE  ReceiveStep(s, ch, t) =
             [sched |-> WakeOne(s.sched, Senders(ch)),
              chan  |-> [s.chan EXCEPT ![ch] = Popped(s.chan[ch], ch)]]
<1>1. s = [sched |-> s.sched, chan |-> s.chan] /\ s.chan \in [Channel -> AnyChannel]
  BY StateParts
<1>2. ReceiveStep(s, ch, t) =
           [s EXCEPT !.chan[ch].head = Advance(ch, @),
                     !.chan[ch].count = @ - 1,
                     !.sched = WakeOne(@, Senders(ch))]
  <2>1. ReceiveStatus(s, ch) # Parked
    BY DEF Committed, Parked
  <2> QED BY <2>1, Zenon DEF ReceiveStep
<1>3. s.chan[ch] \in ChannelRecord(ch)
  BY DEF RingOK
<1> DEFINE c == s.chan[ch]
           c1 == [c EXCEPT !.head = (c.head + 1) % Capacity[ch]]
           c2 == [c1 EXCEPT !.count = c.count - 1]
           s1 == [s EXCEPT !.chan = [s.chan EXCEPT ![ch] = c1]]
           s2 == [s EXCEPT !.chan = [s.chan EXCEPT ![ch] = c2]]
<1>4. s1 = [s EXCEPT !.chan[ch].head = Advance(ch, @)]
  BY <1>1, <1>3 DEF Advance, ChannelRecord
<1>5. s2 = [s1 EXCEPT !.chan[ch].count = @ - 1]
  BY <1>1, <1>3 DEF ChannelRecord
<1>6. c2 = Popped(c, ch)
  BY <1>3 DEF ChannelRecord, Popped
<1> HIDE DEF c2
<1>7. [s2 EXCEPT !.sched = WakeOne(@, Senders(ch))] =
         [sched |-> WakeOne(s.sched, Senders(ch)),
          chan |-> [s.chan EXCEPT ![ch] = c2]]
  <2> DEFINE m == [s.chan EXCEPT ![ch] = c2]
  <2> HIDE DEF m
  <2>1. s2 = [sched |-> s.sched, chan |-> m]
    BY StateParts DEF StateRecord, m
  <2> HIDE DEF s2
  <2>2. [s2 EXCEPT !.sched = WakeOne(@, Senders(ch))] =
           [sched |-> WakeOne(s.sched, Senders(ch)), chan |-> m]
    BY <2>1
  <2> QED BY <2>2 DEF m
<1>8. [s2 EXCEPT !.sched = WakeOne(@, Senders(ch))] =
           [s EXCEPT !.chan[ch].head = Advance(ch, @),
                     !.chan[ch].count = @ - 1,
                     !.sched = WakeOne(@, Senders(ch))]
  BY <1>1, <1>3, <1>4, <1>5 DEF ChannelRecord
<1> QED BY <1>2, <1>6, <1>7, <1>8

\* What closing an open channel makes of it.
LEMMA CloseCloses ==
    ASSUME NEW s \in StateRecord, NEW ch \in Channel,
           RingOK(s.chan[ch], ch), ~s.chan[ch].closed
    PROVE  Close(s, ch) =
             [sched |-> WakeAll(WakeAll(s.sched, Senders(ch)), Receivers(ch)),
              chan  |-> [s.chan EXCEPT ![ch] = [s.chan[ch] EXCEPT !.closed = TRUE]]]
<1>1. s = [sched |-> s.sched, chan |-> s.chan] /\ s.chan \in [Channel -> AnyChannel]
  BY StateParts
<1>2. s.chan[ch] \in ChannelRecord(ch)
  BY DEF RingOK
<1>3. Close(s, ch) =
         [s EXCEPT !.chan[ch].closed = TRUE,
                   !.sched = WakeAll(WakeAll(@, Senders(ch)), Receivers(ch))]
  BY DEF Close
<1> QED BY <1>1, <1>2, <1>3 DEF ChannelRecord

\* Replacing the ring of one channel.
LEMMA RingReplaced ==
    ASSUME NEW C \in [Channel -> AnyChannel], NEW ch \in Channel, NEW n, RingOK(n, ch),
           \A x \in Channel : RingOK(C[x], x),
           NEW D, D = [C EXCEPT ![ch] = n]
    PROVE  /\ D \in [Channel -> AnyChannel] /\ D[ch] = n
           /\ \A x \in Channel : x # ch => D[x] = C[x]
           /\ \A x \in Channel : RingOK(D[x], x)
<1>1. n \in AnyChannel
  BY DEF RingOK, AnyChannel
<1>2. /\ D \in [Channel -> AnyChannel] /\ D[ch] = n
      /\ \A x \in Channel : x # ch => D[x] = C[x]
  BY <1>1
<1>3. \A x \in Channel : RingOK(D[x], x)
  BY <1>2
<1> QED BY <1>2, <1>3

\* The turn of t, in a state that satisfies the invariant.
LEMMA TurnBegins ==
    ASSUME IInv, NEW t \in Task, Running(t)
    PROVE  /\ RecordOK(st.sched, NoTask) /\ st.sched.ready # <<>>
           /\ t = Head(st.sched.ready)
           /\ st \in StateRecord
           /\ TurnOf(st.sched, pending, st.chan, t)
           /\ Taken = [sched |-> Take(st.sched), chan |-> st.chan]
           /\ Taken \in StateRecord
<1>1. /\ RecordOK(st.sched, NoTask) /\ st.sched.ready # <<>>
      /\ t = Head(st.sched.ready) /\ st \in StateRecord
  BY DEF IInv, Typed, Running
<1>2. st.sched.queued[t] /\ RecordOK(Take(st.sched), t)
  BY <1>1, TurnStarts
<1>3. TurnOf(st.sched, pending, st.chan, t)
  BY <1>1, <1>2 DEF IInv, Typed, RingsOK, TurnOf
<1>4. Taken = [sched |-> Take(st.sched), chan |-> st.chan]
  <2>1. [st EXCEPT !.sched = Take(st.sched)] = [sched |-> Take(st.sched), chan |-> st.chan]
    BY <1>1, StateParts
  <2> QED BY <2>1 DEF Taken
<1>5. Taken \in StateRecord
  <2>1. Take(st.sched) \in SchedulerRecord
    BY <1>2 DEF RecordOK
  <2>2. st.chan \in [Channel -> AnyChannel]
    BY <1>1, StateParts
  <2> QED BY <1>4, <2>1, <2>2 DEF StateRecord
<1> QED BY <1>1, <1>3, <1>4, <1>5

LEMMA TurnEndsIn ==
    ASSUME NEW t, NEW x, NEW C, TurnEnds(t, [sched |-> x, chan |-> C])
    PROVE  st' = [sched |-> AfterStep(x, t), chan |-> C]
  BY DEF TurnEnds

\* The state after a turn, from its parts.
LEMMA StateAfter ==
    ASSUME NEW x, NEW C, st' = [sched |-> x, chan |-> C],
           RecordOK(x, NoTask), C \in [Channel -> AnyChannel]
    PROVE  st' \in StateRecord /\ st'.sched = x /\ st'.chan = C
  BY DEF RecordOK, StateRecord

\* Starting an operation or retrying one.
LEMMA OperationBegins ==
    ASSUME IInv, NEW t \in Task, NEW ch \in Channel, NEW k \in Kinds,
           Begins(t, Op(ch, k))
    PROVE  /\ left' \in [Task -> 0 .. MaxOps]
           /\ left'[t] < MaxOps
           /\ \A u \in Task : u # t => left'[u] = left[u]
           /\ pending[t] = NoOp \/ pending[t] = Op(ch, k)
           /\ <<t, left'[t] + 1>> \in Value
<1>1. left \in [Task -> 0 .. MaxOps] /\ MaxOps \in Nat /\ left[t] \in 0 .. MaxOps
  BY MaxOpsNatural DEF IInv, Typed
<1>2. /\ left' \in [Task -> 0 .. MaxOps] /\ left'[t] < MaxOps
      /\ \A u \in Task : u # t => left'[u] = left[u]
      /\ pending[t] = NoOp \/ pending[t] = Op(ch, k)
  <2>1. CASE pending[t] = Op(ch, k) /\ left' = left
    <3>1. left[t] < MaxOps
      BY <2>1, QueueFacts DEF IInv, RetriesStarted
    <3> QED BY <1>1, <2>1, <3>1
  <2>2. CASE /\ pending[t] = NoOp /\ left[t] > 0
             /\ left' = [left EXCEPT ![t] = @ - 1]
    BY <1>1, <2>2
  <2> QED BY <2>1, <2>2 DEF Begins
<1>3. left'[t] + 1 \in 1 .. MaxOps
  BY <1>1, <1>2
<1>4. <<t, left'[t] + 1>> \in Values
  BY <1>3 DEF Values
<1> QED BY <1>2, <1>4, ValuesAreSent

\* The program counter afterwards.
LEMMA OperationSettles ==
    ASSUME IInv, NEW t \in Task, NEW x \in Ops \cup {NoOp},
           pending' = [pending EXCEPT ![t] = x],
           x # NoOp => left'[t] < MaxOps,
           \A u \in Task : u # t => left'[u] = left[u]
    PROVE  /\ pending' \in [Task -> Ops \cup {NoOp}]
           /\ RetriesStarted'
<1>1. pending \in [Task -> Ops \cup {NoOp}]
  BY DEF IInv, Typed
<1>2. /\ pending' \in [Task -> Ops \cup {NoOp}]
      /\ pending'[t] = x /\ \A u \in Task : u # t => pending'[u] = pending[u]
  BY <1>1
<1>3. ASSUME NEW u \in Task, pending'[u] # NoOp PROVE left'[u] < MaxOps
  BY <1>2, <1>3 DEF IInv, RetriesStarted
<1> QED BY <1>2, <1>3 DEF RetriesStarted

\* Nothing was sent or received, and no ring changed its contents.
LEMMA FifoStays ==
    ASSUME IInv, sent' = sent, received' = received,
           \A ch \in Channel : /\ st'.chan[ch].count = st.chan[ch].count
                               /\ st'.chan[ch].head = st.chan[ch].head
                               /\ st'.chan[ch].buffer = st.chan[ch].buffer
    PROVE  Fifo'
<1>1. \A ch \in Channel : Contents(st'.chan[ch], ch) = Contents(st.chan[ch], ch)
  BY DEF Contents
<1> QED BY <1>1 DEF IInv, Fifo

\* The ring n that an operation of kind k on ch leaves when it commits.
RingCommits(n, ch, k) ==
    /\ RingOK(n, ch)
    /\ n.closed <=> st.chan[ch].closed
    /\ Claimable(n, ch, k) = Claimable(st.chan[ch], ch, k) - 1
    /\ Claimable(n, ch, Other(k)) = Claimable(st.chan[ch], ch, Other(k)) + 1

\* The histories of the next state agree with the rings D.
HistoriesAgree(D) ==
    /\ sent' \in [Channel -> Seq(Value)]
    /\ received' \in [Channel -> Seq(Value)]
    /\ \A y \in Channel : received'[y] \o Contents(D[y], y) = sent'[y]

\* An operation of kind k on ch that commits, leaving the ring n.
LEMMA TurnCommits ==
    ASSUME IInv, NEW t \in Task, NEW ch \in Channel, NEW k \in Kinds,
           Running(t), Begins(t, Op(ch, k)), NEW n, RingCommits(n, ch, k),
           NEW D, D = [st.chan EXCEPT ![ch] = n],
           TurnEnds(t, [sched |-> WakeOne(Take(st.sched), Queue(ch, Other(k))), chan |-> D]),
           pending' = [pending EXCEPT ![t] = NoOp],
           HistoriesAgree(D)
    PROVE  IInv'
<1> DEFINE q == Queue(ch, Other(k))
           x == AfterStep(WakeOne(Take(st.sched), q), t)
<1>1. /\ RecordOK(st.sched, NoTask) /\ st.sched.ready # <<>>
      /\ t = Head(st.sched.ready) /\ st \in StateRecord
      /\ TurnOf(st.sched, pending, st.chan, t)
  BY TurnBegins
<1>2. /\ left' \in [Task -> 0 .. MaxOps] /\ left'[t] < MaxOps
      /\ \A u \in Task : u # t => left'[u] = left[u]
      /\ pending[t] = NoOp \/ pending[t] = Op(ch, k)
  BY OperationBegins
<1>3. st' = [sched |-> x, chan |-> D]
  BY TurnEndsIn
<1>4. q \in WaitQueue
  BY QueueFacts
<1> HIDE DEF q
<1>5. RecordOK(x, NoTask) /\ TurnWakes(st.sched, q, x)
  BY <1>1, <1>4, WakingTurn
<1> HIDE DEF x
<1>6. /\ D \in [Channel -> AnyChannel] /\ D[ch] = n
      /\ \A y \in Channel : y # ch => D[y] = st.chan[y]
      /\ \A y \in Channel : RingOK(D[y], y)
  <2>1. st.chan \in [Channel -> AnyChannel] /\ \A y \in Channel : RingOK(st.chan[y], y)
    BY <1>1, StateParts DEF IInv, RingsOK
  <2>2. RingOK(n, ch)
    BY DEF RingCommits
  <2> QED BY <2>1, <2>2, RingReplaced
<1>7. st' \in StateRecord /\ st'.sched = x /\ st'.chan = D
  BY <1>3, <1>5, <1>6, StateAfter
<1>8. RingsOK'
  BY <1>6, <1>7 DEF RingsOK
<1>9. pending' \in [Task -> Ops \cup {NoOp}] /\ RetriesStarted'
  BY <1>2, OperationSettles
<1>10. Books(x, pending', D)
  <2>1. OneCountChanges(st.chan, D, ch)
    BY <1>6 DEF OneCountChanges, RingCommits
  <2>2. Claimable(D[ch], ch, k) = Claimable(st.chan[ch], ch, k) - 1
    BY <1>6 DEF RingCommits
  <2>3. Claimable(D[ch], ch, Other(k)) = Claimable(st.chan[ch], ch, Other(k)) + 1
    BY <1>6 DEF RingCommits
  <2>4. TurnWakes(st.sched, Queue(ch, Other(k)), x)
    BY <1>5 DEF q
  <2>5. TurnOf(st.sched, pending, st.chan, t)
    BY <1>1
  <2>6. pending[t] = NoOp \/ pending[t] = Op(ch, k)
    BY <1>2
  <2>7. Books(x, [pending EXCEPT ![t] = NoOp], D)
    BY <2>1, <2>2, <2>3, <2>4, <2>5, <2>6, BooksCommit
  <2> QED BY <2>7
<1>11. Fifo'
  BY <1>7 DEF Fifo, HistoriesAgree
<1>12. RecordOK(st.sched, NoTask)'
  BY <1>5, <1>7
<1>13. Typed'
  BY <1>2, <1>7, <1>9 DEF Typed, HistoriesAgree
<1>14. Books(st.sched, pending, st.chan)'
  BY <1>7, <1>10
<1> QED BY <1>8, <1>9, <1>11, <1>12, <1>13, <1>14 DEF IInv

\* A turn after which the rings hold what they held: the scheduler is left in x
\* and the channels in C.
LEMMA TurnLeaves ==
    ASSUME IInv, NEW t \in Task, NEW x, NEW C, st' = [sched |-> x, chan |-> C],
           RecordOK(x, NoTask), C \in [Channel -> AnyChannel],
           \A y \in Channel : /\ RingOK(C[y], y)
                              /\ C[y].count = st.chan[y].count
                              /\ C[y].head = st.chan[y].head
                              /\ C[y].buffer = st.chan[y].buffer,
           Books(x, pending', C),
           pending' \in [Task -> Ops \cup {NoOp}], RetriesStarted',
           left' \in [Task -> 0 .. MaxOps], sent' = sent, received' = received
    PROVE  IInv'
<1>1. st' \in StateRecord /\ st'.sched = x /\ st'.chan = C
  BY StateAfter
<1>2. RingsOK'
  BY <1>1 DEF RingsOK
<1>3. Fifo'
  <2>1. \A y \in Channel : /\ st'.chan[y].count = st.chan[y].count
                           /\ st'.chan[y].head = st.chan[y].head
                           /\ st'.chan[y].buffer = st.chan[y].buffer
    BY <1>1
  <2> QED BY <2>1, FifoStays
<1>4. Typed'
  BY <1>1 DEF IInv, Typed
<1>5. RecordOK(st.sched, NoTask)'
  BY <1>1
<1>6. Books(st.sched, pending, st.chan)'
  BY <1>1
<1> QED BY <1>2, <1>3, <1>4, <1>5, <1>6 DEF IInv

\* The rings of a state that satisfies the invariant.
LEMMA RingsAre ==
    ASSUME IInv
    PROVE  /\ st.chan \in [Channel -> AnyChannel]
           /\ \A y \in Channel : RingOK(st.chan[y], y)
  BY StateParts DEF IInv, Typed, RingsOK

\* An operation that parks its task.
LEMMA TurnParksIn ==
    ASSUME IInv, NEW t \in Task, NEW ch \in Channel, NEW k \in Kinds,
           Running(t), Begins(t, Op(ch, k)),
           TurnEnds(t, [sched |-> Park(Take(st.sched), Queue(ch, k), t), chan |-> st.chan]),
           pending' = [pending EXCEPT ![t] = Op(ch, k)],
           ~st.chan[ch].closed, Claimable(st.chan[ch], ch, k) = 0,
           sent' = sent, received' = received
    PROVE  IInv'
<1> DEFINE q == Queue(ch, k)
           x == AfterStep(Park(Take(st.sched), q, t), t)
<1>1. /\ RecordOK(st.sched, NoTask) /\ st.sched.ready # <<>>
      /\ t = Head(st.sched.ready)
      /\ TurnOf(st.sched, pending, st.chan, t)
  BY TurnBegins
<1>2. /\ left' \in [Task -> 0 .. MaxOps] /\ left'[t] < MaxOps
      /\ \A u \in Task : u # t => left'[u] = left[u]
      /\ pending[t] = NoOp \/ pending[t] = Op(ch, k)
  BY OperationBegins
<1>3. st' = [sched |-> x, chan |-> st.chan]
  BY TurnEndsIn
<1>4. q \in WaitQueue
  BY QueueFacts
<1> HIDE DEF q
<1>5. RecordOK(x, NoTask) /\ TurnParks(st.sched, q, t, x)
  BY <1>1, <1>4, ParkingTurn
<1> HIDE DEF x
<1>6. pending' \in [Task -> Ops \cup {NoOp}] /\ RetriesStarted'
  <2>1. Op(ch, k) \in Ops \cup {NoOp}
    BY DEF Op, Ops, Kinds
  <2> QED BY <1>2, <2>1, OperationSettles
<1>7. Books(x, pending', st.chan)
  <2>1. TurnParks(st.sched, Queue(ch, k), t, x)
    BY <1>5 DEF q
  <2>2. Books(x, [pending EXCEPT ![t] = Op(ch, k)], st.chan)
    BY <1>1, <1>2, <2>1, BooksPark
  <2> QED BY <2>2
<1>8. /\ st.chan \in [Channel -> AnyChannel]
      /\ \A y \in Channel : RingOK(st.chan[y], y)
  BY RingsAre
<1> QED BY <1>2, <1>3, <1>5, <1>6, <1>7, <1>8, TurnLeaves

\* A turn of t that leaves the queues alone.
TurnQuiet(s, t, n) ==
    /\ n.wait = s.wait
    /\ \A u \in Task \ {t} : s.queued[u] => n.queued[u]

\* t is at no operation, or at one on a closed channel.
NothingToClaim(t) ==
    \A ch \in Channel : \A k \in Kinds : pending[t] = Op(ch, k) => st.chan[ch].closed

\* t may have started an operation; no other task did.
OnlySpends(t) ==
    /\ left' \in [Task -> 0 .. MaxOps]
    /\ \A u \in Task : u # t => left'[u] = left[u]

\* A turn that touches no channel and no wait queue.
LEMMA TurnPasses ==
    ASSUME IInv, NEW t \in Task, Running(t),
           NEW x, st' = [sched |-> x, chan |-> st.chan], RecordOK(x, NoTask),
           TurnQuiet(st.sched, t, x), NothingToClaim(t),
           pending' = [pending EXCEPT ![t] = NoOp],
           OnlySpends(t), sent' = sent, received' = received
    PROVE  IInv'
<1>1. TurnOf(st.sched, pending, st.chan, t)
  BY TurnBegins
<1>2. Books(x, pending', st.chan)
  <2>1. Books(x, [pending EXCEPT ![t] = NoOp], st.chan)
    BY <1>1, BooksPass DEF TurnQuiet, NothingToClaim
  <2> QED BY <2>1
<1>3. pending' \in [Task -> Ops \cup {NoOp}] /\ RetriesStarted'
  BY OperationSettles DEF OnlySpends
<1>4. /\ st.chan \in [Channel -> AnyChannel]
      /\ \A y \in Channel : RingOK(st.chan[y], y)
  BY RingsAre
<1>5. left' \in [Task -> 0 .. MaxOps]
  BY DEF OnlySpends
<1> QED BY <1>2, <1>3, <1>4, <1>5, TurnLeaves

\* What a channel received, its ring and what was sent on it.
LEMMA FifoTyped ==
    ASSUME IInv, NEW y \in Channel
    PROVE  /\ received[y] \in Seq(Slots) /\ Contents(st.chan[y], y) \in Seq(Slots)
           /\ received[y] \in Seq(Value) /\ sent[y] \in Seq(Value)
           /\ received[y] \o Contents(st.chan[y], y) = sent[y]
<1>1. ContentsOK(st.chan[y], y)
  BY ContentsTyped DEF IInv, RingsOK
<1>2. received[y] \in Seq(Value) /\ sent[y] \in Seq(Value) /\ Value \subseteq Slots
  BY DEF IInv, Typed, Slots
<1>3. received[y] \in Seq(Slots)
  BY <1>2
<1>4. received[y] \o Contents(st.chan[y], y) = sent[y]
  BY DEF IInv, Fifo
<1> QED BY <1>1, <1>2, <1>3, <1>4 DEF ContentsOK

\* A send commits, parks or finds the channel closed.
LEMMA SendKeeps ==
    ASSUME IInv, NEW t \in Task, NEW ch \in Channel, Send(t, ch)
    PROVE  IInv'
<1> DEFINE v == <<t, left'[t] + 1>>
           c == st.chan[ch]
<1>1. /\ Running(t) /\ Begins(t, Op(ch, "send"))
      /\ TurnEnds(t, SendStep(Taken, ch, t, v))
      /\ Settles(t, Op(ch, "send"), SendStatus(st, ch))
      /\ sent' = [sent EXCEPT ![ch] =
                    IF SendStatus(st, ch) = Committed THEN Append(@, v) ELSE @]
      /\ received' = received
  BY DEF Send, Op
<1>2. /\ RecordOK(st.sched, NoTask) /\ st.sched.ready # <<>>
      /\ t = Head(st.sched.ready)
      /\ Taken = [sched |-> Take(st.sched), chan |-> st.chan] /\ Taken \in StateRecord
  BY <1>1, TurnBegins
<1>3. /\ "send" \in Kinds /\ Other("send") = "receive"
      /\ Senders(ch) = Queue(ch, "send") /\ Receivers(ch) = Queue(ch, "receive")
  BY DEF Kinds, Other, Queue
<1>4. /\ left' \in [Task -> 0 .. MaxOps] /\ v \in Value
      /\ \A u \in Task : u # t => left'[u] = left[u]
      /\ pending[t] = NoOp \/ pending[t] = Op(ch, "send")
  BY <1>1, <1>3, OperationBegins
<1>5. RingOK(c, ch) /\ c.count \in Int /\ Capacity[ch] \in Int /\ c.count <= Capacity[ch]
  BY RingTyped DEF IInv, RingsOK
<1>6. Taken.chan = st.chan /\ Taken.sched = Take(st.sched)
  BY <1>2
<1>7. SendStatus(Taken, ch) = SendStatus(st, ch)
  BY <1>6 DEF SendStatus
<1>8. sent \in [Channel -> Seq(Value)] /\ received \in [Channel -> Seq(Value)]
  BY DEF IInv, Typed
<1> HIDE DEF v
<1>9. CASE SendStatus(st, ch) = Committed
  <2> DEFINE n == Pushed(c, ch, v)
             D == [st.chan EXCEPT ![ch] = n]
  <2>1. pending' = [pending EXCEPT ![t] = NoOp] /\ sent' = [sent EXCEPT ![ch] = Append(@, v)]
    BY <1>1, <1>9 DEF Settles, Committed, Parked
  <2>2. c.count < Capacity[ch]
    BY <1>9 DEF SendStatus, Committed, Closed, Parked
  <2>3. /\ RingOK(n, ch) /\ n.closed = c.closed /\ n.count = c.count + 1
        /\ Contents(n, ch) = Append(Contents(c, ch), v)
    <3>1. n = Pushed(c, ch, v)
      OBVIOUS
    <3> HIDE DEF c, n
    <3> QED BY <1>4, <1>5, <2>2, <3>1, RingSend
  <2>4. SendStep(Taken, ch, t, v) =
           [sched |-> WakeOne(Take(st.sched), Queue(ch, Other("send"))), chan |-> D]
    <3>1. SendStep(Taken, ch, t, v) =
             [sched |-> WakeOne(Taken.sched, Receivers(ch)),
              chan  |-> [Taken.chan EXCEPT ![ch] = Pushed(Taken.chan[ch], ch, v)]]
      <4>1. RingOK(Taken.chan[ch], ch) /\ SendStatus(Taken, ch) = Committed
        BY <1>5, <1>6, <1>7, <1>9
      <4> QED BY <1>2, <4>1, SendCommits
    <3> QED BY <1>3, <1>6, <3>1
  <2>5. TurnEnds(t, [sched |-> WakeOne(Take(st.sched), Queue(ch, Other("send"))),
                     chan |-> D])
    BY <1>1, <2>4 DEF v
  <2>6. /\ Claimable(n, ch, "send") = Claimable(c, ch, "send") - 1
        /\ Claimable(n, ch, Other("send")) = Claimable(c, ch, Other("send")) + 1
    BY <1>3, <1>5, <2>3 DEF Claimable
  <2>7. /\ D[ch] = n /\ \A y \in Channel : y # ch => D[y] = st.chan[y]
    BY RingsAre
  <2> HIDE DEF D, n
  <2>8. sent' \in [Channel -> Seq(Value)] /\ received' \in [Channel -> Seq(Value)]
    BY <1>1, <1>4, <1>8, <2>1
  <2>9. ASSUME NEW y \in Channel PROVE received'[y] \o Contents(D[y], y) = sent'[y]
    <3>1. /\ received[y] \in Seq(Slots) /\ Contents(st.chan[y], y) \in Seq(Slots)
          /\ received[y] \o Contents(st.chan[y], y) = sent[y]
      BY FifoTyped
    <3>2. CASE y # ch
      BY <1>1, <1>8, <2>1, <2>7, <3>1, <3>2
    <3>3. CASE y = ch
      <4> DEFINE a == received[y]
                 b == Contents(st.chan[y], y)
      <4>1. a \in Seq(Slots) /\ b \in Seq(Slots) /\ v \in Slots
        BY <1>4, <3>1 DEF Slots
      <4>2. Contents(D[y], y) = Append(b, v) /\ received'[y] = a
            /\ sent'[y] = Append(a \o b, v)
        BY <1>1, <1>8, <2>1, <2>3, <2>7, <3>1, <3>3
      <4> HIDE DEF a, b
      <4>3. a \o Append(b, v) = Append(a \o b, v)
        BY <4>1, AppendOver
      <4> QED BY <4>2, <4>3
    <3> QED BY <3>2, <3>3
  <2>10. HistoriesAgree(D)
    BY <2>8, <2>9 DEF HistoriesAgree
  <2>11. RingCommits(n, ch, "send")
    BY <2>3, <2>6 DEF RingCommits
  <2>12. D = [st.chan EXCEPT ![ch] = n]
    BY DEF D
  <2> QED BY <1>1, <1>3, <2>1, <2>5, <2>10, <2>11, <2>12, TurnCommits
<1>10. CASE SendStatus(st, ch) = Parked
  <2>1. pending' = [pending EXCEPT ![t] = Op(ch, "send")] /\ sent' = sent
    BY <1>1, <1>8, <1>10 DEF Settles, Committed, Parked
  <2>2. ~c.closed /\ Claimable(c, ch, "send") = 0
    BY <1>5, <1>10 DEF SendStatus, Committed, Closed, Parked, Claimable
  <2>3. SendStep(Taken, ch, t, v) =
           [sched |-> Park(Take(st.sched), Queue(ch, "send"), t), chan |-> st.chan]
    <3>1. SendStep(Taken, ch, t, v) = [Taken EXCEPT !.sched = Park(@, Senders(ch), t)]
      BY <1>7, <1>10 DEF SendStep, Committed, Parked
    <3> QED BY <1>2, <1>3, <1>6, <3>1
  <2>4. TurnEnds(t, [sched |-> Park(Take(st.sched), Queue(ch, "send"), t),
                     chan |-> st.chan])
    BY <1>1, <2>3 DEF v
  <2> QED BY <1>1, <1>3, <2>1, <2>2, <2>4, TurnParksIn
<1>11. CASE SendStatus(st, ch) = Closed
  <2> DEFINE x == AfterStep(Take(st.sched), t)
  <2>1. pending' = [pending EXCEPT ![t] = NoOp] /\ sent' = sent
    BY <1>1, <1>8, <1>11 DEF Settles, Committed, Parked, Closed
  <2>2. c.closed
    BY <1>11 DEF SendStatus, Committed, Closed, Parked
  <2>3. SendStep(Taken, ch, t, v) = [sched |-> Take(st.sched), chan |-> st.chan]
    BY <1>2, <1>7, <1>11 DEF SendStep, Committed, Parked, Closed
  <2>4. st' = [sched |-> x, chan |-> st.chan]
    BY <1>1, <2>3, TurnEndsIn DEF v
  <2>5. RecordOK(x, NoTask) /\ TurnKeeps(st.sched, x)
    BY <1>2, KeepingTurn
  <2> HIDE DEF x
  <2>6. TurnQuiet(st.sched, t, x)
    BY <2>5 DEF TurnKeeps, TurnQuiet
  <2>7. NothingToClaim(t)
    BY <1>3, <1>4, <2>2, QueuesDiffer, QueueFacts DEF NothingToClaim
  <2>8. OnlySpends(t)
    BY <1>4 DEF OnlySpends
  <2> QED BY <1>1, <2>1, <2>4, <2>5, <2>6, <2>7, <2>8, TurnPasses
<1>12. SendStatus(st, ch) \in {Committed, Parked, Closed}
  BY DEF SendStatus
<1> QED BY <1>9, <1>10, <1>11, <1>12

\* A receive commits, parks or finds the channel closed and empty.
LEMMA ReceiveKeeps ==
    ASSUME IInv, NEW t \in Task, NEW ch \in Channel, Receive(t, ch)
    PROVE  IInv'
<1> DEFINE c == st.chan[ch]
<1>1. /\ Running(t) /\ Begins(t, Op(ch, "receive"))
      /\ TurnEnds(t, ReceiveStep(Taken, ch, t))
      /\ Settles(t, Op(ch, "receive"), ReceiveStatus(st, ch))
      /\ received' = [received EXCEPT ![ch] =
                        IF ReceiveStatus(st, ch) = Committed
                        THEN Append(@, ReceivedValue(st, ch)) ELSE @]
      /\ sent' = sent
  BY DEF Receive, Op
<1>2. /\ RecordOK(st.sched, NoTask) /\ st.sched.ready # <<>>
      /\ t = Head(st.sched.ready)
      /\ Taken = [sched |-> Take(st.sched), chan |-> st.chan] /\ Taken \in StateRecord
  BY <1>1, TurnBegins
<1>3. /\ "receive" \in Kinds /\ Other("receive") = "send"
      /\ Senders(ch) = Queue(ch, "send") /\ Receivers(ch) = Queue(ch, "receive")
  BY DEF Kinds, Other, Queue
<1>4. /\ left' \in [Task -> 0 .. MaxOps]
      /\ \A u \in Task : u # t => left'[u] = left[u]
      /\ pending[t] = NoOp \/ pending[t] = Op(ch, "receive")
  BY <1>1, <1>3, OperationBegins
<1>5. RingOK(c, ch) /\ c.count \in Nat /\ Capacity[ch] \in Int /\ c.count <= Capacity[ch]
  BY RingTyped DEF IInv, RingsOK
<1>6. Taken.chan = st.chan /\ Taken.sched = Take(st.sched)
  BY <1>2
<1>7. ReceiveStatus(Taken, ch) = ReceiveStatus(st, ch)
  BY <1>6 DEF ReceiveStatus
<1>8. sent \in [Channel -> Seq(Value)] /\ received \in [Channel -> Seq(Value)]
  BY DEF IInv, Typed
<1>9. CASE ReceiveStatus(st, ch) = Committed
  <2> DEFINE n == Popped(c, ch)
             D == [st.chan EXCEPT ![ch] = n]
             v == ReceivedValue(st, ch)
  <2>1. /\ pending' = [pending EXCEPT ![t] = NoOp]
        /\ received' = [received EXCEPT ![ch] = Append(@, v)]
    BY <1>1, <1>9 DEF Settles, Committed, Parked
  <2>2. c.count > 0
    BY <1>9 DEF ReceiveStatus, Committed, Closed, Parked
  <2>3. /\ RingOK(n, ch) /\ n.closed = c.closed /\ n.count = c.count - 1
        /\ c.buffer[c.head] = Contents(c, ch)[1]
        /\ \A i \in 1 .. n.count : Contents(n, ch)[i] = Contents(c, ch)[i + 1]
    <3>1. n = Popped(c, ch)
      OBVIOUS
    <3> HIDE DEF c, n
    <3> QED BY <1>5, <2>2, <3>1, RingReceive
  <2>4. ReceiveStep(Taken, ch, t) =
           [sched |-> WakeOne(Take(st.sched), Queue(ch, Other("receive"))), chan |-> D]
    <3>1. ReceiveStep(Taken, ch, t) =
             [sched |-> WakeOne(Taken.sched, Senders(ch)),
              chan  |-> [Taken.chan EXCEPT ![ch] = Popped(Taken.chan[ch], ch)]]
      <4>1. RingOK(Taken.chan[ch], ch) /\ ReceiveStatus(Taken, ch) = Committed
        BY <1>5, <1>6, <1>7, <1>9
      <4> QED BY <1>2, <4>1, ReceiveCommits
    <3> QED BY <1>3, <1>6, <3>1
  <2>5. TurnEnds(t, [sched |-> WakeOne(Take(st.sched), Queue(ch, Other("receive"))),
                     chan |-> D])
    BY <1>1, <2>4
  <2>6. /\ Claimable(n, ch, "receive") = Claimable(c, ch, "receive") - 1
        /\ Claimable(n, ch, Other("receive")) = Claimable(c, ch, Other("receive")) + 1
    BY <1>3, <1>5, <2>3 DEF Claimable
  <2>7. /\ D[ch] = n /\ \A y \in Channel : y # ch => D[y] = st.chan[y]
    BY RingsAre
  <2>8. v = Contents(c, ch)[1]
    BY <2>3 DEF ReceivedValue
  <2>9. Contents(n, ch) \in Seq(Slots) /\ Len(Contents(n, ch)) = n.count
        /\ Contents(c, ch) \in Seq(Slots) /\ Len(Contents(c, ch)) = c.count
    <3>1. ContentsOK(n, ch) /\ ContentsOK(c, ch)
      BY <1>5, <2>3, ContentsTyped
    <3> QED BY <3>1 DEF ContentsOK
  <2> HIDE DEF D, n, v, c
  \* The value was sent, so it is one.
  <2>10. v \in Value
    <3> DEFINE a == received[ch]
               b == Contents(c, ch)
    <3>1. /\ a \in Seq(Slots) /\ b \in Seq(Slots) /\ sent[ch] \in Seq(Value)
          /\ a \o b = sent[ch] /\ Len(b) >= 1 /\ Len(b) \in Nat /\ v = b[1]
      <4>1. a \in Seq(Slots) /\ sent[ch] \in Seq(Value) /\ a \o b = sent[ch]
        BY FifoTyped DEF c
      <4>2. b \in Seq(Slots) /\ Len(b) >= 1 /\ Len(b) \in Nat /\ v = b[1]
        BY <1>5, <2>2, <2>8, <2>9
      <4> QED BY <4>1, <4>2
    <3> HIDE DEF a, b
    <3>2. (a \o b)[Len(a) + 1] = b[1] /\ Len(a \o b) = Len(a) + Len(b) /\ Len(a) \in Nat
      BY <3>1
    <3>3. Len(a) + 1 \in 1 .. Len(sent[ch])
      BY <3>1, <3>2
    <3>4. sent[ch][Len(a) + 1] \in Value
      BY <3>1, <3>3
    <3> QED BY <3>1, <3>2, <3>4
  <2>11. sent' \in [Channel -> Seq(Value)] /\ received' \in [Channel -> Seq(Value)]
    BY <1>1, <1>8, <2>1, <2>10
  <2>12. ASSUME NEW y \in Channel PROVE received'[y] \o Contents(D[y], y) = sent'[y]
    <3>1. /\ received[y] \in Seq(Slots) /\ Contents(st.chan[y], y) \in Seq(Slots)
          /\ received[y] \o Contents(st.chan[y], y) = sent[y]
      BY FifoTyped
    <3>2. CASE y # ch
      BY <1>1, <1>8, <2>1, <2>7, <3>1, <3>2
    <3>3. CASE y = ch
      <4> DEFINE a == received[y]
                 b == Contents(c, y)
                 d == Contents(n, y)
      <4>1. /\ a \in Seq(Slots) /\ b \in Seq(Slots) /\ d \in Seq(Slots)
            /\ Len(b) = c.count /\ Len(d) = n.count
            /\ a \o b = sent[y]
        BY <2>9, <3>1, <3>3 DEF c
      <4>2. /\ Contents(D[y], y) = d /\ sent'[y] = sent[y]
            /\ received'[y] = Append(a, b[1])
        BY <1>1, <1>8, <2>1, <2>7, <2>8, <3>3
      <4>3. \A i \in 1 .. Len(d) : d[i] = b[i + 1]
        BY <2>3, <3>3, <4>1
      <4> HIDE DEF a, b, d
      <4>4. b # <<>> /\ Len(d) = Len(b) - 1
        BY <1>5, <2>2, <2>3, <4>1 DEF c
      <4>5. Append(a, b[1]) \o d = a \o b
        BY <4>1, <4>3, <4>4, MoveOver
      <4> QED BY <4>1, <4>2, <4>5
    <3> QED BY <3>2, <3>3
  <2>13. HistoriesAgree(D)
    BY <2>11, <2>12 DEF HistoriesAgree
  <2>14. RingCommits(n, ch, "receive")
    BY <2>3, <2>6 DEF RingCommits, c
  <2>15. D = [st.chan EXCEPT ![ch] = n]
    BY DEF D
  <2> QED BY <1>1, <1>3, <2>1, <2>5, <2>13, <2>14, <2>15, TurnCommits
<1>10. CASE ReceiveStatus(st, ch) = Parked
  <2>1. pending' = [pending EXCEPT ![t] = Op(ch, "receive")] /\ received' = received
    BY <1>1, <1>8, <1>10 DEF Settles, Committed, Parked
  <2>2. ~c.closed /\ Claimable(c, ch, "receive") = 0
    BY <1>5, <1>10 DEF ReceiveStatus, Committed, Closed, Parked, Claimable
  <2>3. ReceiveStep(Taken, ch, t) =
           [sched |-> Park(Take(st.sched), Queue(ch, "receive"), t), chan |-> st.chan]
    <3>1. ReceiveStep(Taken, ch, t) = [Taken EXCEPT !.sched = Park(@, Receivers(ch), t)]
      BY <1>7, <1>10 DEF ReceiveStep, Committed, Parked
    <3> QED BY <1>2, <1>3, <1>6, <3>1
  <2>4. TurnEnds(t, [sched |-> Park(Take(st.sched), Queue(ch, "receive"), t),
                     chan |-> st.chan])
    BY <1>1, <2>3
  <2> QED BY <1>1, <1>3, <2>1, <2>2, <2>4, TurnParksIn
<1>11. CASE ReceiveStatus(st, ch) = Closed
  <2> DEFINE x == AfterStep(Take(st.sched), t)
  <2>1. pending' = [pending EXCEPT ![t] = NoOp] /\ received' = received
    BY <1>1, <1>8, <1>11 DEF Settles, Committed, Parked, Closed
  <2>2. c.closed
    BY <1>11 DEF ReceiveStatus, Committed, Closed, Parked
  <2>3. ReceiveStep(Taken, ch, t) = [sched |-> Take(st.sched), chan |-> st.chan]
    BY <1>2, <1>7, <1>11 DEF ReceiveStep, Committed, Parked, Closed
  <2>4. st' = [sched |-> x, chan |-> st.chan]
    BY <1>1, <2>3, TurnEndsIn
  <2>5. RecordOK(x, NoTask) /\ TurnKeeps(st.sched, x)
    BY <1>2, KeepingTurn
  <2> HIDE DEF x
  <2>6. TurnQuiet(st.sched, t, x)
    BY <2>5 DEF TurnKeeps, TurnQuiet
  <2>7. NothingToClaim(t)
    BY <1>3, <1>4, <2>2, QueuesDiffer, QueueFacts DEF NothingToClaim
  <2>8. OnlySpends(t)
    BY <1>4 DEF OnlySpends
  <2> QED BY <1>1, <2>1, <2>4, <2>5, <2>6, <2>7, <2>8, TurnPasses
<1>12. ReceiveStatus(st, ch) \in {Committed, Parked, Closed}
  BY DEF ReceiveStatus
<1> QED BY <1>9, <1>10, <1>11, <1>12

\* A close marks the channel and empties its queues, or finds it closed.
LEMMA CloseKeeps ==
    ASSUME IInv, NEW t \in Task, NEW ch \in Channel, CloseChannel(t, ch)
    PROVE  IInv'
<1> DEFINE c == st.chan[ch]
<1>1. /\ Running(t) /\ pending[t] = NoOp
      /\ left' = [left EXCEPT ![t] = @ - 1] /\ left[t] > 0
      /\ TurnEnds(t, Close(Taken, ch))
      /\ pending' = pending /\ sent' = sent /\ received' = received
  BY DEF CloseChannel
<1>2. /\ RecordOK(st.sched, NoTask) /\ st.sched.ready # <<>>
      /\ t = Head(st.sched.ready)
      /\ TurnOf(st.sched, pending, st.chan, t)
      /\ Taken = [sched |-> Take(st.sched), chan |-> st.chan] /\ Taken \in StateRecord
  BY <1>1, TurnBegins
<1>3. pending \in [Task -> Ops \cup {NoOp}] /\ left \in [Task -> 0 .. MaxOps]
  BY DEF IInv, Typed
<1>4. /\ left' \in [Task -> 0 .. MaxOps]
      /\ \A u \in Task : u # t => left'[u] = left[u]
  BY <1>1, <1>3, MaxOpsNatural
<1>5. pending' = [pending EXCEPT ![t] = NoOp]
  BY <1>1, <1>3
<1>6. Taken.chan = st.chan /\ Taken.sched = Take(st.sched)
  BY <1>2
<1>7. CASE c.closed
  <2> DEFINE x == AfterStep(Take(st.sched), t)
  <2>1. Close(Taken, ch) = [sched |-> Take(st.sched), chan |-> st.chan]
    BY <1>2, <1>6, <1>7 DEF Close
  <2>2. st' = [sched |-> x, chan |-> st.chan]
    BY <1>1, <2>1, TurnEndsIn
  <2>3. RecordOK(x, NoTask) /\ TurnKeeps(st.sched, x)
    BY <1>2, KeepingTurn
  <2> HIDE DEF x
  <2>4. TurnQuiet(st.sched, t, x)
    BY <2>3 DEF TurnKeeps, TurnQuiet
  <2>5. NothingToClaim(t)
    BY <1>1, QueueFacts DEF NothingToClaim
  <2>6. OnlySpends(t)
    BY <1>4 DEF OnlySpends
  <2> QED BY <1>1, <1>5, <2>2, <2>3, <2>4, <2>5, <2>6, TurnPasses
<1>8. CASE ~c.closed
  <2> DEFINE n == [c EXCEPT !.closed = TRUE]
             D == [st.chan EXCEPT ![ch] = n]
             x == AfterStep(WakeAll(WakeAll(Take(st.sched), Senders(ch)),
                                    Receivers(ch)), t)
  <2>1. RingOK(c, ch) /\ c \in ChannelRecord(ch)
    BY DEF IInv, RingsOK, RingOK
  <2>2. /\ RingOK(n, ch)
        /\ n.count = c.count /\ n.head = c.head /\ n.buffer = c.buffer
    BY <2>1 DEF RingOK, ChannelRecord
  <2>3. Close(Taken, ch) =
           [sched |-> WakeAll(WakeAll(Take(st.sched), Senders(ch)), Receivers(ch)),
            chan  |-> D]
    <3>1. RingOK(Taken.chan[ch], ch) /\ ~Taken.chan[ch].closed
      BY <1>6, <1>8, <2>1
    <3>2. Close(Taken, ch) =
             [sched |-> WakeAll(WakeAll(Taken.sched, Senders(ch)), Receivers(ch)),
              chan  |-> [Taken.chan EXCEPT ![ch] =
                           [Taken.chan[ch] EXCEPT !.closed = TRUE]]]
      BY <1>2, <3>1, CloseCloses
    <3> QED BY <1>6, <3>2
  <2>4. st' = [sched |-> x, chan |-> D]
    <3> HIDE DEF D
    <3> QED BY <1>1, <2>3, TurnEndsIn
  <2>5. RecordOK(x, NoTask) /\ TurnEmpties(st.sched, Senders(ch), Receivers(ch), x)
    <3>1. Senders(ch) \in WaitQueue /\ Receivers(ch) \in WaitQueue
      BY ChannelQueues DEF Senders, Receivers
    <3> QED BY <1>2, <3>1, EmptyingTurn
  <2> HIDE DEF x
  <2>6. /\ D \in [Channel -> AnyChannel] /\ D[ch] = n
        /\ \A y \in Channel : y # ch => D[y] = st.chan[y]
        /\ \A y \in Channel : RingOK(D[y], y)
    <3> HIDE DEF n
    <3> QED BY <2>2, RingsAre, RingReplaced
  <2> HIDE DEF D
  <2>7. \A y \in Channel : /\ RingOK(D[y], y)
                           /\ D[y].count = st.chan[y].count
                           /\ D[y].head = st.chan[y].head
                           /\ D[y].buffer = st.chan[y].buffer
    BY <2>2, <2>6
  <2> HIDE DEF n, c
  <2>8. Books(x, pending', D)
    BY <1>1, <1>2, <2>5, <2>6, BooksClose
  <2>9. pending' \in [Task -> Ops \cup {NoOp}] /\ RetriesStarted'
    BY <1>4, <1>5, OperationSettles
  <2> QED BY <1>1, <1>4, <2>4, <2>5, <2>6, <2>7, <2>8, <2>9, TurnLeaves
<1> QED BY <1>7, <1>8

LEMMA LocalKeeps ==
    ASSUME IInv, NEW t \in Task, Local(t)
    PROVE  IInv'
<1> DEFINE x == AfterStep(Take(st.sched), t)
<1>1. /\ Running(t) /\ pending[t] = NoOp
      /\ left' = [left EXCEPT ![t] = @ - 1] /\ left[t] > 0
      /\ TurnEnds(t, Taken)
      /\ pending' = pending /\ sent' = sent /\ received' = received
  BY DEF Local
<1>2. /\ RecordOK(st.sched, NoTask) /\ st.sched.ready # <<>>
      /\ t = Head(st.sched.ready)
      /\ Taken = [sched |-> Take(st.sched), chan |-> st.chan]
  BY <1>1, TurnBegins
<1>3. pending \in [Task -> Ops \cup {NoOp}] /\ left \in [Task -> 0 .. MaxOps]
  BY DEF IInv, Typed
<1>4. OnlySpends(t)
  BY <1>1, <1>3, MaxOpsNatural DEF OnlySpends
<1>5. pending' = [pending EXCEPT ![t] = NoOp]
  BY <1>1, <1>3
<1>6. st' = [sched |-> x, chan |-> st.chan]
  BY <1>1, <1>2, TurnEndsIn
<1>7. RecordOK(x, NoTask) /\ TurnKeeps(st.sched, x)
  BY <1>2, KeepingTurn
<1> HIDE DEF x
<1>8. TurnQuiet(st.sched, t, x)
  BY <1>7 DEF TurnKeeps, TurnQuiet
<1>9. NothingToClaim(t)
  BY <1>1, QueueFacts DEF NothingToClaim
<1> QED BY <1>1, <1>4, <1>5, <1>6, <1>7, <1>8, <1>9, TurnPasses

LEMMA DoneKeeps ==
    ASSUME IInv, NEW t \in Task, Done(t)
    PROVE  IInv'
<1> DEFINE x == AfterStep(Complete(Take(st.sched), t), t)
<1>1. /\ Running(t) /\ pending[t] = NoOp /\ left' = left
      /\ TurnEnds(t, [Taken EXCEPT !.sched = Complete(@, t)])
      /\ pending' = pending /\ sent' = sent /\ received' = received
  BY DEF Done
<1>2. /\ RecordOK(st.sched, NoTask) /\ st.sched.ready # <<>>
      /\ t = Head(st.sched.ready)
      /\ Taken = [sched |-> Take(st.sched), chan |-> st.chan]
  BY <1>1, TurnBegins
<1>3. pending \in [Task -> Ops \cup {NoOp}] /\ left \in [Task -> 0 .. MaxOps]
  BY DEF IInv, Typed
<1>4. OnlySpends(t)
  BY <1>1, <1>3 DEF OnlySpends
<1>5. pending' = [pending EXCEPT ![t] = NoOp]
  BY <1>1, <1>3
<1>6. st' = [sched |-> x, chan |-> st.chan]
  <2>1. [Taken EXCEPT !.sched = Complete(@, t)]
           = [sched |-> Complete(Take(st.sched), t), chan |-> st.chan]
    BY <1>2
  <2> QED BY <1>1, <2>1, TurnEndsIn
<1>7. RecordOK(x, NoTask) /\ TurnCompletes(st.sched, t, x)
  BY <1>2, CompletingTurn
<1> HIDE DEF x
<1>8. TurnQuiet(st.sched, t, x)
  BY <1>7 DEF TurnCompletes, TurnQuiet
<1>9. NothingToClaim(t)
  BY <1>1, QueueFacts DEF NothingToClaim
<1> QED BY <1>1, <1>4, <1>5, <1>6, <1>7, <1>8, <1>9, TurnPasses
-----------------------------------------------------------------------------
(* The invariant, and what it is for.                                       *)

LEMMA NewRing ==
    ASSUME NEW ch \in Channel
    PROVE  /\ RingOK(NewChannel(ch), ch) /\ NewChannel(ch).count = 0
           /\ Contents(NewChannel(ch), ch) = <<>>
<1>1. Capacity[ch] \in Nat \ {0}
  BY CapacityPositive
<1>2. 0 % Capacity[ch] = 0
  BY <1>1
<1>3. RingOK(NewChannel(ch), ch) /\ NewChannel(ch).count = 0
  BY <1>1, <1>2 DEF NewChannel, RingOK, ChannelRecord
<1>4. ContentsOK(NewChannel(ch), ch)
  BY <1>3, ContentsTyped
<1>5. Contents(NewChannel(ch), ch) = <<>>
  BY <1>3, <1>4 DEF ContentsOK
<1> QED BY <1>3, <1>5

LEMMA InitIInv == Init => IInv
<1> SUFFICES ASSUME Init PROVE IInv
  OBVIOUS
<1>1. PICK order \in SetToSeqs(Task) :
         st = [sched |-> Started(order), chan |-> [ch \in Channel |-> NewChannel(ch)]]
  BY DEF Init
<1>2. Cardinality(Task) \in Nat
  BY TasksFinite, FS_CardinalityType
<1>3. /\ order \in [1 .. Cardinality(Task) -> Task]
      /\ \A i, j \in 1 .. Cardinality(Task) : i # j => order[i] # order[j]
  BY <1>1 DEF SetToSeqs
<1>4. order \in Seq(Task) /\ Len(order) = Cardinality(Task)
  BY <1>2, <1>3
<1>5. StartedSoFar(order, Len(order), Started(order))
  BY <1>3, <1>4, StartedOK
<1>6. RecordOK(Started(order), NoTask) /\ \A q \in WaitQueue : Started(order).wait[q] = <<>>
  BY <1>5 DEF StartedSoFar
<1>7. /\ st.sched = Started(order)
      /\ st.chan = [ch \in Channel |-> NewChannel(ch)]
  BY <1>1
<1>8. \A ch \in Channel : /\ RingOK(st.chan[ch], ch) /\ st.chan[ch].count = 0
                          /\ Contents(st.chan[ch], ch) = <<>>
                          /\ st.chan[ch] \in AnyChannel
  BY <1>7, NewRing DEF RingOK, AnyChannel
<1>9. Typed
  <2>1. st \in StateRecord
    <3>1. Started(order) \in SchedulerRecord
      BY <1>6 DEF RecordOK
    <3>2. [ch \in Channel |-> NewChannel(ch)] \in [Channel -> AnyChannel]
      BY <1>7, <1>8
    <3> QED BY <1>1, <3>1, <3>2 DEF StateRecord
  <2>2. /\ pending \in [Task -> Ops \cup {NoOp}] /\ left \in [Task -> 0 .. MaxOps]
        /\ sent \in [Channel -> Seq(Value)] /\ received \in [Channel -> Seq(Value)]
    BY MaxOpsNatural DEF Init
  <2> QED BY <2>1, <2>2 DEF Typed
<1>10. Books(st.sched, pending, st.chan)
  <2> SUFFICES ASSUME NEW ch \in Channel, NEW k \in Kinds
               PROVE  Book(st.sched, pending, st.chan[ch], ch, k)
    BY DEF Books
  <2>1. st.sched.wait[Queue(ch, k)] = <<>>
    BY <1>6, <1>7, QueueFacts
  <2> QED BY <2>1, BookEmpty
<1>11. RetriesStarted
  BY DEF Init, RetriesStarted
<1>12. Fifo
  BY <1>8 DEF Init, Fifo
<1>13. RecordOK(st.sched, NoTask) /\ RingsOK
  BY <1>6, <1>7, <1>8 DEF RingsOK
<1> QED BY <1>9, <1>10, <1>11, <1>12, <1>13 DEF IInv

LEMMA NextIInv == IInv /\ [Next]_vars => IInv'
<1> SUFFICES ASSUME IInv, [Next]_vars PROVE IInv'
  OBVIOUS
<1>1. CASE UNCHANGED vars
  BY <1>1 DEF vars, IInv, Typed, RingsOK, Books, RetriesStarted, Fifo, Book, OnTheWay
<1>2. ASSUME NEW t \in Task, NEW ch \in Channel, Send(t, ch) PROVE IInv'
  BY <1>2, SendKeeps
<1>3. ASSUME NEW t \in Task, NEW ch \in Channel, Receive(t, ch) PROVE IInv'
  BY <1>3, ReceiveKeeps
<1>4. ASSUME NEW t \in Task, NEW ch \in Channel, CloseChannel(t, ch) PROVE IInv'
  BY <1>4, CloseKeeps
<1>5. ASSUME NEW t \in Task, Local(t) PROVE IInv'
  BY <1>5, LocalKeeps
<1>6. ASSUME NEW t \in Task, Done(t) PROVE IInv'
  BY <1>6, DoneKeeps
<1> QED BY <1>1, <1>2, <1>3, <1>4, <1>5, <1>6 DEF Next, Turn

LEMMA Invariance == Spec => []IInv
  BY InitIInv, NextIInv, PTL DEF Spec

\* The variables keep their types, the ring indices their ranges.
THEOREM TypeCorrect == Spec => []TypeOK
<1>1. IInv => TypeOK
  <2> SUFFICES ASSUME IInv PROVE TypeOK
    OBVIOUS
  <2>1. st.sched \in SchedulerRecord /\ DOMAIN st.chan = Channel
    BY StateParts DEF IInv, Typed
  <2>2. \A ch \in Channel : st.chan[ch] \in ChannelRecord(ch)
    BY DEF IInv, RingsOK, RingOK
  <2> QED BY <2>1, <2>2 DEF IInv, Typed, TypeOK
<1> QED BY <1>1, Invariance, PTL

\* For any number of processes and channels of any capacity, every committed
\* send is received once and in order.
THEOREM ChannelsAreFifo == Spec => []Fifo
<1>1. IInv => Fifo
  BY DEF IInv
<1> QED BY <1>1, Invariance, PTL

\* For any number of processes and channels of any capacity, a parked process
\* has a woken one in front of it for everything there is to claim.
THEOREM WakeupsAreKept == Spec => []NoLostWakeup
<1>1. IInv => NoLostWakeup
  <2> SUFFICES ASSUME IInv, NEW ch \in Channel
               PROVE  /\ st.sched.wait[Senders(ch)] # <<>> =>
                            Capacity[ch] - st.chan[ch].count
                               <= Cardinality(Retrying("send", ch))
                      /\ st.sched.wait[Receivers(ch)] # <<>> =>
                            st.chan[ch].count <= Cardinality(Retrying("receive", ch))
    BY DEF NoLostWakeup
  <2>1. \A k \in Kinds : Book(st.sched, pending, st.chan[ch], ch, k)
    BY DEF IInv, Books
  <2>2. ASSUME NEW k \in Kinds
        PROVE  Retrying(k, ch) = OnTheWay(st.sched, pending, ch, k)
    <3>1. \A t \in Task : t \in ToSet(st.sched.ready) <=> st.sched.queued[t]
      BY QueuedIs DEF IInv
    <3> QED BY <3>1 DEF Retrying, OnTheWay, Op
  <2>3. "send" \in Kinds /\ "receive" \in Kinds
    BY DEF Kinds
  <2> QED BY <2>1, <2>2, <2>3 DEF Book, Claimable, Queue
<1> QED BY <1>1, Invariance, PTL

\* For any number of processes and channels of any capacity, a receive that
\* answers that the channel is closed missed nothing.
THEOREM ClosedIsDrained == Spec => ClosedMeansDrained
<1>1. IInv /\ [Next]_vars =>
        [\A t \in Task, ch \in Channel :
            Receive(t, ch) /\ pending'[t] = NoOp /\ received' = received
               => received[ch] = sent[ch]]_vars
  <2> SUFFICES ASSUME IInv, NEW t \in Task, NEW ch \in Channel,
                      Receive(t, ch), pending'[t] = NoOp, received' = received
               PROVE  received[ch] = sent[ch]
    OBVIOUS
  <2>1. ReceiveStatus(st, ch) # Parked
    <3>1. ASSUME ReceiveStatus(st, ch) = Parked PROVE FALSE
      <4>1. pending'[t] = Op(ch, "receive")
        BY <3>1 DEF Receive, Settles, Op, IInv, Typed
      <4> QED BY <4>1, QueueFacts DEF Kinds
    <3> QED BY <3>1
  <2>2. ReceiveStatus(st, ch) # Committed
    <3>1. ASSUME ReceiveStatus(st, ch) = Committed PROVE FALSE
      <4>1. /\ received' = [received EXCEPT ![ch] = Append(@, ReceivedValue(st, ch))]
            /\ received \in [Channel -> Seq(Value)]
        BY <3>1 DEF Receive, IInv, Typed
      <4> DEFINE a == received[ch]
                 v == ReceivedValue(st, ch)
      <4>2. a \in Seq(Value) /\ a = Append(a, v)
        BY <4>1
      <4> HIDE DEF a, v
      <4>3. Len(Append(a, v)) = Len(a) + 1 /\ Len(a) \in Nat
        BY <4>2
      <4> QED BY <4>2, <4>3
    <3> QED BY <3>1
  <2>3. st.chan[ch].count = 0
    <3>1. st.chan[ch].count \in Nat
      BY RingTyped DEF IInv, RingsOK
    <3> QED BY <2>1, <2>2, <3>1 DEF ReceiveStatus, Committed, Parked, Closed
  <2>4. Contents(st.chan[ch], ch) = <<>>
    <3>1. ContentsOK(st.chan[ch], ch)
      BY ContentsTyped DEF IInv, RingsOK
    <3> QED BY <2>3, <3>1 DEF ContentsOK
  <2> DEFINE a == received[ch]
  <2>5. a \in Seq(Value) /\ a \o <<>> = sent[ch]
    BY <2>4, FifoTyped
  <2> HIDE DEF a
  <2>6. a \o <<>> = a
    BY <2>5
  <2> QED BY <2>5, <2>6 DEF a
<1> QED BY <1>1, Invariance, PTL DEF Spec, ClosedMeansDrained
=============================================================================
