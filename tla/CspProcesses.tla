----------------------------- MODULE CspProcesses -----------------------------
(***************************************************************************)
(* Arbitrary csp processes over bounded channels.  A process is a state    *)
(* machine that defprocess compiled: one operation per scheduler turn, the *)
(* program counter left unchanged when a send or a receive parks, so that  *)
(* the same operation is retried after the wake-up.  Which operation comes *)
(* next is left open: every program of at most MaxOps operations per       *)
(* process is a behaviour of this module.                                  *)
(*                                                                         *)
(* A turn of scheduler-run! (take, step, re-enqueue) is one action: there  *)
(* is one OS thread, and a step is straight-line code.                     *)
(***************************************************************************)
EXTENDS CspChannels

CONSTANTS
    MaxOps,     \* bound: operations a process starts before it is done
    NoOp        \* no operation is being retried

ASSUME NoOpIsNone == NoOp \notin [kind : {"send", "receive"}, ch : Channel]

VARIABLES
    st,         \* the scheduler and the channels
    pending,    \* [Task -> the parked operation its program counter is at]
    left,       \* [Task -> operations it may still start]
    sent,       \* history: [Channel -> the committed sends, in order]
    received    \* history: [Channel -> the committed receives, in order]

vars == <<st, pending, left, sent, received>>

Ops == [kind : {"send", "receive"}, ch : Channel]

Values == Task \X (1 .. MaxOps)

ASSUME MaxOpsNatural == MaxOps \in Nat
ASSUME ValuesAreSent == Values \subseteq Value

TypeOK ==
    /\ st.sched \in SchedulerRecord
    /\ DOMAIN st.chan = Channel
    /\ \A ch \in Channel : st.chan[ch] \in ChannelRecord(ch)
    /\ pending \in [Task -> Ops \cup {NoOp}]
    /\ left \in [Task -> 0 .. MaxOps]
    /\ sent \in [Channel -> Seq(Value)]
    /\ received \in [Channel -> Seq(Value)]

\* Every process has been started with go, in some order.
Init ==
    /\ \E order \in SetToSeqs(Task) :
          st = [sched |-> Started(order),
                chan  |-> [ch \in Channel |-> NewChannel(ch)]]
    /\ pending = [t \in Task |-> NoOp]
    /\ left = [t \in Task |-> MaxOps]
    /\ sent = [ch \in Channel |-> <<>>]
    /\ received = [ch \in Channel |-> <<>>]

-----------------------------------------------------------------------------
\* The turn of t: s is the state its operation leaves when it starts from
\* the state in which t has left the run queue.
Running(t) == st.sched.ready # <<>> /\ t = Head(st.sched.ready)
Taken == [st EXCEPT !.sched = Take(@)]
TurnEnds(t, s) == st' = [s EXCEPT !.sched = AfterStep(@, t)]

\* t starts a new operation, or retries op.
Begins(t, op) ==
    \/ /\ pending[t] = op
       /\ left' = left
    \/ /\ pending[t] = NoOp
       /\ left[t] > 0
       /\ left' = [left EXCEPT ![t] = @ - 1]

\* The program counter moves on unless the operation parked.
Settles(t, op, status) ==
    pending' = [pending EXCEPT ![t] = IF status = Parked THEN op ELSE NoOp]

Send(t, ch) ==
    LET op == [kind |-> "send", ch |-> ch]
        v  == <<t, left'[t] + 1>>
        status == SendStatus(st, ch)
    IN  /\ Running(t)
        /\ Begins(t, op)
        /\ TurnEnds(t, SendStep(Taken, ch, t, v))
        /\ Settles(t, op, status)
        /\ sent' = [sent EXCEPT ![ch] = IF status = Committed THEN Append(@, v) ELSE @]
        /\ UNCHANGED received

Receive(t, ch) ==
    LET op == [kind |-> "receive", ch |-> ch]
        status == ReceiveStatus(st, ch)
    IN  /\ Running(t)
        /\ Begins(t, op)
        /\ TurnEnds(t, ReceiveStep(Taken, ch, t))
        /\ Settles(t, op, status)
        /\ received' = [received EXCEPT ![ch] =
                          IF status = Committed THEN Append(@, ReceivedValue(st, ch))
                          ELSE @]
        /\ UNCHANGED sent

CloseChannel(t, ch) ==
    /\ Running(t)
    /\ pending[t] = NoOp
    /\ left[t] > 0
    /\ left' = [left EXCEPT ![t] = @ - 1]
    /\ TurnEnds(t, Close(Taken, ch))
    /\ UNCHANGED <<pending, sent, received>>

\* An assignment or a branch: the process stays ready and goes to the tail.
Local(t) ==
    /\ Running(t)
    /\ pending[t] = NoOp
    /\ left[t] > 0
    /\ left' = [left EXCEPT ![t] = @ - 1]
    /\ TurnEnds(t, Taken)
    /\ UNCHANGED <<pending, sent, received>>

Done(t) ==
    /\ Running(t)
    /\ pending[t] = NoOp
    /\ TurnEnds(t, [Taken EXCEPT !.sched = Complete(@, t)])
    /\ UNCHANGED <<pending, left, sent, received>>

Turn(t) ==
    \/ \E ch \in Channel : Send(t, ch) \/ Receive(t, ch) \/ CloseChannel(t, ch)
    \/ Local(t)
    \/ Done(t)

Next == \E t \in Task : Turn(t)

Spec == Init /\ [][Next]_vars

\* scheduler-run! takes the next turn while the run queue is not empty.
FairSpec == Spec /\ WF_vars(Next)

-----------------------------------------------------------------------------
\* Every committed send is received exactly once and in the order of the
\* commits, whatever wraps around in the ring: what was received, followed by
\* what is in the buffer, is what was sent.
Fifo ==
    \A ch \in Channel : received[ch] \o Contents(st.chan[ch], ch) = sent[ch]

\* The processes that were woken to retry an operation and wait for their turn.
Retrying(kind, ch) ==
    {t \in Task : /\ t \in ToSet(st.sched.ready)
                  /\ pending[t] = [kind |-> kind, ch |-> ch]}

\* No wake-up is lost.  While a sender is parked, every free slot is claimed by
\* a sender on its way to retry; while a receiver is parked, every buffered
\* value is claimed by a receiver on its way.  So when the run queue is empty a
\* parked sender means a full channel and a parked receiver an empty one, even
\* though a third process may take the slot before the woken one comes.
NoLostWakeup ==
    \A ch \in Channel :
       LET c == st.chan[ch] IN
       /\ st.sched.wait[Senders(ch)] # <<>> =>
             Capacity[ch] - c.count <= Cardinality(Retrying("send", ch))
       /\ st.sched.wait[Receivers(ch)] # <<>> =>
             c.count <= Cardinality(Retrying("receive", ch))

\* "... and permits buffered values to drain": the closed transition of a
\* receive is taken only when every value that was ever sent has been
\* received, so nobody who saw it can miss one.
ClosedMeansDrained ==
    [][\A t \in Task, ch \in Channel :
          Receive(t, ch) /\ pending'[t] = NoOp /\ received' = received
             => received[ch] = sent[ch]]_vars

\* A process whose operation was parked when the channel closed gets an answer.
CloseReleases ==
    \A t \in Task, ch \in Channel :
       (st.chan[ch].closed /\ pending[t] # NoOp /\ pending[t].ch = ch)
          ~> (pending[t] = NoOp)
=============================================================================
