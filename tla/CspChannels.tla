----------------------------- MODULE CspChannels -----------------------------
(***************************************************************************)
(* The bounded channels of src/experiments/csp/csp.coil as operations on a *)
(* state st = [sched, chan]: the scheduler record of CoopTasks and, for    *)
(* each channel, its ring buffer.  A channel's two WaitQueues are the      *)
(* queues <<ch, "senders">> and <<ch, "receivers">> of the scheduler.      *)
(*                                                                         *)
(* The counters send-parks, receive-parks and wakes are left out: the      *)
(* runtime never reads them, only the demo prints them.                    *)
(***************************************************************************)
EXTENDS CoopTasks

CONSTANTS
    Channel,
    Capacity,   \* [Channel -> number of slots]
    Value,      \* what is sent (i64 in the source)
    NoValue     \* the content of a slot that was never written

\* channel-new aborts on any other capacity.
ASSUME CapacityPositive == Capacity \in [Channel -> Nat \ {0}]

\* Every channel embeds two WaitQueues.
ASSUME ChannelQueues == Channel \X {"senders", "receivers"} \subseteq WaitQueue

Senders(ch)   == <<ch, "senders">>
Receivers(ch) == <<ch, "receivers">>

ChannelRecord(ch) ==
    [buffer : [0 .. Capacity[ch] - 1 -> Value \cup {NoValue}],
     head   : 0 .. Capacity[ch] - 1,
     tail   : 0 .. Capacity[ch] - 1,
     count  : 0 .. Capacity[ch],
     closed : BOOLEAN]

NewChannel(ch) ==
    [buffer |-> [i \in 0 .. Capacity[ch] - 1 |-> NoValue],
     head |-> 0, tail |-> 0, count |-> 0, closed |-> FALSE]

\* The values in the channel, oldest first.
Contents(c, ch) ==
    [i \in 1 .. c.count |-> c.buffer[(c.head + i - 1) % Capacity[ch]]]

Advance(ch, i) == (i + 1) % Capacity[ch]

-----------------------------------------------------------------------------
Committed == 1
Parked    == 0
Closed    == -1

\* What channel-send-step! and channel-receive-step! answer.
SendStatus(st, ch) ==
    IF st.chan[ch].closed THEN Closed
    ELSE IF st.chan[ch].count < Capacity[ch] THEN Committed
    ELSE Parked

ReceiveClosesFirst(st, ch) ==
    IF st.chan[ch].closed THEN Closed
    ELSE IF st.chan[ch].count > 0 THEN Committed
    ELSE Parked

ReceiveStatus(st, ch) ==
    IF st.chan[ch].count > 0 THEN Committed
    ELSE IF st.chan[ch].closed THEN Closed
    ELSE Parked

SendWakesNobody(st, ch, t, v) ==
    CASE SendStatus(st, ch) = Committed ->
           [st EXCEPT !.chan[ch].buffer[st.chan[ch].tail] = v,
                      !.chan[ch].tail = Advance(ch, @),
                      !.chan[ch].count = @ + 1]
      [] SendStatus(st, ch) = Parked ->
           [st EXCEPT !.sched = Park(@, Senders(ch), t)]
      [] OTHER -> st

SendForgetsWrap(st, ch, t, v) ==
    CASE SendStatus(st, ch) = Committed ->
           [st EXCEPT !.chan[ch].buffer[st.chan[ch].tail] = v,
                      !.chan[ch].tail = IF @ + 1 < Capacity[ch] THEN @ + 1 ELSE @,
                      !.chan[ch].count = @ + 1,
                      !.sched = WakeOne(@, Receivers(ch))]
      [] SendStatus(st, ch) = Parked ->
           [st EXCEPT !.sched = Park(@, Senders(ch), t)]
      [] OTHER -> st

\* channel-send-step!: commit and wake one receiver, or park.
SendStep(st, ch, t, v) ==
    CASE SendStatus(st, ch) = Committed ->
           [st EXCEPT !.chan[ch].buffer[st.chan[ch].tail] = v,
                      !.chan[ch].tail = Advance(ch, @),
                      !.chan[ch].count = @ + 1,
                      !.sched = WakeOne(@, Receivers(ch))]
      [] SendStatus(st, ch) = Parked ->
           [st EXCEPT !.sched = Park(@, Senders(ch), t)]
      [] OTHER -> st

\* The value a committing receive stores through its out pointer.
ReceivedValue(st, ch) == st.chan[ch].buffer[st.chan[ch].head]

\* channel-receive-step!: take the oldest value and wake one sender, or park.
ReceiveStep(st, ch, t) ==
    CASE ReceiveStatus(st, ch) = Committed ->
           [st EXCEPT !.chan[ch].head = Advance(ch, @),
                      !.chan[ch].count = @ - 1,
                      !.sched = WakeOne(@, Senders(ch))]
      [] ReceiveStatus(st, ch) = Parked ->
           [st EXCEPT !.sched = Park(@, Receivers(ch), t)]
      [] OTHER -> st

CloseWakesReceivers(st, ch) ==
    IF st.chan[ch].closed
    THEN st
    ELSE [st EXCEPT !.chan[ch].closed = TRUE,
                    !.sched = WakeAll(@, Receivers(ch))]

\* channel-close!: mark it and wake every sender, then every receiver.
Close(st, ch) ==
    IF st.chan[ch].closed
    THEN st
    ELSE [st EXCEPT !.chan[ch].closed = TRUE,
                    !.sched = WakeAll(WakeAll(@, Senders(ch)), Receivers(ch))]
=============================================================================
