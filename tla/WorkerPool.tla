------------------------------ MODULE WorkerPool ------------------------------
(***************************************************************************)
(* The gpui Scheduler with its threads                                     *)
(* (src/experiments/coil_gpui/scheduler.coil): the owner thread, which     *)
(* hands out jobs, polls and finally frees the scheduler, and the workers  *)
(* of the pool, which run background work.  The owner's table is JobSlots, *)
(* the queues between them WorkLanes.                                      *)
(*                                                                         *)
(* A critical section of the pool's mutex is one action (pool-enqueue!,    *)
(* pool-take! up to the wait or the unlock, the shutdown); each atomic a   *)
(* worker touches outside it is an action of its own.  Calls of the owner  *)
(* that touch only its table are one action.  A waiting worker may wake    *)
(* without a signal.  Mutex and condition calls do not fail.               *)
(***************************************************************************)
EXTENDS JobSlots, FiniteSets

CONSTANTS
    Worker,         \* the threads scheduler-new-with-workers tries to start
    HighSlots, MediumSlots, LowSlots,   \* the service cycle (WorkLanes)
    UsedLanes,      \* the priorities work is spawned with
    Patience,       \* whether work may wait for its cancellation
    Wakes,          \* whether a wake callback is set when work is spawned
    Times,          \* the clock readings polls are made at
    MaxSlots,       \* bound: slots the table grows to
    MaxGeneration,  \* bound: jobs a slot is used for
    MaxJobs         \* bound: jobs in all

ASSUME PoolConstants ==
    /\ IsFiniteSet(Worker) /\ IsFiniteSet(Block)
    /\ NoBlock \notin Block
    /\ MaxSlots \in Nat /\ MaxGeneration \in Nat /\ MaxJobs \in Nat
    /\ Times \subseteq Nat /\ Deadlines \subseteq Nat
    /\ {HighSlots, MediumSlots, LowSlots} \subseteq Nat \ {0}

Lanes == INSTANCE WorkLanes WITH Work <- Block

ASSUME ModelledUse ==
    /\ UsedLanes \subseteq Lanes!Priorities
    /\ Patience \subseteq BOOLEAN /\ Wakes \subseteq BOOLEAN

VARIABLES
    table,      \* the owner's slots and its active counter
    owner,      \* where the owner thread is
    pool,       \* the lanes of the WorkerPool
    counters,   \* its atomic counters: running, completed
    shutdown,   \* WorkerPool.shutdown
    memory,     \* the BackgroundWork each block holds
    allocated,  \* the blocks that are malloc'ed and not freed
    worker,     \* where each worker thread is, and the work it holds
    signal,     \* the wake callback signalled the owner's semaphore
    calls,      \* history: how often each handle's callback ran
    runs,       \* history: how often its worker function was called
    asked,      \* history: the handles a cancellation was asked for
    background  \* history: the handles that were given to background work

vars == <<table, owner, pool, counters, shutdown, memory, allocated, worker,
          signal, calls, runs, asked, background>>

Handle == [slot : 1 .. MaxSlots, generation : 1 .. MaxGeneration]

\* BackgroundWork: the job it was allocated for stands for its function,
\* contexts and completion; patient work returns only when it sees a
\* cancellation; its result is the job it is the result of.
WorkRecord ==
    [job : Handle \cup {InvalidHandle}, patient : BOOLEAN, wakes : BOOLEAN,
     result : Handle \cup {InvalidHandle}, cancel : BOOLEAN, done : BOOLEAN]

ZeroedWork ==
    [job |-> InvalidHandle, patient |-> FALSE, wakes |-> FALSE,
     result |-> InvalidHandle, cancel |-> FALSE, done |-> FALSE]

\* "asleep": in frame-clock-wait!; "stopping" and "joining": inside
\* scheduler-free!, before and after the shutdown is published.
OwnerPlaces == {"idle", "asleep", "polling", "callback", "stopping", "joining", "freed"}

WorkerPlaces ==
    {"absent", "take", "waiting", "taken", "running", "left", "stored",
     "woken", "stopped"}

NoWork == [at |-> "take", block |-> NoBlock, job |-> InvalidHandle]

Started == {w \in Worker : worker[w].at # "absent"}

TypeOK ==
    /\ table \in TableRecord
    /\ owner \in [at : OwnerPlaces, slot : Nat, bound : Nat, now : Times \cup {0},
                  block : Block \cup {NoBlock}]
    /\ pool \in Lanes!LaneRecord
    /\ counters \in [running : 0 .. Cardinality(Worker), completed : Nat]
    /\ shutdown \in BOOLEAN
    /\ memory \in [Block -> WorkRecord]
    /\ allocated \subseteq Block
    /\ worker \in [Worker -> [at : WorkerPlaces, block : Block \cup {NoBlock},
                              job : Handle \cup {InvalidHandle}]]
    /\ signal \in BOOLEAN
    /\ calls \in [Handle -> Nat]
    /\ runs \in [Handle -> Nat]
    /\ asked \subseteq Handle
    /\ background \subseteq Handle

OwnerAt(place) == [at |-> place, slot |-> 0, bound |-> 0, now |-> 0, block |-> NoBlock]

\* scheduler-new-with-workers: a thread that does not start is left out.
Init ==
    /\ table = EmptyTable
    /\ owner = OwnerAt("idle")
    /\ pool = Lanes!EmptyLanes
    /\ counters = [running |-> 0, completed |-> 0]
    /\ shutdown = FALSE
    /\ memory = [b \in Block |-> ZeroedWork]
    /\ allocated = {}
    /\ \E started \in SUBSET Worker :
          worker = [w \in Worker |->
                      [NoWork EXCEPT !.at = IF w \in started THEN "take" ELSE "absent"]]
    /\ signal = FALSE
    /\ calls = [h \in Handle |-> 0]
    /\ runs = [h \in Handle |-> 0]
    /\ asked = {}
    /\ background = {}

-----------------------------------------------------------------------------
(* The owner thread: what the program calls between polls, and from the     *)
(* callbacks a poll makes.                                                   *)

ClientRuns == owner.at \in {"idle", "callback"}

\* The table has room under the bounds of the model.
Room ==
    /\ HandleFor(table) \in Handle
    /\ Cardinality({h \in Handle : Issued(table, h)}) < MaxJobs

\* scheduler-dispatch!, and scheduler-at! or scheduler-after!.
Dispatch ==
    /\ ClientRuns /\ Room
    /\ table' = Activate(table, "immediate", 0, NoBlock)
    /\ UNCHANGED <<owner, pool, counters, shutdown, memory, allocated, worker,
                   signal, calls, runs, asked, background>>

At(deadline) ==
    /\ ClientRuns /\ Room
    /\ table' = Activate(table, "timer", deadline, NoBlock)
    /\ UNCHANGED <<owner, pool, counters, shutdown, memory, allocated, worker,
                   signal, calls, runs, asked, background>>

\* condition-notify-one!: some waiting worker, if there is one.
NotifyNone == worker' = worker

NotifyOne ==
    LET waiting == {w \in Worker : worker[w].at = "waiting"}
    IN  IF waiting = {} THEN worker' = worker
        ELSE \E w \in waiting : worker' = [worker EXCEPT ![w].at = "take"]

\* scheduler-spawn-priority! with pool-enqueue!.  wakes is wake-enabled at the
\* time of the call.  Without workers, or without memory, it changes nothing.
Spawn(q, patient, wakes) ==
    /\ ClientRuns /\ Room
    /\ Started # {}
    /\ \E b \in Block \ allocated :
        /\ allocated' = allocated \cup {b}
        /\ memory' = [memory EXCEPT ![b] =
                        [ZeroedWork EXCEPT !.job = HandleFor(table),
                                           !.patient = patient,
                                           !.wakes = wakes]]
        /\ table' = Activate(table, "work", 0, b)
        /\ pool' = Lanes!LaneEnqueue(pool, q, b)
    /\ NotifyOne
    /\ background' = background \cup {HandleFor(table)}
    /\ UNCHANGED <<owner, counters, shutdown, signal, calls, runs, asked>>

\* scheduler-cancel! of a handle the program was given, stale or not.
Cancel(h) ==
    /\ ClientRuns
    /\ Issued(table, h)
    /\ asked' = asked \cup {h}
    /\ IF ~Live(table, h) THEN UNCHANGED <<table, memory>>
       ELSE IF table.jobs[h.slot].kind = "work"
            THEN /\ memory' = [memory EXCEPT ![table.jobs[h.slot].background].cancel = TRUE]
                 /\ UNCHANGED table
            ELSE /\ table' = EmptySlot(table, h.slot)
                 /\ UNCHANGED memory
    /\ UNCHANGED <<owner, pool, counters, shutdown, allocated, worker, signal,
                   calls, runs, background>>

-----------------------------------------------------------------------------
(* scheduler-poll-at!, one slot at a time. *)

PollStart(now) ==
    /\ owner.at = "idle"
    /\ owner' = [at |-> "polling", slot |-> 1, bound |-> Len(table.jobs),
                 now |-> now, block |-> NoBlock]
    /\ UNCHANGED <<table, pool, counters, shutdown, memory, allocated, worker,
                   signal, calls, runs, asked, background>>

\* The slot the loop is at; callbacks may have added slots behind the bound.
AtSlot == owner.at = "polling" /\ owner.slot \in DOMAIN table.jobs

SlotJob == table.jobs[owner.slot]

Done(i) == memory[table.jobs[i].background].done

PollSkip ==
    /\ AtSlot
    /\ ~Due(table, owner.slot, owner.now)
    /\ SlotJob.kind = "work" => ~Done(owner.slot)
    /\ owner' = [owner EXCEPT !.slot = @ + 1]
    /\ UNCHANGED <<table, pool, counters, shutdown, memory, allocated, worker,
                   signal, calls, runs, asked, background>>

\* A foreground job or timer: the slot is free before the callback runs.
PollForeground ==
    /\ AtSlot
    /\ Due(table, owner.slot, owner.now)
    /\ calls' = [calls EXCEPT ![HandleOf(table, owner.slot)] = @ + 1]
    /\ table' = EmptySlot(table, owner.slot)
    /\ owner' = [owner EXCEPT !.at = "callback"]
    /\ UNCHANGED <<pool, counters, shutdown, memory, allocated, worker, signal,
                   runs, asked, background>>

\* Published work: its completion runs, and then its block is freed.
PollWork ==
    /\ AtSlot
    /\ SlotJob.kind = "work"
    /\ Done(owner.slot)
    /\ calls' = [calls EXCEPT ![HandleOf(table, owner.slot)] = @ + 1]
    /\ table' = EmptySlot(table, owner.slot)
    /\ owner' = [owner EXCEPT !.at = "callback", !.block = SlotJob.background]
    /\ UNCHANGED <<pool, counters, shutdown, memory, allocated, worker, signal,
                   runs, asked, background>>

CallbackReturnsLeaking ==
    /\ owner.at = "callback"
    /\ owner' = [owner EXCEPT !.at = "polling", !.slot = @ + 1, !.block = NoBlock]
    /\ UNCHANGED <<table, pool, counters, shutdown, memory, allocated, worker,
                   signal, calls, runs, asked, background>>

CallbackReturns ==
    /\ owner.at = "callback"
    /\ allocated' = allocated \ {owner.block}
    /\ owner' = [owner EXCEPT !.at = "polling", !.slot = @ + 1, !.block = NoBlock]
    /\ UNCHANGED <<table, pool, counters, shutdown, memory, worker, signal,
                   calls, runs, asked, background>>

\* The loop's bound is the length of the table, read before or during it.
PollEnd ==
    /\ owner.at = "polling"
    /\ owner.slot > owner.bound
    /\ owner' = OwnerAt("idle")
    /\ UNCHANGED <<table, pool, counters, shutdown, memory, allocated, worker,
                   signal, calls, runs, asked, background>>

-----------------------------------------------------------------------------
(* The owner's frame loop sleeps on the semaphore the wake callback signals, *)
(* for 100 ms at most.                                                        *)

Sleep ==
    /\ owner.at = "idle"
    /\ ~signal
    /\ owner' = OwnerAt("asleep")
    /\ UNCHANGED <<table, pool, counters, shutdown, memory, allocated, worker,
                   signal, calls, runs, asked, background>>

\* A signal ends the sleep, or the wait that would have started it.
Roused ==
    /\ owner.at \in {"idle", "asleep"}
    /\ signal
    /\ signal' = FALSE
    /\ owner' = OwnerAt("idle")
    /\ UNCHANGED <<table, pool, counters, shutdown, memory, allocated, worker,
                   calls, runs, asked, background>>

TimedOut ==
    /\ owner.at = "asleep"
    /\ owner' = OwnerAt("idle")
    /\ UNCHANGED <<table, pool, counters, shutdown, memory, allocated, worker,
                   signal, calls, runs, asked, background>>

-----------------------------------------------------------------------------
(* scheduler-free!. *)

\* Every unfinished background job is asked to stop,
FreeBegin ==
    /\ owner.at = "idle"
    /\ memory' = [b \in Block |->
                    IF \E i \in WorkSlots(table) : table.jobs[i].background = b
                    THEN [memory[b] EXCEPT !.cancel = TRUE]
                    ELSE memory[b]]
    /\ owner' = OwnerAt("stopping")
    /\ UNCHANGED <<table, pool, counters, shutdown, allocated, worker, signal,
                   calls, runs, asked, background>>

\* then the pool is told and every waiting worker notified,
FreeShutdownQuiet ==
    /\ owner.at = "stopping"
    /\ shutdown' = TRUE
    /\ owner' = OwnerAt("joining")
    /\ UNCHANGED <<table, pool, counters, memory, allocated, worker, signal,
                   calls, runs, asked, background>>

FreeShutdown ==
    /\ owner.at = "stopping"
    /\ shutdown' = TRUE
    /\ worker' = [w \in Worker |->
                    IF worker[w].at = "waiting"
                    THEN [worker[w] EXCEPT !.at = "take"] ELSE worker[w]]
    /\ owner' = OwnerAt("joining")
    /\ UNCHANGED <<table, pool, counters, memory, allocated, signal, calls,
                   runs, asked, background>>

\* and once every worker is joined the blocks of the jobs still in the table
\* are freed, the pool and the table with them.
FreeRelease ==
    /\ owner.at = "joining"
    /\ \A w \in Started : worker[w].at = "stopped"
    /\ allocated' = allocated \ {table.jobs[i].background : i \in WorkSlots(table)}
    /\ owner' = OwnerAt("freed")
    /\ table' = [table EXCEPT !.active = 0]
    /\ UNCHANGED <<pool, counters, shutdown, memory, worker, signal, calls,
                   runs, asked, background>>

-----------------------------------------------------------------------------
(* The workers: pool-worker-entry and pool-take!. *)

Goes(w, from, to) ==
    /\ worker[w].at = from
    /\ worker' = [worker EXCEPT ![w].at = to]

\* pool-take! with the mutex held: work, or the end, or a wait.
TakeWork(w) ==
    /\ worker[w].at = "take"
    /\ Lanes!Served(pool) # "none"
    /\ pool' = Lanes!AfterPop(pool)
    /\ worker' = [worker EXCEPT ![w] =
                    [at |-> "taken", block |-> Lanes!Popped(pool),
                     job |-> memory[Lanes!Popped(pool)].job]]
    /\ UNCHANGED <<table, owner, counters, shutdown, memory, allocated, signal,
                   calls, runs, asked, background>>

TakeStop(w) ==
    /\ Goes(w, "take", "stopped")
    /\ Lanes!Served(pool) = "none"
    /\ shutdown
    /\ pool' = Lanes!AfterPop(pool)
    /\ UNCHANGED <<table, owner, counters, shutdown, memory, allocated, signal,
                   calls, runs, asked, background>>

TakeWait(w) ==
    /\ Goes(w, "take", "waiting")
    /\ Lanes!Served(pool) = "none"
    /\ ~shutdown
    /\ pool' = Lanes!AfterPop(pool)
    /\ UNCHANGED <<table, owner, counters, shutdown, memory, allocated, signal,
                   calls, runs, asked, background>>

\* A wait may end without a notification.
SpuriousWakeup(w) ==
    /\ Goes(w, "waiting", "take")
    /\ UNCHANGED <<table, owner, pool, counters, shutdown, memory, allocated,
                   signal, calls, runs, asked, background>>

Begin(w) ==
    /\ Goes(w, "taken", "running")
    /\ counters' = [counters EXCEPT !.running = @ + 1]
    /\ runs' = [runs EXCEPT ![worker[w].job] = @ + 1]
    /\ UNCHANGED <<table, owner, pool, shutdown, memory, allocated, signal,
                   calls, asked, background>>

\* The worker function returns, patient work only after it saw the flag, and
\* the two counters are moved (a scheduler-stats between them is not modelled).
Leave(w) ==
    /\ Goes(w, "running", "left")
    /\ memory[worker[w].block].patient => memory[worker[w].block].cancel
    /\ counters' = [running |-> counters.running - 1,
                    completed |-> counters.completed + 1]
    /\ UNCHANGED <<table, owner, pool, shutdown, memory, allocated, signal,
                   calls, runs, asked, background>>

StoreAndPublish(w) ==
    /\ Goes(w, "left", "stored")
    /\ memory' = [memory EXCEPT ![worker[w].block].result = worker[w].job,
                                ![worker[w].block].done = TRUE]
    /\ UNCHANGED <<table, owner, pool, counters, shutdown, allocated, signal,
                   calls, runs, asked, background>>

StoreNothing(w) ==
    /\ Goes(w, "left", "stored")
    /\ UNCHANGED <<table, owner, pool, counters, shutdown, memory, allocated,
                   signal, calls, runs, asked, background>>

StoreResult(w) ==
    /\ Goes(w, "left", "stored")
    /\ memory' = [memory EXCEPT ![worker[w].block].result = worker[w].job]
    /\ UNCHANGED <<table, owner, pool, counters, shutdown, allocated, signal,
                   calls, runs, asked, background>>

Wake(w) ==
    /\ Goes(w, "stored", "woken")
    /\ signal' = (signal \/ memory[worker[w].block].wakes)
    /\ UNCHANGED <<table, owner, pool, counters, shutdown, memory, allocated,
                   calls, runs, asked, background>>

\* After this store the owner may free the block.
Publish(w) ==
    /\ worker[w].at = "woken"
    /\ memory' = [memory EXCEPT ![worker[w].block].done = TRUE]
    /\ worker' = [worker EXCEPT ![w] = NoWork]
    /\ UNCHANGED <<table, owner, pool, counters, shutdown, allocated, signal,
                   calls, runs, asked, background>>

WorkerStep(w) ==
    \/ TakeWork(w) \/ TakeStop(w) \/ TakeWait(w)
    \/ Begin(w) \/ Leave(w) \/ StoreResult(w) \/ Wake(w) \/ Publish(w)

PollStep == PollSkip \/ PollForeground \/ PollWork \/ CallbackReturns \/ PollEnd

FreeStep == FreeShutdown \/ FreeRelease

Next ==
    \/ Dispatch
    \/ \E d \in Deadlines : At(d)
    \/ \E q \in UsedLanes, patient \in Patience, wakes \in Wakes :
          Spawn(q, patient, wakes)
    \/ \E h \in Handle : Cancel(h)
    \/ \E now \in Times : PollStart(now)
    \/ PollStep
    \/ Sleep \/ Roused \/ TimedOut
    \/ FreeBegin \/ FreeStep
    \/ \E w \in Worker : WorkerStep(w) \/ SpuriousWakeup(w)

Spec == Init /\ [][Next]_vars

\* Threads run (a worker function returns, or returns once cancelled, and a
\* callback returns); the frame loop polls every frame, which comes after
\* 100 ms at the latest; nothing makes the program call anything else.
FairSpec ==
    /\ Spec
    /\ \A w \in Worker : WF_vars(WorkerStep(w))
    /\ WF_vars(PollStep) /\ WF_vars(FreeStep) /\ WF_vars(TimedOut)
    /\ SF_vars(\E now \in Times : PollStart(now))
-----------------------------------------------------------------------------
(* Properties. *)

\* Between taking work and publishing it, a worker reads and writes the block
\* it took: the block is still allocated, and still to the same job.  The
\* owner frees blocks from polls and from scheduler-free!, and malloc hands
\* them out again, while workers run.
NoUseAfterFree ==
    \A w \in Worker :
        worker[w].block # NoBlock =>
            /\ worker[w].block \in allocated
            /\ memory[worker[w].block].job = worker[w].job

\* Every allocated block is owned by exactly one job of the table or by the
\* completion being called: nothing leaks, and nothing is freed twice.
BlocksOwnedOnce ==
    LET held == IF owner.at = "freed" THEN {} ELSE WorkSlots(table)
    IN  /\ allocated = {table.jobs[i].background : i \in held}
                        \cup ({owner.block} \ {NoBlock})
        /\ \A i, j \in held :
              table.jobs[i].background = table.jobs[j].background => i = j
        /\ \A i \in held : table.jobs[i].background # owner.block

\* No callback and no worker function runs twice for one handle, and a
\* completion runs only after its worker function.  Publication comes last:
\* published work has run exactly once and carries the result of its own job,
\* and the statistics count every completion the owner was ever told of.
CompletionsExact ==
    LET published == {b \in allocated : memory[b].done}
    IN  /\ \A h \in Handle :
              /\ calls[h] <= 1 /\ runs[h] <= 1
              /\ h \in background /\ calls[h] = 1 => runs[h] = 1
        /\ \A b \in published : /\ memory[b].result = memory[b].job
                                /\ runs[memory[b].job] = 1
        /\ Cardinality({memory[b].job : b \in published}
                         \cup {h \in background : calls[h] > 0})
              <= counters.completed

\* No job waits in a lane while a worker sleeps: for every queued block some
\* worker is on its way to the lanes, whatever notifications were spent on
\* workers that found the lanes emptied by others.
NoSleeperBesideWork ==
    (\E w \in Worker : worker[w].at = "waiting") =>
        Lanes!Depth(pool) <= Cardinality({w \in Worker : worker[w].at = "take"})

\* The promise of JobLifecycle: the fate of a handle is read off the table and
\* what was called.
Fate(h) ==
    IF ~Issued(table, h) THEN "none"
    ELSE IF Live(table, h)
         THEN IF owner.at = "freed" THEN "dropped" ELSE "pending"
    ELSE IF calls[h] > 0 THEN "delivered"
    ELSE "withdrawn"

Lifecycle == INSTANCE JobLifecycle
             WITH fate <- [h \in Handle |-> Fate(h)], open <- owner.at # "freed"

KeepsPromise == Lifecycle!Spec

\* Once asked to free, the scheduler stops: workers drain the lanes and are
\* joined, patient work because its flag was set first.
FreeTerminates == owner.at = "stopping" ~> owner.at = "freed"

\* Work that waits for a cancellation nobody asked for.
Stuck(h) ==
    /\ Live(table, h)
    /\ LET b == table.jobs[h.slot].background
       IN  b # NoBlock /\ memory[b].patient /\ ~memory[b].cancel

\* As long as no work stays stuck (every worker could be waiting in one), each
\* job is delivered, withdrawn or dropped in the end: it is not forgotten in a
\* lane, beside a sleeping worker, or unpolled.  Timers wait for their time.
EventuallySettled ==
    (\A h \in Handle : []<>~Stuck(h)) =>
        \A h \in Handle :
            (Live(table, h) /\ table.jobs[h.slot].kind # "timer")
              ~> (~Live(table, h) \/ owner.at = "freed")
=============================================================================
