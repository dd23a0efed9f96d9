# TLA+ models of the Coil experiments

The repository is a collection of languages, applications and runtime
experiments written in Coil. Most of it is sequential code that maps one text or
tree to another. The parts with a life of their own, where the order of events
decides what happens, are runtimes: a cooperative task scheduler with the
three dialects built on it (csp, async, dataflow), the job system of the
`coil_gpui` user-interface library, with a pool of threads, typed futures and
task scopes, and live code replacement: functions that may be blocked, values
that migrate to another layout while threads use them, and a host that takes
saved files into a running program. Those are what this directory models, checks
with TLC and proves with TLAPS.

Contents: [the system](#the-system) ·
[modules](#modules-and-how-they-follow-the-code) ·
[runs](#runs) · [fairness](#fairness) · [observations](#observations) ·
[proofs](#proofs) · [what is not modelled](#what-is-not-modelled)

Paths below are relative to the repository; `coop/`, `csp/`, `async/`,
`dataflow/`, `coil_gpui/`, `manual-live/`, `live/`, `live-hooks/` and
`heap-inspector/` are under `src/experiments/`.

## The system

### One thread: tasks, channels, futures, equations

| Component | State it keeps | Operations | What makes it correct |
|---|---|---|---|
| cooperative scheduler, `coop/scheduler.coil` | run queue and wait queues (intrusive lists through `Task.next` and `Task.wait-next`), three flags per task, `live` and `steps` counters | `task-init!`, `task-park!`, `task-wake!`, `wait-queue-wake-one!`, `wait-queue-wake-all!`, `task-complete!`, `scheduler-run!` | no task lost or linked twice, the verdict of `scheduler-run!` is exact, cooperative fairness |
| csp, `csp/csp.coil` | a ring buffer per channel, a wait queue per side, `closed` | `channel-send-step!`, `channel-receive-step!`, `channel-close!`; `defprocess` compiles a process to a clause table | first in first out, exactly once; no lost wake-up; a closed channel drains and releases who is parked |
| async, `async/async.coil` | a job per call: result, `complete`, waiters, resume state | launch, `future-await!`, `future-complete!`, `future-result`, `future-destroy!` | all waiters resume, none early; nothing touches a destroyed job; a reported deadlock is real |
| dataflow, `dataflow/dataflow.coil` | single-assignment variables, rules parked on unbound inputs | `dataflow-bind!`, `dataflow-rule-step`, the program `oz` generates, `dataflow-resolve!`, `dataflow-finish!` | determinism: one result in every order; single assignment; aborts exactly when a dependency cannot be resolved |

The dialects are clients of the scheduler. They call it from inside a step
function, and a step runs from the head of the run queue to its return without
interruption, so a whole turn is one atomic action for csp and dataflow. What is
hard here is order: a woken task is only put at the tail of the run queue, and
other tasks run before it retries.

### Several threads: the jobs of `coil_gpui`

| Component | State it keeps | Operations | What makes it correct |
|---|---|---|---|
| slot table, `coil_gpui/scheduler.coil` | jobs in reused slots with generations, an `active` count | dispatch, timers, spawn, cancel, poll | a handle names one job for ever; each job ends in one way, once |
| worker pool, same file | three lists, depth counters and a service ticket under one mutex and a condition; atomics `done`, `cancel`, `running`, `completed`; heap blocks that change hands | `pool-enqueue!`, `pool-pop-weighted!`, `pool-take!`, `pool-worker-entry`, `scheduler-free!` | no use after free, no leak, no double free; no worker sleeps beside work; shutdown terminates; bounded starvation |
| futures, `coil_gpui/future.coil` | a `FutureCore` with two references, an atomic state and a result | spawn, take, cancel, free, drop, the completion a poll calls | freed with the last reference; each result taken or destroyed once; ready means takeable |
| task scopes, `coil_gpui/scheduler.coil` | a list of handles that go stale, `closed` | start through a scope, prune, cancel, free | cancelling reaches all jobs of the scope and no other; a cancelled scope drains |

The owner thread hands a malloc'ed block to a worker through the lanes. The
worker publishes it with one atomic store of `done` and never touches it again,
the owner polls `done`, calls the completion and frees the block. The wake
callback signals the semaphore of the frame clock so that the owner polls soon.

### Live code: cells, leases, a host

| Component | State it keeps | Operations | What makes it correct |
|---|---|---|---|
| deferred function errors, `manual-live/blocked.coil` | per function: atomic state and implementation pointer, a count of waiters, an event with a generation | block, publish, call, close | no wake-up lost; a call runs what is published at that moment, or met a gap; the waiters are counted exactly |
| manual-live runtime, `manual-live/runtime.coil` | `writer` and `readers`, `handle-count`, handles with schema, payload and borrows, staged payloads, the epoch | `enter!`, `exit!`, `handle-new!`, borrow and release, `migrate-type!`, `runtime-destroy!` | leases and migrations exclude each other; a migration is all or nothing, leaks nothing and keeps every reference |
| live ledger, `live/ledger.coil` | the forms of an accepted version | duplicates, the diff of two versions | what is sent turns the accepted version into the new one |
| live host, `live/host.coil`, `live/project.coil`, transactions of `heap-inspector/controller.coil` | accepted ledger, verdict with the digest it describes, the host lock, the controller's phase | polls, checks, applications, the pre-commit comparison, commit and roll-back | a live verdict names what runs; every save is answered |
| live hooks, `live-hooks/hooks.coil` | a registration, the generations published and served | register, count, `pump!` | the program hears of every publication |

Callers of a blocked function park on its event; readers of a live graph and the
migrating controller meet at two atomics; the host's watcher, its clients and
whoever saves files meet at the file system, and the published callback hands
over to the program's own thread through the hook.

### The rest

Everything else is listed, with the reason it is left out, under
[what is not modelled](#what-is-not-modelled).

## Modules and how they follow the code

```
CoopTasks ─┬─ CoopScheduler ── MCCoopScheduler      WorkLanes ─┬─ PriorityLanes ── MCPriorityLanes
           ├─ CspChannels ── CspProcesses ── MCCspProcesses    └─ WorkerPool ── (refines) JobLifecycle
           ├─ AsyncFutures ── MCAsyncFutures         JobSlots ─┬─ WorkerPool
           └─ Dataflow ── MCDataflow                           └─ TaskScopes
                                                     Futures
BlockedCells ── (refines) FunctionGate
ManualLive ─┬─ (refines) LiveGraph                   LiveLedger ─┬─ LiveHost ── MCLiveHost
            └─ MCManualLive                          LiveHooks ──┘

Proofs: CoopTasks_proofs ─┬─ CoopScheduler_proofs    WorkerPool_proofs
                          ├─ CspProcesses_proofs     GpuiScheduler_proofs (PriorityLanes, Futures, TaskScopes)
                          ├─ AsyncFutures_proofs     LiveCode_proofs (BlockedCells, ManualLive, LiveHost)
                          └─ Dataflow_proofs
```

Modules that one proof module speaks of have their own names for the
specification: `LanesSpec`, `FuturesSpec`, `CellsSpec`, `HostSpec`, where the others
have `Spec`, `Init` and `Next`.

Some modules also hold one-operator variants of a definition with an evident slip in it
(`EnqueueAtHead`, `TakeKeepsFlag`, `StoreAndPublish`, ...). No action uses them;
each is the form of its neighbour under which some property fails.

**CoopTasks** has one operator per function of `coop/scheduler.coil`, from the
scheduler record before the call to the record after it; a caller composes them
in the order the code calls them. The lists are sequences, because no operation reaches
into the middle of one. The loops of `wait-queue-wake-all!` and of a program that
starts its tasks one after the other (`Started`) are recursive functions.

**CoopScheduler** is `scheduler-run!` as separate actions (the loop's take, the
step's calls one by one, its return) with the most general client: any task may
be started at any point, a step may wake anyone and start tasks before it parks,
completes or just returns. The only contract on the client is the one generated
code keeps: after parking or completing itself a step returns. `passed` is a
history variable for the fairness property.

**CspChannels** adds channels to the record: a ring with head, tail and count,
not a sequence, since wrapping is what could go wrong. **CspProcesses** runs every program of
`MaxOps` operations per process; a parked operation is retried, as `defprocess`
leaves the program counter unchanged.

**AsyncFutures** leaves the bodies open: a transition may launch, await,
complete its own future last, and destroy a completed future nobody will read
(the rule the source states at `async/async.coil:9`). `resume` is the
continuation that `future-await!` stores before it parks, and `memory` follows
malloc and free of each job.

**Dataflow** holds every graph of `N` equations and every body of `MaxForms`
forms. Each equation and variable has the name of the Task or WaitQueue it embeds.
A turn is one action; integers wrap at `Half` (2^63 on `i64`) and division truncates.
`Solution` is a reference with no scheduler in it: the fixed point of the equations over what the
body bound.

**WorkLanes** is what the pool's mutex guards. **PriorityLanes** drives it by
every order of enqueues and selections, with counters that remember who waited
how long.

**JobSlots** is the owner's table, an operator per function. **WorkerPool**
composes it with the lanes and the threads: a critical section is one action,
every atomic a worker touches outside it is an action of its own (taken,
running, left, stored, woken, published), a poll goes slot by slot with
callbacks that may call back into the scheduler, and `scheduler-free!` is three
steps (flag, shut down, join and release). Condition waits may end spuriously,
`notify_one` picks any waiter, any subset of the threads may have failed to start.
`JobLifecycle` is the abstract promise: a job is delivered, withdrawn or dropped,
once, and a cancellation touches only its own handle. `Fate` is the refinement
mapping.

**Futures** models `coil_gpui/future.coil` over that promise: the job is a
small state machine, and the stores of a completion are separate from the steps of a
`Future` that is taken or dropped on another thread.

**TaskScopes** puts scopes over JobSlots; calls are atomic because they all run
on the owner thread, and `task-scope-prune!` is the code's in-place compaction,
read index and write index included.

**BlockedCells** is `blocked.coil` access by access: `block!` and `publish!` are
two stores and a notification each, `close!` a test, two stores and the
destruction of the event, a call up to eight accesses. A call may begin and go
on whatever the controller does, and `close!` tests only the count, as in the
code; a caller it overtakes then uses a destroyed event, with any outcome
(`StrayStep`). `exposed` remembers which calls met a cell that was neither ready
nor blocked. **FunctionGate** is what is kept to callers, without cells, events
or generations: a gate that is open, holds its calls or is in one of three gaps,
unpublished, withdrawn and shut. The mapping reads the gate off the state and
the pointer together. Its promise is weaker than the one in the source, which
knows no withdrawal ([observations](#observations)).

**ManualLive** is the gate (`enter!`, `pause!`, `resume!`) access by access,
`handle-new!` by its allocation, its store into the table and its increment of
`handle-count`, and, inside the gate, `migrate-type!` with every way to fail: one handle at a time while
borrows may still be released, then one step for each pass over the staged
handles. Payloads are addresses that the allocator may hand out again, so that a
stale reference would be seen. Only one thread creates (`OneCreator`): the
repository does not state this rule, but its programs and tests follow it and
`handle-new!` needs it ([observations](#observations)). **LiveGraph** is the promise: handles with
a schema and a link, and a migration that changes every schema in one step. A
link is the handle that owns the payload a reference names.

**LiveLedger** has an operator per function of `live/ledger.coil`, on sets of
forms. **LiveHost** is a poll, a check or an application from reading the first
file to the verdict: files are read and compared one by one, the compiler may
accept, reject, ask for a migration or recover in part, and a commit may be
rolled back. The digest of a text is the text. `whole` and `patched` are history
variables: whether the text being processed ever was on disk as a whole, and
whether a rejected text was published in part. **LiveHooks** is the hook's cell
and the program's thread in `pump!`, composed with the host that publishes.

Left out everywhere: the text of messages, time beyond the order of deadlines, failures of
mutex and condition calls (the code ignores their status), and overflow of
64-bit counters and generations.

## Runs

| Run | Instance | What it shows |
|---|---|---|
| `coop` | 4 tasks, 2 wait queues, deadlock checked | `HeldOnce`: no task is lost or linked twice. `VerdictExact`: true iff all completed, false only if every live task is parked. `NoOvertaking`, `QueuedGetsTurn`: cooperative fairness |
| `csp` | 3 processes, 1 channel of 2 slots, 3 operations each | `Fifo`, `NoLostWakeup` (although a third process barges in between a wake-up and the retry), `ClosedMeansDrained`, `CloseReleases` |
| `async` | 5 calls, up to symmetry | `AwaitersAccounted`: who awaits is parked on that future, and awake with its result otherwise. `NothingTouchesFreed`, `DeadlockIsReal` |
| `dataflow` | every graph of 2 equations over 3 variables, 3 forms, 12-bit integers, up to symmetry | `LeastSolution`, `GatePasses`, `AbortsExactly` |
| `lanes` | 4 blocks handed out again and again, the code's cycle of 8, 4 and 1 | `ServiceBounds`, `WorkConserving` |
| `pool` | 2 workers, 2 blocks, 2 jobs that may wait for their cancellation | `NoUseAfterFree`, `NoSleeperBesideWork`, `FreeTerminates`, `EventuallySettled` |
| `pool_jobs` | 1 worker, 4 jobs of every kind in 2 slots used twice | `BlocksOwnedOnce`, `CompletionsExact`: each result is called with once, and is complete. `KeepsPromise` (implements JobLifecycle) |
| `futures` | 3 futures | `RefsExact`, `ValueEndsOnce`, `ReadyMeansTakeable`, `Reclaimed` |
| `scopes` | 2 scopes, 2 slots used twice, 1 block, work that waits for its cancellation | `ScopeCovers`, `CancelExact`: a cancellation reaches all jobs of its scope and no other. `ScopeDrains` |
| `cells` | 2 callers, 2 implementations, 3 notifications, `close!` at any time | `NoSleeperMissed`, `GateKept` (implements FunctionGate with its gaps), `CallsReturn` |
| `migration` | 2 threads of which one creates, 2 handles, 4 payloads, 2 schemas, 1 migration that succeeds and any number that fail | `LeaseExcludes`, `Owned`: nothing leaks, nothing dangles. `GraphKept` (implements LiveGraph), `MigrationEnds` |
| `live_host` | 2 files with 7 versions, 1 request, polls | `LiveIsTrue`, `SavesAnswered`, `HookHears` |

Each property is stated in words above its definition. Every module has a type
invariant `TypeOK`; where it is not listed above it is proved, or it was checked
on the same instance and can be put into the cfg.

**Why the bounds are enough.** *Coop*: a list operation sees at most a head, a middle
and a tail, and the fourth task is the one that runs; two queues let a task be in the wrong one.
*csp*: two slots wrap, three processes are the two sides and a barger; the third
operation is the first after a retry. *async*: five
calls make a chain, a fan-in and a cycle beside a task that keeps running.
*dataflow*: two equations over three variables chain, share an input, share an
output, feed back; -70 * 70 leaves 12 bits and shows the rounding of division. *lanes*: one
lane needs a competitor in each of the others and one block to spare; the ticket
runs through its whole cycle. *pool*: two workers race for one notification and
two jobs follow each other through a worker. With two slots used once and two blocks no block is
handed out again there: `pool_jobs` reuses them, and the theorem covers any
number. Three lanes are `lanes`' question, so that one is used here.
*pool_jobs*: one worker suffices, since the races of two are `pool`'s; slots
and blocks are used twice so that stale handles exist. *futures*: cores share
only the owner thread's current completion, so two would do; the third makes a completion
run while two handles are released. *scopes*: a slot that passes from one scope
to the other is the smallest case of a stale handle. *cells*: every property
speaks of one caller and the controller, the second caller is who else counts
itself; three notifications are a publication, a block and a repair, with a
caller that slept through two of them, and one that `close!` overtakes needs no more. *migration*: two handles make a shared
reference, a self-reference and a cycle; four payloads let both be staged, and
an address be reused afterwards; two threads are one that drains and one that
comes late. *live_host*: two files are the smallest text that can be torn; the
versions are readable, unreadable, duplicated, removed and changed; two polls
before a retry are one that waits and one that acts.

`CHECK_DEADLOCK FALSE` stands where a program or a bound ends: a finished or
deadlocked set of tasks, spent operations, a freed scheduler, or slots used up.

## Fairness

* `coop`: weak fairness of the loop's take and of a step's return. There is one
  thread, the loop has nothing to wait for while the run queue is not empty, and generated steps
  are straight-line code. Nothing makes a step park, complete or call anything.
* `csp`: weak fairness of the next turn, the same loop.
* `pool`: weak fairness of each worker thread (the operating system runs it, a
  worker function returns, or does once cancelled), of the owner inside a poll
  and inside `scheduler-free!`; the frame loop polls again and again: its
  sleep ends after 100 ms, and strong fairness of the poll itself covers that
  the program's own calls come in between. Nothing makes the program spawn,
  cancel or free. `EventuallySettled` assumes that no work waits for ever for a
  cancellation nobody requests, since such work may occupy every worker.
* `futures`: workers return, polls deliver what is published (strong: other
  completions come in between), a completion and a release run to their end.
* `scopes`: work that may return does, and polls reach every slot.
* `cells`: each caller goes on, and so does an operation of the controller once
  it began; nobody has to call, publish or close, and what is asked of a
  destroyed event need not come back. `CallsReturn` is about functions that stay
  unblocked, and excepts callers left with a destroyed event.
* `migration`: threads that are in `enter!` or `handle-new!` go on (weak), those in
  a lease leave it, however often they create before (strong; a program that
  never left would stop every migration), and the controller goes on; nobody has to enter, release or migrate. A thread that
  keeps entering does not delay a migration: it backs off.
* `live_host`: the watcher polls and the compiler answers, with one weak fairness
  for whoever holds the host lock, and the program calls `pump!`; nobody has to
  save, send requests or register a hook.

The other runs check safety only.

## Observations

What the work on the models showed of the code, apart from the properties; none
of it is a run.

*Pool and futures.* A worker calls the wake callback
(`coil_gpui/scheduler.coil:232`) before it stores `done` (236), while the comment
at line 343 says "only after atomically publishing completion": the owner can be
woken, find nothing, and sleep again beside a finished job until its 100 ms
timeout, which is why `pool` assumes that sleeps end. `scheduler-free!`
(563) frees the blocks in its table without calling completions, so that the
result of a job nobody polled reaches neither `future-take!` nor the destructor
(`coil_gpui/main.coil:1664` frees in that order); `ValueEndsOnce` counts it as
forgotten. The README of `coil_gpui` (324) says that the demo owns its checksum
job through a task scope; `main.coil` uses a typed future.

*Dataflow.* A rule whose result conflicts with a bound variable drops the
`BindResult` (`dataflow/dataflow.coil:75`), while
`docs/CONCURRENCY_METAPROGRAMS.md:279` says conflicting unification is explicit;
`LeastSolution` speaks of graphs in which no equation conflicted.

*Blocked functions.* A call that overlaps the two stores of `block!`
(`blocked.coil:69-71`) reads READY and then the null pointer. `blocked-i64-call`
refuses it with -701, and `blocked-wait-implementation` returns null to a gate
generated by `blocked_meta.coil` (46-50), which calls it without looking. The
source says otherwise three times: "a caller observing Ready must observe the
complete implementation publication" (`blocked.coil:80`), the wait "returns only
after a same-lineage implementation is Ready" (98), and the gate "invokes that
implementation exactly once" (`manual-live/README.md:78-81`). FunctionGate has this as its
gap `withdrawn`: `GateKept` passing means that there is no other way to be
refused, not that the sentences hold. What holds of them is
`UnexposedCallsInvoke`: a call that met no gap returns by invoking what is
published at that moment. `close!` (172) tests the count of waiters before it
stores CLOSED and destroys the event, and a caller that has read BLOCKED counts itself later
(118, 154): it passes the test unseen and waits on a destroyed event, which
nobody notifies.

*Migration.* Only references inside the migrated payloads are rewritten: one
from a payload of another type dangles afterwards, although the comment at
`runtime.coil:422` calls the retired allocations unreachable, and one to another
type stops the migration with -5. The model has references to the own type only,
which is what `main.coil` and the metaprograms produce. `handle-new!`
loads `handle-count`, stores there and increments (`runtime.coil:228-229`)
without a lock, while leases are shared: with two threads in `Creators` and
without `OneCreator`, TLC finds a state after 14 steps in which `Owned` is false,
both having stored at one index. `runtime-destroy!` does
not look at borrows. A thread that migrates inside its own lease waits for itself.

*Live host.* A file that is saved during an application and then restored
leaves the verdict at "pending" (`host.coil:497`), because its digest is that of
the text that was rejected; in the model texts do not come back. A deferred
application may publish part of a rejected text, which the accepted ledger does
not know: after a revert the verdict is "live" though parts of the rejected
text still run. `~patched` excludes this, and all that follows it, from `LiveIsTrue`,
which `live/README.md:73` states without exception. A `migrate` form
that is saved before its type changes is taken up alone, and does not
count when the change comes. `pump!` without a hook marks the generation as served,
so that a hook registered afterwards does not run for it. The header of
`live-hooks/hooks.coil` (9) says that the hook runs on the publisher's thread;
`pump!` (100-108) calls it on the program's.

## Proofs

Eleven components are proved for every value of their constants, with no bound on
tasks, channels, equations, workers, blocks, scopes, futures, callers, payloads, files or steps. `tlapm` checks every leaf.

**CoopTasks_proofs** has no theorem of its own: its lemmas are about the
operators that four components share, for every finite set of tasks and every
set of queues (`TasksFinite`, `NoTaskIsNone`). `RecordOK` is a predicate on the
scheduler record and the current task: no task is in two lists or twice in one,
and the flags say which list it is in (`queued` exactly for members of the run
queue, who are runnable and not done; members of a wait queue are not runnable).
Each operator preserves it (`TakeOK`, `ParkOK`, `CompleteOK`, ...) and has an
effect a caller can cite (`ParkEffect`, `WakeOneEffect`, ...): what it does to the
flags and to each queue. The loops (`WakeAll`, `Started`) are recursive functions;
that they are what their recursion says, and that `RecordOK` holds after every
round, is proved by the least round at which it would not (`LeastNatural`), in
place of an induction.

**CoopScheduler_proofs**, on the same assumptions:

| Theorem | Statement |
|---|---|
| `TypeCorrect`, `NoTaskLost` | `Spec => []TypeOK`, `Spec => []HeldOnce` |
| `DoneStaysOut` | a completed task is in no queue |
| `LiveIsExact` | the live counter is the number of live tasks |
| `VerdictIsExact` | `Spec => VerdictExact` |
| `Fairness` | `Spec => []NoOvertaking` |

`HeldOnce` is not inductive: the flags decide what an operation does, so `IInv`
is `RecordOK` of the record and the task being called. An action is a
composition of operators. `VerdictExact` follows from it: with an empty run
queue and no running task, `HeldOnce` leaves only waiting tasks, and `live` is their number.
`NoOvertaking` needs one more induction, over `PassedInv`: `passed` only
holds tasks behind.

**CspProcesses_proofs**, for any finite set of processes and any channels,
capacities, values and number of operations (`CapacityPositive`,
`ChannelQueues`: each channel embeds two queues of its own; `NoOpIsNone`,
`MaxOpsNatural`, `ValuesAreSent`): `TypeCorrect`, `ChannelsAreFifo` (`Fifo`), `WakeupsAreKept`
(`NoLostWakeup`) and `ClosedIsDrained` (`ClosedMeansDrained`). There are two
arguments. *The ring*: `RingOK` says that the tail is `count` slots behind the
head; lemmas about remainders (`Slot`, `End`) turn a committed send into an
append to `Contents` and a committed receive into its tail, at every head and
through every wrap, and `Fifo` is kept by each. *The books*: `NoLostWakeup` is not inductive, because it
says neither what the parked processes wait for nor what a closed channel
holds. `Book`, for each side of each channel, says that whoever waits is at that very operation,
that nobody waits on a closed channel, and that while somebody waits everything
there is to claim is claimed by a process on its way. A turn changes the books in one of
five ways, whatever operation caused it (it keeps the queues, wakes one, parks,
empties both, or completes), and each way has its lemma. A barging process that takes
the slot of a woken one takes one slot off the left side; the woken one parks again,
one off the right.

**AsyncFutures_proofs**, for any finite set of calls and every order of
launches, awaits, completions and destructions (`FuturesAreQueues`: the queue a job
embeds): `TypeCorrect`, `AwaitersAreAccounted` (`AwaitersAccounted`),
`FreedJobsUntouched` (`NothingTouchesFreed`) and `DeadlocksAreReal`
(`DeadlockIsReal`). The invariant adds to `RecordOK` that `complete` and `done`
agree (`JobsAreTasks`), that a queue of a job holds exactly those whose
continuation reads it, while it is unfinished (`WaitersRead`), that whoever is ready has
its result (`ReadersHaveResult`), and that a block somebody will read is not
freed (`ResumeLive`). A destroyed job is complete and its turn over (`FreedOK`):
a completed task is in no list, and its own queue was emptied by its
completion. `DeadlockIsReal` follows at the end of the run: with nothing ready,
`RecordOK` leaves every unfinished job in a queue, and `WaitersRead` says whose.

**Dataflow_proofs**, for any number of equations, any graph of them, any variables,
inputs and bodies, and integers of any width (`DataflowConstants`): `TypeCorrect`,
`TheGatePasses` (`GatePasses`), `LeastSolutionReached` (`LeastSolution`) and
`AbortsAreExact` (`AbortsExactly`). The invariant says of the scheduler's side that who waits
waits for an unbound input of its own (`WaitersUnfed`), of the variables' side that
what a rule captured is still the value of its input, and its result that of its
output, unless it was dropped (`Captured`), and that nothing is bound that does
not follow from what the body bound (`KnownFollows`: every closed set of
variables contains the bound ones). When the run queue is empty, `RecordOK` and
`WaitersUnfed` leave only equations that fired or lack an input, so the bound
variables are themselves closed (`QuietClosed`). On the other side stands the
reference: after N rounds `Solution` is closed, because every round before
that satisfies one more equation (`RoundOK`), and lies in every closed set. Both
are therefore the least closed set, and their values agree round by round. The
rounds are a recursive function; that it is defined and that each
round is right are proved by the least number at which they would fail.

**GpuiScheduler_proofs** is about three modules. *PriorityLanes*, for every set of blocks and every cycle of positive
slot counts (`CycleAssumption`): `LanesTyped`, `CountersAreExact`,
`LanesAreFifo`, `NoStarvation` (`ServiceBounds`) and `NeverIdleBesideWork`
(`WorkConserving`). The bounds need `WaitBound`: how long a lane may have waited
as a function of the ticket. A lane's wait grows only on slots that ask for
another lane, so it is bounded by the number of such slots since its own last
came by. FIFO needs `LinkedOnce`: no block is linked twice, or `ahead` would forget it
at the first selection.

*TaskScopes*, for any sets of scopes and blocks and any bounds on
slots and generations (`ScopeConstants`): `TypeCorrect`, `ScopesCover`
(`ScopeCovers`) and `CancellationsExact` (`CancelExact`). `Safe` adds that the
work in the table has blocks of its own (`BlocksApart`), without which a flag
would reach a second job, that a handle not handed out yet is in no record
(`FreshIsNobodys`), and that a scope tracks only its own jobs (`TrackedOwned`).
That a cancelled scope leaves nothing rests on `ScopeCovers`, and this one on
`PrunedFacts`: the in-place compaction keeps every live handle and invents none.
`Pruned` is a recursive function; that it satisfies its recursion
(`PassDefined`) and that each pass is right after every read (`PassesRight`) are
proved by the least index at which they would fail (`LeastNatural`), in place of
an induction. `PassAdvances` is the step: a read never overtakes a write.

*Futures*, for every set of cores (`NoCoreIsNone`): `FuturesTyped`,
`ReferencesAreExact`, `LastPartyFrees`, `ResultsEndOnce`, `ReadyIsTakeable`.
The invariant `Coherent` is a relation between one core, its handle, its job,
its value and the step of its completion. Actions change one core at a time,
except for `scheduler-free!`, so each lemma compares a changed core with what it was and leaves
the others alone. What makes it inductive are `Filled`, which
follows a completion store by store (state and result disagree in between, and it
says which of the two is ahead), and `Settled`: once a job is over, its
core holds the value iff nothing has ended it yet, and a held handle that reads
ready can take it.

**WorkerPool_proofs**, for any finite sets of workers and blocks, any cycle of
positive slot counts and any bounds on slots, generations and jobs
(`PoolConstants`, `ModelledUse`):

| Theorem | Statement |
|---|---|
| `TypeCorrect` | `Spec => []TypeOK` |
| `WorkersNeverTouchFreed`, `BlocksStayOwned` | `NoUseAfterFree`, `BlocksOwnedOnce` |
| `NobodySleepsBesideWork` | `NoSleeperBesideWork` |
| `CompletionsAreExact` | `CompletionsExact` |
| `SchedulerKeepsPromise` | `Spec => KeepsPromise`: the scheduler with its threads implements JobLifecycle |

None of them is inductive alone, and no two can be separated: a block stays
allocated because only published blocks are freed, and it is not published
because the one worker that would holds it. The invariant `Safe` says where a
block can be (`HeldOnce`: queued or with one worker, unpublished in both), that
the table, the block and the worker agree on whose it is (`JobsMatch`), and for
each place how often its function has run (`RunsMatch`, `HandlesCount`).
`CompletedExact` counts the functions that returned; what the owner was told of
is a subset. For `NoSleeperBesideWork` an enqueue either notifies, one more worker on
its way for one more block, or finds nobody asleep; a take removes one of each;
and a worker only falls asleep when the lanes are empty. That the slot a new job takes is
the first free one, and was given to nobody under that generation, rests on
`LeastNatural`: the least of a set of naturals exists because the strict
inclusion of intervals is well founded.

**LiveCode_proofs** is about three modules. *BlockedCells*, for any finite set of callers (`CellConstants`):
`CellsTyped`, `WaitersCounted`, `SleepersWake` (`NoSleeperMissed`),
`CellsKeepPromise` (`GateKept`) and `UnexposedCallsInvoke`. No theorem asks a
client to stay away while the cell is closed. The inductive invariant
`Safe` says what each place of the controller knows of the two stored fields
(`StoresOrdered`), and that in a gap exactly the calls under way are exposed, so
that a call on its way to the pointer finds an implementation or is one of them
(`ExposedInGaps`). The refinement then takes one lemma for
steps of the controller and one for steps of a call: each is a step of
the gate or is not seen.

*ManualLive*, for any finite sets of threads and payloads
(`RuntimeConstants`) and one thread that creates (`OneCreator`): `TypeCorrect`, `LeasesExclude` (`LeaseExcludes`),
`LeasesSeeNoMove` (`LeaseStable`), `MemoryIsOwned` (`Owned`) and
`RuntimeKeepsGraph` (`GraphKept`). The invariant `Gated` adds that
`readers` is the number of threads between their two updates of it and that the
writer is set from `pause!` to `resume!`: when the count is 0 nobody is inside,
and who counts itself later sees the writer. `Sound` adds the heap. `Owned`
alone is not inductive: a creation has allocated a payload, and then stored a
handle, that nobody finds in the table before `handle-count` moves, and it finds
the index it stored at only because nobody else moved it (`Tabled`,
`FreshApart`); and a publication exchanges the payloads of all handles at
once, so what is staged has to be right before. Each allocated
payload is a handle's, a staged one's or one about to be retired, and no payload
has two owners (`UsedByOwners`, `OneOwner`); references name accepted payloads
(`RefsOwned`); while the job is under way, what it staged so far is disjoint from what is accepted and
covers the handles behind it (`StagedApart`, `StagedSoFar`), and at the
publication every candidate's reference is the forwarded one of the value it
replaces (`Forwarded`), which is what the refinement needs: the handle that
owns the referenced payload is the same before and after. `Replaced` says
that what is retired afterwards belongs to nobody, `NothingLeft` that an
idle runtime has nothing staged; `BorrowsCounted` and `SchemasAgree`
make a migration stage every handle with nobody borrowing it. Addresses are
reused, so that none of this follows from freshness. A migration is one step of
LiveGraph, its publication; its other steps, failures included, are not seen.

*LiveHost*, for any files and histories (`HostConstants`, and
`StartedConstants`: a program starts only from a text without duplicates):
`SubmitSuffices`, `HostTyped` and `LiveTellsTheTruth` (`LiveIsTrue`).
`SubmitSuffices` is about the ledger alone: what is sent turns the definitions of
the accepted version into those of the new one, because a definition that differs
is changed, added, removed or unsupported. `HostSound` carries it through a submission,
where the program runs the candidate before the ledger does. For the second part, `Whole`: a
snapshot never is ahead of the disk in any file, so one that was torn is behind
in some file, and the comparison has not passed that file yet.

**Only model-checked.** Liveness under fairness (`QueuedGetsTurn`,
`CloseReleases`, `FreeTerminates`, `EventuallySettled`, `Reclaimed`,
`ScopeDrains`, `CallsReturn`, `MigrationEnds`, `SavesAnswered`, `HookHears`) is out
of reach of this prover. Every safety property and refinement that the runs check is
proved.

## What is not modelled

* Of live code replacement: the coverage test of a partial generation
  (`manual-live/blocked.coil:15`), the dependency table, roots, and slices with
  their relocations (`manual-live/ownership.coil`), all sequential tables that
  the modelled protocols carry along; the start of a host session, reports, the
  status request, and projects whose set of files changes while they run; the
  compiler behind the controller, which is external.
* The demos of csp, async and dataflow: fixed programs over modelled layers.
* `heap-inspector`, `image`, `probe`, `httptap`, `debug-allocator`: chiefly
  compile-time rewriting, serialisation and I/O. Their runtime protocols are a
  mutex around counters, or the ones modelled here.
* Entities and the reactive graph of `coil_gpui`: tables with generations and an
  edge list on one thread, the former like JobSlots. The element tree, layout, text, vector graphics, Metal, input, overlays and
  accessibility: rules local to a frame, floating point and foreign code.
* The languages (`src/dialects`, Scheme, clox, `dependent`, `borrow-checker`, `react-hir-frontend`, `safety`)
  and the emulators: functions of their input, recursive over programs; the
  repository judges them by conformance and differential tests, which fit them better.
* The garbage collection dialects: sequential mark and sweep; a small model is
  possible.
* `src/apps/doom`, `emacs`, `curl-demo`, `raylib-demo`: vendored programs. Scripts, tests, benchmarks, editor
  support and documents: not part of a running program.

`PROJECT.json` lists each of them as a component, and the hazards no property
covers yet, each at its line.
