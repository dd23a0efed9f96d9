------------------------------- MODULE JobSlots -------------------------------
(***************************************************************************)
(* The slot table of a gpui Scheduler: the owner-thread half of            *)
(* src/experiments/coil_gpui/scheduler.coil.  A job lives in a slot, its   *)
(* handle names the slot and the slot's generation, and a slot is reused   *)
(* under the next generation.  The jobs and the active counter are one     *)
(* record s; slots are numbered from 1, so [slot |-> 0] is the code's      *)
(* invalid handle (slot -1).                                               *)
(***************************************************************************)
EXTENDS Integers, Sequences

CONSTANTS
    Block,      \* the BackgroundWork blocks malloc hands out
    NoBlock,    \* the null pointer
    Deadlines   \* the deadlines timers are given

\* ScheduledJob.kind: 0, 1, 2 and 3 of the code.
Kinds == {"empty", "immediate", "timer", "work"}

JobRecord ==
    [generation : Nat, kind : Kinds, deadline : Deadlines \cup {0},
     background : Block \cup {NoBlock}]

TableRecord == [jobs : Seq(JobRecord), active : Int]

EmptyTable == [jobs |-> <<>>, active |-> 0]

EmptyJob(g) ==
    [generation |-> g, kind |-> "empty", deadline |-> 0, background |-> NoBlock]

InvalidHandle == [slot |-> 0, generation |-> 0]

-----------------------------------------------------------------------------
\* scheduler-slot!: the first empty slot, under its next generation, or a new
\* slot at the end.
Free(s) == {i \in DOMAIN s.jobs : s.jobs[i].kind = "empty"}

SlotFor(s) ==
    IF Free(s) = {} THEN Len(s.jobs) + 1
    ELSE CHOOSE i \in Free(s) : \A j \in Free(s) : i <= j

NextGenerationKept(s) == IF Free(s) = {} THEN 1 ELSE s.jobs[SlotFor(s)].generation

NextGeneration(s) == IF Free(s) = {} THEN 1 ELSE s.jobs[SlotFor(s)].generation + 1

HandleFor(s) == [slot |-> SlotFor(s), generation |-> NextGeneration(s)]

\* A table with job j (its generation is the handle's) in slot i.
PutJob(s, i, j) ==
    [s EXCEPT !.jobs = IF i = Len(@) + 1 THEN Append(@, j) ELSE [@ EXCEPT ![i] = j]]

\* A job of some kind in the slot scheduler-slot! found, counted as active:
\* scheduler-activate!, and the same lines of scheduler-spawn-priority!.
Activate(s, kind, deadline, b) ==
    LET placed == PutJob(s, SlotFor(s),
                     [generation |-> NextGeneration(s), kind |-> kind,
                      deadline |-> deadline, background |-> b])
    IN  [placed EXCEPT !.active = @ + 1]

-----------------------------------------------------------------------------
\* scheduler-job: h still names the job in its slot (scheduler-handle-active?).
LiveAnyGeneration(s, h) ==
    /\ h.slot \in DOMAIN s.jobs
    /\ s.jobs[h.slot].kind # "empty"

Live(s, h) ==
    /\ h.slot \in DOMAIN s.jobs
    /\ s.jobs[h.slot].kind # "empty"
    /\ s.jobs[h.slot].generation = h.generation

\* h was handed out by some call.
Issued(s, h) ==
    /\ h.slot \in DOMAIN s.jobs
    /\ h.generation \in 1 .. s.jobs[h.slot].generation

\* The handle of the job in slot i.
HandleOf(s, i) == [slot |-> i, generation |-> s.jobs[i].generation]

\* scheduler-complete-job!, and the same lines of scheduler-cancel!: the slot
\* is empty and keeps its generation.
EmptySlot(s, i) ==
    [s EXCEPT !.jobs[i] = EmptyJob(@.generation), !.active = @ - 1]

\* The job of slot i runs on a poll at now, work aside.
Due(s, i, now) ==
    \/ s.jobs[i].kind = "immediate"
    \/ s.jobs[i].kind = "timer" /\ now >= s.jobs[i].deadline

\* The slots that hold background work.
WorkSlots(s) == {i \in DOMAIN s.jobs : s.jobs[i].kind = "work"}
=============================================================================
