------------------------------- MODULE LiveHost -------------------------------
(***************************************************************************)
(* The live host (src/experiments/live/host.coil with project.coil, and    *)
(* the transactions of src/experiments/heap-inspector/controller.coil):    *)
(* a watcher and clients that process the project's files into the running *)
(* program, while somebody saves files and the program runs its hook.      *)
(*                                                                         *)
(* Files are read one by one, and a save may fall between any two steps.   *)
(* The host lock is held from the first step of a poll or request to the   *)
(* last, so one record of work stands for whoever holds it; nobody else    *)
(* submits (file-owned sessions reject eval), so that the controller's     *)
(* lock is never contended.  The program has started.                      *)
(*                                                                         *)
(* A text is the version of each file of the project, whose graph is       *)
(* fixed, and its digest is the text itself.  The compiler is external: a  *)
(* candidate checks or not, and a commit may be rolled back; the transfer  *)
(* of code leases after it succeeds.  file-status changes nothing, and     *)
(* status files, summaries and problems are left out.                      *)
(***************************************************************************)
EXTENDS LiveLedger, LiveHooks, Sequences

CONSTANTS
    Files,          \* how many files the project has, in the graph's order
    History,        \* the versions of each file, in the order they are saved
    RetryPolls,     \* polls before an unreadable project is tried again
    MaxRequests     \* bound: applications and checks by clients

File == 1 .. Files

\* A version is [loads, forms]: whether it can be read and parsed, its forms.
ASSUME HostConstants ==
    /\ Files \in Nat \ {0} /\ RetryPolls \in Nat /\ MaxRequests \in Nat
    /\ \A f \in File : /\ Len(History[f]) > 0
                       /\ \A v \in DOMAIN History[f] :
                             /\ History[f][v].loads \in BOOLEAN
                             /\ \A x \in History[f][v].forms : x.file = f

VARIABLES
    disk,       \* the text that is saved now
    accepted,   \* the accepted ledger
    running,    \* the definitions the program runs
    verdict,    \* LiveVerdict.state and .digest, which seen always equals
    check,      \* the state of the last dry run
    condition,  \* whether the last failed dry run needed a migration
    phase,      \* LiveController.phase
    retry,      \* retry-polls, as far as it matters
    requests,   \* how many requests clients may still make
    epoch,      \* the generation of the program
    work,       \* where the holder of the host lock is, and its locals
    whole,      \* history: the text being processed was on disk as a whole
    patched     \* history: a rejected text was published in part

hostVars == <<disk, accepted, running, verdict, check, condition, phase, retry,
              requests, epoch, work, whole, patched>>
liveVars == <<hostVars, hookVars>>

Text == [File -> Nat]
Blank == [f \in File |-> 0]
Loads(text) == \A f \in File : History[f][text[f]].loads
Ledger(text) == UNION {History[f][text[f]].forms : f \in File}

\* The program started, so process-project! accepted its first text against an
\* empty ledger.
FirstText == [f \in File |-> 1]
ASSUME StartedConstants == Duplicated(Ledger(FirstText)) = {}

Verdicts == {"live", "rejected", "needs-migration", "needs-restart", "unreadable",
             "pending"}
Phases == {"checking", "errors", "committed", "rolled-back", "transition",
           "broken", "changed"}

\* "digesting" and "settling" read a digest, "reading" the snapshot.
Places == {"idle", "digesting", "polled", "settling", "settled", "reading",
           "planning", "preparing", "comparing", "committing", "signalling"}

NoWork == [at |-> "idle", dry |-> FALSE, deferred |-> FALSE, file |-> 1,
           text |-> Blank, first |-> Blank, prior |-> "committed"]

\* The snapshot is complete.
Complete == {"planning", "preparing", "comparing", "committing", "signalling"}

HostTypeOK ==
    /\ disk \in Text
    /\ verdict \in [state : Verdicts, text : Text]
    /\ check \in Verdicts \cup {"none", "would-apply"}
    /\ condition \in BOOLEAN
    /\ phase \in Phases
    /\ retry \in 0 .. RetryPolls
    /\ requests \in 0 .. MaxRequests
    /\ epoch \in Nat
    /\ work \in [at : Places, dry : BOOLEAN, deferred : BOOLEAN, file : File,
                 text : Text, first : Text, prior : Phases]
    /\ whole \in BOOLEAN /\ patched \in BOOLEAN
    /\ HooksTypeOK

\* The first version of every file was accepted as the program started.
HostInit ==
    /\ disk = FirstText
    /\ accepted = Ledger(disk)
    /\ running = DefinitionsOf(accepted)
    /\ verdict = [state |-> "live", text |-> disk]
    /\ check = "none" /\ condition = FALSE
    /\ phase = "committed"
    /\ retry = 0
    /\ requests = MaxRequests
    /\ epoch = 1
    /\ work = NoWork
    /\ whole = FALSE /\ patched = FALSE
    /\ HooksInit

-----------------------------------------------------------------------------
(* Reading. *)

Idle == work.at = "idle"

Save(f) ==
    /\ disk[f] < Len(History[f])
    /\ disk' = [disk EXCEPT ![f] = @ + 1]
    /\ UNCHANGED <<accepted, running, verdict, check, condition, phase, retry,
                   requests, epoch, work, patched, hookVars>>

\* The next file is read; after the last one the work goes on at the place.
ReadsFile(from, to) ==
    /\ work.at = from
    /\ LET text == [work.text EXCEPT ![work.file] = disk[work.file]]
       IN  work' = IF work.file < Files
                   THEN [work EXCEPT !.text = text, !.file = @ + 1]
                   ELSE [work EXCEPT !.text = text, !.file = 1, !.at = to]
    /\ UNCHANGED <<disk, accepted, running, verdict, check, condition, phase, retry,
                   requests, epoch, patched, hookVars>>

\* host-poll!: the digest of the files as they are,
PollBegin ==
    /\ Idle
    /\ work' = [NoWork EXCEPT !.at = "digesting"]
    /\ UNCHANGED <<disk, accepted, running, verdict, check, condition, phase, retry,
                   requests, epoch, patched, hookVars>>

PollDigest == ReadsFile("digesting", "polled")

\* and again after a pause when it is new, or now and then when unreadable:
Polled ==
    LET polls == IF retry < RetryPolls THEN retry + 1 ELSE retry
        due == \/ work.text # verdict.text
               \/ verdict.state = "unreadable" /\ polls >= RetryPolls
    IN  /\ work.at = "polled"
        /\ retry' = IF due THEN 0 ELSE polls
        /\ work' = IF due THEN [NoWork EXCEPT !.at = "settling", !.first = work.text]
                   ELSE NoWork
        /\ UNCHANGED <<disk, accepted, running, verdict, check, condition, phase,
                       requests, epoch, patched, hookVars>>

PollSettles == ReadsFile("settling", "settled")

\* a text that stayed is processed, strictly.
Settled ==
    /\ work.at = "settled"
    /\ work' = IF work.text = work.first THEN [NoWork EXCEPT !.at = "reading"]
               ELSE NoWork
    /\ UNCHANGED <<disk, accepted, running, verdict, check, condition, phase, retry,
                   requests, epoch, patched, hookVars>>

\* host-file-op: a check or an application under either policy.
Request(dry, deferred) ==
    /\ Idle /\ requests > 0
    /\ requests' = requests - 1
    /\ work' = [NoWork EXCEPT !.at = "reading", !.dry = dry, !.deferred = deferred]
    /\ UNCHANGED <<disk, accepted, running, verdict, check, condition, phase, retry,
                   epoch, patched, hookVars>>

\* project-read.
ReadProject == ReadsFile("reading", "planning")

-----------------------------------------------------------------------------
(* process-project! after the snapshot. *)

Candidate == Ledger(work.text)

\* A ledger that takes up what was rejected.
FinishAccepting(state, accept) ==
    /\ work' = NoWork
    /\ IF work.dry
       THEN check' = state /\ UNCHANGED <<verdict, accepted>>
       ELSE /\ verdict' = [state |-> state, text |-> work.text]
            /\ accepted' = Candidate
            /\ UNCHANGED check

\* The verdict; a dry run keeps its own.
Finish(state, accept) ==
    /\ work' = NoWork
    /\ IF work.dry
       THEN check' = state /\ UNCHANGED <<verdict, accepted>>
       ELSE /\ verdict' = [state |-> state, text |-> work.text]
            /\ accepted' = IF accept THEN Candidate ELSE accepted
            /\ UNCHANGED check

NeedsRestart ==
    Removed(accepted, Candidate) \cup Unsupported(accepted, Candidate) # {}

Submits ==
    /\ Loads(work.text)
    /\ Duplicated(Candidate) = {} /\ ~NeedsRestart
    /\ Submit(accepted, Candidate) # {}

\* The plan settles it,
PlanAnswers ==
    /\ work.at = "planning" /\ ~Submits
    /\ CASE ~Loads(work.text) -> Finish("unreadable", FALSE)
         [] Loads(work.text) /\ Duplicated(Candidate) # {} -> Finish("rejected", FALSE)
         [] Loads(work.text) /\ Duplicated(Candidate) = {} /\ NeedsRestart
              -> Finish("needs-restart", FALSE)
         [] OTHER -> Finish("live", TRUE)
    /\ UNCHANGED <<disk, running, condition, phase, retry, requests, epoch, patched,
                   hookVars>>

\* or a candidate is submitted: the phase is set before the lock is taken.
PlanSubmits ==
    /\ work.at = "planning" /\ Submits
    /\ work' = [work EXCEPT !.at = "preparing", !.prior = phase]
    /\ phase' = "checking"
    /\ UNCHANGED <<disk, accepted, running, verdict, check, condition, retry,
                   requests, epoch, patched, hookVars>>

\* The end of a submission: a check restores the phase, and the phase that is
\* found then decides the verdict.
Answer(ok, reached, needs) ==
    LET after == IF work.dry THEN work.prior ELSE reached
        state == CASE after = "changed" -> "pending"
                   [] after # "changed" /\ ok -> IF work.dry THEN "would-apply" ELSE "live"
                   [] OTHER -> IF needs THEN "needs-migration" ELSE "rejected"
    IN  /\ phase' = after
        /\ Finish(state, ok)
        /\ UNCHANGED <<disk, retry, requests>>

\* The candidate checks,
PrepareOk ==
    /\ work.at = "preparing"
    /\ work' = [work EXCEPT !.at = "comparing"]
    /\ UNCHANGED <<disk, accepted, running, verdict, check, condition, phase, retry,
                   requests, epoch, patched, hookVars>>

\* or it does not, perhaps because a layout changed,
MayNeed(needs) == needs => Unmigrated(accepted, Candidate) # {}

PrepareFails(needs) ==
    /\ work.at = "preparing" /\ MayNeed(needs)
    /\ condition' = IF work.dry THEN needs ELSE condition
    /\ Answer(FALSE, CASE needs -> "transition"
                       [] ~needs /\ work.deferred -> "broken"
                       [] OTHER -> "errors", needs)
    /\ UNCHANGED <<running, epoch, patched, hookVars>>

\* and a deferred application publishes what checks, the rest broken.
Recover ==
    /\ work.at = "preparing" /\ work.deferred /\ ~work.dry
    /\ \E good \in SUBSET DefinitionsOf(Submit(accepted, Candidate)) :
          running' = Merged(running,
             good \cup {[x EXCEPT !.tokens = "broken"] :
                           x \in DefinitionsOf(Submit(accepted, Candidate)) \ good})
    /\ epoch' = epoch + 1
    /\ hooks' = Note(hooks)
    /\ patched' = TRUE
    /\ Answer(FALSE, "broken", FALSE)
    /\ UNCHANGED <<condition, pump, told>>

\* project-precommit, file by file: all as in the snapshot,
Compare ==
    /\ work.at = "comparing" /\ disk[work.file] = work.text[work.file]
    /\ IF work.file < Files \/ ~work.dry
       THEN /\ work' = IF work.file < Files THEN [work EXCEPT !.file = @ + 1]
                       ELSE [work EXCEPT !.at = "committing"]
            /\ UNCHANGED <<disk, accepted, verdict, check, condition, phase, retry,
                           requests>>
       ELSE /\ condition' = FALSE
            /\ Answer(TRUE, phase, FALSE)
    /\ UNCHANGED <<running, epoch, patched, hookVars>>

\* A refusal that records the digest it just read as processed.
CompareDiffersFresh ==
    /\ work.at = "comparing" /\ disk[work.file] # work.text[work.file]
    /\ phase' = "changed"
    /\ verdict' = [state |-> "pending", text |-> disk]
    /\ work' = NoWork
    /\ UNCHANGED <<disk, accepted, running, check, condition, retry, requests, epoch,
                   patched, hookVars>>

\* or one was saved since.
CompareDiffers ==
    /\ work.at = "comparing" /\ disk[work.file] # work.text[work.file]
    /\ Answer(FALSE, "changed", condition)
    /\ UNCHANGED <<running, condition, epoch, patched, hookVars>>

\* The generation becomes current,
Commit ==
    /\ work.at = "committing"
    /\ running' = Merged(running, Submit(accepted, Candidate))
    /\ epoch' = epoch + 1
    /\ work' = [work EXCEPT !.at = "signalling"]
    /\ UNCHANGED <<disk, accepted, verdict, check, condition, phase, retry, requests,
                   patched, hookVars>>

\* or is rolled back;
CommitFails ==
    /\ work.at = "committing"
    /\ Answer(FALSE, "rolled-back", FALSE)
    /\ UNCHANGED <<running, condition, epoch, patched, hookVars>>

\* the published callback counts it.
Signal ==
    /\ work.at = "signalling"
    /\ hooks' = Note(hooks)
    /\ Answer(TRUE, "committed", FALSE)
    /\ UNCHANGED <<running, condition, epoch, patched, pump, told>>

-----------------------------------------------------------------------------
HostStep ==
    \/ PollDigest \/ Polled \/ PollSettles \/ Settled \/ ReadProject
    \/ PlanAnswers \/ PlanSubmits
    \/ PrepareOk \/ (\E needs \in BOOLEAN : PrepareFails(needs)) \/ Recover
    \/ Compare \/ CompareDiffers \/ Commit \/ CommitFails \/ Signal

ProgramStep == PumpStep(epoch) /\ UNCHANGED hostVars

\* Whether the snapshot was the text on disk, at any moment since it is complete.
Witnessed == whole' = (work'.at \in Complete /\ (whole \/ disk' = work'.text))

HostNext ==
    \/ /\ \/ \E f \in File : Save(f)
          \/ PollBegin \/ HostStep
          \/ \E dry, deferred \in BOOLEAN : Request(dry, deferred)
       /\ Witnessed
    \/ (Register \/ PumpStep(epoch)) /\ UNCHANGED hostVars

HostSpec == HostInit /\ [][HostNext]_liveVars

\* The watcher polls, the compiler answers, and the program pumps; nobody has
\* to save, send requests or register a hook.
FairHostSpec ==
    /\ HostSpec
    /\ WF_liveVars((PollBegin \/ HostStep) /\ Witnessed)
    /\ WF_liveVars(ProgramStep)
-----------------------------------------------------------------------------
(* Properties. *)

\* "The program runs the current project sources", and an edit made during
\* compilation is "never labelled as the compiled version": under a live
\* verdict the program runs exactly the definitions of the text it names, and
\* what is published was on disk as a whole.  ~patched leaves out everything
\* that follows a deferred publication of part of a rejected text: the accepted
\* ledger does not know that part, and after a revert the verdict is "live"
\* although it still runs, against live/README.md:73.
LiveIsTrue ==
    /\ verdict.state = "live" /\ work.at # "signalling" /\ ~patched =>
          running = DefinitionsOf(Ledger(verdict.text))
    /\ work.at \in {"committing", "signalling"} => whole

\* Every save is answered in the end, whatever was being read, compiled or
\* compared when it happened; texts do not come back.
SavesAnswered == <>[](verdict.text = disk /\ verdict.state # "pending")

\* A program that has a hook is told after every publication of an application,
\* also when it happened while the program was in pump!.  Recover counts what
\* it publishes in its own step, of which nothing is said here.
HookHears ==
    (work.at = "signalling" /\ hooks.registered)
        ~> (told = epoch \/ ~hooks.registered)
=============================================================================
