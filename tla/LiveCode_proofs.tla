--------------------------- MODULE LiveCode_proofs ---------------------------
(***************************************************************************)
(* Proofs about the three components that replace code and data of a       *)
(* running program.                                                        *)
(*                                                                         *)
(* BlockedCells, for any callers, implementations and notifications:       *)
(* types, exact waiter counts, no lost wake-up, that the cell implements   *)
(* the FunctionGate, and that a call that met no gap of it is answered.    *)
(*                                                                         *)
(* ManualLive, for any threads, payloads, schemas and bounds, and one      *)
(* thread that creates (OneCreator): types, that a lease and a migration   *)
(* exclude each other, that no payload or schema moves under a lease, that *)
(* allocated memory is what handles, a creation and a migration own, and   *)
(* that the runtime implements the LiveGraph.                              *)
(*                                                                         *)
(* LiveHost, for any files, versions and bounds: types, that a live        *)
(* verdict names the definitions that run, and that what is published was  *)
(* on disk as a whole.                                                     *)
(***************************************************************************)
EXTENDS BlockedCells, ManualLive, LiveHost, FiniteSetTheorems, TLAPS

-----------------------------------------------------------------------------
(* PART 1. BlockedCells. *)

(* The inductive invariant, part by part. *)

\* A call never holds a generation that has not come yet.
GenerationsPast == \A c \in Caller : caller[c].generation <= event

\* What each place of the controller knows of the cell: the pointer is NoCode
\* between the two stores of block!, is set between those of publish!, agrees
\* with the state otherwise, and only close! leads to "closed".
StoresOrdered ==
    /\ controller = "blocking" => cell.implementation = NoCode
    /\ controller = "publishing" => cell.implementation \in Implementation
    /\ controller \in {"blocking", "publishing"} => cell.state # "closed"
    /\ controller \in {"clearing", "destroying"} => cell.state = "closed"
    /\ cell.state = "ready" /\ controller # "blocking" =>
          cell.implementation \in Implementation
    /\ cell.state = "blocked" /\ controller # "publishing" =>
          cell.implementation = NoCode

\* In a gap exactly the calls under way are exposed, and a call that will find
\* a null pointer has been.
ExposedInGaps ==
    /\ exposed \subseteq Inside
    /\ Gate \in Gaps => exposed = Inside
    /\ \A c \in Caller : caller[c].at = "pointer" =>
          cell.implementation \in Implementation \/ c \in exposed

\* A call that has not returned has no answer.
Unanswered == \A c \in Inside : answer[c] = NoCode

Safe ==
    /\ CellsTypeOK /\ WaitersExact /\ GenerationsPast /\ StoresOrdered
    /\ NoSleeperMissed /\ ExposedInGaps /\ Unanswered

-----------------------------------------------------------------------------
\* The record of the cell, field by field.
LEMMA CellFields ==
    ASSUME CellsTypeOK
    PROVE  /\ cell.state \in States
           /\ cell.implementation \in Implementation \cup {NoCode}
           /\ cell.waiters \in Int
  BY DEF CellsTypeOK, CellRecord

\* What a move of one caller leaves alone.
LEMMA MoveOne ==
    ASSUME CellsTypeOK, NEW c \in Caller, NEW from \in CallerPlaces, NEW to \in CallerPlaces,
           CallGoes(c, from, to)
    PROVE  /\ caller'[c].at = to
           /\ caller'[c].generation = caller[c].generation
           /\ \A d \in Caller \ {c} : caller'[d] = caller[d]
           /\ caller' \in [Caller -> [at : CallerPlaces, generation : Nat]]
  BY DEF CellsTypeOK, CallGoes

\* Types hold in every reachable state: one step.
LEMMA CellsTypeStep == ASSUME CellsTypeOK, [CellsNext]_cellVars PROVE CellsTypeOK'
<1> USE DEF States, ControllerPlaces, CallerPlaces
<1>1. ASSUME Observed PROVE (exposed \subseteq Caller)'
  BY <1>1 DEF Observed, Inside, CellsTypeOK
<1>2. CASE UNCHANGED cellVars
  BY <1>2 DEF cellVars, CellsTypeOK
<1>3. ASSUME Observed, BlockPointer PROVE CellsTypeOK'
  BY <1>1, <1>3 DEF BlockPointer, CellsTypeOK, CellRecord
<1>4. ASSUME Observed, NEW i \in Implementation, PublishPointer(i) PROVE CellsTypeOK'
  BY <1>1, <1>4 DEF PublishPointer, CellsTypeOK, CellRecord
<1>5. ASSUME Observed, Close PROVE CellsTypeOK'
  BY <1>1, <1>5 DEF Close, CellsTypeOK
<1>6. ASSUME Observed, ControllerStep PROVE CellsTypeOK'
  <2>1. CASE BlockState BY <1>1, <1>6, <2>1 DEF BlockState, CellsTypeOK, CellRecord
  <2>2. CASE PublishState BY <1>1, <1>6, <2>2 DEF PublishState, CellsTypeOK, CellRecord
  <2>3. CASE Notify BY <1>1, <1>6, <2>3 DEF Notify, CellsTypeOK
  <2>4. CASE CloseState BY <1>1, <1>6, <2>4 DEF CloseState, CellsTypeOK, CellRecord
  <2>5. CASE CloseClear BY <1>1, <1>6, <2>5 DEF CloseClear, CellsTypeOK, CellRecord
  <2>6. CASE CloseEvent BY <1>1, <1>6, <2>6 DEF CloseEvent, CellsTypeOK
  <2> QED BY <1>6, <2>1, <2>2, <2>3, <2>4, <2>5, <2>6 DEF ControllerStep
<1>7. ASSUME Observed, NEW c \in Caller, Begin(c) PROVE CellsTypeOK'
  BY <1>1, <1>7 DEF Begin, CallGoes, CellsTypeOK
<1>8. ASSUME Observed, NEW c \in Caller, CallStep(c) PROVE CellsTypeOK'
  <2>1. CASE ReadState(c) BY <1>1, <1>8, <2>1 DEF ReadState, CallGoes, CellsTypeOK
  <2>2. CASE ReadPointer(c)
    BY <1>1, <1>8, <2>2, CellFields DEF ReadPointer, CallGoes, CellsTypeOK
  <2>3. CASE ReadGeneration(c) BY <1>1, <1>8, <2>3 DEF ReadGeneration, CellsTypeOK
  <2>4. CASE Count(c) BY <1>1, <1>8, <2>4 DEF Count, CallGoes, CellsTypeOK, CellRecord
  <2>5. CASE Recheck(c) BY <1>1, <1>8, <2>5 DEF Recheck, CallGoes, CellsTypeOK
  <2>6. CASE Unpark(c) BY <1>1, <1>8, <2>6 DEF Unpark, CallGoes, CellsTypeOK
  <2>7. CASE Uncount(c) BY <1>1, <1>8, <2>7 DEF Uncount, CallGoes, CellsTypeOK, CellRecord
  <2> QED BY <1>8, <2>1, <2>2, <2>3, <2>4, <2>5, <2>6, <2>7 DEF CallStep
<1>9. ASSUME Observed, NEW c \in Caller, StrayStep(c) PROVE CellsTypeOK'
  <2>1. CASE StrayRead(c) BY <1>1, <1>9, <2>1 DEF StrayRead, CellsTypeOK
  <2>2. CASE StrayWake(c) BY <1>1, <1>9, <2>2 DEF StrayWake, CallGoes, CellsTypeOK
  <2>3. CASE StrayFails(c)
    BY <1>1, <1>9, <2>3 DEF StrayFails, CallGoes, CellsTypeOK, CellRecord
  <2> QED BY <1>9, <2>1, <2>2, <2>3 DEF StrayStep
<1> QED BY <1>2, <1>3, <1>4, <1>5, <1>6, <1>7, <1>8, <1>9 DEF CellsNext

\* Every field keeps its type (BlockedFunction and the places of the code).
THEOREM CellsTyped == CellsSpec => []CellsTypeOK
<1>1. CellsInit => CellsTypeOK
  BY DEF CellsInit, CellsTypeOK, CellRecord, States, ControllerPlaces, CallerPlaces
<1> QED BY <1>1, CellsTypeStep, PTL DEF CellsSpec

-----------------------------------------------------------------------------
(* The count of waiters. *)

CountedCallers == {c \in Caller : caller[c].at \in Counted}

\* A move between places on one side of the count changes nothing.
LEMMA CountKept ==
    ASSUME CellsTypeOK, NEW c \in Caller, NEW from \in CallerPlaces, NEW to \in CallerPlaces,
           CallGoes(c, from, to), from \in Counted <=> to \in Counted
    PROVE  CountedCallers' = CountedCallers
  BY MoveOne DEF CountedCallers, CallGoes

LEMMA CallersJoin ==
    ASSUME CellsTypeOK, NEW c \in Caller, NEW from \in CallerPlaces \ Counted,
           NEW to \in CallerPlaces \cap Counted, CallGoes(c, from, to)
    PROVE  CountedCallers' = CountedCallers \cup {c} /\ c \notin CountedCallers
<1>1. caller[c].at = from
  BY DEF CallGoes
<1>2. caller'[c].at = to /\ \A d \in Caller \ {c} : caller'[d] = caller[d]
  BY MoveOne
<1> QED BY <1>1, <1>2 DEF CountedCallers

LEMMA CallersLeave ==
    ASSUME CellsTypeOK, NEW c \in Caller, NEW from \in CallerPlaces \cap Counted,
           NEW to \in CallerPlaces \ Counted, CallGoes(c, from, to)
    PROVE  CountedCallers' = CountedCallers \ {c} /\ c \in CountedCallers
<1>1. caller[c].at = from
  BY DEF CallGoes
<1>2. caller'[c].at = to /\ \A d \in Caller \ {c} : caller'[d] = caller[d]
  BY MoveOne
<1> QED BY <1>1, <1>2 DEF CountedCallers

\* What the count of a finite set of callers is after one joins or leaves.
LEMMA CountOfJoined ==
    ASSUME NEW S \in SUBSET Caller, NEW c \in Caller \ S
    PROVE  Cardinality(S \cup {c}) = Cardinality(S) + 1
  BY CellConstants, FS_Subset, FS_AddElement

LEMMA CountOfLeft ==
    ASSUME NEW S \in SUBSET Caller, NEW c \in S
    PROVE  Cardinality(S \ {c}) = Cardinality(S) - 1
  BY CellConstants, FS_Subset, FS_RemoveElement

LEMMA WaitersStep ==
    ASSUME CellsTypeOK, WaitersExact, [CellsNext]_cellVars
    PROVE  WaitersExact'
<1> DEFINE Exact == cell.waiters = Cardinality(CountedCallers)
<1>0. Exact
  BY DEF WaitersExact, CountedCallers
<1> SUFFICES Exact'
  BY DEF WaitersExact, CountedCallers
<1>1. ASSUME cell'.waiters = cell.waiters, CountedCallers' = CountedCallers PROVE Exact'
  BY <1>0, <1>1
<1> HIDE DEF Exact
<1>2. CASE UNCHANGED cellVars
  BY <1>1, <1>2 DEF cellVars, CountedCallers
<1>3. ASSUME BlockPointer \/ (\E i \in Implementation : PublishPointer(i)) \/ Close
                 \/ ControllerStep
      PROVE  Exact'
  <2>1. caller' = caller
    BY <1>3 DEF BlockPointer, PublishPointer, Close, ControllerStep, BlockState,
                PublishState, Notify, CloseState, CloseClear, CloseEvent
  <2>2. cell'.waiters = cell.waiters
    BY <1>3 DEF BlockPointer, PublishPointer, Close, ControllerStep, BlockState,
                PublishState, Notify, CloseState, CloseClear, CloseEvent, CellsTypeOK,
                CellRecord
  <2> QED BY <2>1, <2>2, <1>1 DEF CountedCallers
<1>4. ASSUME NEW c \in Caller, Begin(c) \/ CallStep(c) \/ StrayStep(c)
      PROVE  Exact'
  <2>1. ASSUME NEW from \in CallerPlaces, NEW to \in CallerPlaces, CallGoes(c, from, to),
               from \in Counted <=> to \in Counted, cell' = cell
        PROVE  Exact'
    BY <1>1, <2>1, CountKept
  <2>2. CASE Begin(c) BY <2>1, <2>2 DEF Begin, CallerPlaces, Counted
  <2>3. CASE ReadState(c) BY <2>1, <2>3 DEF ReadState, CallerPlaces, Counted
  <2>4. CASE ReadPointer(c) BY <2>1, <2>4 DEF ReadPointer, CallerPlaces, Counted
  <2>5. CASE ReadGeneration(c)
    BY <1>1, <2>5 DEF ReadGeneration, CountedCallers, Counted, CellsTypeOK
  <2>6. CASE Recheck(c) BY <2>1, <2>6 DEF Recheck, CallerPlaces, Counted
  <2>7. CASE Unpark(c) BY <2>1, <2>7 DEF Unpark, CallerPlaces, Counted
  <2>8. CASE Count(c)
    <3>1. CallGoes(c, "count", "recheck")
      BY <2>8 DEF Count
    <3>2. CountedCallers' = CountedCallers \cup {c} /\ c \notin CountedCallers
      BY <3>1, CallersJoin DEF CallerPlaces, Counted
    <3>3. cell'.waiters = cell.waiters + 1
      BY <2>8 DEF Count, CellsTypeOK, CellRecord
    <3>4. Cardinality(CountedCallers \cup {c}) = Cardinality(CountedCallers) + 1
      BY <3>2, CountOfJoined DEF CountedCallers
    <3> QED BY <1>0, <3>2, <3>3, <3>4 DEF Exact
  <2>9. CASE Uncount(c)
    <3>1. CallGoes(c, "uncount", "state")
      BY <2>9 DEF Uncount
    <3>2. CountedCallers' = CountedCallers \ {c} /\ c \in CountedCallers
      BY <3>1, CallersLeave DEF CallerPlaces, Counted
    <3>3. cell'.waiters = cell.waiters - 1
      BY <2>9 DEF Uncount, CellsTypeOK, CellRecord
    <3>4. Cardinality(CountedCallers \ {c}) = Cardinality(CountedCallers) - 1
      BY <3>2, CountOfLeft DEF CountedCallers
    <3> QED BY <1>0, <3>2, <3>3, <3>4 DEF Exact
  <2>10. CASE StrayRead(c)
    BY <1>1, <2>10 DEF StrayRead, CountedCallers, Counted, CellsTypeOK
  <2>11. CASE StrayWake(c) BY <2>1, <2>11 DEF StrayWake, CallerPlaces, Counted
  <2>12. CASE StrayFails(c)
    <3>1. CallGoes(c, "parked", "out")
      BY <2>12 DEF StrayFails
    <3>2. CountedCallers' = CountedCallers \ {c} /\ c \in CountedCallers
      BY <3>1, CallersLeave DEF CallerPlaces, Counted
    <3>3. cell'.waiters = cell.waiters - 1
      BY <2>12 DEF StrayFails, CellsTypeOK, CellRecord
    <3>4. Cardinality(CountedCallers \ {c}) = Cardinality(CountedCallers) - 1
      BY <3>2, CountOfLeft DEF CountedCallers
    <3> QED BY <1>0, <3>2, <3>3, <3>4 DEF Exact
  <2> QED
    BY <1>4, <2>2, <2>3, <2>4, <2>5, <2>6, <2>7, <2>8, <2>9, <2>10, <2>11, <2>12
       DEF CallStep, StrayStep
<1> QED BY <1>2, <1>3, <1>4 DEF CellsNext

-----------------------------------------------------------------------------
(* The other parts.  A step is one of the controller, which leaves the calls *)
(* alone, or of one call, which leaves the state and the pointer alone.       *)

ControllerMoves ==
    \/ BlockPointer \/ Close \/ ControllerStep
    \/ \E i \in Implementation : PublishPointer(i)

CallMoves(c) == Begin(c) \/ CallStep(c) \/ StrayStep(c)

LEMMA CellsStepKinds ==
    ASSUME [CellsNext]_cellVars
    PROVE  \/ UNCHANGED cellVars
           \/ ControllerMoves /\ Observed
           \/ \E c \in Caller : CallMoves(c) /\ Observed
  BY DEF CellsNext, ControllerMoves, CallMoves

\* What any step of the controller does to the cell, by the name of the step.
LEMMA ControllerFacts ==
    ASSUME CellsTypeOK, ControllerMoves
    PROVE  /\ caller' = caller /\ answer' = answer
           /\ \/ /\ Usable /\ event' = event /\ cell'.state = cell.state
                 /\ \/ controller' = "blocking" /\ cell'.implementation = NoCode
                    \/ /\ controller' = "publishing"
                       /\ cell'.implementation \in Implementation
              \/ /\ controller = "blocking" /\ controller' = "notifying"
                 /\ cell'.state = "blocked" /\ event' = event
                 /\ cell'.implementation = cell.implementation
              \/ /\ controller = "publishing" /\ controller' = "notifying"
                 /\ cell'.state = "ready" /\ event' = event
                 /\ cell'.implementation = cell.implementation
              \/ /\ controller = "notifying" /\ controller' = "idle"
                 /\ cell' = cell /\ event' = event + 1
              \/ /\ controller = "idle" /\ controller' = "closing"
                 /\ cell' = cell /\ event' = event
              \/ /\ controller = "closing" /\ controller' = "clearing"
                 /\ cell'.state = "closed" /\ event' = event
                 /\ cell'.implementation = cell.implementation
              \/ /\ controller = "clearing" /\ controller' = "destroying"
                 /\ cell'.state = cell.state /\ event' = event
                 /\ cell'.implementation = NoCode
              \/ /\ controller = "destroying" /\ controller' = "idle"
                 /\ cell' = cell /\ event' = event
<1>1. CASE BlockPointer
  BY <1>1 DEF BlockPointer, CellsTypeOK, CellRecord
<1>2. CASE Close
  BY <1>2 DEF Close
<1>3. ASSUME NEW i \in Implementation, PublishPointer(i)
      PROVE  /\ caller' = caller /\ answer' = answer
             /\ Usable /\ event' = event /\ cell'.state = cell.state
             /\ controller' = "publishing" /\ cell'.implementation \in Implementation
  BY <1>3 DEF PublishPointer, CellsTypeOK, CellRecord
<1>4. CASE BlockState
  BY <1>4 DEF BlockState, CellsTypeOK, CellRecord
<1>5. CASE PublishState
  BY <1>5 DEF PublishState, CellsTypeOK, CellRecord
<1>6. CASE Notify
  BY <1>6 DEF Notify
<1>7. CASE CloseState
  BY <1>7 DEF CloseState, CellsTypeOK, CellRecord
<1>8. CASE CloseClear
  BY <1>8 DEF CloseClear, CellsTypeOK, CellRecord
<1>9. CASE CloseEvent
  BY <1>9 DEF CloseEvent
<1> QED
  BY <1>1, <1>2, <1>3, <1>4, <1>5, <1>6, <1>7, <1>8, <1>9
     DEF ControllerMoves, ControllerStep

\* What any step of a call does: where it goes, and under which condition.
LEMMA CallFacts ==
    ASSUME CellsTypeOK, NEW c \in Caller, CallMoves(c)
    PROVE  /\ cell'.state = cell.state /\ cell'.implementation = cell.implementation
           /\ event' = event /\ controller' = controller
           /\ \A d \in Caller \ {c} : caller'[d] = caller[d] /\ answer'[d] = answer[d]
           /\ \/ /\ caller[c].at = "out" /\ caller'[c].at = "state"
                 /\ answer'[c] = NoCode
              \/ /\ caller[c].at = "state" /\ answer' = answer
                 /\ \/ cell.state = "ready" /\ caller'[c].at = "pointer"
                    \/ cell.state = "blocked" /\ caller'[c].at = "generation"
                    \/ cell.state \in {"empty", "closed"} /\ caller'[c].at = "out"
              \/ /\ caller[c].at = "pointer" /\ caller'[c].at = "out"
                 /\ answer' = [answer EXCEPT ![c] = cell.implementation]
              \/ /\ caller[c].at = "generation" /\ answer' = answer
                 /\ caller'[c].generation = event
                 /\ \/ caller'[c].at = "count"
                    \/ cell.state = "closed" /\ caller'[c].at = "out"
              \/ /\ caller[c].at = "count" /\ answer' = answer
                 /\ caller'[c].at = "recheck"
              \/ /\ caller[c].at = "recheck" /\ answer' = answer
                 /\ \/ cell.state = "blocked" /\ caller'[c].at = "parked"
                    \/ caller'[c].at = "uncount"
              \/ /\ caller[c].at = "parked" /\ answer' = answer
                 /\ \/ caller'[c].at = "uncount"
                    \/ cell.state = "closed" /\ caller'[c].at = "out"
              \/ /\ caller[c].at = "uncount" /\ answer' = answer
                 /\ caller'[c].at = "state"
           /\ caller[c].at # "generation" => caller'[c].generation = caller[c].generation
<1> USE DEF CallerPlaces, States
<1>1. CASE Begin(c)
  <2>1. CallGoes(c, "out", "state") BY <1>1 DEF Begin
  <2> QED BY <1>1, <2>1, MoveOne DEF Begin, CallGoes, CellsTypeOK
<1>2. CASE ReadState(c)
  <2> DEFINE to == CASE cell.state = "ready" -> "pointer"
                     [] cell.state = "blocked" -> "generation"
                     [] OTHER -> "out"
  <2>1. to \in CallerPlaces
    OBVIOUS
  <2>2. CallGoes(c, "state", to) BY <1>2 DEF ReadState
  <2>3. /\ caller[c].at = "state" /\ caller'[c].at = to
        /\ caller'[c].generation = caller[c].generation
        /\ \A d \in Caller \ {c} : caller'[d] = caller[d]
    <3>1. "state" \in CallerPlaces OBVIOUS
    <3> HIDE DEF to
    <3> QED BY <2>1, <2>2, <3>1, MoveOne DEF CallGoes
  <2> QED BY <1>2, <2>3, CellFields DEF ReadState
<1>3. CASE ReadPointer(c)
  <2>1. CallGoes(c, "pointer", "out") BY <1>3 DEF ReadPointer
  <2> QED BY <1>3, <2>1, MoveOne DEF ReadPointer, CallGoes, CellsTypeOK
<1>4. CASE ReadGeneration(c)
  BY <1>4 DEF ReadGeneration, CellsTypeOK
<1>5. CASE Count(c)
  <2>1. CallGoes(c, "count", "recheck") BY <1>5 DEF Count
  <2>2. cell'.state = cell.state /\ cell'.implementation = cell.implementation
    BY <1>5 DEF Count, CellsTypeOK, CellRecord
  <2> QED BY <1>5, <2>1, <2>2, MoveOne DEF Count, CallGoes
<1>6. CASE Recheck(c)
  <2> DEFINE to == IF cell.state = "blocked" THEN "parked" ELSE "uncount"
  <2>1. to \in CallerPlaces
    OBVIOUS
  <2>2. CallGoes(c, "recheck", to) BY <1>6 DEF Recheck
  <2>3. /\ caller[c].at = "recheck" /\ caller'[c].at = to
        /\ caller'[c].generation = caller[c].generation
        /\ \A d \in Caller \ {c} : caller'[d] = caller[d]
    <3>1. "recheck" \in CallerPlaces OBVIOUS
    <3> HIDE DEF to
    <3> QED BY <2>1, <2>2, <3>1, MoveOne DEF CallGoes
  <2> QED BY <1>6, <2>3 DEF Recheck
<1>7. CASE Unpark(c)
  <2>1. CallGoes(c, "parked", "uncount") BY <1>7 DEF Unpark
  <2> QED BY <1>7, <2>1, MoveOne DEF Unpark, CallGoes
<1>8. CASE Uncount(c)
  <2>1. CallGoes(c, "uncount", "state") BY <1>8 DEF Uncount
  <2>2. cell'.state = cell.state /\ cell'.implementation = cell.implementation
    BY <1>8 DEF Uncount, CellsTypeOK, CellRecord
  <2> QED BY <1>8, <2>1, <2>2, MoveOne DEF Uncount, CallGoes
<1>9. CASE StrayRead(c)
  BY <1>9 DEF StrayRead, Destroyed, CellsTypeOK
<1>10. CASE StrayWake(c)
  <2>1. CallGoes(c, "parked", "uncount") BY <1>10 DEF StrayWake
  <2> QED BY <1>10, <2>1, MoveOne DEF StrayWake, CallGoes
<1>11. CASE StrayFails(c)
  <2>1. CallGoes(c, "parked", "out") BY <1>11 DEF StrayFails
  <2>2. cell'.state = cell.state /\ cell'.implementation = cell.implementation
    BY <1>11 DEF StrayFails, CellsTypeOK, CellRecord
  <2> QED BY <1>11, <2>1, <2>2, MoveOne DEF StrayFails, Destroyed, CallGoes
<1> QED
  BY <1>1, <1>2, <1>3, <1>4, <1>5, <1>6, <1>7, <1>8, <1>9, <1>10, <1>11
     DEF CallMoves, CallStep, StrayStep

-----------------------------------------------------------------------------
(* Each part is kept by every step. *)

LEMMA GenerationsStep ==
    ASSUME CellsTypeOK, GenerationsPast, [CellsNext]_cellVars
    PROVE  GenerationsPast'
<1> USE DEF GenerationsPast
<1>0. event \in Nat /\ \A c \in Caller : caller[c].generation \in Nat
  BY DEF CellsTypeOK
<1>1. CASE UNCHANGED cellVars
  BY <1>1 DEF cellVars
<1>2. CASE ControllerMoves
  <2>1. caller' = caller /\ (event' = event \/ event' = event + 1)
    BY <1>2, ControllerFacts
  <2> QED BY <1>0, <2>1
<1>3. ASSUME NEW c \in Caller, CallMoves(c) PROVE GenerationsPast'
  <2>1. event' = event /\ \A d \in Caller \ {c} : caller'[d] = caller[d]
    BY <1>3, CallFacts
  <2>2. caller'[c].generation = caller[c].generation \/ caller'[c].generation = event
    BY <1>3, CallFacts
  <2> QED BY <1>0, <2>1, <2>2
<1> QED BY <1>1, <1>2, <1>3, CellsStepKinds

LEMMA StoresStep ==
    ASSUME CellsTypeOK, StoresOrdered, [CellsNext]_cellVars
    PROVE  StoresOrdered'
<1> USE DEF StoresOrdered
<1>1. CASE UNCHANGED cellVars
  BY <1>1 DEF cellVars
<1>2. CASE ControllerMoves
  BY <1>2, ControllerFacts DEF Usable
<1>3. ASSUME NEW c \in Caller, CallMoves(c) PROVE StoresOrdered'
  <2>1. /\ cell'.state = cell.state /\ cell'.implementation = cell.implementation
        /\ controller' = controller
    BY <1>3, CallFacts
  <2> QED BY <2>1
<1> QED BY <1>1, <1>2, <1>3, CellsStepKinds

LEMMA SleepersStep ==
    ASSUME CellsTypeOK, GenerationsPast, StoresOrdered, NoSleeperMissed, [CellsNext]_cellVars
    PROVE  NoSleeperMissed'
<1>0. event \in Nat /\ \A c \in Caller : caller[c].generation \in Nat
  BY DEF CellsTypeOK
<1>1. CASE UNCHANGED cellVars
  BY <1>1 DEF cellVars, NoSleeperMissed
<1>2. CASE ControllerMoves
  <2> SUFFICES ASSUME NEW c \in Caller, caller'[c].at = "parked",
                      caller'[c].generation = event'
               PROVE  cell'.state \in {"blocked", "closed"} \/ controller' = "notifying"
    BY DEF NoSleeperMissed
  <2>1. caller'[c] = caller[c]
    BY <1>2, ControllerFacts
  <2>2. event' = event
    <3>1. event' = event \/ event' = event + 1
      BY <1>2, ControllerFacts
    <3> QED BY <1>0, <2>1, <3>1 DEF GenerationsPast
  <2>3. cell.state \in {"blocked", "closed"} \/ controller = "notifying"
    BY <2>1, <2>2 DEF NoSleeperMissed
  <2> QED BY <1>0, <1>2, <2>1, <2>2, <2>3, ControllerFacts DEF Usable, StoresOrdered
<1>3. ASSUME NEW c \in Caller, CallMoves(c) PROVE NoSleeperMissed'
  <2>1. /\ cell'.state = cell.state /\ controller' = controller /\ event' = event
        /\ \A d \in Caller \ {c} : caller'[d] = caller[d]
    BY <1>3, CallFacts
  <2>2. caller'[c].at = "parked" => cell.state = "blocked"
    BY <1>3, CallFacts
  <2> QED BY <2>1, <2>2 DEF NoSleeperMissed
<1> QED BY <1>1, <1>2, <1>3, CellsStepKinds

\* The history keeps whom it had as long as the call lasts.
LEMMA ExposureGrows ==
    ASSUME Observed, exposed \subseteq Inside
    PROVE  /\ exposed' \subseteq Inside'
           /\ Gate' \in Gaps => exposed' = Inside'
           /\ \A c \in exposed : c \in Inside' => c \in exposed'
  BY DEF Observed

LEMMA ExposedStep ==
    ASSUME CellsTypeOK, StoresOrdered, ExposedInGaps, [CellsNext]_cellVars
    PROVE  ExposedInGaps'
<1>0. exposed \subseteq Inside
  BY DEF ExposedInGaps
<1>1. CASE UNCHANGED cellVars
  BY <1>1 DEF cellVars, ExposedInGaps, Inside, Gate
<1>3. CASE ControllerMoves /\ Observed
  <2> SUFFICES ASSUME NEW c \in Caller, caller'[c].at = "pointer",
                      cell'.implementation \notin Implementation
               PROVE  c \in exposed'
    BY <1>0, <1>3, ExposureGrows DEF ExposedInGaps
  <2>1. caller'[c] = caller[c] /\ c \in Inside'
    BY <1>3, ControllerFacts DEF Inside
  <2>2. CASE cell.implementation \notin Implementation
    BY <1>0, <1>3, <2>1, <2>2, ExposureGrows DEF ExposedInGaps
  <2>3. CASE cell.implementation \in Implementation
    <3>1. /\ cell'.implementation = NoCode /\ cell'.state = cell.state
          /\ Usable \/ controller = "clearing"
      BY <1>3, <2>3, ControllerFacts
    <3>2. Usable => cell.state # "blocked"
      BY <2>3, CellConstants DEF Usable, StoresOrdered
    <3>3. controller = "clearing" => cell.state = "closed"
      BY DEF StoresOrdered
    <3>4. Gate' \in Gaps
      BY <3>1, <3>2, <3>3, CellFields DEF Gate, Gaps, States
    <3> QED BY <1>0, <1>3, <2>1, <3>4, ExposureGrows
  <2> QED BY <2>2, <2>3
<1>4. ASSUME NEW d \in Caller, CallMoves(d), Observed PROVE ExposedInGaps'
  <2> SUFFICES ASSUME NEW c \in Caller, caller'[c].at = "pointer",
                      cell'.implementation \notin Implementation
               PROVE  c \in exposed'
    BY <1>0, <1>4, ExposureGrows DEF ExposedInGaps
  <2>1. c \in Inside'
    BY DEF Inside
  <2>2. /\ cell'.state = cell.state /\ cell'.implementation = cell.implementation
        /\ controller' = controller
        /\ c # d => caller'[c] = caller[c]
    BY <1>4, CallFacts
  <2>3. CASE caller[c].at = "pointer"
    BY <1>0, <1>4, <2>1, <2>2, <2>3, ExposureGrows DEF ExposedInGaps
  <2>4. CASE caller[c].at # "pointer"
    <3>1. c = d
      BY <2>2, <2>4
    <3>2. cell.state = "ready"
      BY <1>4, <2>4, <3>1, CallFacts
    <3>3. cell'.state = "ready" /\ cell'.implementation = NoCode
      BY <2>2, <3>2, CellFields
    <3>4. Gate' \in Gaps
      BY <3>3 DEF Gate, Gaps
    <3> QED BY <1>0, <1>4, <2>1, <3>4, ExposureGrows
  <2> QED BY <2>3, <2>4
<1> QED BY <1>1, <1>3, <1>4, CellsStepKinds

LEMMA UnansweredStep ==
    ASSUME CellsTypeOK, Unanswered, [CellsNext]_cellVars
    PROVE  Unanswered'
<1>1. CASE UNCHANGED cellVars
  BY <1>1 DEF cellVars, Unanswered, Inside
<1>2. CASE ControllerMoves
  <2>1. caller' = caller /\ answer' = answer
    BY <1>2, ControllerFacts
  <2> QED BY <2>1 DEF Unanswered, Inside
<1>3. ASSUME NEW c \in Caller, CallMoves(c) PROVE Unanswered'
  <2>1. \A d \in Caller \ {c} : caller'[d] = caller[d] /\ answer'[d] = answer[d]
    BY <1>3, CallFacts
  <2>2. caller'[c].at # "out" =>
            answer'[c] = NoCode \/ (answer' = answer /\ caller[c].at # "out")
    BY <1>3, CallFacts
  <2> QED BY <2>1, <2>2 DEF Unanswered, Inside
<1> QED BY <1>1, <1>2, <1>3, CellsStepKinds

\* The conjunction is inductive.
LEMMA SafeKept == CellsSpec => []Safe
<1>1. CellsInit => Safe
  <2> SUFFICES ASSUME CellsInit PROVE Safe
    OBVIOUS
  <2>1. CellsTypeOK
    BY DEF CellsInit, CellsTypeOK, CellRecord, States, ControllerPlaces, CallerPlaces
  <2>2. \A c \in Caller : caller[c].at = "out" /\ caller[c].generation = 0
    BY DEF CellsInit
  <2>3. WaitersExact
    <3>1. CountedCallers = {}
      BY <2>2 DEF CountedCallers, Counted
    <3> QED BY <3>1, FS_EmptySet DEF WaitersExact, CountedCallers, CellsInit
  <2>4. GenerationsPast /\ StoresOrdered /\ NoSleeperMissed
    BY <2>2 DEF CellsInit, GenerationsPast, StoresOrdered, NoSleeperMissed
  <2>5. ExposedInGaps /\ Unanswered
    BY <2>2 DEF CellsInit, ExposedInGaps, Unanswered, Inside
  <2> QED BY <2>1, <2>3, <2>4, <2>5 DEF Safe
<1>2. Safe /\ [CellsNext]_cellVars => Safe'
  BY CellsTypeStep, WaitersStep, GenerationsStep, StoresStep, SleepersStep,
     ExposedStep, UnansweredStep DEF Safe
<1> QED BY <1>1, <1>2, PTL DEF CellsSpec

-----------------------------------------------------------------------------
(* The theorems. *)

\* waiters is the number of calls between their two updates of it
\* (wait-step!, and close!'s test of it).
THEOREM WaitersCounted == CellsSpec => []WaitersExact
<1>1. Safe => WaitersExact
  BY DEF Safe
<1> QED BY <1>1, SafeKept, PTL

\* No wake-up falls between reading the generation and event-wait!.
THEOREM SleepersWake == CellsSpec => []NoSleeperMissed
<1>1. Safe => NoSleeperMissed
  BY DEF Safe
<1> QED BY <1>1, SafeKept, PTL

-----------------------------------------------------------------------------
(* The cell implements the gate. *)

\* A step that the gate does not see leaves the history alone.
LEMMA Unseen ==
    ASSUME ExposedInGaps, Observed, cell'.implementation = cell.implementation,
           Gate' = Gate, Inside' = Inside, answer' = answer
    PROVE  UNCHANGED Promise!gateVars
<1>1. exposed' = exposed
  BY DEF ExposedInGaps, Observed
<1> QED BY <1>1 DEF Promise!gateVars

LEMMA GateOfFields ==
    ASSUME cell'.implementation = cell.implementation, cell'.state = cell.state
    PROVE  Gate' = Gate
  BY DEF Gate

\* A step of the controller stages, opens, withdraws, holds or shuts.
LEMMA ControllerRefines ==
    ASSUME Safe, ControllerMoves, Observed
    PROVE  [Promise!GateNext]_(Promise!gateVars)
<1> USE CellConstants
<1>0. /\ CellsTypeOK /\ StoresOrdered /\ ExposedInGaps
      /\ cell.state \in States /\ cell.implementation \in Implementation \cup {NoCode}
  BY CellFields DEF Safe
<1>1. Inside' = Inside /\ answer' = answer
  BY <1>0, ControllerFacts DEF Inside
<1>2. Promise!Exposure
  BY DEF Observed, Promise!Exposure, Gaps, Promise!Gaps
<1>3. CASE cell' = cell
  BY <1>0, <1>1, <1>3, Unseen, GateOfFields
<1>4. CASE Usable /\ cell'.state = cell.state /\ cell'.implementation = NoCode
  <2>1. Promise!Withdraw
    BY <1>0, <1>1, <1>4 DEF Promise!Withdraw, Gate, Usable, States
  <2> QED BY <1>2, <2>1 DEF Promise!GateNext
<1>5. CASE Usable /\ cell'.state = cell.state /\ cell'.implementation \in Implementation
  <2>1. Gate' = Gate
    BY <1>0, <1>5 DEF Gate, Usable, StoresOrdered, States
  <2>2. Promise!Stage
    BY <1>1, <1>5, <2>1 DEF Promise!Stage
  <2> QED BY <1>2, <2>2 DEF Promise!GateNext
<1>6. CASE /\ controller = "blocking" /\ cell'.state = "blocked"
           /\ cell'.implementation = cell.implementation
  <2>1. Promise!Hold
    BY <1>0, <1>1, <1>6 DEF Promise!Hold, Gate, StoresOrdered
  <2> QED BY <1>2, <2>1 DEF Promise!GateNext
<1>7. CASE /\ controller = "publishing" /\ cell'.state = "ready"
           /\ cell'.implementation = cell.implementation
  <2>1. Promise!Open
    BY <1>0, <1>1, <1>7 DEF Promise!Open, Gate, StoresOrdered
  <2> QED BY <1>2, <2>1 DEF Promise!GateNext
<1>8. CASE cell'.state = "closed" /\ cell'.implementation = cell.implementation
  <2>1. Promise!Shut
    BY <1>1, <1>8 DEF Promise!Shut, Gate
  <2> QED BY <1>2, <2>1 DEF Promise!GateNext
<1>9. CASE /\ controller = "clearing" /\ cell'.state = cell.state
           /\ cell'.implementation = NoCode
  <2>1. Promise!Withdraw
    BY <1>0, <1>1, <1>9 DEF Promise!Withdraw, Gate, StoresOrdered
  <2> QED BY <1>2, <2>1 DEF Promise!GateNext
<1> QED BY <1>0, <1>3, <1>4, <1>5, <1>6, <1>7, <1>8, <1>9, ControllerFacts

\* A step of a call begins it, invokes or refuses, or is not seen.
LEMMA CallRefines ==
    ASSUME Safe, NEW c \in Caller, CallMoves(c), Observed
    PROVE  [Promise!GateNext]_(Promise!gateVars)
<1>0. /\ CellsTypeOK /\ StoresOrdered /\ ExposedInGaps /\ Unanswered
      /\ cell.state \in States /\ cell.implementation \in Implementation \cup {NoCode}
      /\ answer \in [Caller -> Implementation \cup {NoCode}]
  BY CellFields DEF Safe, CellsTypeOK
<1>1. /\ cell'.implementation = cell.implementation /\ Gate' = Gate
      /\ \A d \in Caller \ {c} : caller'[d] = caller[d]
  BY <1>0, CallFacts, GateOfFields
<1>2. Promise!Exposure
  BY DEF Observed, Promise!Exposure, Gaps, Promise!Gaps
<1>3. CASE caller[c].at = "out"
  <2>1. c \notin Inside /\ Inside' = Inside \cup {c}
    BY <1>0, <1>1, <1>3, CallFacts DEF Inside
  <2>2. answer' = [answer EXCEPT ![c] = NoCode]
    <3>1. Begin(c)
      BY <1>3 DEF CallMoves, CallStep, ReadState, ReadPointer, ReadGeneration, Count,
                  Recheck, Unpark, Uncount, StrayStep, StrayRead, StrayWake,
                  StrayFails, CallGoes
    <3> QED BY <3>1 DEF Begin
  <2>3. Promise!Begin(c)
    BY <1>1, <2>1, <2>2 DEF Promise!Begin
  <2> QED BY <1>2, <2>3 DEF Promise!GateNext
<1>4. CASE caller[c].at # "out" /\ caller'[c].at # "out"
  <2>1. Inside' = Inside
    BY <1>1, <1>4 DEF Inside
  <2>2. answer' = answer
    BY <1>0, <1>4, CallFacts
  <2> QED BY <1>0, <1>1, <2>1, <2>2, Unseen
<1>5. CASE caller[c].at # "out" /\ caller'[c].at = "out"
  <2>1. c \in Inside /\ Inside' = Inside \ {c}
    BY <1>1, <1>5 DEF Inside
  <2>2. CASE caller[c].at # "pointer"
    <3>1. answer' = answer /\ cell.state \in {"empty", "closed"}
      BY <1>0, <1>5, <2>2, CallFacts
    <3>2. answer' = [answer EXCEPT ![c] = NoCode]
      BY <1>0, <2>1, <3>1 DEF Unanswered
    <3>3. c \in exposed
      BY <1>0, <2>1, <3>1 DEF ExposedInGaps, Gate, Gaps
    <3>4. Promise!Refuse(c)
      BY <1>1, <2>1, <3>2, <3>3 DEF Promise!Refuse, Promise!Returns
    <3> QED BY <1>2, <3>4 DEF Promise!GateNext
  <2>3. CASE caller[c].at = "pointer"
    <3>1. answer' = [answer EXCEPT ![c] = cell.implementation]
      BY <1>0, <2>3, CallFacts
    <3>2. CASE cell.implementation \in Implementation
      <4>1. Promise!Invoke(c)
        BY <1>1, <2>1, <3>1, <3>2 DEF Promise!Invoke, Promise!Returns
      <4> QED BY <1>2, <4>1 DEF Promise!GateNext
    <3>3. CASE cell.implementation \notin Implementation
      <4>1. c \in exposed /\ cell.implementation = NoCode
        BY <1>0, <2>3, <3>3 DEF ExposedInGaps
      <4>2. Promise!Refuse(c)
        BY <1>1, <2>1, <3>1, <4>1 DEF Promise!Refuse, Promise!Returns
      <4> QED BY <1>2, <4>2 DEF Promise!GateNext
    <3> QED BY <3>2, <3>3
  <2> QED BY <2>2, <2>3
<1> QED BY <1>3, <1>4, <1>5

\* The cell and its calls implement the FunctionGate, with its gaps
\* (blocked-i64-call, -block!, -publish! and -close!).  blocked.coil:98-100 asks
\* for more, a wait that returns only after an implementation is ready, which
\* the two stores of block! break; UnexposedCallsInvoke is what is left of it.
THEOREM CellsKeepPromise == CellsSpec => GateKept
<1>1. CellsInit => Promise!GateInit
  BY DEF CellsInit, Promise!GateInit, Gate, Inside
<1>2. Safe /\ [CellsNext]_cellVars => [Promise!GateNext]_(Promise!gateVars)
  <2> SUFFICES ASSUME Safe, [CellsNext]_cellVars PROVE [Promise!GateNext]_(Promise!gateVars)
    OBVIOUS
  <2>1. CASE UNCHANGED cellVars
    BY <2>1 DEF cellVars, Promise!gateVars, Gate, Inside
  <2> QED BY <2>1, CellsStepKinds, ControllerRefines, CallRefines
<1> QED BY <1>1, <1>2, SafeKept, PTL DEF CellsSpec, GateKept, Promise!GateSpec

\* What the source promises of every call ("invokes that implementation exactly
\* once", manual-live/README.md) holds of those that meet no gap: they return by
\* invoking what is published at that moment.
NoGapInvokes ==
    [][\A c \in Inside \ exposed :
          c \notin Inside' =>
              answer'[c] = cell.implementation /\ answer'[c] \in Implementation]_cellVars

\* A call that overlaps no withdrawal, no closing and no time before the first
\* publication is never refused, whatever it slept through.
THEOREM UnexposedCallsInvoke == CellsSpec => NoGapInvokes
<1>1. ASSUME Safe, CellsNext, NEW c \in Inside \ exposed, c \notin Inside'
      PROVE  answer'[c] = cell.implementation /\ answer'[c] \in Implementation
  <2>1. /\ CellsTypeOK /\ ExposedInGaps
        /\ c \in Caller /\ caller[c].at # "out" /\ caller'[c].at = "out"
    BY <1>1 DEF Safe, Inside
  <2>2. CallMoves(c)
    <3>1. ~ControllerMoves
      BY <2>1, ControllerFacts
    <3>2. \A d \in Caller \ {c} : ~CallMoves(d)
      BY <2>1, CallFacts
    <3> QED BY <1>1, <3>1, <3>2 DEF CellsNext, ControllerMoves, CallMoves
  <2>3. Gate \notin Gaps
    BY <1>1, <2>1 DEF ExposedInGaps
  <2>4. cell.state \notin {"empty", "closed"}
    BY <2>3 DEF Gate, Gaps
  <2>5. caller[c].at = "pointer" /\ answer' = [answer EXCEPT ![c] = cell.implementation]
    BY <2>1, <2>2, <2>4, CallFacts
  <2>6. cell.implementation \in Implementation
    BY <1>1, <2>1, <2>5 DEF ExposedInGaps
  <2> QED BY <2>1, <2>5, <2>6 DEF CellsTypeOK
<1>2. Safe /\ [CellsNext]_cellVars
        => [\A c \in Inside \ exposed :
              c \notin Inside' =>
                answer'[c] = cell.implementation /\ answer'[c] \in Implementation]_cellVars
  BY <1>1
<1> QED BY <1>2, SafeKept, PTL DEF CellsSpec, NoGapInvokes

-----------------------------------------------------------------------------
(* PART 2. ManualLive. *)

(* Types, variable by variable. *)

GateType == gate \in [writer : {0, 1}, readers : Int]
VersionType == version \in [schema : Schemas, epoch : Nat, count : Nat]
HandlesType ==
    /\ handles \in [Handle -> HandleRecord]
    /\ \A h \in Handle : handles[h].schema # 0 => handles[h].payload \in Payload
MemoryType == memory \in [Payload -> PayloadRecord]
ThreadType == thread \in [Thread -> ThreadRecord]
Jobs == [at : JobPlaces, target : Schemas, next : Nat,
         staged : [Handle -> Payload \cup {Null}], old : [Handle -> Payload \cup {Null}]]
JobType == job \in Jobs

\* What handle-count says of the table: a handle below it exists, and so does
\* the one a creation has stored above it.  Needs OneCreator.
Tabled ==
    /\ \A h \in Created : handles[h].schema # 0
    /\ \A t \in Thread : thread[t].fresh # Null =>
          t \in Creators /\ thread[t].at = "in" /\ version.count < MaxHandles
    /\ \A t \in Thread : thread[t].stored =>
          thread[t].fresh # Null /\ handles[version.count + 1].schema # 0

Typed == TypeOK /\ Tabled

\* A step of a program thread.
WorkStep(t) ==
    \/ Release(t) \/ NewAllocates(t) \/ NewStep(t)
    \/ \E h \in Handle : Borrow(t, h)
    \/ \E h, g \in Handle : Link(t, h, g)

ThreadStep(t) == EnterBegin(t) \/ EnterStep(t) \/ Exit(t) \/ WorkStep(t)

\* The next index of the table is no handle's yet.
LEMMA NextIndex ==
    ASSUME Typed, version.count < MaxHandles
    PROVE  /\ version.count + 1 \in Handle \ Created
           /\ \A h \in Handle :
                 h <= version.count + 1 <=> h \in Created \/ h = version.count + 1
  BY RuntimeConstants DEF Typed, TypeOK, Handle, Created

\* Two threads that create are one.
LEMMA TheCreator ==
    ASSUME Typed, NEW t \in Thread, NEW u \in Thread, thread[t].fresh # Null,
           thread[u].fresh # Null \/ u \in Creators
    PROVE  u = t
  BY OneCreator DEF Typed, Tabled

LEMMA StepKinds ==
    ASSUME [Next]_vars
    PROVE  \/ UNCHANGED vars
           \/ \E t \in Thread : ThreadStep(t)
           \/ \E target \in Schemas : MigrateBegin(target)
           \/ JobStep
           \/ Destroy
  BY DEF Next, ThreadStep, WorkStep

\* The next place of a thread, as one of the moves of enter! and exit!.
LEMMA GoesType ==
    ASSUME ThreadType, NEW t \in Thread, NEW from,
           NEW to \in {"out", "entering", "seen", "counted", "refused", "in"},
           Goes(t, from, to)
    PROVE  /\ ThreadType'
           /\ thread[t].at = from /\ thread'[t].at = to
           /\ thread'[t].borrows = thread[t].borrows
           /\ thread'[t].fresh = thread[t].fresh /\ thread'[t].stored = thread[t].stored
           /\ \A u \in Thread \ {t} : thread'[u] = thread[u]
  BY DEF ThreadType, ThreadRecord, Goes

\* A thread borrows or releases, and is otherwise as it was.
LEMMA BorrowsType ==
    ASSUME ThreadType, NEW t \in Thread, NEW b \in Handle \cup {0},
           NEW p \in Payload \cup {Null},
           thread' = [thread EXCEPT ![t].borrows = b, ![t].payload = p]
    PROVE  /\ ThreadType'
           /\ thread'[t].borrows = b
           /\ \A u \in Thread : /\ thread'[u].at = thread[u].at
                              /\ thread'[u].fresh = thread[u].fresh
                              /\ thread'[u].stored = thread[u].stored
           /\ \A u \in Thread \ {t} : thread'[u].borrows = thread[u].borrows
<1> DEFINE new == [thread[t] EXCEPT !.borrows = b, !.payload = p]
<1>1. thread' = [thread EXCEPT ![t] = new]
  BY DEF ThreadType, ThreadRecord
<1>2. /\ new \in ThreadRecord /\ new.at = thread[t].at /\ new.borrows = b
      /\ new.fresh = thread[t].fresh /\ new.stored = thread[t].stored
  BY DEF ThreadType, ThreadRecord
<1> HIDE DEF new
<1>3. thread'[t] = new /\ \A u \in Thread \ {t} : thread'[u] = thread[u]
  BY <1>1 DEF ThreadType
<1> QED BY <1>1, <1>2, <1>3 DEF ThreadType

\* A creation goes on, and its thread is otherwise as it was.
LEMMA FreshType ==
    ASSUME ThreadType, NEW t \in Thread, NEW p \in Payload \cup {Null}, NEW s \in BOOLEAN,
           thread' = [thread EXCEPT ![t].fresh = p, ![t].stored = s]
    PROVE  /\ ThreadType'
           /\ thread'[t].fresh = p /\ thread'[t].stored = s
           /\ \A u \in Thread : /\ thread'[u].at = thread[u].at
                              /\ thread'[u].borrows = thread[u].borrows
           /\ \A u \in Thread \ {t} : thread'[u] = thread[u]
<1> DEFINE new == [thread[t] EXCEPT !.fresh = p, !.stored = s]
<1>1. thread' = [thread EXCEPT ![t] = new]
  BY DEF ThreadType, ThreadRecord
<1>2. /\ new \in ThreadRecord /\ new.at = thread[t].at /\ new.borrows = thread[t].borrows
      /\ new.fresh = p /\ new.stored = s
  BY DEF ThreadType, ThreadRecord
<1> HIDE DEF new
<1>3. thread'[t] = new /\ \A u \in Thread \ {t} : thread'[u] = thread[u]
  BY <1>1 DEF ThreadType
<1> QED BY <1>1, <1>2, <1>3 DEF ThreadType

LEMMA JobGoes == ASSUME NEW j \in Jobs, NEW place \in JobPlaces
                 PROVE  [j EXCEPT !.at = place] \in Jobs
  BY DEF Jobs

LEMMA JobStarts == ASSUME NEW place \in JobPlaces, NEW target \in Schemas
                   PROVE  /\ IdleJob \in Jobs
                          /\ [IdleJob EXCEPT !.at = place, !.target = target] \in Jobs
  BY RuntimeConstants DEF Jobs, IdleJob, NoneStaged, JobPlaces

\* What a step of enter! or exit! leaves alone, and where it takes its thread.
LEMMA EnterFacts ==
    ASSUME TypeOK, NEW t \in Thread, EnterBegin(t) \/ EnterStep(t) \/ Exit(t)
    PROVE  /\ UNCHANGED <<version, handles, memory, job>>
           /\ ThreadType' /\ GateType'
           /\ gate'.writer = gate.writer
           /\ \A u \in Thread \ {t} : thread'[u] = thread[u]
           /\ thread'[t].borrows = thread[t].borrows
           /\ thread'[t].fresh = thread[t].fresh /\ thread'[t].stored = thread[t].stored
           /\ thread[t].at = "in" => thread[t].fresh = Null
           /\ \/ /\ thread[t].at = "out" /\ thread'[t].at = "entering"
                 /\ gate'.readers = gate.readers
              \/ /\ thread[t].at = "entering" /\ thread'[t].at = "seen"
                 /\ gate'.readers = gate.readers
              \/ /\ thread[t].at = "seen" /\ thread'[t].at = "counted"
                 /\ gate'.readers = gate.readers + 1
              \/ /\ thread[t].at = "counted" /\ gate'.readers = gate.readers
                 /\ \/ gate.writer = 0 /\ thread'[t].at = "in"
                    \/ thread'[t].at = "refused"
              \/ /\ thread[t].at = "refused" /\ thread'[t].at = "entering"
                 /\ gate'.readers = gate.readers - 1
              \/ /\ thread[t].at = "in" /\ thread'[t].at = "out"
                 /\ gate'.readers = gate.readers - 1
<1>0. ThreadType /\ GateType
  BY DEF TypeOK, ThreadType, GateType
<1>1. CASE EnterBegin(t)
  <2>1. Goes(t, "out", "entering") BY <1>1 DEF EnterBegin
  <2> QED BY <1>0, <1>1, <2>1, GoesType DEF EnterBegin, GateType
<1>2. CASE EnterSees(t)
  <2>1. Goes(t, "entering", "seen") BY <1>2 DEF EnterSees
  <2> QED BY <1>0, <1>2, <2>1, GoesType DEF EnterSees, GateType
<1>3. CASE EnterCounts(t)
  <2>1. Goes(t, "seen", "counted") BY <1>3 DEF EnterCounts
  <2>2. /\ GateType' /\ gate'.writer = gate.writer
        /\ gate'.readers = gate.readers + 1
    BY <1>0, <1>3 DEF EnterCounts, GateType
  <2> QED BY <1>0, <1>3, <2>1, <2>2, GoesType DEF EnterCounts
<1>4. CASE EnterLooks(t)
  <2>1. CASE gate.writer = 0
    <3>1. Goes(t, "counted", "in") BY <1>4, <2>1 DEF EnterLooks
    <3> QED BY <1>0, <1>4, <2>1, <3>1, GoesType DEF EnterLooks, GateType
  <2>2. CASE gate.writer # 0
    <3>1. Goes(t, "counted", "refused") BY <1>4, <2>2 DEF EnterLooks
    <3> QED BY <1>0, <1>4, <2>2, <3>1, GoesType DEF EnterLooks, GateType
  <2> QED BY <2>1, <2>2
<1>5. CASE EnterBacksOff(t)
  <2>1. Goes(t, "refused", "entering") BY <1>5 DEF EnterBacksOff
  <2>2. /\ GateType' /\ gate'.writer = gate.writer
        /\ gate'.readers = gate.readers - 1
    BY <1>0, <1>5 DEF EnterBacksOff, GateType
  <2> QED BY <1>0, <1>5, <2>1, <2>2, GoesType DEF EnterBacksOff
<1>6. CASE Exit(t)
  <2>1. Goes(t, "in", "out") BY <1>6 DEF Exit
  <2>2. /\ GateType' /\ gate'.writer = gate.writer
        /\ gate'.readers = gate.readers - 1
    BY <1>0, <1>6 DEF Exit, GateType
  <2> QED BY <1>0, <1>6, <2>1, <2>2, GoesType DEF Exit
<1> QED BY <1>1, <1>2, <1>3, <1>4, <1>5, <1>6 DEF EnterStep

\* What a thread's work in its lease, or the release of its borrow, changes.
LEMMA WorkFacts ==
    ASSUME Typed, NEW t \in Thread, WorkStep(t)
    PROVE  /\ UNCHANGED <<gate, job>>
           /\ VersionType' /\ ThreadType' /\ HandlesType' /\ MemoryType'
           /\ \A u \in Thread : thread'[u].at = thread[u].at
           /\ \A h \in Created : /\ handles'[h].payload = handles[h].payload
                                 /\ handles'[h].schema = handles[h].schema
<1>0. /\ VersionType /\ ThreadType /\ HandlesType /\ MemoryType
      /\ \A h \in Created : h \in Handle /\ handles[h].payload \in Payload
  BY DEF Typed, TypeOK, Tabled, VersionType, ThreadType, HandlesType, MemoryType, Created
<1>1. CASE Release(t)
  <2>1. thread[t].borrows \in Handle
    BY <1>0, <1>1 DEF Release, ThreadType, ThreadRecord
  <2>2. HandlesType' /\ \A h \in Handle : /\ handles'[h].payload = handles[h].payload
                                          /\ handles'[h].schema = handles[h].schema
    BY <1>0, <1>1, <2>1 DEF Release, HandlesType, HandleRecord
  <2>3. ThreadType' /\ \A u \in Thread : thread'[u].at = thread[u].at
    BY <1>0, <1>1, BorrowsType DEF Release
  <2> QED BY <1>0, <1>1, <2>2, <2>3 DEF Release, VersionType, MemoryType
<1>2. CASE NewAllocates(t)
  <2>1. PICK p \in Payload :
          /\ memory' = [memory EXCEPT ![p] = [used |-> TRUE, ref |-> Null]]
          /\ thread' = [thread EXCEPT ![t].fresh = p]
    BY <1>2 DEF NewAllocates, Unused
  <2>2. MemoryType'
    BY <1>0, <2>1 DEF MemoryType, PayloadRecord
  <2>3. ThreadType' /\ \A u \in Thread : thread'[u].at = thread[u].at
    BY <1>0, <2>1 DEF ThreadType, ThreadRecord
  <2> QED BY <1>0, <1>2, <2>2, <2>3 DEF NewAllocates, VersionType, HandlesType
<1>5. CASE NewFails(t)
  <2>1. MemoryType'
    BY <1>0, <1>5 DEF NewFails, Freed, MemoryType, PayloadRecord
  <2>2. ThreadType' /\ \A u \in Thread : thread'[u].at = thread[u].at
    BY <1>0, <1>5 DEF NewFails, ThreadType, ThreadRecord
  <2> QED BY <1>0, <1>5, <2>1, <2>2 DEF NewFails, VersionType, HandlesType
<1>6. CASE NewStores(t)
  <2> DEFINE h == version.count + 1
             new == [schema |-> version.schema, payload |-> thread[t].fresh, borrows |-> 0]
  <2>1. /\ handles' = [handles EXCEPT ![h] = new]
        /\ UNCHANGED <<gate, version, memory, job>>
        /\ thread[t].fresh # Null /\ version.count < MaxHandles
    BY <1>6 DEF NewStores, Typed, Tabled
  <2>2. h \in Handle \ Created
    BY <2>1, NextIndex
  <2>3. new \in HandleRecord /\ new.payload \in Payload
    BY <1>0, <2>1 DEF VersionType, ThreadType, ThreadRecord, HandleRecord
  <2>4. HandlesType' /\ \A k \in Created : handles'[k] = handles[k]
    <3> HIDE DEF new, h
    <3> QED BY <1>0, <2>1, <2>2, <2>3 DEF HandlesType
  <2>5. ThreadType' /\ \A u \in Thread : thread'[u].at = thread[u].at
    <3>1. thread' = [thread EXCEPT ![t].stored = TRUE]
      BY <1>6 DEF NewStores
    <3>2. thread[t] \in ThreadRecord /\ thread \in [Thread -> ThreadRecord]
      BY <1>0 DEF ThreadType
    <3>3. [thread[t] EXCEPT !.stored = TRUE] \in ThreadRecord
      BY <3>2 DEF ThreadRecord
    <3>4. ThreadType'
      BY <3>1, <3>2, <3>3 DEF ThreadType
    <3>5. [thread[t] EXCEPT !.stored = TRUE].at = thread[t].at
      BY <3>2 DEF ThreadRecord
    <3> QED BY <3>1, <3>2, <3>4, <3>5
  <2> QED BY <1>0, <2>1, <2>4, <2>5 DEF VersionType, MemoryType
<1>7. CASE NewCounts(t)
  <2>1. VersionType'
    BY <1>0, <1>7 DEF NewCounts, VersionType
  <2>2. ThreadType' /\ \A u \in Thread : thread'[u].at = thread[u].at
    BY <1>0, <1>7 DEF NewCounts, ThreadType, ThreadRecord
  <2> QED BY <1>0, <1>7, <2>1, <2>2 DEF NewCounts, HandlesType, MemoryType
<1>3. ASSUME NEW h \in Handle, Borrow(t, h)
      PROVE  /\ UNCHANGED <<gate, version, job, memory>>
             /\ ThreadType' /\ HandlesType'
             /\ \A u \in Thread : thread'[u].at = thread[u].at
             /\ \A k \in Handle : /\ handles'[k].payload = handles[k].payload
                                  /\ handles'[k].schema = handles[k].schema
  <2>1. HandlesType' /\ \A k \in Handle : /\ handles'[k].payload = handles[k].payload
                                          /\ handles'[k].schema = handles[k].schema
    BY <1>0, <1>3 DEF Borrow, HandlesType, HandleRecord
  <2>2. handles[h].payload \in Payload \cup {Null}
    BY <1>0 DEF HandlesType, HandleRecord
  <2>3. ThreadType' /\ \A u \in Thread : thread'[u].at = thread[u].at
    BY <1>0, <1>3, <2>2, BorrowsType DEF Borrow
  <2> QED BY <1>3, <2>1, <2>3 DEF Borrow
<1>4. ASSUME NEW h \in Handle, NEW g \in Handle, Link(t, h, g)
      PROVE  /\ UNCHANGED <<gate, version, job, thread, handles>>
             /\ MemoryType'
  <2>1. handles[g].payload \in Payload \cup {Null}
    BY <1>0 DEF HandlesType, HandleRecord
  <2>2. MemoryType'
    <3>1. handles[h].payload \in Payload
      BY <1>0, <1>4 DEF Link
    <3>2. memory' = [memory EXCEPT ![handles[h].payload] =
                       [memory[handles[h].payload] EXCEPT !.ref = handles[g].payload]]
      BY <1>0, <1>4, <3>1 DEF Link, MemoryType, PayloadRecord
    <3>3. [memory[handles[h].payload] EXCEPT !.ref = handles[g].payload] \in PayloadRecord
      BY <1>0, <2>1, <3>1 DEF MemoryType, PayloadRecord
    <3> QED BY <1>0, <3>1, <3>2, <3>3 DEF MemoryType
  <2> QED BY <1>4, <2>2 DEF Link
<1> QED
  BY <1>0, <1>1, <1>2, <1>3, <1>4, <1>5, <1>6, <1>7
     DEF WorkStep, NewStep, VersionType, ThreadType, HandlesType, MemoryType

\* What the controller changes besides its own place.
LEMMA JobFacts ==
    ASSUME Typed, JobStep
    PROVE  /\ thread' = thread /\ version'.count = version.count
           /\ JobType' /\ GateType' /\ VersionType' /\ HandlesType' /\ MemoryType'
           /\ gate'.readers = gate.readers
           /\ \/ /\ job.at = "pausing" /\ job'.at = "draining" /\ gate'.writer = 1
                 /\ handles' = handles
              \/ /\ job.at = "draining" /\ job'.at = "staging"
                 /\ gate' = gate /\ gate.readers = 0 /\ handles' = handles
              \/ /\ job.at \in {"staging", "publishing", "retiring", "aborting"}
                 /\ job'.at \in Exclusive /\ gate' = gate
                 /\ job.at # "publishing" => handles' = handles
              \/ /\ job.at = "resuming" /\ job'.at = "idle" /\ handles' = handles
<1>0. /\ GateType /\ VersionType /\ HandlesType /\ MemoryType /\ JobType
      /\ \A h \in Created : handles[h].schema # 0
  BY DEF Typed, TypeOK, Tabled, GateType, VersionType, HandlesType, MemoryType, JobType,
     Jobs
<1>1. ASSUME NEW place \in JobPlaces PROVE [job EXCEPT !.at = place] \in Jobs
  BY <1>0, <1>1, JobGoes DEF JobType, Jobs
<1>2. ASSUME NEW place \in JobPlaces
      PROVE [job EXCEPT !.at = place, !.staged = NoneStaged, !.old = NoneStaged] \in Jobs
  BY <1>0 DEF JobType, Jobs, NoneStaged
<1>3. ASSUME NEW addresses, Freed(addresses) PROVE MemoryType'
  BY <1>0, <1>3 DEF Freed, MemoryType, PayloadRecord
<1>4. /\ "draining" \in JobPlaces /\ "staging" \in JobPlaces /\ "aborting" \in JobPlaces
      /\ "publishing" \in JobPlaces /\ "retiring" \in JobPlaces
      /\ "resuming" \in JobPlaces /\ "idle" \in JobPlaces
      /\ {"staging", "publishing", "retiring", "aborting", "resuming"} = Exclusive
  BY DEF JobPlaces, Exclusive
<1>a. CASE Pause
  <2>1. JobType' /\ job'.at = "draining"
    BY <1>0, <1>1, <1>4, <1>a DEF Pause, JobType, Jobs
  <2>2. GateType' /\ gate'.writer = 1 /\ gate'.readers = gate.readers
    BY <1>0, <1>a DEF Pause, GateType
  <2> QED BY <1>0, <1>a, <2>1, <2>2 DEF Pause, VersionType, HandlesType, MemoryType
<1>b. CASE Drained
  <2>1. JobType' /\ job'.at = "staging"
    BY <1>0, <1>1, <1>4, <1>b DEF Drained, JobType, Jobs
  <2> QED BY <1>0, <1>b, <2>1 DEF Drained, GateType, VersionType, HandlesType, MemoryType
<1>c. CASE StageSkip
  <2>1. JobType' /\ job'.at = "staging"
    BY <1>0, <1>c DEF StageSkip, Stages, JobType, Jobs
  <2> QED BY <1>0, <1>4, <1>c, <2>1 DEF StageSkip, Stages, GateType, VersionType,
             HandlesType, MemoryType
<1>d. CASE StageFails
  <2>1. JobType' /\ job'.at = "aborting"
    BY <1>0, <1>1, <1>4, <1>d DEF StageFails, JobType, Jobs
  <2> QED BY <1>0, <1>4, <1>d, <2>1 DEF StageFails, Stages, GateType, VersionType,
             HandlesType, MemoryType
<1>e. CASE Stage
  <2> PICK p \in Unused :
        /\ memory' = [memory EXCEPT ![p] =
                        [used |-> TRUE, ref |-> memory[handles[job.next].payload].ref]]
        /\ job' = [job EXCEPT !.next = @ + 1, !.staged[job.next] = p,
                              !.old[job.next] = handles[job.next].payload]
    BY <1>e DEF Stage
  <2>1. p \in Payload /\ job.next \in Handle
    BY <1>e DEF Stage, Stages, Created, Unused
  <2>2. handles[job.next].payload \in Payload \cup {Null}
    BY <1>0, <2>1 DEF HandlesType, HandleRecord
  <2>3. /\ [job.staged EXCEPT ![job.next] = p] \in [Handle -> Payload \cup {Null}]
        /\ [job.old EXCEPT ![job.next] = handles[job.next].payload]
              \in [Handle -> Payload \cup {Null}]
    BY <1>0, <2>1, <2>2 DEF JobType, Jobs
  <2>4. JobType' /\ job'.at = job.at
    <3>1. job' = [at |-> job.at, target |-> job.target, next |-> job.next + 1,
                  staged |-> [job.staged EXCEPT ![job.next] = p],
                  old |-> [job.old EXCEPT ![job.next] = handles[job.next].payload]]
      BY <1>0 DEF JobType, Jobs
    <3>2. job.at \in JobPlaces /\ job.target \in Schemas /\ job.next + 1 \in Nat
      BY <1>0 DEF JobType, Jobs
    <3> QED BY <2>3, <3>1, <3>2 DEF JobType, Jobs
  <2>5. memory[handles[job.next].payload].ref \in Payload \cup {Null}
    <3>1. handles[job.next].payload \in Payload
      BY <1>0, <1>e, <2>1 DEF Stage, Stages, HandlesType
    <3> QED BY <1>0, <3>1 DEF MemoryType, PayloadRecord
  <2>6. MemoryType'
    BY <1>0, <2>1, <2>5 DEF MemoryType, PayloadRecord
  <2>7. UNCHANGED <<gate, version, handles, thread>> /\ job.at = "staging"
    BY <1>e DEF Stage, Stages
  <2> QED BY <1>0, <1>4, <2>4, <2>6, <2>7 DEF GateType, VersionType, HandlesType
<1>f. CASE Rewrite
  <2>1. JobType' /\ job'.at \in {"publishing", "aborting"}
    BY <1>0, <1>1, <1>4, <1>f DEF Rewrite, JobType, Jobs
  <2>2. ASSUME NEW p \in Payload \cup {Null} PROVE Forward(p) \in Payload \cup {Null}
    BY <1>0, <2>2 DEF Forward, Staged, JobType, Jobs
  <2>3. MemoryType'
    BY <1>0, <1>f, <2>2 DEF Rewrite, MemoryType, PayloadRecord
  <2>4. UNCHANGED <<gate, version, handles, thread>> /\ job.at = "staging"
    BY <1>f DEF Rewrite
  <2> QED BY <1>0, <1>4, <2>1, <2>3, <2>4 DEF GateType, VersionType, HandlesType
<1>h. CASE Publish
  <2>1. JobType' /\ job'.at = "retiring"
    BY <1>0, <1>1, <1>4, <1>h DEF Publish, JobType, Jobs
  <2>2. HandlesType'
    <3>1. ASSUME NEW h \in Handle
          PROVE  handles'[h] = IF h \in Staged
                   THEN [handles[h] EXCEPT !.schema = job.target, !.payload = job.staged[h]]
                   ELSE handles[h]
      BY <1>h, <3>1 DEF Publish
    <3>2. ASSUME NEW h \in Handle
          PROVE  /\ handles'[h] \in HandleRecord
                 /\ handles'[h].schema # 0 => handles'[h].payload \in Payload
      BY <1>0, <3>1 DEF HandlesType, HandleRecord, Staged, JobType, Jobs
    <3>3. DOMAIN handles' = Handle /\ handles' = [h \in Handle |-> handles'[h]]
      BY <1>h DEF Publish
    <3> QED BY <3>2, <3>3 DEF HandlesType
  <2>3. VersionType' /\ version'.count = version.count
    BY <1>0, <1>h DEF Publish, VersionType, JobType, Jobs
  <2>4. UNCHANGED <<gate, memory, thread>> /\ job.at = "publishing"
    BY <1>h DEF Publish
  <2> QED BY <1>0, <1>4, <2>1, <2>2, <2>3, <2>4 DEF GateType, MemoryType
<1>i. CASE Retire
  <2>1. JobType' /\ job'.at = "resuming"
    BY <1>0, <1>2, <1>4, <1>i DEF Retire, JobType, Jobs
  <2>2. VersionType' /\ version'.count = version.count
    BY <1>0, <1>i DEF Retire, VersionType
  <2>3. MemoryType'
    BY <1>3, <1>i DEF Retire
  <2> QED BY <1>0, <1>4, <1>i, <2>1, <2>2, <2>3 DEF Retire, GateType, HandlesType
<1>j. CASE Abort
  <2>1. JobType' /\ job'.at = "resuming"
    BY <1>0, <1>2, <1>4, <1>j DEF Abort, JobType, Jobs
  <2>2. MemoryType'
    BY <1>3, <1>j DEF Abort
  <2> QED BY <1>0, <1>4, <1>j, <2>1, <2>2 DEF Abort, GateType, VersionType, HandlesType
<1>k. CASE Resume
  <2>1. JobType' /\ job'.at = "idle"
    BY <1>k, <1>4, RuntimeConstants, JobStarts DEF Resume, JobType, IdleJob
  <2>2. GateType' /\ gate'.readers = gate.readers
    BY <1>0, <1>k DEF Resume, GateType
  <2> QED BY <1>0, <1>k, <2>1, <2>2 DEF Resume, VersionType, HandlesType, MemoryType
<1> QED
  BY <1>a, <1>b, <1>c, <1>d, <1>e, <1>f, <1>h, <1>i, <1>j, <1>k DEF JobStep

\* Types hold in every reachable state: one step.
LEMMA TypeStep == ASSUME Typed, [Next]_vars PROVE TypeOK'
<1> SUFFICES /\ GateType' /\ VersionType' /\ HandlesType' /\ MemoryType'
             /\ ThreadType' /\ JobType'
  BY DEF TypeOK, GateType, VersionType, HandlesType, MemoryType, ThreadType, JobType,
         Jobs
<1>0. /\ GateType /\ VersionType /\ HandlesType /\ MemoryType /\ ThreadType /\ JobType
  BY DEF Typed, TypeOK, GateType, VersionType, HandlesType, MemoryType, ThreadType, JobType,
         Jobs
<1>1. CASE UNCHANGED vars
  BY <1>0, <1>1 DEF vars, GateType, VersionType, HandlesType, MemoryType, ThreadType,
                    JobType
<1>2. ASSUME NEW t \in Thread, EnterBegin(t) \/ EnterStep(t) \/ Exit(t)
      PROVE  /\ GateType' /\ VersionType' /\ HandlesType' /\ MemoryType'
             /\ ThreadType' /\ JobType'
  BY <1>0, <1>2, EnterFacts DEF Typed, VersionType, HandlesType, MemoryType, JobType
<1>3. ASSUME NEW t \in Thread, WorkStep(t)
      PROVE  /\ GateType' /\ VersionType' /\ HandlesType' /\ MemoryType'
             /\ ThreadType' /\ JobType'
  BY <1>0, <1>3, WorkFacts DEF GateType, JobType
<1>4. ASSUME NEW target \in Schemas, MigrateBegin(target)
      PROVE  /\ GateType' /\ VersionType' /\ HandlesType' /\ MemoryType'
             /\ ThreadType' /\ JobType'
  <2>1. JobType'
    <3>1. "pausing" \in JobPlaces
      BY DEF JobPlaces
    <3> QED BY <1>4, <3>1, JobStarts DEF MigrateBegin, JobType
  <2> QED BY <1>0, <1>4, <2>1 DEF MigrateBegin, GateType, VersionType, HandlesType,
             MemoryType, ThreadType
<1>5. CASE JobStep
  BY <1>0, <1>5, JobFacts DEF ThreadType
<1>6. CASE Destroy
  <2>1. MemoryType'
    BY <1>0, <1>6 DEF Destroy, Freed, MemoryType, PayloadRecord
  <2>2. HandlesType'
    BY <1>6 DEF Destroy, HandlesType, HandleRecord, NoHandle
  <2>3. JobType'
    <3>1. "destroyed" \in JobPlaces /\ 1 \in Schemas
      BY RuntimeConstants DEF JobPlaces
    <3>2. job' = [IdleJob EXCEPT !.at = "destroyed"]
      BY <1>6 DEF Destroy
    <3> QED BY <3>1, <3>2, JobGoes, JobStarts DEF JobType
  <2> QED BY <1>0, <1>6, <2>1, <2>2, <2>3 DEF Destroy, GateType, VersionType, ThreadType
<1> QED BY <1>1, <1>2, <1>3, <1>4, <1>5, <1>6, StepKinds DEF ThreadStep

\* The table keeps what handle-count says of it.
LEMMA TableStep == ASSUME Typed, [Next]_vars PROVE Tabled'
<1>0. /\ TypeOK /\ Tabled
      /\ \A t \in Thread : thread[t].stored \in BOOLEAN
      /\ version.count \in Nat /\ version.schema # 0 /\ job.target # 0
  BY RuntimeConstants DEF Typed, TypeOK, ThreadRecord
<1>1. CASE UNCHANGED vars
  BY <1>0, <1>1 DEF vars, Tabled, Created
<1>2. ASSUME NEW t \in Thread, EnterBegin(t) \/ EnterStep(t) \/ Exit(t) PROVE Tabled'
  <2>1. /\ UNCHANGED <<version, handles>>
        /\ \A u \in Thread : thread'[u].fresh = thread[u].fresh
                           /\ thread'[u].stored = thread[u].stored
        /\ \A u \in Thread : thread[u].fresh # Null => thread'[u].at = thread[u].at
    BY <1>0, <1>2, EnterFacts DEF Tabled
  <2> QED BY <1>0, <2>1 DEF Tabled, Created
<1>3. ASSUME NEW t \in Thread,
             \/ Release(t)
             \/ \E h \in Handle : Borrow(t, h)
             \/ \E h, g \in Handle : Link(t, h, g)
      PROVE  Tabled'
  <2>1. /\ UNCHANGED version
        /\ \A h \in Handle : handles'[h].schema = handles[h].schema
    <3>1. handles \in [Handle -> HandleRecord]
      BY <1>0 DEF TypeOK
    <3>2. ASSUME NEW k \in Handle, NEW b,
                 handles' = [handles EXCEPT ![k].borrows = b]
          PROVE  \A h \in Handle : handles'[h].schema = handles[h].schema
      BY <3>1, <3>2 DEF HandleRecord
    <3>3. CASE Release(t)
      <4>1. thread[t].borrows \in Handle
        BY <1>0, <3>3 DEF Release, TypeOK, ThreadRecord
      <4> QED BY <3>1, <3>2, <3>3, <4>1 DEF Release
    <3>4. ASSUME NEW k \in Handle, Borrow(t, k)
          PROVE  /\ UNCHANGED version
                 /\ \A h \in Handle : handles'[h].schema = handles[h].schema
      BY <3>1, <3>4 DEF Borrow, HandleRecord
    <3>5. CASE \E h, g \in Handle : Link(t, h, g)
      BY <3>5 DEF Link
    <3> QED BY <1>3, <3>3, <3>4, <3>5
  <2>3. \A u \in Thread : /\ thread'[u].fresh = thread[u].fresh
                         /\ thread'[u].stored = thread[u].stored
                         /\ thread'[u].at = thread[u].at
    <3>1. ThreadType /\ \A h \in Handle : handles[h].payload \in Payload \cup {Null}
      BY <1>0 DEF TypeOK, ThreadType, HandleRecord
    <3>2. CASE Release(t)
      BY <3>1, <3>2, BorrowsType DEF Release
    <3>3. ASSUME NEW h \in Handle, Borrow(t, h)
          PROVE  thread' = [thread EXCEPT ![t].borrows = h, ![t].payload = handles[h].payload]
      BY <3>3 DEF Borrow
    <3>4. CASE \E h, g \in Handle : Link(t, h, g)
      BY <3>4 DEF Link
    <3> QED BY <1>3, <3>1, <3>2, <3>3, <3>4, BorrowsType
  <2>2. \A u \in Thread : thread[u].fresh # Null => version.count + 1 \in Handle
    BY <1>0, NextIndex DEF Tabled
  <2> QED BY <1>0, <2>1, <2>2, <2>3 DEF Tabled, Created
<1>4. ASSUME NEW t \in Thread, NewAllocates(t) PROVE Tabled'
  <2>1. PICK p \in Payload : thread' = [thread EXCEPT ![t].fresh = p]
    BY <1>4 DEF NewAllocates, Unused
  <2>2. /\ UNCHANGED <<version, handles>>
        /\ t \in Creators /\ thread[t].at = "in" /\ version.count < MaxHandles
        /\ thread[t].fresh = Null
    BY <1>4 DEF NewAllocates, Working
  <2>3. /\ \A u \in Thread : /\ thread'[u].at = thread[u].at
                           /\ thread'[u].stored = thread[u].stored
        /\ \A u \in Thread \ {t} : thread'[u].fresh = thread[u].fresh
    BY <1>0, <2>1 DEF TypeOK, ThreadRecord
  <2> QED BY <1>0, <2>2, <2>3 DEF Tabled, Created
<1>5. ASSUME NEW t \in Thread, NewFails(t) PROVE Tabled'
  <2>1. /\ UNCHANGED <<version, handles>> /\ ~thread[t].stored
        /\ thread' = [thread EXCEPT ![t].fresh = Null]
    BY <1>5 DEF NewFails
  <2>2. /\ \A u \in Thread : /\ thread'[u].at = thread[u].at
                           /\ thread'[u].stored = thread[u].stored
        /\ thread'[t].fresh = Null
        /\ \A u \in Thread \ {t} : thread'[u].fresh = thread[u].fresh
    BY <1>0, <2>1 DEF TypeOK, ThreadRecord
  <2> QED BY <1>0, <2>1, <2>2 DEF Tabled, Created
<1>6. ASSUME NEW t \in Thread, NewStores(t) PROVE Tabled'
  <2>1. /\ UNCHANGED version /\ thread[t].fresh # Null
        /\ handles' = [handles EXCEPT ![version.count + 1] =
              [schema |-> version.schema, payload |-> thread[t].fresh, borrows |-> 0]]
        /\ thread' = [thread EXCEPT ![t].stored = TRUE]
    BY <1>6 DEF NewStores
  <2>2. version.count + 1 \in Handle \ Created
    BY <1>0, <2>1, NextIndex DEF Tabled
  <2>3. /\ handles'[version.count + 1].schema = version.schema
        /\ \A h \in Created : handles'[h] = handles[h]
    BY <1>0, <2>1, <2>2 DEF TypeOK, Created
  <2>4. /\ \A u \in Thread : /\ thread'[u].at = thread[u].at
                           /\ thread'[u].fresh = thread[u].fresh
                           /\ thread'[u].stored => u = t \/ thread[u].stored
    BY <1>0, <2>1 DEF TypeOK, ThreadRecord
  <2> QED BY <1>0, <2>1, <2>3, <2>4 DEF Tabled, Created
<1>7. ASSUME NEW t \in Thread, NewCounts(t) PROVE Tabled'
  <2>1. /\ thread[t].stored /\ UNCHANGED handles
        /\ version' = [version EXCEPT !.count = @ + 1]
        /\ thread' = [thread EXCEPT ![t].fresh = Null, ![t].stored = FALSE]
    BY <1>7 DEF NewCounts
  <2>2. thread[t].fresh # Null /\ handles[version.count + 1].schema # 0
    BY <1>0, <2>1 DEF Tabled
  <2>3. Created' \subseteq Created \cup {version.count + 1}
    <3>1. version'.count = version.count + 1
      BY <1>0, <2>1 DEF TypeOK
    <3> QED BY <1>0, <2>2, <3>1, NextIndex DEF Tabled, Created
  <2>4. /\ thread'[t].fresh = Null /\ ~thread'[t].stored
        /\ \A u \in Thread \ {t} : thread'[u] = thread[u]
    BY <1>0, <2>1 DEF TypeOK, ThreadRecord
  <2>5. \A u \in Thread \ {t} : thread[u].fresh = Null /\ ~thread[u].stored
    BY <1>0, <2>2, TheCreator DEF Tabled
  <2>6. \A u \in Thread : thread'[u].fresh = Null /\ ~thread'[u].stored
    BY <2>4, <2>5
  <2>7. \A h \in Created' : handles'[h].schema # 0
    BY <1>0, <2>1, <2>2, <2>3 DEF Tabled
  <2> QED BY <2>6, <2>7 DEF Tabled
<1>8. ASSUME NEW target \in Schemas, MigrateBegin(target) PROVE Tabled'
  BY <1>0, <1>8 DEF MigrateBegin, Tabled, Created
<1>9. CASE JobStep
  <2>1. thread' = thread /\ version'.count = version.count
    BY <1>9, JobFacts
  <2>2. ASSUME NEW h \in Handle, handles[h].schema # 0 PROVE handles'[h].schema # 0
    <3>1. CASE Publish
      <4>1. handles'[h] = IF h \in Staged
                          THEN [handles[h] EXCEPT !.schema = job.target,
                                                  !.payload = job.staged[h]]
                          ELSE handles[h]
        BY <2>2, <3>1 DEF Publish
      <4>2. handles[h] \in HandleRecord /\ job.target # 0
        BY <1>0, RuntimeConstants DEF TypeOK
      <4> QED BY <2>2, <4>1, <4>2 DEF HandleRecord
    <3>2. CASE ~Publish
      BY <1>9, <2>2, <3>2 DEF JobStep, Pause, Drained, StageSkip, StageFails, Stage, Rewrite,
         Retire, Abort, Resume
    <3> QED BY <3>1, <3>2
  <2>3. \A u \in Thread : thread[u].fresh # Null => version.count + 1 \in Handle
    BY <1>0, NextIndex DEF Tabled
  <2> QED BY <1>0, <2>1, <2>2, <2>3 DEF Tabled, Created
<1>10. CASE Destroy
  <2>1. Created' = {}
    <3>1. version'.count = 0
      BY <1>0, <1>10 DEF Destroy, TypeOK
    <3> QED BY <3>1, RuntimeConstants DEF Created, Handle
  <2>2. \A u \in Thread : thread[u].fresh = Null /\ ~thread[u].stored
    BY <1>0, <1>10 DEF Destroy, Tabled
  <2> QED BY <1>0, <1>10, <2>1, <2>2 DEF Destroy, Tabled
<1> QED
  BY <1>1, <1>2, <1>3, <1>4, <1>5, <1>6, <1>7, <1>8, <1>9, <1>10, StepKinds
     DEF ThreadStep, WorkStep, NewStep

LEMMA TypeInit == Init => TypeOK
<1> SUFFICES ASSUME Init PROVE TypeOK
  OBVIOUS
<1>1. /\ gate \in [writer : {0, 1}, readers : Int]
      /\ version \in [schema : Schemas, epoch : Nat, count : Nat]
  BY RuntimeConstants DEF Init
<1>2. /\ handles \in [Handle -> HandleRecord]
      /\ \A h \in Handle : handles[h].schema # 0 => handles[h].payload \in Payload
  BY DEF Init, HandleRecord, NoHandle
<1>3. memory \in [Payload -> PayloadRecord] /\ thread \in [Thread -> ThreadRecord]
  BY DEF Init, PayloadRecord, ThreadRecord
<1>4. job \in Jobs
  BY RuntimeConstants, JobStarts DEF Init, JobPlaces
<1> QED BY <1>1, <1>2, <1>3, <1>4 DEF TypeOK, Jobs

LEMMA TypedInit == Init => Typed
<1> SUFFICES ASSUME Init PROVE Tabled
  BY TypeInit DEF Typed
<1>1. Created = {}
  BY RuntimeConstants DEF Init, Created, Handle
<1> QED BY <1>1 DEF Init, Tabled

\* Every field keeps its type, and every handle that exists has a payload
\* (Runtime, Handle and StagedPayload).
THEOREM TypeCorrect == Spec => []TypeOK
<1>1. Init => Typed
  BY TypedInit
<1>2. Typed /\ [Next]_vars => Typed'
  BY TypeStep, TableStep DEF Typed
<1>3. Typed => TypeOK
  BY DEF Typed
<1> QED BY <1>1, <1>2, <1>3, PTL DEF Spec

-----------------------------------------------------------------------------
(* The gate. *)

\* The threads between the two updates of readers.
Reading == {t \in Thread : thread[t].at \in {"counted", "refused", "in"}}

ReadersExact == gate.readers = Cardinality(Reading)

\* The writer is set from pause! to resume!.
WriterHeld == job.at \in {"draining"} \cup Exclusive => gate.writer = 1

Gated == Typed /\ ReadersExact /\ WriterHeld /\ LeaseExcludes

\* A thread joins or leaves the readers, or neither.
LEMMA ReadersMove ==
    ASSUME NEW t \in Thread, \A u \in Thread \ {t} : thread'[u].at = thread[u].at
    PROVE  /\ t \notin Reading /\ t \in Reading' =>
                 Cardinality(Reading') = Cardinality(Reading) + 1
           /\ t \in Reading /\ t \notin Reading' =>
                 Cardinality(Reading') = Cardinality(Reading) - 1
           /\ (t \in Reading <=> t \in Reading') =>
                 Cardinality(Reading') = Cardinality(Reading)
<1>1. IsFiniteSet(Reading)
  BY RuntimeConstants, FS_Subset DEF Reading
<1>2. \A u \in Thread \ {t} : u \in Reading <=> u \in Reading'
  BY DEF Reading
<1>3. ASSUME t \notin Reading, t \in Reading'
      PROVE  Cardinality(Reading') = Cardinality(Reading) + 1
  <2>1. Reading' = Reading \cup {t}
    BY <1>2, <1>3 DEF Reading
  <2> QED BY <1>1, <1>3, <2>1, FS_AddElement
<1>4. ASSUME t \in Reading, t \notin Reading'
      PROVE  Cardinality(Reading') = Cardinality(Reading) - 1
  <2>1. Reading' = Reading \ {t}
    BY <1>2, <1>4 DEF Reading
  <2> QED BY <1>1, <1>4, <2>1, FS_RemoveElement
<1>5. ASSUME t \in Reading <=> t \in Reading'
      PROVE  Cardinality(Reading') = Cardinality(Reading)
  <2>1. Reading' = Reading
    BY <1>2, <1>5 DEF Reading
  <2> QED BY <2>1
<1> QED BY <1>3, <1>4, <1>5

LEMMA NobodyReads ==
    ASSUME ReadersExact, gate.readers = 0
    PROVE  Reading = {}
<1>1. IsFiniteSet(Reading)
  BY RuntimeConstants, FS_Subset DEF Reading
<1> QED BY <1>1, FS_EmptySet DEF ReadersExact

LEMMA GatedStep == ASSUME Gated, [Next]_vars PROVE Gated'
<1>0. Typed /\ TypeOK /\ ReadersExact /\ WriterHeld /\ LeaseExcludes /\ Typed'
  BY TypeStep, TableStep DEF Gated, Typed
<1>1. CASE UNCHANGED vars
  BY <1>0, <1>1 DEF vars, Gated, ReadersExact, Reading, WriterHeld, LeaseExcludes
<1>2. ASSUME NEW t \in Thread, EnterBegin(t) \/ EnterStep(t) \/ Exit(t) PROVE Gated'
  <2>1. \A u \in Thread \ {t} : thread'[u].at = thread[u].at
    BY <1>0, <1>2, EnterFacts
  <2>2. ReadersExact'
    <3>1. gate.readers \in Int
      BY <1>0 DEF TypeOK
    <3>2. \/ t \notin Reading /\ t \in Reading' /\ gate'.readers = gate.readers + 1
          \/ t \in Reading /\ t \notin Reading' /\ gate'.readers = gate.readers - 1
          \/ (t \in Reading <=> t \in Reading') /\ gate'.readers = gate.readers
      BY <1>0, <1>2, EnterFacts DEF Reading
    <3> QED BY <1>0, <2>1, <3>1, <3>2, ReadersMove DEF ReadersExact
  <2>3. WriterHeld'
    BY <1>0, <1>2, EnterFacts DEF WriterHeld
  <2>4. LeaseExcludes'
    <3>1. job' = job /\ (thread'[t].at = "in" => gate.writer = 0)
      BY <1>0, <1>2, EnterFacts
    <3>2. job.at \in Exclusive => gate.writer = 1
      BY <1>0 DEF WriterHeld
    <3> QED BY <1>0, <2>1, <3>1, <3>2 DEF LeaseExcludes
  <2> QED BY <1>0, <2>2, <2>3, <2>4 DEF Gated
<1>3. ASSUME NEW t \in Thread, WorkStep(t) PROVE Gated'
  <2>1. /\ UNCHANGED <<gate, job>>
        /\ \A u \in Thread : thread'[u].at = thread[u].at
    BY <1>0, <1>3, WorkFacts
  <2>2. Reading' = Reading
    BY <2>1 DEF Reading
  <2> QED BY <1>0, <2>1, <2>2 DEF Gated, ReadersExact, WriterHeld, LeaseExcludes
<1>4. ASSUME NEW target \in Schemas, MigrateBegin(target) PROVE Gated'
  <2>1. job'.at = "pausing" /\ UNCHANGED <<gate, thread>>
    BY <1>4 DEF MigrateBegin, IdleJob
  <2>2. Reading' = Reading
    BY <2>1 DEF Reading
  <2> QED BY <1>0, <2>1, <2>2 DEF Gated, ReadersExact, WriterHeld, LeaseExcludes, Exclusive
<1>5. CASE JobStep
  <2>1. Reading' = Reading /\ gate'.readers = gate.readers /\ thread' = thread
    BY <1>0, <1>5, JobFacts DEF Reading
  <2>2. ReadersExact'
    BY <1>0, <2>1 DEF ReadersExact
  <2>3. WriterHeld'
    BY <1>0, <1>5, JobFacts DEF WriterHeld, Exclusive
  <2>4. LeaseExcludes'
    <3>1. ASSUME job.at = "draining", gate.readers = 0 PROVE LeaseExcludes'
      BY <1>0, <2>1, <3>1, NobodyReads DEF LeaseExcludes, Reading
    <3> QED BY <1>0, <1>5, <2>1, <3>1, JobFacts DEF LeaseExcludes, Exclusive
  <2> QED BY <1>0, <2>2, <2>3, <2>4 DEF Gated
<1>6. CASE Destroy
  <2>1. job'.at = "destroyed" /\ UNCHANGED <<gate, thread>>
    BY <1>6 DEF Destroy, IdleJob
  <2>2. Reading' = Reading
    BY <2>1 DEF Reading
  <2> QED BY <1>0, <2>1, <2>2 DEF Gated, ReadersExact, WriterHeld, LeaseExcludes, Exclusive
<1> QED BY <1>1, <1>2, <1>3, <1>4, <1>5, <1>6, StepKinds DEF ThreadStep

LEMMA GatedKept == Spec => []Gated
<1>1. Init => Gated
  <2> SUFFICES ASSUME Init PROVE Gated
    OBVIOUS
  <2>1. ReadersExact
    <3>1. Reading = {}
      BY DEF Init, Reading
    <3> QED BY <3>1, FS_EmptySet DEF Init, ReadersExact
  <2>2. Typed
    BY TypedInit
  <2> QED BY <2>1, <2>2 DEF Init, Gated, WriterHeld, LeaseExcludes, IdleJob, Exclusive
<1> QED BY <1>1, GatedStep, PTL DEF Spec

\* No thread is in a lease while a migration stages, publishes or retires
\* (enter!, pause! and resume!).
THEOREM LeasesExclude == Spec => []LeaseExcludes
<1>1. Gated => LeaseExcludes
  BY DEF Gated
<1> QED BY <1>1, GatedKept, PTL

\* No step moves a payload or a schema under a lease (migrate-type! and
\* runtime-destroy! against enter!).
THEOREM LeasesSeeNoMove == Spec => LeaseStable
<1>1. ASSUME Gated, [Next]_vars, NEW t \in Thread, thread[t].at = "in", NEW h \in Created
      PROVE  handles'[h].payload = handles[h].payload /\ handles'[h].schema = handles[h].schema
  <2>0. Typed /\ TypeOK /\ job.at # "publishing"
    BY <1>1 DEF Gated, Typed, LeaseExcludes, Exclusive
  <2>1. CASE UNCHANGED vars
    BY <2>1 DEF vars
  <2>2. ASSUME NEW u \in Thread, ThreadStep(u)
        PROVE  /\ handles'[h].payload = handles[h].payload
               /\ handles'[h].schema = handles[h].schema
    BY <1>1, <2>0, <2>2, EnterFacts, WorkFacts DEF ThreadStep
  <2>3. ASSUME NEW target \in Schemas, MigrateBegin(target) PROVE handles' = handles
    BY <2>3 DEF MigrateBegin
  <2>4. CASE JobStep
    BY <2>0, <2>4, JobFacts
  <2>5. ~Destroy
    BY <1>1 DEF Destroy
  <2> QED BY <1>1, <2>1, <2>2, <2>3, <2>4, <2>5, StepKinds
<1>2. Gated /\ [Next]_vars =>
        [\A t \in Thread : thread[t].at = "in" =>
            \A h \in Created : /\ handles'[h].payload = handles[h].payload
                               /\ handles'[h].schema = handles[h].schema]_vars
  BY <1>1
<1> QED BY <1>2, GatedKept, PTL DEF Spec, LeaseStable

-----------------------------------------------------------------------------
(* The heap. *)

\* What is allocated, in terms of single payloads.
UsedByOwners ==
    \A p \in Payload : memory[p].used <=>
        \/ \E h \in Created : handles[h].payload = p
        \/ \E t \in Thread : thread[t].fresh = p
        \/ \E h \in Staged : job.staged[h] = p
        \/ job.at = "retiring" /\ \E h \in Staged : job.old[h] = p

OneOwner == \A h, g \in Created : handles[h].payload = handles[g].payload => h = g

RefsOwned ==
    \A h \in Created :
        \/ memory[handles[h].payload].ref = Null
        \/ \E g \in Created : handles[g].payload = memory[handles[h].payload].ref

\* A handle counts the threads that borrow it.
Borrowers(h) == {t \in Thread : thread[t].borrows = h}

BorrowsCounted ==
    /\ \A t \in Thread : thread[t].borrows # 0 => thread[t].borrows \in Created
    /\ \A h \in Created : handles[h].borrows = Cardinality(Borrowers(h))

\* All have the accepted schema: a migration moves all of them or none.
SchemasAgree == \A h \in Created : handles[h].schema = version.schema

\* A migration starts with nothing staged, at the first handle.
NothingLeft ==
    /\ job.at \notin {"staging", "publishing", "retiring", "aborting"} => Staged = {}
    /\ job.at \in {"pausing", "draining"} => job.next = 1

\* Candidates are apart from each other and, before publication, from what
\* they replace; nobody borrows a staged handle.
StagedApart ==
    /\ \A h \in Staged : h \in Created
    /\ \A h, g \in Staged : job.staged[h] = job.staged[g] => h = g
    /\ job.at \in {"staging", "publishing", "aborting"} => \A h \in Staged :
          /\ \A g \in Created : handles[g].payload # job.staged[h]
          /\ job.old[h] = handles[h].payload
          /\ Moves(h)
          /\ <<handles[h].schema, job.target>> \in Transitions
          /\ \A t \in Thread : thread[t].borrows # h

\* Pass 1 staged what moves among the handles it visited, references copied.
StagedSoFar ==
    job.at = "staging" =>
       /\ job.next >= 1
       /\ \A h \in Handle : h < job.next => h \in Created /\ (Moves(h) => h \in Staged)
       /\ \A h \in Staged : /\ h < job.next
                            /\ memory[job.staged[h]].ref = memory[handles[h].payload].ref

\* After pass 2 all that moves is staged, and a candidate's reference names the
\* candidate of what the reference it was copied from names.
Forwarded ==
    job.at = "publishing" =>
       /\ \A h \in Created : Moves(h) => h \in Staged
       /\ \A h \in Staged :
             \/ memory[handles[h].payload].ref = Null /\ memory[job.staged[h]].ref = Null
             \/ \E g \in Staged : /\ memory[handles[h].payload].ref = handles[g].payload
                                  /\ memory[job.staged[h]].ref = job.staged[g]

\* What a publication replaced belongs to no handle.
Replaced ==
    job.at = "retiring" => \A h \in Staged :
        /\ handles[h].payload = job.staged[h]
        /\ job.old[h] \in Payload
        /\ \A g \in Created : handles[g].payload # job.old[h]

\* What a creation has allocated, and perhaps stored, is new.
FreshApart ==
    \A t \in Thread : thread[t].fresh # Null =>
        /\ \A h \in Created : handles[h].payload # thread[t].fresh
        /\ memory[thread[t].fresh].ref = Null
        /\ thread[t].stored =>
              handles[version.count + 1] = [schema |-> version.schema,
                                            payload |-> thread[t].fresh, borrows |-> 0]

Sound ==
    /\ Gated
    /\ UsedByOwners /\ OneOwner /\ RefsOwned
    /\ BorrowsCounted /\ SchemasAgree /\ FreshApart
    /\ NothingLeft /\ StagedApart /\ StagedSoFar /\ Forwarded /\ Replaced

\* The fields, for the step lemmas.
LEMMA HeapTypes ==
    ASSUME Typed
    PROVE  /\ Created \subseteq Handle /\ Staged \subseteq Handle
           /\ \A h \in Handle : h \in Nat /\ h # 0
           /\ \A h \in Handle : /\ handles[h] \in HandleRecord
                                /\ handles[h].payload \in Payload \cup {Null}
                                /\ handles[h].borrows \in Int
                                /\ h \in Created => handles[h].schema # 0
                                /\ h \in Staged <=> job.staged[h] # Null
           /\ \A h \in Created : handles[h].payload \in Payload
           /\ \A h \in Staged : job.staged[h] \in Payload
           /\ \A p \in Payload : /\ memory[p].used \in BOOLEAN
                                 /\ memory[p].ref \in Payload \cup {Null}
           /\ \A t \in Thread : /\ thread[t].borrows \in Handle \cup {0}
                              /\ thread[t].fresh \in Payload \cup {Null}
                              /\ thread[t].stored \in BOOLEAN
           /\ version.count \in Nat /\ \A h \in Handle : h \in Created <=> h <= version.count
           /\ job.next \in Nat /\ job.target \in Schemas /\ version.schema \in Schemas
           /\ job.target # 0 /\ version.schema # 0
           /\ Null \notin Payload
<1>1. TypeOK /\ Tabled
  BY DEF Typed
<1>2. \A h \in Handle : h \in Nat /\ h # 0
  BY RuntimeConstants DEF Handle
<1>3. /\ Created \subseteq Handle /\ Staged \subseteq Handle
      /\ \A h \in Handle : h \in Created <=> h <= version.count
      /\ \A h \in Handle : h \in Staged <=> job.staged[h] # Null
  BY DEF Created, Staged
<1>4. \A h \in Handle : /\ handles[h] \in HandleRecord
                        /\ handles[h].payload \in Payload \cup {Null}
                        /\ handles[h].borrows \in Int
  BY <1>1 DEF TypeOK, HandleRecord
<1>5. \A h \in Created : handles[h].schema # 0 /\ handles[h].payload \in Payload
  BY <1>1, <1>3 DEF TypeOK, Tabled
<1>6. \A h \in Staged : job.staged[h] \in Payload
  BY <1>1, <1>3 DEF TypeOK
<1>7. \A p \in Payload : memory[p].used \in BOOLEAN /\ memory[p].ref \in Payload \cup {Null}
  BY <1>1 DEF TypeOK, PayloadRecord
<1>8. \A t \in Thread : /\ thread[t].borrows \in Handle \cup {0}
                        /\ thread[t].fresh \in Payload \cup {Null}
                        /\ thread[t].stored \in BOOLEAN
  BY <1>1 DEF TypeOK, ThreadRecord
<1>9. /\ version.count \in Nat /\ job.next \in Nat
      /\ job.target \in Schemas /\ version.schema \in Schemas
      /\ job.target # 0 /\ version.schema # 0
  BY <1>1, RuntimeConstants DEF TypeOK
<1> QED BY <1>2, <1>3, <1>4, <1>5, <1>6, <1>7, <1>8, <1>9, RuntimeConstants

\* The invariant says that Owned holds.
LEMMA SoundIsOwned == ASSUME Sound PROVE Owned
<1>0. /\ Typed /\ UsedByOwners /\ OneOwner /\ RefsOwned /\ FreshApart /\ Replaced
  BY DEF Sound, Gated, Typed
<1> DEFINE live == {handles[h].payload : h \in Created}
           retired == IF job.at = "retiring" THEN {job.old[h] : h \in Staged} ELSE {}
           fresh == {thread[t].fresh : t \in Thread} \ {Null}
<1>1. \A p \in live : p \in Payload /\ \E h \in Created : handles[h].payload = p
  BY <1>0, HeapTypes
<1>2. \A p \in Candidates : p \in Payload /\ \E h \in Staged : job.staged[h] = p
  BY <1>0, HeapTypes DEF Candidates
<1>3. \A p \in retired : /\ p \in Payload /\ job.at = "retiring"
                         /\ \E h \in Staged : job.old[h] = p
  BY <1>0 DEF Replaced
<1>4. \A h \in Created : handles[h].payload \in live
  OBVIOUS
<1>5. \A h \in Staged : /\ job.staged[h] \in Candidates
                        /\ job.at = "retiring" => job.old[h] \in retired
  BY DEF Candidates
<1>8. \A p \in fresh : p \in Payload /\ \E t \in Thread : thread[t].fresh = p
  BY <1>0, HeapTypes
<1>9. \A t \in Thread : thread[t].fresh # Null => thread[t].fresh \in fresh
  OBVIOUS
<1>10. Null \notin fresh /\ Null \notin Payload
  BY RuntimeConstants
<1> HIDE DEF live, retired, fresh
<1>6. {p \in Payload : memory[p].used} = live \cup fresh \cup Candidates \cup retired
  <2>1. ASSUME NEW p \in Payload, memory[p].used
        PROVE  p \in live \cup fresh \cup Candidates \cup retired
    BY <1>0, <1>4, <1>5, <1>9, <1>10, <2>1 DEF UsedByOwners
  <2>2. ASSUME NEW p \in live \cup fresh \cup Candidates \cup retired
        PROVE  p \in Payload /\ memory[p].used
    BY <1>0, <1>1, <1>2, <1>3, <1>8 DEF UsedByOwners
  <2> QED BY <2>1, <2>2
<1>7. \A p \in live : memory[p].ref \in live \cup {Null}
  BY <1>0, <1>1, <1>4 DEF RefsOwned
<1>11. live \cap fresh = {}
  <2>1. ASSUME NEW p \in live, p \in fresh PROVE FALSE
    <3>1. PICK h \in Created : handles[h].payload = p
      BY <1>1
    <3>2. PICK t \in Thread : thread[t].fresh = p
      BY <1>8, <2>1
    <3> QED BY <1>0, <1>10, <2>1, <3>1, <3>2 DEF FreshApart
  <2> QED BY <2>1
<1> QED BY <1>0, <1>6, <1>7, <1>11 DEF Owned, OneOwner, live, retired, fresh

\* Steps that leave the heap and the borrows alone.
HeapSame ==
    /\ UNCHANGED <<version, handles, memory>>
    /\ \A t \in Thread : /\ thread'[t].borrows = thread[t].borrows
                       /\ thread'[t].fresh = thread[t].fresh
                       /\ thread'[t].stored = thread[t].stored

LEMMA HeapKept ==
    ASSUME Sound, HeapSame
    PROVE  /\ Created' = Created
           /\ \A h \in Handle : Borrowers(h)' = Borrowers(h)
           /\ OneOwner' /\ RefsOwned' /\ BorrowsCounted' /\ SchemasAgree' /\ FreshApart'
<1>1. Created' = Created
  BY DEF HeapSame, Created
<1>2. ASSUME NEW h \in Handle PROVE Borrowers(h)' = Borrowers(h)
  BY DEF HeapSame, Borrowers
<1>3. OneOwner' /\ RefsOwned' /\ SchemasAgree' /\ FreshApart'
  BY <1>1 DEF Sound, HeapSame, OneOwner, RefsOwned, FreshApart, SchemasAgree
<1>4. BorrowsCounted'
  <2>1. \A h \in Created : h \in Handle
    BY DEF Created
  <2> QED BY <1>1, <1>2, <2>1 DEF Sound, HeapSame, BorrowsCounted
<1> QED BY <1>1, <1>2, <1>3, <1>4

\* and what is staged.
LEMMA StagedKept ==
    ASSUME Sound, HeapSame, Gated', job'.staged = job.staged, job'.old = job.old,
           job'.target = job.target,
           (job'.at = "retiring") = (job.at = "retiring"),
           job'.at \in {"staging", "publishing", "aborting"} =>
              Staged = {} \/ job.at \in {"staging", "publishing", "aborting"},
           NothingLeft', StagedSoFar', Forwarded'
    PROVE  Sound'
<1>0. /\ UsedByOwners /\ StagedApart /\ Replaced
  BY DEF Sound
<1>1. /\ Created' = Created /\ OneOwner' /\ RefsOwned' /\ BorrowsCounted'
      /\ SchemasAgree' /\ FreshApart'
  BY HeapKept
<1>2. Staged' = Staged
  BY DEF Staged
<1>3. UsedByOwners'
  BY <1>0, <1>1, <1>2 DEF UsedByOwners, HeapSame
<1>4. StagedApart'
  BY <1>0, <1>1, <1>2 DEF StagedApart, HeapSame, Moves
<1>5. Replaced'
  BY <1>0, <1>1, <1>2 DEF Replaced, HeapSame
<1> QED BY <1>1, <1>3, <1>4, <1>5 DEF Sound

LEMMA EnterSound ==
    ASSUME Sound, Gated', NEW t \in Thread, EnterBegin(t) \/ EnterStep(t) \/ Exit(t)
    PROVE  Sound'
<1>1. Typed /\ TypeOK /\ NothingLeft /\ StagedSoFar /\ Forwarded
  BY DEF Sound, Gated, Typed
<1>2. UNCHANGED <<version, handles, memory, job>>
  BY <1>1, EnterFacts
<1>3. HeapSame
  <2>1. \A u \in Thread \ {t} : thread'[u] = thread[u]
    BY <1>1, EnterFacts
  <2>2. /\ thread'[t].borrows = thread[t].borrows /\ thread'[t].fresh = thread[t].fresh
        /\ thread'[t].stored = thread[t].stored
    BY <1>1, EnterFacts
  <2> QED BY <1>2, <2>1, <2>2 DEF HeapSame
<1>4. Created' = Created /\ Staged' = Staged
  BY <1>2 DEF Created, Staged
<1>5. NothingLeft' /\ StagedSoFar' /\ Forwarded'
  BY <1>1, <1>2, <1>4 DEF NothingLeft, StagedSoFar, Forwarded, Moves
<1> QED BY <1>2, <1>3, <1>5, StagedKept

LEMMA MigrateBeginSound ==
    ASSUME Sound, Gated', NEW target \in Schemas, MigrateBegin(target)
    PROVE  Sound'
<1>1. /\ UNCHANGED <<gate, version, handles, memory, thread>> /\ job.at = "idle"
      /\ job'.at = "pausing" /\ job'.next = 1 /\ job'.staged = NoneStaged
  BY DEF MigrateBegin, IdleJob
<1>2. Staged = {} /\ Staged' = {}
  BY <1>1 DEF Sound, NothingLeft, Staged, NoneStaged
<1>3. HeapSame
  BY <1>1 DEF HeapSame
<1>4. /\ Created' = Created /\ OneOwner' /\ RefsOwned' /\ BorrowsCounted'
      /\ SchemasAgree' /\ FreshApart'
  BY <1>3, HeapKept
<1>5. UsedByOwners'
  BY <1>1, <1>2, <1>4 DEF Sound, UsedByOwners
<1> QED BY <1>1, <1>2, <1>4, <1>5 DEF Sound, NothingLeft, StagedApart, StagedSoFar,
           Forwarded, Replaced

\* The controller's steps before it touches the heap, and resume!.
LEMMA WaitsSound ==
    ASSUME Sound, Gated', Pause \/ Drained \/ StageSkip \/ StageFails \/ Resume
    PROVE  Sound'
<1>0. Typed /\ TypeOK /\ NothingLeft /\ StagedSoFar
  BY DEF Sound, Gated, Typed
<1>1. HeapSame
  BY DEF Pause, Drained, StageSkip, StageFails, Resume, HeapSame
<1>2. Created' = Created
  BY <1>1, HeapKept
<1>3. /\ job.next \in Nat /\ \A h \in Handle : h \in Nat /\ h # 0
  BY <1>0, HeapTypes
<1>4. CASE Pause \/ Drained
  <2>1. /\ job'.staged = job.staged /\ job'.old = job.old /\ job'.target = job.target
        /\ job'.next = job.next
        /\ \/ job.at = "pausing" /\ job'.at = "draining"
           \/ job.at = "draining" /\ job'.at = "staging"
    BY <1>0, <1>4 DEF Pause, Drained, TypeOK
  <2>2. Staged = {} /\ Staged' = {} /\ job.next = 1
    BY <1>0, <2>1 DEF NothingLeft, Staged
  <2>3. \A h \in Handle : ~(h < 1)
    BY <1>3
  <2>4. NothingLeft' /\ StagedSoFar' /\ Forwarded'
    BY <2>1, <2>2, <2>3 DEF NothingLeft, StagedSoFar, Forwarded
  <2> QED BY <1>1, <2>1, <2>2, <2>4, StagedKept
<1>5. CASE StageSkip
  <2>1. /\ job'.staged = job.staged /\ job'.old = job.old /\ job'.target = job.target
        /\ job'.next = job.next + 1 /\ job.at = "staging" /\ job'.at = "staging"
        /\ job.next \in Created /\ ~Moves(job.next) /\ handles' = handles /\ memory' = memory
    BY <1>0, <1>5 DEF StageSkip, Stages, TypeOK
  <2>2. Staged' = Staged
    BY <2>1 DEF Staged
  <2>3. \A h \in Handle : h < job.next + 1 => h < job.next \/ h = job.next
    BY <1>3
  <2>4. \A h \in Handle : h < job.next => h < job.next + 1
    BY <1>3
  <2>5. \A h \in Staged : h \in Handle
    BY DEF Staged
  <2>6. job.next + 1 >= 1
    BY <1>3
  <2>7. \A h \in Handle : Moves(h)' <=> Moves(h)
    BY <2>1 DEF Moves
  <2>8. StagedSoFar'
    BY <1>0, <1>2, <2>1, <2>2, <2>3, <2>4, <2>5, <2>6, <2>7 DEF StagedSoFar
  <2>9. NothingLeft' /\ Forwarded'
    BY <2>1 DEF NothingLeft, Forwarded
  <2> QED BY <1>1, <2>1, <2>8, <2>9, StagedKept
<1>6. CASE StageFails
  <2>1. /\ job'.staged = job.staged /\ job'.old = job.old /\ job'.target = job.target
        /\ job.at = "staging" /\ job'.at = "aborting"
    BY <1>0, <1>6 DEF StageFails, Stages, TypeOK
  <2>2. NothingLeft' /\ StagedSoFar' /\ Forwarded'
    BY <2>1 DEF NothingLeft, StagedSoFar, Forwarded
  <2> QED BY <1>1, <2>1, <2>2, StagedKept
<1>7. CASE Resume
  <2>1. job.at = "resuming" /\ job'.at = "idle" /\ job'.staged = NoneStaged
        /\ UNCHANGED <<version, handles, memory, thread>>
    BY <1>7 DEF Resume, IdleJob
  <2>2. Staged = {} /\ Staged' = {}
    BY <1>0, <2>1 DEF NothingLeft, Staged, NoneStaged
  <2>3. UsedByOwners'
    BY <1>2, <2>1, <2>2 DEF Sound, UsedByOwners
  <2>4. OneOwner' /\ RefsOwned' /\ BorrowsCounted' /\ SchemasAgree' /\ FreshApart'
    BY <1>1, HeapKept
  <2> QED BY <2>1, <2>2, <2>3, <2>4 DEF Sound, NothingLeft, StagedApart, StagedSoFar,
             Forwarded, Replaced
<1> QED BY <1>4, <1>5, <1>6, <1>7

\* While a thread is in a lease nothing is staged, and stays so while the
\* controller does not move.
LEMMA LeaseUnstaged ==
    ASSUME Sound, NEW t \in Thread, thread[t].at = "in", job' = job
    PROVE  /\ job.at \notin Exclusive
           /\ Staged = {} /\ Staged' = {}
           /\ NothingLeft' /\ StagedApart' /\ StagedSoFar' /\ Forwarded' /\ Replaced'
<1>1. job.at \notin Exclusive
  BY DEF Sound, Gated, LeaseExcludes
<1>2. Staged = {} /\ Staged' = {}
  BY <1>1 DEF Sound, NothingLeft, Exclusive, Staged
<1> QED BY <1>1, <1>2 DEF Sound, Exclusive, NothingLeft, StagedApart, StagedSoFar,
           Forwarded, Replaced

\* Nobody creates while the controller works alone.
LEMMA NobodyCreates ==
    ASSUME Sound, job.at \in Exclusive
    PROVE  /\ \A t \in Thread : thread[t].fresh = Null
           /\ \A t \in Thread, q \in Payload : thread[t].fresh # q
           /\ thread' = thread => FreshApart'
<1>1. \A t \in Thread : thread[t].fresh = Null
  BY DEF Sound, Gated, Typed, Tabled, LeaseExcludes
<1> QED BY <1>1, RuntimeConstants DEF FreshApart

\* A borrow or a release leaves what a creation has stored alone.
LEMMA StoredKept ==
    ASSUME Sound, NEW h \in Created, UNCHANGED <<version, memory>>,
           \A k \in Handle : handles'[k].payload = handles[k].payload,
           \A k \in Handle \ {h} : handles'[k] = handles[k],
           \A u \in Thread : /\ thread'[u].fresh = thread[u].fresh
                              /\ thread'[u].stored = thread[u].stored
    PROVE  FreshApart'
<1>0. Typed /\ FreshApart
  BY DEF Sound, Gated
<1>1. Created' = Created /\ \A k \in Created : k \in Handle
  BY DEF Created
<1>2. ASSUME NEW u \in Thread, thread[u].fresh # Null
      PROVE  handles'[version.count + 1] = handles[version.count + 1]
  <2>1. version.count + 1 \in Handle \ Created
    BY <1>0, <1>2, NextIndex DEF Typed, Tabled
  <2> QED BY <2>1
<1> QED BY <1>0, <1>1, <1>2 DEF FreshApart

\* The creations of a state in which a thread creates are that thread's.
LEMMA OthersCreateNothing ==
    ASSUME Typed, NEW t \in Thread, thread[t].fresh # Null
    PROVE  \A u \in Thread \ {t} : thread[u].fresh = Null /\ ~thread[u].stored
  BY TheCreator DEF Typed, Tabled

LEMMA NewAllocatesSound ==
    ASSUME Sound, Gated', NEW t \in Thread, NewAllocates(t)
    PROVE  Sound'
<1>0. /\ Typed /\ TypeOK /\ UsedByOwners /\ OneOwner /\ RefsOwned /\ BorrowsCounted
      /\ SchemasAgree /\ FreshApart
  BY DEF Sound, Gated, Typed
<1> PICK p \in Unused :
      /\ memory' = [memory EXCEPT ![p] = [used |-> TRUE, ref |-> Null]]
      /\ thread' = [thread EXCEPT ![t].fresh = p]
  BY DEF NewAllocates
<1>1. /\ thread[t].at = "in" /\ thread[t].fresh = Null /\ t \in Creators
      /\ UNCHANGED <<gate, version, handles, job>>
  BY DEF NewAllocates, Working
<1>2. /\ Staged = {} /\ Staged' = {} /\ Created' = Created /\ job.at \notin Exclusive
      /\ NothingLeft' /\ StagedApart' /\ StagedSoFar' /\ Forwarded' /\ Replaced'
  BY <1>1, LeaseUnstaged DEF Created
<1>3. /\ p \in Payload /\ ~memory[p].used /\ p # Null
      /\ \A k \in Created : k \in Handle /\ handles[k].payload \in Payload
      /\ \A u \in Thread : thread[u].fresh \in Payload \cup {Null}
  BY <1>0, HeapTypes DEF Unused
<1>4. /\ \A k \in Created : handles[k].payload # p
      /\ \A u \in Thread : thread[u].fresh # p
  BY <1>0, <1>3 DEF UsedByOwners
<1>5. /\ memory'[p] = [used |-> TRUE, ref |-> Null]
      /\ \A q \in Payload \ {p} : memory'[q] = memory[q]
  BY <1>0, <1>3 DEF TypeOK
<1>6. /\ thread'[t].fresh = p /\ thread'[t].stored = thread[t].stored
      /\ \A u \in Thread : thread'[u].borrows = thread[u].borrows
      /\ \A u \in Thread \ {t} : thread'[u] = thread[u]
  BY <1>0, <1>3 DEF TypeOK, ThreadRecord
<1>7. ~thread[t].stored
  BY <1>0, <1>1 DEF Typed, Tabled
<1>8. UsedByOwners'
  <2>2. \A q \in Payload : memory'[q].used <=>
            q = p \/ (\E k \in Created : handles[k].payload = q)
                  \/ (\E u \in Thread : thread[u].fresh = q)
    BY <1>0, <1>2, <1>3, <1>5 DEF UsedByOwners, Exclusive
  <2>3. ASSUME NEW q \in Payload
        PROVE  (\E u \in Thread : thread'[u].fresh = q) <=>
                   q = p \/ \E u \in Thread : thread[u].fresh = q
    <3> QED BY <1>1, <1>6, RuntimeConstants
  <2> QED BY <1>1, <1>2, <2>2, <2>3 DEF UsedByOwners, Exclusive
<1>9. OneOwner' /\ SchemasAgree'
  BY <1>0, <1>1, <1>2 DEF OneOwner, SchemasAgree
<1>10. RefsOwned'
  BY <1>0, <1>1, <1>2, <1>3, <1>4, <1>5 DEF RefsOwned
<1>11. FreshApart'
  <2>1. ASSUME NEW u \in Thread \ {t}, thread[u].fresh # Null PROVE FALSE
    BY <1>0, <1>1, <2>1, TheCreator
  <2> QED BY <1>1, <1>2, <1>4, <1>5, <1>6, <1>7, <2>1 DEF FreshApart
<1>12. BorrowsCounted'
  <2>1. ASSUME NEW k \in Handle PROVE Borrowers(k)' = Borrowers(k)
    BY <1>6 DEF Borrowers
  <2> QED BY <1>0, <1>1, <1>2, <1>3, <1>6, <2>1 DEF BorrowsCounted
<1> QED BY <1>2, <1>8, <1>9, <1>10, <1>11, <1>12 DEF Sound

LEMMA NewFailsSound ==
    ASSUME Sound, Gated', NEW t \in Thread, NewFails(t)
    PROVE  Sound'
<1>0. /\ Typed /\ TypeOK /\ UsedByOwners /\ OneOwner /\ RefsOwned /\ BorrowsCounted
      /\ SchemasAgree /\ FreshApart
  BY DEF Sound, Gated, Typed
<1> DEFINE p == thread[t].fresh
<1>1. /\ p # Null /\ Freed({p}) /\ thread' = [thread EXCEPT ![t].fresh = Null]
      /\ UNCHANGED <<gate, version, handles, job>>
  BY DEF NewFails
<1>2. thread[t].at = "in"
  BY <1>0, <1>1 DEF Typed, Tabled
<1>3. /\ Staged = {} /\ Staged' = {} /\ Created' = Created /\ job.at \notin Exclusive
      /\ NothingLeft' /\ StagedApart' /\ StagedSoFar' /\ Forwarded' /\ Replaced'
  BY <1>1, <1>2, LeaseUnstaged DEF Created
<1>4. /\ p \in Payload
      /\ \A k \in Created : k \in Handle /\ handles[k].payload \in Payload \ {p}
  BY <1>0, <1>1, HeapTypes DEF FreshApart
<1>5. ~memory'[p].used /\ \A q \in Payload \ {p} : memory'[q] = memory[q]
  BY <1>1, <1>4 DEF Freed
<1>6. /\ \A u \in Thread : thread'[u].borrows = thread[u].borrows
      /\ \A u \in Thread : thread'[u].fresh = Null
  <2>1. \A u \in Thread \ {t} : thread[u].fresh = Null
    BY <1>0, <1>1, OthersCreateNothing
  <2>2. /\ \A u \in Thread : thread'[u].borrows = thread[u].borrows
        /\ thread'[t].fresh = Null
        /\ \A u \in Thread \ {t} : thread'[u].fresh = thread[u].fresh
    BY <1>0, <1>1 DEF TypeOK, ThreadRecord
  <2> QED BY <2>1, <2>2
<1>7. \A u \in Thread \ {t} : thread[u].fresh = Null
  BY <1>0, <1>1, OthersCreateNothing
<1> HIDE DEF p
<1>8. UsedByOwners'
  <2>1. \A q \in Payload \ {p} : memory[q].used <=> \E k \in Created : handles[k].payload = q
    BY <1>0, <1>3, <1>7, RuntimeConstants DEF UsedByOwners, Exclusive, p
  <2>2. \A q \in Payload : memory'[q].used <=> \E k \in Created : handles[k].payload = q
    BY <1>4, <1>5, <2>1
  <2> QED BY <1>1, <1>3, <1>6, <2>2, RuntimeConstants DEF UsedByOwners, Exclusive
<1>9. OneOwner' /\ SchemasAgree' /\ FreshApart'
  BY <1>0, <1>1, <1>3, <1>6 DEF OneOwner, SchemasAgree, FreshApart
<1>10. RefsOwned'
  BY <1>0, <1>1, <1>3, <1>4, <1>5 DEF RefsOwned
<1>11. BorrowsCounted'
  <2>1. ASSUME NEW k \in Handle PROVE Borrowers(k)' = Borrowers(k)
    BY <1>6 DEF Borrowers
  <2> QED BY <1>0, <1>1, <1>3, <1>4, <1>6, <2>1 DEF BorrowsCounted
<1> QED BY <1>3, <1>8, <1>9, <1>10, <1>11 DEF Sound

\* The table holds the new handle one index above those that exist.
LEMMA NewStoresSound ==
    ASSUME Sound, Gated', NEW t \in Thread, NewStores(t)
    PROVE  Sound'
<1>0. /\ Typed /\ TypeOK /\ UsedByOwners /\ OneOwner /\ RefsOwned /\ BorrowsCounted
      /\ SchemasAgree /\ FreshApart
  BY DEF Sound, Gated, Typed
<1> DEFINE n == version.count + 1
           new == [schema |-> version.schema, payload |-> thread[t].fresh, borrows |-> 0]
<1>1. /\ thread[t].fresh # Null
      /\ handles' = [handles EXCEPT ![n] = new]
      /\ thread' = [thread EXCEPT ![t].stored = TRUE]
      /\ UNCHANGED <<gate, version, memory, job>>
  BY DEF NewStores
<1>2. thread[t].at = "in" /\ version.count < MaxHandles
  BY <1>0, <1>1 DEF Typed, Tabled
<1>3. /\ Staged = {} /\ Staged' = {} /\ Created' = Created
      /\ NothingLeft' /\ StagedApart' /\ StagedSoFar' /\ Forwarded' /\ Replaced'
  BY <1>1, <1>2, LeaseUnstaged DEF Created
<1>4. n \in Handle \ Created /\ \A k \in Created : k \in Handle
  BY <1>0, <1>2, NextIndex DEF Created
<1>5. /\ handles'[n] = new
      /\ \A k \in Created : handles'[k] = handles[k]
  <2> HIDE DEF n, new
  <2> QED BY <1>0, <1>1, <1>4 DEF TypeOK
<1>6. \A u \in Thread : /\ thread'[u].borrows = thread[u].borrows
                         /\ thread'[u].fresh = thread[u].fresh
  BY <1>0, <1>1 DEF TypeOK, ThreadRecord
<1>7. \A u \in Thread \ {t} : thread[u].fresh = Null
  BY <1>0, <1>1, OthersCreateNothing
<1>8. UsedByOwners' /\ OneOwner' /\ RefsOwned' /\ SchemasAgree'
  BY <1>0, <1>1, <1>3, <1>5, <1>6 DEF UsedByOwners, OneOwner, RefsOwned, SchemasAgree
<1>9. FreshApart'
  BY <1>0, <1>1, <1>3, <1>5, <1>6, <1>7 DEF FreshApart
<1>10. BorrowsCounted'
  <2>1. ASSUME NEW k \in Handle PROVE Borrowers(k)' = Borrowers(k)
    BY <1>6 DEF Borrowers
  <2> QED BY <1>0, <1>3, <1>4, <1>5, <1>6, <2>1 DEF BorrowsCounted
<1> QED BY <1>3, <1>8, <1>9, <1>10 DEF Sound

\* Where handle-count moves on, the payload passes to the handle.
LEMMA NewCountsFacts ==
    ASSUME Sound, NEW t \in Thread, NewCounts(t)
    PROVE  LET n == version.count + 1
           IN  /\ thread[t].at = "in" /\ thread[t].fresh \in Payload
               /\ n \in Handle \ Created
               /\ Created' = Created \cup {n}
               /\ handles[n] = [schema |-> version.schema, payload |-> thread[t].fresh,
                                borrows |-> 0]
               /\ memory[thread[t].fresh].ref = Null
               /\ \A k \in Created : handles[k].payload # thread[t].fresh
               /\ version'.schema = version.schema
               /\ UNCHANGED <<gate, handles, memory, job>>
               /\ \A u \in Thread : /\ thread'[u].borrows = thread[u].borrows
                                    /\ thread'[u].at = thread[u].at
                                    /\ thread'[u].fresh = Null
               /\ \A u \in Thread \ {t} : thread[u].fresh = Null
<1>0. Typed /\ TypeOK /\ FreshApart
  BY DEF Sound, Gated, Typed
<1>1. /\ thread[t].stored /\ UNCHANGED <<gate, handles, memory, job>>
      /\ version' = [version EXCEPT !.count = @ + 1]
      /\ thread' = [thread EXCEPT ![t].fresh = Null, ![t].stored = FALSE]
  BY DEF NewCounts
<1>2. /\ thread[t].fresh # Null /\ thread[t].fresh \in Payload
      /\ thread[t].at = "in" /\ version.count < MaxHandles
  BY <1>0, <1>1, HeapTypes DEF Typed, Tabled
<1>3. version'.schema = version.schema /\ version'.count = version.count + 1
  BY <1>0, <1>1 DEF TypeOK
<1>4. /\ version.count + 1 \in Handle \ Created
      /\ Created' = Created \cup {version.count + 1}
  BY <1>0, <1>2, <1>3, NextIndex DEF Created
<1>5. \A u \in Thread \ {t} : thread[u].fresh = Null
  BY <1>0, <1>2, OthersCreateNothing
<1>6. \A u \in Thread : /\ thread'[u].borrows = thread[u].borrows
                        /\ thread'[u].at = thread[u].at
                        /\ thread'[u].fresh = Null
  <2>1. ThreadType
    BY <1>0 DEF TypeOK, ThreadType
  <2>2. /\ thread'[t].fresh = Null
        /\ \A u \in Thread : /\ thread'[u].at = thread[u].at
                           /\ thread'[u].borrows = thread[u].borrows
        /\ \A u \in Thread \ {t} : thread'[u] = thread[u]
    <3>1. Null \in Payload \cup {Null} /\ FALSE \in BOOLEAN
      OBVIOUS
    <3> HIDE <1>0
    <3> QED BY <1>1, <2>1, <3>1, FreshType
  <2> QED BY <1>5, <2>2
<1> QED BY <1>0, <1>1, <1>2, <1>3, <1>4, <1>5, <1>6 DEF FreshApart

LEMMA NewCountsSound ==
    ASSUME Sound, Gated', NEW t \in Thread, NewCounts(t)
    PROVE  Sound'
<1>0. /\ Typed /\ TypeOK /\ UsedByOwners /\ OneOwner /\ RefsOwned /\ BorrowsCounted
      /\ SchemasAgree /\ FreshApart
  BY DEF Sound, Gated, Typed
<1> PICK n, p : n = version.count + 1 /\ p = thread[t].fresh
  OBVIOUS
<1>1. /\ thread[t].at = "in" /\ p \in Payload /\ n \in Handle \ Created
      /\ Created' = Created \cup {n}
      /\ handles[n] = [schema |-> version.schema, payload |-> p, borrows |-> 0]
      /\ memory[p].ref = Null
      /\ \A k \in Created : handles[k].payload # p
      /\ version'.schema = version.schema
      /\ UNCHANGED <<gate, handles, memory, job>>
      /\ \A u \in Thread : /\ thread'[u].borrows = thread[u].borrows
                           /\ thread'[u].fresh = Null
      /\ \A u \in Thread \ {t} : thread[u].fresh = Null
  BY NewCountsFacts
<1>2. /\ Staged = {} /\ Staged' = {} /\ job.at \notin Exclusive
      /\ NothingLeft' /\ StagedApart' /\ StagedSoFar' /\ Forwarded' /\ Replaced'
  BY <1>1, LeaseUnstaged
<1>3. \A k \in Created : k \in Handle
  BY DEF Created
<1>4. UsedByOwners'
  <2>1. ASSUME NEW q \in Payload
        PROVE  memory[q].used <=> q = p \/ \E k \in Created : handles[k].payload = q
    <3>1. memory[q].used <=> \/ \E k \in Created : handles[k].payload = q
                             \/ \E u \in Thread : thread[u].fresh = q
      BY <1>0, <1>2 DEF UsedByOwners, Exclusive
    <3>2. (\E u \in Thread : thread[u].fresh = q) <=> q = p
      BY <1>1, RuntimeConstants
    <3> QED BY <3>1, <3>2
  <2>2. ASSUME NEW q \in Payload
        PROVE  (\E k \in Created' : handles'[k].payload = q) <=>
                   q = p \/ \E k \in Created : handles[k].payload = q
    BY <1>1
  <2> QED BY <1>1, <1>2, <2>1, <2>2, RuntimeConstants DEF UsedByOwners, Exclusive
<1>5. OneOwner'
  BY <1>0, <1>1 DEF OneOwner
<1>6. RefsOwned'
  <2>1. ASSUME NEW k \in Created'
        PROVE  \/ memory[handles[k].payload].ref = Null
               \/ \E g \in Created' : handles[g].payload = memory[handles[k].payload].ref
    BY <1>0, <1>1 DEF RefsOwned
  <2> QED BY <1>1, <2>1 DEF RefsOwned
<1>7. SchemasAgree' /\ FreshApart'
  BY <1>0, <1>1 DEF SchemasAgree, FreshApart
<1>8. BorrowsCounted'
  <2>1. ASSUME NEW k \in Handle PROVE Borrowers(k)' = Borrowers(k)
    BY <1>1 DEF Borrowers
  <2>2. Borrowers(n) = {}
    BY <1>0, <1>1, HeapTypes DEF BorrowsCounted, Borrowers
  <2>3. handles'[n].borrows = Cardinality(Borrowers(n)')
    <3>1. n \in Handle /\ handles'[n].borrows = 0
      BY <1>1
    <3>2. Borrowers(n)' = {}
      BY <2>1, <2>2, <3>1
    <3> QED BY <3>1, <3>2, FS_EmptySet
  <2>4. \A k \in Created : handles'[k].borrows = Cardinality(Borrowers(k)')
    BY <1>0, <1>1, <1>3, <2>1 DEF BorrowsCounted
  <2>5. \A u \in Thread : thread'[u].borrows # 0 => thread'[u].borrows \in Created'
    BY <1>0, <1>1 DEF BorrowsCounted
  <2> QED BY <1>1, <2>3, <2>4, <2>5 DEF BorrowsCounted
<1> QED BY <1>2, <1>4, <1>5, <1>6, <1>7, <1>8 DEF Sound

LEMMA LinkSound ==
    ASSUME Sound, Gated', NEW t \in Thread, NEW h \in Handle, NEW g \in Handle, Link(t, h, g)
    PROVE  Sound'
<1>0. /\ Typed /\ TypeOK /\ UsedByOwners /\ OneOwner /\ RefsOwned /\ BorrowsCounted
      /\ SchemasAgree /\ FreshApart
  BY DEF Sound, Gated, Typed
<1> DEFINE p == handles[h].payload
<1>1. /\ thread[t].at = "in" /\ h \in Created /\ g \in Created
      /\ UNCHANGED <<gate, version, handles, thread, job>>
      /\ memory' = [memory EXCEPT ![p].ref = handles[g].payload]
  BY DEF Link, Working
<1>2. /\ Staged = {} /\ Staged' = {} /\ Created' = Created
      /\ NothingLeft' /\ StagedApart' /\ StagedSoFar' /\ Forwarded' /\ Replaced'
  BY <1>1, LeaseUnstaged DEF Created
<1>3. p \in Payload /\ \A k \in Created : handles[k].payload \in Payload
  BY <1>0, <1>1, HeapTypes
<1>4. /\ memory'[p].ref = handles[g].payload
      /\ \A q \in Payload : memory'[q].used = memory[q].used
      /\ \A q \in Payload \ {p} : memory'[q].ref = memory[q].ref
  BY <1>0, <1>1, <1>3 DEF TypeOK, PayloadRecord
<1>5. UsedByOwners'
  BY <1>0, <1>1, <1>2, <1>4 DEF UsedByOwners
<1>6. RefsOwned'
  <2>1. ASSUME NEW k \in Created
        PROVE  \/ memory'[handles[k].payload].ref = Null
               \/ \E l \in Created : handles[l].payload = memory'[handles[k].payload].ref
    <3>1. CASE handles[k].payload = p
      BY <1>1, <1>4, <3>1
    <3>2. CASE handles[k].payload # p
      BY <1>0, <1>3, <1>4, <3>2 DEF RefsOwned
    <3> QED BY <3>1, <3>2
  <2> QED BY <1>1, <1>2, <2>1 DEF RefsOwned
<1>7. OneOwner' /\ SchemasAgree' /\ FreshApart'
  BY <1>0, <1>1, <1>2 DEF OneOwner, SchemasAgree, FreshApart
<1>8. BorrowsCounted'
  <2>1. ASSUME NEW k \in Handle PROVE Borrowers(k)' = Borrowers(k)
    BY <1>1 DEF Borrowers
  <2> QED BY <1>0, <1>1, <1>2, <2>1, HeapTypes DEF BorrowsCounted
<1> QED BY <1>2, <1>5, <1>6, <1>7, <1>8 DEF Sound

\* A borrow adds its thread to the handle's borrowers, a release takes it away.
LEMMA BorrowersMove ==
    ASSUME NEW t \in Thread, NEW h \in Handle, thread[t].borrows = 0, thread'[t].borrows = h,
           \A u \in Thread \ {t} : thread'[u].borrows = thread[u].borrows
    PROVE  /\ Cardinality(Borrowers(h)') = Cardinality(Borrowers(h)) + 1
           /\ \A k \in Handle \ {h} : Borrowers(k)' = Borrowers(k)
<1>1. \A k \in Handle : k # 0
  BY RuntimeConstants DEF Handle
<1>2. IsFiniteSet(Borrowers(h)) /\ t \notin Borrowers(h)
  BY <1>1, RuntimeConstants, FS_Subset DEF Borrowers
<1>3. Borrowers(h)' = Borrowers(h) \cup {t}
  BY DEF Borrowers
<1>4. ASSUME NEW k \in Handle \ {h} PROVE Borrowers(k)' = Borrowers(k)
  BY <1>1 DEF Borrowers
<1>5. Cardinality(Borrowers(h) \cup {t}) = Cardinality(Borrowers(h)) + 1
  BY <1>2, FS_AddElement
<1> QED BY <1>3, <1>4, <1>5

LEMMA BorrowersLeave ==
    ASSUME NEW t \in Thread, NEW h \in Handle, thread[t].borrows = h, thread'[t].borrows = 0,
           \A u \in Thread \ {t} : thread'[u].borrows = thread[u].borrows
    PROVE  /\ Cardinality(Borrowers(h)') = Cardinality(Borrowers(h)) - 1
           /\ Cardinality(Borrowers(h)) \in Nat \ {0}
           /\ \A k \in Handle \ {h} : Borrowers(k)' = Borrowers(k)
<1>1. \A k \in Handle : k # 0
  BY RuntimeConstants DEF Handle
<1>2. IsFiniteSet(Borrowers(h)) /\ t \in Borrowers(h)
  BY RuntimeConstants, FS_Subset DEF Borrowers
<1>3. Borrowers(h)' = Borrowers(h) \ {t}
  BY <1>1 DEF Borrowers
<1>4. ASSUME NEW k \in Handle \ {h} PROVE Borrowers(k)' = Borrowers(k)
  BY <1>1 DEF Borrowers
<1>5. Cardinality(Borrowers(h)) \in Nat \ {0}
  BY <1>2, FS_EmptySet, FS_CardinalityType
<1>6. Cardinality(Borrowers(h) \ {t}) = Cardinality(Borrowers(h)) - 1
  BY <1>2, FS_RemoveElement
<1> QED BY <1>3, <1>4, <1>5, <1>6

LEMMA BorrowSound ==
    ASSUME Sound, Gated', NEW t \in Thread, NEW h \in Handle, Borrow(t, h)
    PROVE  Sound'
<1>0. /\ Typed /\ TypeOK /\ UsedByOwners /\ OneOwner /\ RefsOwned /\ BorrowsCounted
      /\ SchemasAgree /\ FreshApart
  BY DEF Sound, Gated, Typed
<1>1. /\ thread[t].at = "in" /\ thread[t].borrows = 0 /\ h \in Created
      /\ UNCHANGED <<gate, version, memory, job>>
  BY DEF Borrow, Working
<1>2. /\ Staged = {} /\ Staged' = {}
      /\ NothingLeft' /\ StagedApart' /\ StagedSoFar' /\ Forwarded' /\ Replaced'
  BY <1>1, LeaseUnstaged
<1>3. /\ \A k \in Handle : /\ handles'[k].schema = handles[k].schema
                           /\ handles'[k].payload = handles[k].payload
      /\ \A k \in Handle \ {h} : handles'[k] = handles[k]
      /\ handles'[h].borrows = handles[h].borrows + 1
  BY <1>0 DEF Borrow, TypeOK, HandleRecord
<1>4. /\ thread'[t].borrows = h
      /\ \A u \in Thread \ {t} : thread'[u].borrows = thread[u].borrows
      /\ \A u \in Thread : /\ thread'[u].fresh = thread[u].fresh
                         /\ thread'[u].stored = thread[u].stored
  <2>1. ThreadType /\ handles[h].payload \in Payload \cup {Null}
    BY <1>0, HeapTypes DEF TypeOK, ThreadType
  <2> QED BY <2>1, BorrowsType DEF Borrow
<1>5. Created' = Created
  BY <1>1 DEF Created
<1>6. UsedByOwners' /\ OneOwner' /\ RefsOwned' /\ SchemasAgree' /\ FreshApart'
  <2>1. \A k \in Created : k \in Handle
    BY DEF Created
  <2>2. FreshApart'
    BY <1>1, <1>3, <1>4, StoredKept
  <2> QED BY <1>0, <1>1, <1>2, <1>3, <1>4, <1>5, <2>1, <2>2 DEF UsedByOwners, OneOwner,
             RefsOwned, SchemasAgree
<1>7. BorrowsCounted'
  <2>1. /\ Cardinality(Borrowers(h)') = Cardinality(Borrowers(h)) + 1
        /\ \A k \in Handle \ {h} : Borrowers(k)' = Borrowers(k)
    BY <1>1, <1>4, BorrowersMove
  <2>2. ASSUME NEW k \in Created PROVE handles'[k].borrows = Cardinality(Borrowers(k)')
    BY <1>0, <1>3, <2>1, HeapTypes DEF BorrowsCounted
  <2>3. \A u \in Thread : thread'[u].borrows # 0 => thread'[u].borrows \in Created
    BY <1>0, <1>1, <1>4 DEF BorrowsCounted
  <2> QED BY <1>5, <2>2, <2>3 DEF BorrowsCounted
<1> QED BY <1>2, <1>6, <1>7 DEF Sound

\* A release may come in the middle of a migration: the handle is not staged.
LEMMA ReleaseSound ==
    ASSUME Sound, Gated', NEW t \in Thread, Release(t)
    PROVE  Sound'
<1>0. /\ Typed /\ TypeOK /\ UsedByOwners /\ OneOwner /\ RefsOwned /\ BorrowsCounted
      /\ SchemasAgree /\ FreshApart /\ NothingLeft /\ StagedApart /\ StagedSoFar
      /\ Forwarded /\ Replaced
  BY DEF Sound, Gated, Typed
<1> PICK h \in Handle : h = thread[t].borrows
  BY <1>0, HeapTypes DEF Release
<1>1. /\ h # 0 /\ h \in Created
      /\ UNCHANGED <<gate, version, memory, job>>
  BY <1>0 DEF Release, BorrowsCounted
<1>2. /\ thread'[t].borrows = 0
      /\ \A u \in Thread \ {t} : thread'[u].borrows = thread[u].borrows
      /\ \A u \in Thread : /\ thread'[u].fresh = thread[u].fresh
                         /\ thread'[u].stored = thread[u].stored
  <2>1. ThreadType
    BY <1>0 DEF TypeOK, ThreadType
  <2> QED BY <2>1, BorrowsType DEF Release
<1>3. /\ Cardinality(Borrowers(h)') = Cardinality(Borrowers(h)) - 1
      /\ Cardinality(Borrowers(h)) \in Nat \ {0}
      /\ \A k \in Handle \ {h} : Borrowers(k)' = Borrowers(k)
  BY <1>1, <1>2, BorrowersLeave
<1>4. handles[h].borrows = Cardinality(Borrowers(h))
  BY <1>0, <1>1 DEF BorrowsCounted
<1>5. /\ \A k \in Handle : /\ handles'[k].schema = handles[k].schema
                           /\ handles'[k].payload = handles[k].payload
      /\ \A k \in Handle \ {h} : handles'[k] = handles[k]
  BY <1>0, <1>1 DEF Release, TypeOK, HandleRecord
<1>6. handles'[h].borrows = handles[h].borrows - 1
  BY <1>0, <1>1, <1>3, <1>4 DEF Release, TypeOK, HandleRecord
<1>7. Created' = Created /\ Staged' = Staged /\ \A k \in Created : k \in Handle
  BY <1>1 DEF Created, Staged
<1>8. \A k \in Staged : k \in Handle
  BY DEF Staged
<1>9. UsedByOwners' /\ OneOwner' /\ RefsOwned' /\ SchemasAgree' /\ FreshApart'
  <2>1. FreshApart'
    BY <1>1, <1>2, <1>5, StoredKept
  <2> QED BY <1>0, <1>1, <1>2, <1>5, <1>7, <2>1 DEF UsedByOwners, OneOwner, RefsOwned,
             SchemasAgree
<1>10. BorrowsCounted'
  <2>1. ASSUME NEW k \in Created PROVE handles'[k].borrows = Cardinality(Borrowers(k)')
    BY <1>0, <1>3, <1>4, <1>5, <1>6, <1>7 DEF BorrowsCounted
  <2>2. \A u \in Thread : thread'[u].borrows # 0 => thread'[u].borrows \in Created
    BY <1>0, <1>2 DEF BorrowsCounted
  <2> QED BY <1>7, <2>1, <2>2 DEF BorrowsCounted
<1>11. \A k \in Handle : Moves(k)' <=> Moves(k)
  BY <1>1, <1>5 DEF Moves
<1>12. StagedApart'
  <2>1. \A k \in Handle, u \in Thread : thread[u].borrows # k => thread'[u].borrows # k
    BY <1>2, HeapTypes, <1>0
  <2> QED BY <1>0, <1>1, <1>5, <1>7, <1>8, <1>11, <2>1 DEF StagedApart
<1>13. StagedSoFar' /\ Forwarded'
  BY <1>0, <1>1, <1>5, <1>7, <1>8, <1>11 DEF StagedSoFar, Forwarded
<1>14. NothingLeft' /\ Replaced'
  BY <1>0, <1>1, <1>5, <1>7, <1>8 DEF NothingLeft, Replaced
<1> QED BY <1>9, <1>10, <1>12, <1>13, <1>14 DEF Sound

\* Pass 1 takes unused memory for the candidate of an unborrowed handle.
LEMMA StageFacts ==
    ASSUME Sound, Stage
    PROVE  \E h \in Created, p \in Payload :
             /\ ~memory[p].used
             /\ h = job.next /\ Moves(h) /\ MayStage(h) /\ h \notin Staged
             /\ memory'[p] = [used |-> TRUE, ref |-> memory[handles[h].payload].ref]
             /\ \A q \in Payload \ {p} : memory'[q] = memory[q]
             /\ job.at = "staging" /\ job'.at = "staging"
             /\ job'.next = job.next + 1 /\ job'.target = job.target
             /\ job'.staged[h] = p /\ job'.old[h] = handles[h].payload
             /\ \A k \in Handle \ {h} : /\ job'.staged[k] = job.staged[k]
                                        /\ job'.old[k] = job.old[k]
             /\ Staged' = Staged \cup {h}
             /\ UNCHANGED <<gate, version, handles, thread>>
<1>0. Typed /\ TypeOK /\ StagedSoFar
  BY DEF Sound, Gated, Typed
<1> PICK p \in Unused :
      /\ memory' = [memory EXCEPT ![p] =
                      [used |-> TRUE, ref |-> memory[handles[job.next].payload].ref]]
      /\ job' = [job EXCEPT !.next = @ + 1, !.staged[job.next] = p,
                            !.old[job.next] = handles[job.next].payload]
  BY DEF Stage
<1> PICK h \in Created : h = job.next
  BY DEF Stage, Stages
<1>1. /\ p \in Payload /\ ~memory[p].used /\ p # Null /\ h \in Handle
      /\ job.next \in Nat /\ Staged \subseteq Handle
      /\ \A k \in Handle : k \in Nat
  BY <1>0, HeapTypes DEF Unused
<1>2. /\ memory'[p] = [used |-> TRUE, ref |-> memory[handles[h].payload].ref]
      /\ \A q \in Payload \ {p} : memory'[q] = memory[q]
  BY <1>0, <1>1 DEF TypeOK
<1>3. /\ job.at = "staging" /\ Moves(h) /\ MayStage(h)
      /\ UNCHANGED <<gate, version, handles, thread>>
  BY DEF Stage, Stages
<1>4. /\ job'.at = job.at /\ job'.next = job.next + 1 /\ job'.target = job.target
      /\ job'.staged = [job.staged EXCEPT ![h] = p]
      /\ job'.old = [job.old EXCEPT ![h] = handles[h].payload]
  BY <1>0 DEF TypeOK
<1>5. /\ job'.staged[h] = p /\ job'.old[h] = handles[h].payload
      /\ \A k \in Handle \ {h} : /\ job'.staged[k] = job.staged[k]
                                 /\ job'.old[k] = job.old[k]
  BY <1>0, <1>1, <1>4 DEF TypeOK
<1>6. h \notin Staged
  BY <1>0, <1>1, <1>3 DEF StagedSoFar
<1>7. Staged' = Staged \cup {h}
  BY <1>1, <1>5 DEF Staged
<1> QED BY <1>1, <1>2, <1>3, <1>4, <1>5, <1>6, <1>7

LEMMA StageSound == ASSUME Sound, Gated', Stage PROVE Sound'
<1>0. /\ Typed /\ TypeOK /\ UsedByOwners /\ OneOwner /\ RefsOwned /\ BorrowsCounted
      /\ SchemasAgree /\ FreshApart /\ StagedApart /\ StagedSoFar
  BY DEF Sound, Gated, Typed
<1> PICK h \in Created, p \in Payload :
      /\ ~memory[p].used
      /\ h = job.next /\ Moves(h) /\ MayStage(h) /\ h \notin Staged
      /\ memory'[p] = [used |-> TRUE, ref |-> memory[handles[h].payload].ref]
      /\ \A q \in Payload \ {p} : memory'[q] = memory[q]
      /\ job.at = "staging" /\ job'.at = "staging"
      /\ job'.next = job.next + 1 /\ job'.target = job.target
      /\ job'.staged[h] = p /\ job'.old[h] = handles[h].payload
      /\ \A k \in Handle \ {h} : job'.staged[k] = job.staged[k] /\ job'.old[k] = job.old[k]
      /\ Staged' = Staged \cup {h}
      /\ UNCHANGED <<gate, version, handles, thread>>
  BY StageFacts
<1>1. /\ Created' = Created /\ Created \subseteq Handle /\ Staged \subseteq Handle
      /\ \A k \in Created : handles[k].payload \in Payload
      /\ \A k \in Staged : job.staged[k] \in Payload
      /\ job.next \in Nat /\ \A k \in Handle : k \in Nat /\ k # 0
      /\ \A k \in Handle : Moves(k)' <=> Moves(k)
  BY <1>0, HeapTypes DEF Created, Moves
<1>13. /\ \A u \in Thread, q \in Payload : thread[u].fresh # q
       /\ FreshApart'
  BY NobodyCreates DEF Exclusive
<1>2. /\ \A k \in Created : handles[k].payload # p
      /\ \A k \in Staged : job.staged[k] # p /\ k # h
  BY <1>0 DEF UsedByOwners
<1>3. \A k \in Staged : job'.staged[k] = job.staged[k] /\ job'.old[k] = job.old[k]
  BY <1>1, <1>2
<1>4. \A k \in Staged' : k \in Staged \/ k = h
  OBVIOUS
<1>5. UsedByOwners'
  <2>1. ASSUME NEW q \in Payload \ {p}
        PROVE  memory'[q].used <=> \/ \E k \in Created : handles[k].payload = q
                                   \/ \E k \in Staged' : job'.staged[k] = q
    BY <1>0, <1>3, <1>4, <1>13, <2>1 DEF UsedByOwners
  <2>2. memory'[p].used /\ \E k \in Staged' : job'.staged[k] = p
    OBVIOUS
  <2> QED BY <1>1, <1>13, <2>1, <2>2 DEF UsedByOwners
<1>6. OneOwner' /\ SchemasAgree' /\ FreshApart'
  BY <1>0, <1>1, <1>13 DEF OneOwner, SchemasAgree
<1>7. RefsOwned'
  BY <1>0, <1>1, <1>2 DEF RefsOwned
<1>8. BorrowsCounted'
  <2>1. ASSUME NEW k \in Handle PROVE Borrowers(k)' = Borrowers(k)
    BY DEF Borrowers
  <2> QED BY <1>0, <1>1, <2>1 DEF BorrowsCounted
<1>9. \A t \in Thread : thread[t].borrows # h
  <2>1. Cardinality(Borrowers(h)) = handles[h].borrows /\ IsFiniteSet(Borrowers(h))
    BY <1>0, RuntimeConstants, FS_Subset DEF BorrowsCounted, Borrowers
  <2>2. Cardinality(Borrowers(h)) = 0
    BY <2>1, FS_CardinalityType DEF MayStage
  <2>3. Borrowers(h) = {}
    BY <2>1, <2>2, FS_EmptySet
  <2> QED BY <2>3 DEF Borrowers
<1>10. StagedApart'
  <2>1. ASSUME NEW k \in Staged', NEW l \in Staged', job'.staged[k] = job'.staged[l]
        PROVE  k = l
    BY <1>0, <1>2, <1>3, <1>4, <2>1 DEF StagedApart
  <2>2. ASSUME NEW k \in Staged'
        PROVE  /\ k \in Created'
               /\ \A g \in Created' : handles'[g].payload # job'.staged[k]
               /\ job'.old[k] = handles'[k].payload
               /\ handles'[k].schema # job'.target
               /\ <<handles'[k].schema, job'.target>> \in Transitions
               /\ \A u \in Thread : thread'[u].borrows # k
    <3>1. CASE k = h
      BY <1>1, <1>2, <1>9, <3>1 DEF MayStage, Moves
    <3>2. CASE k \in Staged
      BY <1>0, <1>1, <1>3, <3>2 DEF StagedApart, Moves
    <3> QED BY <1>4, <3>1, <3>2
  <2>3. \A k \in Staged' : k \in Created'
    BY <2>2
  <2>4. \A k, l \in Staged' : job'.staged[k] = job'.staged[l] => k = l
    BY <2>1
  <2>5. \A k \in Staged' :
           /\ \A g \in Created' : handles'[g].payload # job'.staged[k]
           /\ job'.old[k] = handles'[k].payload
           /\ Moves(k)'
           /\ <<handles'[k].schema, job'.target>> \in Transitions
           /\ \A u \in Thread : thread'[u].borrows # k
    <3>1. ASSUME NEW k \in Staged', handles'[k].schema # job'.target PROVE Moves(k)'
      BY <3>1 DEF Moves
    <3> QED BY <2>2, <3>1
  <2> QED BY <2>3, <2>4, <2>5 DEF StagedApart
<1>11. StagedSoFar'
  <2>1. \A k \in Handle : k < job.next + 1 => k < job.next \/ k = job.next
    BY <1>1
  <2>2. \A k \in Handle : k < job.next \/ k = job.next => k < job.next + 1
    BY <1>1
  <2>3. ASSUME NEW k \in Staged'
        PROVE  k < job'.next /\ memory'[job'.staged[k]].ref = memory'[handles[k].payload].ref
    BY <1>0, <1>1, <1>2, <1>3, <1>4, <2>2 DEF StagedSoFar
  <2>4. job'.next >= 1
    BY <1>1
  <2>5. ASSUME NEW k \in Handle, k < job'.next
        PROVE  k \in Created /\ (Moves(k) => k \in Staged')
    BY <1>0, <2>1, <2>5 DEF StagedSoFar
  <2> QED BY <1>1, <2>3, <2>4, <2>5 DEF StagedSoFar
<1>12. NothingLeft' /\ Forwarded' /\ Replaced'
  BY DEF NothingLeft, Forwarded, Replaced
<1> QED BY <1>5, <1>6, <1>7, <1>8, <1>10, <1>11, <1>12 DEF Sound

\* Pass 2 writes references of candidates only.
LEMMA RewriteSound == ASSUME Sound, Gated', Rewrite PROVE Sound'
<1>0. /\ Typed /\ TypeOK /\ UsedByOwners /\ OneOwner /\ RefsOwned /\ BorrowsCounted
      /\ SchemasAgree /\ FreshApart /\ StagedApart /\ StagedSoFar
  BY DEF Sound, Gated, Typed
<1>1. /\ UNCHANGED <<gate, version, handles, thread>>
      /\ job.at = "staging" /\ job.next \notin Created
      /\ job'.staged = job.staged /\ job'.old = job.old /\ job'.target = job.target
      /\ \/ job'.at = "aborting"
         \/ job'.at = "publishing" /\ Resolved
  BY <1>0 DEF Rewrite, TypeOK
<1>2. /\ Created' = Created /\ Created \subseteq Handle
      /\ Staged' = Staged /\ Staged \subseteq Handle
      /\ \A k \in Created : handles[k].payload \in Payload
      /\ \A k \in Staged : job.staged[k] \in Payload
      /\ job.next \in Nat /\ \A k \in Handle : k \in Nat /\ k # 0
      /\ \A k \in Handle : Moves(k)' <=> Moves(k)
      /\ Null \notin Payload
  BY <1>0, <1>1, HeapTypes DEF Created, Moves, Staged
<1>3. /\ \A p \in Payload : memory'[p].used = memory[p].used
      /\ \A k \in Created : memory'[handles[k].payload] = memory[handles[k].payload]
      /\ \A k \in Staged : memory'[job.staged[k]].ref = Forward(memory[job.staged[k]].ref)
  <2>1. \A p \in Payload : memory'[p] = IF p \in Candidates
                                        THEN [memory[p] EXCEPT !.ref = Forward(@)]
                                        ELSE memory[p]
    BY DEF Rewrite
  <2>2. \A k \in Created : handles[k].payload \notin Candidates
    BY <1>0, <1>1 DEF StagedApart, Candidates
  <2>3. \A k \in Staged : job.staged[k] \in Candidates
    BY DEF Candidates
  <2>4. \A p \in Payload : memory[p] \in PayloadRecord
    BY <1>0 DEF TypeOK
  <2>5. ASSUME NEW p \in Payload
        PROVE  /\ memory'[p].used = memory[p].used
               /\ p \in Candidates => memory'[p].ref = Forward(memory[p].ref)
               /\ p \notin Candidates => memory'[p] = memory[p]
    BY <2>1, <2>4 DEF PayloadRecord
  <2> QED BY <1>2, <2>2, <2>3, <2>5
<1>4. UsedByOwners' /\ OneOwner' /\ RefsOwned' /\ SchemasAgree' /\ FreshApart'
  <2>1. FreshApart'
    BY <1>1, NobodyCreates DEF Exclusive
  <2> QED BY <1>0, <1>1, <1>2, <1>3, <2>1 DEF UsedByOwners, OneOwner, RefsOwned, SchemasAgree
<1>5. BorrowsCounted'
  <2>1. ASSUME NEW k \in Handle PROVE Borrowers(k)' = Borrowers(k)
    BY <1>1 DEF Borrowers
  <2> QED BY <1>0, <1>1, <1>2, <2>1 DEF BorrowsCounted
<1>6. StagedApart'
  <2>1. ASSUME NEW k \in Staged'
        PROVE  /\ k \in Created'
               /\ \A g \in Created' : handles'[g].payload # job'.staged[k]
               /\ job'.old[k] = handles'[k].payload
               /\ handles'[k].schema # job'.target
               /\ <<handles'[k].schema, job'.target>> \in Transitions
               /\ \A u \in Thread : thread'[u].borrows # k
    BY <1>0, <1>1, <1>2 DEF StagedApart, Moves
  <2>2. \A k, l \in Staged' : job'.staged[k] = job'.staged[l] => k = l
    BY <1>0, <1>1, <1>2 DEF StagedApart
  <2> QED BY <2>1, <2>2 DEF StagedApart, Moves
<1>7. Forwarded'
  <2> SUFFICES ASSUME Resolved PROVE Forwarded'
    BY <1>1 DEF Forwarded
  <2>1. ASSUME NEW h \in Created, Moves(h) PROVE h \in Staged
    <3>1. ~(job.next < h)
      <4> SUFFICES ASSUME job.next < h PROVE FALSE
        OBVIOUS
      <4>1. job.next \in Handle
        <5>1. job.next >= 1 /\ h \in 1 .. MaxHandles
          BY <1>0, <1>1, <1>2 DEF StagedSoFar, Handle
        <5> QED BY <1>2, <5>1, RuntimeConstants DEF Handle
      <4>2. h <= version.count /\ version.count \in Nat
        BY <1>0, HeapTypes
      <4> QED BY <1>0, <1>1, <1>2, <4>1, <4>2, HeapTypes
    <3>2. h # job.next /\ h \in Handle
      BY <1>1, <1>2
    <3>3. h < job.next
      BY <1>2, <3>1, <3>2
    <3> QED BY <1>0, <1>1, <2>1, <3>2, <3>3 DEF StagedSoFar
  <2>2. ASSUME NEW h \in Staged
        PROVE  \/ memory[handles[h].payload].ref = Null /\ memory'[job.staged[h]].ref = Null
               \/ \E g \in Staged : /\ memory[handles[h].payload].ref = handles[g].payload
                                    /\ memory'[job.staged[h]].ref = job.staged[g]
    <3> DEFINE r == memory[job.staged[h]].ref
    <3>1. r = memory[handles[h].payload].ref /\ memory'[job.staged[h]].ref = Forward(r)
      BY <1>0, <1>1, <1>3 DEF StagedSoFar
    <3>2. \A g \in Staged : job.old[g] = handles[g].payload /\ job.old[g] # Null
      <4>1. \A g \in Staged : g \in Created /\ job.old[g] = handles[g].payload
        BY <1>0, <1>1 DEF StagedApart
      <4> QED BY <1>2, <4>1
    <3>3. r = Null \/ \E g \in Staged : job.old[g] = r
      BY DEF Resolved
    <3> HIDE DEF r
    <3>4. CASE r = Null
      BY <3>1, <3>2, <3>4 DEF Forward
    <3>5. CASE \E g \in Staged : job.old[g] = r
      <4> PICK g \in Staged : job.old[g] = r /\ g = CHOOSE k \in Staged : job.old[k] = r
        BY <3>5
      <4>1. Forward(r) = job.staged[g]
        BY DEF Forward
      <4> QED BY <3>1, <3>2, <4>1
    <3> QED BY <3>3, <3>4, <3>5
  <2>3. \A h \in Staged : h \in Created
    BY <1>0 DEF StagedApart
  <2> QED BY <1>1, <1>2, <1>3, <2>1, <2>2, <2>3 DEF Forwarded
<1>8. NothingLeft' /\ StagedSoFar' /\ Replaced'
  BY <1>1 DEF NothingLeft, StagedSoFar, Replaced
<1> QED BY <1>4, <1>5, <1>6, <1>7, <1>8 DEF Sound

\* Publication exchanges the payload of every staged handle for its candidate.
LEMMA PublishFacts ==
    ASSUME Sound, Publish
    PROVE  /\ UNCHANGED <<gate, memory, thread>>
           /\ job.at = "publishing" /\ job'.at = "retiring"
           /\ job'.staged = job.staged /\ job'.old = job.old /\ job'.target = job.target
           /\ version'.schema = job.target /\ version'.count = version.count
           /\ \A h \in Staged : /\ handles'[h].schema = job.target
                                /\ handles'[h].payload = job.staged[h]
           /\ \A h \in Handle \ Staged : handles'[h] = handles[h]
           /\ \A h \in Handle : handles'[h].borrows = handles[h].borrows
           /\ Created' = Created /\ Staged' = Staged
           /\ \A h \in Created : handles'[h].schema = job.target
           /\ Staged = {} \/ Staged = Created
<1>0. Typed /\ TypeOK /\ SchemasAgree /\ StagedApart /\ Forwarded
  BY DEF Sound, Gated, Typed
<1>1. /\ UNCHANGED <<gate, memory, thread>>
      /\ job.at = "publishing" /\ job'.at = "retiring"
      /\ job'.staged = job.staged /\ job'.old = job.old /\ job'.target = job.target
      /\ version'.schema = job.target /\ version'.count = version.count
  BY <1>0 DEF Publish, TypeOK
<1>2. /\ Created \subseteq Handle /\ Staged \subseteq Handle /\ job.target # 0
      /\ \A h \in Handle : handles[h] \in HandleRecord
  BY <1>0, HeapTypes
<1>3. ASSUME NEW h \in Handle
      PROVE  handles'[h] = IF h \in Staged
                           THEN [handles[h] EXCEPT !.schema = job.target,
                                                   !.payload = job.staged[h]]
                           ELSE handles[h]
  BY DEF Publish
<1>4. /\ \A h \in Staged : /\ handles'[h].schema = job.target
                           /\ handles'[h].payload = job.staged[h]
      /\ \A h \in Handle \ Staged : handles'[h] = handles[h]
      /\ \A h \in Handle : handles'[h].borrows = handles[h].borrows
  BY <1>2, <1>3 DEF HandleRecord
<1>5. \A h \in Staged : h \in Created /\ Moves(h)
  BY <1>0, <1>1 DEF StagedApart
<1>6. Created' = Created
  BY <1>1 DEF Created
<1>7. Staged' = Staged
  BY <1>1 DEF Staged
<1>8. \A h \in Created : Moves(h) <=> h \in Staged
  BY <1>0, <1>1, <1>5 DEF Forwarded
<1>9. \A h \in Created : handles'[h].schema = job.target
  BY <1>2, <1>4, <1>8 DEF Moves
<1>10. Staged = {} \/ Staged = Created
  <2>1. CASE version.schema = job.target
    BY <1>0, <1>5, <2>1 DEF SchemasAgree, Moves
  <2>2. CASE version.schema # job.target
    BY <1>0, <1>5, <1>8, <2>2 DEF SchemasAgree, Moves
  <2> QED BY <2>1, <2>2
<1> QED BY <1>1, <1>4, <1>6, <1>7, <1>9, <1>10

LEMMA PublishSound == ASSUME Sound, Gated', Publish PROVE Sound'
<1>0. /\ Typed /\ TypeOK /\ UsedByOwners /\ OneOwner /\ RefsOwned /\ BorrowsCounted
      /\ SchemasAgree /\ FreshApart /\ StagedApart /\ Forwarded
  BY DEF Sound, Gated, Typed
<1>1. /\ UNCHANGED <<gate, memory, thread>>
      /\ job.at = "publishing" /\ job'.at = "retiring"
      /\ job'.staged = job.staged /\ job'.old = job.old
      /\ version'.schema = job.target
      /\ \A h \in Staged : handles'[h].payload = job.staged[h]
      /\ \A h \in Handle \ Staged : handles'[h] = handles[h]
      /\ \A h \in Handle : handles'[h].borrows = handles[h].borrows
      /\ Created' = Created /\ Staged' = Staged
      /\ \A h \in Created : handles'[h].schema = job.target
      /\ Staged = {} \/ Staged = Created
  BY PublishFacts
<1>2. /\ Created \subseteq Handle
      /\ \A h \in Created : handles[h].payload \in Payload
      /\ \A h \in Staged : job.staged[h] \in Payload
  BY <1>0, HeapTypes
<1>12. /\ \A u \in Thread, q \in Payload : thread[u].fresh # q
       /\ FreshApart'
  BY <1>1, NobodyCreates DEF Exclusive
<1>3. /\ \A h \in Staged : /\ h \in Created
                           /\ \A g \in Created : handles[g].payload # job.staged[h]
                           /\ job.old[h] = handles[h].payload
      /\ \A h, g \in Staged : job.staged[h] = job.staged[g] => h = g
  BY <1>0, <1>1 DEF StagedApart
<1>4. \A h \in Created : \/ h \in Staged /\ handles'[h].payload = job.staged[h]
                         \/ Staged = {} /\ handles'[h] = handles[h]
  BY <1>1, <1>2
<1>5. UsedByOwners'
  <2>1. ASSUME NEW q \in Payload
        PROVE  memory[q].used <=> \/ \E k \in Created : handles'[k].payload = q
                                  \/ \E k \in Staged : job.staged[k] = q
                                  \/ \E k \in Staged : job.old[k] = q
    <3>1. memory[q].used <=> \/ \E k \in Created : handles[k].payload = q
                             \/ \E k \in Staged : job.staged[k] = q
      BY <1>0, <1>1, <1>12 DEF UsedByOwners
    <3>2. ASSUME Staged = {}
          PROVE  \A k \in Created : handles'[k] = handles[k]
      BY <1>4, <3>2
    <3>3. ASSUME Staged = Created
          PROVE  /\ \A k \in Created : handles'[k].payload = job.staged[k]
                 /\ \A k \in Created : job.old[k] = handles[k].payload
      BY <1>1, <1>3, <3>3
    <3> QED BY <1>1, <3>1, <3>2, <3>3
  <2> QED BY <1>1, <1>12, <2>1 DEF UsedByOwners
<1>6. OneOwner'
  BY <1>0, <1>1, <1>3, <1>4 DEF OneOwner
<1>7. RefsOwned'
  <2>1. CASE Staged = {}
    <3>1. \A k \in Created : handles'[k] = handles[k]
      BY <1>4, <2>1
    <3> QED BY <1>0, <1>1, <3>1 DEF RefsOwned
  <2>2. CASE Staged = Created
    <3>1. \A k \in Created : handles'[k].payload = job.staged[k]
      BY <1>1, <2>2
    <3>2. \A k \in Created : \/ memory[job.staged[k]].ref = Null
                             \/ \E g \in Created : memory[job.staged[k]].ref = job.staged[g]
      BY <1>0, <1>1, <2>2 DEF Forwarded
    <3> QED BY <1>1, <3>1, <3>2 DEF RefsOwned
  <2> QED BY <1>1, <2>1, <2>2
<1>8. BorrowsCounted'
  <2>1. ASSUME NEW k \in Handle PROVE Borrowers(k)' = Borrowers(k)
    BY <1>1 DEF Borrowers
  <2> QED BY <1>0, <1>1, <1>2, <2>1 DEF BorrowsCounted
<1>9. FreshApart' /\ SchemasAgree'
  BY <1>0, <1>1, <1>12 DEF SchemasAgree
<1>10. Replaced'
  <2>1. ASSUME NEW h \in Staged
        PROVE  /\ job.old[h] \in Payload
               /\ \A g \in Created : handles'[g].payload # job.old[h]
    BY <1>1, <1>2, <1>3, <1>4
  <2> QED BY <1>1, <2>1 DEF Replaced
<1>11. NothingLeft' /\ StagedApart' /\ StagedSoFar' /\ Forwarded'
  BY <1>1, <1>3 DEF NothingLeft, StagedApart, StagedSoFar, Forwarded
<1> QED BY <1>5, <1>6, <1>7, <1>8, <1>9, <1>10, <1>11 DEF Sound

\* After publication, or instead of it, the memory no handle owns is freed.
LEMMA CleanSound ==
    ASSUME Sound, Gated', Retire \/ Abort
    PROVE  Sound'
<1>0. /\ Typed /\ TypeOK /\ UsedByOwners /\ OneOwner /\ RefsOwned /\ BorrowsCounted
      /\ SchemasAgree /\ FreshApart /\ StagedApart /\ Replaced
  BY DEF Sound, Gated, Typed
<1> DEFINE gone == IF job.at = "retiring" THEN {job.old[h] : h \in Staged} ELSE Candidates
<1>1. /\ job.at = "retiring" \/ job.at = "aborting"
      /\ Freed(gone)
      /\ UNCHANGED <<gate, handles, thread>> /\ version'.schema = version.schema
      /\ version'.count = version.count
      /\ job'.at = "resuming" /\ job'.staged = NoneStaged
  BY <1>0 DEF Retire, Abort, TypeOK
<1>13. /\ \A u \in Thread, q \in Payload : thread[u].fresh # q
       /\ FreshApart'
  BY <1>1, NobodyCreates DEF Exclusive
<1>2. Staged' = {} /\ Created' = Created
  BY <1>1 DEF Staged, NoneStaged, Created
<1>3. \A h \in Created : handles[h].payload \notin gone
  <2>1. CASE job.at = "retiring"
    BY <1>0, <2>1 DEF Replaced
  <2>2. CASE job.at = "aborting"
    <3>1. gone = Candidates
      BY <2>2
    <3> HIDE DEF gone
    <3> QED BY <1>0, <2>2, <3>1 DEF StagedApart, Candidates
  <2> QED BY <1>1, <2>1, <2>2
<1>4. \A q \in gone : \E h \in Staged : q = IF job.at = "retiring" THEN job.old[h]
                                            ELSE job.staged[h]
  BY DEF Candidates
<1>5. \A h \in Staged : /\ job.at = "aborting" => job.staged[h] \in gone
                        /\ job.at = "retiring" => job.old[h] \in gone
  BY DEF Candidates
<1>6. \A h \in Created : handles[h].payload \in Payload
  BY <1>0, HeapTypes
<1> HIDE DEF gone
<1>7. \A q \in Payload : /\ q \in gone => ~memory'[q].used
                         /\ q \notin gone => memory'[q] = memory[q]
  BY <1>1 DEF Freed
<1>8. UsedByOwners'
  <2>1. ASSUME NEW q \in Payload
        PROVE  memory'[q].used <=> \E h \in Created : handles[h].payload = q
    <3>1. CASE q \in gone
      BY <1>3, <1>7, <3>1
    <3>2. CASE q \notin gone
      <4>1. \A h \in Staged : job.staged[h] = q => \E g \in Created : handles[g].payload = q
        BY <1>0, <1>1, <1>5, <3>2 DEF Replaced, StagedApart
      <4> QED BY <1>0, <1>1, <1>5, <1>7, <1>13, <3>2, <4>1 DEF UsedByOwners
    <3> QED BY <3>1, <3>2
  <2> QED BY <1>1, <1>2, <1>13, <2>1 DEF UsedByOwners
<1>9. OneOwner' /\ SchemasAgree' /\ FreshApart'
  BY <1>0, <1>1, <1>2, <1>13 DEF OneOwner, SchemasAgree
<1>10. RefsOwned'
  BY <1>0, <1>1, <1>2, <1>3, <1>6, <1>7 DEF RefsOwned
<1>11. BorrowsCounted'
  <2>1. ASSUME NEW k \in Handle PROVE Borrowers(k)' = Borrowers(k)
    BY <1>1 DEF Borrowers
  <2> QED BY <1>0, <1>1, <1>2, <2>1, HeapTypes DEF BorrowsCounted
<1>12. NothingLeft' /\ StagedApart' /\ StagedSoFar' /\ Forwarded' /\ Replaced'
  BY <1>1, <1>2 DEF NothingLeft, StagedApart, StagedSoFar, Forwarded, Replaced
<1> QED BY <1>8, <1>9, <1>10, <1>11, <1>12 DEF Sound

LEMMA DestroySound == ASSUME Sound, Gated', Destroy PROVE Sound'
<1>0. Typed /\ TypeOK /\ UsedByOwners
  BY DEF Sound, Gated, Typed
<1>1. /\ job.at = "idle" /\ \A t \in Thread : thread[t].at = "out" /\ thread[t].borrows = 0
      /\ Freed({handles[h].payload : h \in Created})
      /\ version'.count = 0
      /\ job'.at = "destroyed" /\ job'.staged = NoneStaged
      /\ UNCHANGED <<gate, thread>>
  BY <1>0 DEF Destroy, IdleJob, TypeOK
<1>2. Created' = {}
  BY <1>1, RuntimeConstants DEF Created, Handle
<1>3. Staged' = {} /\ Staged = {}
  BY <1>1 DEF Sound, NothingLeft, Staged, NoneStaged
<1>4. \A t \in Thread : thread[t].fresh = Null
  BY <1>0, <1>1 DEF Typed, Tabled
<1>5. \A q \in Payload : ~memory'[q].used
  BY <1>0, <1>1, <1>3, <1>4, RuntimeConstants DEF UsedByOwners, Freed
<1>6. UsedByOwners' /\ FreshApart'
  BY <1>1, <1>2, <1>3, <1>4, <1>5, RuntimeConstants DEF UsedByOwners, FreshApart
<1> QED BY <1>1, <1>2, <1>3, <1>6 DEF Sound, OneOwner, RefsOwned, BorrowsCounted,
           SchemasAgree, NothingLeft, StagedApart, StagedSoFar, Forwarded, Replaced

LEMMA SoundInit == ASSUME Init, Gated PROVE Sound
<1>1. Created = {} /\ Staged = {}
  BY RuntimeConstants DEF Init, Created, Handle, Staged, IdleJob, NoneStaged
<1> QED BY <1>1, RuntimeConstants DEF Init, IdleJob, Sound, UsedByOwners, OneOwner,
             RefsOwned, BorrowsCounted,
           FreshApart, SchemasAgree, NothingLeft, StagedApart, StagedSoFar, Forwarded, Replaced

LEMMA SoundStep == ASSUME Sound, [Next]_vars PROVE Sound'
<1>0. Gated'
  BY GatedStep DEF Sound
<1>1. CASE UNCHANGED vars
  <2>1. HeapSame /\ job' = job /\ Created' = Created /\ Staged' = Staged
    BY <1>1 DEF vars, HeapSame, Created, Staged
  <2>2. NothingLeft' /\ StagedSoFar' /\ Forwarded'
    BY <1>1, <2>1 DEF vars, Sound, NothingLeft, StagedSoFar, Forwarded, Moves
  <2> QED BY <1>0, <2>1, <2>2, StagedKept
<1>2. ASSUME NEW t \in Thread, ThreadStep(t) PROVE Sound'
  BY <1>0, <1>2, EnterSound, ReleaseSound, NewAllocatesSound, NewFailsSound, NewStoresSound,
     NewCountsSound, BorrowSound, LinkSound DEF ThreadStep, WorkStep, NewStep
<1>3. ASSUME NEW target \in Schemas, MigrateBegin(target) PROVE Sound'
  BY <1>0, <1>3, MigrateBeginSound
<1>4. CASE JobStep
  BY <1>0, <1>4, WaitsSound, StageSound, RewriteSound, PublishSound, CleanSound DEF JobStep
<1>5. CASE Destroy
  BY <1>0, <1>5, DestroySound
<1> QED BY <1>1, <1>2, <1>3, <1>4, <1>5, StepKinds

LEMMA SoundKept == Spec => []Sound
<1>1. Init /\ Gated => Sound
  BY SoundInit
<1>2. Sound /\ [Next]_vars => Sound'
  BY SoundStep
<1> QED BY <1>1, <1>2, GatedKept, PTL DEF Spec

\* Allocated memory is what handles own, what a creation under way has
\* allocated and what a migration holds, no two handles share a payload, and no
\* reference of an accepted payload dangles (migrate-type!, abort-staged!,
\* handle-new!, runtime-destroy!).  This rests on OneCreator: with two threads
\* between the load of handle-count and its increment it is false.
THEOREM MemoryIsOwned == Spec => []Owned
<1>1. Sound => Owned
  BY SoundIsOwned
<1> QED BY <1>1, SoundKept, PTL

-----------------------------------------------------------------------------
(* The runtime implements the LiveGraph. *)

\* The variables of the graph, as GraphKept maps them.
schemas == [h \in Handle |-> IF h \in Created THEN handles[h].schema ELSE 0]
links == [h \in Handle |-> LinkOf(h)]
leases == {t \in Thread : thread[t].at = "in"}
borrows == [t \in Thread |-> thread[t].borrows]

LEMMA GraphVariables ==
    UNCHANGED <<schemas, links, leases, borrows>> <=> UNCHANGED Graph!graphVars
  BY DEF Graph!graphVars, schemas, links, leases, borrows

\* LinkOf, for any handles and memory.
LinkIn(created, hs, mem, h) ==
    LET p == IF h \in created THEN mem[hs[h].payload].ref ELSE Null
    IN  IF p = Null \/ \A g \in created : hs[g].payload # p THEN 0
        ELSE CHOOSE g \in created : hs[g].payload = p

LEMMA LinkIs ==
    ASSUME NEW created, NEW hs, NEW mem, NEW h \in Handle,
           \A k, l \in created : hs[k].payload = hs[l].payload => k = l
    PROVE  /\ h \notin created => LinkIn(created, hs, mem, h) = 0
           /\ mem[hs[h].payload].ref = Null => LinkIn(created, hs, mem, h) = 0
           /\ \A g \in created :
                 /\ h \in created
                 /\ mem[hs[h].payload].ref = hs[g].payload
                 /\ hs[g].payload # Null
                 => LinkIn(created, hs, mem, h) = g
<1>1. h \notin created => LinkIn(created, hs, mem, h) = 0
  BY DEF LinkIn
<1>2. mem[hs[h].payload].ref = Null => LinkIn(created, hs, mem, h) = 0
  BY DEF LinkIn
<1>3. ASSUME NEW g \in created, h \in created,
             mem[hs[h].payload].ref = hs[g].payload, hs[g].payload # Null
      PROVE  LinkIn(created, hs, mem, h) = g
  <2>1. LinkIn(created, hs, mem, h) = CHOOSE k \in created : hs[k].payload = hs[g].payload
    BY <1>3 DEF LinkIn
  <2>2. \A k \in created : hs[k].payload = hs[g].payload => k = g
    BY <1>3
  <2> QED BY <2>1, <2>2
<1> QED BY <1>1, <1>2, <1>3

\* A handle links to nothing, or to the owner of what its reference names.
LEMMA LinkNow ==
    ASSUME Sound, NEW h \in Handle
    PROVE  /\ h \notin Created => LinkOf(h) = 0
           /\ memory[handles[h].payload].ref = Null => LinkOf(h) = 0
           /\ \A g \in Created :
                 h \in Created /\ memory[handles[h].payload].ref = handles[g].payload
                 => LinkOf(h) = g
           /\ h \in Created /\ memory[handles[h].payload].ref # Null
              => \E g \in Created : memory[handles[h].payload].ref = handles[g].payload
<1>1. OneOwner /\ RefsOwned /\ Typed
  BY DEF Sound, Gated
<1>2. LinkOf(h) = LinkIn(Created, handles, memory, h)
  BY DEF LinkOf, LinkIn
<1>3. \A g \in Created : handles[g].payload # Null
  BY <1>1, HeapTypes
<1>4. \A k, l \in Created : handles[k].payload = handles[l].payload => k = l
  BY <1>1 DEF OneOwner
<1>5. /\ h \notin Created => LinkIn(Created, handles, memory, h) = 0
      /\ memory[handles[h].payload].ref = Null => LinkIn(Created, handles, memory, h) = 0
      /\ \A g \in Created :
            /\ h \in Created
            /\ memory[handles[h].payload].ref = handles[g].payload
            /\ handles[g].payload # Null
            => LinkIn(Created, handles, memory, h) = g
  BY <1>4, LinkIs
<1> QED BY <1>1, <1>2, <1>3, <1>5 DEF RefsOwned

\* The same of the state a step leads to.
LEMMA LinkNext ==
    ASSUME Sound', NEW h \in Handle
    PROVE  /\ h \notin Created' => LinkOf(h)' = 0
           /\ memory'[handles'[h].payload].ref = Null => LinkOf(h)' = 0
           /\ \A g \in Created' :
                 h \in Created' /\ memory'[handles'[h].payload].ref = handles'[g].payload
                 => LinkOf(h)' = g
<1>1. OneOwner' /\ TypeOK' /\ Tabled'
  BY DEF Sound, Gated, Typed
<1>2. LinkOf(h)' = LinkIn(Created', handles', memory', h)
  BY DEF LinkOf, LinkIn
<1>3. \A g \in Created' : g \in Handle /\ handles'[g].payload # Null
  BY <1>1, RuntimeConstants DEF TypeOK, Tabled, Created
<1>4. \A k, l \in Created' : handles'[k].payload = handles'[l].payload => k = l
  BY <1>1 DEF OneOwner
<1>5. /\ h \notin Created' => LinkIn(Created', handles', memory', h) = 0
      /\ memory'[handles'[h].payload].ref = Null => LinkIn(Created', handles', memory', h) = 0
      /\ \A g \in Created' :
            /\ h \in Created'
            /\ memory'[handles'[h].payload].ref = handles'[g].payload
            /\ handles'[g].payload # Null
            => LinkIn(Created', handles', memory', h) = g
  BY <1>4, LinkIs
<1> QED BY <1>2, <1>3, <1>5

\* Links stay when references name the payloads of the same handles.
LEMMA LinksKept ==
    ASSUME Sound, Sound', Created' = Created,
           \A h \in Created :
              \/ /\ memory[handles[h].payload].ref = Null
                 /\ memory'[handles'[h].payload].ref = Null
              \/ \E g \in Created : /\ memory[handles[h].payload].ref = handles[g].payload
                                    /\ memory'[handles'[h].payload].ref = handles'[g].payload
    PROVE  links' = links
<1>1. ASSUME NEW h \in Handle PROVE LinkOf(h)' = LinkOf(h)
  BY LinkNow, LinkNext
<1> QED BY <1>1 DEF links

\* A step that neither moves a handle nor writes a reference of one.
LEMMA GraphUntouched ==
    ASSUME Sound, Sound', version'.count = version.count,
           \A h \in Created : /\ handles'[h].schema = handles[h].schema
                              /\ handles'[h].payload = handles[h].payload,
           \A h \in Created : memory'[handles[h].payload].ref = memory[handles[h].payload].ref
    PROVE  schemas' = schemas /\ links' = links
<1>1. Created' = Created /\ \A h \in Created : h \in Handle
  BY DEF Created
<1>2. RefsOwned
  BY DEF Sound
<1>3. links' = links
  BY <1>1, <1>2, LinksKept DEF RefsOwned
<1>4. schemas' = schemas
  <2>1. ASSUME NEW h \in Handle
        PROVE  /\ h \in Created' <=> h \in Created
               /\ h \in Created => handles'[h].schema = handles[h].schema
    BY <1>1
  <2> QED BY <2>1 DEF schemas
<1> QED BY <1>3, <1>4

LEMMA EnterGraph ==
    ASSUME Sound, Sound', NEW t \in Thread, EnterBegin(t) \/ EnterStep(t) \/ Exit(t)
    PROVE  [Graph!GraphNext]_Graph!graphVars
<1>0. Typed /\ TypeOK
  BY DEF Sound, Gated, Typed
<1>1. UNCHANGED <<version, handles, memory, job>>
  BY <1>0, EnterFacts
<1>2. schemas' = schemas /\ links' = links
  BY <1>1, GraphUntouched
<1>3. borrows' = borrows
  <2>1. /\ \A u \in Thread \ {t} : thread'[u] = thread[u]
        /\ thread'[t].borrows = thread[t].borrows
    BY <1>0, EnterFacts
  <2> QED BY <2>1 DEF borrows
<1>4. leases' = leases \/ leases' = leases \cup {t} \/ leases' = leases \ {t}
  <2>1. \A u \in Thread \ {t} : thread'[u].at = thread[u].at
    BY <1>0, EnterFacts
  <2> QED BY <2>1 DEF leases
<1>5. CASE leases' = leases
  BY <1>2, <1>3, <1>5, GraphVariables
<1>6. CASE leases' = leases \cup {t}
  <2>1. Graph!Enter(t)
    BY <1>2, <1>3, <1>6 DEF Graph!Enter, schemas, links, leases, borrows
  <2> QED BY <2>1 DEF Graph!GraphNext
<1>7. CASE leases' = leases \ {t}
  <2>1. Graph!Exit(t)
    BY <1>2, <1>3, <1>7 DEF Graph!Exit, schemas, links, leases, borrows
  <2> QED BY <2>1 DEF Graph!GraphNext
<1> QED BY <1>4, <1>5, <1>6, <1>7

\* Until handle-count moves on the graph does not see a creation.
LEMMA NewUnseen ==
    ASSUME Sound, Sound', NEW t \in Thread, NewAllocates(t) \/ NewFails(t) \/ NewStores(t)
    PROVE  UNCHANGED Graph!graphVars
<1>0. Typed /\ TypeOK /\ FreshApart /\ UsedByOwners
  BY DEF Sound, Gated, Typed
<1>1. version' = version /\ \A h \in Created : handles[h].payload \in Payload
  BY <1>0, HeapTypes DEF NewAllocates, NewFails, NewStores
<1>2. \A h \in Created : handles'[h] = handles[h]
  <2>1. CASE NewStores(t)
    <3>1. version.count + 1 \in Handle \ Created
      BY <1>0, <2>1, NextIndex DEF NewStores, Typed, Tabled
    <3> QED BY <1>0, <2>1, <3>1 DEF NewStores, TypeOK, Created
  <2> QED BY <2>1 DEF NewAllocates, NewFails
<1>3. \A h \in Created : memory'[handles[h].payload] = memory[handles[h].payload]
  <2>1. CASE NewAllocates(t)
    <3>1. PICK p \in Unused : memory' = [memory EXCEPT ![p] = [used |-> TRUE, ref |-> Null]]
      BY <2>1 DEF NewAllocates
    <3>2. \A h \in Created : handles[h].payload # p
      BY <1>0, <1>1 DEF UsedByOwners, Unused
    <3> QED BY <1>0, <1>1, <3>1, <3>2 DEF TypeOK
  <2>2. CASE NewFails(t)
    BY <1>0, <1>1, <2>2 DEF NewFails, Freed, FreshApart
  <2> QED BY <2>1, <2>2 DEF NewStores
<1>4. schemas' = schemas /\ links' = links
  BY <1>1, <1>2, <1>3, GraphUntouched
<1>5. \A u \in Thread : thread'[u].at = thread[u].at /\ thread'[u].borrows = thread[u].borrows
  BY <1>0 DEF NewAllocates, NewFails, NewStores, TypeOK, ThreadRecord
<1>6. leases' = leases /\ borrows' = borrows
  BY <1>5 DEF leases, borrows
<1> QED BY <1>4, <1>6, GraphVariables

\* A new handle links to nothing, and no older handle links to it.
LEMMA NewGraph ==
    ASSUME Sound, Sound', NEW t \in Thread, NewCounts(t)
    PROVE  Graph!GraphNext
<1>0. Typed /\ RefsOwned
  BY DEF Sound, Gated
<1> PICK h \in Handle, p \in Payload :
      /\ h \notin Created /\ Created' = Created \cup {h} /\ thread[t].at = "in"
      /\ handles[h] = [schema |-> version.schema, payload |-> p, borrows |-> 0]
      /\ memory[p].ref = Null
      /\ UNCHANGED <<handles, memory>>
      /\ \A u \in Thread : /\ thread'[u].borrows = thread[u].borrows
                         /\ thread'[u].at = thread[u].at
  BY NewCountsFacts
<1>1. version.schema \in Schemas /\ version.schema # 0
  BY <1>0, HeapTypes
<1>2. links' = links
  <2>1. ASSUME NEW k \in Handle PROVE LinkOf(k)' = LinkOf(k)
    <3>1. CASE k \notin Created
      <4>1. LinkOf(k) = 0
        BY <3>1, LinkNow
      <4>2. LinkOf(k)' = 0
        <5>1. CASE k = h
          <6>1. memory'[handles'[h].payload].ref = Null
            OBVIOUS
          <6> QED BY <5>1, <6>1, LinkNext
        <5> QED BY <3>1, <5>1, LinkNext
      <4> QED BY <4>1, <4>2
    <3>2. CASE k \in Created
      <4>1. CASE memory[handles[k].payload].ref = Null
        BY <4>1, LinkNow, LinkNext
      <4>2. CASE \E g \in Created : memory[handles[k].payload].ref = handles[g].payload
        <5> PICK g \in Created : memory[handles[k].payload].ref = handles[g].payload
          BY <4>2
        <5> QED BY <3>2, LinkNow, LinkNext
      <4> QED BY <1>0, <3>2, <4>1, <4>2 DEF RefsOwned
    <3> QED BY <3>1, <3>2
  <2> QED BY <2>1 DEF links
<1>3. Graph!New(h)
  <2>1. leases # {} /\ leases' = leases /\ borrows' = borrows
    BY DEF leases, borrows
  <2>2. schemas' = [schemas EXCEPT ![h] = version.schema] /\ schemas[h] = 0
    <3>1. h \in Handle /\ h \in Created' /\ handles'[h].schema = version.schema
      OBVIOUS
    <3>2. h \notin Created
      OBVIOUS
    <3>3. ASSUME NEW k \in Handle \ {h}
          PROVE  /\ k \in Created' <=> k \in Created
                 /\ handles'[k].schema = handles[k].schema
      OBVIOUS
    <3> QED BY <3>1, <3>2, <3>3 DEF schemas
  <2> QED BY <1>1, <1>2, <2>1, <2>2 DEF Graph!New, Graph!Exists, schemas, links, leases,
             borrows
<1> QED BY <1>3 DEF Graph!GraphNext

LEMMA LinkGraph ==
    ASSUME Sound, Sound', NEW t \in Thread, NEW h \in Handle, NEW g \in Handle, Link(t, h, g)
    PROVE  Graph!GraphNext
<1>0. Typed /\ TypeOK /\ OneOwner /\ RefsOwned
  BY DEF Sound, Gated, Typed
<1> DEFINE p == handles[h].payload
<1>1. /\ thread[t].at = "in" /\ h \in Created /\ g \in Created
      /\ UNCHANGED <<version, handles, thread>>
      /\ memory' = [memory EXCEPT ![p].ref = handles[g].payload]
  BY DEF Link, Working
<1>2. /\ Created' = Created /\ p \in Payload
      /\ \A k \in Created : handles[k].payload \in Payload
  BY <1>0, <1>1, HeapTypes DEF Created
<1>3. /\ memory'[p].ref = handles[g].payload
      /\ \A q \in Payload \ {p} : memory'[q].ref = memory[q].ref
  BY <1>0, <1>1, <1>2 DEF TypeOK, PayloadRecord
<1>4. LinkOf(h)' = g
  BY <1>1, <1>2, <1>3, LinkNext
<1>5. ASSUME NEW k \in Handle \ {h} PROVE LinkOf(k)' = LinkOf(k)
  <2>1. CASE k \notin Created
    BY <1>2, <2>1, LinkNow, LinkNext
  <2>2. CASE k \in Created
    <3>1. memory'[handles'[k].payload].ref = memory[handles[k].payload].ref
      BY <1>0, <1>1, <1>2, <1>3, <2>2 DEF OneOwner
    <3>2. CASE memory[handles[k].payload].ref = Null
      BY <3>1, <3>2, LinkNow, LinkNext
    <3>3. CASE \E l \in Created : memory[handles[k].payload].ref = handles[l].payload
      <4> PICK l \in Created : memory[handles[k].payload].ref = handles[l].payload
        BY <3>3
      <4> QED BY <1>1, <1>2, <2>2, <3>1, LinkNow, LinkNext
    <3> QED BY <1>0, <2>2, <3>2, <3>3 DEF RefsOwned
  <2> QED BY <2>1, <2>2
<1>6. Graph!Link(h, g)
  <2>1. leases # {} /\ leases' = leases /\ borrows' = borrows /\ schemas' = schemas
    BY <1>1, <1>2 DEF leases, borrows, schemas
  <2>2. links' = [links EXCEPT ![h] = g]
    BY <1>4, <1>5 DEF links
  <2>3. schemas[h] # 0 /\ schemas[g] # 0
    BY <1>0, <1>1, HeapTypes DEF schemas
  <2> QED BY <2>1, <2>2, <2>3 DEF Graph!Link, Graph!Exists, schemas, links, leases, borrows
<1> QED BY <1>6 DEF Graph!GraphNext

LEMMA ReleaseGraph ==
    ASSUME Sound, Sound', NEW t \in Thread, Release(t)
    PROVE  Graph!GraphNext
<1>0. Typed /\ TypeOK /\ BorrowsCounted
  BY DEF Sound, Gated, Typed
<1>1. thread[t].borrows \in Handle
  BY <1>0 DEF Release, BorrowsCounted, Created
<1>2. /\ \A h \in Handle : /\ handles'[h].schema = handles[h].schema
                           /\ handles'[h].payload = handles[h].payload
      /\ memory' = memory /\ version' = version
  BY <1>0, <1>1 DEF Release, TypeOK, HandleRecord
<1>3. /\ \A u \in Thread : thread'[u].at = thread[u].at
      /\ thread'[t].borrows = 0
      /\ \A u \in Thread \ {t} : thread'[u].borrows = thread[u].borrows
  <2>1. ThreadType
    BY <1>0 DEF TypeOK, ThreadType
  <2> QED BY <2>1, BorrowsType DEF Release
<1>4. schemas' = schemas /\ links' = links
  BY <1>2, GraphUntouched DEF Created
<1>5. leases' = leases /\ borrows' = [borrows EXCEPT ![t] = 0]
  BY <1>3 DEF leases, borrows
<1>6. Graph!Release(t)
  BY <1>4, <1>5 DEF Graph!Release, schemas, links, leases, borrows
<1> QED BY <1>6 DEF Graph!GraphNext

LEMMA BorrowGraph ==
    ASSUME Sound, Sound', NEW t \in Thread, NEW h \in Handle, Borrow(t, h)
    PROVE  Graph!GraphNext
<1>0. Typed /\ TypeOK
  BY DEF Sound, Gated, Typed
<1>1. thread[t].at = "in" /\ h \in Created
  BY DEF Borrow, Working
<1>2. /\ \A k \in Handle : /\ handles'[k].schema = handles[k].schema
                           /\ handles'[k].payload = handles[k].payload
      /\ memory' = memory /\ version' = version
  BY <1>0 DEF Borrow, TypeOK, HandleRecord
<1>3. /\ \A u \in Thread : thread'[u].at = thread[u].at
      /\ thread'[t].borrows = h
      /\ \A u \in Thread \ {t} : thread'[u].borrows = thread[u].borrows
  <2>1. ThreadType /\ handles[h].payload \in Payload \cup {Null}
    BY <1>0, HeapTypes DEF TypeOK, ThreadType
  <2> QED BY <2>1, BorrowsType DEF Borrow
<1>4. schemas' = schemas /\ links' = links
  BY <1>2, GraphUntouched DEF Created
<1>5. /\ leases' = leases /\ borrows' = [borrows EXCEPT ![t] = h]
      /\ t \in leases /\ schemas[h] # 0
  BY <1>0, <1>1, <1>3, HeapTypes DEF leases, borrows, schemas
<1>6. Graph!Borrow(t, h)
  BY <1>4, <1>5 DEF Graph!Borrow, Graph!Exists, schemas, links, leases, borrows
<1> QED BY <1>6 DEF Graph!GraphNext

\* Publication is the migration: it finds nobody in a lease, no staged handle
\* borrowed, and forwarded references.
LEMMA PublishGraph == ASSUME Sound, Sound', Publish PROVE Graph!GraphNext
<1>0. Typed /\ TypeOK /\ StagedApart /\ Forwarded /\ RefsOwned /\ LeaseExcludes /\ BorrowsCounted
  BY DEF Sound, Gated, Typed
<1>1. /\ UNCHANGED <<gate, memory, thread>> /\ job.at = "publishing"
      /\ \A h \in Staged : /\ handles'[h].schema = job.target
                           /\ handles'[h].payload = job.staged[h]
      /\ \A h \in Handle \ Staged : handles'[h] = handles[h]
      /\ Created' = Created
      /\ \A h \in Created : handles'[h].schema = job.target
      /\ Staged = {} \/ Staged = Created
      /\ version'.count = version.count
  BY PublishFacts
<1>2. /\ Created \subseteq Handle /\ job.target \in Schemas
      /\ \A h \in Created : handles[h].schema # 0
  BY <1>0, HeapTypes
<1>3. /\ \A h \in Staged : /\ h \in Created /\ Moves(h)
                           /\ <<handles[h].schema, job.target>> \in Transitions
                           /\ \A t \in Thread : thread[t].borrows # h
      /\ \A h \in Created : Moves(h) => h \in Staged
  BY <1>0, <1>1 DEF StagedApart, Forwarded
<1>4. leases = {} /\ leases' = leases /\ borrows' = borrows
  BY <1>0, <1>1 DEF leases, borrows, LeaseExcludes, Exclusive
<1>5. links' = links
  <2>1. CASE Staged = {}
    <3>1. \A h \in Handle : handles'[h] = handles[h]
      BY <1>1, <2>1
    <3> QED BY <1>1, <1>2, <3>1, GraphUntouched
  <2>2. CASE Staged = Created
    <3>1. \A h \in Created : handles'[h].payload = job.staged[h]
      BY <1>1, <2>2
    <3>2. ASSUME NEW h \in Created
          PROVE  \/ /\ memory[handles[h].payload].ref = Null
                    /\ memory'[handles'[h].payload].ref = Null
                 \/ \E g \in Created :
                       /\ memory[handles[h].payload].ref = handles[g].payload
                       /\ memory'[handles'[h].payload].ref = handles'[g].payload
      BY <1>0, <1>1, <2>2, <3>1 DEF Forwarded
    <3> QED BY <1>1, <3>2, LinksKept
  <2> QED BY <1>1, <2>1, <2>2
<1> PICK target \in Schemas : target = job.target
  BY <1>2
<1>6. Graph!Migrate(target)
  <2> DEFINE moved == {h \in Handle : schemas[h] # 0 /\ schemas[h] # target}
  <2>1. moved = Staged
    <3>1. Staged \subseteq Handle
      BY DEF Staged
    <3> QED BY <1>2, <1>3, <3>1 DEF schemas, Moves
  <2>2. schemas' = [h \in Handle |-> IF h \in moved THEN target ELSE schemas[h]]
    BY <1>1, <1>2, <1>3, <2>1 DEF schemas
  <2>3. /\ \A t \in Thread : borrows[t] \notin moved
        /\ \A h \in moved : <<schemas[h], target>> \in Transitions
    BY <1>2, <1>3, <2>1 DEF borrows, schemas
  <2>4. {h \in {k \in Handle : schemas[k] # 0} : schemas[h] # target} = moved
    OBVIOUS
  <2> HIDE DEF moved
  <2> QED BY <1>4, <1>5, <2>2, <2>3, <2>4
      DEF Graph!Migrate, Graph!Exists, schemas, links, leases, borrows
<1> QED BY <1>6 DEF Graph!GraphNext

\* Everything else the controller does the graph does not see.
LEMMA ControllerGraph ==
    ASSUME Sound, Sound', JobStep, ~Publish
    PROVE  UNCHANGED Graph!graphVars
<1>0. Typed /\ TypeOK /\ StagedApart /\ Replaced /\ UsedByOwners
  BY DEF Sound, Gated, Typed
<1>1. handles' = handles /\ thread' = thread /\ version'.count = version.count
  BY <1>0, JobFacts DEF JobStep, Pause, Drained, StageSkip, StageFails, Stage, Rewrite, Retire, Abort, Resume
<1>2. \A h \in Created : handles[h].payload \in Payload
  BY <1>0, HeapTypes
<1>3. ASSUME NEW h \in Created
      PROVE  memory'[handles[h].payload].ref = memory[handles[h].payload].ref
  <2>1. CASE Pause \/ Drained \/ StageSkip \/ StageFails \/ Resume
    BY <2>1 DEF Pause, Drained, StageSkip, StageFails, Resume
  <2>2. CASE Stage
    <3> PICK p \in Payload : ~memory[p].used /\ \A q \in Payload \ {p} : memory'[q] = memory[q]
      BY <2>2, StageFacts
    <3> QED BY <1>0, <1>2 DEF UsedByOwners
  <2>3. CASE Rewrite
    <3>1. handles[h].payload \notin Candidates
      <4>1. \A k \in Staged : job.staged[k] # handles[h].payload
        BY <1>0, <2>3 DEF Rewrite, StagedApart
      <4> QED BY <4>1 DEF Candidates
    <3> QED BY <1>2, <2>3, <3>1 DEF Rewrite
  <2>4. CASE Retire
    <3>1. handles[h].payload \notin {job.old[k] : k \in Staged}
      BY <1>0, <2>4 DEF Retire, Replaced
    <3> QED BY <1>2, <2>4, <3>1 DEF Retire, Freed
  <2>5. CASE Abort
    <3>1. handles[h].payload \notin Candidates
      <4>1. \A k \in Staged : job.staged[k] # handles[h].payload
        BY <1>0, <2>5 DEF Abort, StagedApart
      <4> QED BY <4>1 DEF Candidates
    <3> QED BY <1>2, <2>5, <3>1 DEF Abort, Freed
  <2> QED BY <2>1, <2>2, <2>3, <2>4, <2>5 DEF JobStep
<1>4. schemas' = schemas /\ links' = links
  BY <1>1, <1>3, GraphUntouched
<1> QED BY <1>1, <1>4, GraphVariables DEF leases, borrows

LEMMA DestroyGraph == ASSUME Sound, Sound', Destroy PROVE Graph!GraphNext
<1>1. /\ \A t \in Thread : thread[t].at = "out" /\ thread[t].borrows = 0
      /\ version'.count = 0 /\ thread' = thread
  BY DEF Destroy, Sound, Gated, Typed, TypeOK
<1>2. Created' = {}
  BY <1>1, RuntimeConstants DEF Created, Handle
<1>3. links' = [h \in Handle |-> 0]
  BY <1>2, LinkNext DEF links
<1>4. schemas' = [h \in Handle |-> 0]
  BY <1>2 DEF schemas
<1>5. leases = {} /\ leases' = leases /\ borrows' = borrows /\ \A t \in Thread : borrows[t] = 0
  BY <1>1 DEF leases, borrows
<1>6. Graph!Destroy
  BY <1>3, <1>4, <1>5 DEF Graph!Destroy, schemas, links, leases, borrows
<1> QED BY <1>6 DEF Graph!GraphNext

LEMMA GraphStep ==
    ASSUME Sound, Sound', [Next]_vars
    PROVE  [Graph!GraphNext]_Graph!graphVars
<1>1. CASE UNCHANGED vars
  <2>1. schemas' = schemas /\ links' = links
    BY <1>1, GraphUntouched DEF vars
  <2> QED BY <1>1, <2>1, GraphVariables DEF vars, leases, borrows
<1>2. ASSUME NEW t \in Thread, ThreadStep(t) PROVE [Graph!GraphNext]_Graph!graphVars
  BY <1>2, EnterGraph, NewUnseen, NewGraph, LinkGraph, BorrowGraph, ReleaseGraph
     DEF ThreadStep, WorkStep, NewStep
<1>3. ASSUME NEW target \in Schemas, MigrateBegin(target)
      PROVE  UNCHANGED Graph!graphVars
  <2>1. UNCHANGED <<version, handles, memory, thread>>
    BY <1>3 DEF MigrateBegin
  <2>2. schemas' = schemas /\ links' = links
    BY <2>1, GraphUntouched
  <2> QED BY <2>1, <2>2, GraphVariables DEF leases, borrows
<1>4. CASE JobStep
  BY <1>4, PublishGraph, ControllerGraph
<1>5. CASE Destroy
  BY <1>5, DestroyGraph
<1> QED BY <1>1, <1>2, <1>3, <1>4, <1>5, StepKinds

\* The runtime implements the graph of live values: a migration is one step
\* that changes every schema, finds nobody inside and no value it moves
\* borrowed, and keeps every link, shared and cyclic ones included
\* (README.md, Demonstrated protocol; stage-forward and publish in
\* migrate-type!).
THEOREM RuntimeKeepsGraph == Spec => GraphKept
<1>1. Init => Graph!GraphInit
  <2> SUFFICES ASSUME Init PROVE Graph!GraphInit
    OBVIOUS
  <2>1. Created = {}
    BY RuntimeConstants DEF Init, Created, Handle
  <2>2. links = [h \in Handle |-> 0]
    BY <2>1 DEF links, LinkOf
  <2>3. schemas = [h \in Handle |-> 0] /\ leases = {} /\ borrows = [t \in Thread |-> 0]
    BY <2>1 DEF Init, schemas, leases, borrows
  <2> QED BY <2>2, <2>3 DEF Graph!GraphInit, schemas, links, leases, borrows
<1>2. Sound /\ Sound' /\ [Next]_vars => [Graph!GraphNext]_Graph!graphVars
  BY GraphStep
<1> QED BY <1>1, <1>2, SoundKept, PTL DEF Spec, GraphKept, Graph!GraphSpec

-----------------------------------------------------------------------------
(* PART 3. LiveHost. *)

(* The ledger. *)

\* A candidate without duplicates, removals and unsupported changes replaces
\* exactly what differs: after it the program has the new version's definitions.
THEOREM SubmitSuffices ==
    ASSUME NEW acc, NEW next,
           Duplicated(acc) = {}, Duplicated(next) = {},
           Removed(acc, next) = {}, Unsupported(acc, next) = {}
    PROVE  Merged(DefinitionsOf(acc), Submit(acc, next)) = DefinitionsOf(next)
<1> DEFINE sent == Submit(acc, next)
<1>1. ASSUME NEW z \in sent, z.head \in Definitions
      PROVE  z \in next \ acc
  <2>1. z.head \notin Contexts /\ z.head # "migrate"
    BY <1>1 DEF Definitions, Types, Contexts
  <2> QED BY <1>1, <2>1 DEF Submit, Changed, Altered, Added, Migrations, Migrates,
             NewContext, DroppedContext
<1>2. ASSUME NEW z \in next \ acc, z.head \in Definitions
      PROVE  z \in sent
  <2>1. CASE Known(z, acc)
    BY <1>2, <2>1 DEF Submit, Changed, Altered
  <2>2. CASE ~Known(z, acc)
    BY <1>2, <2>2 DEF Submit, Added
  <2> QED BY <2>1, <2>2
<1> HIDE DEF sent
<1>3. ASSUME NEW y \in DefinitionsOf(acc), ~Known(y, sent)
      PROVE  y \in DefinitionsOf(next)
  <2> SUFFICES ASSUME y \notin next PROVE FALSE
    BY <1>3 DEF DefinitionsOf
  <2>1. y \in acc /\ y.head \in Definitions
    BY DEF DefinitionsOf
  <2>2. PICK z \in next : Same(y, z)
    BY <2>1 DEF Removed, Known
  <2>3. z \notin acc
    BY <2>1, <2>2 DEF Duplicated, Same
  <2>4. z \in sent
    BY <1>2, <2>1, <2>2, <2>3 DEF Same
  <2> QED BY <1>3, <2>2, <2>4 DEF Known
<1>4. ASSUME NEW y \in DefinitionsOf(next), y \in acc
      PROVE  y \in DefinitionsOf(acc) /\ ~Known(y, sent)
  <2>1. y \in next /\ y.head \in Definitions
    BY <1>4 DEF DefinitionsOf
  <2>2. ASSUME NEW z \in sent, Same(y, z) PROVE FALSE
    <3>1. z \in next \ acc
      BY <1>1, <2>1, <2>2 DEF Same
    <3> QED BY <1>4, <2>1, <2>2, <3>1 DEF Duplicated
  <2> QED BY <1>4, <2>1, <2>2 DEF Known, DefinitionsOf
<1>5. DefinitionsOf(sent) = {y \in DefinitionsOf(next) : y \notin acc}
  BY <1>1, <1>2 DEF DefinitionsOf
<1>6. Merged(DefinitionsOf(acc), sent) = DefinitionsOf(next)
  BY <1>3, <1>4, <1>5 DEF Merged, DefinitionsOf
<1> QED BY <1>6 DEF sent

\* A version with nothing to send has the definitions of the accepted one.
LEMMA NothingToSubmit ==
    ASSUME NEW acc, NEW next,
           Duplicated(acc) = {}, Duplicated(next) = {},
           Removed(acc, next) = {}, Unsupported(acc, next) = {},
           Submit(acc, next) = {}
    PROVE  DefinitionsOf(acc) = DefinitionsOf(next)
<1>1. Merged(DefinitionsOf(acc), {}) = DefinitionsOf(acc)
  BY DEF Merged, Known, DefinitionsOf
<1> QED BY <1>1, SubmitSuffices

-----------------------------------------------------------------------------
(* Types. *)

Works == [at : Places, dry : BOOLEAN, deferred : BOOLEAN, file : File,
          text : Text, first : Text, prior : Phases]

LEMMA Bounds == Files \in Nat /\ RetryPolls \in Nat /\ MaxRequests \in Nat
  BY HostConstants

LEMMA FirstFile == 1 \in File /\ \A f \in File : f < Files => f + 1 \in File
  BY HostConstants DEF File

LEMMA NoWorkType == NoWork \in Works /\ Blank \in Text
  BY FirstFile DEF NoWork, Works, Places, Blank, Text, Phases

LEMMA WorkGoes ==
    ASSUME NEW w \in Works, NEW place \in Places
    PROVE  /\ [w EXCEPT !.at = place] \in Works
           /\ \A text \in Text : [w EXCEPT !.at = place, !.first = text] \in Works
           /\ \A before \in Phases : [w EXCEPT !.at = place, !.prior = before] \in Works
           /\ \A dry, deferred \in BOOLEAN :
                 [w EXCEPT !.at = place, !.dry = dry, !.deferred = deferred] \in Works
  BY DEF Works

LEMMA WorkReads ==
    ASSUME NEW w \in Works, NEW text \in Text, NEW f \in File, NEW place \in Places
    PROVE  /\ [w EXCEPT !.file = f] \in Works
           /\ [w EXCEPT !.text = text, !.file = f] \in Works
           /\ [w EXCEPT !.text = text, !.file = f, !.at = place] \in Works
  BY DEF Works

\* Reading a file puts its current version into the text, and goes on.
LEMMA ReadsFacts ==
    ASSUME work \in Works, disk \in Text, NEW from \in Places, NEW to \in Places,
           ReadsFile(from, to)
    PROVE  /\ work' \in Works
           /\ work'.text = [work.text EXCEPT ![work.file] = disk[work.file]]
           /\ work'.dry = work.dry
           /\ \/ work'.at = from
              \/ work'.at = to /\ work'.file = 1
           /\ UNCHANGED <<disk, accepted, running, verdict, check, condition, phase, retry,
                          requests, epoch, patched, hookVars>>
<1>0. /\ work.file \in File /\ work.text \in Text /\ work.at = from
      /\ disk[work.file] \in Nat
  BY DEF Works, Text, ReadsFile
<1> DEFINE text == [work.text EXCEPT ![work.file] = disk[work.file]]
<1>1. text \in Text
  BY <1>0 DEF Text
<1>2. work' = IF work.file < Files
              THEN [work EXCEPT !.text = text, !.file = @ + 1]
              ELSE [work EXCEPT !.text = text, !.file = 1, !.at = to]
  BY DEF ReadsFile
<1> HIDE DEF text
<1>3. CASE work.file < Files
  <2>1. work' = [work EXCEPT !.text = text, !.file = work.file + 1]
    BY <1>2, <1>3
  <2>2. work.file + 1 \in File
    BY <1>0, <1>3, FirstFile
  <2>3. work' \in Works
    BY <1>1, <2>1, <2>2, <1>0, WorkReads
  <2>4. work'.text = text /\ work'.dry = work.dry /\ work'.at = from
    BY <1>0, <2>1 DEF Works
  <2> QED BY <2>3, <2>4 DEF text, ReadsFile
<1>4. CASE ~(work.file < Files)
  <2>1. work' = [work EXCEPT !.text = text, !.file = 1, !.at = to]
    BY <1>2, <1>4
  <2>2. work' \in Works
    BY <1>1, <2>1, FirstFile, WorkReads
  <2>3. work'.text = text /\ work'.dry = work.dry /\ work'.at = to /\ work'.file = 1
    BY <1>0, <2>1 DEF Works
  <2> QED BY <2>2, <2>3 DEF text, ReadsFile
<1> QED BY <1>3, <1>4

\* The end of a piece of work: only a real one that is not dry says what is
\* accepted.
LEMMA FinishFacts ==
    ASSUME NEW state, NEW accept \in BOOLEAN, Finish(state, accept)
    PROVE  /\ work' = NoWork
           /\ work.dry => check' = state /\ verdict' = verdict /\ accepted' = accepted
           /\ ~work.dry => /\ verdict' = [state |-> state, text |-> work.text]
                           /\ check' = check
                           /\ accept => accepted' = Candidate
                           /\ ~accept => accepted' = accepted
  BY DEF Finish

\* The same for each of the two arguments.
LEMMA FinishedFacts ==
    ASSUME NEW state
    PROVE  /\ Finish(state, FALSE) =>
                 /\ work' = NoWork /\ accepted' = accepted
                 /\ verdict' = verdict \/ verdict' = [state |-> state, text |-> work.text]
           /\ Finish(state, TRUE) =>
                 /\ work' = NoWork
                 /\ work.dry => accepted' = accepted /\ verdict' = verdict
                 /\ ~work.dry => /\ accepted' = Candidate
                                 /\ verdict' = [state |-> state, text |-> work.text]
  BY DEF Finish

LEMMA FinishType ==
    ASSUME HostTypeOK, NEW state, NEW accept \in BOOLEAN, Finish(state, accept),
           state \in Verdicts \/ (state = "would-apply" /\ work.dry)
    PROVE  /\ work' \in Works
           /\ verdict' \in [state : Verdicts, text : Text]
           /\ check' \in Verdicts \cup {"none", "would-apply"}
<1>1. work.text \in Text
  BY DEF HostTypeOK
<1>2. work' = NoWork
  BY FinishFacts
<1>3. CASE work.dry
  BY <1>2, <1>3, NoWorkType, FinishFacts DEF HostTypeOK
<1>4. CASE ~work.dry
  BY <1>1, <1>2, <1>4, NoWorkType, FinishFacts DEF HostTypeOK
<1> QED BY <1>3, <1>4

\* What Answer finishes with.
LEMMA AnswerFacts ==
    ASSUME HostTypeOK, NEW ok \in BOOLEAN, NEW reached \in Phases, NEW needs \in BOOLEAN,
           Answer(ok, reached, needs)
    PROVE  /\ UNCHANGED <<disk, retry, requests>>
           /\ phase' \in Phases
           /\ \E state : /\ state \in Verdicts \/ (state = "would-apply" /\ work.dry)
                         /\ state = "live" => ok
                         /\ Finish(state, ok)
<1> DEFINE after == IF work.dry THEN work.prior ELSE reached
<1> DEFINE state == CASE after = "changed" -> "pending"
                   [] after # "changed" /\ ok -> IF work.dry THEN "would-apply" ELSE "live"
                   [] OTHER -> IF needs THEN "needs-migration" ELSE "rejected"
<1>1. phase' = after /\ Finish(state, ok) /\ UNCHANGED <<disk, retry, requests>>
  BY DEF Answer
<1>2. after \in Phases
  BY DEF HostTypeOK
<1>3. /\ state \in Verdicts \/ (state = "would-apply" /\ work.dry)
      /\ state = "live" => ok
  BY DEF Verdicts
<1> HIDE DEF state, after
<1> QED BY <1>1, <1>2, <1>3

\* Types hold in every reachable state: the fields that no step shares.
OtherTypes ==
    /\ condition \in BOOLEAN /\ phase \in Phases
    /\ retry \in 0 .. RetryPolls /\ requests \in 0 .. MaxRequests
    /\ epoch \in Nat /\ patched \in BOOLEAN

AnswerTypes ==
    /\ disk \in Text /\ work \in Works
    /\ verdict \in [state : Verdicts, text : Text]
    /\ check \in Verdicts \cup {"none", "would-apply"}

LEMMA TypeParts ==
    HostTypeOK <=> OtherTypes /\ AnswerTypes /\ whole \in BOOLEAN /\ HooksTypeOK
  BY DEF HostTypeOK, OtherTypes, AnswerTypes, Works

\* The hook's side.
LEMMA HooksStep ==
    ASSUME HooksTypeOK, epoch \in Nat, Register \/ PumpStep(epoch)
    PROVE  HooksTypeOK'
<1>1. CASE Register
  BY <1>1 DEF Register, HooksTypeOK
<1>2. CASE PumpLoad
  BY <1>2 DEF PumpLoad, HooksTypeOK
<1>3. CASE PumpServe
  <2>1. pump.current \in Nat /\ pump \in [at : {"idle", "loaded", "calling"}, current : Nat]
    BY DEF HooksTypeOK
  <2>2. hooks' \in [registered : BOOLEAN, generation : Nat, served : Nat]
    BY <1>3, <2>1 DEF PumpServe, HooksTypeOK
  <2>3. pump' \in [at : {"idle", "loaded", "calling"}, current : Nat]
    BY <1>3, <2>1 DEF PumpServe, NoPump
  <2> QED BY <1>3, <2>2, <2>3 DEF PumpServe, HooksTypeOK
<1>4. CASE PumpCall(epoch)
  BY <1>4 DEF PumpCall, HooksTypeOK, NoPump
<1> QED BY <1>1, <1>2, <1>3, <1>4 DEF PumpStep

LEMMA NoteType ==
    ASSUME HooksTypeOK, hooks' = Note(hooks), pump' = pump, told' = told
    PROVE  HooksTypeOK'
  BY DEF HooksTypeOK, Note

\* An action that answers keeps the types it reaches.
LEMMA AnswerKeeps ==
    ASSUME HostTypeOK, NEW ok \in BOOLEAN, NEW reached \in Phases, NEW needs \in BOOLEAN,
           Answer(ok, reached, needs)
    PROVE  /\ AnswerTypes' /\ phase' \in Phases
           /\ UNCHANGED <<disk, retry, requests>>
<1>1. PICK state : /\ state \in Verdicts \/ (state = "would-apply" /\ work.dry)
                   /\ Finish(state, ok)
  BY AnswerFacts
<1>2. disk' = disk /\ phase' \in Phases /\ UNCHANGED <<retry, requests>>
  BY AnswerFacts
<1> QED BY <1>1, <1>2, FinishType DEF AnswerTypes, HostTypeOK

\* A step of whoever polls, asks or holds the host lock.
LEMMA HostTypes ==
    ASSUME HostTypeOK,
           \/ \E f \in File : Save(f)
           \/ PollBegin \/ HostStep
           \/ \E dry, deferred \in BOOLEAN : Request(dry, deferred)
    PROVE  OtherTypes' /\ AnswerTypes' /\ HooksTypeOK'
<1>0. OtherTypes /\ AnswerTypes /\ HooksTypeOK /\ work \in Works /\ disk \in Text
  BY TypeParts DEF AnswerTypes
<1>1. ASSUME NEW f \in File, Save(f) PROVE OtherTypes' /\ AnswerTypes' /\ HooksTypeOK'
  <2>1. disk' \in Text
    BY <1>0, <1>1 DEF Save, Text
  <2> QED BY <1>0, <1>1, <2>1
      DEF Save, OtherTypes, AnswerTypes, HooksTypeOK, hookVars
<1> DEFINE AllTyped == OtherTypes' /\ AnswerTypes' /\ HooksTypeOK'
<1>2. ASSUME work' \in Works,
             UNCHANGED <<disk, verdict, check, condition, requests, epoch, patched,
                         hookVars>>,
             phase' \in Phases, retry' \in 0 .. RetryPolls
      PROVE  AllTyped
  BY <1>0, <1>2 DEF OtherTypes, AnswerTypes, HooksTypeOK, hookVars
<1>3. ASSUME NEW from \in Places, NEW to \in Places, ReadsFile(from, to) PROVE AllTyped
  BY <1>0, <1>3, <1>2, ReadsFacts DEF OtherTypes
<1>4. CASE PollBegin
  <2>1. work' \in Works
    BY <1>4, NoWorkType, WorkGoes DEF PollBegin, Places
  <2> QED BY <1>0, <1>2, <1>4, <2>1 DEF PollBegin, OtherTypes
<1>5. CASE Polled
  <2>1. work.text \in Text /\ "settling" \in Places
    BY <1>0 DEF Works, Places
  <2>2. work' \in Works
    BY <1>5, <2>1, NoWorkType, WorkGoes DEF Polled
  <2>3. retry' \in 0 .. RetryPolls
    BY <1>0, <1>5, Bounds DEF Polled, OtherTypes
  <2>4. UNCHANGED <<disk, verdict, check, condition, phase, requests, epoch, patched,
                    hookVars>>
    BY <1>5 DEF Polled
  <2> QED BY <1>0, <1>2, <2>2, <2>3, <2>4 DEF OtherTypes
<1>6. CASE Settled
  <2>1. work' \in Works
    BY <1>6, NoWorkType, WorkGoes DEF Settled, Places
  <2> QED BY <1>0, <1>2, <1>6, <2>1 DEF Settled, OtherTypes
<1>7. ASSUME NEW dry \in BOOLEAN, NEW deferred \in BOOLEAN, Request(dry, deferred)
      PROVE  AllTyped
  <2>1. work' \in Works
    BY <1>7, NoWorkType, WorkGoes DEF Request, Places
  <2>2. requests' \in 0 .. MaxRequests
    <3>1. requests \in 0 .. MaxRequests /\ requests > 0 /\ requests' = requests - 1
      BY <1>0, <1>7 DEF Request, OtherTypes
    <3> QED BY <3>1, Bounds
  <2> QED BY <1>0, <1>7, <2>1, <2>2
      DEF Request, OtherTypes, AnswerTypes, HooksTypeOK, hookVars
<1>8. CASE PlanAnswers
  <2>1. PICK state \in Verdicts, accept \in BOOLEAN : Finish(state, accept)
    BY <1>8 DEF PlanAnswers, Verdicts
  <2>2. AnswerTypes'
    <3>1. disk' = disk
      BY <1>8 DEF PlanAnswers
    <3> QED BY <1>0, <2>1, <3>1, FinishType DEF AnswerTypes
  <2>3. UNCHANGED <<condition, phase, retry, requests, epoch, patched, hookVars>>
    BY <1>8 DEF PlanAnswers
  <2> QED BY <1>0, <2>2, <2>3 DEF OtherTypes, HooksTypeOK, hookVars
<1>9. CASE PlanSubmits
  <2>1. work' \in Works
    BY <1>0, <1>9, WorkGoes DEF PlanSubmits, Places, OtherTypes
  <2> QED BY <1>0, <1>2, <1>9, <2>1 DEF PlanSubmits, OtherTypes, Phases
<1>10. CASE PrepareOk
  <2>1. work' \in Works
    BY <1>0, <1>10, WorkGoes DEF PrepareOk, Places
  <2> QED BY <1>0, <1>2, <1>10, <2>1 DEF PrepareOk, OtherTypes
<1>11. ASSUME NEW ok \in BOOLEAN, NEW reached \in Phases, NEW needs \in BOOLEAN,
              Answer(ok, reached, needs), condition' \in BOOLEAN,
              epoch' \in Nat, patched' \in BOOLEAN, HooksTypeOK'
       PROVE  AllTyped
  BY <1>0, <1>11, AnswerKeeps DEF OtherTypes
<1>12. ASSUME NEW needs \in BOOLEAN, PrepareFails(needs) PROVE AllTyped
  <2>1. PICK reached \in Phases : Answer(FALSE, reached, needs)
    BY <1>12 DEF PrepareFails, Phases
  <2>2. condition' \in BOOLEAN
    BY <1>0, <1>12 DEF PrepareFails, OtherTypes
  <2>3. UNCHANGED <<epoch, patched, hookVars>>
    BY <1>12 DEF PrepareFails
  <2> QED BY <1>0, <1>11, <2>1, <2>2, <2>3 DEF OtherTypes, HooksTypeOK, hookVars
<1>13. CASE Recover
  <2>1. Answer(FALSE, "broken", FALSE) /\ epoch' = epoch + 1 /\ patched' = TRUE
        /\ hooks' = Note(hooks) /\ UNCHANGED <<condition, pump, told>>
    BY <1>13 DEF Recover
  <2>2. HooksTypeOK'
    BY <1>0, <2>1, NoteType
  <2>3. "broken" \in Phases /\ epoch' \in Nat
    BY <1>0, <2>1 DEF OtherTypes, Phases
  <2>4. condition' \in BOOLEAN
    BY <1>0, <2>1 DEF OtherTypes
  <2> QED BY <1>11, <2>1, <2>2, <2>3, <2>4
<1>14. CASE Compare
  <2>1. UNCHANGED <<epoch, patched, hookVars>>
    BY <1>14 DEF Compare
  <2>2. CASE work.file < Files
    <3>1. /\ work' = [work EXCEPT !.file = work.file + 1]
          /\ UNCHANGED <<disk, accepted, verdict, check, condition, phase, retry, requests>>
      BY <1>14, <2>2 DEF Compare
    <3>2. work.file + 1 \in File
      BY <1>0, <2>2, FirstFile DEF Works
    <3>3. work' \in Works
      BY <1>0, <3>1, <3>2, WorkReads, NoWorkType DEF Works
    <3> QED BY <1>0, <1>2, <2>1, <3>1, <3>3 DEF OtherTypes
  <2>3. CASE ~(work.file < Files) /\ ~work.dry
    <3>1. work' \in Works
      BY <1>0, <1>14, <2>3, WorkGoes DEF Compare, Places
    <3> QED BY <1>0, <1>2, <1>14, <2>3, <3>1 DEF Compare, OtherTypes
  <2>4. CASE ~(work.file < Files) /\ work.dry
    <3>1. Answer(TRUE, phase, FALSE) /\ condition' = FALSE
      BY <1>14, <2>4 DEF Compare
    <3> QED BY <1>0, <1>11, <2>1, <3>1 DEF OtherTypes, HooksTypeOK, hookVars
  <2> QED BY <2>2, <2>3, <2>4
<1>15. CASE CompareDiffers
  BY <1>0, <1>11, <1>15 DEF CompareDiffers, OtherTypes, HooksTypeOK, hookVars, Phases
<1>16. CASE Commit
  <2>1. work' \in Works
    BY <1>0, <1>16, WorkGoes DEF Commit, Places
  <2> QED BY <1>0, <1>16, <2>1
      DEF Commit, OtherTypes, AnswerTypes, HooksTypeOK, hookVars
<1>17. CASE CommitFails
  BY <1>0, <1>11, <1>17 DEF CommitFails, OtherTypes, HooksTypeOK, hookVars, Phases
<1>18. CASE Signal
  <2>1. Answer(TRUE, "committed", FALSE) /\ hooks' = Note(hooks)
        /\ UNCHANGED <<condition, epoch, patched, pump, told>>
    BY <1>18 DEF Signal
  <2>2. HooksTypeOK'
    BY <1>0, <2>1, NoteType
  <2> QED BY <1>0, <1>11, <2>1, <2>2 DEF OtherTypes, Phases
<1>19. PollDigest \/ PollSettles \/ ReadProject =>
           \E from, to \in Places : ReadsFile(from, to)
  BY DEF PollDigest, PollSettles, ReadProject, Places
<1> QED
  BY <1>1, <1>3, <1>4, <1>5, <1>6, <1>7, <1>8, <1>9, <1>10, <1>12, <1>13, <1>14, <1>15,
     <1>16, <1>17, <1>18, <1>19 DEF HostStep

LEMMA HostTypeStep == ASSUME HostTypeOK, [HostNext]_liveVars PROVE HostTypeOK'
<1>0. OtherTypes /\ AnswerTypes /\ HooksTypeOK /\ whole \in BOOLEAN
  BY TypeParts
<1>1. CASE UNCHANGED liveVars
  BY <1>1 DEF liveVars, hostVars, hookVars, HostTypeOK, HooksTypeOK
<1>2. ASSUME Witnessed,
             \/ \E f \in File : Save(f)
             \/ PollBegin \/ HostStep
             \/ \E dry, deferred \in BOOLEAN : Request(dry, deferred)
      PROVE  HostTypeOK'
  <2>1. (whole \in BOOLEAN)'
    BY <1>2 DEF Witnessed
  <2>2. OtherTypes' /\ AnswerTypes' /\ HooksTypeOK'
    BY <1>2, HostTypes
  <2> QED BY <2>1, <2>2 DEF HostTypeOK, OtherTypes, AnswerTypes, Works
<1>3. ASSUME Register \/ PumpStep(epoch), UNCHANGED hostVars PROVE HostTypeOK'
  <2>1. HooksTypeOK'
    BY <1>0, <1>3, HooksStep DEF OtherTypes
  <2> QED BY <1>3, <2>1 DEF HostTypeOK, hostVars
<1> QED BY <1>1, <1>2, <1>3 DEF HostNext

LEMMA HostTypeInit == HostInit => HostTypeOK
<1> SUFFICES ASSUME HostInit PROVE HostTypeOK
  OBVIOUS
<1>1. disk \in Text /\ work \in Works
  BY NoWorkType DEF HostInit, FirstText, Text
<1>2. HooksTypeOK
  BY DEF HostInit, HooksInit, HooksTypeOK, NoPump
<1>3. verdict \in [state : Verdicts, text : Text] /\ phase \in Phases
  BY <1>1 DEF HostInit, Verdicts, Phases
<1>4. retry \in 0 .. RetryPolls /\ requests \in 0 .. MaxRequests
  BY Bounds DEF HostInit
<1> QED BY <1>1, <1>2, <1>3, <1>4 DEF HostInit, HostTypeOK, Works

\* Every field keeps its type (LiveHost, LiveVerdict, LiveController, Hooks).
THEOREM HostTyped == HostSpec => []HostTypeOK
  BY HostTypeInit, HostTypeStep, PTL DEF HostSpec

-----------------------------------------------------------------------------
(* What is accepted, and what runs. *)

\* The accepted ledger has nothing twice.
LedgerClean == Duplicated(accepted) = {}

\* The program runs what is accepted; between the commit and the verdict it
\* already runs the candidate.
RunsAccepted ==
    ~patched =>
        running = DefinitionsOf(IF work.at = "signalling" THEN Candidate ELSE accepted)

\* A live verdict names the text of the accepted ledger.
VerdictNames == verdict.state = "live" => accepted = Ledger(verdict.text)

\* What is compiled may replace what is accepted.
Compiled == {"preparing", "comparing", "committing", "signalling"}
CandidateFits ==
    work.at \in Compiled =>
        /\ Duplicated(Candidate) = {}
        /\ Removed(accepted, Candidate) = {} /\ Unsupported(accepted, Candidate) = {}

\* A dry run commits nothing.
CommitsForReal == work.at \in {"committing", "signalling"} => ~work.dry

HostSound ==
    /\ LedgerClean /\ RunsAccepted /\ VerdictNames /\ CandidateFits /\ CommitsForReal

\* A negative answer accepts nothing, and is no live verdict.
LEMMA RefusalFacts ==
    ASSUME NEW reached, NEW needs \in BOOLEAN, Answer(FALSE, reached, needs)
    PROVE  /\ work' = NoWork /\ accepted' = accepted /\ disk' = disk
           /\ verdict' = verdict \/ verdict'.state # "live"
<1>1. disk' = disk /\ \E state : state # "live" /\ Finish(state, FALSE)
  <2>1. CASE (IF work.dry THEN work.prior ELSE reached) = "changed"
    BY <2>1 DEF Answer
  <2>2. CASE (IF work.dry THEN work.prior ELSE reached) # "changed" /\ needs
    BY <2>2 DEF Answer
  <2>3. CASE (IF work.dry THEN work.prior ELSE reached) # "changed" /\ ~needs
    BY <2>3 DEF Answer
  <2> QED BY <2>1, <2>2, <2>3
<1>2. PICK state : state # "live" /\ Finish(state, FALSE)
  BY <1>1
<1>3. verdict' = verdict \/ verdict' = [state |-> state, text |-> work.text]
  BY <1>2, FinishedFacts
<1>4. work' = NoWork /\ accepted' = accepted
  BY <1>2, FinishedFacts
<1>5. verdict' = verdict \/ verdict'.state # "live"
  BY <1>2, <1>3
<1> QED BY <1>1, <1>4, <1>5

\* A positive one that is not dry accepts the candidate under its text.
LEMMA AcceptanceFacts ==
    ASSUME NEW reached, Answer(TRUE, reached, FALSE)
    PROVE  /\ work' = NoWork /\ disk' = disk
           /\ work.dry => accepted' = accepted /\ verdict' = verdict
           /\ ~work.dry => accepted' = Candidate /\ verdict'.text = work.text
<1>1. disk' = disk /\ \E state : Finish(state, TRUE)
  BY DEF Answer
<1>2. PICK state : Finish(state, TRUE)
  BY <1>1
<1>3. ~work.dry => verdict' = [state |-> state, text |-> work.text]
  BY <1>2, FinishedFacts
<1>4. /\ work' = NoWork
      /\ work.dry => accepted' = accepted /\ verdict' = verdict
      /\ ~work.dry => accepted' = Candidate
  BY <1>2, FinishedFacts
<1>5. ~work.dry => verdict'.text = work.text
  BY <1>3
<1> QED BY <1>1, <1>4, <1>5

\* What polling does with its record of work.
LEMMA PolledFacts ==
    ASSUME Polled \/ Settled
    PROVE  /\ work.at \in {"polled", "settled"}
           /\ work'.at \in {"settling", "idle", "reading"} /\ work'.text = Blank
           /\ UNCHANGED <<disk, accepted, running, verdict, patched>>
<1>1. CASE Polled
  <2>1. work' = NoWork \/ \E text : work' = [NoWork EXCEPT !.at = "settling", !.first = text]
    BY <1>1 DEF Polled
  <2> QED BY <1>1, <2>1 DEF Polled, NoWork
<1>2. CASE Settled
  <2>1. work' = NoWork \/ work' = [NoWork EXCEPT !.at = "reading"]
    BY <1>2 DEF Settled
  <2> QED BY <1>2, <2>1 DEF Settled, NoWork
<1> QED BY <1>1, <1>2

\* Without a change of what is accepted, runs and is said, nothing is lost.
LEMMA SoundIdle ==
    ASSUME HostSound, work.at # "signalling", work'.at \notin Compiled,
           accepted' = accepted, patched' = TRUE \/ UNCHANGED <<running, patched>>,
           verdict' = verdict \/ verdict'.state # "live"
    PROVE  HostSound'
  BY DEF HostSound, LedgerClean, RunsAccepted, VerdictNames, CandidateFits, CommitsForReal,
         Compiled

\* And the same while a candidate is on its way.
LEMMA SoundCompiling ==
    ASSUME HostSound, work.at \in Compiled, work'.at \in Compiled,
           work.at # "signalling", work'.at # "signalling",
           UNCHANGED <<accepted, running, verdict, patched>>,
           work'.text = work.text, work'.dry = work.dry,
           work'.at = "committing" => ~work.dry
    PROVE  HostSound'
  BY DEF HostSound, LedgerClean, RunsAccepted, VerdictNames, CandidateFits, CommitsForReal,
         Compiled, Candidate

LEMMA HostSoundStep ==
    ASSUME HostTypeOK, HostSound, [HostNext]_liveVars
    PROVE  HostSound'
<1>0. work \in Works /\ phase \in Phases
  BY DEF HostTypeOK, Works
<1>1. ASSUME UNCHANGED <<accepted, running, verdict, patched, work>> PROVE HostSound'
  BY <1>1 DEF HostSound, LedgerClean, RunsAccepted, VerdictNames, CandidateFits, CommitsForReal,
              Candidate
<1>2. CASE UNCHANGED liveVars \/ UNCHANGED hostVars
  BY <1>1, <1>2 DEF liveVars, hostVars
<1>3. ASSUME NEW f \in File, Save(f) PROVE HostSound'
  BY <1>1, <1>3 DEF Save
<1>4. CASE PollBegin \/ (\E dry, deferred \in BOOLEAN : Request(dry, deferred))
  <2>1. work'.at \in {"digesting", "reading"} /\ work.at = "idle"
        /\ UNCHANGED <<accepted, running, verdict, patched>>
    BY <1>4 DEF PollBegin, Request, Idle, NoWork
  <2> QED BY <2>1, SoundIdle DEF Compiled
<1>5. CASE Polled \/ Settled
  BY <1>5, PolledFacts, SoundIdle DEF Compiled
<1>6. CASE PollDigest \/ PollSettles \/ ReadProject
  <2>1. PICK from \in {"digesting", "settling", "reading"},
             to \in {"polled", "settled", "planning"} : ReadsFile(from, to)
    BY <1>6 DEF PollDigest, PollSettles, ReadProject
  <2>2. from \in Places /\ to \in Places /\ work.at = from
    BY <2>1 DEF Places, ReadsFile
  <2>3. (work'.at = from \/ work'.at = to)
        /\ UNCHANGED <<accepted, running, verdict, patched>>
    BY <1>0, <2>1, <2>2, ReadsFacts DEF HostTypeOK
  <2> QED BY <2>2, <2>3, SoundIdle DEF Compiled
<1>7. CASE PlanAnswers
  <2>1. work.at = "planning" /\ UNCHANGED <<running, patched>>
    BY <1>7 DEF PlanAnswers
  <2>2. CASE \E state \in Verdicts \ {"live"} : Finish(state, FALSE)
    <3>1. PICK state \in Verdicts \ {"live"} : Finish(state, FALSE)
      BY <2>2
    <3>2. /\ work' = NoWork /\ accepted' = accepted
          /\ verdict' = verdict \/ verdict' = [state |-> state, text |-> work.text]
      BY <3>1, FinishedFacts
    <3>3. work'.at = "idle" /\ (verdict' = verdict \/ verdict'.state # "live")
      BY <3>2 DEF NoWork
    <3> QED BY <2>1, <3>2, <3>3, SoundIdle DEF Compiled
  <2>3. CASE ~\E state \in Verdicts \ {"live"} : Finish(state, FALSE)
    <3>1. /\ Finish("live", TRUE) /\ ~NeedsRestart
          /\ Duplicated(Candidate) = {} /\ Submit(accepted, Candidate) = {}
      BY <1>7, <2>3 DEF PlanAnswers, Submits, Verdicts
    <3>2. work'.at = "idle"
      <4>1. work' = NoWork
        BY <3>1, FinishedFacts
      <4> QED BY <4>1 DEF NoWork
    <3>3. CASE work.dry
      BY <2>1, <3>1, <3>2, <3>3, FinishedFacts, SoundIdle DEF Compiled
    <3>4. CASE ~work.dry
      <4>1. accepted' = Candidate /\ verdict' = [state |-> "live", text |-> work.text]
        BY <3>1, <3>4, FinishedFacts
      <4>2. DefinitionsOf(accepted) = DefinitionsOf(Candidate)
        BY <3>1, NothingToSubmit DEF HostSound, LedgerClean, NeedsRestart
      <4> QED BY <2>1, <3>1, <3>2, <4>1, <4>2
          DEF HostSound, LedgerClean, RunsAccepted, VerdictNames, CandidateFits,
              CommitsForReal, Compiled, Candidate
    <3> QED BY <3>3, <3>4
  <2> QED BY <2>2, <2>3
<1>8. CASE PlanSubmits
  <2>1. /\ work.at = "planning" /\ work'.at = "preparing" /\ work'.text = work.text
        /\ UNCHANGED <<accepted, running, verdict, patched>>
    BY <1>0, <1>8 DEF PlanSubmits, Works
  <2>2. Candidate' = Candidate
    BY <2>1 DEF Candidate
  <2>3. /\ Duplicated(Candidate) = {}
        /\ Removed(accepted, Candidate) = {} /\ Unsupported(accepted, Candidate) = {}
    BY <1>8 DEF PlanSubmits, Submits, NeedsRestart
  <2> QED BY <2>1, <2>2, <2>3
      DEF HostSound, LedgerClean, RunsAccepted, VerdictNames, CandidateFits, CommitsForReal,
          Compiled
<1>9. CASE PrepareOk
  <2>1. /\ work.at = "preparing" /\ work'.at = "comparing"
        /\ work'.text = work.text /\ work'.dry = work.dry
        /\ UNCHANGED <<accepted, running, verdict, patched>>
    BY <1>0, <1>9 DEF PrepareOk, Works
  <2> QED BY <2>1, SoundCompiling DEF Compiled
<1>10. ASSUME NEW reached \in Phases, NEW needs \in BOOLEAN, Answer(FALSE, reached, needs),
              work.at # "signalling", patched' = TRUE \/ UNCHANGED <<running, patched>>
       PROVE  HostSound'
  <2>1. /\ work' = NoWork /\ accepted' = accepted
        /\ verdict' = verdict \/ verdict'.state # "live"
    BY <1>10, RefusalFacts
  <2>2. work'.at \notin Compiled
    BY <2>1 DEF NoWork, Compiled
  <2> QED BY <1>10, <2>1, <2>2, SoundIdle
<1>11. ASSUME NEW needs \in BOOLEAN, PrepareFails(needs) PROVE HostSound'
  <2>1. PICK reached \in Phases : Answer(FALSE, reached, needs)
    BY <1>11 DEF PrepareFails, Phases
  <2> QED BY <1>10, <1>11, <2>1 DEF PrepareFails
<1>12. CASE Recover
  <2>1. /\ Answer(FALSE, "broken", FALSE) /\ patched' = TRUE /\ work.at = "preparing"
        /\ "broken" \in Phases
    BY <1>12 DEF Recover, Phases
  <2> QED BY <1>10, <2>1
<1>13. CASE Compare
  <2>1. work.at = "comparing" /\ UNCHANGED <<running, patched>>
    BY <1>13 DEF Compare
  <2>2. CASE work.file < Files \/ ~work.dry
    <3>1. /\ UNCHANGED <<accepted, verdict>>
          /\ \/ work' = [work EXCEPT !.file = @ + 1]
             \/ work' = [work EXCEPT !.at = "committing"] /\ ~work.dry
      BY <1>13, <2>2 DEF Compare
    <3>2. /\ work'.text = work.text /\ work'.dry = work.dry
          /\ work'.at = "comparing" \/ (work'.at = "committing" /\ ~work.dry)
      BY <1>0, <2>1, <3>1 DEF Works
    <3> QED BY <2>1, <3>1, <3>2, SoundCompiling DEF Compiled
  <2>3. CASE ~(work.file < Files \/ ~work.dry)
    <3>1. Answer(TRUE, phase, FALSE) /\ work.dry
      BY <1>0, <1>13, <2>3 DEF Compare, Works
    <3>2. work' = NoWork /\ accepted' = accepted /\ verdict' = verdict
      BY <3>1, AcceptanceFacts
    <3>3. work'.at \notin Compiled
      BY <3>2 DEF NoWork, Compiled
    <3> QED BY <2>1, <3>2, <3>3, SoundIdle
  <2> QED BY <2>2, <2>3
<1>14. CASE CompareDiffers
  <2>1. /\ Answer(FALSE, "changed", condition) /\ UNCHANGED <<running, patched>>
        /\ work.at = "comparing" /\ "changed" \in Phases /\ condition \in BOOLEAN
    BY <1>14 DEF CompareDiffers, Phases, HostTypeOK
  <2> QED BY <1>10, <2>1
<1>15. CASE Commit
  <2>1. /\ work.at = "committing" /\ work'.at = "signalling" /\ work'.text = work.text
        /\ work'.dry = work.dry /\ running' = Merged(running, Submit(accepted, Candidate))
        /\ UNCHANGED <<accepted, verdict, patched>>
    BY <1>0, <1>15 DEF Commit, Works
  <2>2. Candidate' = Candidate
    BY <2>1 DEF Candidate
  <2>3. /\ Duplicated(accepted) = {} /\ Duplicated(Candidate) = {} /\ ~work.dry
        /\ Removed(accepted, Candidate) = {} /\ Unsupported(accepted, Candidate) = {}
        /\ ~patched => running = DefinitionsOf(accepted)
    BY <2>1 DEF HostSound, LedgerClean, RunsAccepted, CandidateFits, CommitsForReal, Compiled
  <2>4. ~patched' => running' = DefinitionsOf(Candidate)
    BY <2>1, <2>3, SubmitSuffices
  <2> QED BY <2>1, <2>2, <2>3, <2>4
      DEF HostSound, LedgerClean, RunsAccepted, VerdictNames, CandidateFits, CommitsForReal,
          Compiled
<1>16. CASE CommitFails
  <2>1. /\ Answer(FALSE, "rolled-back", FALSE) /\ UNCHANGED <<running, patched>>
        /\ work.at = "committing" /\ "rolled-back" \in Phases
    BY <1>16 DEF CommitFails, Phases
  <2> QED BY <1>10, <2>1
<1>17. CASE Signal
  <2>1. /\ Answer(TRUE, "committed", FALSE) /\ UNCHANGED <<running, patched>>
        /\ work.at = "signalling" /\ "committed" \in Phases
    BY <1>17 DEF Signal, Phases
  <2>2. /\ ~work.dry /\ Duplicated(Candidate) = {}
        /\ ~patched => running = DefinitionsOf(Candidate)
    BY <2>1 DEF HostSound, RunsAccepted, CandidateFits, CommitsForReal, Compiled
  <2>3. work'.at = "idle" /\ accepted' = Candidate /\ verdict'.text = work.text
    <3>1. work' = NoWork /\ accepted' = Candidate /\ verdict'.text = work.text
      BY <2>1, <2>2, AcceptanceFacts
    <3> QED BY <3>1 DEF NoWork
  <2> QED BY <2>1, <2>2, <2>3
      DEF HostSound, LedgerClean, RunsAccepted, VerdictNames, CandidateFits, CommitsForReal,
          Compiled, Candidate
<1> QED
  BY <1>2, <1>3, <1>4, <1>5, <1>6, <1>7, <1>8, <1>9, <1>11, <1>12, <1>13, <1>14, <1>15,
     <1>16, <1>17 DEF HostNext, HostStep

-----------------------------------------------------------------------------
(* What is published was on disk as a whole. *)

\* A file that was read is no newer than the one on disk.
NotAhead == \A f \in File : work.text[f] <= disk[f]

\* The files are read, and compared, from the first on.
FromTheFirst == work.at \in {"planning", "preparing"} => work.file = 1

\* If the snapshot never was on disk as a whole, the comparison is bound to
\* meet a file that has changed.
WillDiffer ==
    work.at = "comparing" =>
        whole \/ \E f \in File : f >= work.file /\ disk[f] > work.text[f]

PublishesWhole == work.at \in {"committing", "signalling"} => whole

Whole == NotAhead /\ FromTheFirst /\ WillDiffer /\ PublishesWhole

\* A text that differs from what is on disk is behind in some file.
LEMMA BehindSomewhere ==
    ASSUME HostTypeOK, NotAhead, disk # work.text
    PROVE  \E f \in File : disk[f] > work.text[f]
<1>1. disk \in [File -> Nat] /\ work.text \in [File -> Nat]
  BY DEF HostTypeOK, Text
<1>2. PICK f \in File : disk[f] # work.text[f]
  <2> SUFFICES ASSUME \A f \in File : disk[f] = work.text[f] PROVE disk = work.text
    BY <1>1
  <2> QED BY <1>1
<1>3. disk[f] \in Nat /\ work.text[f] \in Nat /\ work.text[f] <= disk[f]
  BY <1>1 DEF NotAhead
<1> QED BY <1>2, <1>3

\* Work that begins, or ends, has read nothing.
LEMMA NothingRead ==
    ASSUME HostTypeOK, disk' = disk, work'.text = Blank,
           work'.at \notin Complete
    PROVE  Whole'
  BY DEF HostTypeOK, Text, Blank, Whole, NotAhead, FromTheFirst, WillDiffer, PublishesWhole,
         Complete

LEMMA WholeStep ==
    ASSUME HostTypeOK, Whole, [HostNext]_liveVars
    PROVE  Whole'
<1>0. /\ work \in Works /\ phase \in Phases /\ disk \in Text /\ work.text \in Text
      /\ whole \in BOOLEAN
  BY DEF HostTypeOK, Works
<1>1. CASE UNCHANGED liveVars \/ UNCHANGED hostVars
  BY <1>1 DEF liveVars, hostVars, Whole, NotAhead, FromTheFirst, WillDiffer, PublishesWhole
<1>2. ASSUME NEW f \in File, Save(f), Witnessed PROVE Whole'
  <2>1. work' = work /\ \A g \in File : disk'[g] >= disk[g] /\ disk'[g] \in Nat
    BY <1>0, <1>2 DEF Save, Text
  <2>2. work.at \in Complete /\ whole => whole'
    BY <1>2, <2>1 DEF Witnessed
  <2>3. \A g \in File : disk[g] \in Nat /\ work.text[g] \in Nat
    BY <1>0 DEF Text
  <2> QED BY <2>1, <2>2, <2>3
      DEF Whole, NotAhead, FromTheFirst, WillDiffer, PublishesWhole, Complete
<1>3. ASSUME work' = NoWork, disk' = disk PROVE Whole'
  BY <1>3, NothingRead DEF NoWork, Complete
<1>4. CASE PollBegin \/ (\E dry, deferred \in BOOLEAN : Request(dry, deferred))
  <2>1. work'.at \in {"digesting", "reading"} /\ work'.text = Blank /\ disk' = disk
    BY <1>4 DEF PollBegin, Request, NoWork
  <2> QED BY <2>1, NothingRead DEF Complete
<1>5. CASE Polled \/ Settled
  BY <1>5, PolledFacts, NothingRead DEF Complete
<1>6. CASE PollDigest \/ PollSettles \/ ReadProject
  <2>1. PICK from \in {"digesting", "settling", "reading"},
             to \in {"polled", "settled", "planning"} : ReadsFile(from, to)
    BY <1>6 DEF PollDigest, PollSettles, ReadProject
  <2>2. from \in Places /\ to \in Places
    BY <2>1 DEF Places
  <2>3. /\ work'.text = [work.text EXCEPT ![work.file] = disk[work.file]] /\ disk' = disk
        /\ work'.at = from \/ (work'.at = to /\ work'.file = 1)
    BY <1>0, <2>1, <2>2, ReadsFacts
  <2>4. NotAhead'
    <3>1. \A g \in File : work'.text[g] = work.text[g] \/ work'.text[g] = disk[g]
      BY <1>0, <2>3 DEF Text
    <3>2. \A g \in File : disk[g] \in Nat
      BY <1>0 DEF Text
    <3> QED BY <2>3, <3>1, <3>2 DEF Whole, NotAhead
  <2> QED BY <2>3, <2>4 DEF Whole, FromTheFirst, WillDiffer, PublishesWhole
<1>7. ASSUME NEW reached, NEW needs \in BOOLEAN, Answer(FALSE, reached, needs) PROVE Whole'
  BY <1>3, <1>7, RefusalFacts
<1>8. ASSUME NEW reached, Answer(TRUE, reached, FALSE) PROVE Whole'
  BY <1>3, <1>8, AcceptanceFacts
<1>9. CASE PlanAnswers
  <2>1. work' = NoWork /\ disk' = disk
    BY <1>9 DEF PlanAnswers, Finish
  <2> QED BY <1>3, <2>1
<1>10. CASE PlanSubmits
  <2>1. /\ work.at = "planning" /\ work'.at = "preparing" /\ work'.text = work.text
        /\ work'.file = work.file /\ disk' = disk
    BY <1>0, <1>10 DEF PlanSubmits, Works
  <2> QED BY <2>1 DEF Whole, NotAhead, FromTheFirst, WillDiffer, PublishesWhole
<1>11. CASE PrepareOk /\ Witnessed
  <2>1. /\ work.at = "preparing" /\ work'.at = "comparing" /\ work'.text = work.text
        /\ work'.file = 1 /\ disk' = disk
    BY <1>0, <1>11 DEF PrepareOk, Works, Whole, FromTheFirst
  <2>2. NotAhead'
    BY <2>1 DEF Whole, NotAhead
  <2>3. WillDiffer'
    <3>1. CASE disk = work.text
      <4>1. whole'
        BY <1>11, <2>1, <3>1 DEF Witnessed, Complete
      <4> QED BY <4>1 DEF WillDiffer
    <3>2. CASE disk # work.text
      <4>1. PICK f \in File : disk[f] > work.text[f]
        BY <3>2, BehindSomewhere DEF Whole
      <4>2. f >= 1
        BY DEF File
      <4> QED BY <2>1, <4>1, <4>2 DEF WillDiffer
    <3> QED BY <3>1, <3>2
  <2> QED BY <2>1, <2>2, <2>3 DEF Whole, FromTheFirst, PublishesWhole
<1>12. ASSUME NEW needs \in BOOLEAN, PrepareFails(needs) PROVE Whole'
  <2>1. PICK reached \in Phases : Answer(FALSE, reached, needs)
    BY <1>12 DEF PrepareFails, Phases
  <2> QED BY <1>7, <2>1
<1>13. CASE Recover
  <2>1. Answer(FALSE, "broken", FALSE) /\ "broken" \in Phases
    BY <1>13 DEF Recover, Phases
  <2> QED BY <1>7, <2>1
<1>14. CASE Compare /\ Witnessed
  <2>1. work.at = "comparing" /\ disk[work.file] = work.text[work.file]
        /\ work.file \in File
    BY <1>0, <1>14 DEF Compare, Works
  <2>2. \A f \in File : disk[f] \in Nat /\ work.text[f] \in Nat
    BY <1>0 DEF Text
  <2>3. whole \/ \E f \in File : f > work.file /\ disk[f] > work.text[f]
    <3>1. ASSUME NEW f \in File, f >= work.file, disk[f] > work.text[f]
          PROVE  f > work.file
      BY <2>1, <2>2, <3>1 DEF File
    <3> QED BY <2>1, <3>1 DEF Whole, WillDiffer
  <2>4. CASE work.file < Files
    <3>1. /\ work' = [work EXCEPT !.file = work.file + 1] /\ disk' = disk
      BY <1>14, <2>4 DEF Compare
    <3>2. /\ work'.at = "comparing" /\ work'.text = work.text
          /\ work'.file = work.file + 1
      BY <1>0, <2>1, <3>1 DEF Works
    <3>3. whole => whole'
      BY <1>14, <3>2 DEF Witnessed, Complete
    <3>4. WillDiffer'
      <4>1. CASE whole
        BY <3>3, <4>1 DEF WillDiffer
      <4>2. ASSUME NEW f \in File, f > work.file, disk[f] > work.text[f] PROVE WillDiffer'
        <5>1. f >= work.file + 1
          BY <2>1, <4>2 DEF File
        <5> QED BY <3>1, <3>2, <4>2, <5>1 DEF WillDiffer
      <4> QED BY <2>3, <4>1, <4>2
    <3> QED BY <3>1, <3>2, <3>4 DEF Whole, NotAhead, FromTheFirst, PublishesWhole
  <2>5. CASE ~(work.file < Files)
    <3>1. whole
      BY <2>1, <2>3, <2>5, Bounds DEF File
    <3>2. CASE ~work.dry
      <4>1. work' = [work EXCEPT !.at = "committing"] /\ disk' = disk
        BY <1>14, <2>5, <3>2 DEF Compare
      <4>2. work'.at = "committing" /\ work'.text = work.text
        BY <1>0, <4>1 DEF Works
      <4>3. whole'
        BY <1>14, <3>1, <4>2 DEF Witnessed, Complete
      <4> QED BY <4>1, <4>2, <4>3 DEF Whole, NotAhead, FromTheFirst, WillDiffer,
                                     PublishesWhole
    <3>3. CASE work.dry
      <4>1. Answer(TRUE, phase, FALSE)
        BY <1>14, <2>5, <3>3 DEF Compare
      <4> QED BY <1>0, <1>8, <4>1
    <3> QED BY <3>2, <3>3
  <2> QED BY <2>4, <2>5
<1>15. CASE CompareDiffers
  <2>1. Answer(FALSE, "changed", condition) /\ condition \in BOOLEAN /\ "changed" \in Phases
    BY <1>15 DEF CompareDiffers, HostTypeOK, Phases
  <2> QED BY <1>7, <2>1
<1>16. CASE Commit /\ Witnessed
  <2>1. /\ work.at = "committing" /\ work'.at = "signalling" /\ work'.text = work.text
        /\ disk' = disk
    BY <1>0, <1>16 DEF Commit, Works
  <2>2. whole'
    BY <1>16, <2>1 DEF Whole, PublishesWhole, Witnessed, Complete
  <2> QED BY <2>1, <2>2 DEF Whole, NotAhead, FromTheFirst, WillDiffer, PublishesWhole
<1>17. CASE CommitFails
  <2>1. Answer(FALSE, "rolled-back", FALSE) /\ "rolled-back" \in Phases
    BY <1>17 DEF CommitFails, Phases
  <2> QED BY <1>7, <2>1
<1>18. CASE Signal
  <2>1. Answer(TRUE, "committed", FALSE) /\ "committed" \in Phases
    BY <1>18 DEF Signal, Phases
  <2> QED BY <1>8, <2>1
<1> QED
  BY <1>1, <1>2, <1>4, <1>5, <1>6, <1>9, <1>10, <1>11, <1>12, <1>13, <1>14, <1>15,
     <1>16, <1>17, <1>18 DEF HostNext, HostStep

-----------------------------------------------------------------------------
(* The theorems. *)

Truthful == HostTypeOK /\ HostSound /\ Whole

LEMMA TruthfulKept == HostSpec => []Truthful
<1>1. HostInit => Truthful
  <2> SUFFICES ASSUME HostInit PROVE Truthful
    OBVIOUS
  <2>1. HostTypeOK
    BY HostTypeInit
  <2>2. HostSound
    BY StartedConstants DEF HostInit, NoWork, Compiled, HostSound, LedgerClean, RunsAccepted,
       VerdictNames, CandidateFits, CommitsForReal
  <2>3. Whole
    BY DEF HostInit, NoWork, Blank, FirstText, Whole, NotAhead, FromTheFirst, WillDiffer,
           PublishesWhole
  <2> QED BY <2>1, <2>2, <2>3 DEF Truthful
<1>2. Truthful /\ [HostNext]_liveVars => Truthful'
  BY HostTypeStep, HostSoundStep, WholeStep DEF Truthful
<1> QED BY <1>1, <1>2, PTL DEF HostSpec

\* Under a live verdict the program runs the definitions of the text it names,
\* and what is published was on disk as a whole (process-project!,
\* project-precommit and the controller's transaction).
THEOREM LiveTellsTheTruth == HostSpec => []LiveIsTrue
<1>1. Truthful => LiveIsTrue
  <2> SUFFICES ASSUME Truthful PROVE LiveIsTrue
    OBVIOUS
  <2>1. verdict.state = "live" /\ work.at # "signalling" /\ ~patched =>
            running = DefinitionsOf(Ledger(verdict.text))
    BY DEF Truthful, HostSound, RunsAccepted, VerdictNames
  <2>2. work.at \in {"committing", "signalling"} => whole
    BY DEF Truthful, Whole, PublishesWhole
  <2> QED BY <2>1, <2>2 DEF LiveIsTrue
<1> QED BY <1>1, TruthfulKept, PTL
=============================================================================
