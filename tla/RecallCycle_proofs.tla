-------------------------- MODULE RecallCycle_proofs --------------------------
(***************************************************************************)
(* Proofs about RecallCycle, for every value of its constants.             *)
(***************************************************************************)
EXTENDS RecallCycle, FiniteSetTheorems, TLAPS

(***************************************************************************)
(* Types.                                                                  *)
(***************************************************************************)
CallRows == [phase : Phases, on : 0..MaxCloses, view : View]

LEMMA ConstantFacts ==
  /\ MaxPending \in Nat /\ MaxPending >= 1
  /\ MaxSignals \in Nat /\ MaxCloses \in Nat
  /\ "memory" \in Signalled /\ Sources \subseteq Signalled
BY RecallAssumption DEF RecallAssumption, Signalled

LEMMA NoViewType == NoView \in View /\ ~ NoView.some
<1>1. [s \in Signalled |-> 0] \in [Signalled -> 0..MaxSignals]
  BY ConstantFacts
<1>2. FALSE \in BOOLEAN /\ {} \in SUBSET Sources /\ "no backend" \in Truths /\ "empty" \in Recollections
  BY Zenon DEF Truths, Recollections
<1> QED BY <1>1, <1>2, Zenon DEF NoView, View

(* A request leaves some request pending, and keeps the queue's bound.     *)
LEMMA CoalescedFacts ==
  ASSUME requests \subseteq Reasons, Cardinality(requests) <= MaxPending, NEW r \in Reasons
  PROVE  /\ Coalesced(r) \subseteq Reasons /\ Cardinality(Coalesced(r)) <= MaxPending
         /\ Coalesced(r) # {}
<1>1. IsFiniteSet(Reasons)
  <2>1. Reasons = (({} \cup {"source_invalidation"}) \cup {"memory_source_invalidation"})
                    \cup {"operator_requested"}
    BY DEF Reasons
  <2> QED BY <2>1, FS_EmptySet, FS_AddElement, Zenon
<1>2. IsFiniteSet(requests) /\ Cardinality(requests) \in Nat
  BY <1>1, FS_Subset, FS_CardinalityType
<1>3. CASE Cardinality(requests) >= MaxPending
  BY <1>3, ConstantFacts, FS_EmptySet DEF Coalesced
<1>4. CASE ~ (Cardinality(requests) >= MaxPending)
  <2>1. Coalesced(r) = requests \cup {r}
    BY <1>4 DEF Coalesced
  <2>2. Cardinality(requests \cup {r}) <= Cardinality(requests) + 1
    BY <1>2, FS_AddElement
  <2>3. Cardinality(requests \cup {r}) <= MaxPending
    <3>1. Cardinality(requests \cup {r}) \in Nat
      BY <1>2, FS_AddElement, FS_CardinalityType
    <3> QED BY <2>2, <3>1, <1>2, <1>4, ConstantFacts
  <2> QED BY <2>1, <2>3
<1> QED BY <1>3, <1>4

(* What a run freezes and what the recall makes of it are views.           *)
LEMMA FrozenType == TypeOK => FrozenSources \in View
<1> SUFFICES ASSUME TypeOK PROVE FrozenSources \in View
  OBVIOUS
<1>1. TRUE \in BOOLEAN /\ "no backend" \in Truths /\ "empty" \in Recollections
  BY Zenon DEF Truths, Recollections
<1>2. registered \in SUBSET Sources /\ signal \in [Signalled -> 0..MaxSignals]
  BY DEF TypeOK
<1> QED BY <1>1, <1>2, Zenon DEF FrozenSources, View

LEMMA RecalledType ==
  ASSUME TypeOK, NEW view \in View, NEW truth \in Truths
  PROVE  /\ WithRecall(view, truth) \in View
         /\ WithRecall(view, truth).some = view.some
         /\ WithRecall(view, truth).parts = view.parts
         /\ WithRecall(view, truth).truth = truth
         /\ WithRecall(view, truth).p4 = Projected(truth)
         /\ WithRecall(view, truth).asOf = view.asOf
<1>1. Projected(truth) \in Recollections
  BY DEF Projected, Normalized, Truths, Recollections
<1>2. WithRecall(view, truth) \in View
  BY <1>1, Zenon DEF WithRecall, View
<1>3. /\ WithRecall(view, truth).some = view.some
      /\ WithRecall(view, truth).parts = view.parts
      /\ WithRecall(view, truth).truth = truth
      /\ WithRecall(view, truth).p4 = Projected(truth)
      /\ WithRecall(view, truth).asOf = view.asOf
  BY Zenon DEF WithRecall, View
<1> QED BY <1>2, <1>3

(***************************************************************************)
(* The inductive invariant.  A call is current while it runs on the        *)
(* coordinator of the opening that began it: at most one is, and it holds  *)
(* runInProgress, so nobody else consumes the requests that are made while *)
(* it runs.  Its view, then, misses no signal that no request is for, of   *)
(* the memories either, whether or not P4 shows any.                       *)
(***************************************************************************)
Honest(v) ==
  v.some => /\ v.p4 = "marker" <=> v.truth = "failed"
            /\ v.p4 = "empty" => v.truth \in {"no backend", "nothing usable"}
Reads(v) == v.parts \cup {"memory"}
Served(v) == v.some => \A s \in Reads(v) : v.asOf[s] < signal[s] => requests # {}
Current(c) == call[c].phase \in {"recall", "settled"} /\ call[c].on = closes

RunsAreCurrent ==
  /\ \A c \in Calls : call[c].on <= closes
  /\ \A c \in Calls : Current(c) => open /\ running
  /\ \A c, d \in Calls : Current(c) /\ Current(d) => c = d
ViewsAreHonest == Honest(generation) /\ \A c \in Calls : Honest(call[c].view)
ViewsAreServed == Served(generation) /\ \A c \in Calls : Current(c) => Served(call[c].view)

IInv == TypeOK /\ GateHeldByCycle /\ RunsAreCurrent /\ ViewsAreHonest /\ ViewsAreServed

(* What Begin and Step write.                                              *)
LEMMA BeginFacts ==
  ASSUME TypeOK, NEW c \in Calls, NEW phase \in Phases, NEW view \in View,
         Begin(c, phase, view)
  PROVE  /\ call' \in [Calls -> CallRows]
         /\ call'[c].phase = phase /\ call'[c].on = closes /\ call'[c].view = view
         /\ \A d \in Calls : d # c => call'[d] = call[d]
<1>1. [phase |-> phase, on |-> closes, view |-> view] \in CallRows
  BY Zenon DEF CallRows, TypeOK
<1>2. call \in [Calls -> CallRows]
  BY Zenon DEF TypeOK, CallRows
<1>3. call' = [call EXCEPT ![c] = [phase |-> phase, on |-> closes, view |-> view]]
  BY Zenon DEF Begin
<1>4. call'[c] = [phase |-> phase, on |-> closes, view |-> view]
  BY <1>2, <1>3
<1> QED BY <1>1, <1>2, <1>3, <1>4

LEMMA StepFacts ==
  ASSUME TypeOK, NEW c \in Calls, NEW phase \in Phases, NEW view \in View,
         Step(c, phase, view)
  PROVE  /\ call' \in [Calls -> CallRows]
         /\ call'[c].phase = phase /\ call'[c].on = call[c].on /\ call'[c].view = view
         /\ \A d \in Calls : d # c => call'[d] = call[d]
<1>1. call \in [Calls -> CallRows] /\ call[c] \in CallRows
  BY Zenon DEF TypeOK, CallRows
<1>2. call' = [call EXCEPT ![c] = [call[c] EXCEPT !.phase = phase, !.view = view]]
  BY <1>1, Zenon DEF Step
<1>3. call'[c] = [call[c] EXCEPT !.phase = phase, !.view = view]
  BY <1>1, <1>2, Zenon
<1>4. call'[c] \in CallRows
  BY <1>1, <1>3, Zenon DEF CallRows
<1>5. call'[c].phase = phase /\ call'[c].on = call[c].on /\ call'[c].view = view
  BY <1>1, <1>3, Zenon DEF CallRows
<1>6. call' \in [Calls -> CallRows] /\ \A d \in Calls : d # c => call'[d] = call[d]
  BY <1>1, <1>2, <1>3, <1>4, Zenon
<1> QED BY <1>5, <1>6

(***************************************************************************)
(* Every step keeps the types.                                             *)
(***************************************************************************)
LEMMA TypeInit == Init => TypeOK
<1> SUFFICES ASSUME Init PROVE TypeOK
  OBVIOUS
<1>1. Cardinality({}) <= MaxPending
  BY FS_EmptySet, ConstantFacts
<1>2. Idle \in CallRows
  <2>1. "idle" \in Phases /\ 0 \in 0..MaxCloses
    BY ConstantFacts DEF Phases
  <2> QED BY <2>1, NoViewType, Zenon DEF Idle, CallRows
<1>3. call \in [Calls -> CallRows] /\ generation \in View
  BY <1>2, NoViewType DEF Init
<1>4. {gate, open, running} \subseteq BOOLEAN
  BY DEF Init
<1>5. closes \in 0..MaxCloses /\ signal \in [Signalled -> 0..MaxSignals]
  BY ConstantFacts DEF Init
<1>6. slot \in Adapters \cup {NoAdapter} /\ registered \subseteq Sources /\ requests = {}
  BY DEF Init
<1> QED BY <1>1, <1>3, <1>4, <1>5, <1>6 DEF TypeOK, CallRows

(* The types, with the booleans apart.                                     *)
DataOK ==
  /\ slot \in Adapters \cup {NoAdapter}
  /\ closes \in 0..MaxCloses /\ registered \subseteq Sources
  /\ requests \subseteq Reasons /\ Cardinality(requests) <= MaxPending
  /\ generation \in View
  /\ call \in [Calls -> CallRows]
  /\ signal \in [Signalled -> 0..MaxSignals]
FlagsOK == gate \in BOOLEAN /\ open \in BOOLEAN /\ running \in BOOLEAN

LEMMA TypeParts == TypeOK <=> DataOK /\ FlagsOK
BY Zenon DEF TypeOK, DataOK, FlagsOK, CallRows

LEMMA SignalStep ==
  ASSUME TypeOK, NEW s \in Signalled, signal[s] < MaxSignals
  PROVE  [signal EXCEPT ![s] = @ + 1] \in [Signalled -> 0..MaxSignals]
<1>1. signal[s] + 1 \in 0..MaxSignals
  BY ConstantFacts DEF TypeOK
<1> QED BY <1>1 DEF TypeOK

LEMMA PhaseFacts == {"idle", "recall", "settled", "ended"} \subseteq Phases
BY DEF Phases

(* The bodies of the calls.                                                *)
LEMMA CallWithRunFacts ==
  ASSUME TypeOK, NEW c \in Calls, CallWithRun(c)
  PROVE  /\ call' \in [Calls -> CallRows]
         /\ call'[c].on = closes
         /\ \/ call'[c].phase = "settled" /\ call'[c].view = NoView
            \/ /\ call'[c].phase = "settled"
               /\ \E truth \in {"no backend", "failed"} :
                    call'[c].view = WithRecall(FrozenSources, truth)
            \/ call'[c].phase = "recall" /\ call'[c].view = FrozenSources
         /\ \A d \in Calls : d # c => call'[d] = call[d]
<1> USE PhaseFacts
<1>1. CASE RefuseUnit(c)
  <2>1. Begin(c, "settled", NoView)
    BY <1>1 DEF RefuseUnit
  <2> QED BY <2>1, NoViewType, BeginFacts
<1>2. ASSUME NEW truth \in {"no backend", "failed"},
             Begin(c, "settled", WithRecall(FrozenSources, truth))
      PROVE  /\ call' \in [Calls -> CallRows]
             /\ call'[c].on = closes /\ call'[c].phase = "settled"
             /\ call'[c].view = WithRecall(FrozenSources, truth)
             /\ \A d \in Calls : d # c => call'[d] = call[d]
  <2>1. truth \in Truths
    BY DEF Truths
  <2>2. WithRecall(FrozenSources, truth) \in View
    BY <2>1, FrozenType, RecalledType
  <2> QED BY <1>2, <2>2, BeginFacts
<1>3. CASE Begin(c, "recall", FrozenSources)
  BY <1>3, FrozenType, BeginFacts
<1> QED BY <1>1, <1>2, <1>3 DEF CallWithRun

LEMMA TypeStep == TypeOK /\ [Next]_vars => TypeOK'
<1> SUFFICES ASSUME TypeOK, [Next]_vars PROVE TypeOK'
  OBVIOUS
<1> USE PhaseFacts, ConstantFacts, NoViewType
<1>a. DataOK /\ FlagsOK
  BY TypeParts
<1>b. Cardinality({}) <= MaxPending
  BY FS_EmptySet
<1>c. \A r \in Reasons : Coalesced(r) \subseteq Reasons /\ Cardinality(Coalesced(r)) <= MaxPending
  BY <1>a, CoalescedFacts DEF DataOK
<1>d. {"operator_requested", "source_invalidation", "memory_source_invalidation"} \subseteq Reasons
  BY DEF Reasons
<1>1. DataOK'
  <2>1. CASE RequestBust
    BY <2>1, <1>a, <1>c, <1>d DEF RequestBust, DataOK, memory, service
  <2>2. ASSUME NEW s \in Sources, InvalidateSource(s) PROVE DataOK'
    BY <2>2, <1>a, <1>c, <1>d, SignalStep DEF InvalidateSource, DataOK, memory, service
  <2>3. CASE InvalidateMemory
    BY <2>3, <1>a, <1>c, <1>d, SignalStep DEF InvalidateMemory, DataOK, memory, service
  <2>4. ASSUME NEW s \in Sources, RegisterContributor(s) \/ DisposeContributor(s) PROVE DataOK'
    BY <2>4, <1>a DEF RegisterContributor, DisposeContributor, DataOK, memory, coordinator
  <2>5. ASSUME NEW a \in Adapters, SetAdapter(a) PROVE DataOK'
    BY <2>5, <1>a DEF SetAdapter, DataOK, service, coordinator
  <2>6. CASE DisposeAdapter
    BY <2>6, <1>a DEF DisposeAdapter, DataOK, service, coordinator
  <2>7. ASSUME NEW c \in Calls, CallWithoutRun(c) PROVE DataOK'
    <3>1. call' \in [Calls -> CallRows]
      BY <2>7, BeginFacts DEF CallWithoutRun
    <3> QED BY <2>7, <3>1, <1>a DEF CallWithoutRun, DataOK, service, coordinator
  <2>8. ASSUME NEW c \in Calls, CallWithRun(c) PROVE DataOK'
    BY <2>8, <1>a, <1>b, CallWithRunFacts DEF CallWithRun, DataOK, service
  <2>9. ASSUME NEW c \in Calls, RecallSettles(c) PROVE DataOK'
    <3>1. PICK truth \in Truths : Step(c, "settled", WithRecall(call[c].view, truth))
      BY <2>9 DEF RecallSettles
    <3>2. call[c].view \in View
      BY <1>a DEF DataOK, CallRows
    <3>3. call' \in [Calls -> CallRows]
      BY <3>1, <3>2, RecalledType, StepFacts
    <3> QED BY <2>9, <3>3, <1>a DEF RecallSettles, DataOK, memory, service, coordinator
  <2>10. ASSUME NEW c \in Calls, RunEnds(c) PROVE DataOK'
    <3>1. PICK shown \in Built(call[c].view) :
            /\ Step(c, "ended", NoView)
            /\ IF open /\ call[c].on = closes
               THEN generation' = shown /\ EndRun(c, shown)
               ELSE UNCHANGED <<generation, running>>
      BY <2>10 DEF RunEnds
    <3>2. call[c].view \in View
      BY <1>a DEF DataOK, CallRows
    <3>3. shown \in View
      BY <3>1, <3>2 DEF Built
    <3>4. call' \in [Calls -> CallRows] /\ generation' \in View
      BY <3>1, <3>3, <1>a, StepFacts DEF DataOK
    <3> QED BY <2>10, <3>4, <1>a DEF RunEnds, DataOK, memory, service
  <2>11. ASSUME NEW c \in Calls, CallReturns(c) PROVE DataOK'
    <3>1. Idle \in CallRows
      <4>1. "idle" \in Phases /\ 0 \in 0..MaxCloses
        OBVIOUS
      <4> QED BY <4>1, Zenon DEF Idle, CallRows, NoViewType
    <3>2. call' \in [Calls -> CallRows]
      BY <2>11, <3>1, <1>a DEF CallReturns, DataOK
    <3> QED BY <2>11, <3>2, <1>a DEF CallReturns, DataOK, service, coordinator
  <2>12. CASE CloseContext
    BY <2>12, <1>a, <1>b DEF CloseContext, DataOK, memory
  <2>13. CASE OpenContext
    BY <2>13, <1>a DEF OpenContext, DataOK, memory, coordinator
  <2>14. CASE UNCHANGED vars
    BY <2>14, <1>a DEF DataOK, vars, memory, service, coordinator
  <2> QED BY <2>1, <2>2, <2>3, <2>4, <2>5, <2>6, <2>7, <2>8, <2>9, <2>10, <2>11, <2>12, <2>13, <2>14
          DEF Next, Plugins, StartCall
<1>2. FlagsOK'
  BY <1>a, Zenon DEF FlagsOK, Next, Plugins, StartCall, RequestBust, InvalidateSource, InvalidateMemory,
     RegisterContributor, DisposeContributor, SetAdapter, DisposeAdapter, CallWithoutRun, CallWithRun,
     RecallSettles, RunEnds, EndRun, CallReturns, CloseGate, CloseContext, OpenContext,
     vars, memory, service, coordinator
<1> QED BY <1>1, <1>2, Zenon DEF TypeOK, DataOK, FlagsOK, CallRows

(* Every value keeps its type in every reachable state: in particular no   *)
(* more requests are pending than the coordinator's bound allows, since a  *)
(* request beyond it is merged.                                            *)
THEOREM TypeCorrect == Spec => []TypeOK
<1>1. Init => TypeOK
  BY TypeInit
<1>2. TypeOK /\ [Next]_vars => TypeOK'
  BY TypeStep
<1> QED BY <1>1, <1>2, PTL DEF Spec

(***************************************************************************)
(* The kinds of steps: a quiet one touches neither the calls nor the runs, *)
(* and makes a request with every signal.                                  *)
(***************************************************************************)
Quiet ==
  /\ UNCHANGED <<gate, call, generation, running, open, closes>>
  /\ requests # {} => requests' # {}
  /\ signal' = signal \/ requests' # {}

LEMMA StepKinds ==
  ASSUME TypeOK, [Next]_vars
  PROVE  \/ Quiet
         \/ \E c \in Calls : \/ CallWithoutRun(c) \/ CallWithRun(c) \/ RecallSettles(c)
                             \/ RunEnds(c) \/ CallReturns(c)
         \/ CloseContext \/ OpenContext
<1>1. requests \subseteq Reasons /\ Cardinality(requests) <= MaxPending
  BY DEF TypeOK
<1>2. \A r \in Reasons : Coalesced(r) # {}
  BY <1>1, CoalescedFacts
<1>3. {"operator_requested", "source_invalidation", "memory_source_invalidation"} \subseteq Reasons
  BY DEF Reasons
<1>4. CASE RequestBust
  BY <1>2, <1>3, <1>4 DEF RequestBust, Quiet, memory, service
<1>5. CASE Plugins
  <2>1. ASSUME NEW s \in Sources, InvalidateSource(s) PROVE Quiet
    BY <2>1, <1>2, <1>3 DEF InvalidateSource, Quiet, memory, service
  <2>2. CASE InvalidateMemory
    BY <2>2, <1>2, <1>3 DEF InvalidateMemory, Quiet, memory, service
  <2>3. ASSUME NEW s \in Sources, RegisterContributor(s) \/ DisposeContributor(s) PROVE Quiet
    BY <2>3 DEF RegisterContributor, DisposeContributor, Quiet, memory, coordinator
  <2>4. ASSUME NEW a \in Adapters, SetAdapter(a) PROVE Quiet
    BY <2>4 DEF SetAdapter, Quiet, service, coordinator
  <2>5. CASE DisposeAdapter
    BY <2>5 DEF DisposeAdapter, Quiet, service, coordinator
  <2> QED BY <1>5, <2>1, <2>2, <2>3, <2>4, <2>5 DEF Plugins
<1>6. CASE UNCHANGED vars
  BY <1>6 DEF Quiet, vars, memory, service, coordinator
<1> QED BY <1>4, <1>5, <1>6 DEF Next, StartCall

(* The effect of each step on the calls, in one form: what the call that   *)
(* moves becomes, and that the others stay.                                *)
LEMMA WithoutRunCall ==
  ASSUME TypeOK, NEW c \in Calls, CallWithoutRun(c)
  PROVE  /\ call'[c].phase = "ended" /\ call'[c].on = closes /\ call'[c].view = NoView
         /\ \A d \in Calls : d # c => call'[d] = call[d]
<1>1. Begin(c, "ended", NoView)
  BY DEF CallWithoutRun
<1> QED BY <1>1, NoViewType, PhaseFacts, BeginFacts

LEMMA SettledCall ==
  ASSUME TypeOK, NEW c \in Calls, RecallSettles(c)
  PROVE  /\ call'[c].phase = "settled" /\ call'[c].on = call[c].on /\ call[c].view \in View
         /\ \E truth \in Truths : call'[c].view = WithRecall(call[c].view, truth)
         /\ \A d \in Calls : d # c => call'[d] = call[d]
<1>1. PICK truth \in Truths : Step(c, "settled", WithRecall(call[c].view, truth))
  BY DEF RecallSettles
<1>2. call[c].view \in View
  BY TypeParts DEF DataOK, CallRows
<1>3. WithRecall(call[c].view, truth) \in View
  BY <1>2, RecalledType
<1>4. "settled" \in Phases
  BY PhaseFacts
<1>5. /\ call'[c].phase = "settled" /\ call'[c].on = call[c].on
      /\ call'[c].view = WithRecall(call[c].view, truth)
      /\ \A d \in Calls : d # c => call'[d] = call[d]
  BY <1>1, <1>3, <1>4, StepFacts
<1> QED BY <1>2, <1>5

LEMMA EndedCall ==
  ASSUME TypeOK, NEW c \in Calls, RunEnds(c)
  PROVE  /\ call'[c].phase = "ended" /\ call'[c].on = call[c].on
         /\ \A d \in Calls : d # c => call'[d] = call[d]
         /\ \E shown \in {call[c].view, NoView} :
              /\ call'[c].view = NoView
              /\ IF open /\ call[c].on = closes
                 THEN generation' = shown /\ running' = FALSE
                 ELSE generation' = generation /\ running' = running
<1>1. PICK shown \in {call[c].view, NoView} :
        /\ Step(c, "ended", NoView)
        /\ IF open /\ call[c].on = closes
           THEN generation' = shown /\ running' = FALSE
           ELSE generation' = generation /\ running' = running
  BY Zenon DEF RunEnds, Built, EndRun
<1> QED BY <1>1, NoViewType, PhaseFacts, StepFacts

LEMMA ReturnedCall ==
  ASSUME TypeOK, NEW c \in Calls, CallReturns(c)
  PROVE  /\ call'[c] = Idle
         /\ \A d \in Calls : d # c => call'[d] = call[d]
BY TypeParts DEF CallReturns, DataOK

LEMMA IdleFacts == Idle.phase = "idle" /\ Idle.on = 0 /\ Idle.view = NoView
BY Zenon DEF Idle

(* What holds of the counters.                                             *)
LEMMA CountFacts ==
  ASSUME TypeOK
  PROVE  /\ closes \in Nat /\ \A c \in Calls : call[c].on \in Nat
         /\ \A s \in Signalled : signal[s] \in Nat
BY TypeParts, ConstantFacts DEF DataOK, CallRows

(***************************************************************************)
(* The gate.                                                               *)
(***************************************************************************)
LEMMA GateStep == TypeOK /\ GateHeldByCycle /\ [Next]_vars => GateHeldByCycle'
<1> SUFFICES ASSUME TypeOK, GateHeldByCycle, [Next]_vars PROVE GateHeldByCycle'
  OBVIOUS
<1>1. CASE Quiet
  BY <1>1 DEF Quiet, GateHeldByCycle
<1>2. ASSUME NEW c \in Calls, CallWithoutRun(c) PROVE GateHeldByCycle'
  BY <1>2, WithoutRunCall DEF GateHeldByCycle
<1>3. ASSUME NEW c \in Calls, CallWithRun(c) PROVE GateHeldByCycle'
  <2>1. call'[c].phase # "idle"
    BY <1>3, CallWithRunFacts
  <2> QED BY <2>1 DEF GateHeldByCycle
<1>4. ASSUME NEW c \in Calls, RecallSettles(c) PROVE GateHeldByCycle'
  BY <1>4, SettledCall DEF GateHeldByCycle
<1>5. ASSUME NEW c \in Calls, RunEnds(c) PROVE GateHeldByCycle'
  BY <1>5, EndedCall DEF GateHeldByCycle
<1>6. ASSUME NEW c \in Calls, CallReturns(c) PROVE GateHeldByCycle'
  BY <1>6, Zenon DEF CallReturns, CloseGate, GateHeldByCycle
<1>7. CASE CloseContext \/ OpenContext
  BY <1>7, Zenon DEF CloseContext, OpenContext, memory, GateHeldByCycle
<1> QED BY <1>1, <1>2, <1>3, <1>4, <1>5, <1>6, <1>7, StepKinds

(***************************************************************************)
(* The runs: one at a time on the current coordinator.                     *)
(***************************************************************************)
LEMMA RunsStep == TypeOK /\ RunsAreCurrent /\ [Next]_vars => RunsAreCurrent'
<1> SUFFICES ASSUME TypeOK, RunsAreCurrent, [Next]_vars PROVE RunsAreCurrent'
  OBVIOUS
<1> USE CountFacts
<1>1. CASE Quiet
  BY <1>1 DEF Quiet, RunsAreCurrent, Current
<1>2. ASSUME NEW c \in Calls, CallWithoutRun(c) PROVE RunsAreCurrent'
  BY <1>2, WithoutRunCall DEF CallWithoutRun, RunsAreCurrent, Current, service, coordinator
<1>3. ASSUME NEW c \in Calls, CallWithRun(c) PROVE RunsAreCurrent'
  <2>1. \A d \in Calls : ~ Current(d)
    BY <1>3 DEF CallWithRun, RunsAreCurrent
  <2>2. open' /\ running' /\ closes' = closes
    BY <1>3 DEF CallWithRun, service
  <2>3. call'[c].on = closes /\ \A d \in Calls : d # c => call'[d] = call[d]
    BY <1>3, CallWithRunFacts
  <2>4. \A d \in Calls : Current(d)' => d = c
    BY <2>1, <2>2, <2>3 DEF Current
  <2> QED BY <2>2, <2>3, <2>4 DEF RunsAreCurrent
<1>4. ASSUME NEW c \in Calls, RecallSettles(c) PROVE RunsAreCurrent'
  <2>1. call[c].phase = "recall"
    BY <1>4 DEF RecallSettles
  <2>2. UNCHANGED <<open, closes, running>>
    BY <1>4 DEF RecallSettles, service, coordinator
  <2>3. call'[c].on = call[c].on /\ \A d \in Calls : d # c => call'[d] = call[d]
    BY <1>4, SettledCall
  <2>4. \A d \in Calls : call'[d].on = call[d].on
    BY <2>3
  <2>5. \A d \in Calls : Current(d)' => Current(d)
    BY <2>1, <2>2, <2>3 DEF Current
  <2> QED BY <2>2, <2>4, <2>5 DEF RunsAreCurrent
<1>5. ASSUME NEW c \in Calls, RunEnds(c) PROVE RunsAreCurrent'
  <2>1. call[c].phase = "settled" /\ open' = open /\ closes' = closes
    BY <1>5 DEF RunEnds, service
  <2>2. \A d \in Calls : Current(d)' => d # c /\ Current(d)
    BY <1>5, <2>1, EndedCall DEF Current
  <2>3. CASE open /\ call[c].on = closes
    <3>1. Current(c)
      BY <2>1, <2>3 DEF Current
    <3>2. \A d \in Calls : ~ Current(d)'
      BY <2>2, <3>1 DEF RunsAreCurrent
    <3> QED BY <1>5, <2>1, <3>2, EndedCall DEF RunsAreCurrent
  <2>4. CASE ~ (open /\ call[c].on = closes)
    <3>1. running' = running
      BY <1>5, <2>4, EndedCall
    <3> QED BY <1>5, <2>1, <2>2, <3>1, EndedCall DEF RunsAreCurrent
  <2> QED BY <2>3, <2>4
<1>6. ASSUME NEW c \in Calls, CallReturns(c) PROVE RunsAreCurrent'
  BY <1>6, ReturnedCall, IdleFacts DEF CallReturns, RunsAreCurrent, Current, service, coordinator
<1>7. CASE CloseContext
  BY <1>7 DEF CloseContext, RunsAreCurrent, Current
<1>8. CASE OpenContext
  BY <1>8 DEF OpenContext, RunsAreCurrent, Current, coordinator
<1> QED BY <1>1, <1>2, <1>3, <1>4, <1>5, <1>6, <1>7, <1>8, StepKinds

(***************************************************************************)
(* What the views say of the backend.                                      *)
(***************************************************************************)
LEMMA RecalledIsHonest ==
  ASSUME TypeOK, NEW view \in View, NEW truth \in Truths
  PROVE  Honest(WithRecall(view, truth))
<1>1. Projected(truth) = "marker" <=> truth = "failed"
  BY DEF Projected, Normalized, Truths
<1>2. Projected(truth) = "empty" => truth \in {"no backend", "nothing usable"}
  BY DEF Projected, Normalized, Truths
<1> QED BY <1>1, <1>2, RecalledType, Zenon DEF Honest

LEMMA FrozenIsHonest == Honest(FrozenSources) /\ Honest(NoView)
<1>1. FrozenSources.p4 = "empty" /\ FrozenSources.truth = "no backend"
  BY Zenon DEF FrozenSources
<1> QED BY <1>1, NoViewType DEF Honest

LEMMA HonestStep == TypeOK /\ ViewsAreHonest /\ [Next]_vars => ViewsAreHonest'
<1> SUFFICES ASSUME TypeOK, ViewsAreHonest, [Next]_vars PROVE ViewsAreHonest'
  OBVIOUS
<1> USE FrozenIsHonest
<1>a. ASSUME Honest(generation'), \A c \in Calls : Honest(call'[c].view)
      PROVE  ViewsAreHonest'
  BY <1>a, Zenon DEF ViewsAreHonest, Honest
<1>b. Honest(generation) /\ \A c \in Calls : Honest(call[c].view)
  BY DEF ViewsAreHonest
<1>1. CASE Quiet
  BY <1>a, <1>b, <1>1 DEF Quiet
<1>2. ASSUME NEW c \in Calls, CallWithoutRun(c) PROVE ViewsAreHonest'
  BY <1>a, <1>b, <1>2, WithoutRunCall DEF CallWithoutRun, coordinator
<1>3. ASSUME NEW c \in Calls, CallWithRun(c) PROVE ViewsAreHonest'
  <2>1. \A truth \in {"no backend", "failed"} : Honest(WithRecall(FrozenSources, truth))
    BY FrozenType, RecalledIsHonest DEF Truths
  <2>2. generation' = NoView
    BY <1>3 DEF CallWithRun
  <2>3. Honest(call'[c].view)
    BY <1>3, <2>1, CallWithRunFacts
  <2> QED BY <1>a, <1>b, <1>3, <2>2, <2>3, CallWithRunFacts
<1>4. ASSUME NEW c \in Calls, RecallSettles(c) PROVE ViewsAreHonest'
  <2>1. Honest(call'[c].view)
    BY <1>4, SettledCall, RecalledIsHonest
  <2>2. generation' = generation
    BY <1>4 DEF RecallSettles, coordinator
  <2> QED BY <1>a, <1>b, <1>4, <2>1, <2>2, SettledCall
<1>5. ASSUME NEW c \in Calls, RunEnds(c) PROVE ViewsAreHonest'
  BY <1>a, <1>b, <1>5, EndedCall
<1>6. ASSUME NEW c \in Calls, CallReturns(c) PROVE ViewsAreHonest'
  BY <1>a, <1>b, <1>6, ReturnedCall, IdleFacts DEF CallReturns, coordinator
<1>7. CASE CloseContext
  BY <1>a, <1>b, <1>7 DEF CloseContext
<1>8. CASE OpenContext
  BY <1>a, <1>b, <1>8 DEF OpenContext, coordinator
<1> QED BY <1>1, <1>2, <1>3, <1>4, <1>5, <1>6, <1>7, <1>8, StepKinds

(***************************************************************************)
(* What the views say of the sources.                                      *)
(***************************************************************************)
(* A view keeps being served as long as every new signal comes with a      *)
(* request and no request is taken.                                        *)
LEMMA ServedKept ==
  ASSUME NEW view, Served(view),
         requests # {} => requests' # {},
         signal' = signal \/ requests' # {}
  PROVE  view.some => \A s \in Reads(view) : view.asOf[s] < signal'[s] => requests' # {}
BY DEF Served

LEMMA FrozenIsServed ==
  ASSUME TypeOK, NEW s \in Signalled
  PROVE  /\ ~ FrozenSources.asOf[s] < signal[s]
         /\ \A truth \in Truths : ~ WithRecall(FrozenSources, truth).asOf[s] < signal[s]
<1>1. FrozenSources.asOf = signal
  BY Zenon DEF FrozenSources
<1>2. signal \in [Signalled -> 0..MaxSignals]
  BY DEF TypeOK
<1>3. \A truth \in Truths : WithRecall(FrozenSources, truth).asOf = signal
  BY <1>1, FrozenType, RecalledType
<1> QED BY <1>1, <1>3, CountFacts

LEMMA ReadsSignalled ==
  ASSUME NEW view \in View
  PROVE  Reads(view) \subseteq Signalled /\ view.parts \subseteq Sources
<1>1. view.parts \subseteq Sources
  BY DEF View
<1> QED BY <1>1, ConstantFacts DEF Reads

LEMMA RecalledIsServed ==
  ASSUME TypeOK, NEW view \in View, NEW truth \in Truths, Served(view)
  PROVE  Served(WithRecall(view, truth))
<1>1. /\ WithRecall(view, truth).some = view.some
      /\ WithRecall(view, truth).parts = view.parts
      /\ WithRecall(view, truth).asOf = view.asOf
  BY RecalledType
<1> QED BY <1>1 DEF Served, Reads

LEMMA ServedStep ==
  TypeOK /\ RunsAreCurrent /\ ViewsAreServed /\ [Next]_vars => ViewsAreServed'
<1> SUFFICES ASSUME TypeOK, RunsAreCurrent, ViewsAreServed, [Next]_vars PROVE ViewsAreServed'
  OBVIOUS
<1> DEFINE ServedNext(v) ==
      v.some => \A s \in Reads(v) : v.asOf[s] < signal'[s] => requests' # {}
<1>0. ASSUME ServedNext(generation'),
             \A c \in Calls : Current(c)' => ServedNext(call'[c].view)
      PROVE  ViewsAreServed'
  BY <1>0, Zenon DEF ViewsAreServed, Served, Reads
<1>a. ServedNext(NoView)
  BY NoViewType
<1>b. ASSUME UNCHANGED <<requests, signal>>, NEW v, Served(v) PROVE ServedNext(v)
  BY <1>b, ServedKept
<1>c. Served(generation) /\ \A c \in Calls : Current(c) => Served(call[c].view)
  BY DEF ViewsAreServed
<1> HIDE DEF ServedNext
<1>1. CASE Quiet
  <2>1. \A c \in Calls : Current(c)' => Current(c)
    BY <1>1 DEF Quiet, Current
  <2>2. ASSUME NEW v, Served(v) PROVE ServedNext(v)
    BY <1>1, <2>2, ServedKept DEF Quiet, ServedNext
  <2>3. ServedNext(generation') /\ \A c \in Calls : Current(c)' => ServedNext(call'[c].view)
    BY <1>1, <1>c, <2>1, <2>2 DEF Quiet
  <2> QED BY <1>0, <2>3
<1>2. ASSUME NEW c \in Calls, CallWithoutRun(c) PROVE ViewsAreServed'
  <2>1. UNCHANGED <<requests, signal, generation, closes>>
    BY <1>2 DEF CallWithoutRun, service, coordinator
  <2>2. \A d \in Calls : Current(d)' => Current(d) /\ call'[d] = call[d]
    BY <1>2, <2>1, WithoutRunCall DEF Current
  <2> QED BY <1>0, <1>b, <1>c, <2>1, <2>2
<1>3. ASSUME NEW c \in Calls, CallWithRun(c) PROVE ViewsAreServed'
  <2>1. generation' = NoView /\ signal' = signal /\ closes' = closes
    BY <1>3 DEF CallWithRun, service
  <2>2. \A d \in Calls : ~ Current(d)
    BY <1>3 DEF CallWithRun, RunsAreCurrent
  <2>3. \A d \in Calls : Current(d)' => d = c
    BY <1>3, <2>1, <2>2, CallWithRunFacts DEF Current
  <2>4. ServedNext(FrozenSources)
    BY <2>1, FrozenType, FrozenIsServed, ReadsSignalled DEF ServedNext
  <2>5. ASSUME NEW truth \in {"no backend", "failed"}
        PROVE  ServedNext(WithRecall(FrozenSources, truth))
    <3>1. truth \in Truths
      BY DEF Truths
    <3>2. WithRecall(FrozenSources, truth) \in View
      BY <3>1, FrozenType, RecalledType
    <3> QED BY <2>1, <3>1, <3>2, FrozenIsServed, ReadsSignalled DEF ServedNext
  <2>6. ServedNext(call'[c].view)
    BY <1>3, <1>a, <2>4, <2>5, CallWithRunFacts
  <2> QED BY <1>0, <1>a, <2>1, <2>3, <2>6
<1>4. ASSUME NEW c \in Calls, RecallSettles(c) PROVE ViewsAreServed'
  <2>1. UNCHANGED <<requests, signal, generation, closes>> /\ call[c].phase = "recall"
    BY <1>4 DEF RecallSettles, service, coordinator
  <2>2. \A d \in Calls : Current(d)' => Current(d)
    BY <1>4, <2>1, SettledCall DEF Current
  <2>3. Current(c) => ServedNext(call'[c].view)
    BY <1>4, <1>b, <1>c, <2>1, SettledCall, RecalledIsServed
  <2>4. \A d \in Calls : Current(d)' => ServedNext(call'[d].view)
    BY <1>4, <1>b, <1>c, <2>1, <2>2, <2>3, SettledCall
  <2> QED BY <1>0, <1>b, <1>c, <2>1, <2>4
<1>5. ASSUME NEW c \in Calls, RunEnds(c) PROVE ViewsAreServed'
  <2>1. UNCHANGED <<requests, signal, closes>> /\ call[c].phase = "settled"
    BY <1>5 DEF RunEnds, service
  <2>2. \A d \in Calls : Current(d)' => Current(d) /\ call'[d] = call[d]
    BY <1>5, <2>1, EndedCall DEF Current
  <2>3. ServedNext(generation')
    <3>1. CASE open /\ call[c].on = closes
      <4>1. Current(c)
        BY <2>1, <3>1 DEF Current
      <4>2. ServedNext(call[c].view)
        BY <1>b, <1>c, <2>1, <4>1
      <4> QED BY <1>5, <1>a, <3>1, <4>2, EndedCall
    <3>2. CASE ~ (open /\ call[c].on = closes)
      BY <1>5, <1>b, <1>c, <2>1, <3>2, EndedCall
    <3> QED BY <3>1, <3>2
  <2> QED BY <1>0, <1>b, <1>c, <2>1, <2>2, <2>3
<1>6. ASSUME NEW c \in Calls, CallReturns(c) PROVE ViewsAreServed'
  <2>1. UNCHANGED <<requests, signal, generation, closes>>
    BY <1>6 DEF CallReturns, service, coordinator
  <2>2. \A d \in Calls : Current(d)' => Current(d) /\ call'[d] = call[d]
    BY <1>6, <2>1, ReturnedCall, IdleFacts DEF Current
  <2> QED BY <1>0, <1>b, <1>c, <2>1, <2>2
<1>7. CASE CloseContext
  <2>1. generation' = NoView /\ closes' = closes + 1 /\ call' = call
    BY <1>7 DEF CloseContext
  <2>2. \A c \in Calls : ~ Current(c)'
    BY <2>1, CountFacts DEF RunsAreCurrent, Current
  <2> QED BY <1>0, <1>a, <2>1, <2>2
<1>8. CASE OpenContext
  <2>1. UNCHANGED <<requests, signal, generation, closes, call>>
    BY <1>8 DEF OpenContext, coordinator
  <2>2. \A c \in Calls : Current(c)' => Current(c)
    BY <2>1 DEF Current
  <2> QED BY <1>0, <1>b, <1>c, <2>1, <2>2
<1> QED BY <1>1, <1>2, <1>3, <1>4, <1>5, <1>6, <1>7, <1>8, StepKinds

(***************************************************************************)
(* The invariant and what follows from it.                                 *)
(***************************************************************************)
LEMMA InvInit == Init => IInv
<1> SUFFICES ASSUME Init PROVE IInv
  OBVIOUS
<1>1. \A c \in Calls : call[c] = Idle
  BY DEF Init
<1>2. GateHeldByCycle
  BY DEF Init, GateHeldByCycle
<1>3. RunsAreCurrent
  BY <1>1, IdleFacts DEF Init, RunsAreCurrent, Current
<1>4. ViewsAreHonest
  BY <1>1, IdleFacts, FrozenIsHonest DEF Init, ViewsAreHonest
<1>5. ViewsAreServed
  <2>1. Served(NoView)
    BY NoViewType DEF Served
  <2> QED BY <1>1, <2>1, IdleFacts DEF Init, ViewsAreServed
<1> QED BY <1>2, <1>3, <1>4, <1>5, TypeInit DEF IInv

(* The inductive invariant of the calls, the runs and their views.         *)
THEOREM RunsInvariant == Spec => []IInv
<1>1. Init => IInv
  BY InvInit
<1>2. IInv /\ [Next]_vars => IInv'
  BY TypeStep, GateStep, RunsStep, HonestStep, ServedStep DEF IInv
<1> QED BY <1>1, <1>2, PTL DEF Spec

(* The recall gate is never open without a call of runBustIfPending, for   *)
(* any number of overlapping calls, closings and adapters.                 *)
THEOREM GateHolds == Spec => []GateHeldByCycle
<1>1. IInv => GateHeldByCycle
  BY DEF IInv
<1> QED BY <1>1, RunsInvariant, PTL

(* P4 of the current generation says what the backend of its run did.      *)
THEOREM P4Holds == Spec => []P4IsHonest
<1>1. IInv => P4IsHonest
  BY DEF IInv, ViewsAreHonest, Honest, P4IsHonest
<1> QED BY <1>1, RunsInvariant, PTL

(* No invalidation is lost to the run that froze its sources before it: a  *)
(* generation that shows less has its successor requested.                 *)
THEOREM StaleHolds == Spec => []StaleGenerationIsRequested
<1>1. IInv => StaleGenerationIsRequested
  BY Zenon DEF IInv, ViewsAreServed, Served, Reads, StaleGenerationIsRequested
<1> QED BY <1>1, RunsInvariant, PTL

=============================================================================
