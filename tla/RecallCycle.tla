----------------------------- MODULE RecallCycle -----------------------------
(***************************************************************************)
(* What surrounds a canonical BUST in the process: the calls of            *)
(* ContextService.runBustIfPending that overlap, the recall gate they open *)
(* and close, the Memory Service adapter that is mounted and unmounted     *)
(* while it is awaited, the contributors of P0-P2, and the signals by      *)
(* which contributors and the memory backend ask for a rebuild.            *)
(*                                                                         *)
(* CanonicalBust has the durable side of a run (P3, P5, the watermark);    *)
(* here a run is what it shows of the contributors and of the recall.      *)
(* The code between two awaits runs alone, so it is one action.            *)
(* lastStatus, lastError and lastRun are audit texts and left out.         *)
(***************************************************************************)
EXTENDS Naturals, FiniteSets

CONSTANTS
  Adapters,     \* Memory Service adapters that plugins may mount
  NoAdapter,    \* the empty slot
  Sources,      \* sourceIds of the contributors
  Calls,        \* bound: calls of runBustIfPending under way at a time
  MaxPending,   \* maxPendingRequests of the coordinator
  MaxSignals,   \* bound: invalidations of one source
  MaxCloses     \* bound: closings of the Context service

ASSUME RecallAssumption ==
  /\ NoAdapter \notin Adapters /\ "memory" \notin Sources
  /\ IsFiniteSet(Calls) /\ IsFiniteSet(Sources)
  /\ MaxPending \in Nat \ {0} /\ {MaxSignals, MaxCloses} \subseteq Nat

VARIABLES
  \* MemoryService
  slot,         \* the mounted adapter or NoAdapter
  gate,         \* bustCycle
  \* ContextService and its BustCoordinator
  open, closes, \* the service is open; its closings so far
  registered,   \* sourceIds of the registered contributors
  requests,     \* reasons of pendingRequests
  running,      \* runInProgress
  generation,   \* what the current generation shows, or NoView
  \* calls of runBustIfPending under way
  call,
  \* invalidations so far of each source and of the memory
  signal

memory == <<slot, gate>>
service == <<open, closes, registered>>
coordinator == <<requests, running, generation>>
vars == <<memory, service, coordinator, call, signal>>

Signalled == Sources \cup {"memory"}
Reasons == {"source_invalidation", "memory_source_invalidation", "operator_requested"}

(* What a run shows: the contributors it projected, the invalidations that *)
(* preceded what it read of each, what the backend did and what became of  *)
(* it in P4.                                                               *)
Truths == {"no backend", "failed", "nothing usable", "memories"}
Recollections == {"empty", "marker", "memories"}
View == [some : BOOLEAN, parts : SUBSET Sources, asOf : [Signalled -> 0..MaxSignals],
         truth : Truths, p4 : Recollections]
NoView == [some |-> FALSE, parts |-> {}, asOf |-> [s \in Signalled |-> 0],
           truth |-> "no backend", p4 |-> "empty"]

(* A call: where it stands, the coordinator it runs on (one per opening of *)
(* the service), what it shows once it is settled.                         *)
Phases == {"idle", "recall", "settled", "ended"}
Idle == [phase |-> "idle", on |-> 0, view |-> NoView]

Init ==
  /\ slot = NoAdapter /\ gate = FALSE
  /\ open = TRUE /\ closes = 0 /\ registered = {}
  /\ requests = {} /\ running = FALSE /\ generation = NoView
  /\ call = [c \in Calls |-> Idle]
  /\ signal = [s \in Signalled |-> 0]

(***************************************************************************)
(* Requests and signals.                                                   *)
(***************************************************************************)
(* requestBust: one request per reason, merged into the last at the bound. *)
(* Wrong variants: a request made during a run is taken as served by it;   *)
(* there is no bound.                                                      *)
DroppedWhileRunning(reason) ==
  IF running \/ Cardinality(requests) >= MaxPending THEN requests ELSE requests \cup {reason}

CoalescedPerReason(reason) == requests \cup {reason}

Coalesced(reason) ==
  IF Cardinality(requests) >= MaxPending THEN requests ELSE requests \cup {reason}

RequestBust ==
  /\ open
  /\ requests' = Coalesced("operator_requested")
  /\ UNCHANGED <<memory, service, running, generation, call, signal>>

(* The owner of a source changed it and calls invalidateSource; only a     *)
(* registered contributor claims the sourceId.                             *)
InvalidateSource(s) ==
  /\ open /\ s \in registered
  /\ signal[s] < MaxSignals
  /\ signal' = [signal EXCEPT ![s] = @ + 1]
  /\ requests' = Coalesced("source_invalidation")
  /\ UNCHANGED <<memory, service, running, generation, call>>

(* The revision of the mounted backend changed; the host turns this into a *)
(* request and nothing else.                                               *)
InvalidateMemory ==
  /\ open /\ slot # NoAdapter
  /\ signal["memory"] < MaxSignals
  /\ signal' = [signal EXCEPT !["memory"] = @ + 1]
  /\ requests' = Coalesced("memory_source_invalidation")
  /\ UNCHANGED <<memory, service, running, generation, call>>

(* A second registration of a sourceId is refused.                         *)
RegisterContributor(s) ==
  /\ open /\ s \notin registered
  /\ registered' = registered \cup {s}
  /\ UNCHANGED <<memory, open, closes, coordinator, call, signal>>

DisposeContributor(s) ==
  /\ open /\ s \in registered
  /\ registered' = registered \ {s}
  /\ UNCHANGED <<memory, open, closes, coordinator, call, signal>>

(* setAdapter while another adapter is mounted is refused.                 *)
SetAdapter(a) ==
  /\ slot = NoAdapter
  /\ slot' = a
  /\ UNCHANGED <<gate, service, coordinator, call, signal>>

(* The disposer unmounts, also while a recall of the adapter is awaited.   *)
DisposeAdapter ==
  /\ slot # NoAdapter
  /\ slot' = NoAdapter
  /\ UNCHANGED <<gate, service, coordinator, call, signal>>

(***************************************************************************)
(* Recall.                                                                 *)
(***************************************************************************)
(* MemoryIntegrationCoordinator.recall: what the backend did becomes the   *)
(* status of the snapshot.  Only an empty slot is "disabled"; an adapter   *)
(* that throws, is not ready or answers anything but "ready" (that it is   *)
(* disabled, say) is "unavailable".                                        *)
Normalized(truth) ==
  CASE truth = "no backend" -> "disabled"
    [] truth = "failed" -> "unavailable"
    [] OTHER -> "ready"

(* P4RecollectionProjector.project.  Wrong variant: no marker.             *)
ProjectedSilently(truth) ==
  IF truth = "memories" THEN "memories" ELSE "empty"

Projected(truth) ==
  CASE Normalized(truth) = "disabled" -> "empty"
    [] Normalized(truth) = "unavailable" -> "marker"
    [] OTHER -> IF truth = "memories" THEN "memories" ELSE "empty"

(***************************************************************************)
(* A call of ContextService.runBustIfPending.                              *)
(***************************************************************************)
Begin(c, phase, view) == call' = [call EXCEPT ![c] = [phase |-> phase, on |-> closes, view |-> view]]
Step(c, phase, view) == call' = [call EXCEPT ![c].phase = phase, ![c].view = view]

(* What the contributors project, then the recall's outcome.  The memories *)
(* may be as old as the question: the backend is read at some time between *)
(* it and the answer.                                                      *)
FrozenSources == [some |-> TRUE, parts |-> registered, asOf |-> signal,
                  truth |-> "no backend", p4 |-> "empty"]
WithRecall(view, truth) == [view EXCEPT !.truth = truth, !.p4 = Projected(truth)]

(* The call opens the gate first.  Nothing to do, or a run in progress: it *)
(* returns at once and closes the gate in a later turn.                    *)
CallWithoutRun(c) ==
  /\ open /\ call[c].phase = "idle"
  /\ running \/ requests = {}
  /\ gate' = TRUE
  /\ Begin(c, "ended", NoView)
  /\ UNCHANGED <<slot, service, coordinator, signal>>

(* A contributor's unit is refused before the recall.                      *)
RefuseUnit(c) == Begin(c, "settled", NoView)

(* A run consumes the requests, drops the generation, freezes its sources  *)
(* (a contributor's unit may be refused, which ends the run as failed) and *)
(* reaches the recall: its answer is there at once without a backend or    *)
(* with one that is not ready, and awaited otherwise.                      *)
CallWithRun(c) ==
  /\ open /\ call[c].phase = "idle"
  /\ ~ running /\ requests # {}
  /\ gate' = TRUE
  /\ running' = TRUE /\ requests' = {} /\ generation' = NoView
  /\ \/ RefuseUnit(c)
     \/ slot = NoAdapter /\ Begin(c, "settled", WithRecall(FrozenSources, "no backend"))
     \/ slot # NoAdapter /\ Begin(c, "settled", WithRecall(FrozenSources, "failed"))
     \/ slot # NoAdapter /\ Begin(c, "recall", FrozenSources)
  /\ UNCHANGED <<slot, service, signal>>

(* The adapter the run called answers or fails, mounted still or not.      *)
RecallSettles(c) ==
  /\ call[c].phase = "recall"
  /\ \E truth \in Truths \ {"no backend"} :
       Step(c, "settled", WithRecall(call[c].view, truth))
  /\ UNCHANGED <<memory, service, coordinator, signal>>

(* buildContextGenerationV3: a generation of all that was frozen, or none: *)
(* a unit that is invalid, or that two sources project, refuses it whole.  *)
Built(view) == {view, NoView}

(* The rest of the coordinator's run: build and publish, or fail.  On the  *)
(* coordinator of a service closed since, nothing of it is seen here.      *)
(* Wrong variant: a failed run leaves runInProgress set.                   *)
EndRunUnlessFailed(c, shown) == running' = (running /\ ~ shown.some)
EndRun(c, shown) == running' = FALSE

RunEnds(c) ==
  /\ call[c].phase = "settled"
  /\ \E shown \in Built(call[c].view) :
       /\ Step(c, "ended", NoView)
       /\ IF open /\ call[c].on = closes
          THEN generation' = shown /\ EndRun(c, shown)
          ELSE UNCHANGED <<generation, running>>
  /\ UNCHANGED <<memory, service, requests, signal>>

(* The finally of runBustIfPending.  Wrong variant: not once the service   *)
(* was closed.                                                             *)
CloseGateIfOpen(c) == gate' = (gate /\ ~ open)
CloseGate(c) == gate' = FALSE

CallReturns(c) ==
  /\ call[c].phase = "ended"
  /\ CloseGate(c)
  /\ call' = [call EXCEPT ![c] = Idle]
  /\ UNCHANGED <<slot, service, coordinator, signal>>

(***************************************************************************)
(* The service.  The memory service and the calls under way outlive it;    *)
(* the next opening makes a new coordinator, without contributors.         *)
(***************************************************************************)
CloseContext ==
  /\ open /\ closes < MaxCloses
  /\ open' = FALSE /\ closes' = closes + 1 /\ registered' = {}
  /\ requests' = {} /\ running' = FALSE /\ generation' = NoView
  /\ UNCHANGED <<memory, call, signal>>

OpenContext ==
  /\ ~ open
  /\ open' = TRUE
  /\ UNCHANGED <<memory, closes, registered, coordinator, call, signal>>

-------------------------------------------------------------------------------
Plugins ==
  \/ \E s \in Sources : InvalidateSource(s) \/ RegisterContributor(s) \/ DisposeContributor(s)
  \/ \E a \in Adapters : SetAdapter(a)
  \/ DisposeAdapter \/ InvalidateMemory

StartCall(c) == CallWithoutRun(c) \/ CallWithRun(c)

Next ==
  \/ RequestBust \/ Plugins
  \/ \E c \in Calls : StartCall(c) \/ RecallSettles(c) \/ RunEnds(c) \/ CallReturns(c)
  \/ CloseContext \/ OpenContext

(* The host keeps calling runBustIfPending, what is started ends, and an   *)
(* adapter that is asked answers in the end: the code sets no deadline.    *)
Fairness ==
  /\ WF_vars(\E c \in Calls : StartCall(c)) /\ WF_vars(OpenContext)
  /\ \A c \in Calls :
       WF_vars(RecallSettles(c)) /\ WF_vars(RunEnds(c)) /\ WF_vars(CallReturns(c))

Spec == Init /\ [][Next]_vars
FairSpec == Spec /\ Fairness

-------------------------------------------------------------------------------
(***************************************************************************)
(* Properties.                                                             *)
(***************************************************************************)
(* The type invariant.                                                     *)
TypeOK ==
  /\ slot \in Adapters \cup {NoAdapter} /\ {gate, open, running} \subseteq BOOLEAN
  /\ closes \in 0..MaxCloses /\ registered \subseteq Sources
  /\ requests \subseteq Reasons /\ Cardinality(requests) <= MaxPending
  /\ generation \in View
  /\ call \in [Calls -> [phase : Phases, on : 0..MaxCloses, view : View]]
  /\ signal \in [Signalled -> 0..MaxSignals]

(* The recall gate never stays open behind the calls that opened it: while *)
(* it is open some call of runBustIfPending is under way, whatever becomes *)
(* of runs, of overlapping calls and of the service in between.            *)
GateHeldByCycle == gate => \E c \in Calls : call[c].phase # "idle"

(* P4 of the current generation says what the backend of its own run did:  *)
(* a backend that failed shows as the unavailable marker, never as "no     *)
(* memory", whichever adapter was mounted or unmounted during the await.   *)
P4IsHonest ==
  generation.some =>
    /\ generation.p4 = "marker" <=> generation.truth = "failed"
    /\ generation.p4 = "empty" => generation.truth \in {"no backend", "nothing usable"}

(* A current generation that shows a source, or memories, older than their *)
(* last invalidation is about to be replaced: a request is pending.  No    *)
(* signal is lost to a run that froze its sources before it.               *)
StaleGenerationIsRequested ==
  generation.some =>
    \A s \in generation.parts \cup (IF generation.p4 = "memories" THEN {"memory"} ELSE {}) :
      generation.asOf[s] < signal[s] => requests # {}

(* Pending requests are taken up by a run, or given up with the service:   *)
(* no failed run, hung flag or overlapping call blocks the next run.       *)
EveryRequestRun == (requests # {}) ~> (requests = {})

===============================================================================
