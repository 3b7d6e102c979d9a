---------------------------- MODULE CanonicalBust ----------------------------
(***************************************************************************)
(* The canonical BUST of one lineage: requests are coalesced, a run drops  *)
(* the current generation, freezes the P3 and P5 sources, awaits the       *)
(* memory recall and then publishes a generation and advances the          *)
(* represented/retired watermark in one context.db transaction.            *)
(*                                                                         *)
(* The Historian is the environment.  Of its promise, HistoryLog, this     *)
(* module uses the actions themselves: a commit is Log!Publish, an         *)
(* all-excluded window is Log!PassOver, a recorded acknowledgement is      *)
(* Log!Confirm.  What Context sees between commit and acknowledgement, and *)
(* everything that can run while a recall is awaited, is spelled out here. *)
(*                                                                         *)
(* P0-P2 (contributors) and P4 (recall) do not touch the watermark; they   *)
(* appear as the ways a run can fail and as the await that splits it.      *)
(***************************************************************************)
EXTENDS Naturals, FiniteSets, Sequences

CONSTANTS
  MaxSeq,       \* bound: highest contextSeq explored
  LegacyHead,   \* highest contextSeq of the migrated history
  SoftCap,      \* from this row count on, admitted units are excluded
  MaxPending,   \* maxPendingRequests of the coordinator
  MaxFaults,    \* bound: crashes, failed acknowledgements, failed runs
  MaxCloses     \* bound: closings of the Context service by the host

ASSUME BustAssumption ==
  /\ {MaxSeq, LegacyHead, SoftCap, MaxFaults, MaxCloses} \subseteq Nat
  /\ MaxPending \in Nat \ {0}
  /\ LegacyHead <= MaxSeq

VARIABLES
  \* context.db
  unit,         \* unit[s]: the kind of the row at contextSeq s
  life,         \* life[s]: its lifecycle_state
  reclaimed,    \* rows whose payload was replaced by the cold marker
  watermark,    \* represented_ = retired_through_context_seq of the lineage
  \* historian.db: the abstract log
  processed, entries, confirmed,
  \* memory of the process
  pump,         \* where HistorianService.pumpOnce is
  open,         \* the Context service is open
  requests,     \* reasons of the coordinator's pendingRequests
  run,          \* frozen sources of the run awaiting its recall, or NoRun
  orphans,      \* runs of coordinators whose service was closed meanwhile
  generation,   \* current generation, or NoRun
  \* bounds
  faults, closes

Log == INSTANCE HistoryLog

log == <<processed, entries, confirmed>>
rows == <<unit, life, reclaimed>>
coordinator == <<requests, run, orphans, generation>>
bounds == <<faults, closes>>
vars == <<rows, watermark, log, pump, open, coordinator, bounds>>

Seqs == 1..MaxSeq
Kinds == {"absent", "legacy", "include", "exclude"}
Lives == {"none", "committed", "pending", "retired"}
Reasons == {"historian_compartment_committed", "operator_requested"}
NoRun == [p3 |-> 0, basis |-> << >>, p5 |-> {}, through |-> 0, seen |-> {}, some |-> FALSE]

Rows == {s \in Seqs : unit[s] # "absent"}
Included == {s \in Seqs : unit[s] = "include"}

(* The span of a compartment: its first to its last included unit.         *)
InWindow(e) == Included \cap (e.from .. e.through)
StartOf(e) == CHOOSE s \in InWindow(e) : \A t \in InWindow(e) : s <= t
EndOf(e) == CHOOSE s \in InWindow(e) : \A t \in InWindow(e) : t <= s
Span(e) == StartOf(e) .. EndOf(e)

Larger(a, b) == IF a >= b THEN a ELSE b

Init ==
  /\ unit \in [Seqs -> Kinds]
  /\ \A s \in Seqs : s > LegacyHead => unit[s] = "absent"
  /\ life = [s \in Seqs |-> IF unit[s] = "absent" THEN "none" ELSE "committed"]
  /\ reclaimed = {}
  /\ watermark = 0
  /\ Log!LogInit
  /\ pump = "idle" /\ open = TRUE
  /\ requests = {} /\ run = NoRun /\ orphans = {} /\ generation = NoRun
  /\ faults = 0 /\ closes = 0

(* executeJob is synchronous: nothing runs between commit and ACK.         *)
Free == pump # "ack"

Fault == faults < MaxFaults /\ faults' = faults + 1

(***************************************************************************)
(* Admission and the Historian.                                            *)
(***************************************************************************)
(* ContextAdmission.admit: position MAX + 1, disposition by the soft cap.  *)
AdmitUnit ==
  /\ Free /\ open
  /\ \E h \in 0 .. MaxSeq - 1 :
       /\ h = 0 \/ h \in Rows
       /\ \A s \in Rows : s <= h
       /\ unit' = [unit EXCEPT ![h + 1] =
                     IF Cardinality(Rows) >= SoftCap THEN "exclude" ELSE "include"]
       /\ life' = [life EXCEPT ![h + 1] = "committed"]
  /\ UNCHANGED <<reclaimed, watermark, log, pump, open, coordinator, bounds>>

(* The worker commits the window up to t, with something to publish or     *)
(* without; a skipped batch has no receipt, so the pump emits nothing.     *)
CommitWindow ==
  /\ pump = "idle"
  /\ \E t \in Seqs :
       /\ unit[t] \in {"include", "exclude"} /\ processed < t
       /\ processed' = t
       /\ \/ /\ InWindow([from |-> processed + 1, through |-> t]) # {}
             /\ Log!Publish
             /\ pump' = "ack"
          \/ /\ InWindow([from |-> processed + 1, through |-> t]) = {}
             /\ Log!PassOver
             /\ UNCHANGED pump
  /\ UNCHANGED <<rows, watermark, open, coordinator, bounds>>

(* acknowledgeHistorianCommit: rows of the window, legacy ones included,   *)
(* that are still committed become pending.  Wrong variant: not those at   *)
(* or below the watermark.                                                 *)
AcknowledgeUnrepresented(e) ==
  life' = [s \in Seqs |-> IF s \in e.from .. e.through /\ life[s] = "committed" /\ s > watermark
                          THEN "pending" ELSE life[s]]

Acknowledge(e) ==
  life' = [s \in Seqs |-> IF s \in e.from .. e.through /\ life[s] = "committed"
                          THEN "pending" ELSE life[s]]

AckCommit ==
  /\ pump = "ack"
  /\ Acknowledge(entries[Len(entries)])
  /\ confirmed' = confirmed \cup {Len(entries)}
  /\ pump' = "event"
  /\ UNCHANGED <<unit, reclaimed, watermark, processed, entries, open, coordinator, bounds>>

(* The acknowledgement or its bookkeeping throws.  The job counts as       *)
(* failed, but the cursor has moved, so the pump still emits its event.    *)
AckFails ==
  /\ pump = "ack"
  /\ Fault
  /\ \/ Acknowledge(entries[Len(entries)])
     \/ UNCHANGED life
  /\ pump' = "event"
  /\ UNCHANGED <<unit, reclaimed, watermark, log, open, coordinator, closes>>

(* recover(): replay the oldest receipt not recorded as acknowledged.      *)
ReplayAck ==
  /\ Free
  /\ \E i \in DOMAIN entries \ confirmed :
       /\ \A k \in DOMAIN entries \ confirmed : i <= k
       /\ Acknowledge(entries[i])
       /\ confirmed' = confirmed \cup {i}
  /\ UNCHANGED <<unit, reclaimed, watermark, processed, entries, pump, open,
                 coordinator, bounds>>

(***************************************************************************)
(* Requests.                                                               *)
(***************************************************************************)
(* requestBust: one pending request per reason; at the bound the evidence  *)
(* is merged into the last one.  Wrong variant: without the bound.         *)
CoalescedPerReason(reason) == requests \cup {reason}

Coalesced(reason) ==
  IF Cardinality(requests) >= MaxPending THEN requests ELSE requests \cup {reason}

(* pumpOnce emits iris/historian-batch-committed; the listener requests a  *)
(* BUST when the Context service is open.                                  *)
EmitCommitted ==
  /\ pump = "event"
  /\ requests' = IF open THEN Coalesced("historian_compartment_committed") ELSE requests
  /\ pump' = "idle"
  /\ UNCHANGED <<rows, watermark, log, open, run, orphans, generation, bounds>>

RequestBust ==
  /\ Free /\ open
  /\ requests' = Coalesced("operator_requested")
  /\ UNCHANGED <<rows, watermark, log, pump, open, run, orphans, generation, bounds>>

(***************************************************************************)
(* A run.                                                                  *)
(***************************************************************************)
(* Prospective represented-through: the recorded watermark or the end of   *)
(* the last committed compartment, acknowledged or not.                    *)
RepresentedHead ==
  IF entries = << >> THEN watermark
  ELSE Larger(watermark, EndOf(entries[Len(entries)]))

(* listLiveContextUnitsForP5WithSeq, after the recorded watermark.         *)
P5Pool == {s \in Included : life[s] \in {"committed", "pending"} /\ s > watermark}

(* The pool is cut at the prospective boundary; the wrong variant takes    *)
(* the pool as it was read.                                                *)
LiveUncut(through) == P5Pool
LiveAfter(through) == {s \in P5Pool : s > through}

(* freezeSources: P3 is every committed compartment with the pool's units  *)
(* in its span as basis; seen records what was admitted (properties only). *)
Frozen ==
  [p3 |-> Len(entries),
   basis |-> [i \in DOMAIN entries |-> P5Pool \cap Span(entries[i])],
   p5 |-> LiveAfter(RepresentedHead),
   through |-> RepresentedHead,
   seen |-> Included,
   some |-> TRUE]

(* runBustIfPending up to the await of the recall.  All pending requests   *)
(* are consumed and the current generation is dropped first.               *)
StartBust ==
  /\ Free /\ open
  /\ ~ run.some /\ requests # {}
  /\ requests' = {}
  /\ generation' = NoRun
  /\ run' = Frozen
  /\ UNCHANGED <<rows, watermark, log, pump, open, orphans, bounds>>

(* A contributor's projection is refused before the recall.                *)
StartBustFails ==
  /\ Free /\ open
  /\ ~ run.some /\ requests # {}
  /\ Fault
  /\ requests' = {}
  /\ generation' = NoRun
  /\ UNCHANGED <<rows, watermark, log, pump, open, run, orphans, closes>>

(* Wrong variants: every acknowledged row is retired, however far the      *)
(* frozen sources reach; every row below the mark is retired, told or not; *)
(* the watermark is assigned instead of maximised.                         *)
RetireAcknowledged(through) ==
  /\ watermark' = Larger(watermark, through)
  /\ life' = [s \in Seqs |-> IF life[s] = "pending" THEN "retired" ELSE life[s]]

RetireCovered(through) ==
  /\ watermark' = Larger(watermark, through)
  /\ life' = [s \in Seqs |-> IF s <= watermark' /\ life[s] # "none"
                             THEN "retired" ELSE life[s]]

RetireAssigning(through) ==
  /\ watermark' = through
  /\ life' = [s \in Seqs |-> IF s <= through /\ life[s] = "pending"
                             THEN "retired" ELSE life[s]]

(* markRepresentedAndRetired.  The coordinator passes one bound for both   *)
(* marks, so represented_in_p3 does not outlive the transaction.           *)
MarkRepresentedAndRetired(through) ==
  /\ watermark' = Larger(watermark, through)
  /\ life' = [s \in Seqs |->
                IF s <= Larger(watermark, through) /\ life[s] = "pending"
                THEN "retired" ELSE life[s]]

(* The rest of the run after the recall, in one turn.                      *)
PublishBust ==
  /\ Free /\ run.some
  /\ generation' = run
  /\ MarkRepresentedAndRetired(run.through)
  /\ run' = NoRun
  /\ UNCHANGED <<unit, reclaimed, log, pump, open, requests, orphans, bounds>>

(* Validation or the transaction fails: no generation, no watermark; the   *)
(* requests the run consumed are gone.                                     *)
FailBust ==
  /\ Free /\ run.some
  /\ Fault
  /\ generation' = NoRun
  /\ run' = NoRun
  /\ UNCHANGED <<rows, watermark, log, pump, open, requests, orphans, closes>>

(* A run whose service was closed while it awaited its recall goes on with *)
(* its own store handle; its generation goes to its own caller and is not  *)
(* the current generation of the service opened since.                     *)
OrphanPublishes ==
  /\ Free
  /\ \E r \in orphans :
       /\ MarkRepresentedAndRetired(r.through)
       /\ orphans' = orphans \ {r}
  /\ UNCHANGED <<unit, reclaimed, log, pump, open, requests, run, generation, bounds>>

(***************************************************************************)
(* Garbage collection, lifetime of the service, crashes.                   *)
(***************************************************************************)
(* reclaimRetiredPayloads: retired rows that are not legacy, oldest first, *)
(* up to the row and byte budget.                                          *)
ReclaimRetired ==
  /\ Free /\ open
  /\ \E t \in Seqs :
       reclaimed' = reclaimed \cup
         {s \in 1..t : life[s] = "retired" /\ unit[s] # "legacy"}
  /\ UNCHANGED <<unit, life, watermark, log, pump, open, coordinator, bounds>>

CloseContext ==
  /\ Free /\ open
  /\ closes < MaxCloses
  /\ closes' = closes + 1
  /\ open' = FALSE
  /\ requests' = {} /\ generation' = NoRun /\ run' = NoRun
  /\ orphans' = IF run.some THEN orphans \cup {run} ELSE orphans
  /\ UNCHANGED <<rows, watermark, log, pump, faults>>

OpenContext ==
  /\ Free /\ ~ open
  /\ open' = TRUE
  /\ UNCHANGED <<rows, watermark, log, pump, coordinator, bounds>>

(* The process stops and starts again: the plugin opens the Context        *)
(* service before it constructs the Historian, which needs its ports.      *)
Crash ==
  /\ Fault
  /\ pump' = "idle" /\ open' = TRUE
  /\ requests' = {} /\ run' = NoRun /\ orphans' = {} /\ generation' = NoRun
  /\ UNCHANGED <<rows, watermark, log, closes>>

-------------------------------------------------------------------------------
Historian == CommitWindow \/ AckCommit \/ AckFails \/ ReplayAck \/ EmitCommitted
Bust == StartBust \/ StartBustFails \/ PublishBust \/ FailBust \/ OrphanPublishes
Service == CloseContext \/ OpenContext \/ Crash

Next == AdmitUnit \/ Historian \/ RequestBust \/ Bust \/ ReclaimRetired \/ Service

Spec == Init /\ [][Next]_vars

(* The host keeps running BUSTs and recovery, a started block ends, and a  *)
(* recall that is awaited is answered; nobody has to request a BUST.       *)
Fairness ==
  /\ WF_vars(AckCommit) /\ WF_vars(EmitCommitted) /\ WF_vars(OpenContext)
  /\ WF_vars(StartBust) /\ WF_vars(PublishBust) /\ WF_vars(ReplayAck)

FairSpec == Spec /\ Fairness

-------------------------------------------------------------------------------
(***************************************************************************)
(* Properties.                                                             *)
(***************************************************************************)
FrozenOK(r) ==
  /\ r.p3 \in 0 .. Len(entries) /\ DOMAIN r.basis = 1 .. r.p3
  /\ \A i \in 1 .. r.p3 : r.basis[i] \subseteq Seqs
  /\ r.p5 \subseteq Seqs /\ r.seen \subseteq Seqs
  /\ r.through \in 0..MaxSeq /\ r.some \in BOOLEAN

(* The type invariant.                                                     *)
TypeOK ==
  /\ unit \in [Seqs -> Kinds] /\ life \in [Seqs -> Lives]
  /\ reclaimed \subseteq Seqs /\ watermark \in 0..MaxSeq
  /\ processed \in 0..MaxSeq
  /\ entries \in Seq([from : Seqs, through : Seqs])
  /\ confirmed \subseteq DOMAIN entries
  /\ pump \in {"idle", "ack", "event"} /\ open \in BOOLEAN
  /\ requests \subseteq Reasons /\ Cardinality(requests) <= MaxPending
  /\ \A r \in {run, generation} \cup orphans : FrozenOK(r)
  /\ faults \in 0..MaxFaults /\ closes \in 0..MaxCloses

(* The current generation is a partition of what was admitted when its     *)
(* sources were frozen: every included unit is either live in P5 or told   *)
(* by exactly one compartment of P3, never both, never neither, whatever   *)
(* was committed, acknowledged or replayed while the recall was awaited.   *)
(* A compartment names as basis only units it tells.  (The host's hot-row  *)
(* reclaim, which is HotRowReclaim's, takes compartments out of P3: a      *)
(* generation frozen after it tells their units no more.)                  *)
ToldBy(g, s) == {i \in 1 .. g.p3 : s \in Span(entries[i])}
GenerationIsPartition ==
  generation.some =>
    \A s \in generation.seen :
      /\ Cardinality(ToldBy(generation, s)) = (IF s \in generation.p5 THEN 0 ELSE 1)
      /\ \A i \in 1 .. generation.p3 :
           s \in generation.basis[i] => i \in ToldBy(generation, s)

(* A unit that the current generation, or a run about to publish, shows    *)
(* live in P5 is neither retired nor reclaimed, also when compartments     *)
(* that cover it are committed and acknowledged during the await, and when *)
(* a run of a closed service publishes late.                               *)
LiveUnitsAreKept ==
  \A g \in {generation, run} : g.some =>
    /\ g.p5 \cap reclaimed = {}
    /\ \A s \in g.p5 : life[s] # "retired"

(* Only what a committed compartment tells is retired: a retired unit lies *)
(* at or below the watermark, in a committed window, and, if included, in  *)
(* the span of a compartment.                                              *)
RetiredIsTold ==
  \A s \in Seqs : life[s] = "retired" =>
    /\ s <= watermark
    /\ \E i \in DOMAIN entries :
         /\ entries[i].from <= s /\ s <= entries[i].through
         /\ s \in Included => s \in Span(entries[i])

(* The watermark is always the one the current generation was built for:   *)
(* a late publication of a closed service's run neither moves it back nor  *)
(* past what the current generation tells.                                 *)
GenerationOwnsWatermark == generation.some => generation.through = watermark

(* Once BUSTs are requested again and again, every included unit of an     *)
(* acknowledged compartment is represented and retired in the end: no      *)
(* request lost to a failed run, a crash, a closed service or a missing    *)
(* event leaves it behind for ever, nor does an acknowledgement that comes *)
(* after its representation.                                               *)
EveryToldUnitRetired ==
  []<>(requests # {}) =>
    \A s \in Seqs : (s \in Included /\ processed >= s) ~> (life[s] = "retired")
===============================================================================
