--------------------------- MODULE HistorianCommit ---------------------------
(***************************************************************************)
(* The incremental commit pipeline of one Context lineage: Context admits  *)
(* units, the Historian freezes a window after its durable cursor, queues  *)
(* it, commits it in one historian.db transaction, acknowledges it in      *)
(* context.db and records the acknowledgement back in historian.db.        *)
(*                                                                         *)
(* The two databases have no common transaction, so a crash or an error    *)
(* can separate any two of the durable writes; proc says between which two *)
(* of them the process is.  HistorianManager.executeJob and recover() do   *)
(* not await: other calls of the process interleave only where proc is     *)
(* "idle" or "settle" (the microtask between the handler's return and the  *)
(* queue's bookkeeping in HistorianWorker.runOnce).                        *)
(***************************************************************************)
EXTENDS Naturals, FiniteSets, Sequences

CONSTANTS
  MaxSeq,       \* bound: highest contextSeq explored
  LegacyHead,   \* highest contextSeq of the history migrated before the first run
  SoftCap,      \* maxUnitsPerSession: from this row count on, units are excluded
  HardCap,      \* hardUnitsCap: at this row count admission fails closed
  MaxUnits,     \* maxUnits of freezeBatch
  MaxAttempts,  \* maxAttempts of the queue
  MaxFaults,    \* bound: crashes and store errors explored
  SettleMayFail \* whether those include an error of the retry accounting

ASSUME CommitAssumption ==
  /\ {MaxSeq, LegacyHead, SoftCap, HardCap, MaxFaults} \subseteq Nat
  /\ {MaxUnits, MaxAttempts} \subseteq Nat \ {0}
  /\ LegacyHead <= MaxSeq
  /\ SettleMayFail \in BOOLEAN

VARIABLES
  \* context.db
  unit,            \* unit[s]: the context_units row at contextSeq s
  compartmentalized, \* rows in state compartmentalized_pending_bust
  \* historian.db
  cursor,          \* processed_through_context_seq of the lineage
  committed,       \* windows of historian_batches in state committed
  skipped,         \* windows of historian_batches in state skipped
  acked,           \* windows whose acked_at is set
  publications,    \* publications/compartments/outbox rows by publication_sequence
  releaseAcked,    \* publication sequences whose release row has context_acked_at
  session,         \* the session_state row: retry accounting
  \* memory of the process
  pending,         \* HistorianQueue.pending
  running,         \* HistorianQueue.running
  proc,            \* where the process is between two durable writes
  ok,              \* result of the handler, read by runOnce after its await
  resume,          \* what recover() returns to
  faults           \* crashes and store errors so far

context == <<unit, compartmentalized>>
batchRows == <<committed, skipped, acked>>
historian == <<cursor, batchRows, publications, releaseAcked>>
queue == <<pending, running>>
process == <<proc, ok, resume, faults>>
vars == <<context, historian, session, queue, process>>

Seqs == 1..MaxSeq

(* A row of context_units.  "legacy" rows (quarantined v1 data) and the    *)
(* holes left by ledger-only events are invisible to freezeBatch; rows     *)
(* with disposition exclude are frozen and then passed over.               *)
Kinds == {"absent", "legacy", "include", "exclude"}

Windows == [from : Seqs, through : Seqs]
Jobs == [from : Seqs, through : Seqs, attempt : 0 .. MaxAttempts - 1]
Publications == [from : Seqs, through : Seqs, start : Seqs, end : Seqs]
Sessions == [row : BOOLEAN, attempts : 0 .. MaxAttempts - 1, exhausted : BOOLEAN]

WindowOf(r) == [from |-> r.from, through |-> r.through]
Rows == {s \in Seqs : unit[s] # "absent"}
Units == {s \in Seqs : unit[s] \in {"include", "exclude"}}

(* The units of a frozen window that enter the analysis.  A window's rows  *)
(* never change once frozen, so they are read from unit here.              *)
Analysis(w) == {s \in w.from .. w.through : unit[s] = "include"}

(***************************************************************************)
(* Initial state: a migrated context.db whose first LegacyHead positions   *)
(* hold any mixture of rows and holes, and an empty historian.db.          *)
(***************************************************************************)
Init ==
  /\ unit \in [Seqs -> Kinds]
  /\ \A s \in Seqs : s > LegacyHead => unit[s] = "absent"
  /\ compartmentalized = {}
  /\ cursor = 0
  /\ committed = {} /\ skipped = {} /\ acked = {}
  /\ publications = << >>
  /\ releaseAcked = {}
  /\ session = [row |-> FALSE, attempts |-> 0, exhausted |-> FALSE]
  /\ pending = {} /\ running = {}
  /\ proc = "recover" /\ ok = TRUE /\ resume = "startup" /\ faults = 0

(***************************************************************************)
(* Context admission.                                                      *)
(***************************************************************************)
(* h is MAX(context_seq) of context_units, 0 when there is no row.         *)
IsHead(h) ==
  /\ h = 0 \/ h \in Rows
  /\ \A s \in Rows : s <= h

(* An event loop turn in which other calls of the process can run.         *)
Free == proc \in {"idle", "settle"}

(* ContextAdmission.admit of a new source: position MAX + 1, disposition   *)
(* by the soft cap, refused at the hard cap.                               *)
AdmitUnit ==
  /\ Free
  /\ Cardinality(Rows) < HardCap
  /\ \E h \in 0 .. MaxSeq - 1 :
       /\ IsHead(h)
       /\ unit' = [unit EXCEPT ![h + 1] =
                     IF Cardinality(Rows) >= SoftCap THEN "exclude" ELSE "include"]
  /\ UNCHANGED <<compartmentalized, historian, session, queue, process>>

(***************************************************************************)
(* Trigger: freeze a window after the cursor and enqueue it.               *)
(***************************************************************************)
(* freezeBatch can end at unit t: at most MaxUnits units, and any earlier  *)
(* cut the token budget makes (a budget below the first unit is excluded). *)
Freezable(t) ==
  /\ t \in Units
  /\ cursor < t
  /\ Cardinality({s \in Units : cursor < s /\ s <= t}) <= MaxUnits

(* A pending job gets the new window and keeps its attempt count; the      *)
(* mutation run extends the old window instead.                            *)
Extended(j, t) == [j EXCEPT !.through = t]
Retargeted(j, t) == [j EXCEPT !.from = cursor + 1, !.through = t]

(* The lineage has a running job.                                          *)
LineageRunning == running # {}

(* HistorianQueue.enqueue for the one lineage of the port.  A running job  *)
(* makes the call a no-op: the window is frozen again by a later trigger.  *)
Enqueue(t) ==
  \/ /\ pending # {}
     /\ pending' = {Retargeted(j, t) : j \in pending}
  \/ /\ pending = {} /\ LineageRunning
     /\ UNCHANGED pending
  \/ /\ pending = {} /\ ~ LineageRunning
     /\ pending' = {[from |-> cursor + 1, through |-> t, attempt |-> 0]}

(* HistorianManager.triggerIncremental.                                    *)
FreezeAndEnqueue == \E t \in Seqs : Freezable(t) /\ Enqueue(t)

TriggerIncremental ==
  /\ Free
  /\ FreezeAndEnqueue
  /\ UNCHANGED <<context, historian, session, running, process>>

(***************************************************************************)
(* The worker: take a job, run it, acknowledge it, settle it.              *)
(***************************************************************************)
Take ==
  /\ proc = "idle"
  /\ \E j \in pending :
       /\ running' = {j}
       /\ pending' = pending \ {j}
  /\ proc' = "run"
  /\ UNCHANGED <<context, historian, session, ok, resume, faults>>

Settle(result) ==
  /\ proc' = "settle"
  /\ ok' = result

(* Wrong variant: any window starting in the processed prefix is accepted. *)
AnchoredLoosely(j) == j.from <= cursor + 1

(* validateRange: the window must start exactly after the durable cursor.  *)
Anchored(j) == j.from = cursor + 1

RunInvalid ==
  /\ proc = "run"
  /\ \E j \in running : ~ Anchored(j)
  /\ Settle(FALSE)
  /\ UNCHANGED <<context, historian, session, queue, resume, faults>>

(* Wrong variants: the cursor stops at the last analysed unit, and the     *)
(* cursor moves with publications only.                                    *)
AdvanceToLastAnalysed(j) ==
  /\ cursor' = IF Analysis(j) = {} THEN j.through
               ELSE CHOOSE last \in Analysis(j) : \A s \in Analysis(j) : s <= last
  /\ session' = [session EXCEPT !.row = TRUE]

AdvanceWhenPublished(j) ==
  /\ cursor' = IF Analysis(j) = {} THEN cursor ELSE j.through
  /\ session' = [session EXCEPT !.row = TRUE]

(* The part common to the skip and the commit transaction: cursor and      *)
(* session row advance with the batch row.  The session upsert keeps the   *)
(* retry columns of an existing row.                                       *)
AdvanceCursor(j) ==
  /\ cursor' = j.through
  /\ session' = [session EXCEPT !.row = TRUE]

(* buildCompartment returns null; the mutation run looks only at the last  *)
(* unit of the window.                                                     *)
EndsExcluded(j) == unit[j.through] = "exclude"
NothingToAnalyse(j) == Analysis(j) = {}

(* No unit to analyse: the batch is marked skipped, nothing is published.  *)
RunSkip ==
  /\ proc = "run"
  /\ \E j \in running :
       /\ Anchored(j)
       /\ NothingToAnalyse(j)
       /\ skipped' = skipped \cup {WindowOf(j)}
       /\ AdvanceCursor(j)
  /\ Settle(TRUE)
  /\ UNCHANGED <<context, committed, acked, publications, releaseAcked, queue,
                 resume, faults>>

(* Wrong variant: the compartment spans the frozen window.                 *)
PublicationOfWindow(j, first, last) ==
  [from |-> j.from, through |-> j.through, start |-> j.from, end |-> j.through]

(* The rows commitBatch writes for window j: the compartment spans the     *)
(* first to the last analysed unit; every sequence number is MAX + 1.      *)
PublicationOf(j, first, last) ==
  [from |-> j.from, through |-> j.through, start |-> first, end |-> last]

CommitBatch(j) ==
  \E first, last \in Analysis(j) :
    /\ \A s \in Analysis(j) : first <= s /\ s <= last
    /\ publications' = Append(publications, PublicationOf(j, first, last))

RunCommit ==
  /\ proc = "run"
  /\ \E j \in running :
       /\ Anchored(j)
       /\ CommitBatch(j)
       /\ committed' = committed \cup {WindowOf(j)}
       /\ AdvanceCursor(j)
  /\ proc' = "ack"
  /\ UNCHANGED <<context, skipped, acked, releaseAcked, queue, ok, resume, faults>>

(* Wrong variant: only the analysed units are marked.                      *)
AcknowledgeAnalysed(w) ==
  compartmentalized' = compartmentalized \cup Analysis(w)

(* acknowledgeHistorianCommit: one UPDATE over the rows of the window.     *)
Acknowledge(w) ==
  compartmentalized' = compartmentalized \cup (Rows \cap (w.from .. w.through))

AckContext ==
  /\ proc = "ack"
  /\ \E j \in running : Acknowledge(j)
  /\ proc' = "mark"
  /\ UNCHANGED <<unit, historian, session, queue, ok, resume, faults>>

MarkBatchAcked ==
  /\ proc = "mark"
  /\ \E j \in running : acked' = acked \cup {WindowOf(j)}
  /\ proc' = "release"
  /\ UNCHANGED <<context, cursor, committed, skipped, publications, releaseAcked,
                 session, queue, ok, resume, faults>>

(* upsertCompartmentRelease of the receipt's compartment.                  *)
MarkReleaseAcked ==
  /\ proc = "release"
  /\ \E j \in running, i \in DOMAIN publications :
       /\ WindowOf(publications[i]) = WindowOf(j)
       /\ releaseAcked' = releaseAcked \cup {i}
  /\ Settle(TRUE)
  /\ UNCHANGED <<context, cursor, batchRows, publications, session, queue,
                 resume, faults>>

(* A store call of executeJob throws: an open transaction rolls back, what *)
(* earlier autocommits wrote stays, the handler reports failure.           *)
JobError ==
  /\ proc \in {"run", "ack", "mark", "release"}
  /\ faults < MaxFaults
  /\ faults' = faults + 1
  /\ Settle(FALSE)
  /\ UNCHANGED <<context, historian, session, queue, resume>>

Finish ==
  /\ proc = "settle" /\ ok
  /\ running' = {}
  /\ proc' = "idle"
  /\ UNCHANGED <<context, historian, session, pending, ok, resume, faults>>

(* Wrong variant: one attempt too many.                                    *)
BudgetSpentLate(j) == j.attempt >= MaxAttempts

(* requeue's nextAttempt >= maxAttempts.                                   *)
BudgetSpent(j) == j.attempt + 1 >= MaxAttempts

(* HistorianQueue.requeue followed by finish(undefined); the attempt is    *)
(* recorded only when the session row exists.  The backoff is a delay.     *)
Requeue ==
  /\ proc = "settle" /\ ~ ok
  /\ \E j \in running :
       /\ ~ BudgetSpent(j)
       /\ pending' = pending \cup {[j EXCEPT !.attempt = j.attempt + 1]}
       /\ session' = IF session.row
                     THEN [session EXCEPT !.attempts = j.attempt + 1]
                     ELSE session
  /\ running' = {}
  /\ proc' = "idle"
  /\ UNCHANGED <<context, historian, ok, resume, faults>>

(* The budget of the job is used up: it is dropped and the session marked. *)
Exhaust ==
  /\ proc = "settle" /\ ~ ok
  /\ \E j \in running : BudgetSpent(j)
  /\ session' = IF session.row
                THEN [session EXCEPT !.exhausted = TRUE]
                ELSE session
  /\ running' = {}
  /\ proc' = "idle"
  /\ UNCHANGED <<context, historian, pending, ok, resume, faults>>

(* The retry accounting throws, in runOnce's try and again in its catch:   *)
(* the error leaves runOnce before finish(), which alone clears running.   *)
SettleError ==
  /\ SettleMayFail
  /\ proc = "settle" /\ ~ ok
  /\ faults < MaxFaults
  /\ faults' = faults + 1
  /\ proc' = "idle"
  /\ UNCHANGED <<context, historian, session, queue, ok, resume>>

(* The operator clears the exhausted mark and the attempt count.           *)
ReactivateExhaustedSession ==
  /\ Free
  /\ session.exhausted
  /\ session' = [session EXCEPT !.exhausted = FALSE, !.attempts = 0]
  /\ UNCHANGED <<context, historian, queue, process>>

(***************************************************************************)
(* Recovery: replay the receipts Context may not have seen, then trigger.  *)
(***************************************************************************)
Crash ==
  /\ proc # "down"
  /\ faults < MaxFaults
  /\ faults' = faults + 1
  /\ pending' = {} /\ running' = {}
  /\ proc' = "down" /\ ok' = TRUE
  /\ UNCHANGED <<context, historian, session, resume>>

Restart ==
  /\ proc = "down"
  /\ proc' = "recover" /\ resume' = "startup"
  /\ UNCHANGED <<context, historian, session, queue, ok, faults>>

(* recover() called by the host on a running service.                      *)
HostRecover ==
  /\ Free
  /\ proc' = "recover" /\ resume' = proc
  /\ UNCHANGED <<context, historian, session, queue, ok, faults>>

(* Wrong variant: only the receipt of the latest batch is replayed.        *)
NeedsAckLatest == {b \in committed \ acked : b.through = cursor}

(* listCommittedBatchesNeedingAck, in order of from_context_seq.           *)
NeedsAck == committed \ acked
NextReplay(b) == b \in NeedsAck /\ \A c \in NeedsAck : b.from <= c.from

RecoverAck ==
  /\ proc = "recover"
  /\ \E b \in NeedsAck : NextReplay(b) /\ Acknowledge(b)
  /\ proc' = "recoverMark"
  /\ UNCHANGED <<unit, historian, session, queue, ok, resume, faults>>

RecoverMark ==
  /\ proc = "recoverMark"
  /\ \E b \in NeedsAck : NextReplay(b) /\ acked' = acked \cup {b}
  /\ proc' = "recover"
  /\ UNCHANGED <<context, cursor, committed, skipped, publications, releaseAcked,
                 session, queue, ok, resume, faults>>

(* All receipts replayed: the trailing triggerIncremental, which does      *)
(* nothing when no unit lies after the cursor.                             *)
RecoverDone ==
  /\ proc = "recover"
  /\ NeedsAck = {}
  /\ \/ FreezeAndEnqueue
     \/ (\A t \in Seqs : ~ Freezable(t)) /\ UNCHANGED pending
  /\ proc' = IF resume = "startup" THEN "idle" ELSE resume
  /\ UNCHANGED <<context, historian, session, running, ok, resume, faults>>

(* A replay throws: the error reaches the caller of recover(); at start-up *)
(* that is the plugin's init, and the service does not come up.            *)
RecoverError ==
  /\ proc \in {"recover", "recoverMark"}
  /\ faults < MaxFaults
  /\ faults' = faults + 1
  /\ proc' = IF resume = "startup" THEN "down" ELSE resume
  /\ UNCHANGED <<context, historian, session, queue, ok, resume>>

-------------------------------------------------------------------------------
RunJob == RunInvalid \/ RunSkip \/ RunCommit \/ AckContext \/ MarkBatchAcked
          \/ MarkReleaseAcked
SettleJob == Finish \/ Requeue \/ Exhaust
Recover == Restart \/ RecoverAck \/ RecoverMark \/ RecoverDone
Faults == JobError \/ SettleError \/ Crash \/ RecoverError
Host == AdmitUnit \/ HostRecover \/ ReactivateExhaustedSession

Next == TriggerIncremental \/ Take \/ RunJob \/ SettleJob \/ Recover \/ Faults \/ Host

Spec == Init /\ [][Next]_vars

(* A started synchronous block runs to its end and a stopped process is    *)
(* restarted (weak fairness); the host keeps triggering and pumping, and   *)
(* its recover() calls cannot keep a pump or a settled job from its turn   *)
(* for ever (strong fairness, because they disable these steps meanwhile). *)
Fairness ==
  /\ WF_vars(RunJob) /\ WF_vars(Recover)
  /\ SF_vars(TriggerIncremental) /\ SF_vars(Take) /\ SF_vars(SettleJob)

FairSpec == Spec /\ Fairness

-------------------------------------------------------------------------------
(***************************************************************************)
(* Properties.                                                             *)
(***************************************************************************)
(* The type invariant: the values the durable columns and the queue hold.  *)
TypeOK ==
  /\ unit \in [Seqs -> Kinds]
  /\ compartmentalized \subseteq Seqs
  /\ cursor \in 0..MaxSeq
  /\ committed \subseteq Windows /\ skipped \subseteq Windows /\ acked \subseteq Windows
  /\ publications \in Seq(Publications)
  /\ releaseAcked \subseteq Nat
  /\ session \in Sessions
  /\ pending \subseteq Jobs /\ running \subseteq Jobs
  /\ proc \in {"idle", "run", "ack", "mark", "release", "settle",
               "recover", "recoverMark", "down"}
  /\ ok \in BOOLEAN
  /\ resume \in {"startup", "idle", "settle"}
  /\ faults \in 0..MaxFaults

(* The batch rows tile the processed prefix: through crashes, stale jobs   *)
(* and retries no position up to the cursor is skipped over, covered by    *)
(* two batches, or covered by a batch that is both committed and skipped.  *)
BatchesTileProcessedPrefix ==
  /\ committed \cap skipped = {}
  /\ \A b \in committed \cup skipped : b.from <= b.through /\ b.through <= cursor
  /\ \A b, c \in committed \cup skipped :
       b # c => b.through < c.from \/ c.through < b.from
  /\ \A s \in 1..cursor : \E b \in committed \cup skipped : b.from <= s /\ s <= b.through

(* Publications and committed batches correspond one to one and in context *)
(* order, and each spans exactly from its first to its last included unit. *)
PublicationsMatchCommitted ==
  /\ \A i \in DOMAIN publications :
       LET p == publications[i]
       IN  /\ WindowOf(p) \in committed
           /\ {p.start, p.end} \subseteq Analysis(p)
           /\ \A s \in Analysis(p) : p.start <= s /\ s <= p.end
  /\ \A b \in committed : \E i \in DOMAIN publications : WindowOf(publications[i]) = b
  /\ \A i, j \in DOMAIN publications :
       i < j => publications[i].through < publications[j].from

(* A batch skipped by the runner holds no included unit.                   *)
SkippedHoldNothing == \A b \in skipped : Analysis(b) = {}

(* Nothing is lost and nothing is told twice: every included unit at or    *)
(* below the cursor lies in the span of exactly one publication, however   *)
(* often its job was retried, replaced, dropped or replayed.               *)
IncludedPublishedOnce ==
  \A s \in 1..cursor :
    unit[s] = "include" =>
      \E i \in DOMAIN publications :
        \A k \in DOMAIN publications :
          (publications[k].start <= s /\ s <= publications[k].end) <=> k = i

(* The acknowledgement never runs ahead of the commit and is never         *)
(* recorded before it was made: an acked batch is committed and all its    *)
(* rows carry the state, no row outside a committed batch carries it, and  *)
(* a release row claims an acknowledgement only for an acked batch.        *)
AckFollowsCommit ==
  /\ acked \subseteq committed
  /\ \A b \in acked : Rows \cap (b.from .. b.through) \subseteq compartmentalized
  /\ \A s \in compartmentalized : \E b \in committed : b.from <= s /\ s <= b.through
  /\ \A i \in releaseAcked :
       i \in DOMAIN publications /\ WindowOf(publications[i]) \in acked

(* Every job, however old, is either anchored at the cursor or repeats a   *)
(* window that is already committed (its acknowledgement failed); only the *)
(* job that has just been skipped, not yet settled, lies behind otherwise. *)
JobsAnchoredOrDone ==
  \A j \in pending \cup running :
    \/ Anchored(j)
    \/ WindowOf(j) \in committed
    \/ WindowOf(j) \in skipped /\ j \in running /\ ok

(* Per-lineage single flight: at most one job, pending or running.         *)
SingleFlight ==
  /\ \A j, k \in pending \cup running : j = k
  /\ pending = {} \/ running = {}

(***************************************************************************)
(* The inductive strengthening the proofs need: where windows end, and     *)
(* what each phase of the worker and of recovery has already established.  *)
(***************************************************************************)
(* Windows of jobs and batches end at a row, so admission at MAX + 1 can   *)
(* never put a row inside one of them.                                     *)
WindowsEndAtRows ==
  /\ \A j \in pending \cup running : j.from <= j.through /\ j.through \in Units
  /\ \A b \in committed \cup skipped : b.through \in Rows

Marked(w) == Rows \cap (w.from .. w.through) \subseteq compartmentalized

PhaseOK ==
  /\ proc \in {"run", "ack", "mark", "release"} =>
       \A j \in running : Anchored(j) \/ WindowOf(j) \in committed
  /\ proc \in {"ack", "mark", "release"} => \A j \in running : WindowOf(j) \in committed
  /\ proc \in {"mark", "release"} => \A j \in running : Marked(j)
  /\ proc = "release" => \A j \in running : WindowOf(j) \in acked
  /\ proc = "recoverMark" => \A b \in NeedsAck : NextReplay(b) => Marked(b)

IInv ==
  /\ TypeOK
  /\ WindowsEndAtRows
  /\ PhaseOK
  /\ BatchesTileProcessedPrefix
  /\ PublicationsMatchCommitted
  /\ SkippedHoldNothing
  /\ AckFollowsCommit
  /\ JobsAnchoredOrDone
  /\ SingleFlight

(* The pipeline implements the append-only log of HistoryLog.              *)
Entries == [i \in 1 .. Len(publications) |-> WindowOf(publications[i])]
Confirmed == {i \in 1 .. Len(publications) : WindowOf(publications[i]) \in acked}

Log == INSTANCE HistoryLog
         WITH processed <- cursor, entries <- Entries, confirmed <- Confirmed

ImplementsHistoryLog == Log!LogSpec

(* No lineage stalls: every unit Context admitted is processed in the end, *)
(* whatever crashes, store errors, stale jobs and excluded windows come in *)
(* between; an error of the retry accounting itself excepted, which leaves *)
(* the lineage marked running although nothing runs (see                   *)
(* BlockedTriggerTakesEffect).                                             *)
Blocked == proc = "idle" /\ running # {}
EveryUnitProcessed == \A s \in Seqs : (s \in Units) ~> (cursor >= s \/ Blocked)

(* A committed batch whose acknowledgement was lost to a crash or an error *)
(* is acknowledged in the end provided recovery is run again and again.    *)
EveryCommitAcked ==
  []<>(proc = "recover") =>
    \A s \in Seqs :
      (\E b \in committed : b.through = s) ~> (\E b \in acked : b.through = s)

(* The queue's comment on a trigger that meets a running job: the newer    *)
(* batch shows in the next trigger, so a unit that arrives while a job is  *)
(* marked running is processed in the end.                                 *)
BlockedTriggerTakesEffect ==
  \A s \in Seqs : (s \in Units /\ LineageRunning) ~> (cursor >= s)
===============================================================================
