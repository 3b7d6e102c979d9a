---------------------------- MODULE BindingLedger ----------------------------
(***************************************************************************)
(* The session ledger of context.db: which runtime session is, or was, the *)
(* current one of which lineage.  A rollover supersedes the current        *)
(* binding; superseded bindings stay resolvable for recovery until they    *)
(* are acknowledged as reconciled, then they may be pruned.  A pruned      *)
(* binding moves through a staging table of context.db into an archive     *)
(* file of its own.                                                        *)
(*                                                                         *)
(* Every call is synchronous, so calls do not interleave; what can come    *)
(* between the transactions of one call is an exception or a crash, and    *)
(* phase says between which two of them the call is.  A crash may be a     *)
(* power loss: the archive is written with synchronous = NORMAL, and may   *)
(* lose the last of what was committed to it after its last checkpoint.    *)
(*                                                                         *)
(* Timestamps are abstracted to the number of the tenure they coincide     *)
(* with (history); rows superseded in the same millisecond are not         *)
(* modelled, nor are checksums, which detect tampering from outside.       *)
(***************************************************************************)
EXTENDS Naturals, FiniteSets, Sequences

CONSTANTS
  Sessions, Lineages,
  NoSession,      \* current[l] when there is no lineage row
  SoftLimit,      \* historical bindings from which a rollover prunes
  HardLimit,      \* historical bindings at which a rollover fails closed
  RetainRecent,   \* latest superseded bindings that are never pruned
  StagingCap,     \* staged rows beyond which a rollover fails closed
  BatchLimit,     \* rows staged by one drain
  MaxTenures,     \* bound: bindings explored
  MaxFaults,      \* bound: exceptions, busy checkpoints and crashes explored
  HostRebinds,    \* the host may bind a session that was superseded before
  CreateMayFail,  \* faults include one between the two writes of createLineage
  HostReclaims    \* the host calls reclaimReconciledBindings itself

ASSUME LedgerAssumption ==
  /\ NoSession \notin Sessions
  /\ {SoftLimit, RetainRecent, StagingCap, MaxTenures, MaxFaults} \subseteq Nat
  /\ {HardLimit, BatchLimit} \subseteq Nat \ {0}
  /\ SoftLimit <= HardLimit
  /\ {HostRebinds, CreateMayFail, HostReclaims} \subseteq BOOLEAN

VARIABLES
  \* context.db
  current,     \* context_lineages.current_runtime_session_id
  ledger,      \* session_lineage_bindings
  audit,       \* session_lineage_bindings_audit: the staging table
  \* context-archive.db
  archive,     \* as readers see it: rows and manifest
  checkpointed, \* what of it a power loss cannot take
  wal,         \* the archive after each change since that checkpoint
  \* the call in progress
  phase,
  copied,      \* batches copied by the drain in progress
  faults,
  \* history, read by the properties and the host's choice of sessions only
  history,     \* history[t]: the session and lineage of the t-th tenure
  proved,      \* tenures acknowledged as reconciled since they began
  pruned       \* tenures whose binding was pruned

contextDb == <<current, ledger, audit>>
archiveDb == <<archive, checkpointed, wal>>
ghosts == <<history, proved, pruned>>
vars == <<contextDb, archiveDb, phase, copied, faults, ghosts>>

Tenures == 1..MaxTenures
Bindings == [session : Sessions, lineage : Lineages, role : {"current", "historical"},
             tenure : Tenures, superseded : 0..MaxTenures, reconciled : BOOLEAN]
Audits == [session : Sessions, lineage : Lineages, tenure : Tenures, batch : Nat]
Archives == [rows : SUBSET Audits, manifest : SUBSET [batch : Nat, count : Nat]]
Empty == [rows |-> {}, manifest |-> {}]

Historical == {r \in ledger : r.role = "historical"}

Init ==
  /\ current = [l \in Lineages |-> NoSession]
  /\ ledger = {} /\ audit = {}
  /\ archive = Empty /\ checkpointed = Empty /\ wal = << >>
  /\ phase = "idle" /\ copied = {} /\ faults = 0
  /\ history = << >> /\ proved = {} /\ pruned = {}

Fault == faults < MaxFaults /\ faults' = faults + 1

(* The sessions a host may bind: a new runtime session, or the current one *)
(* once more (a resumed process); with HostRebinds any.                    *)
HostMayBind(l, s) ==
  \/ HostRebinds
  \/ current[l] = s
  \/ \A t \in DOMAIN history : history[t].session # s

-------------------------------------------------------------------------------
(***************************************************************************)
(* createLineage: two autocommitted inserts.                               *)
(***************************************************************************)
Begin(l, s) == history' = Append(history, [session |-> s, lineage |-> l])

(* A fresh current row.  Wrong variant: its tenure is the one before.      *)
BindingBefore(l, s, t) ==
  [session |-> s, lineage |-> l, role |-> "current", tenure |-> t - 1, superseded |-> 0,
   reconciled |-> FALSE]
NewBinding(l, s, t) ==
  [session |-> s, lineage |-> l, role |-> "current", tenure |-> t, superseded |-> 0,
   reconciled |-> FALSE]

CreateLineage ==
  /\ phase = "idle"
  /\ Len(history) < MaxTenures
  /\ \E l \in Lineages, s \in Sessions :
       /\ current[l] = NoSession
       /\ \A other \in Lineages : current[other] # s
       /\ HostMayBind(l, s)
       /\ current' = [current EXCEPT ![l] = s]
       /\ Begin(l, s)
  /\ phase' = "record"
  /\ UNCHANGED <<ledger, audit, archiveDb, copied, faults, proved, pruned>>

RecordBinding ==
  /\ phase = "record"
  /\ LET t == Len(history)
         b == history[t]
     IN  ledger' = IF \E r \in ledger : r.session = b.session /\ r.lineage = b.lineage
                   THEN ledger
                   ELSE ledger \cup {NewBinding(b.lineage, b.session, t)}
  /\ phase' = "idle"
  /\ UNCHANGED <<current, audit, archiveDb, copied, faults, ghosts>>

(***************************************************************************)
(* acknowledgeSessionReconciled: the reconciler has consumed what was      *)
(* pending of the session; it may say so while the session is current.     *)
(***************************************************************************)
AcknowledgeSessionReconciled ==
  /\ phase = "idle"
  /\ \E s \in Sessions :
       /\ ledger' = {IF r.session = s THEN [r EXCEPT !.reconciled = TRUE] ELSE r : r \in ledger}
       /\ proved' = proved \cup {r.tenure : r \in {q \in ledger : q.session = s}}
  /\ UNCHANGED <<current, audit, archiveDb, phase, copied, faults, history, pruned>>

(***************************************************************************)
(* reclaimReconciledBindings.                                              *)
(***************************************************************************)
(* The RetainRecent historical bindings superseded last.                   *)
Recent == {r \in Historical : Cardinality({q \in Historical : q.superseded > r.superseded})
                                < RetainRecent}

(* The query excludes the sessions of the recent bindings, on any lineage. *)
(* Wrong variant: without the reconciliation mark.                         *)
PrunableUnproved == {r \in Historical : \A q \in Recent : q.session # r.session}
Prunable == {r \in Historical : r.reconciled /\ \A q \in Recent : q.session # r.session}

Staged(rows) == {[session |-> r.session, lineage |-> r.lineage, tenure |-> r.tenure,
                  batch |-> 0] : r \in rows}

Reclaim ==
  /\ phase = "idle" /\ HostReclaims
  /\ ledger' = ledger \ Prunable
  /\ audit' = audit \cup Staged(Prunable)
  /\ pruned' = pruned \cup {r.tenure : r \in Prunable}
  /\ UNCHANGED <<current, archiveDb, phase, copied, faults, history, proved>>

(***************************************************************************)
(* bindCurrentSession: one transaction, then a drain if anything is staged.*)
(***************************************************************************)
(* What the gate prunes: nothing below the soft limit.                     *)
Pruning == IF Cardinality(Historical) < SoftLimit THEN {} ELSE Prunable

(* The gate: from the soft limit on, neither the historical bindings nor   *)
(* the staging table may be over their limits after pruning.               *)
Gate ==
  \/ Cardinality(Historical) < SoftLimit
  \/ /\ Cardinality(Historical \ Prunable) < HardLimit
     /\ Cardinality(audit) + Cardinality(Prunable) <= StagingCap

(* The current binding of l, if it is of another session, is superseded by *)
(* tenure t.                                                               *)
Supersede(rows, l, s, t) ==
  {IF r.lineage = l /\ r.role = "current" /\ r.session # s
   THEN [r EXCEPT !.role = "historical", !.superseded = t] ELSE r : r \in rows}

(* The upsert: an existing row of the pair becomes current again and keeps *)
(* its reconciliation mark; its tenure is new if it was historical.        *)
Upsert(rows, l, s, t) ==
  IF \E r \in rows : r.lineage = l /\ r.session = s
  THEN {IF r.lineage = l /\ r.session = s
        THEN [r EXCEPT !.role = "current", !.superseded = 0, !.tenure = t] ELSE r : r \in rows}
  ELSE rows \cup {NewBinding(l, s, t)}

(* The session is not the current one of another lineage.  Wrong variant:  *)
(* the ledger is not asked.                                                *)
NotAsked(rows, l, s) == TRUE
NotCurrentElsewhere(rows, l, s) ==
  \A r \in rows : r.session = s /\ r.role = "current" => r.lineage = l

BindCurrentSession ==
  /\ phase = "idle"
  /\ \E l \in Lineages, s \in Sessions :
       /\ current[l] # NoSession
       /\ HostMayBind(l, s)
       /\ Gate
       /\ NotCurrentElsewhere(ledger \ Pruning, l, s)
       /\ LET kept == ledger \ Pruning
              mine == {r \in kept : r.lineage = l /\ r.session = s /\ r.role = "current"}
          IN  IF mine # {}
              THEN /\ ledger' = kept
                   /\ UNCHANGED history
              ELSE /\ Len(history) < MaxTenures
                   /\ Begin(l, s)
                   /\ ledger' = Upsert(Supersede(kept, l, s, Len(history')), l, s, Len(history'))
       /\ current' = [current EXCEPT ![l] = s]
  /\ audit' = audit \cup Staged(Pruning)
  /\ pruned' = pruned \cup {r.tenure : r \in Pruning}
  /\ phase' = IF audit' # {} THEN "mark" ELSE "idle"
  /\ UNCHANGED <<archiveDb, copied, faults, proved>>

(***************************************************************************)
(* archiveBindingAudit, after a rollover or called by the host.            *)
(***************************************************************************)
ArchiveBindingAudit ==
  /\ phase = "idle"
  /\ phase' = "mark"
  /\ UNCHANGED <<contextDb, archiveDb, copied, faults, ghosts>>

Unmarked == {a \in audit : a.batch = 0}
Marked == audit \ Unmarked

(* MAX(batch_id) of the manifest, plus one.                                *)
LastBatch == CHOOSE b \in {0} \cup {m.batch : m \in archive.manifest} :
  \A m \in archive.manifest : m.batch <= b
NextBatch == LastBatch + 1

(* Phase A, context.db: up to BatchLimit unmarked rows get the batch id.   *)
MarkBatch ==
  /\ phase = "mark"
  /\ \E chosen \in SUBSET Unmarked :
       /\ Cardinality(chosen) <= BatchLimit
       /\ chosen = Unmarked \/ Cardinality(chosen) = BatchLimit
       /\ audit' = (audit \ chosen) \cup {[a EXCEPT !.batch = NextBatch] : a \in chosen}
  /\ phase' = "copy"
  /\ UNCHANGED <<current, ledger, archiveDb, copied, faults, ghosts>>

(* Wrong variant: batches the archive already has are left out.            *)
UnarchivedBatches == {a.batch : a \in Marked} \ {m.batch : m \in archive.manifest}

(* Phase B, archive: every staged batch is copied, a row whose key is in   *)
(* the archive already is ignored, and the manifest row is replaced.       *)
StagedBatches == {a.batch : a \in Marked}

SameKey(a, b) == a.batch = b.batch /\ a.session = b.session /\ a.lineage = b.lineage
Insertable ==
  {a \in Marked : /\ a.batch \in StagedBatches
                  /\ \A r \in archive.rows : ~ SameKey(a, r)
                  /\ \A b \in Marked : SameKey(a, b) => a.tenure <= b.tenure}

CopyBatches ==
  /\ phase = "copy"
  /\ copied' = StagedBatches
  /\ archive' =
       [rows |-> archive.rows \cup Insertable,
        manifest |-> {m \in archive.manifest : m.batch \notin StagedBatches}
                     \cup {[batch |-> b, count |-> Cardinality({a \in Marked : a.batch = b})]
                           : b \in StagedBatches}]
  /\ wal' = IF archive' = archive THEN wal ELSE Append(wal, archive')
  /\ phase' = IF StagedBatches = {} THEN "idle" ELSE "checkpoint"
  /\ UNCHANGED <<contextDb, checkpointed, faults, ghosts>>

(* The durability barrier.  Wrong variant: the call only passes it.        *)
SkipBarrier == UNCHANGED <<checkpointed, wal>>
Barrier == checkpointed' = archive /\ wal' = << >>

Checkpoint ==
  /\ phase = "checkpoint"
  /\ Barrier
  /\ phase' = "delete"
  /\ UNCHANGED <<contextDb, archive, copied, faults, ghosts>>

(* Phase C, context.db: the batches copied by this call are deleted.       *)
DeleteBatches ==
  /\ phase = "delete"
  /\ audit' = {a \in audit : a.batch \notin copied}
  /\ phase' = "idle"
  /\ UNCHANGED <<current, ledger, archiveDb, copied, faults, ghosts>>

(* A step of the call in progress throws, or the checkpoint is busy: the   *)
(* call ends there, what it committed stays.                               *)
CallFails ==
  /\ phase # "idle"
  /\ phase = "record" => CreateMayFail
  /\ Fault
  /\ phase' = "idle"
  /\ UNCHANGED <<contextDb, archiveDb, copied, ghosts>>

(* The process or the machine stops: of the commits since its checkpoint   *)
(* the archive keeps the first n, all of them if the machine runs on.      *)
Crash ==
  /\ phase = "record" => CreateMayFail
  /\ Fault
  /\ phase' = "idle"
  /\ \E n \in 0..Len(wal) :
       /\ wal' = SubSeq(wal, 1, n)
       /\ archive' = IF n = 0 THEN checkpointed ELSE wal[n]
  /\ UNCHANGED <<contextDb, checkpointed, copied, ghosts>>

-------------------------------------------------------------------------------
Drain == MarkBatch \/ CopyBatches \/ Checkpoint \/ DeleteBatches
Host == CreateLineage \/ AcknowledgeSessionReconciled \/ Reclaim
        \/ BindCurrentSession \/ ArchiveBindingAudit

Next == Host \/ RecordBinding \/ Drain \/ CallFails \/ Crash

Spec == Init /\ [][Next]_vars

(* A call that started runs to its end.                                    *)
FairSpec == Spec /\ WF_vars(RecordBinding) /\ WF_vars(Drain)

-------------------------------------------------------------------------------
(***************************************************************************)
(* Properties.                                                             *)
(***************************************************************************)
(* The type invariant.                                                     *)
TypeOK ==
  /\ current \in [Lineages -> Sessions \cup {NoSession}]
  /\ ledger \subseteq Bindings /\ audit \subseteq Audits
  /\ archive \in Archives /\ checkpointed \in Archives /\ wal \in Seq(Archives)
  /\ phase \in {"idle", "record", "mark", "copy", "checkpoint", "delete"}
  /\ copied \subseteq Nat /\ faults \in 0..MaxFaults
  /\ history \in Seq([session : Sessions, lineage : Lineages]) /\ Len(history) <= MaxTenures
  /\ proved \subseteq Tenures /\ pruned \subseteq Tenures

(* The lineage rows and the ledger tell the same story after every         *)
(* completed call: each lineage has exactly one current binding, of the    *)
(* session in its row and of its latest tenure; no session is current on   *)
(* two lineages; and however rollovers of several lineages interleave with *)
(* pruning, there are never more historical bindings than the hard limit.  *)
CurrentRowMatches(l) ==
  LET rows == {r \in ledger : r.lineage = l /\ r.role = "current"}
  IN  IF current[l] = NoSession THEN rows = {}
      ELSE \E r \in rows :
             /\ rows = {r} /\ r.session = current[l]
             /\ \A t \in DOMAIN history : history[t].lineage = l => t <= r.tenure
OneLineagePerSession ==
  \A l, k \in Lineages : current[l] = current[k] /\ l # k => current[l] = NoSession
LedgerAgrees ==
  /\ phase # "record" => \A l \in Lineages : CurrentRowMatches(l)
  /\ OneLineagePerSession
  /\ Cardinality(Historical) <= HardLimit

(* resolveLineageForRecovery answers for a session with exactly one row.   *)
ResolvesForRecovery(b) ==
  \E r \in ledger :
    /\ r.session = b.session /\ r.lineage = b.lineage
    /\ \A q \in ledger : q.session = b.session => q = r

(* The session of tenure t has had no other tenure.  Sessions that return  *)
(* are where the ledger fails (see the last property of this module).      *)
Once(t) == \A u \in DOMAIN history : history[u].session = history[t].session => u = t

Successors == {p \in (DOMAIN history) \X (DOMAIN history) :
                 /\ p[1] < p[2] /\ history[p[1]].lineage = history[p[2]].lineage
                 /\ \A v \in p[1] + 1 .. p[2] - 1 : history[v].lineage # history[p[1]].lineage}

(* A session whose pending receipts nobody has yet shown to be consumed    *)
(* resolves to its lineage, through every rollover and pruning; and so,    *)
(* reconciled or not, does a session among the RetainRecent superseded     *)
(* last, with several lineages rolling over in any order.                  *)
UnreconciledResolves(t) ==
  t \notin proved =>
    ResolvesForRecovery(history[t]) \/ (phase = "record" /\ t = Len(history))
RecentResolves(p) ==
  Cardinality({q \in Successors : q[2] > p[2]}) < RetainRecent
    => ResolvesForRecovery(history[p[1]])
RecoveryResolves ==
  /\ \A t \in DOMAIN history : Once(t) => UnreconciledResolves(t)
  /\ \A p \in Successors : Once(p[1]) => RecentResolves(p)

(* Pruning never loses provenance: the pruned tenure of a session that has *)
(* had no other is in the staging table or in the part of the archive that *)
(* survives a power loss, through failures and crashes between any two     *)
(* transactions of the hand-over.                                          *)
(* And the archive is consistent at every point at which it can be read or *)
(* recovered: every batch with rows has one manifest row, which counts     *)
(* them unless a session of the batch has returned, and no tenure is       *)
(* archived under two batches.                                             *)
Recorded(t) == \E a \in audit \cup checkpointed.rows : a.tenure = t
Consistent(a) ==
  /\ \A m \in a.manifest :
       (\A r \in a.rows : r.batch = m.batch => Once(r.tenure))
         => m.count = Cardinality({r \in a.rows : r.batch = m.batch})
  /\ \A m, n \in a.manifest : m.batch = n.batch => m = n
  /\ \A r \in a.rows : \E m \in a.manifest : m.batch = r.batch
  /\ \A r, q \in a.rows : r.tenure = q.tenure => r = q
ProvenanceKept ==
  /\ \A t \in pruned : Once(t) => Recorded(t)
  /\ Consistent(archive) /\ Consistent(checkpointed)

(* Once drains start again and again, a tenure that is pruned while its    *)
(* session has had no other reaches the archive for good and leaves the    *)
(* staging table, through failed drains and power losses, and also if the  *)
(* session returns before it has.  (Of a session with several, a row may   *)
(* be lost: see the last property.)                                        *)
EveryPrunedArchived ==
  []<>(phase = "mark") =>
    \A t \in Tenures :
      (t \in pruned /\ Once(t)) ~> (/\ \E r \in checkpointed.rows : r.tenure = t
                                    /\ \A a \in audit : a.tenure # t)

(* The comment on the archive: a crash at any point is safe, every audit   *)
(* row is in the staging table or in the archive, whoever binds again.     *)
EveryTenureRecorded == \A t \in pruned : Recorded(t)
===============================================================================
