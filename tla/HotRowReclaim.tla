---------------------------- MODULE HotRowReclaim ----------------------------
(***************************************************************************)
(* How committed compartments leave historian.db: a release row per        *)
(* compartment collects four conditions (the Context acknowledged it, a    *)
(* BUST represents it, the Memory Service holds its publication, an        *)
(* archive shard with it is sealed); when all are met the hot row goes and *)
(* the release row stays as a trace.                                       *)
(*                                                                         *)
(* The first condition is recorded by HistorianManager.executeJob, the     *)
(* others by a host through the store and the pure layer of                *)
(* hot-row-reclaim.ts: it reads views and later, when the BUST, the Memory *)
(* Service or the shard is done, writes one of them back with one field    *)
(* set.  Views may be stale by then.                                       *)
(*                                                                         *)
(* One lineage.  A compartment is identified by its sequence number, which *)
(* determines compartment_id; what distinguishes two compartments of one   *)
(* number is the number of their publication, which is never reused.       *)
(***************************************************************************)
EXTENDS Naturals, FiniteSets

CONSTANTS
  MaxCommits,   \* bound: compartments committed
  Actors        \* parts of the host that hold a view at a time

ASSUME ReclaimAssumption == MaxCommits \in Nat \ {0} /\ IsFiniteSet(Actors)

VARIABLES
  \* historian.db
  hot,       \* compartments (with their manifests): sequence number, publication
  release,   \* compartment_release_state: a row for each number ever used
  published, \* publications: MAX(publication_sequence)
  receipts,  \* publications with the receipt that markDelivered bound
  shards,    \* archive_shards, each with the publications it was sealed of
  \* memory of the process
  unsettled, \* compartments of committed receipts that executeJob has yet to settle
  held,      \* held[a]: the view actor a works on, or NoView
  batch,     \* the views in the shard just sealed, yet to be verified
  \* history, read by the properties only
  told       \* <<c, p>>: condition c was met by publication p's compartment

vars == <<hot, release, published, receipts, shards, unsettled, held, batch, told>>

Seqs == 1..MaxCommits
Conditions == {"acked", "represented", "durable", "verified"}
Views == [seq : Seqs, pub : Seqs, met : SUBSET Conditions, shard : 0..MaxCommits]
NoView == [seq |-> 0, pub |-> 0, met |-> {}, shard |-> 0]

(* shard is the first number in the shard (deriveShardId), 0 for none.     *)
Row(p, met, shard, reclaimed) ==
  [pub |-> p, met |-> met, shard |-> shard, reclaimed |-> reclaimed]

Init ==
  /\ hot = {} /\ release = [c \in {} |-> Row(0, {}, 0, FALSE)]
  /\ published = 0 /\ receipts = {} /\ shards = {}
  /\ unsettled = {} /\ held = [a \in Actors |-> NoView] /\ batch = {}
  /\ told = {}

(***************************************************************************)
(* The store.                                                              *)
(***************************************************************************)
(* maxCompartmentSequence: over the hot rows.                              *)
NextSequence == 1 + CHOOSE n \in 0..MaxCommits :
  /\ n = 0 \/ \E c \in hot : c.seq = n
  /\ \A c \in hot : c.seq <= n

(* upsertCompartmentRelease: on a conflict the conditions of both rows     *)
(* count, and everything else stays as it was inserted.  Wrong variants:   *)
(* the conditions, or the mark of the reclaim, are those of the new row;   *)
(* a row that does not exist is not inserted.                              *)
UpdatedOnly(rows, c, new) ==
  [n \in DOMAIN rows |-> IF n = c THEN [rows[n] EXCEPT !.met = @ \cup new.met] ELSE rows[n]]
UpsertOverwriting(rows, c, new) ==
  IF c \notin DOMAIN rows THEN [n \in DOMAIN rows \cup {c} |-> IF n = c THEN new ELSE rows[n]]
  ELSE [rows EXCEPT ![c].met = new.met, ![c].shard = IF new.shard = 0 THEN @ ELSE new.shard]
UpsertRevived(rows, c, new) ==
  IF c \notin DOMAIN rows THEN [n \in DOMAIN rows \cup {c} |-> IF n = c THEN new ELSE rows[n]]
  ELSE [rows EXCEPT ![c].met = @ \cup new.met, ![c].reclaimed = new.reclaimed,
                    ![c].shard = IF new.shard = 0 THEN @ ELSE new.shard]
Upserted(rows, c, new) ==
  IF c \notin DOMAIN rows THEN [n \in DOMAIN rows \cup {c} |-> IF n = c THEN new ELSE rows[n]]
  ELSE [rows EXCEPT ![c].met = @ \cup new.met, ![c].reclaimed = @ \/ new.reclaimed,
                    ![c].shard = IF new.shard = 0 THEN @ ELSE new.shard]

(* listCompartmentReleaseViews.                                            *)
ReleaseViews ==
  {[seq |-> c, pub |-> release[c].pub, met |-> release[c].met, shard |-> release[c].shard] :
     c \in {n \in DOMAIN release : ~ release[n].reclaimed}}

Record(view, condition, shard) ==
  /\ release' = Upserted(release, view.seq, Row(view.pub, view.met \cup {condition}, shard, FALSE))
  /\ told' = told \cup {<<condition, view.pub>>}

(***************************************************************************)
(* The Historian.                                                          *)
(***************************************************************************)
CommitBatch ==
  /\ published < MaxCommits
  /\ published' = published + 1
  /\ hot' = hot \cup {[seq |-> NextSequence, pub |-> published']}
  /\ release' = Upserted(release, NextSequence, Row(published', {}, 0, FALSE))
  /\ unsettled' = unsettled \cup {[seq |-> NextSequence, pub |-> published']}
  /\ UNCHANGED <<receipts, shards, held, batch, told>>

(* executeJob after the acknowledgement of the Context: the condition is   *)
(* recorded if the view of the compartment is still listed.                *)
SettleReceipt ==
  /\ \E c \in unsettled :
       /\ unsettled' = unsettled \ {c}
       /\ \/ \E view \in ReleaseViews : view.seq = c.seq /\ Record(view, "acked", view.shard)
          \/ /\ \A view \in ReleaseViews : view.seq # c.seq
             /\ told' = told \cup {<<"acked", c.pub>>}
             /\ UNCHANGED release
  /\ UNCHANGED <<hot, published, receipts, shards, held, batch>>

(* A store call throws, or the process stops: recovery repeats the         *)
(* acknowledgement, but not what it means for the release row.             *)
RecoverReceipt ==
  /\ \E c \in unsettled :
       /\ unsettled' = unsettled \ {c}
       /\ told' = told \cup {<<"acked", c.pub>>}
  /\ UNCHANGED <<hot, release, published, receipts, shards, held, batch>>

MarkDelivered ==
  /\ \E p \in 1..published : p \notin receipts /\ receipts' = receipts \cup {p}
  /\ UNCHANGED <<hot, release, published, shards, unsettled, held, batch, told>>

(***************************************************************************)
(* The host.                                                               *)
(***************************************************************************)
ReadView(a) ==
  /\ held[a] = NoView
  /\ \E view \in ReleaseViews : held' = [held EXCEPT ![a] = view]
  /\ UNCHANGED <<hot, release, published, receipts, shards, unsettled, batch, told>>

(* withBustRepresented or withMemoryDurableAck, and the upsert.            *)
WriteBack(a) ==
  /\ held[a] # NoView
  /\ \E condition \in {"represented", "durable"} : Record(held[a], condition, held[a].shard)
  /\ held' = [held EXCEPT ![a] = NoView]
  /\ UNCHANGED <<hot, published, receipts, shards, unsettled, batch>>

(* deriveShardId.                                                          *)
ShardId(views) == CHOOSE n \in {view.seq : view \in views} : \A view \in views : n <= view.seq

(* Some views that are not verified yet are sealed; the catalog row of the *)
(* same shard id is replaced.                                              *)
SealShard ==
  /\ batch = {}
  /\ \E views \in SUBSET {view \in ReleaseViews : "verified" \notin view.met} :
       /\ views # {}
       /\ \A view \in ReleaseViews :     \* the oldest ones
            "verified" \notin view.met /\ (\E other \in views : view.seq < other.seq)
              => view \in views
       /\ shards' = {s \in shards : s.id # ShardId(views)}
                      \cup {[id |-> ShardId(views), pubs |-> {view.pub : view \in views}]}
       /\ batch' = {[view |-> view, shard |-> ShardId(views)] : view \in views}
  /\ UNCHANGED <<hot, release, published, receipts, unsettled, held, told>>

(* withShardVerified, oldest first.                                        *)
VerifyShard ==
  /\ \E b \in batch :
       /\ \A other \in batch : b.view.seq <= other.view.seq
       /\ Record(b.view, "verified", b.shard)
       /\ batch' = batch \ {b}
  /\ UNCHANGED <<hot, published, receipts, shards, unsettled, held>>

(* isReclaimEligible.                                                      *)
Eligible(view) == view.met = Conditions /\ view.pub \in receipts

(* eligibleForReclaim over a fresh list, then markReclaimed and            *)
(* deleteReclaimedHotRows in one transaction.                              *)
Reclaim ==
  /\ \E view \in ReleaseViews :
       /\ Eligible(view)
       /\ release' = [release EXCEPT ![view.seq].reclaimed = TRUE]
       /\ hot' = {c \in hot : c.seq # view.seq}
  /\ UNCHANGED <<published, receipts, shards, unsettled, held, batch, told>>

(* The process stops; recovery takes the receipts (RecoverReceipt).        *)
Crash ==
  /\ held' = [a \in Actors |-> NoView] /\ batch' = {}
  /\ held # held' \/ batch # batch'
  /\ UNCHANGED <<hot, release, published, receipts, shards, unsettled, told>>

-------------------------------------------------------------------------------
Historian == CommitBatch \/ SettleReceipt \/ RecoverReceipt \/ MarkDelivered
Host == (\E a \in Actors : ReadView(a) \/ WriteBack(a)) \/ SealShard \/ VerifyShard \/ Reclaim

Next == Historian \/ Host \/ Crash

Spec == Init /\ [][Next]_vars

-------------------------------------------------------------------------------
(***************************************************************************)
(* Properties.                                                             *)
(***************************************************************************)
Compartments == [seq : Seqs, pub : Seqs]

(* The type invariant; every hot row has a release row, and numbers and    *)
(* publications are unique among the hot rows.                             *)
TypeOK ==
  /\ hot \subseteq Compartments /\ unsettled \subseteq Compartments
  /\ \A c, d \in hot : c.seq = d.seq \/ c.pub = d.pub => c = d
  /\ DOMAIN release \subseteq Seqs /\ {c.seq : c \in hot} \subseteq DOMAIN release
  /\ \A c \in DOMAIN release :
       release[c] \in [pub : Seqs, met : SUBSET Conditions, shard : 0..MaxCommits,
                       reclaimed : BOOLEAN]
  /\ published \in 0..MaxCommits /\ receipts \subseteq 1..published
  /\ shards \subseteq [id : Seqs, pubs : SUBSET Seqs]
  /\ held \in [Actors -> Views \cup {NoView}]
  /\ batch \subseteq [view : Views, shard : Seqs]
  /\ told \subseteq Conditions \X Seqs

(* A compartment leaves historian.db only when it was itself acknowledged, *)
(* represented, delivered and sealed: conditions that an earlier           *)
(* compartment of its number met, or that a stale view carries over, do    *)
(* not release it.  What left is in a shard of the catalog.                *)
Gone == {p \in 1..published : \A c \in hot : c.pub # p}
ReclaimedIsReleased ==
  \A p \in Gone :
    /\ \A condition \in Conditions : <<condition, p>> \in told
    /\ p \in receipts
    /\ \E s \in shards : p \in s.pubs

(* "ACK 只追加不回退" (upsertCompartmentRelease): what was recorded of a   *)
(* compartment is never taken back, whichever stale views are written back *)
(* in whichever order, and its release row never speaks of another         *)
(* publication.                                                            *)
ConditionsOnlyAdvance ==
  [][\A c \in DOMAIN release :
       /\ c \in DOMAIN release'
       /\ release[c].met \subseteq release'[c].met
       /\ release[c].pub = release'[c].pub
       /\ release[c].reclaimed => release'[c].reclaimed]_vars
===============================================================================
