------------------------ MODULE HotRowReclaim_proofs ------------------------
(***************************************************************************)
(* Proofs about HotRowReclaim, for every value of its constants.           *)
(***************************************************************************)
EXTENDS HotRowReclaim, WellFoundedInduction, TLAPS

(***************************************************************************)
(* The inductive invariant.                                                *)
(*                                                                         *)
(* A row that is not reclaimed belongs to the hot compartment of its       *)
(* number, so whatever is written to it is about that compartment.  A hot  *)
(* compartment whose number was used before meets the reclaimed row of its *)
(* predecessor, which never lets it go.                                    *)
(***************************************************************************)
ReleaseRows == [pub : Seqs, met : SUBSET Conditions, shard : 0..MaxCommits, reclaimed : BOOLEAN]

NumbersBounded ==
  /\ \A c \in hot : c.seq <= published /\ c.pub <= published
  /\ \A n \in DOMAIN release : release[n].pub <= published

RowsAreOwned ==
  /\ \A n \in DOMAIN release :
       ~ release[n].reclaimed => \E c \in hot : c.seq = n /\ c.pub = release[n].pub
  /\ \A p \in 1..published :
       \/ \E c \in hot : c.pub = p
       \/ \E n \in DOMAIN release :
            /\ release[n].reclaimed /\ release[n].pub = p
            /\ release[n].met = Conditions /\ p \in receipts

MetIsTold ==
  \A n \in DOMAIN release : \A k \in release[n].met : <<k, release[n].pub>> \in told

(* A view is never ahead of its row, and of the same publication.          *)
Behind(view, rows) ==
  /\ view.seq \in DOMAIN rows
  /\ view.pub = rows[view.seq].pub
  /\ view.met \subseteq rows[view.seq].met
  /\ view.shard \in {0, rows[view.seq].shard}

ViewsAreBehind ==
  /\ \A a \in Actors : held[a] # NoView => Behind(held[a], release)
  /\ \A b \in batch : Behind(b.view, release)

(* A verified row names its shard, which is there and holds it; the row    *)
(* the shard has its id from is verified too, so the id is not used again. *)
Sealed(id, p, catalog) == \E s \in catalog : s.id = id /\ p \in s.pubs
Verified(n, rows) == n \in DOMAIN rows /\ "verified" \in rows[n].met

VerifiedIsSealed ==
  \A n \in DOMAIN release :
    IF "verified" \in release[n].met
    THEN Sealed(release[n].shard, release[n].pub, shards) /\ Verified(release[n].shard, release)
    ELSE release[n].shard = 0

BatchIsSealed ==
  /\ \A b \in batch :
       /\ Sealed(b.shard, b.view.pub, shards) /\ ~ Verified(b.view.seq, release)
       /\ b.shard <= b.view.seq
       /\ Verified(b.shard, release) \/ \E o \in batch : o.view.seq = b.shard
  /\ \A b, o \in batch : b.view.seq = o.view.seq => b = o

IInv == /\ TypeOK /\ NumbersBounded /\ RowsAreOwned /\ MetIsTold
        /\ ViewsAreBehind /\ VerifiedIsSealed /\ BatchIsSealed

(***************************************************************************)
(* The pieces.                                                             *)
(***************************************************************************)
LEMMA ConstantFacts == MaxCommits \in Nat /\ MaxCommits >= 1
BY ReclaimAssumption DEF ReclaimAssumption

LEMMA TypeParts ==
  ASSUME TypeOK
  PROVE  /\ DOMAIN release \subseteq Seqs
         /\ \A n \in DOMAIN release : release[n] \in ReleaseRows
         /\ published \in Nat /\ published <= MaxCommits
         /\ \A c \in hot : c.seq \in Seqs /\ c.pub \in Seqs /\ c.seq \in DOMAIN release
BY ConstantFacts DEF TypeOK, ReleaseRows, Compartments, Seqs

LEMMA RowParts ==
  ASSUME NEW row \in ReleaseRows
  PROVE  /\ row.pub \in Seqs /\ row.met \subseteq Conditions
         /\ row.shard \in 0..MaxCommits /\ row.reclaimed \in BOOLEAN
BY Zenon DEF ReleaseRows

LEMMA NewRow ==
  ASSUME NEW p \in Seqs, NEW met \in SUBSET Conditions, NEW shard \in 0..MaxCommits
  PROVE  /\ Row(p, met, shard, FALSE) \in ReleaseRows
         /\ Row(p, met, shard, FALSE).pub = p /\ Row(p, met, shard, FALSE).met = met
         /\ Row(p, met, shard, FALSE).shard = shard
         /\ ~ Row(p, met, shard, FALSE).reclaimed
BY Zenon DEF Row, ReleaseRows

(* upsertCompartmentRelease inserts a row or joins it to the one there.    *)
LEMMA UpsertFacts ==
  ASSUME TypeOK, NEW c \in Seqs, NEW new \in ReleaseRows
  PROVE  /\ DOMAIN Upserted(release, c, new) = DOMAIN release \cup {c}
         /\ \A n \in DOMAIN release : n # c => Upserted(release, c, new)[n] = release[n]
         /\ Upserted(release, c, new)[c] \in ReleaseRows
         /\ c \notin DOMAIN release => Upserted(release, c, new)[c] = new
         /\ c \in DOMAIN release =>
              /\ Upserted(release, c, new)[c].pub = release[c].pub
              /\ Upserted(release, c, new)[c].met = release[c].met \cup new.met
              /\ Upserted(release, c, new)[c].reclaimed = (release[c].reclaimed \/ new.reclaimed)
              /\ Upserted(release, c, new)[c].shard =
                   IF new.shard = 0 THEN release[c].shard ELSE new.shard
<1>1. CASE c \notin DOMAIN release
  BY <1>1 DEF Upserted
<1>2. CASE c \in DOMAIN release
  <2> DEFINE old == release[c]
             shard == IF new.shard = 0 THEN old.shard ELSE new.shard
             met == old.met \cup new.met
             gone == (old.reclaimed \/ new.reclaimed)
             row == [old EXCEPT !.met = met, !.reclaimed = gone, !.shard = shard]
  <2>1. old \in ReleaseRows
    BY <1>2, TypeParts
  <2>2. met \in SUBSET Conditions /\ shard \in 0..MaxCommits
    BY <2>1, RowParts
  <2>3. gone \in BOOLEAN
    OBVIOUS
  <2>4. Upserted(release, c, new) = [release EXCEPT ![c] = row]
    BY <1>2, Zenon DEF Upserted
  <2>5. /\ DOMAIN Upserted(release, c, new) = DOMAIN release
        /\ \A n \in DOMAIN release : n # c => Upserted(release, c, new)[n] = release[n]
        /\ Upserted(release, c, new)[c] = row
    <3> HIDE DEF row
    <3> QED BY <1>2, <2>4
  <2>6. row \in ReleaseRows /\ row.pub = old.pub /\ row.met = met /\ row.reclaimed = gone /\ row.shard = shard
    <3> HIDE DEF met, shard, gone, old
    <3> QED BY <2>1, <2>2, <2>3, Zenon DEF ReleaseRows
  <2> QED BY <1>2, <2>5, <2>6, Zenon
<1> QED BY <1>1, <1>2

(* Natural numbers are well ordered.                                       *)
LEMMA Least ==
  ASSUME NEW S \in SUBSET Nat, S # {}
  PROVE  \E n \in S : \A k \in S : n <= k
<1> DEFINE R == {ss \in Nat \X Nat : ss[1] < ss[2]}
<1>1. IsWellFoundedOn(R, Nat)
  BY NatLessThanWellFounded DEF OpToRel
<1>2. \A k, n \in Nat : k < n => <<k, n>> \in R
  OBVIOUS
<1> HIDE DEF R
<1>3. PICK n \in S : \A k \in S : ~ (<<k, n>> \in R)
  BY <1>1, WFMin
<1>4. \A k \in S : n <= k
  <2> SUFFICES ASSUME NEW k \in S PROVE n <= k
    OBVIOUS
  <2>1. k \in Nat /\ n \in Nat
    OBVIOUS
  <2>2. ~ (k < n)
    BY <1>2, <1>3, <2>1, Zenon
  <2> QED BY <2>1, <2>2
<1> QED BY <1>4

(* maxCompartmentSequence + 1 is free among the hot rows, and no larger    *)
(* than the number of compartments committed so far allows.                *)
LEMMA NextSequenceFacts ==
  ASSUME TypeOK, NumbersBounded
  PROVE  /\ NextSequence \in Nat /\ NextSequence >= 1 /\ NextSequence <= published + 1
         /\ \A c \in hot : c.seq < NextSequence
<1> DEFINE bounds == {n \in 0..MaxCommits : \A c \in hot : c.seq <= n}
<1> USE ConstantFacts DEF Seqs
<1>1. MaxCommits \in bounds
  BY TypeParts
<1>2. PICK n \in bounds : \A k \in bounds : n <= k
  <2>1. bounds \in SUBSET Nat /\ bounds # {}
    BY <1>1
  <2> HIDE DEF bounds
  <2> QED BY <2>1, Least
<1>3. n = 0 \/ \E c \in hot : c.seq = n
  <2> SUFFICES ASSUME n # 0, \A c \in hot : c.seq # n PROVE FALSE
    OBVIOUS
  <2>1. n - 1 \in bounds
    BY TypeParts
  <2> QED BY <1>2, <2>1
<1> DEFINE last == CHOOSE k \in 0..MaxCommits :
             (k = 0 \/ \E c \in hot : c.seq = k) /\ (\A c \in hot : c.seq <= k)
<1>4. /\ last \in 0..MaxCommits
      /\ last = 0 \/ \E c \in hot : c.seq = last
      /\ \A c \in hot : c.seq <= last
  BY <1>2, <1>3
<1>5. NextSequence = 1 + last
  BY DEF NextSequence
<1>6. last <= published
  BY <1>4, TypeParts DEF NumbersBounded
<1> HIDE DEF last
<1> QED BY <1>4, <1>5, <1>6, TypeParts

(* deriveShardId is the least number in the shard.                         *)
LEMMA ShardIdFacts ==
  ASSUME NEW views \in SUBSET Views, views # {}
  PROVE  /\ \E view \in views : view.seq = ShardId(views)
         /\ \A view \in views : ShardId(views) <= view.seq
<1> DEFINE numbers == {view.seq : view \in views}
<1>1. \A view \in views : view.seq \in Nat
  BY DEF Views, Seqs
<1>2. numbers \in SUBSET Nat /\ numbers # {}
  BY <1>1
<1>3. \E n \in numbers : \A k \in numbers : n <= k
  <2> HIDE DEF numbers
  <2> QED BY <1>2, Least
<1>4. \E n \in numbers : \A view \in views : n <= view.seq
  BY <1>3
<1> QED BY <1>4 DEF ShardId

(* A listed view is that of its row, which is not reclaimed.               *)
LEMMA ListedFacts ==
  ASSUME TypeOK, NEW view \in ReleaseViews
  PROVE  /\ view \in Views /\ Behind(view, release) /\ ~ release[view.seq].reclaimed
         /\ view.pub = release[view.seq].pub /\ view.met = release[view.seq].met
         /\ view.shard = release[view.seq].shard
<1>1. PICK n \in DOMAIN release :
        /\ ~ release[n].reclaimed
        /\ view = [seq |-> n, pub |-> release[n].pub, met |-> release[n].met, shard |-> release[n].shard]
  BY Zenon DEF ReleaseViews
<1>2. release[n] \in ReleaseRows /\ n \in Seqs
  BY TypeParts
<1>3. view \in Views
  BY <1>1, <1>2, RowParts DEF Views
<1>4. /\ view.seq = n /\ view.pub = release[n].pub /\ view.met = release[n].met
      /\ view.shard = release[n].shard
  BY <1>1, Zenon
<1> QED BY <1>1, <1>3, <1>4, Zenon DEF Behind

LEMMA ViewParts ==
  ASSUME NEW view \in Views
  PROVE  /\ view.seq \in Seqs /\ view.pub \in Seqs /\ view.met \in SUBSET Conditions
         /\ view.shard \in 0..MaxCommits /\ view # NoView
<1>1. NoView.seq = 0
  BY Zenon DEF NoView
<1> QED BY <1>1 DEF Views, Seqs

(* A condition k is recorded in row n, whose shard becomes s.              *)
Recorded(n, k, s) ==
  /\ n \in DOMAIN release /\ DOMAIN release' = DOMAIN release
  /\ \A o \in DOMAIN release : o # n => release'[o] = release[o]
  /\ release'[n] \in ReleaseRows
  /\ release'[n].pub = release[n].pub /\ release'[n].met = release[n].met \cup {k}
  /\ release'[n].reclaimed = release[n].reclaimed /\ release'[n].shard = s
  /\ told' = told \cup {<<k, release[n].pub>>}

(* Recording a condition in a row a view is not ahead of.                  *)
LEMMA RecordFacts ==
  ASSUME TypeOK, NEW view \in Views, Behind(view, release),
         NEW k \in Conditions, NEW shard \in 0..MaxCommits, Record(view, k, shard)
  PROVE  Recorded(view.seq, k, IF shard = 0 THEN release[view.seq].shard ELSE shard)
<1> DEFINE met == view.met \cup {k}
           new == Row(view.pub, met, shard, FALSE)
<1>1. view.seq \in DOMAIN release /\ view.pub = release[view.seq].pub /\ view.met \subseteq release[view.seq].met
  BY DEF Behind
<1>2. view.seq \in Seqs /\ view.pub \in Seqs /\ met \in SUBSET Conditions
  BY ViewParts
<1>3. /\ new \in ReleaseRows /\ new.met = met /\ new.shard = shard /\ ~ new.reclaimed
  <2> HIDE DEF met
  <2> QED BY <1>2, Zenon DEF Row, ReleaseRows
<1>4. release' = Upserted(release, view.seq, new) /\ told' = told \cup {<<k, view.pub>>}
  BY DEF Record
<1> HIDE DEF new
<1>5. release[view.seq].reclaimed \in BOOLEAN
  BY <1>1, TypeParts, RowParts
<1>6. (release[view.seq].reclaimed \/ new.reclaimed) = release[view.seq].reclaimed
  BY <1>3, <1>5
<1>7. release[view.seq].met \cup new.met = release[view.seq].met \cup {k}
  BY <1>1, <1>3
<1>8. DOMAIN release \cup {view.seq} = DOMAIN release
  BY <1>1
<1>9. /\ release'[view.seq] \in ReleaseRows
      /\ release'[view.seq].pub = release[view.seq].pub
      /\ release'[view.seq].met = release[view.seq].met \cup new.met
      /\ release'[view.seq].reclaimed = (release[view.seq].reclaimed \/ new.reclaimed)
      /\ release'[view.seq].shard = IF new.shard = 0 THEN release[view.seq].shard ELSE new.shard
      /\ DOMAIN release' = DOMAIN release \cup {view.seq}
      /\ \A n \in DOMAIN release : n # view.seq => release'[n] = release[n]
  BY <1>1, <1>2, <1>3, <1>4, UpsertFacts, Zenon
<1>10. told' = told \cup {<<k, release[view.seq].pub>>}
  BY <1>1, <1>4
<1>11. release'[view.seq].shard = IF shard = 0 THEN release[view.seq].shard ELSE shard
  BY <1>3, <1>9
<1>12. /\ release'[view.seq].met = release[view.seq].met \cup {k}
       /\ release'[view.seq].reclaimed = release[view.seq].reclaimed
       /\ DOMAIN release' = DOMAIN release
  BY <1>6, <1>7, <1>8, <1>9, Zenon
<1> QED BY <1>1, <1>9, <1>10, <1>11, <1>12, Zenon DEF Recorded

(***************************************************************************)
(* The kinds of steps.                                                     *)
(***************************************************************************)
Told ==
  /\ \E n \in Seqs, k \in Conditions \ {"verified"} : Recorded(n, k, release[n].shard)
  /\ UNCHANGED <<hot, published, receipts, shards, batch>>
  /\ \A a \in Actors : held'[a] \in {NoView, held[a]}

Verifying(b) ==
  /\ b \in batch /\ \A other \in batch : b.view.seq <= other.view.seq
  /\ batch' = batch \ {b}
  /\ Recorded(b.view.seq, "verified", b.shard)
  /\ UNCHANGED <<hot, published, receipts, shards, held>>

Reclaiming(n) ==
  /\ n \in DOMAIN release /\ ~ release[n].reclaimed
  /\ release[n].met = Conditions /\ release[n].pub \in receipts
  /\ DOMAIN release' = DOMAIN release
  /\ \A o \in DOMAIN release : o # n => release'[o] = release[o]
  /\ release'[n] \in ReleaseRows /\ release'[n].reclaimed
  /\ release'[n].pub = release[n].pub /\ release'[n].met = release[n].met
  /\ release'[n].shard = release[n].shard
  /\ hot' = {c \in hot : c.seq # n}
  /\ UNCHANGED <<published, receipts, shards, held, batch, told>>

Quiet ==
  /\ UNCHANGED <<hot, release, published, shards>>
  /\ receipts \subseteq receipts' /\ told \subseteq told' /\ batch' \in {batch, {}}
  /\ \A a \in Actors : held'[a] \in {NoView, held[a]} \cup ReleaseViews

LEMMA HeldFacts ==
  ASSUME TypeOK, NEW a \in Actors, held[a] # NoView
  PROVE  held[a] \in Views
BY DEF TypeOK

LEMMA ShardIsOwn ==
  ASSUME TypeOK, NEW view \in Views, Behind(view, release),
         NEW k \in Conditions, Record(view, k, view.shard)
  PROVE  Recorded(view.seq, k, release[view.seq].shard)
<1>1. view.shard \in 0..MaxCommits /\ view.shard \in {0, release[view.seq].shard}
  BY ViewParts DEF Behind
<1>2. (IF view.shard = 0 THEN release[view.seq].shard ELSE view.shard) = release[view.seq].shard
  BY <1>1
<1>3. Recorded(view.seq, k, IF view.shard = 0 THEN release[view.seq].shard ELSE view.shard)
  BY <1>1, RecordFacts
<1> QED BY <1>2, <1>3

LEMMA SettleKind == ASSUME TypeOK, SettleReceipt PROVE Told \/ Quiet
<1>1. PICK c \in unsettled :
        \/ \E view \in ReleaseViews : view.seq = c.seq /\ Record(view, "acked", view.shard)
        \/ told' = told \cup {<<"acked", c.pub>>} /\ UNCHANGED release
  BY DEF SettleReceipt
<1>2. UNCHANGED <<hot, published, receipts, shards, held, batch>>
  BY DEF SettleReceipt
<1>3. ASSUME NEW view \in ReleaseViews, Record(view, "acked", view.shard) PROVE Told
  <2>1. view \in Views /\ Behind(view, release) /\ view.seq \in Seqs
    BY ListedFacts, ViewParts
  <2>2. "acked" \in Conditions \ {"verified"}
    BY DEF Conditions
  <2>3. Recorded(view.seq, "acked", release[view.seq].shard)
    BY <1>3, <2>1, <2>2, ShardIsOwn
  <2> QED BY <1>2, <2>1, <2>2, <2>3 DEF Told
<1>4. CASE told' = told \cup {<<"acked", c.pub>>} /\ UNCHANGED release
  BY <1>2, <1>4 DEF Quiet
<1> QED BY <1>1, <1>3, <1>4

LEMMA WriteKind ==
  ASSUME TypeOK, ViewsAreBehind, NEW a \in Actors, WriteBack(a) PROVE Told
<1>1. PICK k \in {"represented", "durable"} : Record(held[a], k, held[a].shard)
  BY DEF WriteBack
<1>2. held[a] \in Views /\ Behind(held[a], release) /\ held[a].seq \in Seqs
  BY HeldFacts, ViewParts DEF WriteBack, ViewsAreBehind
<1>3. k \in Conditions \ {"verified"}
  BY DEF Conditions
<1>4. ASSUME NEW view \in Views, Behind(view, release), Record(view, k, view.shard)
      PROVE  Recorded(view.seq, k, release[view.seq].shard)
  BY <1>3, <1>4, ShardIsOwn
<1>5. Recorded(held[a].seq, k, release[held[a].seq].shard)
  BY <1>1, <1>2, <1>4
<1>6. UNCHANGED <<hot, published, receipts, shards, batch>> /\ held' = [held EXCEPT ![a] = NoView]
  BY DEF WriteBack
<1>7. \A o \in Actors : held'[o] \in {NoView, held[o]}
  BY <1>6 DEF TypeOK
<1> QED BY <1>2, <1>3, <1>5, <1>6, <1>7 DEF Told

LEMMA VerifyKind ==
  ASSUME TypeOK, ViewsAreBehind, VerifyShard PROVE \E b \in batch : Verifying(b)
<1>1. PICK b \in batch : /\ \A other \in batch : b.view.seq <= other.view.seq
                         /\ Record(b.view, "verified", b.shard)
                         /\ batch' = batch \ {b}
  BY DEF VerifyShard
<1>2. b \in [view : Views, shard : Seqs]
  BY DEF TypeOK
<1>3. b.view \in Views /\ b.shard \in Seqs
  BY <1>2
<1>4. b.shard \in 0..MaxCommits /\ b.shard # 0
  BY <1>3, ConstantFacts DEF Seqs
<1>5. Behind(b.view, release) /\ "verified" \in Conditions
  BY DEF ViewsAreBehind, Conditions
<1>6. Recorded(b.view.seq, "verified", b.shard)
  <2>1. Recorded(b.view.seq, "verified", IF b.shard = 0 THEN release[b.view.seq].shard ELSE b.shard)
    BY <1>1, <1>3, <1>4, <1>5, RecordFacts
  <2>2. (IF b.shard = 0 THEN release[b.view.seq].shard ELSE b.shard) = b.shard
    BY <1>4
  <2> QED BY <2>1, <2>2
<1>7. UNCHANGED <<hot, published, receipts, shards, held>>
  BY DEF VerifyShard
<1> QED BY <1>1, <1>6, <1>7 DEF Verifying

LEMMA ReclaimKind == ASSUME TypeOK, Reclaim PROVE \E n \in Seqs : Reclaiming(n)
<1>1. PICK view \in ReleaseViews :
        /\ Eligible(view)
        /\ release' = [release EXCEPT ![view.seq].reclaimed = TRUE]
        /\ hot' = {c \in hot : c.seq # view.seq}
  BY DEF Reclaim
<1> DEFINE n == view.seq
           old == release[n]
           row == [old EXCEPT !.reclaimed = TRUE]
<1>2. n \in DOMAIN release /\ n \in Seqs /\ ~ old.reclaimed /\ old.met = Conditions /\ old.pub \in receipts
  BY <1>1, ListedFacts, ViewParts DEF Behind, Eligible
<1>3. old \in ReleaseRows
  BY <1>2, TypeParts
<1>4. release' = [release EXCEPT ![n] = row]
  BY <1>1, Zenon
<1>5. row \in ReleaseRows /\ row.reclaimed /\ row.pub = old.pub /\ row.met = old.met /\ row.shard = old.shard
  <2> HIDE DEF old
  <2> QED BY <1>3, Zenon DEF ReleaseRows
<1>6. /\ DOMAIN release' = DOMAIN release /\ release'[n] = row
      /\ \A o \in DOMAIN release : o # n => release'[o] = release[o]
  <2> HIDE DEF row
  <2> QED BY <1>2, <1>4
<1>7. hot' = {c \in hot : c.seq # n} /\ UNCHANGED <<published, receipts, shards, held, batch, told>>
  BY <1>1 DEF Reclaim
<1> QED BY <1>2, <1>5, <1>6, <1>7, Zenon DEF Reclaiming

LEMMA StepKinds ==
  ASSUME TypeOK, ViewsAreBehind, [Next]_vars
  PROVE  \/ CommitBatch \/ Told \/ SealShard \/ Quiet
         \/ \E b \in batch : Verifying(b)
         \/ \E n \in Seqs : Reclaiming(n)
<1>1. CASE RecoverReceipt \/ MarkDelivered
  BY <1>1 DEF RecoverReceipt, MarkDelivered, Quiet
<1>2. ASSUME NEW a \in Actors, ReadView(a) PROVE Quiet
  BY <1>2 DEF ReadView, Quiet, TypeOK
<1>3. CASE Crash
  BY <1>3 DEF Crash, Quiet
<1>4. CASE UNCHANGED vars
  BY <1>4 DEF Quiet, vars
<1> QED BY <1>1, <1>2, <1>3, <1>4, SettleKind, WriteKind, VerifyKind, ReclaimKind
        DEF Next, Historian, Host

(* A commit adds a hot compartment under a number that is free; where the  *)
(* number has a release row, it is a reclaimed one and stays as it is.     *)
Committed(n, c) ==
  /\ n \in Seqs /\ \A o \in hot : o.seq < n
  /\ n <= published + 1 /\ published + 1 \in Seqs /\ published' = published + 1
  /\ c \in Compartments /\ c.seq = n /\ c.pub = published + 1 /\ hot' = hot \cup {c}
  /\ DOMAIN release' = DOMAIN release \cup {n}
  /\ \A o \in DOMAIN release : o # n => release'[o] = release[o]
  /\ release'[n] \in ReleaseRows
  /\ n \notin DOMAIN release =>
       /\ release'[n].pub = published + 1 /\ release'[n].met = {}
       /\ release'[n].shard = 0 /\ ~ release'[n].reclaimed
  /\ n \in DOMAIN release =>
       /\ release[n].reclaimed /\ release'[n].reclaimed
       /\ release'[n].pub = release[n].pub /\ release'[n].met = release[n].met
       /\ release'[n].shard = release[n].shard
  /\ UNCHANGED <<receipts, shards, held, batch, told>>
  /\ unsettled' = unsettled \cup {c}

LEMMA CommitFacts ==
  ASSUME TypeOK, NumbersBounded, RowsAreOwned, CommitBatch
  PROVE  \E n \in Seqs, c \in Compartments : Committed(n, c)
<1> DEFINE n == NextSequence
           p == published + 1
           c == [seq |-> n, pub |-> p]
           new == Row(p, {}, 0, FALSE)
<1>1. published < MaxCommits /\ published \in Nat
  BY TypeParts DEF CommitBatch
<1>2. p \in Seqs /\ n \in Seqs /\ n <= p /\ \A o \in hot : o.seq < n
  BY <1>1, NextSequenceFacts, ConstantFacts DEF Seqs
<1>3. published' = p /\ hot' = hot \cup {c} /\ unsettled' = unsettled \cup {c}
  BY DEF CommitBatch
<1>4. release' = Upserted(release, n, new) /\ UNCHANGED <<receipts, shards, held, batch, told>>
  BY <1>3 DEF CommitBatch
<1>5. new \in ReleaseRows /\ new.pub = p /\ new.met = {} /\ new.shard = 0 /\ ~ new.reclaimed
  <2>1. {} \in SUBSET Conditions /\ 0 \in 0..MaxCommits
    BY ConstantFacts
  <2> HIDE DEF p
  <2> QED BY <1>2, <2>1, Zenon DEF Row, ReleaseRows
<1>6. c \in Compartments /\ c.seq = n /\ c.pub = p
  <2> HIDE DEF n, p
  <2> QED BY <1>2, Zenon DEF Compartments
<1> HIDE DEF new, c, n
<1>7. /\ DOMAIN release' = DOMAIN release \cup {n}
      /\ \A o \in DOMAIN release : o # n => release'[o] = release[o]
      /\ release'[n] \in ReleaseRows
      /\ n \notin DOMAIN release => release'[n] = new
  BY <1>2, <1>4, <1>5, UpsertFacts, Zenon
<1>8. ASSUME n \in DOMAIN release
      PROVE  /\ release'[n].pub = release[n].pub /\ release'[n].met = release[n].met \cup new.met
             /\ release'[n].reclaimed = (release[n].reclaimed \/ new.reclaimed)
             /\ release'[n].shard = IF new.shard = 0 THEN release[n].shard ELSE new.shard
             /\ release[n].reclaimed
  <2>1. /\ release'[n].pub = release[n].pub /\ release'[n].met = release[n].met \cup new.met
        /\ release'[n].reclaimed = (release[n].reclaimed \/ new.reclaimed)
        /\ release'[n].shard = IF new.shard = 0 THEN release[n].shard ELSE new.shard
    BY <1>2, <1>4, <1>5, <1>8, UpsertFacts, Zenon
  <2>2. release[n].reclaimed
    <3>1. \A o \in hot : o.seq # n
      BY <1>2, TypeParts DEF Seqs
    <3> QED BY <1>8, <3>1 DEF RowsAreOwned
  <2> QED BY <2>1, <2>2
<1>9. ASSUME n \in DOMAIN release
      PROVE  /\ release'[n].met = release[n].met /\ release'[n].shard = release[n].shard
             /\ release'[n].pub = release[n].pub /\ release[n].reclaimed /\ release'[n].reclaimed
  <2>1. release'[n].met = release[n].met /\ release'[n].shard = release[n].shard
    BY <1>5, <1>8, <1>9
  <2> QED BY <1>8, <1>9, <2>1, Zenon
<1>10. n \notin DOMAIN release =>
         /\ release'[n].pub = p /\ release'[n].met = {}
         /\ release'[n].shard = 0 /\ ~ release'[n].reclaimed
  BY <1>5, <1>7, Zenon
<1>11. Committed(n, c)
  BY <1>2, <1>3, <1>4, <1>6, <1>7, <1>9, <1>10, Zenon DEF Committed
<1> QED BY <1>2, <1>6, <1>11

(***************************************************************************)
(* What is recorded of a compartment is never taken back.                  *)
(***************************************************************************)
Advanced(n) ==
  /\ n \in DOMAIN release'
  /\ release'[n].pub = release[n].pub
  /\ release[n].met \subseteq release'[n].met
  /\ release[n].shard \in {0, release'[n].shard}
  /\ release[n].reclaimed => release'[n].reclaimed

LEMMA StepAdvances ==
  ASSUME IInv, [Next]_vars, NEW n \in DOMAIN release
  PROVE  Advanced(n)
<1> USE DEF IInv
<1>1. ASSUME release'[n] = release[n], n \in DOMAIN release' PROVE Advanced(n)
  BY <1>1, Zenon DEF Advanced
<1>2. CASE CommitBatch
  <2>1. PICK m \in Seqs, c \in Compartments : Committed(m, c)
    BY <1>2, CommitFacts
  <2>2. CASE n = m
    BY <2>1, <2>2, Zenon DEF Committed, Advanced
  <2>3. CASE n # m
    BY <1>1, <2>1, <2>3 DEF Committed
  <2> QED BY <2>2, <2>3
<1>3. ASSUME NEW m \in Seqs, NEW k \in Conditions, Recorded(m, k, release[m].shard) PROVE Advanced(n)
  <2>1. CASE n = m
    BY <1>3, <2>1, Zenon DEF Recorded, Advanced
  <2>2. CASE n # m
    BY <1>1, <1>3, <2>2 DEF Recorded
  <2> QED BY <2>1, <2>2
<1>4. ASSUME NEW b \in batch, Verifying(b) PROVE Advanced(n)
  <2>1. CASE n = b.view.seq
    <3>1. release[n].shard = 0
      BY <2>1 DEF BatchIsSealed, VerifiedIsSealed, Verified
    <3> QED BY <1>4, <2>1, <3>1, Zenon DEF Verifying, Recorded, Advanced
  <2>2. CASE n # b.view.seq
    BY <1>1, <1>4, <2>2 DEF Verifying, Recorded
  <2> QED BY <2>1, <2>2
<1>5. ASSUME NEW m \in Seqs, Reclaiming(m) PROVE Advanced(n)
  <2>1. CASE n = m
    BY <1>5, <2>1, Zenon DEF Reclaiming, Advanced
  <2>2. CASE n # m
    BY <1>1, <1>5, <2>2 DEF Reclaiming
  <2> QED BY <2>1, <2>2
<1>6. CASE SealShard \/ Quiet
  BY <1>1, <1>6 DEF SealShard, Quiet
<1> QED BY <1>2, <1>3, <1>4, <1>5, <1>6, StepKinds DEF Told

(***************************************************************************)
(* Types.                                                                  *)
(***************************************************************************)
RowsOK ==
  /\ hot \subseteq Compartments /\ \A c, d \in hot : c.seq = d.seq \/ c.pub = d.pub => c = d
  /\ DOMAIN release \subseteq Seqs /\ \A c \in hot : c.seq \in DOMAIN release
  /\ \A n \in DOMAIN release : release[n] \in ReleaseRows
  /\ published \in 0..MaxCommits
OthersOK ==
  /\ receipts \subseteq 1..published
  /\ shards \subseteq [id : Seqs, pubs : SUBSET Seqs]
  /\ unsettled \subseteq Compartments
  /\ held \in [Actors -> Views \cup {NoView}]
  /\ batch \subseteq [view : Views, shard : Seqs]
  /\ told \subseteq Conditions \X Seqs

LEMMA TypeSplit == TypeOK <=> RowsOK /\ OthersOK
BY DEF TypeOK, RowsOK, OthersOK, ReleaseRows

LEMMA CompartmentParts ==
  \A c \in Compartments : c.seq \in Seqs /\ c.pub \in Seqs
BY DEF Compartments

LEMMA RowsStep == IInv /\ [Next]_vars => RowsOK'
<1> SUFFICES ASSUME IInv, [Next]_vars PROVE RowsOK'
  OBVIOUS
<1> USE DEF IInv
<1>0. RowsOK /\ OthersOK
  BY TypeSplit
<1>1. CASE CommitBatch
  <2>1. PICK n \in Seqs, c \in Compartments : Committed(n, c)
    BY <1>1, CommitFacts
  <2>2. hot' \subseteq Compartments /\ published' \in 0..MaxCommits
    BY <1>0, <2>1, ConstantFacts DEF Committed, RowsOK, Seqs
  <2>3. \A d \in hot : d.seq # c.seq /\ d.pub # c.pub
    <3> SUFFICES ASSUME NEW d \in hot PROVE d.seq < n /\ d.pub < published + 1
      BY <1>0, <2>1, CompartmentParts DEF Committed, RowsOK, Seqs
    <3>1. d.pub <= published /\ d.pub \in Nat /\ published \in Nat
      BY <1>0, CompartmentParts, ConstantFacts DEF NumbersBounded, RowsOK, Seqs
    <3> QED BY <2>1, <3>1 DEF Committed
  <2>4. \A d, e \in hot' : d.seq = e.seq \/ d.pub = e.pub => d = e
    BY <1>0, <2>1, <2>3 DEF Committed, RowsOK
  <2>5. \A d \in hot' : d.seq \in DOMAIN release'
    BY <1>0, <2>1 DEF Committed, RowsOK
  <2>6. DOMAIN release' \subseteq Seqs /\ \A o \in DOMAIN release' : release'[o] \in ReleaseRows
    BY <1>0, <2>1 DEF Committed, RowsOK
  <2> QED BY <2>2, <2>4, <2>5, <2>6 DEF RowsOK
<1>2. ASSUME NEW n \in Seqs, NEW k, NEW s, Recorded(n, k, s), UNCHANGED <<hot, published>>
      PROVE  RowsOK'
  BY <1>0, <1>2 DEF Recorded, RowsOK
<1>3. ASSUME NEW b \in batch, Verifying(b) PROVE RowsOK'
  <2>1. b.view.seq \in Seqs
    BY <1>3, TypeParts DEF Verifying, Recorded
  <2> QED BY <1>2, <1>3, <2>1 DEF Verifying
<1>4. ASSUME NEW n \in Seqs, Reclaiming(n) PROVE RowsOK'
  BY <1>0, <1>4 DEF Reclaiming, RowsOK
<1>5. CASE SealShard \/ Quiet
  BY <1>0, <1>5 DEF SealShard, Quiet, RowsOK
<1> QED BY <1>1, <1>2, <1>3, <1>4, <1>5, StepKinds DEF Told

(* What is told is told of a compartment.                                  *)
LEMMA ToldType ==
  ASSUME TypeOK, NEW n \in Seqs, NEW k \in Conditions, NEW s, Recorded(n, k, s)
  PROVE  told' \subseteq Conditions \X Seqs
<1>1. release[n].pub \in Seqs /\ told' = told \cup {<<k, release[n].pub>>}
  BY TypeParts, RowParts DEF Recorded
<1> QED BY <1>1 DEF TypeOK

LEMMA ReceiptsType ==
  ASSUME TypeOK, UNCHANGED receipts, published' \in Nat, published <= published'
  PROVE  receipts' \subseteq 1..published'
BY TypeParts DEF TypeOK

(* The shard that is sealed.                                               *)
Sealing(views) ==
  /\ views \in SUBSET ReleaseViews /\ views # {} /\ batch = {}
  /\ \A view \in views : "verified" \notin view.met
  /\ shards' = {s \in shards : s.id # ShardId(views)}
                 \cup {[id |-> ShardId(views), pubs |-> {view.pub : view \in views}]}
  /\ batch' = {[view |-> view, shard |-> ShardId(views)] : view \in views}
  /\ UNCHANGED <<hot, release, published, receipts, unsettled, held, told>>

LEMMA SealFacts ==
  ASSUME TypeOK, SealShard
  PROVE  \E views \in SUBSET Views :
           /\ Sealing(views) /\ ShardId(views) \in Seqs
           /\ \E view \in views : view.seq = ShardId(views)
           /\ \A view \in views : ShardId(views) <= view.seq
<1>1. PICK views \in SUBSET {view \in ReleaseViews : "verified" \notin view.met} :
        /\ views # {}
        /\ shards' = {s \in shards : s.id # ShardId(views)}
                       \cup {[id |-> ShardId(views), pubs |-> {view.pub : view \in views}]}
        /\ batch' = {[view |-> view, shard |-> ShardId(views)] : view \in views}
  BY Zenon DEF SealShard
<1>2. Sealing(views)
  BY <1>1 DEF SealShard, Sealing
<1>3. views \in SUBSET Views
  BY <1>1, ListedFacts
<1>4. /\ \E view \in views : view.seq = ShardId(views)
      /\ \A view \in views : ShardId(views) <= view.seq
  BY <1>1, <1>3, ShardIdFacts
<1>5. ShardId(views) \in Seqs
  BY <1>3, <1>4, ViewParts
<1> QED BY <1>2, <1>3, <1>4, <1>5

LEMMA OthersStep == IInv /\ [Next]_vars => OthersOK'
<1> SUFFICES ASSUME IInv, [Next]_vars PROVE OthersOK'
  OBVIOUS
<1> USE DEF IInv
<1>0. RowsOK /\ OthersOK
  BY TypeSplit
<1>a. \A view \in ReleaseViews : view \in Views
  BY ListedFacts
<1>1. CASE CommitBatch
  <2>1. PICK n \in Seqs, c \in Compartments : Committed(n, c)
    BY <1>1, CommitFacts
  <2>2. receipts' \subseteq 1..published'
    BY <2>1, TypeParts, ReceiptsType DEF Committed
  <2> QED BY <1>0, <2>1, <2>2 DEF Committed, OthersOK
<1>2. CASE SettleReceipt
  <2>1. PICK c \in unsettled :
          /\ unsettled' = unsettled \ {c}
          /\ \/ \E view \in ReleaseViews : Record(view, "acked", view.shard)
             \/ told' = told \cup {<<"acked", c.pub>>}
    BY <1>2 DEF SettleReceipt
  <2>2. told' \subseteq Conditions \X Seqs
    <3>1. "acked" \in Conditions /\ c.pub \in Seqs
      BY <1>0, CompartmentParts DEF OthersOK, Conditions
    <3>2. ASSUME NEW view \in ReleaseViews, Record(view, "acked", view.shard)
          PROVE  told' \subseteq Conditions \X Seqs
      <4>1. view \in Views /\ Behind(view, release) /\ view.seq \in Seqs
        BY ListedFacts, ViewParts
      <4>2. Recorded(view.seq, "acked", release[view.seq].shard)
        BY <3>1, <3>2, <4>1, ShardIsOwn
      <4> QED BY <3>1, <4>1, <4>2, ToldType
    <3> QED BY <1>0, <2>1, <3>1, <3>2 DEF OthersOK
  <2> QED BY <1>0, <1>2, <2>1, <2>2 DEF SettleReceipt, OthersOK
<1>3. CASE RecoverReceipt
  <2>1. "acked" \in Conditions /\ \A c \in unsettled : c.pub \in Seqs
    BY <1>0, CompartmentParts DEF OthersOK, Conditions
  <2> QED BY <1>0, <1>3, <2>1 DEF RecoverReceipt, OthersOK
<1>4. CASE MarkDelivered
  BY <1>0, <1>4 DEF MarkDelivered, OthersOK
<1>5. ASSUME NEW a \in Actors, ReadView(a) PROVE OthersOK'
  BY <1>0, <1>a, <1>5 DEF ReadView, OthersOK
<1>6. ASSUME NEW a \in Actors, WriteBack(a) PROVE OthersOK'
  <2>1. PICK n \in Seqs, k \in Conditions \ {"verified"} : Recorded(n, k, release[n].shard)
    BY <1>6, WriteKind DEF Told
  <2>2. told' \subseteq Conditions \X Seqs
    BY <2>1, ToldType
  <2> QED BY <1>0, <1>6, <2>2 DEF WriteBack, OthersOK
<1>7. CASE SealShard
  <2>1. PICK views \in SUBSET Views : Sealing(views) /\ ShardId(views) \in Seqs
    BY <1>7, SealFacts
  <2>2. \A view \in views : view.pub \in Seqs
    BY <2>1, ViewParts
  <2> DEFINE id == ShardId(views)
  <2> HIDE DEF id
  <2>3. id \in Seqs /\ shards' = {s \in shards : s.id # id} \cup {[id |-> id, pubs |-> {view.pub : view \in views}]}
    BY <2>1 DEF Sealing, id
  <2>4. batch' = {[view |-> view, shard |-> id] : view \in views}
    BY <2>1 DEF Sealing, id
  <2>5. [id |-> id, pubs |-> {view.pub : view \in views}] \in [id : Seqs, pubs : SUBSET Seqs]
    BY <2>2, <2>3
  <2>6. shards' \subseteq [id : Seqs, pubs : SUBSET Seqs]
    BY <1>0, <2>3, <2>5 DEF OthersOK
  <2>7. batch' \subseteq [view : Views, shard : Seqs]
    BY <2>3, <2>4
  <2> QED BY <1>0, <2>1, <2>6, <2>7 DEF Sealing, OthersOK
<1>8. CASE VerifyShard
  <2>1. PICK b \in batch : Verifying(b)
    BY <1>8, VerifyKind
  <2>2. b.view.seq \in Seqs /\ "verified" \in Conditions
    BY <2>1, TypeParts DEF Verifying, Recorded, Conditions
  <2>3. told' \subseteq Conditions \X Seqs
    BY <2>1, <2>2, ToldType DEF Verifying
  <2> QED BY <1>0, <1>8, <2>1, <2>3 DEF Verifying, VerifyShard, OthersOK
<1>9. CASE Reclaim
  BY <1>0, <1>9 DEF Reclaim, OthersOK
<1>10. CASE Crash
  BY <1>0, <1>10 DEF Crash, OthersOK
<1>11. CASE UNCHANGED vars
  BY <1>0, <1>11 DEF vars, OthersOK
<1> QED BY <1>1, <1>2, <1>3, <1>4, <1>5, <1>6, <1>7, <1>8, <1>9, <1>10, <1>11
        DEF Next, Historian, Host

LEMMA TypeStep == IInv /\ [Next]_vars => TypeOK'
<1> SUFFICES ASSUME RowsOK', OthersOK' PROVE TypeOK'
  BY RowsStep, OthersStep
<1> QED BY DEF TypeOK, RowsOK, OthersOK, ReleaseRows

(***************************************************************************)
(* Every step keeps the rest of the invariant.                             *)
(***************************************************************************)
LEMMA NumbersStep == IInv /\ [Next]_vars => NumbersBounded'
<1> SUFFICES ASSUME IInv, [Next]_vars PROVE NumbersBounded'
  OBVIOUS
<1> USE DEF IInv
<1>0. published \in Nat /\ \A n \in DOMAIN release : release[n].pub \in Nat
  BY TypeParts, RowParts DEF Seqs
<1>a. \A c \in hot : c.seq \in Nat /\ c.pub \in Nat
  BY TypeParts DEF Seqs
<1>1. CASE CommitBatch
  <2>1. PICK n \in Seqs, c \in Compartments : Committed(n, c)
    BY <1>1, CommitFacts
  <2>2. \A d \in hot' : d.seq <= published' /\ d.pub <= published'
    BY <1>0, <1>a, <2>1 DEF Committed, NumbersBounded
  <2>3. \A m \in DOMAIN release' : release'[m].pub <= published'
    <3> SUFFICES ASSUME NEW m \in DOMAIN release' PROVE release'[m].pub <= published'
      OBVIOUS
    <3>1. CASE m \in DOMAIN release
      <4>1. release'[m].pub = release[m].pub
        BY <3>1, StepAdvances DEF Advanced
      <4> QED BY <1>0, <2>1, <3>1, <4>1 DEF Committed, NumbersBounded
    <3>2. CASE m \notin DOMAIN release
      <4>1. release'[m].pub = published + 1 /\ published' = published + 1
        BY <2>1, <3>2 DEF Committed
      <4> QED BY <1>0, <4>1
    <3> QED BY <3>1, <3>2
  <2> QED BY <2>2, <2>3 DEF NumbersBounded
<1>2. ASSUME hot' \subseteq hot, published' = published, DOMAIN release' = DOMAIN release
      PROVE  NumbersBounded'
  BY <1>2, StepAdvances DEF Advanced, NumbersBounded
<1>3. CASE Told \/ SealShard \/ Quiet
  BY <1>2, <1>3 DEF Told, Recorded, SealShard, Quiet
<1>4. ASSUME NEW b \in batch, Verifying(b) PROVE NumbersBounded'
  BY <1>2, <1>4 DEF Verifying, Recorded
<1>5. ASSUME NEW n \in Seqs, Reclaiming(n) PROVE NumbersBounded'
  BY <1>2, <1>5 DEF Reclaiming
<1> QED BY <1>1, <1>3, <1>4, <1>5, StepKinds

(* A row that was released stays so: it already has every condition.       *)
Released(n, p, rows, bound) ==
  /\ n \in DOMAIN rows /\ rows[n].reclaimed /\ rows[n].pub = p
  /\ rows[n].met = Conditions /\ p \in bound

LEMMA ReleasedStays ==
  ASSUME IInv, [Next]_vars, TypeOK', receipts \subseteq receipts', NEW n, NEW p,
         Released(n, p, release, receipts)
  PROVE  Released(n, p, release', receipts')
<1>1. n \in DOMAIN release /\ Advanced(n)
  BY StepAdvances DEF Released
<1>2. release'[n] \in ReleaseRows
  BY <1>1 DEF TypeOK, ReleaseRows, Advanced
<1>3. release'[n].met \subseteq Conditions
  BY <1>2, RowParts
<1>4. release'[n].met = Conditions
  BY <1>1, <1>3 DEF Advanced, Released
<1> QED BY <1>1, <1>4, Zenon DEF Advanced, Released

LEMMA OwnedStep == IInv /\ [Next]_vars => RowsAreOwned'
<1> SUFFICES ASSUME IInv, [Next]_vars PROVE RowsAreOwned'
  OBVIOUS
<1> USE DEF IInv
<1>0. TypeOK'
  BY TypeStep
<1>a. \A p \in 1..published : \/ \E c \in hot : c.pub = p
                              \/ \E n \in DOMAIN release : Released(n, p, release, receipts)
  BY Zenon DEF RowsAreOwned, Released
<1>b. ASSUME \A n \in DOMAIN release' :
               ~ release'[n].reclaimed => \E c \in hot' : c.seq = n /\ c.pub = release'[n].pub,
             \A p \in 1..published' : \/ \E c \in hot' : c.pub = p
                                      \/ \E n \in DOMAIN release' : Released(n, p, release', receipts')
      PROVE  RowsAreOwned'
  BY <1>b, Zenon DEF RowsAreOwned, Released
<1>c. ASSUME receipts \subseteq receipts', NEW n \in DOMAIN release, NEW p,
             Released(n, p, release, receipts)
      PROVE  n \in DOMAIN release' /\ Released(n, p, release', receipts')
  BY <1>0, <1>c, ReleasedStays, Zenon DEF Released
<1>1. CASE CommitBatch
  <2>1. PICK m \in Seqs, c \in Compartments : Committed(m, c)
    BY <1>1, CommitFacts
  <2>2. ASSUME NEW n \in DOMAIN release', ~ release'[n].reclaimed
        PROVE  \E d \in hot' : d.seq = n /\ d.pub = release'[n].pub
    <3>1. CASE n = m
      <4>1. m \notin DOMAIN release
        BY <2>1, <2>2, <3>1 DEF Committed
      <4>2. c \in hot' /\ c.seq = n /\ c.pub = release'[n].pub
        BY <2>1, <3>1, <4>1, Zenon DEF Committed
      <4> QED BY <4>2
    <3>2. CASE n # m
      <4>1. n \in DOMAIN release /\ release'[n] = release[n]
        BY <2>1, <3>2 DEF Committed
      <4>2. PICK d \in hot : d.seq = n /\ d.pub = release[n].pub
        BY <2>2, <4>1 DEF RowsAreOwned
      <4> QED BY <2>1, <4>1, <4>2 DEF Committed
    <3> QED BY <3>1, <3>2
  <2>3. ASSUME NEW p \in 1..published'
        PROVE  \/ \E d \in hot' : d.pub = p
               \/ \E n \in DOMAIN release' : Released(n, p, release', receipts')
    <3>1. CASE p = published + 1
      BY <2>1, <3>1 DEF Committed
    <3>2. CASE p # published + 1
      <4>1. p \in 1..published
        BY <2>1, <3>2, TypeParts DEF Committed
      <4> QED BY <1>a, <1>c, <2>1, <4>1 DEF Committed
    <3> QED BY <3>1, <3>2
  <2> QED BY <1>b, <2>2, <2>3
<1>2. ASSUME UNCHANGED <<hot, published>>, receipts \subseteq receipts', DOMAIN release' = DOMAIN release,
             \A n \in DOMAIN release : release'[n].reclaimed = release[n].reclaimed
      PROVE  RowsAreOwned'
  <2>1. \A n \in DOMAIN release' :
          ~ release'[n].reclaimed => \E c \in hot' : c.seq = n /\ c.pub = release'[n].pub
    <3> SUFFICES ASSUME NEW n \in DOMAIN release', ~ release'[n].reclaimed
                 PROVE  \E c \in hot' : c.seq = n /\ c.pub = release'[n].pub
      OBVIOUS
    <3>1. n \in DOMAIN release /\ ~ release[n].reclaimed
      BY <1>2, Zenon
    <3>2. release'[n].pub = release[n].pub
      BY <3>1, StepAdvances DEF Advanced
    <3>3. PICK c \in hot : c.seq = n /\ c.pub = release[n].pub
      BY <3>1 DEF RowsAreOwned
    <3> QED BY <1>2, <3>2, <3>3
  <2>2. \A p \in 1..published' : \/ \E c \in hot' : c.pub = p
                                 \/ \E n \in DOMAIN release' : Released(n, p, release', receipts')
    BY <1>a, <1>2, <1>c
  <2> QED BY <1>b, <2>1, <2>2
<1>3. ASSUME NEW m, NEW k, NEW s, Recorded(m, k, s), UNCHANGED <<hot, published, receipts>>
      PROVE  RowsAreOwned'
  <2>1. \A n \in DOMAIN release : release'[n].reclaimed = release[n].reclaimed
    BY <1>3, Zenon DEF Recorded
  <2> QED BY <1>2, <1>3, <2>1 DEF Recorded
<1>4. CASE Told
  BY <1>3, <1>4 DEF Told
<1>5. ASSUME NEW b \in batch, Verifying(b) PROVE RowsAreOwned'
  BY <1>3, <1>5 DEF Verifying
<1>6. CASE SealShard \/ Quiet
  BY <1>2, <1>6 DEF SealShard, Quiet
<1>7. ASSUME NEW m \in Seqs, Reclaiming(m) PROVE RowsAreOwned'
  <2>1. ASSUME NEW n \in DOMAIN release', ~ release'[n].reclaimed
        PROVE  \E c \in hot' : c.seq = n /\ c.pub = release'[n].pub
    <3>1. n # m
      BY <1>7, <2>1 DEF Reclaiming
    <3>2. n \in DOMAIN release /\ release'[n] = release[n]
      BY <1>7, <3>1 DEF Reclaiming
    <3>3. PICK c \in hot : c.seq = n /\ c.pub = release[n].pub
      BY <2>1, <3>2 DEF RowsAreOwned
    <3> QED BY <1>7, <3>1, <3>2, <3>3 DEF Reclaiming
  <2>2. ASSUME NEW p \in 1..published'
        PROVE  \/ \E c \in hot' : c.pub = p
               \/ \E n \in DOMAIN release' : Released(n, p, release', receipts')
    <3>1. p \in 1..published /\ receipts' = receipts /\ DOMAIN release' = DOMAIN release
      BY <1>7 DEF Reclaiming
    <3>2. CASE \E n \in DOMAIN release : Released(n, p, release, receipts)
      BY <1>c, <3>1, <3>2
    <3>3. ASSUME NEW c \in hot, c.pub = p
          PROVE  \/ \E d \in hot' : d.pub = p
                 \/ \E n \in DOMAIN release' : Released(n, p, release', receipts')
      <4>1. CASE c.seq # m
        BY <1>7, <3>3, <4>1 DEF Reclaiming
      <4>2. CASE c.seq = m
        <5>1. PICK d \in hot : d.seq = m /\ d.pub = release[m].pub
          BY <1>7 DEF Reclaiming, RowsAreOwned
        <5>2. c = d
          BY <4>2, <5>1 DEF TypeOK
        <5>3. /\ m \in DOMAIN release' /\ release'[m].reclaimed
              /\ release'[m].pub = release[m].pub
              /\ release'[m].met = Conditions /\ release[m].pub \in receipts'
          BY <1>7, Zenon DEF Reclaiming
        <5>4. Released(m, p, release', receipts')
          BY <3>3, <5>1, <5>2, <5>3, Zenon DEF Released
        <5> QED BY <5>3, <5>4
      <4> QED BY <4>1, <4>2
    <3> QED BY <1>a, <3>1, <3>2, <3>3
  <2> QED BY <1>b, <2>1, <2>2
<1> QED BY <1>1, <1>4, <1>5, <1>6, <1>7, StepKinds

LEMMA ToldStep == IInv /\ [Next]_vars => MetIsTold'
<1> SUFFICES ASSUME IInv, [Next]_vars PROVE MetIsTold'
  OBVIOUS
<1> USE DEF IInv
<1>1. CASE CommitBatch
  <2>1. PICK m \in Seqs, c \in Compartments : Committed(m, c)
    BY <1>1, CommitFacts
  <2> SUFFICES ASSUME NEW n \in DOMAIN release', NEW k \in release'[n].met
               PROVE  <<k, release'[n].pub>> \in told'
    BY DEF MetIsTold
  <2>2. told' = told /\ (n \notin DOMAIN release => n = m /\ release'[n].met = {})
    BY <2>1, Zenon DEF Committed
  <2>3. n \in DOMAIN release => release'[n].met = release[n].met /\ release'[n].pub = release[n].pub
    BY <2>1, Zenon DEF Committed
  <2> QED BY <2>2, <2>3, Zenon DEF MetIsTold
<1>2. ASSUME NEW m, NEW j, NEW s, Recorded(m, j, s) PROVE MetIsTold'
  <2> SUFFICES ASSUME NEW n \in DOMAIN release', NEW k \in release'[n].met
               PROVE  <<k, release'[n].pub>> \in told'
    BY DEF MetIsTold
  <2>1. CASE n = m
    <3>1. release'[n].pub = release[n].pub /\ k \in release[n].met \cup {j}
      BY <1>2, <2>1, Zenon DEF Recorded
    <3>2. told' = told \cup {<<j, release[n].pub>>} /\ n \in DOMAIN release
      BY <1>2, <2>1, Zenon DEF Recorded
    <3>3. k = j \/ <<k, release[n].pub>> \in told
      BY <3>1, <3>2, Zenon DEF MetIsTold
    <3> QED BY <3>1, <3>2, <3>3, Zenon
  <2>2. CASE n # m
    <3>1. release'[n] = release[n] /\ n \in DOMAIN release /\ told \subseteq told'
      BY <1>2, <2>2 DEF Recorded
    <3> QED BY <3>1, Zenon DEF MetIsTold
  <2> QED BY <2>1, <2>2
<1>3. CASE Told
  BY <1>2, <1>3 DEF Told
<1>4. ASSUME NEW b \in batch, Verifying(b) PROVE MetIsTold'
  BY <1>2, <1>4 DEF Verifying
<1>5. ASSUME NEW m \in Seqs, Reclaiming(m) PROVE MetIsTold'
  <2>1. /\ DOMAIN release' = DOMAIN release /\ told' = told
        /\ \A n \in DOMAIN release : release'[n].met = release[n].met /\ release'[n].pub = release[n].pub
    BY <1>5, Zenon DEF Reclaiming
  <2> QED BY <2>1 DEF MetIsTold
<1>6. CASE SealShard \/ Quiet
  BY <1>6 DEF SealShard, Quiet, MetIsTold
<1> QED BY <1>1, <1>3, <1>4, <1>5, <1>6, StepKinds

LEMMA BehindStays ==
  ASSUME IInv, [Next]_vars, NEW view, Behind(view, release)
  PROVE  Behind(view, release')
<1>1. view.seq \in DOMAIN release /\ Advanced(view.seq)
  BY StepAdvances DEF Behind
<1> QED BY <1>1 DEF Advanced, Behind

LEMMA BehindStep == IInv /\ [Next]_vars => ViewsAreBehind'
<1> SUFFICES ASSUME IInv, [Next]_vars PROVE ViewsAreBehind'
  OBVIOUS
<1> USE DEF IInv
<1>0. /\ \A a \in Actors : held[a] # NoView => Behind(held[a], release')
      /\ \A b \in batch : Behind(b.view, release')
  BY BehindStays DEF ViewsAreBehind
<1>a. \A view \in ReleaseViews : Behind(view, release')
  BY ListedFacts, BehindStays
<1>1. CASE CommitBatch
  BY <1>0, <1>1 DEF CommitBatch, ViewsAreBehind
<1>2. CASE Told
  BY <1>0, <1>2 DEF Told, ViewsAreBehind
<1>3. CASE SealShard
  <2>1. PICK views \in SUBSET Views : Sealing(views)
    BY <1>3, SealFacts
  <2>2. \A b \in batch' : b.view \in ReleaseViews
    BY <2>1 DEF Sealing
  <2> QED BY <1>0, <1>a, <2>1, <2>2 DEF Sealing, ViewsAreBehind
<1>4. CASE Quiet
  BY <1>0, <1>a, <1>4 DEF Quiet, ViewsAreBehind
<1>5. ASSUME NEW b \in batch, Verifying(b) PROVE ViewsAreBehind'
  BY <1>0, <1>5 DEF Verifying, ViewsAreBehind
<1>6. ASSUME NEW n \in Seqs, Reclaiming(n) PROVE ViewsAreBehind'
  BY <1>0, <1>6 DEF Reclaiming, ViewsAreBehind
<1> QED BY <1>1, <1>2, <1>3, <1>4, <1>5, <1>6, StepKinds

(***************************************************************************)
(* The shards.                                                             *)
(***************************************************************************)
(* Every step but the verification leaves the marks of the shards alone.   *)
SameMarks ==
  /\ \A n \in DOMAIN release :
       /\ n \in DOMAIN release'
       /\ release'[n].pub = release[n].pub /\ release'[n].shard = release[n].shard
       /\ "verified" \in release'[n].met <=> "verified" \in release[n].met
  /\ \A n \in DOMAIN release' \ DOMAIN release : "verified" \notin release'[n].met /\ release'[n].shard = 0

LEMMA MarksKinds ==
  ASSUME IInv, [Next]_vars
  PROVE  \/ SameMarks /\ UNCHANGED shards /\ batch' \in {batch, {}}
         \/ SealShard
         \/ \E b \in batch : Verifying(b)
<1> USE DEF IInv
<1>1. CASE CommitBatch
  <2>1. PICK m \in Seqs, c \in Compartments : Committed(m, c)
    BY <1>1, CommitFacts
  <2>2. SameMarks
    BY <2>1, Zenon DEF Committed, SameMarks
  <2> QED BY <2>1, <2>2 DEF Committed
<1>2. CASE Told
  <2>1. PICK n \in Seqs, k \in Conditions \ {"verified"} : Recorded(n, k, release[n].shard)
    BY <1>2 DEF Told
  <2>2. "verified" \in release[n].met \cup {k} <=> "verified" \in release[n].met
    OBVIOUS
  <2>3. SameMarks
    BY <2>1, <2>2, Zenon DEF Recorded, SameMarks
  <2> QED BY <1>2, <2>3 DEF Told
<1>3. ASSUME NEW n \in Seqs, Reclaiming(n)
      PROVE  SameMarks /\ UNCHANGED shards /\ batch' \in {batch, {}}
  <2>1. SameMarks
    BY <1>3, Zenon DEF Reclaiming, SameMarks
  <2> QED BY <1>3, <2>1 DEF Reclaiming
<1>4. CASE Quiet
  BY <1>4 DEF Quiet, SameMarks
<1> QED BY <1>1, <1>2, <1>3, <1>4, StepKinds

LEMMA VerifiedStays ==
  ASSUME SameMarks, NEW n
  PROVE  Verified(n, release') <=> Verified(n, release)
BY DEF SameMarks, Verified

(* The shard sealed now has another id than those that hold verified rows. *)
LEMMA SealKeeps ==
  ASSUME TypeOK, SealShard, NEW id, NEW p, Sealed(id, p, shards), Verified(id, release)
  PROVE  Sealed(id, p, shards')
<1>1. PICK views \in SUBSET Views : Sealing(views) /\ \E view \in views : view.seq = ShardId(views)
  BY SealFacts
<1>2. PICK view \in views : view.seq = ShardId(views)
  BY <1>1
<1>3. "verified" \notin release[view.seq].met
  BY <1>1, ListedFacts DEF Sealing
<1>4. id # ShardId(views)
  BY <1>2, <1>3 DEF Verified
<1> QED BY <1>1, <1>4 DEF Sealing, Sealed

LEMMA VerifiedStep == IInv /\ [Next]_vars => VerifiedIsSealed'
<1> SUFFICES ASSUME IInv, [Next]_vars, NEW n \in DOMAIN release'
             PROVE  IF "verified" \in release'[n].met
                    THEN /\ Sealed(release'[n].shard, release'[n].pub, shards')
                         /\ Verified(release'[n].shard, release')
                    ELSE release'[n].shard = 0
  BY Zenon DEF VerifiedIsSealed, Sealed, Verified
<1> USE DEF IInv
<1>0. ASSUME NEW m \in DOMAIN release, "verified" \in release[m].met
      PROVE  Sealed(release[m].shard, release[m].pub, shards) /\ Verified(release[m].shard, release)
  BY <1>0 DEF VerifiedIsSealed
<1>1. CASE SameMarks /\ UNCHANGED shards
  <2>1. CASE n \in DOMAIN release
    <3>1. release'[n].pub = release[n].pub /\ release'[n].shard = release[n].shard
      BY <1>1, <2>1 DEF SameMarks
    <3>2. "verified" \in release'[n].met <=> "verified" \in release[n].met
      BY <1>1, <2>1 DEF SameMarks
    <3> QED BY <1>0, <1>1, <2>1, <3>1, <3>2, VerifiedStays DEF VerifiedIsSealed
  <2>2. CASE n \notin DOMAIN release
    BY <1>1, <2>2 DEF SameMarks
  <2> QED BY <2>1, <2>2
<1>2. CASE SealShard
  <2>1. UNCHANGED release
    BY <1>2 DEF SealShard
  <2> QED BY <1>0, <1>2, <2>1, SealKeeps DEF VerifiedIsSealed
<1>3. ASSUME NEW b \in batch, Verifying(b)
      PROVE  IF "verified" \in release'[n].met
             THEN /\ Sealed(release'[n].shard, release'[n].pub, shards')
                  /\ Verified(release'[n].shard, release')
             ELSE release'[n].shard = 0
  <2> DEFINE m == b.view.seq
  <2>1. Recorded(m, "verified", b.shard) /\ shards' = shards
    BY <1>3 DEF Verifying
  <2>2. n \in DOMAIN release
    BY <2>1 DEF Recorded
  <2>3. \A o : Verified(o, release) => Verified(o, release')
    BY <2>1 DEF Recorded, Verified
  <2>4. CASE n = m
    <3>1. Verified(m, release')
      BY <2>1, Zenon DEF Recorded, Verified
    <3>2. Sealed(b.shard, release[m].pub, shards)
      BY <1>3 DEF BatchIsSealed, ViewsAreBehind, Behind
    <3>3. Verified(b.shard, release')
      <4>1. CASE Verified(b.shard, release)
        BY <2>3, <4>1
      <4>2. ASSUME NEW o \in batch, o.view.seq = b.shard PROVE Verified(b.shard, release')
        <5>1. m <= o.view.seq /\ b.shard <= m
          BY <1>3 DEF Verifying, BatchIsSealed
        <5>2. m \in Nat /\ b.shard \in Nat
          BY TypeParts DEF TypeOK, Seqs, Views
        <5>3. m = b.shard
          BY <4>2, <5>1, <5>2
        <5> QED BY <3>1, <5>3
      <4> QED BY <4>1, <4>2 DEF BatchIsSealed
    <3>4. release'[n].shard = b.shard /\ release'[n].pub = release[m].pub /\ "verified" \in release'[n].met
      BY <2>1, <2>4, <3>1, Zenon DEF Recorded, Verified
    <3> QED BY <2>1, <3>2, <3>3, <3>4
  <2>5. CASE n # m
    <3>1. release'[n] = release[n]
      BY <2>1, <2>2, <2>5 DEF Recorded
    <3> QED BY <1>0, <2>1, <2>2, <2>3, <3>1 DEF VerifiedIsSealed
  <2> QED BY <2>4, <2>5
<1> QED BY <1>1, <1>2, <1>3, MarksKinds

LEMMA BatchStep == IInv /\ [Next]_vars => BatchIsSealed'
<1> SUFFICES ASSUME IInv, [Next]_vars PROVE BatchIsSealed'
  OBVIOUS
<1> USE DEF IInv
<1>0. ASSUME \A b \in batch' :
               /\ Sealed(b.shard, b.view.pub, shards') /\ ~ Verified(b.view.seq, release')
               /\ b.shard <= b.view.seq
               /\ Verified(b.shard, release') \/ \E o \in batch' : o.view.seq = b.shard,
             \A b, o \in batch' : b.view.seq = o.view.seq => b = o
      PROVE  BatchIsSealed'
  BY <1>0, Zenon DEF BatchIsSealed, Sealed, Verified
<1>1. CASE SameMarks /\ UNCHANGED shards /\ batch' \in {batch, {}}
  BY <1>0, <1>1, VerifiedStays DEF BatchIsSealed
<1>2. CASE SealShard
  <2>1. PICK views \in SUBSET Views :
          /\ Sealing(views) /\ \E view \in views : view.seq = ShardId(views)
          /\ \A view \in views : ShardId(views) <= view.seq
    BY <1>2, SealFacts
  <2> DEFINE id == ShardId(views)
             sealed == [id |-> id, pubs |-> {view.pub : view \in views}]
  <2>2. sealed.id = id /\ \A view \in views : view.pub \in sealed.pubs
    OBVIOUS
  <2>3. sealed \in shards'
    BY <2>1 DEF Sealing
  <2>4. \A view \in views : Sealed(id, view.pub, shards')
    BY <2>2, <2>3 DEF Sealed
  <2>5. \A view \in views : view \in ReleaseViews /\ "verified" \notin view.met
    BY <2>1 DEF Sealing
  <2>6. \A view \in views : ~ Verified(view.seq, release')
    BY <2>1, <2>5, ListedFacts DEF Sealing, Verified
  <2>7. \A v, w \in views : v.seq = w.seq => v = w
    <3> SUFFICES ASSUME NEW v \in views, NEW w \in views, v.seq = w.seq PROVE v = w
      OBVIOUS
    <3>1. /\ v.pub = release[v.seq].pub /\ v.met = release[v.seq].met /\ v.shard = release[v.seq].shard
          /\ w.pub = release[w.seq].pub /\ w.met = release[w.seq].met /\ w.shard = release[w.seq].shard
      BY <2>5, ListedFacts
    <3> QED BY <3>1 DEF Views
  <2> HIDE DEF id, sealed
  <2>8. batch' = {[view |-> view, shard |-> id] : view \in views}
    BY <2>1 DEF Sealing, id
  <2>9. /\ \A b \in batch' : b.shard = id /\ b.view \in views /\ b = [view |-> b.view, shard |-> id]
        /\ \A view \in views : \E b \in batch' : b.view = view
    <3>1. ASSUME NEW b \in batch'
          PROVE  b.shard = id /\ b.view \in views /\ b = [view |-> b.view, shard |-> id]
      <4>1. PICK view \in views : b = [view |-> view, shard |-> id]
        BY <2>8
      <4>2. b.shard = id /\ b.view = view
        BY <4>1
      <4> QED BY <4>1, <4>2, Zenon
    <3>2. ASSUME NEW view \in views PROVE \E b \in batch' : b.view = view
      <4>1. [view |-> view, shard |-> id] \in batch'
        BY <2>8
      <4>2. [view |-> view, shard |-> id].view = view
        OBVIOUS
      <4> QED BY <4>1, <4>2, Zenon
    <3> QED BY <3>1, <3>2
  <2>10. \A b \in batch' : \E o \in batch' : o.view.seq = b.shard
    BY <2>1, <2>9 DEF id
  <2>11. \A b \in batch' : b.shard <= b.view.seq
    BY <2>1, <2>9 DEF id
  <2> QED BY <1>0, <2>4, <2>6, <2>7, <2>9, <2>10, <2>11
<1>3. ASSUME NEW b \in batch, Verifying(b) PROVE BatchIsSealed'
  <2>1. Recorded(b.view.seq, "verified", b.shard) /\ shards' = shards /\ batch' = batch \ {b}
    BY <1>3 DEF Verifying
  <2>2. \A o \in batch' : o \in batch /\ o.view.seq # b.view.seq
    BY <2>1 DEF BatchIsSealed
  <2>3. \A n : Verified(n, release) => Verified(n, release')
    BY <2>1 DEF Recorded, Verified
  <2>4. \A n : n # b.view.seq => (Verified(n, release') => Verified(n, release))
    BY <2>1 DEF Recorded, Verified
  <2>5. Verified(b.view.seq, release')
    BY <2>1, Zenon DEF Recorded, Verified
  <2>6. ASSUME NEW o \in batch'
        PROVE  Verified(o.shard, release') \/ \E q \in batch' : q.view.seq = o.shard
    <3>1. Verified(o.shard, release) \/ \E q \in batch : q.view.seq = o.shard
      BY <2>2 DEF BatchIsSealed
    <3> QED BY <2>1, <2>3, <2>5, <3>1
  <2> QED BY <1>0, <2>1, <2>2, <2>4, <2>6 DEF BatchIsSealed
<1> QED BY <1>1, <1>2, <1>3, MarksKinds

(***************************************************************************)
(* The invariant and what follows from it.                                 *)
(***************************************************************************)
LEMMA InvInit == Init => IInv
<1> SUFFICES ASSUME Init PROVE IInv
  OBVIOUS
<1>1. DOMAIN release = {}
  BY DEF Init
<1>2. TypeOK
  BY <1>1, ConstantFacts DEF Init, TypeOK
<1>3. NumbersBounded /\ MetIsTold /\ VerifiedIsSealed /\ BatchIsSealed
  BY <1>1 DEF Init, NumbersBounded, MetIsTold, VerifiedIsSealed, BatchIsSealed
<1>4. RowsAreOwned
  BY <1>1 DEF Init, RowsAreOwned
<1>5. ViewsAreBehind
  BY DEF Init, ViewsAreBehind
<1> QED BY <1>2, <1>3, <1>4, <1>5 DEF IInv

LEMMA InvStep == IInv /\ [Next]_vars => IInv'
<1> SUFFICES ASSUME IInv, [Next]_vars PROVE IInv'
  OBVIOUS
<1>1. TypeOK' /\ NumbersBounded' /\ RowsAreOwned' /\ MetIsTold'
  BY TypeStep, NumbersStep, OwnedStep, ToldStep
<1>2. ViewsAreBehind' /\ VerifiedIsSealed' /\ BatchIsSealed'
  BY BehindStep, VerifiedStep, BatchStep
<1> QED BY <1>1, <1>2 DEF IInv

(* The inductive invariant of the release rows, the views and the shards.  *)
THEOREM RowsInvariant == Spec => []IInv
BY InvInit, InvStep, PTL DEF Spec

(* The types, and that hot rows are unique and have their release row,     *)
(* however often numbers are used again.                                   *)
THEOREM TypeCorrect == Spec => []TypeOK
<1>1. IInv => TypeOK
  BY DEF IInv
<1> QED BY <1>1, RowsInvariant, PTL

(* A compartment that left historian.db met every condition itself and is  *)
(* in a shard of the catalog, for any number of actors with stale views.   *)
THEOREM ReclaimHolds == Spec => []ReclaimedIsReleased
<1>1. IInv => ReclaimedIsReleased
  <2> SUFFICES ASSUME IInv, NEW p \in Gone
               PROVE  /\ \A condition \in Conditions : <<condition, p>> \in told
                      /\ p \in receipts
                      /\ \E s \in shards : p \in s.pubs
    BY DEF ReclaimedIsReleased
  <2> USE DEF IInv
  <2>1. p \in 1..published /\ \A c \in hot : c.pub # p
    BY DEF Gone
  <2>2. PICK n \in DOMAIN release :
          release[n].pub = p /\ release[n].met = Conditions /\ p \in receipts
    BY <2>1, Zenon DEF RowsAreOwned
  <2>3. \A k \in Conditions : <<k, p>> \in told
    BY <2>2 DEF MetIsTold
  <2>4. "verified" \in release[n].met
    BY <2>2 DEF Conditions
  <2>5. Sealed(release[n].shard, p, shards)
    BY <2>2, <2>4 DEF VerifiedIsSealed
  <2> QED BY <2>2, <2>3, <2>5 DEF Sealed
<1> QED BY <1>1, RowsInvariant, PTL

(* What was recorded of a compartment is never taken back.                 *)
THEOREM AdvanceHolds == Spec => ConditionsOnlyAdvance
<1>1. IInv /\ [Next]_vars =>
        [\A c \in DOMAIN release :
           /\ c \in DOMAIN release'
           /\ release[c].met \subseteq release'[c].met
           /\ release[c].pub = release'[c].pub
           /\ release[c].reclaimed => release'[c].reclaimed]_vars
  BY StepAdvances, Zenon DEF Advanced
<1> QED BY <1>1, RowsInvariant, PTL DEF Spec, ConditionsOnlyAdvance
=============================================================================
