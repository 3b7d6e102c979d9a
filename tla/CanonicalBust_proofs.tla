------------------------ MODULE CanonicalBust_proofs ------------------------
(***************************************************************************)
(* Proofs about CanonicalBust, for every value of its constants.           *)
(***************************************************************************)
EXTENDS CanonicalBust, FiniteSetTheorems, WellFoundedInduction, TLAPS

(***************************************************************************)
(* The inductive invariant.                                                *)
(*                                                                         *)
(* Windows follow one another, and nothing is admitted at or below the     *)
(* cursor, so what a compartment tells is fixed when it is committed.  All *)
(* watermarks, recorded or frozen, are therefore ends of compartments and  *)
(* comparable by the number of compartments they represent; a run is never *)
(* behind the ones started before it.                                      *)
(***************************************************************************)
Windows == [from : Seqs, through : Seqs]

Lowest(S) == CHOOSE s \in S : \A t \in S : s <= t
Highest(S) == CHOOSE s \in S : \A t \in S : t <= s

(* The included units of a window, and the end of the first n compartments *)
(* (the state parts are parameters, for the state before and after a step).*)
Told(included, e) == included \cap (e.from .. e.through)
Top(included, es, n) == IF n = 0 THEN 0 ELSE Highest(Told(included, es[n]))

WindowsInOrder ==
  /\ \A i \in DOMAIN entries :
       /\ entries[i].from <= entries[i].through /\ entries[i].through <= processed
       /\ Told(Included, entries[i]) # {}
  /\ \A i, j \in DOMAIN entries : i < j => entries[i].through < entries[j].from

ProcessedIsCommitted ==
  /\ processed = 0 \/ processed \in Rows
  /\ \A s \in Included : s <= processed => \E i \in DOMAIN entries : s \in Told(Included, entries[i])
  /\ pump = "ack" => entries # << >>

LivesAreEarned ==
  \A s \in Seqs :
    /\ unit[s] = "absent" <=> life[s] = "none"
    /\ life[s] \in {"pending", "retired"} =>
         \E i \in DOMAIN entries : entries[i].from <= s /\ s <= entries[i].through
    /\ life[s] = "retired" => s <= watermark
    /\ s \in reclaimed => life[s] = "retired"

WatermarkIsTop == \E n \in 0 .. Len(entries) : watermark = Top(Included, entries, n)

(* A frozen run still describes the log it was frozen from.                *)
FrozenHolds(r, included, es) ==
  r.some =>
    /\ r.p3 \in 0 .. Len(es) /\ r.through = Top(included, es, r.p3)
    /\ r.seen \subseteq included /\ r.p5 = {s \in r.seen : s > r.through}
    /\ \A i \in 1 .. r.p3 : r.basis[i] \subseteq Told(included, es[i])

RunsHold == \A r \in {run, generation} \cup orphans : FrozenHolds(r, Included, entries)

(* One run at a time; older ones, whose service was closed, lag behind it. *)
Behind(r, g) == g.some => r.through <= g.through
RunsAreOrdered ==
  /\ run.some => ~ generation.some /\ watermark <= run.through
  /\ generation.some => generation.through = watermark
  /\ \A o \in orphans : o.some /\ Behind(o, run) /\ Behind(o, generation)

IInv == /\ TypeOK /\ WindowsInOrder /\ ProcessedIsCommitted /\ LivesAreEarned
        /\ WatermarkIsTop /\ RunsHold /\ RunsAreOrdered

(***************************************************************************)
(* Least and greatest numbers of a set, and the spans of compartments.     *)
(***************************************************************************)
LEMMA ConstantFacts ==
  /\ MaxSeq \in Nat /\ LegacyHead \in Nat /\ MaxFaults \in Nat /\ MaxCloses \in Nat
  /\ MaxPending \in Nat /\ MaxPending >= 1
  /\ Seqs \subseteq Nat /\ \A s \in Seqs : 1 <= s /\ s <= MaxSeq
BY BustAssumption DEF BustAssumption, Seqs

(* Natural numbers are well ordered.                                       *)
LEMMA Least ==
  ASSUME NEW S \in SUBSET Nat, S # {}
  PROVE  \E n \in S : \A k \in S : n <= k
<1> DEFINE R == {ss \in Nat \X Nat : ss[1] < ss[2]}
<1>1. IsWellFoundedOn(R, Nat)
  BY NatLessThanWellFounded DEF OpToRel
<1>2. \A k, n \in Nat : k < n => <<k, n>> \in R
  OBVIOUS
<1> HIDE DEF R
<1>3. PICK n \in S : \A k \in S : ~ (<<k, n>> \in R)
  BY <1>1, WFMin
<1>4. \A k \in S : n <= k
  <2> SUFFICES ASSUME NEW k \in S PROVE n <= k
    OBVIOUS
  <2>1. k \in Nat /\ n \in Nat
    OBVIOUS
  <2>2. ~ (k < n)
    BY <1>2, <1>3, <2>1, Zenon
  <2> QED BY <2>1, <2>2
<1> QED BY <1>4

LEMMA LowestFacts ==
  ASSUME NEW S \in SUBSET Seqs, S # {}
  PROVE  Lowest(S) \in S /\ \A s \in S : Lowest(S) <= s
<1>1. \E n \in S : \A k \in S : n <= k
  BY ConstantFacts, Least
<1> QED BY <1>1 DEF Lowest

(* The greatest is the least of the upper bounds.                          *)
LEMMA HighestFacts ==
  ASSUME NEW S \in SUBSET Seqs, S # {}
  PROVE  Highest(S) \in S /\ \A s \in S : s <= Highest(S)
<1> DEFINE uppers == {n \in 0..MaxSeq : \A s \in S : s <= n}
<1> USE ConstantFacts DEF Seqs
<1>1. PICK n \in uppers : \A k \in uppers : n <= k
  <2>1. uppers \in SUBSET Nat /\ uppers # {}
    <3>1. MaxSeq \in uppers
      OBVIOUS
    <3> QED BY <3>1
  <2> HIDE DEF uppers
  <2> QED BY <2>1, Least
<1>2. n \in S
  <2> SUFFICES ASSUME n \notin S PROVE FALSE
    OBVIOUS
  <2>1. \A s \in S : s \in Nat /\ 1 <= s /\ s <= n /\ s # n
    BY <1>1
  <2>2. n \in Nat /\ \E s \in S : s \in S
    <3>1. \E s : s \in S
      BY Zenon
    <3> QED BY <3>1, <1>1
  <2>4. n # 0 /\ \A s \in S : s <= n - 1
    BY <2>1, <2>2
  <2>3. n - 1 \in uppers
    BY <1>1, <2>2, <2>4
  <2> QED BY <1>1, <2>2, <2>3
<1>3. \E m \in S : \A s \in S : s <= m
  BY <1>2
<1> QED BY <1>3 DEF Highest

LEMMA EntriesType ==
  ASSUME TypeOK
  PROVE  /\ entries \in Seq(Windows) /\ Len(entries) \in Nat /\ DOMAIN entries = 1 .. Len(entries)
         /\ processed \in Nat /\ watermark \in Nat
         /\ \A i \in DOMAIN entries :
              /\ entries[i] \in Windows
              /\ entries[i].from \in Seqs /\ entries[i].through \in Seqs
              /\ entries[i].from \in Nat /\ entries[i].through \in Nat
<1>1. entries \in Seq(Windows) /\ processed \in 0..MaxSeq /\ watermark \in 0..MaxSeq
  BY DEF TypeOK, Windows
<1>2. /\ Len(entries) \in Nat /\ DOMAIN entries = 1 .. Len(entries)
      /\ \A i \in DOMAIN entries : entries[i] \in Windows
  BY <1>1
<1>3. \A e \in Windows : e.from \in Seqs /\ e.through \in Seqs
  BY DEF Windows
<1>4. processed \in Nat /\ watermark \in Nat
  BY <1>1, ConstantFacts
<1>5. \A i \in DOMAIN entries : entries[i].from \in Seqs /\ entries[i].through \in Seqs
  BY <1>2, <1>3
<1> QED BY <1>1, <1>2, <1>4, <1>5, ConstantFacts

(* A compartment spans its included units.                                 *)
LEMMA SpanFacts ==
  ASSUME TypeOK, NEW i \in DOMAIN entries, Told(Included, entries[i]) # {}
  PROVE  /\ EndOf(entries[i]) = Highest(Told(Included, entries[i]))
         /\ EndOf(entries[i]) \in Told(Included, entries[i])
         /\ \A s \in Told(Included, entries[i]) : s <= EndOf(entries[i])
         /\ Told(Included, entries[i]) \subseteq Span(entries[i])
         /\ \A s \in Span(entries[i]) :
              s \in Nat /\ entries[i].from <= s /\ s <= entries[i].through
<1> DEFINE W == Told(Included, entries[i])
<1>1. InWindow(entries[i]) = W
  BY DEF InWindow, Told
<1>2. W \in SUBSET Seqs /\ W # {}
  BY DEF Told, Included
<1>3. entries[i] \in Windows /\ entries[i].from \in Nat /\ entries[i].through \in Nat
  BY EntriesType
<1>4. StartOf(entries[i]) = Lowest(W) /\ EndOf(entries[i]) = Highest(W)
  BY <1>1, Zenon DEF StartOf, EndOf, Lowest, Highest
<1>5. \A s \in W : s \in Nat /\ entries[i].from <= s /\ s <= entries[i].through
  BY <1>2, <1>3, ConstantFacts DEF Told
<1>6. Span(entries[i]) = Lowest(W) .. Highest(W)
  BY <1>4 DEF Span
<1> HIDE DEF W
<1>7. /\ Lowest(W) \in W /\ Highest(W) \in W
      /\ \A s \in W : Lowest(W) <= s /\ s <= Highest(W)
  BY <1>2, LowestFacts, HighestFacts
<1>8. W \subseteq Span(entries[i])
  BY <1>5, <1>6, <1>7
<1>9. \A s \in Span(entries[i]) : s \in Nat /\ entries[i].from <= s /\ s <= entries[i].through
  <2>1. Lowest(W) \in Nat /\ Highest(W) \in Nat
    BY <1>5, <1>7
  <2> QED BY <1>3, <1>5, <1>6, <1>7, <2>1
<1> QED BY <1>4, <1>7, <1>8, <1>9 DEF W

(* The ends of the compartments ascend.                                    *)
LEMMA TopFacts ==
  ASSUME TypeOK, WindowsInOrder, NEW n \in 0 .. Len(entries)
  PROVE  /\ Top(Included, entries, n) \in 0..MaxSeq
         /\ Top(Included, entries, n) <= processed
         /\ n # 0 => /\ n \in DOMAIN entries
                     /\ Top(Included, entries, n) = EndOf(entries[n])
                     /\ Top(Included, entries, n) <= entries[n].through
         /\ \A m \in 0 .. n : Top(Included, entries, m) <= Top(Included, entries, n)
<1> DEFINE T(m) == Top(Included, entries, m)
<1>1. \A m \in 1 .. Len(entries) :
        /\ m \in DOMAIN entries /\ T(m) = EndOf(entries[m])
        /\ T(m) \in Seqs /\ entries[m].from <= T(m) /\ T(m) <= entries[m].through
  <2> SUFFICES ASSUME NEW m \in 1 .. Len(entries)
               PROVE  /\ m \in DOMAIN entries /\ T(m) = EndOf(entries[m])
                      /\ T(m) \in Seqs /\ entries[m].from <= T(m) /\ T(m) <= entries[m].through
    OBVIOUS
  <2>1. m \in DOMAIN entries /\ m # 0
    BY EntriesType
  <2>2. Told(Included, entries[m]) # {}
    BY <2>1 DEF WindowsInOrder
  <2>3. T(m) = EndOf(entries[m]) /\ T(m) \in Told(Included, entries[m])
    BY <2>1, <2>2, SpanFacts DEF Top
  <2> QED BY <2>1, <2>3, <2>2, SpanFacts DEF Told, Included
<1>2. T(0) = 0
  BY DEF Top
<1>3. Len(entries) \in Nat /\ processed \in Nat /\ DOMAIN entries = 1 .. Len(entries)
  BY EntriesType
<1>4. \A i \in DOMAIN entries : entries[i].from \in Nat /\ entries[i].through \in Nat
  BY EntriesType
<1> HIDE DEF T
<1>8. \A m \in 0 .. Len(entries) : T(m) \in Nat /\ (m # 0 => m \in 1 .. Len(entries))
  <2> SUFFICES ASSUME NEW m \in 0 .. Len(entries)
               PROVE  T(m) \in Nat /\ (m # 0 => m \in 1 .. Len(entries))
    OBVIOUS
  <2>1. m # 0 => m \in 1 .. Len(entries)
    BY <1>3
  <2>2. CASE m = 0
    BY <2>1, <2>2, <1>2
  <2>3. CASE m # 0
    BY <2>1, <2>3, <1>1, ConstantFacts
  <2> QED BY <2>2, <2>3
<1>5. \A m \in 0 .. n : T(m) <= T(n)
  <2> SUFFICES ASSUME NEW m \in 0 .. n PROVE T(m) <= T(n)
    OBVIOUS
  <2>1. CASE m = 0 \/ m = n
    <3>1. T(m) \in Nat /\ T(n) \in Nat
      BY <1>3, <1>8
    <3> QED BY <2>1, <1>2, <3>1
  <2>2. CASE m # 0 /\ m # n
    <3>1. m \in 1 .. Len(entries) /\ n \in 1 .. Len(entries) /\ m < n
      BY <2>2, <1>3
    <3>2. entries[m].through < entries[n].from
      BY <3>1, <1>1 DEF WindowsInOrder
    <3>3. T(m) <= entries[m].through /\ entries[n].from <= T(n)
      BY <3>1, <1>1
    <3>4. /\ T(m) \in Nat /\ T(n) \in Nat
          /\ entries[m].through \in Nat /\ entries[n].from \in Nat
      BY <3>1, <1>1, <1>4, <1>8, <1>3
    <3> QED BY <3>2, <3>3, <3>4
  <2> QED BY <2>1, <2>2
<1>6. n # 0 => T(n) <= processed
  <2> SUFFICES ASSUME n # 0 PROVE T(n) <= processed
    OBVIOUS
  <2>1. n \in 1 .. Len(entries) /\ n \in DOMAIN entries
    BY <1>8, <1>3
  <2>2. T(n) <= entries[n].through /\ entries[n].through <= processed
    BY <2>1, <1>1 DEF WindowsInOrder
  <2> QED BY <2>1, <2>2, <1>3, <1>4, <1>8
<1>7. n # 0 => n \in 1 .. Len(entries)
  BY <1>3
<1> QED BY <1>1, <1>2, <1>3, <1>5, <1>6, <1>7, ConstantFacts DEF T, Seqs

(***************************************************************************)
(* Frames: which actions touch which part of the state.                    *)
(***************************************************************************)
LEMMA UnitFrame == [Next]_vars => AdmitUnit \/ unit' = unit
BY DEF Next, Historian, Bust, Service, CommitWindow, AckCommit, AckFails, ReplayAck,
       EmitCommitted, RequestBust, StartBust, StartBustFails, PublishBust, FailBust,
       OrphanPublishes, ReclaimRetired, CloseContext, OpenContext, Crash, vars, rows

LEMMA LogFrame == [Next]_vars => CommitWindow \/ UNCHANGED <<processed, entries>>
BY DEF Next, Historian, Bust, Service, AdmitUnit, AckCommit, AckFails, ReplayAck,
       EmitCommitted, RequestBust, StartBust, StartBustFails, PublishBust, FailBust,
       OrphanPublishes, ReclaimRetired, CloseContext, OpenContext, Crash, vars, log

(* What a commit appends, if anything.                                     *)
LEMMA CommitFacts ==
  ASSUME TypeOK, CommitWindow
  PROVE  /\ processed' \in Seqs /\ processed' \in Rows /\ processed < processed'
         /\ unit' = unit /\ pump = "idle"
         /\ \/ /\ Told(Included, [from |-> processed + 1, through |-> processed']) # {}
               /\ entries' = Append(entries, [from |-> processed + 1, through |-> processed'])
            \/ /\ Told(Included, [from |-> processed + 1, through |-> processed']) = {}
               /\ entries' = entries /\ pump' = pump
<1>1. PICK t \in Seqs :
        /\ unit[t] \in {"include", "exclude"} /\ processed < t /\ processed' = t
        /\ \/ /\ InWindow([from |-> processed + 1, through |-> t]) # {}
              /\ Log!Publish
           \/ /\ InWindow([from |-> processed + 1, through |-> t]) = {}
              /\ Log!PassOver
              /\ UNCHANGED pump
  BY DEF CommitWindow
<1>2. t \in Rows
  BY <1>1 DEF Rows
<1>3. InWindow([from |-> processed + 1, through |-> t])
        = Told(Included, [from |-> processed + 1, through |-> processed'])
  BY <1>1 DEF InWindow, Told
<1>4. unit' = unit /\ pump = "idle"
  BY DEF CommitWindow, rows
<1> QED BY <1>1, <1>2, <1>3, <1>4 DEF Log!Publish, Log!PassOver

(* A unit is admitted behind all rows, and therefore behind the cursor.    *)
LEMMA AdmitFacts ==
  ASSUME TypeOK, ProcessedIsCommitted, AdmitUnit
  PROVE  \E n \in Seqs :
           /\ processed < n /\ n \notin Rows
           /\ unit'[n] \in {"include", "exclude"} /\ life'[n] = "committed"
           /\ \A s \in Seqs : s # n => unit'[s] = unit[s] /\ life'[s] = life[s]
           /\ unit' \in [Seqs -> Kinds] /\ life' \in [Seqs -> Lives]
<1>1. PICK h \in 0 .. MaxSeq - 1 :
        /\ \A s \in Rows : s <= h
        /\ unit' = [unit EXCEPT ![h + 1] =
                      IF Cardinality(Rows) >= SoftCap THEN "exclude" ELSE "include"]
        /\ life' = [life EXCEPT ![h + 1] = "committed"]
  BY DEF AdmitUnit
<1>2. h \in Nat /\ h + 1 \in Seqs
  BY ConstantFacts DEF Seqs
<1>3. processed < h + 1
  BY <1>1, <1>2, EntriesType DEF ProcessedIsCommitted
<1>4. h + 1 \notin Rows
  BY <1>1, <1>2
<1>5. unit \in [Seqs -> Kinds] /\ life \in [Seqs -> Lives]
  BY DEF TypeOK
<1>6. unit'[h + 1] \in {"include", "exclude"} /\ life'[h + 1] = "committed"
  BY <1>1, <1>2, <1>5
<1>7. \A s \in Seqs : s # h + 1 => unit'[s] = unit[s] /\ life'[s] = life[s]
  BY <1>1, <1>5
<1>8. unit' \in [Seqs -> Kinds] /\ life' \in [Seqs -> Lives]
  BY <1>1, <1>5 DEF Kinds, Lives
<1> QED BY <1>2, <1>3, <1>4, <1>6, <1>7, <1>8

(* The log only grows, and what its entries tell is fixed.                 *)
LEMMA UnitsStay ==
  ASSUME TypeOK, ProcessedIsCommitted, [Next]_vars
  PROVE  /\ Rows \subseteq Rows' /\ Included \subseteq Included'
         /\ \A s \in Seqs : s <= processed => unit'[s] = unit[s]
         /\ \A s \in Included' : s <= processed => s \in Included
<1>1. CASE unit' = unit
  BY <1>1 DEF Rows, Included
<1>2. CASE AdmitUnit
  <2>1. PICK n \in Seqs :
          /\ processed < n /\ n \notin Rows
          /\ \A s \in Seqs : s # n => unit'[s] = unit[s]
    BY <1>2, AdmitFacts
  <2>2. \A s \in Seqs : s <= processed => unit'[s] = unit[s]
    <3> SUFFICES ASSUME NEW s \in Seqs, s <= processed PROVE unit'[s] = unit[s]
      OBVIOUS
    <3>1. s \in Nat /\ n \in Nat /\ processed \in Nat
      BY EntriesType, ConstantFacts
    <3>2. s # n
      BY <2>1, <3>1
    <3> QED BY <2>1, <3>2
  <2>3. Rows \subseteq Rows' /\ Included \subseteq Included'
    BY <2>1 DEF Rows, Included
  <2> QED BY <2>2, <2>3 DEF Included
<1> QED BY <1>1, <1>2, UnitFrame

LEMMA LogGrows ==
  ASSUME TypeOK, WindowsInOrder, ProcessedIsCommitted, [Next]_vars
  PROVE  /\ Len(entries) <= Len(entries') /\ processed <= processed'
         /\ \A i \in DOMAIN entries :
              /\ i \in DOMAIN entries' /\ entries'[i] = entries[i]
              /\ Told(Included', entries[i]) = Told(Included, entries[i])
         /\ \A n \in 0 .. Len(entries) : Top(Included', entries', n) = Top(Included, entries, n)
<1>1. /\ Len(entries) <= Len(entries') /\ processed <= processed'
      /\ \A i \in DOMAIN entries : i \in DOMAIN entries' /\ entries'[i] = entries[i]
  <2>1. CASE CommitWindow
    <3>1. processed <= processed'
      <4>1. processed \in Nat /\ processed' \in Nat /\ processed < processed'
        BY <2>1, CommitFacts, EntriesType, ConstantFacts
      <4> QED BY <4>1
    <3>2. CASE entries' = entries
      BY <3>1, <3>2, EntriesType
    <3>3. CASE entries' = Append(entries, [from |-> processed + 1, through |-> processed'])
      <4>1. [from |-> processed + 1, through |-> processed'] \in Windows
        BY <2>1, CommitFacts, EntriesType, ConstantFacts DEF Windows, Seqs
      <4> HIDE DEF Windows
      <4> QED BY <3>1, <3>3, <4>1, EntriesType
    <3> QED BY <2>1, <3>2, <3>3, CommitFacts
  <2>2. CASE UNCHANGED <<processed, entries>>
    BY <2>2, EntriesType
  <2> QED BY <2>1, <2>2, LogFrame
<1>2. ASSUME NEW i \in DOMAIN entries
      PROVE  Told(Included', entries[i]) = Told(Included, entries[i])
  <2>1. /\ entries[i].from \in Nat /\ entries[i].through \in Nat
        /\ entries[i].through <= processed /\ processed \in Nat
    BY EntriesType DEF WindowsInOrder
  <2>2. \A s \in entries[i].from .. entries[i].through : s <= processed
    BY <2>1
  <2> QED BY <2>2, UnitsStay DEF Told
<1>3. \A n \in 0 .. Len(entries) : n # 0 => n \in DOMAIN entries
  BY EntriesType
<1>4. \A n \in 0 .. Len(entries) : Top(Included', entries', n) = Top(Included, entries, n)
  BY <1>1, <1>2, <1>3, Zenon DEF Top
<1> QED BY <1>1, <1>2, <1>4

(* Acknowledged rows lie in a window, retired ones at or below the mark.   *)
LEMMA LifeKinds ==
  ASSUME IInv, [Next]_vars
  PROVE  \/ AdmitUnit
         \/ /\ \E i \in DOMAIN entries : Acknowledge(entries[i])
            /\ UNCHANGED <<unit, reclaimed, watermark>>
         \/ /\ \E r \in {run} \cup orphans : r.some /\ MarkRepresentedAndRetired(r.through)
            /\ UNCHANGED <<unit, reclaimed>>
         \/ /\ UNCHANGED <<unit, life, watermark>>
            /\ \A s \in reclaimed' : s \in reclaimed \/ life[s] = "retired"
<1>1. CASE AckCommit \/ AckFails
  <2>1. Len(entries) \in DOMAIN entries
    <3>1. entries # << >>
      BY <1>1 DEF IInv, ProcessedIsCommitted, AckCommit, AckFails
    <3> QED BY <3>1, EntriesType DEF IInv
  <2> QED BY <1>1, <2>1 DEF AckCommit, AckFails
<1>2. CASE ReplayAck
  BY <1>2 DEF ReplayAck
<1>3. CASE PublishBust
  BY <1>3 DEF PublishBust
<1>4. CASE OrphanPublishes
  BY <1>4 DEF OrphanPublishes, IInv, RunsAreOrdered
<1>5. CASE ReclaimRetired
  BY <1>5 DEF ReclaimRetired
<1>6. CASE UNCHANGED <<unit, life, reclaimed, watermark>>
  BY <1>6
<1> QED
  BY <1>1, <1>2, <1>3, <1>4, <1>5, <1>6
  DEF Next, Historian, Bust, Service, CommitWindow, EmitCommitted, RequestBust, StartBust,
      StartBustFails, FailBust, CloseContext, OpenContext, Crash, vars, rows

(* Every run and generation after a step is a new one, none, or an old one.*)
LEMMA RunsFrame ==
  ASSUME [Next]_vars, NEW r \in {run', generation'} \cup orphans'
  PROVE  (StartBust /\ r = Frozen) \/ r = NoRun \/ r \in {run, generation} \cup orphans
BY DEF Next, Historian, Bust, Service, CommitWindow, AdmitUnit, AckCommit, AckFails, ReplayAck,
       EmitCommitted, RequestBust, StartBust, StartBustFails, PublishBust, FailBust,
       OrphanPublishes, ReclaimRetired, CloseContext, OpenContext, Crash, vars, coordinator

(***************************************************************************)
(* The steps.                                                              *)
(***************************************************************************)
LEMMA OrderStep == IInv /\ [Next]_vars => WindowsInOrder'
<1> SUFFICES ASSUME IInv, [Next]_vars PROVE WindowsInOrder'
  OBVIOUS
<1> USE DEF IInv
<1>1. /\ processed <= processed' /\ processed \in Nat /\ processed' \in Nat
  <2>1. CASE CommitWindow
    BY <2>1, CommitFacts, EntriesType, LogGrows, ConstantFacts
  <2>2. CASE UNCHANGED <<processed, entries>>
    BY <2>2, EntriesType
  <2> QED BY <2>1, <2>2, LogFrame
<1>2. \A i \in DOMAIN entries :
        /\ entries'[i].from <= entries'[i].through /\ entries'[i].through <= processed'
        /\ Told(Included', entries'[i]) # {}
        /\ entries'[i].through \in Nat /\ entries'[i].through <= processed
  <2> SUFFICES ASSUME NEW i \in DOMAIN entries
               PROVE  /\ entries'[i].from <= entries'[i].through /\ entries'[i].through <= processed'
                      /\ Told(Included', entries'[i]) # {}
                      /\ entries'[i].through \in Nat /\ entries'[i].through <= processed
    OBVIOUS
  <2>1. entries'[i] = entries[i] /\ Told(Included', entries'[i]) = Told(Included, entries[i])
    BY LogGrows
  <2>2. /\ entries[i].through \in Nat /\ entries[i].from <= entries[i].through
        /\ entries[i].through <= processed /\ Told(Included, entries[i]) # {}
    BY EntriesType DEF WindowsInOrder
  <2> QED BY <1>1, <2>1, <2>2
<1>3. \A i, j \in DOMAIN entries : i < j => entries'[i].through < entries'[j].from
  <2>1. \A i \in DOMAIN entries : entries'[i] = entries[i]
    BY LogGrows
  <2> QED BY <2>1 DEF WindowsInOrder
<1>4. CASE entries' = entries
  BY <1>2, <1>3, <1>4 DEF WindowsInOrder
<1>5. CASE CommitWindow /\ entries' # entries
  <2> DEFINE e == [from |-> processed + 1, through |-> processed']
             last == Len(entries) + 1
  <2>1. Told(Included, e) # {} /\ entries' = Append(entries, e) /\ unit' = unit
        /\ processed < processed'
    BY <1>5, CommitFacts
  <2>2. Included' = Included
    BY <2>1 DEF Included
  <2>3. DOMAIN entries' = (DOMAIN entries) \cup {last} /\ entries'[last] = e
        /\ \A i \in DOMAIN entries : i < last
    <3>1. e \in Windows
      BY <1>5, CommitFacts, EntriesType, ConstantFacts DEF Windows, Seqs
    <3> HIDE DEF e, Windows
    <3> QED BY <2>1, <3>1, EntriesType
  <2>4. e.from = processed + 1 /\ e.through = processed'
    OBVIOUS
  <2> HIDE DEF e, last
  <2>5. Told(Included', entries'[last]) # {} /\ entries'[last].from <= entries'[last].through
        /\ entries'[last].through <= processed'
    BY <1>1, <2>1, <2>2, <2>3, <2>4
  <2>6. \A i \in DOMAIN entries : entries'[i].through < entries'[last].from
    BY <1>1, <1>2, <2>3, <2>4
  <2>7. \A i \in DOMAIN entries' : i \in DOMAIN entries \/ i = last
    BY <2>3
  <2>8. \A i, j \in DOMAIN entries' : i < j => entries'[i].through < entries'[j].from
    <3> SUFFICES ASSUME NEW i \in DOMAIN entries', NEW j \in DOMAIN entries', i < j
                 PROVE  entries'[i].through < entries'[j].from
      OBVIOUS
    <3>1. i # last
      <4>1. \A k \in DOMAIN entries : ~ (last < k)
        BY EntriesType DEF last
      <4>2. ~ (last < last)
        BY EntriesType DEF last
      <4> QED BY <4>1, <4>2, <2>7
    <3> QED BY <3>1, <1>3, <2>6, <2>7
  <2> QED BY <1>2, <2>5, <2>7, <2>8 DEF WindowsInOrder
<1>6. CASE UNCHANGED <<processed, entries>>
  BY <1>4, <1>6
<1> QED BY <1>4, <1>5, <1>6, LogFrame

LEMMA CommittedStep == IInv /\ [Next]_vars => ProcessedIsCommitted'
<1> SUFFICES ASSUME IInv, [Next]_vars PROVE ProcessedIsCommitted'
  OBVIOUS
<1> USE DEF IInv
<1>1. processed' = 0 \/ processed' \in Rows'
  <2>1. CASE CommitWindow
    BY <2>1, CommitFacts, UnitsStay
  <2>2. CASE UNCHANGED <<processed, entries>>
    BY <2>2, UnitsStay DEF ProcessedIsCommitted
  <2> QED BY <2>1, <2>2, LogFrame
<1>2. ASSUME NEW s \in Included', s <= processed'
      PROVE  \E i \in DOMAIN entries' : s \in Told(Included', entries'[i])
  <2>1. s \in Seqs /\ s \in Nat /\ processed \in Nat
    BY EntriesType, ConstantFacts DEF Included
  <2>2. CASE s <= processed
    <3>1. s \in Included
      BY <2>2, UnitsStay
    <3>2. PICK i \in DOMAIN entries : s \in Told(Included, entries[i])
      BY <3>1, <2>2 DEF ProcessedIsCommitted
    <3> QED BY <3>2, LogGrows
  <2>3. CASE ~ (s <= processed)
    <3> DEFINE e == [from |-> processed + 1, through |-> processed']
    <3>1. CommitWindow
      BY <1>2, <2>3, LogFrame
    <3>2. Included' = Included /\ processed' \in Nat
      BY <3>1, CommitFacts, ConstantFacts DEF Included
    <3>3. s \in Told(Included, e)
      <4>1. s \in (processed + 1) .. processed'
        BY <1>2, <2>1, <2>3, <3>2
      <4> QED BY <4>1, <3>2 DEF Told
    <3>4. entries' = Append(entries, e)
      BY <3>1, <3>3, CommitFacts
    <3>5. e \in Windows
      BY <3>1, CommitFacts, EntriesType, ConstantFacts DEF Windows, Seqs
    <3> HIDE DEF e, Windows
    <3>6. Len(entries) + 1 \in DOMAIN entries' /\ entries'[Len(entries) + 1] = e
      BY <3>4, <3>5, EntriesType
    <3> QED BY <3>2, <3>3, <3>6
  <2> QED BY <2>2, <2>3
<1>3. pump' = "ack" => entries' # << >>
  <2>1. CASE CommitWindow
    <3>1. CASE entries' = entries /\ pump' = pump
      BY <2>1, <3>1, CommitFacts
    <3>2. CASE entries' = Append(entries, [from |-> processed + 1, through |-> processed'])
      BY <3>2, EntriesType
    <3> QED BY <2>1, <3>1, <3>2, CommitFacts
  <2>2. CASE pump' # "ack" \/ UNCHANGED <<entries, pump>>
    BY <2>2 DEF ProcessedIsCommitted
  <2> QED
    BY <2>1, <2>2
    DEF Next, Historian, Bust, Service, AdmitUnit, AckCommit, AckFails, ReplayAck,
        EmitCommitted, RequestBust, StartBust, StartBustFails, PublishBust, FailBust,
        OrphanPublishes, ReclaimRetired, CloseContext, OpenContext, Crash, vars, log
<1> QED BY <1>1, <1>2, <1>3 DEF ProcessedIsCommitted

(* The bounds of runs are positions.                                       *)
LEMMA RunBounds ==
  ASSUME TypeOK
  PROVE  \A r \in {run, generation} \cup orphans : r.through \in 0..MaxSeq /\ r.through \in Nat
BY ConstantFacts DEF TypeOK, FrozenOK

LEMMA LivesStep == IInv /\ [Next]_vars => LivesAreEarned'
<1> SUFFICES ASSUME IInv, [Next]_vars, NEW s \in Seqs
             PROVE  /\ unit'[s] = "absent" <=> life'[s] = "none"
                    /\ life'[s] \in {"pending", "retired"} =>
                         \E i \in DOMAIN entries' : entries'[i].from <= s /\ s <= entries'[i].through
                    /\ life'[s] = "retired" => s <= watermark'
                    /\ s \in reclaimed' => life'[s] = "retired"
  BY DEF LivesAreEarned
<1> USE DEF IInv
<1>1. /\ unit[s] = "absent" <=> life[s] = "none"
      /\ life[s] \in {"pending", "retired"} =>
           \E i \in DOMAIN entries : entries[i].from <= s /\ s <= entries[i].through
      /\ life[s] = "retired" => s <= watermark
      /\ s \in reclaimed => life[s] = "retired"
  BY DEF LivesAreEarned
<1>2. \A i \in DOMAIN entries : i \in DOMAIN entries' /\ entries'[i] = entries[i]
  BY LogGrows
<1>3. CASE AdmitUnit
  <2>1. PICK n \in Seqs :
          /\ n \notin Rows /\ unit'[n] \in {"include", "exclude"} /\ life'[n] = "committed"
          /\ \A t \in Seqs : t # n => unit'[t] = unit[t] /\ life'[t] = life[t]
    BY <1>3, AdmitFacts
  <2>2. reclaimed' = reclaimed /\ watermark' = watermark
    BY <1>3 DEF AdmitUnit
  <2>3. CASE s = n
    <3>1. unit[s] = "absent"
      BY <2>1, <2>3 DEF Rows
    <3> QED BY <1>1, <2>1, <2>2, <2>3, <3>1
  <2>4. CASE s # n
    <3>1. unit'[s] = unit[s] /\ life'[s] = life[s]
      BY <2>1, <2>4
    <3> QED BY <1>1, <1>2, <2>2, <3>1
  <2> QED BY <2>3, <2>4
<1>4. CASE /\ \E i \in DOMAIN entries : Acknowledge(entries[i])
           /\ UNCHANGED <<unit, reclaimed, watermark>>
  <2>1. PICK i \in DOMAIN entries : Acknowledge(entries[i])
    BY <1>4
  <2>2. CASE s \in entries[i].from .. entries[i].through /\ life[s] = "committed"
    <3>1. life'[s] = "pending"
      BY <2>1, <2>2 DEF Acknowledge
    <3>2. entries[i].from <= s /\ s <= entries[i].through
      BY <2>2, EntriesType
    <3> QED BY <1>1, <1>2, <1>4, <2>2, <3>1, <3>2
  <2>3. CASE ~ (s \in entries[i].from .. entries[i].through /\ life[s] = "committed")
    <3>1. life'[s] = life[s]
      BY <2>1, <2>3 DEF Acknowledge
    <3> QED BY <1>1, <1>2, <1>4, <3>1
  <2> QED BY <2>2, <2>3
<1>5. CASE /\ \E r \in {run} \cup orphans : r.some /\ MarkRepresentedAndRetired(r.through)
           /\ UNCHANGED <<unit, reclaimed>>
  <2>1. PICK r \in {run} \cup orphans : MarkRepresentedAndRetired(r.through)
    BY <1>5
  <2>2. r.through \in Nat /\ watermark \in Nat /\ s \in Nat
    BY RunBounds, EntriesType, ConstantFacts
  <2>3. watermark' = Larger(watermark, r.through)
    BY <2>1 DEF MarkRepresentedAndRetired
  <2>4. s <= watermark => s <= watermark'
    BY <2>2, <2>3 DEF Larger
  <2>5. \/ life'[s] = life[s]
        \/ life[s] = "pending" /\ life'[s] = "retired" /\ s <= watermark'
    BY <2>1, <2>3 DEF MarkRepresentedAndRetired
  <2> QED BY <1>1, <1>2, <1>5, <2>4, <2>5
<1>6. CASE /\ UNCHANGED <<unit, life, watermark>>
           /\ \A t \in reclaimed' : t \in reclaimed \/ life[t] = "retired"
  BY <1>1, <1>2, <1>6
<1> QED BY <1>3, <1>4, <1>5, <1>6, LifeKinds

(* Where the watermark goes: nowhere, or up to the bound of a run.         *)
LEMMA MarkFrame ==
  [Next]_vars => \/ watermark' = watermark
                 \/ /\ PublishBust \/ OrphanPublishes
                    /\ \E r \in {run} \cup orphans : watermark' = Larger(watermark, r.through)
BY DEF Next, Historian, Bust, Service, CommitWindow, AdmitUnit, AckCommit, AckFails, ReplayAck,
       EmitCommitted, RequestBust, StartBust, StartBustFails, PublishBust, FailBust,
       OrphanPublishes, ReclaimRetired, CloseContext, OpenContext, Crash, vars,
       MarkRepresentedAndRetired

(* Every run's bound is the end of a compartment.                          *)
LEMMA TopOfRun ==
  ASSUME IInv, NEW r \in {run, generation} \cup orphans, r.some
  PROVE  \E n \in 0 .. Len(entries) : r.through = Top(Included, entries, n)
BY DEF IInv, RunsHold, FrozenHolds

LEMMA TopStep == IInv /\ [Next]_vars => WatermarkIsTop'
<1> SUFFICES ASSUME IInv, [Next]_vars PROVE WatermarkIsTop'
  OBVIOUS
<1>1. \A n \in 0 .. Len(entries) : n \in 0 .. Len(entries') /\ Top(Included', entries', n) = Top(Included, entries, n)
  <2>1. Len(entries) \in Nat /\ Len(entries) <= Len(entries')
    BY LogGrows, EntriesType DEF IInv
  <2>2. Len(entries') \in Nat
    <3>1. CASE CommitWindow
      <4>1. CASE entries' = entries
        BY <2>1, <4>1
      <4>2. CASE entries' = Append(entries, [from |-> processed + 1, through |-> processed'])
        <5> DEFINE e == [from |-> processed + 1, through |-> processed']
        <5>1. e \in Windows
          BY <3>1, CommitFacts, EntriesType, ConstantFacts DEF Windows, Seqs, IInv
        <5>2. entries' = Append(entries, e)
          BY <4>2
        <5> HIDE DEF e, Windows
        <5> QED BY <5>1, <5>2, EntriesType DEF IInv
      <4> QED BY <3>1, <4>1, <4>2, CommitFacts DEF IInv
    <3>2. CASE UNCHANGED <<processed, entries>>
      BY <2>1, <3>2
    <3> QED BY <3>1, <3>2, LogFrame
  <2> QED BY <2>1, <2>2, LogGrows DEF IInv
<1>2. \E n \in 0 .. Len(entries) : watermark' = Top(Included, entries, n)
  <2>1. CASE watermark' = watermark
    BY <2>1 DEF IInv, WatermarkIsTop
  <2>2. CASE \E r \in {run} \cup orphans : r.some /\ watermark' = Larger(watermark, r.through)
    BY <2>2, TopOfRun DEF IInv, WatermarkIsTop, Larger
  <2> QED BY <2>1, <2>2, MarkFrame DEF PublishBust, OrphanPublishes, IInv, RunsAreOrdered, MarkRepresentedAndRetired
<1> QED BY <1>1, <1>2 DEF WatermarkIsTop

(* What freezeSources freezes describes the log.                           *)
LEMMA HeadFacts ==
  ASSUME IInv
  PROVE  /\ RepresentedHead = Top(Included, entries, Len(entries))
         /\ RepresentedHead \in 0..MaxSeq /\ watermark <= RepresentedHead
         /\ \A r \in {run, generation} \cup orphans : r.some => r.through <= RepresentedHead
<1> USE DEF IInv
<1> DEFINE T(n) == Top(Included, entries, n)
<1>1. Len(entries) \in Nat /\ Len(entries) \in 0 .. Len(entries)
  BY EntriesType
<1>2. PICK n \in 0 .. Len(entries) : watermark = T(n)
  BY DEF WatermarkIsTop
<1>3. /\ \A m \in 0 .. Len(entries) : T(m) <= T(Len(entries))
      /\ T(Len(entries)) \in 0..MaxSeq
      /\ Len(entries) # 0 => T(Len(entries)) = EndOf(entries[Len(entries)])
  BY <1>1, TopFacts
<1>4. T(0) = 0
  BY DEF Top
<1>5. \A r \in {run, generation} \cup orphans : r.some =>
        \E m \in 0 .. Len(entries) : r.through = T(m)
  BY TopOfRun
<1>6. watermark \in Nat
  BY EntriesType
<1>9. entries = << >> <=> Len(entries) = 0
  BY EntriesType
<1> HIDE DEF T
<1>7. RepresentedHead = T(Len(entries))
  <2>1. CASE Len(entries) = 0
    <3>1. n = 0
      BY <2>1
    <3> QED BY <1>2, <1>9, <2>1, <3>1 DEF RepresentedHead
  <2>2. CASE Len(entries) # 0
    <3>1. RepresentedHead = Larger(watermark, T(Len(entries)))
      BY <1>3, <1>9, <2>2 DEF RepresentedHead
    <3>2. watermark <= T(Len(entries)) /\ T(Len(entries)) \in Nat
      BY <1>2, <1>3, ConstantFacts
    <3> QED BY <1>6, <3>1, <3>2 DEF Larger
  <2> QED BY <2>1, <2>2
<1>8. watermark <= T(Len(entries))
  BY <1>2, <1>3
<1> QED BY <1>3, <1>5, <1>7, <1>8 DEF T

LEMMA FrozenFacts ==
  ASSUME IInv
  PROVE  /\ FrozenHolds(Frozen, Included, entries) /\ Frozen.some
         /\ Frozen.through = RepresentedHead
         /\ Frozen.p3 = Len(entries) /\ DOMAIN Frozen.basis = 1 .. Len(entries)
         /\ \A i \in 1 .. Len(entries) : Frozen.basis[i] \subseteq Seqs
         /\ Frozen.p5 \subseteq Seqs /\ Frozen.seen \subseteq Seqs
<1> USE DEF IInv
<1>1. /\ Frozen.p3 = Len(entries) /\ Frozen.through = RepresentedHead
      /\ Frozen.seen = Included /\ Frozen.p5 = LiveAfter(RepresentedHead) /\ Frozen.some
      /\ Frozen.basis = [i \in DOMAIN entries |-> P5Pool \cap Span(entries[i])]
  BY DEF Frozen
<1>2. DOMAIN entries = 1 .. Len(entries) /\ Len(entries) \in Nat
  BY EntriesType
<1>3. LiveAfter(RepresentedHead) = {s \in Included : s > RepresentedHead}
  <2> SUFFICES ASSUME NEW s \in Included, s > RepresentedHead
               PROVE  life[s] \in {"committed", "pending"} /\ s > watermark
    BY DEF LiveAfter, P5Pool
  <2>1. s \in Seqs /\ unit[s] = "include" /\ s \in Nat
    BY ConstantFacts DEF Included
  <2>2. s > watermark
    BY <2>1, HeadFacts, EntriesType, ConstantFacts
  <2>3. ~ (s <= watermark)
    BY <2>1, <2>2, EntriesType
  <2>4. life[s] \in Lives /\ life[s] # "none" /\ life[s] # "retired"
    <3>1. life[s] \in Lives
      BY <2>1 DEF TypeOK
    <3> QED BY <2>1, <2>3, <3>1 DEF LivesAreEarned
  <2> QED BY <2>2, <2>4 DEF Lives
<1>4. \A i \in 1 .. Len(entries) : P5Pool \cap Span(entries[i]) \subseteq Told(Included, entries[i])
  <2> SUFFICES ASSUME NEW i \in 1 .. Len(entries), NEW s \in P5Pool \cap Span(entries[i])
               PROVE  s \in Told(Included, entries[i])
    OBVIOUS
  <2>1. i \in DOMAIN entries /\ Told(Included, entries[i]) # {}
    BY <1>2 DEF WindowsInOrder
  <2>2. s \in Nat /\ entries[i].from <= s /\ s <= entries[i].through
    BY <2>1, SpanFacts
  <2>3. s \in entries[i].from .. entries[i].through
    BY <2>1, <2>2, EntriesType
  <2> QED BY <2>3 DEF P5Pool, Told
<1>5. \A i \in 1 .. Len(entries) : Frozen.basis[i] \subseteq Told(Included, entries[i])
  BY <1>1, <1>2, <1>4
<1>6. Frozen.through = Top(Included, entries, Frozen.p3)
  BY <1>1, HeadFacts
<1>7. FrozenHolds(Frozen, Included, entries)
  <2>1. Frozen.p5 = {s \in Frozen.seen : s > Frozen.through}
    BY <1>1, <1>3
  <2>2. Frozen.p3 \in 0 .. Len(entries)
    BY <1>1, <1>2
  <2>3. \A i \in 1 .. Frozen.p3 : Frozen.basis[i] \subseteq Told(Included, entries[i])
    BY <1>1, <1>5
  <2> QED BY <1>1, <1>6, <2>1, <2>2, <2>3, Zenon DEF FrozenHolds
<1>8. \A i \in 1 .. Len(entries) : Frozen.basis[i] \subseteq Seqs
  BY <1>5 DEF Told, Included
<1>9. Frozen.p5 \subseteq Seqs /\ Frozen.seen \subseteq Seqs
  BY <1>1, <1>3 DEF Included
<1> QED BY <1>1, <1>2, <1>7, <1>8, <1>9

(* A frozen run goes on describing the log while that grows.               *)
LEMMA FrozenStays ==
  ASSUME IInv, [Next]_vars, NEW r, FrozenHolds(r, Included, entries)
  PROVE  FrozenHolds(r, Included', entries')
<1> USE DEF IInv
<1> SUFFICES ASSUME r.some PROVE FrozenHolds(r, Included', entries')
  BY DEF FrozenHolds
<1>1. /\ r.p3 \in 0 .. Len(entries) /\ r.through = Top(Included, entries, r.p3)
      /\ r.seen \subseteq Included /\ r.p5 = {s \in r.seen : s > r.through}
      /\ \A i \in 1 .. r.p3 : r.basis[i] \subseteq Told(Included, entries[i])
  BY DEF FrozenHolds
<1>2. /\ Len(entries) \in Nat /\ Len(entries) <= Len(entries')
      /\ DOMAIN entries = 1 .. Len(entries)
  BY LogGrows, EntriesType
<1>3. r.p3 \in 0 .. Len(entries') /\ \A i \in 1 .. r.p3 : i \in DOMAIN entries
  <2>1. Len(entries') \in Int
    <3>1. CASE entries' = entries
      BY <1>2, <3>1
    <3>2. CASE CommitWindow /\ entries' # entries
      <4> DEFINE e == [from |-> processed + 1, through |-> processed']
      <4>1. e \in Windows
        BY <3>2, CommitFacts, EntriesType, ConstantFacts DEF Windows, Seqs
      <4>2. entries' = Append(entries, e)
        BY <3>2, CommitFacts
      <4> HIDE DEF e, Windows
      <4> QED BY <4>1, <4>2, EntriesType
    <3> QED BY <3>1, <3>2, LogFrame
  <2> QED BY <1>1, <1>2, <2>1
<1>4. r.through = Top(Included', entries', r.p3)
  BY <1>1, LogGrows
<1>5. \A i \in 1 .. r.p3 : r.basis[i] \subseteq Told(Included', entries'[i])
  <2> SUFFICES ASSUME NEW i \in 1 .. r.p3
               PROVE  r.basis[i] \subseteq Told(Included', entries'[i])
    OBVIOUS
  <2>1. i \in DOMAIN entries
    BY <1>3
  <2>2. Told(Included', entries'[i]) = Told(Included, entries[i])
    BY <2>1, LogGrows, Zenon
  <2> QED BY <1>1, <2>2
<1>6. r.seen \subseteq Included'
  BY <1>1, UnitsStay
<1> QED BY <1>1, <1>3, <1>4, <1>5, <1>6, Zenon DEF FrozenHolds

LEMMA RunsStep == IInv /\ [Next]_vars => RunsHold'
<1> SUFFICES ASSUME IInv, [Next]_vars, NEW r \in {run', generation'} \cup orphans'
             PROVE  FrozenHolds(r, Included', entries')
  BY DEF RunsHold
<1>1. FrozenHolds(NoRun, Included, entries)
  BY DEF FrozenHolds, NoRun
<1>2. FrozenHolds(r, Included, entries)
  BY <1>1, RunsFrame, FrozenFacts DEF IInv, RunsHold
<1> QED BY <1>2, FrozenStays

LEMMA OrderedStep == IInv /\ [Next]_vars => RunsAreOrdered'
<1> SUFFICES ASSUME IInv, [Next]_vars PROVE RunsAreOrdered'
  OBVIOUS
<1>1. /\ run.some => ~ generation.some /\ watermark <= run.through
      /\ generation.some => generation.through = watermark
      /\ \A o \in orphans : o.some /\ Behind(o, run) /\ Behind(o, generation)
  BY DEF IInv, RunsAreOrdered
<1>2. NoRun.some = FALSE
  BY DEF NoRun
<1>3. watermark \in Nat /\ \A r \in {run, generation} \cup orphans : r.through \in Nat
  BY RunBounds, EntriesType DEF IInv
<1>4. CASE StartBust
  <2>1. /\ run' = Frozen /\ generation' = NoRun /\ orphans' = orphans /\ watermark' = watermark
    BY <1>4 DEF StartBust
  <2>2. watermark <= Frozen.through /\ \A o \in orphans : o.through <= Frozen.through
    BY <1>1, HeadFacts, FrozenFacts
  <2> QED BY <1>1, <1>2, <2>1, <2>2, Zenon DEF RunsAreOrdered, Behind
<1>5. CASE PublishBust
  <2>1. /\ run.some /\ generation' = run /\ run' = NoRun /\ orphans' = orphans
        /\ watermark' = Larger(watermark, run.through)
    BY <1>5 DEF PublishBust, MarkRepresentedAndRetired
  <2>2. watermark' = run.through
    BY <1>1, <1>3, <2>1 DEF Larger
  <2> QED BY <1>1, <1>2, <2>1, <2>2, Zenon DEF RunsAreOrdered, Behind
<1>6. CASE OrphanPublishes
  <2>1. PICK r \in orphans : watermark' = Larger(watermark, r.through) /\ orphans' = orphans \ {r}
    BY <1>6 DEF OrphanPublishes, MarkRepresentedAndRetired
  <2>2. run' = run /\ generation' = generation
    BY <1>6 DEF OrphanPublishes
  <2>3. run.some => watermark' <= run.through
    BY <1>1, <1>3, <2>1 DEF Larger, Behind
  <2>4. generation.some => watermark' = generation.through
    BY <1>1, <1>3, <2>1 DEF Larger, Behind
  <2>5. \A o \in orphans' : o \in orphans
    BY <2>1
  <2> QED BY <1>1, <2>2, <2>3, <2>4, <2>5, Zenon DEF RunsAreOrdered
<1>7. CASE CloseContext
  <2>1. /\ run' = NoRun /\ generation' = NoRun
        /\ orphans' = IF run.some THEN orphans \cup {run} ELSE orphans
    BY <1>7 DEF CloseContext
  <2>2. \A o \in orphans' : o.some
    BY <1>1, <2>1
  <2> QED BY <1>2, <2>1, <2>2, Zenon DEF RunsAreOrdered, Behind
<1>8. CASE Crash
  BY <1>2, <1>8 DEF Crash, RunsAreOrdered
<1>9. CASE StartBustFails \/ FailBust
  <2>1. /\ ~ run'.some /\ generation' = NoRun /\ orphans' = orphans
    BY <1>2, <1>9 DEF StartBustFails, FailBust
  <2> QED BY <1>1, <1>2, <2>1, Zenon DEF RunsAreOrdered, Behind
<1>10. CASE UNCHANGED <<watermark, run, generation, orphans>>
  BY <1>1, <1>10 DEF RunsAreOrdered, Behind
<1> QED
  BY <1>4, <1>5, <1>6, <1>7, <1>8, <1>9, <1>10
  DEF Next, Historian, Bust, Service, CommitWindow, AdmitUnit, AckCommit, AckFails, ReplayAck,
      EmitCommitted, RequestBust, ReclaimRetired, OpenContext, vars, coordinator

(***************************************************************************)
(* Types.                                                                  *)
(***************************************************************************)
LEMMA CoalescedFacts ==
  ASSUME requests \subseteq Reasons, Cardinality(requests) <= MaxPending, NEW r \in Reasons
  PROVE  Coalesced(r) \subseteq Reasons /\ Cardinality(Coalesced(r)) <= MaxPending
<1>1. IsFiniteSet(Reasons)
  <2>1. Reasons = ({} \cup {"historian_compartment_committed"}) \cup {"operator_requested"}
    BY DEF Reasons
  <2> QED BY <2>1, FS_EmptySet, FS_AddElement, Zenon
<1>2. IsFiniteSet(requests) /\ Cardinality(requests) \in Nat
  BY <1>1, FS_Subset, FS_CardinalityType
<1>3. CASE Cardinality(requests) >= MaxPending
  BY <1>3 DEF Coalesced
<1>4. CASE ~ (Cardinality(requests) >= MaxPending)
  <2>1. Coalesced(r) = requests \cup {r}
    BY <1>4 DEF Coalesced
  <2>2. /\ Cardinality(requests \cup {r}) <= Cardinality(requests) + 1
        /\ Cardinality(requests \cup {r}) \in Nat
    <3>1. /\ IsFiniteSet(requests \cup {r})
          /\ \/ Cardinality(requests \cup {r}) = Cardinality(requests)
             \/ Cardinality(requests \cup {r}) = Cardinality(requests) + 1
      BY <1>2, FS_AddElement
    <3>2. Cardinality(requests \cup {r}) \in Nat
      BY <3>1, FS_CardinalityType
    <3> QED BY <1>2, <3>1, <3>2
  <2> QED BY <2>1, <2>2, <1>2, <1>4, ConstantFacts
<1> QED BY <1>3, <1>4

LEMMA RowsType == IInv /\ [Next]_vars => unit' \in [Seqs -> Kinds] /\ life' \in [Seqs -> Lives]
<1> SUFFICES ASSUME IInv, [Next]_vars
             PROVE  unit' \in [Seqs -> Kinds] /\ life' \in [Seqs -> Lives]
  OBVIOUS
<1>1. unit \in [Seqs -> Kinds] /\ life \in [Seqs -> Lives]
  BY DEF IInv, TypeOK
<1>2. CASE AdmitUnit
  BY <1>2, AdmitFacts DEF IInv
<1>3. CASE UNCHANGED <<unit, life>>
  BY <1>1, <1>3
<1>4. ASSUME NEW i \in DOMAIN entries, Acknowledge(entries[i])
      PROVE  life' \in [Seqs -> Lives]
  BY <1>1, <1>4 DEF Acknowledge, Lives
<1>5. ASSUME NEW r \in {run} \cup orphans, MarkRepresentedAndRetired(r.through)
      PROVE  life' \in [Seqs -> Lives]
  <2>1. \A s \in Seqs : life[s] \in Lives /\ "retired" \in Lives
    BY <1>1 DEF Lives
  <2> QED BY <1>5, <2>1, Zenon DEF MarkRepresentedAndRetired
<1> QED BY <1>1, <1>2, <1>3, <1>4, <1>5, LifeKinds

LEMMA LogType ==
  IInv /\ [Next]_vars =>
    processed' \in 0..MaxSeq /\ entries' \in Seq(Windows) /\ watermark' \in 0..MaxSeq
<1> SUFFICES ASSUME IInv, [Next]_vars
             PROVE  processed' \in 0..MaxSeq /\ entries' \in Seq(Windows) /\ watermark' \in 0..MaxSeq
  OBVIOUS
<1>1. processed \in 0..MaxSeq /\ entries \in Seq(Windows) /\ watermark \in 0..MaxSeq
  BY DEF IInv, TypeOK, Windows
<1>2. watermark' \in 0..MaxSeq
  BY <1>1, MarkFrame, RunBounds DEF IInv, Larger
<1>3. CASE UNCHANGED <<processed, entries>>
  BY <1>1, <1>2, <1>3
<1>4. CASE CommitWindow
  <2> DEFINE e == [from |-> processed + 1, through |-> processed']
  <2>1. e \in Windows /\ processed' \in 0..MaxSeq
    BY <1>4, CommitFacts, EntriesType, ConstantFacts DEF Windows, Seqs, IInv
  <2>2. entries' = entries \/ entries' = Append(entries, e)
    BY <1>4, CommitFacts DEF IInv
  <2> HIDE DEF e, Windows
  <2> QED BY <1>1, <1>2, <2>1, <2>2
<1> QED BY <1>3, <1>4, LogFrame

LEMMA RunsType ==
  IInv /\ [Next]_vars => \A r \in {run', generation'} \cup orphans' : FrozenOK(r)'
<1> SUFFICES ASSUME IInv, [Next]_vars, NEW r \in {run', generation'} \cup orphans'
             PROVE  FrozenOK(r)'
  OBVIOUS
<1>1. Len(entries) \in Nat /\ Len(entries') \in Nat /\ Len(entries) <= Len(entries')
  BY LogType, LogGrows, EntriesType DEF IInv
<1>2. FrozenOK(NoRun)
  <2>1. NoRun.p3 = 0 /\ NoRun.basis = << >> /\ NoRun.p5 = {} /\ NoRun.through = 0
        /\ NoRun.seen = {} /\ NoRun.some = FALSE
    BY DEF NoRun
  <2>2. 0 \in 0 .. Len(entries) /\ 0 \in 0..MaxSeq /\ 1..0 = {}
    BY <1>1, ConstantFacts
  <2>3. DOMAIN << >> = 1..0
    OBVIOUS
  <2> QED BY <2>1, <2>2, <2>3, Zenon DEF FrozenOK
<1>3. FrozenOK(Frozen)
  <2>1. Len(entries) \in 0 .. Len(entries) /\ RepresentedHead \in 0..MaxSeq
    BY <1>1, HeadFacts
  <2>2. Frozen.some \in BOOLEAN
    BY DEF Frozen
  <2> QED BY <2>1, <2>2, FrozenFacts, Zenon DEF FrozenOK
<1>4. FrozenOK(r)
  BY <1>2, <1>3, RunsFrame DEF IInv, TypeOK
<1>5. r.p3 \in 0 .. Len(entries')
  BY <1>1, <1>4 DEF FrozenOK
<1> QED BY <1>4, <1>5, Zenon DEF FrozenOK

LEMMA ConfirmedType == IInv /\ [Next]_vars => confirmed' \subseteq DOMAIN entries'
<1> SUFFICES ASSUME IInv, [Next]_vars PROVE confirmed' \subseteq DOMAIN entries'
  OBVIOUS
<1>1. confirmed \subseteq DOMAIN entries /\ DOMAIN entries \subseteq DOMAIN entries'
  BY LogGrows DEF IInv, TypeOK
<1>2. CASE confirmed' = confirmed
  BY <1>1, <1>2
<1>3. CASE AckCommit
  <2>1. entries # << >>
    BY <1>3 DEF IInv, ProcessedIsCommitted, AckCommit
  <2>2. Len(entries) \in DOMAIN entries
    BY <2>1, EntriesType DEF IInv
  <2> QED BY <1>1, <1>3, <2>2 DEF AckCommit
<1>4. CASE ReplayAck
  BY <1>1, <1>4 DEF ReplayAck
<1> QED
  BY <1>2, <1>3, <1>4
  DEF Next, Historian, Bust, Service, CommitWindow, AdmitUnit, AckFails, EmitCommitted,
      RequestBust, StartBust, StartBustFails, PublishBust, FailBust, OrphanPublishes,
      ReclaimRetired, CloseContext, OpenContext, Crash, vars, log, Log!Publish, Log!PassOver

LEMMA RequestsType ==
  IInv /\ [Next]_vars => requests' \subseteq Reasons /\ Cardinality(requests') <= MaxPending
<1> SUFFICES ASSUME IInv, [Next]_vars
             PROVE  requests' \subseteq Reasons /\ Cardinality(requests') <= MaxPending
  OBVIOUS
<1>1. requests \subseteq Reasons /\ Cardinality(requests) <= MaxPending
  BY DEF IInv, TypeOK
<1>2. CASE requests' = requests
  BY <1>1, <1>2
<1>3. CASE requests' = {}
  BY <1>3, FS_EmptySet, ConstantFacts
<1>4. CASE \E reason \in Reasons : requests' = Coalesced(reason)
  BY <1>1, <1>4, CoalescedFacts
<1> QED
  BY <1>2, <1>3, <1>4
  DEF Next, Historian, Bust, Service, CommitWindow, AdmitUnit, AckCommit, AckFails, ReplayAck,
      EmitCommitted, RequestBust, StartBust, StartBustFails, PublishBust, FailBust,
      OrphanPublishes, ReclaimRetired, CloseContext, OpenContext, Crash, vars, coordinator, Reasons

LEMMA FlagsType ==
  IInv /\ [Next]_vars => /\ pump' \in {"idle", "ack", "event"} /\ open' \in BOOLEAN
                         /\ reclaimed' \subseteq Seqs
                         /\ faults' \in 0..MaxFaults /\ closes' \in 0..MaxCloses
<1> SUFFICES ASSUME IInv, [Next]_vars
             PROVE  /\ pump' \in {"idle", "ack", "event"} /\ open' \in BOOLEAN
                    /\ reclaimed' \subseteq Seqs
                    /\ faults' \in 0..MaxFaults /\ closes' \in 0..MaxCloses
  OBVIOUS
<1>1. /\ pump \in {"idle", "ack", "event"} /\ open \in BOOLEAN /\ reclaimed \subseteq Seqs
      /\ faults \in 0..MaxFaults /\ closes \in 0..MaxCloses
  BY DEF IInv, TypeOK
<1>2. pump' \in {"idle", "ack", "event"}
  BY <1>1
  DEF Next, Historian, Bust, Service, CommitWindow, AdmitUnit, AckCommit, AckFails, ReplayAck,
      EmitCommitted, RequestBust, StartBust, StartBustFails, PublishBust, FailBust,
      OrphanPublishes, ReclaimRetired, CloseContext, OpenContext, Crash, vars
<1>3. open' \in BOOLEAN
  BY <1>1
  DEF Next, Historian, Bust, Service, CommitWindow, AdmitUnit, AckCommit, AckFails, ReplayAck,
      EmitCommitted, RequestBust, StartBust, StartBustFails, PublishBust, FailBust,
      OrphanPublishes, ReclaimRetired, CloseContext, OpenContext, Crash, vars
<1>4. faults' \in 0..MaxFaults /\ closes' \in 0..MaxCloses
  <2>1. Fault => faults' \in 0..MaxFaults
    BY <1>1, ConstantFacts DEF Fault
  <2>2. CloseContext => faults' = faults /\ closes' \in 0..MaxCloses
    BY <1>1, ConstantFacts DEF CloseContext
  <2>3. CloseContext \/ (Fault /\ closes' = closes) \/ UNCHANGED bounds
    BY DEF Next, Historian, Bust, Service, CommitWindow, AdmitUnit, AckCommit, AckFails, ReplayAck,
        EmitCommitted, RequestBust, StartBust, StartBustFails, PublishBust, FailBust,
        OrphanPublishes, ReclaimRetired, OpenContext, Crash, vars, bounds
  <2> QED BY <1>1, <2>1, <2>2, <2>3 DEF bounds
<1>5. reclaimed' \subseteq Seqs
  <2>1. CASE ReclaimRetired
    <3>1. PICK t \in Seqs : reclaimed' = reclaimed \cup
            {s \in 1..t : life[s] = "retired" /\ unit[s] # "legacy"}
      BY <2>1 DEF ReclaimRetired
    <3>2. 1..t \subseteq Seqs
      BY ConstantFacts DEF Seqs
    <3> QED BY <1>1, <3>1, <3>2
  <2>2. CASE reclaimed' = reclaimed
    BY <1>1, <2>2
  <2> QED
    BY <2>1, <2>2
    DEF Next, Historian, Bust, Service, CommitWindow, AdmitUnit, AckCommit, AckFails, ReplayAck,
        EmitCommitted, RequestBust, StartBust, StartBustFails, PublishBust, FailBust,
        OrphanPublishes, CloseContext, OpenContext, Crash, vars, rows
<1> QED BY <1>2, <1>3, <1>4, <1>5

LEMMA TypeStep == IInv /\ [Next]_vars => TypeOK'
BY RowsType, LogType, RunsType, ConfirmedType, RequestsType, FlagsType DEF TypeOK, Windows

LEMMA InvInit == Init => IInv
<1> SUFFICES ASSUME Init PROVE IInv
  OBVIOUS
<1>1. /\ processed = 0 /\ entries = << >> /\ confirmed = {} /\ watermark = 0 /\ pump = "idle"
      /\ open = TRUE /\ reclaimed = {} /\ requests = {} /\ run = NoRun /\ orphans = {}
      /\ generation = NoRun /\ faults = 0 /\ closes = 0 /\ unit \in [Seqs -> Kinds]
      /\ life = [s \in Seqs |-> IF unit[s] = "absent" THEN "none" ELSE "committed"]
  BY DEF Init, Log!LogInit
<1>2. entries \in Seq(Windows) /\ Len(entries) = 0 /\ DOMAIN entries = {}
  BY <1>1
<1>3. FrozenOK(NoRun) /\ NoRun.some = FALSE
  <2>1. NoRun.p3 = 0 /\ NoRun.basis = << >> /\ NoRun.p5 = {} /\ NoRun.through = 0
        /\ NoRun.seen = {} /\ NoRun.some = FALSE
    BY DEF NoRun
  <2>2. 0 \in 0 .. Len(entries) /\ 0 \in 0..MaxSeq /\ 1..0 = {} /\ DOMAIN << >> = 1..0
    BY <1>2, ConstantFacts
  <2> QED BY <2>1, <2>2, Zenon DEF FrozenOK
<1>4. TypeOK
  <2>1. life \in [Seqs -> Lives]
    BY <1>1 DEF Lives
  <2>2. Cardinality(requests) <= MaxPending
    BY <1>1, FS_EmptySet, ConstantFacts
  <2>3. \A r \in {run, generation} \cup orphans : FrozenOK(r)
    BY <1>1, <1>3
  <2> QED BY <1>1, <1>2, <2>1, <2>2, <2>3, ConstantFacts DEF TypeOK, Windows
<1>5. WindowsInOrder /\ RunsHold /\ RunsAreOrdered
  BY <1>1, <1>2, <1>3 DEF WindowsInOrder, RunsHold, FrozenHolds, RunsAreOrdered
<1>6. WatermarkIsTop
  BY <1>1, <1>2 DEF WatermarkIsTop, Top
<1>7. ProcessedIsCommitted
  BY <1>1, ConstantFacts DEF ProcessedIsCommitted, Included
<1>8. LivesAreEarned
  BY <1>1 DEF LivesAreEarned
<1> QED BY <1>4, <1>5, <1>6, <1>7, <1>8 DEF IInv

LEMMA InvStep == IInv /\ [Next]_vars => IInv'
BY TypeStep, OrderStep, CommittedStep, LivesStep, TopStep, RunsStep, OrderedStep DEF IInv

(***************************************************************************)
(* What follows from the invariant.                                        *)
(***************************************************************************)
(* A position lies in at most one window.                                  *)
LEMMA OneWindow ==
  ASSUME TypeOK, WindowsInOrder, NEW s \in Nat, NEW i \in DOMAIN entries, NEW j \in DOMAIN entries,
         entries[i].from <= s, s <= entries[i].through,
         entries[j].from <= s, s <= entries[j].through
  PROVE  i = j
<1>1. i \in Nat /\ j \in Nat
  BY EntriesType
<1>2. /\ entries[i].from \in Nat /\ entries[i].through \in Nat
      /\ entries[j].from \in Nat /\ entries[j].through \in Nat
  BY EntriesType
<1>3. ~ (entries[i].through < entries[j].from) /\ ~ (entries[j].through < entries[i].from)
  BY <1>2
<1>4. ~ (i < j) /\ ~ (j < i)
  BY <1>3 DEF WindowsInOrder
<1> QED BY <1>1, <1>4

LEMMA ImpliesPartition == IInv => GenerationIsPartition
<1> SUFFICES ASSUME IInv, generation.some, NEW s \in generation.seen
             PROVE  /\ Cardinality(ToldBy(generation, s)) = (IF s \in generation.p5 THEN 0 ELSE 1)
                    /\ \A i \in 1 .. generation.p3 :
                         s \in generation.basis[i] => i \in ToldBy(generation, s)
  BY DEF GenerationIsPartition
<1> USE DEF IInv
<1> DEFINE g == generation
           T(n) == Top(Included, entries, n)
<1>1. /\ g.p3 \in 0 .. Len(entries) /\ g.through = T(g.p3)
      /\ g.seen \subseteq Included /\ g.p5 = {t \in g.seen : t > g.through}
      /\ \A i \in 1 .. g.p3 : g.basis[i] \subseteq Told(Included, entries[i])
  BY DEF RunsHold, FrozenHolds
<1>2. s \in Included /\ s \in Nat /\ s >= 1 /\ g.through \in Nat
  BY <1>1, RunBounds, ConstantFacts DEF Included
<1>3. /\ Len(entries) \in Nat /\ DOMAIN entries = 1 .. Len(entries) /\ processed \in Nat
      /\ \A i \in DOMAIN entries : entries[i].from \in Nat /\ entries[i].through \in Nat
  BY EntriesType
<1>4. \A i \in 1 .. g.p3 :
        /\ i \in DOMAIN entries
        /\ T(i) <= g.through /\ T(i) = EndOf(entries[i]) /\ T(i) \in Nat
        /\ Told(Included, entries[i]) \subseteq Span(entries[i])
        /\ \A t \in Span(entries[i]) : entries[i].from <= t /\ t <= entries[i].through /\ t \in Nat
  <2> SUFFICES ASSUME NEW i \in 1 .. g.p3
               PROVE  /\ i \in DOMAIN entries
                      /\ T(i) <= g.through /\ T(i) = EndOf(entries[i]) /\ T(i) \in Nat
                      /\ Told(Included, entries[i]) \subseteq Span(entries[i])
                      /\ \A t \in Span(entries[i]) :
                           entries[i].from <= t /\ t <= entries[i].through /\ t \in Nat
    OBVIOUS
  <2>1. /\ i \in DOMAIN entries /\ i \in 0 .. g.p3 /\ i \in 0 .. Len(entries) /\ i # 0
    BY <1>1, <1>3
  <2>2. T(i) <= g.through /\ T(i) = EndOf(entries[i]) /\ T(i) \in Nat
    BY <1>1, <2>1, TopFacts, ConstantFacts
  <2>3. Told(Included, entries[i]) # {}
    BY <2>1 DEF WindowsInOrder
  <2> QED BY <2>1, <2>2, <2>3, SpanFacts
<1> HIDE DEF g, T
<1>5. \A i \in 1 .. g.p3 : s \in g.basis[i] => i \in ToldBy(g, s)
  BY <1>1, <1>4 DEF ToldBy
<1>6. CASE s > g.through
  <2>1. ToldBy(g, s) = {}
    <3> SUFFICES ASSUME NEW i \in 1 .. g.p3, s \in Span(entries[i]) PROVE FALSE
      BY DEF ToldBy
    <3>1. s <= EndOf(entries[i])
      BY <1>4 DEF Span
    <3> QED BY <3>1, <1>2, <1>4, <1>6
  <2>2. s \in g.p5
    BY <1>1, <1>6 DEF g
  <2> QED BY <1>5, <2>1, <2>2, FS_EmptySet DEF g
<1>7. CASE ~ (s > g.through)
  <2>1. g.through <= processed /\ g.p3 # 0
    <3>1. g.p3 \in 0 .. Len(entries) => T(g.p3) <= processed
      BY TopFacts DEF T
    <3>2. T(0) = 0
      BY DEF T, Top
    <3> QED BY <1>1, <1>2, <1>7, <3>1, <3>2
  <2>2. PICK i \in DOMAIN entries : s \in Told(Included, entries[i])
    BY <1>2, <1>3, <1>7, <2>1 DEF ProcessedIsCommitted
  <2>3. entries[i].from <= s /\ s <= entries[i].through
    BY <1>3, <2>2 DEF Told
  <2>4. i <= g.p3
    <3> SUFFICES ASSUME ~ (i <= g.p3) PROVE FALSE
      OBVIOUS
    <3>1. g.p3 \in DOMAIN entries /\ g.p3 \in 0 .. Len(entries) /\ g.p3 < i
      BY <1>1, <1>3, <2>1
    <3>2. entries[g.p3].through < entries[i].from
      BY <3>1 DEF WindowsInOrder
    <3>3. g.through <= entries[g.p3].through
      BY <1>1, <2>1, <3>1, TopFacts DEF T
    <3> QED BY <1>2, <1>3, <1>7, <2>3, <3>1, <3>2, <3>3
  <2>5. i \in 1 .. g.p3
    BY <1>1, <1>3, <2>4
  <2>6. i \in ToldBy(g, s)
    BY <1>4, <2>2, <2>5 DEF ToldBy
  <2>7. ASSUME NEW j \in ToldBy(g, s) PROVE j = i
    BY <1>2, <1>4, <2>3, <2>7, OneWindow DEF ToldBy
  <2>8. ToldBy(g, s) = {i}
    BY <2>6, <2>7
  <2>9. Cardinality(ToldBy(g, s)) = 1
    BY <2>8, FS_Singleton
  <2>10. s \notin g.p5
    BY <1>1, <1>7
  <2> QED BY <1>5, <2>9, <2>10 DEF g
<1> QED BY <1>6, <1>7

LEMMA ImpliesKept == IInv => LiveUnitsAreKept
<1> SUFFICES ASSUME IInv, NEW g \in {generation, run}, g.some, NEW s \in g.p5
             PROVE  s \notin reclaimed /\ life[s] # "retired"
  BY DEF LiveUnitsAreKept
<1>1. FrozenHolds(g, Included, entries) /\ watermark <= g.through
  <2>1. watermark \in Nat
    BY EntriesType DEF IInv
  <2> QED BY <2>1 DEF IInv, RunsHold, RunsAreOrdered
<1>2. s \in Seqs /\ s > g.through
  BY <1>1 DEF FrozenHolds, Included
<1>3. s \in Nat /\ watermark \in Nat /\ g.through \in Nat
  BY <1>2, ConstantFacts, EntriesType, RunBounds DEF IInv
<1>4. ~ (s <= watermark)
  BY <1>1, <1>2, <1>3
<1> QED BY <1>2, <1>4 DEF IInv, LivesAreEarned

LEMMA ImpliesTold == IInv => RetiredIsTold
<1> SUFFICES ASSUME IInv, NEW s \in Seqs, life[s] = "retired"
             PROVE  /\ s <= watermark
                    /\ \E i \in DOMAIN entries :
                         /\ entries[i].from <= s /\ s <= entries[i].through
                         /\ s \in Included => s \in Span(entries[i])
  BY DEF RetiredIsTold
<1> USE DEF IInv
<1>1. s <= watermark /\ \E i \in DOMAIN entries : entries[i].from <= s /\ s <= entries[i].through
  BY DEF LivesAreEarned
<1>2. CASE s \in Included
  <2>1. watermark <= processed
    BY TopFacts DEF WatermarkIsTop
  <2>2. s <= processed
    BY <1>1, <2>1, EntriesType, ConstantFacts
  <2>3. PICK i \in DOMAIN entries : s \in Told(Included, entries[i])
    BY <1>2, <2>2 DEF ProcessedIsCommitted
  <2>4. s \in Span(entries[i]) /\ entries[i].from <= s /\ s <= entries[i].through
    BY <2>3, SpanFacts
  <2> QED BY <1>1, <2>4
<1> QED BY <1>1, <1>2

(* The inductive invariant holds in every reachable state.                 *)
THEOREM LogAndRunsAgree == Spec => []IInv
BY InvInit, InvStep, PTL DEF Spec

(* The variables keep their types; in particular the pending requests of   *)
(* requestBust never exceed maxPendingRequests.                            *)
THEOREM TypeCorrect == Spec => []TypeOK
<1>1. IInv => TypeOK
  BY DEF IInv
<1> QED BY <1>1, LogAndRunsAgree, PTL

(* publishGeneration: whatever was committed, acknowledged or replayed     *)
(* while the recall was awaited, each unit admitted when the sources were  *)
(* frozen is either live in P5 or told by exactly one compartment of P3.   *)
THEOREM EveryUnitInOnePlace == Spec => []GenerationIsPartition
BY LogAndRunsAgree, ImpliesPartition, PTL

(* No unit that the current generation or a run about to publish shows     *)
(* live in P5 is retired or has its payload reclaimed, also not by the     *)
(* late publication of a closed service's run.                             *)
THEOREM LiveIsNeitherRetiredNorReclaimed == Spec => []LiveUnitsAreKept
BY LogAndRunsAgree, ImpliesKept, PTL

(* markRepresentedAndRetired retires only what a committed compartment     *)
(* tells.                                                                  *)
THEOREM OnlyToldIsRetired == Spec => []RetiredIsTold
BY LogAndRunsAgree, ImpliesTold, PTL

(* The recorded watermark is the one the current generation was built for. *)
THEOREM WatermarkOfGeneration == Spec => []GenerationOwnsWatermark
<1>1. IInv => GenerationOwnsWatermark
  BY DEF IInv, RunsAreOrdered, GenerationOwnsWatermark
<1> QED BY <1>1, LogAndRunsAgree, PTL

===============================================================================
