------------------------- MODULE BatchContent_proofs -------------------------
(***************************************************************************)
(* Proofs about BatchContent, for every value of its constants.            *)
(***************************************************************************)
EXTENDS BatchContent, SequenceTheorems, FiniteSetTheorems, WellFoundedInduction, TLAPS

(***************************************************************************)
(* The inductive invariant: every publication is, still, what its batch    *)
(* makes of the units between its ends; the batches of the lineage follow  *)
(* one another; and the units that the cursor passed without being in one  *)
(* are excluded.                                                           *)
(***************************************************************************)
Ends(p) == /\ p.start \in Analysed(1..cursor) /\ p.end \in Analysed(1..cursor) /\ p.start <= p.end
Made(p) == p = Publication(p.start .. p.end)
Committed == {publications[i] : i \in DOMAIN publications}

WellMade == \A p \in Committed : Ends(p) /\ Made(p)
InOrder ==
  \A i, j \in DOMAIN publications : i < j => publications[i].end < publications[j].start
Covered ==
  \A u \in Analysed(1..cursor) : \E p \in Committed : p.start <= u /\ u <= p.end

IInv == TypeOK /\ WellMade /\ InOrder /\ Covered

(***************************************************************************)
(* Least and greatest numbers.                                             *)
(***************************************************************************)
LEMMA Least ==
  ASSUME NEW S \in SUBSET Nat, S # {}
  PROVE  \E n \in S : \A k \in S : n <= k
<1> DEFINE R == {ss \in Nat \X Nat : ss[1] < ss[2]}
<1>1. IsWellFoundedOn(R, Nat)
  BY NatLessThanWellFounded DEF OpToRel
<1>2. \A k, n \in Nat : k < n => <<k, n>> \in R
  OBVIOUS
<1> HIDE DEF R
<1>3. PICK n \in S : \A k \in S : ~ (<<k, n>> \in R)
  BY <1>1, WFMin
<1>4. \A k \in S : n <= k
  <2> SUFFICES ASSUME NEW k \in S PROVE n <= k
    OBVIOUS
  <2>1. k \in Nat /\ n \in Nat
    OBVIOUS
  <2>2. ~ (k < n)
    BY <1>2, <1>3, <2>1, Zenon
  <2> QED BY <2>1, <2>2
<1> QED BY <1>4

LEMMA Ordered ==
  ASSUME NEW n \in Nat, NEW S \in SUBSET (0..n), S # {}
  PROVE  /\ Min(S) \in S /\ Max(S) \in S /\ Min(S) \in 0..n /\ Max(S) \in 0..n
         /\ \A k \in S : Min(S) <= k /\ k <= Max(S)
<1> DEFINE bounds == {k \in 0..n : \A x \in S : x <= k}
<1>1. S \subseteq Nat /\ \A x \in S : x \in 0..n /\ x <= n
  OBVIOUS
<1>2. PICK lo \in S : \A k \in S : lo <= k
  BY <1>1, Least
<1>3. PICK k \in bounds : \A j \in bounds : k <= j
  <2>1. bounds \in SUBSET Nat /\ n \in bounds
    BY <1>1
  <2> HIDE DEF bounds
  <2> QED BY <2>1, Least
<1>4. k \in 0..n /\ \A x \in S : x <= k
  BY <1>3
<1>5. \A j \in 0..n : (\A x \in S : x <= j) => k <= j
  BY <1>3
<1> HIDE DEF bounds
<1>6. k \in S
  <2> SUFFICES ASSUME k \notin S PROVE FALSE
    OBVIOUS
  <2>1. \A x \in S : x \in Nat /\ x <= k /\ x # k
    BY <1>1, <1>4
  <2>2. lo \in Nat /\ lo <= k /\ lo # k /\ k \in Nat
    BY <1>1, <1>4, <2>1
  <2>3. k - 1 \in 0..n /\ ~ (k <= k - 1)
    BY <1>4, <2>2
  <2>4. \A x \in S : x <= k - 1
    BY <2>1, <2>2
  <2> QED BY <1>5, <2>3, <2>4
<1>7. Min(S) \in S /\ \A x \in S : Min(S) <= x
  BY <1>2 DEF Min
<1>8. Max(S) \in S /\ \A x \in S : Max(S) >= x
  <2>1. \A x \in S : k >= x
    BY <1>1, <1>4
  <2> QED BY <1>6, <2>1 DEF Max
<1>9. \A x \in S : x <= Max(S)
  BY <1>1, <1>8
<1> QED BY <1>1, <1>7, <1>8, <1>9

(***************************************************************************)
(* Units, and the runs of units of one role.                               *)
(***************************************************************************)
LEMMA LogFacts ==
  ASSUME TypeOK
  PROVE  /\ log \in Seq(Shapes) /\ Len(log) \in Nat /\ DOMAIN log = 1 .. Len(log) /\ MaxSeq \in Nat
         /\ Len(log) <= MaxSeq /\ cursor \in Nat /\ cursor <= Len(log) /\ frozen \in Nat
         /\ frozen # 0 => cursor < frozen /\ frozen <= Len(log)
         /\ 1 .. Len(log) \subseteq Seqs /\ Seqs \subseteq Nat
<1>1. log \in Seq(Shapes) /\ Len(log) <= MaxSeq
  BY DEF TypeOK
<1>2. Len(log) \in Nat /\ DOMAIN log = 1 .. Len(log) /\ MaxSeq \in Nat
  BY <1>1, LenProperties, ContentAssumption DEF ContentAssumption
<1>3. cursor \in 0..Len(log) /\ frozen \in {0} \cup (cursor + 1 .. Len(log))
  BY DEF TypeOK
<1> QED BY <1>1, <1>2, <1>3 DEF Seqs

LEMMA RoleFacts == \A u : RoleOf(u) \in Roles
BY DEF RoleOf, Roles

LEMMA EvidenceFacts ==
  ASSUME NEW batch
  PROVE  /\ Analysed(batch) \subseteq batch /\ Evidence(batch) \subseteq Analysed(batch)
         /\ NewObservations(batch) \subseteq Analysed(batch)
<1>1. \A u : Included(u) => log[u].disposition # "exclude"
  BY DEF Included
<1> QED BY <1>1 DEF Analysed, Evidence, NewObservations

LEMMA RunFacts ==
  ASSUME NEW batch \in SUBSET Nat, NEW u \in Analysed(batch)
  PROVE  /\ u \in RunOf(u, batch) /\ RunOf(u, batch) \subseteq Analysed(batch)
         /\ \A v \in RunOf(u, batch) : RoleOf(v) = RoleOf(u) /\ RunOf(v, batch) = RunOf(u, batch)
         /\ \A v, w \in RunOf(u, batch), x \in Analysed(batch) :
              v <= x /\ x <= w => x \in RunOf(u, batch)
<1> DEFINE A == Analysed(batch)
           Between(x, v, w) == (v <= x /\ x <= w) \/ (w <= x /\ x <= v)
<1>1. A \subseteq Nat
  BY EvidenceFacts
<1>2. \A v, w \in A : RunOf(v, batch) \subseteq A /\
        (w \in RunOf(v, batch) <=> \A x \in A : Between(x, v, w) => RoleOf(x) = RoleOf(v))
  <2> SUFFICES ASSUME NEW v \in A, NEW w \in A
               PROVE  RunOf(v, batch) \subseteq A /\
                 (w \in RunOf(v, batch) <=> \A x \in A : Between(x, v, w) => RoleOf(x) = RoleOf(v))
    OBVIOUS
  <2>1. \A x \in A : x \in (v..w) \cup (w..v) <=> Between(x, v, w)
    BY <1>1
  <2> HIDE DEF Between
  <2> QED BY <2>1 DEF RunOf
<1> HIDE DEF A
<1>3. u \in A
  BY DEF A
<1>4. u \in RunOf(u, batch)
  <2>1. \A x \in A : Between(x, u, u) => x = u
    BY <1>1, <1>3
  <2> HIDE DEF Between
  <2> QED BY <1>2, <1>3, <2>1
<1>5. ASSUME NEW v \in A, NEW w \in RunOf(v, batch)
      PROVE  /\ w \in A /\ RoleOf(w) = RoleOf(v)
             /\ \A x \in A : x \in RunOf(v, batch) => x \in RunOf(w, batch)
  <2>1. w \in A /\ Between(w, v, w)
    <3>1. w \in A
      BY <1>2
    <3>2. w \in Nat /\ v \in Nat
      BY <1>1, <3>1
    <3> QED BY <3>1, <3>2
  <2>2. RoleOf(w) = RoleOf(v)
    BY <1>2, <2>1
  <2>3. \A x, y \in A : Between(y, w, x) => Between(y, v, w) \/ Between(y, v, x)
    BY <1>1, <2>1
  <2> HIDE DEF Between
  <2> QED BY <1>2, <2>1, <2>2, <2>3
<1>6. ASSUME NEW v \in RunOf(u, batch) PROVE RunOf(v, batch) = RunOf(u, batch)
  <2>1. v \in A /\ RoleOf(v) = RoleOf(u) /\ \A x \in A : x \in RunOf(u, batch) => x \in RunOf(v, batch)
    BY <1>3, <1>5
  <2>2. u \in RunOf(v, batch)
    BY <1>3, <1>4, <2>1
  <2>3. \A x \in A : x \in RunOf(v, batch) => x \in RunOf(u, batch)
    BY <1>5, <2>1, <2>2
  <2> QED BY <1>2, <1>3, <2>1, <2>3
<1>7. ASSUME NEW v \in RunOf(u, batch), NEW w \in RunOf(u, batch), NEW x \in A, v <= x, x <= w
      PROVE  x \in RunOf(u, batch)
  <2>1. v \in A /\ w \in A
    BY <1>3, <1>5
  <2>2. \A y \in A : Between(y, u, x) => Between(y, u, v) \/ Between(y, u, w)
    BY <1>1, <1>3, <1>7, <2>1
  <2> HIDE DEF Between
  <2> QED BY <1>2, <1>3, <2>1, <2>2
<1> QED BY <1>2, <1>3, <1>4, <1>5, <1>6, <1>7 DEF A

(***************************************************************************)
(* What a batch tells.                                                     *)
(***************************************************************************)
Derived(batch) == Evidence(batch) = {}
ObservationOf(run, batch) ==
  [from |-> Min(run), through |-> Max(run), units |-> run,
   evidence |-> run \cap Evidence(batch), derivedOnly |-> Derived(batch)]
ManifestOf(batch) ==
  [r \in {RoleOf(u) : u \in Analysed(batch)} |-> {u \in Analysed(batch) : RoleOf(u) = r}]

LEMMA ObservationFacts ==
  ASSUME NEW run, NEW batch
  PROVE  /\ ObservationOf(run, batch).from = Min(run) /\ ObservationOf(run, batch).through = Max(run)
         /\ ObservationOf(run, batch).units = run
         /\ ObservationOf(run, batch).evidence = run \cap Evidence(batch)
BY Zenon DEF ObservationOf

LEMMA PublicationFields ==
  ASSUME NEW batch
  PROVE  /\ Publication(batch).start = Min(Analysed(batch)) /\ Publication(batch).end = Max(Analysed(batch))
         /\ Publication(batch).manifest = ManifestOf(batch)
         /\ Publication(batch).evidence = Evidence(batch)
         /\ Publication(batch).observations = Observations(batch)
         /\ Observations(batch) = {ObservationOf(RunOf(u, batch), batch) : u \in Analysed(batch)}
<1>1. /\ Publication(batch).start = Min(Analysed(batch)) /\ Publication(batch).end = Max(Analysed(batch))
      /\ Publication(batch).manifest = ManifestOf(batch)
      /\ Publication(batch).evidence = Evidence(batch)
      /\ Publication(batch).observations = Observations(batch)
  BY Zenon DEF Publication, ManifestOf
<1>2. Observations(batch) = {ObservationOf(run, batch) : run \in {RunOf(u, batch) : u \in Analysed(batch)}}
  BY DEF Observations, ObservationOf, Derived
<1> QED BY <1>1, <1>2

LEMMA PublicationType ==
  ASSUME MaxSeq \in Nat, NEW batch \in SUBSET Seqs, Analysed(batch) # {}
  PROVE  /\ Publication(batch) \in Publications
         /\ Publication(batch).start \in Analysed(batch) /\ Publication(batch).end \in Analysed(batch)
         /\ \A u \in Analysed(batch) : Publication(batch).start <= u /\ u <= Publication(batch).end
<1> DEFINE A == Analysed(batch)
<1>1. A \in SUBSET (0..MaxSeq) /\ A \subseteq Seqs /\ Evidence(batch) \subseteq A
  <2>1. Seqs \subseteq 0..MaxSeq
    BY DEF Seqs
  <2>2. A \subseteq Seqs /\ Evidence(batch) \subseteq A
    BY EvidenceFacts
  <2> QED BY <2>1, <2>2
<1>2. Min(A) \in A /\ Max(A) \in A /\ \A u \in A : Min(A) <= u /\ u <= Max(A)
  <2> HIDE DEF A
  <2> QED BY <1>1, Ordered DEF A
<1>3. ManifestOf(batch) \in Manifests
  <2> DEFINE present == {RoleOf(u) : u \in A}
  <2>1. present \in SUBSET Roles
    BY RoleFacts
  <2>2. \A r \in present : {u \in A : RoleOf(u) = r} \in (SUBSET Seqs) \ {{}}
    BY <1>1
  <2>3. ManifestOf(batch) = [r \in present |-> {u \in A : RoleOf(u) = r}]
    BY DEF ManifestOf
  <2> HIDE DEF present, A
  <2>4. ManifestOf(batch) \in [present -> (SUBSET Seqs) \ {{}}]
    BY <2>2, <2>3
  <2> QED BY <2>1, <2>4 DEF Manifests
<1>4. ASSUME NEW u \in A PROVE ObservationOf(RunOf(u, batch), batch) \in ObservationRows
  <2> DEFINE run == RunOf(u, batch)
  <2>1. run \subseteq A /\ run # {}
    BY <1>1, RunFacts DEF Seqs
  <2>2. Min(run) \in Seqs /\ Max(run) \in Seqs
    <3>1. run \in SUBSET (0..MaxSeq) /\ run \subseteq Seqs
      BY <1>1, <2>1
    <3> HIDE DEF run
    <3> QED BY <2>1, <3>1, Ordered
  <2>3. run \in SUBSET Seqs /\ run \cap Evidence(batch) \in SUBSET Seqs /\ Derived(batch) \in BOOLEAN
    BY <1>1, <2>1 DEF Derived
  <2> HIDE DEF run
  <2>4. ObservationOf(run, batch) \in ObservationRows
    BY <2>2, <2>3, Zenon DEF ObservationOf, ObservationRows
  <2> QED BY <2>4 DEF run
<1>5. Observations(batch) \in SUBSET ObservationRows
  BY <1>4, PublicationFields
<1>6. Publication(batch) \in Publications
  <2>1. Min(A) \in Seqs /\ Max(A) \in Seqs /\ Evidence(batch) \in SUBSET Seqs /\ Derived(batch) \in BOOLEAN
    BY <1>1, <1>2 DEF Derived
  <2>2. Publication(batch) =
          [start |-> Min(A), end |-> Max(A), manifest |-> ManifestOf(batch),
           evidence |-> Evidence(batch), derivedOnly |-> Derived(batch), observations |-> Observations(batch)]
    BY Zenon DEF Publication, ManifestOf, Derived
  <2>3. \A s, e \in Seqs, m \in Manifests, v \in SUBSET Seqs, d \in BOOLEAN,
           o \in SUBSET ObservationRows :
          [start |-> s, end |-> e, manifest |-> m, evidence |-> v, derivedOnly |-> d,
           observations |-> o] \in Publications
    BY Zenon DEF Publications
  <2> HIDE DEF A
  <2> QED BY <1>3, <1>5, <2>1, <2>2, <2>3
<1> QED BY <1>2, <1>6, PublicationFields

(* A publication depends on the analysed units of its batch only, so it is *)
(* also that of the batch between its ends.                                *)
LEMMA SamePublication ==
  ASSUME NEW b, NEW c, Analysed(b) = Analysed(c), Evidence(b) = Evidence(c)
  PROVE  Publication(b) = Publication(c)
<1>1. \A u : RunOf(u, b) = RunOf(u, c)
  BY DEF RunOf
<1>2. Derived(b) = Derived(c) /\ ManifestOf(b) = ManifestOf(c)
  BY DEF Derived, ManifestOf
<1>3. \A run : ObservationOf(run, b) = ObservationOf(run, c)
  BY <1>2 DEF ObservationOf
<1>4. Observations(b) = Observations(c)
  BY <1>1, <1>3, PublicationFields
<1>5. \A x : Publication(x) =
        [start |-> Min(Analysed(x)), end |-> Max(Analysed(x)), manifest |-> ManifestOf(x),
         evidence |-> Evidence(x), derivedOnly |-> Derived(x), observations |-> Observations(x)]
  BY Zenon DEF Publication, ManifestOf, Derived
<1> QED BY <1>2, <1>4, <1>5

LEMMA Narrowed ==
  ASSUME MaxSeq \in Nat, NEW from \in Nat, NEW to \in Nat, to <= MaxSeq, Analysed(from + 1 .. to) # {}
  PROVE  LET batch == from + 1 .. to
             p == Publication(batch)
         IN  /\ Made(p) /\ p \in Publications
             /\ p.start \in Analysed(batch) /\ p.end \in Analysed(batch) /\ p.start <= p.end
             /\ \A u \in Analysed(batch) : p.start <= u /\ u <= p.end
<1> DEFINE batch == from + 1 .. to
           p == Publication(batch)
<1>1. batch \in SUBSET Seqs /\ batch \subseteq Nat
  BY DEF Seqs
<1>2. /\ p \in Publications /\ p.start \in Analysed(batch) /\ p.end \in Analysed(batch)
      /\ \A u \in Analysed(batch) : p.start <= u /\ u <= p.end
  <2> HIDE DEF batch
  <2> QED BY <1>1, PublicationType DEF batch
<1>3. Analysed(batch) \subseteq batch
  BY EvidenceFacts
<1> DEFINE narrow == p.start .. p.end
<1>4. narrow \subseteq batch /\ p.start <= p.end
  <2> HIDE DEF p
  <2>1. p.start \in batch /\ p.end \in batch
    BY <1>2, <1>3
  <2> QED BY <1>2, <2>1
<1>5. Analysed(batch) \subseteq narrow
  <2> HIDE DEF p
  <2> QED BY <1>1, <1>2, <1>3
<1> HIDE DEF narrow, batch, p
<1>6. Analysed(narrow) = Analysed(batch)
  BY <1>3, <1>4, <1>5 DEF Analysed
<1>7. \A u : Included(u) => log[u].disposition # "exclude"
  BY DEF Included
<1>8. NewObservations(narrow) = NewObservations(batch)
  BY <1>4, <1>5, <1>7 DEF NewObservations, Analysed
<1>9. Evidence(narrow) = Evidence(batch)
  BY <1>4, <1>5, <1>7, <1>8 DEF Evidence, Grounded, Analysed
<1>10. Publication(narrow) = Publication(batch)
  BY <1>6, <1>9, SamePublication
<1> QED BY <1>2, <1>4, <1>10 DEF Made, narrow, p, batch

(* Units do not change: an append leaves what older batches tell.          *)
Kept == \A u \in 1 .. Len(log) : log'[u] = log[u]

LEMMA Stable ==
  ASSUME TypeOK, Kept, NEW batch \in SUBSET (1 .. Len(log))
  PROVE  /\ Analysed(batch)' = Analysed(batch) /\ Publication(batch)' = Publication(batch)
<1>1. \A u \in batch : log'[u] = log[u]
  BY DEF Kept
<1>2. ASSUME NEW u \in batch
      PROVE  /\ Included(u)' = Included(u) /\ Observed(u)' = Observed(u) /\ HasRefs(u)' = HasRefs(u)
             /\ RoleOf(u)' = RoleOf(u) /\ Sources(u)' = Sources(u) /\ DerivedOnly(u)' = DerivedOnly(u)
  <2>1. log'[u] = log[u]
    BY <1>1
  <2>2. Sources(u)' = Sources(u)
    BY <2>1 DEF Sources
  <2>3. Included(u)' = Included(u) /\ Observed(u)' = Observed(u) /\ RoleOf(u)' = RoleOf(u)
    BY <2>1 DEF Included, Observed, RoleOf
  <2>4. HasRefs(u)' = HasRefs(u)
    BY <2>1, <2>2 DEF HasRefs
  <2> QED BY <2>2, <2>3, <2>4 DEF DerivedOnly
<1>3. Analysed(batch)' = Analysed(batch)
  BY <1>1 DEF Analysed
<1>4. NewObservations(batch)' = NewObservations(batch)
  BY <1>2 DEF NewObservations
<1>5. \A u \in batch : Grounded(u, batch)' = Grounded(u, batch)
  BY <1>1, <1>2, <1>4 DEF Grounded
<1>6. Evidence(batch)' = Evidence(batch)
  BY <1>2, <1>5 DEF Evidence
<1>7. Analysed(batch) \subseteq batch
  BY EvidenceFacts
<1>8. \A u \in batch : RunOf(u, batch)' = RunOf(u, batch)
  BY <1>2, <1>3, <1>7 DEF RunOf
<1>9. ManifestOf(batch)' = ManifestOf(batch) /\ Derived(batch)' = Derived(batch)
  <2>1. {RoleOf(u) : u \in Analysed(batch)}' = {RoleOf(u) : u \in Analysed(batch)}
    BY <1>2, <1>3, <1>7
  <2>2. \A r : {u \in Analysed(batch) : RoleOf(u) = r}' = {u \in Analysed(batch) : RoleOf(u) = r}
    BY <1>2, <1>3, <1>7
  <2> QED BY <1>6, <2>1, <2>2 DEF ManifestOf, Derived
<1>10. Observations(batch)' = Observations(batch)
  <2>1. {RunOf(u, batch) : u \in Analysed(batch)}' = {RunOf(u, batch) : u \in Analysed(batch)}
    BY <1>3, <1>7, <1>8
  <2> QED BY <1>6, <2>1 DEF Observations
<1> QED BY <1>3, <1>6, <1>9, <1>10 DEF Publication, ManifestOf, Derived

(***************************************************************************)
(* The steps.                                                              *)
(***************************************************************************)
LEMMA CommittedFacts ==
  ASSUME IInv, NEW p \in Committed
  PROVE  /\ p \in Publications /\ p.start \in Analysed(1..cursor) /\ p.end \in Analysed(1..cursor)
         /\ p.start \in Seqs /\ p.end \in Seqs /\ p.start \in Nat /\ p.end \in Nat
         /\ p.start <= p.end /\ 1 <= p.start /\ p.end <= cursor
         /\ p.start .. p.end \subseteq 1 .. cursor /\ 1 .. cursor \subseteq 1 .. Len(log)
         /\ Made(p)
<1>1. publications \in Seq(Publications)
  BY DEF IInv, TypeOK
<1>2. p \in Publications
  BY <1>1, ElementOfSeq, LenProperties DEF Committed
<1>3. Ends(p) /\ Made(p)
  BY DEF IInv, WellMade
<1>4. Analysed(1..cursor) \subseteq 1..cursor
  BY EvidenceFacts
<1>5. cursor \in Nat /\ cursor <= Len(log) /\ Len(log) \in Nat
  BY LogFacts DEF IInv
<1>6. p.start \in Seqs /\ p.end \in Seqs
  BY <1>2, Zenon DEF Publications
<1>7. p.start \in 1..cursor /\ p.end \in 1..cursor /\ p.start <= p.end
  BY <1>3, <1>4 DEF Ends
<1>8. p.start .. p.end \subseteq 1 .. cursor
  BY <1>5, <1>7
<1> QED BY <1>2, <1>3, <1>5, <1>6, <1>7, <1>8 DEF Ends

LEMMA KeptFacts ==
  ASSUME IInv, Kept, cursor' \in Nat, cursor <= cursor', NEW p \in Committed
  PROVE  Ends(p)' /\ Made(p)'
<1>1. /\ p.start \in Analysed(1..cursor) /\ p.end \in Analysed(1..cursor)
      /\ p.start <= p.end /\ p.start .. p.end \subseteq 1 .. cursor
      /\ 1 .. cursor \subseteq 1 .. Len(log) /\ Made(p)
  BY CommittedFacts
<1>2. TypeOK /\ cursor \in Nat
  BY LogFacts DEF IInv
<1>3. p.start .. p.end \in SUBSET (1 .. Len(log))
  BY <1>1
<1>4. Made(p)'
  BY <1>1, <1>2, <1>3, Stable DEF Made
<1>5. \A u \in Analysed(1..cursor) : u \in 1..cursor' /\ log'[u].disposition # "exclude"
  BY <1>1, <1>2 DEF Analysed, Kept
<1>6. Ends(p)'
  BY <1>1, <1>5 DEF Ends, Analysed
<1> QED BY <1>4, <1>6

(* Steps that leave the cursor and the publications.                       *)
LEMMA QuietStep ==
  ASSUME IInv, Kept, UNCHANGED <<cursor, publications>>
  PROVE  WellMade' /\ InOrder' /\ Covered'
<1>1. cursor' = cursor /\ cursor \in Nat /\ cursor <= Len(log) /\ Len(log) \in Nat
  BY LogFacts DEF IInv
<1>2. Committed' = Committed
  BY DEF Committed
<1>3. WellMade'
  BY <1>1, <1>2, KeptFacts DEF WellMade
<1>4. InOrder'
  BY DEF IInv, InOrder
<1>5. Covered'
  <2>1. \A u \in 1..cursor : log'[u] = log[u]
    BY <1>1 DEF Kept
  <2>2. Analysed(1..cursor)' = Analysed(1..cursor)
    BY <1>1, <2>1 DEF Analysed
  <2> QED BY <1>2, <2>2 DEF IInv, Covered
<1> QED BY <1>3, <1>4, <1>5

LEMMA FreezeFacts ==
  ASSUME TypeOK
  PROVE  FreezeThrough \in cursor .. Len(log)
<1> DEFINE S == {cursor} \cup {t \in cursor + 1 .. Len(log) : Within(t)}
<1>1. cursor \in Nat /\ Len(log) \in Nat /\ cursor <= Len(log)
  BY LogFacts
<1>2. S \in SUBSET (0 .. Len(log)) /\ S # {} /\ S \subseteq cursor .. Len(log)
  BY <1>1
<1>3. FreezeThrough = Max(S)
  BY DEF FreezeThrough
<1> HIDE DEF S
<1>4. Max(S) \in S
  BY <1>1, <1>2, Ordered
<1> QED BY <1>2, <1>3, <1>4

LEMMA AppendFacts ==
  ASSUME NEW S, NEW s \in Seq(S), NEW x \in S
  PROVE  /\ Append(s, x) \in Seq(S) /\ Len(s) \in Nat
         /\ DOMAIN s = 1 .. Len(s) /\ DOMAIN Append(s, x) = 1 .. Len(s) + 1
         /\ Len(Append(s, x)) = Len(s) + 1
         /\ \A i \in DOMAIN s : Append(s, x)[i] = s[i]
         /\ Append(s, x)[Len(s) + 1] = x
BY AppendProperties, LenProperties

LEMMA AdmitStep ==
  ASSUME IInv, Admit
  PROVE  IInv'
<1>1. PICK shape \in Shapes : log' = Append(log, shape)
  BY DEF Admit
<1>2. /\ Len(log) < MaxSeq /\ UNCHANGED <<cursor, frozen, publications, represented>>
  BY DEF Admit
<1>3. /\ log \in Seq(Shapes) /\ Len(log) \in Nat /\ MaxSeq \in Nat /\ cursor \in Nat /\ frozen \in Nat
      /\ cursor <= Len(log) /\ DOMAIN log = 1 .. Len(log) /\ TypeOK
  BY LogFacts DEF IInv
<1>4. log' \in Seq(Shapes) /\ Len(log') = Len(log) + 1 /\ Kept
  BY <1>1, <1>3, AppendFacts DEF Kept
<1>5. TypeOK'
  <2>1. cursor' \in 0..Len(log') /\ frozen' \in {0} \cup (cursor' + 1 .. Len(log')) /\ Len(log') <= MaxSeq
    BY <1>2, <1>3, <1>4 DEF TypeOK
  <2> QED BY <1>2, <1>3, <1>4, <2>1 DEF TypeOK
<1> QED BY <1>2, <1>4, <1>5, QuietStep DEF IInv

LEMMA TriggerStep ==
  ASSUME IInv, TriggerIncremental
  PROVE  IInv'
<1>1. /\ FreezeThrough > cursor /\ frozen' = FreezeThrough
      /\ UNCHANGED <<log, cursor, publications, represented>>
  BY DEF TriggerIncremental
<1>2. FreezeThrough \in cursor .. Len(log) /\ cursor \in Nat /\ Len(log) \in Nat /\ TypeOK
  BY FreezeFacts, LogFacts DEF IInv
<1>3. frozen' \in cursor + 1 .. Len(log)
  BY <1>1, <1>2
<1>4. TypeOK' /\ Kept
  BY <1>1, <1>2, <1>3 DEF TypeOK, Kept
<1> QED BY <1>1, <1>4, QuietStep DEF IInv

LEMMA RepresentStep ==
  ASSUME IInv, Represent
  PROVE  IInv'
<1>1. PICK i \in DOMAIN publications : represented' = publications[i].end
  BY DEF Represent, Watermark
<1>2. UNCHANGED <<log, cursor, frozen, publications>>
  BY DEF Represent
<1>3. TypeOK' /\ Kept
  BY <1>1, <1>2 DEF IInv, TypeOK, Kept
<1> QED BY <1>2, <1>3, QuietStep DEF IInv

LEMMA RunStep ==
  ASSUME IInv, RunBatch
  PROVE  IInv'
<1> DEFINE batch == cursor + 1 .. frozen
<1>1. /\ frozen > cursor /\ cursor' = frozen /\ frozen' = 0 /\ UNCHANGED <<log, represented>>
      /\ publications' = IF Analysed(batch) = {} THEN publications ELSE Append(publications, Publication(batch))
  BY DEF RunBatch
<1>2. /\ TypeOK /\ cursor \in Nat /\ frozen \in Nat /\ Len(log) \in Nat /\ MaxSeq \in Nat
      /\ cursor < frozen /\ frozen <= Len(log) /\ Len(log) <= MaxSeq
  BY <1>1, LogFacts DEF IInv
<1>3. Kept /\ publications \in Seq(Publications) /\ Len(publications) \in Nat
      /\ DOMAIN publications = 1 .. Len(publications)
  BY <1>1, <1>2, LenProperties DEF Kept, TypeOK
<1>4. \A b : Analysed(b)' = Analysed(b)
  BY <1>1 DEF Analysed
<1>5. \A u \in Analysed(1..frozen) : u \in Analysed(1..cursor) \/ u \in Analysed(batch)
  BY <1>2 DEF Analysed
<1>6. \A u \in Analysed(batch) : u \in Analysed(1..frozen) /\ cursor < u
  BY <1>2 DEF Analysed
<1>7. \A c \in Committed : Ends(c)' /\ Made(c)'
  BY <1>1, <1>2, <1>3, KeptFacts
<1>8. \A i \in DOMAIN publications : publications[i] \in Committed
  BY DEF Committed
<1> HIDE DEF batch
<1>9. CASE Analysed(batch) = {}
  <2>1. publications' = publications /\ Committed' = Committed
    BY <1>1, <1>9 DEF Committed
  <2>2. TypeOK'
    <3>1. \A i \in DOMAIN publications :
             publications[i].end \in publications[i].start .. frozen
      <4> SUFFICES ASSUME NEW i \in DOMAIN publications
                   PROVE  publications[i].end \in publications[i].start .. frozen
        OBVIOUS
      <4>1. /\ publications[i].start \in Nat /\ publications[i].end \in Nat
            /\ publications[i].start <= publications[i].end /\ publications[i].end <= cursor
        BY <1>8, CommittedFacts
      <4> QED BY <1>2, <4>1
    <3> QED BY <1>1, <1>2, <2>1, <3>1 DEF TypeOK
  <2>3. WellMade' /\ InOrder'
    BY <1>7, <2>1 DEF WellMade, InOrder, IInv
  <2>4. Covered'
    BY <1>1, <1>4, <1>5, <1>9, <2>1 DEF Covered, IInv
  <2> QED BY <2>2, <2>3, <2>4 DEF IInv
<1>10. CASE Analysed(batch) # {}
  <2> DEFINE n == Len(publications)
  <2>0. PICK p : p = Publication(batch)
    OBVIOUS
  <2>1. /\ Made(p) /\ p \in Publications /\ p.start <= p.end
        /\ p.start \in Analysed(batch) /\ p.end \in Analysed(batch)
        /\ \A u \in Analysed(batch) : p.start <= u /\ u <= p.end
    <3>1. frozen <= MaxSeq
      BY <1>2
    <3> QED BY <1>2, <1>10, <2>0, <3>1, Narrowed DEF batch
  <2>2. p.start \in Nat /\ p.end \in Nat /\ cursor < p.start /\ p.end <= frozen
    <3>1. Analysed(batch) \subseteq batch
      BY EvidenceFacts
    <3>2. \A x \in batch : x \in Nat /\ cursor < x /\ x <= frozen
      BY <1>2 DEF batch
    <3> QED BY <2>1, <3>1, <3>2
  <2>3. /\ publications' \in Seq(Publications) /\ DOMAIN publications' = 1 .. n + 1
        /\ \A i \in 1 .. n : publications'[i] = publications[i]
        /\ publications'[n + 1] = p
    <3> QED BY <1>1, <1>3, <1>10, <2>0, <2>1, AppendFacts
  <2>4. Ends(p)' /\ Made(p)'
    <3>1. \A b : Publication(b)' = Publication(b)
      BY <1>1 DEF Publication, Evidence, Grounded, NewObservations, DerivedOnly, HasRefs, Sources,
                  Observed, Included, Observations, RunOf, Analysed, RoleOf
    <3>2. Made(p)'
      BY <2>1, <3>1 DEF Made
    <3>3. p.start \in Analysed(1..frozen) /\ p.end \in Analysed(1..frozen)
      BY <1>6, <2>1
    <3> QED BY <1>1, <1>4, <2>1, <3>2, <3>3 DEF Ends
  <2>5. Committed' = Committed \cup {p}
    BY <1>3, <2>3 DEF Committed
  <2>6. ASSUME NEW i \in DOMAIN publications
        PROVE  /\ publications[i].start \in Nat /\ publications[i].end \in Nat
               /\ publications[i].start <= publications[i].end /\ publications[i].end <= cursor
    BY <1>8, CommittedFacts
  <2>7. TypeOK'
    <3>1. ASSUME NEW i \in 1 .. n + 1
          PROVE  publications'[i].end \in publications'[i].start .. frozen
      <4>1. CASE i = n + 1
        BY <1>2, <2>1, <2>2, <2>3, <4>1
      <4>2. CASE i \in 1 .. n
        <5>1. publications'[i] = publications[i] /\ i \in DOMAIN publications
          BY <1>3, <2>3, <4>2
        <5> QED BY <1>2, <2>6, <5>1
      <4> QED BY <1>3, <4>1, <4>2
    <3>2. represented' \in {0} \cup {publications'[i].end : i \in DOMAIN publications'}
      <4>1. \A i \in DOMAIN publications :
               i \in DOMAIN publications' /\ publications'[i].end = publications[i].end
        BY <1>3, <2>3
      <4> QED BY <1>1, <1>2, <4>1 DEF TypeOK
    <3>3. cursor' \in 0 .. Len(log') /\ frozen' \in {0} \cup (cursor' + 1 .. Len(log'))
      BY <1>1, <1>2
    <3> QED BY <1>1, <1>2, <2>3, <3>1, <3>2, <3>3 DEF TypeOK
  <2>8. WellMade'
    BY <1>7, <2>4, <2>5 DEF WellMade
  <2>9. InOrder'
    <3> SUFFICES ASSUME NEW i \in 1 .. n + 1, NEW j \in 1 .. n + 1, i < j
                 PROVE  publications'[i].end < publications'[j].start
      BY <2>3 DEF InOrder
    <3>1. i \in 1 .. n /\ i \in DOMAIN publications /\ publications'[i] = publications[i]
      BY <1>3, <2>3
    <3>2. CASE j = n + 1
      BY <1>2, <2>2, <2>3, <2>6, <3>1, <3>2
    <3>3. CASE j \in 1 .. n
      BY <1>3, <2>3, <3>1, <3>3 DEF IInv, InOrder
    <3> QED BY <1>3, <3>2, <3>3
  <2>10. Covered'
    BY <1>1, <1>4, <1>5, <2>1, <2>5 DEF Covered, IInv
  <2> QED BY <2>7, <2>8, <2>9, <2>10 DEF IInv
<1> QED BY <1>9, <1>10

LEMMA IInvInit == Init => IInv
<1> SUFFICES ASSUME Init PROVE IInv
  OBVIOUS
<1>1. log = << >> /\ cursor = 0 /\ frozen = 0 /\ publications = << >> /\ represented = 0
  BY DEF Init
<1>2. log \in Seq(Shapes) /\ publications \in Seq(Publications) /\ Len(log) = 0
      /\ DOMAIN publications = {} /\ MaxSeq \in Nat
  BY <1>1, EmptySeq, ContentAssumption DEF ContentAssumption
<1>3. Committed = {} /\ Analysed(1..cursor) = {}
  <2>1. 1..cursor = {}
    BY <1>1
  <2> QED BY <1>2, <2>1 DEF Committed, Analysed
<1> QED BY <1>1, <1>2, <1>3 DEF IInv, TypeOK, WellMade, InOrder, Covered

LEMMA IInvNext == IInv /\ [Next]_vars => IInv'
<1> SUFFICES ASSUME IInv, [Next]_vars PROVE IInv'
  OBVIOUS
<1>1. CASE Admit
  BY <1>1, AdmitStep
<1>2. CASE TriggerIncremental
  BY <1>2, TriggerStep
<1>3. CASE RunBatch
  BY <1>3, RunStep
<1>4. CASE Represent
  BY <1>4, RepresentStep
<1>5. CASE UNCHANGED vars
  <2>1. UNCHANGED <<log, cursor, frozen, publications, represented>>
    BY <1>5 DEF vars
  <2>2. Kept /\ TypeOK'
    BY <2>1 DEF Kept, IInv, TypeOK
  <2> QED BY <2>1, <2>2, QuietStep DEF IInv
<1> QED BY <1>1, <1>2, <1>3, <1>4, <1>5 DEF Next

(* The publications of a lineage are what their batches make of the units, *)
(* in order, and nothing that the cursor passed is left out.               *)
THEOREM PublicationsTellTheLog == Spec => []IInv
BY IInvInit, IInvNext, PTL DEF Spec

(* TypeOK: the types, and the watermark of a BUST is the end of a          *)
(* compartment behind the cursor.                                          *)
THEOREM TypeCorrect == Spec => []TypeOK
<1>1. IInv => TypeOK
  BY DEF IInv
<1> QED BY <1>1, PublicationsTellTheLog, PTL

(***************************************************************************)
(* What the publications say, read off the invariant.                      *)
(***************************************************************************)
BatchOf(i) == publications[i].start .. publications[i].end
Tells(u, i) == ObservationOf(RunOf(u, BatchOf(i)), BatchOf(i))

LEMMA BatchFacts ==
  ASSUME IInv, NEW i \in DOMAIN publications
  PROVE  /\ publications[i] \in Committed /\ i \in Nat
         /\ publications[i].start \in Nat /\ publications[i].end \in Nat
         /\ publications[i].start <= publications[i].end
         /\ BatchOf(i) \in SUBSET Nat /\ BatchOf(i) \subseteq 1..cursor /\ BatchOf(i) \subseteq 1..Len(log)
         /\ \A u \in BatchOf(i) : publications[i].start <= u /\ u <= publications[i].end
         /\ publications[i].evidence = Evidence(BatchOf(i))
         /\ publications[i].manifest = ManifestOf(BatchOf(i))
         /\ publications[i].observations = {Tells(u, i) : u \in Analysed(BatchOf(i))}
<1> DEFINE p == publications[i]
<1>1. p \in Committed
  BY DEF Committed
<1>2. i \in Nat
  BY LenProperties DEF IInv, TypeOK
<1> HIDE DEF p
<1>3. /\ p.start \in Nat /\ p.end \in Nat /\ p.start <= p.end
      /\ p.start .. p.end \subseteq 1 .. cursor /\ 1 .. cursor \subseteq 1 .. Len(log) /\ Made(p)
  BY <1>1, CommittedFacts
<1>4. BatchOf(i) = p.start .. p.end
  BY DEF BatchOf, p
<1>5. p = Publication(BatchOf(i))
  BY <1>3, <1>4 DEF Made
<1>6. /\ p.evidence = Evidence(BatchOf(i)) /\ p.manifest = ManifestOf(BatchOf(i))
      /\ p.observations = {Tells(u, i) : u \in Analysed(BatchOf(i))}
  BY <1>5, PublicationFields DEF Tells
<1>7. /\ BatchOf(i) \in SUBSET Nat /\ BatchOf(i) \subseteq 1..cursor /\ BatchOf(i) \subseteq 1..Len(log)
      /\ \A u \in BatchOf(i) : p.start <= u /\ u <= p.end
  BY <1>3, <1>4
<1> QED BY <1>1, <1>2, <1>3, <1>6, <1>7 DEF p

(* A unit lies between the ends of one publication only.                   *)
LEMMA OnePlace ==
  ASSUME IInv, NEW i \in DOMAIN publications, NEW j \in DOMAIN publications, NEW u,
         u \in BatchOf(i), u \in BatchOf(j)
  PROVE  i = j
<1>1. /\ i \in Nat /\ publications[i].start <= u /\ u <= publications[i].end
      /\ publications[i].start \in Nat /\ publications[i].end \in Nat /\ u \in Nat
  BY BatchFacts
<1>2. /\ j \in Nat /\ publications[j].start <= u /\ u <= publications[j].end
      /\ publications[j].start \in Nat /\ publications[j].end \in Nat
  BY BatchFacts
<1>3. ~ (i < j)
  <2>1. i < j => publications[i].end < publications[j].start
    BY DEF IInv, InOrder
  <2> QED BY <1>1, <1>2, <2>1
<1>4. ~ (j < i)
  <2>1. j < i => publications[j].end < publications[i].start
    BY DEF IInv, InOrder
  <2> QED BY <1>1, <1>2, <2>1
<1> QED BY <1>1, <1>2, <1>3, <1>4

LEMMA Home ==
  ASSUME IInv, NEW u \in Analysed(1..cursor)
  PROVE  \E i \in DOMAIN publications : u \in Analysed(BatchOf(i))
<1>1. PICK p \in Committed : p.start <= u /\ u <= p.end
  BY DEF IInv, Covered
<1>2. PICK i \in DOMAIN publications : p = publications[i]
  BY DEF Committed
<1>3. u \in 1..cursor /\ log[u].disposition # "exclude"
  BY DEF Analysed
<1>4. publications[i].start \in Nat /\ publications[i].end \in Nat
  BY BatchFacts
<1>5. u \in BatchOf(i)
  BY <1>1, <1>2, <1>3, <1>4 DEF BatchOf
<1> QED BY <1>3, <1>5 DEF Analysed

(* An observation of a publication is that of each unit it states.         *)
LEMMA ToldFacts ==
  ASSUME IInv, NEW t \in Told
  PROVE  /\ t = <<t[1], t[2]>> /\ t[1] \in DOMAIN publications
         /\ \E u \in Analysed(BatchOf(t[1])) : t[2] = Tells(u, t[1])
         /\ \A u \in t[2].units : u \in Analysed(BatchOf(t[1])) /\ t[2] = Tells(u, t[1])
<1> DEFINE i == t[1]
           b == BatchOf(i)
<1>1. t = <<t[1], t[2]>> /\ i \in DOMAIN publications /\ t[2] \in publications[i].observations
  BY DEF Told
<1>2. b \in SUBSET Nat /\ publications[i].observations = {Tells(u, i) : u \in Analysed(b)}
  BY <1>1, BatchFacts
<1>3. PICK v \in Analysed(b) : t[2] = Tells(v, i)
  BY <1>1, <1>2
<1> HIDE DEF i
<1>4. t[2].units = RunOf(v, b)
  BY <1>3, ObservationFacts DEF Tells
<1>5. \A u \in RunOf(v, b) : u \in Analysed(b) /\ RunOf(u, b) = RunOf(v, b)
  <2> HIDE DEF b
  <2> QED BY <1>2, <1>3, RunFacts
<1>6. \A u \in RunOf(v, b) : Tells(u, i) = Tells(v, i)
  BY <1>5 DEF Tells
<1> QED BY <1>1, <1>3, <1>4, <1>5, <1>6 DEF i

LEMMA ToldOnce ==
  ASSUME IInv, NEW u \in Analysed(1..cursor)
  PROVE  /\ Cardinality({t \in Told : u \in t[2].units}) = 1
         /\ Cardinality(Attributed(u)) = 1
<1>1. PICK i \in DOMAIN publications : u \in Analysed(BatchOf(i))
  BY Home
<1> DEFINE b == BatchOf(i)
<1>2. /\ b \in SUBSET Nat /\ publications[i].manifest = ManifestOf(b)
      /\ publications[i].observations = {Tells(v, i) : v \in Analysed(b)}
  BY BatchFacts
<1>3. \A j \in DOMAIN publications : u \in BatchOf(j) => j = i
  BY <1>1, EvidenceFacts, OnePlace
<1>4. {t \in Told : u \in t[2].units} = {<<i, Tells(u, i)>>}
  <2>1. ASSUME NEW t \in Told, u \in t[2].units PROVE t = <<i, Tells(u, i)>>
    <3>1. t[1] \in DOMAIN publications /\ t = <<t[1], t[2]>>
          /\ u \in Analysed(BatchOf(t[1])) /\ t[2] = Tells(u, t[1])
      BY <2>1, ToldFacts
    <3>2. t[1] = i
      BY <1>3, <3>1, EvidenceFacts
    <3> QED BY <3>1, <3>2
  <2>2. <<i, Tells(u, i)>> \in Told
    BY <1>1, <1>2 DEF Told
  <2>3. u \in Tells(u, i).units
    <3>1. u \in RunOf(u, b)
      <4> HIDE DEF b
      <4>1. u \in Analysed(b)
        BY <1>1 DEF b
      <4> QED BY <1>2, <4>1, RunFacts
    <3> QED BY <3>1, ObservationFacts DEF Tells
  <2> DEFINE o == Tells(u, i)
  <2>4. <<i, o>>[2] = o
    OBVIOUS
  <2> HIDE DEF o
  <2> QED BY <2>1, <2>2, <2>3, <2>4 DEF o
<1>5. Attributed(u) = {<<i, RoleOf(u)>>}
  <2>1. ASSUME NEW j \in DOMAIN publications, NEW r
        PROVE  (r \in DOMAIN publications[j].manifest /\ u \in publications[j].manifest[r])
                  <=> (u \in Analysed(BatchOf(j)) /\ r = RoleOf(u))
    <3>1. publications[j].manifest = ManifestOf(BatchOf(j))
      BY BatchFacts
    <3>2. DOMAIN ManifestOf(BatchOf(j)) = {RoleOf(v) : v \in Analysed(BatchOf(j))}
      BY DEF ManifestOf
    <3>3. \A x \in DOMAIN ManifestOf(BatchOf(j)) :
             ManifestOf(BatchOf(j))[x] = {v \in Analysed(BatchOf(j)) : RoleOf(v) = x}
      BY DEF ManifestOf
    <3> QED BY <3>1, <3>2, <3>3
  <2>2. \A j \in DOMAIN publications : u \in Analysed(BatchOf(j)) <=> j = i
    BY <1>1, <1>3, EvidenceFacts
  <2>3. ASSUME NEW a \in (DOMAIN publications) \X Roles
        PROVE  a \in Attributed(u) <=> a = <<i, RoleOf(u)>>
    <3>1. a = <<a[1], a[2]>> /\ a[1] \in DOMAIN publications
      OBVIOUS
    <3>2. a \in Attributed(u) <=>
             (a[2] \in DOMAIN publications[a[1]].manifest /\ u \in publications[a[1]].manifest[a[2]])
      BY DEF Attributed
    <3>3. a \in Attributed(u) <=> (a[1] = i /\ a[2] = RoleOf(u))
      BY <2>1, <2>2, <3>1, <3>2
    <3> QED BY <3>1, <3>3
  <2>4. <<i, RoleOf(u)>> \in (DOMAIN publications) \X Roles
    BY RoleFacts
  <2>5. Attributed(u) \subseteq (DOMAIN publications) \X Roles
    BY DEF Attributed
  <2> QED BY <2>3, <2>4, <2>5
<1> QED BY <1>4, <1>5, FS_Singleton

LEMMA RangeFacts ==
  ASSUME IInv, NEW i \in DOMAIN publications, NEW u \in Analysed(BatchOf(i))
  PROVE  /\ RunOf(u, BatchOf(i)) \subseteq Analysed(BatchOf(i))
         /\ Tells(u, i).from \in RunOf(u, BatchOf(i)) /\ Tells(u, i).through \in RunOf(u, BatchOf(i))
         /\ Tells(u, i).from \in BatchOf(i) /\ Tells(u, i).through \in BatchOf(i)
<1> DEFINE b == BatchOf(i)
           run == RunOf(u, b)
<1>1. b \in SUBSET Nat /\ b \subseteq 1..cursor /\ cursor \in Nat
  BY BatchFacts, LogFacts DEF IInv
<1>2. u \in run /\ run \subseteq Analysed(b) /\ Analysed(b) \subseteq b
  <2> HIDE DEF b
  <2>1. u \in Analysed(b)
    BY DEF b
  <2> QED BY <1>1, <2>1, RunFacts, EvidenceFacts
<1>3. run \in SUBSET (0..cursor)
  BY <1>1, <1>2
<1>4. Tells(u, i).from = Min(run) /\ Tells(u, i).through = Max(run)
  BY ObservationFacts DEF Tells
<1> HIDE DEF run
<1>5. Min(run) \in run /\ Max(run) \in run
  BY <1>1, <1>2, <1>3, Ordered
<1> QED BY <1>2, <1>4, <1>5 DEF run

LEMMA ObservationsApart ==
  ASSUME IInv, NEW s \in Told, NEW t \in Told, s # t
  PROVE  s[2].through < t[2].from \/ t[2].through < s[2].from
<1> DEFINE i == s[1]
           j == t[1]
<1>1. s = <<i, s[2]>> /\ t = <<j, t[2]>> /\ i \in DOMAIN publications /\ j \in DOMAIN publications
  BY ToldFacts
<1>2. PICK u \in Analysed(BatchOf(i)) : s[2] = Tells(u, i)
  BY ToldFacts
<1>3. PICK v \in Analysed(BatchOf(j)) : t[2] = Tells(v, j)
  BY ToldFacts
<1> DEFINE R == RunOf(u, BatchOf(i))
           Q == RunOf(v, BatchOf(j))
           a == s[2].from
           b == s[2].through
           c == t[2].from
           d == t[2].through
<1>4. /\ R \subseteq Analysed(BatchOf(i)) /\ a \in R /\ b \in R /\ a \in BatchOf(i) /\ b \in BatchOf(i)
  BY <1>1, <1>2, RangeFacts
<1>5. /\ Q \subseteq Analysed(BatchOf(j)) /\ c \in Q /\ d \in Q /\ c \in BatchOf(j) /\ d \in BatchOf(j)
  BY <1>1, <1>3, RangeFacts
<1>6. /\ BatchOf(i) \in SUBSET Nat /\ publications[i].start \in Nat /\ publications[i].end \in Nat
      /\ i \in Nat /\ \A x \in BatchOf(i) : publications[i].start <= x /\ x <= publications[i].end
  BY <1>1, BatchFacts
<1>7. /\ BatchOf(j) \in SUBSET Nat /\ publications[j].start \in Nat /\ publications[j].end \in Nat
      /\ j \in Nat /\ \A x \in BatchOf(j) : publications[j].start <= x /\ x <= publications[j].end
  BY <1>1, BatchFacts
<1>8. CASE i = j
  <2>1. R # Q
    <3>1. s[2] # t[2]
      BY <1>1, <1>8
    <3> QED BY <1>2, <1>3, <1>8, <3>1 DEF Tells
  <2>2. /\ \A x \in R : RunOf(x, BatchOf(i)) = R
        /\ \A x, y \in R, z \in Analysed(BatchOf(i)) : x <= z /\ z <= y => z \in R
    BY <1>2, <1>6, RunFacts
  <2>3. /\ \A x \in Q : RunOf(x, BatchOf(i)) = Q
        /\ \A x, y \in Q, z \in Analysed(BatchOf(i)) : x <= z /\ z <= y => z \in Q
    BY <1>3, <1>7, <1>8, RunFacts
  <2>4. a \in Nat /\ b \in Nat /\ c \in Nat /\ d \in Nat
    BY <1>4, <1>5, <1>6, <1>7
  <2>5. a \in Analysed(BatchOf(i)) /\ c \in Analysed(BatchOf(i))
    BY <1>4, <1>5, <1>8
  <2> HIDE DEF R, Q, a, b, c, d
  <2>6. ~ (a <= c /\ c <= b)
    BY <1>4, <1>5, <2>1, <2>2, <2>3, <2>5
  <2>7. ~ (c <= a /\ a <= d)
    BY <1>4, <1>5, <2>1, <2>2, <2>3, <2>5
  <2>8. b < c \/ d < a
    BY <2>4, <2>6, <2>7
  <2> QED BY <2>8 DEF a, b, c, d
<1>9. CASE i < j
  <2>1. publications[i].end < publications[j].start
    BY <1>1, <1>9 DEF IInv, InOrder
  <2> HIDE DEF i, j, R, Q, a, b, c, d
  <2>2. b < c
    BY <1>4, <1>5, <1>6, <1>7, <2>1
  <2> QED BY <2>2 DEF b, c
<1>10. CASE j < i
  <2>1. publications[j].end < publications[i].start
    BY <1>1, <1>10 DEF IInv, InOrder
  <2> HIDE DEF i, j, R, Q, a, b, c, d
  <2>2. d < a
    BY <1>4, <1>5, <1>6, <1>7, <2>1
  <2> QED BY <2>2 DEF d, a
<1> HIDE DEF i, j
<1>11. i = j \/ i < j \/ j < i
  BY <1>6, <1>7
<1> QED BY <1>8, <1>9, <1>10, <1>11

LEMMA EvidenceRides ==
  ASSUME IInv, NEW i \in DOMAIN publications
  PROVE  /\ UNION {o.evidence : o \in publications[i].observations} = publications[i].evidence
         /\ \A u \in publications[i].evidence : u \in publications[i].start .. publications[i].end
<1> DEFINE b == BatchOf(i)
<1>1. /\ b \in SUBSET Nat /\ publications[i].evidence = Evidence(b)
      /\ publications[i].observations = {Tells(u, i) : u \in Analysed(b)}
  BY BatchFacts
<1>2. \A u : Tells(u, i).evidence = RunOf(u, b) \cap Evidence(b)
  BY ObservationFacts DEF Tells
<1>3. b = publications[i].start .. publications[i].end
  BY DEF BatchOf
<1> HIDE DEF b
<1>4. Evidence(b) \subseteq Analysed(b) /\ Analysed(b) \subseteq b
  BY EvidenceFacts
<1>5. \A u \in Analysed(b) : u \in RunOf(u, b)
  BY <1>1, RunFacts
<1>6. UNION {o.evidence : o \in publications[i].observations} = Evidence(b)
  BY <1>1, <1>2, <1>4, <1>5
<1> QED BY <1>1, <1>3, <1>4, <1>6

(* ProcessedIsTold: however the units are cut into batches, each one that  *)
(* the cursor passed and that is not excluded is in exactly one            *)
(* observation and under exactly one role, observations do not overlap,    *)
(* and evidence rides in the observation that states it.                   *)
THEOREM EveryUnitIsToldOnce == Spec => []ProcessedIsTold
<1>1. IInv => ProcessedIsTold
  BY ToldOnce, ObservationsApart, EvidenceRides DEF ProcessedIsTold
<1> QED BY <1>1, PublicationsTellTheLog, PTL

(* NoEchoIsEvidence: no chain of answers that cite one another makes a     *)
(* memory into evidence.                                                   *)
LEMMA EvidenceIsRooted ==
  ASSUME IInv, NEW i \in DOMAIN publications, NEW u \in publications[i].evidence
  PROVE  /\ Rooted(u)
         /\ DerivedOnly(u) => Sources(u) \cap BatchOf(i) # {}
<1> DEFINE b == BatchOf(i)
<1>1. publications[i].evidence = Evidence(b) /\ b \subseteq 1..Len(log)
  BY BatchFacts
<1> HIDE DEF b
<1>2. u \in b /\ Included(u) /\ (Grounded(u, b) \/ ~ DerivedOnly(u))
  BY <1>1 DEF Evidence
<1>3. Grounded(u, b) => \E v \in Sources(u) : v \in b /\ Included(v) /\ Observed(v)
  BY DEF Grounded, NewObservations
<1>4. ASSUME NEW units \in SUBSET (1..Len(log)), Closed(units)
      PROVE  u \in units
  <2>1. CASE Grounded(u, b)
    <3>1. PICK v \in Sources(u) : v \in b /\ Included(v) /\ Observed(v)
      BY <1>3, <2>1
    <3>2. v \in units
      BY <1>1, <1>4, <3>1 DEF Closed
    <3> QED BY <1>1, <1>2, <1>4, <3>1, <3>2 DEF Closed
  <2>2. CASE ~ DerivedOnly(u)
    BY <1>1, <1>2, <1>4, <2>2 DEF Closed, DerivedOnly
  <2> QED BY <1>2, <2>1, <2>2
<1>5. DerivedOnly(u) => Sources(u) \cap b # {}
  BY <1>2, <1>3
<1> QED BY <1>4, <1>5 DEF Rooted, b

THEOREM NoChainOfAnswersIsEvidence == Spec => []NoEchoIsEvidence
<1>1. ASSUME IInv, NEW i \in DOMAIN publications, NEW u \in publications[i].evidence
      PROVE  /\ Rooted(u)
             /\ DerivedOnly(u) => Sources(u) \cap (publications[i].start .. publications[i].end) # {}
  BY <1>1, EvidenceIsRooted DEF BatchOf
<1>2. IInv => NoEchoIsEvidence
  BY <1>1 DEF NoEchoIsEvidence
<1> QED BY <1>2, PublicationsTellTheLog, PTL

(* CutIsRepresented: what the raw archive may lose is excluded, or stated  *)
(* by a compartment that a BUST has represented.                           *)
THEOREM CutIsBehindTheBust == Spec => []CutIsRepresented
<1>1. ASSUME IInv, NEW u \in Analysed(1..CompactionCut)
      PROVE  \E i \in DOMAIN publications :
               publications[i].end <= represented /\ u \in publications[i].start .. publications[i].end
  <2>1. u \in 1..CompactionCut /\ log[u].disposition # "exclude"
    BY DEF Analysed
  <2>2. cursor \in Nat /\ represented \in {0} \cup {publications[i].end : i \in DOMAIN publications}
    BY <1>1, LogFacts DEF IInv, TypeOK
  <2>3. cursor # 0 /\ represented # 0 /\ CompactionCut = Min({cursor + 1 - 1, represented})
    BY <2>1, <2>2 DEF CompactionCut, AuthorizedCut
  <2>4. PICK i \in DOMAIN publications : represented = publications[i].end
    BY <2>2, <2>3
  <2>5. i \in Nat /\ publications[i].start \in Nat /\ publications[i].end \in Nat
        /\ publications[i].start <= publications[i].end
    BY <1>1, BatchFacts
  <2>6. CompactionCut \in Nat /\ CompactionCut <= cursor /\ CompactionCut <= represented
    <3> DEFINE S == {cursor, represented}
    <3>1. represented \in Nat /\ cursor + 1 - 1 = cursor
      BY <2>2, <2>4, <2>5
    <3>2. S \in SUBSET (0..cursor + represented) /\ S # {} /\ cursor + represented \in Nat
      BY <2>2, <3>1
    <3> HIDE DEF S
    <3>3. Min(S) \in 0..cursor + represented /\ \A k \in S : Min(S) <= k
      BY <3>2, Ordered
    <3>4. CompactionCut = Min(S)
      BY <2>3, <3>1 DEF S
    <3> QED BY <3>2, <3>3, <3>4 DEF S
  <2>7. u \in Analysed(1..cursor) /\ u \in Nat /\ u <= represented
    BY <2>1, <2>2, <2>4, <2>5, <2>6 DEF Analysed
  <2>8. PICK j \in DOMAIN publications : u \in Analysed(BatchOf(j))
    BY <1>1, <2>7, Home
  <2>9. u \in BatchOf(j)
    BY <2>8, EvidenceFacts
  <2>10. j \in Nat /\ publications[j].start \in Nat /\ publications[j].end \in Nat
         /\ publications[j].start <= u
    BY <1>1, <2>9, BatchFacts
  <2>11. ~ (i < j)
    <3>1. i < j => publications[i].end < publications[j].start
      BY <1>1 DEF IInv, InOrder
    <3> QED BY <2>4, <2>5, <2>7, <2>10, <3>1
  <2>12. publications[j].end <= represented
    <3>1. j < i => publications[j].end < publications[i].start
      BY <1>1 DEF IInv, InOrder
    <3>2. i = j \/ j < i
      BY <2>5, <2>10, <2>11
    <3> QED BY <2>4, <2>5, <2>10, <3>1, <3>2
  <2> QED BY <2>9, <2>12 DEF BatchOf
<1>2. IInv => CutIsRepresented
  BY <1>1 DEF CutIsRepresented
<1> QED BY <1>2, PublicationsTellTheLog, PTL

===============================================================================
