---------------------------- MODULE Ingest_proofs ----------------------------
(***************************************************************************)
(* Proofs about Ingest, for every value of its constants.                  *)
(***************************************************************************)
EXTENDS Ingest, FiniteSetTheorems, FunctionTheorems, WellFoundedInduction, TLAPS

Ids  == EventIds \cup Messages
Rows == [src: Ids, seq: Seqs, kind: UnitKinds, disp: {"include", "exclude"},
         companion: EventIds \cup {None}, paired: BOOLEAN]

(***************************************************************************)
(* The invariant, in parts.  Those about units have them as a parameter,   *)
(* since a replay makes units in many steps inside one action.             *)
(***************************************************************************)
EventRows ==
    /\ events \subseteq [id: EventIds, seq: Seqs, port: {"ingest", "ledger"}]
    /\ \A a, b \in events: (a.id = b.id \/ a.seq = b.seq) => a = b

Shown(us) == {u \in us: u.disp = "include"}
UnitRows(us) ==
    /\ us \subseteq Rows
    /\ \A a, b \in us: (a.src = b.src \/ a.seq = b.seq) => a = b
    /\ Cardinality(Shown(us)) <= SoftCap
    /\ Cardinality(us) <= HardCap

Flags ==
    /\ current \in Sessions /\ emergency \in BOOLEAN /\ replayed \in BOOLEAN
    /\ emergency => Cardinality(units) = HardCap

Whole ==
    \A ev \in events: ev.port = "ingest" /\ Builds(Input[ev.id]) => HasUnit(units, ev.id)
NumberedAt(u) ==
    u.src \in EventIds =>
        IF HasEvent(u.src) THEN \A ev \in events: ev.id = u.src => ev.seq = u.seq
        ELSE KeyTaken(u.src)
Numbered(us) == \A u \in us: NumberedAt(u)

ProvedAt(u) ==
    u.paired => \/ u.companion = None /\ Input[u.src].proves = u.src
                \/ /\ u.companion # None
                   /\ Input[u.companion].companionOf = u.src
                   /\ Input[u.companion].proves = u.src
Proved(us) == \A u \in us: ProvedAt(u)

(* The numbers in use are 1, 2, ... without a gap: with as many ids there  *)
(* are as many numbers.                                                    *)
Used == {ev.seq: ev \in events} \cup {u.seq: u \in units}
Gapless == \A k \in Used: \A j \in 1..k: j \in Used

IInv ==
    /\ EventRows /\ UnitRows(units) /\ Flags
    /\ Whole /\ Numbered(units) /\ Proved(units) /\ ReplayHeals
    /\ Gapless

LEMMA Parts ==
  /\ EventRows /\ UnitRows(units) /\ Flags <=> TypeOK
  /\ Whole /\ Numbered(units) <=> IngestIsAtomic
  /\ Proved(units) <=> PairedIsProved
<1>1. EventRows /\ UnitRows(units) /\ Flags <=> TypeOK
  BY DEF EventRows, UnitRows, Flags, TypeOK, Rows, Ids, Shown
<1>2. Whole /\ Numbered(units) <=> IngestIsAtomic
  BY DEF Whole, Numbered, NumberedAt, IngestIsAtomic
<1>3. Proved(units) <=> PairedIsProved
  BY DEF Proved, ProvedAt, PairedIsProved
<1> QED BY <1>1, <1>2, <1>3

(***************************************************************************)
(* Numbers.                                                                *)
(***************************************************************************)
LEMMA Least ==
  ASSUME NEW S \in SUBSET Nat, S # {}
  PROVE  \E n \in S : \A k \in S : n <= k
<1> DEFINE R == {ss \in Nat \X Nat : ss[1] < ss[2]}
<1>1. IsWellFoundedOn(R, Nat)
  BY NatLessThanWellFounded DEF OpToRel
<1>2. \A k, n \in Nat : k < n => <<k, n>> \in R
  OBVIOUS
<1> HIDE DEF R
<1>3. PICK n \in S : \A k \in S : ~ (<<k, n>> \in R)
  BY <1>1, WFMin
<1>4. \A k \in S : n <= k
  <2> SUFFICES ASSUME NEW k \in S PROVE n <= k
    OBVIOUS
  <2>1. k \in Nat /\ n \in Nat
    OBVIOUS
  <2>2. ~ (k < n)
    BY <1>2, <1>3, <2>1, Zenon
  <2> QED BY <2>1, <2>2
<1> QED BY <1>4

LEMMA Ordered ==
  ASSUME NEW n \in Nat, NEW S \in SUBSET (0..n), S # {}
  PROVE  /\ Min(S) \in S /\ Max(S) \in S /\ Min(S) \in 0..n /\ Max(S) \in 0..n
         /\ \A k \in S : Min(S) <= k /\ k <= Max(S)
<1> DEFINE bounds == {k \in 0..n : \A x \in S : x <= k}
<1>1. S \subseteq Nat /\ \A x \in S : x \in 0..n /\ x <= n
  OBVIOUS
<1>2. PICK lo \in S : \A k \in S : lo <= k
  BY <1>1, Least
<1>3. PICK k \in bounds : \A j \in bounds : k <= j
  <2>1. bounds \in SUBSET Nat /\ n \in bounds
    BY <1>1
  <2> HIDE DEF bounds
  <2> QED BY <2>1, Least
<1>4. k \in 0..n /\ \A x \in S : x <= k
  BY <1>3
<1>5. \A j \in 0..n : (\A x \in S : x <= j) => k <= j
  BY <1>3
<1> HIDE DEF bounds
<1>6. k \in S
  <2> SUFFICES ASSUME k \notin S PROVE FALSE
    OBVIOUS
  <2>1. \A x \in S : x \in Nat /\ x <= k /\ x # k
    BY <1>1, <1>4
  <2>2. lo \in Nat /\ lo <= k /\ lo # k /\ k \in Nat
    BY <1>1, <1>4, <2>1
  <2>3. k - 1 \in 0..n /\ ~ (k <= k - 1)
    BY <1>4, <2>2
  <2>4. \A x \in S : x <= k - 1
    BY <2>1, <2>2
  <2> QED BY <1>5, <2>3, <2>4
<1>7. Min(S) \in S /\ \A x \in S : Min(S) <= x
  BY <1>2 DEF Min
<1>8. Max(S) \in S /\ \A x \in S : Max(S) >= x
  <2>1. \A x \in S : k >= x
    BY <1>1, <1>4
  <2> QED BY <1>6, <2>1 DEF Max
<1>9. \A x \in S : x <= Max(S)
  BY <1>1, <1>8
<1> QED BY <1>1, <1>7, <1>8, <1>9

LEMMA Greatest ==
  ASSUME NEW n \in Nat, NEW S \in SUBSET (0..n), S # {}
  PROVE  Max(S) \in S /\ Max(S) \in 0..n /\ \A k \in S: k <= Max(S)
<1> DEFINE bounds == {k \in 0..n: \A x \in S: x <= k}
<1>1. \A x \in S: x \in Nat /\ x \in 0..n /\ x <= n
  OBVIOUS
<1>2. PICK k \in bounds: \A j \in bounds: k <= j
  <2>1. bounds \in SUBSET Nat /\ n \in bounds
    BY <1>1
  <2> HIDE DEF bounds
  <2> QED BY <2>1, Least
<1>3. k \in 0..n /\ \A x \in S: x <= k
  BY <1>2
<1>4. \A j \in 0..n: (\A x \in S: x <= j) => k <= j
  BY <1>2
<1> HIDE DEF bounds
<1>5. k \in S
  <2> SUFFICES ASSUME k \notin S PROVE FALSE
    OBVIOUS
  <2>1. \A x \in S: x \in Nat /\ x <= k /\ x # k
    BY <1>1, <1>3
  <2>2. PICK x \in S: TRUE
    OBVIOUS
  <2>3. x \in Nat /\ x <= k /\ x # k /\ k \in Nat
    BY <1>3, <2>1
  <2>4. k - 1 \in 0..n /\ ~ (k <= k - 1)
    BY <1>3, <2>3
  <2>5. \A y \in S: y <= k - 1
    BY <2>1, <2>3
  <2> QED BY <1>4, <2>4, <2>5
<1>6. Max(S) \in S /\ \A x \in S: Max(S) >= x
  <2>1. \A x \in S: k >= x
    BY <1>1, <1>3
  <2> QED BY <1>5, <2>1 DEF Max
<1>7. \A x \in S: x <= Max(S)
  BY <1>1, <1>6
<1> QED BY <1>1, <1>6, <1>7

LEMMA Constants ==
  /\ LastSeq \in Nat /\ SoftCap \in Nat /\ 0 < SoftCap /\ HardCap \in Nat /\ HardCap = 2 * SoftCap
  /\ IsFiniteSet(Ids) /\ Cardinality(Ids) = LastSeq
  /\ Seqs \subseteq Nat /\ \A k \in Seqs: 1 <= k /\ k <= LastSeq
<1>1. /\ IsFiniteSet(EventIds) /\ IsFiniteSet(Messages) /\ EventIds \cap Messages = {}
      /\ SoftCap \in Nat /\ SoftCap # 0
  BY IngestAssumption DEF IngestAssumption
<1>2. Cardinality(EventIds) \in Nat /\ Cardinality(Messages) \in Nat
  BY <1>1, FS_CardinalityType
<1>3. IsFiniteSet(Ids) /\ Cardinality(Ids) = Cardinality(EventIds) + Cardinality(Messages) - Cardinality({})
  BY <1>1, FS_Union DEF Ids
<1>4. Cardinality({}) = 0
  BY FS_EmptySet
<1>5. LastSeq \in Nat /\ Cardinality(Ids) = LastSeq
  BY <1>2, <1>3, <1>4 DEF LastSeq
<1> QED BY <1>1, <1>3, <1>5 DEF Seqs, HardCap

LEMMA EventFacts ==
  ASSUME EventRows, NEW ev \in events
  PROVE  /\ ev.id \in EventIds /\ ev.seq \in Seqs /\ ev.port \in {"ingest", "ledger"}
         /\ ev.seq \in Nat /\ 1 <= ev.seq /\ ev.seq <= LastSeq
<1>1. ev \in [id: EventIds, seq: Seqs, port: {"ingest", "ledger"}]
  BY DEF EventRows
<1>2. ev.id \in EventIds /\ ev.seq \in Seqs /\ ev.port \in {"ingest", "ledger"}
  BY <1>1, Zenon
<1> QED BY <1>2, Constants

LEMMA UnitFacts ==
  ASSUME NEW us, UnitRows(us), NEW u \in us
  PROVE  /\ u \in Rows /\ u.src \in Ids /\ u.seq \in Seqs /\ u.kind \in UnitKinds
         /\ u.disp \in {"include", "exclude"} /\ u.companion \in EventIds \cup {None}
         /\ u.paired \in BOOLEAN
         /\ u.seq \in Nat /\ 1 <= u.seq /\ u.seq <= LastSeq
<1>1. u \in Rows
  BY DEF UnitRows
<1>2. /\ u.src \in Ids /\ u.seq \in Seqs /\ u.kind \in UnitKinds
      /\ u.disp \in {"include", "exclude"} /\ u.companion \in EventIds \cup {None}
      /\ u.paired \in BOOLEAN
  BY <1>1, Zenon DEF Rows
<1> QED BY <1>1, <1>2, Constants

(* The next number is above all that are in use, and all below it are.     *)
LEMMA NextFacts ==
  ASSUME IInv
  PROVE  /\ LastUnit \in Nat /\ NextSeq \in Nat /\ LastUnit < NextSeq /\ NextSeq <= LastSeq + 1
         /\ \A u \in units: u.seq <= LastUnit
         /\ \A k \in Used: k \in Nat /\ k < NextSeq
         /\ \A j \in Nat: 1 <= j /\ j < NextSeq => j \in Used
<1> DEFINE U == {0} \cup {u.seq: u \in units}
           E == {LastUnit} \cup {ev.seq: ev \in events}
<1>1. LastSeq \in Nat
  BY Constants
<1>2. \A u \in units: u.seq \in 0..LastSeq
  BY UnitFacts, Constants DEF IInv
<1>3. \A ev \in events: ev.seq \in 0..LastSeq
  BY EventFacts, Constants DEF IInv
<1>4. LastUnit = Max(U) /\ NextSeq = Max(E) + 1
  BY DEF LastUnit, NextSeq
<1>5. U \in SUBSET (0..LastSeq) /\ U # {}
  BY <1>1, <1>2
<1>6. LastUnit \in U /\ LastUnit \in 0..LastSeq /\ \A k \in U: k <= LastUnit
  <2> HIDE DEF U
  <2> QED BY <1>1, <1>4, <1>5, Greatest
<1>7. E \in SUBSET (0..LastSeq) /\ E # {}
  BY <1>1, <1>3, <1>6
<1>8. Max(E) \in E /\ Max(E) \in 0..LastSeq /\ \A k \in E: k <= Max(E)
  <2> HIDE DEF E
  <2> QED BY <1>1, <1>7, Greatest
<1>9. \A u \in units: u.seq <= LastUnit
  BY <1>6
<1>10. /\ LastUnit \in Nat /\ NextSeq \in Nat /\ LastUnit < NextSeq /\ NextSeq <= LastSeq + 1
  <2>1. LastUnit <= Max(E)
    BY <1>8
  <2> HIDE DEF E
  <2> QED BY <1>1, <1>4, <1>6, <1>8, <2>1
<1>11. \A k \in Used: k \in Nat /\ k <= Max(E)
  <2>1. \A u \in units: u.seq \in Nat /\ u.seq <= LastUnit /\ LastUnit <= Max(E)
    BY <1>2, <1>8, <1>9
  <2>2. \A ev \in events: ev.seq \in Nat /\ ev.seq <= Max(E)
    BY <1>3, <1>8
  <2> HIDE DEF E
  <2> QED BY <1>6, <1>8, <2>1, <2>2 DEF Used
<1>12. \A j \in Nat: 1 <= j /\ j <= Max(E) => j \in Used
  <2>1. Max(E) = 0 \/ Max(E) \in Used
    BY <1>6, <1>8 DEF Used
  <2> HIDE DEF E
  <2>2. Max(E) \in Used => \A j \in 1..Max(E): j \in Used
    BY DEF IInv, Gapless
  <2> QED BY <1>8, <2>1, <2>2
<1> HIDE DEF E
<1> QED BY <1>4, <1>8, <1>9, <1>10, <1>11, <1>12

(* There is room for a row of an id that has none.                         *)
LEMMA Room ==
  ASSUME IInv, NEW x \in Ids, ~ HasEvent(x), ~ HasUnit(units, x)
  PROVE  NextSeq \in Seqs
<1> DEFINE n == NextSeq - 1
           Holds(id, k) == \/ \E ev \in events: ev.id = id /\ ev.seq = k
                           \/ \E u \in units: u.src = id /\ u.seq = k
<1>1. n \in Nat /\ \A k \in 1..n: k \in Used
  <2>1. NextSeq \in Nat /\ 0 < NextSeq /\ \A j \in Nat: 1 <= j /\ j < NextSeq => j \in Used
    BY NextFacts
  <2> QED BY <2>1
<1>2. \A k \in Used: \E id \in Ids \ {x}: Holds(id, k)
  <2>1. \A ev \in events: ev.id \in Ids \ {x}
    BY EventFacts DEF IInv, HasEvent, Ids
  <2>2. \A u \in units: u.src \in Ids \ {x}
    BY UnitFacts DEF IInv, HasUnit
  <2> QED BY <2>1, <2>2 DEF Used
<1>3. ASSUME NEW id, NEW j, NEW k, Holds(id, j), Holds(id, k)
      PROVE  j = k
  <2>1. \A a, b \in events: a.id = b.id => a = b
    BY DEF IInv, EventRows
  <2>2. \A a, b \in units: a.src = b.src => a = b
    BY DEF IInv, UnitRows
  <2>3. ASSUME NEW u \in units, NEW ev \in events, ev.id = u.src PROVE ev.seq = u.seq
    <3>1. u.src \in EventIds /\ HasEvent(u.src)
      BY <2>3, EventFacts DEF IInv, HasEvent
    <3> QED BY <2>3, <3>1 DEF IInv, Numbered, NumberedAt
  <2> QED BY <1>3, <2>1, <2>2, <2>3
<1> HIDE DEF Holds, n
<1> DEFINE f == [k \in 1..n |-> CHOOSE id \in Ids \ {x}: Holds(id, k)]
<1>4. \A k \in 1..n: f[k] \in Ids \ {x} /\ Holds(f[k], k)
  BY <1>1, <1>2
<1>5. f \in [1..n -> Ids \ {x}]
  BY <1>4
<1>6. f \in Injection(1..n, Ids \ {x})
  <2>1. \A j, k \in 1..n: f[j] = f[k] => j = k
    BY <1>3, <1>4
  <2> HIDE DEF f
  <2> QED BY <1>5, <2>1, Fun_IsInj
<1>7. IsFiniteSet(Ids \ {x}) /\ Cardinality(Ids \ {x}) = LastSeq - 1
  BY Constants, FS_RemoveElement
<1>8. Cardinality(1..n) <= LastSeq - 1
  <2> HIDE DEF f
  <2> QED BY <1>6, <1>7, FS_Injection
<1>9. Cardinality(1..n) = n
  BY <1>1, FS_Interval
<1> QED BY <1>1, <1>8, <1>9, Constants, NextFacts DEF n, Seqs

(***************************************************************************)
(* Sets of unit rows.                                                      *)
(***************************************************************************)
LEMMA SameSize ==
  ASSUME NEW S, NEW T, IsFiniteSet(S),
         \A a, b \in S: a.src = b.src => a = b,
         \A a, b \in T: a.src = b.src => a = b,
         \A a \in S: \E b \in T: b.src = a.src,
         \A b \in T: \E a \in S: a.src = b.src
  PROVE  IsFiniteSet(T) /\ Cardinality(T) = Cardinality(S)
<1> DEFINE f == [a \in S |-> CHOOSE b \in T: b.src = a.src]
<1>1. \A a \in S: f[a] \in T /\ f[a].src = a.src
  OBVIOUS
<1>2. f \in [S -> T]
  BY <1>1
<1> HIDE DEF f
<1>3. \A a, b \in S: f[a] = f[b] => a = b
  BY <1>1
<1>4. \A b \in T: \E a \in S: f[a] = b
  BY <1>1
<1>5. f \in Bijection(S, T)
  BY <1>2, <1>3, <1>4, Fun_IsBij
<1> QED BY <1>5, FS_Bijection DEF ExistsBijection

LEMMA RowsFinite ==
  ASSUME NEW us, UnitRows(us)
  PROVE  /\ IsFiniteSet(us) /\ Cardinality(us) \in Nat
         /\ IsFiniteSet(Shown(us)) /\ Cardinality(Shown(us)) \in Nat
         /\ Cardinality(Shown(us)) <= Cardinality(us)
<1> DEFINE f == [u \in us |-> u.src]
<1>1. f \in [us -> Ids] /\ \A a, b \in us: f[a] = f[b] => a = b
  BY UnitFacts DEF UnitRows
<1> HIDE DEF f
<1>2. f \in Injection(us, Ids)
  BY <1>1, Fun_IsInj
<1>3. IsFiniteSet(us)
  BY <1>2, Constants, FS_Injection
<1>4. Shown(us) \in SUBSET us
  BY DEF Shown
<1> QED BY <1>3, <1>4, FS_Subset, FS_CardinalityType

LEMMA RowFields ==
  ASSUME NEW us, NEW src, NEW seq, NEW kind, NEW paired
  PROVE  LET row == Row(us, src, seq, kind, paired)
         IN  /\ row.src = src /\ row.seq = seq /\ row.kind = kind /\ row.paired = paired
             /\ row.companion = None
             /\ row.disp = IF Cardinality(us) >= SoftCap THEN "exclude" ELSE "include"
BY Zenon DEF Row

LEMMA RowType ==
  ASSUME NEW us, NEW src \in Ids, NEW seq \in Seqs, NEW kind \in UnitKinds, NEW paired \in BOOLEAN
  PROVE  Row(us, src, seq, kind, paired) \in Rows
<1> DEFINE disp == IF Cardinality(us) >= SoftCap THEN "exclude" ELSE "include"
<1>1. disp \in {"include", "exclude"} /\ None \in EventIds \cup {None}
  OBVIOUS
<1>2. Row(us, src, seq, kind, paired) =
        [src |-> src, seq |-> seq, kind |-> kind, paired |-> paired, companion |-> None, disp |-> disp]
  BY Zenon DEF Row
<1>3. \A c \in EventIds \cup {None}, d \in {"include", "exclude"}:
        [src |-> src, seq |-> seq, kind |-> kind, paired |-> paired, companion |-> c, disp |-> d] \in Rows
  BY Zenon DEF Rows
<1> HIDE DEF disp
<1> QED BY <1>1, <1>2, <1>3

LEMMA AddRow ==
  ASSUME NEW us, UnitRows(us), ~ Full(us),
         NEW src \in Ids, NEW seq \in Seqs, NEW kind \in UnitKinds, NEW paired \in BOOLEAN,
         ~ HasUnit(us, src), ~ SeqTaken(us, seq)
  PROVE  LET row == Row(us, src, seq, kind, paired)
         IN  UnitRows(us \cup {row}) /\ Cardinality(us \cup {row}) = Cardinality(us) + 1
<1>0. PICK row: row = Row(us, src, seq, kind, paired)
  OBVIOUS
<1>1. /\ row \in Rows /\ row.src = src /\ row.seq = seq
      /\ row.disp = IF Cardinality(us) >= SoftCap THEN "exclude" ELSE "include"
  BY <1>0, RowType, RowFields
<1>2. \A u \in us: u.src # src /\ u.seq # seq
  BY DEF HasUnit, SeqTaken
<1>3. row \notin us
  BY <1>1, <1>2
<1>4. us \cup {row} \subseteq Rows
  BY <1>1 DEF UnitRows
<1>5. \A a, b \in us \cup {row}: (a.src = b.src \/ a.seq = b.seq) => a = b
  BY <1>1, <1>2 DEF UnitRows
<1>6. /\ IsFiniteSet(us) /\ Cardinality(us) \in Nat /\ IsFiniteSet(Shown(us))
      /\ Cardinality(Shown(us)) \in Nat /\ Cardinality(Shown(us)) <= Cardinality(us)
      /\ SoftCap \in Nat /\ HardCap \in Nat
  BY RowsFinite, Constants
<1>7. Cardinality(us \cup {row}) = Cardinality(us) + 1
  BY <1>3, <1>6, FS_AddElement
<1>8. Cardinality(us) < HardCap
  BY <1>6 DEF Full
<1>9. Cardinality(Shown(us \cup {row})) <= SoftCap
  <2>1. CASE Cardinality(us) >= SoftCap
    <3>1. row.disp = "exclude"
      BY <1>1, <2>1
    <3>2. Shown(us \cup {row}) = Shown(us)
      BY <3>1 DEF Shown
    <3> QED BY <3>2 DEF UnitRows
  <2>2. CASE ~ (Cardinality(us) >= SoftCap)
    <3>1. row.disp = "include"
      BY <1>1, <2>2
    <3>2. Shown(us \cup {row}) = Shown(us) \cup {row} /\ row \notin Shown(us)
      BY <1>3, <3>1 DEF Shown
    <3>3. Cardinality(Shown(us \cup {row})) = Cardinality(Shown(us)) + 1
      BY <1>6, <3>2, FS_AddElement
    <3> QED BY <1>6, <2>2, <3>3
  <2> QED BY <2>1, <2>2
<1>10. Cardinality(us \cup {row}) <= HardCap
  BY <1>6, <1>7, <1>8
<1> QED BY <1>0, <1>4, <1>5, <1>7, <1>9, <1>10 DEF UnitRows

(* A companion changes the pairing of a unit and nothing else.             *)
Named(u, i) == u.src = i.companionOf /\ u.kind = "user" /\ ~ u.paired
Merged(u, e, i) ==
    IF Named(u, i) THEN [u EXCEPT !.companion = e, !.paired = (i.proves = u.src)] ELSE u

LEMMA MergedFacts ==
  ASSUME NEW u \in Rows, NEW e \in EventIds, NEW i
  PROVE  /\ Merged(u, e, i) \in Rows
         /\ Merged(u, e, i).src = u.src /\ Merged(u, e, i).seq = u.seq
         /\ Merged(u, e, i).disp = u.disp
         /\ Named(u, i) => /\ Merged(u, e, i).companion = e
                           /\ Merged(u, e, i).paired = (i.proves = u.src)
         /\ ~ Named(u, i) => Merged(u, e, i) = u
<1>1. CASE ~ Named(u, i)
  BY <1>1 DEF Merged
<1>2. CASE Named(u, i)
  <2> DEFINE proved == i.proves = u.src
  <2>1. Merged(u, e, i) = [u EXCEPT !.companion = e, !.paired = proved]
    BY <1>2 DEF Merged
  <2>2. proved \in BOOLEAN /\ e \in EventIds \cup {None}
    OBVIOUS
  <2> HIDE DEF proved
  <2>3. \A p \in BOOLEAN, c \in EventIds \cup {None}:
          /\ [u EXCEPT !.companion = c, !.paired = p] \in Rows
          /\ [u EXCEPT !.companion = c, !.paired = p].src = u.src
          /\ [u EXCEPT !.companion = c, !.paired = p].seq = u.seq
          /\ [u EXCEPT !.companion = c, !.paired = p].disp = u.disp
          /\ [u EXCEPT !.companion = c, !.paired = p].companion = c
          /\ [u EXCEPT !.companion = c, !.paired = p].paired = p
    BY DEF Rows
  <2>4. /\ Merged(u, e, i) \in Rows
        /\ Merged(u, e, i).src = u.src /\ Merged(u, e, i).seq = u.seq /\ Merged(u, e, i).disp = u.disp
        /\ Merged(u, e, i).companion = e /\ Merged(u, e, i).paired = proved
    <3> DEFINE m == Merged(u, e, i)
    <3> HIDE DEF m
    <3>1. m = [u EXCEPT !.companion = e, !.paired = proved]
      BY <2>1 DEF m
    <3>2. /\ m \in Rows /\ m.src = u.src /\ m.seq = u.seq /\ m.disp = u.disp
          /\ m.companion = e /\ m.paired = proved
      BY <2>2, <2>3, <3>1, Zenon
    <3> QED BY <3>2 DEF m
  <2> QED BY <1>2, <2>4 DEF proved
<1> QED BY <1>1, <1>2

LEMMA MergeRows ==
  ASSUME NEW us, UnitRows(us), NEW e \in EventIds, NEW i
  PROVE  /\ MergeCompanion(us, e, i) = {Merged(u, e, i): u \in us}
         /\ UnitRows(MergeCompanion(us, e, i))
         /\ Cardinality(MergeCompanion(us, e, i)) = Cardinality(us)
<1> DEFINE T == MergeCompanion(us, e, i)
<1>1. T = {Merged(u, e, i): u \in us}
  BY DEF MergeCompanion, Merged, Named
<1>2. \A u \in us: /\ u \in Rows /\ Merged(u, e, i) \in Rows
                   /\ Merged(u, e, i).src = u.src /\ Merged(u, e, i).seq = u.seq
                   /\ Merged(u, e, i).disp = u.disp
  BY MergedFacts DEF UnitRows
<1> HIDE DEF T
<1>3. T \subseteq Rows
  BY <1>1, <1>2
<1>4. \A a, b \in T: (a.src = b.src \/ a.seq = b.seq) => a = b
  <2> SUFFICES ASSUME NEW a \in us, NEW b \in us,
                      Merged(a, e, i).src = Merged(b, e, i).src \/ Merged(a, e, i).seq = Merged(b, e, i).seq
               PROVE  Merged(a, e, i) = Merged(b, e, i)
    BY <1>1
  <2>1. a.src = b.src \/ a.seq = b.seq
    BY <1>2
  <2> QED BY <2>1 DEF UnitRows
<1>5. \A a \in us: \E b \in T: b.src = a.src /\ b.disp = a.disp
  BY <1>1, <1>2
<1>6. \A b \in T: \E a \in us: a.src = b.src /\ a.disp = b.disp
  BY <1>1, <1>2
<1>7. IsFiniteSet(us) /\ IsFiniteSet(Shown(us)) /\ \A a, b \in us: a.src = b.src => a = b
  BY RowsFinite DEF UnitRows
<1>8. Cardinality(T) = Cardinality(us)
  BY <1>4, <1>5, <1>6, <1>7, SameSize
<1>9. Cardinality(Shown(T)) = Cardinality(Shown(us))
  <2>1. \A a \in Shown(us): \E b \in Shown(T): b.src = a.src
    BY <1>5 DEF Shown
  <2>2. \A b \in Shown(T): \E a \in Shown(us): a.src = b.src
    BY <1>6 DEF Shown
  <2>3. /\ \A a, b \in Shown(us): a.src = b.src => a = b
        /\ \A a, b \in Shown(T): a.src = b.src => a = b
    BY <1>4, <1>7 DEF Shown
  <2> QED BY <1>7, <2>1, <2>2, <2>3, SameSize
<1>10. UnitRows(T)
  BY <1>3, <1>4, <1>8, <1>9 DEF UnitRows
<1> QED BY <1>1, <1>8, <1>10 DEF T

(***************************************************************************)
(* The replay.                                                             *)
(***************************************************************************)
Onward(acc, seq) ==
    IF \E ev \in events: ev.seq = seq THEN ReplayOne(acc, EventAt(seq)) ELSE acc
IsRun(f, n) ==
    f = [seq \in 0..n |-> IF seq = 0 THEN Start ELSE Onward(f[seq - 1], seq)]

LEMMA RunExists == \A n \in Nat: \E f: IsRun(f, n)
<1> DEFINE Bad == {n \in Nat: ~ \E f: IsRun(f, n)}
<1> SUFFICES ASSUME Bad # {} PROVE FALSE
  OBVIOUS
<1>1. PICK n \in Bad: \A k \in Bad: n <= k
  <2>1. Bad \in SUBSET Nat
    OBVIOUS
  <2> HIDE DEF Bad
  <2> QED BY <2>1, Least
<1>2. n \in Nat /\ ~ \E f: IsRun(f, n)
  OBVIOUS
<1>3. CASE n = 0
  <2> DEFINE f == [seq \in 0..0 |-> Start]
  <2>1. f = [seq \in 0..0 |-> IF seq = 0 THEN Start ELSE Onward(f[seq - 1], seq)]
    <3>1. \A seq \in 0..0: seq = 0
      OBVIOUS
    <3> QED BY <3>1
  <2> QED BY <1>2, <1>3, <2>1 DEF IsRun
<1>4. CASE n # 0
  <2>1. n - 1 \in Nat /\ n - 1 < n /\ n \in Nat /\ 0..n = 0..(n - 1) \cup {n}
    BY <1>2, <1>4
  <2>2. n - 1 \notin Bad
    <3> HIDE DEF Bad
    <3> QED BY <1>1, <2>1
  <2>3. PICK g: IsRun(g, n - 1)
    BY <2>1, <2>2
  <2>4. \A seq \in 0..(n - 1): g[seq] = IF seq = 0 THEN Start ELSE Onward(g[seq - 1], seq)
    BY <2>3 DEF IsRun
  <2> DEFINE f == [seq \in 0..n |-> IF seq = n THEN Onward(g[n - 1], n) ELSE g[seq]]
  <2>5. f[n] = Onward(g[n - 1], n) /\ \A seq \in 0..(n - 1): f[seq] = g[seq]
    BY <2>1
  <2>6. \A seq \in 0..n: f[seq] = IF seq = 0 THEN Start ELSE Onward(f[seq - 1], seq)
    <3> SUFFICES ASSUME NEW seq \in 0..n
                 PROVE  f[seq] = IF seq = 0 THEN Start ELSE Onward(f[seq - 1], seq)
      OBVIOUS
    <3> HIDE DEF f
    <3>1. CASE seq = n
      <4>1. n - 1 \in 0..(n - 1)
        BY <2>1
      <4> QED BY <1>4, <2>5, <3>1, <4>1
    <3>2. CASE seq # n
      <4>1. seq \in 0..(n - 1) /\ (seq # 0 => seq - 1 \in 0..(n - 1))
        BY <2>1, <3>2
      <4> QED BY <2>4, <2>5, <4>1
    <3> QED BY <3>1, <3>2
  <2>7. f = [seq \in 0..n |-> f[seq]]
    OBVIOUS
  <2> HIDE DEF f
  <2>8. IsRun(f, n)
    BY <2>6, <2>7 DEF IsRun
  <2> QED BY <1>2, <2>8
<1> QED BY <1>3, <1>4

LEMMA AfterFacts ==
  /\ After[0] = Start
  /\ \A seq \in 1..LastSeq: After[seq] = Onward(After[seq - 1], seq)
<1>1. LastSeq \in Nat
  BY Constants
<1>2. PICK f: IsRun(f, LastSeq)
  BY <1>1, RunExists
<1>3. After = CHOOSE g: IsRun(g, LastSeq)
  BY DEF After, IsRun, Onward
<1>4. IsRun(After, LastSeq)
  BY <1>2, <1>3
<1>5. \A seq \in 0..LastSeq: After[seq] = IF seq = 0 THEN Start ELSE Onward(After[seq - 1], seq)
  <2>1. PICK g: g = After
    OBVIOUS
  <2>2. g = [seq \in 0..LastSeq |-> IF seq = 0 THEN Start ELSE Onward(g[seq - 1], seq)]
    BY <1>4, <2>1 DEF IsRun
  <2>3. \A seq \in 0..LastSeq: g[seq] = IF seq = 0 THEN Start ELSE Onward(g[seq - 1], seq)
    BY <2>2
  <2> QED BY <2>1, <2>3
<1>6. 0 \in 0..LastSeq /\ \A seq \in 1..LastSeq: seq \in 0..LastSeq /\ seq # 0
  BY <1>1
<1> QED BY <1>5, <1>6

(* What holds of a replay wherever it stands.                              *)
Places == [units: SUBSET Rows, thrown: BOOLEAN, capped: BOOLEAN]
Sound(acc) ==
    /\ acc \in Places
    /\ units \subseteq acc.units
    /\ UnitRows(acc.units) /\ Numbered(acc.units) /\ Proved(acc.units)
    /\ \A u \in acc.units: u.seq \in Used
    /\ acc.capped => Cardinality(acc.units) = HardCap
Heals(acc, ev) == ~ acc.thrown /\ Builds(Input[ev.id]) => HasUnit(acc.units, ev.id)

LEMMA PlaceUnits ==
  ASSUME NEW acc \in Places, NEW us \in SUBSET Rows, NEW next, next = [acc EXCEPT !.units = us]
  PROVE  next \in Places /\ next.units = us /\ next.thrown = acc.thrown /\ next.capped = acc.capped
BY DEF Places

LEMMA PlaceThrown ==
  ASSUME NEW acc \in Places, NEW c \in BOOLEAN, NEW next,
         next = [acc EXCEPT !.thrown = TRUE, !.capped = c]
  PROVE  next \in Places /\ next.units = acc.units /\ next.thrown /\ next.capped = c
BY DEF Places

LEMMA PlaceFacts ==
  ASSUME NEW acc \in Places
  PROVE  acc.units \in SUBSET Rows /\ acc.thrown \in BOOLEAN /\ acc.capped \in BOOLEAN
BY Zenon DEF Places

LEMMA InputFacts ==
  ASSUME NEW e \in EventIds
  PROVE  /\ Input[e] \in InputTypes
         /\ Input[e].companionOf \in EventIds \cup {None} /\ Input[e].kind \in Kinds
         /\ Rebuilt(Input[e]).companionOf = None /\ Rebuilt(Input[e]).kind = Input[e].kind
         /\ Rebuilt(Input[e]).proves = Input[e].proves
         /\ Builds(Input[e]) => Builds(Rebuilt(Input[e]))
         /\ Builds(Rebuilt(Input[e])) => Input[e].kind \in UnitKinds
         /\ Builds(Rebuilt(Input[e])) => ~ IsCompanion(Rebuilt(Input[e]))
<1>1. Input[e] \in InputTypes
  BY IngestAssumption DEF IngestAssumption
<1> DEFINE i == Input[e]
           r == Rebuilt(Input[e])
<1>2. i.companionOf \in EventIds \cup {None} /\ i.kind \in Kinds
  BY <1>1, Zenon DEF InputTypes
<1>3. \A x \in InputTypes: /\ Rebuilt(x).companionOf = None /\ Rebuilt(x).kind = x.kind
                           /\ Rebuilt(x).proves = x.proves /\ Rebuilt(x).meta = x.meta
  BY DEF Rebuilt, InputTypes
<1>4. r.companionOf = None /\ r.kind = i.kind /\ r.proves = i.proves /\ r.meta = i.meta
  BY <1>1, <1>3
<1> HIDE DEF i, r
<1>5. Builds(i) => Builds(r)
  BY <1>4, Zenon DEF Builds, IsCompanion
<1>6. Builds(r) => i.kind \in UnitKinds /\ ~ IsCompanion(r)
  BY <1>4 DEF Builds
<1> QED BY <1>1, <1>2, <1>4, <1>5, <1>6 DEF i, r

LEMMA ReplayUnit ==
  ASSUME IInv, NEW acc, Sound(acc), NEW ev \in events,
         Builds(Rebuilt(Input[ev.id])), ~ HasUnit(acc.units, ev.id),
         ~ Full(acc.units), ~ SeqTaken(acc.units, ev.seq),
         NEW next, next = [acc EXCEPT !.units =
                             @ \cup {UnitOf(@, ev.id, Rebuilt(Input[ev.id]), ev.seq)}]
  PROVE  Sound(next) /\ acc.units \subseteq next.units /\ Heals(next, ev) /\ next.thrown = acc.thrown
<1> DEFINE i == Rebuilt(Input[ev.id])
           paired == Marks(ev.id, i)
           row == Row(acc.units, ev.id, ev.seq, i.kind, paired)
           us == acc.units \cup {row}
<1>1. /\ ev.id \in EventIds /\ ev.id \in Ids /\ ev.seq \in Seqs /\ ev.seq \in Used
  BY EventFacts DEF IInv, Ids, Used
<1>2. i.kind = Input[ev.id].kind /\ i.kind \in UnitKinds /\ i.proves = Input[ev.id].proves
  BY <1>1, InputFacts
<1>3. paired \in BOOLEAN /\ (paired => i.proves = ev.id)
  BY DEF Marks
<1>4. acc \in Places /\ UnitRows(acc.units) /\ units \subseteq acc.units
  BY DEF Sound
<1>5. next = [acc EXCEPT !.units = us]
  BY DEF UnitOf
<1>6. row.src = ev.id /\ row.seq = ev.seq /\ row.paired = paired /\ row.companion = None
  BY RowFields
<1> HIDE DEF i, paired
<1>7. UnitRows(us) /\ Cardinality(us) = Cardinality(acc.units) + 1
  BY <1>1, <1>2, <1>3, <1>4, AddRow
<1> HIDE DEF row
<1>8. us \in SUBSET Rows
  BY <1>7 DEF UnitRows
<1>9. next \in Places /\ next.units = us /\ next.thrown = acc.thrown /\ next.capped = acc.capped
  <2>1. acc \in Places
    BY <1>4
  <2> HIDE DEF us
  <2>2. PICK set \in SUBSET Rows: set = us
    BY <1>8
  <2>3. next = [acc EXCEPT !.units = set]
    BY <1>5, <2>2
  <2>4. next \in Places /\ next.units = set /\ next.thrown = acc.thrown /\ next.capped = acc.capped
    BY <2>1, <2>3 DEF Places
  <2> QED BY <2>2, <2>4
<1>10. Numbered(us)
  <2>1. NumberedAt(row)
    <3>1. HasEvent(ev.id)
      BY DEF HasEvent
    <3>2. \A other \in events: other.id = ev.id => other.seq = ev.seq
      BY DEF IInv, EventRows
    <3> QED BY <1>6, <3>1, <3>2 DEF NumberedAt
  <2> QED BY <2>1 DEF Numbered, Sound
<1>11. Proved(us)
  <2>1. ProvedAt(row)
    BY <1>2, <1>3, <1>6 DEF ProvedAt
  <2> QED BY <2>1 DEF Proved, Sound
<1>12. \A u \in us: u.seq \in Used
  BY <1>1, <1>6 DEF Sound
<1>13. acc.capped => FALSE
  <2>1. acc.capped => Cardinality(acc.units) = HardCap
    BY DEF Sound
  <2>2. HardCap \in Nat
    BY Constants
  <2> QED BY <2>1, <2>2 DEF Full
<1>14. Sound(next)
  <2>1. units \subseteq us
    BY <1>4
  <2> HIDE DEF us
  <2> QED BY <1>7, <1>9, <1>10, <1>11, <1>12, <1>13, <2>1 DEF Sound
<1>15. HasUnit(us, ev.id)
  BY <1>6 DEF HasUnit
<1> QED BY <1>9, <1>14, <1>15 DEF Heals

LEMMA ReplayOneSound ==
  ASSUME IInv, NEW acc, Sound(acc), NEW ev \in events
  PROVE  LET next == ReplayOne(acc, ev)
         IN  /\ Sound(next) /\ acc.units \subseteq next.units /\ Heals(next, ev)
             /\ acc.thrown => next.thrown
<1> DEFINE i == Rebuilt(Input[ev.id])
           us == acc.units
<1>0. PICK next: next = ReplayOne(acc, ev)
  OBVIOUS
<1> SUFFICES /\ Sound(next) /\ acc.units \subseteq next.units /\ Heals(next, ev)
             /\ acc.thrown => next.thrown
  BY <1>0
<1>1. ev.id \in EventIds
  BY EventFacts DEF IInv
<1>2. acc \in Places /\ UnitRows(us) /\ us \in SUBSET Rows
  BY PlaceFacts DEF Sound
<1>3. i.companionOf = None /\ (Builds(Input[ev.id]) => Builds(i)) /\ (Builds(i) => ~ IsCompanion(i))
  BY <1>1, InputFacts
<1>4. CASE acc.thrown
  <2>1. next = acc
    BY <1>0, <1>4 DEF ReplayOne
  <2> QED BY <1>4, <2>1 DEF Heals
<1>5. CASE ~ acc.thrown /\ IsCompanion(i)
  <2>1. next = [acc EXCEPT !.units = MergeCompanion(us, ev.id, i)]
    BY <1>0, <1>3, <1>5 DEF ReplayOne
  <2>2. MergeCompanion(us, ev.id, i) = us
    <3>1. \A u \in us: u.src # None
      BY <1>2, UnitFacts, IngestAssumption DEF IngestAssumption, Ids
    <3>2. \A u \in us: ~ Named(u, i)
      BY <1>3, <3>1 DEF Named
    <3>3. \A u \in us: Merged(u, ev.id, i) = u
      BY <3>2 DEF Merged
    <3>4. MergeCompanion(us, ev.id, i) = {Merged(u, ev.id, i): u \in us}
      BY <1>1, <1>2, MergeRows
    <3> HIDE DEF i, us
    <3> QED BY <3>3, <3>4
  <2>3. /\ next \in Places /\ next.units = us /\ next.thrown = acc.thrown /\ next.capped = acc.capped
    <3> HIDE DEF us
    <3> QED BY <1>2, <2>1, <2>2, PlaceUnits DEF us
  <2> QED BY <1>3, <1>5, <2>3 DEF Sound, Heals
<1>6. CASE ~ acc.thrown /\ Builds(i) /\ ~ HasUnit(us, ev.id)
  <2>1. CASE Full(us) \/ SeqTaken(us, ev.seq)
    <3>1. next = [acc EXCEPT !.thrown = TRUE, !.capped = Full(us)]
      BY <1>0, <1>3, <1>6, <2>1 DEF ReplayOne
    <3>2. Full(us) \in BOOLEAN
      BY DEF Full
    <3>3. next \in Places /\ next.units = us /\ next.thrown /\ next.capped = Full(us)
      <4> DEFINE capped == Full(us)
      <4>1. next = [acc EXCEPT !.thrown = TRUE, !.capped = capped] /\ capped \in BOOLEAN
        BY <3>1, <3>2
      <4> HIDE DEF us, capped
      <4>2. next \in Places /\ next.units = acc.units /\ next.thrown /\ next.capped = capped
        BY <1>2, <4>1, PlaceThrown
      <4> QED BY <4>2 DEF capped, us
    <3>4. Full(us) => Cardinality(us) = HardCap
      BY <1>2, RowsFinite, Constants DEF Full, UnitRows
    <3> QED BY <3>3, <3>4 DEF Sound, Heals
  <2>2. CASE ~ Full(us) /\ ~ SeqTaken(us, ev.seq)
    <3>1. next = [acc EXCEPT !.units = @ \cup {UnitOf(@, ev.id, i, ev.seq)}]
      BY <1>0, <1>3, <1>6, <2>2 DEF ReplayOne
    <3> HIDE DEF us
    <3>2. Sound(next) /\ acc.units \subseteq next.units /\ Heals(next, ev) /\ next.thrown = acc.thrown
      BY <1>6, <2>2, <3>1, ReplayUnit DEF us
    <3> QED BY <3>2
  <2> QED BY <2>1, <2>2
<1>7. CASE ~ acc.thrown /\ ~ IsCompanion(i) /\ (~ Builds(i) \/ HasUnit(us, ev.id))
  <2>1. next = acc
    BY <1>0, <1>7 DEF ReplayOne
  <2> QED BY <1>3, <1>7, <2>1 DEF Heals
<1> QED BY <1>4, <1>5, <1>6, <1>7

LEMMA ReplaySound ==
  ASSUME IInv, NEW seq \in 0..LastSeq
  PROVE  /\ Sound(After[seq])
         /\ \A ev \in events: ev.seq <= seq => Heals(After[seq], ev)
<1> DEFINE Good(k) == /\ Sound(After[k])
                      /\ \A ev \in events: ev.seq <= k => Heals(After[k], ev)
           Bad == {k \in 0..LastSeq: ~ Good(k)}
<1> SUFFICES ASSUME Bad # {} PROVE FALSE
  OBVIOUS
<1>1. LastSeq \in Nat /\ Bad \in SUBSET Nat
  BY Constants
<1>2. PICK n \in Bad: \A k \in Bad: n <= k
  <2> HIDE DEF Bad
  <2> QED BY <1>1, Least
<1>3. n \in 0..LastSeq /\ n \in Nat /\ ~ Good(n)
  BY <1>1
<1>4. \A ev \in events: ev.seq \in Nat /\ 1 <= ev.seq
  BY EventFacts DEF IInv
<1>5. CASE n = 0
  <2>1. After[n] = Start
    BY <1>5, AfterFacts
  <2>2. Start \in Places /\ Start.units = units /\ ~ Start.capped
    <3>1. units \in SUBSET Rows
      BY DEF IInv, UnitRows
    <3>2. Start \in Places
      BY <3>1 DEF Start, Places
    <3> QED BY <3>2 DEF Start
  <2>3. Sound(Start)
    <3>1. \A u \in units: u.seq \in Used
      BY DEF Used
    <3> QED BY <2>2, <3>1 DEF Sound, IInv
  <2>4. \A ev \in events: ~ (ev.seq <= n)
    BY <1>4, <1>5
  <2> QED BY <1>3, <2>1, <2>3, <2>4
<1>6. CASE n # 0
  <2>1. n \in 1..LastSeq /\ n - 1 \in 0..LastSeq /\ ~ (n <= n - 1)
    BY <1>1, <1>3, <1>6
  <2>2. Good(n - 1)
    <3>1. n - 1 \notin Bad
      <4> HIDE DEF Bad
      <4> QED BY <1>2, <2>1
    <3> HIDE DEF Good
    <3> QED BY <2>1, <3>1
  <2>3. After[n] = Onward(After[n - 1], n)
    BY <2>1, AfterFacts
  <2>4. \A ev \in events: ev.seq <= n => ev.seq <= n - 1 \/ ev.seq = n
    BY <1>3, <1>4
  <2>5. CASE \E ev \in events: ev.seq = n
    <3>1. EventAt(n) \in events /\ EventAt(n).seq = n
      BY <2>5 DEF EventAt
    <3>2. After[n] = ReplayOne(After[n - 1], EventAt(n))
      BY <2>3, <2>5 DEF Onward
    <3>3. /\ Sound(After[n]) /\ After[n - 1].units \subseteq After[n].units
          /\ Heals(After[n], EventAt(n)) /\ (After[n - 1].thrown => After[n].thrown)
      BY <2>2, <3>1, <3>2, ReplayOneSound
    <3>4. \A ev \in events: ev.seq = n => ev = EventAt(n)
      BY <3>1 DEF IInv, EventRows
    <3>5. \A ev \in events: Heals(After[n - 1], ev) => Heals(After[n], ev)
      BY <3>3 DEF Heals, HasUnit
    <3> QED BY <1>3, <2>2, <2>4, <3>3, <3>4, <3>5
  <2>6. CASE ~ \E ev \in events: ev.seq = n
    <3>1. After[n] = After[n - 1]
      BY <2>3, <2>6 DEF Onward
    <3> QED BY <1>3, <2>2, <2>4, <2>6, <3>1
  <2> QED BY <2>5, <2>6
<1> QED BY <1>5, <1>6

(***************************************************************************)
(* The steps.                                                              *)
(***************************************************************************)
LEMMA GaplessStep ==
  ASSUME IInv, Used \subseteq Used',
         \A k \in Used': k \in Used \/ k = NextSeq \/ k = LastUnit + 1
  PROVE  Gapless'
<1>1. /\ LastUnit \in Nat /\ NextSeq \in Nat /\ LastUnit < NextSeq
      /\ \A j \in Nat: 1 <= j /\ j < NextSeq => j \in Used
  BY NextFacts
<1> SUFFICES ASSUME NEW k \in Used', NEW j \in 1..k
             PROVE  j \in Used'
  BY DEF Gapless
<1>2. CASE k \in Used
  BY <1>2 DEF IInv, Gapless
<1>3. CASE k = NextSeq \/ k = LastUnit + 1
  <2>1. j \in Nat /\ 1 <= j /\ (j = k \/ j < NextSeq)
    BY <1>1, <1>3
  <2> QED BY <1>1, <2>1
<1> QED BY <1>2, <1>3

(* Numbering is stable as long as an event is only added for an id that    *)
(* has no row.                                                             *)
LEMMA RecordFacts ==
  ASSUME IInv, NEW e \in EventIds, NEW port \in {"ingest", "ledger"},
         ~ HasEvent(e), Record(e, port)
  PROVE  /\ events \subseteq events' /\ EventRows'
         /\ \A ev \in events': ev \in events \/
              (/\ ev.id = e /\ ev.seq = NextSeq /\ ev.port = port /\ ~ HasUnit(units, e))
         /\ \A ev \in events: ev.id # e
         /\ (KeyTaken(e))'
<1>1. \A ev \in events: ev.id # e
  BY DEF HasEvent
<1>2. CASE KeyTaken(e)
  <2>1. events' = events
    BY <1>2 DEF Record
  <2>2. (KeyTaken(e))'
    BY <1>2, <2>1 DEF KeyTaken
  <2>3. EventRows'
    BY <2>1 DEF IInv, EventRows
  <2> QED BY <1>1, <2>1, <2>2, <2>3
<1>3. CASE ~ KeyTaken(e)
  <2>1. ~ HasUnit(units, e)
    <3>1. \A u \in units: u.src = e => KeyTaken(e)
      BY DEF IInv, Numbered, NumberedAt
    <3> QED BY <1>3, <3>1 DEF HasUnit
  <2>2. NextSeq \in Seqs
    BY <2>1, Room DEF Ids
  <2>3. PICK new: new = [id |-> e, seq |-> NextSeq, port |-> port]
    OBVIOUS
  <2>4. events' = events \cup {new}
    BY <1>3, <2>3 DEF Record
  <2>5. new.id = e /\ new.seq = NextSeq /\ new.port = port
    BY <2>3
  <2>6. new \in [id: EventIds, seq: Seqs, port: {"ingest", "ledger"}]
    BY <2>2, <2>3
  <2>7. \A ev \in events: ev.seq # NextSeq
    <3>1. \A k \in Used: k \in Nat /\ k < NextSeq
      BY NextFacts
    <3>2. \A ev \in events: ev.seq \in Used
      BY DEF Used
    <3> QED BY <3>1, <3>2, NextFacts
  <2>8. EventRows'
    BY <1>1, <2>4, <2>5, <2>6, <2>7 DEF IInv, EventRows
  <2>9. (KeyTaken(e))'
    BY <2>4, <2>5 DEF KeyTaken
  <2> QED BY <1>1, <2>1, <2>4, <2>5, <2>8, <2>9
<1> QED BY <1>2, <1>3

LEMMA RecordStep ==
  ASSUME IInv, NEW e \in EventIds, NEW port \in {"ingest", "ledger"},
         ~ HasEvent(e), Record(e, port),
         UnitRows(units'), Proved(units'), Flags', ~ replayed',
         \A u \in units: \E v \in units': v.src = u.src /\ v.seq = u.seq,
         \A v \in units': \/ \E u \in units: v.src = u.src /\ v.seq = u.seq
                          \/ v.src = e /\ v.seq = NextSeq,
         port = "ingest" /\ Builds(Input[e]) => HasUnit(units', e)
  PROVE  IInv'
<1>1. /\ events \subseteq events' /\ EventRows'
      /\ \A ev \in events': ev \in events \/
           (/\ ev.id = e /\ ev.seq = NextSeq /\ ev.port = port /\ ~ HasUnit(units, e))
      /\ \A ev \in events: ev.id # e
      /\ (KeyTaken(e))'
  BY RecordFacts
<1>2. \A x: HasUnit(units, x) => HasUnit(units', x)
  BY DEF HasUnit
<1>3. Whole'
  <2> SUFFICES ASSUME NEW ev \in events', ev.port = "ingest", Builds(Input[ev.id])
               PROVE  HasUnit(units', ev.id)
    BY DEF Whole, HasUnit
  <2>1. CASE ev \in events
    BY <1>2, <2>1 DEF IInv, Whole
  <2>2. CASE ev \notin events
    BY <1>1, <2>2
  <2> QED BY <2>1, <2>2
<1>4. Numbered(units)'
  <2> SUFFICES ASSUME NEW v \in units', v.src \in EventIds
               PROVE  IF (HasEvent(v.src))' THEN \A ev \in events': ev.id = v.src => ev.seq = v.seq
                      ELSE (KeyTaken(v.src))'
    BY DEF Numbered, NumberedAt, HasEvent
  <2>1. CASE v.src = e
    <3>1. \A ev \in events': ev.id = e => ev.seq = NextSeq
      BY <1>1
    <3>2. HasUnit(units, e) => ~ (HasEvent(e))'
      BY <1>1 DEF HasEvent
    <3>3. (\E u \in units: v.src = u.src /\ v.seq = u.seq) => HasUnit(units, e)
      BY <2>1 DEF HasUnit
    <3> QED BY <1>1, <2>1, <3>1, <3>2, <3>3
  <2>2. CASE v.src # e
    <3>1. PICK u \in units: v.src = u.src /\ v.seq = u.seq
      BY <2>2
    <3>2. NumberedAt(u)
      BY DEF IInv, Numbered
    <3>3. \A ev \in events': ev.id = u.src => ev \in events
      BY <1>1, <2>2, <3>1
    <3>4. (HasEvent(u.src))' <=> HasEvent(u.src)
      BY <1>1, <3>3 DEF HasEvent
    <3>5. KeyTaken(u.src) => (KeyTaken(u.src))'
      BY <1>1 DEF KeyTaken
    <3> QED BY <3>1, <3>2, <3>3, <3>4, <3>5 DEF NumberedAt
  <2> QED BY <2>1, <2>2
<1>5. Gapless'
  <2>1. Used \subseteq Used'
    BY <1>1 DEF Used
  <2>2. \A k \in Used': k \in Used \/ k = NextSeq
    BY <1>1 DEF Used
  <2> QED BY <2>1, <2>2, GaplessStep
<1>6. UnitRows(units)' /\ Proved(units)'
  BY DEF UnitRows, Shown, Proved, ProvedAt
<1> QED BY <1>1, <1>3, <1>4, <1>5, <1>6 DEF IInv, ReplayHeals

LEMMA IngestStep ==
  ASSUME IInv, NEW e \in EventIds, NEW s \in Sessions, NEW recovery \in BOOLEAN,
         Ingest(e, s, recovery)
  PROVE  IInv'
<1> DEFINE i == Input[e]
<1>1. /\ ~ HasEvent(e) /\ ~ (NeedsUnit(e) /\ Full(units)) /\ Record(e, "ingest")
      /\ units' = CASE IsCompanion(i) -> MergeCompanion(units, e, i)
                    [] NeedsUnit(e) -> units \cup {UnitOf(units, e, i, NextSeq)}
                    [] OTHER -> units
      /\ replayed' = FALSE /\ UNCHANGED <<current, emergency>>
  BY DEF Ingest
<1>2. UnitRows(units) /\ Proved(units) /\ Flags
  BY DEF IInv
<1>3. e # None /\ "ingest" \in {"ingest", "ledger"}
  BY IngestAssumption DEF IngestAssumption
<1>4. CASE IsCompanion(i)
  <2>1. ~ NeedsUnit(e) /\ ~ Builds(i)
    BY <1>4 DEF NeedsUnit, Builds
  <2>2. units' = MergeCompanion(units, e, i)
    BY <1>1, <1>4, <2>1
  <2>3. /\ units' = {Merged(u, e, i): u \in units} /\ UnitRows(units')
        /\ Cardinality(units') = Cardinality(units)
    BY <1>2, <2>2, MergeRows
  <2>4. ASSUME NEW u \in units
        PROVE  /\ Merged(u, e, i).src = u.src /\ Merged(u, e, i).seq = u.seq
               /\ ProvedAt(Merged(u, e, i))
    <3>1. u \in Rows
      BY <1>2 DEF UnitRows
    <3>2. /\ Merged(u, e, i).src = u.src /\ Merged(u, e, i).seq = u.seq
          /\ Named(u, i) => /\ Merged(u, e, i).companion = e
                            /\ Merged(u, e, i).paired = (i.proves = u.src)
          /\ ~ Named(u, i) => Merged(u, e, i) = u
      <4> HIDE DEF i
      <4> QED BY <3>1, MergedFacts
    <3>3. CASE Named(u, i)
      BY <1>3, <3>2, <3>3 DEF ProvedAt, Named
    <3>4. CASE ~ Named(u, i)
      BY <1>2, <3>2, <3>4 DEF Proved
    <3> QED BY <3>2, <3>3, <3>4
  <2>5. Proved(units')
    BY <2>3, <2>4 DEF Proved
  <2>6. Flags'
    BY <1>1, <1>2, <2>3 DEF Flags
  <2>7. /\ \A u \in units: \E v \in units': v.src = u.src /\ v.seq = u.seq
        /\ \A v \in units': \E u \in units: v.src = u.src /\ v.seq = u.seq
    BY <2>3, <2>4
  <2> QED BY <1>1, <1>3, <2>1, <2>3, <2>5, <2>6, <2>7, RecordStep
<1>5. CASE NeedsUnit(e)
  <2>1. Builds(i) /\ ~ HasUnit(units, e) /\ ~ IsCompanion(i) /\ i.kind \in UnitKinds /\ ~ Full(units)
    BY <1>1, <1>5 DEF NeedsUnit, Builds
  <2>2. PICK row: row = Row(units, e, NextSeq, i.kind, Marks(e, i))
    OBVIOUS
  <2>3. units' = units \cup {row}
    BY <1>1, <1>5, <2>1, <2>2 DEF UnitOf
  <2>4. NextSeq \in Seqs /\ e \in Ids
    BY <1>1, <2>1, Room DEF Ids
  <2>5. ~ SeqTaken(units, NextSeq)
    <3>1. \A u \in units: u.seq \in Used
      BY DEF Used
    <3>2. \A k \in Used: k \in Nat /\ k < NextSeq
      BY NextFacts
    <3> QED BY <3>1, <3>2, NextFacts DEF SeqTaken
  <2>6. Marks(e, i) \in BOOLEAN /\ (Marks(e, i) => i.proves = e)
    BY DEF Marks
  <2>7. UnitRows(units')
    <3> HIDE DEF i
    <3> QED BY <1>2, <2>1, <2>2, <2>3, <2>4, <2>5, <2>6, AddRow
  <2>8. row.src = e /\ row.seq = NextSeq /\ row.companion = None /\ row.paired = Marks(e, i)
    BY <2>2, RowFields
  <2>9. Proved(units')
    BY <1>2, <2>3, <2>6, <2>8 DEF Proved, ProvedAt
  <2>10. Flags'
    <3>1. ~ emergency
      BY <1>2, <2>1, Constants DEF Flags, Full
    <3> QED BY <1>1, <1>2, <3>1 DEF Flags
  <2>11. HasUnit(units', e)
    BY <2>3, <2>8 DEF HasUnit
  <2> QED BY <1>1, <1>3, <2>3, <2>7, <2>8, <2>9, <2>10, <2>11, RecordStep
<1>6. CASE ~ IsCompanion(i) /\ ~ NeedsUnit(e)
  <2>1. units' = units
    BY <1>1, <1>6
  <2>2. Builds(i) => HasUnit(units', e)
    BY <1>6, <2>1 DEF NeedsUnit
  <2>3. Flags'
    BY <1>1, <1>2, <2>1 DEF Flags
  <2> QED BY <1>1, <1>2, <1>3, <2>1, <2>2, <2>3, RecordStep
<1> QED BY <1>4, <1>5, <1>6

LEMMA IngestEventStep ==
  ASSUME IInv, NEW e \in EventIds, NEW s \in Sessions, IngestEvent(e, s)
  PROVE  IInv'
<1>1. /\ ~ HasEvent(e) /\ Record(e, "ledger") /\ replayed' = FALSE
      /\ UNCHANGED <<units, current, emergency>> /\ "ledger" \in {"ingest", "ledger"}
  BY DEF IngestEvent
<1>2. UnitRows(units') /\ Proved(units') /\ Flags'
  BY <1>1 DEF IInv, Flags
<1> QED BY <1>1, <1>2, RecordStep

LEMMA AdmitStep ==
  ASSUME IInv, NEW m \in Messages, NEW s \in Sessions, Admit(m, s)
  PROVE  IInv'
<1>1. PICK row: row = Row(units, m, LastUnit + 1, "user", FALSE)
  OBVIOUS
<1>2. /\ ~ Full(units) /\ ~ HasUnit(units, m) /\ units' = units \cup {row} /\ replayed' = FALSE
      /\ UNCHANGED <<events, current, emergency>>
  BY <1>1 DEF Admit
<1>3. UnitRows(units) /\ Proved(units) /\ Flags /\ EventRows /\ Whole /\ Numbered(units)
  BY DEF IInv
<1>4. m \in Ids /\ m \notin EventIds /\ "user" \in UnitKinds /\ FALSE \in BOOLEAN
  BY IngestAssumption DEF IngestAssumption, Ids, UnitKinds
<1>5. ~ HasEvent(m)
  BY <1>3, <1>4, EventFacts DEF HasEvent
<1>6. LastUnit + 1 \in Seqs
  <2>1. NextSeq \in Seqs
    BY <1>2, <1>4, <1>5, Room
  <2> QED BY <2>1, NextFacts, Constants DEF Seqs
<1>7. ~ SeqTaken(units, LastUnit + 1)
  <2>1. \A u \in units: u.seq <= LastUnit /\ u.seq \in Nat /\ LastUnit \in Nat
    BY <1>3, NextFacts, UnitFacts
  <2> QED BY <2>1 DEF SeqTaken
<1>8. UnitRows(units')
  <2> DEFINE seq == LastUnit + 1
             kind == "user"
             paired == FALSE
  <2>1. /\ seq \in Seqs /\ kind \in UnitKinds /\ paired \in BOOLEAN /\ ~ SeqTaken(units, seq)
        /\ row = Row(units, m, seq, kind, paired)
    BY <1>1, <1>4, <1>6, <1>7
  <2> HIDE DEF seq, kind, paired
  <2>2. UnitRows(units \cup {Row(units, m, seq, kind, paired)})
    BY <1>2, <1>3, <1>4, <2>1, AddRow
  <2> QED BY <1>2, <2>1, <2>2
<1>9. row.src = m /\ row.seq = LastUnit + 1 /\ row.paired = FALSE
  <2> DEFINE seq == LastUnit + 1
             paired == FALSE
  <2>1. row = Row(units, m, seq, "user", paired)
    BY <1>1
  <2> HIDE DEF seq, paired
  <2>2. row.src = m /\ row.seq = seq /\ row.paired = paired
    BY <2>1, RowFields
  <2> QED BY <2>2 DEF seq, paired
<1>10. Proved(units)'
  BY <1>2, <1>3, <1>9 DEF Proved, ProvedAt
<1>11. Flags'
  <2>1. ~ emergency
    BY <1>2, <1>3, Constants DEF Flags, Full
  <2> QED BY <1>2, <1>3, <2>1 DEF Flags
<1>12. Whole' /\ Numbered(units)'
  <2>1. \A x: HasUnit(units, x) => HasUnit(units, x)'
    BY <1>2 DEF HasUnit
  <2>2. Whole'
    <3> SUFFICES ASSUME NEW ev \in events, ev.port = "ingest", Builds(Input[ev.id])
                 PROVE  HasUnit(units', ev.id)
      BY <1>2 DEF Whole, HasUnit
    <3> QED BY <1>2, <1>3 DEF Whole, HasUnit
  <2>3. Numbered(units)'
    <3> SUFFICES ASSUME NEW u \in units', u.src \in EventIds
                 PROVE  IF HasEvent(u.src) THEN \A ev \in events: ev.id = u.src => ev.seq = u.seq
                        ELSE KeyTaken(u.src)
      BY <1>2 DEF Numbered, NumberedAt, HasEvent, KeyTaken
    <3>1. u \in units
      BY <1>2, <1>4, <1>9
    <3> QED BY <1>3, <3>1 DEF Numbered, NumberedAt
  <2> QED BY <2>2, <2>3
<1>13. Gapless'
  <2>1. Used' = Used \cup {LastUnit + 1}
    BY <1>2, <1>9 DEF Used
  <2> QED BY <2>1, GaplessStep
<1>14. UnitRows(units)' /\ EventRows'
  BY <1>2, <1>3, <1>8 DEF UnitRows, Shown, EventRows
<1> QED BY <1>2, <1>10, <1>11, <1>12, <1>13, <1>14 DEF IInv, ReplayHeals

LEMMA ReplayStep ==
  ASSUME IInv, NEW s \in Sessions, NEW recovery \in BOOLEAN,
         NEW through \in {0} \cup {ev.seq: ev \in events}, Replay(s, recovery, through)
  PROVE  IInv'
<1>1. PICK acc: acc = After[through]
  OBVIOUS
<1>2. /\ units' = acc.units /\ emergency' = (emergency \/ (acc.capped /\ ~recovery))
      /\ replayed' = (~ acc.thrown /\ \A ev \in events: ev.seq <= through)
      /\ UNCHANGED <<events, current>>
  BY <1>1 DEF Replay
<1>3. through \in 0..LastSeq
  BY EventFacts, Constants DEF IInv
<1>4. Sound(acc) /\ \A ev \in events: ev.seq <= through => Heals(acc, ev)
  BY <1>1, <1>3, ReplaySound
<1>5. /\ acc \in Places /\ units \subseteq units' /\ UnitRows(units') /\ Numbered(units') /\ Proved(units')
      /\ \A u \in units': u.seq \in Used
      /\ acc.capped => Cardinality(units') = HardCap
  BY <1>2, <1>4 DEF Sound
<1>6. EventRows /\ Flags /\ Whole /\ UnitRows(units)
  BY DEF IInv
<1>7. Flags'
  <2>1. emergency' \in BOOLEAN /\ replayed' \in BOOLEAN
    BY <1>2
  <2>2. emergency => Cardinality(units') = HardCap
    <3>1. /\ Cardinality(units) \in Nat /\ IsFiniteSet(units') /\ Cardinality(units') \in Nat
          /\ HardCap \in Nat
      BY <1>5, <1>6, RowsFinite, Constants
    <3>2. Cardinality(units) <= Cardinality(units') /\ Cardinality(units') <= HardCap
      BY <1>5, <3>1, FS_Subset DEF UnitRows
    <3> QED BY <1>6, <3>1, <3>2 DEF Flags
  <2>3. emergency' => emergency \/ acc.capped
    BY <1>2
  <2> QED BY <1>2, <1>5, <1>6, <2>1, <2>2, <2>3 DEF Flags
<1>8. Whole'
  <2> SUFFICES ASSUME NEW ev \in events, ev.port = "ingest", Builds(Input[ev.id])
               PROVE  HasUnit(units', ev.id)
    BY <1>2 DEF Whole, HasUnit
  <2>1. HasUnit(units, ev.id)
    BY <1>6 DEF Whole
  <2> QED BY <1>5, <2>1 DEF HasUnit
<1>9. Numbered(units)' /\ Proved(units)' /\ UnitRows(units)' /\ EventRows'
  BY <1>2, <1>5, <1>6 DEF Numbered, NumberedAt, HasEvent, KeyTaken, Proved, ProvedAt,
                          UnitRows, Shown, EventRows
<1>10. ReplayHeals'
  <2> SUFFICES ASSUME replayed', NEW ev \in events, Builds(Input[ev.id])
               PROVE  HasUnit(units', ev.id)
    BY <1>2 DEF ReplayHeals, HasUnit
  <2>1. ~ acc.thrown /\ ev.seq <= through
    BY <1>2
  <2> QED BY <1>2, <1>4, <2>1 DEF Heals
<1>11. Gapless'
  <2>1. Used' = Used
    BY <1>2, <1>5 DEF Used
  <2> QED BY <2>1, GaplessStep
<1> QED BY <1>7, <1>8, <1>9, <1>10, <1>11 DEF IInv

LEMMA QuietStep ==
  ASSUME IInv, UNCHANGED <<events, units>>, Flags', replayed' => replayed
  PROVE  IInv'
<1>1. EventRows' /\ UnitRows(units)' /\ Whole' /\ Numbered(units)' /\ Proved(units)'
  BY DEF IInv, EventRows, UnitRows, Shown, Whole, HasUnit, Numbered, NumberedAt, HasEvent, KeyTaken,
         Proved, ProvedAt
<1>2. ReplayHeals'
  BY DEF IInv, ReplayHeals, HasUnit
<1>3. Used' = Used
  BY DEF Used
<1>4. Gapless'
  BY <1>3, GaplessStep
<1> QED BY <1>1, <1>2, <1>4 DEF IInv

LEMMA IngestRefusedStep ==
  ASSUME IInv, NEW e \in EventIds, NEW s \in Sessions, NEW recovery \in BOOLEAN,
         IngestRefused(e, s, recovery)
  PROVE  IInv'
<1>1. /\ Full(units) /\ emergency' \in {emergency, emergency \/ s = current} /\ replayed' = FALSE
      /\ UNCHANGED <<events, units, current>>
  BY DEF IngestRefused
<1>2. Flags /\ UnitRows(units)
  BY DEF IInv
<1>3. Cardinality(units) = HardCap
  BY <1>1, <1>2, RowsFinite, Constants DEF Full, UnitRows
<1>4. emergency' \in BOOLEAN
  BY <1>1, <1>2 DEF Flags
<1>5. Flags'
  BY <1>1, <1>2, <1>3, <1>4 DEF Flags
<1> QED BY <1>1, <1>5, QuietStep

LEMMA IInvInit == Init => IInv
<1> SUFFICES ASSUME Init PROVE IInv
  OBVIOUS
<1>1. events = {} /\ units = {} /\ current \in Sessions /\ emergency = FALSE /\ replayed = FALSE
  BY DEF Init
<1>2. Cardinality({}) = 0
  BY FS_EmptySet
<1>3. UnitRows(units)
  <2>1. Shown(units) = {}
    BY <1>1 DEF Shown
  <2> QED BY <1>1, <1>2, <2>1, Constants DEF UnitRows
<1>4. EventRows /\ Flags /\ Whole /\ Numbered(units) /\ Proved(units) /\ ReplayHeals
  BY <1>1 DEF EventRows, Flags, Whole, Numbered, Proved, ReplayHeals
<1>5. Gapless
  BY <1>1 DEF Gapless, Used
<1> QED BY <1>3, <1>4, <1>5 DEF IInv

LEMMA IInvNext == IInv /\ [Next]_vars => IInv'
<1> SUFFICES ASSUME IInv, [Next]_vars PROVE IInv'
  OBVIOUS
<1>1. ASSUME NEW e \in EventIds, NEW s \in Sessions, NEW recovery \in BOOLEAN,
             Ingest(e, s, recovery) \/ IngestRefused(e, s, recovery)
      PROVE  IInv'
  BY <1>1, IngestStep, IngestRefusedStep
<1>2. ASSUME NEW e \in EventIds, NEW s \in Sessions, IngestEvent(e, s)
      PROVE  IInv'
  BY <1>2, IngestEventStep
<1>3. ASSUME NEW m \in Messages, NEW s \in Sessions, Admit(m, s)
      PROVE  IInv'
  BY <1>3, AdmitStep
<1>4. ASSUME NEW s \in Sessions, NEW recovery \in BOOLEAN,
             NEW through \in {0} \cup {ev.seq: ev \in events}, Replay(s, recovery, through)
      PROVE  IInv'
  BY <1>4, ReplayStep
<1>5. ASSUME NEW s \in Sessions, Rollover(s)
      PROVE  IInv'
  <2>1. current' = s /\ replayed' = FALSE /\ UNCHANGED <<events, units, emergency>>
    BY <1>5 DEF Rollover
  <2>2. Flags'
    BY <2>1 DEF IInv, Flags
  <2> QED BY <2>1, <2>2, QuietStep
<1>6. CASE UNCHANGED vars
  <2>1. UNCHANGED <<events, units, current, emergency, replayed>>
    BY <1>6 DEF vars
  <2>2. Flags'
    BY <2>1 DEF IInv, Flags
  <2> QED BY <2>1, <2>2, QuietStep
<1> QED BY <1>1, <1>2, <1>3, <1>4, <1>5, <1>6 DEF Next

(* The rows of the two tables, what they say of each other, and the        *)
(* numbering of the lineage without a gap, after any mixture of calls.     *)
THEOREM LedgersAgree == Spec => []IInv
BY IInvInit, IInvNext, PTL DEF Spec

(* TypeOK: the keys of both tables hold, and no path into the ledger goes  *)
(* past the caps.                                                          *)
THEOREM TypeCorrect == Spec => []TypeOK
<1>1. IInv => TypeOK
  BY Parts DEF IInv
<1> QED BY <1>1, LedgersAgree, PTL

(* IngestIsAtomic: event and unit are there together, under one number.    *)
THEOREM EventAndUnitTogether == Spec => []IngestIsAtomic
<1>1. IInv => IngestIsAtomic
  BY Parts DEF IInv
<1> QED BY <1>1, LedgersAgree, PTL

(* PairedIsProved: no order of companions, retries and replays pairs a     *)
(* unit that was not proved to be.                                         *)
THEOREM NeverMispaired == Spec => []PairedIsProved
<1>1. IInv => PairedIsProved
  BY Parts DEF IInv
<1> QED BY <1>1, LedgersAgree, PTL

(* ReplayHeals: a replay of the whole ledger throws or leaves no event     *)
(* without the unit it calls for.                                          *)
THEOREM ReplayIsComplete == Spec => []ReplayHeals
<1>1. IInv => ReplayHeals
  BY DEF IInv
<1> QED BY <1>1, LedgersAgree, PTL

=============================================================================
