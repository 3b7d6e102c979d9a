------------------------ MODULE BindingLedger_proofs ------------------------
(***************************************************************************)
(* Proofs about BindingLedger, for every value of its constants.           *)
(***************************************************************************)
EXTENDS BindingLedger, SequenceTheorems, FunctionTheorems, FiniteSetTheorems,
        WellFoundedInduction, TLAPS

(***************************************************************************)
(* The inductive invariant, first part: the ledger.                        *)
(*                                                                         *)
(* Whatever table or file a binding is in, it is the binding of one        *)
(* tenure, of which there is at most one row in each; a historical row was *)
(* superseded by the next tenure of its lineage, a current one is of the   *)
(* latest; and what was pruned is not in the ledger any more.              *)
(***************************************************************************)
(* The state parts are parameters, for the state before and after a step.  *)
Names(rows, h) ==
  \A r \in rows : /\ r.tenure \in DOMAIN h
                  /\ h[r.tenure].session = r.session /\ h[r.tenure].lineage = r.lineage
OfOneTenure(rows) == \A r, q \in rows : r.tenure = q.tenure => r = q
OfOnePair(rows) ==
  \A r, q \in rows : r.session = q.session /\ r.lineage = q.lineage => r = q

Single(h, t) == \A u \in DOMAIN h : h[u].session = h[t].session => u = t
LatestOf(h, l, t) == \A u \in DOMAIN h : h[u].lineage = l => u <= t
Follows(h, t, u) ==
  /\ t \in DOMAIN h /\ u \in DOMAIN h /\ t < u /\ h[t].lineage = h[u].lineage
  /\ \A v \in DOMAIN h : t < v /\ v < u => h[v].lineage # h[t].lineage

RolesAgree(rows, h, cur) ==
  \A r \in rows :
    /\ r.role = "historical" => Follows(h, r.tenure, r.superseded)
    /\ r.role = "current" => r.session = cur[r.lineage] /\ LatestOf(h, r.lineage, r.tenure)

LedgerIsHistory ==
  /\ Names(ledger, history) /\ OfOneTenure(ledger) /\ OfOnePair(ledger)
  /\ RolesAgree(ledger, history, current)

PrunedIsGone ==
  /\ \A t \in pruned : \E u \in DOMAIN history : Follows(history, t, u)
  /\ \A r \in ledger : r.tenure \notin pruned

(* Before its first call a lineage has no rows; a call between its two     *)
(* inserts has recorded the lineage only.                                  *)
LineagesBegin ==
  /\ \A l \in Lineages : current[l] = NoSession =>
       /\ \A r \in ledger : r.lineage # l
       /\ \A t \in DOMAIN history : history[t].lineage # l
  /\ phase = "record" =>
       /\ history # << >>
       /\ current[history[Len(history)].lineage] = history[Len(history)].session
       /\ \A r \in ledger : r.lineage # history[Len(history)].lineage

WithinLimit == Cardinality(Historical) <= HardLimit

(* A row whose session had one tenure only says reconciled when it was     *)
(* acknowledged; pruned ones were.                                         *)
MarksAreProved ==
  /\ \A r \in ledger : r.reconciled /\ Single(history, r.tenure) => r.tenure \in proved
  /\ \A t \in pruned : Single(history, t) => t \in proved

(* The latest superseded bindings are not pruned.                          *)
Later(h, u) == {q \in (DOMAIN h) \X (DOMAIN h) : Follows(h, q[1], q[2]) /\ q[2] > u}
RecentAreKept ==
  \A t, u \in DOMAIN history :
    Follows(history, t, u) /\ Cardinality(Later(history, u)) < RetainRecent => t \notin pruned

(***************************************************************************)
(* Second part: the staging table and the archive.                         *)
(***************************************************************************)
(* What a copy of the archive and the staging table have to do with one    *)
(* another: a tenure in both is under one batch, and a batch in both is    *)
(* still staged as a whole.                                                *)
InStep(a, staged) ==
  /\ OfOneTenure(a.rows)
  /\ \A r \in a.rows : r.batch >= 1 /\ \E m \in a.manifest : m.batch = r.batch
  /\ \A m, n \in a.manifest : m.batch = n.batch => m = n
  /\ \A r \in a.rows, s \in staged : r.tenure = s.tenure \/ r.batch = s.batch => r \in staged

Counted(a, h) ==
  \A m \in a.manifest :
    (\A r \in a.rows : r.batch = m.batch => Single(h, r.tenure))
      => m.count = Cardinality({r \in a.rows : r.batch = m.batch})

Kept(rows, t) == \E r \in rows : r.tenure = t

Hands(staged, a, c, h, gone) ==
  /\ Names(staged, h) /\ Names(a.rows, h)
  /\ \A r \in staged \cup a.rows : r.tenure \in gone
  /\ OfOneTenure(staged)
  /\ InStep(a, staged) /\ InStep(c, staged)
  /\ Counted(a, h) /\ Counted(c, h)
  /\ c.rows \subseteq a.rows
  /\ \A t \in gone : Single(h, t) => Kept(staged \cup c.rows, t)

HandOver ==
  /\ Hands(audit, archive, checkpointed, history, pruned)
  /\ phase \in {"checkpoint", "delete"} =>
       /\ 0 \notin copied
       /\ \A a \in audit : a.batch \in copied /\ Single(history, a.tenure)
                             => Kept(archive.rows, a.tenure)
  /\ phase = "delete" => checkpointed = archive

(* What a power loss may leave of the archive since its last checkpoint    *)
(* hands over as the archive does, and each commit adds to the one before. *)
Within(a, b) == /\ a.rows \subseteq b.rows
                /\ \A m \in a.manifest : \E n \in b.manifest : n.batch = m.batch

WalHandsOver ==
  /\ \A i \in DOMAIN wal :
       /\ Hands(audit, wal[i], checkpointed, history, pruned)
       /\ Within(wal[i], archive)
  /\ \A i, j \in DOMAIN wal : i < j => Within(wal[i], wal[j])
  /\ phase = "delete" => wal = << >>

(* The batch numbers in use are bounded.                                   *)
Bounded(n) == \A m \in archive.manifest \cup checkpointed.manifest \cup audit : m.batch <= n
BatchesAreBounded == \E n \in Nat : Bounded(n)

IInv == /\ TypeOK /\ LedgerIsHistory /\ PrunedIsGone /\ LineagesBegin /\ WithinLimit
        /\ MarksAreProved /\ RecentAreKept /\ HandOver /\ WalHandsOver /\ BatchesAreBounded

(***************************************************************************)
(* Third part, which holds as long as no call fails between the two        *)
(* inserts of createLineage: nothing is missing from the ledger.           *)
(***************************************************************************)
LineagesAreRecorded ==
  \A l \in Lineages :
    current[l] # NoSession => \/ \E r \in ledger : r.lineage = l /\ r.role = "current"
                              \/ phase = "record" /\ history[Len(history)].lineage = l

TenuresAreRecorded ==
  \A t \in DOMAIN history :
    Single(history, t) /\ t \notin pruned => Kept(ledger, t) \/ (phase = "record" /\ t = Len(history))

Whole == LineagesAreRecorded /\ OneLineagePerSession /\ TenuresAreRecorded

(***************************************************************************)
(* Histories that grow.                                                    *)
(***************************************************************************)
Grown(h, g) ==
  /\ DOMAIN g \subseteq Nat /\ DOMAIN h \subseteq DOMAIN g
  /\ \A t \in DOMAIN h : g[t] = h[t]
  /\ \A t \in DOMAIN h, u \in DOMAIN g : u \notin DOMAIN h => t < u

LEMMA GrownFacts ==
  ASSUME NEW h, NEW g, Grown(h, g)
  PROVE  /\ \A rows : Names(rows, h) => Names(rows, g)
         /\ \A t, u : Follows(h, t, u) => Follows(g, t, u)
         /\ \A t \in DOMAIN h : Single(g, t) => Single(h, t)
         /\ \A t, u \in DOMAIN h : Follows(g, t, u) => Follows(h, t, u)
         /\ \A l : \A t \in DOMAIN h : LatestOf(g, l, t) => LatestOf(h, l, t)
<1>1. \A rows : Names(rows, h) => Names(rows, g)
  BY DEF Names, Grown
<1>2. ASSUME NEW t, NEW u, Follows(h, t, u) PROVE Follows(g, t, u)
  <2>1. \A v \in DOMAIN g : t < v /\ v < u => v \in DOMAIN h
    <3> SUFFICES ASSUME NEW v \in DOMAIN g, v < u, v \notin DOMAIN h PROVE FALSE
      OBVIOUS
    <3>1. u \in Nat /\ v \in Nat /\ u < v
      BY <1>2 DEF Grown, Follows
    <3> QED BY <3>1
  <2> QED BY <1>2, <2>1 DEF Follows, Grown
<1>3. \A t \in DOMAIN h : Single(g, t) => Single(h, t)
  BY DEF Single, Grown
<1>4. \A t, u \in DOMAIN h : Follows(g, t, u) => Follows(h, t, u)
  BY DEF Follows, Grown
<1>5. \A l : \A t \in DOMAIN h : LatestOf(g, l, t) => LatestOf(h, l, t)
  BY DEF LatestOf, Grown
<1> QED BY <1>1, <1>2, <1>3, <1>4, <1>5

LEMMA ConstantFacts ==
  /\ SoftLimit \in Nat /\ HardLimit \in Nat /\ RetainRecent \in Nat /\ MaxTenures \in Nat
  /\ SoftLimit <= HardLimit /\ NoSession \notin Sessions /\ HardLimit >= 1
  /\ MaxFaults \in Nat /\ Tenures \subseteq Nat
BY LedgerAssumption DEF LedgerAssumption, Tenures

Names0 == [session : Sessions, lineage : Lineages]

LEMMA HistoryFacts ==
  ASSUME TypeOK
  PROVE  /\ history \in Seq(Names0) /\ Len(history) \in Nat /\ DOMAIN history = 1 .. Len(history)
         /\ Len(history) <= MaxTenures /\ DOMAIN history \subseteq Nat
         /\ DOMAIN history \subseteq Tenures
         /\ history # << >> => Len(history) \in DOMAIN history
         /\ \A t \in DOMAIN history : history[t].session \in Sessions /\ history[t].lineage \in Lineages
         /\ Grown(history, history)
<1>1. history \in Seq(Names0) /\ Len(history) <= MaxTenures
  BY DEF TypeOK, Names0
<1>2. Len(history) \in Nat /\ DOMAIN history = 1 .. Len(history)
  BY <1>1, LenProperties
<1>3. \A t \in DOMAIN history : history[t] \in Names0
  BY <1>1, <1>2, ElementOfSeq
<1>4. \A b \in Names0 : b.session \in Sessions /\ b.lineage \in Lineages
  BY DEF Names0
<1>5. DOMAIN history \subseteq Nat /\ DOMAIN history \subseteq Tenures
  BY <1>1, <1>2, ConstantFacts DEF Tenures
<1>6. history # << >> => Len(history) \in DOMAIN history
  BY <1>1, <1>2
<1>7. Grown(history, history)
  BY <1>5 DEF Grown
<1> QED BY <1>1, <1>2, <1>3, <1>4, <1>5, <1>6, <1>7

LEMMA BeginFacts ==
  ASSUME TypeOK, NEW l \in Lineages, NEW s \in Sessions, Begin(l, s), Len(history) < MaxTenures
  PROVE  LET t == Len(history) + 1
         IN  /\ Len(history') = t /\ t \in Tenures /\ t \notin DOMAIN history
             /\ DOMAIN history' = (DOMAIN history) \cup {t}
             /\ history'[t].session = s /\ history'[t].lineage = l
             /\ history' \in Seq(Names0) /\ history' # << >>
             /\ Grown(history, history') /\ \A u \in DOMAIN history' : u <= t
<1> DEFINE b == [session |-> s, lineage |-> l]
           t == Len(history) + 1
<1>1. b \in Names0 /\ b.session = s /\ b.lineage = l
  BY DEF Names0
<1>2. history' = Append(history, b)
  BY DEF Begin
<1> HIDE DEF b, Names0
<1>3. /\ history' \in Seq(Names0) /\ Len(history') = t
      /\ \A i \in 1 .. Len(history) : history'[i] = history[i]
      /\ history'[t] = b
  BY <1>1, <1>2, HistoryFacts, AppendProperties
<1>4. DOMAIN history' = 1 .. t
  BY <1>3, LenProperties, HistoryFacts
<1>5. /\ t \in Tenures /\ t \notin DOMAIN history
      /\ DOMAIN history' = (DOMAIN history) \cup {t} /\ \A u \in DOMAIN history' : u <= t
      /\ DOMAIN history' \subseteq Nat /\ history' # << >>
  BY <1>3, <1>4, HistoryFacts, ConstantFacts DEF Tenures
<1>6. Grown(history, history')
  <2>1. \A u \in DOMAIN history, v \in DOMAIN history' : v \notin DOMAIN history => u < v
    <3> SUFFICES ASSUME NEW u \in DOMAIN history PROVE u < t
      BY <1>5
    <3> QED BY HistoryFacts
  <2> QED BY <1>3, <1>5, <2>1, HistoryFacts DEF Grown
<1> QED BY <1>1, <1>3, <1>5, <1>6

(***************************************************************************)
(* The rows that a rollover and an acknowledgement rewrite.                *)
(***************************************************************************)
Same(r, q) == /\ q.session = r.session /\ q.lineage = r.lineage
              /\ q.tenure = r.tenure /\ q.reconciled = r.reconciled

Out(r, t) == [r EXCEPT !.role = "historical", !.superseded = t]
Back(r, t) == [r EXCEPT !.role = "current", !.superseded = 0, !.tenure = t]
Proved(r) == [r EXCEPT !.reconciled = TRUE]

LEMMA BindingsFacts ==
  ASSUME NEW r \in Bindings
  PROVE  /\ r.session \in Sessions /\ r.lineage \in Lineages /\ r.role \in {"current", "historical"}
         /\ r.tenure \in Tenures /\ r.tenure \in Nat /\ r.superseded \in Nat
<1>1. 0..MaxTenures \subseteq Nat /\ Tenures \subseteq Nat
  BY ConstantFacts
<1> QED BY <1>1, Zenon DEF Bindings

LEMMA OutFacts ==
  ASSUME NEW r \in Bindings, NEW t \in Tenures
  PROVE  /\ Out(r, t) \in Bindings /\ Same(r, Out(r, t))
         /\ Out(r, t).role = "historical" /\ Out(r, t).superseded = t
<1>1. Tenures \subseteq 0..MaxTenures
  BY ConstantFacts DEF Tenures
<1> QED BY <1>1, Zenon DEF Bindings, Same, Out

LEMMA BackFacts ==
  ASSUME NEW r \in Bindings, NEW t \in Tenures
  PROVE  /\ Back(r, t) \in Bindings /\ Back(r, t).role = "current" /\ Back(r, t).tenure = t
         /\ Back(r, t).session = r.session /\ Back(r, t).lineage = r.lineage
<1>1. 0 \in 0..MaxTenures
  BY ConstantFacts
<1> QED BY <1>1, Zenon DEF Bindings, Back

LEMMA ProvedFacts ==
  ASSUME NEW r \in Bindings
  PROVE  /\ Proved(r) \in Bindings /\ Proved(r).role = r.role /\ Proved(r).tenure = r.tenure
         /\ Proved(r).session = r.session /\ Proved(r).lineage = r.lineage
         /\ Proved(r).superseded = r.superseded
BY Zenon DEF Bindings, Proved

LEMMA NewBindingFacts ==
  ASSUME NEW l \in Lineages, NEW s \in Sessions, NEW t \in Tenures
  PROVE  /\ NewBinding(l, s, t) \in Bindings
         /\ NewBinding(l, s, t).session = s /\ NewBinding(l, s, t).lineage = l
         /\ NewBinding(l, s, t).role = "current" /\ NewBinding(l, s, t).tenure = t
         /\ ~ NewBinding(l, s, t).reconciled
<1>1. 0 \in 0..MaxTenures
  BY ConstantFacts
<1> QED BY <1>1, Zenon DEF NewBinding, Bindings

(***************************************************************************)
(* Counting rows by their tenures.                                         *)
(***************************************************************************)
LEMMA Countable ==
  ASSUME TypeOK, NEW rows, rows \subseteq ledger, OfOneTenure(ledger)
  PROVE  IsFiniteSet(rows)
<1> DEFINE f == [r \in rows |-> r.tenure]
<1>1. rows \subseteq Bindings
  BY DEF TypeOK
<1>2. f \in [rows -> Tenures]
  BY <1>1, BindingsFacts
<1>3. \A r, q \in rows : f[r] = f[q] => r = q
  BY DEF OfOneTenure
<1> HIDE DEF f
<1>4. f \in Injection(rows, Tenures)
  BY <1>2, <1>3, Fun_IsInj
<1>5. IsFiniteSet(Tenures)
  BY FS_Interval, ConstantFacts DEF Tenures
<1> QED BY <1>4, <1>5, FS_Injection

LEMMA CountedByTenure ==
  ASSUME NEW rows, NEW others, IsFiniteSet(others), OfOneTenure(rows),
         \A x \in rows : \E r \in others : r.tenure = x.tenure
  PROVE  /\ IsFiniteSet(rows) /\ Cardinality(rows) <= Cardinality(others)
<1> DEFINE f == [x \in rows |-> CHOOSE r \in others : r.tenure = x.tenure]
<1>1. \A x \in rows : f[x] \in others /\ f[x].tenure = x.tenure
  OBVIOUS
<1>2. f \in [rows -> others]
  BY <1>1
<1>3. \A x, y \in rows : f[x] = f[y] => x = y
  BY <1>1 DEF OfOneTenure
<1> HIDE DEF f
<1>4. f \in Injection(rows, others)
  BY <1>2, <1>3, Fun_IsInj
<1> QED BY <1>4, FS_Injection

(***************************************************************************)
(* What a step does to the ledger.                                         *)
(***************************************************************************)
Gone(rows) == {r.tenure : r \in rows}

(* Rows are moved out of the ledger, and of those that stay the current    *)
(* one of l gives way to z, the row of a new tenure.                       *)
Replaced(rows, l, s) == {r \in rows : r.lineage = l /\ r.role = "current" /\ r.session # s}
Other(rows, l, s) == {r \in rows : /\ ~ (r.lineage = l /\ r.session = s)
                                   /\ ~ (r.lineage = l /\ r.role = "current")}
Fresh(z, rows, l, s, t) ==
  /\ z \in Bindings /\ z.session = s /\ z.lineage = l /\ z.role = "current" /\ z.tenure = t
  /\ z.reconciled => \E r \in rows : r.session = s /\ r.lineage = l

LEMMA UpsertFacts ==
  ASSUME NEW rows, rows \subseteq Bindings, OfOnePair(rows),
         NEW l \in Lineages, NEW s \in Sessions, NEW t \in Tenures,
         ~ \E r \in rows : r.lineage = l /\ r.session = s /\ r.role = "current"
  PROVE  \E z : /\ Fresh(z, rows, l, s, t)
                /\ Upsert(Supersede(rows, l, s, t), l, s, t) =
                     {z} \cup Other(rows, l, s) \cup {Out(r, t) : r \in Replaced(rows, l, s)}
<1> DEFINE over == Supersede(rows, l, s, t)
           rest == Other(rows, l, s) \cup {Out(r, t) : r \in Replaced(rows, l, s)}
<1>1. over = {r \in rows : r.lineage = l /\ r.session = s} \cup rest
  <2>1. over = {IF r \in Replaced(rows, l, s) THEN Out(r, t) ELSE r : r \in rows}
    BY DEF Supersede, Replaced, Out
  <2>2. \A r \in rows : r \notin Replaced(rows, l, s) <=>
          r \in {q \in rows : q.lineage = l /\ q.session = s} \/ r \in Other(rows, l, s)
    BY DEF Replaced, Other
  <2>3. Replaced(rows, l, s) \subseteq rows /\ Other(rows, l, s) \subseteq rows
    BY DEF Replaced, Other
  <2>4. {r \in rows : r.lineage = l /\ r.session = s} \subseteq rows
    OBVIOUS
  <2> HIDE DEF over
  <2> QED BY <2>1, <2>2, <2>3, <2>4
<1>2. \A r \in rest : ~ (r.lineage = l /\ r.session = s)
  <2>1. \A r \in Other(rows, l, s) : ~ (r.lineage = l /\ r.session = s)
    BY DEF Other
  <2>2. ASSUME NEW r \in Replaced(rows, l, s) PROVE Out(r, t).session # s
    <3>1. r \in Bindings /\ r.session # s
      BY <2>2 DEF Replaced
    <3>2. Same(r, Out(r, t))
      BY <3>1, OutFacts, Zenon
    <3> QED BY <3>1, <3>2 DEF Same
  <2> QED BY <2>1, <2>2
<1>3. CASE \E r \in rows : r.lineage = l /\ r.session = s
  <2>1. PICK r \in rows : r.lineage = l /\ r.session = s
    BY <1>3
  <2>2. {q \in rows : q.lineage = l /\ q.session = s} = {r}
    BY <2>1 DEF OfOnePair
  <2>3. over = {r} \cup rest
    BY <1>1, <2>2
  <2>4. Upsert(over, l, s, t) = {IF q.lineage = l /\ q.session = s THEN Back(q, t) ELSE q : q \in over}
    BY <2>1, <2>3 DEF Upsert, Back
  <2>5. Upsert(over, l, s, t) = {Back(r, t)} \cup rest
    <3> HIDE DEF over, rest
    <3> QED BY <1>2, <2>1, <2>3, <2>4
  <2>6. /\ Back(r, t) \in Bindings /\ Back(r, t).session = s /\ Back(r, t).lineage = l
        /\ Back(r, t).role = "current" /\ Back(r, t).tenure = t
    <3>1. r \in Bindings
      BY <2>1
    <3> QED BY <2>1, <3>1, BackFacts, Zenon
  <2>7. Fresh(Back(r, t), rows, l, s, t)
    BY <2>1, <2>6 DEF Fresh
  <2> HIDE DEF over
  <2> QED BY <2>5, <2>7 DEF over
<1>4. CASE ~ \E r \in rows : r.lineage = l /\ r.session = s
  <2>1. over = rest
    BY <1>1, <1>4
  <2>2. Upsert(over, l, s, t) = {NewBinding(l, s, t)} \cup rest
    BY <1>2, <2>1 DEF Upsert
  <2>3. Fresh(NewBinding(l, s, t), rows, l, s, t)
    <3> DEFINE z == NewBinding(l, s, t)
    <3>1. /\ z \in Bindings /\ z.session = s /\ z.lineage = l
          /\ z.role = "current" /\ z.tenure = t /\ ~ z.reconciled
      BY NewBindingFacts
    <3> HIDE DEF z
    <3>2. Fresh(z, rows, l, s, t)
      BY <3>1, Zenon DEF Fresh
    <3> QED BY <3>2 DEF z
  <2> HIDE DEF over
  <2> QED BY <2>2, <2>3 DEF over
<1> QED BY <1>3, <1>4

NextTenure == Len(history) + 1

Creates(l, s) ==
  /\ l \in Lineages /\ s \in Sessions /\ phase = "idle" /\ phase' = "record"
  /\ current[l] = NoSession /\ \A other \in Lineages : current[other] # s
  /\ Begin(l, s) /\ Len(history) < MaxTenures
  /\ current' = [current EXCEPT ![l] = s] /\ ledger' = ledger /\ proved' = proved

Records(z) ==
  LET b == history[Len(history)]
  IN  /\ phase = "record" /\ phase' = "idle"
      /\ z \in Bindings /\ z.session = b.session /\ z.lineage = b.lineage /\ z.role = "current"
      /\ z.tenure = Len(history) /\ ~ z.reconciled
      /\ ledger' = ledger \cup {z} /\ UNCHANGED <<current, history, proved>>

Acks(s) ==
  /\ phase = "idle" /\ phase' = "idle"
  /\ ledger' = {IF r.session = s THEN Proved(r) ELSE r : r \in ledger}
  /\ proved' = proved \cup Gone({q \in ledger : q.session = s})
  /\ UNCHANGED <<current, history>>

Loses(rows) ==
  /\ phase' = "record" => phase = "record"
  /\ phase = "record" => phase' = "record" \/ CreateMayFail
  /\ ledger' = ledger \ rows /\ UNCHANGED <<current, history, proved>>

Moves(rows, l, s, z) ==
  /\ l \in Lineages /\ s \in Sessions /\ phase = "idle" /\ phase' # "record"
  /\ current[l] # NoSession /\ NotCurrentElsewhere(ledger \ rows, l, s)
  /\ Begin(l, s) /\ Len(history) < MaxTenures
  /\ \/ Cardinality(Historical) < SoftLimit /\ rows = {}
     \/ rows = Prunable /\ Cardinality(Historical \ Prunable) < HardLimit
  /\ Fresh(z, ledger \ rows, l, s, NextTenure)
  /\ current' = [current EXCEPT ![l] = s] /\ proved' = proved
  /\ ledger' = {z} \cup Other(ledger \ rows, l, s)
                   \cup {Out(r, NextTenure) : r \in Replaced(ledger \ rows, l, s)}

Rewrites(rows) ==
  /\ rows \in SUBSET Prunable /\ pruned' = pruned \cup Gone(rows)
  /\ \/ \E l, s : Creates(l, s) /\ rows = {}
     \/ \E z : Records(z) /\ rows = {}
     \/ \E s : Acks(s) /\ rows = {}
     \/ Loses(rows)
     \/ \E l, s, z : Moves(rows, l, s, z)

LEMMA GoneNone == Gone({}) = {} /\ \A S : S \cup {} = S /\ S \ {} = S
BY DEF Gone

LEMMA CreateShape ==
  ASSUME CreateLineage
  PROVE  Rewrites({})
<1>1. PICK l \in Lineages, s \in Sessions :
        /\ current[l] = NoSession
        /\ \A other \in Lineages : current[other] # s
        /\ current' = [current EXCEPT ![l] = s]
        /\ Begin(l, s)
  BY DEF CreateLineage
<1>2. Creates(l, s)
  BY <1>1 DEF CreateLineage, Creates
<1>3. pruned' = pruned
  BY DEF CreateLineage
<1> QED BY <1>2, <1>3, GoneNone DEF Rewrites

LEMMA RecordShape ==
  ASSUME TypeOK, LineagesBegin, RecordBinding
  PROVE  Rewrites({})
<1> DEFINE t == Len(history)
           b == history[t]
           z == NewBinding(b.lineage, b.session, t)
<1>1. /\ phase = "record" /\ phase' = "idle" /\ pruned' = pruned
      /\ UNCHANGED <<current, history, proved>>
  BY DEF RecordBinding, ghosts
<1>2. t \in DOMAIN history /\ t \in Tenures /\ b.lineage \in Lineages /\ b.session \in Sessions
  BY <1>1, HistoryFacts DEF LineagesBegin
<1>3. ledger' = ledger \cup {z}
  BY <1>1 DEF RecordBinding, LineagesBegin
<1>4. /\ z \in Bindings /\ z.session = b.session /\ z.lineage = b.lineage /\ z.role = "current"
      /\ z.tenure = t /\ ~ z.reconciled
  BY <1>2, NewBindingFacts
<1>5. Records(z)
  <2> HIDE DEF z
  <2> QED BY <1>1, <1>3, <1>4 DEF Records
<1> QED BY <1>1, <1>5, GoneNone DEF Rewrites

LEMMA AckShape ==
  ASSUME AcknowledgeSessionReconciled
  PROVE  Rewrites({})
<1>1. PICK s \in Sessions :
        /\ ledger' = {IF r.session = s THEN [r EXCEPT !.reconciled = TRUE] ELSE r : r \in ledger}
        /\ proved' = proved \cup {r.tenure : r \in {q \in ledger : q.session = s}}
  BY DEF AcknowledgeSessionReconciled
<1>2. Acks(s)
  BY <1>1 DEF AcknowledgeSessionReconciled, Acks, Proved, Gone
<1>3. pruned' = pruned
  BY DEF AcknowledgeSessionReconciled
<1> QED BY <1>2, <1>3, GoneNone DEF Rewrites

LEMMA ReclaimShape ==
  ASSUME Reclaim
  PROVE  Rewrites(Prunable)
<1>1. Loses(Prunable)
  BY DEF Reclaim, Loses
<1>2. pruned' = pruned \cup Gone(Prunable)
  BY DEF Reclaim, Gone
<1> QED BY <1>1, <1>2 DEF Rewrites

LEMMA BindShape ==
  ASSUME TypeOK, LedgerIsHistory, BindCurrentSession
  PROVE  Rewrites(Pruning)
<1> DEFINE kept == ledger \ Pruning
           t == Len(history')
<1>1. PICK l \in Lineages, s \in Sessions :
        /\ current[l] # NoSession /\ Gate /\ NotCurrentElsewhere(kept, l, s)
        /\ LET mine == {r \in kept : r.lineage = l /\ r.session = s /\ r.role = "current"}
           IN  IF mine # {}
               THEN /\ ledger' = kept
                    /\ UNCHANGED history
               ELSE /\ Len(history) < MaxTenures
                    /\ Begin(l, s)
                    /\ ledger' = Upsert(Supersede(kept, l, s, t), l, s, t)
        /\ current' = [current EXCEPT ![l] = s]
  BY DEF BindCurrentSession
<1>2. Pruning \in SUBSET Prunable /\ pruned' = pruned \cup Gone(Pruning)
  BY DEF BindCurrentSession, Pruning, Gone
<1>3. phase = "idle" /\ phase' # "record" /\ proved' = proved
  BY DEF BindCurrentSession
<1>4. CASE \E r \in kept : r.lineage = l /\ r.session = s /\ r.role = "current"
  <2>1. ledger' = kept /\ history' = history
    BY <1>1, <1>4
  <2>2. current[l] = s
    BY <1>4 DEF LedgerIsHistory, RolesAgree
  <2>3. current' = current
    BY <1>1, <2>2 DEF TypeOK
  <2>4. Loses(Pruning)
    BY <1>3, <2>1, <2>3 DEF Loses
  <2> QED BY <1>2, <2>4 DEF Rewrites
<1>5. CASE ~ \E r \in kept : r.lineage = l /\ r.session = s /\ r.role = "current"
  <2>1. /\ Len(history) < MaxTenures /\ Begin(l, s)
        /\ ledger' = Upsert(Supersede(kept, l, s, t), l, s, t)
    BY <1>1, <1>5
  <2>2. t = NextTenure /\ t \in Tenures
    BY <2>1, BeginFacts DEF NextTenure
  <2>3. kept \subseteq Bindings /\ OfOnePair(kept)
    BY DEF TypeOK, LedgerIsHistory, OfOnePair
  <2>4. PICK z : /\ Fresh(z, kept, l, s, t)
                 /\ Upsert(Supersede(kept, l, s, t), l, s, t) =
                      {z} \cup Other(kept, l, s) \cup {Out(r, t) : r \in Replaced(kept, l, s)}
    <3> HIDE DEF kept, t
    <3> QED BY <1>5, <2>2, <2>3, UpsertFacts
  <2>5. \/ Cardinality(Historical) < SoftLimit /\ Pruning = {}
        \/ Pruning = Prunable /\ Cardinality(Historical \ Prunable) < HardLimit
    BY <1>1 DEF Gate, Pruning
  <2>6. Moves(Pruning, l, s, z)
    <3> HIDE DEF Pruning
    <3> QED BY <1>1, <1>3, <2>1, <2>2, <2>4, <2>5 DEF Moves
  <2> QED BY <1>2, <2>6 DEF Rewrites
<1> QED BY <1>4, <1>5

LEMMA LedgerFrame ==
  ASSUME TypeOK, LedgerIsHistory, LineagesBegin, [Next]_vars
  PROVE  \E rows : Rewrites(rows)
<1>1. ASSUME /\ phase' = "record" => phase = "record"
             /\ phase = "record" => phase' = "record" \/ CreateMayFail
             /\ UNCHANGED <<current, ledger, ghosts>>
      PROVE  Rewrites({})
  <2>1. Loses({})
    BY <1>1, GoneNone DEF Loses, ghosts
  <2> QED BY <1>1, <2>1, GoneNone DEF Rewrites, ghosts
<1>2. CASE CreateLineage
  BY <1>2, CreateShape
<1>3. CASE RecordBinding
  BY <1>3, RecordShape
<1>4. CASE AcknowledgeSessionReconciled
  BY <1>4, AckShape
<1>5. CASE Reclaim
  BY <1>5, ReclaimShape
<1>6. CASE BindCurrentSession
  BY <1>6, BindShape
<1>7. CASE ArchiveBindingAudit
  BY <1>1, <1>7 DEF ArchiveBindingAudit, contextDb
<1>8. CASE Drain
  BY <1>1, <1>8
     DEF Drain, MarkBatch, CopyBatches, Checkpoint, DeleteBatches, contextDb
<1>9. CASE CallFails
  BY <1>1, <1>9 DEF CallFails, contextDb
<1>10. CASE Crash
  BY <1>1, <1>10 DEF Crash, contextDb
<1>11. CASE UNCHANGED vars
  BY <1>1, <1>11 DEF vars, contextDb
<1> QED BY <1>2, <1>3, <1>4, <1>5, <1>6, <1>7, <1>8, <1>9, <1>10, <1>11 DEF Next, Host

(***************************************************************************)
(* Where the rows of the ledger come from after a step, and what the step  *)
(* does to the history.                                                    *)
(***************************************************************************)
LEMMA LedgerTyped ==
  ASSUME TypeOK
  PROVE  /\ ledger \subseteq Bindings /\ current \in [Lineages -> Sessions \cup {NoSession}]
         /\ proved \subseteq Tenures /\ pruned \subseteq Tenures /\ audit \subseteq Audits
BY DEF TypeOK

Moved(x, r, t) == x = Out(r, t) /\ Same(r, x) /\ x.role = "historical" /\ x.superseded = t

LEMMA MovedRows ==
  ASSUME TypeOK, NEW rows, NEW l, NEW s, NEW z, Moves(rows, l, s, z)
  PROVE  /\ ledger' \subseteq Bindings /\ z \in ledger'
         /\ \A x \in ledger' :
              \/ x = z
              \/ x \in Other(ledger \ rows, l, s)
              \/ \E r \in Replaced(ledger \ rows, l, s) : Moved(x, r, NextTenure)
         /\ Other(ledger \ rows, l, s) \subseteq ledger'
         /\ \A r \in Replaced(ledger \ rows, l, s) : \E x \in ledger' : Moved(x, r, NextTenure)
<1>1. NextTenure \in Tenures
  BY BeginFacts DEF Moves, NextTenure
<1>2. ledger' = {z} \cup Other(ledger \ rows, l, s)
                    \cup {Out(r, NextTenure) : r \in Replaced(ledger \ rows, l, s)}
  BY DEF Moves
<1>3. \A r \in Replaced(ledger \ rows, l, s) :
        Out(r, NextTenure) \in Bindings /\ Moved(Out(r, NextTenure), r, NextTenure)
  <2> SUFFICES ASSUME NEW r \in Replaced(ledger \ rows, l, s)
               PROVE  Out(r, NextTenure) \in Bindings /\ Moved(Out(r, NextTenure), r, NextTenure)
    OBVIOUS
  <2>1. r \in Bindings
    BY LedgerTyped DEF Replaced
  <2> QED BY <1>1, <2>1, OutFacts, Zenon DEF Moved
<1>4. z \in Bindings /\ Other(ledger \ rows, l, s) \subseteq Bindings
  BY LedgerTyped DEF Moves, Fresh, Other
<1> QED BY <1>2, <1>3, <1>4

LEMMA AckRows ==
  ASSUME TypeOK, NEW s, Acks(s)
  PROVE  /\ ledger' \subseteq Bindings
         /\ \A x \in ledger' : \E r \in ledger :
              /\ x.session = r.session /\ x.lineage = r.lineage /\ x.tenure = r.tenure
              /\ x.role = r.role /\ x.superseded = r.superseded
              /\ x = r \/ r.session = s
              /\ x = (IF r.session = s THEN Proved(r) ELSE r)
         /\ \A r \in ledger : \E x \in ledger' :
              /\ x.session = r.session /\ x.lineage = r.lineage /\ x.tenure = r.tenure
              /\ x.role = r.role /\ x.superseded = r.superseded
<1> DEFINE after(r) == IF r.session = s THEN Proved(r) ELSE r
<1>1. ASSUME NEW r \in ledger
      PROVE  /\ after(r) \in Bindings
             /\ after(r).session = r.session /\ after(r).lineage = r.lineage
             /\ after(r).tenure = r.tenure /\ after(r).role = r.role
             /\ after(r).superseded = r.superseded /\ (after(r) = r \/ r.session = s)
  <2>1. r \in Bindings
    BY LedgerTyped
  <2>2. CASE r.session = s
    BY <2>1, <2>2, ProvedFacts
  <2>3. CASE r.session # s
    BY <2>1, <2>3
  <2> QED BY <2>2, <2>3
<1>2. ledger' = {after(r) : r \in ledger}
  BY DEF Acks
<1>3. \A x \in ledger' : \E r \in ledger : x = after(r)
  BY <1>2
<1>4. \A r \in ledger : after(r) \in ledger'
  BY <1>2
<1>5. \A r \in ledger : after(r) = (IF r.session = s THEN Proved(r) ELSE r)
  OBVIOUS
<1> HIDE DEF after
<1>6. \A x \in ledger' : \E r \in ledger :
        /\ x.session = r.session /\ x.lineage = r.lineage /\ x.tenure = r.tenure
        /\ x.role = r.role /\ x.superseded = r.superseded
        /\ x = r \/ r.session = s
        /\ x = (IF r.session = s THEN Proved(r) ELSE r)
  <2> SUFFICES ASSUME NEW x \in ledger'
               PROVE  \E r \in ledger :
                        /\ x.session = r.session /\ x.lineage = r.lineage /\ x.tenure = r.tenure
                        /\ x.role = r.role /\ x.superseded = r.superseded
                        /\ x = r \/ r.session = s
                        /\ x = (IF r.session = s THEN Proved(r) ELSE r)
    OBVIOUS
  <2>1. PICK r \in ledger : x = after(r)
    BY <1>3
  <2> QED BY <1>1, <1>5, <2>1
<1> QED BY <1>1, <1>3, <1>4, <1>6, Zenon

LEMMA MovedFrom ==
  ASSUME TypeOK, NEW rows, NEW l, NEW s, NEW z, Moves(rows, l, s, z), NEW x \in ledger'
  PROVE  \/ x = z
         \/ x \in Other(ledger \ rows, l, s)
         \/ \E r \in Replaced(ledger \ rows, l, s) : Moved(x, r, NextTenure)
BY MovedRows

(* History grows, at most by one tenure, the greatest.                     *)
LEMMA HistoryStep ==
  ASSUME TypeOK, NEW rows, Rewrites(rows)
  PROVE  /\ Grown(history, history') /\ history' \in Seq(Names0) /\ Len(history') <= MaxTenures
         /\ \/ history' = history
            \/ DOMAIN history' = (DOMAIN history) \cup {NextTenure} /\ NextTenure \notin DOMAIN history
<1>1. CASE history' = history
  BY <1>1, HistoryFacts
<1>2. ASSUME NEW l \in Lineages, NEW s \in Sessions, Begin(l, s), Len(history) < MaxTenures
      PROVE  /\ Grown(history, history') /\ history' \in Seq(Names0) /\ Len(history') <= MaxTenures
             /\ DOMAIN history' = (DOMAIN history) \cup {NextTenure}
             /\ NextTenure \notin DOMAIN history
  <2>1. Len(history) \in Nat /\ MaxTenures \in Nat
    BY HistoryFacts, ConstantFacts
  <2>2. Len(history') = Len(history) + 1
    BY <1>2, BeginFacts
  <2>3. Len(history') <= MaxTenures
    BY <1>2, <2>1, <2>2
  <2> QED BY <1>2, <2>3, BeginFacts DEF NextTenure
<1> QED BY <1>1, <1>2 DEF Rewrites, Creates, Records, Acks, Loses, Moves

(***************************************************************************)
(* The ledger, step by step.                                               *)
(***************************************************************************)
LEMMA LessThanNext ==
  ASSUME TypeOK, NEW rows, NEW l, NEW s, NEW z, Moves(rows, l, s, z)
  PROVE  /\ NextTenure \in Tenures /\ NextTenure \in Nat /\ NextTenure = Len(history')
         /\ DOMAIN history' = (DOMAIN history) \cup {NextTenure} /\ NextTenure \notin DOMAIN history
         /\ history'[NextTenure].session = s /\ history'[NextTenure].lineage = l
         /\ \A u \in DOMAIN history : history'[u] = history[u] /\ u < NextTenure
         /\ Grown(history, history') /\ l \in Lineages /\ s \in Sessions
<1>1. /\ Begin(l, s) /\ l \in Lineages /\ s \in Sessions /\ Len(history) < MaxTenures
  BY DEF Moves
<1>2. /\ NextTenure \in Tenures /\ NextTenure = Len(history')
      /\ DOMAIN history' = (DOMAIN history) \cup {NextTenure} /\ NextTenure \notin DOMAIN history
      /\ history'[NextTenure].session = s /\ history'[NextTenure].lineage = l
      /\ Grown(history, history')
  BY <1>1, BeginFacts DEF NextTenure
<1> QED BY <1>1, <1>2, ConstantFacts DEF Grown

LEMMA LedgerOfMove ==
  ASSUME TypeOK, LedgerIsHistory, NEW rows, NEW l, NEW s, NEW z, Moves(rows, l, s, z)
  PROVE  LedgerIsHistory'
<1> DEFINE t == NextTenure
           kept == ledger \ rows
           h == history
           g == history'
<1>1. /\ t \notin DOMAIN h /\ DOMAIN g = (DOMAIN h) \cup {t} /\ t \in Nat
      /\ g[t].session = s /\ g[t].lineage = l /\ Grown(h, g) /\ l \in Lineages
      /\ \A u \in DOMAIN h : g[u] = h[u] /\ u < t
  BY LessThanNext
<1>2. /\ z.session = s /\ z.lineage = l /\ z.role = "current" /\ z.tenure = t
  BY DEF Moves, Fresh
<1>3. \A r \in ledger : /\ r.tenure \in DOMAIN h /\ h[r.tenure].session = r.session
                        /\ h[r.tenure].lineage = r.lineage
  BY DEF LedgerIsHistory, Names
<1>4. \A x \in ledger' :
        \/ x = z
        \/ x \in Other(kept, l, s)
        \/ \E r \in Replaced(kept, l, s) : Moved(x, r, t)
  BY MovedRows
<1>5. /\ Other(kept, l, s) \subseteq ledger /\ Replaced(kept, l, s) \subseteq ledger
      /\ \A r \in Other(kept, l, s) : r.lineage = l => r.session # s /\ r.role # "current"
      /\ \A r \in Replaced(kept, l, s) : r.lineage = l /\ r.role = "current" /\ r.session # s
  BY DEF Other, Replaced
<1> HIDE DEF t, kept, h, g
<1>6. Names(ledger', g)
  BY <1>1, <1>2, <1>3, <1>4, <1>5 DEF Names, Moved, Same
<1>7. OfOneTenure(ledger) /\ OfOnePair(ledger) /\ RolesAgree(ledger, h, current)
  BY DEF LedgerIsHistory, h
<1>8. \A x \in ledger' : x.tenure = t => x = z
  BY <1>1, <1>3, <1>4, <1>5 DEF Moved, Same
<1>9. \A x \in ledger' : x.session = s /\ x.lineage = l => x = z
  BY <1>4, <1>5 DEF Moved, Same
<1>10. \A x, y \in ledger' : \A r, q \in Replaced(kept, l, s) :
         Moved(x, r, t) /\ Moved(y, q, t) /\ (r.tenure = q.tenure \/ r = q) => x = y
  <2> SUFFICES ASSUME NEW x \in ledger', NEW y \in ledger', NEW r \in Replaced(kept, l, s),
                      NEW q \in Replaced(kept, l, s), Moved(x, r, t), Moved(y, q, t),
                      r.tenure = q.tenure \/ r = q
               PROVE  x = y
    OBVIOUS
  <2>1. r = q
    BY <1>5, <1>7 DEF OfOneTenure
  <2> QED BY <2>1 DEF Moved
<1>11. OfOneTenure(ledger')
  <2> SUFFICES ASSUME NEW x \in ledger', NEW y \in ledger', x.tenure = y.tenure
               PROVE  x = y
    BY DEF OfOneTenure
  <2>1. CASE x = z \/ y = z
    BY <1>2, <1>8, <2>1
  <2>2. CASE x \in Other(kept, l, s) /\ y \in Other(kept, l, s)
    BY <1>5, <1>7, <2>2 DEF OfOneTenure
  <2>3. ASSUME NEW v \in Other(kept, l, s), NEW r \in Replaced(kept, l, s), v.tenure = r.tenure
        PROVE  FALSE
    BY <1>5, <1>7, <2>3 DEF OfOneTenure
  <2>4. CASE x \notin Other(kept, l, s) /\ y \notin Other(kept, l, s) /\ x # z /\ y # z
    BY <1>4, <1>10, <2>4 DEF Moved, Same
  <2> QED BY <1>4, <2>1, <2>2, <2>3, <2>4 DEF Moved, Same
<1>12. OfOnePair(ledger')
  <2> SUFFICES ASSUME NEW x \in ledger', NEW y \in ledger',
                      x.session = y.session, x.lineage = y.lineage
               PROVE  x = y
    BY DEF OfOnePair
  <2>1. CASE x = z \/ y = z
    BY <1>2, <1>9, <2>1
  <2>2. CASE x \in Other(kept, l, s) /\ y \in Other(kept, l, s)
    BY <1>5, <1>7, <2>2 DEF OfOnePair
  <2>3. ASSUME NEW v \in Other(kept, l, s), NEW r \in Replaced(kept, l, s),
               v.session = r.session, v.lineage = r.lineage
        PROVE  FALSE
    BY <1>5, <1>7, <2>3 DEF OfOnePair
  <2>4. CASE x \notin Other(kept, l, s) /\ y \notin Other(kept, l, s) /\ x # z /\ y # z
    <3>1. PICK r \in Replaced(kept, l, s), q \in Replaced(kept, l, s) :
            Moved(x, r, t) /\ Moved(y, q, t)
      BY <1>4, <2>4
    <3>2. r = q
      BY <1>5, <1>7, <3>1 DEF OfOnePair, Moved, Same
    <3> QED BY <1>10, <3>1, <3>2
  <2> QED BY <1>4, <2>1, <2>2, <2>3, <2>4 DEF Moved, Same
<1>13. RolesAgree(ledger', g, current')
  <2>1. current' = [current EXCEPT ![l] = s] /\ current \in [Lineages -> Sessions \cup {NoSession}]
    BY LedgerTyped DEF Moves
  <2>2. ASSUME NEW x \in Other(kept, l, s)
        PROVE  /\ x.role = "historical" => Follows(g, x.tenure, x.superseded)
               /\ x.role = "current" => x.session = current'[x.lineage] /\ LatestOf(g, x.lineage, x.tenure)
    <3>1. x.role = "historical" => Follows(g, x.tenure, x.superseded)
      BY <1>1, <1>5, <1>7, GrownFacts DEF RolesAgree
    <3>2. ASSUME x.role = "current"
          PROVE  x.session = current'[x.lineage] /\ LatestOf(g, x.lineage, x.tenure)
      <4>1. x \in ledger /\ x.lineage # l
        BY <1>5, <3>2
      <4>2. x.lineage \in Lineages
        BY <4>1, LedgerTyped, BindingsFacts
      <4>3. x.session = current'[x.lineage]
        BY <1>7, <2>1, <3>2, <4>1, <4>2 DEF RolesAgree
      <4>4. LatestOf(g, x.lineage, x.tenure)
        BY <1>1, <1>7, <3>2, <4>1 DEF RolesAgree, LatestOf
      <4> QED BY <4>3, <4>4
    <3> QED BY <3>1, <3>2
  <2>3. ASSUME NEW x \in ledger', NEW r \in Replaced(kept, l, s), Moved(x, r, t)
        PROVE  x.role = "historical" /\ Follows(g, x.tenure, x.superseded)
    <3>1. r \in ledger /\ r.lineage = l /\ r.role = "current"
      BY <1>5
    <3>2. LatestOf(h, l, r.tenure) /\ r.tenure \in DOMAIN h /\ h[r.tenure].lineage = l
      BY <1>3, <1>7, <3>1 DEF RolesAgree
    <3>3. x.role = "historical" /\ x.tenure = r.tenure /\ x.superseded = t
      BY <2>3 DEF Moved, Same
    <3>4. \A v \in DOMAIN g : r.tenure < v /\ v < t => g[v].lineage # l
      <4> SUFFICES ASSUME NEW v \in DOMAIN g, r.tenure < v, v < t, g[v].lineage = l PROVE FALSE
        OBVIOUS
      <4>1. v \in Nat /\ r.tenure \in Nat
        BY <1>1, <3>2 DEF Grown
      <4>2. v \in DOMAIN h
        BY <1>1, <4>1
      <4>3. v <= r.tenure
        BY <1>1, <3>2, <4>2 DEF LatestOf
      <4> QED BY <4>1, <4>3
    <3>5. Follows(g, r.tenure, t)
      BY <1>1, <3>2, <3>4 DEF Follows
    <3> QED BY <3>3, <3>5
  <2>4. z.session = current'[z.lineage] /\ LatestOf(g, z.lineage, z.tenure)
    <3>1. current'[l] = s
      BY <1>1, <2>1
    <3>2. \A u \in DOMAIN g : u <= t
      BY <1>1 DEF Grown
    <3> QED BY <1>2, <3>1, <3>2 DEF LatestOf
  <2>5. \A x \in ledger' : /\ x.role = "historical" => Follows(g, x.tenure, x.superseded)
                           /\ x.role = "current" => x.session = current'[x.lineage] /\ LatestOf(g, x.lineage, x.tenure)
    <3> SUFFICES ASSUME NEW x \in ledger'
                 PROVE  /\ x.role = "historical" => Follows(g, x.tenure, x.superseded)
                        /\ x.role = "current" => x.session = current'[x.lineage] /\ LatestOf(g, x.lineage, x.tenure)
      OBVIOUS
    <3>1. CASE x = z
      BY <1>2, <2>4, <3>1
    <3>2. CASE x \in Other(kept, l, s)
      BY <2>2, <3>2
    <3>3. CASE \E r \in Replaced(kept, l, s) : Moved(x, r, t)
      BY <2>3, <3>3
    <3> QED BY <1>4, <3>1, <3>2, <3>3
  <2> QED BY <2>5 DEF RolesAgree
<1> QED BY <1>6, <1>11, <1>12, <1>13 DEF LedgerIsHistory, g

LEMMA LedgerOfAck ==
  ASSUME TypeOK, LedgerIsHistory, NEW s, Acks(s)
  PROVE  LedgerIsHistory'
<1>1. history' = history /\ current' = current
  BY DEF Acks
<1>2. \A x \in ledger' : \E r \in ledger :
        /\ x.session = r.session /\ x.lineage = r.lineage /\ x.tenure = r.tenure
        /\ x.role = r.role /\ x.superseded = r.superseded
        /\ x = (IF r.session = s THEN Proved(r) ELSE r)
  BY AckRows
<1>3. Names(ledger', history) /\ RolesAgree(ledger', history, current)
  BY <1>2 DEF LedgerIsHistory, Names, RolesAgree
<1>4. OfOneTenure(ledger')
  BY <1>2 DEF LedgerIsHistory, OfOneTenure
<1>5. OfOnePair(ledger')
  BY <1>2 DEF LedgerIsHistory, OfOnePair
<1> QED BY <1>1, <1>3, <1>4, <1>5 DEF LedgerIsHistory

LEMMA LedgerOfRecord ==
  ASSUME TypeOK, LedgerIsHistory, LineagesBegin, NEW z, Records(z)
  PROVE  LedgerIsHistory'
<1> DEFINE b == history[Len(history)]
<1>1. /\ history' = history /\ current' = current /\ ledger' = ledger \cup {z}
      /\ z.session = b.session /\ z.lineage = b.lineage /\ z.role = "current"
      /\ z.tenure = Len(history)
  BY DEF Records
<1>2. /\ Len(history) \in DOMAIN history /\ current[b.lineage] = b.session
      /\ \A r \in ledger : r.lineage # b.lineage
      /\ \A u \in DOMAIN history : u <= Len(history)
  BY HistoryFacts DEF LineagesBegin, Records
<1> HIDE DEF b
<1>3. Names(ledger', history)
  BY <1>1, <1>2 DEF LedgerIsHistory, Names, b
<1>4. OfOneTenure(ledger') /\ OfOnePair(ledger')
  BY <1>1, <1>2 DEF LedgerIsHistory, Names, OfOneTenure, OfOnePair, b
<1>5. RolesAgree(ledger', history, current)
  BY <1>1, <1>2 DEF LedgerIsHistory, RolesAgree, LatestOf
<1> QED BY <1>1, <1>3, <1>4, <1>5 DEF LedgerIsHistory

LEMMA LedgerOfCreate ==
  ASSUME TypeOK, LedgerIsHistory, LineagesBegin, NEW l, NEW s, Creates(l, s)
  PROVE  LedgerIsHistory'
<1>1. /\ ledger' = ledger /\ current' = [current EXCEPT ![l] = s] /\ l \in Lineages /\ s \in Sessions
      /\ Begin(l, s) /\ Len(history) < MaxTenures
      /\ \A r \in ledger : r.lineage # l
  BY DEF Creates, LineagesBegin
<1>2. /\ Grown(history, history') /\ history'[NextTenure].lineage = l
      /\ DOMAIN history' = (DOMAIN history) \cup {NextTenure}
  BY <1>1, BeginFacts DEF NextTenure
<1>3. ledger \subseteq Bindings /\ current \in [Lineages -> Sessions \cup {NoSession}]
  BY LedgerTyped
<1>4. Names(ledger', history') /\ OfOneTenure(ledger') /\ OfOnePair(ledger')
  BY <1>1, <1>2, GrownFacts DEF LedgerIsHistory
<1>5. RolesAgree(ledger', history', current')
  <2> SUFFICES ASSUME NEW r \in ledger
               PROVE  /\ r.role = "historical" => Follows(history', r.tenure, r.superseded)
                      /\ r.role = "current" => /\ r.session = current'[r.lineage]
                                               /\ LatestOf(history', r.lineage, r.tenure)
    BY <1>1 DEF RolesAgree
  <2>1. /\ r.role = "historical" => Follows(history, r.tenure, r.superseded)
        /\ r.role = "current" => /\ r.session = current[r.lineage]
                                 /\ LatestOf(history, r.lineage, r.tenure)
    BY DEF LedgerIsHistory, RolesAgree
  <2>2. r.role = "historical" => Follows(history', r.tenure, r.superseded)
    BY <1>2, <2>1, GrownFacts
  <2>3. r.lineage \in Lineages /\ r.lineage # l
    BY <1>1, <1>3, BindingsFacts
  <2>4. current'[r.lineage] = current[r.lineage]
    BY <1>1, <1>3, <2>3
  <2>5. r.role = "current" => LatestOf(history', r.lineage, r.tenure)
    BY <1>2, <2>1, <2>3 DEF LatestOf, Grown
  <2> QED BY <2>1, <2>2, <2>4, <2>5
<1> QED BY <1>4, <1>5 DEF LedgerIsHistory

LEMMA LedgerStep ==
  ASSUME TypeOK, LedgerIsHistory, LineagesBegin, NEW rows, Rewrites(rows)
  PROVE  LedgerIsHistory'
<1>1. ASSUME Loses(rows) PROVE LedgerIsHistory'
  <2>1. ledger' \subseteq ledger /\ history' = history /\ current' = current
    BY <1>1 DEF Loses
  <2> QED BY <2>1 DEF LedgerIsHistory, Names, OfOneTenure, OfOnePair, RolesAgree
<1> QED BY <1>1, LedgerOfMove, LedgerOfAck, LedgerOfRecord, LedgerOfCreate DEF Rewrites

LEMMA PrunableFacts ==
  ASSUME TypeOK, LedgerIsHistory, NEW rows, Rewrites(rows), NEW r \in rows
  PROVE  /\ r \in ledger /\ r \in Historical /\ r.role = "historical" /\ r.reconciled
         /\ r.tenure \in DOMAIN history /\ Follows(history, r.tenure, r.superseded)
         /\ r \notin Recent
<1>1. r \in Historical /\ r.reconciled /\ \A q \in Recent : q.session # r.session
  BY DEF Rewrites, Prunable
<1> QED BY <1>1 DEF Historical, LedgerIsHistory, Names, RolesAgree

(* A tenure has at most one follower.                                      *)
LEMMA OneFollower ==
  ASSUME NEW h, DOMAIN h \subseteq Nat, NEW t, NEW u, NEW v, Follows(h, t, u), Follows(h, t, v)
  PROVE  u = v
<1>1. u \in Nat /\ v \in Nat /\ ~ (u < v) /\ ~ (v < u)
  BY DEF Follows
<1> QED BY <1>1

LEMMA PrunedStep ==
  ASSUME TypeOK, LedgerIsHistory, LineagesBegin, PrunedIsGone, NEW rows, Rewrites(rows)
  PROVE  PrunedIsGone'
<1>1. pruned' = pruned \cup Gone(rows) /\ Grown(history, history')
  BY HistoryStep DEF Rewrites
<1>2. \A t \in pruned' : \E u \in DOMAIN history : Follows(history, t, u)
  BY <1>1, PrunableFacts DEF PrunedIsGone, Gone, Follows
<1>3. \A t \in pruned' : \E u \in DOMAIN history' : Follows(history', t, u)
  BY <1>1, <1>2, GrownFacts DEF Grown
<1>4. \A x \in ledger' : x.tenure \notin pruned'
  <2>1. \A t \in pruned' : t \in DOMAIN history
    BY <1>2 DEF Follows
  <2>2. ASSUME NEW r \in ledger, r \notin rows PROVE r.tenure \notin pruned'
    BY <1>1, <2>2, PrunableFacts DEF Gone, PrunedIsGone, LedgerIsHistory, OfOneTenure
  <2>3. CASE \E l, s : Creates(l, s) /\ rows = {}
    BY <2>2, <2>3 DEF Creates
  <2>4. ASSUME NEW z, Records(z), rows = {} PROVE \A x \in ledger' : x.tenure \notin pruned'
    <3>1. ledger' = ledger \cup {z} /\ z.tenure = Len(history)
      BY <2>4 DEF Records
    <3>2. \A t \in pruned' : t # Len(history)
      <4> SUFFICES ASSUME NEW t \in pruned', NEW u \in DOMAIN history, Follows(history, t, u)
                   PROVE  t # Len(history)
        BY <1>2
      <4> QED BY HistoryFacts DEF Follows
    <3> QED BY <2>2, <2>4, <3>1, <3>2
  <2>5. ASSUME NEW s, Acks(s), rows = {} PROVE \A x \in ledger' : x.tenure \notin pruned'
    <3>1. \A x \in ledger' : \E r \in ledger : x.tenure = r.tenure
      BY <2>5, AckRows
    <3> QED BY <2>2, <2>5, <3>1
  <2>6. CASE Loses(rows)
    BY <2>2, <2>6 DEF Loses
  <2>7. ASSUME NEW l, NEW s, NEW z, Moves(rows, l, s, z)
        PROVE  \A x \in ledger' : x.tenure \notin pruned'
    <3>1. z.tenure = NextTenure /\ NextTenure \notin DOMAIN history
      BY <2>7, LessThanNext DEF Moves, Fresh
    <3>2. \A x \in ledger' : \/ x = z
                             \/ x \in Other(ledger \ rows, l, s)
                             \/ \E r \in Replaced(ledger \ rows, l, s) : Moved(x, r, NextTenure)
      BY <2>7, MovedRows
    <3> QED BY <2>1, <2>2, <3>1, <3>2 DEF Other, Replaced, Moved, Same
  <2> QED BY <2>3, <2>4, <2>5, <2>6, <2>7 DEF Rewrites
<1> QED BY <1>3, <1>4 DEF PrunedIsGone

LEMMA LineagesStep ==
  ASSUME TypeOK, LedgerIsHistory, LineagesBegin, NEW rows, Rewrites(rows)
  PROVE  LineagesBegin'
<1> DEFINE Unbegun == \A k \in Lineages : current'[k] = NoSession =>
                        /\ \A r \in ledger' : r.lineage # k
                        /\ \A t \in DOMAIN history' : history'[t].lineage # k
<1>1. ledger \subseteq Bindings /\ current \in [Lineages -> Sessions \cup {NoSession}]
      /\ NoSession \notin Sessions
  BY LedgerTyped, ConstantFacts
<1>2. ASSUME NEW l, NEW s, Creates(l, s) PROVE LineagesBegin'
  <2>1. /\ ledger' = ledger /\ current' = [current EXCEPT ![l] = s] /\ l \in Lineages /\ s \in Sessions
        /\ Begin(l, s) /\ Len(history) < MaxTenures /\ \A r \in ledger : r.lineage # l
    BY <1>2 DEF Creates, LineagesBegin
  <2>2. /\ Len(history') = NextTenure /\ DOMAIN history' = (DOMAIN history) \cup {NextTenure}
        /\ history'[NextTenure].session = s /\ history'[NextTenure].lineage = l
        /\ history' # << >> /\ \A u \in DOMAIN history : history'[u] = history[u]
    BY <2>1, BeginFacts DEF NextTenure, Grown
  <2>3. current'[l] = s /\ \A k \in Lineages : k # l => current'[k] = current[k]
    BY <1>1, <2>1
  <2>4. Unbegun
    BY <1>1, <2>1, <2>2, <2>3 DEF LineagesBegin
  <2> QED BY <2>1, <2>2, <2>3, <2>4 DEF LineagesBegin
<1>3. ASSUME NEW z, Records(z) PROVE LineagesBegin'
  <2>1. /\ ledger' = ledger \cup {z} /\ current' = current /\ history' = history
        /\ z.lineage = history[Len(history)].lineage /\ phase' = "idle"
    BY <1>3 DEF Records
  <2>2. Len(history) \in DOMAIN history
    BY <1>3, HistoryFacts DEF LineagesBegin, Records
  <2>3. Unbegun
    BY <2>1, <2>2 DEF LineagesBegin
  <2> QED BY <2>1, <2>3 DEF LineagesBegin
<1>4. ASSUME NEW s, Acks(s) PROVE LineagesBegin'
  <2>1. /\ \A x \in ledger' : \E r \in ledger : x.lineage = r.lineage
        /\ current' = current /\ history' = history /\ phase' = "idle"
    BY <1>4, AckRows DEF Acks
  <2> QED BY <2>1 DEF LineagesBegin
<1>5. ASSUME Loses(rows) PROVE LineagesBegin'
  <2>1. /\ ledger' \subseteq ledger /\ current' = current /\ history' = history
        /\ phase' = "record" => phase = "record"
    BY <1>5 DEF Loses
  <2> QED BY <2>1 DEF LineagesBegin
<1>6. ASSUME NEW l, NEW s, NEW z, Moves(rows, l, s, z) PROVE LineagesBegin'
  <2>1. /\ phase' # "record" /\ current' = [current EXCEPT ![l] = s] /\ l \in Lineages /\ s \in Sessions
        /\ current[l] # NoSession /\ z.lineage = l
    BY <1>6 DEF Moves, Fresh
  <2>2. /\ DOMAIN history' = (DOMAIN history) \cup {NextTenure} /\ history'[NextTenure].lineage = l
        /\ \A u \in DOMAIN history : history'[u] = history[u]
    BY <1>6, LessThanNext
  <2>3. current'[l] = s /\ \A k \in Lineages : k # l => current'[k] = current[k]
    BY <1>1, <2>1
  <2>4. \A x \in ledger' : x = z \/ \E r \in ledger : x.lineage = r.lineage
    <3>1. \A x \in ledger' : \/ x = z
                             \/ x \in Other(ledger \ rows, l, s)
                             \/ \E r \in Replaced(ledger \ rows, l, s) : Moved(x, r, NextTenure)
      BY <1>6, MovedFrom
    <3> QED BY <3>1 DEF Other, Replaced, Moved, Same
  <2>5. Unbegun
    BY <1>1, <2>1, <2>2, <2>3, <2>4 DEF LineagesBegin
  <2> QED BY <2>1, <2>5 DEF LineagesBegin
<1> QED BY <1>2, <1>3, <1>4, <1>5, <1>6 DEF Rewrites

LEMMA MarksStep ==
  ASSUME TypeOK, LedgerIsHistory, PrunedIsGone, MarksAreProved, NEW rows, Rewrites(rows)
  PROVE  MarksAreProved'
<1> DEFINE Marks == \A x \in ledger' : x.reconciled /\ Single(history', x.tenure) => x.tenure \in proved'
<1>1. pruned' = pruned \cup Gone(rows) /\ Grown(history, history')
  BY HistoryStep DEF Rewrites
<1>2. proved \subseteq proved'
  BY DEF Rewrites, Creates, Records, Acks, Loses, Moves
<1>3. \A t \in DOMAIN history : Single(history', t) => Single(history, t)
  BY <1>1, GrownFacts
<1>4. \A t \in pruned' : Single(history', t) => t \in proved'
  <2>1. ASSUME NEW t \in pruned, Single(history', t) PROVE t \in proved'
    BY <1>2, <1>3, <2>1 DEF PrunedIsGone, MarksAreProved, Follows
  <2>2. ASSUME NEW r \in rows, Single(history', r.tenure) PROVE r.tenure \in proved'
    BY <1>2, <1>3, <2>2, PrunableFacts DEF MarksAreProved
  <2> QED BY <1>1, <2>1, <2>2 DEF Gone
<1>5. \A r \in ledger : r.reconciled /\ Single(history', r.tenure) => r.tenure \in proved'
  BY <1>2, <1>3 DEF MarksAreProved, LedgerIsHistory, Names
<1>6. ASSUME NEW l, NEW s, Creates(l, s) PROVE Marks
  BY <1>5, <1>6 DEF Creates
<1>7. ASSUME NEW z, Records(z) PROVE Marks
  BY <1>5, <1>7 DEF Records
<1>8. ASSUME NEW s, Acks(s) PROVE Marks
  <2>1. proved' = proved \cup Gone({q \in ledger : q.session = s})
    BY <1>8 DEF Acks
  <2>2. \A x \in ledger' : \E r \in ledger : x.tenure = r.tenure /\ (x = r \/ r.session = s)
    BY <1>8, AckRows
  <2> QED BY <1>5, <2>1, <2>2 DEF Gone
<1>9. ASSUME Loses(rows) PROVE Marks
  BY <1>5, <1>9 DEF Loses
<1>10. ASSUME NEW l, NEW s, NEW z, Moves(rows, l, s, z) PROVE Marks
  <2>1. /\ DOMAIN history' = (DOMAIN history) \cup {NextTenure} /\ history'[NextTenure].session = s
        /\ NextTenure \notin DOMAIN history
        /\ \A u \in DOMAIN history : history'[u] = history[u]
    BY <1>10, LessThanNext
  <2>2. z.reconciled => ~ Single(history', z.tenure)
    <3> SUFFICES ASSUME NEW r \in ledger, r.session = s, z.tenure = NextTenure
                 PROVE  ~ Single(history', z.tenure)
      BY <1>10 DEF Moves, Fresh
    <3>1. r.tenure \in DOMAIN history /\ history[r.tenure].session = s
      BY DEF LedgerIsHistory, Names
    <3> QED BY <2>1, <3>1 DEF Single
  <2>3. \A x \in ledger' : \/ x = z
                           \/ x \in Other(ledger \ rows, l, s)
                           \/ \E r \in Replaced(ledger \ rows, l, s) : Moved(x, r, NextTenure)
    BY <1>10, MovedRows
  <2>4. ASSUME NEW x \in ledger', NEW r \in Replaced(ledger \ rows, l, s), Moved(x, r, NextTenure),
               x.reconciled, Single(history', x.tenure)
        PROVE  x.tenure \in proved'
    <3>1. r \in ledger /\ x.reconciled = r.reconciled /\ x.tenure = r.tenure
      BY <2>4 DEF Replaced, Moved, Same
    <3> QED BY <1>5, <2>4, <3>1
  <2> QED BY <1>5, <2>2, <2>3, <2>4 DEF Other
<1> QED BY <1>4, <1>6, <1>7, <1>8, <1>9, <1>10 DEF MarksAreProved, Rewrites

LEMMA RecentStep ==
  ASSUME TypeOK, LedgerIsHistory, PrunedIsGone, RecentAreKept, NEW rows, Rewrites(rows)
  PROVE  RecentAreKept'
<1> DEFINE h == history
           g == history'
<1>1. /\ pruned' = pruned \cup Gone(rows) /\ Grown(h, g) /\ DOMAIN h \subseteq Nat
      /\ DOMAIN h = 1 .. Len(h) /\ Len(h) \in Nat
  BY HistoryStep, HistoryFacts DEF Rewrites
<1>2. \A t \in pruned' : \E u \in DOMAIN h : Follows(h, t, u)
  BY <1>1, PrunableFacts DEF PrunedIsGone, Gone, Follows
<1>3. IsFiniteSet((DOMAIN h) \X (DOMAIN h))
  <2>1. IsFiniteSet(1 .. Len(h))
    BY <1>1, FS_Interval
  <2> QED BY <1>1, <2>1, FS_Product
<1>4. DOMAIN g = DOMAIN h \/ DOMAIN g = (DOMAIN h) \cup {NextTenure}
  BY HistoryStep
<1>5. IsFiniteSet((DOMAIN g) \X (DOMAIN g))
  <2>1. IsFiniteSet(DOMAIN h)
    BY <1>1, FS_Interval
  <2>2. IsFiniteSet(DOMAIN g)
    BY <1>4, <2>1, FS_AddElement
  <2> QED BY <2>2, FS_Product
<1>6. \A u : /\ IsFiniteSet(Later(h, u)) /\ Cardinality(Later(h, u)) \in Nat
             /\ Cardinality(Later(g, u)) \in Nat /\ Cardinality(Later(h, u)) <= Cardinality(Later(g, u))
  <2> SUFFICES ASSUME NEW u
               PROVE /\ IsFiniteSet(Later(h, u)) /\ Cardinality(Later(h, u)) \in Nat
                     /\ Cardinality(Later(g, u)) \in Nat
                     /\ Cardinality(Later(h, u)) <= Cardinality(Later(g, u))
    OBVIOUS
  <2>1. Later(h, u) \subseteq (DOMAIN h) \X (DOMAIN h) /\ Later(g, u) \subseteq (DOMAIN g) \X (DOMAIN g)
    BY DEF Later
  <2>2. Later(h, u) \subseteq Later(g, u)
    <3> SUFFICES ASSUME NEW q \in Later(h, u) PROVE q \in Later(g, u)
      OBVIOUS
    <3>1. q \in (DOMAIN h) \X (DOMAIN h) /\ Follows(h, q[1], q[2]) /\ q[2] > u
      BY DEF Later
    <3>2. Follows(g, q[1], q[2])
      BY <1>1, <3>1, GrownFacts
    <3>3. q \in (DOMAIN g) \X (DOMAIN g)
      BY <1>1, <3>1 DEF Grown
    <3> HIDE DEF g
    <3> QED BY <3>1, <3>2, <3>3 DEF Later
  <2>3. IsFiniteSet(Later(h, u)) /\ IsFiniteSet(Later(g, u))
    BY <1>3, <1>5, <2>1, FS_Subset
  <2> HIDE DEF h, g
  <2> QED BY <2>2, <2>3, FS_Subset, FS_CardinalityType
<1>7. RetainRecent \in Nat
  BY ConstantFacts
<1>8. ASSUME NEW r \in rows, Cardinality(Later(h, r.superseded)) < RetainRecent
      PROVE  FALSE
  <2> DEFINE u == r.superseded
             after == {q \in Historical : q.superseded > u}
             f == [q \in after |-> <<q.tenure, q.superseded>>]
  <2>1. r \in Historical /\ r \notin Recent
    BY PrunableFacts
  <2>2. ~ (Cardinality(after) < RetainRecent)
    BY <2>1 DEF Recent
  <2>3. \A q \in after : <<q.tenure, q.superseded>> \in Later(h, u)
    BY DEF Historical, LedgerIsHistory, RolesAgree, Later, Follows
  <2>4. \A q, p \in after : <<q.tenure, q.superseded>> = <<p.tenure, p.superseded>> => q = p
    BY DEF Historical, LedgerIsHistory, OfOneTenure
  <2>5. f \in Injection(after, Later(h, u))
    <3> HIDE DEF after, u
    <3>1. f \in [after -> Later(h, u)]
      BY <2>3
    <3>2. \A q, p \in after : f[q] = f[p] => q = p
      BY <2>4
    <3> HIDE DEF f
    <3> QED BY <3>1, <3>2, Fun_IsInj
  <2>6. IsFiniteSet(after) /\ Cardinality(after) <= Cardinality(Later(h, u))
    <3> HIDE DEF after, u, f
    <3> QED BY <1>6, <2>5, FS_Injection
  <2>7. Cardinality(after) \in Nat
    BY <2>6, FS_CardinalityType
  <2> HIDE DEF after
  <2> QED BY <1>6, <1>7, <1>8, <2>2, <2>6, <2>7
<1>9. ASSUME NEW t \in DOMAIN g, NEW u \in DOMAIN g, Follows(g, t, u),
             Cardinality(Later(g, u)) < RetainRecent, t \in pruned'
      PROVE  FALSE
  <2>1. PICK v \in DOMAIN h : Follows(h, t, v)
    BY <1>2, <1>9
  <2>2. u = v
    <3>1. Follows(g, t, v) /\ DOMAIN g \subseteq Nat
      BY <1>1, <2>1, GrownFacts DEF Grown
    <3> QED BY <1>9, <3>1, OneFollower
  <2>3. Cardinality(Later(h, u)) < RetainRecent
    BY <1>6, <1>7, <1>9
  <2>4. t \in DOMAIN h /\ u \in DOMAIN h /\ Follows(h, t, u)
    BY <2>1, <2>2 DEF Follows
  <2>5. t \notin pruned
    BY <2>3, <2>4 DEF RecentAreKept
  <2>6. PICK r \in rows : r.tenure = t
    BY <1>1, <1>9, <2>5 DEF Gone
  <2>7. Follows(h, t, r.superseded)
    BY <2>6, PrunableFacts
  <2>8. r.superseded = u
    BY <1>1, <2>4, <2>7, OneFollower
  <2> QED BY <1>8, <2>3, <2>8
<1> QED BY <1>9 DEF RecentAreKept

(* Rollovers and pruning keep to the hard limit.                           *)
LEMMA LimitStep ==
  ASSUME TypeOK, LedgerIsHistory, LineagesBegin, WithinLimit, NEW rows, Rewrites(rows)
  PROVE  WithinLimit'
<1> DEFINE before == Historical
           after == {r \in ledger' : r.role = "historical"}
<1>1. LedgerIsHistory' /\ OfOneTenure(ledger') /\ OfOneTenure(after)
  BY LedgerStep DEF LedgerIsHistory, OfOneTenure
<1>2. /\ IsFiniteSet(before) /\ Cardinality(before) \in Nat /\ Cardinality(before) <= HardLimit
      /\ HardLimit \in Nat /\ SoftLimit \in Nat /\ SoftLimit <= HardLimit
  BY Countable, FS_CardinalityType, ConstantFacts DEF WithinLimit, Historical, LedgerIsHistory
<1>3. ASSUME \A x \in after : \E r \in before : r.tenure = x.tenure
      PROVE  Cardinality(after) <= HardLimit
  <2>1. IsFiniteSet(after) /\ Cardinality(after) <= Cardinality(before)
    <3> HIDE DEF after, before
    <3> QED BY <1>1, <1>2, <1>3, CountedByTenure
  <2>2. Cardinality(after) \in Nat
    BY <2>1, FS_CardinalityType
  <2> HIDE DEF after, before
  <2> QED BY <1>2, <2>1, <2>2
<1>4. ASSUME NEW l, NEW s, Creates(l, s) PROVE Cardinality(after) <= HardLimit
  BY <1>3, <1>4 DEF Creates, Historical
<1>5. ASSUME NEW z, Records(z) PROVE Cardinality(after) <= HardLimit
  BY <1>3, <1>5 DEF Records, Historical
<1>6. ASSUME NEW s, Acks(s) PROVE Cardinality(after) <= HardLimit
  <2>1. \A x \in ledger' : \E r \in ledger : x.tenure = r.tenure /\ x.role = r.role
    BY <1>6, AckRows
  <2> QED BY <1>3, <2>1 DEF Historical
<1>7. ASSUME Loses(rows) PROVE Cardinality(after) <= HardLimit
  BY <1>3, <1>7 DEF Loses, Historical
<1>8. ASSUME NEW l, NEW s, NEW z, Moves(rows, l, s, z) PROVE Cardinality(after) <= HardLimit
  <2> DEFINE old == Historical \ rows
  <2>1. IsFiniteSet(old) /\ Cardinality(old) \in Nat
    <3>1. old \in SUBSET before
      OBVIOUS
    <3> HIDE DEF old, before
    <3> QED BY <1>2, <3>1, FS_Subset, FS_CardinalityType
  <2>2. Cardinality(old) + 1 <= HardLimit
    <3>1. \/ Cardinality(Historical) < SoftLimit /\ rows = {}
          \/ rows = Prunable /\ Cardinality(Historical \ Prunable) < HardLimit
      BY <1>8 DEF Moves
    <3>2. CASE Cardinality(Historical) < SoftLimit /\ rows = {}
      <4>1. old = before
        BY <3>2
      <4> QED BY <1>2, <3>2, <4>1
    <3>3. CASE rows = Prunable /\ Cardinality(Historical \ Prunable) < HardLimit
      BY <1>2, <2>1, <3>3
    <3> QED BY <3>1, <3>2, <3>3
  <2>3. \A r, q \in Replaced(ledger \ rows, l, s) : r = q
    BY DEF Replaced, LedgerIsHistory, RolesAgree, OfOnePair
  <2>4. \E m : \A x \in after : x \in old \/ x.tenure = m.tenure
    <3>1. \A x \in ledger' : \/ x = z
                             \/ x \in Other(ledger \ rows, l, s)
                             \/ \E r \in Replaced(ledger \ rows, l, s) : Moved(x, r, NextTenure)
      BY <1>8, MovedFrom
    <3>2. z.role = "current"
      BY <1>8 DEF Moves, Fresh
    <3>3. \A x \in after : \/ x \in old
                           \/ \E r \in Replaced(ledger \ rows, l, s) : x.tenure = r.tenure
      BY <3>1, <3>2 DEF Other, Moved, Same, Historical
    <3>4. CASE Replaced(ledger \ rows, l, s) = {}
      BY <3>3, <3>4
    <3>5. CASE Replaced(ledger \ rows, l, s) # {}
      <4>1. PICK m \in Replaced(ledger \ rows, l, s) : TRUE
        BY <3>5, Zenon
      <4>2. \A x \in after : x \in old \/ x.tenure = m.tenure
        <5> HIDE DEF after, old
        <5> QED BY <2>3, <3>3, <4>1
      <4> QED BY <4>2, Zenon
    <3> QED BY <3>4, <3>5
  <2>5. PICK m : \A x \in after : x \in old \/ x.tenure = m.tenure
    BY <2>4
  <2> HIDE DEF after, old
  <2>6. IsFiniteSet(old \cup {m}) /\ Cardinality(old \cup {m}) \in Nat
        /\ Cardinality(old \cup {m}) <= Cardinality(old) + 1
    BY <2>1, FS_AddElement, FS_CardinalityType
  <2>7. \A x \in after : \E r \in old \cup {m} : r.tenure = x.tenure
    BY <2>5
  <2>8. IsFiniteSet(after) /\ Cardinality(after) <= Cardinality(old \cup {m})
    BY <1>1, <2>6, <2>7, CountedByTenure
  <2>9. Cardinality(after) \in Nat
    BY <2>8, FS_CardinalityType
  <2> QED BY <1>2, <2>1, <2>2, <2>6, <2>8, <2>9
<1> HIDE DEF after
<1>9. Cardinality(after) <= HardLimit
  BY <1>4, <1>5, <1>6, <1>7, <1>8 DEF Rewrites
<1> QED BY <1>9 DEF WithinLimit, Historical, after

(***************************************************************************)
(* The staging table and the archive.                                      *)
(***************************************************************************)
Batched(a, n) == [a EXCEPT !.batch = n]
Row(r) == [session |-> r.session, lineage |-> r.lineage, tenure |-> r.tenure, batch |-> 0]

LEMMA AuditsFacts ==
  ASSUME NEW a \in Audits
  PROVE  /\ a.session \in Sessions /\ a.lineage \in Lineages /\ a.tenure \in Tenures
         /\ a.batch \in Nat /\ a.tenure \in Nat
BY ConstantFacts, Zenon DEF Audits

LEMMA BatchedFacts ==
  ASSUME NEW a \in Audits, NEW n \in Nat
  PROVE  /\ Batched(a, n) \in Audits /\ Batched(a, n).session = a.session
         /\ Batched(a, n).lineage = a.lineage /\ Batched(a, n).tenure = a.tenure
         /\ Batched(a, n).batch = n
BY Zenon DEF Audits, Batched

LEMMA RowFacts ==
  ASSUME NEW r \in Bindings
  PROVE  /\ Row(r) \in Audits /\ Row(r).session = r.session
         /\ Row(r).lineage = r.lineage /\ Row(r).tenure = r.tenure /\ Row(r).batch = 0
BY BindingsFacts DEF Audits, Row

(* A prune hands rows of tenures that were in no table but the ledger.     *)
LEMMA StagedRows ==
  ASSUME TypeOK, LedgerIsHistory, PrunedIsGone, NEW rows, Rewrites(rows)
  PROVE  /\ Staged(rows) = {Row(r) : r \in rows} /\ Staged(rows) \subseteq Audits
         /\ \A a \in Staged(rows) : \E r \in rows :
              /\ a = Row(r) /\ a.session = r.session /\ a.lineage = r.lineage
              /\ a.tenure = r.tenure /\ a.batch = 0 /\ r \in ledger
         /\ \A r \in rows : \E a \in Staged(rows) : a.tenure = r.tenure
<1>1. Staged(rows) = {Row(r) : r \in rows}
  BY DEF Staged, Row
<1>2. ASSUME NEW r \in rows
      PROVE  /\ r \in ledger /\ Row(r) \in Audits /\ Row(r).session = r.session
             /\ Row(r).lineage = r.lineage /\ Row(r).tenure = r.tenure /\ Row(r).batch = 0
  <2>1. r \in ledger /\ r \in Bindings
    BY PrunableFacts, LedgerTyped
  <2> QED BY <2>1, RowFacts
<1> QED BY <1>1, <1>2

LEMMA StagesStep ==
  ASSUME TypeOK, LedgerIsHistory, PrunedIsGone, NEW rows, Rewrites(rows),
         audit' = audit \cup Staged(rows), UNCHANGED archiveDb,
         NEW kept, Hands(audit, kept, checkpointed, history, pruned)
  PROVE  Hands(audit', kept, checkpointed', history', pruned')
<1> DEFINE h == history
           g == history'
           new == Staged(rows)
<1>1. Hands(audit, kept, checkpointed, h, pruned)
  OBVIOUS
<1>2. checkpointed' = checkpointed /\ pruned' = pruned \cup Gone(rows)
      /\ Grown(h, g)
  BY HistoryStep DEF archiveDb, Rewrites
<1>3. /\ \A a \in new : \E r \in rows :
           /\ a = Row(r) /\ a.session = r.session /\ a.lineage = r.lineage
           /\ a.tenure = r.tenure /\ a.batch = 0 /\ r \in ledger
      /\ \A r \in rows : \E a \in new : a.tenure = r.tenure
  BY StagedRows
<1>4. \A r \in ledger : /\ r.tenure \notin pruned /\ r.tenure \in DOMAIN h
                        /\ h[r.tenure].session = r.session /\ h[r.tenure].lineage = r.lineage
  BY DEF LedgerIsHistory, PrunedIsGone, Names
<1>5. \A t \in pruned : t \in DOMAIN h
  BY DEF PrunedIsGone, Follows
<1>6. \A t \in DOMAIN h : Single(g, t) => Single(h, t)
  BY <1>2, GrownFacts
<1> HIDE DEF h, g, new
<1>7. Names(audit \cup new, g) /\ Names(kept.rows, g)
  <2>1. Names(audit \cup new, h) /\ Names(kept.rows, h)
    BY <1>1, <1>3, <1>4 DEF Hands, Names
  <2> QED BY <1>2, <2>1, GrownFacts
<1>8. \A r \in (audit \cup new) \cup kept.rows : r.tenure \in pruned'
  BY <1>1, <1>2, <1>3 DEF Hands, Gone
<1>9. OfOneTenure(audit \cup new)
  <2>1. \A a \in audit : a.tenure \in pruned
    BY <1>1 DEF Hands
  <2>2. \A a \in new : a.tenure \notin pruned
    BY <1>3, <1>4
  <2>3. \A a, b \in new : a.tenure = b.tenure => a = b
    BY <1>3 DEF LedgerIsHistory, OfOneTenure
  <2> QED BY <1>1, <2>1, <2>2, <2>3 DEF Hands, OfOneTenure
<1>10. ASSUME NEW a, a.rows \subseteq kept.rows, InStep(a, audit) PROVE InStep(a, audit \cup new)
  <2>1. \A r \in a.rows, s \in new : ~ (r.tenure = s.tenure \/ r.batch = s.batch)
    <3> SUFFICES ASSUME NEW r \in a.rows, NEW s \in new
                 PROVE  r.tenure # s.tenure /\ r.batch # s.batch
      OBVIOUS
    <3>1. r.tenure \in pruned /\ r.batch >= 1
      BY <1>1, <1>10 DEF Hands, InStep
    <3>2. s.tenure \notin pruned /\ s.batch = 0
      BY <1>3, <1>4
    <3> QED BY <3>1, <3>2
  <2> QED BY <1>10, <2>1 DEF InStep
<1>11. InStep(kept, audit \cup new) /\ InStep(checkpointed, audit \cup new)
  BY <1>1, <1>10 DEF Hands
<1>12. ASSUME NEW a, a.rows \subseteq kept.rows, Counted(a, h) PROVE Counted(a, g)
  <2>1. \A r \in a.rows : Single(g, r.tenure) => Single(h, r.tenure)
    BY <1>1, <1>6, <1>12 DEF Hands, Names
  <2> QED BY <1>12, <2>1 DEF Counted
<1>13. Counted(kept, g) /\ Counted(checkpointed, g)
  BY <1>1, <1>12 DEF Hands
<1>14. \A t \in pruned' : Single(g, t) => Kept((audit \cup new) \cup checkpointed.rows, t)
  <2>1. ASSUME NEW t \in pruned, Single(g, t) PROVE Kept((audit \cup new) \cup checkpointed.rows, t)
    BY <1>1, <1>5, <1>6, <2>1 DEF Hands, Kept
  <2>2. ASSUME NEW r \in rows PROVE Kept((audit \cup new) \cup checkpointed.rows, r.tenure)
    BY <1>3 DEF Kept
  <2> QED BY <1>2, <2>1, <2>2 DEF Gone
<1>15. Hands(audit \cup new, kept, checkpointed, g, pruned')
  BY <1>1, <1>7, <1>8, <1>9, <1>11, <1>13, <1>14 DEF Hands
<1> QED BY <1>2, <1>15 DEF g, new

(* Natural numbers are well ordered, and bounded ones have a greatest.     *)
LEMMA Least ==
  ASSUME NEW S \in SUBSET Nat, S # {}
  PROVE  \E n \in S : \A k \in S : n <= k
<1> DEFINE R == {ss \in Nat \X Nat : ss[1] < ss[2]}
<1>1. IsWellFoundedOn(R, Nat)
  BY NatLessThanWellFounded DEF OpToRel
<1>2. \A k, n \in Nat : k < n => <<k, n>> \in R
  OBVIOUS
<1> HIDE DEF R
<1>3. PICK n \in S : \A k \in S : ~ (<<k, n>> \in R)
  BY <1>1, WFMin
<1>4. \A k \in S : n <= k
  <2> SUFFICES ASSUME NEW k \in S PROVE n <= k
    OBVIOUS
  <2>1. k \in Nat /\ n \in Nat
    OBVIOUS
  <2>2. ~ (k < n)
    BY <1>2, <1>3, <2>1, Zenon
  <2> QED BY <2>1, <2>2
<1> QED BY <1>4

LEMMA LastBatchFacts ==
  ASSUME TypeOK, NEW n \in Nat, Bounded(n)
  PROVE  /\ LastBatch \in Nat /\ LastBatch <= n /\ NextBatch \in Nat /\ NextBatch <= n + 1
         /\ NextBatch >= 1 /\ \A m \in archive.manifest : m.batch < NextBatch
<1> DEFINE S == {0} \cup {m.batch : m \in archive.manifest}
           bounds == {k \in Nat : \A b \in S : b <= k}
<1>1. \A m \in archive.manifest : m.batch \in Nat /\ m.batch <= n
  BY DEF TypeOK, Archives, Bounded
<1>2. S \subseteq Nat /\ 0 \in S /\ \A b \in S : b <= n
  BY <1>1
<1>3. bounds \in SUBSET Nat /\ n \in bounds
  BY <1>2
<1>4. \A m \in archive.manifest : m.batch \in S
  OBVIOUS
<1>5. LastBatch = CHOOSE b \in S : \A m \in archive.manifest : m.batch <= b
  BY DEF LastBatch
<1>6. \A b \in S : b = 0 \/ \E m \in archive.manifest : b = m.batch
  OBVIOUS
<1>7. PICK k \in bounds : \A j \in bounds : k <= j
  <2> HIDE DEF S, bounds
  <2> QED BY <1>3, Least
<1>8. k \in Nat /\ \A b \in S : b <= k
  BY <1>7
<1>9. \A j \in Nat : (\A b \in S : b <= j) => k <= j
  BY <1>7
<1> HIDE DEF S, bounds
<1>10. k \in S
  <2> SUFFICES ASSUME k \notin S PROVE FALSE
    OBVIOUS
  <2>1. \A b \in S : b \in Nat /\ b <= k /\ b # k
    BY <1>2, <1>8
  <2>2. k # 0 /\ k \in Nat
    BY <1>2, <1>8
  <2>3. k - 1 \in Nat
    BY <2>2
  <2>4. \A b \in S : b <= k - 1
    BY <2>1, <2>2
  <2>5. k <= k - 1
    BY <1>9, <2>3, <2>4
  <2> QED BY <2>2, <2>5
<1>11. \A m \in archive.manifest : m.batch <= k
  BY <1>4, <1>8
<1>12. LastBatch \in S /\ \A m \in archive.manifest : m.batch <= LastBatch
  BY <1>5, <1>10, <1>11
<1>13. LastBatch \in Nat /\ LastBatch <= n
  BY <1>2, <1>12
<1> QED BY <1>1, <1>12, <1>13 DEF NextBatch

Idle == UNCHANGED <<current, ledger, ghosts>>

(* The rows MarkBatch chose, under a number no commit of the archive has.  *)
Numbers(chosen) ==
  /\ \A a \in chosen : a \in audit /\ a.batch = 0
  /\ audit' = (audit \ chosen) \cup {Batched(a, NextBatch) : a \in chosen}

LEMMA MarkFacts ==
  ASSUME TypeOK, NextBatch \in Nat, NEW chosen, Numbers(chosen)
  PROVE  /\ \A a \in chosen : /\ Batched(a, NextBatch) \in Audits
                              /\ Batched(a, NextBatch).session = a.session
                              /\ Batched(a, NextBatch).lineage = a.lineage
                              /\ Batched(a, NextBatch).tenure = a.tenure
                              /\ Batched(a, NextBatch).batch = NextBatch
                              /\ Batched(a, NextBatch) \in audit'
         /\ \A x \in audit' : \/ x \in audit /\ x \notin chosen
                              \/ \E a \in chosen : x = Batched(a, NextBatch)
         /\ \A a \in audit : a \in chosen \/ a \in audit'
         /\ audit' \subseteq Audits
<1>1. \A a \in chosen : /\ Batched(a, NextBatch) \in Audits
                        /\ Batched(a, NextBatch).session = a.session
                        /\ Batched(a, NextBatch).lineage = a.lineage
                        /\ Batched(a, NextBatch).tenure = a.tenure
                        /\ Batched(a, NextBatch).batch = NextBatch
  BY BatchedFacts, LedgerTyped DEF Numbers
<1>2. \A x \in audit' : \/ x \in audit /\ x \notin chosen
                        \/ \E a \in chosen : x = Batched(a, NextBatch)
  BY DEF Numbers
<1>3. /\ \A a \in chosen : Batched(a, NextBatch) \in audit'
      /\ \A a \in audit : a \in chosen \/ a \in audit'
  BY DEF Numbers
<1>4. audit' \subseteq Audits
  BY <1>1, <1>2, LedgerTyped
<1> QED BY <1>1, <1>2, <1>3, <1>4

LEMMA MarkKept ==
  ASSUME TypeOK, NEW chosen, Numbers(chosen), NextBatch \in Nat, NextBatch >= 1,
         NEW kept, Hands(audit, kept, checkpointed, history, pruned),
         \A m \in kept.manifest : m.batch # NextBatch
  PROVE  Hands(audit', kept, checkpointed, history, pruned)
<1>1. \A a \in chosen : a \in audit /\ a.batch = 0
  BY DEF Numbers
<1>2. Names(audit', history)
  BY <1>1, MarkFacts DEF Hands, Names
<1>3. \A r \in audit' \cup kept.rows : r.tenure \in pruned
  BY <1>1, MarkFacts DEF Hands
<1>4. OfOneTenure(audit')
  BY <1>1, MarkFacts DEF Hands, OfOneTenure
<1>5. ASSUME NEW a, a.rows \subseteq kept.rows, InStep(a, audit) PROVE InStep(a, audit')
  <2>1. \A r \in a.rows, s \in audit' : r.tenure = s.tenure \/ r.batch = s.batch => r \in audit'
    <3> SUFFICES ASSUME NEW r \in a.rows, NEW s \in audit', r.tenure = s.tenure \/ r.batch = s.batch
                 PROVE  r \in audit'
      OBVIOUS
    <3>1. r.batch # 0 /\ r.batch # NextBatch
      <4>1. r.batch >= 1 /\ \E m \in kept.manifest : m.batch = r.batch
        BY <1>5 DEF Hands, InStep
      <4> QED BY <4>1
    <3>2. r \notin chosen
      BY <1>1, <3>1
    <3>3. r \in audit
      <4>1. CASE s \in audit
        BY <1>5, <4>1 DEF InStep
      <4>2. ASSUME NEW b \in chosen, s = Batched(b, NextBatch) PROVE r \in audit
        <5>1. r.tenure = b.tenure
          BY <3>1, <4>2, MarkFacts
        <5> QED BY <1>1, <1>5, <5>1 DEF InStep
      <4> QED BY <4>1, <4>2, MarkFacts
    <3> QED BY <3>2, <3>3, MarkFacts
  <2> QED BY <1>5, <2>1 DEF InStep
<1>6. InStep(kept, audit') /\ InStep(checkpointed, audit')
  BY <1>5 DEF Hands
<1>7. \A t \in pruned : Single(history, t) => Kept(audit' \cup checkpointed.rows, t)
  <2>1. \A t : Kept(audit \cup checkpointed.rows, t) => Kept(audit' \cup checkpointed.rows, t)
    BY MarkFacts DEF Kept
  <2> QED BY <2>1 DEF Hands
<1> QED BY <1>2, <1>3, <1>4, <1>6, <1>7 DEF Hands

LEMMA MarkStep ==
  ASSUME TypeOK, HandOver, WalHandsOver, BatchesAreBounded, MarkBatch
  PROVE  /\ audit' \subseteq Audits /\ HandOver' /\ WalHandsOver'
         /\ \A n \in Nat : Bounded(n) => Bounded(n + 1)'
<1>1. PICK n \in Nat : Bounded(n)
  BY DEF BatchesAreBounded
<1>2. PICK chosen \in SUBSET Unmarked : Numbers(chosen)
  BY DEF MarkBatch, Unmarked, Numbers, Batched
<1>3. /\ phase' = "copy" /\ archive' = archive /\ checkpointed' = checkpointed /\ wal' = wal
      /\ history' = history /\ pruned' = pruned
  BY DEF MarkBatch, archiveDb, ghosts
<1>4. /\ NextBatch \in Nat /\ NextBatch >= 1
      /\ \A m \in archive.manifest : m.batch # NextBatch
  BY <1>1, LastBatchFacts DEF TypeOK, Archives
<1>5. Hands(audit', archive, checkpointed, history, pruned)
  BY <1>2, <1>4, MarkKept DEF HandOver
<1>6. HandOver'
  BY <1>3, <1>5 DEF HandOver
<1>7. \A i \in DOMAIN wal : Hands(audit', wal[i], checkpointed, history, pruned)
  BY <1>2, <1>4, MarkKept DEF WalHandsOver, Within
<1>8. WalHandsOver'
  BY <1>3, <1>7 DEF WalHandsOver
<1>9. \A k \in Nat : Bounded(k) => Bounded(k + 1)'
  <2> SUFFICES ASSUME NEW k \in Nat, Bounded(k)
               PROVE  \A m \in archive.manifest \cup checkpointed.manifest \cup audit' : m.batch <= k + 1
    BY <1>3 DEF Bounded
  <2>1. NextBatch <= k + 1
    BY LastBatchFacts
  <2>2. \A m \in archive.manifest \cup checkpointed.manifest \cup audit : m.batch \in Nat /\ m.batch <= k
    BY AuditsFacts, LedgerTyped DEF Bounded, TypeOK, Archives
  <2> QED BY <1>2, <1>4, <2>1, <2>2, MarkFacts
<1> QED BY <1>2, <1>4, <1>6, <1>8, <1>9, MarkFacts

(* Every staged row of a copied batch is in the archive, or one of its     *)
(* session and lineage is: of a pair whose session came back, only one.    *)
LEMMA CopiedKey ==
  ASSUME TypeOK, NEW a \in Marked
  PROVE  \E r \in archive.rows \cup Insertable : SameKey(a, r)
<1> SUFFICES ASSUME \A r \in archive.rows : ~ SameKey(a, r)
             PROVE  \E r \in Insertable : SameKey(a, r)
  BY DEF SameKey
<1> DEFINE tenures == {b.tenure : b \in {c \in Marked : SameKey(a, c)}}
<1>1. Marked \subseteq audit /\ \A b \in Marked : b.tenure \in Nat
  BY AuditsFacts, LedgerTyped DEF Marked
<1>2. tenures \in SUBSET Nat /\ a.tenure \in tenures
  BY <1>1 DEF SameKey
<1>3. PICK n \in tenures : \A k \in tenures : n <= k
  <2> HIDE DEF tenures
  <2> QED BY <1>2, Least
<1>4. PICK b \in Marked : SameKey(a, b) /\ b.tenure = n
  BY <1>3
<1>5. \A c \in Marked : SameKey(b, c) => b.tenure <= c.tenure
  BY <1>3, <1>4 DEF SameKey
<1>6. \A r \in archive.rows : ~ SameKey(b, r)
  BY <1>4 DEF SameKey
<1>7. b.batch \in StagedBatches
  BY DEF StagedBatches
<1>8. b \in Insertable
  BY <1>5, <1>6, <1>7 DEF Insertable
<1> QED BY <1>4, <1>8

LEMMA CopyStep ==
  ASSUME TypeOK, HandOver, WalHandsOver, CopyBatches
  PROVE  /\ archive' \in Archives /\ copied' \subseteq Nat /\ HandOver'
         /\ wal' \in Seq(Archives) /\ WalHandsOver'
         /\ \A n \in Nat : Bounded(n) => Bounded(n)'
<1> DEFINE h == history
           size(b) == Cardinality({a \in Marked : a.batch = b})
           counts == {[batch |-> b, count |-> size(b)] : b \in StagedBatches}
           kept == {m \in archive.manifest : m.batch \notin StagedBatches}
<1>1. /\ archive'.rows = archive.rows \cup Insertable /\ archive'.manifest = kept \cup counts
      /\ copied' = StagedBatches /\ phase' \in {"idle", "checkpoint"}
      /\ audit' = audit /\ checkpointed' = checkpointed /\ history' = history /\ pruned' = pruned
  BY DEF CopyBatches, contextDb, ghosts
<1>2. Hands(audit, archive, checkpointed, h, pruned)
  BY DEF HandOver
<1>3. /\ Marked \subseteq audit /\ Insertable \subseteq Marked
      /\ \A a \in audit : a \in Marked <=> a.batch # 0
      /\ \A a \in Marked : a.batch \in StagedBatches
      /\ \A b \in StagedBatches : \E a \in Marked : a.batch = b
  BY DEF Marked, Unmarked, Insertable, StagedBatches
<1>4. \A a \in audit : a.batch \in Nat /\ a \in Audits
  BY AuditsFacts, LedgerTyped
<1>5. \A b \in StagedBatches : b \in Nat /\ b >= 1
  BY <1>3, <1>4
<1>6. /\ \A m \in counts : m.batch \in StagedBatches
      /\ \A m \in counts : m.count = Cardinality({a \in Marked : a.batch = m.batch})
      /\ \A b \in StagedBatches : \E m \in counts : m.batch = b
      /\ \A m, n \in counts : m.batch = n.batch => m = n
  <2>1. \A m \in counts : \E b \in StagedBatches : m = [batch |-> b, count |-> size(b)]
    OBVIOUS
  <2>2. \A m \in counts : m.batch \in StagedBatches /\ m.count = size(m.batch)
                        /\ m = [batch |-> m.batch, count |-> size(m.batch)]
    <3> HIDE DEF size, counts
    <3> QED BY <2>1
  <2>3. \A b \in StagedBatches : \E m \in counts : m.batch = b
    <3> SUFFICES ASSUME NEW b \in StagedBatches PROVE \E m \in counts : m.batch = b
      OBVIOUS
    <3> HIDE DEF size
    <3>1. [batch |-> b, count |-> size(b)] \in counts
      OBVIOUS
    <3>2. [batch |-> b, count |-> size(b)].batch = b
      OBVIOUS
    <3> HIDE DEF counts
    <3> QED BY <3>1, <3>2, Zenon
  <2>4. \A m, n \in counts : m.batch = n.batch => m = n
    <3> HIDE DEF size, counts
    <3> QED BY <2>2
  <2> QED BY <2>2, <2>3, <2>4
<1>7. counts \subseteq [batch : Nat, count : Nat]
  <2>1. IsFiniteSet(audit)
    <3> DEFINE f == [a \in audit |-> a.tenure]
    <3>1. f \in [audit -> Tenures]
      BY <1>4, AuditsFacts
    <3>2. \A a, b \in audit : f[a] = f[b] => a = b
      BY <1>2 DEF Hands, OfOneTenure
    <3> HIDE DEF f
    <3>3. f \in Injection(audit, Tenures)
      BY <3>1, <3>2, Fun_IsInj
    <3> QED BY <3>3, FS_Injection, FS_Interval, ConstantFacts DEF Tenures
  <2>2. \A b : Cardinality({a \in Marked : a.batch = b}) \in Nat
    <3> SUFFICES ASSUME NEW b PROVE Cardinality({a \in Marked : a.batch = b}) \in Nat
      OBVIOUS
    <3>1. {a \in Marked : a.batch = b} \in SUBSET audit
      BY <1>3
    <3> QED BY <2>1, <3>1, FS_Subset, FS_CardinalityType
  <2>3. \A b \in StagedBatches : size(b) \in Nat
    BY <2>2
  <2> HIDE DEF size
  <2> QED BY <1>5, <2>3
<1>8. archive' \in Archives
  <2>1. archive' = [rows |-> archive.rows \cup Insertable, manifest |-> kept \cup counts]
    BY DEF CopyBatches
  <2>2. archive.rows \in SUBSET Audits /\ archive.manifest \in SUBSET [batch : Nat, count : Nat]
    BY DEF TypeOK, Archives
  <2>3. archive.rows \cup Insertable \in SUBSET Audits
    BY <1>3, <1>4, <2>2
  <2>4. kept \cup counts \in SUBSET [batch : Nat, count : Nat]
    BY <1>7, <2>2
  <2> HIDE DEF kept, counts
  <2> QED BY <2>1, <2>3, <2>4 DEF Archives
<1> HIDE DEF counts, h
<1>9. InStep(archive, audit) /\ \A r \in archive.rows : r.tenure \in pruned
  BY <1>2 DEF Hands
<1>10. Names(archive'.rows, h) /\ \A r \in audit \cup archive'.rows : r.tenure \in pruned
  BY <1>1, <1>2, <1>3 DEF Hands, Names
<1>11. \A r \in archive.rows, a \in audit : r.tenure = a.tenure \/ r.batch = a.batch => r \in audit
  BY <1>9 DEF InStep
<1>12. OfOneTenure(archive'.rows)
  <2> SUFFICES ASSUME NEW r \in archive'.rows, NEW q \in archive'.rows, r.tenure = q.tenure
               PROVE  r = q
    BY DEF OfOneTenure
  <2>1. OfOneTenure(audit) /\ OfOneTenure(archive.rows)
    BY <1>2, <1>9 DEF Hands, InStep
  <2> QED BY <1>1, <1>3, <1>11, <2>1 DEF OfOneTenure
<1>13. InStep(archive', audit)
  <2>1. \A r \in archive'.rows : r.batch >= 1
    BY <1>1, <1>3, <1>5, <1>9 DEF InStep
  <2>2. \A r \in archive'.rows : \E m \in archive'.manifest : m.batch = r.batch
    <3> SUFFICES ASSUME NEW r \in archive'.rows PROVE \E m \in archive'.manifest : m.batch = r.batch
      OBVIOUS
    <3>1. CASE r.batch \in StagedBatches
      BY <1>1, <1>6, <3>1
    <3>2. CASE r.batch \notin StagedBatches
      BY <1>1, <1>3, <1>9, <3>2 DEF InStep
    <3> QED BY <3>1, <3>2
  <2>3. \A m, n \in archive'.manifest : m.batch = n.batch => m = n
    BY <1>1, <1>6, <1>9 DEF InStep
  <2>4. \A r \in archive'.rows, s \in audit : r.tenure = s.tenure \/ r.batch = s.batch => r \in audit
    BY <1>1, <1>3, <1>11
  <2> QED BY <1>12, <2>1, <2>2, <2>3, <2>4 DEF InStep
<1>14. \A a \in Marked : \E r \in archive'.rows : SameKey(a, r)
  BY <1>1, CopiedKey
<1>15. \A r \in archive'.rows, a \in audit :
         r.session = a.session /\ (Single(h, r.tenure) \/ Single(h, a.tenure)) => r.tenure = a.tenure
  BY <1>1, <1>2, <1>10 DEF Hands, Names, Single
<1>16. Counted(archive', h)
  <2> SUFFICES ASSUME NEW m \in archive'.manifest,
                      \A r \in archive'.rows : r.batch = m.batch => Single(h, r.tenure)
               PROVE  m.count = Cardinality({r \in archive'.rows : r.batch = m.batch})
    BY DEF Counted
  <2>1. CASE m \in kept
    <3>1. m \in archive.manifest /\ m.batch \notin StagedBatches
      BY <2>1
    <3>2. {r \in archive'.rows : r.batch = m.batch} = {r \in archive.rows : r.batch = m.batch}
      BY <1>1, <1>3, <3>1
    <3>3. \A r \in archive.rows : r.batch = m.batch => Single(h, r.tenure)
      BY <1>1
    <3>4. Counted(archive, h)
      BY <1>2 DEF Hands
    <3> QED BY <3>1, <3>2, <3>3, <3>4 DEF Counted
  <2>2. CASE m \in counts
    <3>1. m.batch \in StagedBatches /\ m.count = Cardinality({a \in Marked : a.batch = m.batch})
      BY <1>6, <2>2
    <3>2. ASSUME NEW r \in archive'.rows, r.batch = m.batch PROVE r \in Marked
      BY <1>1, <1>3, <1>5, <1>11, <3>1, <3>2
    <3>3. ASSUME NEW a \in Marked, a.batch = m.batch PROVE a \in archive'.rows
      <4>1. PICK r \in archive'.rows : SameKey(a, r)
        BY <1>14
      <4>2. r.tenure = a.tenure
        BY <1>3, <1>15, <3>3, <4>1 DEF SameKey
      <4>3. r \in audit
        BY <1>3, <1>13, <4>2 DEF InStep
      <4> QED BY <1>2, <1>3, <4>1, <4>2, <4>3 DEF Hands, OfOneTenure
    <3>4. {r \in archive'.rows : r.batch = m.batch} = {a \in Marked : a.batch = m.batch}
      BY <3>2, <3>3
    <3> QED BY <3>1, <3>4
  <2> QED BY <1>1, <2>1, <2>2
<1>17. Hands(audit, archive', checkpointed, h, pruned)
  BY <1>1, <1>2, <1>10, <1>13, <1>16 DEF Hands
<1>18. 0 \notin copied' /\ copied' \subseteq Nat
  BY <1>1, <1>5
<1>19. ASSUME NEW a \in audit, a.batch \in copied', Single(h, a.tenure)
       PROVE  Kept(archive'.rows, a.tenure)
  <2>1. PICK r \in archive'.rows : SameKey(a, r)
    BY <1>3, <1>14, <1>18, <1>19
  <2>2. r.tenure = a.tenure
    BY <1>15, <1>19, <2>1 DEF SameKey
  <2> QED BY <2>2 DEF Kept
<1>20. HandOver'
  BY <1>1, <1>17, <1>18, <1>19 DEF HandOver, h
<1>21. \A n \in Nat : Bounded(n) => Bounded(n)'
  BY <1>1, <1>3, <1>6 DEF Bounded
<1>22. wal' = (IF archive' = archive THEN wal ELSE Append(wal, archive')) /\ wal \in Seq(Archives)
  BY DEF CopyBatches, TypeOK
<1>23. wal' \in Seq(Archives)
  BY <1>8, <1>22
<1>24. Within(archive, archive')
  BY <1>1, <1>6 DEF Within
<1>25. WalHandsOver'
  <2>1. \A i \in DOMAIN wal : /\ Hands(audit, wal[i], checkpointed, h, pruned)
                              /\ Within(wal[i], archive')
    BY <1>24 DEF WalHandsOver, Within, h
  <2>2. Within(archive', archive')
    BY DEF Within
  <2>3. \A i \in DOMAIN wal' : \/ i \in DOMAIN wal /\ wal'[i] = wal[i]
                               \/ i = Len(wal) + 1 /\ wal'[i] = archive'
    BY <1>22
  <2>4. \A i \in DOMAIN wal : i \in Nat /\ i <= Len(wal)
    BY <1>22
  <2>5. \A i \in DOMAIN wal' : /\ Hands(audit, wal'[i], checkpointed, h, pruned)
                               /\ Within(wal'[i], archive')
    BY <1>17, <2>1, <2>2, <2>3
  <2>6. \A i, j \in DOMAIN wal' : i < j => Within(wal'[i], wal'[j])
    <3> SUFFICES ASSUME NEW i \in DOMAIN wal', NEW j \in DOMAIN wal', i < j
                 PROVE  Within(wal'[i], wal'[j])
      OBVIOUS
    <3>1. CASE j \in DOMAIN wal /\ wal'[j] = wal[j]
      <4>1. i \in DOMAIN wal /\ wal'[i] = wal[i]
        BY <1>22, <2>3, <2>4, <3>1
      <4> QED BY <3>1, <4>1 DEF WalHandsOver
    <3>2. CASE wal'[j] = archive'
      BY <2>5, <3>2
    <3> QED BY <2>3, <3>1, <3>2
  <2>7. phase' # "delete"
    BY <1>1
  <2> QED BY <1>1, <2>5, <2>6, <2>7 DEF WalHandsOver, h
<1> QED BY <1>8, <1>18, <1>20, <1>21, <1>23, <1>25

LEMMA CheckpointStep ==
  ASSUME HandOver, Checkpoint
  PROVE  /\ checkpointed' = archive /\ archive' = archive /\ audit' = audit /\ copied' = copied
         /\ HandOver' /\ wal' = << >> /\ WalHandsOver'
<1>1. /\ phase = "checkpoint" /\ phase' = "delete" /\ checkpointed' = archive /\ archive' = archive
      /\ wal' = << >> /\ audit' = audit /\ copied' = copied /\ history' = history /\ pruned' = pruned
  BY DEF Checkpoint, Barrier, contextDb, ghosts
<1>2. Hands(audit, archive, archive, history, pruned)
  BY DEF HandOver, Hands, Kept
<1>3. WalHandsOver'
  BY <1>1 DEF WalHandsOver
<1> QED BY <1>1, <1>2, <1>3 DEF HandOver

LEMMA DeleteStep ==
  ASSUME HandOver, WalHandsOver, DeleteBatches
  PROVE  /\ audit' \subseteq audit /\ archive' = archive /\ checkpointed' = checkpointed
         /\ copied' = copied /\ HandOver' /\ wal' = wal /\ WalHandsOver'
<1>1. /\ phase = "delete" /\ phase' = "idle" /\ checkpointed' = checkpointed /\ archive' = archive
      /\ wal' = wal
      /\ audit' = {a \in audit : a.batch \notin copied} /\ copied' = copied
      /\ history' = history /\ pruned' = pruned
  BY DEF DeleteBatches, archiveDb, ghosts
<1>2. Hands(audit, archive, archive, history, pruned) /\ checkpointed = archive
  BY <1>1 DEF HandOver
<1>3. \A a \in audit : a.batch \in copied /\ Single(history, a.tenure) => Kept(archive.rows, a.tenure)
  BY <1>1 DEF HandOver
<1>4. \A t : Single(history, t) /\ Kept(audit \cup archive.rows, t) => Kept(audit' \cup archive.rows, t)
  BY <1>1, <1>3 DEF Kept
<1>5. InStep(archive, audit')
  BY <1>1, <1>2 DEF Hands, InStep, OfOneTenure
<1>6. Hands(audit', archive, archive, history, pruned)
  BY <1>1, <1>2, <1>4, <1>5 DEF Hands, Names, OfOneTenure
<1>7. WalHandsOver'
  BY <1>1 DEF WalHandsOver
<1> QED BY <1>1, <1>2, <1>6, <1>7 DEF HandOver

(* Whichever commits survive a crash, the archive is one of those that     *)
(* hand over.                                                              *)
LEMMA CrashStep ==
  ASSUME TypeOK, HandOver, WalHandsOver, Crash
  PROVE  /\ archive' \in Archives /\ checkpointed' = checkpointed /\ wal' \in Seq(Archives)
         /\ audit' = audit /\ copied' = copied /\ HandOver' /\ WalHandsOver'
         /\ \A n : Bounded(n) => Bounded(n)'
<1>1. /\ checkpointed' = checkpointed /\ phase' = "idle"
      /\ audit' = audit /\ copied' = copied /\ history' = history /\ pruned' = pruned
  BY DEF Crash, contextDb, ghosts
<1>2. PICK n \in 0..Len(wal) : /\ wal' = SubSeq(wal, 1, n)
                              /\ archive' = IF n = 0 THEN checkpointed ELSE wal[n]
  BY DEF Crash
<1>3. /\ wal \in Seq(Archives) /\ checkpointed \in Archives /\ Len(wal) \in Nat
      /\ DOMAIN wal = 1..Len(wal)
  BY DEF TypeOK
<1>4. /\ wal' \in Seq(Archives) /\ DOMAIN wal' = 1..n
      /\ \A i \in 1..n : i \in DOMAIN wal /\ wal'[i] = wal[i]
  BY <1>2, <1>3
<1>5. n # 0 => n \in DOMAIN wal /\ archive' = wal[n]
  BY <1>2, <1>3
<1>6. archive' \in Archives
  BY <1>2, <1>3, <1>5
<1>7. Hands(audit, checkpointed, checkpointed, history, pruned)
  BY DEF HandOver, Hands, Names
<1>8. Hands(audit, archive', checkpointed, history, pruned)
  BY <1>2, <1>5, <1>7 DEF WalHandsOver
<1>9. HandOver'
  BY <1>1, <1>8 DEF HandOver
<1>10. \A i \in 1..n : Within(wal[i], archive')
  <2> SUFFICES ASSUME NEW i \in 1..n PROVE Within(wal[i], archive')
    OBVIOUS
  <2>1. n # 0 /\ archive' = wal[n] /\ i \in DOMAIN wal /\ n \in DOMAIN wal
    BY <1>4, <1>5
  <2>2. CASE i = n
    BY <2>1, <2>2 DEF Within
  <2>3. CASE i < n
    BY <2>1, <2>3 DEF WalHandsOver
  <2> QED BY <2>2, <2>3
<1>11. WalHandsOver'
  BY <1>1, <1>4, <1>10 DEF WalHandsOver
<1>12. ASSUME NEW k, Bounded(k) PROVE Bounded(k)'
  <2>1. \A m \in archive'.manifest : m.batch <= k
    BY <1>2, <1>5, <1>12 DEF Bounded, WalHandsOver, Within
  <2> QED BY <1>1, <1>12, <2>1 DEF Bounded
<1> QED BY <1>1, <1>4, <1>6, <1>9, <1>11, <1>12

(* What a step does to the two tables of the hand-over.                    *)
LEMMA HandFrame ==
  ASSUME TypeOK, LedgerIsHistory, LineagesBegin, [Next]_vars
  PROVE  \/ \E rows : /\ Rewrites(rows) /\ audit' = audit \cup Staged(rows) /\ UNCHANGED archiveDb
                      /\ phase' \in {"idle", "record", "mark"} /\ copied' = copied
         \/ MarkBatch \/ CopyBatches \/ Checkpoint \/ DeleteBatches \/ Crash
         \/ /\ UNCHANGED <<audit, archiveDb, copied, history, pruned>>
            /\ phase' \in {"idle", "mark"} \/ phase' = phase
<1>1. audit = audit \cup Staged({})
  BY DEF Staged
<1>2. CASE CreateLineage
  BY <1>1, <1>2, CreateShape DEF CreateLineage
<1>3. CASE RecordBinding
  BY <1>1, <1>3, RecordShape DEF RecordBinding
<1>4. CASE AcknowledgeSessionReconciled
  BY <1>1, <1>4, AckShape DEF AcknowledgeSessionReconciled
<1>5. CASE Reclaim
  BY <1>5, ReclaimShape DEF Reclaim
<1>6. CASE BindCurrentSession
  BY <1>6, BindShape DEF BindCurrentSession
<1>7. CASE ArchiveBindingAudit
  BY <1>7 DEF ArchiveBindingAudit, contextDb, ghosts
<1>8. CASE CallFails
  BY <1>8 DEF CallFails, contextDb, ghosts
<1>9. CASE UNCHANGED vars
  BY <1>9 DEF vars, contextDb, ghosts
<1> QED BY <1>2, <1>3, <1>4, <1>5, <1>6, <1>7, <1>8, <1>9 DEF Next, Host, Drain

LEMMA HandStep ==
  ASSUME TypeOK, LedgerIsHistory, LineagesBegin, PrunedIsGone, HandOver, WalHandsOver,
         BatchesAreBounded, [Next]_vars
  PROVE  /\ audit' \subseteq Audits /\ archive' \in Archives /\ checkpointed' \in Archives
         /\ wal' \in Seq(Archives) /\ copied' \subseteq Nat
         /\ HandOver' /\ WalHandsOver' /\ BatchesAreBounded'
<1>1. PICK n \in Nat : Bounded(n)
  BY DEF BatchesAreBounded
<1>2. /\ audit \subseteq Audits /\ archive \in Archives /\ checkpointed \in Archives
      /\ wal \in Seq(Archives) /\ copied \subseteq Nat
  BY DEF TypeOK
<1>3. n + 1 \in Nat
  OBVIOUS
<1>4. ASSUME NEW rows, Rewrites(rows), audit' = audit \cup Staged(rows), UNCHANGED archiveDb,
             phase' \in {"idle", "record", "mark"}
      PROVE  audit' \subseteq Audits /\ HandOver' /\ WalHandsOver' /\ Bounded(n)'
  <2>1. archive' = archive /\ checkpointed' = checkpointed /\ wal' = wal
    BY <1>4 DEF archiveDb
  <2>2. \A kept : Hands(audit, kept, checkpointed, history, pruned)
                    => Hands(audit', kept, checkpointed', history', pruned')
    BY <1>4, StagesStep
  <2>3. Staged(rows) \subseteq Audits /\ \A a \in Staged(rows) : a.batch = 0
    BY <1>4, StagedRows
  <2>4. \A a \in audit' : a \in audit \/ a.batch <= n
    BY <1>4, <2>3
  <2>5. Bounded(n)'
    BY <1>1, <2>1, <2>4 DEF Bounded
  <2>6. HandOver'
    BY <1>4, <2>1, <2>2 DEF HandOver
  <2>7. WalHandsOver'
    BY <1>4, <2>1, <2>2 DEF WalHandsOver
  <2> QED BY <1>2, <1>4, <2>3, <2>5, <2>6, <2>7
<1>5. CASE MarkBatch
  <2>1. audit' \subseteq Audits /\ HandOver' /\ WalHandsOver' /\ Bounded(n + 1)'
    BY <1>1, <1>5, MarkStep
  <2>2. archive' = archive /\ checkpointed' = checkpointed /\ wal' = wal /\ copied' = copied
    BY <1>5 DEF MarkBatch, archiveDb
  <2> QED BY <1>2, <1>3, <2>1, <2>2 DEF BatchesAreBounded
<1>6. CASE CopyBatches
  <2>1. /\ archive' \in Archives /\ copied' \subseteq Nat /\ HandOver' /\ Bounded(n)'
        /\ wal' \in Seq(Archives) /\ WalHandsOver'
    BY <1>1, <1>6, CopyStep
  <2>2. audit' = audit /\ checkpointed' = checkpointed
    BY <1>6 DEF CopyBatches, contextDb
  <2> QED BY <1>2, <2>1, <2>2 DEF BatchesAreBounded
<1>7. CASE Checkpoint
  <2>1. /\ checkpointed' = archive /\ archive' = archive /\ audit' = audit /\ copied' = copied
        /\ HandOver' /\ wal' = << >> /\ WalHandsOver'
    BY <1>7, CheckpointStep
  <2>2. Bounded(n)'
    BY <1>1, <2>1 DEF Bounded
  <2> QED BY <1>2, <2>1, <2>2 DEF BatchesAreBounded
<1>8. CASE DeleteBatches
  <2>1. /\ audit' \subseteq audit /\ archive' = archive /\ checkpointed' = checkpointed
        /\ copied' = copied /\ HandOver' /\ wal' = wal /\ WalHandsOver'
    BY <1>8, DeleteStep
  <2>2. Bounded(n)'
    BY <1>1, <2>1 DEF Bounded
  <2> QED BY <1>2, <2>1, <2>2 DEF BatchesAreBounded
<1>9. CASE Crash
  <2>1. /\ archive' \in Archives /\ checkpointed' = checkpointed /\ wal' \in Seq(Archives)
        /\ audit' = audit /\ copied' = copied /\ HandOver' /\ WalHandsOver' /\ Bounded(n)'
    BY <1>1, <1>9, CrashStep
  <2> QED BY <1>2, <2>1 DEF BatchesAreBounded
<1>10. CASE /\ UNCHANGED <<audit, archiveDb, copied, history, pruned>>
            /\ phase' \in {"idle", "mark"} \/ phase' = phase
  <2>1. Bounded(n)'
    BY <1>1, <1>10 DEF Bounded, archiveDb
  <2>2. HandOver' /\ WalHandsOver'
    BY <1>10 DEF HandOver, WalHandsOver, archiveDb
  <2> QED BY <1>2, <1>10, <2>1, <2>2 DEF BatchesAreBounded, archiveDb
<1>11. ASSUME NEW rows, Rewrites(rows), audit' = audit \cup Staged(rows), UNCHANGED archiveDb,
              phase' \in {"idle", "record", "mark"}, copied' = copied
       PROVE  /\ audit' \subseteq Audits /\ archive' \in Archives /\ checkpointed' \in Archives
              /\ wal' \in Seq(Archives) /\ copied' \subseteq Nat
              /\ HandOver' /\ WalHandsOver' /\ BatchesAreBounded'
  <2>1. audit' \subseteq Audits /\ HandOver' /\ WalHandsOver' /\ Bounded(n)'
    BY <1>4, <1>11
  <2> QED BY <1>2, <1>11, <2>1 DEF BatchesAreBounded, archiveDb
<1> QED BY <1>5, <1>6, <1>7, <1>8, <1>9, <1>10, <1>11, HandFrame

LEMMA TypeStep ==
  ASSUME TypeOK, LedgerIsHistory, LineagesBegin, PrunedIsGone, HandOver, WalHandsOver,
         BatchesAreBounded, [Next]_vars
  PROVE  TypeOK'
<1>1. PICK rows : Rewrites(rows)
  BY LedgerFrame
<1>2. /\ ledger \subseteq Bindings /\ current \in [Lineages -> Sessions \cup {NoSession}]
      /\ proved \subseteq Tenures /\ pruned \subseteq Tenures
  BY LedgerTyped
<1>3. ledger' \subseteq Bindings
  <2>1. CASE \E l, s, z : Moves(rows, l, s, z)
    BY <2>1, MovedRows
  <2>2. CASE \E s : Acks(s)
    BY <2>2, AckRows
  <2> QED BY <1>1, <1>2, <2>1, <2>2 DEF Rewrites, Creates, Records, Loses
<1>4. current' \in [Lineages -> Sessions \cup {NoSession}]
  BY <1>1, <1>2 DEF Rewrites, Creates, Records, Acks, Loses, Moves
<1>5. history' \in Seq([session : Sessions, lineage : Lineages]) /\ Len(history') <= MaxTenures
  BY <1>1, HistoryStep DEF Names0
<1>6. \A r \in ledger : r.tenure \in Tenures
  BY <1>2, BindingsFacts
<1>7. proved' \subseteq Tenures
  BY <1>1, <1>2, <1>6 DEF Rewrites, Creates, Records, Acks, Loses, Moves, Gone
<1>8. pruned' \subseteq Tenures
  BY <1>1, <1>2, <1>6, PrunableFacts DEF Rewrites, Gone
<1>9. phase' \in {"idle", "record", "mark", "copy", "checkpoint", "delete"}
  BY DEF TypeOK, Next, Host, Drain, vars, CreateLineage, RecordBinding, AcknowledgeSessionReconciled,
         Reclaim, BindCurrentSession, ArchiveBindingAudit, MarkBatch, CopyBatches, Checkpoint,
         DeleteBatches, CallFails, Crash
<1>10. faults' \in 0..MaxFaults
  <2>1. faults \in 0..MaxFaults
    BY DEF TypeOK
  <2>2. Fault => faults' \in 0..MaxFaults
    BY <2>1, ConstantFacts DEF Fault
  <2> QED BY <2>1, <2>2
        DEF Next, Host, Drain, vars, CreateLineage, RecordBinding, AcknowledgeSessionReconciled,
            Reclaim, BindCurrentSession, ArchiveBindingAudit, MarkBatch, CopyBatches, Checkpoint,
            DeleteBatches, CallFails, Crash
<1> QED BY <1>3, <1>4, <1>5, <1>7, <1>8, <1>9, <1>10, HandStep DEF TypeOK

(***************************************************************************)
(* The invariant, and what it says for every value of the constants.       *)
(***************************************************************************)
LEMMA IInvInit ==
  ASSUME Init
  PROVE  IInv
<1>1. TypeOK
  <2>1. << >> \in Seq([session : Sessions, lineage : Lineages]) /\ Len(<< >>) = 0
    OBVIOUS
  <2>2. 0 \in 0..MaxFaults /\ 0 <= MaxTenures
    BY ConstantFacts
  <2>3. Empty \in Archives /\ << >> \in Seq(Archives)
    BY DEF Empty, Archives
  <2> QED BY <2>1, <2>2, <2>3 DEF Init, TypeOK
<1>2. DOMAIN history = {} /\ history = << >>
  BY DEF Init
<1>3. LedgerIsHistory /\ PrunedIsGone /\ LineagesBegin /\ MarksAreProved /\ RecentAreKept
  BY <1>2 DEF Init, LedgerIsHistory, Names, OfOneTenure, OfOnePair, RolesAgree, PrunedIsGone,
         LineagesBegin, MarksAreProved, RecentAreKept
<1>4. WithinLimit
  <2>1. Historical = {}
    BY DEF Init, Historical
  <2> QED BY <2>1, FS_EmptySet, ConstantFacts DEF WithinLimit
<1>5. HandOver /\ WalHandsOver
  BY DEF Init, Empty, HandOver, WalHandsOver, Hands, Names, OfOneTenure, InStep, Counted
<1>6. BatchesAreBounded
  <2>1. Bounded(0)
    BY DEF Init, Empty, Bounded
  <2> QED BY <2>1 DEF BatchesAreBounded
<1> QED BY <1>1, <1>3, <1>4, <1>5, <1>6 DEF IInv

LEMMA IInvNext ==
  ASSUME IInv, [Next]_vars
  PROVE  IInv'
<1> USE DEF IInv
<1>1. PICK rows : Rewrites(rows)
  BY LedgerFrame
<1>2. LedgerIsHistory' /\ PrunedIsGone' /\ LineagesBegin'
  BY <1>1, LedgerStep, PrunedStep, LineagesStep
<1>3. WithinLimit' /\ MarksAreProved' /\ RecentAreKept'
  BY <1>1, LimitStep, MarksStep, RecentStep
<1> QED BY <1>2, <1>3, TypeStep, HandStep

(* The ledger, the staging table and the archive are the history of the    *)
(* lineages' tenures: the inductive invariant.                             *)
THEOREM LedgerTellsHistory == Spec => []IInv
<1>1. Init => IInv
  BY IInvInit
<1>2. IInv /\ [Next]_vars => IInv'
  BY IInvNext
<1> QED BY <1>1, <1>2, PTL DEF Spec

(* Every call keeps the tables and files of the two databases typed.       *)
THEOREM TypeCorrect == Spec => []TypeOK
<1>1. IInv => TypeOK
  BY DEF IInv
<1> QED BY <1>1, LedgerTellsHistory, PTL

(* Pruning never loses provenance: the batch protocol of                   *)
(* archiveBindingAudit keeps the pruned tenure of a session that has had   *)
(* no other in the staging table or in the durable archive, through        *)
(* exceptions and power losses between any two of its transactions, and    *)
(* what the archive's manifest says of such sessions is true.              *)
THEOREM ProvenanceIsKept == Spec => []ProvenanceKept
<1>1. IInv => ProvenanceKept
  <2> SUFFICES ASSUME IInv PROVE ProvenanceKept
    OBVIOUS
  <2>1. \A t : Single(history, t) <=> Once(t)
    BY DEF Single, Once
  <2>2. Hands(audit, archive, checkpointed, history, pruned)
    BY DEF IInv, HandOver
  <2>3. \A t \in pruned : Once(t) => Recorded(t)
    BY <2>1, <2>2 DEF Hands, Kept, Recorded
  <2>4. ASSUME NEW a, InStep(a, audit), Counted(a, history) PROVE Consistent(a)
    BY <2>1, <2>4 DEF InStep, Counted, Consistent, OfOneTenure
  <2> QED BY <2>2, <2>3, <2>4 DEF Hands, ProvenanceKept
<1> QED BY <1>1, LedgerTellsHistory, PTL

(***************************************************************************)
(* Without a failure between the two inserts of createLineage, every       *)
(* lineage has its current row.                                            *)
(***************************************************************************)
LEMMA LineagesRecordedStep ==
  ASSUME IInv, LineagesAreRecorded, ~ CreateMayFail, NEW rows, Rewrites(rows)
  PROVE  LineagesAreRecorded'
<1> USE DEF IInv
<1> DEFINE Last(h) == h[Len(h)].lineage
           Goal == \A k \in Lineages : current'[k] # NoSession =>
                     \/ \E x \in ledger' : x.lineage = k /\ x.role = "current"
                     \/ phase' = "record" /\ Last(history') = k
<1>1. current \in [Lineages -> Sessions \cup {NoSession}] /\ NoSession \notin Sessions
  BY LedgerTyped, ConstantFacts
<1>2. \A r \in rows : r.role = "historical"
  BY PrunableFacts
<1>3. \A k \in Lineages : current[k] # NoSession =>
        \/ \E r \in ledger : r.lineage = k /\ r.role = "current" /\ r \notin rows
        \/ phase = "record" /\ Last(history) = k
  BY <1>2 DEF LineagesAreRecorded
<1>4. ASSUME NEW l, NEW s, Creates(l, s) PROVE Goal
  <2>1. /\ phase = "idle" /\ phase' = "record" /\ ledger' = ledger /\ l \in Lineages /\ s \in Sessions
        /\ current' = [current EXCEPT ![l] = s] /\ Begin(l, s) /\ Len(history) < MaxTenures
    BY <1>4 DEF Creates
  <2>2. Last(history') = l
    BY <2>1, BeginFacts
  <2> HIDE DEF Last
  <2> QED BY <1>1, <1>3, <2>1, <2>2
<1>5. ASSUME NEW z, Records(z) PROVE Goal
  <2>1. /\ z.lineage = Last(history) /\ z.role = "current" /\ ledger' = ledger \cup {z}
        /\ current' = current
    BY <1>5 DEF Records
  <2> HIDE DEF Last
  <2> QED BY <1>3, <2>1
<1>6. ASSUME NEW s, Acks(s) PROVE Goal
  <2>1. /\ \A r \in ledger : \E x \in ledger' : x.lineage = r.lineage /\ x.role = r.role
        /\ current' = current /\ phase = "idle"
    BY <1>6, AckRows DEF Acks
  <2> QED BY <1>3, <2>1
<1>7. ASSUME Loses(rows) PROVE Goal
  <2>1. /\ ledger' = ledger \ rows /\ current' = current /\ history' = history
        /\ phase = "record" => phase' = "record"
    BY <1>7 DEF Loses
  <2> HIDE DEF Last
  <2> QED BY <1>3, <2>1
<1>8. ASSUME NEW l, NEW s, NEW z, Moves(rows, l, s, z) PROVE Goal
  <2>1. /\ phase = "idle" /\ l \in Lineages /\ s \in Sessions /\ current' = [current EXCEPT ![l] = s]
        /\ z.lineage = l /\ z.role = "current"
    BY <1>8 DEF Moves, Fresh
  <2>2. z \in ledger' /\ Other(ledger \ rows, l, s) \subseteq ledger'
    BY <1>8, MovedRows
  <2>3. \A k \in Lineages : k # l => current'[k] = current[k]
    BY <1>1, <2>1
  <2>4. \A r \in ledger : r \notin rows /\ r.lineage # l => r \in ledger'
    BY <2>2 DEF Other
  <2> HIDE DEF Last
  <2> QED BY <1>3, <2>1, <2>2, <2>3, <2>4
<1>9. Goal
  BY <1>4, <1>5, <1>6, <1>7, <1>8 DEF Rewrites
<1> QED BY <1>9 DEF LineagesAreRecorded

LEMMA OneLineageStep ==
  ASSUME IInv, LineagesAreRecorded, OneLineagePerSession, NEW rows, Rewrites(rows)
  PROVE  OneLineagePerSession'
<1> USE DEF IInv
<1>1. current \in [Lineages -> Sessions \cup {NoSession}] /\ NoSession \notin Sessions
  BY LedgerTyped, ConstantFacts
<1>2. ASSUME NEW l \in Lineages, NEW s \in Sessions, current' = [current EXCEPT ![l] = s],
             \A k \in Lineages : current[k] = s => k = l
      PROVE  OneLineagePerSession'
  <2>1. current'[l] = s /\ \A k \in Lineages : k # l => current'[k] = current[k]
    BY <1>1, <1>2
  <2> QED BY <1>1, <1>2, <2>1 DEF OneLineagePerSession
<1>3. ASSUME NEW l, NEW s, Creates(l, s) PROVE OneLineagePerSession'
  BY <1>2, <1>3 DEF Creates
<1>4. ASSUME NEW l, NEW s, NEW z, Moves(rows, l, s, z) PROVE OneLineagePerSession'
  <2>1. /\ phase = "idle" /\ l \in Lineages /\ s \in Sessions /\ current' = [current EXCEPT ![l] = s]
        /\ NotCurrentElsewhere(ledger \ rows, l, s)
    BY <1>4 DEF Moves
  <2>2. ASSUME NEW k \in Lineages, current[k] = s PROVE k = l
    <3>1. PICK r \in ledger : r.lineage = k /\ r.role = "current"
      BY <1>1, <2>1, <2>2 DEF LineagesAreRecorded
    <3>2. r.session = s
      BY <2>2, <3>1 DEF LedgerIsHistory, RolesAgree
    <3>3. r \notin rows
      BY <3>1, PrunableFacts
    <3> QED BY <2>1, <3>1, <3>2, <3>3 DEF NotCurrentElsewhere
  <2> QED BY <1>2, <2>1, <2>2
<1>5. CASE current' = current
  BY <1>5 DEF OneLineagePerSession
<1> QED BY <1>3, <1>4, <1>5 DEF Rewrites, Records, Acks, Loses

LEMMA TenuresRecordedStep ==
  ASSUME IInv, TenuresAreRecorded, ~ CreateMayFail, NEW rows, Rewrites(rows)
  PROVE  TenuresAreRecorded'
<1> USE DEF IInv
<1> DEFINE Goal == \A t \in DOMAIN history' :
             Single(history', t) /\ t \notin pruned' =>
               Kept(ledger', t) \/ (phase' = "record" /\ t = Len(history'))
           here(t) == \E r \in ledger : r.tenure = t /\ r \notin rows
<1>1. Grown(history, history') /\ pruned' = pruned \cup Gone(rows)
  BY HistoryStep DEF Rewrites
<1>2. \A t \in DOMAIN history :
        Single(history', t) /\ t \notin pruned' => here(t) \/ (phase = "record" /\ t = Len(history))
  BY <1>1, GrownFacts DEF TenuresAreRecorded, Kept, Gone
<1>3. ASSUME NEW l, NEW s, Creates(l, s) PROVE Goal
  <2>1. /\ phase = "idle" /\ phase' = "record" /\ ledger' = ledger /\ l \in Lineages /\ s \in Sessions
        /\ Begin(l, s) /\ Len(history) < MaxTenures
    BY <1>3 DEF Creates
  <2>2. DOMAIN history' = (DOMAIN history) \cup {Len(history')}
    BY <2>1, BeginFacts
  <2> QED BY <1>2, <2>1, <2>2 DEF Kept
<1>4. ASSUME NEW z, Records(z) PROVE Goal
  <2>1. /\ z.tenure = Len(history) /\ ledger' = ledger \cup {z} /\ history' = history
    BY <1>4 DEF Records
  <2> QED BY <1>2, <2>1 DEF Kept
<1>5. ASSUME NEW s, Acks(s) PROVE Goal
  <2>1. /\ \A r \in ledger : \E x \in ledger' : x.tenure = r.tenure
        /\ history' = history /\ phase = "idle"
    BY <1>5, AckRows DEF Acks
  <2> QED BY <1>2, <2>1 DEF Kept
<1>6. ASSUME Loses(rows) PROVE Goal
  <2>1. /\ ledger' = ledger \ rows /\ history' = history
        /\ phase = "record" => phase' = "record"
    BY <1>6 DEF Loses
  <2> QED BY <1>2, <2>1 DEF Kept
<1>7. ASSUME NEW l, NEW s, NEW z, Moves(rows, l, s, z) PROVE Goal
  <2>1. phase = "idle" /\ z.tenure = NextTenure
    BY <1>7 DEF Moves, Fresh
  <2>2. /\ z \in ledger' /\ Other(ledger \ rows, l, s) \subseteq ledger'
        /\ \A r \in Replaced(ledger \ rows, l, s) : \E x \in ledger' : Moved(x, r, NextTenure)
    BY <1>7, MovedRows
  <2>3. /\ DOMAIN history' = (DOMAIN history) \cup {NextTenure} /\ history'[NextTenure].session = s
        /\ NextTenure \notin DOMAIN history
        /\ \A u \in DOMAIN history : history'[u] = history[u]
    BY <1>7, LessThanNext
  <2>4. ASSUME NEW r \in ledger, r \notin rows, Single(history', r.tenure)
        PROVE  Kept(ledger', r.tenure)
    <3>1. r.tenure \in DOMAIN history /\ history[r.tenure].session = r.session
      BY DEF LedgerIsHistory, Names
    <3>2. r.session # s
      BY <2>3, <2>4, <3>1 DEF Single
    <3>3. r \in Other(ledger \ rows, l, s) \/ r \in Replaced(ledger \ rows, l, s)
      BY <2>4, <3>2 DEF Other, Replaced
    <3> QED BY <2>2, <3>3 DEF Kept, Moved, Same
  <2>5. Kept(ledger', NextTenure)
    BY <2>1, <2>2 DEF Kept
  <2> QED BY <1>2, <2>1, <2>3, <2>4, <2>5
<1> HIDE DEF here
<1>8. Goal
  BY <1>3, <1>4, <1>5, <1>6, <1>7 DEF Rewrites
<1> QED BY <1>8 DEF TenuresAreRecorded

LEMMA WholeAlways ==
  ASSUME ~ CreateMayFail
  PROVE  Spec => []Whole
<1>1. Init => Whole
  BY DEF Init, Whole, LineagesAreRecorded, OneLineagePerSession, TenuresAreRecorded
<1>2. IInv /\ Whole /\ [Next]_vars => Whole'
  <2> SUFFICES ASSUME IInv, Whole, [Next]_vars PROVE Whole'
    OBVIOUS
  <2>1. PICK rows : Rewrites(rows)
    BY LedgerFrame DEF IInv
  <2> QED BY <2>1, LineagesRecordedStep, OneLineageStep, TenuresRecordedStep DEF Whole
<1> QED BY <1>1, <1>2, LedgerTellsHistory, PTL DEF Spec

(* As long as no call fails between the two autocommitted inserts of       *)
(* createLineage, the lineage rows and the ledger agree, and rollovers     *)
(* keep to the hard limit of historical bindings.                          *)
THEOREM LedgerAndLineagesAgree ==
  ASSUME ~ CreateMayFail
  PROVE  Spec => []LedgerAgrees
<1>1. IInv /\ Whole => LedgerAgrees
  <2> SUFFICES ASSUME IInv, Whole PROVE LedgerAgrees
    OBVIOUS
  <2>1. ASSUME NEW l \in Lineages, phase # "record" PROVE CurrentRowMatches(l)
    <3> DEFINE rows == {r \in ledger : r.lineage = l /\ r.role = "current"}
    <3>1. CASE current[l] = NoSession
      <4>1. rows = {}
        BY <3>1 DEF IInv, LineagesBegin
      <4> QED BY <3>1, <4>1 DEF CurrentRowMatches
    <3>2. CASE current[l] # NoSession
      <4>1. PICK r \in ledger : r.lineage = l /\ r.role = "current"
        BY <2>1, <3>2 DEF Whole, LineagesAreRecorded
      <4>2. rows = {r} /\ r.session = current[l]
        BY <4>1 DEF IInv, LedgerIsHistory, RolesAgree, OfOnePair
      <4>3. \A t \in DOMAIN history : history[t].lineage = l => t <= r.tenure
        BY <4>1 DEF IInv, LedgerIsHistory, RolesAgree, LatestOf
      <4> QED BY <3>2, <4>2, <4>3 DEF CurrentRowMatches
    <3> QED BY <3>1, <3>2
  <2> QED BY <2>1 DEF LedgerAgrees, Whole, IInv, WithinLimit
<1> QED BY <1>1, LedgerTellsHistory, WholeAlways, PTL

(* Under the same condition, a session that nobody has acknowledged, or    *)
(* that is among the RetainRecent superseded last, is answered by          *)
(* resolveLineageForRecovery with its one row.                             *)
THEOREM SessionsResolve ==
  ASSUME ~ CreateMayFail
  PROVE  Spec => []RecoveryResolves
<1>1. IInv /\ Whole => RecoveryResolves
  <2> SUFFICES ASSUME IInv, Whole PROVE RecoveryResolves
    OBVIOUS
  <2>1. \A t : Once(t) <=> Single(history, t)
    BY DEF Once, Single
  <2>2. DOMAIN history \subseteq Nat /\ DOMAIN history = 1 .. Len(history) /\ Len(history) \in Nat
    BY HistoryFacts DEF IInv
  <2>3. ASSUME NEW t \in DOMAIN history, Single(history, t), Kept(ledger, t)
        PROVE  ResolvesForRecovery(history[t])
    <3>1. PICK r \in ledger : r.tenure = t
      BY <2>3 DEF Kept
    <3>2. r.session = history[t].session /\ r.lineage = history[t].lineage
      BY <3>1 DEF IInv, LedgerIsHistory, Names
    <3>3. ASSUME NEW q \in ledger, q.session = history[t].session PROVE q = r
      <4>1. q.tenure = t
        BY <2>3, <3>3 DEF IInv, LedgerIsHistory, Names, Single
      <4> QED BY <3>1, <4>1 DEF IInv, LedgerIsHistory, OfOneTenure
    <3> QED BY <3>2, <3>3 DEF ResolvesForRecovery
  <2>4. ASSUME NEW t \in DOMAIN history, Once(t) PROVE UnreconciledResolves(t)
    <3> SUFFICES ASSUME t \notin proved, ~ (phase = "record" /\ t = Len(history))
                 PROVE  ResolvesForRecovery(history[t])
      BY DEF UnreconciledResolves
    <3>1. t \notin pruned
      BY <2>1, <2>4 DEF IInv, MarksAreProved
    <3>2. Kept(ledger, t)
      BY <2>1, <2>4, <3>1 DEF Whole, TenuresAreRecorded
    <3> QED BY <2>1, <2>3, <2>4, <3>2
  <2>5. \A p \in (DOMAIN history) \X (DOMAIN history) :
          p \in Successors <=> Follows(history, p[1], p[2])
    <3> SUFFICES ASSUME NEW t \in DOMAIN history, NEW u \in DOMAIN history
                 PROVE  <<t, u>> \in Successors <=> Follows(history, t, u)
      BY DEF Successors
    <3>1. t \in Nat /\ u \in Nat
      BY <2>2
    <3>2. \A v : v \in t + 1 .. u - 1 <=> v \in DOMAIN history /\ t < v /\ v < u
      BY <2>2, <3>1
    <3> QED BY <3>2 DEF Successors, Follows
  <2>6. ASSUME NEW p \in Successors, Once(p[1]) PROVE RecentResolves(p)
    <3> SUFFICES ASSUME Cardinality({q \in Successors : q[2] > p[2]}) < RetainRecent
                 PROVE  ResolvesForRecovery(history[p[1]])
      BY DEF RecentResolves
    <3>1. p \in (DOMAIN history) \X (DOMAIN history)
      BY DEF Successors
    <3>2. PICK t \in DOMAIN history, u \in DOMAIN history : p = <<t, u>>
      BY <3>1
    <3>3. p[1] = t /\ p[2] = u
      BY <3>2
    <3>4. Follows(history, t, u)
      BY <2>5, <3>1, <3>3
    <3>5. {q \in Successors : q[2] > u} = Later(history, u)
      BY <2>5 DEF Later, Successors
    <3>6. t \notin pruned
      BY <3>3, <3>4, <3>5 DEF IInv, RecentAreKept
    <3>7. t # Len(history)
      BY <2>2, <3>4 DEF Follows
    <3>8. Kept(ledger, t)
      BY <2>1, <2>6, <3>3, <3>6, <3>7 DEF Whole, TenuresAreRecorded
    <3> QED BY <2>1, <2>3, <2>6, <3>3, <3>8
  <2> QED BY <2>4, <2>6 DEF RecoveryResolves
<1> QED BY <1>1, LedgerTellsHistory, WholeAlways, PTL

===============================================================================
