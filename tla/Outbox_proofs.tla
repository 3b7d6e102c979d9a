---------------------------- MODULE Outbox_proofs ----------------------------
(* Proofs about Outbox, for every value of its constants.                    *)
EXTENDS Outbox, SequenceTheorems, WellFoundedInduction, TLAPS

(* The inductive invariant: what a drain is about to settle a row with is    *)
(* the receipt of a publication that is held, whoever it was asked for; and  *)
(* a call is about a row of its drain.                                       *)
CallsAreEarned ==
    \A d \in Drains:
        /\ drain[d].call.kind = "receipt" => drain[d].call.of \in accepted
        /\ drain[d].call.kind # "none" => drain[d].rows # {}

IInv == TypeOK /\ DeliveredIsAccepted /\ ClaimedOnce /\ CallsAreEarned

States == {"pending", "delivering"} \cup Settled
PubRows == [state: {"pending"} \cup Settled, receipt: BOOLEAN]
DrainRows == [rows: SUBSET Rows, call: Calls]

-----------------------------------------------------------------------------
LEMMA FunctionIsSeq ==
    ASSUME NEW S, NEW n \in Nat, NEW f \in [1..n -> S]
    PROVE  f \in Seq(S) /\ Len(f) = n
OBVIOUS

(* Natural numbers are well ordered.                                         *)
LEMMA FirstFacts ==
    ASSUME NEW S \in SUBSET Nat, S # {}
    PROVE  First(S) \in S
<1> DEFINE R == {ss \in Nat \X Nat: ss[1] < ss[2]}
<1>1. IsWellFoundedOn(R, Nat)
  BY NatLessThanWellFounded DEF OpToRel
<1>2. \A k, n \in Nat: k < n => <<k, n>> \in R
  OBVIOUS
<1> HIDE DEF R
<1>3. PICK n \in S: \A k \in S: ~ (<<k, n>> \in R)
  BY <1>1, WFMin
<1>4. \A k \in S: n <= k
  <2> SUFFICES ASSUME NEW k \in S PROVE n <= k
    OBVIOUS
  <2>1. k \in Nat /\ n \in Nat
    OBVIOUS
  <2>2. ~ (k < n)
    BY <1>2, <1>3, <2>1, Zenon
  <2> QED BY <2>1, <2>2
<1> QED BY <1>4 DEF First

LEMMA RowsFacts ==
    ASSUME TypeOK
    PROVE  /\ Len(outbox) \in Nat /\ Rows = 1 .. Len(outbox) /\ Rows \subseteq Numbers
           /\ Rows \subseteq Nat /\ outbox \in [Rows -> States]
           /\ publications \in [Rows -> PubRows]
           /\ outbox \in Seq(States) /\ publications \in Seq(PubRows)
           /\ Len(publications) = Len(outbox) /\ Len(outbox) <= MaxPublications
           /\ MaxPublications \in Nat
<1>1. outbox \in Seq(States) /\ publications \in Seq(PubRows)
  BY DEF TypeOK, States, PubRows
<1>2. Len(outbox) = Len(publications) /\ Len(outbox) <= MaxPublications /\ MaxPublications \in Nat
  BY OutboxAssumption DEF TypeOK, OutboxAssumption
<1> HIDE DEF TypeOK, States, PubRows
<1> QED BY <1>1, <1>2, LenProperties DEF Rows, Numbers

LEMMA LeasesFacts ==
    ASSUME TypeOK
    PROVE  /\ leases \in Seq(SUBSET Rows) /\ Len(leases) \in Nat
           /\ DOMAIN leases = 1 .. Len(leases)
           /\ \A i \in DOMAIN leases: leases[i] \subseteq Rows
<1>1. leases \in Seq(SUBSET Rows)
  BY DEF TypeOK
<1> QED BY <1>1, LenProperties, ElementOfSeq

LEMMA DrainFacts ==
    ASSUME TypeOK, NEW d \in Drains
    PROVE  /\ drain[d].rows \subseteq Rows /\ drain[d].call \in Calls
           /\ drain[d] = [rows |-> drain[d].rows, call |-> drain[d].call]
           /\ drain[d].rows # {} => First(drain[d].rows) \in drain[d].rows
<1>1. drain[d] \in DrainRows
  BY DEF TypeOK, DrainRows
<1>2. drain[d].rows \subseteq Rows /\ drain[d].call \in Calls
      /\ drain[d] = [rows |-> drain[d].rows, call |-> drain[d].call]
  BY <1>1 DEF DrainRows
<1> QED BY <1>2, RowsFacts, FirstFacts

LEMMA CallKinds ==
    /\ Plain("none") \in Calls /\ Plain("sent") \in Calls
    /\ Plain("rejected") \in Calls /\ Plain("nothing") \in Calls
    /\ \A kind: Plain(kind).kind = kind
    /\ \A p \in Numbers, bound \in BOOLEAN:
         /\ Receipt(p, bound) \in Calls
         /\ Receipt(p, bound).kind = "receipt" /\ Receipt(p, bound).of = p
<1>1. \A kind: Plain(kind).kind = kind
  BY DEF Plain
<1>2. \A kind \in {"none", "sent", "rejected", "nothing"}: Plain(kind) \in Calls
  BY DEF Calls
<1>3. \A p \in Numbers, bound \in BOOLEAN: Receipt(p, bound) \in Calls
  BY DEF Calls
<1>4. \A p, bound: Receipt(p, bound).kind = "receipt" /\ Receipt(p, bound).of = p
  BY DEF Receipt
<1> QED BY <1>1, <1>2, <1>3, <1>4

-----------------------------------------------------------------------------
(* How a step changes the rows.                                              *)
Claims(rows) == rows \subseteq {p \in Rows: Claimable(p)} /\ Claim(rows)
Settles(d, state) ==
    /\ drain[d].rows # {} /\ Outcome(d, state)
    /\ MarkOutbox(First(drain[d].rows), state)
    /\ MarkPublication(First(drain[d].rows), state) \/ UNCHANGED publications

LEMMA OutboxFrame ==
    ASSUME [Next]_vars
    PROVE  \/ CommitBatch
           \/ /\ \E rows \in SUBSET Rows: Claims(rows)
              /\ UNCHANGED <<publications, accepted>>
           \/ /\ \E d \in Drains, state \in Settled: Settles(d, state)
              /\ UNCHANGED accepted
           \/ /\ leases # <<>> /\ leases' = Tail(leases)
              /\ UNCHANGED <<outbox, publications, accepted>>
           \/ UNCHANGED <<outbox, publications, leases>> /\ accepted \subseteq accepted'
<1>1. ASSUME NEW d \in Drains, StartDrain(d) \/ StartDrainTorn(d)
      PROVE  /\ \E rows \in SUBSET Rows: Claims(rows)
             /\ UNCHANGED <<publications, accepted>>
  <2>1. CASE StartDrain(d)
    <3>1. Claims(Oldest({p \in Rows: Claimable(p)})) /\ UNCHANGED <<publications, accepted>>
      BY <2>1 DEF StartDrain, Claims, Oldest
    <3> QED BY <3>1 DEF Claims
  <2>2. CASE StartDrainTorn(d)
    <3>1. PICK last \in Oldest({p \in Rows: Claimable(p)}):
            Claim({p \in Oldest({p \in Rows: Claimable(p)}): p <= last})
      BY <2>2 DEF StartDrainTorn
    <3>2. Claims({p \in Oldest({p \in Rows: Claimable(p)}): p <= last})
      BY <3>1 DEF Claims, Oldest
    <3> QED BY <2>2, <3>2 DEF StartDrainTorn, Claims
  <2> QED BY <1>1, <2>1, <2>2
<1>2. ASSUME NEW d \in Drains, Settle(d) \/ SettleTorn(d)
      PROVE  \/ /\ \E state \in Settled: Settles(d, state)
                /\ UNCHANGED accepted
             \/ UNCHANGED <<outbox, publications, leases, accepted>>
  BY <1>2 DEF Settle, SettleTorn, Settles, Mark, MarkTorn
<1> QED
  BY <1>1, <1>2
  DEF Next, LeaseExpires, StrayArrives, Restart, Send, MemoryAccepts, MemoryAnswersOddly,
      MemoryRejects, CallFails, Defer, vars

-----------------------------------------------------------------------------
(* Types.                                                                    *)
LEMMA RowsGrow == [Next]_vars /\ TypeOK => Rows \subseteq Rows'
<1> SUFFICES ASSUME [Next]_vars, TypeOK PROVE Rows \subseteq Rows'
  OBVIOUS
<1>1. CASE CommitBatch
  BY <1>1, RowsFacts DEF CommitBatch, Rows
<1>2. ASSUME NEW rows \in SUBSET Rows, Claims(rows) PROVE Rows' = Rows
  BY <1>2 DEF Claims, Claim, Rows
<1>3. ASSUME NEW d \in Drains, NEW state \in Settled, Settles(d, state) PROVE Rows' = Rows
  BY <1>3 DEF Settles, MarkOutbox, Rows
<1>4. CASE UNCHANGED outbox
  BY <1>4 DEF Rows
<1> QED BY <1>1, <1>2, <1>3, <1>4, OutboxFrame

LEMMA TablesType ==
    ASSUME IInv, [Next]_vars
    PROVE  /\ outbox' \in Seq(States) /\ publications' \in Seq(PubRows)
           /\ Len(outbox') = Len(publications') /\ Len(outbox') <= MaxPublications
<1> USE RowsFacts DEF IInv
<1>1. CASE CommitBatch
  <2>1. "pending" \in States /\ [state |-> "pending", receipt |-> FALSE] \in PubRows
    BY DEF States, PubRows
  <2>2. /\ outbox' = Append(outbox, "pending") /\ Len(outbox) < MaxPublications
        /\ publications' = Append(publications, [state |-> "pending", receipt |-> FALSE])
    BY <1>1 DEF CommitBatch
  <2> HIDE DEF States, PubRows, IInv
  <2>3. outbox' \in Seq(States) /\ Len(outbox') = Len(outbox) + 1
    BY <2>1, <2>2, AppendProperties DEF IInv
  <2>4. publications' \in Seq(PubRows) /\ Len(publications') = Len(publications) + 1
    BY <2>1, <2>2, AppendProperties DEF IInv
  <2> QED BY <2>2, <2>3, <2>4 DEF IInv
<1>2. ASSUME NEW rows \in SUBSET Rows, Claims(rows), UNCHANGED publications
      PROVE  /\ outbox' \in Seq(States) /\ publications' \in Seq(PubRows)
             /\ Len(outbox') = Len(publications') /\ Len(outbox') <= MaxPublications
  <2>1. outbox' \in [1 .. Len(outbox) -> States]
    <3>1. "delivering" \in States /\ \A p \in Rows: outbox[p] \in States
      BY DEF States
    <3>2. outbox' = [p \in Rows |-> IF p \in rows THEN "delivering" ELSE outbox[p]]
      BY <1>2 DEF Claims, Claim
    <3>3. outbox' \in [Rows -> States]
      BY <3>1, <3>2, Zenon
    <3> QED BY <3>3
  <2> QED BY <1>2, <2>1, FunctionIsSeq
<1>3. ASSUME NEW d \in Drains, NEW state \in Settled, Settles(d, state)
      PROVE  /\ outbox' \in Seq(States) /\ publications' \in Seq(PubRows)
             /\ Len(outbox') = Len(publications') /\ Len(outbox') <= MaxPublications
  <2> DEFINE p == First(drain[d].rows)
  <2>1. p \in Rows
    BY <1>3, DrainFacts DEF Settles
  <2>2. outbox' = [outbox EXCEPT ![p] = state] /\ state \in States
    BY <1>3 DEF Settles, MarkOutbox, States
  <2>3. outbox' \in [Rows -> States]
    BY <2>2, Zenon
  <2>4. publications' \in [Rows -> PubRows]
    <3>1. CASE UNCHANGED publications
      BY <3>1
    <3>2. CASE MarkPublication(p, state)
      <4> DEFINE row == [state |-> state, receipt |-> publications[p].receipt \/ state = "delivered"]
      <4>1. row \in PubRows
        BY Zenon DEF PubRows
      <4>2. publications' = [publications EXCEPT ![p] = row]
        BY <3>2 DEF MarkPublication
      <4> HIDE DEF row
      <4> QED BY <4>1, <4>2, Zenon
    <3> QED BY <1>3, <3>1, <3>2 DEF Settles
  <2>5. outbox' \in [1 .. Len(outbox) -> States] /\ publications' \in [1 .. Len(outbox) -> PubRows]
    BY <2>3, <2>4
  <2>6. outbox' \in Seq(States) /\ Len(outbox') = Len(outbox)
    BY <2>5, FunctionIsSeq
  <2>7. publications' \in Seq(PubRows) /\ Len(publications') = Len(outbox)
    BY <2>5, FunctionIsSeq
  <2> QED BY <2>6, <2>7
<1>4. CASE UNCHANGED <<outbox, publications>>
  BY <1>4
<1> QED BY <1>1, <1>2, <1>3, <1>4, OutboxFrame

LEMMA LeasesType == ASSUME IInv, [Next]_vars PROVE leases' \in Seq(SUBSET Rows')
<1> USE DEF IInv
<1>1. leases \in Seq(SUBSET Rows) /\ SUBSET Rows \subseteq SUBSET Rows'
  BY RowsGrow, LeasesFacts
<1>2. leases' \in Seq(SUBSET Rows)
  <2>1. ASSUME NEW rows \in SUBSET Rows, Claims(rows) PROVE leases' \in Seq(SUBSET Rows)
    <3>1. leases' = Append(leases, rows)
      BY <2>1 DEF Claims, Claim
    <3> QED BY <1>1, <3>1, AppendProperties
  <2>2. ASSUME NEW p, Unlease(p) PROVE leases' \in Seq(SUBSET Rows)
    <3>1. leases' \in [1 .. Len(leases) -> SUBSET Rows]
      BY <2>2, LeasesFacts DEF Unlease
    <3> QED BY <3>1, LeasesFacts, FunctionIsSeq
  <2>3. CASE leases # <<>> /\ leases' = Tail(leases)
    BY <1>1, <2>3, HeadTailProperties
  <2>4. CASE UNCHANGED leases
    BY <1>1, <2>4
  <2> QED BY <2>1, <2>2, <2>3, <2>4, OutboxFrame DEF CommitBatch, Settles, MarkOutbox
<1> QED BY <1>1, <1>2, SeqMonotonic

(* How a step changes the drains: one of them goes on with rows and a call   *)
(* that is earned, or all of them end.                                       *)
Earned(rows, call) ==
    /\ call.kind = "receipt" => call.of \in accepted'
    /\ call.kind # "none" => rows # {}

GoesOn(d, rows, call) ==
    /\ drain' = [drain EXCEPT ![d] = [rows |-> rows, call |-> call]]
    /\ Earned(rows, call)

LEMMA AnswerFacts ==
    ASSUME IInv, NEW d \in Drains, NEW call \in Calls, Answer(d, call),
           drain[d].rows # {}, call.kind = "receipt" => call.of \in accepted'
    PROVE  GoesOn(d, drain[d].rows, call)
BY Zenon DEF GoesOn, Earned, Answer

LEMMA NextRowFacts ==
    ASSUME NEW d \in Drains, NextRow(d)
    PROVE  \E rows \in SUBSET drain[d].rows: GoesOn(d, rows, Plain("none"))
<1> DEFINE rest == drain[d].rows \ {First(drain[d].rows)}
<1>1. drain' = [drain EXCEPT ![d] = [rows |-> rest, call |-> Plain("none")]]
  BY Zenon DEF NextRow
<1>2. Earned(rest, Plain("none"))
  BY CallKinds DEF Earned
<1>3. rest \in SUBSET drain[d].rows
  OBVIOUS
<1> QED BY <1>1, <1>2, <1>3, Zenon DEF GoesOn

LEMMA DrainFrame ==
    ASSUME IInv, [Next]_vars
    PROVE  \/ drain' = drain
           \/ drain' = [d \in Drains |-> Idle]
           \/ \E d \in Drains, rows \in SUBSET Rows, call \in Calls: GoesOn(d, rows, call)
<1> DEFINE Frame == \/ drain' = drain
                    \/ drain' = [d \in Drains |-> Idle]
                    \/ \E d \in Drains, rows \in SUBSET Rows, call \in Calls: GoesOn(d, rows, call)
<1>1. ASSUME NEW d \in Drains, StartDrain(d) PROVE Frame
  <2>1. PICK rows \in SUBSET Rows: drain' = [drain EXCEPT ![d] = [Idle EXCEPT !.rows = rows]]
    <3> DEFINE oldest == Oldest({p \in Rows: Claimable(p)})
               taken == IF client THEN oldest ELSE {}
    <3>1. drain' = [drain EXCEPT ![d] = [Idle EXCEPT !.rows = taken]]
      BY <1>1 DEF StartDrain
    <3>2. taken \in SUBSET Rows
      BY DEF Oldest
    <3> QED BY <3>1, <3>2
  <2>2. [Idle EXCEPT !.rows = rows] = [rows |-> rows, call |-> Plain("none")]
    BY DEF Idle
  <2>3. GoesOn(d, rows, Plain("none"))
    <3>1. drain' = [drain EXCEPT ![d] = [rows |-> rows, call |-> Plain("none")]]
      BY <2>1, <2>2, Zenon
    <3> QED BY <3>1, CallKinds DEF GoesOn, Earned
  <2> QED BY <2>3, CallKinds
<1>2. ASSUME NEW d \in Drains, Settle(d) \/ Defer(d) PROVE Frame
  <2>1. PICK rows \in SUBSET drain[d].rows: GoesOn(d, rows, Plain("none"))
    BY <1>2, NextRowFacts DEF Settle, Defer
  <2>2. rows \in SUBSET Rows
    BY DrainFacts DEF IInv
  <2> QED BY <2>1, <2>2, CallKinds
<1>3. ASSUME NEW d \in Drains, SettleTorn(d) PROVE Frame
  <2>1. drain' = [drain EXCEPT ![d] = [rows |-> {}, call |-> Plain("none")]]
    BY <1>3 DEF SettleTorn, Idle
  <2>2. GoesOn(d, {}, Plain("none"))
    BY <2>1, CallKinds DEF GoesOn, Earned
  <2> QED BY <2>2, CallKinds
<1>4. ASSUME NEW d \in Drains, NEW call \in Calls, Answer(d, call), drain[d].rows # {},
             call.kind = "receipt" => call.of \in accepted'
      PROVE  Frame
  <2>1. drain[d].rows \in SUBSET Rows
    BY DrainFacts DEF IInv
  <2> QED BY <1>4, <2>1, AnswerFacts
<1>5. ASSUME NEW d \in Drains, drain[d].call.kind = "sent" PROVE drain[d].rows # {}
  BY <1>5 DEF IInv, CallsAreEarned
<1>6. ASSUME NEW d \in Drains, MemoryAccepts(d) PROVE Frame
  <2> DEFINE p == First(drain[d].rows)
  <2>1. drain[d].rows # {} /\ p \in Rows /\ p \in Numbers
    BY <1>5, <1>6, DrainFacts, RowsFacts DEF IInv, MemoryAccepts
  <2>2. p \in accepted' /\ Answer(d, Receipt(p, TRUE))
    BY <1>6 DEF MemoryAccepts
  <2>3. Receipt(p, TRUE) \in Calls /\ Receipt(p, TRUE).of = p
    BY <2>1, CallKinds
  <2> HIDE DEF p
  <2> QED BY <1>4, <2>1, <2>2, <2>3
<1>7. ASSUME NEW d \in Drains, MemoryAnswersOddly(d) PROVE Frame
  <2>1. PICK q \in accepted, bound \in BOOLEAN: Answer(d, Receipt(q, bound))
    BY <1>7 DEF MemoryAnswersOddly
  <2>2. q \in Numbers /\ q \in accepted'
    BY <1>7, RowsFacts DEF IInv, TypeOK, MemoryAnswersOddly
  <2>3. Receipt(q, bound) \in Calls /\ Receipt(q, bound).of = q
    BY <2>2, CallKinds
  <2> QED BY <1>4, <1>5, <1>7, <2>1, <2>2, <2>3 DEF MemoryAnswersOddly
<1>8. ASSUME NEW d \in Drains, MemoryRejects(d) \/ CallFails(d) \/ Send(d) PROVE Frame
  BY <1>4, <1>5, <1>8, CallKinds DEF MemoryRejects, CallFails, Send
<1>9. CASE UNCHANGED drain
  BY <1>9
<1>10. CASE Restart
  BY <1>10 DEF Restart
<1> QED
  BY <1>1, <1>2, <1>3, <1>6, <1>7, <1>8, <1>9, <1>10
  DEF Next, CommitBatch, LeaseExpires, StrayArrives, StartDrainTorn, vars

LEMMA DrainType ==
    ASSUME IInv, [Next]_vars PROVE drain' \in [Drains -> [rows: SUBSET Rows', call: Calls]]
<1>1. drain \in [Drains -> DrainRows]
  BY DEF IInv, TypeOK, DrainRows
<1>2. Idle \in DrainRows
  BY CallKinds, Zenon DEF Idle, DrainRows
<1>3. ASSUME NEW d \in Drains, NEW rows \in SUBSET Rows, NEW call \in Calls, GoesOn(d, rows, call)
      PROVE  drain' \in [Drains -> DrainRows]
  <2>1. [rows |-> rows, call |-> call] \in DrainRows
    BY Zenon DEF DrainRows
  <2>2. drain' = [drain EXCEPT ![d] = [rows |-> rows, call |-> call]]
    BY <1>3 DEF GoesOn
  <2> QED BY <1>1, <2>1, <2>2, Zenon
<1>4. drain' \in [Drains -> DrainRows]
  BY <1>1, <1>2, <1>3, DrainFrame
<1>5. DrainRows \subseteq [rows: SUBSET Rows', call: Calls]
  BY RowsGrow DEF DrainRows, IInv
<1> QED BY <1>4, <1>5

LEMMA MemoryType ==
    ASSUME IInv, [Next]_vars PROVE accepted' \subseteq Rows' /\ stray' \subseteq Rows'
<1>1. accepted \subseteq Rows /\ stray \subseteq Rows /\ Rows \subseteq Rows'
  BY RowsGrow DEF IInv, TypeOK
<1>2. \A d \in Drains: drain[d].call.kind = "sent" => First(drain[d].rows) \in Rows
  BY DrainFacts DEF IInv, CallsAreEarned
<1>3. accepted' \subseteq Rows /\ stray' \subseteq Rows
  BY <1>1, <1>2
  DEF Next, CommitBatch, LeaseExpires, StrayArrives, Restart, StartDrain, StartDrainTorn, Send,
      MemoryAccepts, MemoryAnswersOddly, MemoryRejects, CallFails, Settle, Defer, SettleTorn, vars
<1> QED BY <1>1, <1>3

LEMMA TypeStep == IInv /\ [Next]_vars => TypeOK'
<1> SUFFICES ASSUME IInv, [Next]_vars PROVE TypeOK'
  OBVIOUS
<1>1. client' \in Clients
  BY DEF IInv, TypeOK, Next, CommitBatch, LeaseExpires, StrayArrives, Restart, StartDrain,
         StartDrainTorn, Send, MemoryAccepts, MemoryAnswersOddly, MemoryRejects, CallFails,
         Settle, Defer, SettleTorn, vars
<1>2. faults' \in 0..MaxFaults
  <2>1. faults \in 0..MaxFaults /\ MaxFaults \in Nat
    BY OutboxAssumption DEF IInv, TypeOK, OutboxAssumption
  <2>2. faults' = faults \/ (faults < MaxFaults /\ faults' = faults + 1)
    BY DEF Next, CommitBatch, LeaseExpires, StrayArrives, Restart, StartDrain,
           StartDrainTorn, Send, MemoryAccepts, MemoryAnswersOddly, MemoryRejects, CallFails,
           Settle, Defer, SettleTorn, vars
  <2> QED BY <2>1, <2>2
<1> QED BY <1>1, <1>2, TablesType, LeasesType, DrainType, MemoryType DEF TypeOK, States, PubRows

-----------------------------------------------------------------------------
(* The invariants.                                                           *)
LEMMA DeliveredStep == IInv /\ [Next]_vars => DeliveredIsAccepted'
<1> SUFFICES ASSUME IInv, [Next]_vars, NEW p \in Rows'
             PROVE  outbox'[p] = "delivered" \/ publications'[p].receipt => p \in accepted'
  BY DEF DeliveredIsAccepted
<1> USE DEF IInv
<1>1. \A q \in Rows: outbox[q] = "delivered" \/ publications[q].receipt => q \in accepted
  BY DEF DeliveredIsAccepted
<1>2. CASE CommitBatch
  <2>1. CASE p \in Rows
    <3>1. outbox'[p] = outbox[p] /\ publications'[p] = publications[p]
      BY <1>2, <2>1, RowsFacts DEF CommitBatch
    <3> QED BY <1>1, <1>2, <2>1, <3>1 DEF CommitBatch
  <2>2. CASE p \notin Rows
    <3>1. p = Len(outbox) + 1
      BY <1>2, <2>2, RowsFacts DEF CommitBatch, Rows
    <3>2. outbox'[p] = "pending" /\ publications'[p] = [state |-> "pending", receipt |-> FALSE]
      BY <1>2, <3>1, RowsFacts DEF CommitBatch
    <3>3. publications'[p].receipt = FALSE
      BY <3>2
    <3> QED BY <3>2, <3>3
  <2> QED BY <2>1, <2>2
<1>3. ASSUME NEW rows \in SUBSET Rows, Claims(rows), UNCHANGED <<publications, accepted>>
      PROVE  outbox'[p] = "delivered" \/ publications'[p].receipt => p \in accepted'
  <2>1. outbox' = [q \in Rows |-> IF q \in rows THEN "delivering" ELSE outbox[q]]
    BY <1>3 DEF Claims, Claim
  <2>2. p \in Rows
    BY <2>1 DEF Rows
  <2>3. outbox'[p] = "delivered" => outbox[p] = "delivered"
    BY <2>1, <2>2
  <2> QED BY <1>1, <1>3, <2>2, <2>3
<1>4. ASSUME NEW d \in Drains, NEW state \in Settled, Settles(d, state), UNCHANGED accepted
      PROVE  outbox'[p] = "delivered" \/ publications'[p].receipt => p \in accepted'
  <2> DEFINE q == First(drain[d].rows)
  <2>1. q \in Rows /\ outbox' = [outbox EXCEPT ![q] = state]
    BY <1>4, DrainFacts DEF Settles, MarkOutbox
  <2>2. p \in Rows
    BY <2>1 DEF Rows
  <2>3. state = "delivered" => q \in accepted
    BY <1>4 DEF Settles, Outcome, Verified, CallsAreEarned, Settled
  <2>4. CASE p = q
    <3>1. outbox'[p] = state
      BY <2>1, <2>4, RowsFacts
    <3>2. publications'[p].receipt => publications[p].receipt \/ state = "delivered"
      <4>1. CASE UNCHANGED publications
        BY <4>1
      <4>2. CASE MarkPublication(q, state)
        <5>1. publications'[p] =
                [state |-> state, receipt |-> publications[p].receipt \/ state = "delivered"]
          BY <2>1, <2>4, <4>2, RowsFacts, Zenon DEF MarkPublication
        <5> DEFINE b == publications[p].receipt \/ state = "delivered"
        <5>2. publications'[p] = [state |-> state, receipt |-> b]
          BY <5>1
        <5>3. publications'[p].receipt = b
          <6> HIDE DEF b
          <6> QED BY <5>2
        <5> QED BY <5>3, Zenon
      <4> QED BY <1>4, <4>1, <4>2 DEF Settles
    <3> QED BY <1>1, <1>4, <2>2, <2>3, <2>4, <3>1, <3>2
  <2>5. CASE p # q
    <3>1. outbox'[p] = outbox[p]
      BY <2>1, <2>5, <2>2, RowsFacts
    <3>2. publications'[p] = publications[p]
      BY <1>4, <2>2, <2>5, RowsFacts, Zenon DEF Settles, MarkPublication
    <3> QED BY <1>1, <1>4, <2>2, <3>1, <3>2
  <2> QED BY <2>4, <2>5
<1>5. CASE UNCHANGED <<outbox, publications>> /\ accepted \subseteq accepted'
  <2>1. p \in Rows
    BY <1>5 DEF Rows
  <2> QED BY <1>1, <1>5, <2>1
<1> QED BY <1>2, <1>3, <1>4, <1>5, OutboxFrame

(* Claims of a sequence of leases are of different rows.                     *)
Apart(ls) == \A i, j \in DOMAIN ls: i # j => ls[i] \cap ls[j] = {}
LeasedIn(ls, ob) == \A i \in DOMAIN ls: \A p \in ls[i]: ob[p] = "delivering"

LEMMA ClaimedParts == ASSUME TypeOK PROVE ClaimedOnce <=> Apart(leases) /\ LeasedIn(leases, outbox)
BY LeasesFacts DEF ClaimedOnce, Apart, LeasedIn, Leased

LEMMA ApartStep == IInv /\ [Next]_vars => Apart(leases') /\ LeasedIn(leases', outbox')
<1> SUFFICES ASSUME IInv, [Next]_vars PROVE Apart(leases') /\ LeasedIn(leases', outbox')
  OBVIOUS
<1> USE DEF IInv
<1>1. Apart(leases) /\ LeasedIn(leases, outbox)
  BY ClaimedParts
<1>2. CASE CommitBatch
  <2>1. \A p \in Rows: outbox'[p] = outbox[p]
    BY <1>2, RowsFacts DEF CommitBatch
  <2>2. \A i \in DOMAIN leases: leases[i] \subseteq Rows
    BY LeasesFacts
  <2> QED BY <1>1, <1>2, <2>1, <2>2 DEF CommitBatch, LeasedIn
<1>3. ASSUME NEW rows \in SUBSET Rows, Claims(rows)
      PROVE  Apart(leases') /\ LeasedIn(leases', outbox')
  <2> DEFINE last == Len(leases) + 1
  <2>1. leases' = Append(leases, rows)
        /\ outbox' = [p \in Rows |-> IF p \in rows THEN "delivering" ELSE outbox[p]]
    BY <1>3 DEF Claims, Claim
  <2>2. /\ DOMAIN leases' = (DOMAIN leases) \cup {last} /\ leases'[last] = rows
        /\ \A i \in DOMAIN leases: i # last /\ leases'[i] = leases[i] /\ leases[i] \subseteq Rows
    BY <2>1, LeasesFacts
  <2>3. \A i \in DOMAIN leases: leases[i] \cap rows = {}
    BY <1>3 DEF Claims, Claimable, Leased
  <2> HIDE DEF last
  <2>4. Apart(leases')
    BY <1>1, <2>2, <2>3 DEF Apart
  <2>5. LeasedIn(leases', outbox')
    BY <1>1, <2>1, <2>2 DEF LeasedIn
  <2> QED BY <2>4, <2>5
<1>4. ASSUME NEW d \in Drains, NEW state \in Settled, Settles(d, state)
      PROVE  Apart(leases') /\ LeasedIn(leases', outbox')
  <2> DEFINE q == First(drain[d].rows)
  <2>1. /\ outbox' = [outbox EXCEPT ![q] = state]
        /\ leases' = [i \in DOMAIN leases |-> leases[i] \ {q}]
    BY <1>4 DEF Settles, MarkOutbox, Unlease
  <2>2. \A i \in DOMAIN leases: \A p \in leases[i]: p # q => outbox'[p] = outbox[p]
    <3>1. \A p \in Rows: p # q => outbox'[p] = outbox[p]
      BY <2>1, RowsFacts
    <3> QED BY <3>1, LeasesFacts
  <2> HIDE DEF q
  <2> QED BY <1>1, <2>1, <2>2 DEF Apart, LeasedIn
<1>5. CASE leases # <<>> /\ leases' = Tail(leases) /\ UNCHANGED outbox
  <2>1. /\ DOMAIN leases' \subseteq Nat
        /\ \A i \in DOMAIN leases': i + 1 \in DOMAIN leases /\ leases'[i] = leases[i + 1]
    BY <1>5, LeasesFacts
  <2>2. \A i, j \in DOMAIN leases': i # j => i + 1 # j + 1
    BY <2>1
  <2> QED BY <1>1, <1>5, <2>1, <2>2 DEF Apart, LeasedIn
<1>6. CASE UNCHANGED <<leases, outbox>>
  BY <1>1, <1>6
<1> QED BY <1>2, <1>3, <1>4, <1>5, <1>6, OutboxFrame

LEMMA EarnedStep == IInv /\ [Next]_vars => CallsAreEarned'
<1> SUFFICES ASSUME IInv, [Next]_vars, NEW d \in Drains
             PROVE  Earned(drain'[d].rows, drain'[d].call)
  BY DEF CallsAreEarned, Earned
<1>1. accepted \subseteq accepted'
  BY OutboxFrame DEF CommitBatch
<1>2. Earned(drain[d].rows, drain[d].call)
  BY <1>1 DEF IInv, CallsAreEarned, Earned
<1>3. Earned(Idle.rows, Idle.call)
  BY CallKinds DEF Idle, Earned
<1>4. ASSUME NEW e \in Drains, NEW rows, NEW call, GoesOn(e, rows, call)
      PROVE  Earned(drain'[d].rows, drain'[d].call)
  <2>1. drain' = [drain EXCEPT ![e] = [rows |-> rows, call |-> call]] /\ Earned(rows, call)
    BY <1>4 DEF GoesOn
  <2>2. DOMAIN drain = Drains
    BY DEF IInv, TypeOK
  <2>3. drain'[d] = drain[d] \/ (drain'[d].rows = rows /\ drain'[d].call = call)
    BY <2>1, <2>2
  <2> QED BY <1>2, <2>1, <2>3
<1> QED BY <1>2, <1>3, <1>4, DrainFrame

LEMMA InvInit == Init => IInv
<1> SUFFICES ASSUME Init PROVE IInv
  OBVIOUS
<1>1. Idle \in [rows: SUBSET Rows, call: Calls] /\ Idle.call.kind = "none"
  BY CallKinds, Zenon DEF Idle
<1>2. TypeOK
  BY <1>1, OutboxAssumption DEF Init, TypeOK, OutboxAssumption, Rows
<1>3. CallsAreEarned
  BY <1>1 DEF Init, CallsAreEarned
<1> QED BY <1>2, <1>3 DEF Init, IInv, DeliveredIsAccepted, ClaimedOnce, Leased, Rows

LEMMA InvStep == IInv /\ [Next]_vars => IInv'
<1> SUFFICES ASSUME IInv, [Next]_vars PROVE IInv'
  OBVIOUS
<1>1. TypeOK'
  BY TypeStep
<1>2. ClaimedOnce'
  <2>1. Apart(leases)' /\ LeasedIn(leases, outbox)'
    BY ApartStep DEF Apart, LeasedIn
  <2> QED BY <2>1, <1>1 DEF ClaimedOnce, Apart, LeasedIn, Leased
<1> QED BY <1>1, <1>2, DeliveredStep, EarnedStep DEF IInv

-----------------------------------------------------------------------------
(* The inductive invariant holds in every reachable state.                   *)
THEOREM AnswersAreEarned == Spec => []IInv
BY InvInit, InvStep, PTL DEF Spec

(* The tables of the outbox stay in step, row by row, also when one of the   *)
(* two statements that settle a row is not run.                              *)
THEOREM TypeCorrect == Spec => []TypeOK
<1>1. IInv => TypeOK
  BY DEF IInv
<1> QED BY <1>1, AnswersAreEarned, PTL

(* deliverOne, markDelivered: whatever receipts arrive, for which            *)
(* publication, how late and by which drain, a row is marked delivered only  *)
(* when the Memory Service holds its publication.                            *)
THEOREM OnlyAcceptedIsDelivered == Spec => []DeliveredIsAccepted
<1>1. IInv => DeliveredIsAccepted
  BY DEF IInv
<1> QED BY <1>1, AnswersAreEarned, PTL

(* claimBatch: for any number of drains, live claims are of different rows,  *)
(* and a claimed row is not settled.                                         *)
THEOREM NoTwoClaims == Spec => []ClaimedOnce
<1>1. IInv => ClaimedOnce
  BY DEF IInv
<1> QED BY <1>1, AnswersAreEarned, PTL

=============================================================================
