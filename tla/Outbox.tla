------------------------------- MODULE Outbox -------------------------------
(* Delivery of the committed publications to the Memory Service              *)
(* (historian-publication.ts: claimBatch, markDelivered, markFailed;         *)
(* historian-manager.ts: drainOutbox, deliverOne).                           *)
(*                                                                           *)
(* A drain claims the oldest rows that are not settled and not leased, puts  *)
(* ONE lease on them and then delivers them one after the other, awaiting    *)
(* the Memory Service for each.  Nothing stops a second drain from being     *)
(* started meanwhile, and nothing looks at the lease again when an answer    *)
(* arrives, so a row whose lease ran out during the await is claimed and     *)
(* delivered a second time and its two answers come in any order.            *)
(*                                                                           *)
(* Every statement outside commitBatch runs in a transaction of its own.     *)
(* The code between two awaits is one step here unless it fails half way:    *)
(* the ...Torn actions stop after some of its statements.                    *)
(*                                                                           *)
(* deliverOne always passes maxAttempts 1 to markFailed, so a failed row is  *)
(* quarantined at once: the state retry_wait and the backoff lease are not   *)
(* reached, and attempt_count is only reported.                              *)
EXTENDS Naturals, Sequences, FiniteSets

CONSTANTS
    Drains,           \* calls of drainOutbox that can be under way at once
    MaxPublications,  \* bound: publications committed in a behaviour
    BatchSize,        \* claimBatch limit
    MaxFaults,        \* bound: exceptions and crashes
    Clients           \* BOOLEAN values a start of the process can give to
                      \* "a Memory client is configured"

ASSUME OutboxAssumption ==
    /\ MaxPublications \in Nat
    /\ BatchSize \in Nat \ {0}
    /\ MaxFaults \in Nat
    /\ Clients \subseteq BOOLEAN

VARIABLES
    outbox,        \* publication_outbox.state, by outbox_sequence
    publications,  \* publications: [state, receipt], by publication_sequence
    leases,        \* live claims, oldest first: the rows each still leases
    drain,         \* the rows each drain has still to deliver, and its call
    client,        \* memoryClient is configured
    accepted,      \* Memory Service: publications it holds durably
    stray,         \* Memory Service: requests whose caller has gone
    faults         \* exceptions and crashes so far

vars == <<outbox, publications, leases, drain, client, accepted, stray, faults>>

Numbers == 1..MaxPublications
Settled == {"delivered", "quarantined"}

(* The answer to a delivery: a receipt names the publication it is for       *)
(* (publicationId, or originalPublicationId of a duplicate replay) and is    *)
(* bound when its payload hash and its contract version are the expected     *)
(* ones; "rejected"; or nothing that settles the row, which is an exception, *)
(* no outcome, or an error of another kind.                                  *)
Receipt(p, bound) == [kind |-> "receipt", of |-> p, bound |-> bound]
Plain(kind)       == [kind |-> kind, of |-> 0, bound |-> FALSE]
Calls == {Plain(kind): kind \in {"none", "sent", "rejected", "nothing"}}
         \cup {Receipt(p, bound): p \in Numbers, bound \in BOOLEAN}
Idle  == [rows |-> {}, call |-> Plain("none")]

Rows      == DOMAIN outbox
Leased(p) == \E i \in DOMAIN leases: p \in leases[i]

(* Rows are claimed and delivered in the order of outbox_sequence.           *)
First(rows) == CHOOSE p \in rows: \A q \in rows: p <= q

Init ==
    /\ outbox = <<>>
    /\ publications = <<>>
    /\ leases = <<>>
    /\ drain = [d \in Drains |-> Idle]
    /\ client \in Clients
    /\ accepted = {}
    /\ stray = {}
    /\ faults = 0

(* Variant: the publication row is not written.                              *)
CommitOutboxOnly ==
    /\ Len(outbox) < MaxPublications
    /\ outbox' = Append(outbox, "pending")
    /\ UNCHANGED <<publications, leases, drain, client, accepted, stray, faults>>

(* commitBatch writes both rows in the commit transaction of the runner.     *)
CommitBatch ==
    /\ Len(outbox) < MaxPublications
    /\ outbox' = Append(outbox, "pending")
    /\ publications' = Append(publications, [state |-> "pending", receipt |-> FALSE])
    /\ UNCHANGED <<leases, drain, client, accepted, stray, faults>>

-----------------------------------------------------------------------------
(* Claiming.                                                                 *)

(* Variant: the lease is not asked for.                                      *)
ClaimableLeased(p) == outbox[p] \in {"pending", "delivering"}

(* Variant: rows of a claim that died are not claimed again.                 *)
ClaimablePending(p) == outbox[p] = "pending" /\ ~Leased(p)

Claimable(p) == /\ outbox[p] \in {"pending", "delivering"}
                /\ ~Leased(p)

Oldest(S) == {p \in S: Cardinality({q \in S: q < p}) < BatchSize}

Claim(rows) ==
    /\ outbox' = [p \in Rows |-> IF p \in rows THEN "delivering" ELSE outbox[p]]
    /\ leases' = Append(leases, rows)

(* drainOutbox: without a client the claimed rows are left to their lease.   *)
StartDrain(d) ==
    /\ drain[d] = Idle
    /\ LET rows == Oldest({p \in Rows: Claimable(p)})
       IN  /\ rows # {}
           /\ Claim(rows)
           /\ drain' = [drain EXCEPT ![d] =
                          [Idle EXCEPT !.rows = IF client THEN rows ELSE {}]]
    /\ UNCHANGED <<publications, client, accepted, stray, faults>>

(* The rows are marked by one UPDATE each: an exception or a crash leaves a  *)
(* prefix of them claimed by nobody.                                         *)
StartDrainTorn(d) ==
    /\ drain[d] = Idle /\ faults < MaxFaults
    /\ LET rows == Oldest({p \in Rows: Claimable(p)})
       IN  \E last \in rows: Claim({p \in rows: p <= last})
    /\ faults' = faults + 1
    /\ UNCHANGED <<publications, drain, client, accepted, stray>>

(* Time passes: the oldest claim runs out first, whoever still works on it.  *)
LeaseExpires ==
    /\ leases # <<>>
    /\ leases' = Tail(leases)
    /\ UNCHANGED <<outbox, publications, drain, client, accepted, stray, faults>>

-----------------------------------------------------------------------------
(* Delivering.                                                               *)

Answer(d, call) == drain' = [drain EXCEPT ![d] = [rows |-> @.rows, call |-> call]]

(* deliverOne up to its await: the request for the first row is sent.        *)
Send(d) ==
    /\ drain[d].rows # {} /\ drain[d].call.kind = "none"
    /\ Answer(d, Plain("sent"))
    /\ UNCHANGED <<outbox, publications, leases, client, accepted, stray, faults>>

(* The Memory Service holds the publication and answers with its receipt; a  *)
(* publication it holds already is answered in the same way (a replay).      *)
MemoryAccepts(d) ==
    /\ drain[d].call.kind = "sent"
    /\ LET p == First(drain[d].rows)
       IN  /\ accepted' = accepted \cup {p}
           /\ Answer(d, Receipt(p, TRUE))
    /\ UNCHANGED <<outbox, publications, leases, client, stray, faults>>

(* A receipt the checks of deliverOne exist for: it is for a publication the *)
(* Memory Service already holds and which need not be the one that was sent, *)
(* or its payload hash or contract version is not the expected one.          *)
MemoryAnswersOddly(d) ==
    /\ drain[d].call.kind = "sent"
    /\ \E q \in accepted, bound \in BOOLEAN: Answer(d, Receipt(q, bound))
    /\ UNCHANGED <<outbox, publications, leases, client, accepted, stray, faults>>

MemoryRejects(d) ==
    /\ drain[d].call.kind = "sent" /\ First(drain[d].rows) \notin accepted
    /\ Answer(d, Plain("rejected"))
    /\ UNCHANGED <<outbox, publications, leases, client, accepted, stray, faults>>

(* The call fails; the request may have reached the Memory Service or be     *)
(* under way to it.                                                          *)
CallFails(d) ==
    /\ drain[d].call.kind = "sent"
    /\ Answer(d, Plain("nothing"))
    /\ stray' \in {stray, stray \cup {First(drain[d].rows)}}
    /\ UNCHANGED <<outbox, publications, leases, client, accepted, faults>>

StrayArrives ==
    /\ \E p \in stray: /\ stray' = stray \ {p}
                       /\ accepted' \in {accepted, accepted \cup {p}}
    /\ UNCHANGED <<outbox, publications, leases, drain, client, faults>>

-----------------------------------------------------------------------------
(* Settling: deliverOne after its await.                                     *)

(* Variant: the receipt may be for any publication.                          *)
VerifiedForAny(call, p) == call.kind = "receipt" /\ call.bound

Verified(call, p) == call.kind = "receipt" /\ call.of = p /\ call.bound

Fails(call, p) == \/ call.kind = "rejected"
                  \/ call.kind = "receipt" /\ ~Verified(call, p)

(* The claim itself stays, of no rows in the end, until it runs out.         *)
Unlease(p) == leases' = [i \in DOMAIN leases |-> leases[i] \ {p}]

MarkOutbox(p, state) == /\ outbox' = [outbox EXCEPT ![p] = state]
                        /\ Unlease(p)

MarkPublication(p, state) ==
    publications' = [publications EXCEPT
        ![p] = [state |-> state, receipt |-> @.receipt \/ state = "delivered"]]

(* markDelivered and markFailed update both tables, the outbox first, for    *)
(* the publication id alone: neither asks for the row's state or lease.      *)
Mark(p, state) == MarkOutbox(p, state) /\ MarkPublication(p, state)

(* What is written when the second of the two statements does not run.       *)
MarkTorn(p, state) == MarkOutbox(p, state) /\ UNCHANGED publications

Outcome(d, state) ==
    LET p == First(drain[d].rows)
    IN  \/ Verified(drain[d].call, p) /\ state = "delivered"
        \/ Fails(drain[d].call, p) /\ state = "quarantined"

NextRow(d) ==
    drain' = [drain EXCEPT ![d] = [rows |-> @.rows \ {First(@.rows)}, call |-> Plain("none")]]

Settle(d) ==
    /\ drain[d].rows # {}
    /\ \E state \in Settled: Outcome(d, state) /\ Mark(First(drain[d].rows), state)
    /\ NextRow(d)
    /\ UNCHANGED <<client, accepted, stray, faults>>

(* The row stays "delivering" until its lease has run out.                   *)
Defer(d) ==
    /\ drain[d].call.kind = "nothing"
    /\ NextRow(d)
    /\ UNCHANGED <<outbox, publications, leases, client, accepted, stray, faults>>

(* The statements that settle the row throw, before the first or between the *)
(* two; the exception ends the drain and its other rows keep their lease.    *)
SettleTorn(d) ==
    /\ drain[d].rows # {} /\ faults < MaxFaults
    /\ \E state \in Settled:
         /\ Outcome(d, state)
         /\ \/ MarkTorn(First(drain[d].rows), state)
            \/ UNCHANGED <<outbox, publications, leases>>
    /\ drain' = [drain EXCEPT ![d] = Idle]
    /\ faults' = faults + 1
    /\ UNCHANGED <<client, accepted, stray>>

(* The process stops, or the service closes its store, and starts again,     *)
(* possibly with another configuration.  Rows and leases are durable.  A     *)
(* crash between the two statements is SettleTorn followed by this.          *)
Restart ==
    /\ faults < MaxFaults
    /\ drain' = [d \in Drains |-> Idle]
    /\ stray' = stray \cup {First(drain[d].rows): d \in {e \in Drains: drain[e].call.kind = "sent"}}
    /\ client' \in Clients
    /\ faults' = faults + 1
    /\ UNCHANGED <<outbox, publications, leases, accepted>>

Next ==
    \/ CommitBatch
    \/ LeaseExpires
    \/ StrayArrives
    \/ Restart
    \/ \E d \in Drains:
         \/ StartDrain(d) \/ StartDrainTorn(d) \/ Send(d)
         \/ MemoryAccepts(d) \/ MemoryAnswersOddly(d) \/ MemoryRejects(d) \/ CallFails(d)
         \/ Settle(d) \/ Defer(d) \/ SettleTorn(d)

Spec == Init /\ [][Next]_vars

(* Fairness: the host drains again and again (nothing in the repository does *)
(* so by itself), time passes, every call of the client ends, and a row that *)
(* is sent again and again is at some time answered for good.                *)
MemoryAnswers(d) ==
    MemoryAccepts(d) \/ MemoryAnswersOddly(d) \/ MemoryRejects(d) \/ CallFails(d)

SettlingAnswer(p) ==
    \E d \in Drains: /\ drain[d].rows # {} /\ First(drain[d].rows) = p
                     /\ MemoryAccepts(d) \/ MemoryRejects(d)

FairSpec ==
    /\ Spec
    /\ WF_vars(LeaseExpires)
    /\ \A d \in Drains: /\ WF_vars(StartDrain(d))
                        /\ WF_vars(Send(d))
                        /\ WF_vars(MemoryAnswers(d))
                        /\ WF_vars(Settle(d) \/ Defer(d))
    /\ \A p \in Numbers: SF_vars(SettlingAnswer(p))

-----------------------------------------------------------------------------
(* Properties.                                                               *)

(* Every row has one of the states the code writes, both tables have one row *)
(* per publication, and a drain works on rows that exist.                    *)
TypeOK ==
    /\ outbox \in Seq({"pending", "delivering"} \cup Settled)
    /\ publications \in Seq([state: {"pending"} \cup Settled, receipt: BOOLEAN])
    /\ Len(outbox) = Len(publications) /\ Len(outbox) <= MaxPublications
    /\ leases \in Seq(SUBSET Rows)
    /\ drain \in [Drains -> [rows: SUBSET Rows, call: Calls]]
    /\ client \in Clients
    /\ accepted \subseteq Rows /\ stray \subseteq Rows
    /\ faults \in 0..MaxFaults

(* historian-manager.ts:220: "delivered" is only ever authorised by a        *)
(* receipt bound to this publication.  Whatever receipts arrive, for which   *)
(* publication, how late and by which drain, a row marked delivered and a    *)
(* stored receipt mean that the Memory Service holds the publication.        *)
DeliveredIsAccepted ==
    \A p \in Rows: outbox[p] = "delivered" \/ publications[p].receipt => p \in accepted

(* A row is under one live claim at most, and only while it is not settled:  *)
(* as long as the drain keeps within its lease, no other drain sends the     *)
(* same publication.                                                         *)
ClaimedOnce ==
    /\ \A i, j \in DOMAIN leases: i # j => leases[i] \cap leases[j] = {}
    /\ \A p \in Rows: Leased(p) => outbox[p] = "delivering"

(* Every committed publication is in the end delivered or quarantined,       *)
(* although claims die with their drain and calls fail without an answer, if *)
(* the process is in the end started with a Memory client.                   *)
EveryPublicationSettled ==
    <>[]client =>
        \A p \in Numbers: p \in Rows ~> (p \in Rows /\ outbox[p] \in Settled)
=============================================================================
