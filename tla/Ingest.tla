------------------------------- MODULE Ingest -------------------------------
(* The two ways into the unit ledger of one lineage: runtime events          *)
(* (context-ingest.ts, context-store.ts: ingestRuntimeEvent, insertUnit,     *)
(* ensureUnitsUpTo) and admitted messages (context-admission.ts,             *)
(* admitContextUnit).                                                        *)
(*                                                                           *)
(* An ingested event and its unit are written in one transaction with one    *)
(* context_seq.  A companion event has no unit: it marks the user unit of    *)
(* the event it names as paired when its hash proves that event's text.  The *)
(* ledger port writes an event alone and the replay gives missing units to   *)
(* committed events, each in a transaction of its own.  Admission numbers    *)
(* its units after the last UNIT, the other paths after the last row of      *)
(* either table.                                                             *)
(*                                                                           *)
(* An event id stands for its input: a retry of a call carries the same      *)
(* input.  Input says what an event is; only inputs that pass validateInput  *)
(* are given, the others change nothing.  Payloads are equal when their ids  *)
(* are, and tool results behave as assistant messages do.                    *)
EXTENDS Naturals, FiniteSets, FiniteSetsExt

CONSTANTS
    EventIds,   \* ids the runtime gives to its events
    Input,      \* the input behind each id
    Keys,       \* idempotency keys
    Messages,   \* messages the admission path may be given
    Sessions,   \* runtime sessions
    SoftCap,    \* maxUnitsPerSession
    None        \* no event

UnitKinds  == {"user", "assistant"}
Kinds      == UnitKinds \cup {"operational"}
InputTypes ==
    [kind: Kinds,
     key: Keys,
     meta: BOOLEAN,                      \* the payload is a CompanionPayload
     companionOf: EventIds \cup {None},  \* the main event of a companion
     proves: EventIds \cup {None}]       \* the event whose text its hash is of

ASSUME IngestAssumption ==
    /\ Input \in [EventIds -> InputTypes]
    /\ EventIds \cap Messages = {}
    /\ None \notin EventIds \cup Messages
    /\ IsFiniteSet(EventIds) /\ IsFiniteSet(Messages)
    /\ SoftCap \in Nat \ {0}
    /\ Sessions # {}

VARIABLES
    events,     \* runtime_events: [id, seq, port], port is "ingest" or "ledger"
    units,      \* context_units: [src, seq, kind, disp, companion, paired]
    current,    \* the session the lineage is bound to
    emergency,  \* emergency_state is emergency_fail_closed
    replayed    \* the last call was a replay that went through every event

vars == <<events, units, current, emergency, replayed>>

HardCap == 2 * SoftCap
LastSeq == Cardinality(EventIds) + Cardinality(Messages)
Seqs    == 1..LastSeq

HasEvent(e)      == \E ev \in events: ev.id = e
KeyTaken(e)      == \E ev \in events: Input[ev.id].key = Input[e].key
HasUnit(us, src) == \E u \in us: u.src = src
LastUnit         == Max({0} \cup {u.seq: u \in units})
NextSeq          == Max({LastUnit} \cup {ev.seq: ev \in events}) + 1

(* Outside recovery only the current session resolves to the lineage.        *)
Resolves(s, recovery) == recovery \/ s = current

IsCompanion(i) == i.companionOf # None \/ (i.kind = "operational" /\ i.meta)
Builds(i)      == ~IsCompanion(i) /\ i.kind \in UnitKinds

\* Variant: the hash of the companion is not looked at.
MergeUnproved(us, e, i) ==
    {IF u.src = i.companionOf /\ u.kind = "user" /\ ~u.paired
     THEN [u EXCEPT !.companion = e, !.paired = TRUE]
     ELSE u: u \in us}

(* mergeCompanion: the named user unit, unless it is paired already.         *)
MergeCompanion(us, e, i) ==
    {IF u.src = i.companionOf /\ u.kind = "user" /\ ~u.paired
     THEN [u EXCEPT !.companion = e, !.paired = (i.proves = u.src)]
     ELSE u: u \in us}

Full(us) == Cardinality(us) >= HardCap

(* The row a unit gets: beyond the soft cap it is excluded.                  *)
Row(us, src, seq, kind, paired) ==
    [src |-> src, seq |-> seq, kind |-> kind, paired |-> paired,
     companion |-> None,
     disp |-> IF Cardinality(us) >= SoftCap THEN "exclude" ELSE "include"]

(* foldUserPayload: a marker on a user event pairs it when it proves its own *)
(* text.                                                                     *)
Marks(e, i) == i.kind = "user" /\ i.proves = e
UnitOf(us, e, i, seq) == Row(us, e, seq, i.kind, Marks(e, i))

Init ==
    /\ events = {}
    /\ units = {}
    /\ current \in Sessions
    /\ emergency = FALSE
    /\ replayed = FALSE

-----------------------------------------------------------------------------
(* ContextIngest.ingestRuntimeEvent: an id that is in the ledger changes     *)
(* nothing.  A key that is taken writes no event, and the call goes on.      *)
Record(e, port) ==
    events' = IF KeyTaken(e) THEN events
              ELSE events \cup {[id |-> e, seq |-> NextSeq, port |-> port]}

NeedsUnit(e) == Builds(Input[e]) /\ ~HasUnit(units, e)

Ingest(e, s, recovery) ==
    /\ Resolves(s, recovery)
    /\ ~HasEvent(e)
    /\ ~(NeedsUnit(e) /\ Full(units))
    /\ Record(e, "ingest")
    /\ units' = CASE IsCompanion(Input[e]) -> MergeCompanion(units, e, Input[e])
                  [] NeedsUnit(e) -> units \cup {UnitOf(units, e, Input[e], NextSeq)}
                  [] OTHER -> units
    /\ replayed' = FALSE
    /\ UNCHANGED <<current, emergency>>

\* Variant: the event is not rolled back.
RefusedHalfDone(e, s, recovery) ==
    /\ Resolves(s, recovery)
    /\ ~HasEvent(e)
    /\ NeedsUnit(e) /\ Full(units)
    /\ Record(e, "ingest")
    /\ emergency' \in {emergency, emergency \/ s = current}
    /\ replayed' = FALSE
    /\ UNCHANGED <<units, current>>

(* The hard cap: the transaction is rolled back and the lineage is marked in *)
(* another one, which a crash may prevent and which fails, silently, for a   *)
(* session that is not current.                                              *)
IngestRefused(e, s, recovery) ==
    /\ Resolves(s, recovery)
    /\ ~HasEvent(e)
    /\ NeedsUnit(e) /\ Full(units)
    /\ emergency' \in {emergency, emergency \/ s = current}
    /\ replayed' = FALSE
    /\ UNCHANGED <<events, units, current>>

(* ContextStore.ingest, the ledger port: the event and nothing else.         *)
IngestEvent(e, s) ==
    /\ s = current
    /\ ~HasEvent(e) /\ ~KeyTaken(e)
    /\ Record(e, "ledger")
    /\ replayed' = FALSE
    /\ UNCHANGED <<units, current, emergency>>

(* ContextAdmission.admit with admitContextUnit: a message that has its unit *)
(* changes nothing; one beyond the hard cap is refused without a mark.       *)
Admit(m, s) ==
    /\ s = current
    /\ ~Full(units)
    /\ ~HasUnit(units, m)
    /\ units' = units \cup {Row(units, m, LastUnit + 1, "user", FALSE)}
    /\ replayed' = FALSE
    /\ UNCHANGED <<events, current, emergency>>

-----------------------------------------------------------------------------
(* ensureUnitsUpTo, one event at a time until one of them throws.  What it   *)
(* replays is rebuilt from the ledger row, which does not hold companionOf.  *)
Rebuilt(i) == [i EXCEPT !.companionOf = None]

\* Variant: the table has no key on context_seq.
SeqNeverTaken(us, seq) == FALSE
SeqTaken(us, seq) == \E u \in us: u.seq = seq

Start == [units |-> units, thrown |-> FALSE, capped |-> FALSE]

\* Variant: an insert that fails is passed over.
ReplayIgnoringErrors(acc, ev) ==
    LET i == Rebuilt(Input[ev.id])
    IN  CASE IsCompanion(i) ->
               [acc EXCEPT !.units = MergeCompanion(@, ev.id, i)]
          [] Builds(i) /\ ~HasUnit(acc.units, ev.id)
               /\ ~Full(acc.units) /\ ~SeqTaken(acc.units, ev.seq) ->
               [acc EXCEPT !.units = @ \cup {UnitOf(@, ev.id, i, ev.seq)}]
          [] OTHER -> acc

ReplayOne(acc, ev) ==
    LET i == Rebuilt(Input[ev.id])
    IN  CASE acc.thrown -> acc
          [] ~acc.thrown /\ IsCompanion(i) ->
               [acc EXCEPT !.units = MergeCompanion(@, ev.id, i)]
          [] ~acc.thrown /\ Builds(i) /\ ~HasUnit(acc.units, ev.id) ->
               IF Full(acc.units) \/ SeqTaken(acc.units, ev.seq)
               THEN [acc EXCEPT !.thrown = TRUE, !.capped = Full(acc.units)]
               ELSE [acc EXCEPT !.units = @ \cup {UnitOf(@, ev.id, i, ev.seq)}]
          [] OTHER -> acc

(* Where the replay is when it has been through the events up to a number.   *)
EventAt(seq) == CHOOSE ev \in events: ev.seq = seq
After[seq \in 0..LastSeq] ==
    IF seq = 0 THEN Start
    ELSE IF \E ev \in events: ev.seq = seq
         THEN ReplayOne(After[seq - 1], EventAt(seq))
         ELSE After[seq - 1]

(* A call has a limit, and may crash between two events: it ends after some  *)
(* event.  An insert beyond the hard cap marks the lineage, in its own       *)
(* transaction, when the call names a session, which recovery does not.      *)
Replay(s, recovery, through) ==
    /\ Resolves(s, recovery)
    /\ units' = After[through].units
    /\ emergency' = (emergency \/ (After[through].capped /\ ~recovery))
    /\ replayed' = (~After[through].thrown /\ \A ev \in events: ev.seq <= through)
    /\ UNCHANGED <<events, current>>

(* bindCurrentSession: the host binds another session.                       *)
Rollover(s) ==
    /\ s # current
    /\ current' = s
    /\ replayed' = FALSE
    /\ UNCHANGED <<events, units, emergency>>

Next ==
    \/ \E e \in EventIds, s \in Sessions, recovery \in BOOLEAN:
          \/ Ingest(e, s, recovery)
          \/ IngestRefused(e, s, recovery)
    \/ \E e \in EventIds, s \in Sessions: IngestEvent(e, s)
    \/ \E m \in Messages, s \in Sessions: Admit(m, s)
    \/ \E s \in Sessions, recovery \in BOOLEAN,
          through \in {0} \cup {ev.seq: ev \in events}:
          Replay(s, recovery, through)
    \/ \E s \in Sessions: Rollover(s)

Spec == Init /\ [][Next]_vars

-----------------------------------------------------------------------------
(* The rows of the two tables have their types and their keys, and the three *)
(* paths that insert share the caps: at most SoftCap units are shown, never  *)
(* more than the hard cap exist, and a marked lineage has reached it.        *)
TypeOK ==
    /\ events \subseteq [id: EventIds, seq: Seqs, port: {"ingest", "ledger"}]
    /\ units \subseteq [src: EventIds \cup Messages, seq: Seqs, kind: UnitKinds,
                        disp: {"include", "exclude"},
                        companion: EventIds \cup {None}, paired: BOOLEAN]
    /\ \A a, b \in events: (a.id = b.id \/ a.seq = b.seq) => a = b
    /\ \A a, b \in units: (a.src = b.src \/ a.seq = b.seq) => a = b
    /\ current \in Sessions
    /\ emergency \in BOOLEAN
    /\ replayed \in BOOLEAN
    /\ Cardinality({u \in units: u.disp = "include"}) <= SoftCap
    /\ Cardinality(units) <= HardCap
    /\ emergency => Cardinality(units) = HardCap

(* The event and its unit are committed together or not at all               *)
(* (ingestRuntimeEvent): an event without the unit it calls for can only     *)
(* have come through the ledger port, whatever was refused, replayed or cut  *)
(* short meanwhile; and a unit has the context_seq of its event, also when a *)
(* replay made it long after other units were admitted.  A unit without an   *)
(* event in the ledger is one whose idempotency key another event holds.     *)
IngestIsAtomic ==
    /\ \A ev \in events:
          ev.port = "ingest" /\ Builds(Input[ev.id]) => HasUnit(units, ev.id)
    /\ \A u \in units: u.src \in EventIds =>
          IF HasEvent(u.src)
          THEN \A ev \in events: ev.id = u.src => ev.seq = u.seq
          ELSE KeyTaken(u.src)

(* A paired unit was proved to be: by the marker of its own event, or by a   *)
(* companion that names it and whose hash is of its text.  However           *)
(* companions, retries and replays are ordered, no unproved one pairs it     *)
(* ("never mis-pair", mergeCompanion).                                       *)
PairedIsProved ==
    \A u \in units: u.paired =>
        \/ u.companion = None /\ Input[u.src].proves = u.src
        \/ /\ u.companion # None
           /\ Input[u.companion].companionOf = u.src
           /\ Input[u.companion].proves = u.src

(* A replay that goes through the whole ledger leaves no event without the   *)
(* unit it calls for: it heals or it throws, whatever units were admitted    *)
(* under the numbers it needs.                                               *)
ReplayHeals ==
    replayed => \A ev \in events: Builds(Input[ev.id]) => HasUnit(units, ev.id)
=============================================================================
