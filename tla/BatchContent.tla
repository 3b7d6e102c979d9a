----------------------------- MODULE BatchContent -----------------------------
(***************************************************************************)
(* What the Historian makes of the units of one lineage: a batch is frozen *)
(* after the cursor within the budgets, its compartment tells the units    *)
(* that are not excluded, anti-echo selects the ones that are evidence,    *)
(* and each run of units of one role becomes one observation.  A BUST      *)
(* later represents the compartments, and the manager answers how much of  *)
(* the raw archive may be cut.                                             *)
(*                                                                         *)
(* HistorianCommit has the jobs, receipts and crashes; here a frozen batch *)
(* runs, or a later trigger replaces it before it has.                     *)
(***************************************************************************)
EXTENDS Naturals, Sequences, FiniteSets, FiniteSetsExt

CONSTANTS
  Shapes,      \* the units that may be admitted, see UnitShapes
  MaxSeq,      \* bound: units admitted
  MaxUnits,    \* units of a batch, 0 for no budget
  MaxTokens    \* tokens of a batch, 0 for no budget

(* kind: of the runtime event; an admitted derived unit has none           *)
(* ("operational").  memory: the unit refers to memories, compartments or  *)
(* a work snapshot.  back: it cites the unit that many places before it as *)
(* its source, 0 for none.  tokens: of its content, at least 1.            *)
UnitShapes ==
  [kind : {"user", "assistant", "tool_result", "operational"},
   disposition : {"include", "reference_only", "exclude"},
   memory : BOOLEAN, back : Nat, tokens : Nat \ {0}]

ASSUME ContentAssumption ==
  /\ Shapes \subseteq UnitShapes
  /\ MaxSeq \in Nat /\ MaxUnits \in Nat /\ MaxTokens \in Nat

VARIABLES
  log,           \* context_units by contextSeq
  cursor,        \* processedThroughContextSeq
  frozen,        \* throughContextSeq of the batch in the queue, 0 for none
  publications,  \* the compartments and publications, in commit order
  represented    \* representedThroughContextSeq, 0 for null

vars == <<log, cursor, frozen, publications, represented>>

Init == log = << >> /\ cursor = 0 /\ frozen = 0 /\ publications = << >> /\ represented = 0

(***************************************************************************)
(* The units.                                                              *)
(***************************************************************************)
Included(u) == log[u].disposition = "include"
Observed(u) == log[u].kind \in {"user", "tool_result"}
Sources(u) == IF log[u].back = 0 THEN {} ELSE {u - log[u].back}
HasRefs(u) == log[u].memory \/ Sources(u) # {}

(* isDerivedOnlyUnit.                                                      *)
DerivedOnly(u) == ~ Observed(u) /\ HasRefs(u)

(* unitSemanticMetadata and attributionRoleFor tell the same four classes. *)
Roles == {"user", "iris_decision", "tool_observation", "external_document"}
RoleOf(u) ==
  CASE log[u].kind = "user"        -> "user"
    [] log[u].kind = "assistant"   -> "iris_decision"
    [] log[u].kind = "tool_result" -> "tool_observation"
    [] OTHER                       -> "external_document"

Analysed(batch) == {u \in batch : log[u].disposition # "exclude"}

(***************************************************************************)
(* classifyEvidenceBasis.  Wrong variant: any included unit of the batch   *)
(* is a new observation an answer can be grounded in.                      *)
(***************************************************************************)
AnyIncluded(batch) == {u \in batch : Included(u)}
NewObservations(batch) == {u \in batch : Included(u) /\ Observed(u) /\ ~ HasRefs(u)}

Grounded(u, batch) ==
  log[u].kind = "assistant" /\ Sources(u) \cap NewObservations(batch) # {}

Evidence(batch) == {u \in batch : Included(u) /\ (Grounded(u, batch) \/ ~ DerivedOnly(u))}

(***************************************************************************)
(* authorMemoryObservations: the units told, cut where the role changes.   *)
(* Wrong variant: one observation for all the units of a role.             *)
(***************************************************************************)
RunByRole(u, batch) == {v \in Analysed(batch) : RoleOf(v) = RoleOf(u)}
RunOf(u, batch) ==
  {v \in Analysed(batch) : \A x \in Analysed(batch) :
     x \in (u..v) \cup (v..u) => RoleOf(x) = RoleOf(u)}

Observations(batch) ==
  {[from |-> Min(run), through |-> Max(run), units |-> run,
    evidence |-> run \cap Evidence(batch), derivedOnly |-> Evidence(batch) = {}] :
     run \in {RunOf(u, batch) : u \in Analysed(batch)}}

(* buildCompartment, its attribution manifest included.                    *)
Publication(batch) ==
  [start |-> Min(Analysed(batch)), end |-> Max(Analysed(batch)),
   manifest |-> [r \in {RoleOf(u) : u \in Analysed(batch)} |->
                   {u \in Analysed(batch) : RoleOf(u) = r}],
   evidence |-> Evidence(batch), derivedOnly |-> Evidence(batch) = {},
   observations |-> Observations(batch)]

(***************************************************************************)
(* The actions.                                                            *)
(***************************************************************************)
Admit ==
  /\ Len(log) < MaxSeq
  /\ \E shape \in Shapes : shape.back <= Len(log) /\ log' = Append(log, shape)
  /\ UNCHANGED <<cursor, frozen, publications, represented>>

(* freezeBatch: at most MaxUnits units, cut before the first one that      *)
(* exceeds the tokens, which may be the first of the batch.                *)
TokensThrough(t) == MapThenSumSet(LAMBDA u : log[u].tokens, cursor + 1 .. t)
Within(t) ==
  /\ MaxUnits # 0 => t - cursor <= MaxUnits
  /\ MaxTokens # 0 => TokensThrough(t) <= MaxTokens
FreezeThrough == Max({cursor} \cup {t \in cursor + 1 .. Len(log) : Within(t)})

(* triggerIncremental: an empty batch is not enqueued.                     *)
TriggerIncremental ==
  /\ FreezeThrough > cursor
  /\ frozen' = FreezeThrough
  /\ UNCHANGED <<log, cursor, publications, represented>>

(* HistorianRunner.run: the cursor passes the batch, whether or not there  *)
(* was something to tell.                                                  *)
RunBatch ==
  /\ frozen > cursor
  /\ LET batch == cursor + 1 .. frozen
     IN publications' = IF Analysed(batch) = {} THEN publications
                        ELSE Append(publications, Publication(batch))
  /\ cursor' = frozen
  /\ frozen' = 0
  /\ UNCHANGED <<log, represented>>

(* A BUST represents compartments up to some committed one.  Wrong variant *)
(* of its watermark: the cursor.                                           *)
AtCursor(p) == cursor
Watermark(p) == p.end
Represent ==
  /\ \E i \in DOMAIN publications :
       /\ Watermark(publications[i]) > represented
       /\ represented' = Watermark(publications[i])
  /\ UNCHANGED <<log, cursor, frozen, publications>>

Next == Admit \/ TriggerIncremental \/ RunBatch \/ Represent

Spec == Init /\ [][Next]_vars

(***************************************************************************)
(* authorizeCompaction: before the tail that the latest batch protects,    *)
(* and only what a BUST represents.  A batch is recorded when it runs, so  *)
(* the latest one ends at the cursor.  Wrong variant: a lineage without a  *)
(* watermark is cut up to the tail.                                        *)
(***************************************************************************)
CutThroughTail(tail, watermark) == IF watermark = 0 THEN tail - 1 ELSE Min({tail - 1, watermark})
AuthorizedCut(tail, watermark) == IF watermark = 0 THEN 0 ELSE Min({tail - 1, watermark})
CompactionCut == IF cursor = 0 THEN 0 ELSE AuthorizedCut(cursor + 1, represented)

-------------------------------------------------------------------------------
(***************************************************************************)
(* Properties.                                                             *)
(***************************************************************************)
Seqs == 1..MaxSeq
ObservationRows ==
  [from : Seqs, through : Seqs, units : SUBSET Seqs, evidence : SUBSET Seqs, derivedOnly : BOOLEAN]
Manifests == UNION {[present -> (SUBSET Seqs) \ {{}}] : present \in SUBSET Roles}
Publications ==
  [start : Seqs, end : Seqs, manifest : Manifests, evidence : SUBSET Seqs, derivedOnly : BOOLEAN,
   observations : SUBSET ObservationRows]

(* Types, and the watermark is the end of a compartment.                   *)
TypeOK ==
  /\ log \in Seq(Shapes) /\ Len(log) <= MaxSeq
  /\ cursor \in 0..Len(log) /\ frozen \in {0} \cup (cursor + 1 .. Len(log))
  /\ publications \in Seq(Publications)
  /\ \A i \in DOMAIN publications : publications[i].end \in publications[i].start .. cursor
  /\ represented \in {0} \cup {publications[i].end : i \in DOMAIN publications}

(* The observations, each with the number of its publication.              *)
Told ==
  {t \in (DOMAIN publications) \X UNION {publications[i].observations : i \in DOMAIN publications} :
     t[2] \in publications[t[1]].observations}
Attributed(u) ==
  {a \in (DOMAIN publications) \X Roles :
     /\ a[2] \in DOMAIN publications[a[1]].manifest
     /\ u \in publications[a[1]].manifest[a[2]]}

(* However the units are cut into batches by budgets and triggers: every   *)
(* unit that the cursor passed and that is not excluded is stated by       *)
(* exactly one observation and attributed to exactly one role, the ranges  *)
(* of the observations of a lineage are disjoint, so the identity derived  *)
(* from the range is unique (observationIdOf), and every reference of an   *)
(* evidence basis rides in the observation that states its unit.           *)
ProcessedIsTold ==
  /\ \A u \in Analysed(1..cursor) :
       /\ Cardinality({t \in Told : u \in t[2].units}) = 1
       /\ Cardinality(Attributed(u)) = 1
  /\ \A s, t \in Told : s # t => s[2].through < t[2].from \/ t[2].through < s[2].from
  /\ \A i \in DOMAIN publications :
       /\ UNION {o.evidence : o \in publications[i].observations} = publications[i].evidence
       /\ \A u \in publications[i].evidence : u \in publications[i].start .. publications[i].end

(* "只有 disposition=include ... 的 ContextUnit 可以成为新 MemoryObservation *)
(* 的 source basis" (anti-echo.ts): no chain of answers that cite one      *)
(* another makes a memory into evidence.  Following the citations of an    *)
(* evidence unit ends, within its own batch, at an included unit that is   *)
(* from outside (user, tool) or refers to nothing: it is in every set that *)
(* has these and the included units citing one of its members.             *)
Closed(units) ==
  \A u \in 1..Len(log) :
    Included(u) /\ (Observed(u) \/ ~ HasRefs(u) \/ Sources(u) \cap units # {}) => u \in units
Rooted(u) == \A units \in SUBSET (1..Len(log)) : Closed(units) => u \in units
NoEchoIsEvidence ==
  \A i \in DOMAIN publications :
    LET p == publications[i]
    IN  \A u \in p.evidence :
          Rooted(u) /\ (DerivedOnly(u) => Sources(u) \cap (p.start .. p.end) # {})

(* "只有已进入 Compartment（已物化）的内容才能被后续归档/裁剪"             *)
(* (compaction-trigger.ts): what the raw archive may lose is excluded, or  *)
(* stated by a compartment that a BUST has represented.                    *)
CutIsRepresented ==
  \A u \in Analysed(1..CompactionCut) :
    \E i \in DOMAIN publications :
      publications[i].end <= represented /\ u \in publications[i].start .. publications[i].end

(* memory-publication.ts:51: "derivedOnly=true 表示该 observation 只是复述  *)
(* 既有记忆": an observation of which every unit only retells memories is  *)
(* marked.  The code marks by batch, so it does not hold.                  *)
EchoIsMarked ==
  \A t \in Told :
    (\A u \in t[2].units : Included(u) /\ DerivedOnly(u) /\ Sources(u) = {}) => t[2].derivedOnly
===============================================================================
