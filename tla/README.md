# Verification of iris-context

TLA+ models of iris-context, TLC runs that check them on small instances, and
theorems that TLAPS checks for every value of the constants. Paths are relative
to the repository; `PROJECT.json` gives, for each definition, the lines it
stands for.

## 1. The system

iris-context keeps the context of an agent. **Context** (context.db) admits
runtime messages as units of a lineage, in the order of their `contextSeq`. The
**Historian** (historian.db) freezes windows of units after its cursor, turns
each window into a compartment and a publication, and acknowledges it to
Context. A **canonical BUST** rebuilds the current generation: committed
compartments become layer P3, the units no compartment covers stay live in
layer P5, recalled memories become P4, and the lineage's represented/retired
watermark moves to the last compartment. The **outbox** delivers publications
to an external Memory Service.

### Inventory

| component | state | operations | what is hard | what makes it correct |
|---|---|---|---|---|
| context-store: units (`context-store.ts`) | `context_units` rows with disposition and lifecycle state; represented/retired watermark | admit, acknowledge, mark represented and retired, reclaim payloads, legacy migration | acknowledgements come late, twice or after representation | only told units retire; the watermark and the generation agree |
| context-store: session ledger | `context_lineages`, `session_lineage_bindings`, staging table, archive file | create lineage, bind session, reconcile, reclaim, archive | five transactions over two databases; limits tested while pruning changes them; sessions that return | current rows agree with lineages; no audit row lost; unreconciled sessions resolve |
| context-admission, context-ingest | none of their own | admit a message exactly once; soft and hard caps | a retry of what was admitted; the boundary of the caps | one unit per source; caps fail closed |
| history-read-port | none | `freezeBatch` after a cursor | budgets and boundaries | the window starts after the cursor and ends at a unit |
| context-retirement-port | none | acknowledge, mark represented and retired | called by two components at any time | idempotent |
| bust-coordinator | pending requests, run in progress, current generation (memory) | request, run, contribute | sources frozen before an await and used after it; failed runs have consumed their requests | a generation is a partition of what was admitted |
| generation-builder, P3 and P4 projections | none | pure construction and hashing | budgets, order, duplicates | determinism, every unit in one layer |
| historian-queue and worker | pending and running jobs (memory) | enqueue, take, requeue, finish | jobs that are stale when they run; errors of the bookkeeping | single flight, no lost trigger |
| historian-runner | none | validate, skip, commit | crash between two databases | no window committed twice, none skipped over |
| historian-store | cursor, batches, session retry row, compartments, publications, outbox, release rows | transactional writes | values derived as MAX + 1 | batches tile the processed prefix |
| publication and outbox | publication and outbox rows with leases | commit batch, claim, mark delivered, mark failed | lease runs out during an await; two statements per outcome | delivered only by a bound receipt; nothing left behind |
| historian-manager | none besides the queue | trigger, execute job, recover, drain, compaction authorisation | recovery repeats part of a job | every commit acknowledged in the end |
| hot-row reclaim | compartment release rows | four release conditions, seal, delete | conditions filled by different actors; ids reused | nothing released early |
| anti-echo, publication authoring, compaction-trigger | none | classify the units of a batch, cut it into observations, authorise the cut of the raw archive | batches cut anywhere; answers that cite one another | a memory never becomes evidence of itself; each unit told once; only represented units are cut |
| historian-boundary | none | clamping functions without a caller | none | left to tests |
| semantic-adapter-registry | registered adapters (memory) | register, remove, look up, freeze profile | none: no await between read and use | left to tests |
| cordis services, plugin | open flags, event listeners | open, close, pump, auto-BUST | a closed service whose run is still awaited | a late run cannot disturb the new one |
| memory-service, coordinator | BUST-cycle flag, adapter | begin, end, mount, unmount, recall | one flag for overlapping cycles; a recall without a deadline; invalidations during a run | the gate closes in the end; P4 says what the backend did; no invalidation is lost |
| db/migrate | migration ledger | apply, at open | none: each migration and its ledger row are one transaction | left to tests |
| contracts | none | shape validation, hashing | none | left to tests |

All of it runs in one Node process. Calls without an `await` do not interleave;
what the models interleave is (a) calls at an `await` or a microtask, (b)
different calls one after the other, in every order, and (c) crashes and
exceptions between any two database transactions.

## 2. Modules

| module | models | state | composes |
|---|---|---|---|
| `HistoryLog` | what the Historian promises Context: an append-only log of windows, each passed over or published once and confirmed at most once | `processed`, `entries`, `confirmed` | abstract specification |
| `HistorianCommit` | admission, freeze, queue, runner, commit, acknowledgement, recovery and retry accounting of one lineage | the rows of both databases; the queue; `proc`, the place between two transactions | implements `HistoryLog` |
| `BatchContent` | what a batch becomes: budgets, compartment, roles, evidence, observations, and the cut of the raw archive | the units with what is told of them, cursor, publications, watermark | details the windows that `HistorianCommit` takes as given (no formal refinement) |
| `CanonicalBust` | requests, run, freeze, await, publication, watermark, retirement, payload reclaim, service close and open | unit rows, watermark, coordinator memory | uses the actions of `HistoryLog` as its environment |
| `RecallCycle` | overlapping calls of `runBustIfPending`, the recall gate, adapters, contributors, invalidations | adapter slot, gate, coordinator memory, the calls under way | the P0-P2 and P4 side of the runs whose P3 and P5 side is in `CanonicalBust` |
| `BindingLedger` | session ledger, pruning, staging, archive hand-over | both databases, and what of the archive survives a power loss | stands alone |
| `Ingest` | the two ways into the unit ledger of one lineage: runtime events and admitted messages; companions; replay | event rows, unit rows, the bound session, the emergency mark | details the admission that `HistorianCommit` and `CanonicalBust` take as one step (no formal refinement) |
| `Outbox` | claims, leases, delivery, recording of outcomes | outbox and publication rows, leases, drains, the Memory Service | its rows are the publications `HistorianCommit` appends |
| `HotRowReclaim` | how compartments leave historian.db: release conditions, archive shards, reclaim, reuse of numbers | hot and release rows, shards, the views actors hold | takes its receipts from the deliveries of `Outbox` and the acknowledgements of `HistorianCommit` |

`HistorianCommit` and `CanonicalBust` meet in `HistoryLog`: the first is shown
to implement it (run `commit`, theorem `Refinement`), the second assumes no
more than it, so that the state spaces are not multiplied. `*_proofs` modules
hold the theorems of the module they are named after, `MC*` modules an instance
for TLC. Operators introduced as "wrong variants" are bugs a change of the code
might plausibly bring; the properties are known to fail with them.

### HistorianCommit

`TriggerIncremental` is `triggerIncremental` with the freeze and the enqueue;
`Take` and the `RunJob` actions are `HistorianWorker.runOnce` up to its await:
`RunInvalid`, `RunSkip` or `RunCommit`, then `AckContext`, `MarkBatchAcked` and
`MarkReleaseAcked`, one per transaction. `SettleJob` (`Finish`, `Requeue`,
`Exhaust`) is what follows the await. `JobError` and `SettleError` are
exceptions of the store; the latter leaves the running mark set, as the code
does. `Crash` keeps the rows and drops the rest, `Restart` enters `recover()`,
and `RecoverAck`/`RecoverMark` replay one committed and unacknowledged batch at
a time. Contents, hashes and token estimates are abstracted: a frozen window
may end at any unit within `maxUnits`, which over-approximates the token cut as
long as the budget admits one unit.

### BatchContent

`TriggerIncremental` is `freezeBatch` with both budgets, `RunBatch` is
`HistorianRunner.run` as far as the content goes: `buildCompartment` with its
attribution manifest, `classifyEvidenceBasis` and `authorMemoryObservations`.
A unit is a record of what these functions ask of it: the kind of its runtime
event, its disposition, whether it refers to memories, which earlier unit it
cites, its tokens. Admission never edits a unit later, so `log` only grows.
What a unit's citations come to (`Rooted`) is stated as membership in every
set of units that is closed under grounding, which is the least one.
`CompactionCut` is `authorizeCompaction`: it changes nothing and is evaluated in
every state instead of being an action. Jobs, crashes and receipts are in
`HistorianCommit`; here a frozen batch runs or is replaced by a later trigger.

### CanonicalBust

`StartBust` is `runBustIfPending` up to the await of the recall: it consumes
the requests, drops the generation and freezes P3 and P5. `PublishBust` is the
rest. `FailBust` is a failure after the await, `StartBustFails` one before it.
Closing the service during the await makes the run an orphan: it publishes its
watermark later (`OrphanPublishes`) without a generation anyone sees. Contributors
(P0-P2) and recall (P4) do not touch the watermark: here they are failures and
the await, and `RecallCycle` has the rest of them.

### RecallCycle

A call of `ContextService.runBustIfPending` is `CallWithoutRun` (it finds
nothing to do or a run in progress) or `CallWithRun`, which goes up to the await
of the recall; `RecallSettles` is the answer of the adapter, `RunEnds` the
synchronous rest of the run and `CallReturns` the `finally` that closes the
gate. The plugins' side is the registration of contributors, the mounting of an
adapter with its disposer, and the two kinds of invalidation, each of which ends
in a request of the coordinator (`Coalesced` is its bound). `CloseContext` drops
the coordinator and leaves calls running; a call remembers in `on` the opening
it belongs to. A generation is abstracted to what it shows: which contributors,
how fresh each was when it was read, what the backend did (`truth`) and what P4
makes of it. Memories are dated when the recall is asked, since the backend may
have read them any time before it answers. `truth` and `asOf` are history: no
decision of the code reads them.

### BindingLedger

A call is one step where it is one transaction; `phase` says between which two
of them `createLineage` or `archiveBindingAudit` is: `MarkBatch`, `CopyBatches`,
`Checkpoint` and `DeleteBatches` are its phases A, B, the barrier and C.
`archive` is what readers of the archive see, `checkpointed` what a power loss
cannot take and `wal` the archive after each change since: a power loss keeps
some first part of it. Timestamps are abstracted to the number of the tenure they coincide
with; ties within a millisecond are not modelled. `history`, `proved` and
`pruned` are history variables. The archive's manifest counts the rows of a
batch (`Consistent`) unless a session of the batch has returned: then Phase B may
ignore a row as a duplicate of one under the same key and counts it all the same.

### Outbox

`StartDrain` is `claimBatch` as `drainOutbox` calls it; `Send` is `deliverOne`
up to its await and `Settle`/`Defer` the rest. `leases` holds the live claims,
oldest first, instead of a clock: a lease expires when its claim leaves the
list. A drain holds the set of rows it has claimed and not yet settled and goes
on with the least (`First`), which is the order of `claimBatch`. Several drains
run at once, as nothing prevents it. Statements outside the
commit transaction are transactions of their own: `StartDrainTorn` and
`SettleTorn` stop after some of them. The Memory Service is external: it accepts,
rejects, fails to answer (and may still receive the request), or returns a
receipt for another publication or another contract.

### Ingest

`Ingest` is one `ContextIngest.ingestRuntimeEvent`: the event, its unit or the
merge of a companion, in one transaction. `IngestRefused` is the same call at
the hard cap: all of it is rolled back, and the emergency mark is written in a
transaction of its own, which may be lost. `IngestEvent` is the ledger port, the
event alone. `Admit` is the admission path, which numbers its unit after the
last *unit*, while the others number after the last row of either table.
`Replay` is `ensureUnitsUpTo` up to the event numbered `through`: its `limit`
always takes the first events, and a crash between two of its transactions
leaves a prefix as well; `After` gives where the replay stands after each
number. `Input` gives each event id its input, so a retry carries what the first
call carried; inputs that fail `validateInput` change nothing and are left out,
and tool results behave as assistant messages do. Hashes are abstracted to
`proves`, the event whose text they are of. `replayed` is a history variable:
the last call was a replay that reached the end of the ledger.

### HotRowReclaim

`CommitBatch` writes the compartment and its release row under the number
MAX + 1 of the hot rows. `SettleReceipt` is what `executeJob` does after the
acknowledgement, `RecoverReceipt` what recovery does instead: it repeats the
acknowledgement and leaves the release row alone. `ReadView` and `WriteBack` are
the host between `listCompartmentReleaseViews` and `upsertCompartmentRelease`
(`Upserted`), with a BUST or a delivery in between; `SealShard` and
`VerifyShard` the same for an archive shard; `Reclaim` is `eligibleForReclaim`
with the transaction that follows. Only the first condition is written by the
repository's own code: the store and `hot-row-reclaim.ts` are an interface, and
the host is modelled as anyone who uses it by its documented steps, in any
order, with views of any age, each actor working on one view at a time and one
shard being verified at a time. `told` is a history variable.

## 3. Runs

| run | checks | bounds |
|---|---|---|
| `commit` | types; batches tile the prefix; publications match committed batches; each included unit told once; acknowledgement after commit; jobs anchored or done; implements `HistoryLog`; every unit processed; every commit acknowledged | 4 positions, 1 of them migrated; windows of 2; soft cap 3, hard cap 4; 3 attempts; 2 faults |
| `content` | types; every processed unit is told once and attributed once, by observations that do not overlap; no chain of citations makes a memory into evidence; the archive loses only what a BUST represents | 4 units of 11 shapes; batches of 3 units and 4 tokens |
| `bust` | types; a generation is a partition; live units are kept; only told units retire; the generation owns the watermark; compartments come to be represented and told units retired | 3 positions, 1 migrated, soft cap 2; 1 pending request; 2 faults; 1 closing |
| `recall` | types; the gate is held by a call; P4 says what the backend did; a stale generation has its successor requested; every request is run | 2 overlapping calls; 1 adapter, 1 contributor, each invalidated at most once; 2 pending requests; 1 closing |
| `ledger` | types; ledger and lineages agree and keep the hard limit; unreconciled and recently superseded sessions resolve; provenance kept and manifests exact; every binding pruned while its session has had no other tenure archived | 4 sessions, which may return on either of 2 lineages; 4 tenures; limits 1/2, 1 retained, staging cap 3, batches of 2; 2 faults |
| `outbox` | types; delivered is accepted; claimed once; every publication settled | 2 publications, 2 drains, batches of 2, 1 fault, with and without a client |
| `ingest` | types, keys and caps; event and unit are atomic and agree on their number; a pairing is proved; a replay heals or throws | 5 events (one resent with its key, one with its own marker, a companion sent as a user event, a false companion), 1 message, 2 sessions; soft cap 1, hard cap 2 |
| `reclaim` | types, every hot row has a release row; what left historian.db met every condition itself and is in a shard; recorded conditions only advance | 2 commits (of one number when the first is reclaimed before the second), 2 actors with views |

Why the bounds are enough. In `commit`, four positions with windows of two hold
two full windows, so a stale job can meet a cursor that moved by a whole window,
by part of one, or not at all, and a migrated prefix, an excluded end and a hole
all fit in. Three attempts separate the first retry, a later one and exhaustion;
two faults reach an error and a crash during its retry or its recovery. The
shapes of `content` are every class the code distinguishes, and four units hold
an answer that cites an answer that cites a memory, cut into batches at each
place; a unit of five tokens exceeds the budget alone. The limits of the ledger
are set so that every one of them (soft limit, hard limit, retained window,
staging cap, batch size) is reached within four tenures. A session and lineage
are not pruned twice there, which takes six; what happens then is run
`tenure_lost`, with the constants of which every property of `ledger` holds as
well. Two drains and two
publications give every overlap of two claims, of one row or of both. Three
positions in `bust` hold a migrated unit, a compartment and a unit behind it,
which is each of the layers a unit can be in, and two faults let a run fail and
the one that retries it as well. Two calls in `recall` are a run that awaits and
one that overlaps it, the latter also as the run of a service opened since. In
`ingest` a soft cap of one makes the second unit excluded and the third refused,
with five events and a message that compete for the two places and for their
numbers. The two commits of `reclaim` are a compartment and a successor that
takes its number or the next one; the two actors are two conditions written back
from views of one row.

Only unbounded counters are capped: positions, tenures, closings, signals,
commits, publications and faults, each by a constant commented as a bound. The
position bound of `HistorianCommit` equals its hard cap, so there the code itself
closes admission. `outbox`, `content` and `reclaim` may stop when their bounds
are used up and do not check for deadlock; the other runs do. `reclaim` uses the
symmetry of its actors and checks no liveness.

### Fairness

- `HistorianCommit`: a started synchronous block ends and a stopped process is
  restarted (weak). The host triggers and pumps again and again; its own
  recovery calls disable these steps for a while, so they get strong fairness.
  Nothing obliges a crash, a fault, an admission or a host recovery:
  `EveryCommitAcked` is conditional on recovery being run again and again,
  because the code runs it at startup only. `EveryUnitProcessed` excepts the
  state `Blocked`, which the run `blocked_trigger` shows.
- `CanonicalBust`: the recall that is awaited is answered, started blocks end,
  the host runs pending BUSTs and replays acknowledgements. Requesting one has no
  fairness; the properties are conditional on requests coming.
- `RecallCycle`: the host keeps calling `runBustIfPending`, started calls end, a
  closed service is opened again, and an adapter that was asked answers or fails
  in the end. The last is an assumption about the backend: the coordinator sets
  no deadline, and a recall that never returns does block every later run. No
  request, invalidation, mount or closing is obliged to happen.
- `BindingLedger`: a call that was started continues; drains have no fairness,
  the property is conditional on drains being started.
- `Outbox`: the host drains again and again (the repository has no loop of its
  own), time passes, calls of the client end, and a row that is sent infinitely
  often is at some time accepted or rejected (strong). Without the last, the code
  promises nothing: it defers for ever. A process without a client delivers
  nothing, so the property is conditional on one being configured in the end.
- `Ingest`, `BatchContent`, `HotRowReclaim`: none; their properties are safety
  properties. Nothing in the repository drives the last three release conditions,
  so that a compartment is reclaimed in the end is no promise of this code.

### Disagreements found while modelling

Four have a run that expects the violation; `PROJECT.json` quotes the line.

| run | the code |
|---|---|
| `blocked_trigger` | an exception of the retry accounting leaves the lineage marked running for ever |
| `tenure_lost` | a session pruned, bound and pruned again while the drain fails loses an audit row |
| `two_lineages` | a failure inside `createLineage` lets a session be current on two lineages |
| `echo_unmarked` | an observation that only retells memories is published with `derivedOnly = false` when its batch holds any other evidence |

Where one of these concerns a property of a passing run, that property states
the restriction: `ProvenanceKept`, `EveryPrunedArchived` and `RecoveryResolves`
speak of sessions with one tenure (`Once`), as does the count in the manifest
that `Consistent` requires; and the `ledger` run has no failure inside `createLineage`
(`CreateMayFail`), which is also the hypothesis of the two theorems that would
fail with it.

Others are visible in the models and have no run.

- Historian. The persisted retry count is set back by the first failure of a new
  job (`recordRetryAttempt`), and a trigger gives an exhausted session a fresh
  retry budget (`triggerIncremental` does not read `retry_exhausted_at`). A token
  budget below the first unit after the cursor freezes an empty batch at every
  trigger, and the lineage stands still (history-read-port.ts:180).
- BUST. A compartment is represented before its receipt is acknowledged
  (`RepresentedHead` does not ask). The second BUST after a commit shows the
  compartment again without its basis: the units it covers are read above the
  watermark, which the first one has moved past them (bust-coordinator.ts:494).
  The recall gate is one flag: a call that ends closes it for an overlapping one
  that still awaits (`CloseGate`), and while a call is under way nothing tells its
  recall from another caller's, which is less than memory-service.ts:8 promises.
- Session ledger. A session that moves to another lineage has two rows and is
  ambiguous for recovery; below the soft limit a rollover does not look at the
  staging backlog (`Gate`); a session that returns keeps its old reconciliation
  mark (context-store.ts:2808) and is pruned without a new one
  (context-store.ts:2274).
- Outbox. A late answer turns a delivered row into a quarantined one or the
  reverse (`Mark` does not look at the row). `markDelivered` consists of two
  autocommitted statements; a failure between them leaves a delivered row without
  the receipt for good, since no delivered row is claimed again.
- Ingest. An event whose idempotency key is taken writes its unit and no event
  (`Record`); an admitted message can take the number of an event committed
  without its unit, and every later replay then throws there (`SeqTaken`;
  context-store.ts:3281 speaks of a shared number space, context-admission.ts:185
  looks at one of the two tables); a companion sent with kind `user` becomes a
  unit of its own on replay, and a companion rebuilt from its ledger row has lost
  `companionOf` and pairs nothing (`Rebuilt`); the emergency mark is lost when the
  process stops before it is written, or, in recovery, for a session that is not
  current (`IngestRefused`).
- Reclaim. Numbers are MAX + 1 over the hot rows, so after the last hot
  compartment is reclaimed its number and id are used again; the new compartment
  meets the reclaimed release row, is listed by no view, is therefore never
  acknowledged or reclaimed, and is not counted by `countActiveCompartments`. It
  errs on the safe side (`ReclaimedIsReleased`) and keeps the row for ever. An
  acknowledgement made by recovery never reaches the release row
  (`RecoverReceipt`). A reclaimed compartment also leaves P3, which reads hot
  rows only. Shards are called immutable and written with INSERT OR REPLACE
  (historian-store.ts:806 and 818); `VerifiedIsSealed` is why nothing verified is
  replaced.
- Content. anti-echo.ts:115 grounds an answer in the new included units of its
  batch; the code also requires these to refer to nothing themselves
  (`NewObservations`). Whether an answer is evidence depends on whether the
  budgets put the unit it cites in the same batch. Units without a runtime kind
  are said not to enter a batch (historian-publication.ts:139,
  historian-compartment.ts:170) and do. A batch is recorded in the transaction
  that moves the cursor, so the protected tail of `authorizeCompaction` always
  begins right after the cursor and never binds.

## 4. Proofs

Each theorem holds for every value of the constants that satisfies the named
assumption of its module.

**`HistorianCommit_proofs`** (`CommitAssumption`: naturals; `MaxUnits` and
`MaxAttempts` positive; the migrated head within range): `TypeCorrect`,
`Invariance` (`Spec => []IInv`), `TilingHolds`, `PublicationsHold`,
`IncludedOnce`, `AckHolds`, `JobsHold` for the safety invariants of run `commit`,
`SingleFlightHolds`, and `Refinement`: `Spec => ImplementsHistoryLog`.

The invariants are not inductive one by one. That a commit keeps
the tiling needs its job to be anchored at the cursor or to repeat a committed
window (`JobsAnchoredOrDone`), which in turn holds only because one job exists
at a time (`SingleFlight`), so that the cursor cannot move between the
validation of another job and its commit. That a publication's span stays exact
needs its window never to receive another row: windows end at a row
(`WindowsEndAtRows`) and admission appends after the last row. That the
acknowledgement follows the commit needs to know what each phase has
established (`PhaseOK`): in phase `mark` the rows carry the state, in phase
`release` the batch is acked. `IInv` is the conjunction of these with the
checked invariants and `SkippedHoldNothing` (a skipped batch has no included
unit, from which `IncludedPublishedOnce` follows). There is one lemma per
conjunct and, in it, one step per action that can disturb it. The refinement
maps the cursor to `processed`, the windows of `publications` to `entries` and
the acked ones to `confirmed`; each step is one of `Publish`, `PassOver`,
`Confirm` or a stutter.

**`RecallCycle_proofs`** (`RecallAssumption`: finitely many calls and sources,
a positive bound of requests): `TypeCorrect`, `RunsInvariant`, `GateHolds`,
`P4Holds`, `StaleHolds`, the four invariants of run `recall`. An invalidation
during a run leaves a request behind, but the run in progress shows the older
source; that no signal is lost rests on nobody consuming that request before the
generation is out. This is `RunsAreCurrent`: at most one call runs on the
coordinator of the present opening, and while it does, `runInProgress` is set,
so every other call returns without consuming anything; a call of an earlier
opening publishes nothing. With it, each view of a current call and the
generation lack no signal that is not requested (`ViewsAreServed`; of the
memories either, whether or not P4 shows any), and each
view, of whichever opening, shows in P4 what its own recall did
(`ViewsAreHonest`).

**`HotRowReclaim_proofs`** (`ReclaimAssumption`: at least one commit, finitely
many actors): `TypeCorrect`, `RowsInvariant`, `ReclaimHolds`, `AdvanceHolds`, all
that run `reclaim` checks. A row that is not reclaimed belongs to the hot
compartment of its number (`RowsAreOwned`), and what it has met is true of that
compartment (`MetIsTold`). What an actor holds is never ahead of its row and is
about the same publication (`ViewsAreBehind`), because rows only gain conditions
and never change their publication; so writing it back, however late, records
nothing false. A compartment that takes a used number meets a reclaimed row,
which no view lists. That its shard is still in the catalog rests on
`VerifiedIsSealed`: the row a shard is named after is verified as soon as any row
of the shard is, since rows are verified oldest first, and a verified row enters
no later shard, so the id is not used again; `BatchIsSealed` carries this through
the verification of one shard. The numbers are chosen as a maximum and a
minimum; that they exist is proved from the well-foundedness of the naturals.

**`CanonicalBust_proofs`** (`BustAssumption`: naturals, a positive bound of
requests, the migrated head within range): `TypeCorrect`, `LogAndRunsAgree`
(`Spec => []IInv`), `EveryUnitInOnePlace`, `LiveIsNeitherRetiredNorReclaimed`,
`OnlyToldIsRetired`, `WatermarkOfGeneration`, the invariants of run `bust`. What
has to be shown is that sources frozen before the await still describe the log
when the run publishes, whatever was committed, acknowledged or replayed
meanwhile. Windows follow one another and nothing is admitted at or below the
cursor (`WindowsInOrder`, `ProcessedIsCommitted`), so the content of a
compartment is fixed once it is committed. Every watermark, recorded or frozen,
is then the end of the first `n` compartments for some `n` (`Top`), and two of
them are comparable: a run is never behind the ones of closed services
(`RunsAreOrdered`), whose late publication therefore moves nothing past what the
present generation shows, and the recorded watermark is the generation's own.

**`Outbox_proofs`** (`OutboxAssumption`: a positive batch size): `TypeCorrect`,
`AnswersAreEarned`, `OnlyAcceptedIsDelivered`, `NoTwoClaims`, the safety
invariants of run `outbox`. A row is settled with whatever answer its drain has
in hand, long after the lease has run out; `CallsAreEarned` says that a receipt in
hand is of a publication the service holds, whichever row it was asked for, and
`Outcome` compares the two. That two live claims never share a row needs that
`StartDrain` takes none that a live claim holds and that settling a row takes it
out of the claims.

**`BindingLedger_proofs`** (`LedgerAssumption`: naturals, the soft limit within
the hard one, a positive hard limit and batch size): `TypeCorrect`,
`LedgerTellsHistory`, `ProvenanceIsKept`, and, as long as no call fails inside
`createLineage`, `LedgerAndLineagesAgree` and `SessionsResolve`. The invariant
has three parts. First the ledger: a row, in whichever table, belongs to one
tenure of the history, and a historical one was superseded by the tenure that
follows it on its lineage; nothing is pruned that fewer than `RetainRecent`
bindings follow (`RecentAreKept`: the rows newer than a pruned one map
injectively to later successions of the history). Second the hand-over: a batch
that is both staged and archived is still staged as a whole (`InStep`), the
manifest counts it (`Counted`), after the copy every staged row of the batches
copied is archived, and after the barrier the durable archive is the visible one
(`HandOver`); the same holds of each state of the archive that a power loss may
leave, and each adds to the one before (`WalHandsOver`), so that a number a lost
commit used is not confused with one that survived. The deletion therefore loses
nothing, wherever a crash falls. Third
`Whole`, that nothing is missing from the ledger: a failure between the two
inserts of `createLineage` breaks exactly this part (run `two_lineages`), hence
the hypothesis `~ CreateMayFail`, under which run `ledger` checks the two
properties as well. The first two parts, and the provenance that rests on them,
hold with such failures too.

**`BatchContent_proofs`** (`ContentAssumption`: naturals, shapes among those of a
unit): `TypeCorrect`, `PublicationsTellTheLog`, `EveryUnitIsToldOnce`,
`NoChainOfAnswersIsEvidence`, `CutIsBehindTheBust`, the properties of run
`content`. A publication is, at any later time, still what its batch makes of
the units between its ends (`WellMade`): the log only grows, so roles, runs and
grounding of what is behind the cursor do not change. Batches follow one another
(`InOrder`) and cover every unit behind the cursor that is not excluded
(`Covered`). That a unit is told once within its publication comes from the
observations being runs of one role: each unit is in the run of exactly one
first unit. Evidence that only retells cites an observation of its own batch, which every
set closed under grounding contains, and is therefore in each of them itself.

**`Ingest_proofs`** (`IngestAssumption`: ids of events and messages are finite
and apart, a positive soft cap, some session): `TypeCorrect`, `LedgersAgree`,
`EventAndUnitTogether`, `NeverMispaired`, `ReplayIsComplete`, all that run
`ingest` checks. Event and unit share a number (`Numbered`), an event of the
ingest path has its unit (`Whole`), and what is paired was proved by the text it
was paired with (`Proved`). The keys of the two tables hold because numbers are
used without a gap (`Gapless`): with as many ids as numbers, an injection shows
that the next number is still in range. A replay is many transactions inside one
action, and its outcome a recursive function of the event numbers. That this
function exists, and that at every number units are sound, have only grown, and
are complete up to there unless the replay threw (`Sound`, `Heals`), is proved by
a least counterexample: the naturals are well founded, which the library states
without an operator parameter.

Model-checked only are the six properties that need fairness, since the prover
has no rule for liveness beyond propositional temporal logic, nor for `ENABLED`:
`EveryUnitProcessed` and `EveryCommitAcked` (run `commit`),
`EveryToldUnitRetired` (`bust`), `EveryRequestRun` (`recall`),
`EveryPrunedArchived` (`ledger`) and `EveryPublicationSettled` (`outbox`). Every
safety invariant and every action property of a passing run is stated by a
theorem.

## 5. Plan

Written, most important behaviour first: `HistoryLog`, `HistorianCommit` with
its proofs, `CanonicalBust`, `BindingLedger`, `Outbox`, `Ingest`, then
`RecallCycle` and `HotRowReclaim` with their proofs, `BatchContent`, and the
proofs of the five modules that had none.

What would add most next are abstract specifications to prove the detailed
modules against, as `HistoryLog` is for `HistorianCommit`: a publication that is
open, then delivered or quarantined, for `Outbox`; a binding that is current,
then historical, staged and archived, for `BindingLedger`; and `BatchContent` as
an implementation of `HistoryLog` with its contents. Restrictions that theorems
carry could be narrowed: `Once` in `ProvenanceKept` and `EveryPrunedArchived` to
sessions whose two pruned rows fall into one batch.

## 6. Not modelled

- Rendering and prompt text, hashing and canonical JSON, shape validation of the
  contracts, health snapshots, audit tables and logging have no state a property
  here is about; nor have the read-only checks of stored rows against their hashes.
- `historian-boundary`: clamping functions that no production code calls.
- `semantic-adapter-registry`: one in-memory map, read and used without an await.
- The migrations: each is one transaction with its ledger row, applied in order
  at open, before anything else runs. The legacy v1 migration of context.db is
  entered as initial states (rows of kind `legacy`) and not as an operation.
- Priorities, eviction at capacity and the order among lineages in the historian
  queue: the only caller enqueues the lineage of its manager with one priority.
- In P4, the order, limit and de-duplication of memories; in the generation
  builder, ids and hashes of the layers: pure functions of one input.
- `mergeEvidence` and the rows of the Historian that only reports read.

One process per data root is assumed, as `ContextService.open` does ("exactly one
materializer per data root"). `PROJECT.json` lists what is partly modelled with
the part left out.
