# cortex-dis: specifications, model checking and proofs

DIS (Data Ingestion Service) takes CSV files of a retailer's stores and turns
them into canonical event tables and a "hot" table of current positions. This
directory holds TLA+ modules that model the services of the ingestion path and
of the console that configures it, and the migrations of their database, TLC
configurations that check them on small instances, and TLAPS proofs of the
safety of every module, for instances of any size. `PROJECT.json` maps every
definition to the source lines it models and lists runs, mutants, findings,
hazards and theorems.

Run from this directory: `tlc -workers 2 -config <cfg> <module>` and
`tlapm <module>Proofs.tla`.

## 1. The system

```
 client --HTTP--> dis-ui-server --GCS object, csv.received--> csv-ingest-worker
                    |  ^                                        | bronze row,
   config.source_mappings                                       v ingress.ready
                    |                                   streaming-consumer (xN)
                    +---- ACTIVE mapping ----------------->  |      |      |
 Customer Master --> mirror-sync-consumer --> identity_mirror|      |      |
                                              store facts ---+      v      v
                                          canonical.* tables   quarantine  audit
```

All services share one PostgreSQL; GCS holds the uploaded objects; Pub/Sub
carries `csv.received` and `ingress.ready`, both at-least-once with an ack
deadline and without ordering.

| Component | State it keeps | Operations | What is hard | What makes it correct |
|---|---|---|---|---|
| CSV upload endpoint (dis-ui-server) | GCS objects, `csv.received` | gates, write object, publish | a 503 after the object or the message landed; client retries with a new trace and the same `upload_session_id` | nothing is announced that is not stored |
| csv-ingest-worker | `bronze.data_ingress_events` (RECEIVED, PUBLISHED, FAILED), the pull in hand | pull, fetch, dedup lookup, gates, insert, publish, mark, ack/nack | crash between any two remote calls, calls that take effect but raise, leases that run out during a pull, the edge of the 24 h window | bronze before publish; one row per upload and window; never ack-and-lose; a lost publish is resumed |
| streaming-consumer orchestration | flow context of one message | stages, failure classification, hold, audit, ack/nack | autoscaled consumers on the same message; deterministic against transient failures; rows only a table CHECK refuses; a hold that fails half way | an acknowledged chunk is written or held; a held chunk is unwritten; a failure the code knows to be deterministic is set aside |
| canonical sink | `canonical.store_sku_*` events, `store_sku_current_position` | batches, duplicate detection, grouping, conditional UPDATE or upsert, existence check, commit | READ COMMITTED with row locks, out-of-order and equal event times, chunks that arrive before their catalogue | dual write is atomic; event time wins; no deadlock; no ack-and-lose |
| quarantine and audit writers | `quarantine.*`, `audit.events` | one-transaction hold; fire-and-forget row | lost answers | audit rows never ahead of the fact |
| mapping templates (dis-ui-server) | `config.source_mappings` versions, DRAFT and ACTIVE | create (ACTIVE at once), PATCH (rename; edit a DRAFT in place or chain one) | SELECT FOR UPDATE that resumes on its old snapshot, name exclusion | one DRAFT per lineage, one name per lineage and one lineage per name, ACTIVE rules never change |
| mapping rules | none; the document in a template | catalog, translation of a request, gate; parse, route, classify in the consumer | two services that share no code for what is legal | what the gate accepts the consumer can load and route |
| mapping engine and shape suites | a data frame per chunk | rename, normalize, cast, derive, enrich, validate | a cell nulled by one step and seen by the next | a bad cell is reported once and never written as empty |
| mirror-sync-consumer | `identity_mirror.*` | check target and context, read Customer Master, per-tenant upserts, exit code | overlapping runs, two snapshots, failure between tenants | exit 0 means complete; the mirror converges |
| dis-rls, auth and scope, reads | the set of verified engines; session settings | verify token, resolve scope, open session, read or write | an engine used before it is checked; sessions that see all tenants | every row answered or written is one the caller may reach |
| Atlas drafts | `atlas.schema_drafts` | draft, ratify, publish | every statement in a session of its own | what is published was ratified and never changes |
| database migrations | schema, `alembic_version`, rows | thirteen upgrades and downgrades | fresh and old databases through one chain, tables dropped and created again | one shape at head, no gap in keys or isolation |
| dis-pii, dis-storage, suggestions, dis-ui | none | pure functions, heuristics, presentation | | |
| codegen, test support | none | build-time | | |
| receivers, drainer, nightly and daily batches, identity-service | no code at this commit | | | |

Facts of the deployment the models use: the worker runs as exactly one instance
(`terraform/envs/staging/main.tf`, decisions D58 and D66); the consumer is
autoscaled; no subscription has a dead-letter policy, although some comments
count on one; no code changes an ACTIVE mapping, an object, or a bronze row's
pointer, so what is wrong with a chunk is the same on every delivery.

## 2. Modules

### CsvIngest: upload endpoint, broker and worker

One `Trace` is one upload request, its object and its `csv.received`; a `Key` is
what the dedup query compares (tenant, store, template, content digest), so two
traces of one key are a client's retry. `bronze` is a function from row ids to
rows with status, key, trace, object and received time.

| Actions | Code |
|---|---|
| `BeginUpload`, `WriteObject`, `PublishReceived` | `handlers/csv_uploads.py`: effects after the 4xx gates |
| `Pull`, `Acknowledge`, `ModifyAckDeadline`, `Abandon` | `subscriber.py`: one poll pass; `Abandon` is a crash or a transport error |
| `Fetch`, `FetchFails` | parse, path cross-check, download |
| `Lookup` (`SameKeyInWindow`, `IsPrior`, `NeedsResume`, `Resume`) | `find_prior` and `_handle_duplicate`, preflight, PII gate |
| `Insert`, `Publish`, `MarkPublished`, `CallFails` | bronze insert, `ingress.ready`, status update; each succeeds, fails, or takes effect while the caller sees an error |
| `LeaseExpires`, `Redeliver`, `Tick` | external: Pub/Sub and the clock |

A file's `Verdict` stands for the outcome of the pure gates. Audit rows of the
worker are fire-and-forget and are left out.

### CanonicalWrite: the atomic dual write

Several consumers write chunks (sequences of rows with natural key, event time,
dedup key and columns) into an event table and the hot table. Each SQL statement
is an action: `Begin` (duplicate detection and event insert), `UpsertHot` (the
conditional UPDATE of the incomplete path or the upsert of the complete path),
`LockGranted` (a statement that waited re-evaluates its WHERE on the row it got),
`ExistenceCheck`, `Commit` with what follows it in `write_chunk`, `Acknowledge`
and `Fail`. PostgreSQL is modelled from the statements the sink issues:
uncommitted rows are private (`dirty`), a written row is locked until the end of
the transaction, and ON CONFLICT locks even when its WHERE is false. `Group` is
`_group_hot`, a recursive function over the file order; `BatchRows` is `_batches`.

### ConsumerPipeline: orchestration

One action per stage of `orchestrate.py` (`Receive`, `Fetch`, `Parse`, `Lookup`,
`Gates`, `Write`), the classification (`Classify`, `Quarantinable`), the hold
(`Hold`, `HoldFails`), the acknowledgement, `StageFails` for infrastructure and
`Crash`. A chunk's `fault` is chosen in `Init` and never changes. The write stage
is the summary of CanonicalWrite: it writes all, misses positions after its
events were committed, or fails with some batches in. A failure of the write stage
is an outage (`StageFails`) or a row that passes both suites and breaks a CHECK, of
its own table (`unwritable`) or of the position it is merged into (`unmergeable`):
the first passes, the other two are the same on every delivery, and the code files
all three as INFRA_FAILURE. The bronze row has a
foreign key to its store, so the "store not mirrored" branch of `read_store_facts`
cannot be taken and is left out. A pull delivers one message.

### Delivery: what a subscriber owes

An abstract specification: a message gets one fate and keeps it, and it leaves
the queue only after that. ConsumerPipeline instantiates it as `Contract`, with
`Fate` (written, held, refused or pending, as the tables tell it) for the fate and
the acknowledged messages for what has left the queue; `ImplementsDelivery` is the
refinement. Stages, holds, audit rows and crashes are stuttering steps of it.

### MappingTemplates: concurrent edits of template lineages

The rows of `config.source_mappings` of one tenant and source. A request is one
READ COMMITTED transaction cut at its statements: `InsertActive` for a create;
`ReadType` (the handler's own session), `SelectForUpdate` twice with one `LockRow`
per row in the order of the ORDER BY, `Decide`, `ApplyRulesEdit` and
`CheckConstraints` for a PATCH; `Commit` and `Abort`. The trigger that numbers
versions is `NextSeq`, the exclusion constraint on names `NameBlocks` (it waits
for a writer in progress) and `NameTaken`. `ResolveActive` and `Summary` are the
reads of the upload gate and of the list.

### MappingRules and MappingEngine: a template's rules and a chunk under them

`MappingRules` writes out the three canonical models and their provenance
partition (`assert_partition_consistent` is an ASSUME), the catalog's datatypes,
`Translate` (create request to rules document), `Accepts` (the gate: contract,
coverage, legality, pairings) and the consumer's `Loads`, `Matches` and
`HotComplete`. `MappingEngine` extends it: after `LoadMapping` a chunk arrives and
goes through `PreValidate`, `Rename`, `Normalize`, `Cast`, `Derive`,
`FinishMapping` (enrichment), `PostValidate` and `Write`. A cell is what the stages
can tell of it: local form, canonical form, padded, null token, over-long, junk or
null.

### MirrorSync: the Customer Master mirror

Runs start with a configuration (`Profiles`), check both ends, read tenants and
stores in two snapshots, and upsert tenant by tenant. A row is its version number,
so "older" and "newer" can be told apart. `asked` and `alone` are history variables
of the properties: what Customer Master held when a run started, and whether any
other run met it.

### TenantAccess and AtlasDrafts: the console

`TenantAccess` has the token, the scope it resolves to, the sessions of dis-rls
with their posture check on first use of the engine, the policies of migration
0011 (`Using`, `WithCheck`), and the reads, creates and PATCHes that run under them;
`posture` says whether the engine's role is the right one, bypasses the policies
or is in the wrong database. `AtlasDrafts` extends it with the Atlas endpoints, so that
both share one engine: the super-admin gate, `CreateDraft`, the three sessions of a
PATCH and of a publish (`GetDraft`, `UpdateGet` or `FreezeGet`, `WriteDraft`), the ratify
gate, the immutability trigger and the key of published versions.

### Migrations

Each of the thirteen migrations, up and down, is an action on `schema` (the features
each table has) and `rows`. A database may be fresh, created from today's DDL files
by 0001, or of any older age (`Legacy`). Between migrations rows and templates are
written as the constraints of the moment allow, and `Resolve` is an operator who
deletes what a migration refused over.

### MC modules and proof modules

The `MC` modules only define constant values and symmetry sets. The theorems are in
`CsvIngestProofs`, `CanonicalWriteProofs`, `ConsumerPipelineProofs`,
`MappingTemplatesProofs`, `MirrorSyncProofs`, `MigrationsProofs`, `AtlasDraftsProofs`
(which covers TenantAccess too) and `MappingEngineProofs` (which covers MappingRules
too).

## 3. Runs

| Run | Shows | Bounds and why they are enough |
|---|---|---|
| `csv` | `TypeOK`, `BronzeFirst`, `OneRowPerWindow`, `AckedConcluded`, `NoSecondPublish`, `Settles` | two requests, a file of each verdict, two row ids, clock 0..2 with a window of 1: a retry inside, at and past the window's edge, and both messages in one pull. About 671,000 states |
| `canonical_safety` | `TypeOK`, `HotHasItsEvents`, `HotIsLatestOfBatch`, `AckedIsWritten`, `NoLockCycle`, `HotTimeMonotone` | two consumers, a catalogue and a sales chunk over two keys in opposite file order; the sales chunk has two batches, equal and out-of-order times. Two transactions and two keys are what a lock cycle of length two takes. About 61,000 states |
| `consumer` | `TypeOK`, `AckedIsKept`, `HeldIsUnwritten`, `TrailIsTrue`, `ImplementsDelivery`, `Settles`, no deadlock | two consumers, a catalogue and a sales chunk that needs it; the sales chunk has each of the faults in turn, or the catalogue has rows a gate or a CHECK refuses. Consumers meet only over one chunk or over a chunk and its catalogue, so a third chunk adds products of what is there; safety is proved for any number. About 322,000 states |
| `templates` | `OneDraft`, `LineageCoherent`, `NameHasOneOwner`, `ActiveIsImmutable` | three requests of any kind, two templates, two names: one request to hold a lock, one to wait on an old snapshot and one to rename. About 90,000 states |
| `mirror` | `MirrorIsGenuine`, `CleanExitIsComplete`, `OnlyOverlapGoesBack`, `Converges` | two runners over two tenants, one with a store; `MaxChanges` 3 lets a row change between the reads of both runs and after them, `MaxFaults` 2 a failure in each of two runs. About 337,000 states |
| `migrations` | `HeadIsOneShape`, `KeyNeverGapped`, `IsolationOn`, `TypeMatchesRules`, `DowngradeRestores`, `OnlyDisposableRowsGo`, no deadlock | every starting age, unbounded walks up and down, every kind of row that a migration looks at. About 45,000 states |
| `access` | `AnswersStayInScope`, `WritesAreActedFor`, `LineageHasOneTenant`, `PublishedIsRatified`, `PublishedIsFrozen` | two requests of any kind, nine tokens (every user type, with and without role, tenant and validity), two tenants, every posture of the engine, two drafts. A race of a PATCH with a publish takes two requests and a third party is no worse. About 595,000 states |
| `rules` | `AcceptedRuns`, `ReportedOnce`, `WrittenIsWhole` | create requests over every type and each mandatory column left out in turn, edits with undeclared and unknown arguments; a chunk of two rows with up to two odd cells, so that two faults can meet in one row, in one column, or in neither, and rules whose derive copies a column. About 861,000 states |

Deadlock is not checked where the bounded clients or the bounded message set run
dry. Every property has a mutant in `PROJECT.json`: a plausible bug in a mapped
definition that breaks it under the same configuration. `TypeOK` of
MappingTemplates, MirrorSync, Migrations and AtlasDrafts holds under the same
configurations and is left out of them for time.

Four runs expect a violation: the property is a sentence of the repository, and
the trace shows the code doing otherwise.

| Run | Sentence | What happens |
|---|---|---|
| `csv_resume` | D59: "Resume-and-mark converges on redelivery with no stall" | the worker crashes after the insert, the client retries, and the retry's message resumes the first row with the retry's `gcs_uri`; the consumer refuses the pointer, and the row is marked PUBLISHED |
| `canonical_noop` | `_update_hot_incomplete_path`: "present -> noop_older (an older event lost to a newer row, D64)" | a catalogue commits between the UPDATE and the existence check: a newer sale is counted as older and acknowledged |
| `rules_json` | `mapping_translation.py`: "json has no mapping-produced target and is intentionally absent" | the catalog offers `value_before` and `value_after` as json; a create request that maps one is refused, although the table requires one of them |
| `rules_percent` | `engine/apply.py`: "A row with ANY failed cell is dropped whole (no nulled-cell pass-through)" | `_parse_percent` casts a long percentage to a decimal that cannot hold it, which nulls the cell; the mask of failures is the pattern alone, so nothing is reported and the row is written without the value |

Four more configurations are kept beside the runs, each with one property that
TLC refutes within seconds:

| Configuration (module) | Sentence | What happens |
|---|---|---|
| `CanonicalParked.cfg` (`MCCanonicalWrite`) | decisions.md: "until catalogue/position onboards, then the merge succeeds" | the catalogue carries its upload time, so the parked, older sale is a no-op for ever |
| `CanonicalPrior.cfg` (`MCCanonicalWrite`) | D33: "`prior_trace_id` records the trace_id of the prior latest event" | all hits of a batch get the trace of the query's last row |
| `CanonicalColumns.cfg` (`MCCanonicalWrite`) | `_group_hot`: "latest event time wins per column" | of two rows older than their group, the first in the file wins |
| `TemplatesLocks.cfg` (`MCMappingTemplates`) | PATCHes of one lineage serialize on its row locks | of three PATCHes, one holds the new DRAFT and waits for an old row of another: PostgreSQL aborts one of them |

### Fairness

The liveness properties of `csv` and `consumer` use `FairSpec`: the worker and the
consumers keep running (`run_forever` loops, the platform restarts a dead process)
and the broker redelivers an expired lease, which is weak fairness. In
ConsumerPipeline delivery of each message is strongly fair: a consumer that is busy
with others disables it again and again. That Pub/Sub starves no message, however
many others come back for ever, is thereby assumed and not shown. Both assume
`<>[][~Disturbed]_vars`: at some unknown point calls stop failing, processes stop
crashing, a pass is shorter than the ack deadline, and acknowledged messages are
no longer redelivered. Before that point anything may happen. A CHECK that refuses a
row is no disturbance and never ends.

`Settles` of the consumer excludes the faults of `Stuck`, for which the program does
not settle: path and bronze mismatches, errors of the pure stages outside the
allowlist, and rows that break a CHECK of their table or position
(`ck_ssse_unit_sale_price_le_retail`, `ck_ssce_at_least_one_value_present`), all
nacked for ever; and a chunk whose catalogue is itself held or stuck.

`mirror` assumes that each runner's `Sync` is weakly fair: the scheduler starts a
run again after every exit, and a run that can go on does. Changes and faults are
bounded by constants, so both end, as `Converges` needs. Rows of Customer Master are
assumed to be ones `from_row` and the CHECKs of the mirror take: one that is not
fails every run at its step, and the tenants after it stay old.

## 4. Proofs

Every theorem has the form `Spec => []P` (or `Spec => P` for an action property or
the refinement) and holds for every value of the constants that satisfies the
assumption named. Each module has one inductive invariant `IInv`, the conjunction of
the parts listed; `InitIInv` and `NextIInv` prove it, with one lemma per action or
group of actions, and `Invariance` is `Spec => []IInv`. TLC has checked every `IInv`
on the instances of the runs.

### CsvIngest

Any traces, keys and row ids, any window and clock bound; `ConstantsAssumption`.

| Theorem | Property |
|---|---|
| `TypeCorrect` | `TypeOK` |
| `BronzeBeforePublish` | `BronzeFirst` |
| `DedupHolds` | `OneRowPerWindow` |
| `NoAckAndLose` | `AckedConcluded` |
| `PublishOnceMarked` | `NoSecondPublish` (action) |

- `UploadInv`, `RowInv`, `PublishedInv`: only begun requests have messages, rows come
  from uploads and are not dated in the future, a PUBLISHED row was sent;
- `WorkerInv`: what the worker knows between its steps. The important part is
  `pc = "insert" => Fresh(keyOf[cur])`: the answer of the dedup query still holds
  when the row lands. It is preserved because only this worker inserts and the
  window only moves forward; with two workers it would not be, which is why D58
  pins one;
- `AckInv`: a message the worker has decided to acknowledge is concluded already,
  although the acknowledgement is sent at the end of the pull.

### ConsumerPipeline and Delivery

Any chunks, consumers, faults and dependencies; `ConstantsAssumption`.

| Theorem | Property |
|---|---|
| `TypeCorrect` | `TypeOK` |
| `NoAckAndLose` | `AckedIsKept` |
| `NothingHeldIsWritten` | `HeldIsUnwritten` |
| `AuditFollowsFact` | `TrailIsTrue` |
| `Refinement` | `ImplementsDelivery` |

- `FlowInv`: a stage past a gate means that the chunk has no fault of that gate; this
  is what two consumers with the same chunk agree on;
- `StoreInv`: only chunks whose fault no gate sees (`Writable`) have events, only chunks
  with another are held, which makes "written" and "held" exclusive without any lock;
- `AckInv`: whoever is about to acknowledge has its chunk written, held or refused.

For the refinement, `FateIsFinal` shows that a fate is never replaced by another,
`StoreStepSettles` that a step of a store settles a fate or stutters, and
`QueueStepDelivers` that a step of the queue delivers only what is settled.

### CanonicalWrite

Any consumers, chunks, keys and columns, files of any length and any batch size;
`ConstantsAssumption`.

| Theorem | Property |
|---|---|
| `TypeCorrect` | `TypeOK` |
| `EventTimeNeverGoesBack` | `HotTimeMonotone` (action) |
| `EitherOrNeither` | `HotHasItsEvents` |
| `LatestOfBatchWins` | `HotIsLatestOfBatch` |
| `NoAckAndLose` | `AckedIsWritten` |
| `WaitingChainsAscend` | `WaitsAscend`: along a chain of waits the keys ascend, so no cycle of any length closes |
| `NoMutualWait` | `NoLockCycle` |

- `DirtyInv`: a row a transaction has written is locked by it, is not older than the
  committed one, and is the group of its batch. `HotTimeMonotone` alone is not
  inductive: a commit copies `dirty`, so what the WHERE compared must still be the
  committed row, and it is because of the lock;
- `LockInv`: the locks of a transaction are below the keys it has still to merge
  (`sorted(...)` in the sink), hence `WaitsAscend`;
- `TxInv`, `OutcomeInv`, `ProgressInv`: what a transaction has done and has left, up to
  the batches behind it;
- `HotInv`: a position is the group of a committed batch.

`GroupIsLatest` says what `Group` computes for a batch of any length. The induction
principles of the library take an operator, which the provers cannot instantiate;
`NatSetInduction` takes the set of the naturals that have the property and
`NatRecursion` the step as a function, and both are proved from the well-foundedness
of `<`.

### MappingTemplates

Any requests, templates and names; `ConstantsAssumption`.

| Theorem | Property |
|---|---|
| `TypeCorrect` | `TypeOK` |
| `DraftsConverge` | `OneDraft` |
| `LineagesCohere` | `LineageCoherent` |
| `NamesStayApart` | `NameHasOneOwner` |
| `ActiveStays` | `ActiveIsImmutable` (action) |
| `WritersSerialize` | `OneWriter`: no two open transactions hold rows of one lineage |

- `TableInv`: a lineage is empty, its ACTIVE version 1, or that and one DRAFT with
  number 2 (`Shape`);
- `RequestInv`: what a request has locked and read by each statement. A PATCH that
  decides holds version 1, and its second read saw every committed row, so its
  snapshot is the lineage; the first read may be stale;
- `NameInv`: names differ between lineages also against the uncommitted rows of those
  that have passed the exclusion constraint;
- `LockInv`, `MintInv`: a row has one owner, and no two creates mint one id.

The locks above version 1 are not needed for this argument. `TemplatesLocks.cfg`
shows that they can deadlock; what is proved is that only one writes.

### MirrorSync

Any tenants, stores and runs, any number of changes and faults;
`ConstantsAssumption`. The theorems are about `FairSpec`, of which only the safety
part `SafeSpec` is used.

| Theorem | Property |
|---|---|
| `TypeCorrect` | `TypeOK` |
| `OnlyGenuineRows` | `MirrorIsGenuine` |
| `CleanExitMirrorsAll` | `CleanExitIsComplete` |
| `BackOnlyByOverlap` | `OnlyOverlapGoesBack` (action) |

- `RunInv`: what a run has checked and read at each step, and that what is left of a
  transaction belongs to its tenant;
- `AloneInv`: what a run that met no other has written is still there, at the version
  it read;
- `CmInv`: a store is in Customer Master only as long as its tenant is, which is why
  tenants read before stores miss none of their owners.

### TenantAccess and AtlasDrafts

Any requests, tenants, tokens, templates and drafts; `AccessAssumption` and
`AtlasAssumption`.

| Theorem | Property |
|---|---|
| `TypeCorrect` | `TypeOK` |
| `NobodySeesMore` | `AnswersStayInScope` |
| `TokenDecidesTenant` | `WritesAreActedFor` |
| `LineageStaysHome` | `LineageHasOneTenant` |
| `GateHolds` | `PublishedIsRatified` |
| `FrozenStays` | `PublishedIsFrozen` (action) |

- `PostureInv`: an engine that is remembered has passed its check;
- `CallerInv`: the rows a request has been given so far are rows its token may see;
- `LineageInv`: what a PATCH pre-read of the tenant of its template;
- `WriterInv`: a request that wrote a row is over, so its record does not change;
- `DocInv`: the document a PATCH or a publish carries from one session to the next.
  `PublishedIsRatified` needs it: the gate looks at the document of one session and the
  UPDATE of a later one freezes it.

### MappingRules and MappingEngine

Any requests, documents and chunks, op lists of any length; `RequestsAssumption` (an
edit is of a template of a known type, and its op lists are lists).

| Theorem | Property |
|---|---|
| `GateImpliesLoad` | `AcceptedRuns` |
| `OneReportPerCell` | `ReportedOnce` |
| `NothingLostOnTheWay` | `WrittenIsWhole` |

The gate against the loader: `OneMatch` (each event model has a mandatory column the
other has not, so routing is unambiguous), `SnapshotIsComplete` and
`EventIsIncomplete` (no event projects the SKU). A list of ops on a cell, by induction
over the list: `RefusedOnce` (at most one op refuses a cell, none refuses an empty one,
and what is refused ends empty) and `EmptyHasCause` (a cell that ends empty was refused,
its source said so, or it was a percentage too long to divide). `RequiredIsOwned` says who fills each required column.

- `StoredInv`, `LoadedInv`: what runs has passed the gate and runs against its model;
- `FrameInv`: the columns of the frame at each stage;
- `CellInv`: the cell of the frame against the cell of the source it came from. Both
  properties need it: `ReportedOnce` needs that a reported cell is empty by the time
  cast sees it or a derive copies it (`Origin` follows the copy), `WrittenIsWhole` that an empty one was reported, said nothing, or was too
  long to divide;
- `FailInv`: up to cast, only columns of the source are reported, so that a report of
  derive about a copied cell cannot meet another of the same column;
- `ValidInv`: what the canonical gate let through has its required cells.

### Migrations

No constants: the run visits every state there is, and the proof gives the reason,
stated per revision, so that a further migration adds cases and leaves the argument.

| Theorem | Property |
|---|---|
| `TypeCorrect` | `TypeOK` |
| `FreshIsMigrated` | `HeadIsOneShape` |
| `NoUniquenessGap` | `KeyNeverGapped` |
| `AlwaysIsolated` | `IsolationOn` |
| `TypesFollowRules` | `TypeMatchesRules` |
| `DowngradeUndoes` | `DowngradeRestores` (action) |
| `NothingElseGoes` | `OnlyDisposableRowsGo` (action) |

- `SchemaInv`: at every revision a table has at least the features of its day
  (`OfDay`) and at most those of its DDL file and the retired key, which is gone from
  0004 on; the drafts table, which 0001 leaves out, has nothing before 0013. At head
  the two bounds meet;
- `HotInv`, `TemplateInv`, `RowsInv`: the CHECKs come with the index and an empty
  segment is never under it; a template has no type or one its rules explain; an
  undone database has no positions and no templates, so that bootstrap, which brings
  the index and the type column at once, finds nothing they forbid.

`Origin` reads the DDL files as a table of what each revision brought. `Raised` and
`Lowered` then say once what an upgrade and a downgrade must do: add what its revision
brought or make the table anew from its file; take away all its revision brought and
nothing older, or make it anew from the DDL of the day before. Each of the 26
migrations is shown to be of that form; 0004, which retires a key and brings it back,
is a case of its own in both. `FrozenIsOfDay` is the fact about the frozen copies.

### Model-checked only

- Liveness: `Settles` of CsvIngest and ConsumerPipeline, `Converges` of MirrorSync.
  Fairness is outside the proof system's reach.
- The sentences of the runs that expect a violation, which are false.

## 5. Hazards

`PROJECT.json` lists them at their lines. Uncovered: an exact tie of event times
between two chunks (no document names a winner), deterministic errors that are
nacked for ever, among them rows that break a CHECK of a table (the code has no way
out), and those the four side configurations
show. Met while modelling, and not in the list because nothing is lost:

- the pure stages are not run through `_staged`, so their errors are audited as
  failures of RECEIVED;
- the gate lets through rules that load and then fail on every row: a typed column
  without a cast, a constant of the wrong type (any whole number: `pl.repeat` makes
  it an Int32, where the models want Int64), a time zone that does not exist,
  and for `inventory_change` rules without a value;
- a name-only PATCH by an operator of another tenant's template ends in a policy
  error (500), not a 404; of two PATCHes of one Atlas draft the first is lost;
- `_detect_duplicates` reads a loop variable after its loop;
- only one draft per vertical and table can ever be published, because no code
  raises the version.

## 6. Not modelled

- The 4xx gates of the upload, multipart parsing, formats and wording: no state.
- Audit rows other than the two dispositions: fire-and-forget, read by people.
- Signatures, key sets and token parsing: an outcome of `Verified`.
- Object paths and the PII header gate: string functions without state.
- Suggestions, schema inference and the browser front end: heuristics, calls of a
  language model and presentation; what they produce comes back as a request.
- Code generation output and test support: not part of the running system.
- Receivers, drainer, batches, identity-service: no code at this commit.

## 7. Plan

Done: the modules, their runs, and the safety invariants and action properties of
every module as theorems. What is left is growth with the code: the services that
have no code yet (section 6), a fourteenth migration (a case in `Raised` and `Lowered`).
