# A verification project for GestaltDB

GestaltDB is an embedded graph database in Python (`src/src/gestaltdb`). It keeps
a mutable *current* graph with secondary indexes, an immutable *temporal* history
of node, edge and claim versions, a reasoning layer that derives claims from that
history, a sampling package over array snapshots of it, and a Cypher engine. This
directory holds TLA+ models of these parts, the TLC runs that check them on small
instances, and TLAPS proofs for every value of the constants.

`PROJECT.json` is the index: components, runs, mutants, the map from definitions
to source lines, findings, hazards and theorems.

## 1. The system

Paths are relative to `src/src/gestaltdb`.

| Component | State | Operations | Hard behaviour |
|---|---|---|---|
| Temporal commit publication (`_graph/temporal_writes.py`, `_graph/temporal_sequence.py`, `temporal_engine.py`) | sequence sidecar file; per commit a descriptor, records and a visibility marker | `commit_versions` (maintain, defer, defer_rebuild) | a commit is a series of durable writes; only the marker makes it visible; the sidecar is outside the backend transaction; clocks go backwards |
| Temporal index lifecycle (`_graph/temporal_indexes.py`) | index entries per generation, the published state, the `temporal` stale flag | maintain on commit, rebuild, pruning, `ensure_temporal_indexes` | indexes are derived: they may lag, be half built, or claim too much |
| Orphan reclamation (`_graph/temporal_orphans.py`) | none of its own | list, reclaim | deletes what crashes left, must not touch visible data, may crash itself |
| Writer guard (`concurrency.py`) | an RLock, a depth and a file handle per lock object; a weak registry per process | enter, exit, `for_path` | threads and processes, nesting, failed acquisition, weak references |
| Transaction scopes (`_graph/scopes.py`) | the backend transaction of a child graph | begin, commit, rollback, snapshot | exceptions inside a caller's scope |
| Temporal reads, selection, views (`_graph/temporal_reads.py`, `_graph/temporal_selection.py`, `readview.py`) | bounded commit cache, pinned snapshots | `get_commit`, `get_version`, `*_as_of`, read views | readers take no guard; generations disappear under them |
| Claim extraction (`reasoning/adapters/*`) | none that persists | canonical, native, locator and range sources | reads raw rows that interrupted writes left |
| Current graph, bulk ingestion (`graphdb.py`, `current.py`, `_graph/*`, `ingestion*.py`) | records, label, property, type and adjacency indexes, count caches, stale families | put, update, delete, ingest, rebuild, lookups | secondary indexes must agree with records through every sequence of calls and faults |
| Storage backends, lifecycle (`kvstores.py`, `_graph/lifecycle.py`, `_graph/registry.py`, `readview.py`) | sorted key space, manifest, identity | open, create, upgrade, scans, transactions, provenance | key prefixes that run into each other, concurrent creation |
| Stored rules, truth maintenance (`_graph/stored_rules.py`, `_graph/truth_maintenance.py`) | rule versions, derived claims, a maintenance state | register, run, maintain, explain | multiple and cyclic support, strata, intervals |
| Incremental maintenance, sessions, publication (`reasoning/maintenance.py`, `reasoning/adapters/*`) | facts and supports, a session file and its lock, staged generations | insert, retract, save, load, advance, stage, publish | over-deletion, compare-and-replace between processes, staleness between staging and publishing |
| Reasoning algorithms (`reasoning/*.py`) | none that persists | fixpoints, demand, union-find, interval closure, EL completion, validation | agreement with a declarative meaning |
| Epistemic and modal layers (`epistemic.py`, `modal.py`) | claims about worlds | accessibility, `evaluate_modal` | cache and limits across a formula |
| Sampling (`sampling/*.py`) | array snapshots, a prefetching feeder | build, append, compact, sample, walk, feed | replaced directories, bounded queue between threads |
| Cypher (`query_engine/cypher/*`) | rows of a running query, node constraints | match, project, write, subqueries, DDL | lazy generators with side effects, copies that go stale |
| Ontology compiler, serializers, visualisation, integrations | none of their own | translate, render | not modelled, see section 7 |

Interaction: every temporal write, rebuild, reclamation, publication and
transaction scope runs inside `write_guard`; readers do not. Truth maintenance,
epistemic operations, publication and the claim sources reach history only through
`commit_versions` and the temporal readers. The current graph and the temporal
history share a store and the stale-family record, and nothing else.

What makes the core correct: history is append-only with ids and times in step; a
visible commit is complete; an indexed read is either refused or complete; version
ids identify one version; corrections and retractions refer to earlier visible
history; any crash is repairable with the documented procedures; one writer at a
time. Everything above it is correct when it agrees with a declarative reading of
that history.

## 2. Modules

| Module | What it is |
|---|---|
| `TemporalLog` | abstract specification: what history promises to a reader |
| `TemporalCommit`, `MCTemporalCommit` | detailed write path: commits, rebuilds, reclamation, transactions, crashes; its run also has the claim sources |
| `TemporalRead` | readers without the guard beside it: lookups step by step, commit caches, views |
| `EntityHistory`, `Epistemic`, `Extraction`, `MCTemporalRead` | what is selected from a history: as-of reads, migration of legacy edges; modal evaluation; claim sources |
| `WriterLock`, `BatchFeeder` | the writer guard; the sampling feeder |
| `CurrentGraph`, `MCCurrentGraph` | records and indexes of the current graph, with bulk loads |
| `KVStore`, `Storage`, `MCStorage` | key layout and scans of the backends; lifecycle, transactions, provenance |
| `TruthMaintenance`, `MCTruthMaintenance` | stored rules over claims |
| `Datalog` | the rule engines as operators |
| `RuleEngine`, `Intervals`, `TemporalClosure`, `Classification`, `Equality`, `Structural`, `Reasoners`, `MCRuleEngine` | callers of the engines; interval algebra, range evaluation, EL, equality, validation |
| `ClaimLog`, `ReasoningSession`, `Publication`, `MCReasoning` | sessions and publication over a growing claim history |
| `SamplerSnapshot`, `TemporalSnapshot`, `SamplerEngine`, `MCSampling` | snapshot directories, temporal snapshots, draws and walks |
| `CypherMatch`, `Cypher` | pattern matching and execution of Cypher queries |
| `MCClients` | the clients of a database: guard, feeder and queries |
| `CurrentGraphProofs`, `TemporalProofs`, `HistoryProofs`, `ReasoningProofs`, `DatabaseProofs`, `SamplingProofs`, `CypherProofs` | theorems, section 5 |
| `Folding` | induction along a fold, for the proofs that need it |

Modules that share a run share no state: an `MC` module starts a behaviour in one
of several parts and stays in it, so that one run covers them without a product of
their state spaces.

### TemporalCommit

`db` is the committed store, `ws` the store the holder of the guard works on: the
same store outside a transaction, the transaction's view inside one (`inTx`). A
store has the sequence metadata `seq`, descriptors `desc`, records `rec`, markers
`mark`, the flag `stale`, the published index `state` and the index entries `idx`.
`sidecar` is the file `reserve_temporal_sequence` replaces before anything else; a
rollback does not undo it. `pc` is the step of the operation in flight, and one
action is one durable write, in the order of `commit_direct`,
`rebuild_temporal_indexes` and `reclaim_orphans_locked`:

| Actions | Code |
|---|---|
| `ReserveSequence` | validation of the whole batch, then `reserve_temporal_sequence` |
| `PutSequence` ... `PutVisibleMarker` | the writes of `commit_direct`, lines 346-390 |
| `StartRebuild`, `BuildGeneration`, `ActivateGeneration`, `ClearStale`, `PruneGeneration`, `FinishRebuild`, `RebuildRaises` | `rebuild_temporal_indexes`, one commit copied or pruned per step |
| `StartReclaim`, `UnindexOrphans`, `DeleteOrphanRecord`, `DeleteOrphanDescriptor` | `reclaim_orphans_locked`; it ends in a rebuild |
| `BeginTransaction`, `CommitTransaction`, `RollbackTransaction` | `_transacted_store` and `transaction_graph_scope` |
| `Crash`, `Fail` | the process dies, or a write raises and the caller goes on |

Data is abstracted to what the properties distinguish. A digest is the value it
digests. `Entities` are pairs of kind and logical id. The exact and the range
entries of one commit are one step each. Copying or pruning one commit, and
unindexing all orphans of one reclamation, is one step; within it the code only
adds to an inactive generation, deletes from a superseded one, or deletes entries
of invisible commits while the family is marked stale. DEFER_REBUILD is a DEFER
commit followed by a rebuild, between which the code releases the guard. Only
stores with a path are modelled: without one there is no sidecar and no other
process.

### TemporalLog

A set of commits that only grows; each publication adds commits after all the
earlier ones in id and in time. `ImplementsLog` states that `TemporalCommit`
implements it with `log <- db.mark`.

### TemporalRead

One reader beside `TemporalCommit`'s writer. `rd` is the read in progress: horizon,
index check (`ensure_temporal_indexes`), generation, locator scan and point reads are
separate actions, each of the store as it is then. `snap` is the store of an open
snapshot scope, whose sidecar is nevertheless the current file; `cache` and
`pinCache` are the bounded commit caches; `view` is an open read view with the prefix
it pinned. A lookup asks for all positions; matching is `EntityHistory`'s subject.

### EntityHistory, Epistemic, Extraction

A commit is one step here and its interval indexes are maintained. `EntityHistory`
has the writes of `temporal_entity_writes`, as-of selection through the interval
indexes with claim status, and the migration of `TimeIndexedEdge` records (scan,
commit, then delete one at a time). `Epistemic` adds accessibility claims and the
evaluator with its memo and limits, as a recursion over formulas. `Extraction` has
the claim sources, over an index that may have lost rows and may hold rows of
interrupted writes. The canonical source asks one query after another, the range
source one query at each boundary of its range, and both without the guard, so a query
is a sequence of scans with other steps in between:

| Actions | Code |
|---|---|
| `OpenSource` | the source is bound to a pinned view; a range source reads its boundaries (`range_generation.py:179-194`) |
| `Ask` | a query starts to look up its candidates (`iter_claims_as_of`, `temporal_selection.py:292`) and loads the generation (`:47`) |
| `LoadGeneration`, `ScanStarts`, `ScanEnds` | `interval_locators`, `:45-66`: the generation, the rows by their starts, the rows by their ends; once for the candidates, once for the history of each |
| `Yield` | the last version of each claim, unless none was found (`:307-339`), and the policy (`_filtered`) |
| `Finish` | the source is verified |
| `ScanNatively` | a native source: raw records or raw index rows under the guard, authenticated against the commits |
| `Rebuild`, `Reclaim` | between any two of these: activation of a new generation and deletion of the one before |

A lookup that holds a replaced generation meets what is left of its rows: they are
deleted version by version in the order of the commits
(`temporal_indexes.py:327-345`), and each scan, being one iterator of the backend, sees
the rows from some version on (`Cutoffs`, `Rows`).

### WriterLock, BatchFeeder

Threads of several processes share a lock file. `registry` is the weak dictionary
of a process, `refs` the lock objects of each thread's open `with` statements
(an object nobody references may vanish and be replaced), `rlock`, `depth` and
`fileHandle` the fields of each object, `flocked` the object that has the operating
system's lock. The Windows branch is not modelled. A process that dies closes its
files, which releases the lock: external behaviour of POSIX. `BatchFeeder` is
`AsyncBatchFeeder`: producer thread, bounded queue, stop event, consumers and owner.
Consumers call `get` without a timeout.

### CurrentGraph

`db`, `ws` and the scope are as in `TemporalCommit`: on a store with transactions an
operation opens an implicit one unless the caller has opened one
(`scope = "caller"`); on a plain store every write stays. A store holds the records
`rec`, everything derived from them as one set of entries `der` (tagged with the
family: label, property, composite, range, typed adjacency, legacy lists), the
`stale` families and the persisted index definitions `cfg`. `handle` and `child` are
the in-memory sessions of the database handle and of a transaction: which
properties they index, and the count cache. `job` is the operation in flight.

| Actions | Code |
|---|---|
| `PutNodes`, `PutEdges`, `DeleteNode`, `DeleteEdge` | `_graph/node_records.py`, `_graph/edge_records.py` |
| `IngestNodes`, `IngestEdges`, `MarkLabels`, `MarkProperties` | `_graph/ingest_nodes.py`, `_graph/ingest_edges.py`: chunks, then the stale markers |
| `DeleteTypedAdjacency`, `DeleteIndexes`, `RemoveFromAdjacencies`, `PutRecords`, `PutTypedAdjacency`, `PutIndexEntries`, `PutRangeEntries`, `PutAdjacencyLists` | the writes of an operation, in the code's order |
| `RebuildIndexes`, `CreatePropertyIndex`, `RebuildTypedAdjacency` and the steps `FlushExact` ... `RetypeEdges` | `_graph/index_rebuild.py`, `indexes.py` |
| `Finish`, `BeginTransaction`, `CommitTransaction`, `RollbackTransaction` | `_graph/scopes.py` |
| `Fail`, `Crash`, `Reopen`, `CountTypedAdjacency` | an exception, a dead process, a new handle, a cached count |

A step is one group of writes of a kind (all exact entries of a chunk, all range
entries, ...); the code may die inside a group, which leaves a subset of it: the
properties about dead operations speak of entries one at a time or only of families
outside `torn`. A batch holds each id once. An update is a put of the merged record.
Rebuilds name configured properties. `check_existing=False` and `append_only` are
for ids that are new, where the model's check finds nothing. The ghost component
`torn` says which families an operation that died on a plain store (or was caught
inside a caller's transaction) may have left incomplete: the code keeps no such
record, so lookups there are not refused, and `LookupExact` claims nothing about
these families until a rebuild.

### KVStore, Storage

`KVStore` has the keys: bytes are small numbers, a component is encoded so that the
separator cannot occur in it and its order is lost, range values keep their order,
typed adjacency joins raw ids; scans walk the sorted keys as each adapter does.
`Storage` has one database directory: the steps of create, open and upgrade
under the identity lock, transactions and snapshots of LMDB, LevelDB and RocksDB as
the adapters use them, and provenance captured from a snapshot and verified later.

### TruthMaintenance, Datalog and the reasoners

`TruthMaintenance`: rule versions stand for ground instances; a run reads and commits
in two steps; a maintenance pass commits and then stores its state, and `Die` may come
in between. Closures, strata and rounds are folds; the rounds of a component are bounded
by `MaxRounds`, which the proofs show to be enough for a fixpoint. `Datalog` has semi-naive evaluation with pivots, strata, supports,
delete-and-rederive, proofs and their checker, demand specialisation and the tabled
frontier. `RuleEngine`, `TemporalClosure` and `Reasoners` are callers whose program
and input are the state; `Intervals`, `Classification`, `Equality` and `Structural`
hold the operators. Each is compared with a reference definition (least and perfect
models, pointwise truth, entailment, connected components, broken constraints).

### ClaimLog, ReasoningSession, Publication

`log` is the visible history of one source and the target namespaces. A session pins
a horizon in one view and scans in another, advances by deltas or rebuilds, and
compares and replaces its file under a lock; a publisher stages without the guard and
publishes under it after comparing fingerprints. What the engine computes is a constant
here (`ClosureOf`, `Rebuilt`, `Retracted`, `Extended`): `MCReasoning` gives `Datalog`'s
operators for it, the theorems hold for any. `EngineSound` says what sessions rely on.

### Sampling

`SamplerSnapshot` has the snapshot directory (staged writes, rename, backup, append,
compact). `TemporalSnapshot` builds the arrays and bucketed interval index of a
history. `SamplerEngine` has draws, hops, negatives, contexts, batches, weights and
walks; the random generator is a choice over every outcome.

### CypherMatch, Cypher

`CypherMatch` evaluates patterns over a graph value as `runtime.py` does (candidate
selection, hops, trails, SHORTEST, OPTIONAL). `Cypher` analyses, plans and executes a
query operator by operator; bindings are copies, a mutating clause snapshots its
input and writes row by row, and a second client runs DDL without the guard. Rows are
gone through with `Fold`. The bodies of CALL and FOREACH are staged plans of their own
(`StagedRun`: reads, shapes and plain writes, executed in one step of the outer query);
`OneLevel` bounds queries to bodies without a further CALL or FOREACH.

### The map

`PROJECT.json` maps definitions to the lines they stand for. A small helper whose lines
lie within those of the definition it serves is mapped with that definition.

## 3. Runs

| Run | Checks |
|---|---|
| `temporal_commit` | `ReservedIdFresh`, `VisibleAuthentic`, `IndexFailClosedUnlessPartial`, `HistoryConsistent`, `ImplementsLog`, `RebuildKeepsReads`, `ExtractionExact` |
| `temporal_recovery` | `OperationEnds`, `ReadsComeBack` (liveness) |
| `temporal_read` | `ReadExactUnlessRebuilt`, `CachesFaithful`, `ViewStable`, `HistoryExact`, `ModalExact` |
| `clients` | `MutualExclusion`, `FeedOrdered`, `QueriesExact`, `WritesSafe`, `GuardMovesOn`, `StopReleases` (the last two are liveness) |
| `current_graph` | `EntriesDescribeRecords`, `LookupExact`, `DeletedNodeUnreachable` |
| `storage` | `IdentityAgrees`, `ScansExact`, `VerifiedUnchanged` |
| `truth_maintenance` | `MaintainedExact`, `SupportsHold` |
| `rule_engine` | `EvaluationExact`, `DemandSound`, `RangeExact`, `ReasonersExact` |
| `reasoning` | `SessionSound`, `PublicationExact`, `NoSaveLost` |
| `sampling` | `SnapshotExact`, `SamplesFaithful`, `BatchMapsBack`, `SnapshotDurable`, `IdsStable` |
| `cypher_limit` | `LimitKeepsWrites` (expected violation, section 4) |
| `feeder_stop` | `WaitersReleased` (expected violation, section 4) |

Each property is stated in words above its definition. Every property of a passing
run has a mutant (an operator `Bad...` before the one it replaces) that TLC must
catch. Deadlock is checked in `clients` and `current_graph`; elsewhere the models
stop at their bounds.

**temporal_commit.** Two parts. `commits` has four batches: an assertion, a correction of it, an assertion
with its retraction in one batch, a retraction of the first entity; any batch may be
submitted at any time, so resubmission after a failure is included. Ids 1..3: enough
for an orphan between two visible commits, a correction of a commit behind an orphan,
and a rebuild or reclamation around both. Two faults: one that leaves an orphan and
one that interrupts its repair. Two generations: one rebuild that replaces an existing
generation; `MaxGen` bounds rebuilds of readable indexes and `RepairGen` those of
refused ones. One clock reading: with it the clock stands still for ever, so that only
`NextTime` makes times grow. Four deployments: transactional and plain stores in all
modes, a database that always maintains, and one whose operator also passes
`through_commit`. `extraction` has the claim sources: two commits, two instants, one
lost row or interrupted write, aliases that chain, a derived agent, and requests with
and without a demand, a subject or a row limit that is too small; a limit of four
scanned claims lets a range of two segments with two claims each end. A rebuild may
come between any two scans. On an index that has lost rows only the native sources are
opened (`Promised`), as nothing is claimed of the others there.

**temporal_recovery.** The same model under fairness, two ids, one fault, six
repair generations. Assumed: a started operation is not suspended for ever, a
transaction scope ends, and an operator rebuilds while reads are refused (strong
fairness, since commits may come in between). The code has no background repair, so
the last assumption is the documented operating procedure ("rebuild after
StaleIndexError"), not scheduling. `ReadsComeBack` excludes bounded rebuilds and
duplicate version ids (section 4).

**temporal_read.** Six parts. `reads`: two commits, one fault, two generations and a
cache of one entry, so that eviction, a reader that meets each half of a commit, and a
generation replaced under a reader occur. `nodes`, `edges`, `claims`: two intervals of
three instants, so that versions overlap and close; three commits. `migration`: three
legacy records. `worlds`: two worlds and formulas that nest two modal operators.

**clients.** Three parts. `guard`: two processes, one with two threads, three lock objects, nesting
two deep, two faults. `feeder`: a queue of two, four batches, three starts and two
consumers, so that both may wait when the feeder is stopped.
Fairness: a thread that can take the next step of `__enter__` or `__exit__` takes it
and the body of a `with` ends; neither `RLock` nor `flock` is fair, so only that
somebody gets in is claimed. For the feeder: the runnable steps of `stop` and `get`.
The producer's call may never return. `StopReleases` claims what one wake-up achieves:
when everybody waits as the event is set, one consumer gets an answer.
`queries`: three graphs, five contexts (indexes, hierarchies, transactions,
snapshots, temporal view) and a query list that meets every operator and clause, with a
FOREACH whose body matches, sets and deletes. `QueriesExact` compares finished operators
and written clauses with a declarative reading; `WritesSafe` says that node constraints
hold at every state, also between rows, and that a transactional query that failed has
changed nothing. `IdPool` has an id for every entity that a query of the list creates, so
that a query which stops half way is a deadlock; only a client between queries rests.

**current_graph.** Four deployments: node batches over two properties (two, so that a
rebuild may cover some but not all of the indexes) and edge batches over one, each
with and without transactions. Two nodes, two edges, one label: a batch of two with
a self-loop, an untyped edge, a value without a range encoding, and an overwrite
that changes labels, properties and ends. One fault at any write, one operation
inside a caller's transaction, one count cached by a read.

**storage.** Two processes, three backends. Records whose keys are prefixes of each
other, components with a separator in them, range values that are prefixes; every
compatible set of four of them is scanned with every combination of open, closed and
missing bounds, direction and limit.

**truth_maintenance.** Five facts, two agents, five rule versions with a cycle, a
negation and a second version of one rule; three changes and two passes; instants
0..2 with an interval that covers all and one that covers the middle.

**rule_engine.** Programs of up to four of eight rules over inputs of up to three
facts; closures over up to four temporal rows with program changes and truncated
evidence; axiom sets of four, link sets and fact sets of three.

**reasoning.** Three claims over two facts, two processes, two publishers. Sessions see
up to three commits, publishers five: an assertion, two publications and two changes
are what a generation needs to come back to a state it had. The engine is `Datalog`'s,
with a chain of rules into a cycle; `EngineAssumption` evaluates `EngineSound` over all
states that it reaches from any evidence, so the hypothesis of `SessionsSound` is met.

**sampling.** Histories of three edge and two node versions; three writes and three
maintenance operations of a directory; walks of four steps.

## 4. Findings and observations

Two findings, each shown by a run that TLC must refute.

**`cypher_limit`.** A `CALL { ... }`
subquery is a lazy generator (`query_engine/cypher/runtime.py:479-504`) that is not
materialised, so LIMIT (`:339-348`) stops the updating clauses of the rows it drops;
the comment at `:683-684` says that a LIMIT must not truncate side effects.

**`feeder_stop`.** `stop()` puts one `_STOP` into the queue (`sampling/feeder.py:39-41`)
and the consumer that takes it keeps it (`:46-53`); the docstring at `:37` says that stop
unblocks waiting consumers. When two consumers wait on an empty queue and the producer is
in its call or dead, one of them waits for ever.

Observations made while modelling. The models show this behaviour, and the properties
above are stated so that they claim nothing about it.

1. Version ids: `version_id_exists` (`_graph/temporal_writes.py:111-124`) asks the
   version index whenever an index state exists, stale or not: after MAINTAIN, DEFER v,
   a second v is accepted. Later batched resolution reports corruption.
2. `rebuild_temporal_indexes(through_commit=k)` activates and prunes; the next MAINTAIN
   commit publishes a state over commits the new generation lacks
   (`_graph/temporal_indexes.py:319`), and reads silently omit them.
3. A rebuild of the current graph's indexes removes no entry, and a DEFER load does not
   unindex what it overwrites (`_graph/index_rebuild.py:71`): lookups still return the
   node under its old values.
4. An index created inside a transaction is published to that session only
   (`indexes.py:129`); the handle goes on without maintaining it, the next one trusts it.
5. On a plain store `update_count_cache` counts from zero when nothing is cached
   (`_graph/adjacency.py:121`).
6. Demand specialisation can lose answers that the closure has (`reasoning/demand.py`):
   `DemandSound` claims soundness only. Delete-and-rederive can drop asserted facts
   (`reasoning/maintenance.py:521-592`): `SessionSound` claims that nothing underivable
   stays. Functional properties are canonicalised in a single pass; structural
   validation says truncated at exactly the limit.
7. Absence checks of stored rules see only claims that are valid at the `as_of` instant,
   not those with other intervals (`_graph/stored_rules.py:272-277`). `run_rules` takes
   no write guard. A re-asserted active claim keeps two live versions.
8. A session pins its horizon in one view and scans in another. The fingerprint of a
   point publication has no history, so a target that left and came back is accepted:
   an older generation published as historical can replace a newer one.
   `PublicationExact` therefore claims that the target is the one staged against, and
   only of a bound range that its namespace has not moved.
9. A view opened while a caller groups commits in one transaction is no stable prefix
   (`Grouped = TRUE`); a reader whose generation a rebuild replaces may see less than
   its horizon; `get_commit` reads the descriptor before the marker and may report
   corruption for a commit reclaimed in between. The same holds within a query of a
   claim source: a candidate whose history rows have been pruned is passed over
   (`_graph/temporal_selection.py:316`), neither `admit_commit` nor `verify_source` looks
   at the generation, and the pass ends as if complete. `ExtractionExact` says of such a
   pass (`overtaken`) only that it shows nothing which does not hold: the deletion takes
   the oldest versions first, so the last version of a claim goes last.
10. Extraction refuses while an interrupted write lies within the horizon; the canonical
    source cannot notice a lost index row. `migrate_time_indexed_edges` holds no guard.
11. Storage: `save_manifest` is not atomic; open-ended property ranges cross type tags
    (`_graph/index_lookup.py:54-72`); adjacency keys join raw ids; an LMDB page whose
    offset lies past the end starts over.
12. Cypher: bindings are copies, so SET and REMOVE through one leave others stale; temporal
    label expressions seed from the current label index; ALL SHORTEST with a bound target,
    undirected variable-length self-loops, MERGE with a null property, and CREATE
    CONSTRAINT racing a write behave as `CypherMatch` and `Cypher` show.
13. Sampling: append and compact restamp `source_version`; between the two renames of
    `_replace` only the backup exists; after a `stop` that timed out the feeder's old
    thread may still put a batch.

## 5. Proofs

Every theorem holds for all constants that satisfy the named assumption of its module
(`ConstantAssumptions`, `ReadAssumptions`, `IdAssumption`, `KeysAssumption`,
`MaxPrefetchAssumption`, `NoProcAssumption`, `QueriesAssumption`, `BucketAssumption`,
`VersionsAssumption`, `FanoutsAssumption`, `InstantsAssumption`, `RulesAssumption`,
`ProgramsAssumption`),
without fairness.
`ReadsFollowHistory` and `SourcesExact` have hypotheses instead: payloads have one of
three kinds and time is a natural number (`ProperHistory`); legacy records are edges with
ids in an order, with payloads among those considered (`ProperLegacy`, no restriction,
since `Clients` may be any larger set); what a request names and what is aliased is
finite (`Proper`). `SessionsSound` has two hypotheses of its own, below. What the theorems of the other
components rest on was first checked by TLC as an invariant of their runs.

| Theorem | Module | Statement |
|---|---|---|
| `TypeCorrect` | `TemporalProofs` | `Spec => []TypeOK` |
| `Freshness` | `TemporalProofs` | `Spec => []ReservedIdFresh` |
| `Authenticity` | `TemporalProofs` | `Spec => []VisibleAuthentic` |
| `AppendOnly` | `TemporalProofs` | `Spec => ImplementsLog` |
| `FailClosed` | `TemporalProofs` | `Spec => []IndexFailClosedUnlessPartial` |
| `RebuildSafe` | `TemporalProofs` | `Spec => RebuildKeepsReads` |
| `Consistent` | `TemporalProofs` | `Spec => []HistoryConsistent` |
| `RebuildNeverRaises` | `TemporalProofs` | a rebuild meets no reference to a version it has not seen |
| `CacheFidelity` | `TemporalProofs` | `Spec => []CachesFaithful` of the composed reader and writer |
| `SequenceOrdered` | `TemporalProofs` | the reserved id a reader compares is never behind the sequence it read before |
| `ReadsExact` | `TemporalProofs` | a lookup that a rebuild does not overtake is exact for its horizon |
| `ViewsStable` | `TemporalProofs` | what an open view shows does not change |
| `ReadsFollowHistory` | `HistoryProofs` | `ProperHistory /\ ProperLegacy => (HistorySpec(Clients) => []HistoryExact)` |
| `SourcesExact` | `HistoryProofs` | `Proper => (ExtractionSpec(Clients) => []ExtractionExact)` |
| `PublicationsExact` | `ReasoningProofs` | `PublicationSpec(Told) => []PublicationExact` |
| `SavesNotLost` | `ReasoningProofs` | `SessionSpec(Told) => NoSaveLost` |
| `SessionsSound` | `ReasoningProofs` | `SessionSpec(Told) => []SessionSound`, if `Told \subseteq Tellings` and `EngineSound(states)` |
| `TruthMaintained` | `ReasoningProofs` | `Spec => []MaintainedExact` of stored rules |
| `SupportsStand` | `ReasoningProofs` | `Spec => []SupportsCurrent`, the first half of `SupportsHold` |
| `Exclusion` | `DatabaseProofs` | `Spec => []MutualExclusion` |
| `CoreInvariant` | `CurrentGraphProofs` | `Spec => []CoreInv`, the inductive invariant of the current graph |
| `NoDanglingEntries` | `CurrentGraphProofs` | `Spec => []EntriesDescribeRecords` |
| `DeletionComplete` | `CurrentGraphProofs` | `Spec => []DeletedNodeUnreachable` |
| `LookupsMatchScans` | `CurrentGraphProofs` | `Spec => []LookupExact` |
| `OneDatabase` | `DatabaseProofs` | `DatabaseSpec => []IdentityAgrees` |
| `ProvenanceSound` | `DatabaseProofs` | `DatabaseSpec => []VerifiedUnchanged` |
| `DirectoriesDurable` | `SamplingProofs` | `SnapSpec => SnapshotDurable` |
| `CompactIdsStable` | `SamplingProofs` | `SnapSpec => IdsStable` |
| `BatchesOrdered` | `SamplingProofs` | `FeedSpec => []FeedOrdered` |
| `SnapshotsExact` | `SamplingProofs` | `TemporalSpec => []SnapshotExact` |
| `BatchesMapBack` | `SamplingProofs` | `EngineSpec => []BatchMapsBack` |
| `WritesAreSafe` | `CypherProofs` | `CypherSpec => []WritesSafe` |

**The write path.** None of the properties is inductive as it stands. `CoreInv` is
`TypeOK` with: `InFlight`, what the step reached says about the store (between
reservation and marker, nothing with the new id exists that this commit did not
write, exactly the first `next - 1` records are there, and no marker; during
reclamation the ids in `rcl` are invisible); `AuthInv` and `AuthWs`, authenticity of
both the committed store and the working copy, since a transaction commits the
latter; and `LogInv`, that the working copy's markers extend the committed ones in
order. `AppendOnly` then follows step by step: only `PutVisibleMarker` outside a
transaction and `CommitTransaction` change `db.mark`, and each is a `Publish`.
`FailClosed` needs `IdxInv`: a published state whose checksum matches the markers it
covers has a complete generation, the stale flag or a missing state accounts for
every commit beyond it, and (`IndexInFlight`) what each step of a commit or a rebuild
has already written.

**Rebuilds and history.** `RebuildSafe` adds to `IdxInv` what a rebuild's end means:
the activated generation is the copy of the visible commits up to its horizon.
`Consistent` and `RebuildNeverRaises` need more than the visible commits say: that a
reference was checked when its commit was published is `JustInv` (every correction
and retraction among the visible commits names an earlier visible version of the same
entity), and that the check was made against the right versions is `ExactInv`: in a
store whose writers maintain the indexes the version index of both stores is exactly
the history (`ExactIndex`), also while a commit is in flight (`ExactInFlight`,
`NewIds`). Hypothesis where an index is consulted: `Maintained`, the writers maintain
the indexes and no bounded rebuild occurs. The deployments that break it are those of
observations 1 and 2.

**Readers.** The second half of `TemporalProofs` is about the composition: the writer's invariants
are carried over, and a step of the reader leaves the writer's variables alone.
`ReaderInv` has `SnapInv` (an open snapshot is an earlier committed store),
`CachesFaithful`, `SequenceInv`, `HorizonInv` (the horizon a read has settled on
covers only visible commits and stays covered), `SoundInv` (what the read has
collected is in its history) and `CompleteInv` (what it has yet to collect is still
there); the last holds because generations only grow (`GenInv`), so that the one the
read pinned is either still published or known to be replaced. `ViewInv` says that the
prefix of an open view is a prefix of the committed markers (`SingleInv`,
`PrefixInv`), and assumes `~Grouped`: a caller that groups commits in one transaction
breaks it (observation 9).

**Selection and migration.** `ReadsFollowHistory` is about every as-of read of the
history a client or a migration can write. Its reference lays the versions over the
timeline in the order of the commits, a fold over commits of folds over versions. By
induction along both (`CommitShows`, `PaintedIs`) a version is on top at an instant if it
covers it and no later version of its entity does (`OnTop`), which `ResolvesToShown`
shows to be what the read of one entity resolves to. Candidates come from the interval
indexes by entity, kind, end or claim field; a payload on top is filed under every key it
should be found by (`FiledByEnds`, `CandidatesResolve`), and what is filed there and no
longer on top is filtered again, so that nothing stale is returned (`ReadsShow`,
`ReadsPainted`). For migration, records have different ranks in its order (`AheadCounts`)
and therefore fill the places of the batch (`PlacesFilled`, `WritesAre`); a record holds
until the next of its id (`EndIs`), and its commit lays that out (`MigrationLays`). The
history only grows (`PlacesStay`, `LaidOutStays`, `TakenStays`). `HistInv` joins the form
of history and records to `MigrationExact`; once a migration has committed, a further one
is refused if a record's id is new, so it has nothing to write (`MigrateStep`).

**Claim sources.** `SourcesExact` says that a pass that ends returns exactly the
admitted claims that held at its instants in the history it pinned, for any payloads,
aliases, requests and policies, unless a rebuild replaced the generation of a lookup half
way, and nothing else in any case. The reference is `Holding`: no later version of the
claim covers the instant. The source takes the last version of each claim in commit
order instead, so `NewestExists` gives every claim a last version and `WinnersReign`
makes the two the same. `FoundIs` and `CanonicalIs` then show that the claims filed
under a key with the query's fields are those it matches (`FiledByFilter`), and
`NativeAgrees`, `LocatorCovers` and `RangeIs` that raw records, index candidates and
the cuts of a range lead to the same claims. `QueriesCover` says that the queries a
request is split into (its storage names, one at a time) cover what it asks for,
`YieldExact` that they yield no more, and `YieldsShow` the same of every instant of a
range. Within a query, `LookupKept` says what a lookup has met: all that is due while its
generation stands, and otherwise, since the rows go in the order of the commits, with
each version all later ones (`Later`: `RowsLater`, `StartsKept`, `EndsKept`). So the last
of the versions found of a claim is the one that reigns or none was found
(`LatestFound`, `YieldIs`), and every candidate has been or will be looked up
(`Settled`, `AnsweredKept`). `SourceInv` has the history (`HistKept`: a
version has a payload of its entity), interrupted writes, whose commits stay without
versions (`OrphansKept`), lost rows only after damage (`RowsKept`)
and, for the pass under way, that what it has collected is what the queries asked so
far yield, or part of it once overtaken (`PassKept`). The commits of a pass are a prefix
that later writes leave alone (`PrefixStays`), and a rebuild changes only the lookup it
overtakes (`ReplacedKept`).

**Publication.** `PublicationInv` has `StageKept` (what a publisher holds is the
fingerprint at its horizon and, unless given, the closure of the source there),
`TargetsCover` and `LogKept` (a commit has one version of a claim). Horizons do not move
(`HorizonStays`, `SourceStays`, `TargetStays`), so that everything about earlier commits
carries over (`ExactStays`), and the new one is the matter of `PublishKeeps`: equal
fingerprints mean the same claims and generations and, for a bound range, no commit of
the namespace in between (`SameBase`); the writes touch each claim once (`Written`) and
leave exactly what is desired (`DesiredShown`).

**Sessions.** `FileHeld` says that whoever is about to replace the file has its lock and
has found what it expects: `SavesNotLost`. For `SessionsSound`, `SessionKept` says that
the claims of a ledger's live versions are those the source shows at the later of the
session's horizon and its scan. Not the versions: a claim asserted twice has two. The
deltas start at the horizon even if the scan has read further, so the loop has the
invariant `DeltaAt`: a claim that a commit has touched since the horizon is as the
source shows it there, any other as it was scanned; at the end the two agree
(`DeltaShows`). The recursive function that adds up the deltas exists (`DeltasExist`)
and keeps the invariant (`DeltaKept`), both by a least counterexample. What was computed
is paired with the ledger (`ComputedFor`) in a set of engine states that `EngineSound`
closes under the engine's operations. The two hypotheses: claims are asserted,
corrected or retracted (`Tellings`), and there is such a set. That `Datalog` has one is
beyond the prover (it is recursive); `EngineAssumption` evaluates it for the run.

**Truth maintenance.** `TruthMaintained` says that after any pass, with changes, runs and
deaths in between, base and conclusions are the stable model of the active rules. Most
of it is about the evaluation. `ClosureIs` makes a closure of bounded depth the least
closed set; from it the components partition the facts (`ComponentsPart`), and in a
program that stratifies they come in an order in which what a rule negates lies strictly
below its head (`StrataLayered`). Within one component, `RoundAdvances` says that a round
adds only what a rule fires on what is believed and that whatever the rules still owe
uses something new. An output is new once and once for each instant that its validity
gains (`ExtentGrows`, `ExtentBound`), so `MaxRounds` rounds leave nothing new. `PassKeeps`
and `LayerKeeps` carry this along the rounds and the components, and `EvaluatedIs`
concludes that the outputs, with the base, are founded, closed and least (`Stable`).
The inductive invariant is `RuleInv`, of four parts. `Stored`: each version holds at the
instants it is valid for only, and the agent and fact it is filed under are its own. A
run that has read may commit what it read much later, over claims and rules that have
changed, so its writes must be well formed for any later store (`Writable`,
`WritableMore`). `Logged`: the default instant is that of the last pass, also when its
state was never stored (`LatestAppended`, `LogGrows`). `Upheld`: what the engine holds at
the maintained instant agrees with the outputs there, in validity and in supports, which
is stronger than `MaintainedExact` and needed for it: a pass that finds nothing to repair
compares only with what is stored. `CommitIs` says what a commit leaves where,
`RepairsStand` that what a pass writes are its changed conclusions and can be stored,
`SupportsBack` that a support reads back from the store as it was derived, although
conclusions it rests on may be written with it (`ChangedIs`), and `RepairsUphold` that
the pass establishes `Upheld`; `UpheldSettles`
and `UpheldIsModel` give the property, `UpheldCurrent` the second theorem. Assumptions:
instants are the numbers up to a largest one; facts are finitely many; a rule has a body
(`rules.py:93`); the programs to start with stratify, which every later one is
checked to do.

**The writer guard.** `LockInv` has the parts `OneObject` (all references of a
process's threads are to its registered object: a registered object vanishes only when
nobody holds it), `Nesting` (the depth of an object is the number of open `with`
statements of the thread that owns it), `Owned` and `FileHeld` (depth above zero means
that the object has the operating system's lock). Two threads inside would have two
different objects with the same file lock.


**The current graph.** A put removes the old entries of a record item by item, writes
the records of the whole chunk, and adds the new entries family by family, so between
operations and in the middle of one the indexes are described by how far the job has
got. `CoreInv` has `ScopeInv` (which store and session a scope uses), `StructureInv`,
`ConfigInv` (the configuration in memory, in the transaction and in the store agree up
to a creation that is ending), `KnownInv` (every index entry is about a configured
property or one whose creation died) and `DeletingOK` (all incident edges of a node to
be deleted are ahead of it in the job). `StructureInv` has `JobOK` (the shape of the job
by its phase), `FreshOK` (a load that does not look for old records has none to find,
also later in the same load), `CleanOK` (what has been unindexed has no entries left)
and `Described`, from which `NoDanglingEntries` follows. `StepKept`, `StepMoves` and
`StepInherits` say what each of the sixteen steps does to those parts. `Erasures` lists
the incident edges with `SetToSeq`, hence the assumption that `Edges` is finite.

`LookupsMatchScans` adds the other direction, that no entry is missing. `IndexInv` says
that every record has the entries wanted of it, or its family is marked, except what the
operation in flight owes (`Gap`: the head chunk until its phase is past, and all of a
kind from the first write of a deferred load until it is marked stale); that
property entries are there before range entries (`HalfIndexed`); how far a rebuild has
got (`RebuiltOK`); and that it clears only the marks of families it has rebuilt
completely (`ClearingSound`). `CountsInv` is the part about cached counts: a handle on a
store with transactions counts only committed entries, and every commit drops them.
`AllAgree` concludes: described, covered and unmarked, lookups and scans are equal. Both
theorems except the usage patterns that the properties except (`Plain`).

**The database.** `OneDatabase` rests on `LockHeld` (a process between the read of the
persisted identity and its adoption has the identity lock, and one that is about to
assign an identity has read that there is none) and `OneIdentity` (the identity in the
store, once there, never changes, and the manifest, its copy and every handle have it
or none). Only `AssignId` changes it, and then nobody has adopted another. The
assumption is that a new identity is none of the values that stand for a missing or
torn manifest. For `ProvenanceSound`, `Past` says of a view, of captured provenance and
of what a handle has verified that it was the data at its sequence number, and
`Published` that a commit which changes the data takes a new number: the same number
then means the same data.

**Snapshots.** `Picked` keeps the named positions of a sequence in order; `Ranks` and
`PickedLists` say that it is a bijection in order, from which follow the lemmas about
the lists a build scans and a compaction keeps. `Sound` says of a snapshot that its
tables have no name twice and that each row translates back to a record the graph held;
`AppendSound`, `PrunedSound`, `ReweightedSound` and `BuildSound` that each operation
keeps it, and `Continues` that what replaces a directory has its identity and its
tables, extended. `SnapInv` says for each phase of an operation (`Scanning`, `Stamping`,
`Writing`, `Swapping`, `Refreshing`) where the directory is that it replaces, and that
a build's identity is new.

**The feeder.** `InOrder` orders the queue, the batch in the producer's hands and what
each consumer took last. `Counted` is the balance of batches made and taken: those
missing are no more than the starts, less one while the present thread can still lose
a batch (`AtRisk`: it has not met the stop event), so that dropping a batch spends that
start.

**Cypher.** `WritesAreSafe` has two halves. Constraints: `BatchKeeps` takes any batch of
nodes that `_put_node_batch` accepts (it checks the staged records against each other and
against stored nodes that are not overwritten) and shows that the result respects the
catalog, because whoever is in the result is either staged or an untouched old record;
every write of a clause is such a batch or a deletion (`PlainKeeps`, `MergeKeeps`), a
clause folds over its rows (`BodyKeeps`), and so do a staged plan (`StagedRunKeeps`), a
FOREACH (`ForeachKeeps`) and a CALL (`CallKeeps`). `KeptInv` carries this through a query,
with the fact that the catalog of a transaction is the stored one. Atomicity:
`WritesPlanned` says that a query with an updating clause anywhere is planned as one that
writes, hence runs in a transaction where there are transactions, and `AtomicInv` that
the stored graph does not move while it is open.

**Temporal snapshots.** `SnapshotExact` compares `build_temporal`, which cuts a history
into rows, with a reference that asks at one instant for the newest version that is
valid then. The state says little (`TemporalInv`: a built snapshot is the one its
histories and some filter give); the proof is about the algorithm. `CutShows`,
`SubtractShows` and `MergeShows` say which instants the pieces left of an interval and
the merged covers contain, and that merged intervals are apart, by induction along the
folds. `ShowStep` and `ShownIs` carry the central invariant along a history, newest
version first: after n versions the covers contain the instants at which one of them is
valid, and a record shows an instant exactly when it is of the newest of them.
`RecordsAre`, `RowsExact` and `AvailExact` then read off the rows and the availability,
through `PlacedInOrder`: a finite set ranked by a strict total order is listed once each.
Assumption: `VersionsAssumption`, that ids and instants are numbers and that a version's
interval is not empty, which `TemporalInterval` checks (temporal.py:138).

**Batches.** `BatchMapsBack` relates the local ids of a finished batch to the history, but
what makes it true is kept while the call runs, over hops, negatives and components.
`EngineInv` adds to `TemporalInv` what a call in progress keeps (`JobKept`): of the
component at hand, that its nodes hold both ends of its rows and positives and that its
negatives end in nodes of the snapshot (`CompKept`); of the components already packed, that
their local ids lead back to their rows, positives and negatives (`BatchKept`); of
message-passing blocks, that an index entry points at the ends of its row (`LayersKept`). `Searched` says that a
search in a sorted set finds its element's place, `BatchFrom` that a component is mapped to
local ids and back, and `PackedKept` (with `ShiftBacks`) that packing one component behind
others leaves theirs alone and shifts its own, `DoneMore` that the reference grows by the
same component. Then one step per action, `HopKept` and `NegativeKept` under theirs.
Assumption: `FanoutsAssumption`, that a direction is one of three, a batch has a component,
and a negative replaces head or tail.

**Folds.** The library's induction theorems take an operator as a parameter, which the
provers cannot instantiate. `Folding` states induction as a module with operator
constants instead, `Do` (the step) and `Good` (what holds after n steps); its theorems
`Runs`, proved once from well-foundedness, and `RunMore`, that one more element is one
more step, reach a proof module for a fold by INSTANCE. The model's folds are functions, not RECURSIVE operators.

**What stays with TLC.** Liveness under fairness (`OperationEnds`, `ReadsComeBack`,
`GuardMovesOn`, `StopReleases`), which needs `ENABLED`. Everything about `Datalog`,
`RuleEngine`, `Reasoners`, `Classification`, `Equality` and `Epistemic`, which use
RECURSIVE operators, and about `TemporalClosure`, which reaches them: `EvaluationExact`,
`DemandSound`, `RangeExact`, `ReasonersExact`, `ModalExact`, and that `Datalog` is an
engine as `SessionsSound` assumes it. What a walk of recorded supports visits: the second
half of `SupportsHold`, an induction over the depth of a recursion into folds.
Comparisons of an algorithm with its reference definition: `SamplesFaithful`,
`ScansExact` and `QueriesExact`.

## 6. Plan

In order:

1. The safety half of `GuardMovesOn`: who may hold the writer guard next.
2. `ScansExact`: what a scan of sorted keys yields, for any keys; of `SamplesFaithful`,
   that a draw shows the records it names.
3. `CurrentGraph`: two handles on one store, node constraints.

Runs are kept few and each asks one question; bounds are named constants.

## 7. Not modelled

The ontology compiler, serializers and value encodings, visualisation, integrations
and the agent documentation have no state or order of their own. Of Cypher, the parser
and the scalar function library are left out; of sampling, the importance sampler and
the tensor converters. Of the current graph, node constraints, index names given to
the constructor and several handles on one store are left out; traversals only read.
Storage backends are external: a single write is atomic and durable, and a transaction
is atomic. Corrupt bytes, which only storage faults produce, are outside the model, as
are the 2^64 limit on commit ids (`IdLimit` stands for it: the code raises, the model
stops), the Windows branch of the writer guard, and stores without a path.

Coarser than the code:

- `TemporalRead`: `WalkMarker` and `ScanPrefix` read the markers of a walk; that
  `get_commit` also authenticates there, may admit the commit to the cache and may raise
  (`_graph/temporal_reads.py:552`, `:666-668`) is left to the point reads. `Refuse`
  empties the cache in every case, the code not at `:206`.
- `CurrentGraph`: `CountTypedAdjacency` scans and caches in one step and while no
  operation is in flight. The code's count takes no guard (`_graph/adjacency.py:83-90`), so
  that a count which races the commit of another thread may be cached after that commit has
  cleared the cache (`current.py:111-112`); `LookupExact` says nothing of that race.
- `TruthMaintenance`: `Maintain` finds the default instant and takes the guard in one
  step (`_graph/truth_maintenance.py:111`, `:115`).
- `ReasoningSession`: `Scan` is one step; the path on which a session finds a gap and is
  rebuilt (`reasoning/adapters/sessions.py:282`) is left out.
- `Extraction`: a reclamation and a rebuild are one step, so that a source opened while
  one is half done, which is refused until it ends, does not occur.
- `SamplerSnapshot`: `Swap` renames and removes the backup in one step
  (`sampling/snapshot.py:1347-1351`). `SamplerEngine` has no `candidate_fanout`: every
  candidate may be drawn (`sampling/engine.py:2038-2046`).
- `Cypher`: `CallStep` runs a subquery to its end for each row and a writing CALL does not
  interleave with the clauses around it (`runtime.py:479-503`) but for LIMIT; `Refresh`
  reads the graph, not the edges the context has cached (`write.py:109-114`, `:390-398`).
