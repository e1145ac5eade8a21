----------------------------- MODULE CurrentGraph -----------------------------
(***************************************************************************)
(* The mutable current graph: canonical node and edge records, everything  *)
(* derived from them (label, property and range indexes, typed adjacency,  *)
(* legacy adjacency lists), the persisted set of stale index families, the *)
(* property index definitions, and the count cache of each session.        *)
(*                                                                         *)
(* One action is one write of the store.  A store with transactions wraps  *)
(* an operation in an implicit transaction unless the caller opened one; a *)
(* plain store keeps whatever was written when an operation dies.          *)
(*                                                                         *)
(* Nodes and edges share one form of record: an edge has its ends, and its *)
(* type, if any, as its only label.                                        *)
(***************************************************************************)
EXTENDS Integers, Sequences, FiniteSets, FiniteSetsExt, SequencesExt

CONSTANTS
    Nodes, Edges,
    Labels,         \* node labels and edge types
    Props,          \* property names
    Values,         \* property values
    Scalars,        \* the values that have a range encoding
    Deployments,    \* backend and usage patterns, see IsDeployment
    MaxFaults,      \* bound on crashes and exceptions
    MaxCached,      \* bound on the counts that reads leave in a cache
    MaxInside,      \* bound on the operations of one caller's transaction
    Absent          \* no record, no property, no cached count

Ids == Nodes \cup Edges
Kinds == {"node", "edge"}
KindOf(i) == IF i \in Nodes THEN "node" ELSE "edge"
OfKind(k) == IF k = "node" THEN Nodes ELSE Edges

Record == [labels : SUBSET Labels, props : [Props -> Values \cup {Absent}],
           ends : {<<>>} \cup (Nodes \X Nodes)]
Item == [id : Ids, rec : Record]

(* A batch holds nodes or edges, each id once; edges alone have ends.       *)
IsBatch(b) ==
    /\ b \in Seq(Item) /\ b # <<>>
    /\ \A i \in DOMAIN b : b[i].rec.ends = <<>> <=> b[i].id \in Nodes
    /\ \A i, j \in DOMAIN b : KindOf(b[i].id) = KindOf(b[j].id) /\ (b[i].id = b[j].id => i = j)

(* transactional: the store has transactions.  batches, names: what callers *)
(* submit, and the properties they create indexes for.  overwrite: DEFER    *)
(* ingestion may carry nodes that exist.  nested: property indexes are also *)
(* created inside a caller's transaction.                                   *)
IsDeployment(d) ==
    /\ d.transactional \in BOOLEAN /\ d.overwrite \in BOOLEAN /\ d.nested \in BOOLEAN
    /\ d.names \subseteq Props /\ \A b \in d.batches : IsBatch(b)

ASSUME ConstantAssumptions ==
    /\ Nodes \cap Edges = {} /\ IsFiniteSet(Edges) /\ Scalars \subseteq Values
    /\ Absent \notin Values \cup Record /\ MaxFaults \in Nat /\ MaxCached \in Nat /\ MaxInside \in Nat
    /\ \A d \in Deployments : IsDeployment(d)

VARIABLES
    dep,        \* the deployment, fixed by Init
    db,         \* the committed store
    ws,         \* the store the operation in flight reads and writes
    scope,      \* the open transaction: none, implicit or the caller's
    handle,     \* the session of the open database handle
    child,      \* the session of the open transaction
    job,        \* the operation in flight
    inside,     \* operations run in the caller's transaction
    faults

vars == <<dep, db, ws, scope, handle, child, job, inside, faults>>

-----------------------------------------------------------------------------
(* What is derived from a record.                                           *)

Has(r, P) == {p \in P : r.props[p] # Absent}
Entry(fam, i, key) == [fam |-> fam, id |-> i, key |-> key]

(* Exact-match entries: label or type, property, and the composite of both. *)
LabelEntries(i, r) == {Entry("label", i, <<l>>) : l \in r.labels}
PropertyEntries(i, r, P) ==
    {Entry("property", i, <<p, r.props[p]>>) : p \in Has(r, P)}
    \cup {Entry("label_property", i, <<l, p, r.props[p]>>) : l \in r.labels, p \in Has(r, P)}

(* Range entries exist for scalar values only.                              *)
RangeEntries(i, r, P) ==
    LET S == {p \in Has(r, P) : r.props[p] \in Scalars} IN
    {Entry("range", i, <<p, r.props[p]>>) : p \in S}
    \cup {Entry("label_range", i, <<l, p, r.props[p]>>) : l \in r.labels, p \in S}

(* Forward and reverse typed adjacency.  An edge without a type has none.   *)
TypedEntries(i, r) ==
    IF r.ends = <<>> THEN {}
    ELSE {Entry("typed", i, <<"out", r.ends[1], l, r.ends[2]>>) : l \in r.labels}
         \cup {Entry("typed", i, <<"in", r.ends[2], l, r.ends[1]>>) : l \in r.labels}

(* The lists of edge ids kept with each node.                               *)
LegacyEntries(i, r) ==
    IF r.ends = <<>> THEN {}
    ELSE {Entry("legacy", i, <<"source", r.ends[1]>>), Entry("legacy", i, <<"target", r.ends[2]>>)}

IndexEntries(i, r, P) == LabelEntries(i, r) \cup PropertyEntries(i, r, P) \cup RangeEntries(i, r, P)
AllEntries(i, r) == IndexEntries(i, r, Props) \cup TypedEntries(i, r) \cup LegacyEntries(i, r)

Present(s) == {i \in Ids : s.rec[i] # Absent}

-----------------------------------------------------------------------------
(* Sessions: the index configuration and the count cache kept in memory.    *)

CountKeys == {"out", "in"} \X Nodes \X Labels
NoCounts == [k \in CountKeys |-> Absent]

(* How many typed adjacency records a store holds for a key.                *)
StoredCount(s, k) ==
    Cardinality({e \in s.der : e.fam = "typed" /\ e.key[1] = k[1] /\ e.key[2] = k[2] /\ e.key[3] = k[3]})

(* The edges of a batch that a count key is about.                          *)
Touching(B, k) ==
    {x \in B : k[3] \in x.rec.labels /\ x.rec.ends[IF k[1] = "out" THEN 1 ELSE 2] = k[2]}

(* update_count_cache: outgoing counts move by the number of edges, from    *)
(* zero when nothing is cached; incoming ones are dropped.                  *)
UpdateCounts(c, B, delta) ==
    [k \in CountKeys |->
        IF Touching(B, k) = {} THEN c[k]
        ELSE IF k[1] = "in" THEN Absent
        ELSE LET old == IF c[k] = Absent THEN 0 ELSE c[k]
             IN  Max({0, old + delta * Cardinality(Touching(B, k))})]

(* The session that an operation uses.                                      *)
Session == IF scope = "none" THEN handle ELSE child

SetSession(v) ==
    IF scope = "none" THEN handle' = v /\ UNCHANGED child ELSE child' = v /\ UNCHANGED handle

(* A transaction's session copies the configuration; its cache is new.      *)
Fork(s) == [indexed |-> s.indexed, counts |-> NoCounts]

(* A new handle reads the configuration from the store.                     *)
Opened(s) == [indexed |-> s.cfg, counts |-> NoCounts]

(* One write.  Outside a transaction it is committed at once.               *)
Write(s) == ws' = s /\ db' = IF scope = "none" THEN s ELSE db

-----------------------------------------------------------------------------
(* Operations.  job.chunks are the batches still to be written.             *)

NoJob == [phase |-> "idle", chunks |-> <<>>, n |-> 0, check |-> FALSE, maintain |-> FALSE,
          legacy |-> FALSE, counted |-> FALSE, defer |-> FALSE,
          kind |-> "node", labels |-> FALSE, props |-> {}, create |-> FALSE]

Idle == job.phase = "idle"

(* The items of a chunk, from item n on, whose old record must be unindexed. *)
Replaced(s, j, n) ==
    IF j.check THEN {m \in n..Len(Head(j.chunks)) : s.rec[Head(j.chunks)[m].id] # Absent} ELSE {}

(* Where a chunk goes on from item n: unindex the next old record, or write. *)
ReplaceFrom(s, j, n) ==
    IF Replaced(s, j, n) = {} THEN [j EXCEPT !.phase = "record", !.n = 0]
    ELSE LET m == Min(Replaced(s, j, n))
         IN  [j EXCEPT !.n = m,
                       !.phase = IF Head(j.chunks)[m].id \in Edges THEN "untype" ELSE "unindex"]

(* The next chunk, or what follows the last one.                            *)
NextChunk(s, j) ==
    IF Len(j.chunks) > 1 THEN ReplaceFrom(s, [j EXCEPT !.chunks = Tail(@)], 1)
    ELSE [j EXCEPT !.phase = IF j.defer THEN "mark_label" ELSE "end"]

(* write_scope: a transaction of its own, unless one is open already.       *)
Start(j) ==
    /\ Idle /\ job' = j
    /\ IF dep.transactional /\ scope = "none"
       THEN scope' = "implicit" /\ child' = Fork(handle)
       ELSE UNCHANGED <<scope, child>>
    /\ IF scope = "caller" THEN inside < MaxInside /\ inside' = inside + 1 ELSE UNCHANGED inside
    /\ UNCHANGED <<dep, db, ws, handle, faults>>

WriteJob(chunks, check, maintain) ==
    [NoJob EXCEPT !.chunks = chunks, !.check = check, !.maintain = maintain]

Singly(b) == [i \in DOMAIN b |-> <<b[i]>>]
Used == {KindOf(b[1].id) : b \in dep.batches}   \* what the callers work with
BatchesOf(k) == {b \in dep.batches : KindOf(b[1].id) = k}
Fresh(b) == \A i \in DOMAIN b : ws.rec[b[i].id] = Absent

(* put_node and put_nodes; update is a put of the merged record.            *)
PutNodes ==
    \E b \in BatchesOf("node") : Start(ReplaceFrom(ws, WriteJob(<<b>>, TRUE, TRUE), 1))

(* put_edge and put_edges_bulk.  update_adjacency omits the legacy lists.   *)
(* check_existing is off for new ids only, where it makes no difference.    *)
PutEdges ==
    \E b \in BatchesOf("edge"), legacy \in BOOLEAN :
        Start(ReplaceFrom(ws, [WriteJob(<<b>>, TRUE, TRUE) EXCEPT !.legacy = legacy, !.counted = TRUE], 1))

Incident(s, n) == {e \in Edges : s.rec[e] # Absent /\ n \in {s.rec[e].ends[1], s.rec[e].ends[2]}}
Erase(i) == <<[id |-> i, rec |-> Absent]>>

DeleteEdge ==
    \E e \in Edges :
        /\ ws.rec[e] # Absent
        /\ Start(ReplaceFrom(ws, WriteJob(<<Erase(e)>>, TRUE, FALSE), 1))

BadErasures(n) == <<Erase(n)>>

(* delete_node: the incident edges one by one, then the node itself.        *)
Erasures(n) ==
    LET es == SetToSeq(Incident(ws, n)) IN Append([i \in DOMAIN es |-> Erase(es[i])], Erase(n))

DeleteNode ==
    \E n \in Nodes :
        Start(ReplaceFrom(ws, WriteJob(Erasures(n), TRUE, FALSE), 1))

(* Node ingestion, chunk by chunk.  MAINTAIN unindexes old records (append_ *)
(* only skips that for new ids, which have none); DEFER does not, and marks *)
(* the families stale at the end.                                           *)
IngestNodes ==
    \E b \in BatchesOf("node"), maintain \in BOOLEAN :
        /\ maintain \/ Fresh(b) \/ dep.overwrite
        /\ Start(ReplaceFrom(ws, [WriteJob(Singly(b), maintain, maintain) EXCEPT !.defer = ~maintain], 1))

(* Edge ingestion: append-only, typed edges only, no legacy lists.  Arrow   *)
(* loads update the count cache, Polars payload loads do not.               *)
IngestEdges ==
    \E b \in BatchesOf("edge"), maintain, counted \in BOOLEAN :
        /\ Fresh(b) /\ \A i \in DOMAIN b : b[i].rec.labels # {}
        /\ Start(ReplaceFrom(ws, [WriteJob(Singly(b), FALSE, maintain) EXCEPT
                                !.defer = ~maintain, !.counted = counted], 1))

RebuildJob(k, labels, props) ==
    [NoJob EXCEPT !.phase = "exact", !.kind = k, !.labels = labels, !.props = props]

(* rebuild_node_indexes and rebuild_edge_indexes over configured indexes;   *)
(* rebuild_deferred_indexes calls them for the stale families.              *)
RebuildIndexes ==
    \E k \in Used, labels \in BOOLEAN : \E props \in SUBSET Session.indexed[k] :
        /\ labels \/ props # {}
        /\ Start(RebuildJob(k, labels, props))

CreatePropertyIndex ==
    \E k \in Used, p \in dep.names :
        /\ scope = "caller" => dep.nested
        /\ Start([RebuildJob(k, FALSE, {p}) EXCEPT !.create = TRUE])

RebuildTypedAdjacency ==
    "edge" \in Used /\ Start([NoJob EXCEPT !.phase = "retype", !.kind = "edge"])

-----------------------------------------------------------------------------
(* The steps of a write.                                                    *)

Chunk == Head(job.chunks)
Items == Range(Chunk)
Old == [id |-> Chunk[job.n].id, rec |-> ws.rec[Chunk[job.n].id]]
Indexed(i) == Session.indexed[KindOf(i)]

Step(p) == job.phase = p /\ UNCHANGED <<dep, scope, inside, faults>>
Drop(E) == [ws EXCEPT !.der = @ \ E]
Add(E) == [ws EXCEPT !.der = @ \cup E]
Quiet == UNCHANGED <<handle, child>>

(* Old entries go, in the code's order, before the record is replaced.      *)
DeleteTypedAdjacency ==
    /\ Step("untype")
    /\ Write(Drop(TypedEntries(Old.id, Old.rec)))
    /\ SetSession([Session EXCEPT !.counts = UpdateCounts(@, {Old}, -1)])
    /\ job' = [job EXCEPT !.phase = "unindex"]

BadUnindexed == IndexEntries(Old.id, Old.rec, Indexed(Old.id)) \ RangeEntries(Old.id, Old.rec, Props)

(* What delete_node_indexes and delete_edge_indexes remove.                 *)
Unindexed == IndexEntries(Old.id, Old.rec, Indexed(Old.id))

DeleteIndexes ==
    /\ Step("unindex") /\ Quiet
    /\ Write(Drop(Unindexed))
    /\ job' = IF Old.id \in Edges THEN [job EXCEPT !.phase = "unlink"] ELSE ReplaceFrom(ws, job, job.n + 1)

RemoveFromAdjacencies ==
    /\ Step("unlink") /\ Quiet
    /\ Write(Drop(LegacyEntries(Old.id, Old.rec)))
    /\ job' = ReplaceFrom(ws, job, job.n + 1)

(* The records of the chunk in one write.  Deleting a node also deletes the *)
(* legacy lists kept with it.                                               *)
PutRecords ==
    LET written == [i \in Ids |-> IF \E x \in Items : x.id = i
                                  THEN (CHOOSE x \in Items : x.id = i).rec ELSE ws.rec[i]]
        erased == {x.id : x \in {y \in Items : y.rec = Absent}}
        lists == {e \in ws.der : e.fam = "legacy" /\ e.key[2] \in erased}
        s == [ws EXCEPT !.rec = written, !.der = @ \ lists]
    IN  /\ Step("record") /\ Quiet
        /\ Write(s)
        /\ job' = IF erased # {} THEN NextChunk(s, job)
                  ELSE IF Chunk[1].id \in Edges THEN [job EXCEPT !.phase = "typed"]
                  ELSE IF job.maintain THEN [job EXCEPT !.phase = "index"]
                  ELSE NextChunk(s, job)

PutTypedAdjacency ==
    /\ Step("typed")
    /\ Write(Add(UNION {TypedEntries(x.id, x.rec) : x \in Items}))
    /\ SetSession([Session EXCEPT !.counts = IF job.counted THEN UpdateCounts(@, Items, 1) ELSE @])
    /\ job' = IF job.maintain THEN [job EXCEPT !.phase = "index"] ELSE NextChunk(ws, job)

PutIndexEntries ==
    /\ Step("index") /\ Quiet
    /\ Write(Add(UNION {LabelEntries(x.id, x.rec) \cup PropertyEntries(x.id, x.rec, Indexed(x.id)) : x \in Items}))
    /\ job' = [job EXCEPT !.phase = "range"]

PutRangeEntries ==
    /\ Step("range") /\ Quiet
    /\ Write(Add(UNION {RangeEntries(x.id, x.rec, Indexed(x.id)) : x \in Items}))
    /\ job' = IF job.legacy THEN [job EXCEPT !.phase = "legacy"] ELSE NextChunk(ws, job)

PutAdjacencyLists ==
    /\ Step("legacy") /\ Quiet
    /\ Write(Add(UNION {LegacyEntries(x.id, x.rec) : x \in Items}))
    /\ job' = NextChunk(ws, job)

(* mark_indexes_stale, after the last chunk of a deferred load.             *)
MarkLabels ==
    /\ Step("mark_label") /\ Quiet
    /\ Write([ws EXCEPT !.stale = @ \cup {<<KindOf(Chunk[1].id), "label">>}])
    /\ job' = [job EXCEPT !.phase = IF Indexed(Chunk[1].id) # {} THEN "mark_property" ELSE "end"]

MarkProperties ==
    /\ Step("mark_property") /\ Quiet
    /\ Write([ws EXCEPT !.stale = @ \cup {<<KindOf(Chunk[1].id), "property">>}])
    /\ job' = [job EXCEPT !.phase = "end"]

-----------------------------------------------------------------------------
(* The steps of a rebuild.  The scan only adds entries.                     *)

Scanned == Present(ws) \cap OfKind(job.kind)
ClearStale(f) ==
    [ws EXCEPT !.stale = @ \ {<<job.kind, f>>}, !.torn = @ \ {<<job.kind, f>>}]

(* The configuration a rebuild runs under: creation stages the new name.    *)
Staged == Session.indexed[job.kind] \cup IF job.create THEN job.props ELSE {}

FlushExact ==
    /\ Step("exact") /\ Quiet
    /\ Write(Add(UNION {(IF job.labels THEN LabelEntries(i, ws.rec[i]) ELSE {})
                         \cup PropertyEntries(i, ws.rec[i], job.props) : i \in Scanned}))
    /\ job' = [job EXCEPT !.phase = "ranges"]

BadCoversAll == job.props # {}

(* The property family is current again only if every index was rebuilt.    *)
CoversAll == job.props # {} /\ Staged \subseteq job.props

AfterLabels == IF CoversAll THEN "clear_property" ELSE IF job.create THEN "config" ELSE "end"

FlushRanges ==
    /\ Step("ranges") /\ Quiet
    /\ Write(Add(UNION {RangeEntries(i, ws.rec[i], job.props) : i \in Scanned}))
    /\ job' = [job EXCEPT !.phase = IF job.labels THEN "clear_label" ELSE AfterLabels]

ClearLabels ==
    /\ Step("clear_label") /\ Quiet
    /\ Write(ClearStale("label"))
    /\ job' = [job EXCEPT !.phase = AfterLabels]

ClearProperties ==
    /\ Step("clear_property") /\ Quiet
    /\ Write(ClearStale("property"))
    /\ job' = [job EXCEPT !.phase = IF job.create THEN "config" ELSE "end"]

(* persist_property_index_metadata                                          *)
PersistConfig ==
    /\ Step("config") /\ Quiet
    /\ Write([ws EXCEPT !.cfg[job.kind] = Staged])
    /\ job' = [job EXCEPT !.phase = "end"]

RetypeEdges ==
    LET B == {[id |-> i, rec |-> ws.rec[i]] : i \in Scanned}
    IN  /\ Step("retype")
        /\ Write([Add(UNION {TypedEntries(x.id, x.rec) : x \in B}) EXCEPT !.torn = @ \ {<<"edge", "typed">>}])
        /\ SetSession([Session EXCEPT !.counts = UpdateCounts(NoCounts, B, 1)])
        /\ job' = [job EXCEPT !.phase = "end"]

-----------------------------------------------------------------------------
(* Scopes, faults and reads.                                                *)

NoSession == [indexed |-> [k \in Kinds |-> {}], counts |-> NoCounts]

(* The handle after its implicit transaction committed: no cached count     *)
(* survives.                                                                *)
AfterCommit(s) == [s EXCEPT !.counts = NoCounts]

(* Index creation publishes the new name in memory, after the commit.       *)
Published(s) == [s EXCEPT !.indexed[job.kind] = @ \cup IF job.create THEN job.props ELSE {}]

(* The write scope ends: an implicit transaction commits.                   *)
Finish ==
    /\ job.phase = "end" /\ job' = NoJob
    /\ IF scope = "implicit"
       THEN /\ db' = ws /\ scope' = "none" /\ child' = NoSession
            /\ handle' = Published(AfterCommit(handle))
       ELSE SetSession(Published(Session)) /\ UNCHANGED <<db, scope>>
    /\ UNCHANGED <<dep, ws, inside, faults>>

BeginTransaction ==
    /\ Idle /\ dep.transactional /\ scope = "none"
    /\ scope' = "caller" /\ child' = Fork(handle)
    /\ UNCHANGED <<dep, db, ws, handle, job, inside, faults>>

CommitTransaction ==
    /\ Idle /\ scope = "caller"
    /\ db' = ws /\ scope' = "none" /\ child' = NoSession
    /\ handle' = AfterCommit(handle) /\ inside' = 0
    /\ UNCHANGED <<dep, ws, job, faults>>

RollbackTransaction ==
    /\ Idle /\ scope = "caller"
    /\ ws' = db /\ scope' = "none" /\ child' = NoSession /\ inside' = 0
    /\ UNCHANGED <<dep, db, handle, job, faults>>

(* What the operation in flight may leave half done.  torn is a ghost: the  *)
(* families that may lack entries, and the kinds with an index half created. *)
Torn ==
    IF job.phase = "end" THEN {}
    ELSE {KindOf(x.id) : x \in UNION {Range(c) : c \in Range(job.chunks)}} \X {"label", "property", "typed"}
         \cup IF job.create THEN {<<job.kind, "created">>} ELSE {}
HalfDone == [ws EXCEPT !.torn = @ \cup Torn]

(* A write raises.  An implicit transaction rolls back; a caller may catch  *)
(* the exception inside its own and go on; a plain store keeps the writes.  *)
Fail ==
    /\ ~Idle /\ faults < MaxFaults /\ (job.phase = "end" => scope = "implicit")
    /\ job' = NoJob /\ faults' = faults + 1
    /\ IF scope = "implicit"
       THEN ws' = db /\ scope' = "none" /\ child' = NoSession /\ UNCHANGED db
       ELSE Write(HalfDone) /\ UNCHANGED <<scope, child>>
    /\ UNCHANGED <<dep, handle, inside>>

Restart(s) ==
    /\ db' = s /\ ws' = s /\ handle' = Opened(s)
    /\ job' = NoJob /\ scope' = "none" /\ child' = NoSession /\ inside' = 0
    /\ UNCHANGED dep

Crash ==
    /\ faults < MaxFaults /\ faults' = faults + 1
    /\ Restart(IF scope = "none" /\ ~Idle THEN HalfDone ELSE db)

(* The handle is closed and the database opened again.                      *)
Reopen == Idle /\ scope = "none" /\ Restart(db) /\ UNCHANGED faults

(* count_typed_adjacency caches what the store holds.                       *)
CountTypedAdjacency ==
    /\ Idle /\ "edge" \in Used
    /\ Cardinality({k \in CountKeys : Session.counts[k] # Absent}) < MaxCached
    /\ \E k \in CountKeys :
          /\ Session.counts[k] = Absent
          /\ SetSession([Session EXCEPT !.counts[k] = StoredCount(ws, k)])
    /\ UNCHANGED <<dep, db, ws, scope, job, inside, faults>>

-----------------------------------------------------------------------------
EmptyStore ==
    [rec |-> [i \in Ids |-> Absent], der |-> {}, stale |-> {}, cfg |-> [k \in Kinds |-> {}], torn |-> {}]

Init ==
    /\ dep \in Deployments
    /\ db = EmptyStore /\ ws = EmptyStore
    /\ scope = "none" /\ handle = NoSession /\ child = NoSession
    /\ job = NoJob /\ inside = 0 /\ faults = 0

Operation ==
    \/ PutNodes \/ PutEdges \/ DeleteNode \/ DeleteEdge \/ IngestNodes \/ IngestEdges
    \/ RebuildIndexes \/ CreatePropertyIndex \/ RebuildTypedAdjacency

WriteStep ==
    \/ DeleteTypedAdjacency \/ DeleteIndexes \/ RemoveFromAdjacencies
    \/ PutRecords \/ PutTypedAdjacency \/ PutIndexEntries \/ PutRangeEntries
    \/ PutAdjacencyLists \/ MarkLabels \/ MarkProperties

RebuildStep ==
    \/ FlushExact \/ FlushRanges \/ ClearLabels \/ ClearProperties \/ PersistConfig \/ RetypeEdges

Next ==
    \/ Operation \/ WriteStep \/ RebuildStep \/ Finish
    \/ BeginTransaction \/ CommitTransaction \/ RollbackTransaction
    \/ Fail \/ Crash \/ Reopen \/ CountTypedAdjacency

Spec == Init /\ [][Next]_vars

-----------------------------------------------------------------------------
(* Properties.                                                              *)

PropertyFamilies == {"property", "range"}
CompositeFamilies == {"label_property", "label_range"}
EntryProp(e) == IF e.fam \in PropertyFamilies THEN e.key[1] ELSE e.key[2]

Plainly == ~dep.overwrite /\ ~dep.nested

Describes(s, e) == s.rec[e.id] # Absent /\ e \in AllEntries(e.id, s.rec[e.id])

(* Old entries are removed before a record changes and new ones are written *)
(* after it, so that at no point, whatever the operation and wherever it    *)
(* dies, does an index or adjacency entry describe a record that is not     *)
(* there.  An index creation that died on a plain store left entries that   *)
(* no later write maintains, and is excepted.                               *)
EntriesDescribeRecords ==
    Plainly =>
        \A s \in {db, ws} : \A e \in s.der :
            \/ Describes(s, e)
            \/ /\ e.fam \in PropertyFamilies \cup CompositeFamilies
               /\ <<KindOf(e.id), "created">> \in s.torn

(* What the lookups of kind k over some families return, and what a scan of *)
(* the records would.                                                       *)
Looked(s, k, fams) ==
    {e \in s.der : /\ e.fam \in fams /\ KindOf(e.id) = k
                   /\ e.fam \in PropertyFamilies \cup CompositeFamilies => EntryProp(e) \in s.cfg[k]}
Scan(s, k, fams) ==
    {e \in UNION {IndexEntries(i, s.rec[i], s.cfg[k]) \cup TypedEntries(i, s.rec[i]) :
                    i \in Present(s) \cap OfKind(k)} : e.fam \in fams}
Agree(s, k, fams) == Looked(s, k, fams) = Scan(s, k, fams)

(* ensure_indexes_current lets the lookup through, and no operation died    *)
(* half way since the last rebuild.                                         *)
Trusted(s, k, marks) == \A m \in marks : <<k, m>> \notin s.stale \cup s.torn

IndexesAgree(s) ==
    \A k \in Kinds :
        /\ Trusted(s, k, {"label"}) => Agree(s, k, {"label"})
        /\ Trusted(s, k, {"property", "created"}) => Agree(s, k, PropertyFamilies)
        /\ Trusted(s, k, {"label", "property", "created"}) => Agree(s, k, CompositeFamilies)
        /\ Trusted(s, k, {"typed"}) => Agree(s, k, {"typed"})

CountsMatch(v, s) == \A k \in CountKeys : v.counts[k] # Absent => v.counts[k] = StoredCount(s, k)

(* A lookup that is not refused returns exactly what a scan of the records  *)
(* would, for label, property, composite, range and typed adjacency lookups *)
(* and every sequence of writes, deferred loads, rebuilds, index creations, *)
(* rollbacks and restarts: of the committed store at any time a transaction *)
(* is open, and of the store in use between operations.  On stores with     *)
(* transactions so does the handle's count cache, which every commit        *)
(* clears.  Deferred loads over existing nodes and index creation inside a  *)
(* transaction are excepted.                                                *)
LookupExact ==
    /\ Plainly /\ scope # "none" => IndexesAgree(db)
    /\ Plainly /\ Idle => IndexesAgree(ws)
    /\ dep.transactional => CountsMatch(handle, db)

(* When delete_node completes, nothing leads to the node any more: no edge  *)
(* record, typed adjacency entry or legacy list mentions it.                *)
DeletedNodeUnreachable ==
    \A n \in Nodes :
        job.phase = "end" /\ job.chunks = <<Erase(n)>> =>
            /\ ws.rec[n] = Absent /\ Incident(ws, n) = {}
            /\ \A e \in ws.der : /\ e.fam = "legacy" => e.key[2] # n
                                 /\ e.fam = "typed" => n \notin {e.key[2], e.key[4]}
=============================================================================
