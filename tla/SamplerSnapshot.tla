--------------------------- MODULE SamplerSnapshot ---------------------------
(***************************************************************************)
(* The life of a static sampler snapshot directory (sampling/snapshot.py): *)
(* built from a graph, loaded, appended to, compacted, re-weighted, while  *)
(* a writer changes the graph and the maintaining process may die between  *)
(* any two steps.  A snapshot is a table of compact ids: nodes, relations  *)
(* and edge rows are numbered by position.                                 *)
(***************************************************************************)
EXTENDS Integers, Sequences, FiniteSets, SequencesExt

CONSTANTS NodeKeys,       \* external node ids, in key order (a sequence)
          EdgeIds,     \* external edge ids, in key order (a sequence)
          RelationKeys,   \* external relation ids, in sorted order (a sequence)
          Links,       \* the endpoints and relation an edge record may have
          MaxWrites,   \* bound on graph changes
          MaxOps       \* bound on snapshot operations

NoRel == "no relation"
NoDir == [complete |-> FALSE]
NoVersion == 0

\* keys are unique; an edge record has no relation or one that has a key
ASSUME KeysAssumption ==
  /\ NodeKeys \in Seq(Range(NodeKeys)) /\ RelationKeys \in Seq(Range(RelationKeys))
  /\ EdgeIds \in Seq(Range(EdgeIds)) /\ \A i, j \in DOMAIN EdgeIds : EdgeIds[i] = EdgeIds[j] => i = j
  /\ \A l \in Links : l.rel = NoRel \/ l.rel \in Range(RelationKeys)

VARIABLES graph,   \* [nodes, edges]: the live graph
          seq,     \* its sequence number, the observable source version
          seen,    \* every edge record the graph ever held
          disk,    \* [path, backup]: the two well-known directories
          handle,  \* the snapshot object the process holds, or NoDir
          op,      \* the operation in progress
          ops      \* operations started

snapVars == <<graph, seq, seen, disk, handle, op, ops>>

Idle == [pc |-> "idle"]

SnapInit ==
  /\ graph = [nodes |-> {NodeKeys[1], NodeKeys[2]}, edges |-> {}]
  /\ seq = 1 /\ seen = {}
  /\ disk = [path |-> NoDir, backup |-> NoDir]
  /\ handle = NoDir /\ op = Idle /\ ops = 0

---------------------------------------------------------------------------
(* The graph's writer: external to this module (see CurrentGraph). *)

Write(nodes, edges) ==
  /\ seq <= MaxWrites
  /\ graph' = [nodes |-> nodes, edges |-> edges]
  /\ seq' = seq + 1
  /\ seen' = seen \cup edges
  /\ UNCHANGED <<disk, handle, op, ops>>

PutNode == \E n \in Range(NodeKeys) \ graph.nodes : Write(graph.nodes \cup {n}, graph.edges)

PutEdge ==
  \E id \in Range(EdgeIds), l \in Links :
    Write(graph.nodes, {e \in graph.edges : e.id # id}
                         \cup {[id |-> id, src |-> l.src, rel |-> l.rel, dst |-> l.dst]})

DeleteEdge == \E e \in graph.edges : Write(graph.nodes, graph.edges \ {e})

---------------------------------------------------------------------------
(* The compact tables.  Position(s, x) is the compact id of x. *)

Position(s, x) == CHOOSE i \in DOMAIN s : s[i] = x

Row(e, nodes, rels) ==
  [id |-> e.id, src |-> Position(nodes, e.src), rel |-> Position(rels, e.rel),
   dst |-> Position(nodes, e.dst), w |-> 1]

\* the elements of s at the positions in K, in the order of s
Rank(K, i) == Cardinality({k \in K : k <= i})
Picked(s, K) == [m \in 1 .. Cardinality(K) |-> s[CHOOSE i \in K : Rank(K, i) = m]]

InKeyOrder(keys, members) == Picked(keys, {i \in DOMAIN keys : keys[i] \in members})

EdgeOf(edges, id) == CHOOSE e \in edges : e.id = id

\* build's second scan: rows for the edges whose endpoints were scanned and
\* whose relation property is set, in key order
BuiltRows(nodes, rels, edges) ==
  LET ids == InKeyOrder(EdgeIds, {e.id : e \in edges})
  IN  [i \in DOMAIN ids |-> Row(EdgeOf(edges, ids[i]), nodes, rels)]

Buildable(edges, nodes) ==
  {e \in edges : e.src \in nodes /\ e.dst \in nodes /\ e.rel # NoRel}

BadExtended(s, names) == InKeyOrder(NodeKeys \o RelationKeys, Range(s) \cup Range(names))

\* append_from_graph: unknown endpoints and relations are numbered after the
\* known ones, in the order the batch meets them
Extended(s, names) ==
  s \o Picked(names, {i \in DOMAIN names : /\ names[i] \notin Range(s)
                                          /\ \A j \in 1 .. i - 1 : names[j] # names[i]})

Endpoints(batch) ==
  [k \in 1 .. 2 * Len(batch) |-> IF k % 2 = 1 THEN batch[(k + 1) \div 2].src ELSE batch[k \div 2].dst]

AppendRows(snap, batch) ==
  LET nodes == Extended(snap.nodes, Endpoints(batch))
      rels  == Extended(snap.rels, [i \in DOMAIN batch |-> batch[i].rel])
  IN  [snap EXCEPT !.nodes = nodes, !.rels = rels, !.gen = @ + 1,
                   !.rows = @ \o [i \in DOMAIN batch |-> Row(batch[i], nodes, rels)]]

Pruned(snap, live) ==
  [snap EXCEPT !.rows = Picked(@, {i \in DOMAIN @ : @[i].id \in live}), !.compactions = @ + 1]

---------------------------------------------------------------------------
(* build: from a live graph (two scans, then the source token, each reading *)
(* the graph as it is then) or from a pinned view, whose store cannot open  *)
(* a second view so that no source token is recorded.                       *)

Begin(o) == op.pc = "idle" /\ ops < MaxOps /\ ops' = ops + 1 /\ op' = o

BuildScanNodes ==
  \E view \in BOOLEAN :
    /\ Begin([pc |-> "edges", view |-> view, pin |-> graph,
              nodes |-> InKeyOrder(NodeKeys, graph.nodes)])
    /\ UNCHANGED <<graph, seq, seen, disk, handle>>

BuildScanEdges ==
  /\ op.pc = "edges"
  /\ \E edges \in {Buildable(IF op.view THEN op.pin.edges ELSE graph.edges, Range(op.nodes))} :
       LET rels == InKeyOrder(RelationKeys, {e.rel : e \in edges})
       IN  op' = [pc |-> "stamp", kind |-> "build", fresh |-> ~op.view,
                  snap |-> [sid |-> ops, nodes |-> op.nodes, rels |-> rels, gen |-> 0,
                            rows |-> BuiltRows(op.nodes, rels, edges), compactions |-> 0,
                            version |-> NoVersion]]
  /\ UNCHANGED <<graph, seq, seen, disk, handle, ops>>

\* the operation stamps the source version it observes after it has read the
\* rows; compact without a graph and set_edge_weights keep the recorded one
Stamp ==
  /\ op.pc = "stamp"
  /\ op' = [pc |-> "arrays", kind |-> op.kind,
            snap |-> IF op.fresh THEN [op.snap EXCEPT !.version = seq] ELSE op.snap]
  /\ UNCHANGED <<graph, seq, seen, disk, handle, ops>>

---------------------------------------------------------------------------
(* append_from_graph, compact, set_edge_weights on the loaded snapshot *)

Holds == handle # NoDir

\* an unknown key, a duplicate edge id or a missing relation raises: no step
AppendFromGraph ==
  /\ Holds
  /\ \E ids \in SUBSET {e.id : e \in graph.edges} :
       \E batch \in {LET keyed == InKeyOrder(EdgeIds, ids)
                     IN  [i \in DOMAIN keyed |-> EdgeOf(graph.edges, keyed[i])]} :
         /\ ids # {}
         /\ \A i \in DOMAIN batch : /\ batch[i].rel # NoRel
                                    /\ \A r \in Range(handle.snap.rows) : r.id # batch[i].id
         /\ Begin([pc |-> "stamp", kind |-> "replace", fresh |-> TRUE,
                   snap |-> [AppendRows(handle.snap, batch) EXCEPT !.version = NoVersion]])
  /\ UNCHANGED <<graph, seq, seen, disk, handle>>

Compact ==
  /\ Holds
  /\ \E withGraph \in BOOLEAN :
       LET live == IF withGraph THEN {e.id : e \in graph.edges} ELSE Range(EdgeIds)
       IN  Begin([pc |-> "stamp", kind |-> "replace", fresh |-> withGraph,
                  snap |-> Pruned(handle.snap, live)])
  /\ UNCHANGED <<graph, seq, seen, disk, handle>>

SetEdgeWeights ==
  /\ Holds
  /\ Begin([pc |-> "stamp", kind |-> "replace", fresh |-> FALSE,
            snap |-> [handle.snap EXCEPT !.rows = [i \in DOMAIN @ |-> [@[i] EXCEPT !.w = 2]]]])
  /\ UNCHANGED <<graph, seq, seen, disk, handle>>

---------------------------------------------------------------------------
(* _write and _replace *)

Dir(complete, snap) == [complete |-> complete, snap |-> snap]

BadStageArrays ==
  /\ op.pc = "arrays"
  /\ op' = [op EXCEPT !.pc = "staging"]
  /\ disk' = [disk EXCEPT !.path = Dir(FALSE, op.snap)]
  /\ UNCHANGED <<graph, seq, seen, handle, ops>>

\* _write: arrays, metadata, the completion manifest and the load check all
\* happen in a private staging directory; _replace first checks the path
StageArrays ==
  /\ op.pc = "arrays"
  /\ op' = IF (op.kind = "build") = (disk.path # NoDir)
           THEN Idle ELSE [op EXCEPT !.pc = "staging"]
  /\ UNCHANGED <<graph, seq, seen, disk, handle, ops>>

StageComplete ==
  /\ op.pc = "staging"
  /\ op' = [op EXCEPT !.pc = "staged"]
  /\ UNCHANGED <<graph, seq, seen, disk, handle, ops>>

\* os.replace(staging, path): one rename publishes a fresh build
PublishBuild ==
  /\ op.pc = "staged" /\ op.kind = "build"
  /\ disk' = [disk EXCEPT !.path = Dir(TRUE, op.snap)]
  /\ op' = [op EXCEPT !.pc = "refresh"]
  /\ UNCHANGED <<graph, seq, seen, handle, ops>>

\* os.replace(path, backup), after an older backup has been removed
MoveToBackup ==
  /\ op.pc = "staged" /\ op.kind = "replace"
  /\ disk' = [path |-> NoDir, backup |-> disk.path]
  /\ op' = [op EXCEPT !.pc = "swap"]
  /\ UNCHANGED <<graph, seq, seen, handle, ops>>

\* os.replace(staged, path), then the backup is removed; an exception puts
\* the backup back
Swap ==
  /\ op.pc = "swap"
  /\ \/ /\ disk' = [path |-> Dir(TRUE, op.snap), backup |-> NoDir]
        /\ op' = [op EXCEPT !.pc = "refresh"]
     \/ /\ disk' = [path |-> disk.backup, backup |-> NoDir]
        /\ op' = Idle
  /\ UNCHANGED <<graph, seq, seen, handle, ops>>

\* _refresh_from_disk, or the load that ends build
Refresh ==
  /\ op.pc = "refresh"
  /\ handle' = disk.path /\ op' = Idle
  /\ UNCHANGED <<graph, seq, seen, disk, ops>>

\* a directory without a matching completion manifest does not load
Load ==
  /\ op.pc = "idle" /\ disk.path.complete /\ handle # disk.path
  /\ handle' = disk.path
  /\ UNCHANGED <<graph, seq, seen, disk, op, ops>>

\* the maintaining process dies; the directories stay as they are
Crash ==
  /\ op.pc # "idle" \/ Holds
  /\ op' = Idle /\ handle' = NoDir
  /\ UNCHANGED <<graph, seq, seen, disk, ops>>

SnapNext ==
  \/ PutNode \/ PutEdge \/ DeleteEdge
  \/ BuildScanNodes \/ BuildScanEdges \/ Stamp
  \/ AppendFromGraph \/ Compact \/ SetEdgeWeights
  \/ StageArrays \/ StageComplete \/ PublishBuild \/ MoveToBackup \/ Swap \/ Refresh
  \/ Load \/ Crash

SnapSpec == SnapInit /\ [][SnapNext]_snapVars

---------------------------------------------------------------------------
\* is_stale: only a recorded and equal source version counts as fresh
IsStale == handle.snap.version = NoVersion \/ handle.snap.version # seq

Kept == disk.path.complete \/ disk.backup.complete

(* A crash or a failed rename never leaves a partly written directory at    *)
(* the snapshot's path, and never loses the last copy of a snapshot: once   *)
(* one has been published, the path or the backup holds a complete one.     *)
SnapshotDurable == /\ [](disk.path # NoDir => disk.path.complete)
                   /\ [][Kept => Kept']_snapVars

(* Every edge row, translated back through the compact tables, is a record  *)
(* that the graph held under that edge id, and no edge id has two rows.     *)
Record(s, r) ==
  [id |-> r.id, src |-> s.nodes[r.src], rel |-> s.rels[r.rel], dst |-> s.nodes[r.dst]]

RowsFaithful ==
  Holds => LET s == handle.snap IN
             /\ \A r \in Range(s.rows) : Record(s, r) \in seen
             /\ \A i, j \in DOMAIN s.rows : s.rows[i].id = s.rows[j].id => i = j

IsIdStable(old, new) ==
  old.sid = new.sid => IsPrefix(old.nodes, new.nodes) /\ IsPrefix(old.rels, new.rels)

Latest(d) == IF d.path # NoDir THEN d.path ELSE d.backup

(* Compact node and relation ids never move while a snapshot keeps its      *)
(* identity, whatever appends, compactions and reweightings it undergoes,   *)
(* so stored batches stay valid; and the rows they are used in are always   *)
(* those of the graph (append_from_graph, compact, set_edge_weights).       *)
IdsStable == /\ []RowsFaithful
             /\ [][Kept => IsIdStable(Latest(disk).snap, Latest(disk').snap)]_snapVars
=============================================================================
