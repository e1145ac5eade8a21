--------------------------- MODULE TemporalSnapshot ---------------------------
(***************************************************************************)
(* SamplerSnapshot.build_temporal (sampling/snapshot.py): the history that *)
(* a read view pins is cut into rows that never overlap, one row per piece *)
(* of a version that no newer version of the same edge covers, and the     *)
(* nodes get the intervals in which they are available.  A version's       *)
(* position in its log stands for its commit id and ordinal, microseconds  *)
(* are small numbers, and Open is the missing end of an interval.          *)
(***************************************************************************)
EXTENDS Integers, Sequences, FiniteSets, SequencesExt, FiniteSetsExt

CONSTANTS EdgeVersions,  \* versions an edge write may publish
          NodeVersions,  \* versions a node write may publish
          MaxEdgeLog, MaxNodeLog,  \* bounds on the two histories
          Bucket,        \* width of a time bucket, 0 for time_bucket = None
          Filters        \* edge_filter and node_filter, as kept relations and types

Open == 1000
NoRelation == 0
NoType == 0

ASSUME BucketAssumption == Bucket \in Nat

\* instants are integers, and an interval has one
IsVersion(v) == v.lid \in Int /\ v.put \in BOOLEAN /\ v.from \in Int /\ v.to \in Int /\ v.from < v.to
ASSUME VersionsAssumption ==
  /\ \A v \in EdgeVersions : IsVersion(v) /\ v.src \in Int /\ v.dst \in Int /\ v.rel \in Int
  /\ \A v \in NodeVersions : IsVersion(v)

VARIABLES elog, nlog,  \* the edge and node versions of the pinned view
          snap         \* the snapshot built from them with its filter, or NoSnap

logVars == <<elog, nlog, snap>>
NoSnap == [built |-> FALSE]

---------------------------------------------------------------------------
(* Intervals [from, to) *)

Interval(v) == [from |-> v.from, to |-> v.to]

ValidAt(iv, t) == iv.from <= t /\ t < iv.to

Ranked(S, Less(_, _)) ==
  [i \in 1 .. Cardinality(S) |->
     CHOOSE x \in S : Cardinality({y \in S : Less(y, x)}) = i - 1]

Fold(op(_, _), base, s) ==
  LET r[n \in 0..Len(s)] == IF n = 0 THEN base ELSE op(r[n - 1], s[n])
  IN  IF Len(s) \in Nat THEN r[Len(s)] ELSE base

Before(a, b) == a < b
ByStart(a, b) == a.from < b.from \/ (a.from = b.from /\ a.to < b.to)

\* what is left of one piece under one cover
Cut(p, c) ==
  IF c.to <= p.from \/ c.from >= p.to THEN {p}
  ELSE {q \in {[p EXCEPT !.to = c.from], [p EXCEPT !.from = c.to]} : q.from < q.to}

Subtract(iv, covered) ==
  Fold(LAMBDA pieces, c : UNION {Cut(p, c) : p \in pieces}, {iv}, covered)

\* touching intervals become one
Fuse(merged, iv) ==
  IF merged = <<>> \/ iv.from > merged[Len(merged)].to THEN Append(merged, iv)
  ELSE [merged EXCEPT ![Len(merged)].to = IF iv.to > @ THEN iv.to ELSE @]

Merge(ivs) == Fold(Fuse, <<>>, Ranked(ivs, ByStart))

---------------------------------------------------------------------------
(* One entity's history, newest version first: what each version still shows *)

Newer(a, b) == a.n > b.n

NewestFirst(log, id) ==
  Ranked({[v |-> log[i], n |-> i] : i \in {j \in DOMAIN log : log[j].lid = id}}, Newer)

Cover(acc, e) == Merge(Range(acc.covered) \cup {Interval(e.v)})

Pieces(acc, e) ==
  {[v |-> e.v, n |-> e.n, iv |-> p] : p \in IF e.v.put THEN Subtract(Interval(e.v), acc.covered) ELSE {}}

BadShow(acc, e) ==
  [covered |-> IF e.v.put THEN Cover(acc, e) ELSE acc.covered, shown |-> acc.shown \cup Pieces(acc, e)]

Show(acc, e) == [covered |-> Cover(acc, e), shown |-> acc.shown \cup Pieces(acc, e)]

Shown(log, id) == Fold(Show, [covered |-> <<>>, shown |-> {}], NewestFirst(log, id)).shown

Ids(log) == {log[i].lid : i \in DOMAIN log}

Records(log, f) ==
  {r \in UNION {Shown(log, id) : id \in Ids(log)} : r.v.rel # NoRelation /\ r.v.rel \in f.rels}

---------------------------------------------------------------------------
(* The tables *)

Payload(log, id) ==
  LET at == {i \in DOMAIN log : log[i].lid = id /\ log[i].put} IN log[Max(at)]

HasPayload(log, id) == \E i \in DOMAIN log : log[i].lid = id /\ log[i].put

EndsOf(records) == {r.v.src : r \in records} \cup {r.v.dst : r \in records}

SnapNodes(nl, records, f) ==
  {n \in {id \in Ids(nl) : HasPayload(nl, id)} \cup EndsOf(records) :
     HasPayload(nl, n) => Payload(nl, n).type \in f.types}

Available(nl, records, n) ==
  IF n \in Ids(nl) THEN Merge({r.iv : r \in Shown(nl, n)})
  ELSE Merge({r.iv : r \in {q \in records : q.v.src = n \/ q.v.dst = n}})

ByRow(a, b) == \/ a.v.lid < b.v.lid
               \/ a.v.lid = b.v.lid /\ a.n < b.n
               \/ a.v.lid = b.v.lid /\ a.n = b.n /\ ByStart(a.iv, b.iv)

Place(s, x) == CHOOSE i \in DOMAIN s : s[i] = x

\* an open end is stored as zero with a mask
RowOf(r, nodes, rels) ==
  [eid |-> r.v.lid, ver |-> r.n, src |-> Place(nodes, r.v.src), dst |-> Place(nodes, r.v.dst),
   rel |-> Place(rels, r.v.rel), w |-> r.v.w, from |-> r.iv.from, open |-> r.iv.to = Open,
   to |-> IF r.iv.to = Open THEN 0 ELSE r.iv.to]

\* the only endpoint type of a relation's rows, if they agree on one
TheType(types) == IF Cardinality(types) = 1 THEN CHOOSE t \in types : TRUE ELSE NoType

Assemble(f, records, nodes, types, rels, avail) ==
  LET sorted == Ranked(records, ByRow)
      rows == [i \in DOMAIN sorted |-> RowOf(sorted[i], nodes, rels)]
  IN  [built |-> TRUE, filter |-> f, nodes |-> nodes, types |-> types, rels |-> rels, rows |-> rows,
       avail |-> avail,
       srcType |-> [q \in DOMAIN rels |-> TheType({types[r.src] : r \in {x \in Range(rows) : x.rel = q}})],
       dstType |-> [q \in DOMAIN rels |-> TheType({types[r.dst] : r \in {x \in Range(rows) : x.rel = q}})]]

BuildTemporal(el, nl, f) ==
  LET all     == Records(el, f)
      nodeSet == SnapNodes(nl, all, f)
      records == {r \in all : r.v.src \in nodeSet /\ r.v.dst \in nodeSet}
      nodes   == Ranked(nodeSet, Before)
      types   == [i \in DOMAIN nodes |->
                    IF HasPayload(nl, nodes[i]) THEN Payload(nl, nodes[i]).type ELSE NoType]
  IN  Assemble(f, records, nodes, types, Ranked({r.v.rel : r \in records}, Before),
               [i \in DOMAIN nodes |-> Available(nl, records, nodes[i])])

\* _validate_v2_arrays, which runs before the build is published
IsLoadable(s) ==
  /\ \A r \in Range(s.rows) : IF r.open THEN r.to = 0 ELSE r.from < r.to
  /\ \A i \in DOMAIN s.avail : LET a == s.avail[i] IN
       /\ \A j \in DOMAIN a : a[j].from < a[j].to
       /\ \A j \in 1 .. Len(a) - 1 : a[j].to < a[j + 1].from

\* temporal_candidates: the rows of a node and relation that start no later
\* than the end of the instant's bucket
RowEnd(r) == IF r.open THEN Open ELSE r.to

BucketEnd(t) == IF Bucket = 0 THEN t ELSE (t \div Bucket + 1) * Bucket - 1

TemporalCandidates(s, n, rel, t, dir) ==
  {i \in DOMAIN s.rows : /\ s.rows[i].rel = rel
                         /\ (IF dir = "out" THEN s.rows[i].src ELSE s.rows[i].dst) = n
                         /\ s.rows[i].from <= BucketEnd(t)}

---------------------------------------------------------------------------
LogInit == elog = <<>> /\ nlog = <<>> /\ snap = NoSnap

PublishEdge ==
  /\ ~snap.built /\ Len(elog) < MaxEdgeLog
  /\ \E v \in EdgeVersions : elog' = Append(elog, v)
  /\ UNCHANGED <<nlog, snap>>

PublishNode ==
  /\ ~snap.built /\ Len(nlog) < MaxNodeLog
  /\ \E v \in NodeVersions : nlog' = Append(nlog, v)
  /\ UNCHANGED <<elog, snap>>

Build ==
  /\ ~snap.built
  /\ \E f \in Filters : snap' = BuildTemporal(elog, nlog, f)
  /\ UNCHANGED <<elog, nlog>>

TemporalSpec == LogInit /\ [][PublishEdge \/ PublishNode \/ Build]_logVars

---------------------------------------------------------------------------
(* The reference: what the histories say, version by version. *)

Newest(log, id, t) ==
  LET at == {i \in DOMAIN log : log[i].lid = id /\ ValidAt(Interval(log[i]), t)}
  IN  IF at = {} THEN 0 ELSE Max(at)

Instants == {0} \cup UNION {{v.from, v.to - 1} : v \in Range(elog) \cup Range(nlog)}

NodeShownAt(n, t) == Newest(nlog, n, t) # 0 /\ nlog[Newest(nlog, n, t)].put

EdgeShownAt(id, t) ==
  LET i == Newest(elog, id, t)
  IN  i # 0 /\ elog[i].put /\ elog[i].rel # NoRelation /\ elog[i].rel \in snap.filter.rels
        /\ \A n \in {elog[i].src, elog[i].dst} : n \in Range(snap.nodes)

(* At every instant the snapshot shows exactly the edges and the node       *)
(* availability that the newest version of each entity gives, an entity     *)
(* never by two rows at once, and the arrays pass the check that load makes. *)
SnapshotExact ==
  snap.built =>
    /\ IsLoadable(snap)
    /\ \A t \in Instants, id \in Ids(elog) :
         LET at == {i \in DOMAIN snap.rows : /\ snap.rows[i].eid = id /\ snap.rows[i].from <= t
                                             /\ t < RowEnd(snap.rows[i])}
         IN  /\ Cardinality(at) = IF EdgeShownAt(id, t) THEN 1 ELSE 0
             /\ \A i \in at : /\ snap.rows[i].ver = Newest(elog, id, t)
                              /\ snap.nodes[snap.rows[i].src] = elog[snap.rows[i].ver].src
                              /\ snap.nodes[snap.rows[i].dst] = elog[snap.rows[i].ver].dst
                              /\ snap.rels[snap.rows[i].rel] = elog[snap.rows[i].ver].rel
    /\ \A t \in Instants, i \in DOMAIN snap.nodes :
         (\E j \in DOMAIN snap.avail[i] : ValidAt(snap.avail[i][j], t))
           <=> IF snap.nodes[i] \in Ids(nlog) THEN NodeShownAt(snap.nodes[i], t)
               ELSE \E r \in Range(snap.rows) :
                      i \in {r.src, r.dst} /\ r.from <= t /\ t < RowEnd(r)
=============================================================================
