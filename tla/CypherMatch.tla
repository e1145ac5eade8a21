---------------------------- MODULE CypherMatch ----------------------------
(***************************************************************************)
(* Pattern matching of the Cypher engine (query_engine/cypher/runtime.py,  *)
(* expr.py): candidate selection through the secondary indexes, hop        *)
(* expansion, variable-length trails, SHORTEST selectors, named paths and  *)
(* OPTIONAL MATCH, over an immutable graph value g.                        *)
(*                                                                         *)
(* Nodes and edges have one property, "p"; a missing property reads as     *)
(* Null.  Entities travel in rows as copies (the Python objects), so a     *)
(* binding keeps what was read when it was bound.  Anonymous variables are *)
(* "".  Unset stands for "no constraint".                                    *)
(***************************************************************************)
EXTENDS Integers, Sequences, FiniteSets, SequencesExt

CONSTANTS Null, Unset,
          SubLabel,     \* label |-> its proper descendants in the label hierarchy
          SubType       \* edge type |-> its proper descendants in the relation hierarchy

Node(g, i) == [kind |-> "node", id |-> i, labels |-> g.nodes[i].labels, p |-> g.nodes[i].p]
Edge(g, e) == [kind |-> "edge", id |-> e, src |-> g.edges[e].src, dst |-> g.edges[e].dst,
               type |-> g.edges[e].type, p |-> g.edges[e].p]
ListOf(s) == [kind |-> "list", items |-> s]

Ascending(S) == SetToSortSeq(S, LAMBDA a, b : a < b)
NodeSeq(g) == Ascending(DOMAIN g.nodes)
EdgeSeq(g) == Ascending(DOMAIN g.edges)
Each(f(_), s) == FlattenSeq([i \in DOMAIN s |-> f(s[i])])
AtMost(s, k) == SubSeq(s, 1, IF k < Len(s) THEN k ELSE Len(s))
Pick(s, idx) == [k \in DOMAIN idx |-> s[idx[k]]]

---------------------------------------------------------------------------
(* Expressions: equality and comparison with null propagation, and the     *)
(* three-valued connectives.                                               *)

Eq3(a, b) == IF a = Null \/ b = Null THEN Null ELSE a = b

Compare(op, a, b) ==
    IF a = Null \/ b = Null THEN Null
    ELSE CASE op = "="  -> a = b [] op = "<>" -> a # b
           [] op = "<"  -> a < b [] op = "<=" -> a <= b
           [] op = ">"  -> a > b [] op = ">=" -> a >= b

And3(vs) == IF FALSE \in vs THEN FALSE ELSE IF Null \in vs THEN Null ELSE TRUE
Or3(vs)  == IF TRUE \in vs THEN TRUE ELSE IF Null \in vs THEN Null ELSE FALSE
Not3(v)  == IF v = Null THEN Null ELSE ~v

\* v.p of a bound entity; a null variable has only null properties.
PropertyOf(v) == IF v = Null THEN Null ELSE v.p

\* One comparison v.p <op> value, or v IS NULL.
EvalPart(part, b) ==
    IF part.op = "IS NULL" THEN b[part.var] = Null
    ELSE Compare(part.op, PropertyOf(b[part.var]), part.val)

EvalWhere(where, b) ==
    LET vs == {EvalPart(where.parts[i], b) : i \in DOMAIN where.parts}
    IN CASE where.kind = "AND" -> And3(vs)
         [] where.kind = "OR"  -> Or3(vs)
         [] where.kind = "NOT" -> Not3(And3(vs))

NoWhere == [kind |-> "AND", parts |-> <<>>]

\* filter_expression keeps exactly the rows whose predicate is TRUE.
FilterRows(rows, where) == SelectSeq(rows, LAMBDA r : EvalWhere(where, r.b) = TRUE)

---------------------------------------------------------------------------
(* Node patterns [var, labels, alts, id, p]: alts is the set of            *)
(* [req, exc] alternatives of a label expression.                          *)

Closure(l, ctx) == IF ctx.hierarchy THEN {l} \cup SubLabel[l] ELSE {l}
LabelMatches(labels, l, ctx) == Closure(l, ctx) \cap labels # {}
LabelsSatisfy(labels, req, exc, ctx) ==
    /\ \A l \in req : LabelMatches(labels, l, ctx)
    /\ \A l \in exc : ~LabelMatches(labels, l, ctx)

NodePatternMatches(v, np, ctx) ==
    /\ IF np.alts # {} THEN \E a \in np.alts : LabelsSatisfy(v.labels, a.req, a.exc, ctx)
       ELSE LabelsSatisfy(v.labels, np.labels, {}, ctx)
    /\ np.id = Unset \/ v.id = np.id
    /\ np.p = Unset \/ Eq3(v.p, np.p) = TRUE

---------------------------------------------------------------------------
(* Candidate selection.  A predicate of the clause's own WHERE may pick an *)
(* index; only AND-ed comparisons on the pattern's variable qualify.       *)

BadSeekParts(var, where, ops) ==   \* a comparison under OR picks the index too
    SelectSeq(where.parts, LAMBDA part : part.var = var /\ part.op \in ops)

SeekParts(var, where, ops) ==
    IF where.kind = "AND"
    THEN SelectSeq(where.parts, LAMBDA part : part.var = var /\ part.op \in ops)
    ELSE <<>>

WhereExactSeek(var, where) ==
    LET parts == SeekParts(var, where, {"="})
    IN IF parts = <<>> THEN Unset ELSE parts[1].val

\* The bounds of a range scan: a later comparison replaces an earlier one on its side.
RangeBounds(var, where) ==
    FoldLeft(LAMBDA acc, part :
               IF part.op \in {">", ">="}
               THEN [acc EXCEPT !.found = TRUE, !.lo = part.val, !.incLo = part.op = ">="]
               ELSE [acc EXCEPT !.found = TRUE, !.hi = part.val, !.incHi = part.op = "<="],
             [found |-> FALSE, lo |-> Null, hi |-> Null, incLo |-> TRUE, incHi |-> TRUE],
             SeekParts(var, where, {"<", "<=", ">", ">="}))

InRange(v, r) ==
    /\ v # Null
    /\ r.lo = Null \/ v > r.lo \/ (r.incLo /\ v = r.lo)
    /\ r.hi = Null \/ v < r.hi \/ (r.incHi /\ v = r.hi)

\* Ids whose labels meet every required label, expanded through the hierarchy.
NodeIdsForLabels(g, ids, labels, ctx) ==
    {i \in ids : \A l \in labels : LabelMatches(g.nodes[i].labels, l, ctx)}

\* Seed of a label-expression scan: the union of the required labels, or every
\* node when some alternative requires none.  The seed comes from the label index
\* of the current graph, in a temporal query too.
NodeIdsForLabelExpression(g, alts, ctx) ==
    LET nodes == IF ctx.temporal THEN ctx.current ELSE g.nodes
        ids   == IF \E a \in alts : a.req = {} THEN DOMAIN nodes
                 ELSE {i \in DOMAIN nodes : \E a \in alts : \E l \in a.req :
                          LabelMatches(nodes[i].labels, l, ctx)}
    IN ids \cap DOMAIN g.nodes

\* The property value an index lookup uses, Unset when none is eligible.
NodeSeek(np, where, ctx) ==
    CASE ~ctx.indexed -> Unset
      [] np.p # Unset   -> np.p
      [] OTHER        -> WhereExactSeek(np.var, where)

ScanIds(g, np, exact, range, ctx) ==
    LET all    == DOMAIN g.nodes
        labels == IF np.alts = {} THEN np.labels ELSE {}
        seeks  == exact # Unset \/ (ctx.indexed /\ range.found)
        hit(v) == IF exact # Unset THEN v = exact ELSE ~seeks \/ InRange(v, range)
    IN IF np.alts # {} /\ ~seeks THEN NodeIdsForLabelExpression(g, np.alts, ctx)
       ELSE IF ctx.temporal THEN all
       ELSE NodeIdsForLabels(g, {i \in all : hit(g.nodes[i].p)}, labels, ctx)

NodeScanIds(g, np, where, ctx) ==
    ScanIds(g, np, NodeSeek(np, where, ctx), RangeBounds(np.var, where), ctx)

---------------------------------------------------------------------------
(* Rows [b, cur, path, ns]: bindings, cursor, the relationships used in    *)
(* this MATCH in order (used_relationship_ids is their set) and the nodes  *)
(* visited.                                                                *)

SameEntity(x, y) ==
    IF x.kind \in {"node", "edge"} /\ y.kind = x.kind THEN x.id = y.id ELSE x = y

IsNullBound(b, var) == var \in DOMAIN b /\ b[var] = Null
\* A variable bound to None counts as unbound here: callers guard with IsNullBound.
CanBind(b, var, val) == var \notin DOMAIN b \/ b[var] = Null \/ SameEntity(b[var], val)
Bind(b, var, val) == IF var = "" THEN b ELSE (var :> val) @@ b

Begin(row, b, i) == [row EXCEPT !.b = b, !.cur = i, !.ns = Append(@, i)]

StartCandidates(g, np, where, ctx) ==
    Ascending(IF np.id # Unset THEN {np.id} \cap DOMAIN g.nodes ELSE NodeScanIds(g, np, where, ctx))

StartRows(g, row, np, fit) ==
    [k \in DOMAIN fit |-> Begin(row, Bind(row.b, np.var, Node(g, fit[k])), fit[k])]

PathStartRows(g, row, np, where, ctx) ==
    IF np.var \in DOMAIN row.b
    THEN IF row.b[np.var] # Null /\ NodePatternMatches(row.b[np.var], np, ctx)
         THEN <<Begin(row, row.b, row.b[np.var].id)>> ELSE <<>>
    ELSE StartRows(g, row, np, SelectSeq(StartCandidates(g, np, where, ctx),
                                         LAMBDA i : NodePatternMatches(Node(g, i), np, ctx)))

---------------------------------------------------------------------------
(* Hops [rel, types, dir, p, min, max, target].                            *)

Types(hop, ctx) ==
    IF ctx.hierarchy THEN UNION {{t} \cup SubType[t] : t \in hop.types} ELSE hop.types

\* Occurrences [e, to] around node n.  A typed undirected scan of the current
\* graph reports a self-loop once per direction.
Occurrences(g, n, dir, typed, once) ==
    LET out == SelectSeq(typed, LAMBDA e : g.edges[e].src = n)
        in  == SelectSeq(typed, LAMBDA e : g.edges[e].dst = n /\ ~(once /\ g.edges[e].src = n))
        occ(es, to(_)) == [k \in DOMAIN es |-> [e |-> es[k], to |-> to(g.edges[es[k]])]]
    IN (IF dir = "in" THEN <<>> ELSE occ(out, LAMBDA e : e.dst))
       \o (IF dir = "out" THEN <<>> ELSE occ(in, LAMBDA e : e.src))

TypedEdges(g, types) == SelectSeq(EdgeSeq(g), LAMBDA e : types = {} \/ g.edges[e].type \in types)

Adjacency(g, n, hop, ctx) ==
    Occurrences(g, n, hop.dir, TypedEdges(g, Types(hop, ctx)),
                hop.dir = "any" /\ (hop.types = {} \/ ctx.temporal))

EdgeMatches(g, e, hop) == hop.p = Unset \/ Eq3(g.edges[e].p, hop.p) = TRUE

\* Drop the later copies of an occurrence (the `seen` set of a fixed hop).
FirstOccurrences(s) ==
    Pick(s, Ascending({i \in DOMAIN s : \A j \in 1..(i - 1) : s[j] # s[i]}))

Along(row, hop, toNode, rel, es, ns) ==
    [row EXCEPT !.b = Bind(Bind(row.b, hop.target.var, toNode), hop.rel, rel),
                !.cur = toNode.id, !.path = row.path \o es, !.ns = row.ns \o ns]

OccurrenceFits(g, row, hop, o, ctx) ==
    /\ ~Contains(row.path, o.e) /\ o.to \in DOMAIN g.nodes
    /\ NodePatternMatches(Node(g, o.to), hop.target, ctx)
    /\ CanBind(row.b, hop.target.var, Node(g, o.to))
    /\ EdgeMatches(g, o.e, hop)
    /\ CanBind(row.b, hop.rel, Edge(g, o.e))

FixedRows(g, row, hop, occ) ==
    [k \in DOMAIN occ |-> Along(row, hop, Node(g, occ[k].to), Edge(g, occ[k].e), <<occ[k].e>>, <<occ[k].to>>)]

ExpandFixedStep(g, row, hop, ctx) ==
    FixedRows(g, row, hop, SelectSeq(FirstOccurrences(Adjacency(g, row.cur, hop, ctx)),
                                     LAMBDA o : OccurrenceFits(g, row, hop, o, ctx)))

---------------------------------------------------------------------------
(* Variable-length hops: breadth-first trails, no relationship repeated.   *)

TrailsBy(t, occ) ==
    [k \in DOMAIN occ |-> [at |-> occ[k].to, used |-> t.used \cup {occ[k].e},
                           es |-> Append(t.es, occ[k].e), ns |-> Append(t.ns, occ[k].to)]]

ExtendTrail(g, t, hop, ctx) ==
    TrailsBy(t, SelectSeq(Adjacency(g, t.at, hop, ctx),
                          LAMBDA o : /\ o.e \notin t.used /\ EdgeMatches(g, o.e, hop)
                                     /\ o.to \in DOMAIN g.nodes))

BfsTrails(g, start, hop, used, ctx) ==
    LET level[k \in 0..Cardinality(DOMAIN g.edges)] ==
            IF k = 0 THEN <<[at |-> start, used |-> used, es |-> <<>>, ns |-> <<>>]>>
            ELSE Each(LAMBDA t : ExtendTrail(g, t, hop, ctx), level[k - 1])
    IN Each(LAMBDA k : level[k], [k \in DOMAIN EdgeSeq(g) |-> k])

InLength(hop, n) == n >= hop.min /\ (hop.max = Unset \/ n <= hop.max)

\* Candidate trails of a hop whose end satisfies the target pattern, shortest first.
HopTrails(g, row, hop, ctx) ==
    SelectSeq(BfsTrails(g, row.cur, hop, ToSet(row.path), ctx),
              LAMBDA t : InLength(hop, Len(t.es)) /\ NodePatternMatches(Node(g, t.at), hop.target, ctx))

TrailBinds(g, row, hop, t) ==
    /\ CanBind(row.b, hop.target.var, Node(g, t.at))
    /\ CanBind(row.b, hop.rel, ListOf(t.es))

\* The zero-length match.  A named pattern checks that it could bind but yields
\* the row as it was, and never looks at the target pattern.
ZeroStep(row, hop, here, named, ctx) ==
    IF hop.min = 0 /\ (named \/ NodePatternMatches(here, hop.target, ctx))
       /\ CanBind(row.b, hop.target.var, here) /\ CanBind(row.b, hop.rel, ListOf(<<>>))
    THEN IF named THEN <<row>> ELSE <<Along(row, hop, here, ListOf(<<>>), <<>>, <<>>)>>
    ELSE <<>>
ZeroRows(g, row, hop, named, ctx) == ZeroStep(row, hop, Node(g, row.cur), named, ctx)

TrailRows(g, row, hop, ts) ==
    [k \in DOMAIN ts |-> Along(row, hop, Node(g, ts[k].at), ListOf(ts[k].es), ts[k].es, ts[k].ns)]

VariablePaths(g, row, hop, named, ctx) ==
    ZeroRows(g, row, hop, named, ctx)
        \o TrailRows(g, row, hop, SelectSeq(HopTrails(g, row, hop, ctx),
                                            LAMBDA t : TrailBinds(g, row, hop, t)))

\* SHORTEST k (mode "any") emits up to k rows, ALL SHORTEST the rows of the first
\* matching length; that length is taken before the variables are compared.
FirstLength(zero, ts) == IF zero # <<>> \/ ts = <<>> THEN 0 ELSE Len(ts[1].es)
ShortestRows(g, row, hop, sel, zero, ts) ==
    zero \o TrailRows(g, row, hop,
               SelectSeq(ts, LAMBDA t : /\ sel.mode = "all" => Len(t.es) = FirstLength(zero, ts)
                                        /\ TrailBinds(g, row, hop, t)))
Selected(rs, sel) == IF sel.mode = "any" THEN AtMost(rs, sel.k) ELSE rs
ShortestPaths(g, row, hop, sel, named, ctx) ==
    Selected(ShortestRows(g, row, hop, sel, ZeroRows(g, row, hop, named, ctx), HopTrails(g, row, hop, ctx)), sel)

\* shortestPath / allShortestPaths between two bound nodes: the edge ids.
Briefest(ts) == {t.es : t \in {u \in ToSet(ts) : Len(u.es) = Len(ts[1].es)}}
ShortestBetween(g, from, src, hop, to, ctx) ==
    IF ~NodePatternMatches(from, src, ctx) THEN {}
    ELSE IF hop.min = 0 /\ from.id = to.id /\ NodePatternMatches(from, hop.target, ctx) THEN {<<>>}
    ELSE Briefest(SelectSeq(BfsTrails(g, from.id, hop, {}, ctx),
                            LAMBDA t : /\ InLength(hop, Len(t.es)) /\ t.at = to.id
                                       /\ NodePatternMatches(Node(g, t.at), hop.target, ctx)))

\* One hop of a pattern.  Only unnamed patterns refuse a variable bound to None.
ExpandPatternHop(g, row, hop, sel, named, ctx) ==
    IF ~named /\ (IsNullBound(row.b, hop.target.var) \/ IsNullBound(row.b, hop.rel)) THEN <<>>
    ELSE IF hop.min = 1 /\ hop.max = 1 THEN ExpandFixedStep(g, row, hop, ctx)
    ELSE IF sel.mode = "none" THEN VariablePaths(g, row, hop, named, ctx)
    ELSE ShortestPaths(g, row, hop, sel, named, ctx)

---------------------------------------------------------------------------
(* The first hop of an unnamed pattern may come from the edge index.       *)

EdgeSpec(hop, exact, range) ==
    CASE exact # Unset -> [kind |-> "exact", val |-> exact]
      [] exact = Unset /\ hop.rel # "" /\ range.found -> [kind |-> "range", val |-> range]
      [] OTHER -> [kind |-> "none"]
EdgeSeekSpec(hop, where) ==
    EdgeSpec(hop, IF hop.p # Unset THEN hop.p ELSE IF hop.rel = "" THEN Unset ELSE WhereExactSeek(hop.rel, where),
             RangeBounds(hop.rel, where))

UsesEdgeIndex(row, pat, where, ctx) ==
    /\ ctx.indexed /\ ~ctx.temporal /\ pat.name = "" /\ pat.hops # <<>>
    /\ pat.hops[1].types # {} /\ pat.hops[1].min = 1 /\ pat.hops[1].max = 1
    /\ pat.src.var \notin DOMAIN row.b /\ pat.src.id = Unset
    /\ EdgeSeekSpec(pat.hops[1], where).kind # "none"

EdgeHit(g, row, hop, e, spec, ctx) ==
    /\ g.edges[e].type \in Types(hop, ctx)
    /\ IF spec.kind = "exact" THEN g.edges[e].p = spec.val ELSE InRange(g.edges[e].p, spec.val)
    /\ ~Contains(row.path, e) /\ EdgeMatches(g, e, hop)
    /\ {g.edges[e].src, g.edges[e].dst} \subseteq DOMAIN g.nodes

\* The directions in which a found edge may be walked.
Ways(edge, dir) == CASE dir = "in" -> <<<<edge.dst, edge.src>>>>
                     [] dir = "any" /\ edge.src # edge.dst -> <<<<edge.src, edge.dst>>, <<edge.dst, edge.src>>>>
                     [] OTHER -> <<<<edge.src, edge.dst>>>>

WayRow(g, row, pat, hop, e, from, to, ctx) ==
    IF /\ NodePatternMatches(from, pat.src, ctx) /\ NodePatternMatches(to, hop.target, ctx)
       /\ CanBind(Bind(row.b, pat.src.var, from), hop.target.var, to) /\ CanBind(row.b, hop.rel, Edge(g, e))
    THEN <<Along(Begin(row, Bind(row.b, pat.src.var, from), from.id), hop, to, Edge(g, e), <<e>>, <<to.id>>)>>
    ELSE <<>>

IndexedRows(g, row, pat, hop, spec, ctx) ==
    Each(LAMBDA e : Each(LAMBDA w : WayRow(g, row, pat, hop, e, Node(g, w[1]), Node(g, w[2]), ctx),
                         Ways(g.edges[e], hop.dir)),
         SelectSeq(EdgeSeq(g), LAMBDA e : EdgeHit(g, row, hop, e, spec, ctx)))

IndexedFirstHopRows(g, row, pat, where, ctx) ==
    IF IsNullBound(row.b, pat.hops[1].target.var) \/ IsNullBound(row.b, pat.hops[1].rel) THEN <<>>
    ELSE IndexedRows(g, row, pat, pat.hops[1], EdgeSeekSpec(pat.hops[1], where), ctx)

---------------------------------------------------------------------------
(* One pattern, one MATCH, one OPTIONAL MATCH.                             *)

NamePath(row, start, name) ==
    [row EXCEPT !.b = Bind(row.b, name,
        [kind |-> "path", ns |-> SubSeq(row.ns, Len(start.ns) + 1, Len(row.ns)),
                          es |-> SubSeq(row.path, Len(start.path) + 1, Len(row.path))])]

NamePaths(rs, start, name) ==
    IF name = "" THEN rs ELSE [k \in DOMAIN rs |-> NamePath(rs[k], start, name)]

ExpandHops(g, starts, hops, pat, sel, ctx) ==
    FoldLeft(LAMBDA rows, hop : Each(LAMBDA r : ExpandPatternHop(g, r, hop, sel, pat.name # "", ctx), rows), starts, hops)

ApplyHops(g, row, pat, where, sel, seek, ctx) ==
    ExpandHops(g, IF seek THEN IndexedFirstHopRows(g, row, pat, where, ctx)
                  ELSE PathStartRows(g, row, pat.src, where, ctx),
               IF seek THEN Tail(pat.hops) ELSE pat.hops, pat, sel, ctx)

ApplyPattern(g, row, pat, where, sel, ctx) ==
    NamePaths(ApplyHops(g, row, pat, where, sel, UsesEdgeIndex(row, pat, where, ctx), ctx), row, pat.name)

\* Standalone node patterns on distinct variables are reordered, the most
\* selective scan first; anything else keeps its textual order.
LabelCount(g, l, ctx) ==
    MapThenSumSet(LAMBDA m : Cardinality({n \in DOMAIN g.nodes : m \in g.nodes[n].labels}), Closure(l, ctx))
PatternCost(g, pat, i, ctx) ==
    CASE pat.src.id # Unset -> <<0, 1, i>>
      [] pat.src.labels = {} \/ pat.src.alts # {} -> <<2, 0, i>>
      [] OTHER -> <<1, Min({LabelCount(g, l, ctx) : l \in pat.src.labels}), i>>

CostBelow(a, b) == a[1] < b[1] \/ (a[1] = b[1] /\ (a[2] < b[2] \/ (a[2] = b[2] /\ a[3] < b[3])))

Reorders(vars, pats, ctx) ==
    ~ctx.temporal /\ "" \notin vars /\ Cardinality(vars) = Len(pats) /\ \A i \in DOMAIN pats : pats[i].hops = <<>>
OrderPatterns(g, pats, ctx) ==
    IF Reorders({pats[i].src.var : i \in DOMAIN pats}, pats, ctx)
    THEN Pick(pats, SetToSortSeq(DOMAIN pats, LAMBDA i, j : CostBelow(PatternCost(g, pats[i], i, ctx), PatternCost(g, pats[j], j, ctx))))
    ELSE pats

Fresh(b) == [b |-> b, cur |-> Null, path |-> <<>>, ns |-> <<>>]

MatchRow(g, b, c, ctx) ==
    FoldLeft(LAMBDA rows, pat : Each(LAMBDA r : ApplyPattern(g, r, pat, c.where, c.sel, ctx), rows),
             <<Fresh(b)>>, OrderPatterns(g, c.pats, ctx))

ApplyMatch(g, rows, c, ctx) == Each(LAMBDA r : MatchRow(g, r.b, c, ctx), rows)

PatternVars(pat) ==
    ({pat.name, pat.src.var} \cup UNION {{pat.hops[i].rel, pat.hops[i].target.var} : i \in DOMAIN pat.hops}) \ {""}
ClauseVars(c) == UNION {PatternVars(c.pats[i]) : i \in DOMAIN c.pats}

NullFill(b, vars) == b @@ [v \in vars |-> Null]

OrNullRow(found, b, c) == IF found # <<>> THEN found ELSE <<Fresh(NullFill(b, ClauseVars(c)))>>
ApplyOptional(g, rows, c, ctx) == Each(LAMBDA r : OrNullRow(MatchRow(g, r.b, c, ctx), r.b, c), rows)
=============================================================================
