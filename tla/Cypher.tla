------------------------------- MODULE Cypher -------------------------------
(***************************************************************************)
(* Execution of a Cypher query (query_engine/cypher: api.py, plan.py,      *)
(* semantics.py, runtime.py, write.py).  A query is analysed, planned into *)
(* a sequence of operators and executed operator by operator over rows of  *)
(* bindings; a mutating clause snapshots its input and writes row by row.  *)
(* A second client runs constraint commands, which take no guard.          *)
(***************************************************************************)
EXTENDS CypherMatch, TLC

CONSTANTS Queries,      \* the queries clients may send, sequences of clauses
          Graphs,       \* the graphs the store may hold at first
          Contexts,     \* [indexed, hierarchy, temporal, current, tx, snap, ddl]
          Constraints,  \* the constraints a client may create
          IdPool,       \* node and edge ids a CREATE may draw (a bound)
          MaxQueries    \* queries per behaviour (a bound)

ASSUME QueriesAssumption == \A q \in Queries : Len(q) \in Nat /\ DOMAIN q = 1..Len(q)

VARIABLES g,        \* the current graph, as this query's handle sees it
          cons,     \* the node constraint catalog
          ctx,      \* backend and options of this behaviour
          query,    \* the running query
          ops,      \* operators still to execute
          rows,     \* rows of bindings between two operators
          done,     \* output rows of the mutating operator under way
          acc,      \* records of the finished UNION branches
          status,   \* "idle" | "running" | "ok" | "failed" | "rejected"
          start,    \* the graph when the query began
          known,    \* the catalog the query's handle loaded
          ddl,      \* a constraint validated and not yet stored, with the graph it read
          raced,    \* constraints stored although the graph changed since validation
          count     \* queries begun

cypherVars == <<g, cons, ctx, query, ops, rows, done, acc, status, start, known, ddl, raced, count>>

Mutating == {"create", "merge", "set", "remove", "delete", "foreach"}

\* FoldLeft by recursion on the number of elements; what is no sequence has none.
Fold(op(_, _), base, s) ==
    LET r[n \in 0..Len(s)] == IF n = 0 THEN base ELSE op(r[n - 1], s[n])
    IN IF Len(s) \in Nat THEN r[Len(s)] ELSE base

---------------------------------------------------------------------------
(* Semantic analysis: each clause is checked in the scope its predecessors *)
(* leave, a function from variable to "node", "rel" or "value".            *)

Introduce(scope, var, kind) == IF var = "" \/ scope.bad THEN scope
    ELSE IF var \in DOMAIN scope.s
         THEN [scope EXCEPT !.bad = scope.s[var] # kind]
         ELSE [scope EXCEPT !.s = (var :> kind) @@ @]

IntroducePattern(scope, pat) ==
    LET hop(sc, h) == Introduce(Introduce(sc, h.rel, "rel"), h.target.var, "node")
    IN Introduce(FoldLeft(hop, Introduce(scope, pat.src.var, "node"), pat.hops), pat.name, "value")

\* CREATE and MERGE reuse bound nodes; their relationships must be new, of one
\* type and of fixed length.
CreatePatternLegal(scope, pat) ==
    /\ pat.src.alts = {}
    /\ \A i \in DOMAIN pat.hops :
         LET h == pat.hops[i] IN /\ h.rel \notin DOMAIN scope.s /\ Cardinality(h.types) = 1
                                 /\ h.min = 1 /\ h.max = 1 /\ h.target.alts = {}

WhereVars(where) == {where.parts[i].var : i \in DOMAIN where.parts}
ItemVars(items) == {items[i].var : i \in DOMAIN items} \ {""}
NeedsNode(items) == {items[i].var : i \in {k \in DOMAIN items : items[k].kind = "label"}}

\* The variables a clause reads from its incoming scope.
Reads(c) ==
    CASE c.op = "filter"               -> WhereVars(c.where)
      [] c.op \in {"set", "remove"}    -> ItemVars(c.items)
      [] c.op = "delete"               -> c.vars
      [] c.op \in {"with", "return"}   -> ItemVars(c.items)
      [] OTHER                         -> {}

Refuse(scope, ok) == [scope EXCEPT !.bad = @ \/ ~ok]

\* One clause of analyze_query; clauses nested in CALL and FOREACH are analysed
\* in the scope around them by AnalyzeInner.
AnalyzePatterns(sc, c) == FoldLeft(IntroducePattern, sc, c.pats)
AnalyzeCreate(sc, c) ==
    FoldLeft(LAMBDA s, pat : IntroducePattern(Refuse(s, CreatePatternLegal(s, pat)), pat), sc, c.pats)

\* The kind of a projected column.
ItemKind(sc, it) == IF it.prop \/ it.agg # "" \/ it.var \notin DOMAIN sc.s THEN "value" ELSE sc.s[it.var]
Columns(c) == {c.items[i].as : i \in DOMAIN c.items}
ItemAs(items, a) == items[CHOOSE i \in DOMAIN items : items[i].as = a]

Sees(sc, vs) == Refuse(sc, vs \subseteq DOMAIN sc.s)
AnalyzeIn(sc, c) ==
    CASE c.op \in {"match", "optional"} -> Sees(AnalyzePatterns(sc, c), WhereVars(c.where))
      [] c.op = "create" -> AnalyzeCreate(sc, c)
      [] c.op = "merge"  -> Sees(AnalyzeCreate(sc, c), ItemVars(c.onCreate) \cup ItemVars(c.onMatch))
      [] c.op \in {"set", "remove"} ->
           Refuse(sc, \A v \in NeedsNode(c.items) \cap DOMAIN sc.s : sc.s[v] = "node")
      [] c.op = "unwind" -> [sc EXCEPT !.s = (c.var :> "value") @@ @]
      [] c.op \in {"with", "return"} ->
           Refuse([sc EXCEPT !.s = [a \in Columns(c) |-> ItemKind(sc, ItemAs(c.items, a))]],
                  Cardinality(Columns(c)) = Len(c.items) /\ WhereVars(c.where) \subseteq Columns(c))
      [] OTHER -> sc
AnalyzeFlat(scope, c) == AnalyzeIn(Sees(scope, Reads(c)), c)

Around(inner, scope) == [s |-> inner.s @@ scope.s, bad |-> inner.bad]
AnalyzeClause(scope, c) ==
    CASE c.op = "call"    -> Around(FoldLeft(AnalyzeFlat, scope, c.body), scope)
      [] c.op = "foreach" -> Refuse(scope, ~FoldLeft(AnalyzeFlat, [scope EXCEPT !.s = (c.var :> "value") @@ @], c.body).bad)
      [] c.op = "branch"  -> [scope EXCEPT !.s = <<>>]
      [] OTHER            -> AnalyzeFlat(scope, c)

Accepted(q) ==
    /\ ~FoldLeft(AnalyzeClause, [s |-> <<>>, bad |-> FALSE], q).bad
    /\ (\E i \in DOMAIN q : q[i].op = "branch") => \A i \in DOMAIN q : q[i].op \notin Mutating
    /\ ctx.temporal => \A i \in DOMAIN q :
         /\ q[i].op \notin Mutating
         /\ q[i].op = "call" => \A k \in DOMAIN q[i].body : q[i].body[k].op \notin Mutating

---------------------------------------------------------------------------
(* Planning: a MATCH is followed by its filter, a projection by DISTINCT,  *)
(* its own WHERE, ORDER BY, SKIP and LIMIT, in that order.                 *)

HasAggregate(c) == \E i \in DOMAIN c.items : c.items[i].agg # ""
When(cond, s) == IF cond THEN s ELSE <<>>

PlanClause(c) ==
    CASE c.op \in {"match", "optional"} ->
           <<c>> \o When(c.where.parts # <<>>, <<[op |-> "filter", where |-> c.where]>>)
      [] c.op \in {"with", "return"} ->
           <<[op |-> IF HasAggregate(c) THEN "aggregate" ELSE "project", items |-> c.items]>>
             \o When(c.distinct, <<[op |-> "distinct"]>>)
             \o When(c.where.parts # <<>>, <<[op |-> "filter", where |-> c.where]>>)
             \o When(c.order # "", <<[op |-> "sort", by |-> c.order, desc |-> c.desc]>>)
             \o When(c.skip # 0, <<[op |-> "skip", n |-> c.skip]>>)
             \o When(c.limit # Unset, <<[op |-> "limit", n |-> c.limit]>>)
      [] OTHER -> <<c>>

PlanStep(plan, c) == plan \o PlanClause(c)
PlanStaged(q) == Fold(PlanStep, <<>>, q)

\* Only the operators of the outer plan are looked at.
PlanHasWrites(plan) == \E i \in DOMAIN plan : plan[i].op \in Mutating
Transactional == ctx.tx /\ PlanHasWrites(PlanStaged(query))

---------------------------------------------------------------------------
(* Projection, aggregation and result shaping.                             *)

IntVal(v) == IF v = Null THEN Null ELSE [kind |-> "int", val |-> v]
ItemValue(it, b) == IF it.prop THEN IntVal(PropertyOf(b[it.var])) ELSE b[it.var]

ProjectRow(r, items) ==
    Fresh([a \in {items[i].as : i \in DOMAIN items} |-> ItemValue(ItemAs(items, a), r.b)])

\* cypher_value_key: entities group by kind and id, everything else by value.
ValueKey(v) == IF v = Null THEN Null
               ELSE IF v.kind \in {"node", "edge"} THEN [kind |-> v.kind, id |-> v.id] ELSE v
RowKey(b) == [a \in DOMAIN b |-> ValueKey(b[a])]

\* The first row, or value, of every key.
FirstBy(s, key(_)) == Pick(s, Ascending({i \in DOMAIN s : \A j \in 1..(i - 1) : key(s[j]) # key(s[i])}))
DistinctRows(rs) == FirstBy(rs, LAMBDA r : RowKey(r.b))

\* One aggregate call over the rows of a group; nulls are ignored but for count(*).
Aggregate(agg, size, vals) ==
    CASE agg = "count(*)" -> IntVal(size)
      [] agg = "count"    -> IntVal(Len(vals))
      [] agg = "collect"  -> ListOf(vals)
      [] agg = "sum"      -> IntVal(FoldLeft(LAMBDA a, v : a + v.val, 0, vals))
      [] agg = "min"      -> IF vals = <<>> THEN Null
                             ELSE CHOOSE v \in ToSet(vals) : \A w \in ToSet(vals) : v.val <= w.val
Values(it, group) == SelectSeq([i \in DOMAIN group |-> ItemValue(it, group[i].b)], LAMBDA v : v # Null)
Once(it, vals) == IF it.distinct THEN FirstBy(vals, ValueKey) ELSE vals
ApplyAggregate(it, group) == Aggregate(it.agg, Len(group), Once(it, Values(it, group)))

GroupKey(r, keys) == [a \in {it.as : it \in keys} |-> ItemValue(CHOOSE it \in keys : it.as = a, r.b)]
GroupRecord(r, items, group) ==
    Fresh([a \in {items[i].as : i \in DOMAIN items} |->
             IF ItemAs(items, a).agg = "" THEN ItemValue(ItemAs(items, a), r.b)
             ELSE ApplyAggregate(ItemAs(items, a), group)])

GroupedBy(rs, items, keys) ==
    IF keys = {} THEN <<GroupRecord(Fresh(<<>>), items, rs)>>
    ELSE Each(LAMBDA f : <<GroupRecord(f, items, SelectSeq(rs, LAMBDA r : RowKey(GroupKey(r, keys)) = RowKey(GroupKey(f, keys))))>>,
              FirstBy(rs, LAMBDA r : RowKey(GroupKey(r, keys))))
AggregateRows(rs, items) == GroupedBy(rs, items, {it \in ToSet(items) : it.agg = ""})

\* _sortable_value: the rank of the value's type, then the value; null is last.
SortKey(v) == CASE v = Null -> <<9, 0>>
                [] v # Null /\ v.kind = "int"  -> <<8, v.val>>
                [] v # Null /\ v.kind = "edge" -> <<2, v.id>>
                [] OTHER -> <<1, v.id>>
KeyBelow(a, b) == a[1] < b[1] \/ (a[1] = b[1] /\ a[2] < b[2])

\* A stable sort, in both directions.
SortsBefore(a, b, i, j, desc) == KeyBelow(IF desc THEN b ELSE a, IF desc THEN a ELSE b) \/ (a = b /\ i < j)
SortRows(rs, by, desc) ==
    Pick(rs, SetToSortSeq(DOMAIN rs, LAMBDA i, j : SortsBefore(SortKey(rs[i].b[by]), SortKey(rs[j].b[by]), i, j, desc)))

UnwindRows(rs, c) ==
    IF c.items = Null THEN <<>>
    ELSE Each(LAMBDA r : [i \in DOMAIN c.items |-> Fresh((c.var :> IntVal(c.items[i])) @@ r.b)], rs)

\* What an operator that writes nothing makes of the rows before it.
ReadOp(graph, rs, o) ==
    CASE o.op = "match"     -> ApplyMatch(graph, rs, o, ctx)
      [] o.op = "optional"  -> ApplyOptional(graph, rs, o, ctx)
      [] o.op = "filter"    -> FilterRows(rs, o.where)
      [] o.op = "unwind"    -> UnwindRows(rs, o)
      [] o.op = "project"   -> [i \in DOMAIN rs |-> ProjectRow(rs[i], o.items)]
      [] o.op = "aggregate" -> AggregateRows(rs, o.items)
      [] o.op = "distinct"  -> DistinctRows(rs)
      [] o.op = "sort"      -> SortRows(rs, o.by, o.desc)
      [] o.op = "skip"      -> SubSeq(rs, o.n + 1, Len(rs))
      [] o.op = "limit"     -> AtMost(rs, o.n)

---------------------------------------------------------------------------
(* Write batches: entities staged for one row, written together after the  *)
(* constraint check.  The later copy of an id replaces the earlier one.    *)

NoBatch == [nodes |-> <<>>, edges |-> <<>>, delE |-> {}, delN |-> {}]
Staged(s) == {s[i] : i \in {k \in DOMAIN s : \A j \in (k + 1)..Len(s) : s[j].id # s[k].id}}
ById(S, f(_)) == [i \in {v.id : v \in S} |-> f(CHOOSE v \in S : v.id = i)]

Clash(c, v, w) == c.label \in v.labels \cap w.labels /\ Eq3(v.p, w.p) = TRUE

BadNodeAllowed(graph, catalog, v, batch) ==   \* the stored nodes are not asked
    \A c \in {d \in catalog : d.label \in v.labels} :
        IF c.kind = "exists" THEN v.p # Null ELSE \A w \in batch \ {v} : ~Clash(c, v, w)

\* check_node_constraints, against the rest of the batch and the stored nodes.
NodeAllowed(graph, catalog, v, batch) ==
    \A c \in {d \in catalog : d.label \in v.labels} :
        IF c.kind = "exists" THEN v.p # Null
        ELSE /\ \A w \in batch \ {v} : ~Clash(c, v, w)
             /\ \A i \in DOMAIN graph.nodes \ {v.id} : ~Clash(c, v, Node(graph, i))

BatchAllowed(graph, catalog, batch) ==
    \A v \in Staged(batch.nodes) : NodeAllowed(graph, catalog, v, Staged(batch.nodes))

Without(ns, es, batch) ==
    LET gone == {e \in DOMAIN es : {e} \cap batch.delE # {} \/ {es[e].src, es[e].dst} \cap batch.delN # {}}
    IN [nodes |-> [i \in DOMAIN ns \ batch.delN |-> ns[i]], edges |-> [e \in DOMAIN es \ gone |-> es[e]]]
Over(new, old) == [i \in DOMAIN new \cup DOMAIN old |-> IF i \in DOMAIN new THEN new[i] ELSE old[i]]
PutAndDelete(graph, batch) ==
    Without(Over(ById(Staged(batch.nodes), LAMBDA v : [labels |-> v.labels, p |-> v.p]), graph.nodes),
            Over(ById(Staged(batch.edges), LAMBDA v : [src |-> v.src, dst |-> v.dst, type |-> v.type, p |-> v.p]), graph.edges),
            batch)

\* The outcome of one row: the graph after it, the rows it yields, or an error.
Raise(graph) == [ok |-> FALSE, g |-> graph, out |-> <<>>]
ApplyBatch(graph, catalog, batch, b) ==
    IF BatchAllowed(graph, catalog, batch)
    THEN [ok |-> TRUE, g |-> PutAndDelete(graph, batch), out |-> <<Fresh(b)>>] ELSE Raise(graph)

StagedIds(batch) == {batch.nodes[i].id : i \in DOMAIN batch.nodes} \cup {batch.edges[i].id : i \in DOMAIN batch.edges}
NewId(graph, batch) ==
    CHOOSE i \in IdPool : i \notin DOMAIN graph.nodes \cup DOMAIN graph.edges \cup StagedIds(batch)
Exhausted(graph) == Cardinality(IdPool \ (DOMAIN graph.nodes \cup DOMAIN graph.edges)) < 3

---------------------------------------------------------------------------
(* CREATE.  st is [b, batch, at, ok] while one pattern is built.           *)

\* A bound node is written again with the pattern's labels and property added; an
\* explicit id that is already stored is overwritten.
PatternNode(st, np, graph) ==
    IF np.var \in DOMAIN st.b /\ st.b[np.var] # Null
    THEN [st.b[np.var] EXCEPT !.labels = @ \cup np.labels, !.p = IF np.p = Unset THEN @ ELSE np.p]
    ELSE [kind |-> "node", labels |-> np.labels, p |-> IF np.p = Unset THEN Null ELSE np.p,
          id |-> IF np.id = Unset THEN NewId(graph, st.batch) ELSE np.id]
WithNode(st, np, node) ==
    [b |-> Bind(st.b, np.var, node), batch |-> [st.batch EXCEPT !.nodes = Append(@, node)],
     at |-> node.id, ok |-> st.ok /\ np.id \in {Unset, node.id}]
CreateOrReuseNode(st, np, graph) == WithNode(st, np, PatternNode(st, np, graph))

\* Whatever the arrow, the edge runs from the previous node to the target.
NewEdge(from, tgt, hop, graph) ==
    [kind |-> "edge", id |-> NewId(graph, tgt.batch), src |-> from, dst |-> tgt.at,
     type |-> CHOOSE t \in hop.types : TRUE, p |-> IF hop.p = Unset THEN Null ELSE hop.p]
WithEdge(tgt, hop, edge) ==
    [tgt EXCEPT !.b = Bind(@, hop.rel, edge), !.batch.edges = Append(@, edge),
                !.ok = @ /\ (hop.rel \in DOMAIN tgt.b => tgt.b[hop.rel] = Null)]
LinkTo(from, tgt, hop, graph) == WithEdge(tgt, hop, NewEdge(from, tgt, hop, graph))
CreateHop(st, hop, graph) == LinkTo(st.at, CreateOrReuseNode(st, hop.target, graph), hop, graph)

CreatePatterns(b, batch, pats, graph) ==
    FoldLeft(LAMBDA st, pat : FoldLeft(LAMBDA s, hop : CreateHop(s, hop, graph),
                                       CreateOrReuseNode(st, pat.src, graph), pat.hops),
             [b |-> b, batch |-> batch, at |-> Null, ok |-> TRUE], pats)

ApplyCreated(graph, catalog, st) ==
    IF st.ok THEN ApplyBatch(graph, catalog, st.batch, st.b) ELSE Raise(graph)
CreateRow(graph, catalog, b, c) == ApplyCreated(graph, catalog, CreatePatterns(b, NoBatch, c.pats, graph))

---------------------------------------------------------------------------
(* SET and REMOVE copy the bound entity, change the copy, rebind the one   *)
(* variable they name and stage the copy.                                  *)

Stage(st, var, v) ==
    [b |-> Bind(st.b, var, v),
     batch |-> IF v.kind = "node" THEN [st.batch EXCEPT !.nodes = Append(@, v)]
               ELSE [st.batch EXCEPT !.edges = Append(@, v)]]

ItemOn(st, it, v) ==
    CASE v = Null           -> st
      [] it.kind = "p"      -> Stage(st, it.var, [v EXCEPT !.p = it.val])
      [] it.kind = "label"  -> Stage(st, it.var, [v EXCEPT !.labels = @ \cup {it.val}])
      [] it.kind = "-p"     -> IF v.p = Null THEN st ELSE Stage(st, it.var, [v EXCEPT !.p = Null])
      [] it.kind = "-label" -> Stage(st, it.var, [v EXCEPT !.labels = @ \ {it.val}])
ApplyItem(st, it) == ItemOn(st, it, st.b[it.var])
ApplyItems(b, batch, items) == FoldLeft(ApplyItem, [b |-> b, batch |-> batch], items)

ApplyStaged(graph, catalog, st) == ApplyBatch(graph, catalog, st.batch, st.b)
SetRow(graph, catalog, b, items) == ApplyStaged(graph, catalog, ApplyItems(b, NoBatch, items))

---------------------------------------------------------------------------
(* DELETE checks the relationships of each node unless detaching.          *)

IdsOf(b, vs, kind) == {b[v].id : v \in {u \in vs : b[u] # Null /\ b[u].kind = kind}}
DeleteIds(graph, catalog, b, c, ns, es) ==
    IF ~c.detach /\ \E e \in DOMAIN graph.edges \ es : {graph.edges[e].src, graph.edges[e].dst} \cap ns # {}
    THEN Raise(graph)
    ELSE ApplyBatch(graph, catalog, [NoBatch EXCEPT !.delE = es, !.delN = ns], b)
DeleteRow(graph, catalog, b, c) == DeleteIds(graph, catalog, b, c, IdsOf(b, c.vars, "node"), IdsOf(b, c.vars, "edge"))

---------------------------------------------------------------------------
(* MERGE matches the row's patterns or creates all of them.  The matches   *)
(* of one row share one batch, which is written again for each of them.    *)

MergeFound(graph, b, c) ==
    FoldLeft(LAMBDA rs, pat : Each(LAMBDA r : ApplyPattern(graph, r, pat, NoWhere, [mode |-> "none"], ctx), rs),
             <<Fresh(b)>>, c.pats)
Matched(st, catalog, it) ==
    LET w == ApplyStaged(st.res.g, catalog, it)
    IN [batch |-> it.batch, res |-> [ok |-> w.ok, g |-> w.g, out |-> st.res.out \o w.out]]
MergeStep(st, m, catalog, c) ==
    IF st.res.ok THEN Matched(st, catalog, ApplyItems(m.b, st.batch, c.onMatch)) ELSE st
MergeInto(graph, catalog, b, c, found) ==
    IF found # <<>>
    THEN Fold(LAMBDA st, m : MergeStep(st, m, catalog, c),
              [batch |-> NoBatch, res |-> [ok |-> TRUE, g |-> graph, out |-> <<>>]], found).res
    ELSE LET made == CreatePatterns(b, NoBatch, c.pats, graph)
         IN IF made.ok THEN ApplyStaged(graph, catalog, ApplyItems(made.b, made.batch, c.onCreate)) ELSE Raise(graph)
MergeRow(graph, catalog, b, c) == MergeInto(graph, catalog, b, c, MergeFound(graph, b, c))

---------------------------------------------------------------------------
(* One row through a mutating operator other than FOREACH.                 *)

PlainWrites == Mutating \ {"foreach"}
PlainRow(graph, catalog, b, c) ==
    CASE c.op = "create"              -> CreateRow(graph, catalog, b, c)
      [] c.op = "merge"               -> MergeRow(graph, catalog, b, c)
      [] c.op \in {"set", "remove"}   -> SetRow(graph, catalog, b, c.items)
      [] c.op = "delete"              -> DeleteRow(graph, catalog, b, c)

---------------------------------------------------------------------------
(* The body of a FOREACH or CALL is a plan of its own; it runs to its end  *)
(* on one row.                                                             *)

\* A mutating operator of the body takes every row the previous one yields.
Then(st, w) == [ok |-> w.ok, g |-> w.g, out |-> st.out \o w.out]
BodyStep(st, r, catalog, c) == IF st.ok THEN Then(st, PlainRow(st.g, catalog, r.b, c)) ELSE st
BodyRun(res, c, catalog) ==
    Fold(LAMBDA st, r : BodyStep(st, r, catalog, c), [res EXCEPT !.out = <<>>], res.out)

\* A plan without top-level writes runs in a read view where the backend has
\* snapshots: a write of the body is refused there.
WriteRefused == ctx.snap /\ ~PlanHasWrites(PlanStaged(query))
StagedOp(res, o, catalog) ==
    CASE ~res.ok               -> res
      [] o.op \in PlainWrites  -> IF WriteRefused /\ res.out # <<>> THEN [res EXCEPT !.ok = FALSE]
                                  ELSE BodyRun(res, o, catalog)
      [] OTHER                 -> [res EXCEPT !.out = ReadOp(res.g, @, o)]
StagedRun(graph, catalog, b, body) ==
    Fold(LAMBDA res, o : StagedOp(res, o, catalog),
         [ok |-> TRUE, g |-> graph, out |-> <<Fresh(b)>>], PlanStaged(body))

\* FOREACH runs its body once per element; the row's entities are re-read.
Refresh(graph, b) ==
    [v \in DOMAIN b |-> IF b[v] = Null THEN Null
                        ELSE IF b[v].kind = "node" THEN IF b[v].id \in DOMAIN graph.nodes THEN Node(graph, b[v].id) ELSE Null
                        ELSE IF b[v].kind = "edge" THEN IF b[v].id \in DOMAIN graph.edges THEN Edge(graph, b[v].id) ELSE Null
                        ELSE b[v]]

ForeachStep(st, x, catalog, c, b) ==
    IF st.ok THEN StagedRun(st.g, catalog, (c.var :> IntVal(x)) @@ b, c.body) ELSE st
ForeachEnd(run, b) == IF run.ok THEN [run EXCEPT !.out = <<Fresh(Refresh(run.g, b))>>] ELSE run
ForeachRow(graph, catalog, b, c) ==
    ForeachEnd(Fold(LAMBDA st, x : ForeachStep(st, x, catalog, c, b),
                    [ok |-> TRUE, g |-> graph, out |-> <<>>], c.list), b)

WriteRow(graph, catalog, b, c) ==
    IF c.op = "foreach" THEN ForeachRow(graph, catalog, b, c) ELSE PlainRow(graph, catalog, b, c)

\* CALL { ... }: the records of the body overwrite the row's bindings.
Merged(run, b) == [run EXCEPT !.out = [i \in DOMAIN @ |-> Fresh(@[i].b @@ b)]]
CallRow(graph, catalog, b, c) == Merged(StagedRun(graph, catalog, b, c.body), b)

---------------------------------------------------------------------------
(* The state machine.                                                      *)

CypherInit ==
    /\ g \in Graphs /\ ctx \in Contexts /\ start = g
    /\ cons = {} /\ known = {} /\ ddl = <<>> /\ raced = {}
    /\ query = <<>> /\ ops = <<>> /\ rows = <<>> /\ done = <<>> /\ acc = <<>>
    /\ status = "idle" /\ count = 0

client == <<ddl, raced, cons>>

\* api.execute: parse, analyse, plan; a rejected query touches nothing.
Admit(q, ok) ==
    /\ status' = IF ok THEN "running" ELSE "rejected"
    /\ ops' = IF ok THEN PlanStaged(q) ELSE <<>>
\* A bound: the bodies of FOREACH and CALL hold no FOREACH or CALL.
OneLevel(q) ==
    \A i \in DOMAIN q : q[i].op \in {"foreach", "call"} =>
        \A k \in DOMAIN q[i].body : q[i].body[k].op \notin {"foreach", "call"}
BeginQuery(q) ==
    /\ status # "running" /\ count < MaxQueries /\ OneLevel(q)
    /\ query' = q /\ count' = count + 1 /\ start' = g /\ known' = cons
    /\ rows' = <<Fresh(<<>>)>> /\ done' = <<>> /\ acc' = <<>>
    /\ Admit(q, Accepted(q))
    /\ UNCHANGED <<g, ctx, client>>

Next1 == ops[1]
Running(kinds) == status = "running" /\ ops # <<>> /\ Next1.op \in kinds
Advance(rs) ==
    /\ rows' = rs /\ ops' = Tail(ops)
    /\ UNCHANGED <<g, ctx, query, done, status, start, known, count, client>>

ReadStep(kinds) == Running(kinds) /\ Advance(ReadOp(g, rows, Next1)) /\ UNCHANGED acc
MatchStep    == ReadStep({"match"})
OptionalStep == ReadStep({"optional"})
FilterStep   == ReadStep({"filter"})
UnwindStep   == ReadStep({"unwind"})
ShapeStep    == ReadStep({"project", "aggregate", "distinct", "sort", "skip", "limit"})

\* The end of a UNION branch: ALL concatenates, otherwise everything so far is
\* deduplicated; the next branch starts from one empty row.
BranchStep ==
    /\ Running({"branch"})
    /\ acc' = IF Next1.all THEN acc \o rows ELSE DistinctRows(acc \o rows)
    /\ Advance(<<Fresh(<<>>)>>)

\* How many rows of a mutating operator's output its consumer pulls: the output
\* is materialised, so all of them, whatever LIMIT follows.
BadPulled(n, rest) ==   \* the output streams into LIMIT
    LET L == {rest[i].n : i \in {k \in DOMAIN rest : rest[k].op = "limit"}}
    IN IF L = {} THEN n ELSE IF Min(L) < n THEN Min(L) ELSE n
Pulled(n, rest) == n

\* A subquery call is a generator: LIMIT stops pulling rows through it when only
\* row-by-row operators stand between them.
PulledThroughCall(n, rest) ==
    LET stop == {i \in DOMAIN rest : rest[i].op = "limit"
                    /\ \A j \in 1..(i - 1) : rest[j].op \in {"project", "skip"}}
        want(i) == rest[i].n + (IF \E j \in 1..(i - 1) : rest[j].op = "skip"
                                THEN rest[CHOOSE j \in 1..(i - 1) : rest[j].op = "skip"].n ELSE 0)
    IN IF stop = {} THEN n ELSE LET m == want(CHOOSE i \in stop : TRUE) IN IF m < n THEN m ELSE n

\* One row through an operator that yields row by row, then the next operator.
RowStep(res, rest) ==
    IF res.ok
    THEN /\ g' = res.g
         /\ rows' = rest /\ done' = done \o res.out
         /\ UNCHANGED <<ctx, query, ops, acc, status, start, known, count, client>>
    ELSE \* the exception leaves execute(); a transaction rolls back
         /\ status' = "failed" /\ ops' = <<>> /\ rows' = <<>> /\ done' = <<>>
         /\ g' = IF Transactional THEN start ELSE res.g
         /\ UNCHANGED <<ctx, query, acc, start, known, count, client>>

OperatorDone == /\ rows' = done /\ done' = <<>> /\ ops' = Tail(ops)
                /\ UNCHANGED <<g, ctx, query, acc, status, start, known, count, client>>

\* A transaction's handle loaded its catalog when it began.
Catalog == IF Transactional THEN known ELSE cons

WriteStep ==
    /\ Running(Mutating) /\ ~Exhausted(g)
    /\ IF Len(done) >= Pulled(Len(done) + Len(rows), Tail(ops)) THEN OperatorDone
       ELSE RowStep(WriteRow(g, Catalog, rows[1].b, Next1), Tail(rows))

CallStep ==
    /\ Running({"call"}) /\ ~Exhausted(g)
    /\ IF Len(done) >= PulledThroughCall(Len(done) + Len(rows), Tail(ops)) THEN OperatorDone
       ELSE RowStep(CallRow(g, Catalog, rows[1].b, Next1), Tail(rows))

Finish ==
    /\ status = "running" /\ ops = <<>>
    /\ status' = "ok"
    /\ rows' = IF acc = <<>> THEN rows ELSE acc
    /\ UNCHANGED <<g, ctx, query, ops, done, acc, start, known, count, client>>

---------------------------------------------------------------------------
(* CREATE CONSTRAINT reads the committed graph, then replaces the stored   *)
(* catalog; DROP CONSTRAINT replaces it at once.                           *)

Committed == IF status = "running" /\ Transactional THEN start ELSE g
Satisfies(graph, c) ==
    LET S == {Node(graph, i) : i \in {j \in DOMAIN graph.nodes : c.label \in graph.nodes[j].labels}}
    IN IF c.kind = "exists" THEN \A v \in S : v.p # Null
       ELSE \A v \in S, w \in S : v.id # w.id => Eq3(v.p, w.p) # TRUE

queryState == <<g, ctx, query, ops, rows, done, acc, status, start, known, count>>

ValidateConstraint(c) ==
    /\ ctx.ddl /\ ddl = <<>> /\ c \notin cons /\ Satisfies(Committed, c)
    /\ ddl' = <<[c |-> c, seen |-> Committed]>>
    /\ UNCHANGED <<cons, raced, queryState>>

StoreConstraint ==
    /\ ddl # <<>> /\ ~(status = "running" /\ Transactional)
    /\ cons' = cons \cup {ddl[1].c}
    /\ raced' = IF status = "running" \/ g # ddl[1].seen THEN raced \cup {ddl[1].c} ELSE raced
    /\ ddl' = <<>>
    /\ UNCHANGED queryState

DropConstraint(c) ==
    /\ ctx.ddl /\ ddl = <<>> /\ c \in cons /\ ~(status = "running" /\ Transactional)
    /\ cons' = cons \ {c} /\ raced' = raced \ {c}
    /\ UNCHANGED <<ddl, queryState>>

CypherNext ==
    \/ \E q \in Queries : BeginQuery(q)
    \/ MatchStep \/ OptionalStep \/ FilterStep \/ UnwindStep \/ ShapeStep \/ BranchStep
    \/ WriteStep \/ CallStep \/ Finish
    \/ \E c \in Constraints : ValidateConstraint(c) \/ DropConstraint(c)
    \/ StoreConstraint

CypherSpec == CypherInit /\ [][CypherNext]_cypherVars

---------------------------------------------------------------------------
(* Reference semantics of a MATCH clause: no index, no traversal order; a  *)
(* hop is any walk with no relationship twice in the clause.               *)

Joins(graph, e, x, y, dir) ==
    \/ dir # "in"  /\ graph.edges[e].src = x /\ graph.edges[e].dst = y
    \/ dir # "out" /\ graph.edges[e].dst = x /\ graph.edges[e].src = y

Walks(graph, from, hop) ==
    LET E == {e \in DOMAIN graph.edges : /\ hop.types = {} \/ graph.edges[e].type \in Types(hop, ctx)
                                         /\ hop.p = Unset \/ (graph.edges[e].p # Null /\ graph.edges[e].p = hop.p)}
        ofLength(n) == {w \in [es : {s \in [1..n -> E] : IsInjective(s)}, ns : [1..n -> DOMAIN graph.nodes]] :
                          \A i \in 1..n : Joins(graph, w.es[i], IF i = 1 THEN from ELSE w.ns[i - 1], w.ns[i], hop.dir)}
    IN UNION {ofLength(n) : n \in {m \in 0..Cardinality(E) : InLength(hop, m)}}

\* A pattern node against a stored node, and a variable against what it is bound to.
Fits(graph, i, np) ==
    LET has(l) == (Closure(l, ctx) \cap graph.nodes[i].labels) # {}
    IN /\ IF np.alts = {} THEN \A l \in np.labels : has(l)
          ELSE \E a \in np.alts : (\A l \in a.req : has(l)) /\ (\A l \in a.exc : ~has(l))
       /\ np.id \in {Unset, i}
       /\ np.p = Unset \/ (graph.nodes[i].p # Null /\ graph.nodes[i].p = np.p)
Agrees(b, var, v) == var = "" \/ var \notin DOMAIN b \/ (b[var] # Null /\ SameEntity(b[var], v))

RefStarts(graph, S, np) ==
    UNION {{[b |-> Bind(x.b, np.var, Node(graph, i)), at |-> i, es |-> x.es, ns |-> <<i>>, es0 |-> Len(x.es)] :
               i \in {j \in DOMAIN graph.nodes : Fits(graph, j, np) /\ Agrees(x.b, np.var, Node(graph, j))}} : x \in S}

RelValue(graph, hop, es) == IF hop.min = 1 /\ hop.max = 1 THEN Edge(graph, es[1]) ELSE ListOf(es)

RefHop(graph, S, hop) ==
    UNION {LET at(w) == IF w.ns = <<>> THEN x.at ELSE Last(w.ns)
               ok(w) == /\ ToSet(w.es) \cap ToSet(x.es) = {}
                        /\ Fits(graph, at(w), hop.target) /\ Agrees(x.b, hop.target.var, Node(graph, at(w)))
                        /\ Agrees(x.b, hop.rel, RelValue(graph, hop, w.es))
           IN {[x EXCEPT !.b = Bind(Bind(x.b, hop.target.var, Node(graph, at(w))), hop.rel, RelValue(graph, hop, w.es)),
                         !.at = at(w), !.es = x.es \o w.es, !.ns = x.ns \o w.ns] :
                 w \in {v \in Walks(graph, x.at, hop) : ok(v)}} : x \in S}

RefPattern(graph, S, pat) ==
    LET ends == FoldLeft(LAMBDA X, hop : RefHop(graph, X, hop), RefStarts(graph, S, pat.src), pat.hops)
        path(x) == [kind |-> "path", ns |-> x.ns, es |-> SubSeq(x.es, x.es0 + 1, Len(x.es))]
    IN {[x EXCEPT !.b = IF pat.name = "" THEN @ ELSE Bind(@, pat.name, path(x))] : x \in ends}

RefMatch(graph, b, pats) ==
    FoldLeft(LAMBDA S, pat : RefPattern(graph, S, pat),
             {[b |-> b, at |-> Null, es |-> <<>>, ns |-> <<>>, es0 |-> 0]}, pats)

RefRows(graph, b, c) == {[b |-> x.b, es |-> x.es] :
                           x \in {y \in RefMatch(graph, b, c.pats) : EvalWhere(c.where, y.b) = TRUE}}

---------------------------------------------------------------------------
(* Properties.                                                             *)

\* A binding still equals the stored entity.
StillStored(graph, b) ==
    \A v \in {u \in DOMAIN b : b[u] # Null /\ b[u].kind \in {"node", "edge"}} :
        IF b[v].kind = "node" THEN b[v].id \in DOMAIN graph.nodes /\ b[v] = Node(graph, b[v].id)
        ELSE b[v].id \in DOMAIN graph.edges /\ b[v] = Edge(graph, b[v].id)

\* Where the engine deviates from the reference: named patterns ignore null bindings
\* and yield a zero-length hop unbound; typed undirected variable-length hops repeat
\* a self-loop; a temporal label expression is seeded from the current graph.
HopRegular(graph, hop, named) ==
    /\ hop.min = 0 => ~named
    /\ hop.dir = "any" /\ hop.types # {} /\ ~(hop.min = 1 /\ hop.max = 1)
         => \A e \in DOMAIN graph.edges : graph.edges[e].src # graph.edges[e].dst
Regular(graph, b, c) ==
    \A i \in DOMAIN c.pats :
        /\ \A k \in DOMAIN c.pats[i].hops : HopRegular(graph, c.pats[i].hops[k], c.pats[i].name # "")
        /\ c.pats[i].name # "" => \A v \in PatternVars(c.pats[i]) : ~IsNullBound(b, v)
        /\ ctx.temporal => c.pats[i].src.alts = {}

\* SHORTEST k keeps k of the shortest matches of each start node; ALL SHORTEST all
\* of the minimal length, when the target is still free.
SelectorExact(graph, b, c, got) ==
    LET full == RefMatch(graph, b, c.pats)
        of(S, i) == {x \in S : x.ns[1] = i}
        n(S) == Cardinality(S)
    IN \A i \in DOMAIN graph.nodes :
         LET F == {[b |-> x.b, es |-> x.es] : x \in of(full, i)}
             G == {[b |-> x.b, es |-> x.path] : x \in of(ToSet(got), i)}
             least == {x \in F : \A y \in F : Len(x.es) <= Len(y.es)}
         IN IF c.sel.mode = "any"
            THEN /\ G \subseteq F /\ n(G) = (IF c.sel.k < n(F) THEN c.sel.k ELSE n(F))
                 /\ \A x \in G, y \in F \ G : Len(x.es) <= Len(y.es)
            ELSE c.pats[1].hops[1].target.var \in DOMAIN b \/ G = least

\* shortestPath between two nodes returns exactly the walks of minimal length.
ShortestExact(graph, pat) ==
    \A i \in DOMAIN graph.nodes, j \in DOMAIN graph.nodes :
        LET hop == pat.hops[1]
            W == IF ~Fits(graph, i, pat.src) \/ ~Fits(graph, j, hop.target) THEN {}
                 ELSE {w.es : w \in {v \in Walks(graph, i, hop) : (IF v.ns = <<>> THEN i ELSE Last(v.ns)) = j}}
        IN ShortestBetween(graph, Node(graph, i), pat.src, hop, Node(graph, j), ctx)
             = {s \in W : \A t \in W : Len(s) <= Len(t)}

MatchExact(c) ==
    \A n \in DOMAIN rows :
        LET b   == rows[n].b
            got == MatchRow(g, b, c, ctx)
        IN StillStored(g, b) /\ Regular(g, b, c) =>
             IF c.sel.mode = "none"
             THEN LET kept == FilterRows(got, c.where)
                      want == RefRows(g, b, c)
                  IN Len(kept) = Cardinality(want) /\ {[b |-> x.b, es |-> x.path] : x \in ToSet(kept)} = want
             ELSE SelectorExact(g, b, c, got) /\ ShortestExact(g, c.pats[1])

\* Sorting is a stable reordering; grouping neither loses nor splits a group.
ShapeExact(o) ==
    CASE o.op = "sort" ->
           LET out == SortRows(rows, o.by, o.desc)
               k(r) == SortKey(r.b[o.by])
               at(r) == {i \in DOMAIN rows : rows[i] = r}
           IN /\ \A r \in ToSet(rows) : Cardinality(at(r)) = Cardinality({i \in DOMAIN out : out[i] = r})
              /\ \A i \in 1..(Len(out) - 1) :
                   LET x == IF o.desc THEN out[i + 1] ELSE out[i]
                       y == IF o.desc THEN out[i] ELSE out[i + 1]
                   IN ~KeyBelow(k(y), k(x))
                      /\ (k(x) = k(y) => \E m \in at(out[i]), n \in at(out[i + 1]) : m < n \/ out[i] = out[i + 1])
      [] o.op = "aggregate" ->
           LET out  == AggregateRows(rows, o.items)
               by   == {it \in ToSet(o.items) : it.agg = ""}
               same(r, x) == \A it \in by : ValueKey(ItemValue(it, x.b)) = ValueKey(r.b[it.as])
               hits(r) == {i \in DOMAIN rows : same(r, rows[i])}
           IN /\ \A i \in DOMAIN rows : Cardinality({k \in DOMAIN out : same(out[k], rows[i])}) = 1
              /\ \A k \in DOMAIN out, it \in ToSet(o.items) :
                   it.agg = "count(*)" => out[k].b[it.as] = IntVal(Cardinality(hits(out[k])))
      [] OTHER -> TRUE

\* The rows an operator hands on are the ones its clause means.
OperatorsExact ==
    (status = "running" /\ ops # <<>>) =>
        IF Next1.op = "match" THEN MatchExact(Next1) ELSE ShapeExact(Next1)

\* The graph a MATCH followed by one write must leave, from the reference matches
\* in the graph the query began with.
Written(var) == {x.b[var].id : x \in RefRows(start, <<>>, query[1])}
Simple(kinds) ==
    /\ Len(query) >= 2 /\ query[1].op = "match" /\ query[2].op \in kinds /\ Regular(start, <<>>, query[1])
    /\ \A i \in 3..Len(query) : query[i].op \notin Mutating \cup {"call"}
Changed(it, v) == CASE it.kind = "p" -> [v EXCEPT !.p = it.val] [] it.kind = "label" -> [v EXCEPT !.labels = @ \cup {it.val}]
                    [] it.kind = "-p" -> [v EXCEPT !.p = Null] [] it.kind = "-label" -> [v EXCEPT !.labels = @ \ {it.val}]
Touches(it) ==
    LET I == Written(it.var)
    IN /\ g.nodes = [i \in DOMAIN start.nodes |-> IF i \in I THEN Changed(it, start.nodes[i]) ELSE start.nodes[i]]
       /\ g.edges = [e \in DOMAIN start.edges |-> IF e \in I THEN Changed(it, start.edges[e]) ELSE start.edges[e]]
Vanish(I) ==
    LET dead == {e \in DOMAIN start.edges : {e, start.edges[e].src, start.edges[e].dst} \cap I # {}}
    IN /\ g.nodes = [i \in DOMAIN start.nodes \ I |-> start.nodes[i]]
       /\ g.edges = [e \in DOMAIN start.edges \ dead |-> start.edges[e]]
\* One new node and edge per match, hanging off the bound node.
Grows(pat, times) ==
    LET newE == DOMAIN g.edges \ DOMAIN start.edges
        newN == DOMAIN g.nodes \ DOMAIN start.nodes
    IN /\ \A i \in DOMAIN start.nodes : i \in DOMAIN g.nodes /\ g.nodes[i] = start.nodes[i]
       /\ \A e \in DOMAIN start.edges : e \in DOMAIN g.edges /\ g.edges[e] = start.edges[e]
       /\ \A i \in DOMAIN start.nodes :
            Cardinality({e \in newE : g.edges[e].src = i}) = IF i \in Written(pat.src.var) THEN times ELSE 0
       /\ {g.edges[e].dst : e \in newE} = newN /\ Cardinality(newE) = Cardinality(newN)

ClausesWritten ==
    status = "ok" =>
        /\ Simple({"set", "remove"}) /\ Len(query[2].items) = 1 => Touches(query[2].items[1])
        /\ Simple({"delete"}) => Vanish(UNION {Written(v) : v \in query[2].vars})
        /\ Simple({"create"}) => Grows(query[2].pats[1], 1)
        /\ Simple({"foreach"}) /\ Len(query[2].body) = 1 =>
                                  IF query[2].body[1].op = "create"
                                  THEN Grows(query[2].body[1].pats[1], Len(query[2].list))
                                  ELSE Touches(query[2].body[1].items[1])
        /\ query[1].op = "merge" =>
             LET found == RefMatch(start, <<>>, query[1].pats)
                 added == DOMAIN g.nodes \ DOMAIN start.nodes
             IN /\ found # {} => added = {} /\ g.edges = start.edges
                /\ found = {} => Cardinality(added) = 1 /\ \A i \in DOMAIN start.nodes : g.nodes[i] = start.nodes[i]

\* On a transactional backend a query with top-level writes that fails half-way
\* leaves the graph as it found it, whichever row or clause raised.
QueryAtomic == (status = "failed" /\ ctx.tx /\ \E i \in DOMAIN query : query[i].op \in Mutating) => g = start

\* Every stored constraint holds, also between two rows of a query, except one whose
\* CREATE raced a write.
ConstraintsHold == \A c \in cons \ raced : Satisfies(g, c)

\* A query does what its clauses say.  The rows an operator hands on are those of the
\* reference: index seeks, scan order, hop expansion and trail search lose, invent or
\* repeat no match, and sorting and grouping keep every row.  When it succeeds every
\* match is written exactly once, from the state before the clause, whatever LIMIT or
\* index the query uses, and a MERGE that found its pattern creates nothing.
QueriesExact == OperatorsExact /\ ClausesWritten

\* When a mutating query fails on a backend with transactions, whichever row or clause
\* raised, nothing is written; and no row that a query writes, finished or failed half-way,
\* leaves a stored constraint broken.
WritesSafe == QueryAtomic /\ ConstraintsHold

\* A LIMIT never truncates the writes made before it.
LimitKeepsWrites ==
    (status = "ok" /\ Len(query) = 3 /\ query[1].op = "match" /\ query[2].op = "call"
       /\ query[2].body[1].op = "set" /\ Regular(start, <<>>, query[1])) => Touches(query[2].body[1].items[1])
=============================================================================
