---------------------------- MODULE SamplerEngine ----------------------------
(***************************************************************************)
(* The sampler engine (sampling/engine.py and the walk_*.py policies) on a *)
(* loaded temporal snapshot.  The random generator is a choice: an action  *)
(* may return whatever some generator state returns.  Weights are 0 or     *)
(* positive, since only zero weights change what can be drawn, and a draw  *)
(* with replacement is represented by the rows that occur in it.           *)
(***************************************************************************)
EXTENDS TemporalSnapshot

CONSTANTS Contexts,   \* temporal contexts, with their window policy
          TypeSets,   \* node types a node draw may ask for
          Draws,      \* options of one draw: count, replace, weighted, balanced
          Policies,   \* walk policies with the call's options
          Fanouts,    \* subgraph options: fanouts per hop and negatives
          WalkLength, \* bound on transitions of one walk
          Window,     \* context window of a walk
          MaxDropped  \* bound on visits that subsampling drops

\* a direction is one of three, a packed batch has a component, and a negative
\* replaces a head or a tail
ASSUME FanoutsAssumption ==
  \A o \in Fanouts : /\ o.dir \in {"out", "in", "any"} /\ o.components \in Nat \ {0} /\ o.cfg.per \in Nat
                     /\ o.cfg.per > 0 => o.cfg.heads \subseteq BOOLEAN

VARIABLE job   \* the call in progress, or the one that has just returned

NoContext == [kind |-> "none"]
NoConfig  == [per |-> 0]
NoTime    == -1
Raised    == [kind |-> "raised"]
NoCall    == [kind |-> "idle"]

Rows  == DOMAIN snap.rows
Nodes == DOMAIN snap.nodes
Rels  == DOMAIN snap.rels

---------------------------------------------------------------------------
(* Candidates *)

\* one half-open validity against an instant, or a window under its policy
Matches(from, to, ctx) ==
  CASE ctx.kind = "none" -> TRUE
    [] ctx.kind = "at" -> from <= ctx.t /\ ctx.t < to
    [] ctx.kind = "overlap" -> from < ctx.to /\ ctx.from < to
    [] ctx.kind = "contained" -> ctx.from <= from /\ to # Open /\ to <= ctx.to

RowMatches(i, ctx) == Matches(snap.rows[i].from, RowEnd(snap.rows[i]), ctx)

NodeAvailable(n, ctx) ==
  ctx.kind = "none" \/ \E j \in DOMAIN snap.avail[n] :
    Matches(snap.avail[n][j].from, snap.avail[n][j].to, ctx)

Touches(i, n, dir) == \/ dir # "in" /\ snap.rows[i].src = n
                      \/ dir # "out" /\ snap.rows[i].dst = n

BadQueryTime(ctx) == IF ctx.kind = "at" THEN ctx.t ELSE ctx.from

QueryTime(ctx) == IF ctx.kind = "at" THEN ctx.t ELSE ctx.to - 1

\* with a context the time-ordered index is cut at the bucket and filtered;
\* without one the relation or incidence index is read
CandidateEdges(n, dir, rels, ctx) ==
  IF ctx.kind = "none"
  THEN {i \in Rows : Touches(i, n, dir) /\ snap.rows[i].rel \in rels}
  ELSE {i \in UNION {UNION {TemporalCandidates(snap, n, q, QueryTime(ctx), d) :
                               d \in {e \in {"out", "in"} : dir \in {e, "any"}}} : q \in rels} : RowMatches(i, ctx)}

Far(n, i, dir) ==
  CASE dir = "out" -> snap.rows[i].dst
    [] dir = "in" -> snap.rows[i].src
    [] dir = "any" -> IF snap.rows[i].src = n THEN snap.rows[i].dst ELSE snap.rows[i].src

---------------------------------------------------------------------------
(* _choose_candidates and _choose_balanced: the possible selections.  No    *)
(* selection is possible when weights are asked for and all are zero: the   *)
(* code raises.                                                             *)

Selections(cands, count, replace, weight) ==
  IF count = 0 \/ cands = {} THEN {{}}
  ELSE LET live == {c \in cands : weight[c] > 0}
       IN  IF live = {} THEN {}
           ELSE IF replace THEN {S \in SUBSET live : S # {} /\ Cardinality(S) <= count}
           ELSE IF Cardinality(live) <= count THEN {live} ELSE kSubset(count, live)

Quota(groups, g, count) ==
  count \div Cardinality(groups)
    + IF Cardinality({h \in groups : h < g}) < count % Cardinality(groups) THEN 1 ELSE 0

\* one share per member of S, as a set of pairs <<member, drawn>>
Shares(S, share) ==
  {UNION {{s} \X g[s] : s \in S} : g \in {h \in [S -> UNION Range(share)] : \A s \in S : h[s] \in share[s]}}

Balanced(cands, count, replace, weight, group) ==
  LET groups == {group[c] : c \in cands}
      used   == {g \in groups : /\ Quota(groups, g, count) > 0
                                /\ \E c \in cands : group[c] = g /\ weight[c] > 0}
      share  == [g \in used |-> Selections({c \in cands : group[c] = g}, Quota(groups, g, count), replace, weight)]
  IN  IF count = 0 \/ cands = {} \/ used = {}
      THEN Selections(cands, count, replace, weight)
      ELSE {{x[2] : x \in f} : f \in Shares(used, share)}

Choose(cands, d, weight, group) ==
  IF d.balanced THEN Balanced(cands, d.count, d.replace, weight, group)
  ELSE Selections(cands, d.count, d.replace, weight)

EdgeWeight(weighted) == [i \in Rows |-> IF weighted THEN snap.rows[i].w ELSE 1]

RowRel == [i \in Rows |-> snap.rows[i].rel]

---------------------------------------------------------------------------
(* sample_nodes, sample_edges, sample_neighbors *)

Call == snap.built /\ job = NoCall /\ UNCHANGED logVars

Return(r) == job' = r

DrawNodes ==
  /\ Call
  /\ \E d \in Draws, ctx \in Contexts, types \in TypeSets :
       LET cands == {n \in Nodes : snap.types[n] \in types /\ NodeAvailable(n, ctx)}
           degree == [n \in Nodes |-> IF d.weighted
                        THEN Cardinality({i \in Rows : Touches(i, n, "any")}) ELSE 1]
           picks == Choose(cands, d, degree, [n \in Nodes |-> snap.types[n]])
       IN  IF picks = {} THEN Return(Raised)
           ELSE \E S \in picks : Return([kind |-> "nodes", d |-> d, ctx |-> ctx,
                                         types |-> types, picked |-> S])

DrawEdges ==
  /\ Call
  /\ \E d \in Draws, ctx \in Contexts, rels \in {{1}, Rels} :
       LET cands == {i \in Rows : snap.rows[i].rel \in rels /\ RowMatches(i, ctx)}
           picks == Choose(cands, d, EdgeWeight(d.weighted), RowRel)
       IN  IF picks = {} THEN Return(Raised)
           ELSE \E S \in picks : Return([kind |-> "edges", d |-> d, ctx |-> ctx, rels |-> rels,
                                         node |-> 0, dir |-> "any", picked |-> S])

\* one row of sample_neighbors; causal is the valid start of the edge that
\* led to the node, if a causal policy is in force
Neighbors(n, dir, rels, ctx, policy, causal) ==
  {i \in CandidateEdges(n, dir, rels, ctx) :
     \/ policy = "none" \/ causal = NoTime
     \/ policy = "nondecreasing" /\ snap.rows[i].from >= causal
     \/ policy = "nonincreasing" /\ snap.rows[i].from <= causal}

DrawNeighbors ==
  /\ Call
  /\ \E d \in Draws, ctx \in Contexts, rels \in {{1}, Rels}, dir \in {"out", "in", "any"}, n \in Nodes :
       LET picks == Choose(Neighbors(n, dir, rels, ctx, "none", NoTime), d,
                           EdgeWeight(d.weighted), RowRel)
       IN  IF picks = {} THEN Return(Raised)
           ELSE \E S \in picks : Return([kind |-> "edges", d |-> d, ctx |-> ctx, rels |-> rels,
                                         node |-> n, dir |-> dir, picked |-> S])

---------------------------------------------------------------------------
(* Batches: compact ids become positions in the batch's own node list.      *)

Sorted(S) == Ranked(S, Before)

\* numpy.searchsorted: the insertion point, whether or not x is there
SearchSorted(s, x) == Cardinality({i \in DOMAIN s : s[i] < x}) + 1

Localize(nodes, triple) ==
  <<SearchSorted(nodes, triple[1]), triple[2], SearchSorted(nodes, triple[3])>>

Triple(i) == <<snap.rows[i].src, snap.rows[i].rel, snap.rows[i].dst>>

BatchFromEdges(nodeSet, edgeSet, pos, neg) ==
  LET nodes == Sorted(nodeSet)
      edges == Sorted(edgeSet)
  IN  [nodes |-> nodes, edges |-> edges,
       ends |-> [i \in DOMAIN edges |-> Localize(nodes, Triple(edges[i]))],
       pos |-> [i \in DOMAIN pos |-> Localize(nodes, pos[i])],
       neg |-> [i \in DOMAIN neg |-> Localize(nodes, neg[i])]]

BadShift(triples, base) ==
  [i \in DOMAIN triples |-> <<triples[i][1] + base, triples[i][2], triples[i][3]>>]

\* sample_packed_subgraphs: components side by side, local ids shifted by
\* the nodes of the components before
Shift(triples, base) ==
  [i \in DOMAIN triples |-> <<triples[i][1] + base, triples[i][2], triples[i][3] + base>>]

Packed(a, b) ==
  [nodes |-> a.nodes \o b.nodes, edges |-> a.edges \o b.edges,
   ends |-> a.ends \o Shift(b.ends, Len(a.nodes)),
   pos |-> a.pos \o Shift(b.pos, Len(a.nodes)), neg |-> a.neg \o Shift(b.neg, Len(a.nodes))]

EmptyBatch == [nodes |-> <<>>, edges |-> <<>>, ends |-> <<>>, pos |-> <<>>, neg |-> <<>>]

---------------------------------------------------------------------------
(* sample_multihop and sample_subgraph: hops, then negatives, one component *)
(* after another when a packed batch was asked for.                         *)

StartTime(seeds) == Min({snap.rows[i].from : i \in seeds})

\* negatives without an explicit context confine the context hops to what
\* was valid at the earliest positive, unless future candidates are allowed
ContextOf(opt, kept) ==
  IF opt.ctx.kind = "none" /\ opt.cfg # NoConfig /\ ~opt.cfg.future /\ kept # {}
  THEN IF opt.cfg.window = 0 THEN [kind |-> "at", t |-> StartTime(kept)]
       ELSE [kind |-> "overlap", from |-> StartTime(kept) - opt.cfg.window, to |-> StartTime(kept) + 1]
  ELSE opt.ctx

SeedStates(opt, kept, nodes) ==
  IF opt.causal = "none" THEN {<<n, NoTime>> : n \in nodes}
  ELSE UNION {{<<snap.rows[i].src, snap.rows[i].from>>, <<snap.rows[i].dst, snap.rows[i].from>>} : i \in kept}

Component(opt, seeds) ==
  LET kept  == {i \in seeds : RowMatches(i, opt.ctx)}
      nodes == {snap.rows[i].src : i \in kept} \cup {snap.rows[i].dst : i \in kept}
  IN  [kept |-> Sorted(kept), nodes |-> nodes, edges |-> {}, hop |-> 1, ctx |-> ContextOf(opt, kept),
       states |-> SeedStates(opt, kept, nodes), negs |-> <<>>]

StartSubgraph ==
  /\ Call
  /\ \E opt \in Fanouts : \E groups \in {g \in [1 .. opt.components -> SUBSET Rows] :
                                            \A c \in DOMAIN g : Cardinality(g[c]) \in 1 .. opt.seeds} :
       Return([kind |-> "subgraph", opt |-> opt, rest |-> Tail(groups), done |-> <<>>,
               batch |-> EmptyBatch, c |-> Component(opt, groups[1])])

StartMultihop ==
  /\ Call
  /\ \E opt \in {o \in Fanouts : o.cfg = NoConfig}, n \in Nodes :
       Return([kind |-> "subgraph", opt |-> opt, rest |-> <<>>, done |-> <<>>, batch |-> EmptyBatch,
               c |-> [kept |-> <<>>, nodes |-> {n}, edges |-> {}, hop |-> 1, ctx |-> opt.ctx,
                      states |-> {<<n, NoTime>>}, negs |-> <<>>]])

Hopping == job.kind = "subgraph" /\ job.c.hop <= Len(job.opt.fanouts) /\ job.c.states # {}

\* every frontier state draws its share of edges
HopDraws(c, opt) ==
  Shares(c.states, [s \in c.states |-> Selections(Neighbors(s[1], opt.dir, Rels, c.ctx, opt.causal, s[2]),
                                                  opt.fanouts[c.hop], FALSE, EdgeWeight(FALSE))])

Hop ==
  /\ Hopping
  /\ \E f \in HopDraws(job.c, job.opt) :
       LET c == job.c
           next == {<<Far(x[1][1], x[2], job.opt.dir), snap.rows[x[2]].from>> : x \in f}
           reached == {s[1] : s \in next}
       IN  job' = [job EXCEPT
             !.c.hop = @ + 1, !.c.nodes = @ \cup reached,
             !.c.edges = @ \cup {x[2] : x \in f},
             !.c.states = IF job.opt.causal = "none"
                          THEN {<<n, NoTime>> : n \in reached \ c.nodes} ELSE next]
  /\ UNCHANGED logVars

---------------------------------------------------------------------------
(* sample_hard_negatives for the component's positives *)

Positives(c) == [i \in DOMAIN c.kept |-> Triple(c.kept[i])]

\* the example time of a positive: the query instant, else its valid start
PositiveTime(c, opt, p) == IF opt.ctx.kind = "at" THEN opt.ctx.t ELSE snap.rows[c.kept[p]].from

CandidateContext(cfg, t) ==
  IF cfg.future THEN NoContext
  ELSE IF cfg.window = 0 THEN [kind |-> "at", t |-> t]
  ELSE [kind |-> "overlap", from |-> t - cfg.window, to |-> t + 1]

PositiveContext(cfg, t, ctx) ==
  CASE cfg.policy = "any_time" -> NoContext
    [] cfg.policy = "at_positive_time" -> [kind |-> "at", t |-> t]
    [] cfg.policy = "window" -> IF ctx.kind \in {"overlap", "contained"} THEN [ctx EXCEPT !.kind = cfg.within]
                                ELSE [kind |-> cfg.within, from |-> t - cfg.window, to |-> t + 1]

IsPositive(triple, ctx) == \E i \in Rows : Triple(i) = triple /\ RowMatches(i, ctx)

Corrupt(triple, head, n) == IF head THEN <<n, triple[2], triple[3]>> ELSE <<triple[1], triple[2], n>>

\* _negative_rejection
Acceptable(n, head, triple, t, cfg, ctx, seen) ==
  LET new == Corrupt(triple, head, n)
      old == IF head THEN triple[1] ELSE triple[3]
      want == IF head THEN snap.srcType[triple[2]] ELSE snap.dstType[triple[2]]
  IN  /\ new[1] # new[3] /\ new \notin seen
      /\ cfg.sameType => snap.types[n] = snap.types[old]
      /\ cfg.relTypes /\ want # NoType => snap.types[n] = want
      /\ NodeAvailable(n, CandidateContext(cfg, t))
      /\ cfg.reject => ~IsPositive(new, PositiveContext(cfg, t, ctx))

\* other positives of the same relation, tried first when in_batch is set
InBatch(c, head, triple, cfg) ==
  IF ~cfg.inBatch THEN {}
  ELSE {IF head THEN q[1] ELSE q[3] : q \in {x \in Range(Positives(c)) : x[2] = triple[2]}}
         \ {IF head THEN triple[1] ELSE triple[3]}

\* _negative_candidates: relation neighbours of the context nodes
NegativeCandidates(c, head, triple, t, cfg) ==
  IF cfg.source = "random" THEN {}
  ELSE LET dir == IF head THEN "in" ELSE "out"
           near == UNION {{Far(n, i, dir) : i \in CandidateEdges(n, dir, {triple[2]}, CandidateContext(cfg, t))} :
                            n \in c.nodes}
       IN  (near \ IF cfg.source = "non_visited" THEN c.nodes ELSE {}) \ {triple[1], triple[3]}

Degree(n) == Cardinality({i \in Rows : snap.rows[i].src = n}) + Cardinality({i \in Rows : snap.rows[i].dst = n})

\* _negative_fallback_candidates: at most max_retries nodes, in any order;
\* weighted by degree, isolated nodes are never proposed
Fallbacks(cfg) ==
  LET pool == IF cfg.degree /\ Rows # {} THEN {n \in Nodes : Degree(n) > 0} ELSE Nodes
  IN  IF Cardinality(pool) <= cfg.retries THEN {pool} ELSE kSubset(cfg.retries, pool)

\* the nodes one direction may end with; 0 when it is exhausted
Tried(c, head, triple, t, cfg, ctx, seen) ==
  LET Ok(S) == {n \in S : Acceptable(n, head, triple, t, cfg, ctx, seen)}
      first == Ok(InBatch(c, head, triple, cfg))
      second == Ok(NegativeCandidates(c, head, triple, t, cfg))
  IN  IF first # {} THEN first ELSE IF second # {} THEN second
      ELSE UNION {IF Ok(F) = {} THEN {0} ELSE Ok(F) : F \in Fallbacks(cfg)}

TripleLess(a, b) == \/ a[1] < b[1]
                    \/ a[1] = b[1] /\ a[2] < b[2]
                    \/ a[1] = b[1] /\ a[2] = b[2] /\ a[3] < b[3]

Exhausted(cfg, seen) ==
  IF cfg.repeat /\ seen # {}
  THEN {x \in seen : \A y \in seen : ~TripleLess(y, x)} ELSE {}

HopsDone == job.kind = "subgraph" /\ ~Hopping

Wanted(c, cfg) == Len(c.kept) * cfg.per

CurrentPositive(c, cfg) == Len(c.negs) \div cfg.per + 1

SeenInGroup(c, cfg) ==
  {c.negs[j] : j \in {k \in DOMAIN c.negs : (k - 1) \div cfg.per + 1 = CurrentPositive(c, cfg)}}

\* _one_negative: the first direction is drawn, the other is the fallback
Negatives(c, opt) ==
  LET cfg == opt.cfg
      p == CurrentPositive(c, cfg)
      triple == Positives(c)[p]
      t == PositiveTime(c, opt, p)
      seen == SeenInGroup(c, cfg)
      end == [h \in BOOLEAN |-> Tried(c, h, triple, t, cfg, opt.ctx, seen)]
  IN  UNION {{Corrupt(triple, h, n) : n \in end[h] \ {0}}
             \cup (IF 0 \notin end[h] THEN {}
                   ELSE {Corrupt(triple, ~h, n) : n \in end[~h] \ {0}}
                        \cup (IF 0 \in end[~h] THEN Exhausted(cfg, seen) ELSE {})) : h \in cfg.heads}

CanExhaust(c, opt) ==
  LET p == CurrentPositive(c, opt.cfg)
      triple == Positives(c)[p]
      seen == SeenInGroup(c, opt.cfg)
  IN  /\ Exhausted(opt.cfg, seen) = {}
      /\ \A h \in BOOLEAN : 0 \in Tried(c, h, triple, PositiveTime(c, opt, p), opt.cfg, opt.ctx, seen)

OneNegative ==
  /\ HopsDone /\ Len(job.c.negs) < Wanted(job.c, job.opt.cfg)
  /\ \/ \E neg \in Negatives(job.c, job.opt) : job' = [job EXCEPT !.c.negs = Append(@, neg)]
     \/ /\ CanExhaust(job.c, job.opt)
        /\ job' = [kind |-> "exhausted", c |-> job.c, opt |-> job.opt]
  /\ UNCHANGED logVars

\* the component's batch holds the context, the positives and the negatives
ComponentBatch(c) ==
  BatchFromEdges(c.nodes \cup UNION {{x[1], x[3]} : x \in Range(Positives(c)) \cup Range(c.negs)},
                 c.edges \cup Range(c.kept), Positives(c), c.negs)

FinishComponent ==
  /\ HopsDone /\ Len(job.c.negs) >= Wanted(job.c, job.opt.cfg)
  /\ LET batch == Packed(job.batch, ComponentBatch(job.c))
         done == Append(job.done, job.c)
     IN  job' = IF job.rest = <<>> THEN [kind |-> "batch", opt |-> job.opt, batch |-> batch, done |-> done]
                ELSE [job EXCEPT !.batch = batch, !.done = done, !.rest = Tail(@),
                                 !.c = Component(job.opt, Head(job.rest))]
  /\ UNCHANGED logVars

---------------------------------------------------------------------------
(* sample_layers, and to_blocks on what it returns *)

StartLayers ==
  /\ Call
  /\ \E opt \in {o \in Fanouts : o.cfg = NoConfig /\ o.causal = "none"}, n \in Nodes :
       Return([kind |-> "layers", opt |-> opt, frontier |-> {n}, layers |-> <<>>])

\* one column per drawn edge: message source, message destination, row
Block(f, inputs, dir) ==
  LET cols == {<<Far(x[1], x[2], dir), x[1], x[2]>> : x \in f}
      srcs == Sorted({c[1] : c \in cols})
      dsts == Sorted(inputs)
  IN  [src |-> srcs, dst |-> dsts,
       index |-> {<<SearchSorted(srcs, c[1]), SearchSorted(dsts, c[2]), c[3]>> : c \in cols}]

Layer ==
  /\ job.kind = "layers" /\ Len(job.layers) < Len(job.opt.fanouts)
  /\ \E f \in Shares(job.frontier, [n \in job.frontier |->
                 Selections(Neighbors(n, job.opt.dir, Rels, job.opt.ctx, "none", NoTime),
                            job.opt.fanouts[Len(job.layers) + 1], FALSE, EdgeWeight(FALSE))]) :
       job' = [job EXCEPT !.layers = Append(@, Block(f, job.frontier, job.opt.dir)),
                          !.frontier = {Far(x[1], x[2], job.opt.dir) : x \in f}]
  /\ UNCHANGED logVars

---------------------------------------------------------------------------
(* sample_induced_subgraph and sample_partition_block.  A weight is a pair  *)
(* <<numerator, denominator>>.                                              *)

Induced(S, rels, ctx) ==
  {i \in Rows : /\ snap.rows[i].src \in S /\ snap.rows[i].dst \in S
                /\ snap.rows[i].rel \in rels /\ RowMatches(i, ctx)}

IsLoop(i) == snap.rows[i].src = snap.rows[i].dst

InducedWeight(i, k) ==
  LET n == Cardinality(Nodes)
  IN  IF IsLoop(i) \/ k < 2 THEN <<n, k>> ELSE <<n * (n - 1), k * (k - 1)>>

\* array_split: the first n % p chunks are one longer
ChunkSize(p, c) == Cardinality(Nodes) \div p + IF c <= Cardinality(Nodes) % p THEN 1 ELSE 0

ChunkStart(p, c) == (c - 1) * (Cardinality(Nodes) \div p)
                      + IF c - 1 <= Cardinality(Nodes) % p THEN c - 1 ELSE Cardinality(Nodes) % p

Chunk(perm, p, c) == {perm[j] : j \in ChunkStart(p, c) + 1 .. ChunkStart(p, c) + ChunkSize(p, c)}

PartitionWeight(i, p) ==
  LET n == Cardinality(Nodes)
      pairs == FoldSet(LAMBDA c, acc : acc + (ChunkSize(p, c) * (ChunkSize(p, c) - 1)) \div 2, 0, 1 .. p)
  IN  IF IsLoop(i) \/ pairs = 0 \/ n < 2 THEN <<p, 1>> ELSE <<((n * (n - 1)) \div 2) * p, pairs>>

InducedDraw(kind, k, S) ==
  \E ctx \in Contexts, rels \in {{1}, Rels}, max \in {1, Cardinality(Rows)} :
    LET found == Induced(S, rels, ctx)
    IN  IF Cardinality(found) > max THEN Return(Raised)
        ELSE Return([kind |-> kind, k |-> k, ctx |-> ctx, rels |-> rels, picked |-> found,
                     weights |-> [i \in found |-> IF kind = "induced" THEN InducedWeight(i, k) ELSE PartitionWeight(i, k)],
                     batch |-> BatchFromEdges(S, found, <<>>, <<>>)])

SampleInduced == Call /\ \E k \in 1 .. Cardinality(Nodes) : \E S \in kSubset(k, Nodes) : InducedDraw("induced", k, S)

Orders == {f \in [Nodes -> Nodes] : \A a, b \in Nodes : f[a] = f[b] => a = b}

SamplePartition ==
  Call /\ \E p \in 1 .. 2, perm \in Orders : \E c \in 1 .. p :
    InducedDraw("partition", p, Chunk(perm, p, c))

---------------------------------------------------------------------------
(* Walks, one transition per step.  pol.mode tells sample_random_walks      *)
(* ("legacy"), sample_node2vec_walks and sample_policy_walks apart.         *)

Reset(pol, start) ==
  [cur |-> start, prev |-> 0, state |-> pol.init, pos |-> 0, clock |-> pol.chrono.initial,
   hist |-> <<start>>]

StartWalk ==
  /\ Call
  /\ \E pol \in Policies, start \in Nodes :
       Return([kind |-> "walk", pol |-> pol, start |-> start, at |-> Reset(pol, start), trace |-> <<>>])

\* WalkSchema.candidates: one alternative per arc of the current state and
\* edge; without arcs the metapath, if any, names the relation
NoArc(pol, at) ==
  [from |-> at.state, to |-> at.state, dir |-> pol.dir, src |-> {}, dst |-> {},
   rel |-> IF pol.metapath = <<>> THEN 0 ELSE pol.metapath[(at.pos % Len(pol.metapath)) + 1]]

Arcs(pol, at) == IF pol.arcs = {} THEN {NoArc(pol, at)} ELSE {a \in pol.arcs : a.from = at.state}

IsTyped(n, types) == types = {} \/ snap.types[n] \in types

SchemaCandidates(pol, at) ==
  UNION {{[edge |-> i, to |-> Far(at.cur, i, a.dir), next |-> a.to, dir |-> a.dir] :
            i \in {j \in CandidateEdges(at.cur, a.dir,
                                        pol.rels \cap (IF a.rel = 0 THEN Rels ELSE {a.rel}), pol.ctx) :
                     /\ IsTyped(Far(at.cur, j, a.dir), pol.types) /\ IsTyped(Far(at.cur, j, a.dir), a.dst)
                     /\ snap.rows[j].rel \notin pol.barred}} :
         a \in {b \in Arcs(pol, at) : IsTyped(at.cur, b.src)}}

\* TemporalWalkPolicy.candidates: the microsecond at which an edge is crossed
Lower(i, ctx) == LET f == snap.rows[i].from
                     c == CASE ctx.kind = "none" -> f [] ctx.kind = "at" -> ctx.t [] OTHER -> ctx.from
                 IN  IF c > f THEN c ELSE f

Upper(i, ctx) == LET u == RowEnd(snap.rows[i])
                     c == CASE ctx.kind = "none" -> u [] ctx.kind = "at" -> ctx.t + 1 [] OTHER -> ctx.to
                 IN  IF c < u THEN c ELSE u

Crossing(i, clock, ctx, chrono) ==
  CASE chrono.select = "valid_start" -> snap.rows[i].from
    [] chrono.select = "interval" /\ chrono.order = "nondecreasing" ->
         IF clock > Lower(i, ctx) THEN clock ELSE Lower(i, ctx)
    [] chrono.select = "interval" /\ chrono.order = "nonincreasing" ->
         IF clock < Upper(i, ctx) - 1 THEN clock ELSE Upper(i, ctx) - 1

IsFeasible(i, clock, ctx, chrono) ==
  LET t == Crossing(i, clock, ctx, chrono)
  IN  /\ Lower(i, ctx) <= t /\ t < Upper(i, ctx)
      /\ clock # NoTime =>
           /\ IF chrono.order = "nondecreasing" THEN t >= clock ELSE t <= clock
           /\ chrono.gap # NoTime => (t - clock <= chrono.gap /\ clock - t <= chrono.gap)

IsTimed(pol) == pol.chrono.order # "none"

Reachable(pol, at) ==
  {c \in SchemaCandidates(pol, at) : IsTimed(pol) => IsFeasible(c.edge, at.clock, pol.ctx, pol.chrono)}

Recent(s, n) == {s[i] : i \in {j \in DOMAIN s : j > Len(s) - n}}

Forbidden(pol, at) ==
  Recent(at.hist, pol.avoid) \cup (IF pol.nonBack /\ at.prev # 0 THEN {at.prev} ELSE {})

\* after avoidance: the candidates, and what to do when there are none
Avoided(pol, at) ==
  LET all == Reachable(pol, at)
      free == {c \in all : c.to \notin Forbidden(pol, at)}
  IN  IF all = {} THEN [cands |-> {}, otherwise |-> pol.deadEnd]
      ELSE IF free # {} \/ pol.exhaust # "relax" THEN [cands |-> free, otherwise |-> pol.exhaust]
      ELSE [cands |-> all, otherwise |-> pol.deadEnd]

\* static weights rule out zero-weight edges; node2vec leaves its first step unweighted
UsesWeights(pol, at) == IF pol.mode = "node2vec" THEN at.prev # 0 ELSE pol.weighted

Crossed(w, c) ==
  [w EXCEPT !.trace = Append(@, [edge |-> c.edge, from |-> w.at.cur, to |-> c.to, dir |-> c.dir, next |-> c.next,
                                 time |-> IF IsTimed(w.pol) THEN Crossing(c.edge, w.at.clock, w.pol.ctx, w.pol.chrono)
                                          ELSE NoTime]),
            !.at = [cur |-> c.to, prev |-> w.at.cur, state |-> c.next, pos |-> @.pos + 1,
                    clock |-> IF IsTimed(w.pol) THEN Crossing(c.edge, @.clock, w.pol.ctx, w.pol.chrono) ELSE @.clock,
                    hist |-> Append(@.hist, c.to)]]

\* a restart forgets everything but, in sample_random_walks, the metapath position
Restarted(w) ==
  [w EXCEPT !.trace = Append(@, [edge |-> 0, to |-> w.start]),
            !.at = IF w.pol.mode = "legacy" THEN [Reset(w.pol, w.start) EXCEPT !.pos = w.at.pos]
                   ELSE Reset(w.pol, w.start)]

WalkStep ==
  /\ job.kind = "walk" /\ Len(job.trace) < WalkLength
  /\ \/ job.pol.restart /\ job' = Restarted(job)
     \/ \E a \in {Avoided(job.pol, job.at)} :
          LET live == {c \in a.cands : UsesWeights(job.pol, job.at) => snap.rows[c.edge].w > 0}
          IN  \/ \E c \in live : job' = Crossed(job, c)
              \/ a.cands # {} /\ live = {} /\ job' = Raised
              \/ a.cands = {} /\ job' = IF a.otherwise = "restart" THEN Restarted(job)
                                        ELSE [job EXCEPT !.kind = "walked"]
  /\ UNCHANGED logVars

---------------------------------------------------------------------------
(* iter_context_pairs on a finished walk: the pairs of one center.  The     *)
(* visits are cut before each restarted node, and windows apply to what     *)
(* subsampling kept, at most MaxDropped visits of a walk being dropped.     *)

HasWalked == job.kind = "walked" \/ (job.kind = "walk" /\ Len(job.trace) = WalkLength)

Visits(w) == <<w.start>> \o [k \in DOMAIN w.trace |-> w.trace[k].to]

\* the visits at which a new segment starts
Cuts(w, cross) == IF cross THEN {} ELSE {k + 1 : k \in {j \in DOMAIN w.trace : w.trace[j].edge = 0}}

SegmentOf(w, cross, i) ==
  {j \in 1 .. Len(w.trace) + 1 : \A c \in Cuts(w, cross) : (i < c) <=> (j < c)}

Between(i, j) == IF i < j THEN i .. j - 1 ELSE j + 1 .. i

PairContexts ==
  /\ HasWalked
  /\ \E cross \in BOOLEAN, radius \in 1 .. Window, i \in 1 .. Len(job.trace) + 1,
        dropped \in {D \in SUBSET (1 .. Len(job.trace) + 1) : Cardinality(D) <= MaxDropped} :
       LET kept == SegmentOf(job, cross, i) \ dropped
       IN  /\ i \notin dropped
           /\ Return([kind |-> "pairs", walk |-> job, cross |-> cross, radius |-> radius, center |-> i,
                      dropped |-> dropped,
                      contexts |-> {j \in kept \ {i} : Cardinality(kept \cap Between(i, j)) <= radius}])
  /\ UNCHANGED logVars

\* the caller takes the result
Done ==
  /\ \/ job.kind \in {"raised", "nodes", "edges", "batch", "exhausted", "induced", "partition", "walked", "pairs"}
     \/ job.kind = "layers" /\ Len(job.layers) = Len(job.opt.fanouts)
     \/ job.kind = "walk" /\ Len(job.trace) = WalkLength
  /\ job' = NoCall /\ UNCHANGED logVars

EngineNext ==
  \/ DrawNodes \/ DrawEdges \/ DrawNeighbors
  \/ StartSubgraph \/ StartMultihop \/ Hop \/ OneNegative \/ FinishComponent
  \/ StartLayers \/ Layer \/ SampleInduced \/ SamplePartition
  \/ StartWalk \/ WalkStep \/ PairContexts \/ Done

\* a history is written, a snapshot is built from it and sampled
EngineSpec ==
  /\ LogInit /\ job = NoCall
  /\ [][\/ (PublishEdge \/ PublishNode \/ Build) /\ UNCHANGED job
        \/ EngineNext]_<<logVars, job>>

---------------------------------------------------------------------------
(* The reference is the log again: which versions are shown when. *)

Times(ctx) == CASE ctx.kind = "none" -> Instants
                [] ctx.kind = "at" -> {ctx.t}
                [] OTHER -> ctx.from .. ctx.to - 1

ShownVersions(T) ==
  {Newest(elog, x[1], x[2]) : x \in {y \in Ids(elog) \X T : EdgeShownAt(y[1], y[2])}}

AvailableByLog(n, T) ==
  LET x == snap.nodes[n]
  IN  IF x \in Ids(nlog) THEN \E t \in T : NodeShownAt(x, t)
      ELSE \E v \in ShownVersions(T) : x \in {elog[v].src, elog[v].dst}

IsComplete(d, picked) ==
  ~d.weighted /\ ~d.replace /\ ~d.balanced /\ Cardinality(picked) < d.count

(* A draw returns only edges and nodes that the history shows in the asked  *)
(* context, whatever bucket the index was cut at, and a draw that returns   *)
(* fewer than it was asked for returns all of them.                         *)
DrawsShown ==
  /\ job.kind = "edges" =>
       LET got  == {snap.rows[i].ver : i \in job.picked}
           want == {v \in ShownVersions(Times(job.ctx)) :
                      /\ elog[v].rel \in {snap.rels[q] : q \in job.rels}
                      /\ job.node # 0 => \/ job.dir # "in" /\ elog[v].src = snap.nodes[job.node]
                                         \/ job.dir # "out" /\ elog[v].dst = snap.nodes[job.node]}
       IN  /\ got \subseteq want
           /\ IsComplete(job.d, job.picked) /\ job.ctx.kind # "contained" => got = want
           /\ ~job.d.replace => Cardinality(job.picked) <= job.d.count
  /\ job.kind = "nodes" =>
       LET want == {n \in Nodes : snap.types[n] \in job.types /\ AvailableByLog(n, Times(job.ctx))}
       IN  /\ job.ctx.kind # "none" => job.picked \subseteq want
           /\ IsComplete(job.d, job.picked) /\ job.ctx.kind \notin {"none", "contained"} => job.picked = want

\* what a negative must satisfy, read from the log
CleanByLog(n, head, triple, t, cfg, ctx, seen) ==
  LET new == Corrupt(triple, head, n)
      old == IF head THEN triple[1] ELSE triple[3]
      T   == IF cfg.window = 0 THEN {t} ELSE t - cfg.window .. t
      P   == CASE cfg.policy = "any_time" -> Instants
               [] cfg.policy = "at_positive_time" -> {t}
               [] cfg.policy = "window" -> IF ctx.kind = "overlap" THEN Times(ctx) ELSE t - cfg.window .. t
  IN  /\ n # old /\ new[1] # new[3] /\ new \notin seen
      /\ cfg.sameType => snap.types[n] = snap.types[old]
      /\ cfg.future \/ AvailableByLog(n, T)
      /\ cfg.reject => \A v \in ShownVersions(P) :
           <<elog[v].src, elog[v].rel, elog[v].dst>> # <<snap.nodes[new[1]], snap.rels[new[2]], snap.nodes[new[3]]>>

(* Every hard negative corrupts one end of its positive with a node that    *)
(* was available at the example's time, is no edge that the history shows   *)
(* then, and is new in its group; and the call gives up only when no node   *)
(* would do, if it was allowed to try them all.                             *)
NegativesClean ==
  /\ job.kind \in {"subgraph", "exhausted"} =>
       LET c == job.c
           cfg == job.opt.cfg
       IN  \A j \in DOMAIN c.negs :
             LET p == (j - 1) \div cfg.per + 1
                 seen == {c.negs[k] : k \in {q \in 1 .. j - 1 : (q - 1) \div cfg.per + 1 = p}}
             IN  \/ \E n \in Nodes, head \in BOOLEAN :
                       /\ c.negs[j] = Corrupt(Positives(c)[p], head, n)
                       /\ CleanByLog(n, head, Positives(c)[p], PositiveTime(c, job.opt, p), cfg, job.opt.ctx, seen)
                 \/ cfg.repeat /\ c.negs[j] \in seen
  /\ job.kind = "exhausted" /\ job.opt.cfg.retries >= Cardinality(Nodes) /\ ~job.opt.cfg.degree =>
       LET c == job.c
           p == CurrentPositive(c, job.opt.cfg)
       IN  job.opt.cfg.relTypes \/ \A n \in Nodes, head \in BOOLEAN :
             ~CleanByLog(n, head, Positives(c)[p], PositiveTime(c, job.opt, p), job.opt.cfg, job.opt.ctx,
                         SeenInGroup(c, job.opt.cfg))

\* the states that monotone chains of the component's edges reach
IsOrdered(policy, a, b) == \/ policy = "none" \/ a = NoTime
                           \/ policy = "nondecreasing" /\ a <= b
                           \/ policy = "nonincreasing" /\ a >= b

ChainStep(c, opt, states) ==
  states \cup UNION {{<<Far(s[1], i, opt.dir), snap.rows[i].from>> :
                        i \in {j \in c.edges : Touches(j, s[1], opt.dir)
                                               /\ IsOrdered(opt.causal, s[2], snap.rows[j].from)}} : s \in states}

(* Under a causal policy every context edge of a subgraph lies on a chain   *)
(* from a seed along which valid starts never step back (or forward), and   *)
(* every context node is the end of such a chain.                           *)
CausalContext ==
  job.kind = "batch" /\ job.opt.causal # "none" =>
    \A c \in Range(job.done) :
      LET seeds == IF c.kept = <<>> THEN {<<n, NoTime>> : n \in c.nodes}
                   ELSE SeedStates(job.opt, Range(c.kept), {})
          ends  == FoldLeft(LAMBDA acc, k : ChainStep(c, job.opt, acc), seeds, job.opt.fanouts)
      IN  /\ c.nodes \subseteq {s[1] : s \in ends}
          /\ \A i \in c.edges : \E s \in ends :
               Touches(i, s[1], job.opt.dir) /\ IsOrdered(job.opt.causal, s[2], snap.rows[i].from)

Back(b, t) == <<b.nodes[t[1]], t[2], b.nodes[t[3]]>>

Flat(seqs) == Fold(LAMBDA acc, s : acc \o s, <<>>, seqs)

(* Local ids of a batch, of a packed batch and of message-passing blocks    *)
(* lead back to the endpoints of the rows, positives and negatives they     *)
(* stand for, however many components were packed and whatever they share   *)
(* (SampledSubgraphBatch).                                                  *)
BatchMapsBack ==
  /\ job.kind \in {"batch", "induced", "partition"} =>
       \A i \in DOMAIN job.batch.edges : Back(job.batch, job.batch.ends[i]) = Triple(job.batch.edges[i])
  /\ job.kind = "batch" =>
       /\ [i \in DOMAIN job.batch.pos |-> Back(job.batch, job.batch.pos[i])]
            = Flat([k \in DOMAIN job.done |-> Positives(job.done[k])])
       /\ [i \in DOMAIN job.batch.neg |-> Back(job.batch, job.batch.neg[i])]
            = Flat([k \in DOMAIN job.done |-> job.done[k].negs])
  /\ job.kind = "layers" =>
       \A k \in DOMAIN job.layers : \A c \in job.layers[k].index :
         LET b == job.layers[k]
         IN  {b.src[c[1]], b.dst[c[2]]} = {snap.rows[c[3]].src, snap.rows[c[3]].dst}

(* The normalisation weights are unbiased: summed over every equally likely *)
(* node draw or partition, an edge's weight counts it exactly once per draw. *)
WeightsUnbiased ==
  /\ job.kind = "induced" =>
       \A i \in job.picked :
         Cardinality({S \in kSubset(job.k, Nodes) : i \in Induced(S, Rels, NoContext)}) * job.weights[i][1]
           = Cardinality(kSubset(job.k, Nodes)) * job.weights[i][2]
  /\ job.kind = "partition" =>
       \A i \in job.picked :
         Cardinality({x \in Orders \X (1 .. job.k) : i \in Induced(Chunk(x[1], job.k, x[2]), Rels, NoContext)})
             * job.weights[i][1]
           = Cardinality(Orders) * job.k * job.weights[i][2]

---------------------------------------------------------------------------
NodeBefore(w, j) == IF j = 1 THEN w.start ELSE w.trace[j - 1].to

SegmentStart(w, j) == Max({0} \cup {k \in 1 .. j - 1 : w.trace[k].edge = 0})

IsArcStep(w, j) ==
  LET s == w.trace[j]
      here == IF j - 1 = SegmentStart(w, j) THEN w.pol.init ELSE w.trace[j - 1].next
  IN  \E a \in w.pol.arcs : /\ a.from = here /\ a.to = s.next
                            /\ a.rel = 0 \/ a.rel = snap.rows[s.edge].rel
                            /\ a.src = {} \/ snap.types[s.from] \in a.src
                            /\ a.dst = {} \/ snap.types[s.to] \in a.dst

MetapathIndex(w, j) ==
  Cardinality({k \in 1 .. j - 1 : w.trace[k].edge # 0 /\ (w.pol.mode = "legacy" \/ k > SegmentStart(w, j))})

IsTimelyStep(w, j) ==
  LET s == w.trace[j]
      row == snap.rows[s.edge]
      last == IF j - 1 = SegmentStart(w, j) THEN w.pol.chrono.initial ELSE w.trace[j - 1].time
  IN  IF IsTimed(w.pol)
      THEN /\ EdgeShownAt(row.eid, s.time) /\ Newest(elog, row.eid, s.time) = row.ver
           /\ w.pol.ctx.kind # "none" => s.time \in Times(w.pol.ctx)
           /\ last # NoTime =>
                IF w.pol.chrono.order = "nondecreasing" THEN s.time >= last ELSE s.time <= last
      ELSE row.ver \in ShownVersions(Times(w.pol.ctx))

\* the visits a..b of a walk lie on one unbroken path
IsPath(w, a, b) == \A k \in a .. b - 1 : w.trace[k].edge # 0

IsPairedSoundly(p) ==
  LET gap(j) == IF j < p.center THEN p.center - j ELSE j - p.center
      path(j) == p.cross \/ (IF j < p.center THEN IsPath(p.walk, j, p.center) ELSE IsPath(p.walk, p.center, j))
      apart(j) == gap(j) - Cardinality({d \in p.dropped : (d < j) # (d < p.center)})
  IN  p.contexts = {j \in DOMAIN Visits(p.walk) \ p.dropped :
                      j # p.center /\ path(j) /\ apart(j) <= p.radius}

(* A walk is a path of edges that the history shows at the time they are    *)
(* crossed, in chronological order, following the schema and avoiding the   *)
(* nodes it must avoid, each counted from the last restart; and a node is   *)
(* paired as context with the retained visits in its window, never across a *)
(* restart.                                                                 *)
WalkSound ==
  /\ job.kind = "pairs" => IsPairedSoundly(job)
  /\ job.kind \in {"walk", "walked"} =>
    \A j \in DOMAIN job.trace :
      LET s == job.trace[j]
          p == job.pol
      IN  s.edge # 0 =>
            /\ s.from = NodeBefore(job, j)
            /\ Touches(s.edge, s.from, s.dir) /\ s.to = Far(s.from, s.edge, s.dir)
            /\ IsTimelyStep(job, j)
            /\ p.arcs # {} => IsArcStep(job, j)
            /\ p.metapath # <<>> =>
                 snap.rows[s.edge].rel = p.metapath[(MetapathIndex(job, j) % Len(p.metapath)) + 1]
            /\ p.types # {} => snap.types[s.to] \in p.types
            /\ p.exhaust # "relax" =>
                 /\ \A k \in SegmentStart(job, j) .. j - 1 :
                      j - k <= p.avoid => s.to # (IF k = 0 THEN job.start ELSE job.trace[k].to)
                 /\ p.nonBack /\ j - 1 > SegmentStart(job, j) => s.to # job.trace[j - 1].from

(* Whatever is sampled, edges, nodes, negatives, causal contexts or walks,  *)
(* is what the history shows in the context that was asked for: draws       *)
(* return all of it when they return fewer than asked; negatives were       *)
(* available then and are no known edge; contexts are reached along chains  *)
(* that keep their direction in time; walks and their windows never cross a *)
(* restart; and the weights of an induced or partitioned sample count every *)
(* edge exactly once per draw (SamplerEngine).                              *)
SamplesFaithful == DrawsShown /\ NegativesClean /\ CausalContext /\ WalkSound /\ WeightsUnbiased
=============================================================================
