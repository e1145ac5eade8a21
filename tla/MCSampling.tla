------------------------------ MODULE MCSampling ------------------------------
(***************************************************************************)
(* The sampling package for TLC: three parts that share no state, one per  *)
(* initial state.  "lifecycle" maintains a snapshot directory, "history"   *)
(* builds temporal snapshots from every short history, "engine" samples    *)
(* from one snapshot of a history that has corrections, a deletion, a loop *)
(* and an isolated node.                                                   *)
(***************************************************************************)
EXTENDS SamplerSnapshot, SamplerEngine

VARIABLE part

vars == <<part, snapVars, logVars, job>>

MCNodeKeys == <<"a", "b", "c">>
MCEdgeIds  == <<"e", "f">>
MCRelationKeys == <<"r", "s">>
MCLinks == {[src |-> "a", dst |-> "b", rel |-> "s"], [src |-> "c", dst |-> "a", rel |-> "r"],
            [src |-> "a", dst |-> "b", rel |-> NoRel]}

Edge(l, p, s, r, d, w, a, b) ==
  [lid |-> l, put |-> p, src |-> s, rel |-> r, dst |-> d, w |-> w, from |-> a, to |-> b]
Node(l, p, ty, a, b) == [lid |-> l, put |-> p, type |-> ty, from |-> a, to |-> b]

MCIntervals == {<<0, Open>>, <<1, 3>>, <<2, 4>>, <<0, 2>>}
MCEdgeVersions == {Edge(1, TRUE, 1, 1, d, 1, i[1], i[2]) : i \in MCIntervals, d \in {2, 3}}
                  \cup {Edge(1, FALSE, 1, 1, 2, 1, i[1], i[2]) : i \in MCIntervals}
                  \cup {Edge(2, TRUE, 3, r, 1, 0, 1, 3) : r \in {0, 2}}
MCNodeVersions == {Node(2, p, 2, i[1], i[2]) : p \in BOOLEAN, i \in MCIntervals}
MCFilters == {[rels |-> {1, 2}, types |-> {1, 2}]}

EngineEdges ==
  << Edge(1, TRUE, 2, 1, 3, 1, 0, Open), Edge(2, TRUE, 3, 1, 4, 0, 1, 4), Edge(3, TRUE, 4, 2, 2, 1, 2, Open),
     Edge(4, TRUE, 3, 2, 3, 1, 0, 3), Edge(1, TRUE, 2, 1, 4, 1, 3, 5), Edge(3, FALSE, 4, 2, 2, 1, 6, Open) >>
EngineNodes ==
  << Node(2, TRUE, 1, 0, Open), Node(3, TRUE, 1, 0, Open), Node(4, TRUE, 2, 1, Open), Node(3, FALSE, 1, 4, 6),
     Node(5, TRUE, 3, 0, Open) >>
EngineFilter == [rels |-> {1, 2}, types |-> {0, 1, 2, 3}]
MCTypeSets == {{1}, {3}, {0, 1, 2, 3}}

At(t) == [kind |-> "at", t |-> t]
Over(k, a, b) == [kind |-> k, from |-> a, to |-> b]

Draw(c, r, w, b) == [count |-> c, replace |-> r, weighted |-> w, balanced |-> b]
MCDraws == {Draw(0, FALSE, FALSE, FALSE), Draw(1, FALSE, TRUE, FALSE), Draw(2, TRUE, FALSE, FALSE),
            Draw(5, FALSE, FALSE, FALSE), Draw(3, FALSE, FALSE, TRUE)}
MCContexts == {NoContext, At(1), At(3), Over("overlap", 1, 4), Over("contained", 0, 5), Over("contained", 1, 4)}

Untimed == [order |-> "none", initial |-> NoTime]
Chrono(o, s, i, g) == [order |-> o, select |-> s, initial |-> i, gap |-> g]
Plain == [mode |-> "policy", dir |-> "any", rels |-> {1, 2}, ctx |-> NoContext, deadEnd |-> "terminate",
          restart |-> FALSE, nonBack |-> FALSE, avoid |-> 0, exhaust |-> "terminate", weighted |-> FALSE,
          types |-> {}, metapath |-> <<>>, barred |-> {}, arcs |-> {}, init |-> 0, chrono |-> Untimed]
Arc(f, t, d, r, s, e) == [from |-> f, to |-> t, dir |-> d, rel |-> r, src |-> s, dst |-> e]
MCPolicies ==
  {[Plain EXCEPT !.mode = "legacy", !.dir = "out", !.metapath = <<1, 2>>, !.restart = TRUE,
                 !.deadEnd = "restart", !.weighted = TRUE],
   [Plain EXCEPT !.mode = "node2vec", !.deadEnd = "restart", !.ctx = At(2)],
   [Plain EXCEPT !.nonBack = TRUE, !.avoid = 2, !.exhaust = "restart", !.metapath = <<1, 1, 2>>],
   [Plain EXCEPT !.avoid = 1, !.exhaust = "relax", !.types = {1}, !.barred = {2}],
   [Plain EXCEPT !.dir = "out", !.restart = TRUE,
                 !.arcs = {Arc(0, 1, "out", 1, {}, {}), Arc(1, 0, "any", 2, {2}, {}), Arc(1, 1, "in", 0, {}, {1})}],
   [Plain EXCEPT !.restart = TRUE, !.chrono = Chrono("nondecreasing", "interval", 2, NoTime)],
   [Plain EXCEPT !.deadEnd = "restart", !.ctx = Over("overlap", 1, 7),
                 !.chrono = Chrono("nonincreasing", "interval", 6, 2)],
   [Plain EXCEPT !.dir = "out", !.chrono = Chrono("nondecreasing", "valid_start", NoTime, NoTime)]}

Hard == [per |-> 2, source |-> "random", reject |-> TRUE, sameType |-> FALSE, relTypes |-> FALSE,
         heads |-> {TRUE, FALSE}, retries |-> 9, policy |-> "any_time", within |-> "overlap", window |-> 0,
         future |-> FALSE, repeat |-> FALSE, inBatch |-> FALSE, degree |-> FALSE]
Options(f, d, c, ca, cf, n, s) ==
  [fanouts |-> f, dir |-> d, ctx |-> c, causal |-> ca, cfg |-> cf, components |-> n, seeds |-> s]
MCFanouts ==
  {Options(<<1, 2>>, "any", NoContext, "none", NoConfig, 1, 1),
   Options(<<2, 1>>, "any", NoContext, "nondecreasing", NoConfig, 1, 1),
   Options(<<1, 1>>, "out", NoContext, "nonincreasing", NoConfig, 2, 1),
   Options(<<1>>, "any", NoContext, "none", Hard, 2, 1),
   Options(<<1>>, "any", At(3), "none",
           [Hard EXCEPT !.policy = "at_positive_time", !.source = "non_visited", !.inBatch = TRUE,
                        !.repeat = TRUE, !.per = 3], 1, 2),
   Options(<<>>, "any", Over("overlap", 1, 4), "none",
           [Hard EXCEPT !.policy = "window", !.window = 2, !.source = "context", !.degree = TRUE,
                        !.retries = 1, !.sameType = TRUE, !.heads = {TRUE}], 1, 1),
   Options(<<2>>, "any", NoContext, "none", [Hard EXCEPT !.future = TRUE, !.relTypes = TRUE, !.per = 1], 1, 1)}

Init ==
  /\ SnapInit /\ job = NoCall
  /\ \/ part \in {"lifecycle", "history"} /\ LogInit
     \/ /\ part = "engine" /\ elog = EngineEdges /\ nlog = EngineNodes
        /\ snap = BuildTemporal(EngineEdges, EngineNodes, EngineFilter)

Next ==
  \/ part = "lifecycle" /\ SnapNext /\ UNCHANGED <<part, logVars, job>>
  \/ part = "history" /\ (PublishEdge \/ PublishNode \/ Build) /\ UNCHANGED <<part, snapVars, job>>
  \/ part = "engine" /\ EngineNext /\ UNCHANGED <<part, snapVars>>

Spec == Init /\ [][Next]_vars
===============================================================================
