------------------------------ MODULE MCClients ------------------------------
(***************************************************************************)
(* What the clients of a database run, in three parts that share no state: *)
(*   guard    two processes, one of them with two threads, enter and leave *)
(*            the writer guard;                                            *)
(*   feeder   a batch feeder with its producer, its owner and two          *)
(*            consumers;                                                   *)
(*   queries  a Cypher query on one of three graphs, under one of five     *)
(*            backends and option sets, and a client that issues DDL; the  *)
(*            queries meet every operator and clause once; the client may  *)
(*            rest between queries.                                        *)
(***************************************************************************)
EXTENDS WriterLock, BatchFeeder, Cypher

CONSTANTS p1, p2, t1, t2, t3, k1, k2, k3, c1, c2

VARIABLE part

MCHome == (t1 :> p1) @@ (t2 :> p1) @@ (t3 :> p2) @@ (k1 :> p1) @@ (k2 :> p1) @@ (k3 :> p2)

MCSubLabel == [A |-> {"B"}, B |-> {}]
MCSubType  == [K |-> {"L"}, L |-> {}]

N(v)         == [var |-> v, labels |-> {}, alts |-> {}, id |-> Unset, p |-> Unset]
NL(v, l)     == [N(v) EXCEPT !.labels = {l}]
NP(v, x)     == [N(v) EXCEPT !.p = x]
H(r, t, d, n) == [rel |-> r, types |-> t, dir |-> d, p |-> Unset, min |-> 1, max |-> 1, target |-> n]
Var(h, lo, hi) == [h EXCEPT !.min = lo, !.max = hi]
P(s, hs)     == [name |-> "", src |-> s, hops |-> hs]
Named(n, pt) == [pt EXCEPT !.name = n]
Pred(v, o, x) == [var |-> v, op |-> o, val |-> x]
And(ps)      == [kind |-> "AND", parts |-> ps]

NoSel == [mode |-> "none"]
Match(ps, w) == [op |-> "match", pats |-> ps, where |-> w, sel |-> NoSel]
Optional(ps) == [Match(ps, NoWhere) EXCEPT !.op = "optional"]
Item(v)      == [as |-> v, var |-> v, prop |-> FALSE, agg |-> "", distinct |-> FALSE]
PropOf(v, a) == [Item(v) EXCEPT !.as = a, !.prop = TRUE]
Agg(f, v, a) == [Item(v) EXCEPT !.as = a, !.agg = f]
Return(its)  == [op |-> "return", items |-> its, distinct |-> FALSE, where |-> NoWhere,
                 order |-> "", desc |-> FALSE, skip |-> 0, limit |-> Unset]
With(its)    == [Return(its) EXCEPT !.op = "with"]
SetP(v, x)   == [op |-> "set", items |-> <<[kind |-> "p", var |-> v, val |-> x]>>]
Label(v, l)  == [op |-> "set", items |-> <<[kind |-> "label", var |-> v, val |-> l]>>]
Drop(k, v, x) == [op |-> "remove", items |-> <<[kind |-> k, var |-> v, val |-> x]>>]
Delete(vs, d) == [op |-> "delete", vars |-> vs, detach |-> d]
Create(ps)   == [op |-> "create", pats |-> ps]
Merge(ps, c, m) == [op |-> "merge", pats |-> ps, onCreate |-> c, onMatch |-> m]
Foreach(v, l, body) == [op |-> "foreach", var |-> v, list |-> l, body |-> body]
Call(body)   == [op |-> "call", body |-> body]
Branch(all)  == [op |-> "branch", all |-> all]

MatchN == Match(<<P(N("n"), <<>>)>>, NoWhere)
K == {"K"}
Chain(d) == P(N("n"), <<H("r", K, d, N("m"))>>)
Star(d, lo, hi) == P(N("n"), <<Var(H("r", K, d, N("m")), lo, hi)>>)
Shortest(sel, pt) == [Match(<<pt>>, NoWhere) EXCEPT !.sel = sel]

ReadQueries == {
    <<Match(<<P([N("n") EXCEPT !.id = 2], <<>>), P(NL("m", "A"), <<>>)>>, NoWhere), Return(<<Item("n"), Item("m")>>)>>,
    <<Match(<<P(NP("n", 1), <<>>)>>, NoWhere),
      [With(<<PropOf("n", "x"), Agg("count(*)", "n", "c"), Agg("collect", "n", "l")>>) EXCEPT !.order = "x"],
      [Return(<<Item("c"), Item("x")>>) EXCEPT !.distinct = TRUE]>>,
    <<Match(<<P(NL("n", "A"), <<>>)>>, And(<<Pred("n", ">=", 1), Pred("n", "<", 2)>>)), Return(<<Item("n")>>)>>,
    <<Match(<<P([N("n") EXCEPT !.alts = {[req |-> {"A"}, exc |-> {"B"}], [req |-> {"B"}, exc |-> {}]}], <<>>)>>,
            [kind |-> "OR", parts |-> <<Pred("n", "=", 1), Pred("n", ">", 1)>>]), Return(<<Item("n")>>)>>,
    <<Match(<<Chain("out")>>, And(<<Pred("r", "=", 1)>>)), Optional(<<P(N("m"), <<H("s", {}, "in", NP("k", 2))>>)>>),
      [Return(<<PropOf("n", "x"), Item("k")>>) EXCEPT !.order = "x", !.desc = TRUE, !.skip = 1, !.limit = 1]>>,
    <<Match(<<P(N("n"), <<H("r", {}, "any", N("m")), H("", K, "in", NL("k", "B"))>>)>>, NoWhere),
      [Return(<<Item("n"), Agg("count", "r", "c"), Agg("sum", "k", "s")>>) EXCEPT !.items = <<@[1], @[2], [@[3] EXCEPT !.prop = TRUE]>>]>>,
    <<Match(<<Chain("any"), P(N("m"), <<H("", {}, "out", N("n"))>>)>>, NoWhere), Return(<<Item("r")>>)>>,
    <<Match(<<Chain("any")>>, And(<<Pred("r", "=", 2)>>)), Return(<<Item("n")>>)>>,
    <<Match(<<Star("any", 0, 2), P(N("m"), <<>>)>>, NoWhere), Return(<<Item("m")>>)>>,
    <<Match(<<Named("q", Star("out", 1, Unset))>>, NoWhere), Return(<<Item("q")>>)>>,
    <<Shortest([mode |-> "any", k |-> 1], Star("out", 1, 3)), Return(<<Item("n"), Item("m")>>)>>,
    <<Shortest([mode |-> "all", k |-> 0], P(NL("n", "A"), <<Var(H("r", {}, "any", NL("m", "A")), 0, Unset)>>)),
      Return(<<Item("n"), Item("m")>>)>>,
    <<[op |-> "unwind", items |-> <<1, 2>>, var |-> "x"], MatchN,
      Call(<<Match(<<P(N("n"), <<H("", {}, "out", N("m"))>>)>>, [kind |-> "NOT", parts |-> <<Pred("m", "=", 2)>>]), Return(<<Item("m")>>)>>),
      Return(<<Item("x"), Item("m")>>)>>,
    <<MatchN, [Return(<<PropOf("n", "x")>>) EXCEPT !.distinct = TRUE], Branch(TRUE),
      Match(<<P(NL("n", "A"), <<>>)>>, NoWhere), Return(<<PropOf("n", "x")>>), Branch(FALSE)>>,
    <<MatchN, Return(<<Item("m")>>)>> }

WriteQueries == {
    <<MatchN, SetP("n", 1), [Return(<<Item("n")>>) EXCEPT !.limit = 1]>>,
    <<Match(<<Chain("out")>>, NoWhere), SetP("r", 2), Return(<<Item("r")>>)>>,
    <<Match(<<P(NP("n", 1), <<>>)>>, NoWhere), Label("n", "B"), Return(<<Item("n")>>)>>,
    <<MatchN, Drop("-p", "n", Null), Return(<<Item("n")>>)>>,
    <<Match(<<P(NL("n", "A"), <<>>)>>, NoWhere), Drop("-label", "n", "A"), Return(<<Item("n")>>)>>,
    <<MatchN, Delete({"n"}, FALSE), Return(<<Agg("count(*)", "n", "c")>>)>>,
    <<Match(<<Chain("out")>>, NoWhere), Delete({"n", "r"}, TRUE), Return(<<Agg("count(*)", "n", "c")>>)>>,
    <<MatchN, Create(<<P(N("n"), <<H("r", K, "out", NL("m", "B"))>>)>>), Return(<<Item("m")>>)>>,
    <<Merge(<<P([NL("n", "A") EXCEPT !.p = 1], <<>>)>>, <<>>, <<[kind |-> "p", var |-> "n", val |-> 2]>>), Return(<<Item("n")>>)>>,
    <<Match(<<P(NP("n", 2), <<>>)>>, NoWhere), Foreach("x", <<1, 2>>, <<Create(<<P(N("n"), <<H("", K, "out", NP("", 1))>>)>>)>>), Return(<<Item("n")>>)>>,
    <<MatchN, Foreach("x", <<1>>, <<SetP("n", 2)>>), Match(<<P(N("n"), <<H("", {}, "out", N("m"))>>)>>, NoWhere),
      Return(<<Item("m")>>)>>,
    <<MatchN, Foreach("x", <<1, 2>>, <<Match(<<Chain("out")>>, NoWhere), SetP("m", 1), Delete({"r"}, FALSE)>>),
      Return(<<Item("n")>>)>>,
    <<MatchN, Create(<<P(NP("k", 1), <<>>)>>), Delete({"n"}, FALSE), Return(<<Item("k")>>)>>,
    <<Match(<<Chain("out")>>, NoWhere), Create(<<P(N("n"), <<H("r", K, "out", N("m"))>>)>>), Return(<<Item("m")>>)>> }

CallQuery == <<MatchN, Call(<<SetP("n", 1), Return(<<Item("n")>>)>>), [Return(<<Item("n")>>) EXCEPT !.limit = 1]>>
MCQueries == ReadQueries \cup WriteQueries \cup {CallQuery}

Nd(l, p) == [labels |-> l, p |-> p]
Ed(s, d, t, p) == [src |-> s, dst |-> d, type |-> t, p |-> p]
MCGraphs == {
    [nodes |-> (1 :> Nd({"A"}, 1) @@ 2 :> Nd({"B"}, 2)),
     edges |-> (11 :> Ed(1, 2, "K", 1) @@ 12 :> Ed(2, 1, "L", Null) @@ 13 :> Ed(2, 2, "K", 2))],
    [nodes |-> (1 :> Nd({"A", "B"}, 1) @@ 2 :> Nd({}, Null) @@ 3 :> Nd({"A"}, 1)),
     edges |-> (11 :> Ed(1, 3, "K", 2) @@ 12 :> Ed(3, 2, "K", 1) @@ 13 :> Ed(1, 2, "L", 1))],
    [nodes |-> (1 :> Nd({"A"}, Null) @@ 2 :> Nd({"A"}, 2)), edges |-> <<>>] }

Plain == [indexed |-> FALSE, hierarchy |-> FALSE, temporal |-> FALSE, current |-> <<>>,
          tx |-> FALSE, snap |-> FALSE, ddl |-> FALSE]
MCContexts == {Plain, [Plain EXCEPT !.indexed = TRUE, !.tx = TRUE, !.snap = TRUE],
               [Plain EXCEPT !.indexed = TRUE, !.hierarchy = TRUE, !.tx = TRUE, !.ddl = TRUE],
               [Plain EXCEPT !.ddl = TRUE],
               [Plain EXCEPT !.hierarchy = TRUE, !.temporal = TRUE, !.current = (1 :> Nd({"A"}, 1))]}
MCConstraints == {[label |-> "A", kind |-> "unique"], [label |-> "A", kind |-> "exists"]}

MCInit ==
    /\ part \in {"guard", "feeder", "queries"}
    /\ Init /\ FeedInit /\ CypherInit
    /\ part # "queries" => g = (CHOOSE graph \in Graphs : TRUE) /\ ctx = Plain

MCNext ==
    /\ UNCHANGED part
    /\ \/ part = "guard" /\ Next /\ UNCHANGED <<feedVars, cypherVars>>
       \/ part = "feeder" /\ FeedStep /\ UNCHANGED <<vars, cypherVars>>
       \/ part = "queries" /\ CypherNext /\ UNCHANGED <<vars, feedVars>>
       \/ part = "queries" /\ status # "running" /\ UNCHANGED <<vars, feedVars, cypherVars>>

MCSpec == MCInit /\ [][MCNext]_<<part, vars, feedVars, cypherVars>> /\ Fairness /\ FeedFairness
=============================================================================
