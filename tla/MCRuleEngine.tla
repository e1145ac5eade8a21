----------------------------- MODULE MCRuleEngine -----------------------------
(* A program over the rule engines, a closure over time, or an input to the *)
(* other reasoners: the three have no state in common, so a behaviour works *)
(* on one of them.                                                          *)
EXTENDS RuleEngine, TemporalClosure, Reasoners

MCVars == {"x", "y", "z"}
MCNames == <<"p", "q", "r", "s">>

p(a, b) == Atom(Rel("p"), <<a, b>>)
q(a, b) == Atom(Rel("q"), <<a, b>>)
r(a, b) == Atom(Rel("r"), <<a, b>>)
s(a) == Atom(Rel("s"), <<a>>)

Rule(id, body, negated, head) == [id |-> id, body |-> body, negated |-> negated, head |-> head]

(* A projection, a transitive closure, a chain through two predicates, a    *)
(* recursion through an inverse, and rules with absence atoms of which some *)
(* pairs are cyclic through negation.                                       *)
MCRules == {
    Rule("r1", <<q("x", "y")>>, <<>>, p("x", "y")),
    Rule("r2", <<p("x", "y"), p("y", "z")>>, <<>>, p("x", "z")),
    Rule("r3", <<q("x", "y"), r("y", "z")>>, <<>>, p("x", "z")),
    Rule("r4", <<q("x", "y")>>, <<>>, r("x", "y")),
    Rule("r5", <<p("x", "y")>>, <<>>, r("y", "x")),
    Rule("n1", <<q("x", "y")>>, <<p("y", "x")>>, s("x")),
    Rule("n2", <<q("x", "y")>>, <<s("x")>>, r("x", "y")),
    Rule("n3", <<q("x", "y")>>, <<r("x", "y")>>, p("y", "y")) }

MCFacts == {q("a", "b"), q("b", "a"), p("b", "a"), r("b", "b"), s("b")}
MCGoals == {p("a", "y"), p("x", "x"), r("x", "a")}
MCLimits == {[nodes |-> 3, edges |-> 9], [nodes |-> 9, edges |-> 3], [nodes |-> 20, edges |-> 40]}

MCPoints == 0..4
Row(f, spans) == [fact |-> f, valid |-> Normalize(spans)]
(* Overlapping rows of one fact, spans that touch, open ends, a gap.        *)
MCRowPool == {
    Row(q("a", "b"), {Span(0, 2)}), Row(q("a", "b"), {Span(1, Above)}),
    Row(q("b", "a"), {Span(Below, 1), Span(2, 3)}),
    Row(p("b", "a"), {Span(1, 2), Span(2, 3)}), Row(p("b", "a"), {Span(Below, Above)})}
Only(ids) == {rule \in MCRules : rule.id \in ids}
MCRangePrograms == {Only({"r1", "r2"}), Only({"r1", "n1"})}
MCRangeLimits == {[nodes |-> 3, edges |-> 9], [nodes |-> 20, edges |-> 40]}

SubAx(c, d) == [form |-> "sub", sub |-> c, sup |-> d]
AndAx(ms, d) == [form |-> "and", members |-> ms, sup |-> d]
SomeRight(c, d) == [form |-> "someRight", sub |-> c, role |-> "r", filler |-> d]
SomeLeft(d, c) == [form |-> "someLeft", role |-> "r", filler |-> d, sup |-> c]
MCConcepts == <<"A", "B", "C", "D">>
MCAxioms == {
    SubAx("A", "B"), SubAx("B", "C"), AndAx({"B", "C"}, "D"), AndAx({"C"}, "D"),
    SomeRight("A", "B"), SomeRight("C", "A"), SomeLeft("C", "D"), SomeLeft("D", "A")}

(* Entities 1 to 4, a class 5 and a literal 100.                            *)
Fact(pred, args) == [p |-> pred, args |-> args]
MCEqualityFacts == {
    Fact("type", <<1, 5>>), Fact("type", <<2, 5>>), Fact("has", <<1, 3>>),
    Fact("has", <<1, 4>>), Fact("has", <<2, 100>>), Fact("was", <<1, 100>>)}
MCLinks == {
    Link("same", 2, 1), Link("same", 2, 3), Link("same", 3, 4), Link("same", 1, 4),
    Link("different", 1, 3), Link("different", 4, 2), [kind |-> "functional", property |-> "has"]}
MCKind(v) == IF v < 100 THEN "entity" ELSE "number"
MCSuite == <<
    [kind |-> "required", class |-> 5, pred |-> "has"],
    [kind |-> "cardinality", class |-> 5, pred |-> "has", min |-> 0, max |-> 1],
    [kind |-> "datatype", class |-> 5, pred |-> "has", type |-> "number"],
    [kind |-> "exclusive", class |-> 5, preds |-> {"has", "was"}, min |-> 1]>>

VARIABLE part
MCInit ==
    /\ part \in {"rules", "range", "reasoners"}
    /\ Init /\ ReasonersInit
    /\ IF part = "range" THEN RangeInit ELSE program = {} /\ closure = NoClosure
MCNext ==
    /\ UNCHANGED part
    /\ \/ part = "rules" /\ Next /\ UNCHANGED <<rangeVars, reasonerVars>>
       \/ part = "range" /\ RangeNext /\ UNCHANGED <<vars, reasonerVars>>
       \/ part = "reasoners" /\ ReasonersNext /\ UNCHANGED <<vars, rangeVars>>
MCSpec == MCInit /\ [][MCNext]_<<part, vars, rangeVars, reasonerVars>>
=============================================================================
