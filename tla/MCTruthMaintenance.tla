-------------------------- MODULE MCTruthMaintenance --------------------------
(* Two agents state p, one states n; q and r support each other, s needs    *)
(* both a conclusion and an absence; the rule for q has a second version.   *)
EXTENDS TruthMaintenance

Rule(rule, head, body, neg) == [rule |-> rule, head |-> head, body |-> body, neg |-> neg]
MCRuleVersions ==
    [q1 |-> Rule("q", "q", <<"p">>, {}), q2 |-> Rule("q", "q", <<"n">>, {}),
     r1 |-> Rule("r", "r", <<"q">>, {}), c1 |-> Rule("c", "q", <<"r">>, {}),
     s1 |-> Rule("s", "s", <<"p", "r">>, {"n"})]
MCIntervals == {0..2, 1..1}
MCBaseClaims == {<<"p", "a">>, <<"p", "b">>, <<"n", "a">>}
MCPrograms == {{"q1", "r1", "c1"}, {"q1", "r1", "s1"}}
=============================================================================
