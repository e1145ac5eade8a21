---------------------------- MODULE MCTemporalRead ----------------------------
(* Temporal reads, in parts that share no state; a behaviour follows one.    *)
(*   reads      The protocol of a read next to a writer: two commits of one  *)
(*              entity.                                                      *)
(*   nodes, edges, claims   What is selected: one entity, or two claims of   *)
(*              one statement; corrections move and retype the edge.         *)
(*   migration  Legacy edge records, and an edge a client versions too.      *)
(*   worlds     Two worlds, a proposition stated and denied in them with     *)
(*              different confidence, and accessibility between them.        *)
EXTENDS TemporalRead, Epistemic, TLC

CONSTANTS v1, v2, x

VARIABLE part

ReadBatches ==
    {<<[vid |-> v1, lid |-> x, op |-> "assert", sup |-> None]>>,
     <<[vid |-> v2, lid |-> x, op |-> "assert", sup |-> None]>>}

Ids == Permutations({v1, v2})

ReadDeployments == [transactional : BOOLEAN, modes : {{"maintain"}}, partial : {FALSE}]

MCValidIntervals == {<<0, 2>>, <<1, Open>>}
Node(val) == [kind |-> "node", id |-> "n", val |-> val]
Edge(id, source, target, type) ==
    [kind |-> "edge", id |-> id, source |-> source, target |-> target, type |-> type]
Claim(object, polarity, agent, source, world, confidence) ==
    [kind |-> "claim", subject |-> "x", predicate |-> "is", object |-> object, objectKind |-> "entity",
     polarity |-> polarity, agent |-> agent, source |-> source, world |-> world, confidence |-> confidence]
MCLegacyRecords ==
    {[start |-> 0, pay |-> Edge(1, "n", "m", "T")], [start |-> 1, pay |-> Edge(1, "m", "n", "T")],
     [start |-> 1, pay |-> Edge(1, "n", "m", "T")], [start |-> 1, pay |-> Edge(2, "n", "m", "T")]}
Payloads ==
    [nodes |-> {Node(1), Node(2)},
     edges |-> {Edge(1, "n", "m", "T"), Edge(1, "m", "m", "T"), Edge(1, "n", "m", "none")},
     claims |-> {Claim("y", "positive", "a", NoSource, "v", 1), Claim("y", "positive", "a", NoSource, "v", 2),
                 Claim("y", "negative", "a", "s", "v", 1)},
     migration |-> {Edge(1, "n", "m", "none")},
     worlds |-> {Claim("y", "positive", "a", NoSource, "v", 1), Claim("y", "negative", "a", NoSource, "w", 1),
                 Claim("y", "positive", "b", NoSource, "w", 2)}]
MCLinks == {<<"a", "v", "w", "modal">>, <<"a", "v", "v", "modal">>, <<"a", "w", "v", "modal">>,
            <<"a", "v", "w", "knowledge">>}
Atom == <<"atom", "", "x", "is", "y">>
Box(f) == <<"necessary", "a", f>>
Diamond(f) == <<"possible", "a", f>>
MCFormulas ==
    {<<"atom", "a", "x", "is", "y">>, Box(Atom), <<"believes", "a", Diamond(Atom)>>,
     <<"and", "", Box(Atom), Box(Box(Atom))>>, <<"or", "", Atom, <<"not", "", <<"knows", "a", Atom>>>>>>}
MCLimits == {<<2, 6>>, <<1, 3>>}

MCInit ==
    /\ part \in {"reads"} \cup DOMAIN Payloads
    /\ ReadInit /\ HistoryInit
    /\ part # "reads" => dep.transactional
MCNext ==
    \/ part = "reads" /\ ReadNext /\ UNCHANGED <<part, historyVars>>
    \/ part \in {"nodes", "edges", "claims"} /\ HistoryNext(Payloads[part]) /\ UNCHANGED <<part, allVars>>
    \/ part = "migration" /\ (MigrationNext \/ ((\A c \in DOMAIN hist : hist[c].migration) /\ HistoryNext(Payloads[part]))) /\ UNCHANGED <<part, allVars>>
    \/ part = "worlds" /\ EpistemicNext(Payloads[part]) /\ UNCHANGED <<part, allVars>>
MCSpec == MCInit /\ [][MCNext]_<<part, allVars, historyVars>>
=============================================================================
