--------------------------- MODULE MCTemporalCommit ---------------------------
(* The write path, and what it leaves to the claim sources, in parts that    *)
(* share no state; a behaviour follows one.                                  *)
(*   commits    Three version ids, two entities.                             *)
(*   extraction Claims stored under aliased names, one of them derived, and  *)
(*              the sources that read them beside writes, interrupted ones   *)
(*              included.                                                    *)
EXTENDS TemporalCommit, Extraction, TLC

CONSTANTS v1, v2, v3, x, y

VARIABLE part

MCBatches ==
    LET A(v, l) == [vid |-> v, lid |-> l, op |-> "assert", sup |-> None]
        C(v, l, s) == [vid |-> v, lid |-> l, op |-> "correct", sup |-> s]
        R(v, l) == [vid |-> v, lid |-> l, op |-> "retract", sup |-> None]
    IN {<<A(v1, x)>>, <<C(v2, x, v1)>>, <<A(v2, y), R(v3, y)>>, <<R(v3, x)>>}

(* Both kinds of backend with every index mode, a database whose writers    *)
(* always maintain, and one whose operator also rebuilds partially.         *)
MCDeployments ==
    LET D(t, m, p) == [transactional |-> t, modes |-> m, partial |-> p]
    IN {D(TRUE, {"maintain", "defer"}, FALSE), D(FALSE, {"maintain", "defer"}, FALSE),
        D(FALSE, {"maintain"}, FALSE), D(FALSE, {"maintain"}, TRUE)}

MCValidIntervals == {<<0, 2>>, <<1, Open>>}
(* p and q mean q, r means p; the rules' claim is derived until corrected.  *)
Told(predicate, agent, polarity, derived) ==
    [kind |-> "claim", subject |-> "x", predicate |-> predicate, object |-> "y", objectKind |-> "entity",
     polarity |-> polarity, agent |-> agent, source |-> NoSource, world |-> "v", derived |-> derived]
Extracted == {Told("p", "a", "positive", FALSE), Told("q", "rules", "positive", TRUE),
              Told("q", "rules", "positive", FALSE)}
MCAliases == ("p" :> "q") @@ ("r" :> "p")
Agents == {"a", "rules"}
Request(given, demand, subject, agents, maxScanned, maxRows) ==
    [given |-> given, demand |-> demand, subject |-> subject, object |-> "any", agents |-> agents,
     sources |-> {NoSource}, maxScanned |-> maxScanned, maxRows |-> maxRows]
MCRequests == {Request(FALSE, {}, "any", {"rules"}, 4, 2), Request(TRUE, {"q"}, "x", Agents, 2, 1),
               Request(TRUE, {"p"}, "any", Agents, 2, 2)}
MCPolicies == {[agents |-> Agents, sources |-> {NoSource}, derived |-> FALSE]}

(* Only the native sources promise anything on an index that lost rows; no   *)
(* other is opened on one.                                                   *)
Promised == (damage > 0 /\ pass'.state # "idle") => pass'.source \in {"native", "locator"}

MCInit ==
    /\ part \in {"commits", "extraction"}
    /\ Init /\ HistoryInit /\ ExtractionInit
    /\ part = "extraction" => dep.transactional
MCNext ==
    \/ part = "commits" /\ Next /\ UNCHANGED <<part, historyVars, extractionVars>>
    \/ part = "extraction" /\ ExtractionNext(Extracted) /\ Promised /\ UNCHANGED <<part, vars>>
MCSpec == MCInit /\ [][MCNext]_<<part, vars, historyVars, extractionVars>>

(* The write path alone, under the fairness of its specification.            *)
RecoveryInit == part = "commits" /\ MCInit
RecoverySpec ==
    /\ RecoveryInit
    /\ [][MCNext]_<<part, vars, historyVars, extractionVars>>
    /\ Fairness
=============================================================================
