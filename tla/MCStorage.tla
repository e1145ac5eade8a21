------------------------------ MODULE MCStorage -------------------------------
(* Two processes create, open and use one database.                         *)
EXTENDS Storage

(* Components where one encodes to a prefix of another and one holds the    *)
(* separator; range values where one is a prefix of another.                *)
Ra(parts, range, id) == [kind |-> "range", parts |-> parts, range |-> range, id |-> id]
No(id, value) == [kind |-> "node", id |-> id, value |-> value]
MCRecords ==
    {Ra(<<<<5>>>>, <<6>>, <<2>>), Ra(<<<<5>>>>, <<6, 2>>, <<3>>), Ra(<<<<5, 4>>>>, <<6>>, <<2>>)} \cup
    {[kind |-> "index", parts |-> <<<<5>>>>, id |-> <<1, 3>>],
     [kind |-> "index", parts |-> <<<<5>>, <<3>>>>, id |-> <<1>>],
     No(<<2>>, "a"), No(<<2, 3>>, "a"), No(<<2, 3>>, "b"),
     [kind |-> "typed", source |-> <<2>>, target |-> <<2, 3>>, type |-> <<4>>, id |-> <<7>>],
     [kind |-> "typed", source |-> <<2, 3>>, target |-> <<2>>, type |-> <<4>>, id |-> <<7>>]}

MCPreloaded ==
    {{}} \cup {S \in SUBSET MCRecords :
        Cardinality(S) = 4 /\ \A r \in S, s \in S : r # s => KeysOf(r) \cap KeysOf(s) = {}}
Bounds == {<<>>, <<6>>, <<6, 2>>}
MCQueries ==
    {q \in [start : Bounds, end : Bounds, first : BOOLEAN, last : BOOLEAN, reverse : BOOLEAN, limit : {1, 9}] :
        (q.start = <<>> => q.first) /\ (q.end = <<>> => q.last) /\ (q.limit = 1 => q.first /\ q.last)}
MCNewId(p) == p


Written == {No(<<2, 3>>, "a")}

(* Handles come and go in a database nobody writes, a database that holds   *)
(* any of the records is written directly, or open handles run transactions *)
(* and views. Each step of a scenario is a DatabaseStep, and each initial   *)
(* state one that the database reaches.                                     *)
VARIABLE scenario
Settled ==
    /\ root = "p1" /\ storeId = "p1" /\ backendId = "p1" /\ idLock = Nobody
    /\ handle = [p \in Procs |-> IF backend = "lmdb" \/ p = "p1" THEN "open" ELSE "closed"]
    /\ known = [p \in Procs |-> IF handle[p] = "open" THEN "p1" ELSE NoId]

Init ==
    /\ InitStore
    /\ \/ scenario = "lifecycle" /\ InitLife /\ records = {}
       \/ scenario = "scans" /\ Settled
       \/ scenario = "transactions" /\ Settled /\ records = {}

Next ==
    /\ UNCHANGED scenario
    /\ \E p \in Procs :
        \/ scenario = "lifecycle" /\ LifeStep(p) /\ UNCHANGED storeVars
        \/ scenario # "scans" /\ Leave(p) /\ Dropped(p)
        \/ scenario = "transactions" /\ handle[p] = "open" /\ StoreStep(p, Written) /\ UNCHANGED lifeVars
        \/ /\ scenario = "scans" /\ handle[p] = "open"
           /\ \E r \in Records, put \in BOOLEAN : Write(p, r, put) /\ UNCHANGED lifeVars

vars == <<storeVars, lifeVars, scenario>>
Spec == Init /\ [][Next]_vars
=============================================================================
