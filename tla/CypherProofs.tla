---------------------------- MODULE CypherProofs ----------------------------
(***************************************************************************)
(* Theorems about Cypher, for every graph, catalog, query and number of    *)
(* rows: a write keeps every constraint of the catalog it was checked      *)
(* against, a failed transaction leaves nothing behind.                    *)
(***************************************************************************)
EXTENDS Cypher, TLAPS

---------------------------------------------------------------------------
(* One batch.                                                              *)

(* A constraint, said of the stored records.                               *)
Respects(nodes, c) ==
    IF c.kind = "exists"
    THEN \A i \in DOMAIN nodes : c.label \in nodes[i].labels => nodes[i].p # Null
    ELSE \A i, j \in DOMAIN nodes :
            c.label \in nodes[i].labels /\ c.label \in nodes[j].labels /\ i # j
                => Eq3(nodes[i].p, nodes[j].p) # TRUE

(* Whether a constraint holds depends on the nodes only.                    *)
LEMMA SatisfiesRespects ==
    ASSUME NEW graph, NEW c
    PROVE  Satisfies(graph, c) <=> Respects(graph.nodes, c)
<1> DEFINE S == {Node(graph, i) : i \in {j \in DOMAIN graph.nodes : c.label \in graph.nodes[j].labels}}
<1>1. \A i : Node(graph, i).id = i /\ Node(graph, i).p = graph.nodes[i].p
  BY DEF Node
<1>2. (\A v \in S : v.p # Null)
         <=> \A i \in DOMAIN graph.nodes : c.label \in graph.nodes[i].labels => graph.nodes[i].p # Null
  BY <1>1
<1>3. (\A v \in S, w \in S : v.id # w.id => Eq3(v.p, w.p) # TRUE)
         <=> \A i, j \in DOMAIN graph.nodes :
               c.label \in graph.nodes[i].labels /\ c.label \in graph.nodes[j].labels /\ i # j
                   => Eq3(graph.nodes[i].p, graph.nodes[j].p) # TRUE
  <2>1. ASSUME \A v \in S, w \in S : v.id # w.id => Eq3(v.p, w.p) # TRUE,
               NEW i \in DOMAIN graph.nodes, NEW j \in DOMAIN graph.nodes,
               c.label \in graph.nodes[i].labels, c.label \in graph.nodes[j].labels, i # j
        PROVE  Eq3(graph.nodes[i].p, graph.nodes[j].p) # TRUE
    <3>1. Node(graph, i) \in S /\ Node(graph, j) \in S
      BY <2>1
    <3>2. Node(graph, i).id # Node(graph, j).id
      BY <1>1, <2>1
    <3>3. Eq3(Node(graph, i).p, Node(graph, j).p) # TRUE
      BY <2>1, <3>1, <3>2
    <3> QED
      BY <1>1, <3>3
  <2>2. ASSUME \A i, j \in DOMAIN graph.nodes :
                  c.label \in graph.nodes[i].labels /\ c.label \in graph.nodes[j].labels /\ i # j
                      => Eq3(graph.nodes[i].p, graph.nodes[j].p) # TRUE,
               NEW v \in S, NEW w \in S, v.id # w.id
        PROVE  Eq3(v.p, w.p) # TRUE
    <3>1. PICK i \in DOMAIN graph.nodes : c.label \in graph.nodes[i].labels /\ v = Node(graph, i)
      OBVIOUS
    <3>2. PICK j \in DOMAIN graph.nodes : c.label \in graph.nodes[j].labels /\ w = Node(graph, j)
      OBVIOUS
    <3>3. i # j /\ v.p = graph.nodes[i].p /\ w.p = graph.nodes[j].p
      BY <1>1, <2>2, <3>1, <3>2
    <3> QED
      BY <2>2, <3>1, <3>2, <3>3
  <2> QED
    BY <2>1, <2>2
<1> QED
  BY <1>2, <1>3 DEF Satisfies, Respects

(* Comparison in three-valued logic is symmetric.                           *)
LEMMA Eq3Symmetric == ASSUME NEW x, NEW y PROVE Eq3(x, y) = Eq3(y, x)
BY DEF Eq3

(* What the store holds after a batch: the staged copy of a node, or the   *)
(* record of a node that the batch does not write.                         *)
WrittenOver(old, S, new) ==
    \A i \in DOMAIN new :
        \/ \E v \in S : v.id = i /\ new[i].labels = v.labels /\ new[i].p = v.p
        \/ i \in DOMAIN old /\ new[i] = old[i]

(* A batch that is put leaves its staged records and, of the old nodes,     *)
(* those it does not overwrite.                                             *)
LEMMA PutWrites ==
    ASSUME NEW graph, NEW batch
    PROVE  WrittenOver(graph.nodes, Staged(batch.nodes), PutAndDelete(graph, batch).nodes)
<1> DEFINE S == Staged(batch.nodes)
           put == [i \in {v.id : v \in S} |->
                     [labels |-> (CHOOSE v \in S : v.id = i).labels, p |-> (CHOOSE v \in S : v.id = i).p]]
           all == Over(put, graph.nodes)
<1>1. PutAndDelete(graph, batch).nodes = [i \in DOMAIN all \ batch.delN |-> all[i]]
  BY DEF PutAndDelete, Without, ById
<1>2. ASSUME NEW i \in DOMAIN put
      PROVE  \E v \in S : v.id = i /\ put[i].labels = v.labels /\ put[i].p = v.p
  <2>1. \E v \in S : v.id = i
    OBVIOUS
  <2>2. PICK v : v = CHOOSE w \in S : w.id = i
    OBVIOUS
  <2>3. v \in S /\ v.id = i
    BY <2>1, <2>2
  <2>4. put[i].labels = v.labels /\ put[i].p = v.p
    BY <2>2
  <2> QED
    BY <2>3, <2>4
<1>3. DOMAIN all = DOMAIN put \cup DOMAIN graph.nodes
  BY DEF Over
<1>4. ASSUME NEW i \in DOMAIN all
      PROVE  all[i] = IF i \in DOMAIN put THEN put[i] ELSE graph.nodes[i]
  BY DEF Over
<1> HIDE DEF S, put, all
<1>5. ASSUME NEW i \in DOMAIN all \ batch.delN
      PROVE  \/ \E v \in S : v.id = i /\ all[i].labels = v.labels /\ all[i].p = v.p
             \/ i \in DOMAIN graph.nodes /\ all[i] = graph.nodes[i]
  BY <1>2, <1>3, <1>4
<1> QED
  BY <1>1, <1>5 DEF WrittenOver, S

(* The batch is checked against every constraint of the catalog, whatever  *)
(* it holds: a constraint that held of the stored nodes holds afterwards.  *)
LEMMA BatchKeeps ==
    ASSUME NEW graph, NEW catalog, NEW batch, NEW c \in catalog,
           BatchAllowed(graph, catalog, batch), Satisfies(graph, c)
    PROVE  Satisfies(PutAndDelete(graph, batch), c)
<1>1. PICK old : old = graph.nodes
  OBVIOUS
<1>2. PICK new : new = PutAndDelete(graph, batch).nodes
  OBVIOUS
<1>3. PICK S : S = Staged(batch.nodes)
  OBVIOUS
<1>4. WrittenOver(old, S, new)
  BY <1>1, <1>2, <1>3, PutWrites
<1>5. Respects(old, c)
  BY <1>1, SatisfiesRespects
<1>6. ASSUME NEW v \in S, c.label \in v.labels
      PROVE  IF c.kind = "exists" THEN v.p # Null
             ELSE /\ \A w \in S \ {v} : ~Clash(c, v, w)
                  /\ \A i \in DOMAIN old \ {v.id} : ~Clash(c, v, Node(graph, i))
  BY <1>1, <1>3, <1>6 DEF BatchAllowed, NodeAllowed
<1>7. \A i : Node(graph, i).labels = old[i].labels /\ Node(graph, i).p = old[i].p
  BY <1>1 DEF Node
<1>8. CASE c.kind = "exists"
  <2>1. ASSUME NEW i \in DOMAIN new, c.label \in new[i].labels PROVE new[i].p # Null
    BY <1>4, <1>5, <1>6, <1>8, <2>1 DEF WrittenOver, Respects
  <2> QED
    BY <1>2, <1>8, <2>1, SatisfiesRespects DEF Respects
<1>9. CASE c.kind # "exists"
  <2>1. ASSUME NEW v \in S, NEW w \in S, v.id # w.id,
               c.label \in v.labels, c.label \in w.labels
        PROVE  Eq3(v.p, w.p) # TRUE
    <3>1. ~Clash(c, v, w)
      BY <1>6, <1>9, <2>1
    <3> QED
      BY <2>1, <3>1 DEF Clash
  <2>2. ASSUME NEW v \in S, NEW i \in DOMAIN old, v.id # i,
               c.label \in v.labels, c.label \in old[i].labels
        PROVE  Eq3(v.p, old[i].p) # TRUE
    <3>1. ~Clash(c, v, Node(graph, i))
      BY <1>6, <1>9, <2>2
    <3> QED
      BY <1>7, <2>2, <3>1 DEF Clash
  <2>3. ASSUME NEW i \in DOMAIN new, NEW j \in DOMAIN new, i # j,
               c.label \in new[i].labels, c.label \in new[j].labels
        PROVE  Eq3(new[i].p, new[j].p) # TRUE
    <3>1. \/ \E v \in S : v.id = i /\ new[i].labels = v.labels /\ new[i].p = v.p
          \/ i \in DOMAIN old /\ new[i] = old[i]
      BY <1>4 DEF WrittenOver
    <3>2. \/ \E v \in S : v.id = j /\ new[j].labels = v.labels /\ new[j].p = v.p
          \/ j \in DOMAIN old /\ new[j] = old[j]
      BY <1>4 DEF WrittenOver
    <3>3. ASSUME NEW v \in S, v.id = i, new[i].labels = v.labels, new[i].p = v.p,
                 NEW w \in S, w.id = j, new[j].labels = w.labels, new[j].p = w.p
          PROVE  Eq3(new[i].p, new[j].p) # TRUE
      BY <2>1, <2>3, <3>3
    <3>4. ASSUME NEW v \in S, v.id = i, new[i].labels = v.labels, new[i].p = v.p,
                 j \in DOMAIN old, new[j] = old[j]
          PROVE  Eq3(new[i].p, new[j].p) # TRUE
      BY <2>2, <2>3, <3>4
    <3>5. ASSUME NEW w \in S, w.id = j, new[j].labels = w.labels, new[j].p = w.p,
                 i \in DOMAIN old, new[i] = old[i]
          PROVE  Eq3(new[i].p, new[j].p) # TRUE
      <4>1. Eq3(new[j].p, new[i].p) # TRUE
        BY <2>2, <2>3, <3>5
      <4> QED
        BY <4>1, Eq3Symmetric
    <3>6. ASSUME i \in DOMAIN old, new[i] = old[i], j \in DOMAIN old, new[j] = old[j]
          PROVE  Eq3(new[i].p, new[j].p) # TRUE
      BY <1>5, <1>9, <2>3, <3>6 DEF Respects
    <3> QED
      BY <3>1, <3>2, <3>3, <3>4, <3>5, <3>6
  <2> QED
    BY <1>2, <1>9, <2>3, SatisfiesRespects DEF Respects
<1> QED
  BY <1>8, <1>9

(* A batch is checked against the catalog before it is put                  *)
(* (_put_node_batch).                                                       *)
LEMMA ApplyKeeps ==
    ASSUME NEW graph, NEW catalog, NEW batch, NEW b, NEW c \in catalog, Satisfies(graph, c)
    PROVE  Satisfies(ApplyBatch(graph, catalog, batch, b).g, c)
BY BatchKeeps DEF ApplyBatch, Raise

---------------------------------------------------------------------------
(* One row.  A fold over matches, rows or operators keeps a constraint     *)
(* because each of its steps does.                                         *)

MergeDo(st, m, catalog, c, none) == MergeStep(st, m, catalog, c)
MergeGood(st, n, k) == Satisfies(st.res.g, k)
Merging == INSTANCE Folding WITH Do <- MergeDo, Good <- MergeGood

RowGood(res, n, k) == Satisfies(res.g, k)
BodyDo(res, r, catalog, c, none) == BodyStep(res, r, catalog, c)
Writing == INSTANCE Folding WITH Do <- BodyDo, Good <- RowGood
StagedDo(res, o, catalog, none1, none2) == StagedOp(res, o, catalog)
Staging == INSTANCE Folding WITH Do <- StagedDo, Good <- RowGood
ForeachDo(st, x, catalog, c, b) == ForeachStep(st, x, catalog, c, b)
Looping == INSTANCE Folding WITH Do <- ForeachDo, Good <- RowGood

(* A row of CREATE writes one batch.                                        *)
LEMMA CreateKeeps ==
    ASSUME NEW graph, NEW catalog, NEW b, NEW c, NEW k \in catalog, Satisfies(graph, k)
    PROVE  Satisfies(CreateRow(graph, catalog, b, c).g, k)
BY ApplyKeeps DEF CreateRow, ApplyCreated, Raise

(* A row of SET and REMOVE writes one batch.                                *)
LEMMA SetKeeps ==
    ASSUME NEW graph, NEW catalog, NEW b, NEW items, NEW k \in catalog, Satisfies(graph, k)
    PROVE  Satisfies(SetRow(graph, catalog, b, items).g, k)
BY ApplyKeeps DEF SetRow, ApplyStaged

(* A row of DELETE removes records and adds none.                           *)
LEMMA DeleteKeeps ==
    ASSUME NEW graph, NEW catalog, NEW b, NEW c, NEW k \in catalog, Satisfies(graph, k)
    PROVE  Satisfies(DeleteRow(graph, catalog, b, c).g, k)
BY ApplyKeeps DEF DeleteRow, DeleteIds, Raise

(* One match of a MERGE writes one batch, or none.                          *)
LEMMA MatchedKeeps ==
    ASSUME NEW st, NEW m, NEW catalog, NEW c, NEW k \in catalog, Satisfies(st.res.g, k)
    PROVE  Satisfies(MergeStep(st, m, catalog, c).res.g, k)
BY ApplyKeeps DEF MergeStep, Matched, ApplyStaged

(* A row of MERGE goes through its matches, or creates.                     *)
LEMMA MergeKeeps ==
    ASSUME NEW graph, NEW catalog, NEW b, NEW c, NEW k \in catalog, Satisfies(graph, k)
    PROVE  Satisfies(MergeRow(graph, catalog, b, c).g, k)
<1>1. PICK found : found = MergeFound(graph, b, c)
  OBVIOUS
<1>2. PICK base : base = [batch |-> NoBatch, res |-> [ok |-> TRUE, g |-> graph, out |-> <<>>]]
  OBVIOUS
<1>3. PICK last : last = Merging!Run(base, found, catalog, c, "")
  OBVIOUS
<1>4. last = Fold(LAMBDA st, m : MergeStep(st, m, catalog, c), base, found)
  BY <1>3 DEF Fold, Merging!Run, MergeDo
<1>5. Satisfies(last.res.g, k)
  <2>1. MergeGood(base, 0, k)
    BY <1>2 DEF MergeGood
  <2>2. \A x : \A n \in 1..Len(found) :
          MergeGood(x, n - 1, k) => MergeGood(MergeDo(x, found[n], catalog, c, ""), n, k)
    BY MatchedKeeps DEF MergeGood, MergeDo
  <2>3. MergeGood(Merging!Run(base, found, catalog, c, ""), IF Len(found) \in Nat THEN Len(found) ELSE 0, k)
    BY <2>1, <2>2, Merging!Runs
  <2> QED
    BY <1>3, <2>3 DEF MergeGood
<1>6. MergeRow(graph, catalog, b, c).g =
        IF found # <<>> THEN last.res.g
        ELSE IF CreatePatterns(b, NoBatch, c.pats, graph).ok
             THEN ApplyStaged(graph, catalog,
                              ApplyItems(CreatePatterns(b, NoBatch, c.pats, graph).b,
                                         CreatePatterns(b, NoBatch, c.pats, graph).batch, c.onCreate)).g
             ELSE graph
  BY <1>1, <1>2, <1>4 DEF MergeRow, MergeInto, Raise
<1> QED
  BY <1>5, <1>6, ApplyKeeps DEF ApplyStaged

(* Every plain clause keeps the constraints, row by row.                    *)
LEMMA PlainKeeps ==
    ASSUME NEW graph, NEW catalog, NEW b, NEW c, c.op \in PlainWrites, NEW k \in catalog, Satisfies(graph, k)
    PROVE  Satisfies(PlainRow(graph, catalog, b, c).g, k)
<1>1. c.op \in {"create", "merge", "set", "remove", "delete"}
  BY DEF PlainWrites, Mutating
<1>2. CASE c.op = "create"
  BY <1>2, CreateKeeps DEF PlainRow
<1>3. CASE c.op = "merge"
  BY <1>3, MergeKeeps DEF PlainRow
<1>4. CASE c.op \in {"set", "remove"}
  BY <1>4, SetKeeps DEF PlainRow
<1>5. CASE c.op = "delete"
  BY <1>5, DeleteKeeps DEF PlainRow
<1> QED
  BY <1>1, <1>2, <1>3, <1>4, <1>5

(* A mutating operator of a body, over all its rows.                       *)
LEMMA BodyKeeps ==
    ASSUME NEW res, NEW c, c.op \in PlainWrites, NEW catalog, NEW k \in catalog, Satisfies(res.g, k)
    PROVE  Satisfies(BodyRun(res, c, catalog).g, k)
<1>1. PICK base : base = [res EXCEPT !.out = <<>>]
  OBVIOUS
<1>2. BodyRun(res, c, catalog) = Writing!Run(base, res.out, catalog, c, "")
  BY <1>1 DEF BodyRun, Fold, Writing!Run, BodyDo
<1>3. RowGood(base, 0, k)
  BY <1>1 DEF RowGood
<1>4. \A x : \A n \in 1..Len(res.out) :
        RowGood(x, n - 1, k) => RowGood(BodyDo(x, res.out[n], catalog, c, ""), n, k)
  BY PlainKeeps DEF RowGood, BodyDo, BodyStep, Then
<1>5. RowGood(Writing!Run(base, res.out, catalog, c, ""),
              IF Len(res.out) \in Nat THEN Len(res.out) ELSE 0, k)
  BY <1>3, <1>4, Writing!Runs
<1> QED
  BY <1>2, <1>5 DEF RowGood

(* One operator of a staged plan keeps the constraints.                     *)
LEMMA StagedKeeps ==
    ASSUME NEW res, NEW o, NEW catalog, NEW k \in catalog, Satisfies(res.g, k)
    PROVE  Satisfies(StagedOp(res, o, catalog).g, k)
BY BodyKeeps DEF StagedOp

(* A staged plan is a fold over its operators.                              *)
LEMMA StagedRunKeeps ==
    ASSUME NEW graph, NEW catalog, NEW b, NEW body, NEW k \in catalog, Satisfies(graph, k)
    PROVE  Satisfies(StagedRun(graph, catalog, b, body).g, k)
<1>1. PICK base : base = [ok |-> TRUE, g |-> graph, out |-> <<Fresh(b)>>]
  OBVIOUS
<1>2. PICK plan : plan = PlanStaged(body)
  OBVIOUS
<1>3. StagedRun(graph, catalog, b, body) = Staging!Run(base, plan, catalog, "", "")
  BY <1>1, <1>2 DEF StagedRun, Fold, Staging!Run, StagedDo
<1>4. RowGood(base, 0, k)
  BY <1>1 DEF RowGood
<1>5. \A x : \A n \in 1..Len(plan) :
        RowGood(x, n - 1, k) => RowGood(StagedDo(x, plan[n], catalog, "", ""), n, k)
  BY StagedKeeps DEF RowGood, StagedDo
<1>6. RowGood(Staging!Run(base, plan, catalog, "", ""), IF Len(plan) \in Nat THEN Len(plan) ELSE 0, k)
  BY <1>4, <1>5, Staging!Runs
<1> QED
  BY <1>3, <1>6 DEF RowGood

(* A row of FOREACH is a fold of staged plans over a list.                  *)
LEMMA ForeachKeeps ==
    ASSUME NEW graph, NEW catalog, NEW b, NEW c, NEW k \in catalog, Satisfies(graph, k)
    PROVE  Satisfies(ForeachRow(graph, catalog, b, c).g, k)
<1>1. PICK base : base = [ok |-> TRUE, g |-> graph, out |-> <<>>]
  OBVIOUS
<1>2. PICK last : last = Looping!Run(base, c.list, catalog, c, b)
  OBVIOUS
<1>3. ForeachRow(graph, catalog, b, c) = ForeachEnd(last, b)
  BY <1>1, <1>2 DEF ForeachRow, Fold, Looping!Run, ForeachDo
<1>4. RowGood(base, 0, k)
  BY <1>1 DEF RowGood
<1>5. \A x : \A n \in 1..Len(c.list) :
        RowGood(x, n - 1, k) => RowGood(ForeachDo(x, c.list[n], catalog, c, b), n, k)
  BY StagedRunKeeps DEF RowGood, ForeachDo, ForeachStep
<1>6. RowGood(Looping!Run(base, c.list, catalog, c, b), IF Len(c.list) \in Nat THEN Len(c.list) ELSE 0, k)
  BY <1>4, <1>5, Looping!Runs
<1> QED
  BY <1>2, <1>3, <1>6 DEF RowGood, ForeachEnd

(* Every clause that mutates keeps the constraints.                         *)
LEMMA WriteKeeps ==
    ASSUME NEW graph, NEW catalog, NEW b, NEW c, c.op \in Mutating, NEW k \in catalog, Satisfies(graph, k)
    PROVE  Satisfies(WriteRow(graph, catalog, b, c).g, k)
BY ForeachKeeps, PlainKeeps DEF WriteRow, PlainWrites

(* A row of CALL is a staged plan with what it imports.                     *)
LEMMA CallKeeps ==
    ASSUME NEW graph, NEW catalog, NEW b, NEW c, NEW k \in catalog, Satisfies(graph, k)
    PROVE  Satisfies(CallRow(graph, catalog, b, c).g, k)
BY StagedRunKeeps DEF CallRow, Merged

---------------------------------------------------------------------------
(* Planning: a mutating clause of the query is an operator of its plan.    *)

IsSeq(s) == \E S : s \in Seq(S)
Includes(s, part) == \A i \in DOMAIN part : \E j \in DOMAIN s : s[j] = part[i]

(* A concatenation of sequences has the elements of both.                   *)
LEMMA Concatenated ==
    ASSUME NEW s, IsSeq(s), NEW t, IsSeq(t)
    PROVE  IsSeq(s \o t) /\ Includes(s \o t, s) /\ Includes(s \o t, t)
<1>1. PICK S : s \in Seq(S)
  BY DEF IsSeq
<1>2. PICK T : t \in Seq(T)
  BY DEF IsSeq
<1>3. s \in Seq(S \cup T) /\ t \in Seq(S \cup T)
  BY <1>1, <1>2
<1>4. s \o t \in Seq(S \cup T)
  BY <1>3
<1>5. /\ Len(s) \in Nat /\ Len(t) \in Nat /\ Len(s \o t) = Len(s) + Len(t)
      /\ DOMAIN s = 1..Len(s) /\ DOMAIN t = 1..Len(t) /\ DOMAIN (s \o t) = 1..(Len(s) + Len(t))
  BY <1>3, <1>4
<1>6. ASSUME NEW i \in DOMAIN s PROVE \E j \in DOMAIN (s \o t) : (s \o t)[j] = s[i]
  <2>1. i \in DOMAIN (s \o t) /\ (s \o t)[i] = s[i]
    BY <1>3, <1>5
  <2> QED
    BY <2>1
<1>7. ASSUME NEW i \in DOMAIN t PROVE \E j \in DOMAIN (s \o t) : (s \o t)[j] = t[i]
  <2>1. Len(s) + i \in DOMAIN (s \o t) /\ (s \o t)[Len(s) + i] = t[i]
    BY <1>3, <1>5
  <2> QED
    BY <2>1
<1> QED
  BY <1>4, <1>6, <1>7 DEF IsSeq, Includes

(* A conditional operator is a sequence of at most one.                     *)
LEMMA WhenSeq == ASSUME NEW cond, NEW x PROVE IsSeq(When(cond, <<x>>))
<1>1. <<>> \in Seq({x}) /\ <<x>> \in Seq({x})
  OBVIOUS
<1> QED
  BY <1>1 DEF When, IsSeq

(* A clause is planned as a sequence of operators, and one that mutates as  *)
(* itself.                                                                  *)
LEMMA ClausePlan ==
    ASSUME NEW c
    PROVE  IsSeq(PlanClause(c)) /\ (c.op \in Mutating => PlanClause(c) = <<c>>)
<1>1. \A x : IsSeq(<<x>>)
  <2>1. \A x : <<x>> \in Seq({x})
    OBVIOUS
  <2> QED
    BY <2>1 DEF IsSeq
<1>2. \A s, t : IsSeq(s) /\ IsSeq(t) => IsSeq(s \o t)
  BY Concatenated
<1>3. c.op \in Mutating => c.op \notin {"match", "optional", "with", "return"}
  BY DEF Mutating
<1>4. CASE c.op \in {"match", "optional"}
  <2>1. PlanClause(c) = <<c>> \o When(c.where.parts # <<>>, <<[op |-> "filter", where |-> c.where]>>)
    BY <1>4 DEF PlanClause
  <2> QED
    BY <1>1, <1>2, <1>3, <1>4, <2>1, WhenSeq
<1>5. CASE c.op \in {"with", "return"}
  <2>1. PICK p1 : p1 = <<[op |-> IF HasAggregate(c) THEN "aggregate" ELSE "project", items |-> c.items]>>
    OBVIOUS
  <2>2. PICK p2 : p2 = When(c.distinct, <<[op |-> "distinct"]>>)
    OBVIOUS
  <2>3. PICK p3 : p3 = When(c.where.parts # <<>>, <<[op |-> "filter", where |-> c.where]>>)
    OBVIOUS
  <2>4. PICK p4 : p4 = When(c.order # "", <<[op |-> "sort", by |-> c.order, desc |-> c.desc]>>)
    OBVIOUS
  <2>5. PICK p5 : p5 = When(c.skip # 0, <<[op |-> "skip", n |-> c.skip]>>)
    OBVIOUS
  <2>6. PICK p6 : p6 = When(c.limit # Unset, <<[op |-> "limit", n |-> c.limit]>>)
    OBVIOUS
  <2>7. PlanClause(c) = p1 \o p2 \o p3 \o p4 \o p5 \o p6
    BY <1>5, <2>1, <2>2, <2>3, <2>4, <2>5, <2>6 DEF PlanClause
  <2>8. IsSeq(p1) /\ IsSeq(p2) /\ IsSeq(p3) /\ IsSeq(p4) /\ IsSeq(p5) /\ IsSeq(p6)
    BY <1>1, <2>1, <2>2, <2>3, <2>4, <2>5, <2>6, WhenSeq
  <2>9. IsSeq(p1 \o p2 \o p3 \o p4 \o p5 \o p6)
    BY <1>2, <2>8
  <2> QED
    BY <1>3, <1>5, <2>7, <2>9
<1>6. CASE c.op \notin {"match", "optional", "with", "return"}
  <2>1. PlanClause(c) = <<c>>
    BY <1>6 DEF PlanClause
  <2> QED
    BY <1>1, <2>1
<1> QED
  BY <1>4, <1>5, <1>6

PlanDo(plan, c, none1, none2, none3) == PlanStep(plan, c)
PlanGood(plan, n, q) == IsSeq(plan) /\ ((\E i \in 1..n : q[i].op \in Mutating) => PlanHasWrites(plan))
Planning == INSTANCE Folding WITH Do <- PlanDo, Good <- PlanGood

(* A query with a mutating clause is planned as one that writes (planner).  *)
LEMMA WritesPlanned ==
    ASSUME NEW q, Len(q) \in Nat, DOMAIN q = 1..Len(q), \E i \in DOMAIN q : q[i].op \in Mutating
    PROVE  PlanHasWrites(PlanStaged(q))
<1>1. PlanStaged(q) = Planning!Run(<<>>, q, "", "", "")
  BY DEF PlanStaged, Fold, Planning!Run, PlanDo
<1>2. PlanGood(<<>>, 0, q)
  <2>1. <<>> \in Seq({})
    OBVIOUS
  <2> QED
    BY <2>1 DEF PlanGood, IsSeq
<1>3. ASSUME NEW x, NEW n \in 1..Len(q), PlanGood(x, n - 1, q)
      PROVE  PlanGood(PlanDo(x, q[n], "", "", ""), n, q)
  <2>1. IsSeq(x) /\ IsSeq(PlanClause(q[n]))
    BY <1>3, ClausePlan DEF PlanGood
  <2>2. PICK new : new = x \o PlanClause(q[n])
    OBVIOUS
  <2>3. IsSeq(new) /\ Includes(new, x) /\ Includes(new, PlanClause(q[n]))
    BY <2>1, <2>2, Concatenated
  <2>4. ASSUME NEW i \in 1..n, q[i].op \in Mutating PROVE PlanHasWrites(new)
    <3>1. CASE i = n
      <4>1. PlanClause(q[n]) = <<q[n]>>
        BY <2>4, <3>1, ClausePlan
      <4>2. 1 \in DOMAIN PlanClause(q[n]) /\ PlanClause(q[n])[1] = q[n]
        BY <4>1
      <4>3. PICK j \in DOMAIN new : new[j] = q[n]
        BY <2>3, <4>2 DEF Includes
      <4> QED
        BY <2>4, <3>1, <4>3 DEF PlanHasWrites
    <3>2. CASE i # n
      <4>1. i \in 1..(n - 1)
        BY <3>2
      <4>2. PlanHasWrites(x)
        BY <1>3, <2>4, <4>1 DEF PlanGood
      <4> QED
        BY <2>3, <4>2 DEF PlanHasWrites, Includes
    <3> QED
      BY <3>1, <3>2
  <2> QED
    BY <2>2, <2>3, <2>4 DEF PlanGood, PlanDo, PlanStep
<1>4. PlanGood(Planning!Run(<<>>, q, "", "", ""), IF Len(q) \in Nat THEN Len(q) ELSE 0, q)
  BY <1>2, <1>3, Planning!Runs
<1> QED
  BY <1>1, <1>4 DEF PlanGood

---------------------------------------------------------------------------
(* The inductive invariant.                                                *)

(* A transaction's catalog is the stored one, and the graph that it goes   *)
(* back to is as good as the present one; the graph that a constraint was  *)
(* validated on satisfies it.                                              *)
KeptInv ==
    /\ ConstraintsHold
    /\ status = "running" /\ Transactional =>
          known = cons /\ \A c \in cons \ raced : Satisfies(start, c)
    /\ ddl # <<>> => Satisfies(ddl[1].seen, ddl[1].c)
AtomicInv ==
    /\ query \in Queries \cup {<<>>}
    /\ status = "failed" /\ Transactional => g = start

(* Transactional is a state predicate of the backend and the query.        *)
LEMMA TransactionalKept == ctx' = ctx /\ query' = query => Transactional' = Transactional
BY DEF Transactional

(* One row of a mutating operator or of a subquery call.                   *)
LEMMA RowKept ==
    ASSUME KeptInv, AtomicInv, status = "running", NEW res, NEW rest, RowStep(res, rest),
           \A k \in Catalog : Satisfies(g, k) => Satisfies(res.g, k)
    PROVE  KeptInv' /\ AtomicInv'
<1>1. /\ cons' = cons /\ raced' = raced /\ ddl' = ddl /\ start' = start /\ known' = known
      /\ ctx' = ctx /\ query' = query
  BY DEF RowStep, client
<1>2. Transactional' = Transactional
  BY <1>1, TransactionalKept
<1>3. \A k \in cons \ raced : k \in Catalog
  BY DEF KeptInv, Catalog
<1>4. \A k \in cons \ raced : Satisfies(res.g, k)
  BY <1>3 DEF KeptInv, ConstraintsHold
<1>5. g' = res.g \/ (Transactional /\ g' = start)
  BY DEF RowStep
<1>6. status' = "running" \/ (status' = "failed" /\ (Transactional => g' = start))
  BY DEF RowStep
<1>7. \A k \in cons \ raced : Satisfies(g', k)
  BY <1>4, <1>5 DEF KeptInv
<1>8. KeptInv'
  BY <1>1, <1>2, <1>7 DEF KeptInv, ConstraintsHold
<1>9. AtomicInv'
  BY <1>1, <1>2, <1>6 DEF AtomicInv
<1> QED
  BY <1>8, <1>9

(* Every step keeps both halves of the invariant.                           *)
LEMMA InvStep == KeptInv /\ AtomicInv /\ [CypherNext]_cypherVars => KeptInv' /\ AtomicInv'
<1> SUFFICES ASSUME KeptInv, AtomicInv, [CypherNext]_cypherVars PROVE KeptInv' /\ AtomicInv'
  OBVIOUS
<1>1. ASSUME NEW q \in Queries, BeginQuery(q) PROVE KeptInv' /\ AtomicInv'
  <2>1. /\ query' = q /\ start' = g /\ known' = cons /\ g' = g /\ cons' = cons /\ raced' = raced
        /\ ddl' = ddl /\ status' \in {"running", "rejected"}
    BY <1>1 DEF BeginQuery, Admit, client
  <2>2. KeptInv'
    BY <2>1 DEF KeptInv, ConstraintsHold
  <2>3. AtomicInv'
    BY <2>1 DEF AtomicInv
  <2> QED
    BY <2>2, <2>3
<1>2. ASSUME status' \in {status, "ok"},
             UNCHANGED <<g, ctx, query, start, known, client>>
      PROVE  KeptInv' /\ AtomicInv'
  <2>1. Transactional' = Transactional
    BY <1>2, TransactionalKept
  <2>2. /\ g' = g /\ query' = query /\ start' = start /\ known' = known /\ cons' = cons
        /\ raced' = raced /\ ddl' = ddl
    BY <1>2 DEF client
  <2>3. KeptInv'
    BY <1>2, <2>1, <2>2 DEF KeptInv, ConstraintsHold
  <2>4. AtomicInv'
    BY <1>2, <2>1, <2>2 DEF AtomicInv
  <2> QED
    BY <2>3, <2>4
<1>3. CASE MatchStep \/ OptionalStep \/ FilterStep \/ UnwindStep \/ ShapeStep \/ BranchStep
  BY <1>2, <1>3 DEF MatchStep, OptionalStep, FilterStep, UnwindStep, ShapeStep, BranchStep, ReadStep, Advance
<1>4. CASE WriteStep
  <2>1. CASE OperatorDone
    BY <1>2, <2>1 DEF OperatorDone
  <2>2. CASE RowStep(WriteRow(g, Catalog, rows[1].b, Next1), Tail(rows))
    <3>1. status = "running" /\ Next1.op \in Mutating
      BY <1>4 DEF WriteStep, Running
    <3>2. PICK catalog : catalog = Catalog
      OBVIOUS
    <3>3. \A k \in catalog : Satisfies(g, k) => Satisfies(WriteRow(g, catalog, rows[1].b, Next1).g, k)
      BY <3>1, WriteKeeps
    <3> QED
      BY <2>2, <3>1, <3>2, <3>3, RowKept
  <2> QED
    BY <1>4, <2>1, <2>2 DEF WriteStep
<1>5. CASE CallStep
  <2>1. CASE OperatorDone
    BY <1>2, <2>1 DEF OperatorDone
  <2>2. CASE RowStep(CallRow(g, Catalog, rows[1].b, Next1), Tail(rows))
    <3>1. status = "running"
      BY <1>5 DEF CallStep, Running
    <3>2. PICK catalog : catalog = Catalog
      OBVIOUS
    <3>3. \A k \in catalog : Satisfies(g, k) => Satisfies(CallRow(g, catalog, rows[1].b, Next1).g, k)
      BY CallKeeps
    <3> QED
      BY <2>2, <3>1, <3>2, <3>3, RowKept
  <2> QED
    BY <1>5, <2>1, <2>2 DEF CallStep
<1>6. CASE Finish
  BY <1>2, <1>6 DEF Finish
<1>7. ASSUME NEW c \in Constraints, ValidateConstraint(c) PROVE KeptInv' /\ AtomicInv'
  <2>1. /\ Satisfies(Committed, c) /\ ddl' = <<[c |-> c, seen |-> Committed]>>
        /\ UNCHANGED <<cons, raced, queryState>>
    BY <1>7 DEF ValidateConstraint
  <2>2. Transactional' = Transactional
    BY <2>1, TransactionalKept DEF queryState
  <2>3. Satisfies(ddl'[1].seen, ddl'[1].c)
    BY <2>1
  <2>4. KeptInv'
    BY <2>1, <2>2, <2>3 DEF KeptInv, ConstraintsHold, queryState
  <2>5. AtomicInv'
    BY <2>1, <2>2 DEF AtomicInv, queryState
  <2> QED
    BY <2>4, <2>5
<1>8. ASSUME NEW c \in Constraints, DropConstraint(c) PROVE KeptInv' /\ AtomicInv'
  <2>1. /\ cons' = cons \ {c} /\ raced' = raced \ {c} /\ ~(status = "running" /\ Transactional)
        /\ UNCHANGED <<ddl, queryState>>
    BY <1>8 DEF DropConstraint
  <2>2. Transactional' = Transactional
    BY <2>1, TransactionalKept DEF queryState
  <2>3. KeptInv'
    BY <2>1, <2>2 DEF KeptInv, ConstraintsHold, queryState
  <2>4. AtomicInv'
    BY <2>1, <2>2 DEF AtomicInv, queryState
  <2> QED
    BY <2>3, <2>4
<1>9. CASE StoreConstraint
  <2>1. /\ ddl # <<>> /\ ~(status = "running" /\ Transactional) /\ cons' = cons \cup {ddl[1].c}
        /\ raced' = IF status = "running" \/ g # ddl[1].seen THEN raced \cup {ddl[1].c} ELSE raced
        /\ ddl' = <<>> /\ UNCHANGED queryState
    BY <1>9 DEF StoreConstraint
  <2>2. Transactional' = Transactional
    BY <2>1, TransactionalKept DEF queryState
  <2>3. \A k \in cons' \ raced' : Satisfies(g, k)
    <3>1. ddl[1].c \notin raced' => g = ddl[1].seen
      BY <2>1
    <3>2. Satisfies(ddl[1].seen, ddl[1].c)
      BY <2>1 DEF KeptInv
    <3>3. \A k \in cons' \ raced' : k = ddl[1].c \/ k \in cons \ raced
      BY <2>1
    <3> QED
      BY <3>1, <3>2, <3>3 DEF KeptInv, ConstraintsHold
  <2>4. KeptInv'
    BY <2>1, <2>2, <2>3 DEF KeptInv, ConstraintsHold, queryState
  <2>5. AtomicInv'
    BY <2>1, <2>2 DEF AtomicInv, queryState
  <2> QED
    BY <2>4, <2>5
<1>10. CASE UNCHANGED cypherVars
  BY <1>2, <1>10 DEF cypherVars, client
<1> QED
  BY <1>1, <1>3, <1>4, <1>5, <1>6, <1>7, <1>8, <1>9, <1>10 DEF CypherNext

(* Whatever the queries write, and wherever one of them fails: a query with *)
(* a mutating clause that fails on a backend with transactions leaves the   *)
(* graph as it was, and every stored constraint holds of every graph that   *)
(* is ever stored, save one whose CREATE raced a write (write.py).          *)
THEOREM WritesAreSafe == CypherSpec => []WritesSafe
<1>1. CypherInit => KeptInv /\ AtomicInv
  BY DEF CypherInit, KeptInv, AtomicInv, ConstraintsHold
<1>2. KeptInv /\ AtomicInv => WritesSafe
  <2> SUFFICES ASSUME KeptInv, AtomicInv PROVE WritesSafe
    OBVIOUS
  <2>1. ASSUME status = "failed", ctx.tx, \E i \in DOMAIN query : query[i].op \in Mutating
        PROVE  g = start
    <3>1. query # <<>>
      BY <2>1
    <3>2. Len(query) \in Nat /\ DOMAIN query = 1..Len(query)
      BY <3>1, QueriesAssumption DEF AtomicInv
    <3>3. Transactional
      BY <2>1, <3>2, WritesPlanned DEF Transactional
    <3> QED
      BY <2>1, <3>3 DEF AtomicInv
  <2> QED
    BY <2>1 DEF WritesSafe, QueryAtomic, KeptInv
<1> QED
  BY <1>1, <1>2, InvStep, PTL DEF CypherSpec
=============================================================================
