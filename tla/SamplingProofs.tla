---------------------------- MODULE SamplingProofs ----------------------------
(***************************************************************************)
(* Proofs about the sampling package, for any graph and any number of      *)
(* operations and consumers: the directories of a sampler snapshot and the *)
(* compact ids in it, the order in which the feeder hands out batches, and *)
(* what a temporal snapshot shows of any history.                          *)
(***************************************************************************)
EXTENDS SamplerSnapshot, BatchFeeder, SamplerEngine, FiniteSetTheorems, SequenceTheorems,
        WellFoundedInduction, TLAPS

-----------------------------------------------------------------------------
(* Elements picked from a sequence, in its order.                           *)

IsSeq(s) == s \in Seq(Range(s))

(* A function on the first numbers is a sequence.                           *)
LEMMA NumberedIsSeq ==
    ASSUME NEW n \in Nat, NEW S, NEW s \in [1 .. n -> S]
    PROVE  IsSeq(s) /\ Len(s) = n /\ DOMAIN s = 1 .. n
<1>1. s \in [1 .. n -> Range(s)]
  BY DEF Range
<1>2. s \in Seq(Range(s))
  BY <1>1, SeqDef
<1> QED
  BY <1>2, LenProperties DEF IsSeq

(* Of the positions in K, each has its rank, and each rank its position.    *)
LEMMA Ranks ==
    ASSUME NEW n \in Nat, NEW K \in SUBSET (1 .. n)
    PROVE  /\ IsFiniteSet(K) /\ Cardinality(K) \in Nat
           /\ \A m \in 1 .. Cardinality(K) : \E i \in K : Rank(K, i) = m
           /\ \A i \in K : Rank(K, i) \in 1 .. Cardinality(K)
           /\ \A i \in K, j \in K : Rank(K, i) = Rank(K, j) => i = j
<1> DEFINE Upto(i) == {k \in K : k <= i}
           N == Cardinality(K)
<1>1. IsFiniteSet(K)
  <2>1. IsFiniteSet(1 .. n)
    BY FS_Interval
  <2> QED
    BY <2>1, FS_Subset
<1>2. N \in Nat
  BY <1>1, FS_CardinalityType
<1>3. ASSUME NEW i \in K PROVE IsFiniteSet(Upto(i)) /\ Rank(K, i) \in 1 .. N
  <2>1. Upto(i) \in SUBSET K /\ i \in Upto(i)
    OBVIOUS
  <2>2. IsFiniteSet(Upto(i)) /\ Cardinality(Upto(i)) <= N /\ Cardinality(Upto(i)) \in Nat
    BY <1>1, <2>1, FS_Subset, FS_CardinalityType
  <2>3. Cardinality(Upto(i)) # 0
    BY <2>1, <2>2, FS_EmptySet
  <2> QED
    BY <1>2, <2>2, <2>3 DEF Rank
<1>4. ASSUME NEW i \in K, NEW j \in K, i < j PROVE Rank(K, i) # Rank(K, j)
  <2>1. i \in Int /\ j \in Int /\ \A k \in K : k \in Int
    OBVIOUS
  <2>2. j \in Upto(j) /\ j \notin Upto(i) /\ \A k \in K : k <= i => k <= j
    BY <1>4, <2>1
  <2>3. Cardinality(Upto(i)) # Cardinality(Upto(j))
    <3>1. Upto(i) \in SUBSET Upto(j) /\ Upto(i) # Upto(j) /\ IsFiniteSet(Upto(j))
      BY <1>3, <2>2
    <3> QED
      BY <3>1, FS_Subset
  <2> QED
    BY <2>3 DEF Rank
<1>5. \A i \in K, j \in K : Rank(K, i) = Rank(K, j) => i = j
  BY <1>4
<1>6. PICK f : f = [i \in K |-> Rank(K, i)]
  OBVIOUS
<1>7. f \in Injection(K, 1 .. N)
  BY <1>3, <1>5, <1>6 DEF Injection, IsInjective
<1>8. IsFiniteSet(1 .. N) /\ Cardinality(1 .. N) = N
  BY <1>2, FS_Interval
<1>9. f \in Surjection(K, 1 .. N)
  BY <1>7, <1>8, FS_Injection
<1> QED
  BY <1>1, <1>2, <1>3, <1>5, <1>6, <1>9 DEF Surjection

(* t lists the elements of s at the positions in K, each of which g gives   *)
(* one place.                                                               *)
Lists(t, s, K, g) ==
    /\ IsSeq(t)
    /\ \A m \in DOMAIN t : g[m] \in K /\ t[m] = s[g[m]]
    /\ \A m, o \in DOMAIN t : g[m] = g[o] => m = o
    /\ \A i \in K : \E m \in DOMAIN t : g[m] = i

(* So does Picked.                                                          *)
LEMMA PickedLists ==
    ASSUME NEW s, IsSeq(s), NEW K \in SUBSET DOMAIN s
    PROVE  \E g : Lists(Picked(s, K), s, K, g)
<1>1. PICK n \in Nat : DOMAIN s = 1 .. n
  BY LenProperties DEF IsSeq
<1>2. Cardinality(K) \in Nat
  BY <1>1, Ranks
<1>3. PICK N \in Nat : N = Cardinality(K)
  BY <1>2
<1> DEFINE Nth(m) == CHOOSE i \in K : Rank(K, i) = m
<1>4. ASSUME NEW m \in 1 .. N PROVE Nth(m) \in K /\ Rank(K, Nth(m)) = m
  <2>1. \A o \in 1 .. Cardinality(K) : \E i \in K : Rank(K, i) = o
    <3>1. K \in SUBSET (1 .. n)
      BY <1>1
    <3> QED
      BY <3>1, Ranks
  <2>2. \E i \in K : Rank(K, i) = m
    BY <1>3, <2>1
  <2> QED
    BY <2>2
<1>5. \A i \in K : Rank(K, i) \in 1 .. N
  BY <1>1, <1>3, Ranks
<1>6. \A i \in K, j \in K : Rank(K, i) = Rank(K, j) => i = j
  BY <1>1, Ranks
<1>7. PICK t : t = [m \in 1 .. N |-> s[Nth(m)]]
  OBVIOUS
<1>8. Picked(s, K) = t
  BY <1>3, <1>7 DEF Picked
<1>9. PICK g : g = [m \in 1 .. N |-> Nth(m)]
  OBVIOUS
<1> HIDE DEF Nth
<1>10. DOMAIN t = 1 .. N /\ t \in [1 .. N -> Range(t)]
  BY <1>7 DEF Range
<1>11. IsSeq(t)
  BY <1>10, NumberedIsSeq
<1>12. \A m, o \in 1 .. N : g[m] = g[o] => m = o
  BY <1>4, <1>9
<1>13. \A i \in K : \E m \in 1 .. N : g[m] = i
  BY <1>4, <1>5, <1>6, <1>9
<1>14. Lists(t, s, K, g)
  BY <1>4, <1>7, <1>9, <1>10, <1>11, <1>12, <1>13 DEF Lists
<1> QED
  BY <1>8, <1>14

(* What is in an extended table, and where.                                 *)
Extends(t, s) ==
    /\ IsSeq(t) /\ IsPrefix(s, t)
    /\ \A i \in DOMAIN s : i \in DOMAIN t /\ t[i] = s[i]

(* Concatenation extends, and adds the range of what it appends.            *)
LEMMA Concatenated ==
    ASSUME NEW s, IsSeq(s), NEW u, IsSeq(u), NEW t, t = s \o u
    PROVE  /\ Extends(t, s)
           /\ DOMAIN t = 1 .. Len(s) + Len(u)
           /\ \A i \in DOMAIN u : Len(s) + i \in DOMAIN t /\ t[Len(s) + i] = u[i]
<1>1. PICK S : S = Range(s) \cup Range(u)
  OBVIOUS
<1>2. s \in Seq(S) /\ u \in Seq(S)
  <2>1. \A i \in 1 .. Len(s) : s[i] \in S
    BY <1>1, ElementOfSeq DEF IsSeq
  <2>2. \A i \in 1 .. Len(u) : u[i] \in S
    BY <1>1, ElementOfSeq DEF IsSeq
  <2>3. s \in [1 .. Len(s) -> S] /\ Len(s) \in Nat
    BY <2>1, LenProperties DEF IsSeq
  <2>4. u \in [1 .. Len(u) -> S] /\ Len(u) \in Nat
    BY <2>2, LenProperties DEF IsSeq
  <2>5. s \in Seq(S)
    BY <2>3, SeqDef
  <2>6. u \in Seq(S)
    BY <2>4, SeqDef
  <2> QED
    BY <2>5, <2>6
<1>3. /\ t \in Seq(S) /\ Len(t) = Len(s) + Len(u)
      /\ \A i \in 1 .. Len(s) + Len(u) : t[i] = IF i <= Len(s) THEN s[i] ELSE u[i - Len(s)]
  BY <1>2, ConcatProperties
<1>4. DOMAIN s = 1 .. Len(s) /\ DOMAIN u = 1 .. Len(u) /\ Len(s) \in Nat /\ Len(u) \in Nat
  BY <1>2, LenProperties
<1>5. DOMAIN t = 1 .. Len(s) + Len(u) /\ t \in [1 .. Len(s) + Len(u) -> S] /\ Len(s) + Len(u) \in Nat
  BY <1>3, <1>4, LenProperties
<1>6. IsSeq(t)
  BY <1>5, NumberedIsSeq
<1>7. \A i \in DOMAIN s : i \in DOMAIN t /\ t[i] = s[i]
  BY <1>3, <1>4, <1>5
<1>8. \A i \in DOMAIN u : Len(s) + i \in DOMAIN t /\ t[Len(s) + i] = u[i]
  BY <1>3, <1>4, <1>5
<1>9. SubSeq(t, 1, Len(s)) = s
  <2>1. /\ SubSeq(t, 1, Len(s)) \in Seq(S) /\ Len(SubSeq(t, 1, Len(s))) = Len(s)
        /\ \A i \in 1 .. Len(s) : SubSeq(t, 1, Len(s))[i] = t[i]
    <3>1. \A i \in 1 .. Len(s) : t[i] \in S
      <4>1. \A i \in 1 .. Len(s) : i \in 1 .. Len(s) + Len(u)
        BY <1>4
      <4> QED
        BY <1>5, <4>1
    <3>2. SubSeq(t, 1, Len(s)) \in Seq(S)
      BY <3>1, <1>4, SubSeqProperties
    <3>3. Len(SubSeq(t, 1, Len(s))) = IF 1 <= Len(s) THEN Len(s) - 1 + 1 ELSE 0
      BY <3>1, <1>4, SubSeqProperties
    <3>4. \A i \in 1 .. Len(s) - 1 + 1 : SubSeq(t, 1, Len(s))[i] = t[1 + i - 1]
      BY <3>1, <1>4, SubSeqProperties
    <3> QED
      BY <1>4, <3>2, <3>3, <3>4
  <2>2. \A i \in 1 .. Len(s) : SubSeq(t, 1, Len(s))[i] = s[i]
    BY <1>4, <1>7, <2>1
  <2> QED
    BY <1>2, <2>1, <2>2, SeqEqual
<1>10. SubSeq(s, 1, Len(s)) = s
  BY <1>2, SubSeqFull
<1>11. Len(s) <= Len(t)
  BY <1>3, <1>4
<1>12. IsPrefix(s, t)
  BY <1>9, <1>10, <1>11 DEF IsPrefix
<1> QED
  BY <1>5, <1>6, <1>7, <1>8, <1>12 DEF Extends

(* A table extends itself.                                                  *)
LEMMA ExtendsSelf == ASSUME NEW s, IsSeq(s) PROVE Extends(s, s)
<1>1. IsPrefix(s, s)
  BY LenProperties DEF IsPrefix, IsSeq
<1> QED
  BY <1>1 DEF Extends

(* The first of the positions where a name stands.                          *)
LEMMA FirstExists ==
    ASSUME NEW names, IsSeq(names), NEW x \in Range(names)
    PROVE  \E i \in DOMAIN names : names[i] = x /\ \A j \in 1 .. i - 1 : names[j] # x
<1>1. DOMAIN names \subseteq Nat /\ \A i \in DOMAIN names : \A j \in 1 .. i - 1 : j \in DOMAIN names
  BY LenProperties DEF IsSeq
<1>2. PICK K : K = {i \in DOMAIN names : names[i] = x}
  OBVIOUS
<1>3. K \in SUBSET Nat /\ K # {}
  BY <1>1, <1>2 DEF Range
<1>4. PICK i \in K : \A j \in K : ~(<<j, i>> \in OpToRel(<, Nat))
  BY <1>3, NatLessThanWellFounded, WFMin
<1>5. \A j \in K : ~(j < i)
  BY <1>3, <1>4 DEF OpToRel
<1> QED
  BY <1>1, <1>2, <1>3, <1>5

(* append_from_graph's tables have every name of the batch.                 *)
LEMMA ExtendedCovers ==
    ASSUME NEW s, IsSeq(s), NEW names, IsSeq(names), NEW t, t = Extended(s, names)
    PROVE  Extends(t, s) /\ Range(names) \subseteq Range(t)
<1>1. PICK K : K = {i \in DOMAIN names : /\ names[i] \notin Range(s)
                                          /\ \A j \in 1 .. i - 1 : names[j] # names[i]}
  OBVIOUS
<1>2. PICK u : u = Picked(names, K)
  OBVIOUS
<1>3. PICK g : Lists(u, names, K, g)
  BY <1>1, <1>2, PickedLists
<1>4. t = s \o u /\ IsSeq(u)
  BY <1>1, <1>2, <1>3 DEF Extended, Lists
<1>5. Extends(t, s) /\ \A i \in DOMAIN u : Len(s) + i \in DOMAIN t /\ t[Len(s) + i] = u[i]
  BY <1>4, Concatenated
<1>6. ASSUME NEW x \in Range(names) PROVE x \in Range(t)
  <2>1. CASE x \in Range(s)
    BY <1>5, <2>1 DEF Extends, Range
  <2>2. CASE x \notin Range(s)
    <3>1. PICK i \in DOMAIN names : names[i] = x /\ \A j \in 1 .. i - 1 : names[j] # x
      BY FirstExists
    <3>2. i \in K
      BY <1>1, <2>2, <3>1
    <3>3. PICK m \in DOMAIN u : g[m] = i
      BY <1>3, <3>2 DEF Lists
    <3>4. u[m] = x
      BY <1>3, <3>1, <3>3 DEF Lists
    <3> QED
      BY <1>5, <3>3, <3>4 DEF Range
  <2> QED
    BY <2>1, <2>2
<1> QED
  BY <1>5, <1>6

(* Keys in key order: those that are members, each once.                    *)
LEMMA KeysInOrder ==
    ASSUME NEW keys, IsSeq(keys), NEW members, NEW t, t = InKeyOrder(keys, members)
    PROVE  /\ IsSeq(t) /\ \A m \in DOMAIN t : t[m] \in members
           /\ \A x \in members : x \in Range(keys) => x \in Range(t)
           /\ (\A i, j \in DOMAIN keys : keys[i] = keys[j] => i = j)
                 => \A m, o \in DOMAIN t : t[m] = t[o] => m = o
<1>1. PICK K : K = {i \in DOMAIN keys : keys[i] \in members}
  OBVIOUS
<1>2. t = Picked(keys, K)
  BY <1>1 DEF InKeyOrder
<1>3. PICK g : Lists(t, keys, K, g)
  BY <1>1, <1>2, PickedLists
<1>4. \A m \in DOMAIN t : t[m] \in members
  BY <1>1, <1>3 DEF Lists
<1>5. ASSUME NEW x \in members, x \in Range(keys) PROVE x \in Range(t)
  BY <1>1, <1>3, <1>5 DEF Lists, Range
<1>6. (\A i, j \in DOMAIN keys : keys[i] = keys[j] => i = j) => \A m, o \in DOMAIN t : t[m] = t[o] => m = o
  BY <1>1, <1>3 DEF Lists
<1> QED
  BY <1>3, <1>4, <1>5, <1>6 DEF Lists

-----------------------------------------------------------------------------
(* The tables of a snapshot.                                                *)

Fields == {"sid", "nodes", "rels", "gen", "rows", "compactions", "version"}

(* A row whose compact ids are in the tables.                               *)
Placed(s, r) ==
    /\ DOMAIN r = {"id", "src", "rel", "dst", "w"}
    /\ r.src \in DOMAIN s.nodes /\ r.dst \in DOMAIN s.nodes /\ r.rel \in DOMAIN s.rels

(* Rows that stand for records of E, no two for the same edge.              *)
RowsKept(s, E) ==
    /\ \A i \in DOMAIN s.rows : Placed(s, s.rows[i]) /\ Record(s, s.rows[i]) \in E
    /\ \A i, j \in DOMAIN s.rows : s.rows[i].id = s.rows[j].id => i = j

Sound(s, E) ==
    /\ DOMAIN s = Fields /\ IsSeq(s.nodes) /\ IsSeq(s.rels) /\ IsSeq(s.rows) /\ RowsKept(s, E)

(* The records of edges.                                                    *)
IsRecord(e) == e = [id |-> e.id, src |-> e.src, rel |-> e.rel, dst |-> e.dst]
Known(E) == \A e \in E : IsRecord(e) /\ e.id \in Range(EdgeIds) /\ (e.rel = NoRel \/ e.rel \in Range(RelationKeys))

(* A snapshot that kept the identity and the ids of another.                *)
Continues(t, s) == t.sid = s.sid /\ Extends(t.nodes, s.nodes) /\ Extends(t.rels, s.rels)

(* What Position finds.                                                     *)
LEMMA Positions ==
    ASSUME NEW s, NEW x \in Range(s) PROVE Position(s, x) \in DOMAIN s /\ s[Position(s, x)] = x
BY DEF Range, Position

(* The row of a record translates back to it.                               *)
LEMMA RowOfRecord ==
    ASSUME NEW s, NEW e, IsRecord(e), NEW nodes, NEW rels, s.nodes = nodes, s.rels = rels,
           e.src \in Range(nodes), e.dst \in Range(nodes), e.rel \in Range(rels),
           NEW r, r = Row(e, nodes, rels)
    PROVE  Placed(s, r) /\ Record(s, r) = e /\ r.id = e.id
<1>1. PICK a : a = Position(nodes, e.src)
  OBVIOUS
<1>2. PICK b : b = Position(nodes, e.dst)
  OBVIOUS
<1>3. PICK c : c = Position(rels, e.rel)
  OBVIOUS
<1>4. a \in DOMAIN nodes /\ nodes[a] = e.src /\ b \in DOMAIN nodes /\ nodes[b] = e.dst
  BY <1>1, <1>2, Positions
<1>5. c \in DOMAIN rels /\ rels[c] = e.rel
  BY <1>3, Positions
<1>6. r = [id |-> e.id, src |-> a, rel |-> c, dst |-> b, w |-> 1]
  BY <1>1, <1>2, <1>3 DEF Row
<1>7. Placed(s, r)
  BY <1>4, <1>5, <1>6 DEF Placed
<1>8. Record(s, r) = [id |-> e.id, src |-> e.src, rel |-> e.rel, dst |-> e.dst]
  BY <1>4, <1>5, <1>6 DEF Record
<1> QED
  BY <1>6, <1>7, <1>8 DEF IsRecord

(* A row keeps its meaning while the tables are extended.                   *)
LEMMA RowKept ==
    ASSUME NEW s, NEW t, NEW r, Placed(s, r), Extends(t.nodes, s.nodes), Extends(t.rels, s.rels)
    PROVE  Placed(t, r) /\ Record(t, r) = Record(s, r)
BY DEF Placed, Extends, Record

(* The names of a batch's endpoints.                                        *)
LEMMA EndpointsNamed ==
    ASSUME NEW batch, IsSeq(batch), NEW names, names = Endpoints(batch)
    PROVE  /\ IsSeq(names)
           /\ \A i \in DOMAIN batch : batch[i].src \in Range(names) /\ batch[i].dst \in Range(names)
<1>1. PICK n \in Nat : n = Len(batch)
  BY LenProperties DEF IsSeq
<1>2. DOMAIN batch = 1 .. n /\ 2 * n \in Nat
  BY <1>1, LenProperties DEF IsSeq
<1>3. names = [k \in 1 .. 2 * n |-> IF k % 2 = 1 THEN batch[(k + 1) \div 2].src ELSE batch[k \div 2].dst]
  BY <1>1 DEF Endpoints
<1>4. names \in [1 .. 2 * n -> Range(names)]
  BY <1>3 DEF Range
<1>5. IsSeq(names)
  BY <1>2, <1>4, NumberedIsSeq
<1>6. ASSUME NEW i \in DOMAIN batch PROVE batch[i].src \in Range(names) /\ batch[i].dst \in Range(names)
  <2>1. i \in Nat /\ 2 * i - 1 \in 1 .. 2 * n /\ 2 * i \in 1 .. 2 * n
    BY <1>2
  <2>2. (2 * i - 1) % 2 = 1 /\ (2 * i - 1 + 1) \div 2 = i /\ (2 * i) % 2 # 1 /\ (2 * i) \div 2 = i
    BY <2>1
  <2>3. names[2 * i - 1] = batch[i].src
    BY <1>3, <2>1, <2>2
  <2>4. names[2 * i] = batch[i].dst
    BY <1>3, <2>1, <2>2
  <2>5. DOMAIN names = 1 .. 2 * n
    BY <1>3
  <2> QED
    BY <2>1, <2>3, <2>4, <2>5 DEF Range
<1> QED
  BY <1>5, <1>6

(* A batch of records whose edges have no row yet.                          *)
Appendable(s, E, batch) ==
    /\ IsSeq(batch) /\ \A i \in DOMAIN batch : batch[i] \in E
    /\ \A i, j \in DOMAIN batch : batch[i].id = batch[j].id => i = j
    /\ \A i \in DOMAIN batch, k \in DOMAIN s.rows : s.rows[k].id # batch[i].id

(* append_from_graph numbers new names after the known ones.                *)
LEMMA AppendSound ==
    ASSUME NEW E, Known(E), NEW s, Sound(s, E), NEW batch, Appendable(s, E, batch), NEW t, t = AppendRows(s, batch)
    PROVE  Sound(t, E) /\ Continues(t, s)
<1>1. PICK names : names = Endpoints(batch)
  OBVIOUS
<1>2. PICK relnames : relnames = [i \in DOMAIN batch |-> batch[i].rel]
  OBVIOUS
<1>3. PICK nodes : nodes = Extended(s.nodes, names)
  OBVIOUS
<1>4. PICK rels : rels = Extended(s.rels, relnames)
  OBVIOUS
<1>5. PICK more : more = [i \in DOMAIN batch |-> Row(batch[i], nodes, rels)]
  OBVIOUS
<1>6. PICK rows : rows = s.rows \o more
  OBVIOUS
<1>7. t = [s EXCEPT !.nodes = nodes, !.rels = rels, !.gen = @ + 1, !.rows = rows]
  BY <1>1, <1>2, <1>3, <1>4, <1>5, <1>6 DEF AppendRows
<1>8. DOMAIN t = Fields /\ t.nodes = nodes /\ t.rels = rels /\ t.rows = rows /\ t.sid = s.sid
  BY <1>7 DEF Sound, Fields
<1>9. PICK n \in Nat : DOMAIN batch = 1 .. n
  BY LenProperties DEF Appendable, IsSeq
<1>10. IsSeq(relnames) /\ \A i \in DOMAIN batch : batch[i].rel \in Range(relnames)
  <2>1. relnames \in [1 .. n -> Range(relnames)]
    BY <1>2, <1>9 DEF Range
  <2> QED
    BY <1>2, <1>9, <2>1, NumberedIsSeq DEF Range
<1>11. IsSeq(more) /\ DOMAIN more = DOMAIN batch
  <2>1. more \in [1 .. n -> Range(more)]
    BY <1>5, <1>9 DEF Range
  <2> QED
    BY <1>5, <1>9, <2>1, NumberedIsSeq
<1>12. /\ IsSeq(names)
       /\ \A i \in DOMAIN batch : batch[i].src \in Range(names) /\ batch[i].dst \in Range(names)
  BY <1>1, EndpointsNamed DEF Appendable
<1>13. Extends(nodes, s.nodes) /\ Range(names) \subseteq Range(nodes)
  BY <1>3, <1>12, ExtendedCovers DEF Sound
<1>14. Extends(rels, s.rels) /\ Range(relnames) \subseteq Range(rels)
  BY <1>4, <1>10, ExtendedCovers DEF Sound
<1>15. Continues(t, s)
  BY <1>8, <1>13, <1>14 DEF Continues
<1>16. /\ Extends(rows, s.rows) /\ DOMAIN rows = 1 .. Len(s.rows) + Len(more)
       /\ \A i \in DOMAIN more : Len(s.rows) + i \in DOMAIN rows /\ rows[Len(s.rows) + i] = more[i]
  <2>1. PICK old : old = s.rows
    OBVIOUS
  <2>2. IsSeq(old) /\ IsSeq(more) /\ rows = old \o more
    BY <1>6, <1>11, <2>1 DEF Sound
  <2>3. Extends(rows, old)
    BY <2>2, Concatenated
  <2>4. \A i \in DOMAIN more : Len(old) + i \in DOMAIN rows /\ rows[Len(old) + i] = more[i]
    BY <2>2, Concatenated
  <2>5. DOMAIN rows = 1 .. Len(old) + Len(more)
    BY <2>2, Concatenated
  <2> QED
    BY <2>1, <2>3, <2>4, <2>5
<1>17. ASSUME NEW i \in DOMAIN rows
       PROVE  \/ i \in DOMAIN s.rows /\ rows[i] = s.rows[i]
              \/ \E j \in DOMAIN more : i = Len(s.rows) + j /\ rows[i] = more[j]
  <2>1. /\ Len(s.rows) \in Nat /\ Len(more) \in Nat
        /\ DOMAIN s.rows = 1 .. Len(s.rows) /\ DOMAIN more = 1 .. Len(more)
    BY <1>11, LenProperties DEF Sound, IsSeq
  <2>2. i \in 1 .. Len(s.rows) \/ i - Len(s.rows) \in 1 .. Len(more)
    BY <1>16, <1>17, <2>1
  <2>3. i = Len(s.rows) + (i - Len(s.rows))
    BY <1>16, <2>1
  <2> QED
    BY <1>16, <2>1, <2>2, <2>3 DEF Extends
<1>18. ASSUME NEW i \in DOMAIN more
       PROVE  Placed(t, more[i]) /\ Record(t, more[i]) \in E /\ more[i].id = batch[i].id
  <2>1. PICK e : e = batch[i]
    OBVIOUS
  <2>2. IsRecord(e) /\ e \in E
    BY <1>11, <2>1 DEF Appendable, Known
  <2>3. e.src \in Range(nodes) /\ e.dst \in Range(nodes) /\ e.rel \in Range(rels)
    BY <1>10, <1>11, <1>12, <1>13, <1>14, <2>1
  <2>4. more[i] = Row(e, nodes, rels)
    BY <1>5, <1>11, <2>1
  <2>5. Placed(t, more[i]) /\ Record(t, more[i]) = e /\ more[i].id = e.id
    BY <1>8, <2>2, <2>3, <2>4, RowOfRecord
  <2> QED
    BY <2>1, <2>2, <2>5
<1>19. ASSUME NEW i \in DOMAIN s.rows PROVE Placed(t, s.rows[i]) /\ Record(t, s.rows[i]) \in E
  <2>1. Placed(s, s.rows[i]) /\ Record(s, s.rows[i]) \in E
    BY DEF Sound, RowsKept
  <2> QED
    BY <1>8, <1>13, <1>14, <2>1, RowKept
<1>20. \A i \in DOMAIN rows : Placed(t, rows[i]) /\ Record(t, rows[i]) \in E
  BY <1>17, <1>18, <1>19
<1>21. ASSUME NEW i \in DOMAIN rows, NEW j \in DOMAIN rows, rows[i].id = rows[j].id PROVE i = j
  <2>1. \A k, l \in DOMAIN s.rows : s.rows[k].id = s.rows[l].id => k = l
    BY DEF Sound, RowsKept
  <2>2. \A k, l \in DOMAIN more : more[k].id = more[l].id => k = l
    BY <1>11, <1>18 DEF Appendable
  <2>3. \A k \in DOMAIN s.rows, l \in DOMAIN more : s.rows[k].id # more[l].id
    BY <1>11, <1>18 DEF Appendable
  <2> QED
    BY <1>17, <1>21, <2>1, <2>2, <2>3
<1>22. RowsKept(t, E)
  BY <1>8, <1>20, <1>21 DEF RowsKept
<1> QED
  BY <1>8, <1>13, <1>14, <1>15, <1>16, <1>22 DEF Sound, Extends

(* A change of the version alone.                                           *)
LEMMA RelabelSound ==
    ASSUME NEW E, NEW s, Sound(s, E), NEW t, NEW v, t = [s EXCEPT !.version = v]
    PROVE  Sound(t, E) /\ t.sid = s.sid /\ t.nodes = s.nodes /\ t.rels = s.rels
<1>1. DOMAIN t = Fields /\ t.nodes = s.nodes /\ t.rels = s.rels /\ t.rows = s.rows /\ t.sid = s.sid
  BY DEF Sound, Fields
<1>2. RowsKept(t, E)
  BY <1>1 DEF Sound, RowsKept, Placed, Record
<1> QED
  BY <1>1, <1>2 DEF Sound

(* compact removes rows.                                                    *)
LEMMA PrunedSound ==
    ASSUME NEW E, NEW s, Sound(s, E), NEW live, NEW t, t = Pruned(s, live)
    PROVE  Sound(t, E) /\ Continues(t, s)
<1>1. PICK K : K = {i \in DOMAIN s.rows : s.rows[i].id \in live}
  OBVIOUS
<1>2. PICK rows : rows = Picked(s.rows, K)
  OBVIOUS
<1>3. t = [s EXCEPT !.rows = rows, !.compactions = @ + 1]
  BY <1>1, <1>2 DEF Pruned
<1>4. DOMAIN t = Fields /\ t.nodes = s.nodes /\ t.rels = s.rels /\ t.rows = rows /\ t.sid = s.sid
  BY <1>3 DEF Sound, Fields
<1>5. PICK g : Lists(rows, s.rows, K, g)
  BY <1>1, <1>2, PickedLists DEF Sound
<1>6. \A m \in DOMAIN rows : g[m] \in DOMAIN s.rows /\ rows[m] = s.rows[g[m]]
  BY <1>1, <1>5 DEF Lists
<1>7. \A m \in DOMAIN rows : Placed(s, rows[m]) /\ Record(s, rows[m]) \in E
  BY <1>6 DEF Sound, RowsKept
<1>8. \A m, o \in DOMAIN rows : rows[m].id = rows[o].id => m = o
  BY <1>5, <1>6 DEF Lists, Sound, RowsKept
<1>9. RowsKept(t, E)
  BY <1>4, <1>7, <1>8 DEF RowsKept, Placed, Record
<1>10. Continues(t, s)
  BY <1>4, ExtendsSelf DEF Continues, Sound
<1> QED
  BY <1>4, <1>5, <1>9, <1>10 DEF Sound, Lists

(* set_edge_weights rewrites rows in place.                                 *)
LEMMA ReweightedSound ==
    ASSUME NEW E, NEW s, Sound(s, E), NEW t,
           t = [s EXCEPT !.rows = [i \in DOMAIN @ |-> [@[i] EXCEPT !.w = 2]]]
    PROVE  Sound(t, E) /\ Continues(t, s)
<1>1. PICK rows : rows = [i \in DOMAIN s.rows |-> [s.rows[i] EXCEPT !.w = 2]]
  OBVIOUS
<1>2. t = [s EXCEPT !.rows = rows]
  BY <1>1
<1>3. DOMAIN t = Fields /\ t.nodes = s.nodes /\ t.rels = s.rels /\ t.rows = rows /\ t.sid = s.sid
  BY <1>2 DEF Sound, Fields
<1>4. PICK n \in Nat : DOMAIN s.rows = 1 .. n
  BY LenProperties DEF Sound, IsSeq
<1>5. rows \in [1 .. n -> Range(rows)] /\ DOMAIN rows = DOMAIN s.rows
  BY <1>1, <1>4 DEF Range
<1>6. IsSeq(rows)
  BY <1>5, NumberedIsSeq
<1>7. ASSUME NEW i \in DOMAIN rows
      PROVE  Placed(s, rows[i]) /\ Record(s, rows[i]) = Record(s, s.rows[i]) /\ rows[i].id = s.rows[i].id
  <2>1. PICK r : r = s.rows[i]
    OBVIOUS
  <2>2. PICK q : q = rows[i]
    OBVIOUS
  <2>3. Placed(s, r)
    BY <1>5, <2>1 DEF Sound, RowsKept
  <2>4. q = [r EXCEPT !.w = 2]
    BY <1>1, <1>5, <2>1, <2>2
  <2>5. DOMAIN q = DOMAIN r /\ q.id = r.id /\ q.src = r.src /\ q.rel = r.rel /\ q.dst = r.dst
    BY <2>3, <2>4 DEF Placed
  <2> QED
    BY <2>1, <2>2, <2>3, <2>5 DEF Placed, Record
<1>8. RowsKept(t, E)
  <2>1. \A i \in DOMAIN rows : Placed(t, rows[i]) /\ Record(t, rows[i]) = Record(s, s.rows[i])
    BY <1>3, <1>7 DEF Placed, Record
  <2>2. \A i, j \in DOMAIN rows : rows[i].id = rows[j].id => i = j
    BY <1>5, <1>7 DEF Sound, RowsKept
  <2>3. \A i \in DOMAIN rows : Record(s, s.rows[i]) \in E
    BY <1>5 DEF Sound, RowsKept
  <2>4. \A i \in DOMAIN rows : Placed(t, rows[i]) /\ Record(t, rows[i]) \in E
    BY <2>1, <2>3
  <2>5. t.rows = rows
    BY <1>3
  <2>6. \A i \in DOMAIN t.rows : Placed(t, t.rows[i]) /\ Record(t, t.rows[i]) \in E
    BY <2>4, <2>5, Zenon
  <2>7. \A i, j \in DOMAIN t.rows : t.rows[i].id = t.rows[j].id => i = j
    BY <2>2, <2>5, Zenon
  <2> QED
    BY <2>6, <2>7, Zenon DEF RowsKept
<1>9. Continues(t, s)
  BY <1>3, ExtendsSelf DEF Continues, Sound
<1> QED
  BY <1>3, <1>6, <1>8, <1>9 DEF Sound

(* The record of an edge id among edges.                                    *)
LEMMA EdgeOfFinds ==
    ASSUME NEW edges, NEW id \in {e.id : e \in edges}
    PROVE  EdgeOf(edges, id) \in edges /\ EdgeOf(edges, id).id = id
BY DEF EdgeOf

(* build makes a row of each edge whose endpoints and relation it has.      *)
LEMMA BuildSound ==
    ASSUME NEW E, Known(E), NEW edges \in SUBSET E, NEW nodes, IsSeq(nodes),
           \A e \in edges : e.src \in Range(nodes) /\ e.dst \in Range(nodes) /\ e.rel # NoRel,
           NEW rels, rels = InKeyOrder(RelationKeys, {e.rel : e \in edges}),
           NEW t, DOMAIN t = Fields, t.nodes = nodes, t.rels = rels, t.rows = BuiltRows(nodes, rels, edges)
    PROVE  Sound(t, E)
<1>1. IsSeq(RelationKeys) /\ IsSeq(EdgeIds)
  BY KeysAssumption DEF IsSeq
<1>2. PICK relnames : relnames = {e.rel : e \in edges}
  OBVIOUS
<1>3. IsSeq(rels) /\ \A x \in relnames : x \in Range(RelationKeys) => x \in Range(rels)
  BY <1>1, <1>2, KeysInOrder
<1>4. \A e \in edges : e.rel \in Range(rels)
  BY <1>2, <1>3 DEF Known
<1>5. PICK members : members = {e.id : e \in edges}
  OBVIOUS
<1>6. PICK ids : ids = InKeyOrder(EdgeIds, members)
  OBVIOUS
<1>7. IsSeq(ids) /\ \A m \in DOMAIN ids : ids[m] \in members
  BY <1>1, <1>6, KeysInOrder
<1>8. \A m, o \in DOMAIN ids : ids[m] = ids[o] => m = o
  BY <1>1, <1>6, KeysInOrder, KeysAssumption
<1>9. PICK rows : rows = [i \in DOMAIN ids |-> Row(EdgeOf(edges, ids[i]), nodes, rels)]
  OBVIOUS
<1>10. t.rows = rows
  BY <1>5, <1>6, <1>9 DEF BuiltRows
<1>11. PICK n \in Nat : DOMAIN ids = 1 .. n
  BY <1>7, LenProperties DEF IsSeq
<1>12. rows \in [1 .. n -> Range(rows)] /\ DOMAIN rows = DOMAIN ids
  BY <1>9, <1>11 DEF Range
<1>13. IsSeq(rows)
  BY <1>12, NumberedIsSeq
<1>14. ASSUME NEW i \in DOMAIN rows
       PROVE  Placed(t, rows[i]) /\ Record(t, rows[i]) \in E /\ rows[i].id = ids[i]
  <2>1. PICK e : e = EdgeOf(edges, ids[i])
    OBVIOUS
  <2>2. e \in edges /\ e.id = ids[i]
    BY <1>5, <1>7, <1>12, <2>1, EdgeOfFinds
  <2>3. rows[i] = Row(e, nodes, rels) /\ IsRecord(e)
    BY <1>9, <1>12, <2>1, <2>2 DEF Known
  <2>4. e.src \in Range(nodes) /\ e.dst \in Range(nodes) /\ e.rel \in Range(rels)
    BY <1>4, <2>2
  <2>5. Placed(t, rows[i]) /\ Record(t, rows[i]) = e /\ rows[i].id = e.id
    BY <2>3, <2>4, RowOfRecord
  <2> QED
    BY <2>2, <2>5
<1>15. RowsKept(t, E)
  <2>1. \A i \in DOMAIN t.rows : Placed(t, t.rows[i]) /\ Record(t, t.rows[i]) \in E
    BY <1>10, <1>14, Zenon
  <2>2. \A i, j \in DOMAIN rows : rows[i].id = rows[j].id => i = j
    BY <1>8, <1>12, <1>14
  <2>3. \A i, j \in DOMAIN t.rows : t.rows[i].id = t.rows[j].id => i = j
    BY <1>10, <2>2, Zenon
  <2> QED
    BY <2>1, <2>3, Zenon DEF RowsKept
<1> QED
  BY <1>3, <1>10, <1>13, <1>15 DEF Sound

(* What is sound stays so as the graph goes on.                             *)
LEMMA SoundGrows == ASSUME NEW E, NEW F, E \subseteq F, NEW s, Sound(s, E) PROVE Sound(s, F)
BY DEF Sound, RowsKept

-----------------------------------------------------------------------------
(* The directories.                                                         *)

(* A directory that is there is whole, and its identity is that of an       *)
(* operation that has begun.                                                *)
Whole(d) == d = NoDir \/ (d.complete = TRUE /\ Sound(d.snap, seen) /\ d.snap.sid \in Nat /\ d.snap.sid <= ops)
Older(d) == d # NoDir => d.snap.sid < ops

GraphKept == graph.edges \subseteq seen /\ Known(seen)

DirsKept ==
    /\ ops \in Nat /\ disk = [path |-> disk.path, backup |-> disk.backup]
    /\ Whole(disk.path) /\ Whole(disk.backup) /\ Whole(handle)

(* The object in memory is the directory, between operations and while one  *)
(* is prepared.                                                             *)
HandleKept ==
    /\ Holds /\ op.pc \notin {"swap", "refresh"} => handle = disk.path
    /\ Holds /\ op.pc = "swap" => handle = disk.backup

(* An operation has a new identity, or the next state of a directory.       *)
Fresh(o) == o.kind = "build" /\ o.snap.sid = ops /\ Older(disk.path) /\ Older(disk.backup)
Replacing(o, d) == o.kind = "replace" /\ d # NoDir /\ Continues(o.snap, d.snap)

Scanning(o) ==
    /\ o.pc = "edges" /\ IsSeq(o.nodes) /\ o.pin.edges \subseteq seen
    /\ Older(disk.path) /\ Older(disk.backup)
Stamping(o) ==
    /\ o.pc = "stamp" /\ Sound(o.snap, seen) /\ (Fresh(o) \/ Replacing(o, disk.path))
Writing(o) ==
    /\ o.pc \in {"arrays", "staging", "staged"} /\ DOMAIN o = {"pc", "kind", "snap"}
    /\ Sound(o.snap, seen) /\ (Fresh(o) \/ Replacing(o, disk.path))
Swapping(o) ==
    /\ o.pc = "swap" /\ DOMAIN o = {"pc", "kind", "snap"}
    /\ Sound(o.snap, seen) /\ Replacing(o, disk.backup) /\ disk.path = NoDir
Refreshing(o) == o.pc = "refresh" /\ disk.path # NoDir

OpKept == op = Idle \/ Scanning(op) \/ Stamping(op) \/ Writing(op) \/ Swapping(op) \/ Refreshing(op)

SnapInv == GraphKept /\ DirsKept /\ HandleKept /\ OpKept

(* At first there is nothing.                                               *)
LEMMA SnapStart == SnapInit => SnapInv
BY DEF SnapInit, SnapInv, GraphKept, Known, DirsKept, Whole, HandleKept, Holds, OpKept

(* While the graph is written, the snapshot stays as it is.                 *)
LEMMA SeenGrows ==
    ASSUME SnapInv, seen \subseteq seen', UNCHANGED <<disk, handle, op, ops>>
    PROVE  DirsKept' /\ HandleKept' /\ OpKept'
<1>1. \A s : Sound(s, seen) => Sound(s, seen')
  BY SoundGrows
<1>2. \A d : Whole(d) => Whole(d)'
  BY <1>1 DEF Whole
<1>3. DirsKept'
  BY <1>2 DEF SnapInv, DirsKept
<1>4. HandleKept'
  BY DEF SnapInv, HandleKept, Holds
<1>5. OpKept'
  BY <1>1 DEF SnapInv, OpKept, Scanning, Stamping, Writing, Swapping, Refreshing, Fresh, Replacing, Older
<1> QED
  BY <1>3, <1>4, <1>5

(* What is written was a record of an edge that has a key.                  *)
LEMMA WriterStep == ASSUME SnapInv, PutNode \/ PutEdge \/ DeleteEdge PROVE SnapInv'
<1>1. ASSUME NEW nodes, NEW edges, Write(nodes, edges), Known(edges) PROVE SnapInv'
  <2>1. seen' = seen \cup edges /\ graph'.edges = edges /\ UNCHANGED <<disk, handle, op, ops>>
    BY <1>1 DEF Write
  <2>2. GraphKept'
    BY <1>1, <2>1 DEF SnapInv, GraphKept, Known
  <2> QED
    BY <2>1, <2>2, SeenGrows DEF SnapInv
<1>2. Known(graph.edges)
  BY DEF SnapInv, GraphKept, Known
<1>3. CASE PutNode
  BY <1>1, <1>2, <1>3 DEF PutNode
<1>4. CASE PutEdge
  <2>1. PICK id \in Range(EdgeIds), l \in Links :
            Write(graph.nodes, {e \in graph.edges : e.id # id}
                                 \cup {[id |-> id, src |-> l.src, rel |-> l.rel, dst |-> l.dst]})
    BY <1>4 DEF PutEdge
  <2>2. PICK r : r = [id |-> id, src |-> l.src, rel |-> l.rel, dst |-> l.dst]
    OBVIOUS
  <2>3. PICK edges : edges = {e \in graph.edges : e.id # id} \cup {r}
    OBVIOUS
  <2>4. IsRecord(r) /\ r.id \in Range(EdgeIds) /\ (r.rel = NoRel \/ r.rel \in Range(RelationKeys))
    BY <2>2, KeysAssumption DEF IsRecord
  <2>5. Known(edges)
    BY <1>2, <2>3, <2>4 DEF Known
  <2>6. Write(graph.nodes, edges)
    BY <2>1, <2>2, <2>3
  <2> QED
    BY <1>1, <2>5, <2>6
<1>5. CASE DeleteEdge
  <2>1. PICK e \in graph.edges : Write(graph.nodes, graph.edges \ {e})
    BY <1>5 DEF DeleteEdge
  <2>2. Known(graph.edges \ {e})
    BY <1>2 DEF Known
  <2> QED
    BY <1>1, <2>1, <2>2
<1> QED
  BY <1>3, <1>4, <1>5

(* An operation begins from what is there.                                  *)
LEMMA BeginStep ==
    ASSUME SnapInv, NEW o, Begin(o), UNCHANGED <<graph, seq, seen, disk, handle>>, Scanning(o)' \/ Stamping(o)'
    PROVE  SnapInv'
<1>1. op.pc = "idle" /\ op' = o /\ ops' = ops + 1 /\ ops' \in Nat
  BY DEF Begin, SnapInv, DirsKept
<1>2. o.pc \in {"edges", "stamp"}
  BY DEF Scanning, Stamping
<1>3. GraphKept'
  BY DEF SnapInv, GraphKept
<1>4. \A d : Whole(d) => Whole(d)'
  BY <1>1 DEF Whole, SnapInv, DirsKept
<1>5. DirsKept'
  BY <1>1, <1>4 DEF SnapInv, DirsKept
<1>6. HandleKept'
  BY <1>1, <1>2 DEF SnapInv, HandleKept, Holds
<1>7. OpKept'
  BY <1>1 DEF OpKept
<1> QED
  BY <1>3, <1>5, <1>6, <1>7 DEF SnapInv

(* What was there before an operation began is older than it.               *)
LEMMA BeginOlder ==
    ASSUME SnapInv, NEW o, Begin(o), UNCHANGED disk
    PROVE  Older(disk.path)' /\ Older(disk.backup)'
<1>1. ops' = ops + 1 /\ ops \in Nat
  BY DEF Begin, SnapInv, DirsKept
<1> QED
  BY <1>1 DEF Older, SnapInv, DirsKept, Whole

(* build's first scan.                                                      *)
LEMMA BuildScanNodesStep == ASSUME SnapInv, BuildScanNodes PROVE SnapInv'
<1>1. PICK nodes : nodes = InKeyOrder(NodeKeys, graph.nodes)
  OBVIOUS
<1>2. PICK view \in BOOLEAN : Begin([pc |-> "edges", view |-> view, pin |-> graph, nodes |-> nodes])
  BY <1>1 DEF BuildScanNodes
<1>3. PICK o : o = [pc |-> "edges", view |-> view, pin |-> graph, nodes |-> nodes]
  OBVIOUS
<1>4. Begin(o) /\ UNCHANGED <<graph, seq, seen, disk, handle>>
  BY <1>2, <1>3 DEF BuildScanNodes
<1>5. IsSeq(nodes)
  BY <1>1, KeysInOrder, KeysAssumption DEF IsSeq
<1>6. Older(disk.path)' /\ Older(disk.backup)'
  BY <1>4, BeginOlder
<1>7. o.pin.edges \subseteq seen /\ o.pc = "edges" /\ o.nodes = nodes
  BY <1>3 DEF SnapInv, GraphKept
<1>8. Scanning(o)'
  BY <1>4, <1>5, <1>6, <1>7 DEF Scanning
<1> QED
  BY <1>4, <1>8, BeginStep

(* An operation on the snapshot in memory.                                  *)
LEMMA ReplaceStep ==
    ASSUME SnapInv, Holds, NEW fresh, NEW s, Sound(s, seen), Continues(s, handle.snap),
           Begin([pc |-> "stamp", kind |-> "replace", fresh |-> fresh, snap |-> s]),
           UNCHANGED <<graph, seq, seen, disk, handle>>
    PROVE  SnapInv'
<1>1. PICK o : o = [pc |-> "stamp", kind |-> "replace", fresh |-> fresh, snap |-> s]
  OBVIOUS
<1>2. o.pc = "stamp" /\ o.kind = "replace" /\ o.snap = s
  BY <1>1
<1>3. Begin(o)
  BY <1>1
<1>4. handle = disk.path /\ disk.path # NoDir
  BY <1>3 DEF Begin, SnapInv, HandleKept, Holds
<1>5. Stamping(o)'
  BY <1>2, <1>4 DEF Stamping, Replacing
<1> QED
  BY <1>3, <1>5, BeginStep

(* The snapshot in memory is sound.                                         *)
LEMMA HandleSound == ASSUME SnapInv, Holds PROVE Sound(handle.snap, seen)
BY DEF SnapInv, DirsKept, Whole, Holds

(* append_from_graph.                                                       *)
LEMMA AppendStep == ASSUME SnapInv, AppendFromGraph PROVE SnapInv'
<1>1. PICK ids \in SUBSET {e.id : e \in graph.edges} :
      \E batch \in {LET keyed == InKeyOrder(EdgeIds, ids)
                    IN  [i \in DOMAIN keyed |-> EdgeOf(graph.edges, keyed[i])]} :
         /\ ids # {}
         /\ \A i \in DOMAIN batch : /\ batch[i].rel # NoRel
                                    /\ \A r \in Range(handle.snap.rows) : r.id # batch[i].id
         /\ Begin([pc |-> "stamp", kind |-> "replace", fresh |-> TRUE,
                   snap |-> [AppendRows(handle.snap, batch) EXCEPT !.version = NoVersion]])
  BY DEF AppendFromGraph
<1>2. PICK batch \in {LET keyed == InKeyOrder(EdgeIds, ids)
                      IN  [i \in DOMAIN keyed |-> EdgeOf(graph.edges, keyed[i])]} :
         /\ \A i \in DOMAIN batch : \A r \in Range(handle.snap.rows) : r.id # batch[i].id
         /\ Begin([pc |-> "stamp", kind |-> "replace", fresh |-> TRUE,
                   snap |-> [AppendRows(handle.snap, batch) EXCEPT !.version = NoVersion]])
  BY <1>1
<1>3. PICK keyed : keyed = InKeyOrder(EdgeIds, ids) /\ batch = [i \in DOMAIN keyed |-> EdgeOf(graph.edges, keyed[i])]
  OBVIOUS
<1>4. PICK s : s = handle.snap
  OBVIOUS
<1>5. PICK t : t = AppendRows(s, batch)
  OBVIOUS
<1>6. PICK v : v = [t EXCEPT !.version = NoVersion]
  OBVIOUS
<1>7. /\ \A i \in DOMAIN batch, r \in Range(s.rows) : r.id # batch[i].id
      /\ Begin([pc |-> "stamp", kind |-> "replace", fresh |-> TRUE, snap |-> v])
  BY <1>2, <1>4, <1>5, <1>6
<1>8. Holds /\ UNCHANGED <<graph, seq, seen, disk, handle>>
  BY DEF AppendFromGraph
<1>9. Sound(s, seen) /\ Known(seen) /\ graph.edges \subseteq seen
  BY <1>4, <1>8, HandleSound DEF SnapInv, GraphKept
<1>10. IsSeq(keyed) /\ \A m \in DOMAIN keyed : keyed[m] \in ids
  BY <1>3, KeysInOrder, KeysAssumption DEF IsSeq
<1>11. \A m, o \in DOMAIN keyed : keyed[m] = keyed[o] => m = o
  BY <1>3, KeysInOrder, KeysAssumption DEF IsSeq
<1>12. PICK n \in Nat : DOMAIN keyed = 1 .. n
  BY <1>10, LenProperties DEF IsSeq
<1>13. batch \in [1 .. n -> Range(batch)] /\ DOMAIN batch = DOMAIN keyed
  BY <1>3, <1>12 DEF Range
<1>14. IsSeq(batch)
  BY <1>13, NumberedIsSeq
<1>15. \A i \in DOMAIN batch : batch[i] \in graph.edges /\ batch[i].id = keyed[i]
  BY <1>3, <1>10, <1>13, EdgeOfFinds
<1>16. Appendable(s, seen, batch)
  BY <1>7, <1>9, <1>11, <1>13, <1>14, <1>15 DEF Appendable, Range
<1>17. Sound(t, seen) /\ Continues(t, s)
  BY <1>5, <1>9, <1>16, AppendSound
<1>18. Sound(v, seen) /\ Continues(v, s)
  BY <1>6, <1>17, RelabelSound DEF Continues
<1> QED
  BY <1>4, <1>7, <1>8, <1>18, ReplaceStep

(* compact.                                                                 *)
LEMMA CompactStep == ASSUME SnapInv, Compact PROVE SnapInv'
<1>1. Holds /\ UNCHANGED <<graph, seq, seen, disk, handle>>
  BY DEF Compact
<1>2. PICK withGraph, live :
        Begin([pc |-> "stamp", kind |-> "replace", fresh |-> withGraph, snap |-> Pruned(handle.snap, live)])
  BY DEF Compact
<1>3. PICK s : s = handle.snap
  OBVIOUS
<1>4. PICK t : t = Pruned(s, live)
  OBVIOUS
<1>5. Sound(t, seen) /\ Continues(t, s)
  BY <1>1, <1>3, <1>4, HandleSound, PrunedSound
<1> QED
  BY <1>1, <1>2, <1>3, <1>4, <1>5, ReplaceStep

(* set_edge_weights.                                                        *)
LEMMA SetEdgeWeightsStep == ASSUME SnapInv, SetEdgeWeights PROVE SnapInv'
<1>1. Holds /\ UNCHANGED <<graph, seq, seen, disk, handle>>
  BY DEF SetEdgeWeights
<1>2. PICK s : s = handle.snap
  OBVIOUS
<1>3. PICK t : t = [s EXCEPT !.rows = [i \in DOMAIN @ |-> [@[i] EXCEPT !.w = 2]]]
  OBVIOUS
<1>4. Begin([pc |-> "stamp", kind |-> "replace", fresh |-> FALSE, snap |-> t])
  BY <1>2, <1>3 DEF SetEdgeWeights
<1>5. Sound(t, seen) /\ Continues(t, s)
  BY <1>1, <1>2, <1>3, HandleSound, ReweightedSound
<1> QED
  BY <1>1, <1>2, <1>4, <1>5, ReplaceStep

(* A step of an operation that leaves the directories alone.                *)
LEMMA WithinStep ==
    ASSUME SnapInv, op.pc \notin {"swap", "refresh"}, UNCHANGED <<graph, seq, seen, disk, handle, ops>>,
           op'.pc \notin {"swap", "refresh"}, OpKept'
    PROVE  SnapInv'
<1>1. GraphKept' /\ DirsKept'
  BY DEF SnapInv, GraphKept, DirsKept, Whole
<1>2. HandleKept'
  BY DEF SnapInv, HandleKept, Holds
<1> QED
  BY <1>1, <1>2 DEF SnapInv

(* build's second scan, of what the first one left or of the pinned view.   *)
LEMMA BuildScanEdgesStep == ASSUME SnapInv, BuildScanEdges PROVE SnapInv'
<1>1. Scanning(op) /\ UNCHANGED <<graph, seq, seen, disk, handle, ops>>
  BY DEF BuildScanEdges, SnapInv, OpKept, Idle, Stamping, Writing, Swapping, Refreshing
<1>2. PICK nodes : nodes = op.nodes
  OBVIOUS
<1>3. PICK edges : edges = Buildable(IF op.view THEN op.pin.edges ELSE graph.edges, Range(nodes))
  OBVIOUS
<1>4. PICK rels : rels = InKeyOrder(RelationKeys, {e.rel : e \in edges})
  OBVIOUS
<1>5. PICK rows : rows = BuiltRows(nodes, rels, edges)
  OBVIOUS
<1>6. PICK s : s = [sid |-> ops, nodes |-> nodes, rels |-> rels, gen |-> 0, rows |-> rows, compactions |-> 0,
                    version |-> NoVersion]
  OBVIOUS
<1>7. op' = [pc |-> "stamp", kind |-> "build", fresh |-> ~op.view, snap |-> s]
  BY <1>2, <1>3, <1>4, <1>5, <1>6 DEF BuildScanEdges
<1>8. DOMAIN s = Fields /\ s.sid = ops /\ s.nodes = nodes /\ s.rels = rels /\ s.rows = rows
  BY <1>6 DEF Fields
<1>9. edges \in SUBSET seen /\ \A e \in edges : e.src \in Range(nodes) /\ e.dst \in Range(nodes) /\ e.rel # NoRel
  BY <1>1, <1>3 DEF Buildable, Scanning, SnapInv, GraphKept
<1>10. IsSeq(nodes) /\ Known(seen)
  BY <1>1, <1>2 DEF Scanning, SnapInv, GraphKept
<1>11. Sound(s, seen)
  BY <1>4, <1>5, <1>8, <1>9, <1>10, BuildSound
<1>12. op'.pc = "stamp" /\ op'.kind = "build" /\ op'.snap = s
  BY <1>7
<1>13. Stamping(op)'
  BY <1>1, <1>8, <1>11, <1>12 DEF Stamping, Scanning, Fresh, Older
<1> QED
  BY <1>1, <1>12, <1>13, WithinStep DEF OpKept, Scanning

(* The stamp changes the version alone.                                     *)
LEMMA StampStep == ASSUME SnapInv, Stamp PROVE SnapInv'
<1>1. Stamping(op) /\ UNCHANGED <<graph, seq, seen, disk, handle, ops>>
  BY DEF Stamp, SnapInv, OpKept, Idle, Scanning, Writing, Swapping, Refreshing
<1>2. PICK s : s = op.snap
  OBVIOUS
<1>3. PICK t : t = IF op.fresh THEN [s EXCEPT !.version = seq] ELSE s
  OBVIOUS
<1>4. op' = [pc |-> "arrays", kind |-> op.kind, snap |-> t]
  BY <1>2, <1>3 DEF Stamp
<1>5. Sound(t, seen) /\ t.sid = s.sid /\ t.nodes = s.nodes /\ t.rels = s.rels
  <2>1. Sound(s, seen)
    BY <1>1, <1>2 DEF Stamping
  <2> QED
    BY <1>3, <2>1, RelabelSound
<1>6. op'.pc = "arrays" /\ op'.kind = op.kind /\ op'.snap = t /\ DOMAIN op' = {"pc", "kind", "snap"}
  BY <1>4
<1>7. Writing(op)'
  BY <1>1, <1>2, <1>5, <1>6 DEF Writing, Stamping, Fresh, Replacing, Continues, Older
<1> QED
  BY <1>1, <1>6, <1>7, WithinStep DEF OpKept, Stamping

(* The steps of _write that leave the directories alone.                    *)
LEMMA StageStep == ASSUME SnapInv, StageArrays \/ StageComplete PROVE SnapInv'
<1>1. Writing(op) /\ UNCHANGED <<graph, seq, seen, disk, handle, ops>>
  BY DEF StageArrays, StageComplete, SnapInv, OpKept, Idle, Scanning, Stamping, Swapping, Refreshing
<1>2. CASE op' = Idle
  BY <1>1, <1>2, WithinStep DEF OpKept, Idle, Writing
<1>3. CASE op' # Idle
  <2>1. PICK pc \in {"staging", "staged"} : op' = [op EXCEPT !.pc = pc]
    BY <1>3 DEF StageArrays, StageComplete
  <2>2. op'.pc = pc /\ op'.kind = op.kind /\ op'.snap = op.snap /\ DOMAIN op' = {"pc", "kind", "snap"}
    BY <1>1, <2>1 DEF Writing
  <2>3. Writing(op)'
    BY <1>1, <2>2 DEF Writing, Fresh, Replacing, Older
  <2> QED
    BY <1>1, <2>2, <2>3, WithinStep DEF OpKept, Writing
<1> QED
  BY <1>2, <1>3

(* A staged snapshot as a directory.                                        *)
LEMMA StagedWhole ==
    ASSUME SnapInv, op.pc \in {"staged", "swap"}, NEW d, d = Dir(TRUE, op.snap)
    PROVE  /\ Whole(d) /\ d # NoDir /\ d.complete /\ d.snap = op.snap
           /\ DOMAIN op = {"pc", "kind", "snap"}
<1>1. Writing(op) \/ Swapping(op)
  BY DEF SnapInv, OpKept, Idle, Scanning, Stamping, Refreshing
<1>2. d.complete = TRUE /\ d.snap = op.snap /\ d # NoDir
  BY DEF Dir, NoDir
<1>3. Sound(d.snap, seen) /\ DOMAIN op = {"pc", "kind", "snap"}
  BY <1>1, <1>2 DEF Writing, Swapping
<1>4. d.snap.sid \in Nat /\ d.snap.sid <= ops
  <2>1. ops \in Nat /\ Whole(disk.path) /\ Whole(disk.backup)
    BY DEF SnapInv, DirsKept
  <2>2. op.snap.sid = ops \/ \E old \in {disk.path, disk.backup} : old # NoDir /\ op.snap.sid = old.snap.sid
    BY <1>1 DEF Writing, Swapping, Fresh, Replacing, Continues
  <2>3. op.snap.sid \in Nat /\ op.snap.sid <= ops
    BY <2>1, <2>2 DEF Whole
  <2> QED
    BY <1>2, <2>3
<1> QED
  BY <1>1, <1>2, <1>3, <1>4 DEF Whole

(* The first snapshot gets its name.                                        *)
LEMMA PublishBuildStep == ASSUME SnapInv, PublishBuild PROVE SnapInv'
<1>1. PICK d : d = Dir(TRUE, op.snap)
  OBVIOUS
<1>2. Whole(d) /\ d # NoDir /\ DOMAIN op = {"pc", "kind", "snap"}
  BY <1>1, StagedWhole DEF PublishBuild
<1>3. disk' = [disk EXCEPT !.path = d] /\ op' = [op EXCEPT !.pc = "refresh"]
      /\ UNCHANGED <<graph, seq, seen, handle, ops>>
  BY <1>1 DEF PublishBuild
<1>4. disk' = [path |-> d, backup |-> disk.backup] /\ op'.pc = "refresh"
  BY <1>2, <1>3 DEF SnapInv, DirsKept
<1>5. disk'.path = d /\ disk'.backup = disk.backup /\ disk' = [path |-> disk'.path, backup |-> disk'.backup]
  BY <1>4
<1>6. DirsKept'
  BY <1>2, <1>3, <1>5 DEF SnapInv, DirsKept, Whole
<1>7. HandleKept' /\ OpKept'
  BY <1>2, <1>4, <1>5 DEF HandleKept, OpKept, Refreshing
<1> QED
  BY <1>3, <1>6, <1>7 DEF SnapInv, GraphKept

(* The old snapshot is set aside.                                           *)
LEMMA MoveToBackupStep == ASSUME SnapInv, MoveToBackup PROVE SnapInv'
<1>1. Writing(op) /\ Replacing(op, disk.path)
  BY DEF MoveToBackup, SnapInv, OpKept, Idle, Scanning, Stamping, Writing, Swapping, Refreshing, Fresh
<1>2. disk' = [path |-> NoDir, backup |-> disk.path] /\ op' = [op EXCEPT !.pc = "swap"]
      /\ UNCHANGED <<graph, seq, seen, handle, ops>>
  BY DEF MoveToBackup
<1>3. disk'.path = NoDir /\ disk'.backup = disk.path /\ disk' = [path |-> disk'.path, backup |-> disk'.backup]
  BY <1>2
<1>4. op'.pc = "swap" /\ op'.kind = op.kind /\ op'.snap = op.snap /\ DOMAIN op' = {"pc", "kind", "snap"}
  BY <1>1, <1>2 DEF Writing
<1>5. DirsKept'
  BY <1>2, <1>3 DEF SnapInv, DirsKept, Whole
<1>6. Swapping(op)'
  BY <1>1, <1>2, <1>3, <1>4 DEF Swapping, Writing, Replacing
<1>7. HandleKept'
  BY <1>2, <1>3, <1>4 DEF MoveToBackup, SnapInv, HandleKept, Holds
<1> QED
  BY <1>2, <1>5, <1>6, <1>7 DEF SnapInv, GraphKept, OpKept

(* The staged one takes its place, or the backup goes back.                 *)
LEMMA SwapStep == ASSUME SnapInv, Swap PROVE SnapInv'
<1>1. Swapping(op) /\ disk.backup # NoDir
  BY DEF Swap, SnapInv, OpKept, Idle, Scanning, Stamping, Writing, Swapping, Refreshing, Replacing
<1>2. PICK d : d = Dir(TRUE, op.snap)
  OBVIOUS
<1>3. Whole(d) /\ d # NoDir /\ DOMAIN op = {"pc", "kind", "snap"}
  BY <1>2, StagedWhole DEF Swap
<1>4. UNCHANGED <<graph, seq, seen, handle, ops>>
  BY DEF Swap
<1>5. CASE disk' = [path |-> d, backup |-> NoDir] /\ op' = [op EXCEPT !.pc = "refresh"]
  <2>1. /\ disk'.path = d /\ disk'.backup = NoDir /\ disk' = [path |-> disk'.path, backup |-> disk'.backup]
        /\ op'.pc = "refresh"
    BY <1>3, <1>5
  <2>2. DirsKept'
    BY <1>3, <1>4, <2>1 DEF SnapInv, DirsKept, Whole
  <2> QED
    BY <1>3, <1>4, <2>1, <2>2 DEF SnapInv, GraphKept, HandleKept, OpKept, Refreshing
<1>6. CASE disk' = [path |-> disk.backup, backup |-> NoDir] /\ op' = Idle
  <2>1. /\ disk'.path = disk.backup /\ disk'.backup = NoDir
        /\ disk' = [path |-> disk'.path, backup |-> disk'.backup]
    BY <1>6
  <2>2. DirsKept'
    BY <1>4, <2>1 DEF SnapInv, DirsKept, Whole
  <2>3. HandleKept'
    BY <1>1, <1>4, <1>6, <2>1 DEF SnapInv, HandleKept, Holds, Idle, Swapping
  <2> QED
    BY <1>4, <1>6, <2>2, <2>3 DEF SnapInv, GraphKept, OpKept
<1> QED
  BY <1>2, <1>5, <1>6 DEF Swap

(* What is loaded is the directory; a crash leaves nothing in memory.       *)
LEMMA MemoryStep == ASSUME SnapInv, Refresh \/ Load \/ Crash PROVE SnapInv'
<1>1. op' = Idle /\ handle' \in {NoDir, disk.path} /\ UNCHANGED <<graph, seq, seen, disk, ops>>
  <2>1. CASE Refresh \/ Crash
    BY <2>1 DEF Refresh, Crash
  <2>2. CASE Load
    BY <2>2 DEF Load, SnapInv, OpKept, Idle, Scanning, Stamping, Writing, Swapping, Refreshing
  <2> QED
    BY <2>1, <2>2
<1>2. DirsKept'
  BY <1>1 DEF SnapInv, DirsKept, Whole
<1>3. HandleKept'
  BY <1>1 DEF HandleKept, Holds, Idle
<1> QED
  BY <1>1, <1>2, <1>3 DEF SnapInv, GraphKept, OpKept

(* Every step keeps the invariant.                                          *)
LEMMA SnapStep == SnapInv /\ [SnapNext]_snapVars => SnapInv'
<1>1. ASSUME SnapInv, SnapNext PROVE SnapInv'
  BY <1>1, WriterStep, BuildScanNodesStep, BuildScanEdgesStep, StampStep, AppendStep, CompactStep,
     SetEdgeWeightsStep, StageStep, PublishBuildStep, MoveToBackupStep, SwapStep, MemoryStep DEF SnapNext
<1>2. ASSUME SnapInv, UNCHANGED snapVars PROVE SnapInv'
  <2>1. UNCHANGED <<graph, seq, seen, disk, handle, op, ops>>
    BY <1>2 DEF snapVars
  <2>2. GraphKept'
    BY <1>2, <2>1 DEF SnapInv, GraphKept
  <2> QED
    BY <1>2, <2>1, <2>2, SeenGrows DEF SnapInv
<1> QED
  BY <1>1, <1>2

-----------------------------------------------------------------------------
(* What the properties say of a step.                                       *)

(* What is kept is whole, and the latest of it.                             *)
LEMMA LatestSound ==
    ASSUME SnapInv, Kept
    PROVE  /\ Latest(disk) # NoDir /\ Latest(disk).complete /\ Sound(Latest(disk).snap, seen)
           /\ disk.path # NoDir => Latest(disk) = disk.path
           /\ disk.path = NoDir => Latest(disk) = disk.backup
BY DEF SnapInv, DirsKept, Whole, Kept, Latest, NoDir

(* No step loses the latest snapshot; one that replaces it has another      *)
(* identity or keeps the ids.                                               *)
LEMMA LatestStep ==
    ASSUME SnapInv, Kept, [SnapNext]_snapVars
    PROVE  Kept' /\ IsIdStable(Latest(disk).snap, Latest(disk').snap)
<1>1. PICK old : old = Latest(disk)
  OBVIOUS
<1>2. old # NoDir /\ old.complete /\ Sound(old.snap, seen)
  BY <1>1, LatestSound
<1>3. ASSUME NEW d, disk'.path = d, d.complete, d # NoDir,
             d.snap.sid # old.snap.sid \/ Continues(d.snap, old.snap)
      PROVE  Kept' /\ IsIdStable(old.snap, Latest(disk').snap)
  BY <1>3 DEF Kept, Latest, IsIdStable, Continues, Extends
<1>4. Continues(old.snap, old.snap)
  BY <1>2, ExtendsSelf DEF Continues, Sound
<1>5. ASSUME UNCHANGED disk PROVE Kept' /\ IsIdStable(old.snap, Latest(disk').snap)
  BY <1>1, <1>4, <1>5 DEF Kept, IsIdStable, Continues, Extends
<1>6. CASE PublishBuild
  <2>1. PICK d : d = Dir(TRUE, op.snap)
    OBVIOUS
  <2>2. d # NoDir /\ d.complete /\ d.snap = op.snap
    BY <1>6, <2>1, StagedWhole DEF PublishBuild
  <2>3. disk' = [disk EXCEPT !.path = d]
    BY <1>6, <2>1 DEF PublishBuild
  <2>4. disk'.path = d
    BY <2>3 DEF SnapInv, DirsKept
  <2>5. Fresh(op)
    BY <1>6 DEF PublishBuild, SnapInv, OpKept, Idle, Scanning, Stamping, Writing, Swapping, Refreshing, Replacing
  <2>6. d.snap.sid # old.snap.sid
    <3>1. old \in {disk.path, disk.backup}
      BY <1>1, LatestSound
    <3>2. old.snap.sid < ops /\ old.snap.sid \in Nat /\ ops \in Nat
      BY <1>2, <2>5, <3>1 DEF Fresh, Older, SnapInv, DirsKept, Whole
    <3> QED
      BY <2>2, <2>5, <3>2 DEF Fresh
  <2> QED
    BY <1>3, <1>1, <2>2, <2>4, <2>6
<1>7. CASE MoveToBackup
  <2>1. Replacing(op, disk.path)
    BY <1>7 DEF MoveToBackup, SnapInv, OpKept, Idle, Scanning, Stamping, Writing, Swapping, Refreshing, Fresh
  <2>2. disk' = [path |-> NoDir, backup |-> disk.path] /\ old = disk.path
    BY <1>1, <1>7, <2>1, LatestSound DEF MoveToBackup, Replacing
  <2>3. disk'.path = NoDir /\ disk'.backup = old
    BY <2>2
  <2> QED
    BY <1>1, <1>2, <1>4, <2>3 DEF Kept, Latest, IsIdStable, Continues, Extends
<1>8. CASE Swap
  <2>1. Replacing(op, disk.backup) /\ disk.path = NoDir
    BY <1>8 DEF Swap, SnapInv, OpKept, Idle, Scanning, Stamping, Writing, Swapping, Refreshing
  <2>2. old = disk.backup
    BY <1>1, <2>1, LatestSound
  <2>3. PICK d : d = Dir(TRUE, op.snap)
    OBVIOUS
  <2>4. d # NoDir /\ d.complete /\ d.snap = op.snap
    BY <1>8, <2>3, StagedWhole DEF Swap
  <2>5. CASE disk' = [path |-> d, backup |-> NoDir]
    <3>1. disk'.path = d /\ Continues(d.snap, old.snap)
      BY <2>1, <2>2, <2>4, <2>5 DEF Replacing
    <3> QED
      BY <1>1, <1>3, <2>4, <3>1
  <2>6. CASE disk' = [path |-> disk.backup, backup |-> NoDir]
    <3>1. disk'.path = old
      BY <2>2, <2>6
    <3> QED
      BY <1>1, <1>2, <1>3, <1>4, <3>1
  <2> QED
    BY <1>8, <2>3, <2>5, <2>6 DEF Swap
<1>9. CASE UNCHANGED disk
  BY <1>1, <1>5, <1>9
<1> QED
  BY <1>6, <1>7, <1>8, <1>9 DEF SnapNext, snapVars, PutNode, PutEdge, DeleteEdge, Write, BuildScanNodes,
     BuildScanEdges, Stamp, AppendFromGraph, Compact, SetEdgeWeights, StageArrays, StageComplete, Refresh,
     Load, Crash

(* SnapshotDurable: whatever builds, appends, compactions and reweightings  *)
(* run, and wherever the process dies or a rename fails, what is at the     *)
(* snapshot's path is whole, and the last copy of a snapshot stays.         *)
THEOREM DirectoriesDurable == SnapSpec => SnapshotDurable
<1>1. SnapInv => (disk.path # NoDir => disk.path.complete)
  BY DEF SnapInv, DirsKept, Whole
<1>2. SnapInv /\ [SnapNext]_snapVars => [Kept => Kept']_snapVars
  BY LatestStep
<1> QED
  BY <1>1, <1>2, SnapStart, SnapStep, PTL DEF SnapSpec, SnapshotDurable

(* IdsStable: each row of a loaded snapshot stands for a record the graph   *)
(* held, and the compact ids of nodes and relations are never renumbered    *)
(* under an identity.                                                       *)
THEOREM CompactIdsStable == SnapSpec => IdsStable
<1>1. SnapInv => RowsFaithful
  <2> SUFFICES ASSUME SnapInv, Holds PROVE RowsFaithful
    BY DEF RowsFaithful
  <2>1. Sound(handle.snap, seen)
    BY HandleSound
  <2>2. \A r \in Range(handle.snap.rows) : Record(handle.snap, r) \in seen
    BY <2>1 DEF Sound, RowsKept, Range
  <2> QED
    BY <2>1, <2>2 DEF RowsFaithful, Sound, RowsKept
<1>2. SnapInv /\ [SnapNext]_snapVars => [Kept => IsIdStable(Latest(disk).snap, Latest(disk').snap)]_snapVars
  BY LatestStep
<1> QED
  BY <1>1, <1>2, SnapStart, SnapStep, PTL DEF SnapSpec, IdsStable

-----------------------------------------------------------------------------
(* The feeder.                                                              *)

(* The batches in a queue.                                                  *)
Batches(q) == {i \in DOMAIN q : q[i] > 0}

(* Another item is one more batch, or none.                                 *)
LEMMA BatchesAppended ==
    ASSUME NEW q \in Seq(Int), NEW x \in Int
    PROVE  /\ IsFiniteSet(Batches(q)) /\ Cardinality(Batches(q)) \in Nat
           /\ Cardinality(Batches(Append(q, x))) = Cardinality(Batches(q)) + IF x > 0 THEN 1 ELSE 0
<1>1. Len(q) \in Nat /\ DOMAIN q = 1 .. Len(q)
  BY LenProperties
<1>2. IsFiniteSet(Batches(q))
  <2>1. IsFiniteSet(DOMAIN q)
    BY <1>1, FS_Interval
  <2> QED
    BY <2>1, FS_Subset DEF Batches
<1>3. PICK r : r = Append(q, x)
  OBVIOUS
<1>4. DOMAIN r = 1 .. Len(q) + 1 /\ (\A i \in 1 .. Len(q) : r[i] = q[i]) /\ r[Len(q) + 1] = x
  BY <1>1, <1>3, AppendProperties, LenProperties
<1>5. CASE x > 0
  <2>1. Batches(r) = Batches(q) \cup {Len(q) + 1} /\ Len(q) + 1 \notin Batches(q)
    BY <1>1, <1>4, <1>5 DEF Batches
  <2> QED
    BY <1>2, <1>3, <1>5, <2>1, FS_AddElement, FS_CardinalityType
<1>6. CASE ~(x > 0)
  <2>1. Batches(r) = Batches(q)
    BY <1>1, <1>4, <1>6 DEF Batches
  <2> QED
    BY <1>2, <1>3, <1>6, <2>1, FS_CardinalityType
<1> QED
  BY <1>2, <1>5, <1>6, FS_CardinalityType

(* Without its head, a queue has a batch less, or as many.                  *)
LEMMA BatchesTaken ==
    ASSUME NEW q \in Seq(Int), q # <<>>
    PROVE  /\ Tail(q) \in Seq(Int) /\ Head(q) = q[1] /\ 1 \in DOMAIN q
           /\ \A i \in DOMAIN Tail(q) : i + 1 \in DOMAIN q /\ Tail(q)[i] = q[i + 1] /\ i \in Nat /\ i > 0
           /\ Cardinality(Batches(Tail(q))) = Cardinality(Batches(q)) - IF Head(q) > 0 THEN 1 ELSE 0
<1>1. PICK r : r = Tail(q)
  OBVIOUS
<1>2. Len(q) \in Nat /\ DOMAIN q = 1 .. Len(q) /\ Len(q) # 0
  BY LenProperties, EmptySeq
<1>3. r \in Seq(Int) /\ Len(r) = Len(q) - 1 /\ \A i \in 1 .. Len(r) : r[i] = q[i + 1]
  BY <1>1, HeadTailProperties
<1>4. DOMAIN r = 1 .. Len(q) - 1 /\ Head(q) = q[1] /\ 1 \in DOMAIN q
  BY <1>2, <1>3, LenProperties
<1>5. \A i \in DOMAIN r : i + 1 \in DOMAIN q /\ r[i] = q[i + 1] /\ i \in Nat /\ i > 0
  BY <1>2, <1>3, <1>4
<1>6. PICK K : K = Batches(q) \ {1}
  OBVIOUS
<1>7. IsFiniteSet(Batches(q)) /\ IsFiniteSet(Batches(r)) /\ Cardinality(Batches(q)) \in Nat
  BY <1>3, BatchesAppended
<1>8. IsFiniteSet(K) /\ Cardinality(K) = Cardinality(Batches(q)) - IF Head(q) > 0 THEN 1 ELSE 0
  <2>1. 1 \in Batches(q) <=> Head(q) > 0
    BY <1>4 DEF Batches
  <2> QED
    BY <1>6, <1>7, <2>1, FS_RemoveElement
<1>9. PICK f : f = [i \in Batches(r) |-> i + 1]
  OBVIOUS
<1>10. f \in Bijection(Batches(r), K)
  <2>1. \A i \in Batches(r) : i \in Nat /\ i + 1 \in K
    BY <1>5, <1>6 DEF Batches
  <2>2. ASSUME NEW k \in K PROVE k - 1 \in Batches(r) /\ f[k - 1] = k
    <3>1. k \in 2 .. Len(q) /\ q[k] > 0
      BY <1>2, <1>6 DEF Batches
    <3>2. k - 1 \in DOMAIN r /\ (k - 1) + 1 = k
      BY <1>2, <1>4, <3>1
    <3> QED
      BY <1>5, <1>9, <3>1, <3>2 DEF Batches
  <2>3. f \in [Batches(r) -> K] /\ \A i, j \in Batches(r) : f[i] = f[j] => i = j
    BY <1>9, <2>1
  <2> QED
    BY <2>2, <2>3 DEF Bijection, Injection, Surjection, IsInjective
<1>11. Cardinality(K) = Cardinality(Batches(r))
  BY <1>7, <1>10, FS_Bijection DEF ExistsBijection
<1> QED
  BY <1>1, <1>3, <1>4, <1>5, <1>8, <1>11

FeedTypes ==
    /\ queue \in Seq(Int) /\ stopped \in BOOLEAN /\ made \in Nat /\ taken \in Nat /\ starts \in Nat
    /\ producer \in [pc : {"dead", "run", "call", "test", "put", "failed"}, item : Int]
    /\ taker \in [Consumers -> [pc : {"idle", "waiting"}, got : Int]]
    /\ producer.pc \notin {"test", "put"} => producer.item = Nothing

(* Each batch in the queue was made later than those before it and those    *)
(* taken, and the one in the producer's hands later than all of them.       *)
InOrder ==
    /\ \A i \in DOMAIN queue : queue[i] <= made
    /\ \A i, j \in DOMAIN queue : i < j /\ queue[i] > 0 /\ queue[j] > 0 => queue[i] < queue[j]
    /\ \A c \in Consumers, i \in DOMAIN queue : queue[i] > 0 => taker[c].got < queue[i]
    /\ \A c \in Consumers : taker[c].got <= made
    /\ producer.item <= made
    /\ producer.item > 0 => /\ \A i \in DOMAIN queue : queue[i] < producer.item
                            /\ \A c \in Consumers : taker[c].got < producer.item

(* A thread that has not met the stop event yet may still lose a batch.     *)
InHand == IF producer.item > 0 THEN 1 ELSE 0
AtRisk == IF producer.pc \in {"call", "test", "put"} \/ (producer.pc = "run" /\ ~stopped) THEN 1 ELSE 0
Balances(m, t, b, h, s, r) == m - t - b - h \in 0 .. s - r
Counted == Balances(made, taken, Cardinality(Batches(queue)), InHand, starts, AtRisk)

FeedInv == FeedTypes /\ InOrder /\ Counted

(* A new feeder has done nothing.                                           *)
LEMMA FeedStart == FeedInit => FeedInv
<1> SUFFICES ASSUME FeedInit PROVE FeedInv
  OBVIOUS
<1>1. FeedTypes
  <2>1. PICK r : r = [pc |-> "idle", got |-> Nothing]
    OBVIOUS
  <2>2. r \in [pc : {"idle", "waiting"}, got : Int]
    BY <2>1 DEF Nothing
  <2>3. taker = [c \in Consumers |-> r]
    BY <2>1 DEF FeedInit
  <2>4. PICK d : d = [pc |-> "dead", item |-> Nothing]
    OBVIOUS
  <2>5. d \in [pc : {"dead", "run", "call", "test", "put", "failed"}, item : Int] /\ d.item = Nothing
    BY <2>4 DEF Nothing
  <2>6. producer = d /\ queue \in Seq(Int)
    BY <2>4 DEF FeedInit
  <2> QED
    BY <2>2, <2>3, <2>5, <2>6 DEF FeedInit, FeedTypes
<1>2. queue = <<>> /\ DOMAIN queue = {}
  BY DEF FeedInit
<1>3. InOrder
  BY <1>2 DEF FeedInit, InOrder, Nothing
<1>4. Cardinality(Batches(queue)) = 0
  BY <1>2, FS_EmptySet DEF Batches
<1>5. Counted
  BY <1>4 DEF FeedInit, Counted, Balances, InHand, AtRisk, Nothing
<1> QED
  BY <1>1, <1>3, <1>5 DEF FeedInv

(* What the queue holds is counted.                                         *)
LEMMA QueueCounted ==
    ASSUME FeedInv PROVE Cardinality(Batches(queue)) \in Nat /\ Len(queue) \in Nat /\ DOMAIN queue = 1 .. Len(queue)
BY BatchesAppended, LenProperties DEF FeedInv, FeedTypes

(* The numbers are natural ones.                                            *)
LEMMA Numbers ==
    FeedInv => /\ made \in Nat /\ taken \in Nat /\ starts \in Nat
               /\ InHand \in {0, 1} /\ AtRisk \in {0, 1} /\ AtRisk' \in {0, 1} /\ InHand' \in {0, 1}
BY DEF FeedInv, FeedTypes, InHand, AtRisk

(* start, the ends of stop, and the thread's steps that leave the queue     *)
(* alone.                                                                   *)
LEMMA OwnerStep ==
    ASSUME FeedInv, Start \/ SignalStop \/ Join \/ LoopTest \/ Fail
    PROVE  FeedInv'
<1>1. PICK b \in Nat : b = Cardinality(Batches(queue))
  BY QueueCounted
<1>2. UNCHANGED <<queue, made, taken, taker>>
  BY DEF Start, SignalStop, Join, LoopTest, Fail
<1>3. producer' = producer \/ (producer'.item = Nothing /\ producer.item = Nothing)
  BY DEF Start, SignalStop, Join, LoopTest, Fail, IsAlive, FeedInv, FeedTypes
<1>4. FeedTypes'
  <2>1. stopped' \in BOOLEAN /\ starts' \in Nat
    <3>1. starts \in Nat /\ stopped \in BOOLEAN
      BY DEF FeedInv, FeedTypes
    <3>2. CASE Start
      <4>1. starts' \in Nat
        BY <3>1, <3>2 DEF Start
      <4>2. stopped' = stopped \/ stopped' = FALSE
        BY <3>2 DEF Start
      <4>3. stopped' \in BOOLEAN
        BY <3>1, <4>2
      <4> QED
        BY <4>1, <4>3
    <3>3. CASE SignalStop \/ Join \/ LoopTest \/ Fail
      BY <3>1, <3>3 DEF SignalStop, Join, LoopTest, Fail
    <3> QED
      BY <3>2, <3>3
  <2>2. producer' = producer \/ \E pc \in {"run", "call", "dead"} : producer' = [pc |-> pc, item |-> Nothing]
    BY DEF Start, SignalStop, Join, LoopTest, Fail, IsAlive
  <2>3. CASE producer' = producer
    BY <1>2, <2>1, <2>3 DEF FeedInv, FeedTypes
  <2>4. ASSUME NEW pc \in {"run", "call", "dead"}, producer' = [pc |-> pc, item |-> Nothing] PROVE FeedTypes'
    <3>1. PICK r : r = [pc |-> pc, item |-> Nothing]
      OBVIOUS
    <3>2. r \in [pc : {"dead", "run", "call", "test", "put", "failed"}, item : Int] /\ r.item = Nothing
      BY <3>1 DEF Nothing
    <3>3. producer' = r
      BY <2>4, <3>1
    <3> QED
      BY <1>2, <2>1, <3>2, <3>3 DEF FeedInv, FeedTypes
  <2> QED
    BY <2>2, <2>3, <2>4
<1>5. InOrder'
  BY <1>2, <1>3 DEF FeedInv, InOrder, Nothing
<1>6. Cardinality(Batches(queue))' = b
  BY <1>1, <1>2
<1>7. InHand' = InHand
  BY <1>3 DEF InHand
<1>8. AtRisk' + starts <= AtRisk + starts' /\ starts' \in Nat
  BY DEF Start, SignalStop, Join, LoopTest, Fail, IsAlive, AtRisk, FeedInv, FeedTypes
<1>9. PICK r, s : r = AtRisk' /\ s = starts'
  OBVIOUS
<1>10. Balances(made, taken, b, InHand, s, r)
  BY <1>1, <1>8, <1>9, Numbers DEF FeedInv, Counted, Balances
<1>11. Counted'
  BY <1>2, <1>6, <1>7, <1>9, <1>10 DEF Counted
<1> QED
  BY <1>4, <1>5, <1>11 DEF FeedInv

(* A batch is made, or the call fails.                                      *)
LEMMA ProducerReturnsStep == ASSUME FeedInv, ProducerReturns PROVE FeedInv'
<1>1. PICK b \in Nat : b = Cardinality(Batches(queue))
  BY QueueCounted
<1>2. UNCHANGED <<queue, stopped, taken, taker, starts>> /\ producer.item = Nothing /\ made \in Nat
  BY DEF ProducerReturns, FeedInv, FeedTypes
<1>3. \/ made' = made + 1 /\ producer' = [pc |-> "test", item |-> made + 1]
      \/ made' = made /\ producer' = [pc |-> "test", item |-> Failure]
  BY DEF ProducerReturns
<1>4. FeedTypes'
  <2>1. PICK x, r : x \in Int /\ producer' = r /\ r = [pc |-> "test", item |-> x] /\ made' \in Nat
    BY <1>2, <1>3 DEF Failure
  <2>2. r \in [pc : {"dead", "run", "call", "test", "put", "failed"}, item : Int] /\ r.pc = "test"
    BY <2>1
  <2> QED
    BY <1>2, <2>1, <2>2 DEF FeedInv, FeedTypes
<1>5. InOrder'
  <2>1. made \in Int /\ (\A i \in DOMAIN queue : queue[i] \in Int) /\ \A c \in Consumers : taker[c].got \in Int
    BY QueueCounted, ElementOfSeq DEF FeedInv, FeedTypes
  <2> QED
    BY <1>2, <1>3, <2>1 DEF FeedInv, InOrder, Failure
<1>6. Cardinality(Batches(queue))' = b
  BY <1>1, <1>2
<1>7. AtRisk' = 1 /\ AtRisk = 1 /\ InHand = 0 /\ InHand' = made' - made
  BY <1>2, <1>3 DEF ProducerReturns, AtRisk, InHand, Failure, Nothing
<1>8. PICK m : m = made'
  OBVIOUS
<1>9. PICK h \in {0, 1} : h = InHand' /\ m = made + h
  BY <1>3, <1>7, <1>8, Numbers
<1>10. Balances(m, taken, b, h, starts, 1)
  BY <1>1, <1>7, <1>9, Numbers DEF FeedInv, Counted, Balances
<1>11. Counted'
  BY <1>2, <1>6, <1>7, <1>8, <1>9, <1>10 DEF Counted
<1> QED
  BY <1>4, <1>5, <1>11 DEF FeedInv

(* The thread tests the stop event: a batch it drops is the run's only one. *)
LEMMA TestStoppedStep == ASSUME FeedInv, TestStopped PROVE FeedInv'
<1>1. PICK b \in Nat : b = Cardinality(Batches(queue))
  BY QueueCounted
<1>2. UNCHANGED <<queue, stopped, made, taken, taker, starts>>
  BY DEF TestStopped
<1>3. \/ stopped /\ producer'.pc \in {"failed", "run"} /\ producer' = [pc |-> producer'.pc, item |-> Nothing]
      \/ producer' = [producer EXCEPT !.pc = "put"]
  BY DEF TestStopped, Handed
<1>4. FeedTypes'
  BY <1>2, <1>3 DEF FeedInv, FeedTypes, Nothing
<1>5. producer'.item = producer.item \/ producer'.item = Nothing
  BY <1>3 DEF FeedInv, FeedTypes
<1>6. InOrder'
  BY <1>2, <1>5 DEF FeedInv, FeedTypes, InOrder, Nothing
<1>7. Cardinality(Batches(queue))' = b
  BY <1>1, <1>2
<1>8. AtRisk = 1 /\ InHand \in {0, 1} 
      /\ ((InHand' = InHand /\ AtRisk' = 1) \/ (InHand' = 0 /\ AtRisk' = 0))
  BY <1>2, <1>3 DEF TestStopped, AtRisk, InHand, Nothing, FeedInv, FeedTypes
<1>9. PICK h, r : h = InHand' /\ r = AtRisk'
  OBVIOUS
<1>10. Balances(made, taken, b, h, starts, r)
  BY <1>1, <1>8, <1>9, Numbers DEF FeedInv, Counted, Balances
<1>11. Counted'
  BY <1>2, <1>7, <1>9, <1>10 DEF Counted
<1> QED
  BY <1>4, <1>6, <1>11 DEF FeedInv

(* Something is put at the end of the queue.                                *)
LEMMA QueueGrows ==
    ASSUME FeedInv, NEW x \in Int, queue' = Append(queue, x),
           x > 0 => /\ x <= made
                    /\ \A i \in DOMAIN queue : queue[i] < x
                    /\ \A c \in Consumers : taker[c].got < x,
           UNCHANGED <<made, taken, taker, starts>>, FeedTypes', AtRisk' <= AtRisk,
           x > 0 => producer.item = x /\ producer'.item = Nothing,
           ~(x > 0) => producer'.item = producer.item \/ (producer'.item = Nothing /\ ~(producer.item > 0))
    PROVE  FeedInv'
<1>1. PICK b \in Nat : b = Cardinality(Batches(queue))
  BY QueueCounted
<1>2. PICK n \in Nat : n = Len(queue) /\ DOMAIN queue = 1 .. n /\ queue \in Seq(Int)
  BY QueueCounted DEF FeedInv, FeedTypes
<1>3. PICK q : q = Append(queue, x)
  OBVIOUS
<1>4. DOMAIN q = 1 .. n + 1 /\ (\A i \in 1 .. n : q[i] = queue[i]) /\ q[n + 1] = x
  BY <1>2, <1>3, AppendProperties, LenProperties
<1>5. made \in Nat /\ (\A i \in 1 .. n : queue[i] \in Int) /\ \A c \in Consumers : taker[c].got \in Int
  BY <1>2, ElementOfSeq DEF FeedInv, FeedTypes
<1>6. \A i \in DOMAIN q : (i \in 1 .. n /\ q[i] = queue[i]) \/ (i = n + 1 /\ q[i] = x)
  BY <1>4
<1>7. \A i \in DOMAIN q : q[i] <= made
  BY <1>2, <1>5, <1>6 DEF FeedInv, InOrder
<1>8. \A i, j \in DOMAIN q : i < j /\ q[i] > 0 /\ q[j] > 0 => q[i] < q[j]
  BY <1>2, <1>6 DEF FeedInv, InOrder
<1>9. \A c \in Consumers, i \in DOMAIN q : q[i] > 0 => taker[c].got < q[i]
  BY <1>2, <1>6 DEF FeedInv, InOrder
<1>10. producer'.item > 0 => ~(x > 0) /\ producer'.item = producer.item
  BY DEF Nothing
<1>11. producer'.item > 0 => \A i \in DOMAIN q : q[i] < producer'.item
  BY <1>2, <1>6, <1>10 DEF FeedInv, FeedTypes, InOrder
<1>12. InOrder'
  BY <1>3, <1>5, <1>7, <1>8, <1>9, <1>10, <1>11 DEF FeedInv, InOrder, Nothing
<1>13. Cardinality(Batches(queue))' = b + IF x > 0 THEN 1 ELSE 0
  BY <1>1, <1>2, BatchesAppended
<1>14. PICK d \in {0, 1} : d = IF x > 0 THEN 1 ELSE 0
  OBVIOUS
<1>15. InHand' + d = InHand
  BY <1>14 DEF InHand, Nothing
<1>16. PICK h, r, k : h = InHand' /\ r = AtRisk' /\ k = Cardinality(Batches(queue))'
  OBVIOUS
<1>17. k = b + d
  BY <1>13, <1>14, <1>16
<1>18. Balances(made, taken, k, h, starts, r)
  <2>1. /\ made \in Nat /\ taken \in Nat /\ starts \in Nat /\ AtRisk \in {0, 1}
        /\ r \in {0, 1} /\ r <= AtRisk /\ h \in {0, 1} /\ InHand = h + d
    BY <1>15, <1>16, Numbers
  <2>2. Balances(made, taken, b, InHand, starts, AtRisk)
    BY <1>1 DEF FeedInv, Counted
  <2>3. made - taken - b - (h + d) \in 0 .. starts - AtRisk
    BY <2>1, <2>2 DEF Balances
  <2>4. made - taken - (b + d) - h \in 0 .. starts - r
    BY <2>1, <2>3
  <2> QED
    BY <1>17, <2>4 DEF Balances
<1>19. Counted'
  BY <1>16, <1>18 DEF Counted
<1> QED
  BY <1>12, <1>19 DEF FeedInv

(* What the invariant speaks of is left alone.                              *)
LEMMA FeedSame ==
    ASSUME FeedInv, UNCHANGED <<queue, stopped, producer, made, taken, taker, starts>> PROVE FeedInv'
<1>1. FeedTypes'
  BY DEF FeedInv, FeedTypes
<1>2. InOrder'
  BY DEF FeedInv, InOrder
<1>3. Counted'
  BY DEF FeedInv, Counted, AtRisk, InHand
<1> QED
  BY <1>1, <1>2, <1>3 DEF FeedInv

(* stop's wake-up, if it fits.                                              *)
LEMMA WakeConsumersStep == ASSUME FeedInv, WakeConsumers PROVE FeedInv'
<1>1. UNCHANGED <<stopped, producer, made, taken, taker, starts>>
  BY DEF WakeConsumers
<1>2. AtRisk' = AtRisk /\ AtRisk \in {0, 1}
  BY <1>1 DEF AtRisk
<1>3. CASE queue' = Append(queue, Stop)
  <2>1. PICK x \in Int : x = Stop /\ ~(x > 0)
    BY DEF Stop
  <2>2. queue' = Append(queue, x) /\ queue' \in Seq(Int)
    BY <1>3, <2>1, AppendProperties DEF FeedInv, FeedTypes
  <2>3. FeedTypes'
    BY <1>1, <2>2 DEF FeedInv, FeedTypes
  <2>4. producer'.item = producer.item
    BY <1>1
  <2> QED
    BY <1>1, <1>2, <2>1, <2>2, <2>3, <2>4, QueueGrows
<1>4. CASE queue' = queue
  <2>1. UNCHANGED <<queue, stopped, producer, made, taken, taker, starts>>
    BY <1>1, <1>4
  <2> QED
    BY <2>1, FeedSame
<1> QED
  BY <1>3, <1>4 DEF WakeConsumers

(* The thread puts its item, if it fits.                                    *)
LEMMA PutStep == ASSUME FeedInv, Put PROVE FeedInv'
<1>1. UNCHANGED <<stopped, made, taken, taker, starts>> /\ AtRisk = 1
  BY DEF Put, AtRisk
<1>2. CASE queue' = Append(queue, producer.item) /\ producer' = Handed(producer.item)
  <2>1. PICK x \in Int : x = producer.item
    BY DEF FeedInv, FeedTypes
  <2>2. queue' = Append(queue, x) /\ queue' \in Seq(Int)
    BY <1>2, <2>1, AppendProperties DEF FeedInv, FeedTypes
  <2>3. PICK pc \in {"failed", "run"} : producer' = [pc |-> pc, item |-> Nothing]
    BY <1>2 DEF Handed
  <2>4. producer' \in [pc : {"dead", "run", "call", "test", "put", "failed"}, item : Int] /\ producer'.item = Nothing
    BY <2>3 DEF Nothing
  <2>5. FeedTypes'
    BY <1>1, <2>2, <2>4 DEF FeedInv, FeedTypes
  <2>6. AtRisk' <= AtRisk
    BY <1>1 DEF AtRisk
  <2>7. x > 0 => /\ x <= made
                 /\ \A i \in DOMAIN queue : queue[i] < x
                 /\ \A c \in Consumers : taker[c].got < x
    BY <2>1 DEF FeedInv, InOrder
  <2> QED
    BY <1>1, <2>1, <2>2, <2>4, <2>5, <2>6, <2>7, QueueGrows
<1>3. CASE queue' = queue /\ producer' = [producer EXCEPT !.pc = "test"]
  <2>1. producer'.pc = "test" /\ producer'.item = producer.item
    BY <1>3 DEF FeedInv, FeedTypes
  <2>2. FeedTypes'
    BY <1>1, <1>3 DEF FeedInv, FeedTypes
  <2>3. InOrder'
    BY <1>1, <1>3, <2>1 DEF FeedInv, InOrder
  <2>4. AtRisk' = AtRisk /\ InHand' = InHand
    BY <1>1, <2>1 DEF AtRisk, InHand
  <2>5. Counted'
    BY <1>1, <1>3, <2>4 DEF FeedInv, Counted
  <2> QED
    BY <2>2, <2>3, <2>5 DEF FeedInv
<1> QED
  BY <1>2, <1>3 DEF Put

(* A consumer waits.                                                        *)
LEMMA GetStep == ASSUME FeedInv, NEW c \in Consumers, Get(c) PROVE FeedInv'
<1>1. UNCHANGED <<queue, stopped, producer, made, taken, starts>> /\ taker' = [taker EXCEPT ![c].pc = "waiting"]
  BY DEF Get
<1>2. FeedTypes'
  BY <1>1 DEF FeedInv, FeedTypes
<1>3. \A k \in Consumers : taker'[k].got = taker[k].got
  BY <1>1 DEF FeedInv, FeedTypes
<1>4. InOrder'
  BY <1>1, <1>3 DEF FeedInv, InOrder
<1>5. Counted'
  BY <1>1 DEF FeedInv, Counted, AtRisk, InHand
<1> QED
  BY <1>2, <1>4, <1>5 DEF FeedInv

(* A consumer takes the head of the queue.                                  *)
LEMMA TakeStep == ASSUME FeedInv, NEW c \in Consumers, Take(c) PROVE FeedInv'
<1>1. PICK x : x = Head(queue)
  OBVIOUS
<1>2. PICK r : r = [pc |-> "idle", got |-> x]
  OBVIOUS
<1>3. PICK q : q = Tail(queue)
  OBVIOUS
<1>4. /\ taker' = [taker EXCEPT ![c] = r] /\ queue' = q /\ taken' = taken + IF x > 0 THEN 1 ELSE 0
      /\ UNCHANGED <<stopped, producer, made, starts>>
  BY <1>1, <1>2, <1>3 DEF Take
<1>5. queue \in Seq(Int) /\ queue # <<>> /\ \A i \in DOMAIN queue : queue[i] \in Int
  BY ElementOfSeq, QueueCounted DEF Take, FeedInv, FeedTypes
<1>6. q \in Seq(Int) /\ x = queue[1] /\ 1 \in DOMAIN queue
  BY <1>1, <1>3, <1>5, BatchesTaken
<1>7. \A i \in DOMAIN q : i + 1 \in DOMAIN queue /\ q[i] = queue[i + 1] /\ i \in Nat /\ i > 0
  BY <1>3, <1>5, BatchesTaken
<1>8. x \in Int /\ x <= made /\ made \in Nat
  BY <1>5, <1>6 DEF FeedInv, FeedTypes, InOrder
<1>9. taken' \in Nat
  BY <1>4, <1>8, Numbers
<1>10. r \in [pc : {"idle", "waiting"}, got : Int] /\ r.got = x
  BY <1>2, <1>8
<1>11. FeedTypes'
  BY <1>4, <1>6, <1>9, <1>10 DEF FeedInv, FeedTypes
<1>12. ASSUME NEW k \in Consumers PROVE taker'[k].got = taker[k].got \/ (k = c /\ taker'[k].got = x)
  BY <1>4, <1>10 DEF FeedInv, FeedTypes
<1>13. \A i \in DOMAIN q : q[i] > 0 => x < q[i]
  <2>1. ASSUME NEW i \in DOMAIN q, q[i] > 0 PROVE x < q[i]
    <3>1. i + 1 \in DOMAIN queue /\ q[i] = queue[i + 1] /\ 1 < i + 1 /\ queue[i + 1] \in Int
      BY <1>5, <1>7
    <3>2. x > 0 => x < q[i]
      BY <1>6, <2>1, <3>1 DEF FeedInv, InOrder
    <3> QED
      BY <1>8, <2>1, <3>1, <3>2
  <2> QED
    BY <2>1
<1>14. producer.item > 0 => x < producer.item
  BY <1>6 DEF FeedInv, InOrder
<1>15. InOrder'
  <2>1. \A i \in DOMAIN q : q[i] <= made
    BY <1>7 DEF FeedInv, InOrder
  <2>2. \A i, j \in DOMAIN q : i < j /\ q[i] > 0 /\ q[j] > 0 => q[i] < q[j]
    BY <1>7 DEF FeedInv, InOrder
  <2>3. \A k \in Consumers, i \in DOMAIN q : q[i] > 0 => taker'[k].got < q[i]
    BY <1>7, <1>12, <1>13 DEF FeedInv, InOrder
  <2>4. \A k \in Consumers : taker'[k].got <= made
    BY <1>8, <1>12 DEF FeedInv, InOrder
  <2>5. producer.item > 0 => /\ \A i \in DOMAIN q : q[i] < producer.item
                             /\ \A k \in Consumers : taker'[k].got < producer.item
    BY <1>7, <1>12, <1>14 DEF FeedInv, InOrder
  <2> QED
    BY <1>4, <2>1, <2>2, <2>3, <2>4, <2>5 DEF FeedInv, InOrder
<1>16. PICK b \in Nat : b = Cardinality(Batches(queue))
  BY QueueCounted
<1>17. PICK d \in {0, 1} : d = IF x > 0 THEN 1 ELSE 0
  OBVIOUS
<1>18. PICK k : k = Cardinality(Batches(q))
  OBVIOUS
<1>19. k = b - d
  BY <1>1, <1>3, <1>5, <1>16, <1>17, <1>18, BatchesTaken
<1>20. PICK t : t = taken + d
  OBVIOUS
<1>21. Balances(made, t, k, InHand, starts, AtRisk)
  <2>1. Balances(made, taken, b, InHand, starts, AtRisk)
    BY <1>16 DEF FeedInv, Counted
  <2> QED
    BY <1>19, <1>20, <2>1, Numbers DEF Balances
<1>22. taken' = t /\ AtRisk' = AtRisk /\ InHand' = InHand
  BY <1>4, <1>17, <1>20 DEF AtRisk, InHand
<1>23. Counted'
  BY <1>4, <1>18, <1>21, <1>22 DEF Counted
<1> QED
  BY <1>11, <1>15, <1>23 DEF FeedInv

(* Every step keeps the invariant.                                          *)
LEMMA FeedKept == FeedInv /\ [FeedStep]_feedVars => FeedInv'
<1>1. ASSUME FeedInv, FeedStep PROVE FeedInv'
  BY <1>1, OwnerStep, WakeConsumersStep, ProducerReturnsStep, TestStoppedStep, PutStep, GetStep, TakeStep
     DEF FeedStep
<1>2. ASSUME FeedInv, UNCHANGED feedVars PROVE FeedInv'
  BY <1>2, FeedSame DEF feedVars
<1> QED
  BY <1>1, <1>2

(* FeedOrdered: with any queue size, number of consumers, failures and      *)
(* restarts, batches arrive in order and once, and each start loses at most *)
(* one.                                                                     *)
THEOREM BatchesOrdered == FeedSpec => []FeedOrdered
<1>1. FeedInv => FeedOrdered
  <2> SUFFICES ASSUME FeedInv PROVE FeedOrdered
    OBVIOUS
  <2>1. PICK x \in Int : x = producer.item
    BY DEF FeedInv, FeedTypes
  <2>2. PICK p : p = Append(queue, x)
    OBVIOUS
  <2>3. PICK n \in Nat : n = Len(queue) /\ DOMAIN queue = 1 .. n /\ queue \in Seq(Int)
    BY QueueCounted DEF FeedInv, FeedTypes
  <2>4. DOMAIN p = 1 .. n + 1 /\ (\A i \in 1 .. n : p[i] = queue[i]) /\ p[n + 1] = x
    BY <2>2, <2>3, AppendProperties, LenProperties
  <2>5. \A i \in DOMAIN p : (i \in 1 .. n /\ p[i] = queue[i]) \/ (i = n + 1 /\ p[i] = x)
    BY <2>4
  <2>6. \A i, j \in DOMAIN p : i < j /\ p[i] > 0 /\ p[j] > 0 => p[i] < p[j]
    BY <2>1, <2>3, <2>5 DEF FeedInv, InOrder
  <2>7. \A c \in Consumers, i \in DOMAIN p : p[i] > 0 => taker[c].got < p[i]
    BY <2>1, <2>3, <2>5 DEF FeedInv, InOrder
  <2>8. Pending = p /\ Underway = Batches(p)
    BY <2>1, <2>2 DEF Pending, Underway, Batches
  <2>9. PICK b \in Nat : b = Cardinality(Batches(queue))
    BY QueueCounted
  <2>10. PICK h \in {0, 1} : h = InHand
    BY Numbers
  <2>11. Cardinality(Underway) = b + h
    BY <2>1, <2>2, <2>3, <2>8, <2>9, <2>10, BatchesAppended DEF InHand
  <2>12. made - taken - (b + h) \in 0 .. starts
    <3>1. made - taken - b - h \in 0 .. starts - AtRisk
      BY <2>9, <2>10 DEF FeedInv, Counted, Balances
    <3> QED
      BY <3>1, Numbers
  <2>13. \A i, j \in Underway : i < j => Pending[i] < Pending[j]
    BY <2>6, <2>8 DEF Batches
  <2>14. \A c \in Consumers, i \in Underway : taker[c].got < Pending[i]
    BY <2>7, <2>8 DEF Batches
  <2> QED
    BY <2>11, <2>12, <2>13, <2>14 DEF FeedOrdered
<1> QED
  BY <1>1, FeedStart, FeedKept, PTL DEF FeedSpec

-----------------------------------------------------------------------------
(* Sorting: Ranked lists a finite set in its order.                         *)

Under(S, R, x) == {y \in S : <<y, x>> \in R}
StrictlyOrders(R, S) ==
    /\ \A x \in S : <<x, x>> \notin R
    /\ \A x, y, z \in S : <<x, y>> \in R /\ <<y, z>> \in R => <<x, z>> \in R
    /\ \A x, y \in S : x # y => <<x, y>> \in R \/ <<y, x>> \in R

(* The ranks of a finite set under a strict total order are 0 up to its     *)
(* size, once each.                                                         *)
LEMMA PlacesInOrder ==
    ASSUME NEW S, IsFiniteSet(S), NEW R, StrictlyOrders(R, S)
    PROVE  /\ Cardinality(S) \in Nat
           /\ \A x \in S : Cardinality(Under(S, R, x)) \in 0 .. Cardinality(S) - 1
           /\ \A x, y \in S : <<x, y>> \in R => Cardinality(Under(S, R, x)) < Cardinality(Under(S, R, y))
           /\ \A k \in 0 .. Cardinality(S) - 1 : \E x \in S : Cardinality(Under(S, R, x)) = k
<1>1. PICK n : n = Cardinality(S)
  OBVIOUS
<1>2. n \in Nat
  BY <1>1, FS_CardinalityType
<1>3. ASSUME NEW x \in S PROVE Cardinality(Under(S, R, x)) \in 0 .. n - 1
  <2>1. PICK A : A = Under(S, R, x)
    OBVIOUS
  <2>2. A \in SUBSET (S \ {x}) /\ IsFiniteSet(S \ {x}) /\ Cardinality(S \ {x}) = n - 1
    BY <1>1, <2>1, FS_RemoveElement DEF Under, StrictlyOrders
  <2>3. IsFiniteSet(A) /\ Cardinality(A) <= n - 1
    BY <2>2, FS_Subset
  <2>4. Cardinality(A) \in Nat
    BY <2>3, FS_CardinalityType
  <2> QED
    BY <1>2, <2>1, <2>3, <2>4
<1>4. ASSUME NEW x \in S, NEW y \in S, <<x, y>> \in R
      PROVE  Cardinality(Under(S, R, x)) < Cardinality(Under(S, R, y))
  <2>1. PICK A : A = Under(S, R, x)
    OBVIOUS
  <2>2. PICK B : B = Under(S, R, y)
    OBVIOUS
  <2>3. x \in B /\ x \notin A /\ A \subseteq B /\ B \in SUBSET S
    BY <1>4, <2>1, <2>2 DEF Under, StrictlyOrders
  <2>4. IsFiniteSet(B) /\ A \in SUBSET B /\ A # B
    BY <2>3, FS_Subset
  <2>5. Cardinality(A) <= Cardinality(B) /\ Cardinality(A) # Cardinality(B)
    BY <2>4, FS_Subset
  <2>6. Cardinality(A) \in Nat /\ Cardinality(B) \in Nat
    BY <1>2, <1>3, <2>1, <2>2
  <2> QED
    BY <2>1, <2>2, <2>5, <2>6
<1>5. \A x, y \in S : Cardinality(Under(S, R, x)) = Cardinality(Under(S, R, y)) => x = y
  <2> SUFFICES ASSUME NEW x \in S, NEW y \in S, x # y
               PROVE  Cardinality(Under(S, R, x)) # Cardinality(Under(S, R, y))
    OBVIOUS
  <2>1. <<x, y>> \in R \/ <<y, x>> \in R
    BY DEF StrictlyOrders
  <2>2. Cardinality(Under(S, R, x)) \in Int /\ Cardinality(Under(S, R, y)) \in Int
    BY <1>2, <1>3
  <2> QED
    BY <1>4, <2>1, <2>2
<1>6. IsFiniteSet(0 .. n - 1) /\ Cardinality(0 .. n - 1) = n
  <2>1. 0 \in Int /\ n - 1 \in Int /\ (IF 0 > n - 1 THEN 0 ELSE (n - 1) - 0 + 1) = n
    BY <1>2
  <2> QED
    BY <2>1, FS_Interval
<1>7. PICK g : g = [x \in S |-> Cardinality(Under(S, R, x))]
  OBVIOUS
<1>8. g \in [S -> 0 .. n - 1] /\ \A x, y \in S : g[x] = g[y] => x = y
  BY <1>3, <1>5, <1>7
<1>9. g \in Injection(S, 0 .. n - 1)
  BY <1>8 DEF Injection, IsInjective
<1>10. g \in Surjection(S, 0 .. n - 1)
  BY <1>1, <1>6, <1>9, FS_Injection
<1>11. \A k \in 0 .. n - 1 : \E x \in S : Cardinality(Under(S, R, x)) = k
  BY <1>7, <1>10 DEF Surjection
<1> QED
  BY <1>1, <1>2, <1>3, <1>4, <1>11

(* A sequence that has each of its elements at its place lists the set.     *)
Items(s, S) ==
    /\ Len(s) \in Nat /\ DOMAIN s = 1 .. Len(s) /\ s \in Seq(S)
    /\ \A i \in DOMAIN s : s[i] \in S
    /\ \A x \in S : \E i \in DOMAIN s : s[i] = x

(* A function on the first numbers is a sequence.                           *)
LEMMA ListedIsSeq ==
    ASSUME NEW n \in Nat, NEW S, NEW s \in [1 .. n -> S]
    PROVE  s \in Seq(S) /\ Len(s) = n
<1>1. s \in Seq(S)
  BY SeqDef
<1> QED
  BY <1>1, LenProperties

(* A sequence of elements by their rank lists a set once and in order.      *)
LEMMA PlacedInOrder ==
    ASSUME NEW S, IsFiniteSet(S), NEW R, StrictlyOrders(R, S), NEW s,
           DOMAIN s = 1 .. Cardinality(S), s = [i \in 1 .. Cardinality(S) |-> s[i]],
           \A i \in DOMAIN s : s[i] \in S /\ Cardinality(Under(S, R, s[i])) = i - 1
    PROVE  Items(s, S) /\ \A i, j \in DOMAIN s : i < j => <<s[i], s[j]>> \in R
<1>1. PICK n : n = Cardinality(S)
  OBVIOUS
<1>2. n \in Nat
  BY <1>1, PlacesInOrder
<1>3. s \in [1 .. n -> S]
  BY <1>1
<1>4. s \in Seq(S)
  BY <1>2, <1>3, ListedIsSeq
<1>5. Len(s) = n
  BY <1>2, <1>3, ListedIsSeq
<1>6. ASSUME NEW x \in S PROVE \E i \in DOMAIN s : s[i] = x
  <2>1. PICK k : k = Cardinality(Under(S, R, x))
    OBVIOUS
  <2>2. k \in 0 .. n - 1
    BY <1>1, <2>1, PlacesInOrder
  <2>3. k + 1 \in 1 .. n /\ (k + 1) - 1 = k
    BY <1>2, <2>2
  <2>4. s[k + 1] \in S /\ Cardinality(Under(S, R, s[k + 1])) = k
    BY <1>1, <2>3
  <2>5. \A y \in S : <<x, y>> \in R => k < Cardinality(Under(S, R, y))
    BY <2>1, PlacesInOrder
  <2>6. \A y \in S : <<y, x>> \in R => Cardinality(Under(S, R, y)) < k
    BY <2>1, PlacesInOrder
  <2>7. s[k + 1] = x
    <3>1. PICK y \in S : y = s[k + 1]
      BY <2>4
    <3>2. k \in Int /\ ~(k < k) /\ Cardinality(Under(S, R, y)) = k
      BY <2>2, <2>4, <3>1
    <3>3. ~(<<x, y>> \in R) /\ ~(<<y, x>> \in R)
      BY <2>5, <2>6, <3>2
    <3> QED
      BY <3>1, <3>3 DEF StrictlyOrders
  <2> QED
    BY <1>1, <2>3, <2>7
<1>7. ASSUME NEW i \in DOMAIN s, NEW j \in DOMAIN s, i < j PROVE <<s[i], s[j]>> \in R
  <2>1. i \in Int /\ j \in Int /\ i - 1 # j - 1 /\ ~(j - 1 < i - 1)
    BY <1>1, <1>2, <1>7
  <2>2. s[i] # s[j]
    BY <2>1
  <2>3. ~(<<s[j], s[i]>> \in R)
    <3>1. \A x, y \in S : <<x, y>> \in R => Cardinality(Under(S, R, x)) < Cardinality(Under(S, R, y))
      BY PlacesInOrder
    <3> QED
      BY <2>1, <3>1
  <2> QED
    BY <2>2, <2>3 DEF StrictlyOrders
<1> QED
  BY <1>1, <1>2, <1>4, <1>5, <1>6, <1>7 DEF Items

(* Intervals, and the records of what a version still shows.                *)
Intervals == {iv \in [from : Int, to : Int] : iv.from < iv.to}
IsShown(r) ==
    /\ r = [v |-> r.v, n |-> r.n, iv |-> r.iv]
    /\ r.v.lid \in Int /\ r.n \in Int /\ r.iv \in Intervals

(* Intervals by their start, versions by their commit, rows by their ids, ids.*)
LEMMA IntervalsListed ==
    ASSUME NEW S, IsFiniteSet(S), S \subseteq Intervals
    PROVE  /\ Items(Ranked(S, ByStart), S)
           /\ \A i, j \in DOMAIN Ranked(S, ByStart) : i < j => ByStart(Ranked(S, ByStart)[i], Ranked(S, ByStart)[j])
<1>1. PICK R : R = {p \in S \X S : ByStart(p[1], p[2])}
  OBVIOUS
<1>2. \A x, y \in S : <<x, y>> \in R <=> ByStart(x, y)
  BY <1>1
<1>3. StrictlyOrders(R, S)
  <2>1. \A x \in S : ~ByStart(x, x)
    BY DEF ByStart, Intervals
  <2>2. \A x, y, z \in S : ByStart(x, y) /\ ByStart(y, z) => ByStart(x, z)
    BY DEF ByStart, Intervals
  <2>3. \A x, y \in S : x # y => ByStart(x, y) \/ ByStart(y, x)
    BY DEF ByStart, Intervals
  <2> QED
    BY <1>2, <2>1, <2>2, <2>3 DEF StrictlyOrders
<1>4. PICK s : s = Ranked(S, ByStart)
  OBVIOUS
<1>5. PICK n : n = Cardinality(S)
  OBVIOUS
<1>6. n \in Nat /\ DOMAIN s = 1 .. n /\ s = [i \in 1 .. n |-> s[i]]
  <2>1. n \in Nat
    BY <1>5, FS_CardinalityType
  <2> DEFINE Nth(i) == CHOOSE x \in S : Cardinality({y \in S : ByStart(y, x)}) = i - 1
  <2>2. s = [i \in 1 .. n |-> Nth(i)]
    BY <1>4, <1>5 DEF Ranked
  <2> HIDE DEF Nth
  <2> QED
    BY <2>1, <2>2
<1>7. ASSUME NEW i \in 1 .. n PROVE s[i] \in S /\ Cardinality(Under(S, R, s[i])) = i - 1
  <2>1. \A x \in S : {y \in S : ByStart(y, x)} = Under(S, R, x)
    BY <1>2 DEF Under
  <2>2. i - 1 \in 0 .. n - 1
    BY <1>6
  <2>3. \E x \in S : Cardinality(Under(S, R, x)) = i - 1
    BY <1>3, <1>5, <2>2, PlacesInOrder
  <2>4. \E x \in S : Cardinality({y \in S : ByStart(y, x)}) = i - 1
    BY <2>1, <2>3
  <2>5. s[i] = CHOOSE x \in S : Cardinality({y \in S : ByStart(y, x)}) = i - 1
    BY <1>4, <1>5 DEF Ranked
  <2>6. s[i] \in S /\ Cardinality({y \in S : ByStart(y, s[i])}) = i - 1
    BY <2>4, <2>5
  <2> QED
    BY <2>1, <2>6
<1>8. Items(s, S) /\ \A i, j \in DOMAIN s : i < j => <<s[i], s[j]>> \in R
  BY <1>3, <1>5, <1>6, <1>7, PlacedInOrder
<1>9. \A i \in DOMAIN s : s[i] \in S
  BY <1>5, <1>6, <1>7
<1>10. \A i, j \in DOMAIN s : i < j => ByStart(s[i], s[j])
  BY <1>2, <1>8, <1>9
<1> QED
  BY <1>4, <1>8, <1>10

(* Versions are listed once each, the newest first.                         *)
LEMMA VersionsListed ==
    ASSUME NEW S, IsFiniteSet(S), \A x \in S : x.n \in Int, \A x, y \in S : x.n = y.n => x = y
    PROVE  /\ Items(Ranked(S, Newer), S)
           /\ \A i, j \in DOMAIN Ranked(S, Newer) : i < j => Newer(Ranked(S, Newer)[i], Ranked(S, Newer)[j])
<1>1. PICK R : R = {p \in S \X S : Newer(p[1], p[2])}
  OBVIOUS
<1>2. \A x, y \in S : <<x, y>> \in R <=> Newer(x, y)
  BY <1>1
<1>3. StrictlyOrders(R, S)
  <2>1. \A x \in S : ~Newer(x, x)
    BY DEF Newer
  <2>2. \A x, y, z \in S : Newer(x, y) /\ Newer(y, z) => Newer(x, z)
    BY DEF Newer
  <2>3. \A x, y \in S : x # y => Newer(x, y) \/ Newer(y, x)
    BY DEF Newer
  <2> QED
    BY <1>2, <2>1, <2>2, <2>3 DEF StrictlyOrders
<1>4. PICK s : s = Ranked(S, Newer)
  OBVIOUS
<1>5. PICK n : n = Cardinality(S)
  OBVIOUS
<1>6. n \in Nat /\ DOMAIN s = 1 .. n /\ s = [i \in 1 .. n |-> s[i]]
  <2>1. n \in Nat
    BY <1>5, FS_CardinalityType
  <2> DEFINE Nth(i) == CHOOSE x \in S : Cardinality({y \in S : Newer(y, x)}) = i - 1
  <2>2. s = [i \in 1 .. n |-> Nth(i)]
    BY <1>4, <1>5 DEF Ranked
  <2> HIDE DEF Nth
  <2> QED
    BY <2>1, <2>2
<1>7. ASSUME NEW i \in 1 .. n PROVE s[i] \in S /\ Cardinality(Under(S, R, s[i])) = i - 1
  <2>1. \A x \in S : {y \in S : Newer(y, x)} = Under(S, R, x)
    BY <1>2 DEF Under
  <2>2. i - 1 \in 0 .. n - 1
    BY <1>6
  <2>3. \E x \in S : Cardinality(Under(S, R, x)) = i - 1
    BY <1>3, <1>5, <2>2, PlacesInOrder
  <2>4. \E x \in S : Cardinality({y \in S : Newer(y, x)}) = i - 1
    BY <2>1, <2>3
  <2>5. s[i] = CHOOSE x \in S : Cardinality({y \in S : Newer(y, x)}) = i - 1
    BY <1>4, <1>5 DEF Ranked
  <2>6. s[i] \in S /\ Cardinality({y \in S : Newer(y, s[i])}) = i - 1
    BY <2>4, <2>5
  <2> QED
    BY <2>1, <2>6
<1>8. Items(s, S) /\ \A i, j \in DOMAIN s : i < j => <<s[i], s[j]>> \in R
  BY <1>3, <1>5, <1>6, <1>7, PlacedInOrder
<1>9. \A i \in DOMAIN s : s[i] \in S
  BY <1>5, <1>6, <1>7
<1>10. \A i, j \in DOMAIN s : i < j => Newer(s[i], s[j])
  BY <1>2, <1>8, <1>9
<1> QED
  BY <1>4, <1>8, <1>10

(* RowsKept are listed once each, in the order of the arrays.                   *)
LEMMA RowsListed ==
    ASSUME NEW S, IsFiniteSet(S), \A x \in S : IsShown(x),
           \A x, y \in S : x.n = y.n => x.v = y.v
    PROVE  /\ Items(Ranked(S, ByRow), S)
           /\ \A i, j \in DOMAIN Ranked(S, ByRow) : i < j => ByRow(Ranked(S, ByRow)[i], Ranked(S, ByRow)[j])
<1>1. PICK R : R = {p \in S \X S : ByRow(p[1], p[2])}
  OBVIOUS
<1>2. \A x, y \in S : <<x, y>> \in R <=> ByRow(x, y)
  BY <1>1
<1>3. StrictlyOrders(R, S)
  <2>1. \A x \in S : ~ByRow(x, x)
    BY DEF ByRow, ByStart, IsShown, Intervals
  <2>2. \A x, y, z \in S : ByRow(x, y) /\ ByRow(y, z) => ByRow(x, z)
    BY DEF ByRow, ByStart, IsShown, Intervals
  <2>3. \A x, y \in S : x # y => ByRow(x, y) \/ ByRow(y, x)
    BY DEF ByRow, ByStart, IsShown, Intervals
  <2> QED
    BY <1>2, <2>1, <2>2, <2>3 DEF StrictlyOrders
<1>4. PICK s : s = Ranked(S, ByRow)
  OBVIOUS
<1>5. PICK n : n = Cardinality(S)
  OBVIOUS
<1>6. n \in Nat /\ DOMAIN s = 1 .. n /\ s = [i \in 1 .. n |-> s[i]]
  <2>1. n \in Nat
    BY <1>5, FS_CardinalityType
  <2> DEFINE Nth(i) == CHOOSE x \in S : Cardinality({y \in S : ByRow(y, x)}) = i - 1
  <2>2. s = [i \in 1 .. n |-> Nth(i)]
    BY <1>4, <1>5 DEF Ranked
  <2> HIDE DEF Nth
  <2> QED
    BY <2>1, <2>2
<1>7. ASSUME NEW i \in 1 .. n PROVE s[i] \in S /\ Cardinality(Under(S, R, s[i])) = i - 1
  <2>1. \A x \in S : {y \in S : ByRow(y, x)} = Under(S, R, x)
    BY <1>2 DEF Under
  <2>2. i - 1 \in 0 .. n - 1
    BY <1>6
  <2>3. \E x \in S : Cardinality(Under(S, R, x)) = i - 1
    BY <1>3, <1>5, <2>2, PlacesInOrder
  <2>4. \E x \in S : Cardinality({y \in S : ByRow(y, x)}) = i - 1
    BY <2>1, <2>3
  <2>5. s[i] = CHOOSE x \in S : Cardinality({y \in S : ByRow(y, x)}) = i - 1
    BY <1>4, <1>5 DEF Ranked
  <2>6. s[i] \in S /\ Cardinality({y \in S : ByRow(y, s[i])}) = i - 1
    BY <2>4, <2>5
  <2> QED
    BY <2>1, <2>6
<1>8. Items(s, S) /\ \A i, j \in DOMAIN s : i < j => <<s[i], s[j]>> \in R
  BY <1>3, <1>5, <1>6, <1>7, PlacedInOrder
<1>9. \A i \in DOMAIN s : s[i] \in S
  BY <1>5, <1>6, <1>7
<1>10. \A i, j \in DOMAIN s : i < j => ByRow(s[i], s[j])
  BY <1>2, <1>8, <1>9
<1> QED
  BY <1>4, <1>8, <1>10

(* Numbers are listed once each, in ascending order.                        *)
LEMMA NumbersListed ==
    ASSUME NEW S, IsFiniteSet(S), S \subseteq Int
    PROVE  /\ Items(Ranked(S, Before), S)
           /\ \A i, j \in DOMAIN Ranked(S, Before) : i < j => Before(Ranked(S, Before)[i], Ranked(S, Before)[j])
<1>1. PICK R : R = {p \in S \X S : Before(p[1], p[2])}
  OBVIOUS
<1>2. \A x, y \in S : <<x, y>> \in R <=> Before(x, y)
  BY <1>1
<1>3. StrictlyOrders(R, S)
  <2>1. \A x \in S : ~Before(x, x)
    BY DEF Before
  <2>2. \A x, y, z \in S : Before(x, y) /\ Before(y, z) => Before(x, z)
    BY DEF Before
  <2>3. \A x, y \in S : x # y => Before(x, y) \/ Before(y, x)
    BY DEF Before
  <2> QED
    BY <1>2, <2>1, <2>2, <2>3 DEF StrictlyOrders
<1>4. PICK s : s = Ranked(S, Before)
  OBVIOUS
<1>5. PICK n : n = Cardinality(S)
  OBVIOUS
<1>6. n \in Nat /\ DOMAIN s = 1 .. n /\ s = [i \in 1 .. n |-> s[i]]
  <2>1. n \in Nat
    BY <1>5, FS_CardinalityType
  <2> DEFINE Nth(i) == CHOOSE x \in S : Cardinality({y \in S : Before(y, x)}) = i - 1
  <2>2. s = [i \in 1 .. n |-> Nth(i)]
    BY <1>4, <1>5 DEF Ranked
  <2> HIDE DEF Nth
  <2> QED
    BY <2>1, <2>2
<1>7. ASSUME NEW i \in 1 .. n PROVE s[i] \in S /\ Cardinality(Under(S, R, s[i])) = i - 1
  <2>1. \A x \in S : {y \in S : Before(y, x)} = Under(S, R, x)
    BY <1>2 DEF Under
  <2>2. i - 1 \in 0 .. n - 1
    BY <1>6
  <2>3. \E x \in S : Cardinality(Under(S, R, x)) = i - 1
    BY <1>3, <1>5, <2>2, PlacesInOrder
  <2>4. \E x \in S : Cardinality({y \in S : Before(y, x)}) = i - 1
    BY <2>1, <2>3
  <2>5. s[i] = CHOOSE x \in S : Cardinality({y \in S : Before(y, x)}) = i - 1
    BY <1>4, <1>5 DEF Ranked
  <2>6. s[i] \in S /\ Cardinality({y \in S : Before(y, s[i])}) = i - 1
    BY <2>4, <2>5
  <2> QED
    BY <2>1, <2>6
<1>8. Items(s, S) /\ \A i, j \in DOMAIN s : i < j => <<s[i], s[j]>> \in R
  BY <1>3, <1>5, <1>6, <1>7, PlacedInOrder, SMTT(30)
<1>9. \A i \in DOMAIN s : s[i] \in S
  BY <1>5, <1>6, <1>7
<1>10. \A i, j \in DOMAIN s : i < j => Before(s[i], s[j])
  BY <1>2, <1>8, <1>9
<1> QED
  BY <1>4, <1>8, <1>10
-----------------------------------------------------------------------------
(* Intervals: what they cover, without one another and joined.              *)

Covered(S, t) == \E iv \in S : ValidAt(iv, t)
Apart(S) == \A t \in Int : \A p, q \in S : ValidAt(p, t) /\ ValidAt(q, t) => p = q

(* The pieces that are left of an interval contain the instants outside the *)
(* cut.                                                                     *)
LEMMA CutShows ==
    ASSUME NEW p \in Intervals, NEW c \in Intervals, NEW S, S = Cut(p, c)
    PROVE  /\ S \subseteq Intervals /\ IsFiniteSet(S) /\ Apart(S)
           /\ \A t \in Int : Covered(S, t) <=> ValidAt(p, t) /\ ~ValidAt(c, t)
<1>1. PICK a : a = [p EXCEPT !.to = c.from]
  OBVIOUS
<1>2. PICK b : b = [p EXCEPT !.from = c.to]
  OBVIOUS
<1>3. /\ p \in [from : Int, to : Int] /\ p.from \in Int /\ p.to \in Int /\ p.from < p.to
      /\ c.from \in Int /\ c.to \in Int /\ c.from < c.to
  BY DEF Intervals
<1>4. a \in [from : Int, to : Int] /\ a.from = p.from /\ a.to = c.from
  BY <1>1, <1>3
<1>5. b \in [from : Int, to : Int] /\ b.from = c.to /\ b.to = p.to
  BY <1>2, <1>3
<1>6. S = IF c.to <= p.from \/ c.from >= p.to THEN {p} ELSE {q \in {a, b} : q.from < q.to}
  BY <1>1, <1>2 DEF Cut
<1>7. S \subseteq {p, a, b}
  BY <1>6
<1>8. IsFiniteSet({p, a, b})
  <2>1. IsFiniteSet({p})
    BY FS_Singleton
  <2>2. IsFiniteSet({p} \cup {a})
    BY <2>1, FS_AddElement
  <2>3. IsFiniteSet(({p} \cup {a}) \cup {b})
    BY <2>2, FS_AddElement
  <2>4. ({p} \cup {a}) \cup {b} = {p, a, b}
    OBVIOUS
  <2> QED
    BY <2>3, <2>4
<1>9. IsFiniteSet(S)
  BY <1>7, <1>8, FS_Subset
<1>10. S \subseteq Intervals
  BY <1>4, <1>5, <1>6 DEF Intervals
<1>11. ASSUME NEW t \in Int, NEW q \in S, NEW r \in S, ValidAt(q, t), ValidAt(r, t) PROVE q = r
  BY <1>3, <1>4, <1>5, <1>6, <1>11 DEF ValidAt
<1>12. ASSUME NEW t \in Int PROVE Covered(S, t) <=> ValidAt(p, t) /\ ~ValidAt(c, t)
  <2>1. CASE c.to <= p.from \/ c.from >= p.to
    BY <1>3, <1>6, <2>1 DEF ValidAt, Covered
  <2>2. CASE ~(c.to <= p.from \/ c.from >= p.to)
    <3>1. Covered(S, t) <=> (a.from < a.to /\ ValidAt(a, t)) \/ (b.from < b.to /\ ValidAt(b, t))
      BY <1>6, <2>2 DEF Covered
    <3> QED
      BY <1>3, <1>4, <1>5, <2>2, <3>1 DEF ValidAt
  <2> QED
    BY <2>1, <2>2
<1> QED
  BY <1>9, <1>10, <1>11, <1>12 DEF Apart

CutDo(pieces, c, none1, none2, none3) == UNION {Cut(p, c) : p \in pieces}
CutGood(S, n, k) ==
    /\ S \subseteq Intervals /\ IsFiniteSet(S) /\ Apart(S)
    /\ \A t \in Int : Covered(S, t) <=> ValidAt(k[1], t) /\ \A i \in 1 .. n : ~ValidAt(k[2][i], t)
Subtracting == INSTANCE Folding WITH Do <- CutDo, Good <- CutGood

(* What is left of an interval is what the others do not cover, once.       *)
LEMMA SubtractShows ==
    ASSUME NEW iv \in Intervals, NEW s \in Seq(Intervals), NEW S, S = Subtract(iv, s)
    PROVE  /\ S \subseteq Intervals /\ IsFiniteSet(S) /\ Apart(S)
           /\ \A t \in Int : Covered(S, t) <=> ValidAt(iv, t) /\ \A i \in DOMAIN s : ~ValidAt(s[i], t)
<1>1. PICK k : k = <<iv, s>>
  OBVIOUS
<1>2. k[1] = iv /\ k[2] = s /\ Len(s) \in Nat /\ DOMAIN s = 1 .. Len(s)
  BY <1>1
<1>3. CutGood({iv}, 0, k)
  <2>1. IsFiniteSet({iv})
    BY FS_Singleton
  <2> QED
    BY <1>2, <2>1 DEF CutGood, Apart, Covered
<1>4. ASSUME NEW x, NEW n \in 1 .. Len(s), CutGood(x, n - 1, k) PROVE CutGood(CutDo(x, s[n], 0, 0, 0), n, k)
  <2>1. PICK c \in Intervals : c = s[n]
    BY <1>2
  <2>2. PICK y : y = UNION {Cut(p, c) : p \in x}
    OBVIOUS
  <2>3. /\ \A p \in x : p \in Intervals
        /\ \A t \in Int : Covered(x, t) <=> ValidAt(iv, t) /\ \A i \in 1 .. n - 1 : ~ValidAt(s[i], t)
        /\ IsFiniteSet(x) /\ Apart(x)
    BY <1>2, <1>4 DEF CutGood
  <2>4. ASSUME NEW p \in x
        PROVE  /\ Cut(p, c) \subseteq Intervals /\ IsFiniteSet(Cut(p, c)) /\ Apart(Cut(p, c))
               /\ \A t \in Int : Covered(Cut(p, c), t) <=> ValidAt(p, t) /\ ~ValidAt(c, t)
    BY <2>3, CutShows
  <2>5. \A q : q \in y <=> \E p \in x : q \in Cut(p, c)
    BY <2>2
  <2>6. y \subseteq Intervals
    BY <2>4, <2>5
  <2>7. IsFiniteSet(y)
    <3>1. PICK F : F = {Cut(p, c) : p \in x}
      OBVIOUS
    <3>2. IsFiniteSet(F)
      <4>1. PICK g : g = [p \in x |-> Cut(p, c)]
        OBVIOUS
      <4>2. g \in Surjection(x, F)
        BY <3>1, <4>1 DEF Surjection
      <4> QED
        BY <2>3, <4>2, FS_Surjection
    <3>3. \A T \in F : IsFiniteSet(T)
      BY <2>4, <3>1
    <3> QED
      BY <2>2, <3>1, <3>2, <3>3, FS_UNION
  <2>8. ASSUME NEW t \in Int, NEW q \in y, NEW r \in y, ValidAt(q, t), ValidAt(r, t) PROVE q = r
    <3>1. PICK p1 \in x : q \in Cut(p1, c)
      BY <2>5
    <3>2. PICK p2 \in x : r \in Cut(p2, c)
      BY <2>5
    <3>3. ValidAt(p1, t) /\ ValidAt(p2, t)
      BY <2>4, <2>8, <3>1, <3>2 DEF Covered
    <3>4. p1 = p2
      BY <2>3, <3>3 DEF Apart
    <3> QED
      BY <2>4, <2>8, <3>1, <3>2, <3>4 DEF Apart
  <2>9. ASSUME NEW t \in Int
        PROVE  Covered(y, t) <=> ValidAt(iv, t) /\ \A i \in 1 .. n : ~ValidAt(s[i], t)
    <3>1. Covered(y, t) <=> \E p \in x : Covered(Cut(p, c), t)
      BY <2>5 DEF Covered
    <3>2. Covered(y, t) <=> Covered(x, t) /\ ~ValidAt(c, t)
      BY <2>4, <3>1 DEF Covered
    <3>3. \A i : i \in 1 .. n <=> i \in 1 .. n - 1 \/ i = n
      BY <1>2
    <3> QED
      BY <2>1, <2>3, <3>2, <3>3
  <2> QED
    BY <1>2, <2>1, <2>2, <2>3, <2>6, <2>7, <2>8, <2>9 DEF CutGood, CutDo, Apart
<1>5. CutGood(Subtracting!Run({iv}, s, 0, 0, 0), Len(s), k)
  BY <1>2, <1>3, <1>4, Subtracting!Runs
<1>6. S = Subtracting!Run({iv}, s, 0, 0, 0)
  BY DEF Subtract, Fold, Subtracting!Run, CutDo
<1> QED
  BY <1>2, <1>5, <1>6 DEF CutGood

(* Intervals in a sequence with gaps between them.                          *)
Gapped(x) == x \in Seq(Intervals) /\ \A i \in 1 .. Len(x) - 1 : x[i].to < x[i + 1].from
Shows(x, t) == \E i \in DOMAIN x : ValidAt(x[i], t)

(* Joining one more interval to merged ones adds its instants and keeps     *)
(* them apart.                                                              *)
LEMMA JoinShows ==
    ASSUME NEW x, Gapped(x), NEW iv \in Intervals, x = <<>> \/ x[Len(x)].from <= iv.from,
           NEW y, y = Fuse(x, iv)
    PROVE  /\ Gapped(y) /\ y # <<>> /\ y[Len(y)].from <= iv.from
           /\ \A t \in Int : Shows(y, t) <=> Shows(x, t) \/ ValidAt(iv, t)
<1>1. PICK m \in Nat : m = Len(x)
  BY DEF Gapped
<1>2. /\ x \in Seq(Intervals) /\ DOMAIN x = 1 .. m /\ \A i \in 1 .. m : x[i] \in Intervals
      /\ \A i \in 1 .. m - 1 : x[i].to < x[i + 1].from
  BY <1>1 DEF Gapped
<1>3. \A p \in Intervals : p.from \in Int /\ p.to \in Int /\ p.from < p.to
  BY DEF Intervals
<1>4. x = <<>> <=> m = 0
  BY <1>1, <1>2
<1>5. CASE x = <<>> \/ iv.from > x[m].to
  <2>1. y = Append(x, iv)
    BY <1>1, <1>5 DEF Fuse
  <2>2. /\ y \in Seq(Intervals) /\ Len(y) = m + 1 /\ DOMAIN y = 1 .. m + 1 /\ y[m + 1] = iv
        /\ \A i \in 1 .. m : y[i] = x[i]
    BY <1>1, <1>2, <2>1
  <2>3. ASSUME NEW i \in 1 .. m PROVE y[i].to < y[i + 1].from
    <3>1. CASE i = m
      BY <1>1, <1>4, <1>5, <2>2, <3>1
    <3>2. CASE i # m
      <4>1. i \in 1 .. m - 1 /\ i + 1 \in 1 .. m
        BY <1>1, <3>2
      <4> QED
        BY <1>2, <2>2, <4>1
    <3> QED
      BY <3>1, <3>2
  <2>4. Gapped(y)
    BY <1>1, <2>2, <2>3 DEF Gapped
  <2>5. ASSUME NEW t \in Int PROVE Shows(y, t) <=> Shows(x, t) \/ ValidAt(iv, t)
    <3>1. \A i : i \in 1 .. m + 1 <=> i \in 1 .. m \/ i = m + 1
      BY <1>1
    <3> QED
      BY <1>2, <2>2, <3>1 DEF Shows
  <2> QED
    BY <1>1, <1>3, <2>2, <2>4, <2>5
<1>6. CASE ~(x = <<>> \/ iv.from > x[m].to)
  <2>1. m \in 1 .. m /\ x[m] \in Intervals /\ x[m].from <= iv.from /\ iv.from <= x[m].to
    BY <1>1, <1>2, <1>3, <1>4, <1>6
  <2>2. PICK e : e = IF iv.to > x[m].to THEN iv.to ELSE x[m].to
    OBVIOUS
  <2>3. y = [x EXCEPT ![m].to = e]
    BY <1>1, <1>6, <2>2 DEF Fuse
  <2>4. PICK q : q = [x[m] EXCEPT !.to = e]
    OBVIOUS
  <2>5. e \in Int /\ iv.to <= e /\ x[m].to <= e /\ (e = iv.to \/ e = x[m].to)
    BY <1>3, <2>1, <2>2
  <2>6. q.from = x[m].from /\ q.to = e /\ q \in Intervals
    <3>1. x[m] \in [from : Int, to : Int]
      BY <2>1 DEF Intervals
    <3>2. q \in [from : Int, to : Int] /\ q.from = x[m].from /\ q.to = e
      BY <2>4, <2>5, <3>1
    <3> QED
      BY <1>3, <2>1, <2>5, <3>2 DEF Intervals
  <2>7. y = [i \in 1 .. m |-> IF i = m THEN q ELSE x[i]]
    BY <1>2, <2>1, <2>3, <2>4
  <2>8. /\ y \in Seq(Intervals) /\ Len(y) = m /\ DOMAIN y = 1 .. m /\ y[m] = q
        /\ \A i \in 1 .. m : i # m => y[i] = x[i]
    <3>1. y \in [1 .. m -> Intervals]
      BY <1>2, <2>6, <2>7
    <3>2. y \in Seq(Intervals)
      BY <1>1, <3>1, SeqDef
    <3> QED
      BY <1>1, <2>1, <2>7, <3>1, <3>2, LenProperties
  <2>9. ASSUME NEW i \in 1 .. m - 1 PROVE y[i].to < y[i + 1].from
    <3>1. i \in 1 .. m /\ i # m /\ i + 1 \in 1 .. m
      BY <1>1
    <3>2. y[i + 1].from = x[i + 1].from
      BY <2>6, <2>8, <3>1
    <3> QED
      BY <1>2, <2>8, <3>1, <3>2
  <2>10. Gapped(y)
    BY <2>8, <2>9 DEF Gapped
  <2>11. ASSUME NEW t \in Int PROVE ValidAt(q, t) <=> ValidAt(x[m], t) \/ ValidAt(iv, t)
    BY <1>3, <2>1, <2>5, <2>6 DEF ValidAt
  <2>12. ASSUME NEW t \in Int PROVE Shows(y, t) <=> Shows(x, t) \/ ValidAt(iv, t)
    <3>1. Shows(x, t) <=> ValidAt(x[m], t) \/ \E i \in 1 .. m : i # m /\ ValidAt(x[i], t)
      BY <1>2, <2>1 DEF Shows
    <3>2. Shows(y, t) <=> ValidAt(q, t) \/ \E i \in 1 .. m : i # m /\ ValidAt(x[i], t)
      BY <2>1, <2>8 DEF Shows
    <3> QED
      BY <2>11, <3>1, <3>2
  <2>13. y # <<>>
    BY <1>1, <2>1, <2>8
  <2> QED
    BY <2>1, <2>6, <2>8, <2>10, <2>12, <2>13
<1> QED
  BY <1>5, <1>6

JoinDo(x, iv, none1, none2, none3) == Fuse(x, iv)
JoinGood(x, n, s) ==
    /\ Gapped(x) /\ (n = 0 => x = <<>>) /\ (n # 0 => x # <<>> /\ x[Len(x)].from <= s[n].from)
    /\ \A t \in Int : Shows(x, t) <=> \E i \in 1 .. n : ValidAt(s[i], t)
Joining == INSTANCE Folding WITH Do <- JoinDo, Good <- JoinGood

(* What is merged covers the same, in order and with gaps.                  *)
LEMMA MergeShows ==
    ASSUME NEW S, S \subseteq Intervals, IsFiniteSet(S), NEW x, x = Merge(S)
    PROVE  Gapped(x) /\ \A t \in Int : Shows(x, t) <=> Covered(S, t)
<1>1. PICK s : s = Ranked(S, ByStart)
  OBVIOUS
<1>2. Items(s, S) /\ \A i, j \in DOMAIN s : i < j => ByStart(s[i], s[j])
  BY <1>1, IntervalsListed
<1>3. /\ Len(s) \in Nat /\ DOMAIN s = 1 .. Len(s) /\ \A i \in DOMAIN s : s[i] \in S
      /\ \A iv \in S : \E i \in DOMAIN s : s[i] = iv
      /\ \A i, j \in DOMAIN s : i < j => ByStart(s[i], s[j])
  BY <1>2 DEF Items
<1>4. \A i \in 1 .. Len(s) : s[i] \in S /\ s[i] \in Intervals
  BY <1>3
<1>5. JoinGood(<<>>, 0, s)
  BY DEF JoinGood, Gapped, Shows
<1>6. ASSUME NEW y, NEW n \in 1 .. Len(s), JoinGood(y, n - 1, s) PROVE JoinGood(JoinDo(y, s[n], 0, 0, 0), n, s)
  <2>1. PICK iv \in Intervals : iv = s[n]
    BY <1>4
  <2>2. PICK z : z = Fuse(y, iv)
    OBVIOUS
  <2>3. /\ Gapped(y) /\ (n - 1 = 0 => y = <<>>) /\ (n - 1 # 0 => y # <<>> /\ y[Len(y)].from <= s[n - 1].from)
        /\ \A t \in Int : Shows(y, t) <=> \E i \in 1 .. n - 1 : ValidAt(s[i], t)
    BY <1>6 DEF JoinGood
  <2>4. y = <<>> \/ y[Len(y)].from <= iv.from
    <3>1. CASE n = 1
      BY <2>3, <3>1
    <3>2. CASE n # 1
      <4>1. n - 1 \in 1 .. Len(s) /\ n - 1 < n /\ n - 1 # 0
        BY <1>3, <3>2
      <4>2. ByStart(s[n - 1], iv)
        BY <1>3, <2>1, <4>1
      <4>3. s[n - 1] \in Intervals
        BY <1>4, <4>1
      <4>4. s[n - 1].from \in Int /\ iv.from \in Int /\ s[n - 1].from <= iv.from
        BY <4>2, <4>3 DEF ByStart, Intervals
      <4>5. y # <<>> /\ y[Len(y)] \in Intervals /\ y[Len(y)].from <= s[n - 1].from
        BY <2>3, <4>1 DEF Gapped
      <4>6. y[Len(y)].from \in Int
        BY <4>5 DEF Intervals
      <4> QED
        BY <4>4, <4>5, <4>6
    <3> QED
      BY <3>1, <3>2
  <2>5. /\ Gapped(z) /\ z # <<>> /\ z[Len(z)].from <= iv.from
        /\ \A t \in Int : Shows(z, t) <=> Shows(y, t) \/ ValidAt(iv, t)
    BY <2>2, <2>3, <2>4, JoinShows
  <2>6. ASSUME NEW t \in Int PROVE Shows(z, t) <=> \E i \in 1 .. n : ValidAt(s[i], t)
    <3>1. \A i : i \in 1 .. n <=> i \in 1 .. n - 1 \/ i = n
      BY <1>3
    <3> QED
      BY <2>1, <2>3, <2>5, <3>1
  <2>7. n # 0
    BY <1>3
  <2>8. JoinGood(z, n, s)
    BY <2>1, <2>5, <2>6, <2>7 DEF JoinGood
  <2> QED
    BY <2>1, <2>2, <2>8 DEF JoinDo
<1>7. JoinGood(Joining!Run(<<>>, s, 0, 0, 0), Len(s), s)
  BY <1>3, <1>5, <1>6, Joining!Runs
<1>8. x = Joining!Run(<<>>, s, 0, 0, 0)
  BY <1>1 DEF Merge, Fold, Joining!Run, JoinDo
<1>9. Gapped(x) /\ \A t \in Int : Shows(x, t) <=> \E i \in 1 .. Len(s) : ValidAt(s[i], t)
  BY <1>7, <1>8 DEF JoinGood
<1>10. ASSUME NEW t \in Int PROVE Covered(S, t) <=> \E i \in 1 .. Len(s) : ValidAt(s[i], t)
  BY <1>3, <1>4 DEF Covered
<1> QED
  BY <1>9, <1>10

-----------------------------------------------------------------------------
(* One entity's history.                                                    *)

(* A set of numbers up to a bound has a greatest.                           *)
LEMMA GreatestOf ==
    ASSUME NEW n \in Nat, NEW K \in SUBSET (1 .. n), K # {}
    PROVE  Max(K) \in K /\ \A i \in K : i <= Max(K)
<1>1. PICK D : D = {n - i : i \in K}
  OBVIOUS
<1>2. D \in SUBSET Nat /\ D # {}
  <2>1. \A i \in K : n - i \in Nat
    OBVIOUS
  <2> QED
    BY <1>1, <2>1
<1>3. PICK d \in D : \A j \in D : d <= j
  BY <1>2, Joining!LeastOf
<1>4. PICK m \in K : d = n - m
  BY <1>1, <1>3
<1>5. \A i \in K : n - i \in D /\ i \in Int
  BY <1>1
<1>6. \A i \in K : m >= i
  BY <1>3, <1>4, <1>5
<1>7. \E x \in K : \A y \in K : x >= y
  BY <1>4, <1>6
<1>8. PICK x : x = Max(K)
  OBVIOUS
<1>9. x \in K /\ \A y \in K : x >= y
  BY <1>7, <1>8 DEF Max
<1> QED
  BY <1>8, <1>9

(* The elements of a sequence are finitely many.                            *)
LEMMA RangeFinite ==
    ASSUME NEW s, Len(s) \in Nat, DOMAIN s = 1 .. Len(s)
    PROVE  IsFiniteSet(Range(s)) /\ \A x : x \in Range(s) <=> \E i \in DOMAIN s : s[i] = x
<1>1. \A x : x \in Range(s) <=> \E i \in DOMAIN s : s[i] = x
  BY DEF Range
<1>2. PICK g : g = [i \in 1 .. Len(s) |-> s[i]]
  OBVIOUS
<1>3. g \in Surjection(1 .. Len(s), Range(s))
  BY <1>1, <1>2 DEF Surjection
<1>4. IsFiniteSet(1 .. Len(s))
  BY FS_Interval
<1> QED
  BY <1>1, <1>3, <1>4, FS_Surjection

Log(log) == Len(log) \in Nat /\ DOMAIN log = 1 .. Len(log) /\ \A i \in DOMAIN log : IsVersion(log[i])

(* A version spans the instants from its start to before its end.           *)
LEMMA VersionSpans ==
    ASSUME NEW v, IsVersion(v)
    PROVE  Interval(v) \in Intervals /\ \A t : ValidAt(Interval(v), t) <=> v.from <= t /\ t < v.to
BY DEF IsVersion, Interval, Intervals, ValidAt

(* The version of an entity that shows at an instant: the newest there.     *)
Spans(e, i, t) == ValidAt(Interval(e[i].v), t)
Reigns(e, i, t) == e[i].v.put /\ Spans(e, i, t) /\ \A j \in 1 .. i - 1 : ~Spans(e, j, t)
Keeps(acc, e, n) ==
    /\ \A t \in Int : \A r \in acc.shown : ValidAt(r.iv, t) => \E i \in 1 .. n : Reigns(e, i, t) /\ r.n = e[i].n
    /\ \A t \in Int : \A i \in 1 .. n : Reigns(e, i, t) => \E r \in acc.shown : ValidAt(r.iv, t)
    /\ \A t \in Int : \A r, q \in acc.shown : ValidAt(r.iv, t) /\ ValidAt(q.iv, t) => r = q
Shape(acc, e, n) ==
    /\ acc.covered \in Seq(Intervals)
    /\ \A t \in Int : Shows(acc.covered, t) <=> \E i \in 1 .. n : Spans(e, i, t)
    /\ IsFiniteSet(acc.shown)
    /\ \A r \in acc.shown : /\ r = [v |-> r.v, n |-> r.n, iv |-> r.iv] /\ r.iv \in Intervals
                            /\ \E i \in 1 .. n : r.v = e[i].v /\ r.n = e[i].n

(* Showing the next older version keeps the invariant of the walk along a   *)
(* history.                                                                 *)
LEMMA ShowStep ==
    ASSUME NEW acc, NEW e, NEW n \in Nat, n # 0, \A i \in 1 .. n : IsVersion(e[i].v),
           Shape(acc, e, n - 1), Keeps(acc, e, n - 1), NEW new, new = Show(acc, e[n])
    PROVE  Shape(new, e, n) /\ Keeps(new, e, n)
<1>1. PICK v : v = e[n].v
  OBVIOUS
<1>2. IsVersion(v) /\ \A i : i \in 1 .. n <=> i \in 1 .. n - 1 \/ i = n
  BY <1>1
<1>3. PICK iv \in Intervals : iv = Interval(v)
  BY <1>2, VersionSpans
<1>4. \A t : Spans(e, n, t) <=> ValidAt(iv, t)
  BY <1>1, <1>3 DEF Spans
<1>5. /\ acc.covered \in Seq(Intervals) /\ IsFiniteSet(acc.shown)
      /\ \A t \in Int : Shows(acc.covered, t) <=> \E i \in 1 .. n - 1 : Spans(e, i, t)
      /\ \A r \in acc.shown : /\ r = [v |-> r.v, n |-> r.n, iv |-> r.iv] /\ r.iv \in Intervals
                              /\ \E i \in 1 .. n - 1 : r.v = e[i].v /\ r.n = e[i].n
  BY DEF Shape
<1>6. PICK cov : cov = Cover(acc, e[n])
  OBVIOUS
<1>7. PICK P : P = IF v.put THEN Subtract(iv, acc.covered) ELSE {}
  OBVIOUS
<1>8. PICK own : own = {[v |-> v, n |-> e[n].n, iv |-> p] : p \in P}
  OBVIOUS
<1>9. own = Pieces(acc, e[n])
  BY <1>1, <1>3, <1>7, <1>8 DEF Pieces
<1>10. new.covered = cov /\ new.shown = acc.shown \cup own
  BY <1>6, <1>9 DEF Show
<1>11. cov \in Seq(Intervals) /\ \A t \in Int : Shows(cov, t) <=> Shows(acc.covered, t) \/ ValidAt(iv, t)
  <2>1. PICK s : s = acc.covered
    OBVIOUS
  <2>2. s \in Seq(Intervals) /\ Len(s) \in Nat /\ DOMAIN s = 1 .. Len(s)
    BY <1>5, <2>1
  <2>3. IsFiniteSet(Range(s)) /\ \A x : x \in Range(s) <=> \E i \in DOMAIN s : s[i] = x
    BY <2>2, RangeFinite
  <2>4. PICK S : S = Range(s) \cup {iv}
    OBVIOUS
  <2>5. S \subseteq Intervals /\ IsFiniteSet(S)
    <3>1. \A i \in DOMAIN s : s[i] \in Intervals
      BY <2>2
    <3>2. S \subseteq Intervals
      BY <2>3, <2>4, <3>1
    <3> QED
      BY <2>3, <2>4, <3>2, FS_AddElement
  <2>6. cov = Merge(S)
    BY <1>1, <1>3, <1>6, <2>1, <2>4 DEF Cover
  <2>7. Gapped(cov) /\ \A t \in Int : Shows(cov, t) <=> Covered(S, t)
    BY <2>5, <2>6, MergeShows
  <2>8. \A t : Covered(S, t) <=> Shows(s, t) \/ ValidAt(iv, t)
    BY <2>3, <2>4 DEF Covered, Shows
  <2> QED
    BY <2>1, <2>7, <2>8 DEF Gapped
<1>12. /\ P \subseteq Intervals /\ IsFiniteSet(P) /\ Apart(P)
       /\ \A t \in Int : Covered(P, t) <=> v.put /\ ValidAt(iv, t) /\ ~Shows(acc.covered, t)
  <2>1. CASE v.put
    <3>1. P = Subtract(iv, acc.covered)
      BY <1>7, <2>1
    <3>2. /\ P \subseteq Intervals /\ IsFiniteSet(P) /\ Apart(P)
          /\ \A t \in Int : Covered(P, t) <=> ValidAt(iv, t) /\ \A i \in DOMAIN acc.covered : ~ValidAt(acc.covered[i], t)
      BY <1>5, <3>1, SubtractShows
    <3> QED
      BY <2>1, <3>2 DEF Shows
  <2>2. CASE ~v.put
    <3>1. P = {} /\ IsFiniteSet({})
      BY <1>7, <2>2, FS_EmptySet
    <3> QED
      BY <2>2, <3>1 DEF Apart, Covered
  <2> QED
    BY <2>1, <2>2
<1>13. \A t \in Int : Covered(P, t) <=> Reigns(e, n, t)
  BY <1>1, <1>4, <1>5, <1>12 DEF Reigns
<1>14. \A r : r \in own <=> \E p \in P : r = [v |-> v, n |-> e[n].n, iv |-> p]
  BY <1>8
<1>15. IsFiniteSet(own)
  <2>1. PICK g : g = [p \in P |-> [v |-> v, n |-> e[n].n, iv |-> p]]
    OBVIOUS
  <2>2. g \in Surjection(P, own)
    BY <1>14, <2>1 DEF Surjection
  <2> QED
    BY <1>12, <2>2, FS_Surjection
<1>16. Shape(new, e, n)
  <2>1. IsFiniteSet(new.shown)
    <3>1. PICK T : T = acc.shown
      OBVIOUS
    <3>2. IsFiniteSet(T \cup own)
      BY <1>5, <1>15, <3>1, FS_Union
    <3> QED
      BY <1>10, <3>1, <3>2
  <2>2. ASSUME NEW t \in Int PROVE Shows(new.covered, t) <=> \E i \in 1 .. n : Spans(e, i, t)
    BY <1>2, <1>4, <1>5, <1>10, <1>11
  <2>3. ASSUME NEW r \in new.shown
        PROVE  /\ r = [v |-> r.v, n |-> r.n, iv |-> r.iv] /\ r.iv \in Intervals
               /\ \E i \in 1 .. n : r.v = e[i].v /\ r.n = e[i].n
    <3>1. CASE r \in acc.shown
      BY <1>2, <1>5, <3>1
    <3>2. CASE r \in own
      <4>1. PICK p \in P : r = [v |-> v, n |-> e[n].n, iv |-> p]
        BY <1>14, <3>2
      <4>2. r.v = v /\ r.n = e[n].n /\ r.iv = p
        BY <4>1
      <4> QED
        BY <1>1, <1>2, <1>12, <4>1, <4>2
    <3> QED
      BY <1>10, <3>1, <3>2
  <2> QED
    BY <1>10, <1>11, <2>1, <2>2, <2>3 DEF Shape
<1>17. \A r \in own : r.n = e[n].n /\ r.iv \in P
  BY <1>14
<1>18. ASSUME NEW t \in Int, NEW r \in new.shown, ValidAt(r.iv, t)
       PROVE  \E i \in 1 .. n : Reigns(e, i, t) /\ r.n = e[i].n
  <2>1. CASE r \in acc.shown
    BY <1>2, <1>18, <2>1 DEF Keeps
  <2>2. CASE r \in own
    BY <1>2, <1>13, <1>17, <1>18, <2>2 DEF Covered
  <2> QED
    BY <1>10, <2>1, <2>2
<1>19. ASSUME NEW t \in Int, NEW i \in 1 .. n, Reigns(e, i, t) PROVE \E r \in new.shown : ValidAt(r.iv, t)
  <2>1. CASE i \in 1 .. n - 1
    BY <1>10, <1>19, <2>1 DEF Keeps
  <2>2. CASE i = n
    <3>1. PICK p \in P : ValidAt(p, t)
      BY <1>13, <1>19, <2>2 DEF Covered
    <3>2. PICK r : r = [v |-> v, n |-> e[n].n, iv |-> p]
      OBVIOUS
    <3>3. r \in own /\ r.iv = p
      BY <1>14, <3>2
    <3> QED
      BY <1>10, <3>1, <3>3
  <2> QED
    BY <1>2, <2>1, <2>2
<1>20. ASSUME NEW t \in Int, NEW r \in acc.shown, NEW q \in own, ValidAt(r.iv, t), ValidAt(q.iv, t) PROVE FALSE
  <2>1. PICK i \in 1 .. n - 1 : Reigns(e, i, t)
    BY <1>20 DEF Keeps
  <2>2. Reigns(e, n, t)
    BY <1>13, <1>17, <1>20 DEF Covered
  <2> QED
    BY <2>1, <2>2 DEF Reigns
<1>21. ASSUME NEW t \in Int, NEW r \in own, NEW q \in own, ValidAt(r.iv, t), ValidAt(q.iv, t) PROVE r = q
  <2>1. PICK p1 \in P : r = [v |-> v, n |-> e[n].n, iv |-> p1]
    BY <1>14
  <2>2. PICK p2 \in P : q = [v |-> v, n |-> e[n].n, iv |-> p2]
    BY <1>14
  <2>3. ValidAt(p1, t) /\ ValidAt(p2, t)
    BY <1>21, <2>1, <2>2
  <2>4. p1 = p2
    BY <1>12, <2>3 DEF Apart
  <2> QED
    BY <2>1, <2>2, <2>4
<1>22. ASSUME NEW t \in Int, NEW r \in new.shown, NEW q \in new.shown, ValidAt(r.iv, t), ValidAt(q.iv, t) PROVE r = q
  <2>1. r \in acc.shown /\ q \in acc.shown => r = q
    BY <1>22 DEF Keeps
  <2> QED
    BY <1>10, <1>20, <1>21, <1>22, <2>1
<1> QED
  BY <1>16, <1>18, <1>19, <1>22 DEF Keeps

ShowDo(acc, x, none1, none2, none3) == Show(acc, x)
ShowGood(acc, n, k) == Shape(acc, k, n) /\ Keeps(acc, k, n)
Showing == INSTANCE Folding WITH Do <- ShowDo, Good <- ShowGood

Entry(log, i) == [v |-> log[i], n |-> i]
Versions(log, id) == {j \in DOMAIN log : log[j].lid = id}

(* Newest first, each version once.                                         *)
LEMMA NewestListed ==
    ASSUME NEW log, Log(log), NEW id, NEW e, e = NewestFirst(log, id)
    PROVE  /\ Len(e) \in Nat /\ DOMAIN e = 1 .. Len(e)
           /\ \A i \in DOMAIN e : e[i].n \in Versions(log, id) /\ e[i].v = log[e[i].n]
           /\ \A j \in Versions(log, id) : \E i \in DOMAIN e : e[i].n = j
           /\ \A i, j \in DOMAIN e : i < j => e[i].n > e[j].n
<1>1. PICK K : K = Versions(log, id)
  OBVIOUS
<1>2. PICK E : E = {Entry(log, i) : i \in K}
  OBVIOUS
<1>3. \A x : x \in E <=> \E i \in K : x = Entry(log, i)
  BY <1>2
<1>4. \A i : Entry(log, i).n = i /\ Entry(log, i).v = log[i]
  BY DEF Entry
<1>5. \A i \in K : i \in Int
  BY <1>1 DEF Versions, Log
<1>6. IsFiniteSet(E)
  <2>1. IsFiniteSet(1 .. Len(log)) /\ K \in SUBSET (1 .. Len(log))
    BY <1>1, FS_Interval DEF Versions, Log
  <2>2. IsFiniteSet(K)
    BY <2>1, FS_Subset
  <2>3. PICK g : g = [i \in K |-> Entry(log, i)]
    OBVIOUS
  <2>4. g \in Surjection(K, E)
    BY <1>3, <2>3 DEF Surjection
  <2> QED
    BY <2>2, <2>4, FS_Surjection
<1>7. \A x \in E : x.n \in Int
  BY <1>3, <1>4, <1>5
<1>8. \A x, y \in E : x.n = y.n => x = y
  BY <1>3, <1>4
<1>9. e = Ranked(E, Newer)
  BY <1>1, <1>2 DEF NewestFirst, Versions, Entry
<1>10. Items(e, E) /\ \A i, j \in DOMAIN e : i < j => Newer(e[i], e[j])
  BY <1>6, <1>7, <1>8, <1>9, VersionsListed
<1>11. /\ Len(e) \in Nat /\ DOMAIN e = 1 .. Len(e) /\ \A i \in DOMAIN e : e[i] \in E
       /\ \A x \in E : \E i \in DOMAIN e : e[i] = x
       /\ \A i, j \in DOMAIN e : i < j => Newer(e[i], e[j])
  BY <1>10 DEF Items
<1>12. ASSUME NEW i \in DOMAIN e PROVE e[i].n \in K /\ e[i].v = log[e[i].n]
  <2>1. PICK j \in K : e[i] = Entry(log, j)
    BY <1>3, <1>11
  <2> QED
    BY <1>4, <2>1
<1>13. ASSUME NEW j \in K PROVE \E i \in DOMAIN e : e[i].n = j
  <2>1. PICK x \in E : x = Entry(log, j)
    BY <1>3
  <2>2. PICK i \in DOMAIN e : e[i] = x
    BY <1>11
  <2> QED
    BY <1>4, <2>1, <2>2
<1> QED
  BY <1>1, <1>11, <1>12, <1>13 DEF Newer

(* Who reigns is the newest that spans the instant.                         *)
LEMMA ReignsNewest ==
    ASSUME NEW log, Log(log), NEW id, NEW e, e = NewestFirst(log, id), NEW t \in Int
    PROVE  /\ \A i \in DOMAIN e : Reigns(e, i, t) => e[i].n = Newest(log, id, t) /\ e[i].n # 0 /\ e[i].v.put
           /\ Newest(log, id, t) # 0 =>
                /\ Newest(log, id, t) \in Versions(log, id) /\ ValidAt(Interval(log[Newest(log, id, t)]), t)
                /\ log[Newest(log, id, t)].put => \E i \in DOMAIN e : Reigns(e, i, t) /\ e[i].n = Newest(log, id, t)
<1>1. PICK at : at = {i \in DOMAIN log : log[i].lid = id /\ ValidAt(Interval(log[i]), t)}
  OBVIOUS
<1>2. PICK m : m = Newest(log, id, t)
  OBVIOUS
<1>3. m = IF at = {} THEN 0 ELSE Max(at)
  BY <1>1, <1>2 DEF Newest
<1>4. at \in SUBSET (1 .. Len(log)) /\ Len(log) \in Nat
  BY <1>1 DEF Log
<1>0. \A i \in at : i \in Nat /\ i # 0
  BY <1>4
<1>5. at # {} => m \in at /\ \A i \in at : i <= m
  BY <1>3, <1>4, GreatestOf
<1>6. /\ Len(e) \in Nat /\ DOMAIN e = 1 .. Len(e)
      /\ \A i \in DOMAIN e : e[i].n \in Versions(log, id) /\ e[i].v = log[e[i].n]
      /\ \A j \in Versions(log, id) : \E i \in DOMAIN e : e[i].n = j
      /\ \A i, j \in DOMAIN e : i < j => e[i].n > e[j].n
  BY NewestListed
<1>7. \A i \in DOMAIN e : Spans(e, i, t) <=> e[i].n \in at
  BY <1>1, <1>6 DEF Spans, Versions
<1>8. ASSUME NEW i \in DOMAIN e, Reigns(e, i, t) PROVE e[i].n = m /\ e[i].n # 0 /\ e[i].v.put
  <2>1. e[i].n \in at /\ e[i].v.put
    BY <1>7, <1>8 DEF Reigns
  <2>2. m \in at /\ e[i].n <= m /\ m \in Versions(log, id)
    BY <1>1, <1>5, <2>1 DEF Versions
  <2>3. PICK j \in DOMAIN e : e[j].n = m
    BY <1>6, <2>2
  <2>4. ~(j < i)
    <3>1. ASSUME j < i PROVE FALSE
      <4>1. j \in 1 .. i - 1
        BY <1>6, <3>1
      <4> QED
        BY <1>7, <1>8, <2>2, <2>3, <4>1 DEF Reigns
    <3> QED
      BY <3>1
  <2>5. e[i].n \in Int /\ m \in Int /\ e[i].n # 0
    BY <1>0, <2>1, <2>2
  <2>6. i = j \/ i < j
    BY <1>6, <2>4
  <2> QED
    BY <1>6, <2>1, <2>2, <2>3, <2>5, <2>6
<1>9. ASSUME m # 0
      PROVE  /\ m \in Versions(log, id) /\ ValidAt(Interval(log[m]), t)
             /\ log[m].put => \E i \in DOMAIN e : Reigns(e, i, t) /\ e[i].n = m
  <2>1. m \in at /\ \A i \in at : i <= m
    BY <1>3, <1>5, <1>9
  <2>2. m \in Versions(log, id) /\ ValidAt(Interval(log[m]), t)
    BY <1>1, <2>1 DEF Versions
  <2>3. ASSUME log[m].put PROVE \E i \in DOMAIN e : Reigns(e, i, t) /\ e[i].n = m
    <3>1. PICK i \in DOMAIN e : e[i].n = m
      BY <1>6, <2>2
    <3>2. e[i].v.put /\ Spans(e, i, t)
      BY <1>6, <1>7, <2>1, <2>3, <3>1
    <3>3. ASSUME NEW j \in 1 .. i - 1, Spans(e, j, t) PROVE FALSE
      <4>1. j \in DOMAIN e /\ j < i
        BY <1>6
      <4>2. e[j].n \in at /\ e[j].n > m
        BY <1>6, <1>7, <3>1, <3>3, <4>1
      <4>3. e[j].n <= m /\ e[j].n \in Int /\ m \in Int
        BY <1>0, <2>1, <4>2
      <4> QED
        BY <4>2, <4>3
    <3> QED
      BY <3>1, <3>2, <3>3 DEF Reigns
  <2> QED
    BY <2>2, <2>3
<1> QED
  BY <1>2, <1>8, <1>9

(* What is shown of an entity is, at every instant, its newest version.     *)
ShownExact(S, log, id) ==
    /\ \A r \in S : /\ r = [v |-> r.v, n |-> r.n, iv |-> r.iv] /\ r.iv \in Intervals
                    /\ r.n \in Versions(log, id) /\ r.v = log[r.n] /\ r.v.put
    /\ \A t \in Int : \A r \in S : ValidAt(r.iv, t) => r.n = Newest(log, id, t)
    /\ \A t \in Int : (Newest(log, id, t) # 0 /\ log[Newest(log, id, t)].put) => \E r \in S : ValidAt(r.iv, t)
    /\ \A t \in Int : \A r, q \in S : ValidAt(r.iv, t) /\ ValidAt(q.iv, t) => r = q

(* The records of an entity show an instant exactly when they are of its    *)
(* newest version there.                                                    *)
LEMMA ShownIs ==
    ASSUME NEW log, Log(log), NEW id, NEW S, S = Shown(log, id)
    PROVE  IsFiniteSet(S) /\ ShownExact(S, log, id)
<1>1. PICK e : e = NewestFirst(log, id)
  OBVIOUS
<1>2. /\ Len(e) \in Nat /\ DOMAIN e = 1 .. Len(e)
      /\ \A i \in DOMAIN e : e[i].n \in Versions(log, id) /\ e[i].v = log[e[i].n]
      /\ \A i, j \in DOMAIN e : i < j => e[i].n > e[j].n
  BY <1>1, NewestListed
<1>3. \A i \in 1 .. Len(e) : IsVersion(e[i].v)
  BY <1>2 DEF Versions, Log
<1>4. PICK none : none = [covered |-> <<>>, shown |-> {}]
  OBVIOUS
<1>5. ShowGood(none, 0, e)
  <2>1. none.covered = <<>> /\ none.shown = {} /\ IsFiniteSet({})
    BY <1>4, FS_EmptySet
  <2> QED
    BY <2>1 DEF ShowGood, Shape, Keeps, Shows
<1>6. ASSUME NEW x, NEW n \in 1 .. Len(e), ShowGood(x, n - 1, e) PROVE ShowGood(ShowDo(x, e[n], 0, 0, 0), n, e)
  <2>1. n \in Nat /\ n # 0 /\ \A i \in 1 .. n : IsVersion(e[i].v)
    BY <1>2, <1>3
  <2>2. Shape(x, e, n - 1) /\ Keeps(x, e, n - 1)
    BY <1>6 DEF ShowGood
  <2>3. Shape(Show(x, e[n]), e, n) /\ Keeps(Show(x, e[n]), e, n)
    BY <2>1, <2>2, ShowStep
  <2> QED
    BY <2>3 DEF ShowGood, ShowDo
<1>7. PICK acc : acc = Showing!Run(none, e, 0, 0, 0)
  OBVIOUS
<1>8. ShowGood(acc, Len(e), e)
  BY <1>2, <1>5, <1>6, <1>7, Showing!Runs
<1>9. S = acc.shown
  BY <1>1, <1>4, <1>7 DEF Shown, Fold, Showing!Run, ShowDo
<1>10. Shape(acc, e, Len(e)) /\ Keeps(acc, e, Len(e))
  BY <1>8 DEF ShowGood
<1>11. \A i \in DOMAIN e : \A t \in Int : Reigns(e, i, t) => e[i].n = Newest(log, id, t) /\ e[i].v.put
  BY <1>1, ReignsNewest
<1>12. ASSUME NEW t \in Int, NEW r \in S, ValidAt(r.iv, t)
       PROVE  r.n = Newest(log, id, t) /\ \E i \in DOMAIN e : r.n = e[i].n /\ e[i].v.put
  <2>1. PICK i \in DOMAIN e : Reigns(e, i, t) /\ r.n = e[i].n
    BY <1>2, <1>9, <1>10, <1>12 DEF Keeps
  <2> QED
    BY <1>11, <2>1
<1>13. ASSUME NEW r \in S
       PROVE  /\ r = [v |-> r.v, n |-> r.n, iv |-> r.iv] /\ r.iv \in Intervals
              /\ r.n \in Versions(log, id) /\ r.v = log[r.n] /\ r.v.put
  <2>1. r = [v |-> r.v, n |-> r.n, iv |-> r.iv] /\ r.iv \in Intervals
    BY <1>9, <1>10 DEF Shape
  <2>2. PICK i \in DOMAIN e : r.v = e[i].v /\ r.n = e[i].n
    BY <1>2, <1>9, <1>10 DEF Shape
  <2>3. r.n \in Versions(log, id) /\ r.v = log[r.n]
    BY <1>2, <2>2
  <2>4. r.iv.from \in Int /\ ValidAt(r.iv, r.iv.from)
    BY <2>1 DEF Intervals, ValidAt
  <2>5. PICK j \in DOMAIN e : r.n = e[j].n /\ e[j].v.put
    BY <1>12, <2>4
  <2> QED
    BY <1>2, <2>1, <2>3, <2>5
<1>14. ASSUME NEW t \in Int, Newest(log, id, t) # 0, log[Newest(log, id, t)].put PROVE \E r \in S : ValidAt(r.iv, t)
  <2>1. PICK i \in DOMAIN e : Reigns(e, i, t)
    BY <1>1, <1>14, ReignsNewest
  <2> QED
    BY <1>2, <1>9, <1>10, <2>1 DEF Keeps
<1>15. IsFiniteSet(S) /\ \A t \in Int : \A r, q \in S : ValidAt(r.iv, t) /\ ValidAt(q.iv, t) => r = q
  BY <1>9, <1>10 DEF Shape, Keeps
<1> QED
  BY <1>12, <1>13, <1>14, <1>15 DEF ShownExact

-----------------------------------------------------------------------------
(* The rows.                                                                *)

EdgeLog(log) == Log(log) /\ \A i \in DOMAIN log : log[i].src \in Int /\ log[i].dst \in Int /\ log[i].rel \in Int
Fits(v, f) == v.rel # NoRelation /\ v.rel \in f.rels

(* The ids of a log are finitely many, each with a version.                 *)
LEMMA IdsFinite ==
    ASSUME NEW log, Log(log)
    PROVE  /\ IsFiniteSet(Ids(log)) /\ Ids(log) \subseteq Int
           /\ \A id : id \in Ids(log) <=> Versions(log, id) # {}
<1>1. PICK g : g = [i \in 1 .. Len(log) |-> log[i].lid]
  OBVIOUS
<1>2. \A id : id \in Ids(log) <=> \E i \in 1 .. Len(log) : log[i].lid = id
  BY DEF Ids, Log
<1>3. g \in Surjection(1 .. Len(log), Ids(log))
  BY <1>1, <1>2 DEF Surjection
<1>4. IsFiniteSet(1 .. Len(log))
  BY FS_Interval DEF Log
<1>5. IsFiniteSet(Ids(log))
  BY <1>3, <1>4, FS_Surjection
<1>6. Ids(log) \subseteq Int
  BY <1>2 DEF Log, IsVersion
<1> QED
  BY <1>2, <1>5, <1>6 DEF Versions, Log

RecordsExact(R, log, f) ==
    /\ \A r \in R : /\ IsShown(r) /\ r.n \in DOMAIN log /\ r.v = log[r.n] /\ r.v.put /\ Fits(r.v, f)
                    /\ r.v.src \in Int /\ r.v.dst \in Int /\ r.v.rel \in Int
    /\ \A t \in Int : \A r \in R : ValidAt(r.iv, t) => r.n = Newest(log, r.v.lid, t)
    /\ \A t \in Int : \A id, m : (m = Newest(log, id, t) /\ m # 0 /\ log[m].put /\ Fits(log[m], f))
                                  => \E r \in R : r.n = m /\ r.v.lid = id /\ ValidAt(r.iv, t)
    /\ \A t \in Int : \A r, q \in R : r.v.lid = q.v.lid /\ ValidAt(r.iv, t) /\ ValidAt(q.iv, t) => r = q

(* The records of a filtered log are what its entities show and the filter  *)
(* admits.                                                                  *)
LEMMA RecordsAre ==
    ASSUME NEW log, EdgeLog(log), NEW f, NEW R, R = Records(log, f)
    PROVE  IsFiniteSet(R) /\ RecordsExact(R, log, f)
<1>1. Log(log) /\ \A i \in DOMAIN log : log[i].src \in Int /\ log[i].dst \in Int /\ log[i].rel \in Int
  BY DEF EdgeLog
<1>2. \A id : IsFiniteSet(Shown(log, id)) /\ ShownExact(Shown(log, id), log, id)
  BY <1>1, ShownIs
<1>3. PICK F : F = {Shown(log, id) : id \in Ids(log)}
  OBVIOUS
<1>4. R = {r \in UNION F : Fits(r.v, f)}
  BY <1>3 DEF Records, Fits
<1>5. \A r : r \in R <=> Fits(r.v, f) /\ \E id \in Ids(log) : r \in Shown(log, id)
  BY <1>3, <1>4
<1>6. IsFiniteSet(R)
  <2>1. PICK g : g = [id \in Ids(log) |-> Shown(log, id)]
    OBVIOUS
  <2>2. g \in Surjection(Ids(log), F)
    BY <1>3, <2>1 DEF Surjection
  <2>3. IsFiniteSet(F)
    BY <1>1, <2>2, IdsFinite, FS_Surjection
  <2>4. \A T \in F : IsFiniteSet(T)
    BY <1>2, <1>3
  <2>5. IsFiniteSet(UNION F)
    BY <2>3, <2>4, FS_UNION
  <2> QED
    BY <1>4, <2>5, FS_Subset
<1>7. ASSUME NEW r, NEW id, r \in Shown(log, id)
      PROVE  /\ r.v.lid = id /\ IsShown(r) /\ r.n \in DOMAIN log /\ r.v = log[r.n] /\ r.v.put
             /\ r.v.src \in Int /\ r.v.dst \in Int /\ r.v.rel \in Int
             /\ \A t \in Int : ValidAt(r.iv, t) => r.n = Newest(log, id, t)
  <2>1. /\ r = [v |-> r.v, n |-> r.n, iv |-> r.iv] /\ r.iv \in Intervals
        /\ r.n \in Versions(log, id) /\ r.v = log[r.n] /\ r.v.put
        /\ \A t \in Int : ValidAt(r.iv, t) => r.n = Newest(log, id, t)
    BY <1>2, <1>7 DEF ShownExact
  <2>2. r.n \in DOMAIN log /\ log[r.n].lid = id
    BY <2>1 DEF Versions
  <2>3. r.n \in Int /\ id \in Int
    BY <1>1, <2>2 DEF Log, IsVersion
  <2> QED
    BY <1>1, <2>1, <2>2, <2>3 DEF IsShown
<1>8. ASSUME NEW r \in R
      PROVE  /\ IsShown(r) /\ r.n \in DOMAIN log /\ r.v = log[r.n] /\ r.v.put /\ Fits(r.v, f)
             /\ r.v.src \in Int /\ r.v.dst \in Int /\ r.v.rel \in Int /\ r \in Shown(log, r.v.lid)
             /\ \A t \in Int : ValidAt(r.iv, t) => r.n = Newest(log, r.v.lid, t)
  <2>1. PICK id \in Ids(log) : r \in Shown(log, id)
    BY <1>5
  <2>2. r.v.lid = id
    BY <1>7, <2>1
  <2> QED
    BY <1>5, <1>7, <2>1, <2>2
<1>9. ASSUME NEW t \in Int, NEW id, NEW m, m = Newest(log, id, t), m # 0, log[m].put, Fits(log[m], f)
      PROVE  \E r \in R : r.n = m /\ r.v.lid = id /\ ValidAt(r.iv, t)
  <2>1. PICK r \in Shown(log, id) : ValidAt(r.iv, t)
    BY <1>2, <1>9 DEF ShownExact
  <2>2. r.v.lid = id /\ r.n = m /\ r.v = log[m] /\ r.n \in DOMAIN log
    BY <1>7, <1>9, <2>1
  <2>3. id \in Ids(log)
    BY <2>2 DEF Ids
  <2> QED
    BY <1>5, <1>9, <2>1, <2>2, <2>3
<1>10. ASSUME NEW t \in Int, NEW r \in R, NEW q \in R, r.v.lid = q.v.lid, ValidAt(r.iv, t), ValidAt(q.iv, t)
       PROVE  r = q
  <2>1. PICK id : id = r.v.lid
    OBVIOUS
  <2>2. r \in Shown(log, id) /\ q \in Shown(log, id)
    BY <1>8, <1>10, <2>1
  <2> QED
    BY <1>2, <1>10, <2>2 DEF ShownExact
<1> QED
  BY <1>6, <1>8, <1>9, <1>10 DEF RecordsExact

(* What a built snapshot holds, in terms of the records q of its rows.      *)
RowIs(s, row, r) ==
    /\ row.eid = r.v.lid /\ row.ver = r.n /\ row.from = r.iv.from /\ RowEnd(row) = r.iv.to
    /\ IF row.open THEN row.to = 0 ELSE row.from < row.to
    /\ row.src \in DOMAIN s.nodes /\ s.nodes[row.src] = r.v.src
    /\ row.dst \in DOMAIN s.nodes /\ s.nodes[row.dst] = r.v.dst
    /\ s.rels[row.rel] = r.v.rel
BuiltFrom(s, nl, f, R, N, q) ==
    /\ s.built /\ s.filter = f
    /\ Items(s.nodes, N) /\ \A i, j \in DOMAIN s.nodes : s.nodes[i] = s.nodes[j] => i = j
    /\ Items(q, {r \in R : r.v.src \in N /\ r.v.dst \in N})
    /\ \A i, j \in DOMAIN q : q[i] = q[j] => i = j
    /\ DOMAIN s.rows = DOMAIN q /\ \A i \in DOMAIN q : RowIs(s, s.rows[i], q[i])
    /\ DOMAIN s.avail = DOMAIN s.nodes
    /\ \A i \in DOMAIN s.nodes :
           s.avail[i] = Available(nl, {r \in R : r.v.src \in N /\ r.v.dst \in N}, s.nodes[i])

(* The place of an element in a list is where it is.                        *)
LEMMA PlaceIs ==
    ASSUME NEW s, NEW S, Items(s, S), NEW x \in S
    PROVE  Place(s, x) \in DOMAIN s /\ s[Place(s, x)] = x
<1>1. \E i \in DOMAIN s : s[i] = x
  BY DEF Items
<1> QED
  BY <1>1 DEF Place

(* A row translates back to the record it was made from.                    *)
LEMMA RowOfIs ==
    ASSUME NEW r, IsShown(r), NEW s, NEW N, Items(s.nodes, N), r.v.src \in N, r.v.dst \in N,
           NEW L, Items(s.rels, L), r.v.rel \in L, NEW row, row = RowOf(r, s.nodes, s.rels)
    PROVE  RowIs(s, row, r)
<1>1. PICK a : a = Place(s.nodes, r.v.src)
  OBVIOUS
<1>2. PICK b : b = Place(s.nodes, r.v.dst)
  OBVIOUS
<1>3. PICK c : c = Place(s.rels, r.v.rel)
  OBVIOUS
<1>4. PICK o \in BOOLEAN : o = (r.iv.to = Open)
  OBVIOUS
<1>5. PICK e : e = IF o THEN 0 ELSE r.iv.to
  OBVIOUS
<1>6. row = [eid |-> r.v.lid, ver |-> r.n, src |-> a, dst |-> b, rel |-> c, w |-> r.v.w,
             from |-> r.iv.from, open |-> o, to |-> e]
  BY <1>1, <1>2, <1>3, <1>4, <1>5 DEF RowOf
<1>7. a \in DOMAIN s.nodes /\ s.nodes[a] = r.v.src /\ b \in DOMAIN s.nodes /\ s.nodes[b] = r.v.dst
  BY <1>1, <1>2, PlaceIs
<1>8. s.rels[c] = r.v.rel
  BY <1>3, PlaceIs
<1>9. r.iv.from < r.iv.to
  BY DEF IsShown, Intervals
<1>10. /\ row.eid = r.v.lid /\ row.ver = r.n /\ row.src = a /\ row.dst = b /\ row.rel = c
       /\ row.from = r.iv.from /\ row.open = o /\ row.to = e
  BY <1>6
<1>11. RowEnd(row) = r.iv.to
  BY <1>4, <1>5, <1>10 DEF RowEnd
<1>12. IF row.open THEN row.to = 0 ELSE row.from < row.to
  BY <1>5, <1>9, <1>10
<1> QED
  BY <1>7, <1>8, <1>10, <1>11, <1>12 DEF RowIs

(* The nodes of a snapshot are finitely many ids.                           *)
LEMMA SnapNodesFinite ==
    ASSUME NEW el, EdgeLog(el), NEW nl, Log(nl), NEW f, NEW R, R = Records(el, f), NEW N, N = SnapNodes(nl, R, f)
    PROVE  IsFiniteSet(N) /\ N \subseteq Int
<1>1. IsFiniteSet(R) /\ RecordsExact(R, el, f)
  BY RecordsAre
<1>2. PICK A : A = {r.v.src : r \in R}
  OBVIOUS
<1>3. PICK B : B = {r.v.dst : r \in R}
  OBVIOUS
<1>4. IsFiniteSet(A)
  <2>1. PICK g : g = [r \in R |-> r.v.src]
    OBVIOUS
  <2>2. g \in Surjection(R, A)
    BY <1>2, <2>1 DEF Surjection
  <2> QED
    BY <1>1, <2>2, FS_Surjection
<1>5. IsFiniteSet(B)
  <2>1. PICK g : g = [r \in R |-> r.v.dst]
    OBVIOUS
  <2>2. g \in Surjection(R, B)
    BY <1>3, <2>1 DEF Surjection
  <2> QED
    BY <1>1, <2>2, FS_Surjection
<1>6. A \subseteq Int /\ B \subseteq Int
  BY <1>1, <1>2, <1>3 DEF RecordsExact
<1>7. PICK C : C = {id \in Ids(nl) : HasPayload(nl, id)}
  OBVIOUS
<1>8. IsFiniteSet(C) /\ C \subseteq Int
  <2>1. IsFiniteSet(Ids(nl)) /\ Ids(nl) \subseteq Int
    BY IdsFinite
  <2> QED
    BY <1>7, <2>1, FS_Subset
<1>9. PICK D : D = A \cup B
  OBVIOUS
<1>10. IsFiniteSet(D)
  BY <1>4, <1>5, <1>9, FS_Union
<1>11. IsFiniteSet(C \cup D)
  BY <1>8, <1>10, FS_Union
<1>12. N \subseteq C \cup D
  BY <1>2, <1>3, <1>7, <1>9 DEF SnapNodes, EndsOf
<1> QED
  BY <1>6, <1>8, <1>9, <1>11, <1>12, FS_Subset

(* What build_temporal returns is made from its lists.                      *)
LEMMA BuiltIs ==
    ASSUME NEW el, EdgeLog(el), NEW nl, Log(nl), NEW f, NEW s, s = BuildTemporal(el, nl, f),
           NEW R, R = Records(el, f), NEW N, N = SnapNodes(nl, R, f)
    PROVE  \E q : BuiltFrom(s, nl, f, R, N, q)
<1>1. IsFiniteSet(R) /\ RecordsExact(R, el, f) /\ IsFiniteSet(N) /\ N \subseteq Int
  BY RecordsAre, SnapNodesFinite
<1>2. PICK K : K = {r \in R : r.v.src \in N /\ r.v.dst \in N}
  OBVIOUS
<1>3. PICK q : q = Ranked(K, ByRow)
  OBVIOUS
<1>4. PICK L : L = {r.v.rel : r \in K}
  OBVIOUS
<1>5. PICK nodes : nodes = Ranked(N, Before)
  OBVIOUS
<1>6. PICK rels : rels = Ranked(L, Before)
  OBVIOUS
<1>7. IsFiniteSet(K) /\ \A r \in K : r \in R
  BY <1>1, <1>2, FS_Subset
<1>8. \A r \in K : /\ IsShown(r) /\ r.v.rel \in Int /\ r.n \in DOMAIN el /\ r.v = el[r.n]
  BY <1>1, <1>7 DEF RecordsExact
<1>9. IsFiniteSet(L) /\ L \subseteq Int
  <2>1. PICK g : g = [r \in K |-> r.v.rel]
    OBVIOUS
  <2>2. g \in Surjection(K, L)
    BY <1>4, <2>1 DEF Surjection
  <2>3. IsFiniteSet(L)
    BY <1>7, <2>2, FS_Surjection
  <2> QED
    BY <1>4, <1>8, <2>3
<1>10. Items(q, K) /\ \A i, j \in DOMAIN q : i < j => ByRow(q[i], q[j])
  <2>1. \A x, y \in K : x.n = y.n => x.v = y.v
    BY <1>8
  <2> QED
    BY <1>3, <1>7, <1>8, <2>1, RowsListed
<1>11. Items(nodes, N) /\ \A i, j \in DOMAIN nodes : i < j => nodes[i] < nodes[j]
  BY <1>1, <1>5, NumbersListed DEF Before
<1>12. Items(rels, L)
  BY <1>6, <1>9, NumbersListed
<1>13. \A i, j \in DOMAIN nodes : nodes[i] = nodes[j] => i = j
  <2> TAKE i, j \in DOMAIN nodes
  <2>1. i \in Int /\ j \in Int /\ nodes[i] \in Int /\ nodes[j] \in Int
    BY <1>1, <1>11 DEF Items
  <2>2. ~(i < j) \/ nodes[i] < nodes[j]
    BY <1>11
  <2>3. ~(j < i) \/ nodes[j] < nodes[i]
    BY <1>11
  <2> QED
    BY <2>1, <2>2, <2>3
<1>14. \A i, j \in DOMAIN q : q[i] = q[j] => i = j
  <2>1. \A r \in K : ~ByRow(r, r)
    BY <1>8 DEF ByRow, ByStart, IsShown, Intervals
  <2> TAKE i, j \in DOMAIN q
  <2>2. i \in Int /\ j \in Int /\ q[i] \in K /\ q[j] \in K
    BY <1>10 DEF Items
  <2>3. (i < j => ByRow(q[i], q[j])) /\ (j < i => ByRow(q[j], q[i]))
    BY <1>10
  <2> QED
    BY <2>1, <2>2, <2>3
<1>15. PICK types : types = [i \in DOMAIN nodes |-> IF HasPayload(nl, nodes[i]) THEN Payload(nl, nodes[i]).type ELSE NoType]
  OBVIOUS
<1>16. PICK avail : avail = [i \in DOMAIN nodes |-> Available(nl, K, nodes[i])]
  OBVIOUS
<1>17. s = Assemble(f, K, nodes, types, rels, avail)
  BY <1>2, <1>4, <1>5, <1>6, <1>15, <1>16 DEF BuildTemporal
<1>18. PICK rows : rows = [i \in DOMAIN q |-> RowOf(q[i], nodes, rels)]
  OBVIOUS
<1>19. PICK st : st = [p \in DOMAIN rels |-> TheType({types[r.src] : r \in {x \in Range(rows) : x.rel = p}})]
  OBVIOUS
<1>20. PICK dt : dt = [p \in DOMAIN rels |-> TheType({types[r.dst] : r \in {x \in Range(rows) : x.rel = p}})]
  OBVIOUS
<1>21. s = [built |-> TRUE, filter |-> f, nodes |-> nodes, types |-> types, rels |-> rels, rows |-> rows,
            avail |-> avail, srcType |-> st, dstType |-> dt]
  BY <1>3, <1>17, <1>18, <1>19, <1>20 DEF Assemble
<1>22. s.built /\ s.filter = f /\ s.nodes = nodes /\ s.rels = rels /\ s.rows = rows /\ s.avail = avail
  BY <1>21
<1>23. ASSUME NEW i \in DOMAIN q PROVE RowIs(s, s.rows[i], q[i])
  <2>1. PICK r \in K : r = q[i]
    BY <1>10 DEF Items
  <2>2. IsShown(r) /\ r.v.src \in N /\ r.v.dst \in N /\ r.v.rel \in L
    BY <1>2, <1>4, <1>8
  <2>3. PICK row : row = RowOf(r, nodes, rels)
    OBVIOUS
  <2>4. s.rows[i] = row
    BY <1>18, <1>22, <2>1, <2>3
  <2>5. RowIs(s, row, r)
    BY <1>11, <1>12, <1>22, <2>2, <2>3, RowOfIs
  <2> QED
    BY <2>1, <2>4, <2>5
<1>24. \A i \in DOMAIN s.nodes : s.avail[i] = Available(nl, K, s.nodes[i])
  BY <1>16, <1>22
<1>25. DOMAIN s.rows = DOMAIN q /\ DOMAIN s.avail = DOMAIN s.nodes
  BY <1>16, <1>18, <1>22
<1>26. BuiltFrom(s, nl, f, R, N, q)
  BY <1>2, <1>10, <1>11, <1>13, <1>14, <1>22, <1>23, <1>24, <1>25 DEF BuiltFrom
<1> QED
  BY <1>26

(* What is shown of an edge at an instant is in one row.                    *)
ShownIn(s, el, m) ==
    m # 0 /\ el[m].put /\ Fits(el[m], s.filter) /\ \A n \in {el[m].src, el[m].dst} : n \in Range(s.nodes)

RowsShowing(s, id, t) ==
    {i \in DOMAIN s.rows : s.rows[i].eid = id /\ s.rows[i].from <= t /\ t < RowEnd(s.rows[i])}

RowsShow(s, el, at, m) ==
    /\ Cardinality(at) = IF ShownIn(s, el, m) THEN 1 ELSE 0
    /\ \A i \in at : /\ s.rows[i].ver = m
                     /\ s.nodes[s.rows[i].src] = el[s.rows[i].ver].src
                     /\ s.nodes[s.rows[i].dst] = el[s.rows[i].ver].dst
                     /\ s.rels[s.rows[i].rel] = el[s.rows[i].ver].rel

(* The rows that show an instant are those of the newest versions there.    *)
LEMMA RowsExact ==
    ASSUME NEW el, EdgeLog(el), NEW f, NEW R, RecordsExact(R, el, f), NEW nl, NEW N, NEW q,
           NEW s, BuiltFrom(s, nl, f, R, N, q), NEW t \in Int, NEW id
    PROVE  RowsShow(s, el, RowsShowing(s, id, t), Newest(el, id, t))
<1> SUFFICES ASSUME NEW at, at = RowsShowing(s, id, t), NEW m, m = Newest(el, id, t)
             PROVE  RowsShow(s, el, at, m)
  OBVIOUS
<1>0. at = {i \in DOMAIN s.rows : s.rows[i].eid = id /\ s.rows[i].from <= t /\ t < RowEnd(s.rows[i])}
  BY DEF RowsShowing
<1>1. PICK K : K = {r \in R : r.v.src \in N /\ r.v.dst \in N}
  OBVIOUS
<1>2. /\ Items(q, K) /\ \A i, j \in DOMAIN q : q[i] = q[j] => i = j
      /\ Items(s.nodes, N) /\ s.filter = f /\ DOMAIN s.rows = DOMAIN q
      /\ \A i \in DOMAIN q : RowIs(s, s.rows[i], q[i])
  BY <1>1 DEF BuiltFrom
<1>3. \A i \in DOMAIN q : q[i] \in K /\ q[i] \in R
  BY <1>1, <1>2 DEF Items
<1>4. \A i : i \in at <=> i \in DOMAIN q /\ q[i].v.lid = id /\ ValidAt(q[i].iv, t)
  BY <1>0, <1>2 DEF RowIs, ValidAt
<1>5. \A n : n \in Range(s.nodes) <=> n \in N
  <2>1. PICK x : x = s.nodes
    OBVIOUS
  <2>2. Items(x, N)
    BY <1>2, <2>1
  <2>3. \A n : n \in Range(x) <=> n \in N
    BY <2>2 DEF Items, Range
  <2> QED
    BY <2>1, <2>3
<1>6. ASSUME NEW i \in at
      PROVE  /\ q[i].n = m /\ m \in DOMAIN el /\ q[i].v = el[m] /\ el[m].put /\ Fits(el[m], f)
             /\ el[m].src \in N /\ el[m].dst \in N
  <2>1. PICK r : r = q[i]
    OBVIOUS
  <2>2. r \in R /\ r \in K /\ r.v.lid = id /\ ValidAt(r.iv, t)
    BY <1>3, <1>4, <1>6, <2>1
  <2>3. r.n = m /\ r.n \in DOMAIN el /\ r.v = el[r.n] /\ r.v.put /\ Fits(r.v, f)
    BY <2>2 DEF RecordsExact
  <2> QED
    BY <1>1, <2>1, <2>2, <2>3
<1>7. \A i, j \in at : i = j
  <2> TAKE i, j \in at
  <2>1. PICK r : r = q[i]
    OBVIOUS
  <2>2. PICK u : u = q[j]
    OBVIOUS
  <2>3. r \in R /\ u \in R /\ r.v.lid = id /\ u.v.lid = id /\ ValidAt(r.iv, t) /\ ValidAt(u.iv, t)
    BY <1>3, <1>4, <2>1, <2>2
  <2>4. r = u
    BY <2>3 DEF RecordsExact
  <2> QED
    BY <1>2, <1>4, <2>1, <2>2, <2>4
<1>8. ShownIn(s, el, m) <=> m # 0 /\ el[m].put /\ Fits(el[m], f) /\ el[m].src \in N /\ el[m].dst \in N
  BY <1>2, <1>5 DEF ShownIn
<1>9. ASSUME NEW i \in at PROVE ShownIn(s, el, m)
  <2>1. m # 0
    BY <1>6, <1>9 DEF EdgeLog, Log
  <2> QED
    BY <1>6, <1>8, <1>9, <2>1
<1>10. ASSUME ShownIn(s, el, m) PROVE at # {}
  <2>1. m # 0 /\ el[m].put /\ Fits(el[m], f) /\ el[m].src \in N /\ el[m].dst \in N
    BY <1>8, <1>10
  <2>2. PICK r \in R : r.n = m /\ r.v.lid = id /\ ValidAt(r.iv, t)
    BY <2>1 DEF RecordsExact
  <2>3. r.v = el[m]
    BY <2>2 DEF RecordsExact
  <2>4. r \in K
    BY <1>1, <2>1, <2>2, <2>3
  <2>5. PICK i \in DOMAIN q : q[i] = r
    BY <1>2, <2>4 DEF Items
  <2> QED
    BY <1>4, <2>2, <2>5
<1>11. Cardinality(at) = IF ShownIn(s, el, m) THEN 1 ELSE 0
  <2>1. CASE ShownIn(s, el, m)
    <3>1. PICK i : at = {i}
      BY <1>7, <1>10, <2>1
    <3> QED
      BY <2>1, <3>1, FS_Singleton
  <2>2. CASE ~ShownIn(s, el, m)
    <3>1. at = {}
      BY <1>9, <2>2
    <3> QED
      BY <2>2, <3>1, FS_EmptySet
  <2> QED
    BY <2>1, <2>2
<1>12. ASSUME NEW i \in at
       PROVE  /\ s.rows[i].ver = m
              /\ s.nodes[s.rows[i].src] = el[s.rows[i].ver].src
              /\ s.nodes[s.rows[i].dst] = el[s.rows[i].ver].dst
              /\ s.rels[s.rows[i].rel] = el[s.rows[i].ver].rel
  <2>1. RowIs(s, s.rows[i], q[i]) /\ q[i].n = m /\ q[i].v = el[m]
    BY <1>2, <1>4, <1>6, <1>12
  <2> QED
    BY <2>1 DEF RowIs
<1> QED
  BY <1>11, <1>12 DEF RowsShow

(* A node's intervals cover when it is shown or, without a history, when    *)
(* one of its edges is.                                                     *)
LEMMA AvailExact ==
    ASSUME NEW R, IsFiniteSet(R), NEW el, NEW f, RecordsExact(R, el, f), NEW nl, Log(nl), NEW N, NEW q, NEW s,
           BuiltFrom(s, nl, f, R, N, q), NEW i \in DOMAIN s.nodes, NEW a, a = s.avail[i]
    PROVE  /\ Gapped(a)
           /\ \A t \in Int : Shows(a, t) <=>
                  IF s.nodes[i] \in Ids(nl)
                  THEN Newest(nl, s.nodes[i], t) # 0 /\ nl[Newest(nl, s.nodes[i], t)].put
                  ELSE \E j \in DOMAIN s.rows : /\ i \in {s.rows[j].src, s.rows[j].dst}
                                                /\ s.rows[j].from <= t /\ t < RowEnd(s.rows[j])
<1>1. PICK K : K = {r \in R : r.v.src \in N /\ r.v.dst \in N}
  OBVIOUS
<1>2. PICK n : n = s.nodes[i]
  OBVIOUS
<1>3. /\ Items(q, K) /\ DOMAIN s.rows = DOMAIN q /\ \A j \in DOMAIN q : RowIs(s, s.rows[j], q[j])
      /\ \A j \in DOMAIN s.nodes : s.nodes[i] = s.nodes[j] => i = j
      /\ a = Available(nl, K, n)
  BY <1>1, <1>2 DEF BuiltFrom
<1>4. CASE n \in Ids(nl)
  <2>1. PICK S : S = Shown(nl, n)
    OBVIOUS
  <2>2. IsFiniteSet(S) /\ ShownExact(S, nl, n)
    BY <2>1, ShownIs
  <2>3. PICK I : I = {r.iv : r \in S}
    OBVIOUS
  <2>4. a = Merge(I)
    BY <1>3, <1>4, <2>1, <2>3 DEF Available
  <2>5. I \subseteq Intervals
    BY <2>2, <2>3 DEF ShownExact
  <2>6. IsFiniteSet(I)
    <3>1. PICK g : g = [r \in S |-> r.iv]
      OBVIOUS
    <3>2. g \in Surjection(S, I)
      BY <2>3, <3>1 DEF Surjection
    <3> QED
      BY <2>2, <3>2, FS_Surjection
  <2>7. Gapped(a) /\ \A t \in Int : Shows(a, t) <=> Covered(I, t)
    BY <2>4, <2>5, <2>6, MergeShows
  <2>8. ASSUME NEW t \in Int PROVE Covered(I, t) <=> \E r \in S : ValidAt(r.iv, t)
    BY <2>3 DEF Covered
  <2>9. ASSUME NEW t \in Int PROVE (\E r \in S : ValidAt(r.iv, t)) <=> Newest(nl, n, t) # 0 /\ nl[Newest(nl, n, t)].put
    <3>1. ASSUME NEW r \in S, ValidAt(r.iv, t) PROVE Newest(nl, n, t) # 0 /\ nl[Newest(nl, n, t)].put
      <4>1. r.n = Newest(nl, n, t) /\ r.n \in Versions(nl, n) /\ r.v = nl[r.n] /\ r.v.put
        BY <2>2, <3>1 DEF ShownExact
      <4>2. r.n # 0
        BY <4>1 DEF Versions, Log
      <4> QED
        BY <4>1, <4>2
    <3>2. ASSUME Newest(nl, n, t) # 0, nl[Newest(nl, n, t)].put PROVE \E r \in S : ValidAt(r.iv, t)
      BY <2>2, <3>2 DEF ShownExact
    <3> QED
      BY <3>1, <3>2
  <2> QED
    BY <1>2, <1>4, <2>7, <2>8, <2>9
<1>5. CASE n \notin Ids(nl)
  <2>1. PICK S : S = {r \in K : r.v.src = n \/ r.v.dst = n}
    OBVIOUS
  <2>2. PICK I : I = {r.iv : r \in S}
    OBVIOUS
  <2>3. a = Merge(I)
    BY <1>3, <1>5, <2>1, <2>2 DEF Available
  <2>4. \A r \in K : r.iv \in Intervals
    BY <1>1 DEF RecordsExact, IsShown
  <2>5. I \subseteq Intervals
    BY <2>1, <2>2, <2>4
  <2>6. IsFiniteSet(I)
    <3>1. IsFiniteSet(S)
      <4>1. S \subseteq R
        BY <1>1, <2>1
      <4> QED
        BY <4>1, FS_Subset
    <3>2. PICK g : g = [r \in S |-> r.iv]
      OBVIOUS
    <3>3. g \in Surjection(S, I)
      BY <2>2, <3>2 DEF Surjection
    <3> QED
      BY <3>1, <3>3, FS_Surjection
  <2>7. Gapped(a) /\ \A t \in Int : Shows(a, t) <=> Covered(I, t)
    BY <2>3, <2>5, <2>6, MergeShows
  <2>8. ASSUME NEW j \in DOMAIN q
        PROVE  /\ i \in {s.rows[j].src, s.rows[j].dst} <=> q[j].v.src = n \/ q[j].v.dst = n
               /\ s.rows[j].from = q[j].iv.from /\ RowEnd(s.rows[j]) = q[j].iv.to
    <3>1. RowIs(s, s.rows[j], q[j])
      BY <1>3
    <3>2. PICK row : row = s.rows[j]
      OBVIOUS
    <3>3. row.from = q[j].iv.from /\ RowEnd(row) = q[j].iv.to
      BY <3>1, <3>2 DEF RowIs
    <3>4. (i = row.src <=> q[j].v.src = n) /\ (i = row.dst <=> q[j].v.dst = n)
      BY <1>2, <1>3, <3>1, <3>2 DEF RowIs
    <3> QED
      BY <3>2, <3>3, <3>4
  <2>9. ASSUME NEW t \in Int
        PROVE  Covered(I, t) <=> \E j \in DOMAIN q : (q[j].v.src = n \/ q[j].v.dst = n) /\ ValidAt(q[j].iv, t)
    <3>1. Covered(I, t) <=> \E r \in K : (r.v.src = n \/ r.v.dst = n) /\ ValidAt(r.iv, t)
      BY <2>1, <2>2 DEF Covered
    <3>2. \A r : r \in K <=> \E j \in DOMAIN q : q[j] = r
      BY <1>3 DEF Items
    <3> QED
      BY <3>1, <3>2
  <2>10. ASSUME NEW t \in Int
         PROVE  Shows(a, t) <=> \E j \in DOMAIN s.rows : /\ i \in {s.rows[j].src, s.rows[j].dst}
                                                         /\ s.rows[j].from <= t /\ t < RowEnd(s.rows[j])
    BY <1>3, <2>7, <2>8, <2>9 DEF ValidAt
  <2> QED
    BY <1>2, <1>5, <2>7, <2>10
<1> QED
  BY <1>4, <1>5

(* What is built passes the checks of a load.                               *)
LEMMA BuiltLoadable ==
    ASSUME NEW R, IsFiniteSet(R), NEW el, NEW f, RecordsExact(R, el, f), NEW nl, Log(nl), NEW N, NEW q, NEW s,
           BuiltFrom(s, nl, f, R, N, q)
    PROVE  IsLoadable(s)
<1>1. ASSUME NEW r \in Range(s.rows) PROVE IF r.open THEN r.to = 0 ELSE r.from < r.to
  <2>1. PICK i \in DOMAIN s.rows : r = s.rows[i]
    BY <1>1 DEF Range
  <2> QED
    BY <2>1 DEF BuiltFrom, RowIs
<1>2. ASSUME NEW i \in DOMAIN s.avail, NEW a, a = s.avail[i]
      PROVE  /\ \A j \in DOMAIN a : a[j].from < a[j].to
             /\ \A j \in 1 .. Len(a) - 1 : a[j].to < a[j + 1].from
  <2>1. i \in DOMAIN s.nodes
    BY DEF BuiltFrom
  <2>2. Gapped(a)
    BY <1>2, <2>1, AvailExact
  <2>3. \A j \in DOMAIN a : a[j] \in Intervals
    BY <2>2 DEF Gapped
  <2> QED
    BY <2>2, <2>3 DEF Gapped, Intervals
<1> QED
  BY <1>1, <1>2 DEF IsLoadable

-----------------------------------------------------------------------------
(* The theorem.                                                             *)

TemporalInv ==
    /\ EdgeLog(elog) /\ elog \in Seq(Range(elog)) /\ Log(nlog) /\ nlog \in Seq(Range(nlog))
    /\ snap.built => \E f : snap = BuildTemporal(elog, nlog, f)

Grown(new, log, v) ==
    /\ Log(new) /\ new \in Seq(Range(new))
    /\ \A i \in DOMAIN new : (i \in DOMAIN log /\ new[i] = log[i]) \/ new[i] = v

(* A sequence is one over its own elements.                                 *)
LEMMA OverItsRange ==
    ASSUME NEW S, NEW s \in Seq(S)
    PROVE  s \in Seq(Range(s))
<1>1. PICK n \in Nat : s \in [1 .. n -> S]
  BY SeqDef
<1>2. s = [i \in 1 .. n |-> s[i]] /\ DOMAIN s = 1 .. n
  BY <1>1
<1>3. \A i \in 1 .. n : s[i] \in Range(s)
  BY <1>2 DEF Range
<1>4. s \in [1 .. n -> Range(s)]
  BY <1>2, <1>3
<1> QED
  BY <1>4, SeqDef

(* A log grows by one version.                                              *)
LEMMA LogsGrow ==
    ASSUME NEW log, Log(log), log \in Seq(Range(log)), NEW v, IsVersion(v)
    PROVE  Grown(Append(log, v), log, v)
<1> SUFFICES ASSUME NEW new, new = Append(log, v) PROVE Grown(new, log, v)
  OBVIOUS
<1>1. /\ Len(new) = Len(log) + 1 /\ Len(new) \in Nat /\ DOMAIN new = 1 .. Len(new)
      /\ \A i \in 1 .. Len(log) : new[i] = log[i]
      /\ new[Len(log) + 1] = v
  BY DEF Log
<1>2. \A i \in DOMAIN new : (i \in DOMAIN log /\ new[i] = log[i]) \/ new[i] = v
  BY <1>1 DEF Log
<1>3. Log(new)
  BY <1>1, <1>2 DEF Log
<1>4. new \in Seq(Range(log) \cup {v})
  BY DEF Log
<1>5. new \in Seq(Range(new))
  BY <1>4, OverItsRange
<1> QED
  BY <1>2, <1>3, <1>5 DEF Grown

(* A built snapshot is exact, for any history and filter.                   *)
LEMMA BuiltExact ==
    ASSUME TemporalInv
    PROVE  SnapshotExact
<1> SUFFICES ASSUME snap.built PROVE SnapshotExact
  BY DEF SnapshotExact
<1>1. EdgeLog(elog) /\ Log(elog) /\ Log(nlog)
  BY DEF TemporalInv, EdgeLog
<1>2. PICK f : snap = BuildTemporal(elog, nlog, f)
  BY DEF TemporalInv
<1>3. PICK R : R = Records(elog, f)
  OBVIOUS
<1>4. PICK N : N = SnapNodes(nlog, R, f)
  OBVIOUS
<1>5. PICK q : BuiltFrom(snap, nlog, f, R, N, q)
  BY <1>1, <1>2, <1>3, <1>4, BuiltIs
<1>6. IsFiniteSet(R) /\ RecordsExact(R, elog, f)
  BY <1>1, <1>3, RecordsAre
<1>7. IsLoadable(snap)
  BY <1>1, <1>5, <1>6, BuiltLoadable
<1>8. Instants \subseteq Int
  <2>1. \A v \in Range(elog) : v.from \in Int /\ v.to \in Int
    BY <1>1 DEF Log, IsVersion, Range
  <2>2. \A v \in Range(nlog) : v.from \in Int /\ v.to \in Int
    BY <1>1 DEF Log, IsVersion, Range
  <2>3. PICK V : V = Range(elog) \cup Range(nlog)
    OBVIOUS
  <2>4. \A v \in V : {v.from, v.to - 1} \subseteq Int
    BY <2>1, <2>2, <2>3
  <2>5. UNION {{v.from, v.to - 1} : v \in V} \subseteq Int
    BY <2>4
  <2>6. PICK U : U = UNION {{v.from, v.to - 1} : v \in V}
    OBVIOUS
  <2>7. Instants = {0} \cup U
    BY <2>3, <2>6 DEF Instants
  <2> QED
    BY <2>5, <2>6, <2>7
<1>9. ASSUME NEW t \in Instants, NEW id \in Ids(elog), NEW at,
             at = {i \in DOMAIN snap.rows : /\ snap.rows[i].eid = id /\ snap.rows[i].from <= t
                                             /\ t < RowEnd(snap.rows[i])}
      PROVE  /\ Cardinality(at) = IF EdgeShownAt(id, t) THEN 1 ELSE 0
             /\ \A i \in at : /\ snap.rows[i].ver = Newest(elog, id, t)
                              /\ snap.nodes[snap.rows[i].src] = elog[snap.rows[i].ver].src
                              /\ snap.nodes[snap.rows[i].dst] = elog[snap.rows[i].ver].dst
                              /\ snap.rels[snap.rows[i].rel] = elog[snap.rows[i].ver].rel
  <2>1. t \in Int
    BY <1>8
  <2>2. RowsShow(snap, elog, RowsShowing(snap, id, t), Newest(elog, id, t))
    BY <1>1, <1>5, <1>6, <2>1, RowsExact
  <2>3. EdgeShownAt(id, t) <=> ShownIn(snap, elog, Newest(elog, id, t))
    BY DEF EdgeShownAt, Fits, ShownIn
  <2>4. at = RowsShowing(snap, id, t)
    BY <1>9 DEF RowsShowing
  <2> QED
    BY <2>2, <2>3, <2>4 DEF RowsShow
<1>10. ASSUME NEW t \in Instants, NEW i \in DOMAIN snap.nodes
       PROVE  (\E j \in DOMAIN snap.avail[i] : ValidAt(snap.avail[i][j], t))
                <=> IF snap.nodes[i] \in Ids(nlog) THEN NodeShownAt(snap.nodes[i], t)
                    ELSE \E r \in Range(snap.rows) :
                           i \in {r.src, r.dst} /\ r.from <= t /\ t < RowEnd(r)
  <2>1. PICK a : a = snap.avail[i]
    OBVIOUS
  <2>2. t \in Int
    BY <1>8
  <2>3. Shows(a, t) <=>
            IF snap.nodes[i] \in Ids(nlog)
            THEN Newest(nlog, snap.nodes[i], t) # 0 /\ nlog[Newest(nlog, snap.nodes[i], t)].put
            ELSE \E j \in DOMAIN snap.rows : /\ i \in {snap.rows[j].src, snap.rows[j].dst}
                                             /\ snap.rows[j].from <= t /\ t < RowEnd(snap.rows[j])
    BY <1>1, <1>5, <1>6, <2>1, <2>2, AvailExact
  <2>4. (\E r \in Range(snap.rows) : i \in {r.src, r.dst} /\ r.from <= t /\ t < RowEnd(r))
           <=> \E j \in DOMAIN snap.rows : /\ i \in {snap.rows[j].src, snap.rows[j].dst}
                                           /\ snap.rows[j].from <= t /\ t < RowEnd(snap.rows[j])
    BY DEF Range
  <2>5. Shows(a, t) <=> \E j \in DOMAIN a : ValidAt(a[j], t)
    BY DEF Shows
  <2> QED
    BY <2>1, <2>3, <2>4, <2>5 DEF NodeShownAt
<1> QED
  BY <1>7, <1>9, <1>10 DEF SnapshotExact

(* The histories are sequences of versions from the start on, and the       *)
(* snapshot stays the one built from them.                                  *)
LEMMA TemporalStart == LogInit => TemporalInv
<1> SUFFICES ASSUME LogInit PROVE TemporalInv
  OBVIOUS
<1>1. elog = <<>> /\ nlog = <<>> /\ snap.built = FALSE
  BY DEF LogInit, NoSnap
<1> QED
  BY <1>1 DEF TemporalInv, EdgeLog, Log

(* Writing the histories and building from them keep it.                    *)
LEMMA TemporalStep == TemporalInv /\ [PublishEdge \/ PublishNode \/ Build]_logVars => TemporalInv'
<1> SUFFICES ASSUME TemporalInv, [PublishEdge \/ PublishNode \/ Build]_logVars PROVE TemporalInv'
  OBVIOUS
<1>1. CASE PublishEdge
  <2>1. PICK v \in EdgeVersions : elog' = Append(elog, v)
    BY <1>1 DEF PublishEdge
  <2>2. nlog' = nlog /\ snap' = snap /\ ~snap.built
    BY <1>1 DEF PublishEdge
  <2>3. IsVersion(v) /\ v.src \in Int /\ v.dst \in Int /\ v.rel \in Int
    BY VersionsAssumption
  <2>4. PICK new : new = elog'
    OBVIOUS
  <2>5. EdgeLog(elog) /\ Log(elog) /\ elog \in Seq(Range(elog)) /\ new = Append(elog, v)
    BY <2>1, <2>4 DEF TemporalInv, EdgeLog
  <2>6. Grown(new, elog, v)
    BY <2>3, <2>5, LogsGrow
  <2>7. EdgeLog(new)
    BY <2>3, <2>5, <2>6 DEF EdgeLog, Grown
  <2> QED
    BY <2>2, <2>4, <2>6, <2>7 DEF TemporalInv, Grown
<1>2. CASE PublishNode
  <2>1. PICK v \in NodeVersions : nlog' = Append(nlog, v)
    BY <1>2 DEF PublishNode
  <2>2. elog' = elog /\ snap' = snap /\ ~snap.built
    BY <1>2 DEF PublishNode
  <2>3. IsVersion(v)
    BY VersionsAssumption
  <2>4. PICK new : new = nlog'
    OBVIOUS
  <2>5. Log(nlog) /\ nlog \in Seq(Range(nlog)) /\ new = Append(nlog, v)
    BY <2>1, <2>4 DEF TemporalInv
  <2>6. Grown(new, nlog, v)
    BY <2>3, <2>5, LogsGrow
  <2> QED
    BY <2>2, <2>4, <2>6 DEF TemporalInv, Grown
<1>3. CASE Build
  <2>1. elog' = elog /\ nlog' = nlog /\ \E f : snap' = BuildTemporal(elog, nlog, f)
    BY <1>3 DEF Build
  <2>2. PICK f : snap' = BuildTemporal(elog, nlog, f)
    BY <2>1
  <2>3. snap'.built = TRUE
    BY <2>2 DEF BuildTemporal, Assemble
  <2> QED
    BY <2>1, <2>2, <2>3 DEF TemporalInv
<1>4. CASE UNCHANGED logVars
  BY <1>4 DEF TemporalInv, logVars
<1> QED
  BY <1>1, <1>2, <1>3, <1>4

(* At every instant a temporal snapshot shows exactly the edges and the     *)
(* nodes that the newest versions of the histories it was built from give   *)
(* (build_temporal), whatever the histories, the filters and the order of   *)
(* corrections, and its arrays pass the check that load makes.              *)
THEOREM SnapshotsExact == TemporalSpec => []SnapshotExact
<1>1. LogInit => TemporalInv
  BY TemporalStart
<1>2. TemporalInv /\ [PublishEdge \/ PublishNode \/ Build]_logVars => TemporalInv'
  BY TemporalStep
<1>3. TemporalInv => SnapshotExact
  BY BuiltExact
<1> QED
  BY <1>1, <1>2, <1>3, PTL DEF TemporalSpec

-----------------------------------------------------------------------------
(* Batches of the engine: local ids lead back to what they stand for.       *)

(* R are the rows and N the nodes of a snapshot.                            *)
Framed(R, N) ==
    /\ \E m, n \in Nat : DOMAIN R = 1 .. m /\ N = 1 .. n
    /\ \A i \in DOMAIN R : R[i].src \in N /\ R[i].dst \in N

(* The rows of a built snapshot join its nodes.                             *)
LEMMA SnapFramed ==
    ASSUME TemporalInv, snap.built
    PROVE  Framed(snap.rows, Nodes)
<1>1. EdgeLog(elog) /\ Log(nlog)
  BY DEF TemporalInv
<1>2. PICK f : snap = BuildTemporal(elog, nlog, f)
  BY DEF TemporalInv
<1>3. PICK L : L = Records(elog, f)
  OBVIOUS
<1>4. PICK S : S = SnapNodes(nlog, L, f)
  OBVIOUS
<1>5. PICK q : BuiltFrom(snap, nlog, f, L, S, q)
  BY <1>1, <1>2, <1>3, <1>4, BuiltIs
<1>6. /\ Len(snap.nodes) \in Nat /\ DOMAIN snap.nodes = 1 .. Len(snap.nodes)
      /\ Len(q) \in Nat /\ DOMAIN snap.rows = 1 .. Len(q)
  BY <1>5 DEF BuiltFrom, Items
<1>7. \A i \in DOMAIN snap.rows : snap.rows[i].src \in DOMAIN snap.nodes /\ snap.rows[i].dst \in DOMAIN snap.nodes
  BY <1>5 DEF BuiltFrom, RowIs
<1> QED
  BY <1>6, <1>7 DEF Framed, Nodes

(* Searching a sorted set for one of its elements finds its place.          *)
LEMMA Searched ==
    ASSUME NEW S, IsFiniteSet(S), S \subseteq Int, NEW x \in S
    PROVE  SearchSorted(Sorted(S), x) \in DOMAIN Sorted(S) /\ Sorted(S)[SearchSorted(Sorted(S), x)] = x
<1>1. PICK s : s = Sorted(S)
  OBVIOUS
<1>2. Items(s, S) /\ \A i, j \in DOMAIN s : i < j => s[i] < s[j]
  BY <1>1, NumbersListed DEF Sorted, Before
<1>3. PICK p \in DOMAIN s : s[p] = x
  BY <1>2 DEF Items
<1>4. Len(s) \in Nat /\ DOMAIN s = 1 .. Len(s) /\ \A i \in DOMAIN s : s[i] \in Int
  BY <1>2 DEF Items
<1>5. {i \in DOMAIN s : s[i] < x} = 1 .. p - 1
  <2>1. ASSUME NEW i \in DOMAIN s PROVE s[i] < x <=> i < p
    <3>1. i < p \/ i = p \/ p < i
      BY <1>4
    <3>2. i < p => s[i] < x
      BY <1>2, <1>3
    <3>3. p < i => x < s[i]
      BY <1>2, <1>3
    <3>4. s[i] \in Int /\ x \in Int /\ i \in Int /\ p \in Int
      BY <1>4
    <3> QED
      BY <1>3, <3>1, <3>2, <3>3, <3>4
  <2>2. \A i : i \in 1 .. p - 1 <=> i \in DOMAIN s /\ i < p
    BY <1>3, <1>4
  <2> QED
    BY <2>1, <2>2
<1>6. Cardinality(1 .. p - 1) = p - 1
  BY <1>3, <1>4, FS_Interval
<1>7. SearchSorted(s, x) = p
  <2>1. SearchSorted(s, x) = Cardinality(1 .. p - 1) + 1
    BY <1>5 DEF SearchSorted
  <2> QED
    BY <1>3, <1>4, <1>6, <2>1
<1> QED
  BY <1>1, <1>3, <1>7

(* A concatenation, element by element.                                     *)
Joins(c, a, b) ==
    /\ IsSeq(c) /\ Len(a) \in Nat /\ Len(b) \in Nat /\ Len(c) = Len(a) + Len(b)
    /\ DOMAIN a = 1 .. Len(a) /\ DOMAIN b = 1 .. Len(b) /\ DOMAIN c = 1 .. Len(c)
    /\ \A i \in DOMAIN c : c[i] = IF i <= Len(a) THEN a[i] ELSE b[i - Len(a)]

(* Two sequences end to end.                                                *)
LEMMA JoinedIs ==
    ASSUME NEW a, IsSeq(a), NEW b, IsSeq(b)
    PROVE  Joins(a \o b, a, b)
<1>0. PICK c : c = a \o b
  OBVIOUS
<1>1. PICK T : T = Range(a) \cup Range(b)
  OBVIOUS
<1>2. a \in Seq(T) /\ b \in Seq(T)
  BY <1>1 DEF IsSeq
<1>3. /\ c \in Seq(T) /\ Len(a) \in Nat /\ Len(b) \in Nat /\ Len(c) = Len(a) + Len(b)
      /\ DOMAIN a = 1 .. Len(a) /\ DOMAIN b = 1 .. Len(b) /\ DOMAIN c = 1 .. Len(c)
  BY <1>0, <1>2
<1>4. \A i \in 1 .. Len(c) : c[i] = IF i <= Len(a) THEN a[i] ELSE b[i - Len(a)]
  BY <1>0, <1>2, <1>3
<1>5. IsSeq(c)
  BY <1>3, OverItsRange DEF IsSeq
<1> QED
  BY <1>0, <1>3, <1>4, <1>5 DEF Joins

(* A batch b over rows R: triples of local ids, the positives standing for P *)
(* and the negatives for Q.                                                  *)
Local(b, t) == t = <<t[1], t[2], t[3]>> /\ t[1] \in DOMAIN b.nodes /\ t[3] \in DOMAIN b.nodes
Locals(b, s) == IsSeq(s) /\ \A i \in DOMAIN s : Local(b, s[i])
Backed(b, s) == [i \in DOMAIN s |-> Back(b, s[i])]
TripleOf(R, i) == <<R[i].src, R[i].rel, R[i].dst>>
EndsBack(b, R) == \A i \in DOMAIN b.edges : Back(b, b.ends[i]) = TripleOf(R, b.edges[i])
BatchKept(b, R, P, Q) ==
    /\ IsSeq(b.nodes) /\ IsSeq(b.edges) /\ DOMAIN b.ends = DOMAIN b.edges /\ EndsBack(b, R)
    /\ Locals(b, b.ends) /\ Locals(b, b.pos) /\ Locals(b, b.neg)
    /\ Backed(b, b.pos) = P /\ Backed(b, b.neg) = Q

(* In c, the triples j are a's triples s and then b's triples t.            *)
Follows(c, j, a, s, b, t) ==
    /\ Locals(c, j) /\ Backed(c, j) = Backed(a, s) \o Backed(b, t)
    /\ DOMAIN j = 1 .. Len(s) + Len(t)
    /\ \A i \in DOMAIN j : Back(c, j[i]) = IF i <= Len(s) THEN Back(a, s[i]) ELSE Back(b, t[i - Len(s)])

(* A component's triples behind those of the components before.             *)
LEMMA ShiftBacks ==
    ASSUME NEW a, IsSeq(a.nodes), NEW b, IsSeq(b.nodes), NEW c, c.nodes = a.nodes \o b.nodes,
           NEW s, Locals(a, s), NEW t, Locals(b, t)
    PROVE  Follows(c, s \o Shift(t, Len(a.nodes)), a, s, b, t)
<1>0. PICK j : j = s \o Shift(t, Len(a.nodes))
  OBVIOUS
<1>1. PICK m : m = Len(a.nodes)
  OBVIOUS
<1>2. PICK u : u = Shift(t, m)
  OBVIOUS
<1>3. /\ Len(t) \in Nat /\ DOMAIN t = 1 .. Len(t) /\ Len(s) \in Nat /\ DOMAIN s = 1 .. Len(s)
  BY DEF Locals, IsSeq
<1>4. u = [i \in 1 .. Len(t) |-> <<t[i][1] + m, t[i][2], t[i][3] + m>>]
  BY <1>2, <1>3 DEF Shift
<1>5. IsSeq(u) /\ Len(u) = Len(t) /\ DOMAIN u = 1 .. Len(t)
  <2>1. u \in [1 .. Len(t) -> Range(u)]
    BY <1>4 DEF Range
  <2> QED
    BY <1>3, <2>1, NumberedIsSeq
<1>6. /\ IsSeq(j) /\ DOMAIN j = 1 .. Len(j) /\ Len(j) = Len(s) + Len(t)
      /\ \A i \in DOMAIN j : j[i] = IF i <= Len(s) THEN s[i] ELSE u[i - Len(s)]
  <2>1. IsSeq(s) /\ j = s \o u
    BY <1>0, <1>1, <1>2 DEF Locals
  <2>2. Joins(j, s, u)
    BY <1>5, <2>1, JoinedIs
  <2> QED
    BY <1>5, <2>2 DEF Joins
<1>7. PICK w : w = c.nodes
  OBVIOUS
<1>8. /\ m \in Nat /\ Len(b.nodes) \in Nat /\ DOMAIN a.nodes = 1 .. m /\ DOMAIN b.nodes = 1 .. Len(b.nodes)
      /\ DOMAIN w = 1 .. m + Len(b.nodes)
      /\ \A i \in DOMAIN w : w[i] = IF i <= m THEN a.nodes[i] ELSE b.nodes[i - m]
  <2>1. Joins(w, a.nodes, b.nodes)
    BY <1>7, JoinedIs
  <2> QED
    BY <1>1, <2>1 DEF Joins
<1>9. ASSUME NEW i \in DOMAIN j
      PROVE  /\ Local(c, j[i])
             /\ Back(c, j[i]) = IF i <= Len(s) THEN Back(a, s[i]) ELSE Back(b, t[i - Len(s)])
  <2>1. CASE i <= Len(s)
    <3>1. PICK x : x = s[i]
      OBVIOUS
    <3>2. j[i] = x /\ i \in DOMAIN s
      BY <1>3, <1>6, <2>1, <3>1
    <3>3. x = <<x[1], x[2], x[3]>> /\ x[1] \in 1 .. m /\ x[3] \in 1 .. m
      BY <1>8, <3>1, <3>2 DEF Locals, Local
    <3>4. x[1] \in DOMAIN w /\ x[3] \in DOMAIN w /\ w[x[1]] = a.nodes[x[1]] /\ w[x[3]] = a.nodes[x[3]]
      BY <1>8, <3>3
    <3> QED
      BY <1>7, <2>1, <3>1, <3>2, <3>3, <3>4 DEF Local, Back
  <2>2. CASE ~(i <= Len(s))
    <3>1. PICK k : k = i - Len(s)
      OBVIOUS
    <3>2. k \in 1 .. Len(t) /\ j[i] = u[k]
      BY <1>3, <1>6, <2>2, <3>1
    <3>3. PICK x : x = t[k]
      OBVIOUS
    <3>4. x = <<x[1], x[2], x[3]>> /\ x[1] \in 1 .. Len(b.nodes) /\ x[3] \in 1 .. Len(b.nodes)
      BY <1>3, <1>8, <3>2, <3>3 DEF Locals, Local
    <3>5. j[i] = <<x[1] + m, x[2], x[3] + m>>
      BY <1>4, <3>2, <3>3
    <3>6. PICK p, q : p = x[1] + m /\ q = x[3] + m
      OBVIOUS
    <3>7. /\ p \in DOMAIN w /\ q \in DOMAIN w /\ p - m = x[1] /\ q - m = x[3] /\ ~(p <= m) /\ ~(q <= m)
      <4>1. PICK l, y, z : l = Len(b.nodes) /\ y = x[1] /\ z = x[3] /\ l \in Nat
        BY <1>8
      <4>2. y \in 1 .. l /\ z \in 1 .. l /\ m \in Nat /\ p = y + m /\ q = z + m
        BY <1>8, <3>4, <3>6, <4>1
      <4>3. p \in 1 .. m + l /\ q \in 1 .. m + l /\ p - m = y /\ q - m = z /\ ~(p <= m) /\ ~(q <= m)
        <5>1. \A d, e \in Nat : \A h \in 1 .. e : h + d \in 1 .. d + e /\ (h + d) - d = h /\ ~(h + d <= d)
          OBVIOUS
        <5> QED
          BY <4>1, <4>2, <5>1
      <4>4. DOMAIN w = 1 .. m + l
        BY <1>8, <4>1
      <4> QED
        BY <4>1, <4>3, <4>4
    <3>8. w[p] = b.nodes[x[1]] /\ w[q] = b.nodes[x[3]]
      BY <1>8, <3>7
    <3>9. j[i] = <<p, x[2], q>>
      BY <3>5, <3>6
    <3>12. PICK y : y = j[i]
      OBVIOUS
    <3>13. y[1] = p /\ y[2] = x[2] /\ y[3] = q /\ y = <<y[1], y[2], y[3]>>
      BY <3>9, <3>12
    <3>10. Local(c, y)
      BY <1>7, <3>7, <3>13 DEF Local
    <3>11. Back(c, y) = Back(b, x)
      BY <1>7, <3>8, <3>13 DEF Back
    <3> QED
      BY <2>2, <3>1, <3>3, <3>10, <3>11, <3>12
  <2> QED
    BY <2>1, <2>2
<1>10. PICK A, B, J, D : A = Backed(a, s) /\ B = Backed(b, t) /\ J = Backed(c, j) /\ D = A \o B
  OBVIOUS
<1>11. /\ IsSeq(A) /\ Len(A) = Len(s) /\ \A i \in DOMAIN s : A[i] = Back(a, s[i])
       /\ IsSeq(B) /\ Len(B) = Len(t) /\ \A i \in DOMAIN t : B[i] = Back(b, t[i])
       /\ J = [i \in DOMAIN j |-> J[i]] /\ \A i \in DOMAIN j : J[i] = Back(c, j[i])
  <2>1. A \in [1 .. Len(s) -> Range(A)] /\ B \in [1 .. Len(t) -> Range(B)]
    BY <1>3, <1>10 DEF Backed, Range
  <2>2. IsSeq(A) /\ Len(A) = Len(s) /\ IsSeq(B) /\ Len(B) = Len(t)
    BY <1>3, <2>1, NumberedIsSeq
  <2> QED
    BY <1>10, <2>2 DEF Backed
<1>12. /\ IsSeq(D) /\ DOMAIN D = DOMAIN j
       /\ \A i \in DOMAIN j : D[i] = IF i <= Len(s) THEN A[i] ELSE B[i - Len(s)]
  <2>1. Joins(D, A, B)
    BY <1>10, <1>11, JoinedIs
  <2> QED
    BY <1>3, <1>6, <1>11, <2>1 DEF Joins
<1>13. ASSUME NEW i \in DOMAIN j PROVE D[i] = J[i]
  <2>1. i <= Len(s) => i \in DOMAIN s
    BY <1>3, <1>6
  <2>2. ~(i <= Len(s)) => i - Len(s) \in DOMAIN t
    BY <1>3, <1>6
  <2> QED
    BY <1>9, <1>11, <1>12, <2>1, <2>2
<1>14. D = [i \in DOMAIN j |-> D[i]]
  BY <1>12 DEF IsSeq
<1>15. D = J
  BY <1>11, <1>13, <1>14
<1> QED
  BY <1>0, <1>3, <1>6, <1>9, <1>10, <1>15 DEF Locals, Follows

(* Two batches side by side are a batch.                                    *)
LEMMA PackedKept ==
    ASSUME NEW R, NEW P, NEW Q, NEW U, NEW V, NEW a, BatchKept(a, R, P, Q), NEW b, BatchKept(b, R, U, V)
    PROVE  BatchKept(Packed(a, b), R, P \o U, Q \o V)
<1>1. PICK c : c = Packed(a, b)
  OBVIOUS
<1>2. PICK m : m = Len(a.nodes)
  OBVIOUS
<1>3. /\ c.nodes = a.nodes \o b.nodes /\ c.edges = a.edges \o b.edges
      /\ c.ends = a.ends \o Shift(b.ends, m) /\ c.pos = a.pos \o Shift(b.pos, m) /\ c.neg = a.neg \o Shift(b.neg, m)
  BY <1>1, <1>2 DEF Packed
<1>4. /\ Locals(c, c.ends) /\ DOMAIN c.ends = 1 .. Len(a.ends) + Len(b.ends)
      /\ \A i \in DOMAIN c.ends : Back(c, c.ends[i]) = IF i <= Len(a.ends) THEN Back(a, a.ends[i])
                                                      ELSE Back(b, b.ends[i - Len(a.ends)])
  <2>1. Follows(c, c.ends, a, a.ends, b, b.ends)
    BY <1>2, <1>3, ShiftBacks DEF BatchKept
  <2> QED
    BY <2>1 DEF Follows
<1>5. Locals(c, c.pos) /\ Backed(c, c.pos) = P \o U
  <2>1. Follows(c, c.pos, a, a.pos, b, b.pos)
    BY <1>2, <1>3, ShiftBacks DEF BatchKept
  <2> QED
    BY <2>1 DEF Follows, BatchKept
<1>6. Locals(c, c.neg) /\ Backed(c, c.neg) = Q \o V
  <2>1. Follows(c, c.neg, a, a.neg, b, b.neg)
    BY <1>2, <1>3, ShiftBacks DEF BatchKept
  <2> QED
    BY <2>1 DEF Follows, BatchKept
<1>7. IsSeq(c.nodes)
  BY <1>3, JoinedIs DEF BatchKept, Joins
<1>8. /\ IsSeq(c.edges) /\ DOMAIN c.edges = 1 .. Len(a.edges) + Len(b.edges)
      /\ Len(a.edges) \in Nat /\ Len(b.edges) \in Nat /\ DOMAIN a.edges = 1 .. Len(a.edges) /\ DOMAIN b.edges = 1 .. Len(b.edges)
      /\ \A i \in DOMAIN c.edges : c.edges[i] = IF i <= Len(a.edges) THEN a.edges[i] ELSE b.edges[i - Len(a.edges)]
  <2>1. Joins(c.edges, a.edges, b.edges)
    BY <1>3, JoinedIs DEF BatchKept
  <2> QED
    BY <2>1 DEF Joins
<1>9. Len(a.ends) = Len(a.edges) /\ Len(b.ends) = Len(b.edges)
  BY <1>8 DEF BatchKept, Locals, IsSeq
<1>12. PICK n \in Nat, l \in Nat : n = Len(a.edges) /\ l = Len(b.edges)
  BY <1>8
<1>13. \A i \in 1 .. n + l : IF i <= n THEN i \in 1 .. n ELSE i - n \in 1 .. l
  OBVIOUS
<1>14. DOMAIN c.ends = 1 .. n + l /\ DOMAIN a.edges = 1 .. n /\ DOMAIN b.edges = 1 .. l /\ DOMAIN c.edges = 1 .. n + l
  BY <1>4, <1>8, <1>9, <1>12
<1>15. \A i \in 1 .. n + l : c.edges[i] = IF i <= n THEN a.edges[i] ELSE b.edges[i - n]
  BY <1>8, <1>12, <1>14
<1>10. ASSUME NEW i \in DOMAIN c.edges PROVE Back(c, c.ends[i]) = TripleOf(R, c.edges[i])
  <2>0. i \in 1 .. n + l /\ i \in DOMAIN c.ends
    BY <1>14
  <2>1. CASE i <= Len(a.edges)
    <3>1. i \in DOMAIN a.edges /\ c.edges[i] = a.edges[i] /\ i \in DOMAIN c.ends
      BY <1>12, <1>13, <1>14, <1>15, <2>0, <2>1
    <3> QED
      BY <1>4, <1>9, <2>1, <3>1 DEF BatchKept, EndsBack
  <2>2. CASE ~(i <= Len(a.edges))
    <3>1. PICK k : k = i - Len(a.edges)
      OBVIOUS
    <3>2. k \in DOMAIN b.edges /\ c.edges[i] = b.edges[k] /\ i \in DOMAIN c.ends
      BY <1>12, <1>13, <1>14, <1>15, <2>0, <2>2, <3>1
    <3> QED
      BY <1>4, <1>9, <2>2, <3>1, <3>2 DEF BatchKept, EndsBack
  <2> QED
    BY <2>1, <2>2
<1>11. BatchKept(c, R, P \o U, Q \o V)
  BY <1>4, <1>5, <1>6, <1>7, <1>8, <1>9, <1>10 DEF BatchKept, EndsBack
<1> QED
  BY <1>1, <1>11

(* A triple with both ends in N.                                            *)
Ended(t, N) == t = <<t[1], t[2], t[3]>> /\ t[1] \in N /\ t[3] \in N

(* What is cut from the nodes N and the rows E is a batch.                  *)
LEMMA BatchFrom ==
    ASSUME NEW N, IsFiniteSet(N), N \subseteq Int, NEW E, IsFiniteSet(E), E \subseteq Int,
           \A i \in E : snap.rows[i].src \in N /\ snap.rows[i].dst \in N,
           NEW P, IsSeq(P), \A i \in DOMAIN P : Ended(P[i], N),
           NEW Q, IsSeq(Q), \A i \in DOMAIN Q : Ended(Q[i], N)
    PROVE  BatchKept(BatchFromEdges(N, E, P, Q), snap.rows, P, Q)
<1>1. PICK b : b = BatchFromEdges(N, E, P, Q)
  OBVIOUS
<1>2. PICK s, e : s = Sorted(N) /\ e = Sorted(E)
  OBVIOUS
<1>3. /\ b.nodes = s /\ b.edges = e /\ b.ends = [i \in DOMAIN e |-> Localize(s, Triple(e[i]))]
      /\ b.pos = [i \in DOMAIN P |-> Localize(s, P[i])] /\ b.neg = [i \in DOMAIN Q |-> Localize(s, Q[i])]
  BY <1>1, <1>2 DEF BatchFromEdges
<1>4. Items(s, N) /\ Items(e, E)
  BY <1>2, NumbersListed DEF Sorted
<1>5. IsSeq(s) /\ IsSeq(e) /\ \A i \in DOMAIN e : e[i] \in E
  BY <1>4, OverItsRange DEF IsSeq, Items
<1>6. ASSUME NEW t, Ended(t, N) PROVE Local(b, Localize(s, t)) /\ Back(b, Localize(s, t)) = t
  <2>1. PICK x, y : x = SearchSorted(s, t[1]) /\ y = SearchSorted(s, t[3])
    OBVIOUS
  <2>2. x \in DOMAIN s /\ s[x] = t[1] /\ y \in DOMAIN s /\ s[y] = t[3]
    BY <1>2, <1>6, <2>1, Searched DEF Ended
  <2>3. Localize(s, t) = <<x, t[2], y>>
    BY <2>1 DEF Localize
  <2> QED
    BY <1>3, <1>6, <2>2, <2>3 DEF Local, Back, Ended
<1>7. ASSUME NEW S, IsSeq(S), \A i \in DOMAIN S : Ended(S[i], N), NEW l, l = [i \in DOMAIN S |-> Localize(s, S[i])]
      PROVE  Locals(b, l) /\ Backed(b, l) = S
  <2>1. Len(S) \in Nat /\ DOMAIN S = 1 .. Len(S) /\ S = [i \in DOMAIN S |-> S[i]]
    BY <1>7 DEF IsSeq
  <2>2. l \in [1 .. Len(S) -> Range(l)]
    BY <1>7, <2>1 DEF Range
  <2>3. IsSeq(l)
    BY <2>1, <2>2, NumberedIsSeq
  <2>4. \A i \in DOMAIN S : l[i] = Localize(s, S[i]) /\ Local(b, l[i]) /\ Back(b, l[i]) = S[i]
    BY <1>6, <1>7
  <2>5. DOMAIN l = DOMAIN S
    BY <1>7
  <2> QED
    BY <2>1, <2>3, <2>4, <2>5 DEF Locals, Backed
<1>8. Locals(b, b.pos) /\ Backed(b, b.pos) = P /\ Locals(b, b.neg) /\ Backed(b, b.neg) = Q
  BY <1>3, <1>7
<1>9. PICK T : T = [i \in DOMAIN e |-> Triple(e[i])]
  OBVIOUS
<1>10. IsSeq(T) /\ DOMAIN T = DOMAIN e
  <2>1. Len(e) \in Nat /\ DOMAIN e = 1 .. Len(e)
    BY <1>4 DEF Items
  <2>2. T \in [1 .. Len(e) -> Range(T)]
    BY <1>9, <2>1 DEF Range
  <2> QED
    BY <2>1, <2>2, NumberedIsSeq
<1>11. \A i \in DOMAIN T : Ended(T[i], N) /\ T[i] = TripleOf(snap.rows, e[i])
  BY <1>5, <1>9 DEF Ended, Triple, TripleOf
<1>12. b.ends = [i \in DOMAIN T |-> Localize(s, T[i])]
  BY <1>3, <1>9, <1>10
<1>13. Locals(b, b.ends) /\ Backed(b, b.ends) = T
  BY <1>7, <1>10, <1>11, <1>12
<1>14. DOMAIN b.ends = DOMAIN b.edges /\ EndsBack(b, snap.rows)
  BY <1>3, <1>10, <1>11, <1>12, <1>13 DEF Backed, EndsBack
<1> QED
  BY <1>1, <1>3, <1>5, <1>8, <1>13, <1>14 DEF BatchKept

FlatDo(x, s, a, b, c) == x \o s
FlatGood(x, n, k) == n = 0 => x = <<>>
Flattening == INSTANCE Folding WITH Do <- FlatDo, Good <- FlatGood

(* One more sequence is laid end to end with those before.                  *)
LEMMA FlatMore ==
    ASSUME NEW s, Len(s) \in Nat, NEW t, Len(t) = Len(s) + 1, \A i \in 1 .. Len(s) : t[i] = s[i]
    PROVE  Flat(t) = Flat(s) \o t[Len(t)]
<1>1. Flat(s) = Flattening!Run(<<>>, s, 0, 0, 0)
  BY DEF Flat, Fold, Flattening!Run, FlatDo
<1>2. Flat(t) = Flattening!Run(<<>>, t, 0, 0, 0)
  BY DEF Flat, Fold, Flattening!Run, FlatDo
<1>3. Flattening!Run(<<>>, t, 0, 0, 0) = FlatDo(Flattening!Run(<<>>, s, 0, 0, 0), t[Len(t)], 0, 0, 0)
  BY Flattening!RunMore
<1> QED
  BY <1>1, <1>2, <1>3 DEF FlatDo

(* What the components that are done stand for.                             *)
PosOf(R, c) == [i \in DOMAIN c.kept |-> TripleOf(R, c.kept[i])]
DonePos(R, done) == Flat([k \in DOMAIN done |-> PosOf(R, done[k])])
DoneNeg(done) == Flat([k \in DOMAIN done |-> done[k].negs])

(* One more component is done.                                              *)
LEMMA DoneMore ==
    ASSUME NEW done, IsSeq(done), NEW R, NEW c
    PROVE  /\ IsSeq(Append(done, c))
           /\ DonePos(R, Append(done, c)) = DonePos(R, done) \o PosOf(R, c)
           /\ DoneNeg(Append(done, c)) = DoneNeg(done) \o c.negs
<1>1. PICK n : n = Len(done)
  OBVIOUS
<1>2. PICK new : new = Append(done, c)
  OBVIOUS
<1>3. /\ n \in Nat /\ DOMAIN done = 1 .. n /\ Len(new) = n + 1 /\ DOMAIN new = 1 .. n + 1
      /\ new \in Seq(Range(done) \cup {c}) /\ new[n + 1] = c /\ \A i \in 1 .. n : new[i] = done[i]
  BY <1>1, <1>2 DEF IsSeq
<1>4. IsSeq(new)
  BY <1>3, OverItsRange DEF IsSeq
<1>5. PICK s, t : s = [k \in DOMAIN done |-> PosOf(R, done[k])] /\ t = [k \in DOMAIN new |-> PosOf(R, new[k])]
  OBVIOUS
<1>6. PICK u, v : u = [k \in DOMAIN done |-> done[k].negs] /\ v = [k \in DOMAIN new |-> new[k].negs]
  OBVIOUS
<1>7. /\ s \in [1 .. n -> Range(s)] /\ t \in [1 .. n + 1 -> Range(t)]
      /\ u \in [1 .. n -> Range(u)] /\ v \in [1 .. n + 1 -> Range(v)]
  BY <1>3, <1>5, <1>6 DEF Range
<1>8. Len(s) = n /\ Len(u) = n
  BY <1>3, <1>7, NumberedIsSeq
<1>9. n + 1 \in Nat
  BY <1>3
<1>10. Len(t) = n + 1 /\ Len(v) = n + 1
  BY <1>7, <1>9, NumberedIsSeq
<1>11. \A i \in 1 .. n : t[i] = s[i] /\ v[i] = u[i]
  BY <1>3, <1>5, <1>6
<1>12. t[n + 1] = PosOf(R, c) /\ v[n + 1] = c.negs
  BY <1>3, <1>5, <1>6
<1>13. Flat(t) = Flat(s) \o t[n + 1]
  <2>1. Flat(t) = Flat(s) \o t[Len(t)]
    BY <1>3, <1>8, <1>10, <1>11, FlatMore
  <2> QED
    BY <1>10, <2>1
<1>14. Flat(v) = Flat(u) \o v[n + 1]
  <2>1. Flat(v) = Flat(u) \o v[Len(v)]
    BY <1>3, <1>8, <1>10, <1>11, FlatMore
  <2> QED
    BY <1>10, <2>1
<1> QED
  BY <1>2, <1>4, <1>5, <1>6, <1>12, <1>13, <1>14 DEF DonePos, DoneNeg

(* Nothing done yet.                                                        *)
LEMMA NoneDone == ASSUME NEW R PROVE DonePos(R, <<>>) = <<>> /\ DoneNeg(<<>>) = <<>> /\ IsSeq(<<>>)
<1>1. PICK s, u, d : d = <<>> /\ s = [k \in DOMAIN d |-> PosOf(R, d[k])] /\ u = [k \in DOMAIN d |-> d[k].negs]
  OBVIOUS
<1>2. DOMAIN d = {} /\ d = <<>> /\ \A i \in DOMAIN d : FALSE
  BY <1>1
<1>3. s = <<>> /\ u = <<>>
  BY <1>1, <1>2
<1>4. Flat(<<>>) = <<>>
  <2>1. Flat(<<>>) = Flattening!Run(<<>>, <<>>, 0, 0, 0)
    BY DEF Flat, Fold, Flattening!Run, FlatDo
  <2>2. FlatGood(<<>>, 0, 0) /\ Len(<<>>) = 0
    BY DEF FlatGood
  <2>3. \A x : \A n \in 1 .. Len(<<>>) : FlatGood(x, n - 1, 0) => FlatGood(FlatDo(x, <<>>[n], 0, 0, 0), n, 0)
    BY <2>2
  <2>4. FlatGood(Flattening!Run(<<>>, <<>>, 0, 0, 0), IF Len(<<>>) \in Nat THEN Len(<<>>) ELSE 0, 0)
    BY <2>2, <2>3, Flattening!Runs
  <2> QED
    BY <2>1, <2>2, <2>4 DEF FlatGood
<1>5. <<>> \in Seq(Range(<<>>))
  OBVIOUS
<1> QED
  BY <1>1, <1>3, <1>4, <1>5 DEF DonePos, DoneNeg, IsSeq

-----------------------------------------------------------------------------
(* What is drawn touches what it was drawn from.                            *)

Directed(dir) == dir \in {"out", "in", "any"}

(* Candidates in a direction touch the node they were read for.             *)
LEMMA CandidatesTouch ==
    ASSUME NEW n, NEW dir, Directed(dir), NEW rels, NEW ctx, NEW i \in CandidateEdges(n, dir, rels, ctx)
    PROVE  i \in Rows /\ Touches(i, n, dir)
<1>1. CASE ctx.kind = "none"
  BY <1>1 DEF CandidateEdges
<1>2. CASE ctx.kind # "none"
  <2>1. PICK q \in rels, d \in {e \in {"out", "in"} : dir \in {e, "any"}} :
            i \in TemporalCandidates(snap, n, q, QueryTime(ctx), d)
    BY <1>2 DEF CandidateEdges
  <2>2. i \in Rows /\ (IF d = "out" THEN snap.rows[i].src ELSE snap.rows[i].dst) = n
    BY <2>1 DEF TemporalCandidates, Rows
  <2>3. (d = "out" /\ dir # "in") \/ (d = "in" /\ dir # "out")
    BY <2>1 DEF Directed
  <2> QED
    BY <2>2, <2>3 DEF Touches
<1> QED
  BY <1>1, <1>2

(* The far end of a row and the near end are its two ends.                  *)
LEMMA FarEnds ==
    ASSUME Framed(snap.rows, Nodes), NEW i \in Rows, NEW n, NEW dir, Directed(dir), Touches(i, n, dir)
    PROVE  Far(n, i, dir) \in Nodes /\ {Far(n, i, dir), n} = {snap.rows[i].src, snap.rows[i].dst}
<1>1. snap.rows[i].src \in Nodes /\ snap.rows[i].dst \in Nodes
  BY DEF Framed, Rows
<1>2. CASE dir = "out"
  BY <1>1, <1>2 DEF Far, Touches
<1>3. CASE dir = "in"
  BY <1>1, <1>3 DEF Far, Touches
<1>4. CASE dir = "any"
  BY <1>1, <1>4 DEF Far, Touches
<1> QED
  BY <1>2, <1>3, <1>4 DEF Directed

(* A selection is made among the candidates.                                *)
LEMMA SelectionsIn ==
    ASSUME NEW cands, NEW count, NEW replace, NEW weight, NEW S \in Selections(cands, count, replace, weight)
    PROVE  S \subseteq cands
<1>1. PICK live : live = {c \in cands : weight[c] > 0}
  OBVIOUS
<1>2. \/ S \in {{}} \/ S \in {T \in SUBSET live : T # {} /\ Cardinality(T) <= count}
      \/ S \in {live} \/ S \in kSubset(count, live)
  BY <1>1 DEF Selections
<1>3. kSubset(count, live) \subseteq SUBSET live
  BY DEF kSubset
<1> QED
  BY <1>1, <1>2, <1>3

(* Each pair of a share has a member and one of its draws.                  *)
LEMMA SharesIn ==
    ASSUME NEW S, NEW share, NEW f \in Shares(S, share), NEW x \in f
    PROVE  x = <<x[1], x[2]>> /\ x[1] \in S /\ \E T \in share[x[1]] : x[2] \in T
<1>1. PICK g \in [S -> UNION Range(share)] : (\A s \in S : g[s] \in share[s]) /\ f = UNION {{s} \X g[s] : s \in S}
  BY DEF Shares
<1>2. PICK s \in S : x \in {s} \X g[s]
  BY <1>1
<1> QED
  BY <1>1, <1>2

(* Neighbours drawn in one direction touch the node they were drawn from.   *)
LEMMA DrawnTouch ==
    ASSUME NEW n, NEW dir, Directed(dir), NEW rels, NEW ctx, NEW policy, NEW causal, NEW count, NEW replace, NEW weight,
           NEW T \in Selections(Neighbors(n, dir, rels, ctx, policy, causal), count, replace, weight), NEW i \in T
    PROVE  i \in Rows /\ Touches(i, n, dir)
<1>1. i \in Neighbors(n, dir, rels, ctx, policy, causal)
  BY SelectionsIn
<1>2. i \in CandidateEdges(n, dir, rels, ctx)
  BY <1>1 DEF Neighbors
<1> QED
  BY <1>2, CandidatesTouch

-----------------------------------------------------------------------------
(* What a call in progress keeps.                                           *)

RowIn(R, i, N) == i \in DOMAIN R /\ R[i].src \in N /\ R[i].dst \in N

CompKept(c, R, N) ==
    /\ c = [kept |-> c.kept, nodes |-> c.nodes, edges |-> c.edges, hop |-> c.hop, ctx |-> c.ctx,
            states |-> c.states, negs |-> c.negs]
    /\ c.nodes \subseteq N /\ \A s \in c.states : s[1] \in c.nodes
    /\ \A i \in c.edges : RowIn(R, i, c.nodes)
    /\ IsSeq(c.kept) /\ \A k \in DOMAIN c.kept : RowIn(R, c.kept[k], c.nodes)
    /\ IsSeq(c.negs) /\ \A k \in DOMAIN c.negs : Ended(c.negs[k], N)

SubgraphKept(j, R, N) ==
    /\ j = [kind |-> "subgraph", opt |-> j.opt, rest |-> j.rest, done |-> j.done, batch |-> j.batch, c |-> j.c]
    /\ j.opt \in Fanouts /\ CompKept(j.c, R, N)
    /\ IsSeq(j.rest) /\ \A k \in DOMAIN j.rest : j.rest[k] \subseteq DOMAIN R
    /\ IsSeq(j.done) /\ BatchKept(j.batch, R, DonePos(R, j.done), DoneNeg(j.done))

BlockKept(b, R) == \A x \in b.index : {b.src[x[1]], b.dst[x[2]]} = {R[x[3]].src, R[x[3]].dst}

LayersKept(j, R, N) ==
    /\ j = [kind |-> "layers", opt |-> j.opt, frontier |-> j.frontier, layers |-> j.layers]
    /\ j.opt \in Fanouts /\ j.frontier \subseteq N
    /\ IsSeq(j.layers) /\ \A k \in DOMAIN j.layers : BlockKept(j.layers[k], R)

JobKept(j, R, N) ==
    /\ "kind" \in DOMAIN j
    /\ j.kind = "subgraph" => SubgraphKept(j, R, N)
    /\ j.kind = "batch" => BatchKept(j.batch, R, DonePos(R, j.done), DoneNeg(j.done))
    /\ j.kind \in {"induced", "partition"} => EndsBack(j.batch, R)
    /\ j.kind = "layers" => LayersKept(j, R, N)

EngineInv ==
    /\ TemporalInv
    /\ JobKept(job, snap.rows, Nodes)
    /\ job.kind # "idle" => snap.built

(* The nodes and the rows of a snapshot are finitely many numbers.          *)
LEMMA FramedFinite ==
    ASSUME NEW R, NEW N, Framed(R, N), NEW S, S \subseteq N \/ S \subseteq DOMAIN R
    PROVE  IsFiniteSet(S) /\ S \subseteq Int
<1>1. PICK m \in Nat, n \in Nat : DOMAIN R = 1 .. m /\ N = 1 .. n
  BY DEF Framed
<1>2. IsFiniteSet(1 .. m) /\ IsFiniteSet(1 .. n)
  BY <1>1, FS_Interval
<1>3. IsFiniteSet(DOMAIN R) /\ IsFiniteSet(N) /\ DOMAIN R \subseteq Int /\ N \subseteq Int
  BY <1>1, <1>2
<1>4. IsFiniteSet(S)
  BY <1>3, FS_Subset
<1> QED
  BY <1>3, <1>4

(* A sorted set of numbers lists them.                                      *)
LEMMA SortedIs ==
    ASSUME NEW S, IsFiniteSet(S), S \subseteq Int
    PROVE  IsSeq(Sorted(S)) /\ (\A k \in DOMAIN Sorted(S) : Sorted(S)[k] \in S) /\ Range(Sorted(S)) = S
<1>1. PICK s : s = Sorted(S)
  OBVIOUS
<1>2. Items(s, S)
  BY <1>1, NumbersListed DEF Sorted
<1>3. IsSeq(s)
  BY <1>2, OverItsRange DEF Items, IsSeq
<1>4. Range(s) = S
  BY <1>2 DEF Items, Range
<1> QED
  BY <1>1, <1>2, <1>3, <1>4 DEF Items

(* A component starts with its seed rows and their ends.                    *)
LEMMA ComponentKept ==
    ASSUME Framed(snap.rows, Nodes), NEW opt, NEW seeds, seeds \subseteq Rows
    PROVE  CompKept(Component(opt, seeds), snap.rows, Nodes)
<1>1. PICK R, N : R = snap.rows /\ N = Nodes
  OBVIOUS
<1>2. PICK kept : kept = {i \in seeds : RowMatches(i, opt.ctx)}
  OBVIOUS
<1>3. PICK nodes : nodes = {R[i].src : i \in kept} \cup {R[i].dst : i \in kept}
  OBVIOUS
<1>4. PICK c : c = Component(opt, seeds)
  OBVIOUS
<1>5. PICK states : states = SeedStates(opt, kept, nodes)
  OBVIOUS
<1>6. c = [kept |-> Sorted(kept), nodes |-> nodes, edges |-> {}, hop |-> 1, ctx |-> ContextOf(opt, kept),
           states |-> states, negs |-> <<>>]
  BY <1>1, <1>2, <1>3, <1>4, <1>5 DEF Component
<1>7. kept \subseteq DOMAIN R /\ \A i \in DOMAIN R : R[i].src \in N /\ R[i].dst \in N
  BY <1>1, <1>2 DEF Rows, Framed
<1>8. nodes \subseteq N /\ \A i \in kept : R[i].src \in nodes /\ R[i].dst \in nodes
  BY <1>3, <1>7
<1>9. \A s \in states : s[1] \in nodes
  <2>1. CASE opt.causal = "none"
    BY <1>5, <2>1 DEF SeedStates
  <2>2. CASE opt.causal # "none"
    <3>1. states = UNION {{<<R[i].src, R[i].from>>, <<R[i].dst, R[i].from>>} : i \in kept}
      BY <1>1, <1>5, <2>2 DEF SeedStates
    <3> QED
      BY <1>8, <3>1
  <2> QED
    BY <2>1, <2>2
<1>10. IsFiniteSet(kept) /\ kept \subseteq Int
  BY <1>1, <1>7, FramedFinite
<1>11. IsSeq(Sorted(kept)) /\ \A k \in DOMAIN Sorted(kept) : Sorted(kept)[k] \in kept
  BY <1>10, SortedIs
<1>12. IsSeq(<<>>) /\ \A k \in DOMAIN <<>> : FALSE
  BY NoneDone
<1>13. CompKept(c, R, N)
  BY <1>6, <1>7, <1>8, <1>9, <1>11, <1>12 DEF CompKept, RowIn
<1> QED
  BY <1>1, <1>4, <1>13

(* The states a hop leads to, the nodes of states, and the rows drawn.      *)
Arrivals(f, dir) == {<<Far(x[1][1], x[2], dir), snap.rows[x[2]].from>> : x \in f}
Heads(S) == {s[1] : s \in S}
Untimed(S) == {<<n, NoTime>> : n \in S}
Drawn(f) == {x[2] : x \in f}

(* A hop adds the rows it drew with both their ends.                        *)
LEMMA HopKept ==
    ASSUME Framed(snap.rows, Nodes), NEW opt \in Fanouts, NEW c, CompKept(c, snap.rows, Nodes),
           NEW f \in HopDraws(c, opt), NEW next, NEW reached, NEW states, NEW hop,
           next = Arrivals(f, opt.dir), reached = Heads(next), states \in {next, Untimed(reached \ c.nodes)}
    PROVE  CompKept([kept |-> c.kept, nodes |-> c.nodes \cup reached, edges |-> c.edges \cup Drawn(f),
                     hop |-> hop, ctx |-> c.ctx, states |-> states, negs |-> c.negs], snap.rows, Nodes)
<1>1. PICK R, N, dir : R = snap.rows /\ N = Nodes /\ dir = opt.dir
  OBVIOUS
<1>13. next = {<<Far(x[1][1], x[2], dir), R[x[2]].from>> : x \in f} /\ reached = {s[1] : s \in next}
  BY <1>1 DEF Arrivals, Heads
<1>14. states \in {next, {<<n, NoTime>> : n \in reached \ c.nodes}} /\ Drawn(f) = {x[2] : x \in f}
  BY DEF Untimed, Drawn
<1>2. Directed(dir)
  BY <1>1, FanoutsAssumption DEF Directed
<1>3. PICK nodes, edges : nodes = c.nodes \cup reached /\ edges = c.edges \cup {x[2] : x \in f}
  OBVIOUS
<1>4. ASSUME NEW x \in f
      PROVE  /\ x[1] \in c.states /\ x[2] \in DOMAIN R /\ Far(x[1][1], x[2], dir) \in N
             /\ {Far(x[1][1], x[2], dir), x[1][1]} = {R[x[2]].src, R[x[2]].dst}
  <2>1. PICK share : share = [s \in c.states |-> Selections(Neighbors(s[1], opt.dir, Rels, c.ctx, opt.causal, s[2]),
                                                          opt.fanouts[c.hop], FALSE, EdgeWeight(FALSE))]
    OBVIOUS
  <2>2. f \in Shares(c.states, share)
    BY <2>1 DEF HopDraws
  <2>3. x[1] \in c.states /\ \E T \in share[x[1]] : x[2] \in T
    BY <2>2, SharesIn
  <2>4. PICK T \in Selections(Neighbors(x[1][1], dir, Rels, c.ctx, opt.causal, x[1][2]),
                              opt.fanouts[c.hop], FALSE, EdgeWeight(FALSE)) : x[2] \in T
    BY <1>1, <2>1, <2>3
  <2>5. x[2] \in Rows /\ Touches(x[2], x[1][1], dir)
    BY <1>2, <2>4, DrawnTouch
  <2>6. Far(x[1][1], x[2], dir) \in Nodes /\ {Far(x[1][1], x[2], dir), x[1][1]} = {snap.rows[x[2]].src, snap.rows[x[2]].dst}
    BY <1>2, <2>5, FarEnds
  <2> QED
    BY <1>1, <2>3, <2>5, <2>6 DEF Rows
<1>5. reached = {Far(x[1][1], x[2], dir) : x \in f}
  <2>1. ASSUME NEW x \in f PROVE Far(x[1][1], x[2], dir) \in reached
    <3>1. PICK s : s = <<Far(x[1][1], x[2], dir), R[x[2]].from>>
      OBVIOUS
    <3>2. s \in next /\ s[1] = Far(x[1][1], x[2], dir)
      BY <1>13, <3>1
    <3> QED
      BY <1>13, <3>2
  <2>2. ASSUME NEW n \in reached PROVE \E x \in f : n = Far(x[1][1], x[2], dir)
    <3>1. PICK s \in next : n = s[1]
      BY <1>13
    <3>2. PICK x \in f : s = <<Far(x[1][1], x[2], dir), R[x[2]].from>>
      BY <1>13
    <3> QED
      BY <3>1, <3>2
  <2> QED
    BY <2>1, <2>2
<1>6. /\ c.nodes \subseteq N /\ \A s \in c.states : s[1] \in c.nodes
      /\ \A i \in c.edges : RowIn(R, i, c.nodes)
      /\ IsSeq(c.kept) /\ \A k \in DOMAIN c.kept : RowIn(R, c.kept[k], c.nodes)
      /\ IsSeq(c.negs) /\ \A k \in DOMAIN c.negs : Ended(c.negs[k], N)
  BY <1>1 DEF CompKept
<1>7. nodes \subseteq N
  BY <1>3, <1>4, <1>5, <1>6
<1>8. \A s \in states : s[1] \in nodes
  BY <1>3, <1>13, <1>14
<1>9. \A i \in c.edges : RowIn(R, i, nodes)
  BY <1>3, <1>6 DEF RowIn
<1>10. ASSUME NEW x \in f PROVE RowIn(R, x[2], nodes)
  <2>1. Far(x[1][1], x[2], dir) \in nodes
    BY <1>3, <1>5
  <2>2. x[1][1] \in nodes
    BY <1>3, <1>4, <1>6
  <2>3. R[x[2]].src \in {Far(x[1][1], x[2], dir), x[1][1]} /\ R[x[2]].dst \in {Far(x[1][1], x[2], dir), x[1][1]}
    BY <1>4
  <2> QED
    BY <1>4, <2>1, <2>2, <2>3 DEF RowIn
<1>11. \A i \in edges : RowIn(R, i, nodes)
  BY <1>3, <1>9, <1>10
<1>12. \A k \in DOMAIN c.kept : RowIn(R, c.kept[k], nodes)
  BY <1>3, <1>6 DEF RowIn
<1> QED
  BY <1>1, <1>3, <1>6, <1>7, <1>8, <1>11, <1>12, <1>14 DEF CompKept

(* The batch of a component.                                                *)
LEMMA ComponentBatched ==
    ASSUME Framed(snap.rows, Nodes), NEW c, CompKept(c, snap.rows, Nodes)
    PROVE  BatchKept(ComponentBatch(c), snap.rows, PosOf(snap.rows, c), c.negs)
<1>1. PICK R, N : R = snap.rows /\ N = Nodes
  OBVIOUS
<1>2. PICK P, Q : P = Positives(c) /\ Q = c.negs
  OBVIOUS
<1>3. /\ c.nodes \subseteq N
      /\ \A i \in c.edges : RowIn(R, i, c.nodes)
      /\ IsSeq(c.kept) /\ \A k \in DOMAIN c.kept : RowIn(R, c.kept[k], c.nodes)
      /\ IsSeq(Q) /\ \A k \in DOMAIN Q : Ended(Q[k], N)
  BY <1>1, <1>2 DEF CompKept
<1>4. P = [i \in DOMAIN c.kept |-> TripleOf(R, c.kept[i])]
  BY <1>1, <1>2 DEF Positives, Triple, TripleOf
<1>5. IsSeq(P) /\ DOMAIN P = DOMAIN c.kept
  <2>1. Len(c.kept) \in Nat /\ DOMAIN c.kept = 1 .. Len(c.kept)
    BY <1>3 DEF IsSeq
  <2>2. P \in [1 .. Len(c.kept) -> Range(P)]
    BY <1>4, <2>1 DEF Range
  <2> QED
    BY <2>1, <2>2, NumberedIsSeq
<1>6. PICK T : T = UNION {{x[1], x[3]} : x \in Range(P) \cup Range(Q)}
  OBVIOUS
<1>7. PICK A, E : A = c.nodes \cup T /\ E = c.edges \cup Range(c.kept)
  OBVIOUS
<1>8. \A i \in DOMAIN P : Ended(P[i], c.nodes)
  <2>1. ASSUME NEW i \in DOMAIN P PROVE Ended(P[i], c.nodes)
    <3>1. PICK k : k = c.kept[i]
      OBVIOUS
    <3>2. P[i] = <<R[k].src, R[k].rel, R[k].dst>> /\ R[k].src \in c.nodes /\ R[k].dst \in c.nodes
      BY <1>3, <1>4, <1>5, <3>1 DEF TripleOf, RowIn
    <3> QED
      BY <3>2 DEF Ended
  <2> QED
    BY <2>1
<1>9. \A i \in DOMAIN P : Ended(P[i], A)
  BY <1>7, <1>8 DEF Ended
<1>10. \A i \in DOMAIN Q : Ended(Q[i], A)
  <2>1. ASSUME NEW i \in DOMAIN Q PROVE Ended(Q[i], A)
    <3>1. PICK x : x = Q[i]
      OBVIOUS
    <3>2. x \in Range(Q) /\ x = <<x[1], x[2], x[3]>>
      BY <1>3, <3>1 DEF Range, Ended
    <3>3. x[1] \in T /\ x[3] \in T
      BY <1>6, <3>2
    <3> QED
      BY <1>7, <3>1, <3>2, <3>3 DEF Ended
  <2> QED
    BY <2>1
<1>11. A \subseteq N
  <2>1. ASSUME NEW x \in Range(P) \cup Range(Q) PROVE x[1] \in N /\ x[3] \in N
    <3>1. (\E i \in DOMAIN P : x = P[i]) \/ (\E i \in DOMAIN Q : x = Q[i])
      BY <2>1 DEF Range
    <3> QED
      BY <1>3, <1>8, <3>1 DEF Ended
  <2>2. T \subseteq N
    BY <1>6, <2>1
  <2> QED
    BY <1>3, <1>7, <2>2
<1>12. E \subseteq DOMAIN R /\ \A i \in E : R[i].src \in A /\ R[i].dst \in A
  BY <1>3, <1>7 DEF RowIn, Range
<1>13. IsFiniteSet(A) /\ A \subseteq Int
  BY <1>1, <1>11, FramedFinite
<1>14. IsFiniteSet(E) /\ E \subseteq Int
  BY <1>1, <1>12, FramedFinite
<1>15. BatchKept(BatchFromEdges(A, E, P, Q), snap.rows, P, Q)
  BY <1>1, <1>3, <1>5, <1>9, <1>10, <1>12, <1>13, <1>14, BatchFrom
<1>16. ComponentBatch(c) = BatchFromEdges(A, E, P, Q)
  BY <1>2, <1>6, <1>7 DEF ComponentBatch
<1> QED
  BY <1>1, <1>2, <1>4, <1>15, <1>16 DEF PosOf

(* Whatever replaces an end of a positive is a node.                        *)
LEMMA TriedIn ==
    ASSUME Framed(snap.rows, Nodes), NEW c, CompKept(c, snap.rows, Nodes), NEW head, NEW triple, NEW t, NEW cfg,
           NEW ctx, NEW prior, NEW n \in Tried(c, head, triple, t, cfg, ctx, prior), n # 0
    PROVE  n \in Nodes
<1>1. \A q \in Range(Positives(c)) : q[1] \in Nodes /\ q[3] \in Nodes
  <2>1. ASSUME NEW i \in DOMAIN c.kept PROVE LET q == Positives(c)[i] IN q[1] \in Nodes /\ q[3] \in Nodes
    <3>1. PICK k : k = c.kept[i]
      OBVIOUS
    <3>2. Positives(c)[i] = <<snap.rows[k].src, snap.rows[k].rel, snap.rows[k].dst>>
      BY <3>1 DEF Positives, Triple
    <3>3. snap.rows[k].src \in Nodes /\ snap.rows[k].dst \in Nodes
      BY <3>1 DEF CompKept, RowIn
    <3> QED
      BY <3>2, <3>3
  <2>2. DOMAIN Positives(c) = DOMAIN c.kept
    BY DEF Positives
  <2> QED
    BY <2>1, <2>2 DEF Range
<1>2. InBatch(c, head, triple, cfg) \subseteq Nodes
  <2>1. \A q \in {x \in Range(Positives(c)) : x[2] = triple[2]} : (IF head THEN q[1] ELSE q[3]) \in Nodes
    BY <1>1
  <2>2. {IF head THEN q[1] ELSE q[3] : q \in {x \in Range(Positives(c)) : x[2] = triple[2]}} \subseteq Nodes
    BY <2>1
  <2> QED
    BY <2>2 DEF InBatch
<1>3. NegativeCandidates(c, head, triple, t, cfg) \subseteq Nodes
  <2>1. PICK dir : dir = IF head THEN "in" ELSE "out"
    OBVIOUS
  <2>2. PICK at : at = CandidateContext(cfg, t)
    OBVIOUS
  <2>3. ASSUME NEW m, NEW i \in CandidateEdges(m, dir, {triple[2]}, at) PROVE Far(m, i, dir) \in Nodes
    <3>1. Directed(dir)
      BY <2>1 DEF Directed
    <3>2. i \in Rows /\ Touches(i, m, dir)
      BY <3>1, CandidatesTouch
    <3> QED
      BY <3>1, <3>2, FarEnds
  <2>4. PICK near : near = UNION {{Far(m, i, dir) : i \in CandidateEdges(m, dir, {triple[2]}, at)} : m \in c.nodes}
    OBVIOUS
  <2>5. near \subseteq Nodes
    <3>1. ASSUME NEW w \in near PROVE w \in Nodes
      <4>1. PICK m \in c.nodes : w \in {Far(m, i, dir) : i \in CandidateEdges(m, dir, {triple[2]}, at)}
        BY <2>4
      <4>2. PICK i \in CandidateEdges(m, dir, {triple[2]}, at) : w = Far(m, i, dir)
        BY <4>1
      <4> QED
        BY <2>3, <4>2
    <3> QED
      BY <3>1
  <2>6. NegativeCandidates(c, head, triple, t, cfg) \subseteq near
    <3>1. CASE cfg.source = "random"
      BY <3>1 DEF NegativeCandidates
    <3>2. CASE cfg.source # "random"
      <4>1. NegativeCandidates(c, head, triple, t, cfg)
              = (near \ IF cfg.source = "non_visited" THEN c.nodes ELSE {}) \ {triple[1], triple[3]}
        BY <2>1, <2>2, <2>4, <3>2 DEF NegativeCandidates
      <4> QED
        BY <4>1
    <3> QED
      BY <3>1, <3>2
  <2> QED
    BY <2>5, <2>6
<1>4. \A F \in Fallbacks(cfg) : F \subseteq Nodes
  <2>1. PICK pool : pool = IF cfg.degree /\ Rows # {} THEN {m \in Nodes : Degree(m) > 0} ELSE Nodes
    OBVIOUS
  <2>2. pool \subseteq Nodes
    BY <2>1
  <2>3. Fallbacks(cfg) = IF Cardinality(pool) <= cfg.retries THEN {pool} ELSE kSubset(cfg.retries, pool)
    BY <2>1 DEF Fallbacks
  <2>4. kSubset(cfg.retries, pool) \subseteq SUBSET pool
    BY DEF kSubset
  <2> QED
    BY <2>2, <2>3, <2>4
<1> DEFINE Ok(S) == {m \in S : Acceptable(m, head, triple, t, cfg, ctx, prior)}
<1>5. \/ n \in Ok(InBatch(c, head, triple, cfg)) \/ n \in Ok(NegativeCandidates(c, head, triple, t, cfg))
      \/ n \in UNION {IF Ok(F) = {} THEN {0} ELSE Ok(F) : F \in Fallbacks(cfg)}
  BY DEF Tried
<1> QED
  BY <1>2, <1>3, <1>4, <1>5

(* Fewer than k groups of size per are full before the last is.             *)
LEMMA GroupOf ==
    ASSUME NEW n \in Nat, NEW k \in Nat, NEW per \in Nat, n < k * per
    PROVE  per > 0 /\ n \div per + 1 \in 1 .. k
<1>1. per > 0
  <2>1. per = 0 => k * per = 0
    OBVIOUS
  <2> QED
    BY <2>1
<1>2. PICK q : q = n \div per
  OBVIOUS
<1>3. q \in Nat /\ per * q <= n
  BY <1>1, <1>2
<1>4. ASSUME q >= k PROVE FALSE
  <2>1. PICK d \in Nat : q = k + d
    <3>1. q - k \in Nat /\ q = k + (q - k)
      BY <1>3, <1>4
    <3> QED
      BY <3>1
  <2>2. per * q = per * k + per * d
    BY <2>1
  <2>3. per * d \in Nat /\ per * k = k * per
    OBVIOUS
  <2>4. per * k \in Nat
    OBVIOUS
  <2> QED
    BY <1>3, <2>2, <2>3, <2>4
<1> QED
  BY <1>1, <1>2, <1>3, <1>4

(* A negative has two nodes for its ends.                                   *)
LEMMA NegativeKept ==
    ASSUME Framed(snap.rows, Nodes), NEW opt \in Fanouts, NEW c, CompKept(c, snap.rows, Nodes),
           Len(c.negs) < Wanted(c, opt.cfg), NEW neg \in Negatives(c, opt)
    PROVE  Ended(neg, Nodes)
<1>1. PICK cfg, p : cfg = opt.cfg /\ p = CurrentPositive(c, cfg)
  OBVIOUS
<1>2. PICK triple, t, prior : triple = Positives(c)[p] /\ t = PositiveTime(c, opt, p) /\ prior = SeenInGroup(c, cfg)
  OBVIOUS
<1>3. /\ IsSeq(c.kept) /\ \A k \in DOMAIN c.kept : RowIn(snap.rows, c.kept[k], c.nodes)
      /\ IsSeq(c.negs) /\ (\A k \in DOMAIN c.negs : Ended(c.negs[k], Nodes)) /\ c.nodes \subseteq Nodes
  BY DEF CompKept
<1>4. cfg.per \in Nat /\ (cfg.per > 0 => cfg.heads \subseteq BOOLEAN)
  BY <1>1, FanoutsAssumption
<1>5. Len(c.kept) \in Nat /\ DOMAIN c.kept = 1 .. Len(c.kept) /\ Len(c.negs) \in Nat
  BY <1>3 DEF IsSeq
<1>6. Len(c.negs) < Len(c.kept) * cfg.per
  BY <1>1 DEF Wanted
<1>7. cfg.per > 0 /\ Len(c.negs) \div cfg.per + 1 \in 1 .. Len(c.kept)
  BY <1>4, <1>5, <1>6, GroupOf
<1>8. cfg.heads \subseteq BOOLEAN /\ p \in DOMAIN c.kept
  BY <1>1, <1>4, <1>5, <1>7 DEF CurrentPositive
<1>9. triple = <<triple[1], triple[2], triple[3]>> /\ triple[1] \in Nodes /\ triple[3] \in Nodes
  <2>1. PICK k : k = c.kept[p]
    OBVIOUS
  <2>2. triple = <<snap.rows[k].src, snap.rows[k].rel, snap.rows[k].dst>>
    BY <1>2, <1>8, <2>1 DEF Positives, Triple
  <2>3. snap.rows[k].src \in Nodes /\ snap.rows[k].dst \in Nodes
    BY <1>3, <1>8, <2>1 DEF RowIn
  <2> QED
    BY <2>2, <2>3
<1>10. PICK end : end = [h \in BOOLEAN |-> Tried(c, h, triple, t, cfg, opt.ctx, prior)]
  OBVIOUS
<1>11. ASSUME NEW h \in BOOLEAN, NEW n \in end[h] \ {0} PROVE Ended(Corrupt(triple, h, n), Nodes)
  <2>1. n \in Tried(c, h, triple, t, cfg, opt.ctx, prior) /\ n # 0
    BY <1>10, <1>11
  <2>2. n \in Nodes
    BY <2>1, TriedIn
  <2>3. CASE h
    <3>1. PICK x : x = <<n, triple[2], triple[3]>>
      OBVIOUS
    <3>2. x = <<x[1], x[2], x[3]>> /\ x[1] \in Nodes /\ x[3] \in Nodes
      BY <1>9, <2>2, <3>1
    <3> QED
      BY <2>3, <3>1, <3>2 DEF Corrupt, Ended
  <2>4. CASE ~h
    <3>1. PICK x : x = <<triple[1], triple[2], n>>
      OBVIOUS
    <3>2. x = <<x[1], x[2], x[3]>> /\ x[1] \in Nodes /\ x[3] \in Nodes
      BY <1>9, <2>2, <3>1
    <3> QED
      BY <2>4, <3>1, <3>2 DEF Corrupt, Ended
  <2> QED
    BY <2>3, <2>4
<1>12. \A x \in Exhausted(cfg, prior) : Ended(x, Nodes)
  <2>1. Exhausted(cfg, prior) \subseteq prior
    BY DEF Exhausted
  <2>2. ASSUME NEW x \in prior PROVE Ended(x, Nodes)
    <3>1. PICK j \in DOMAIN c.negs : x = c.negs[j]
      BY <1>2 DEF SeenInGroup
    <3> QED
      BY <1>3, <3>1
  <2> QED
    BY <2>1, <2>2
<1>13. PICK h \in cfg.heads :
           neg \in {Corrupt(triple, h, n) : n \in end[h] \ {0}}
                   \cup (IF 0 \notin end[h] THEN {}
                         ELSE {Corrupt(triple, ~h, n) : n \in end[~h] \ {0}}
                              \cup (IF 0 \in end[~h] THEN Exhausted(cfg, prior) ELSE {}))
  BY <1>1, <1>2, <1>10 DEF Negatives
<1>14. h \in BOOLEAN /\ (~h) \in BOOLEAN
  BY <1>8
<1>15. \/ \E n \in end[h] \ {0} : neg = Corrupt(triple, h, n)
       \/ \E n \in end[~h] \ {0} : neg = Corrupt(triple, ~h, n)
       \/ neg \in Exhausted(cfg, prior)
  BY <1>13
<1> QED
  BY <1>11, <1>12, <1>14, <1>15

-----------------------------------------------------------------------------
(* The message-passing block of a layer.                                    *)

(* A block keeps the two ends of every row it holds.                        *)
LEMMA BlockIs ==
    ASSUME Framed(snap.rows, Nodes), NEW dir, NEW inputs, inputs \subseteq Nodes, NEW f,
           \A x \in f : /\ x[1] \in inputs /\ x[2] \in Rows /\ Far(x[1], x[2], dir) \in Nodes
                        /\ {Far(x[1], x[2], dir), x[1]} = {snap.rows[x[2]].src, snap.rows[x[2]].dst}
    PROVE  BlockKept(Block(f, inputs, dir), snap.rows)
<1>1. PICK b : b = Block(f, inputs, dir)
  OBVIOUS
<1>2. PICK cols : cols = {<<Far(x[1], x[2], dir), x[1], x[2]>> : x \in f}
  OBVIOUS
<1>3. PICK S : S = {c[1] : c \in cols}
  OBVIOUS
<1>4. PICK s, d : s = Sorted(S) /\ d = Sorted(inputs)
  OBVIOUS
<1>5. b.src = s /\ b.dst = d /\ b.index = {<<SearchSorted(s, c[1]), SearchSorted(d, c[2]), c[3]>> : c \in cols}
  BY <1>1, <1>2, <1>3, <1>4 DEF Block
<1>6. ASSUME NEW c \in cols
      PROVE  c[1] \in Nodes /\ c[2] \in inputs /\ {c[1], c[2]} = {snap.rows[c[3]].src, snap.rows[c[3]].dst}
  <2>1. PICK x \in f : c = <<Far(x[1], x[2], dir), x[1], x[2]>>
    BY <1>2
  <2>2. c[1] = Far(x[1], x[2], dir) /\ c[2] = x[1] /\ c[3] = x[2]
    BY <2>1
  <2> QED
    BY <2>2
<1>7. S \subseteq Nodes
  BY <1>3, <1>6
<1>8. IsFiniteSet(S) /\ S \subseteq Int
  BY <1>7, FramedFinite
<1>9. IsFiniteSet(inputs) /\ inputs \subseteq Int
  BY FramedFinite
<1>10. ASSUME NEW y \in b.index PROVE {b.src[y[1]], b.dst[y[2]]} = {snap.rows[y[3]].src, snap.rows[y[3]].dst}
  <2>1. PICK c \in cols : y = <<SearchSorted(s, c[1]), SearchSorted(d, c[2]), c[3]>>
    BY <1>5
  <2>2. y[1] = SearchSorted(s, c[1]) /\ y[2] = SearchSorted(d, c[2]) /\ y[3] = c[3]
    BY <2>1
  <2>3. c[1] \in S /\ c[2] \in inputs
    BY <1>3, <1>6
  <2>4. s[y[1]] = c[1]
    <3>1. PICK n \in S : n = c[1]
      BY <2>3
    <3>2. Sorted(S)[SearchSorted(Sorted(S), n)] = n
      BY <1>8, Searched
    <3> QED
      BY <1>4, <2>2, <3>1, <3>2
  <2>5. d[y[2]] = c[2]
    <3>1. PICK n \in inputs : n = c[2]
      BY <2>3
    <3>2. Sorted(inputs)[SearchSorted(Sorted(inputs), n)] = n
      BY <1>9, Searched
    <3> QED
      BY <1>4, <2>2, <3>1, <3>2
  <2> QED
    BY <1>5, <1>6, <2>2, <2>4, <2>5
<1> QED
  BY <1>1, <1>10 DEF BlockKept

-----------------------------------------------------------------------------
(* One step per action.                                                     *)

Batching == {"subgraph", "batch", "induced", "partition", "layers"}

(* What samples only nodes, edges or walks holds no batch.                  *)
LEMMA OtherKept ==
    ASSUME NEW j, NEW R, NEW N, "kind" \in DOMAIN j, j.kind \notin Batching
    PROVE  JobKept(j, R, N)
  BY DEF JobKept, Batching

(* A call leaves the snapshot as it is.                                     *)
LEMMA CallStep ==
    ASSUME EngineInv, UNCHANGED logVars, snap.built, JobKept(job', snap.rows, Nodes)
    PROVE  EngineInv'
<1>1. elog' = elog /\ nlog' = nlog /\ snap' = snap
  BY DEF logVars
<1>2. TemporalInv'
  BY <1>1 DEF EngineInv, TemporalInv
<1>3. Nodes' = Nodes
  BY <1>1 DEF Nodes
<1> QED
  BY <1>1, <1>2, <1>3 DEF EngineInv

(* A draw of nodes or edges.                                                *)
LEMMA DrawStep ==
    ASSUME EngineInv, DrawNodes \/ DrawEdges \/ DrawNeighbors PROVE EngineInv'
<1>1. snap.built /\ UNCHANGED logVars
  BY DEF DrawNodes, DrawEdges, DrawNeighbors, Call
<1>2. "kind" \in DOMAIN job' /\ job'.kind \notin Batching
  <2>1. CASE DrawNodes
    <3>1. job' = Raised \/ \E d, ctx, types, S : job' = [kind |-> "nodes", d |-> d, ctx |-> ctx, types |-> types, picked |-> S]
      BY <2>1, Zenon DEF DrawNodes, Return
    <3> QED
      BY <3>1 DEF Raised, Batching
  <2>2. CASE DrawEdges
    BY <2>2 DEF DrawEdges, Return, Raised, Batching
  <2>3. CASE DrawNeighbors
    BY <2>3 DEF DrawNeighbors, Return, Raised, Batching
  <2> QED
    BY <2>1, <2>2, <2>3
<1> QED
  BY <1>1, <1>2, OtherKept, CallStep

(* A walk, its pairs, and the end of a call.                                *)
LEMMA WalkingStep ==
    ASSUME EngineInv, StartWalk \/ WalkStep \/ PairContexts \/ Done PROVE EngineInv'
<1>1. UNCHANGED logVars
  BY DEF StartWalk, WalkStep, PairContexts, Done, Call
<1>2. "kind" \in DOMAIN job /\ (job.kind # "idle" => snap.built)
  BY DEF EngineInv, JobKept
<1>3. "kind" \in DOMAIN job' /\ job'.kind \notin Batching /\ (job'.kind # "idle" => snap.built)
  <2>1. CASE StartWalk
    BY <2>1 DEF StartWalk, Return, Call, Batching
  <2>2. CASE WalkStep
    <3>1. job.kind = "walk"
      BY <2>2 DEF WalkStep
    <3>2. "kind" \in DOMAIN Restarted(job) /\ Restarted(job).kind = "walk"
      BY <1>2, <3>1 DEF Restarted
    <3>3. ASSUME NEW c PROVE "kind" \in DOMAIN Crossed(job, c) /\ Crossed(job, c).kind = "walk"
      BY <1>2, <3>1 DEF Crossed
    <3>4. PICK ended : ended = [job EXCEPT !.kind = "walked"]
      OBVIOUS
    <3>5. "kind" \in DOMAIN ended /\ ended.kind = "walked"
      BY <1>2, <3>4
    <3>6. job' = Restarted(job) \/ (\E c : job' = Crossed(job, c)) \/ job' = Raised \/ job' = ended
      BY <2>2, <3>4 DEF WalkStep
    <3>7. "kind" \in DOMAIN Raised /\ Raised.kind = "raised"
      BY DEF Raised
    <3> QED
      BY <1>2, <3>1, <3>2, <3>3, <3>5, <3>6, <3>7 DEF Batching
  <2>3. CASE PairContexts
    <3>1. job.kind # "idle"
      BY <2>3 DEF PairContexts, HasWalked
    <3>2. "kind" \in DOMAIN job' /\ job'.kind = "pairs"
      BY <2>3 DEF PairContexts, Return
    <3> QED
      BY <1>2, <3>1, <3>2 DEF Batching
  <2>4. CASE Done
    BY <2>4 DEF Done, NoCall, Batching
  <2> QED
    BY <2>1, <2>2, <2>3, <2>4
<1>4. JobKept(job', snap.rows, Nodes)
  BY <1>3, OtherKept
<1>5. elog' = elog /\ nlog' = nlog /\ snap' = snap
  BY <1>1 DEF logVars
<1>6. TemporalInv'
  BY <1>5 DEF EngineInv, TemporalInv
<1>7. Nodes' = Nodes
  BY <1>5 DEF Nodes
<1> QED
  BY <1>3, <1>4, <1>5, <1>6, <1>7 DEF EngineInv

(* Elements of a sequence, and a call's record with another component.      *)
LEMMA SeqOver == ASSUME NEW S, NEW s \in Seq(S) PROVE IsSeq(s) /\ \A k \in DOMAIN s : s[k] \in S
<1>1. IsSeq(s)
  BY OverItsRange DEF IsSeq
<1>2. \A k \in DOMAIN s : s[k] \in S
  OBVIOUS
<1> QED
  BY <1>1, <1>2

Called(o, r, n, b, c) == [kind |-> "subgraph", opt |-> o, rest |-> r, done |-> n, batch |-> b, c |-> c]

Compd(k, n, e, h, x, s, g) ==
    [kept |-> k, nodes |-> n, edges |-> e, hop |-> h, ctx |-> x, states |-> s, negs |-> g]

(* Nothing is packed yet.                                                   *)
LEMMA NoneKept ==
    ASSUME NEW R
    PROVE  BatchKept(EmptyBatch, R, DonePos(R, <<>>), DoneNeg(<<>>)) /\ IsSeq(<<>>)
<1>1. DonePos(R, <<>>) = <<>> /\ DoneNeg(<<>>) = <<>> /\ IsSeq(<<>>) /\ DOMAIN <<>> = {}
  BY NoneDone
<1>2. PICK b : b = EmptyBatch
  OBVIOUS
<1>3. b.nodes = <<>> /\ b.edges = <<>> /\ b.ends = <<>> /\ b.pos = <<>> /\ b.neg = <<>>
  BY <1>2 DEF EmptyBatch
<1>4. Backed(b, <<>>) = <<>>
  <2>1. PICK e, l : e = <<>> /\ l = [i \in DOMAIN e |-> Back(b, e[i])]
    OBVIOUS
  <2>2. l = <<>>
    BY <1>1, <2>1
  <2> QED
    BY <2>1, <2>2 DEF Backed
<1> QED
  BY <1>1, <1>2, <1>3, <1>4 DEF BatchKept, EndsBack, Locals

(* The seeds of the first component.                                        *)
LEMMA StartSubgraphStep == ASSUME EngineInv, StartSubgraph PROVE EngineInv'
<1>1. snap.built /\ UNCHANGED logVars /\ TemporalInv
  BY DEF StartSubgraph, Call, EngineInv
<1>2. PICK opt \in Fanouts : \E groups \in [1 .. opt.components -> SUBSET Rows] :
          job' = [kind |-> "subgraph", opt |-> opt, rest |-> Tail(groups), done |-> <<>>,
                  batch |-> EmptyBatch, c |-> Component(opt, groups[1])]
  BY DEF StartSubgraph, Return
<1>12. PICK groups \in [1 .. opt.components -> SUBSET Rows] :
          job' = [kind |-> "subgraph", opt |-> opt, rest |-> Tail(groups), done |-> <<>>,
                  batch |-> EmptyBatch, c |-> Component(opt, groups[1])]
  BY <1>2
<1>3. Framed(snap.rows, Nodes)
  BY <1>1, SnapFramed
<1>4. opt.components \in Nat /\ opt.components >= 1
  BY FanoutsAssumption
<1>5. /\ groups \in Seq(SUBSET Rows) /\ groups # <<>> /\ groups[1] \subseteq Rows
  <2>1. groups \in Seq(SUBSET Rows) /\ Len(groups) = opt.components
    BY <1>4, SeqDef, LenProperties
  <2> QED
    BY <1>4, <2>1
<1>6. Tail(groups) \in Seq(SUBSET Rows)
  BY <1>5
<1>7. IsSeq(Tail(groups)) /\ \A k \in DOMAIN Tail(groups) : Tail(groups)[k] \subseteq DOMAIN snap.rows
  <2>1. PICK s : s = Tail(groups)
    OBVIOUS
  <2>2. IsSeq(s) /\ \A k \in DOMAIN s : s[k] \in SUBSET Rows
    BY <1>6, <2>1, SeqOver
  <2> QED
    BY <2>1, <2>2 DEF Rows
<1>8. CompKept(Component(opt, groups[1]), snap.rows, Nodes)
  BY <1>3, <1>5, ComponentKept
<1>9. BatchKept(EmptyBatch, snap.rows, DonePos(snap.rows, <<>>), DoneNeg(<<>>)) /\ IsSeq(<<>>)
  BY NoneKept
<1>10. SubgraphKept(job', snap.rows, Nodes) /\ "kind" \in DOMAIN job' /\ job'.kind = "subgraph"
  BY <1>12, <1>7, <1>8, <1>9 DEF SubgraphKept
<1>11. JobKept(job', snap.rows, Nodes)
  BY <1>10 DEF JobKept
<1> QED
  BY <1>1, <1>11, CallStep

(* One node to hop from.                                                    *)
LEMMA StartMultihopStep == ASSUME EngineInv, StartMultihop PROVE EngineInv'
<1>1. snap.built /\ UNCHANGED logVars
  BY DEF StartMultihop, Call
<1>2. PICK opt \in Fanouts, n \in Nodes :
          job' = [kind |-> "subgraph", opt |-> opt, rest |-> <<>>, done |-> <<>>, batch |-> EmptyBatch,
                  c |-> [kept |-> <<>>, nodes |-> {n}, edges |-> {}, hop |-> 1, ctx |-> opt.ctx,
                         states |-> {<<n, NoTime>>}, negs |-> <<>>]]
  BY DEF StartMultihop, Return
<1>3. BatchKept(EmptyBatch, snap.rows, DonePos(snap.rows, <<>>), DoneNeg(<<>>)) /\ IsSeq(<<>>)
  BY NoneKept
<1>4. DOMAIN <<>> = {}
  OBVIOUS
<1>5. CompKept([kept |-> <<>>, nodes |-> {n}, edges |-> {}, hop |-> 1, ctx |-> opt.ctx,
                states |-> {<<n, NoTime>>}, negs |-> <<>>], snap.rows, Nodes)
  BY <1>3, <1>4 DEF CompKept
<1>6. SubgraphKept(job', snap.rows, Nodes) /\ "kind" \in DOMAIN job' /\ job'.kind = "subgraph"
  BY <1>2, <1>3, <1>4, <1>5 DEF SubgraphKept
<1>7. JobKept(job', snap.rows, Nodes)
  BY <1>6 DEF JobKept
<1> QED
  BY <1>1, <1>7, CallStep

(* The rows of one hop.                                                     *)
LEMMA HopStep == ASSUME EngineInv, Hop PROVE EngineInv'
<1>1. UNCHANGED logVars /\ job.kind = "subgraph"
  BY DEF Hop, Hopping
<1>2. snap.built /\ TemporalInv /\ SubgraphKept(job, snap.rows, Nodes)
  BY <1>1 DEF EngineInv, JobKept
<1>3. Framed(snap.rows, Nodes)
  BY <1>2, SnapFramed
<1>5. PICK f \in HopDraws(job.c, job.opt) :
          LET c == job.c
              next == {<<Far(x[1][1], x[2], job.opt.dir), snap.rows[x[2]].from>> : x \in f}
              reached == {s[1] : s \in next}
          IN  job' = [job EXCEPT
                !.c.hop = @ + 1, !.c.nodes = @ \cup reached,
                !.c.edges = @ \cup {x[2] : x \in f},
                !.c.states = IF job.opt.causal = "none"
                             THEN {<<n, NoTime>> : n \in reached \ c.nodes} ELSE next]
  BY Zenon DEF Hop
<1>4. PICK c, opt : c = job.c /\ opt = job.opt
  OBVIOUS
<1>6. PICK next : next = {<<Far(x[1][1], x[2], opt.dir), snap.rows[x[2]].from>> : x \in f}
  OBVIOUS
<1>7. PICK reached : reached = {s[1] : s \in next}
  OBVIOUS
<1>8. PICK states : states = IF opt.causal = "none" THEN {<<n, NoTime>> : n \in reached \ c.nodes} ELSE next
  OBVIOUS
<1>9. PICK edges : edges = {x[2] : x \in f}
  OBVIOUS
<1>10. job' = [job EXCEPT !.c.hop = @ + 1, !.c.nodes = @ \cup reached, !.c.edges = @ \cup edges, !.c.states = states]
  BY <1>4, <1>5, <1>6, <1>7, <1>8, <1>9
<1>11. /\ job = [kind |-> "subgraph", opt |-> opt, rest |-> job.rest, done |-> job.done, batch |-> job.batch, c |-> c]
       /\ CompKept(c, snap.rows, Nodes) /\ opt \in Fanouts
       /\ c = [kept |-> c.kept, nodes |-> c.nodes, edges |-> c.edges, hop |-> c.hop, ctx |-> c.ctx,
               states |-> c.states, negs |-> c.negs]
  BY <1>2, <1>4 DEF SubgraphKept, CompKept
<1>12. PICK d : d = [kept |-> c.kept, nodes |-> c.nodes \cup reached, edges |-> c.edges \cup edges,
                     hop |-> c.hop + 1, ctx |-> c.ctx, states |-> states, negs |-> c.negs]
  OBVIOUS
<1>13. CompKept(d, snap.rows, Nodes)
  <2>1. states \in {next, {<<n, NoTime>> : n \in reached \ c.nodes}}
    BY <1>8
  <2> QED
    <3>1. next = Arrivals(f, opt.dir) /\ reached = Heads(next) /\ edges = Drawn(f)
      BY <1>6, <1>7, <1>9 DEF Arrivals, Heads, Drawn
    <3>2. states \in {next, Untimed(reached \ c.nodes)}
      BY <2>1 DEF Untimed
    <3> QED
      BY <1>3, <1>5, <1>4, <1>11, <1>12, <3>1, <3>2, HopKept
<1>14. job' = [kind |-> "subgraph", opt |-> opt, rest |-> job.rest, done |-> job.done, batch |-> job.batch, c |-> d]
  <2>1. job = Called(opt, job.rest, job.done, job.batch, c) /\ c = Compd(c.kept, c.nodes, c.edges, c.hop, c.ctx, c.states, c.negs)
    BY <1>11 DEF Called, Compd
  <2>2. PICK c1 : c1 = [c EXCEPT !.hop = c.hop + 1]
    OBVIOUS
  <2>3. PICK c2 : c2 = [c1 EXCEPT !.nodes = c.nodes \cup reached]
    OBVIOUS
  <2>4. PICK c3 : c3 = [c2 EXCEPT !.edges = c.edges \cup edges]
    OBVIOUS
  <2>5. c1 = Compd(c.kept, c.nodes, c.edges, c.hop + 1, c.ctx, c.states, c.negs)
    BY <2>1, <2>2 DEF Compd
  <2>6. c2 = Compd(c.kept, c.nodes \cup reached, c.edges, c.hop + 1, c.ctx, c.states, c.negs)
    BY <2>3, <2>5 DEF Compd
  <2>7. c3 = Compd(c.kept, c.nodes \cup reached, c.edges \cup edges, c.hop + 1, c.ctx, c.states, c.negs)
    BY <2>4, <2>6 DEF Compd
  <2>8. [c3 EXCEPT !.states = states] = d
    <3>2. PICK k, n, e, h, x, g : k = c.kept /\ n = c.nodes \cup reached /\ e = c.edges \cup edges /\ h = c.hop + 1
                                  /\ x = c.ctx /\ g = c.negs
      OBVIOUS
    <3>3. c3 = Compd(k, n, e, h, x, c.states, g)
      BY <2>7, <3>2
    <3>4. [c3 EXCEPT !.states = states] = Compd(k, n, e, h, x, states, g)
      BY <3>3 DEF Compd
    <3>1. [c3 EXCEPT !.states = states] = Compd(c.kept, c.nodes \cup reached, c.edges \cup edges, c.hop + 1, c.ctx, states, c.negs)
      BY <3>2, <3>4
    <3> QED
      BY <1>12, <3>1 DEF Compd
  <2>9. job' = [job EXCEPT !.c = [c EXCEPT !.hop = c.hop + 1, !.nodes = c.nodes \cup reached,
                                           !.edges = c.edges \cup edges, !.states = states]]
    BY <1>4, <1>10, <1>11
  <2>10. job' = [job EXCEPT !.c = [c3 EXCEPT !.states = states]]
    BY <2>2, <2>3, <2>4, <2>9
  <2>11. job' = Called(opt, job.rest, job.done, job.batch, d)
    BY <2>1, <2>8, <2>10 DEF Called
  <2> QED
    BY <2>11 DEF Called
<1>15. SubgraphKept(job', snap.rows, Nodes) /\ "kind" \in DOMAIN job' /\ job'.kind = "subgraph"
  BY <1>2, <1>11, <1>13, <1>14 DEF SubgraphKept
<1>16. JobKept(job', snap.rows, Nodes)
  BY <1>15 DEF JobKept
<1> QED
  BY <1>1, <1>2, <1>16, CallStep

(* One more negative, or none to be had.                                    *)
LEMMA OneNegativeStep == ASSUME EngineInv, OneNegative PROVE EngineInv'
<1>1. UNCHANGED logVars /\ job.kind = "subgraph" /\ Len(job.c.negs) < Wanted(job.c, job.opt.cfg)
  BY DEF OneNegative, HopsDone
<1>2. snap.built /\ TemporalInv /\ SubgraphKept(job, snap.rows, Nodes)
  BY <1>1 DEF EngineInv, JobKept
<1>3. Framed(snap.rows, Nodes)
  BY <1>2, SnapFramed
<1>4. PICK c, opt : c = job.c /\ opt = job.opt
  OBVIOUS
<1>5. /\ job = [kind |-> "subgraph", opt |-> opt, rest |-> job.rest, done |-> job.done, batch |-> job.batch, c |-> c]
      /\ CompKept(c, snap.rows, Nodes) /\ opt \in Fanouts
      /\ c = [kept |-> c.kept, nodes |-> c.nodes, edges |-> c.edges, hop |-> c.hop, ctx |-> c.ctx,
              states |-> c.states, negs |-> c.negs]
      /\ IsSeq(c.negs) /\ \A k \in DOMAIN c.negs : Ended(c.negs[k], Nodes)
  BY <1>2, <1>4 DEF SubgraphKept, CompKept
<1>6. CASE job' = [kind |-> "exhausted", c |-> job.c, opt |-> job.opt]
  <2>1. "kind" \in DOMAIN job' /\ job'.kind \notin Batching
    BY <1>6 DEF Batching
  <2> QED
    BY <1>1, <1>2, <2>1, OtherKept, CallStep
<1>7. ASSUME NEW neg \in Negatives(c, opt), job' = [job EXCEPT !.c.negs = Append(@, neg)] PROVE EngineInv'
  <2>1. Ended(neg, Nodes)
    BY <1>1, <1>3, <1>4, <1>5, NegativeKept
  <2>2. PICK negs : negs = Append(c.negs, neg)
    OBVIOUS
  <2>3. PICK d : d = [kept |-> c.kept, nodes |-> c.nodes, edges |-> c.edges, hop |-> c.hop, ctx |-> c.ctx,
                      states |-> c.states, negs |-> negs]
    OBVIOUS
  <2>4. job' = [kind |-> "subgraph", opt |-> opt, rest |-> job.rest, done |-> job.done, batch |-> job.batch, c |-> d]
    <3>1. job = Called(opt, job.rest, job.done, job.batch, c) /\ c = Compd(c.kept, c.nodes, c.edges, c.hop, c.ctx, c.states, c.negs)
      BY <1>5 DEF Called, Compd
    <3>2. job' = [job EXCEPT !.c = [c EXCEPT !.negs = negs]]
      BY <1>4, <1>5, <1>7, <2>2
    <3>3. [c EXCEPT !.negs = negs] = Compd(c.kept, c.nodes, c.edges, c.hop, c.ctx, c.states, negs)
      BY <3>1 DEF Compd
    <3>4. job' = Called(opt, job.rest, job.done, job.batch, d)
      BY <2>3, <3>1, <3>2, <3>3 DEF Called, Compd
    <3> QED
      BY <3>4 DEF Called
  <2>5. IsSeq(negs) /\ \A k \in DOMAIN negs : Ended(negs[k], Nodes)
    <3>1. PICK n : n = Len(c.negs)
      OBVIOUS
    <3>2. /\ n \in Nat /\ DOMAIN c.negs = 1 .. n /\ DOMAIN negs = 1 .. n + 1
          /\ negs \in Seq(Range(c.negs) \cup {neg}) /\ negs[n + 1] = neg /\ \A i \in 1 .. n : negs[i] = c.negs[i]
      BY <1>5, <2>2, <3>1 DEF IsSeq
    <3>3. IsSeq(negs)
      BY <3>2, OverItsRange DEF IsSeq
    <3>4. \A k \in 1 .. n + 1 : k \in 1 .. n \/ k = n + 1
      BY <3>2
    <3> QED
      BY <1>5, <2>1, <3>2, <3>3, <3>4
  <2>6. CompKept(d, snap.rows, Nodes)
    BY <1>5, <2>3, <2>5 DEF CompKept
  <2>7. SubgraphKept(job', snap.rows, Nodes) /\ "kind" \in DOMAIN job' /\ job'.kind = "subgraph"
    BY <1>2, <1>5, <2>4, <2>6 DEF SubgraphKept
  <2>8. JobKept(job', snap.rows, Nodes)
    BY <2>7 DEF JobKept
  <2> QED
    BY <1>1, <1>2, <2>8, CallStep
<1> QED
  BY <1>4, <1>6, <1>7 DEF OneNegative

(* A component is packed behind those that are done.                        *)
LEMMA FinishComponentStep == ASSUME EngineInv, FinishComponent PROVE EngineInv'
<1>1. UNCHANGED logVars /\ job.kind = "subgraph"
  BY DEF FinishComponent, HopsDone
<1>2. snap.built /\ TemporalInv /\ SubgraphKept(job, snap.rows, Nodes)
  BY <1>1 DEF EngineInv, JobKept
<1>3. Framed(snap.rows, Nodes)
  BY <1>2, SnapFramed
<1>4. PICK c, opt, rest : c = job.c /\ opt = job.opt /\ rest = job.rest
  OBVIOUS
<1>5. PICK R : R = snap.rows
  OBVIOUS
<1>6. /\ job = [kind |-> "subgraph", opt |-> opt, rest |-> rest, done |-> job.done, batch |-> job.batch, c |-> c]
      /\ CompKept(c, R, Nodes) /\ opt \in Fanouts
      /\ IsSeq(job.done) /\ BatchKept(job.batch, R, DonePos(R, job.done), DoneNeg(job.done))
      /\ IsSeq(rest) /\ \A k \in DOMAIN rest : rest[k] \subseteq DOMAIN R
  BY <1>2, <1>4, <1>5 DEF SubgraphKept
<1>7. PICK batch : batch = Packed(job.batch, ComponentBatch(c))
  OBVIOUS
<1>8. PICK done : done = Append(job.done, c)
  OBVIOUS
<1>9. BatchKept(batch, R, DonePos(R, done), DoneNeg(done)) /\ IsSeq(done)
  <2>1. BatchKept(ComponentBatch(c), R, PosOf(R, c), c.negs)
    BY <1>3, <1>5, <1>6, ComponentBatched
  <2>2. BatchKept(batch, R, DonePos(R, job.done) \o PosOf(R, c), DoneNeg(job.done) \o c.negs)
    BY <1>6, <1>7, <2>1, PackedKept
  <2>3. /\ IsSeq(done) /\ DonePos(R, done) = DonePos(R, job.done) \o PosOf(R, c)
        /\ DoneNeg(done) = DoneNeg(job.done) \o c.negs
    BY <1>6, <1>8, DoneMore
  <2> QED
    BY <2>2, <2>3
<1>10. JobKept(job', R, Nodes)
  <2>1. CASE rest = <<>>
    <3>1. job' = [kind |-> "batch", opt |-> opt, batch |-> batch, done |-> done]
      BY <1>4, <1>7, <1>8, <2>1 DEF FinishComponent
    <3>2. job'.kind = "batch" /\ job'.batch = batch /\ job'.done = done /\ "kind" \in DOMAIN job'
      BY <3>1
    <3> QED
      BY <1>9, <3>2 DEF JobKept
  <2>2. CASE rest # <<>>
    <3>1. job' = [job EXCEPT !.batch = batch, !.done = done, !.rest = Tail(@), !.c = Component(opt, Head(rest))]
      BY <1>4, <1>7, <1>8, <2>2 DEF FinishComponent
    <3>2. job' = [kind |-> "subgraph", opt |-> opt, rest |-> Tail(rest), done |-> done, batch |-> batch,
                  c |-> Component(opt, Head(rest))]
      <4>1. job = Called(opt, rest, job.done, job.batch, c)
        BY <1>6 DEF Called
      <4>2. PICK j1 : j1 = [job EXCEPT !.batch = batch]
        OBVIOUS
      <4>3. PICK j2 : j2 = [j1 EXCEPT !.done = done]
        OBVIOUS
      <4>4. PICK j3 : j3 = [j2 EXCEPT !.rest = Tail(rest)]
        OBVIOUS
      <4>5. j1 = Called(opt, rest, job.done, batch, c)
        BY <4>1, <4>2 DEF Called
      <4>6. j2 = Called(opt, rest, done, batch, c)
        BY <4>3, <4>5 DEF Called
      <4>7. j3 = Called(opt, Tail(rest), done, batch, c)
        BY <4>4, <4>6 DEF Called
      <4>8. job' = [j3 EXCEPT !.c = Component(opt, Head(rest))]
        BY <1>4, <3>1, <4>2, <4>3, <4>4
      <4>9. job' = Called(opt, Tail(rest), done, batch, Component(opt, Head(rest)))
        BY <4>7, <4>8 DEF Called
      <4> QED
        BY <4>9 DEF Called
    <3>3. rest \in Seq(Range(rest)) /\ Head(rest) = rest[1] /\ 1 \in DOMAIN rest
      BY <1>6, <2>2 DEF IsSeq
    <3>4. Head(rest) \subseteq Rows
      BY <1>5, <1>6, <3>3 DEF Rows
    <3>5. CompKept(Component(opt, Head(rest)), R, Nodes)
      BY <1>3, <1>5, <3>4, ComponentKept
    <3>6. Tail(rest) \in Seq(Range(rest))
      BY <2>2, <3>3
    <3>7. IsSeq(Tail(rest)) /\ \A k \in DOMAIN Tail(rest) : Tail(rest)[k] \in Range(rest)
      BY <3>6, SeqOver
    <3>8. \A S \in Range(rest) : S \subseteq DOMAIN R
      BY <1>6 DEF Range
    <3>9. SubgraphKept(job', R, Nodes) /\ "kind" \in DOMAIN job' /\ job'.kind = "subgraph"
      BY <1>6, <1>9, <3>2, <3>5, <3>7, <3>8 DEF SubgraphKept
    <3> QED
      BY <3>9 DEF JobKept
  <2> QED
    BY <2>1, <2>2
<1> QED
  BY <1>1, <1>2, <1>5, <1>10, CallStep

(* The frontier of the first layer.                                         *)
LEMMA StartLayersStep == ASSUME EngineInv, StartLayers PROVE EngineInv'
<1>1. snap.built /\ UNCHANGED logVars
  BY DEF StartLayers, Call
<1>2. PICK opt \in Fanouts, n \in Nodes :
          job' = [kind |-> "layers", opt |-> opt, frontier |-> {n}, layers |-> <<>>]
  BY DEF StartLayers, Return
<1>3. IsSeq(<<>>) /\ DOMAIN <<>> = {}
  BY NoneDone
<1>4. LayersKept(job', snap.rows, Nodes) /\ "kind" \in DOMAIN job' /\ job'.kind = "layers"
  BY <1>2, <1>3 DEF LayersKept
<1>5. JobKept(job', snap.rows, Nodes)
  BY <1>4 DEF JobKept
<1> QED
  BY <1>1, <1>5, CallStep

(* One more block.                                                          *)
LEMMA LayerStep == ASSUME EngineInv, Layer PROVE EngineInv'
<1>1. UNCHANGED logVars /\ job.kind = "layers"
  BY DEF Layer
<1>2. snap.built /\ TemporalInv /\ LayersKept(job, snap.rows, Nodes)
  BY <1>1 DEF EngineInv, JobKept
<1>3. Framed(snap.rows, Nodes)
  BY <1>2, SnapFramed
<1>4. PICK share : share = [n \in job.frontier |->
                 Selections(Neighbors(n, job.opt.dir, Rels, job.opt.ctx, "none", NoTime),
                            job.opt.fanouts[Len(job.layers) + 1], FALSE, EdgeWeight(FALSE))]
  OBVIOUS
<1>5. PICK f \in Shares(job.frontier, share) :
       job' = [job EXCEPT !.layers = Append(@, Block(f, job.frontier, job.opt.dir)),
                          !.frontier = {Far(x[1], x[2], job.opt.dir) : x \in f}]
  BY <1>4 DEF Layer
<1>6. PICK opt, inputs, layers, dir : opt = job.opt /\ inputs = job.frontier /\ layers = job.layers /\ dir = opt.dir
  OBVIOUS
<1>7. PICK next : next = {Far(x[1], x[2], dir) : x \in f}
  OBVIOUS
<1>8. PICK grown, b : b = Block(f, inputs, dir) /\ grown = Append(layers, b)
  OBVIOUS
<1>9. /\ job = [kind |-> "layers", opt |-> opt, frontier |-> inputs, layers |-> layers]
      /\ opt \in Fanouts /\ inputs \subseteq Nodes
      /\ IsSeq(layers) /\ \A k \in DOMAIN layers : BlockKept(layers[k], snap.rows)
  BY <1>2, <1>6 DEF LayersKept
<1>10. job' = [kind |-> "layers", opt |-> opt, frontier |-> next, layers |-> grown]
  <2>1. job' = [job EXCEPT !.layers = grown, !.frontier = next]
    BY <1>5, <1>6, <1>7, <1>8
  <2>2. PICK j : j = [job EXCEPT !.layers = grown]
    OBVIOUS
  <2>3. j = [kind |-> "layers", opt |-> opt, frontier |-> inputs, layers |-> grown]
    BY <1>9, <2>2
  <2>4. job' = [j EXCEPT !.frontier = next]
    BY <2>1, <2>2
  <2> QED
    BY <2>3, <2>4
<1>11. ASSUME NEW x \in f
       PROVE  /\ x[1] \in inputs /\ x[2] \in Rows /\ Far(x[1], x[2], dir) \in Nodes
              /\ {Far(x[1], x[2], dir), x[1]} = {snap.rows[x[2]].src, snap.rows[x[2]].dst}
  <2>1. Directed(dir)
    BY <1>6, <1>9, FanoutsAssumption DEF Directed
  <2>2. x[1] \in inputs /\ \E T \in share[x[1]] : x[2] \in T
    BY <1>5, <1>6, SharesIn
  <2>3. PICK T \in Selections(Neighbors(x[1], dir, Rels, opt.ctx, "none", NoTime),
                              opt.fanouts[Len(layers) + 1], FALSE, EdgeWeight(FALSE)) : x[2] \in T
    BY <1>4, <1>6, <2>2
  <2>4. x[2] \in Rows /\ Touches(x[2], x[1], dir)
    BY <2>1, <2>3, DrawnTouch
  <2> QED
    BY <1>3, <2>1, <2>2, <2>4, FarEnds
<1>12. BlockKept(b, snap.rows)
  BY <1>3, <1>8, <1>9, <1>11, BlockIs
<1>13. IsSeq(grown) /\ \A k \in DOMAIN grown : BlockKept(grown[k], snap.rows)
  <2>1. PICK n : n = Len(layers)
    OBVIOUS
  <2>2. /\ n \in Nat /\ DOMAIN layers = 1 .. n /\ DOMAIN grown = 1 .. n + 1
        /\ grown \in Seq(Range(layers) \cup {b}) /\ grown[n + 1] = b /\ \A i \in 1 .. n : grown[i] = layers[i]
    BY <1>8, <1>9, <2>1 DEF IsSeq
  <2>3. IsSeq(grown)
    BY <2>2, OverItsRange DEF IsSeq
  <2>4. \A k \in 1 .. n + 1 : k \in 1 .. n \/ k = n + 1
    BY <2>2
  <2> QED
    BY <1>9, <1>12, <2>2, <2>3, <2>4
<1>14. next \subseteq Nodes
  BY <1>7, <1>11
<1>15. LayersKept(job', snap.rows, Nodes) /\ "kind" \in DOMAIN job' /\ job'.kind = "layers"
  BY <1>9, <1>10, <1>13, <1>14 DEF LayersKept
<1>16. JobKept(job', snap.rows, Nodes)
  BY <1>15 DEF JobKept
<1> QED
  BY <1>1, <1>2, <1>16, CallStep

(* Chunks of an order of the nodes.                                         *)
LEMMA ChunkIn ==
    ASSUME Framed(snap.rows, Nodes), NEW p \in 1 .. 2, NEW perm \in Orders, NEW c \in 1 .. p
    PROVE  Chunk(perm, p, c) \subseteq Nodes
<1>1. PICK n \in Nat : Nodes = 1 .. n
  BY DEF Framed
<1>2. Cardinality(Nodes) = n
  BY <1>1, FS_Interval
<1>3. n \div 1 = n /\ n % 1 = 0 /\ n \div 2 \in Nat /\ n % 2 \in 0 .. 1 /\ n = 2 * (n \div 2) + (n % 2)
  BY <1>1
<1>4. (p = 1 /\ c = 1) \/ (p = 2 /\ c = 1) \/ (p = 2 /\ c = 2)
  OBVIOUS
<1>5. ChunkStart(p, c) \in Nat /\ ChunkSize(p, c) \in Nat /\ ChunkStart(p, c) + ChunkSize(p, c) <= n
  <2>1. CASE p = 1 /\ c = 1
    BY <1>2, <1>3, <2>1 DEF ChunkStart, ChunkSize
  <2>2. CASE p = 2 /\ c = 1
    BY <1>2, <1>3, <2>2 DEF ChunkStart, ChunkSize
  <2>3. CASE p = 2 /\ c = 2
    BY <1>2, <1>3, <2>3 DEF ChunkStart, ChunkSize
  <2> QED
    BY <1>4, <2>1, <2>2, <2>3
<1>6. \A j \in ChunkStart(p, c) + 1 .. ChunkStart(p, c) + ChunkSize(p, c) : j \in Nodes
  BY <1>1, <1>5
<1>7. \A j \in Nodes : perm[j] \in Nodes
  BY DEF Orders
<1> QED
  BY <1>6, <1>7 DEF Chunk

(* A batch cut from some nodes and the rows among them.                     *)
LEMMA InducedStep ==
    ASSUME EngineInv, snap.built, UNCHANGED logVars, NEW kind \in {"induced", "partition"}, NEW k,
           NEW S, S \subseteq Nodes, InducedDraw(kind, k, S)
    PROVE  EngineInv'
<1>1. Framed(snap.rows, Nodes)
  BY SnapFramed DEF EngineInv
<1>2. "kind" \in DOMAIN job' /\ (job' = Raised \/ \E ctx, rels :
          /\ job'.kind = kind
          /\ job'.batch = BatchFromEdges(S, Induced(S, rels, ctx), <<>>, <<>>))
  <2>1. job' = Raised \/ \E ctx, rels : job' =
           [kind |-> kind, k |-> k, ctx |-> ctx, rels |-> rels, picked |-> Induced(S, rels, ctx),
            weights |-> [i \in Induced(S, rels, ctx) |-> IF kind = "induced" THEN InducedWeight(i, k) ELSE PartitionWeight(i, k)],
            batch |-> BatchFromEdges(S, Induced(S, rels, ctx), <<>>, <<>>)]
    BY Zenon DEF InducedDraw, Return
  <2> QED
    BY <2>1 DEF Raised
<1>3. CASE job' = Raised
  <2>1. job'.kind \notin Batching
    BY <1>3 DEF Raised, Batching
  <2> QED
    BY <1>2, <2>1, OtherKept, CallStep
<1>4. ASSUME NEW ctx, NEW rels, job'.kind = kind, job'.batch = BatchFromEdges(S, Induced(S, rels, ctx), <<>>, <<>>)
      PROVE  EngineInv'
  <2>1. PICK E : E = Induced(S, rels, ctx)
    OBVIOUS
  <2>2. E \subseteq DOMAIN snap.rows /\ \A i \in E : snap.rows[i].src \in S /\ snap.rows[i].dst \in S
    BY <2>1 DEF Induced, Rows
  <2>3. IsFiniteSet(S) /\ S \subseteq Int
    BY <1>1, FramedFinite
  <2>4. IsFiniteSet(E) /\ E \subseteq Int
    BY <1>1, <2>2, FramedFinite
  <2>5. IsSeq(<<>>) /\ DOMAIN <<>> = {}
    BY NoneDone
  <2>6. BatchKept(BatchFromEdges(S, E, <<>>, <<>>), snap.rows, <<>>, <<>>)
    BY <2>2, <2>3, <2>4, <2>5, BatchFrom
  <2>7. EndsBack(job'.batch, snap.rows)
    BY <1>4, <2>1, <2>6 DEF BatchKept
  <2>8. JobKept(job', snap.rows, Nodes)
    BY <1>2, <1>4, <2>7 DEF JobKept
  <2> QED
    BY <2>8, CallStep
<1> QED
  BY <1>2, <1>3, <1>4

(* An induced subgraph, or a block of a partition.                          *)
LEMMA SampleStep == ASSUME EngineInv, SampleInduced \/ SamplePartition PROVE EngineInv'
<1>1. snap.built /\ UNCHANGED logVars
  BY DEF SampleInduced, SamplePartition, Call
<1>2. CASE SampleInduced
  <2>1. PICK k : \E S \in kSubset(k, Nodes) : InducedDraw("induced", k, S)
    BY <1>2 DEF SampleInduced
  <2>2. PICK S \in kSubset(k, Nodes) : InducedDraw("induced", k, S)
    BY <2>1
  <2>3. S \subseteq Nodes
    BY <2>2 DEF kSubset
  <2> QED
    BY <1>1, <2>2, <2>3, InducedStep
<1>3. CASE SamplePartition
  <2>1. PICK p \in 1 .. 2, perm \in Orders : \E c \in 1 .. p : InducedDraw("partition", p, Chunk(perm, p, c))
    BY <1>3 DEF SamplePartition
  <2>2. PICK c \in 1 .. p : InducedDraw("partition", p, Chunk(perm, p, c))
    BY <2>1
  <2>3. Framed(snap.rows, Nodes)
    BY <1>1, SnapFramed DEF EngineInv
  <2>4. Chunk(perm, p, c) \subseteq Nodes
    BY <2>3, ChunkIn
  <2> QED
    BY <1>1, <2>2, <2>4, InducedStep
<1> QED
  BY <1>2, <1>3

-----------------------------------------------------------------------------
(* The theorem.                                                             *)

(* Writing the history and building from it happen before the first call.   *)
LEMMA HistoryStep ==
    ASSUME EngineInv, TemporalInv', (PublishEdge \/ PublishNode \/ Build) /\ UNCHANGED job
    PROVE  EngineInv'
<1>1. job' = job /\ ~snap.built
  BY DEF PublishEdge, PublishNode, Build
<1>2. job'.kind = "idle" /\ "kind" \in DOMAIN job'
  BY <1>1 DEF EngineInv, JobKept
<1>3. \A R, N : JobKept(job', R, N)
  BY <1>2 DEF JobKept
<1> QED
  BY <1>2, <1>3 DEF EngineInv

(* Local ids of what a call returns lead back.                              *)
LEMMA KeptMapsBack == ASSUME EngineInv PROVE BatchMapsBack
<1>1. JobKept(job, snap.rows, Nodes)
  BY DEF EngineInv
<1>2. \A i : TripleOf(snap.rows, i) = Triple(i)
  BY DEF TripleOf, Triple
<1>3. ASSUME job.kind \in {"batch", "induced", "partition"}
      PROVE  \A i \in DOMAIN job.batch.edges : Back(job.batch, job.batch.ends[i]) = Triple(job.batch.edges[i])
  <2>1. EndsBack(job.batch, snap.rows)
    BY <1>1, <1>3 DEF JobKept, BatchKept
  <2> QED
    BY <1>2, <2>1 DEF EndsBack
<1>4. ASSUME job.kind = "batch"
      PROVE  /\ [i \in DOMAIN job.batch.pos |-> Back(job.batch, job.batch.pos[i])]
                  = Flat([k \in DOMAIN job.done |-> Positives(job.done[k])])
             /\ [i \in DOMAIN job.batch.neg |-> Back(job.batch, job.batch.neg[i])]
                  = Flat([k \in DOMAIN job.done |-> job.done[k].negs])
  <2>1. BatchKept(job.batch, snap.rows, DonePos(snap.rows, job.done), DoneNeg(job.done))
    BY <1>1, <1>4 DEF JobKept
  <2>2. Backed(job.batch, job.batch.pos) = DonePos(snap.rows, job.done) /\ Backed(job.batch, job.batch.neg) = DoneNeg(job.done)
    BY <2>1 DEF BatchKept
  <2>3. \A c : PosOf(snap.rows, c) = Positives(c)
    BY <1>2 DEF PosOf, Positives
  <2>4. [k \in DOMAIN job.done |-> PosOf(snap.rows, job.done[k])] = [k \in DOMAIN job.done |-> Positives(job.done[k])]
    BY <2>3
  <2> QED
    BY <2>2, <2>4 DEF Backed, DonePos, DoneNeg
<1>5. ASSUME job.kind = "layers"
      PROVE  \A k \in DOMAIN job.layers : BlockKept(job.layers[k], snap.rows)
  BY <1>1, <1>5 DEF JobKept, LayersKept
<1> QED
  BY <1>3, <1>4, <1>5 DEF BatchMapsBack, BlockKept

(* Local ids of a batch, of a packed batch and of message-passing blocks    *)
(* lead back to the rows, positives and negatives they stand for, whatever  *)
(* the history, the options and the draws, and however many components a    *)
(* batch packs (sampling/engine.py, SampledSubgraphBatch).                  *)
THEOREM BatchesMapBack == EngineSpec => []BatchMapsBack
<1>1. LogInit /\ job = NoCall => EngineInv
  <2> SUFFICES ASSUME LogInit, job = NoCall PROVE EngineInv
    OBVIOUS
  <2>1. TemporalInv
    BY TemporalStart
  <2>2. "kind" \in DOMAIN job /\ job.kind = "idle"
    BY DEF NoCall
  <2> QED
    BY <2>1, <2>2 DEF EngineInv, JobKept
<1>2. EngineInv /\ [\/ (PublishEdge \/ PublishNode \/ Build) /\ UNCHANGED job
                    \/ EngineNext]_<<logVars, job>> => EngineInv'
  <2> SUFFICES ASSUME EngineInv,
                      [\/ (PublishEdge \/ PublishNode \/ Build) /\ UNCHANGED job
                       \/ EngineNext]_<<logVars, job>>
               PROVE  EngineInv'
    OBVIOUS
  <2>1. CASE (PublishEdge \/ PublishNode \/ Build) /\ UNCHANGED job
    <3>1. TemporalInv'
      BY <2>1, TemporalStep DEF EngineInv
    <3> QED
      BY <2>1, <3>1, HistoryStep
  <2>2. CASE DrawNodes \/ DrawEdges \/ DrawNeighbors
    BY <2>2, DrawStep
  <2>3. CASE StartSubgraph
    BY <2>3, StartSubgraphStep
  <2>4. CASE StartMultihop
    BY <2>4, StartMultihopStep
  <2>5. CASE Hop
    BY <2>5, HopStep
  <2>6. CASE OneNegative
    BY <2>6, OneNegativeStep
  <2>7. CASE FinishComponent
    BY <2>7, FinishComponentStep
  <2>8. CASE StartLayers
    BY <2>8, StartLayersStep
  <2>9. CASE Layer
    BY <2>9, LayerStep
  <2>10. CASE SampleInduced \/ SamplePartition
    BY <2>10, SampleStep
  <2>11. CASE StartWalk \/ WalkStep \/ PairContexts \/ Done
    BY <2>11, WalkingStep
  <2>12. CASE UNCHANGED <<logVars, job>>
    <3>1. elog' = elog /\ nlog' = nlog /\ snap' = snap /\ job' = job
      BY <2>12 DEF logVars
    <3>2. Nodes' = Nodes
      BY <3>1 DEF Nodes
    <3> QED
      BY <3>1, <3>2 DEF EngineInv, TemporalInv
  <2> QED
    BY <2>1, <2>2, <2>3, <2>4, <2>5, <2>6, <2>7, <2>8, <2>9, <2>10, <2>11, <2>12 DEF EngineNext
<1>3. EngineInv => BatchMapsBack
  BY KeptMapsBack
<1> QED
  BY <1>1, <1>2, <1>3, PTL DEF EngineSpec
=============================================================================
