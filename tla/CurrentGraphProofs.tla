-------------------------- MODULE CurrentGraphProofs --------------------------
(***************************************************************************)
(* Proofs about CurrentGraph, for every value of its constants: no index   *)
(* or adjacency entry describes a record that is not there, nothing leads  *)
(* to a deleted node, and a lookup that is not refused returns exactly     *)
(* what a scan of the records would.                                       *)
(***************************************************************************)
EXTENDS CurrentGraph, FiniteSetTheorems, TLAPS

-----------------------------------------------------------------------------
(* What is derived from a record, by family.                                *)

Families == PropertyFamilies \cup CompositeFamilies
Linked == {"typed", "legacy"}
ValueEntries(i, r, P) == PropertyEntries(i, r, P) \cup RangeEntries(i, r, P)

(* Entries carry the id they were derived for and a family of their kind.   *)
LEMMA EntryShapes ==
    ASSUME NEW i, NEW r
    PROVE  /\ \A e \in LabelEntries(i, r) : e.id = i /\ e.fam = "label"
           /\ \A e \in TypedEntries(i, r) : e.id = i /\ e.fam = "typed"
           /\ \A e \in LegacyEntries(i, r) : e.id = i /\ e.fam = "legacy"
<1>1. \A e \in LabelEntries(i, r) : e.id = i /\ e.fam = "label"
  BY DEF LabelEntries, Entry
<1>2. \A e \in TypedEntries(i, r) : e.id = i /\ e.fam = "typed"
  BY DEF TypedEntries, Entry
<1>3. \A e \in LegacyEntries(i, r) : e.id = i /\ e.fam = "legacy"
  BY DEF LegacyEntries, Entry
<1> QED
  BY <1>1, <1>2, <1>3

(* Property and range entries are about one of the properties asked for.    *)
LEMMA ValueShapes ==
    ASSUME NEW i, NEW r, NEW P
    PROVE  \A e \in ValueEntries(i, r, P) : e.id = i /\ e.fam \in Families /\ EntryProp(e) \in P
<1>1. \A e \in PropertyEntries(i, r, P) : e.id = i /\ e.fam \in Families /\ EntryProp(e) \in P
  BY DEF PropertyEntries, Entry, Has, Families, PropertyFamilies, CompositeFamilies, EntryProp
<1>2. \A e \in RangeEntries(i, r, P) : e.id = i /\ e.fam \in Families /\ EntryProp(e) \in P
  BY DEF RangeEntries, Entry, Has, Families, PropertyFamilies, CompositeFamilies, EntryProp
<1> QED
  BY <1>1, <1>2 DEF ValueEntries

(* The entries of fewer properties are among those of more, and the ones    *)
(* about a property do not depend on the others.                            *)
LEMMA EntryNarrowing ==
    ASSUME NEW i, NEW r, NEW P, NEW Q
    PROVE  /\ P \subseteq Q => PropertyEntries(i, r, P) \subseteq PropertyEntries(i, r, Q)
           /\ P \subseteq Q => ValueEntries(i, r, P) \subseteq ValueEntries(i, r, Q)
           /\ \A e \in ValueEntries(i, r, P) : EntryProp(e) \in Q => e \in ValueEntries(i, r, Q)
           /\ ValueEntries(i, r, P \cup Q) = ValueEntries(i, r, P) \cup ValueEntries(i, r, Q)
<1>1. ASSUME NEW A, NEW B, A \subseteq B
      PROVE  PropertyEntries(i, r, A) \subseteq PropertyEntries(i, r, B) /\ ValueEntries(i, r, A) \subseteq ValueEntries(i, r, B)
  BY <1>1 DEF PropertyEntries, RangeEntries, ValueEntries, Has
<1>2. ASSUME NEW A, NEW B, NEW e \in ValueEntries(i, r, A), EntryProp(e) \in B PROVE e \in ValueEntries(i, r, B)
  <2>1. CASE \E p \in Has(r, A) : e = Entry("property", i, <<p, r.props[p]>>)
    BY <1>2, <2>1 DEF ValueEntries, PropertyEntries, Entry, Has, EntryProp, PropertyFamilies
  <2>2. CASE \E l \in r.labels, p \in Has(r, A) : e = Entry("label_property", i, <<l, p, r.props[p]>>)
    BY <1>2, <2>2 DEF ValueEntries, PropertyEntries, Entry, Has, EntryProp, PropertyFamilies
  <2>3. CASE \E p \in Has(r, A) : r.props[p] \in Scalars /\ e = Entry("range", i, <<p, r.props[p]>>)
    BY <1>2, <2>3 DEF ValueEntries, RangeEntries, Entry, Has, EntryProp, PropertyFamilies
  <2>4. CASE \E l \in r.labels, p \in Has(r, A) : r.props[p] \in Scalars /\ e = Entry("label_range", i, <<l, p, r.props[p]>>)
    BY <1>2, <2>4 DEF ValueEntries, RangeEntries, Entry, Has, EntryProp, PropertyFamilies
  <2> QED
    BY <1>2, <2>1, <2>2, <2>3, <2>4 DEF ValueEntries, PropertyEntries, RangeEntries
<1>3. ASSUME NEW e \in ValueEntries(i, r, P \cup Q) PROVE e \in ValueEntries(i, r, P) \cup ValueEntries(i, r, Q)
  <2>1. EntryProp(e) \in P \/ EntryProp(e) \in Q
    BY <1>3, ValueShapes
  <2> QED
    BY <1>2, <2>1
<1> QED
  BY <1>1, <1>2, <1>3

(* The entries of a record, taken apart.                                    *)
LEMMA EntryParts ==
    ASSUME NEW i, NEW r, NEW P
    PROVE  /\ IndexEntries(i, r, P) = LabelEntries(i, r) \cup ValueEntries(i, r, P)
           /\ AllEntries(i, r) = LabelEntries(i, r) \cup ValueEntries(i, r, Props) \cup TypedEntries(i, r) \cup LegacyEntries(i, r)
           /\ r.ends = <<>> => TypedEntries(i, r) = {} /\ LegacyEntries(i, r) = {}
BY DEF IndexEntries, AllEntries, ValueEntries, TypedEntries, LegacyEntries

-----------------------------------------------------------------------------
(* States and jobs.                                                         *)

Clearing == {"untype", "unindex", "unlink"}
Adding == {"typed", "index", "range", "legacy"}
Writing == Clearing \cup {"record"} \cup Adding
Marking == {"mark_label", "mark_property"}
Rebuilding == {"exact", "ranges", "clear_label", "clear_property", "config", "retype"}

IsSession(v) ==
    /\ v = [indexed |-> v.indexed, counts |-> v.counts]
    /\ v.indexed \in [Kinds -> SUBSET Props]
    /\ v.counts = [k \in CountKeys |-> v.counts[k]]

IsStore(s) ==
    /\ s = [rec |-> s.rec, der |-> s.der, stale |-> s.stale, cfg |-> s.cfg, torn |-> s.torn]
    /\ s.rec \in [Ids -> Record \cup {Absent}] /\ s.cfg \in [Kinds -> SUBSET Props]
    /\ \A i \in Ids : s.rec[i] # Absent => (s.rec[i].ends = <<>> <=> i \in Nodes)
    /\ \A e \in s.der : e.id \in Ids

Chunks == {b \in Seq(Item) : IsBatch(b)} \cup {Erase(i) : i \in Ids}

Phases == {"idle", "end"} \cup Writing \cup Marking \cup Rebuilding
Jobs == [phase : Phases, chunks : Seq(Chunks), n : Nat,
         check : BOOLEAN, maintain : BOOLEAN, legacy : BOOLEAN, counted : BOOLEAN, defer : BOOLEAN,
         kind : Kinds, labels : BOOLEAN, props : SUBSET Props, create : BOOLEAN]

Erasing(j) == \A c \in Range(j.chunks) : \E i \in Ids : c = Erase(i)
Filling(j) == \A c \in Range(j.chunks) : c \in Seq(Item) /\ IsBatch(c)

(* The chunks of a job are of one form, and its flags follow from it.       *)
Uniform(j) ==
    /\ \/ j.chunks = <<>>
       \/ Erasing(j) /\ j.check /\ ~j.maintain /\ ~j.defer
       \/ Filling(j) /\ (j.defer <=> ~j.maintain) /\ (j.defer => ~j.check)
    /\ j.defer => \A b, c \in Range(j.chunks) : KindOf(b[1].id) = KindOf(c[1].id)

(* How far a job over store s has got, by its phase.                        *)
JobOK(d, sc, s, j) ==
    /\ j \in Jobs /\ Uniform(j)
    /\ j.phase = "idle" => j = NoJob
    /\ j.phase \in Writing \cup Marking => j.chunks # <<>>
    /\ j.phase \in Rebuilding \/ j.create => j.chunks = <<>>
    /\ j.phase \in Clearing =>
          LET c == Head(j.chunks) IN
          /\ j.check /\ j.n \in DOMAIN c /\ s.rec[c[j.n].id] # Absent
          /\ j.phase \in {"untype", "unlink"} => c[j.n].id \in Edges
    /\ j.phase \in Adding => \A x \in Range(Head(j.chunks)) : x.rec # Absent /\ s.rec[x.id] = x.rec
    /\ j.phase = "typed" => Head(j.chunks)[1].id \in Edges
    /\ j.phase \in {"index", "range", "legacy"} => j.maintain
    /\ j.phase \in Marking => j.defer
    /\ j.phase = "retype" => ~j.create /\ j.kind = "edge"
    /\ j.create /\ ~d.nested => sc # "caller"

(* A job that looks for no old records has none before it.                  *)
Unmet(d, s, q) ==
    \A c \in Range(q) : \A x \in Range(c) : s.rec[x.id] = Absent \/ (d.overwrite /\ x.id \in Nodes)
Apart(q) ==
    \A m, n \in DOMAIN q : \A x \in Range(q[m]), y \in Range(q[n]) : x.id = y.id => m = n
FreshOK(d, s, j) ==
    ~j.check /\ j.phase \in Writing =>
        Apart(j.chunks) /\ Unmet(d, s, IF j.phase \in Adding THEN Tail(j.chunks) ELSE j.chunks)

(* Every entry describes a record, or was left by a half-done creation.     *)
Plain(d) == ~d.overwrite /\ ~d.nested
Watched(d, e) == Plain(d) \/ e.fam \in Linked
Excused(s, e) == e.fam \in Families /\ <<KindOf(e.id), "created">> \in s.torn
Described(d, s) == \A e \in s.der : Watched(d, e) => Describes(s, e) \/ Excused(s, e)

(* Nothing is left of what was derived for an id.                           *)
Clean(d, s, i) == \A e \in s.der : e.id = i /\ Watched(d, e) => Excused(s, e)

(* What a job has unindexed so far.                                         *)
CleanOK(d, s, j) ==
    LET c == Head(j.chunks) IN
    /\ j.phase \in Clearing => \A m \in 1 .. (j.n - 1) : Clean(d, s, c[m].id)
    /\ j.phase = "unindex" => \A e \in s.der : e.id = c[j.n].id => e.fam # "typed"
    /\ j.phase = "unlink" =>
          \A e \in s.der : e.id = c[j.n].id /\ Watched(d, e) => e.fam = "legacy" \/ Excused(s, e)
    /\ j.phase = "record" => \A x \in Range(c) : Clean(d, s, x.id)

(* Deleting a node has its incident edges ahead of it.                      *)
DeletingOK(s, j) ==
    \A n \in Nodes :
        j.chunks # <<>> /\ Last(j.chunks) = Erase(n) =>
            /\ \A e \in Incident(s, n) : Erase(e) \in Range(j.chunks)
            /\ j.phase = "end" => s.rec[n] = Absent

(* What a scope says of the two stores.                                     *)
ScopeInv ==
    /\ dep \in Deployments /\ scope \in {"none", "implicit", "caller"}
    /\ scope = "none" => ws = db
    /\ scope = "implicit" => ~Idle
    /\ dep.transactional /\ scope = "none" => Idle
    /\ ~dep.transactional => scope = "none"
    /\ IsSession(handle) /\ IsSession(child) /\ IsStore(db) /\ IsStore(ws)

(* Only the empty sequence has no elements.                                 *)
LEMMA EmptyLength == ASSUME NEW S, NEW t \in Seq(S) PROVE Len(t) = 0 <=> t = <<>>
OBVIOUS

(* A sequence of one element.                                               *)
LEMMA Singleton ==
    ASSUME NEW x
    PROVE  Len(<<x>>) = 1 /\ DOMAIN <<x>> = {1} /\ DOMAIN <<x>> = 1 .. 1 /\ <<x>>[1] = x /\ Range(<<x>>) = {x}
<1>1. Len(<<x>>) = 1 /\ DOMAIN <<x>> = {1} /\ <<x>>[1] = x
  OBVIOUS
<1>2. 1 .. 1 = {1}
  OBVIOUS
<1> QED
  BY <1>1, <1>2 DEF Range

(* What a chunk is.                                                         *)
LEMMA ChunkFacts ==
    ASSUME NEW c \in Chunks
    PROVE  /\ Len(c) \in Nat \ {0} /\ DOMAIN c = 1 .. Len(c) /\ 1 \in DOMAIN c
           /\ \A i \in DOMAIN c : c[i].id \in Ids /\ c[i] = [id |-> c[i].id, rec |-> c[i].rec] /\ c[i] \in Range(c)
           /\ \A i, j \in DOMAIN c : KindOf(c[i].id) = KindOf(c[j].id) /\ (c[i].id = c[j].id => i = j)
           /\ \A x \in Range(c) : \E i \in DOMAIN c : x = c[i]
           /\ \/ /\ c \in Seq(Item) /\ IsBatch(c)
                 /\ \A i \in DOMAIN c : c[i].rec \in Record /\ c[i].rec # Absent /\ (c[i].rec.ends = <<>> <=> c[i].id \in Nodes)
              \/ \E i \in Ids : c = Erase(i) /\ DOMAIN c = {1} /\ c[1].id = i /\ c[1].rec = Absent
<1>1. CASE c \in Seq(Item) /\ IsBatch(c)
  <2>1. Len(c) \in Nat \ {0} /\ DOMAIN c = 1 .. Len(c) /\ \A i \in DOMAIN c : c[i] \in Item
    BY <1>1 DEF IsBatch
  <2>2. \A i \in DOMAIN c : c[i].id \in Ids /\ c[i].rec \in Record /\ c[i] = [id |-> c[i].id, rec |-> c[i].rec]
    BY <2>1 DEF Item
  <2>3. \A x \in Range(c) : \E i \in DOMAIN c : x = c[i]
    BY DEF Range
  <2>4. \A i \in DOMAIN c : c[i] \in Range(c)
    BY DEF Range
  <2> QED
    BY <1>1, <2>1, <2>2, <2>3, <2>4, ConstantAssumptions DEF IsBatch
<1>2. ASSUME NEW i \in Ids, c = Erase(i) PROVE Len(c) = 1 /\ DOMAIN c = {1} /\ DOMAIN c = 1 .. 1 /\ c[1] = [id |-> i, rec |-> Absent]
  BY <1>2, Singleton DEF Erase
<1>3. ASSUME NEW i \in Ids, c = Erase(i)
      PROVE  /\ \A m \in DOMAIN c : c[m].id \in Ids /\ c[m] = [id |-> c[m].id, rec |-> c[m].rec] /\ c[m] \in Range(c)
             /\ \A x \in Range(c) : \E m \in DOMAIN c : x = c[m]
             /\ 1 \in DOMAIN c /\ c[1].id = i /\ c[1].rec = Absent
  <2>1. DOMAIN c = {1} /\ c[1] = [id |-> i, rec |-> Absent]
    BY <1>2, <1>3
  <2>2. c[1].id = i /\ c[1].rec = Absent
    BY <2>1
  <2> HIDE <1>3
  <2> QED
    BY <2>1, <2>2 DEF Range
<1>4. CASE \E i \in Ids : c = Erase(i)
  <2>1. PICK i \in Ids : c = Erase(i)
    BY <1>4
  <2>2. Len(c) = 1 /\ DOMAIN c = {1} /\ DOMAIN c = 1 .. Len(c)
    BY <1>2, <2>1
  <2> QED
    BY <1>3, <2>1, <2>2
<1> QED
  BY <1>1, <1>4 DEF Chunks

(* The chunks of a job, first and rest.                                     *)
LEMMA ChunksSplit ==
    ASSUME NEW q \in Seq(Chunks), q # <<>>
    PROVE  /\ Head(q) \in Chunks /\ Head(q) = q[1] /\ Tail(q) \in Seq(Chunks)
           /\ Range(q) = {Head(q)} \cup Range(Tail(q)) /\ Range(q) \subseteq Chunks
           /\ Len(q) > 1 <=> Tail(q) # <<>>
           /\ Len(q) \in Nat /\ 1 \in DOMAIN q /\ DOMAIN q = 1 .. Len(q)
           /\ \A m \in DOMAIN Tail(q) : m + 1 \in DOMAIN q /\ Tail(q)[m] = q[m + 1]
           /\ Last(q) \in Chunks /\ (Len(q) > 1 => Last(Tail(q)) = Last(q)) /\ (~(Len(q) > 1) => Last(q) = Head(q))
<1>1. Len(q) \in Nat /\ Len(q) >= 1 /\ DOMAIN q = 1 .. Len(q) /\ \A m \in DOMAIN q : q[m] \in Chunks
  OBVIOUS
<1>2. Head(q) = q[1] /\ Tail(q) \in Seq(Chunks) /\ Len(Tail(q)) = Len(q) - 1 /\ \A m \in 1 .. (Len(q) - 1) : Tail(q)[m] = q[m + 1]
  OBVIOUS
<1>3. DOMAIN Tail(q) = 1 .. (Len(q) - 1)
  BY <1>2
<1>4. \A m \in DOMAIN Tail(q) : m + 1 \in DOMAIN q /\ Tail(q)[m] = q[m + 1]
  BY <1>1, <1>2, <1>3
<1>5. Range(q) = {Head(q)} \cup Range(Tail(q))
  <2>1. ASSUME NEW m \in DOMAIN q PROVE q[m] \in {Head(q)} \cup Range(Tail(q))
    <3>1. CASE m = 1
      BY <1>2, <3>1
    <3>2. CASE m # 1
      <4>1. m - 1 \in DOMAIN Tail(q) /\ (m - 1) + 1 = m
        BY <1>1, <1>3, <3>2
      <4> QED
        BY <1>4, <4>1 DEF Range
    <3> QED
      BY <3>1, <3>2
  <2> QED
    BY <1>1, <1>2, <1>4, <2>1 DEF Range
<1>6. Len(q) > 1 <=> Tail(q) # <<>>
  <2>1. Len(Tail(q)) = 0 <=> Tail(q) = <<>>
    BY <1>2, EmptyLength
  <2> QED
    BY <1>1, <1>2, <2>1
<1>7. Last(q) = q[Len(q)] /\ Last(Tail(q)) = Tail(q)[Len(q) - 1]
  BY <1>2 DEF Last
<1>8. Len(q) > 1 => Last(Tail(q)) = Last(q)
  BY <1>1, <1>3, <1>4, <1>7
<1>9. Range(q) \subseteq Chunks /\ 1 \in DOMAIN q
  BY <1>1 DEF Range
<1>10. Last(q) \in Chunks /\ (~(Len(q) > 1) => Last(q) = Head(q))
  <2>1. Len(q) \in DOMAIN q /\ (~(Len(q) > 1) => Len(q) = 1)
    BY <1>1
  <2> QED
    BY <1>1, <1>2, <1>7, <2>1
<1>11. Head(q) \in Chunks /\ Len(q) \in Nat
  BY <1>1, <1>2, <1>9
<1> QED
  BY <1>1, <1>2, <1>4, <1>5, <1>6, <1>8, <1>9, <1>10, <1>11

(* A set of naturals that is not empty has a least element.                 *)
LEMMA MinExists ==
    ASSUME NEW S \in SUBSET Nat, S # {}
    PROVE  Min(S) \in S /\ \A m \in S : Min(S) <= m
<1>1. \E m \in S : \A k \in S : ~(<<k, m>> \in OpToRel(<, Nat))
  BY NatLessThanWellFounded, WFMin
<1>2. PICK m \in S : \A k \in S : ~(<<k, m>> \in OpToRel(<, Nat))
  BY <1>1
<1>3. ASSUME NEW k \in S PROVE m <= k
  <2>1. k \in Nat /\ m \in Nat
    OBVIOUS
  <2>2. k < m => <<k, m>> \in OpToRel(<, Nat)
    BY <2>1 DEF OpToRel
  <2>3. ~(k < m)
    BY <1>2, <2>2
  <2> QED
    BY <2>1, <2>3
<1> QED
  BY <1>3 DEF Min

(* Where a chunk goes on: at the first record that is still to be replaced, *)
(* or at writing the new ones.                                              *)
Resumed(rec, j, n, r) ==
    LET c == Head(j.chunks) IN
    /\ r \in Jobs /\ r.chunks = j.chunks /\ r.check = j.check /\ r.maintain = j.maintain /\ r.legacy = j.legacy
    /\ r.defer = j.defer /\ r.create = j.create /\ r.kind = j.kind /\ r.props = j.props /\ r.counted = j.counted
    /\ \/ /\ r.phase = "record"
          /\ j.check => \A m \in n .. Len(c) : rec[c[m].id] = Absent
       \/ /\ j.check /\ r.phase = (IF c[r.n].id \in Edges THEN "untype" ELSE "unindex")
          /\ r.n \in n .. Len(c) /\ r.n \in DOMAIN c /\ rec[c[r.n].id] # Absent
          /\ \A m \in n .. (r.n - 1) : rec[c[m].id] = Absent

(* ReplaceFrom finds it.                                                    *)
LEMMA ReplaceEffect ==
    ASSUME NEW s, NEW j \in Jobs, j.chunks # <<>>, NEW n \in Nat, n >= 1
    PROVE  Resumed(s.rec, j, n, ReplaceFrom(s, j, n))
<1> DEFINE r == ReplaceFrom(s, j, n)
<1> DEFINE c == Head(j.chunks)
<1>1. c \in Chunks /\ Len(c) \in Nat \ {0} /\ DOMAIN c = 1 .. Len(c)
  BY ChunkFacts, ChunksSplit DEF Jobs
<1>2. Replaced(s, j, n) \in SUBSET (n .. Len(c)) /\ \A m \in n .. Len(c) : m \in Replaced(s, j, n) <=> j.check /\ s.rec[c[m].id] # Absent
  BY DEF Replaced
<1> SUFFICES Resumed(s.rec, j, n, r)
  OBVIOUS
<1>3. CASE Replaced(s, j, n) = {}
  <2>1. r = [j EXCEPT !.phase = "record", !.n = 0]
    BY <1>3 DEF ReplaceFrom
  <2> HIDE DEF r
  <2>2. r.n = 0 /\ r.phase = "record"
    BY <2>1 DEF Jobs
  <2>4. r \in Jobs
    <3>1. "record" \in Phases /\ 0 \in Nat
      BY DEF Phases, Writing
    <3> QED
      BY <2>1, <3>1 DEF Jobs
  <2>3. j.check => \A m \in n .. Len(c) : s.rec[c[m].id] = Absent
    BY <1>2, <1>3
  <2> HIDE DEF c
  <2> QED
    BY <2>1, <2>2, <2>3, <2>4 DEF Jobs, c, Resumed
<1>4. CASE Replaced(s, j, n) # {}
  <2>1. PICK m : m = Min(Replaced(s, j, n))
    OBVIOUS
  <2>2. Replaced(s, j, n) \in SUBSET Nat
    BY <1>1, <1>2
  <2>3. m \in Replaced(s, j, n) /\ \A k \in Replaced(s, j, n) : m <= k
    BY <1>4, <2>1, <2>2, MinExists
  <2>4. r = [j EXCEPT !.n = m, !.phase = IF c[m].id \in Edges THEN "untype" ELSE "unindex"]
    BY <1>4, <2>1 DEF ReplaceFrom
  <2> HIDE DEF r
  <2>5. m \in Nat /\ m \in n .. Len(c) /\ m \in DOMAIN c
    BY <1>1, <1>2, <2>3
  <2>6. \A k \in n .. (m - 1) : k \in n .. Len(c) /\ ~(m <= k)
    BY <1>1, <2>5
  <2>7. r.n = m /\ r.phase = IF c[m].id \in Edges THEN "untype" ELSE "unindex"
    BY <2>4 DEF Jobs
  <2>8. r \in Jobs
    BY <2>4, <2>5 DEF Jobs, Phases, Writing, Clearing
  <2> QED
    BY <1>2, <2>3, <2>4, <2>5, <2>6, <2>7, <2>8 DEF Jobs, Resumed
<1> QED
  BY <1>3, <1>4

(* A described entry about ends is not one of a node, and no described      *)
(* entry is one of an absent record.                                        *)
LEMMA NothingLeft ==
    ASSUME NEW d, NEW s, IsStore(s), Described(d, s), NEW i \in Ids
    PROVE  /\ s.rec[i] = Absent => Clean(d, s, i)
           /\ i \in Nodes => \A e \in s.der : e.id = i => e.fam \notin Linked
           /\ i \in Nodes /\ ~Plain(d) => Clean(d, s, i)
<1>1. s.rec[i] = Absent => Clean(d, s, i)
  BY DEF Described, Describes, Clean
<1>2. ASSUME i \in Nodes, NEW e \in s.der, e.id = i, e.fam \in Linked PROVE FALSE
  <2>1. Describes(s, e)
    BY <1>2 DEF Described, Watched, Excused, Linked, Families, PropertyFamilies, CompositeFamilies
  <2>2. s.rec[i].ends = <<>> /\ e \in AllEntries(i, s.rec[i])
    BY <1>2, <2>1 DEF IsStore, Describes
  <2>3. e \in LabelEntries(i, s.rec[i]) \cup ValueEntries(i, s.rec[i], Props)
    BY <2>2, EntryParts
  <2>4. e.fam = "label" \/ e.fam \in Families
    <3>1. CASE e \in LabelEntries(i, s.rec[i])
      BY <3>1, EntryShapes
    <3>2. CASE e \in ValueEntries(i, s.rec[i], Props)
      BY <3>2, ValueShapes
    <3> QED
      BY <2>3, <3>1, <3>2
  <2> QED
    BY <1>2, <2>4 DEF Linked, Families, PropertyFamilies, CompositeFamilies
<1> QED
  BY <1>1, <1>2 DEF Clean, Watched

(* A job whose first chunk is unindexed before item n.                      *)
Ready(d, s, j, n) ==
    /\ IsStore(s) /\ Described(d, s)
    /\ j \in Jobs /\ j.chunks # <<>> /\ Uniform(j) /\ ~j.create
    /\ n \in Nat /\ n >= 1 /\ \A m \in 1 .. (n - 1) : Clean(d, s, Head(j.chunks)[m].id)
    /\ ~j.check => Apart(j.chunks) /\ Unmet(d, s, j.chunks)

SameJob(j, r) ==
    r.defer = j.defer /\ r.create = j.create /\ r.kind = j.kind /\ r.maintain = j.maintain /\ r.props = j.props

Turned(d, sc, s, j, r) ==
    /\ JobOK(d, sc, s, r) /\ FreshOK(d, s, r) /\ CleanOK(d, s, r)
    /\ r.chunks = j.chunks /\ SameJob(j, r) /\ r.phase \in {"untype", "unindex", "record"}

(* It turns to its next record, or to writing.                              *)
LEMMA AdvanceOK ==
    ASSUME NEW d, NEW sc, NEW s, NEW j, NEW n, Ready(d, s, j, n),
           NEW s0, s0.rec = s.rec, NEW r, r = ReplaceFrom(s0, j, n)
    PROVE  Turned(d, sc, s, j, r)
<1>0. /\ IsStore(s) /\ Described(d, s)
      /\ j \in Jobs /\ j.chunks # <<>> /\ Uniform(j) /\ ~j.create
      /\ n \in Nat /\ n >= 1 /\ \A m \in 1 .. (n - 1) : Clean(d, s, Head(j.chunks)[m].id)
      /\ ~j.check => Apart(j.chunks) /\ Unmet(d, s, j.chunks)
  BY DEF Ready
<1> DEFINE c == Head(j.chunks)
<1>1. /\ c \in Chunks /\ c \in Range(j.chunks) /\ DOMAIN c = 1 .. Len(c) /\ Len(c) \in Nat
      /\ \A m \in DOMAIN c : c[m].id \in Ids
      /\ \A x \in Range(c) : x.id \in Ids /\ \E m \in DOMAIN c : x = c[m]
  BY <1>0, ChunksSplit, ChunkFacts DEF Jobs
<1>2. /\ r \in Jobs
      /\ r.chunks = j.chunks /\ r.check = j.check /\ r.maintain = j.maintain /\ r.legacy = j.legacy
      /\ r.defer = j.defer /\ r.create = j.create /\ r.kind = j.kind /\ r.props = j.props
      /\ \/ /\ r.phase = "record"
            /\ j.check => \A m \in n .. Len(c) : s.rec[c[m].id] = Absent
         \/ /\ j.check /\ r.phase = (IF c[r.n].id \in Edges THEN "untype" ELSE "unindex")
            /\ r.n \in n .. Len(c) /\ r.n \in DOMAIN c
            /\ s.rec[c[r.n].id] # Absent
            /\ \A m \in n .. (r.n - 1) : s.rec[c[m].id] = Absent
  <2>1. Resumed(s.rec, j, n, r)
    BY <1>0, ReplaceEffect
  <2> QED
    BY <2>1 DEF Resumed
<1> HIDE DEF c
<1>3. Uniform(r)
  BY <1>0, <1>2 DEF Uniform, Erasing, Filling
<1>4. CASE r.phase = "record"
  <2>1. \A m \in n .. Len(c) : j.check => s.rec[c[m].id] = Absent
    BY <1>2, <1>4
  <2>2. ASSUME NEW m \in DOMAIN c PROVE Clean(d, s, c[m].id)
    <3>1. CASE j.check /\ m < n
      <4>1. m \in 1 .. (n - 1)
        BY <1>0, <1>1, <3>1
      <4> QED
        BY <1>0, <4>1 DEF c
    <3>2. CASE j.check /\ ~(m < n)
      <4>1. m \in n .. Len(c)
        BY <1>0, <1>1, <3>2
      <4> QED
        BY <1>0, <1>1, <2>1, <3>2, <4>1, NothingLeft
    <3>3. CASE ~j.check
      <4>1. s.rec[c[m].id] = Absent \/ (d.overwrite /\ c[m].id \in Nodes)
        BY <1>0, <1>1, <3>3 DEF Unmet, Range
      <4> QED
        BY <1>0, <1>1, <4>1, NothingLeft DEF Plain
    <3> QED
      BY <3>1, <3>2, <3>3
  <2>3. CleanOK(d, s, r)
    BY <1>1, <1>2, <1>4, <2>2 DEF CleanOK, Clearing, c
  <2>4. JobOK(d, sc, s, r)
    BY <1>0, <1>2, <1>3, <1>4 DEF JobOK, Writing, Marking, Rebuilding, Clearing, Adding
  <2>5. FreshOK(d, s, r)
    BY <1>0, <1>2, <1>4 DEF FreshOK, Adding
  <2> QED
    BY <1>2, <1>4, <2>3, <2>4, <2>5 DEF Turned, SameJob
<1>5. CASE r.phase # "record"
  <2>1. /\ j.check /\ r.n \in n .. Len(c) /\ r.n \in DOMAIN c /\ s.rec[c[r.n].id] # Absent
        /\ \A m \in n .. (r.n - 1) : s.rec[c[m].id] = Absent
        /\ (r.phase = "untype" /\ c[r.n].id \in Edges) \/ (r.phase = "unindex" /\ c[r.n].id \notin Edges)
    BY <1>2, <1>5
  <2>2. ASSUME NEW m \in 1 .. (r.n - 1) PROVE Clean(d, s, c[m].id)
    <3>1. CASE m < n
      <4>1. m \in 1 .. (n - 1)
        BY <1>0, <2>1, <3>1
      <4> QED
        BY <1>0, <4>1 DEF c
    <3>2. CASE ~(m < n)
      <4>1. m \in n .. (r.n - 1) /\ m \in DOMAIN c
        BY <1>0, <1>1, <2>1, <3>2
      <4> QED
        BY <1>0, <1>1, <2>1, <4>1, NothingLeft
    <3> QED
      BY <3>1, <3>2
  <2>3. r.phase = "unindex" => \A e \in s.der : e.id = c[r.n].id => e.fam # "typed"
    <3>1. r.phase = "unindex" => c[r.n].id \in Nodes
      BY <1>1, <2>1 DEF Ids
    <3> QED
      BY <1>0, <1>1, <2>1, <3>1, NothingLeft DEF Linked
  <2>4. CleanOK(d, s, r)
    BY <1>2, <2>1, <2>2, <2>3 DEF CleanOK, c
  <2>5. JobOK(d, sc, s, r)
    BY <1>0, <1>2, <1>3, <2>1 DEF JobOK, Writing, Marking, Rebuilding, Clearing, Adding, c
  <2>6. FreshOK(d, s, r)
    BY <1>2, <2>1 DEF FreshOK
  <2> QED
    BY <1>2, <2>1, <2>4, <2>5, <2>6 DEF Turned, SameJob
<1> QED
  BY <1>4, <1>5

(* A job that is done with its first chunk.                                 *)
Written(d, s, j) ==
    /\ IsStore(s) /\ Described(d, s)
    /\ j \in Jobs /\ j.chunks # <<>> /\ Uniform(j) /\ ~j.create
    /\ ~j.check => Apart(j.chunks) /\ Unmet(d, s, Tail(j.chunks))

WentOn(d, sc, s, j, r) ==
    /\ JobOK(d, sc, s, r) /\ FreshOK(d, s, r) /\ CleanOK(d, s, r) /\ SameJob(j, r)
    /\ \/ r.phase \in {"untype", "unindex", "record"} /\ r.chunks = Tail(j.chunks) /\ Tail(j.chunks) # <<>>
       \/ r.phase = (IF j.defer THEN "mark_label" ELSE "end") /\ r.chunks = j.chunks /\ Tail(j.chunks) = <<>>

(* It goes on to the next, or to what follows the last.                     *)
LEMMA NextOK ==
    ASSUME NEW d, NEW sc, NEW s, NEW j, Written(d, s, j), NEW s0, s0.rec = s.rec, NEW r, r = NextChunk(s0, j)
    PROVE  WentOn(d, sc, s, j, r)
<1> DEFINE q == j.chunks
<1>0. /\ IsStore(s) /\ Described(d, s)
      /\ j \in Jobs /\ q # <<>> /\ Uniform(j) /\ ~j.create
      /\ ~j.check => Apart(q) /\ Unmet(d, s, Tail(q))
  BY DEF Written
<1>1. /\ q \in Seq(Chunks) /\ Tail(q) \in Seq(Chunks) /\ Range(Tail(q)) \subseteq Range(q)
      /\ Len(q) > 1 <=> Tail(q) # <<>>
      /\ \A m \in DOMAIN Tail(q) : m \in Int /\ m + 1 \in DOMAIN q /\ Tail(q)[m] = q[m + 1]
  BY <1>0, ChunksSplit DEF Jobs
<1>2. CASE Len(q) > 1
  <2> DEFINE k == [j EXCEPT !.chunks = Tail(@)]
  <2>1. r = ReplaceFrom(s0, k, 1)
    BY <1>2 DEF NextChunk
  <2>2. /\ k \in Jobs /\ k.chunks = Tail(q) /\ k.check = j.check /\ k.maintain = j.maintain
        /\ k.defer = j.defer /\ k.create = j.create /\ k.kind = j.kind /\ k.props = j.props
    BY <1>0, <1>1 DEF Jobs
  <2> HIDE DEF k
  <2>3. Uniform(k)
    BY <1>0, <1>1, <1>2, <2>2 DEF Uniform, Erasing, Filling
  <2>4. Apart(q) => Apart(Tail(q))
    <3> SUFFICES ASSUME Apart(q), NEW m \in DOMAIN Tail(q), NEW n \in DOMAIN Tail(q),
                        NEW x \in Range(Tail(q)[m]), NEW y \in Range(Tail(q)[n]), x.id = y.id
                 PROVE  m = n
      BY DEF Apart
    <3>1. x \in Range(q[m + 1]) /\ y \in Range(q[n + 1]) /\ m + 1 \in DOMAIN q /\ n + 1 \in DOMAIN q
      BY <1>1
    <3>2. m + 1 = n + 1
      BY <3>1 DEF Apart
    <3> QED
      BY <1>1, <3>2
  <2>5. Ready(d, s, k, 1)
    BY <1>0, <1>1, <1>2, <2>2, <2>3, <2>4 DEF Ready
  <2>6. Turned(d, sc, s, k, r)
    BY <2>1, <2>5, AdvanceOK
  <2> QED
    BY <1>1, <1>2, <2>2, <2>6 DEF Turned, SameJob, WentOn
<1>3. CASE ~(Len(q) > 1)
  <2>1. r = [j EXCEPT !.phase = IF j.defer THEN "mark_label" ELSE "end"]
    BY <1>3 DEF NextChunk
  <2>2. /\ r \in Jobs /\ r.chunks = q /\ r.check = j.check /\ SameJob(j, r)
        /\ r.phase = IF j.defer THEN "mark_label" ELSE "end"
    BY <1>0, <2>1 DEF Jobs, Phases, Marking, SameJob
  <2>3. Uniform(r)
    BY <1>0, <2>2 DEF Uniform, Erasing, Filling, SameJob
  <2>4. JobOK(d, sc, s, r)
    BY <1>0, <2>2, <2>3 DEF JobOK, Writing, Marking, Rebuilding, Clearing, Adding, SameJob
  <2>5. FreshOK(d, s, r) /\ CleanOK(d, s, r)
    BY <2>2 DEF FreshOK, CleanOK, Writing, Clearing, Adding
  <2> QED
    BY <1>1, <1>3, <2>2, <2>4, <2>5 DEF WentOn
<1> QED
  BY <1>2, <1>3

-----------------------------------------------------------------------------
(* The invariant.                                                           *)

(* The configuration is the session's own, but for an index being created.  *)
Widened(c) == IF job.create THEN [c EXCEPT ![job.kind] = @ \cup job.props] ELSE c
ConfigInv ==
    Plain(dep) =>
        /\ scope # "none" => child.indexed = handle.indexed /\ handle.indexed = db.cfg
        /\ ws.cfg = IF job.phase = "end" THEN Widened(Session.indexed) ELSE Session.indexed

(* Property and range entries are of configured indexes.                    *)
Known(s, c) == \A e \in s.der : e.fam \in Families => EntryProp(e) \in c[KindOf(e.id)] \/ Excused(s, e)
KnownInv ==
    Plain(dep) => /\ Known(ws, Widened(ws.cfg)) /\ (scope # "none" => Known(db, db.cfg))
                  /\ job.props \subseteq Widened(ws.cfg)[job.kind]

StructureInv ==
    /\ JobOK(dep, scope, ws, job) /\ FreshOK(dep, ws, job) /\ CleanOK(dep, ws, job)
    /\ Described(dep, ws) /\ Described(dep, db)

CoreInv == ScopeInv /\ StructureInv /\ ConfigInv /\ KnownInv /\ DeletingOK(ws, job)

-----------------------------------------------------------------------------
(* What steps do to the store and to the sessions.                          *)

St(rec, der, stale, cfg, torn) == [rec |-> rec, der |-> der, stale |-> stale, cfg |-> cfg, torn |-> torn]

(* A store of known parts.                                                  *)
LEMMA Parts ==
    ASSUME NEW rec, NEW der, NEW stale, NEW cfg, NEW torn
    PROVE  LET s == St(rec, der, stale, cfg, torn) IN
           /\ s.rec = rec /\ s.der = der /\ s.stale = stale /\ s.cfg = cfg /\ s.torn = torn
           /\ s = [rec |-> s.rec, der |-> s.der, stale |-> s.stale, cfg |-> s.cfg, torn |-> s.torn]
BY DEF St

(* Entries dropped and added.                                               *)
LEMMA DropAdd ==
    ASSUME IsStore(ws), NEW E
    PROVE  /\ Drop(E) = St(ws.rec, ws.der \ E, ws.stale, ws.cfg, ws.torn)
           /\ Add(E) = St(ws.rec, ws.der \cup E, ws.stale, ws.cfg, ws.torn)
<1>1. PICK r, d, st, c, t : ws = [rec |-> r, der |-> d, stale |-> st, cfg |-> c, torn |-> t]
  BY DEF IsStore
<1>2. ws.rec = r /\ ws.der = d /\ ws.stale = st /\ ws.cfg = c /\ ws.torn = t
  BY <1>1
<1>3. Drop(E) = [rec |-> r, der |-> d \ E, stale |-> st, cfg |-> c, torn |-> t]
  BY <1>1 DEF Drop
<1>4. Add(E) = [rec |-> r, der |-> d \cup E, stale |-> st, cfg |-> c, torn |-> t]
  <2>1. PICK x : x = d \cup E
    OBVIOUS
  <2>2. Add(E) = [ws EXCEPT !.der = x]
    BY <1>2, <2>1 DEF Add
  <2> QED
    BY <1>1, <2>1, <2>2
<1> QED
  BY <1>2, <1>3, <1>4 DEF St

(* A session with other counts.                                             *)
LEMMA Recounted ==
    ASSUME NEW v, IsSession(v), NEW f, f = [k \in CountKeys |-> f[k]], NEW u, u = [v EXCEPT !.counts = f]
    PROVE  IsSession(u) /\ u.indexed = v.indexed /\ u.counts = f
<1>1. u.indexed = v.indexed /\ u.counts = f /\ u = [indexed |-> u.indexed, counts |-> u.counts]
  BY DEF IsSession
<1> QED
  BY <1>1 DEF IsSession

(* The counts it may get.                                                   *)
LEMMA CountShapes ==
    /\ \A c, B, delta : UpdateCounts(c, B, delta) = [k \in CountKeys |-> UpdateCounts(c, B, delta)[k]]
    /\ NoCounts = [k \in CountKeys |-> NoCounts[k]]
    /\ IsSession(NoSession)
<1>1. ASSUME NEW c, NEW B, NEW delta PROVE UpdateCounts(c, B, delta) = [k \in CountKeys |-> UpdateCounts(c, B, delta)[k]]
  BY DEF UpdateCounts
<1>2. NoCounts = [k \in CountKeys |-> NoCounts[k]]
  BY DEF NoCounts
<1>3. IsSession(NoSession)
  BY <1>2 DEF NoSession, IsSession
<1> QED
  BY <1>1, <1>2, <1>3

(* A step of an operation: where it writes, and what it leaves alone.       *)
Moves ==
    /\ scope = "none" => db' = ws'
    /\ scope # "none" => db' = db
    /\ dep' = dep /\ scope' = scope
    /\ handle'.indexed = handle.indexed /\ child'.indexed = child.indexed
    /\ IsSession(handle') /\ IsSession(child')

(* The session keeps its configuration when its counts are replaced.        *)
LEMMA SetCounts ==
    ASSUME ScopeInv, NEW f, f = [k \in CountKeys |-> f[k]], SetSession([Session EXCEPT !.counts = f])
    PROVE  /\ handle'.indexed = handle.indexed /\ child'.indexed = child.indexed
           /\ IsSession(handle') /\ IsSession(child')
<1>1. PICK u : u = [Session EXCEPT !.counts = f]
  OBVIOUS
<1>2. IsSession(Session)
  BY DEF ScopeInv, Session
<1>3. IsSession(u) /\ u.indexed = Session.indexed
  BY <1>1, <1>2, Recounted
<1>4. IF scope = "none" THEN handle' = u /\ child' = child ELSE child' = u /\ handle' = handle
  BY <1>1 DEF SetSession
<1> QED
  BY <1>3, <1>4 DEF ScopeInv, Session

(* Every step of an operation is such a step.                               *)
LEMMA StepMoves ==
    ASSUME CoreInv, WriteStep \/ RebuildStep
    PROVE  Moves
<1>1. dep' = dep /\ scope' = scope /\ ((scope = "none" => db' = ws') /\ (scope # "none" => db' = db))
  BY DEF WriteStep, RebuildStep, Step, Write, DeleteTypedAdjacency, DeleteIndexes, RemoveFromAdjacencies,
     PutRecords, PutTypedAdjacency, PutIndexEntries, PutRangeEntries, PutAdjacencyLists, MarkLabels, MarkProperties,
     FlushExact, FlushRanges, ClearLabels, ClearProperties, PersistConfig, RetypeEdges
<1>2. CASE DeleteTypedAdjacency
  <2>1. SetSession([Session EXCEPT !.counts = UpdateCounts(@, {Old}, -1)])
    BY <1>2 DEF DeleteTypedAdjacency
  <2>2. PICK f : f = UpdateCounts(Session.counts, {Old}, -1)
    OBVIOUS
  <2>3. SetSession([Session EXCEPT !.counts = f]) /\ f = [k \in CountKeys |-> f[k]]
    BY <2>1, <2>2, CountShapes
  <2> QED
    BY <1>1, <2>3, SetCounts DEF CoreInv, Moves
<1>3. CASE PutTypedAdjacency
  <2>1. PICK f : f = IF job.counted THEN UpdateCounts(Session.counts, Items, 1) ELSE Session.counts
    OBVIOUS
  <2>2. SetSession([Session EXCEPT !.counts = f])
    BY <1>3, <2>1 DEF PutTypedAdjacency
  <2>3. f = [k \in CountKeys |-> f[k]]
    BY <2>1, CountShapes DEF CoreInv, ScopeInv, Session, IsSession
  <2> QED
    BY <1>1, <2>2, <2>3, SetCounts DEF CoreInv, Moves
<1>4. CASE RetypeEdges
  <2>1. PICK f : f = UpdateCounts(NoCounts, {[id |-> i, rec |-> ws.rec[i]] : i \in Scanned}, 1)
    OBVIOUS
  <2>2. SetSession([Session EXCEPT !.counts = f]) /\ f = [k \in CountKeys |-> f[k]]
    BY <1>4, <2>1, CountShapes DEF RetypeEdges
  <2> QED
    BY <1>1, <2>2, SetCounts DEF CoreInv, Moves
<1>5. CASE Quiet
  BY <1>1, <1>5 DEF CoreInv, ScopeInv, Moves, Quiet
<1> QED
  BY <1>2, <1>3, <1>4, <1>5 DEF WriteStep, RebuildStep, DeleteIndexes, RemoveFromAdjacencies,
     PutRecords, PutIndexEntries, PutRangeEntries, PutAdjacencyLists, MarkLabels, MarkProperties,
     FlushExact, FlushRanges, ClearLabels, ClearProperties, PersistConfig

-----------------------------------------------------------------------------
(* The structure of the store and of the job, step by step.                 *)

(* Which part of a record's entries a family belongs to.                    *)
LEMMA FamilyParts ==
    ASSUME NEW i, NEW r, NEW e \in AllEntries(i, r)
    PROVE  /\ e.fam \in {"label"} \cup Families \cup Linked
           /\ e.fam = "typed" => e \in TypedEntries(i, r)
           /\ e.fam = "legacy" => e \in LegacyEntries(i, r)
           /\ e.fam = "label" => e \in LabelEntries(i, r)
           /\ e.fam \in Families => e \in ValueEntries(i, r, Props)
<1>1. \/ e \in LabelEntries(i, r) /\ e.fam = "label"
      \/ e \in ValueEntries(i, r, Props) /\ e.fam \in Families
      \/ e \in TypedEntries(i, r) /\ e.fam = "typed"
      \/ e \in LegacyEntries(i, r) /\ e.fam = "legacy"
  BY EntryParts, EntryShapes, ValueShapes
<1> QED
  BY <1>1 DEF Families, PropertyFamilies, CompositeFamilies, Linked

(* Entries described are of a known id.                                     *)
Derived(s, e) == e.id \in Ids /\ Describes(s, e)

(* A store that keeps its records, and drops entries or adds described ones. *)
Rewrites(s, t) ==
    /\ t = [rec |-> t.rec, der |-> t.der, stale |-> t.stale, cfg |-> t.cfg, torn |-> t.torn]
    /\ t.rec = s.rec /\ t.cfg \in [Kinds -> SUBSET Props]
    /\ \A k : <<k, "created">> \in s.torn => <<k, "created">> \in t.torn
    /\ \A e \in t.der : e \in s.der \/ Derived(s, e)

(* It is still described.                                                   *)
LEMMA Rewritten ==
    ASSUME NEW d, NEW s, IsStore(s), Described(d, s), NEW t, Rewrites(s, t)
    PROVE  /\ IsStore(t) /\ Described(d, t)
           /\ t.der \subseteq s.der => \A i : Clean(d, s, i) => Clean(d, t, i)
<1>1. t.rec = s.rec /\ t = [rec |-> t.rec, der |-> t.der, stale |-> t.stale, cfg |-> t.cfg, torn |-> t.torn]
  BY DEF Rewrites
<1>2. IsStore(t)
  BY <1>1 DEF IsStore, Derived, Rewrites
<1>3. \A e : (Describes(s, e) => Describes(t, e)) /\ (Excused(s, e) => Excused(t, e))
  BY <1>1 DEF Describes, Excused, Rewrites
<1>4. Described(d, t)
  BY <1>1, <1>3 DEF Described, Derived, Rewrites
<1>5. t.der \subseteq s.der => \A i : Clean(d, s, i) => Clean(d, t, i)
  BY <1>1, <1>3 DEF Clean
<1> QED
  BY <1>1, <1>2, <1>4, <1>5

(* Entries dropped, and entries added.                                      *)
Loses(s, E, t) == t = St(s.rec, s.der \ E, s.stale, s.cfg, s.torn)
Gains(s, E, t) == t = St(s.rec, s.der \cup E, s.stale, s.cfg, s.torn)

(* What is left of a store.                                                 *)
LEMMA Shrunk ==
    ASSUME NEW s, IsStore(s), NEW E, NEW t, Loses(s, E, t)
    PROVE  Rewrites(s, t) /\ t.rec = s.rec /\ t.der = s.der \ E /\ t.torn = s.torn /\ t.cfg = s.cfg /\ t.stale = s.stale
<1>1. /\ t.rec = s.rec /\ t.der = s.der \ E /\ t.torn = s.torn /\ t.cfg = s.cfg /\ t.stale = s.stale
      /\ t = [rec |-> t.rec, der |-> t.der, stale |-> t.stale, cfg |-> t.cfg, torn |-> t.torn]
  BY DEF St, Loses
<1> QED
  BY <1>1 DEF Rewrites, IsStore

(* What becomes of a store.                                                 *)
LEMMA Grown ==
    ASSUME NEW s, IsStore(s), NEW E, NEW t, Gains(s, E, t)
    PROVE  /\ t.rec = s.rec /\ t.der = s.der \cup E /\ t.torn = s.torn /\ t.cfg = s.cfg /\ t.stale = s.stale
           /\ (\A e \in E : Derived(s, e)) => Rewrites(s, t)
<1>1. /\ t.rec = s.rec /\ t.der = s.der \cup E /\ t.torn = s.torn /\ t.cfg = s.cfg /\ t.stale = s.stale
      /\ t = [rec |-> t.rec, der |-> t.der, stale |-> t.stale, cfg |-> t.cfg, torn |-> t.torn]
  BY DEF St, Gains
<1> QED
  BY <1>1 DEF Rewrites, IsStore

(* The job moves on to its next chunk, or keeps the one it has.             *)
Advances ==
    \/ job'.chunks = job.chunks
    \/ job'.chunks = Tail(job.chunks) /\ Tail(job.chunks) # <<>> /\ job'.phase # "end"

(* What a step of an operation has to keep.                                 *)
Kept ==
    /\ IsStore(ws') /\ JobOK(dep, scope, ws', job') /\ FreshOK(dep, ws', job')
    /\ CleanOK(dep, ws', job') /\ Described(dep, ws') /\ SameJob(job, job') /\ Advances
    /\ job'.phase # "idle"

(* A job that only changes its phase.                                       *)
Phased(j, p, r) ==
    /\ r \in Jobs /\ r.phase = p /\ r.chunks = j.chunks /\ r.n = j.n /\ r.check = j.check /\ r.legacy = j.legacy
    /\ r.counted = j.counted /\ r.labels = j.labels /\ SameJob(j, r)

(* Its chunks and flags still fit together.                                 *)
LEMMA StillUniform ==
    ASSUME NEW j, NEW p, NEW r, Phased(j, p, r), Uniform(j)
    PROVE  Uniform(r)
BY DEF Phased, SameJob, Uniform, Erasing, Filling

(* The job in flight while it writes.                                       *)
LEMMA WriterFacts ==
    ASSUME CoreInv, job.phase \in Writing
    PROVE  /\ IsStore(ws) /\ Described(dep, ws) /\ ws.cfg \in [Kinds -> SUBSET Props]
           /\ job \in Jobs /\ job.chunks # <<>> /\ Uniform(job) /\ ~job.create
           /\ Chunk \in Chunks /\ Chunk \in Range(job.chunks) /\ Chunk = Head(job.chunks) /\ Items = Range(Chunk)
           /\ Tail(job.chunks) \in Seq(Chunks) /\ job.chunks \in Seq(Chunks)
           /\ ~job.check => Apart(job.chunks)
           /\ ~job.check => Unmet(dep, ws, IF job.phase \in Adding THEN Tail(job.chunks) ELSE job.chunks)
           /\ Plain(dep) => ws.cfg = Session.indexed /\ Known(ws, ws.cfg)
<1>1. job \in Jobs /\ job.chunks # <<>> /\ Uniform(job) /\ ~job.create
  BY DEF CoreInv, StructureInv, JobOK
<1>2. job.chunks \in Seq(Chunks)
  BY <1>1 DEF Jobs
<1>3. job.phase # "end"
  BY DEF Writing, Clearing, Adding
<1> QED
  BY <1>1, <1>2, <1>3, ChunksSplit DEF CoreInv, ScopeInv, IsStore, StructureInv, FreshOK, ConfigInv, KnownInv, Widened,
     Chunk, Items

(* The record being replaced.                                               *)
LEMMA OldFacts ==
    ASSUME CoreInv, job.phase \in Clearing
    PROVE  /\ job.check /\ job.n \in Nat /\ job.n >= 1 /\ job.n \in DOMAIN Chunk
           /\ Old.id = Chunk[job.n].id /\ Old.id \in Ids /\ Old.rec = ws.rec[Old.id] /\ Old.rec # Absent
           /\ job.phase \in {"untype", "unlink"} => Old.id \in Edges
           /\ \A m \in 1 .. (job.n - 1) : Clean(dep, ws, Chunk[m].id)
<1>1. job.phase \in Writing
  BY DEF Writing
<1>2. job.n \in DOMAIN Chunk /\ job.check /\ ws.rec[Chunk[job.n].id] # Absent
      /\ (job.phase \in {"untype", "unlink"} => Chunk[job.n].id \in Edges)
      /\ \A m \in 1 .. (job.n - 1) : Clean(dep, ws, Chunk[m].id)
  BY DEF CoreInv, StructureInv, JobOK, CleanOK, Chunk
<1>3. Chunk \in Chunks
  BY <1>1, WriterFacts
<1>4. DOMAIN Chunk = 1 .. Len(Chunk) /\ Len(Chunk) \in Nat /\ Chunk[job.n].id \in Ids
  BY <1>2, <1>3, ChunkFacts
<1>5. job.n \in Nat /\ job.n >= 1
  BY <1>2, <1>4
<1> QED
  BY <1>2, <1>4, <1>5 DEF Old

(* Typed adjacency entries of the old record go.                            *)
LEMMA UntypeStep == ASSUME CoreInv, DeleteTypedAdjacency PROVE Kept
<1>1. job.phase \in Clearing /\ job.phase \in Writing /\ job.phase = "untype"
  BY DEF DeleteTypedAdjacency, Step, Clearing, Writing
<1>2. PICK E : E = TypedEntries(Old.id, Old.rec)
  OBVIOUS
<1>3. Loses(ws, E, ws')
  BY <1>1, <1>2, WriterFacts, DropAdd DEF DeleteTypedAdjacency, Write, Loses
<1>4. Rewrites(ws, ws') /\ ws'.rec = ws.rec /\ ws'.der = ws.der \ E
  <2>1. IsStore(ws)
    BY <1>1, WriterFacts
  <2> QED
    BY <1>3, <2>1, Shrunk
<1>5. IsStore(ws') /\ Described(dep, ws') /\ \A i : Clean(dep, ws, i) => Clean(dep, ws', i)
  BY <1>1, <1>4, WriterFacts, Rewritten
<1>6. Phased(job, "unindex", job')
  <2>1. job' = [job EXCEPT !.phase = "unindex"] /\ job \in Jobs
    BY <1>1, WriterFacts DEF DeleteTypedAdjacency
  <2> QED
    BY <2>1 DEF Jobs, Phases, Writing, Clearing, Phased, SameJob
<1>7. ASSUME NEW e \in ws'.der, e.id = Old.id PROVE e.fam # "typed"
  <2>1. e \in ws.der /\ e \notin TypedEntries(Old.id, Old.rec)
    BY <1>2, <1>4
  <2>2. e.fam = "typed" => e \in AllEntries(Old.id, Old.rec)
    BY <1>1, <1>7, <2>1, WriterFacts, OldFacts DEF Described, Describes, Watched, Excused, Linked, Families,
       PropertyFamilies, CompositeFamilies
  <2> QED
    BY <2>1, <2>2, FamilyParts
<1>8. JobOK(dep, scope, ws', job')
  BY <1>1, <1>4, <1>6, WriterFacts, OldFacts, StillUniform DEF Phased, SameJob, JobOK, Writing, Marking, Rebuilding, Clearing,
     Adding, Chunk
<1>9. FreshOK(dep, ws', job')
  BY <1>1, <1>6, OldFacts DEF FreshOK, Phased
<1>10. CleanOK(dep, ws', job')
  BY <1>1, <1>4, <1>5, <1>6, <1>7, OldFacts DEF CleanOK, Chunk, Phased
<1> QED
  BY <1>5, <1>6, <1>8, <1>9, <1>10 DEF Kept, Phased, Advances, Adding, Marking, Rebuilding

(* A value entry about one of the properties asked for.                     *)
LEMMA Narrowed ==
    ASSUME NEW i, NEW r, NEW P, NEW e \in ValueEntries(i, r, P), NEW Q, EntryProp(e) \in Q
    PROVE  e \in ValueEntries(i, r, Q)
BY EntryNarrowing

(* What is left of an id once its typed and index entries are gone.         *)
LEMMA OldUnindexed ==
    ASSUME CoreInv, job.phase = "unindex", NEW e \in ws.der, e \notin Unindexed, e.id = Old.id, Watched(dep, e)
    PROVE  e.fam = "legacy" \/ Excused(ws, e)
<1>1. job.phase \in Clearing /\ job.phase \in Writing
  BY DEF Clearing, Writing
<1>2. e.fam # "typed"
  BY <1>1, OldFacts DEF CoreInv, StructureInv, CleanOK, Chunk
<1>3. SUFFICES ASSUME ~Excused(ws, e) PROVE e.fam = "legacy"
  OBVIOUS
<1>4. e \in AllEntries(Old.id, Old.rec)
  BY <1>1, <1>3, WriterFacts, OldFacts DEF Described, Describes
<1>5. Unindexed = LabelEntries(Old.id, Old.rec) \cup ValueEntries(Old.id, Old.rec, Indexed(Old.id))
  BY EntryParts DEF Unindexed
<1>6. e.fam # "label"
  BY <1>4, <1>5, FamilyParts
<1>7. ASSUME e.fam \in Families PROVE FALSE
  <2>1. Plain(dep)
    BY <1>7 DEF Watched, Linked, Families, PropertyFamilies, CompositeFamilies
  <2>2. EntryProp(e) \in Session.indexed[KindOf(Old.id)]
    BY <1>1, <1>3, <1>7, <2>1, WriterFacts DEF Known
  <2>3. e \in ValueEntries(Old.id, Old.rec, Props)
    BY <1>4, <1>7, FamilyParts
  <2>4. e \in ValueEntries(Old.id, Old.rec, Session.indexed[KindOf(Old.id)])
    BY <2>2, <2>3, Narrowed
  <2> QED
    BY <1>5, <2>4 DEF Indexed
<1> QED
  BY <1>2, <1>4, <1>6, <1>7, FamilyParts DEF Linked

(* Going on with the chunk's next record.                                   *)
LEMMA AdvanceKept ==
    ASSUME CoreInv, NEW n, Ready(dep, ws', job, n), ws'.rec = ws.rec, job' = ReplaceFrom(ws, job, n)
    PROVE  Kept
<1>1. Turned(dep, scope, ws', job, job')
  <2>1. PICK s : s = ws'
    OBVIOUS
  <2>2. PICK r : r = job'
    OBVIOUS
  <2>3. Turned(dep, scope, s, job, r)
    BY <2>1, <2>2, AdvanceOK
  <2> QED
    BY <2>1, <2>2, <2>3
<1> QED
  BY <1>1 DEF Kept, Turned, Ready, Advances

(* The old record has nothing left in the store.                            *)
LEMMA OldCleared ==
    ASSUME CoreInv, job.phase \in Clearing, IsStore(ws'), Described(dep, ws'), ws'.rec = ws.rec,
           \A i : Clean(dep, ws, i) => Clean(dep, ws', i), Clean(dep, ws', Old.id),
           job' = ReplaceFrom(ws, job, job.n + 1)
    PROVE  Kept
<1>1. PICK n : n = job.n + 1
  OBVIOUS
<1>2. n \in Nat /\ n >= 1 /\ \A m \in 1 .. (n - 1) : m \in 1 .. (job.n - 1) \/ m = job.n
  <2>1. job.n \in Nat
    BY OldFacts
  <2> QED
    BY <1>1, <2>1
<1>3. \A m \in 1 .. (n - 1) : Clean(dep, ws', Chunk[m].id)
  BY <1>2, OldFacts
<1>4. job.phase \in Writing /\ job.check
  BY OldFacts DEF Writing
<1>5. Ready(dep, ws', job, n)
  BY <1>2, <1>3, <1>4, WriterFacts DEF Ready
<1> QED
  BY <1>1, <1>5, AdvanceKept

(* Index entries of the old record go.                                      *)
LEMMA UnindexStep == ASSUME CoreInv, DeleteIndexes PROVE Kept
<1>1. job.phase \in Clearing /\ job.phase \in Writing /\ job.phase = "unindex"
  BY DEF DeleteIndexes, Step, Clearing, Writing
<1>2. PICK E : E = Unindexed
  OBVIOUS
<1>3. Loses(ws, E, ws')
  BY <1>1, <1>2, WriterFacts, DropAdd DEF DeleteIndexes, Write, Loses
<1>4. Rewrites(ws, ws') /\ ws'.rec = ws.rec /\ ws'.der = ws.der \ E /\ ws'.torn = ws.torn
  BY <1>1, <1>3, WriterFacts, Shrunk
<1>5. IsStore(ws') /\ Described(dep, ws') /\ \A i : Clean(dep, ws, i) => Clean(dep, ws', i)
  BY <1>1, <1>4, WriterFacts, Rewritten
<1>6. ASSUME NEW e \in ws'.der, e.id = Old.id, Watched(dep, e) PROVE e.fam = "legacy" \/ Excused(ws', e)
  <2>1. e \in ws.der /\ e \notin Unindexed
    BY <1>2, <1>4
  <2>2. e.fam = "legacy" \/ Excused(ws, e)
    BY <1>1, <1>6, <2>1, OldUnindexed
  <2> QED
    BY <1>4, <2>2 DEF Excused
<1>7. CASE Old.id \in Edges
  <2>1. Phased(job, "unlink", job')
    <3>1. job' = [job EXCEPT !.phase = "unlink"] /\ job \in Jobs
      BY <1>1, <1>7, WriterFacts DEF DeleteIndexes
    <3> QED
      BY <3>1 DEF Jobs, Phases, Writing, Clearing, Phased, SameJob
  <2>2. JobOK(dep, scope, ws', job')
    BY <1>1, <1>4, <1>7, <2>1, WriterFacts, OldFacts, StillUniform DEF Phased, SameJob, JobOK, Writing, Marking, Rebuilding,
       Clearing, Adding, Chunk
  <2>3. FreshOK(dep, ws', job')
    BY <1>1, <2>1, OldFacts DEF FreshOK, Phased
  <2>4. CleanOK(dep, ws', job')
    BY <1>1, <1>4, <1>5, <1>6, <2>1, OldFacts DEF CleanOK, Chunk, Phased
  <2> QED
    BY <1>5, <2>1, <2>2, <2>3, <2>4 DEF Kept, Phased, Advances, Adding, Marking, Rebuilding
<1>8. CASE Old.id \notin Edges
  <2>1. job' = ReplaceFrom(ws, job, job.n + 1)
    BY <1>8 DEF DeleteIndexes
  <2>2. Old.id \in Nodes
    BY <1>1, <1>8, OldFacts DEF Ids
  <2>3. \A e \in ws.der : e.id = Old.id => e.fam \notin Linked
    <3>1. IsStore(ws) /\ Described(dep, ws) /\ Old.id \in Ids
      BY <1>1, WriterFacts, OldFacts
    <3> QED
      BY <2>2, <3>1, NothingLeft
  <2>4. Clean(dep, ws', Old.id)
    BY <1>4, <1>6, <2>3 DEF Clean, Linked
  <2> QED
    BY <1>1, <1>4, <1>5, <2>1, <2>4, OldCleared
<1> QED
  BY <1>7, <1>8

(* An edge's legacy entries go.                                             *)
LEMMA UnlinkStep == ASSUME CoreInv, RemoveFromAdjacencies PROVE Kept
<1>1. job.phase \in Clearing /\ job.phase \in Writing /\ job.phase = "unlink"
  BY DEF RemoveFromAdjacencies, Step, Clearing, Writing
<1>2. PICK E : E = LegacyEntries(Old.id, Old.rec)
  OBVIOUS
<1>3. Loses(ws, E, ws')
  BY <1>1, <1>2, WriterFacts, DropAdd DEF RemoveFromAdjacencies, Write, Loses
<1>4. Rewrites(ws, ws') /\ ws'.rec = ws.rec /\ ws'.der = ws.der \ E /\ ws'.torn = ws.torn
  BY <1>1, <1>3, WriterFacts, Shrunk
<1>5. IsStore(ws') /\ Described(dep, ws') /\ \A i : Clean(dep, ws, i) => Clean(dep, ws', i)
  BY <1>1, <1>4, WriterFacts, Rewritten
<1>6. ASSUME NEW e \in ws'.der, e.id = Old.id, Watched(dep, e) PROVE Excused(ws', e)
  <2>1. e \in ws.der /\ e \notin LegacyEntries(Old.id, Old.rec)
    BY <1>2, <1>4
  <2>2. e.fam = "legacy" \/ Excused(ws, e)
    BY <1>1, <1>6, <2>1 DEF CoreInv, StructureInv, CleanOK, Old, Chunk
  <2>3. Describes(ws, e) \/ Excused(ws, e)
    BY <1>1, <1>6, <2>1, WriterFacts DEF Described
  <2>4. e.fam = "legacy" => ~Describes(ws, e)
    BY <1>1, <1>6, <2>1, OldFacts, FamilyParts DEF Describes
  <2>5. Excused(ws, e)
    BY <2>2, <2>3, <2>4
  <2> QED
    BY <1>4, <2>5 DEF Excused
<1>7. Clean(dep, ws', Old.id)
  BY <1>6 DEF Clean
<1>8. job' = ReplaceFrom(ws, job, job.n + 1)
  BY DEF RemoveFromAdjacencies
<1> QED
  BY <1>1, <1>4, <1>5, <1>7, <1>8, OldCleared

(* The items of a chunk.                                                    *)
LEMMA ItemFacts ==
    ASSUME CoreInv, job.phase \in Writing
    PROVE  /\ \A x \in Items : x.id \in Ids /\ KindOf(x.id) = KindOf(Chunk[1].id)
           /\ \A x, y \in Items : x.id = y.id => x = y
           /\ Chunk[1] \in Items
           /\ \/ \A x \in Items : x.rec \in Record /\ x.rec # Absent /\ (x.rec.ends = <<>> <=> x.id \in Nodes)
              \/ job.check /\ ~job.maintain /\ ~job.defer /\ \A x \in Items : x.rec = Absent
           /\ Chunk[1].id \in Edges => \A x \in Items : x.id \in Edges
<1>1. Chunk \in Chunks /\ Items = Range(Chunk) /\ Uniform(job) /\ Chunk \in Range(job.chunks) /\ job.chunks # <<>>
  BY WriterFacts
<1>2. PICK c : c = Chunk
  OBVIOUS
<1>3. c \in Chunks /\ Items = Range(c)
  BY <1>1, <1>2
<1>4. /\ 1 \in DOMAIN c /\ \A m \in DOMAIN c : c[m].id \in Ids /\ c[m] \in Range(c)
      /\ \A i, j \in DOMAIN c : KindOf(c[i].id) = KindOf(c[j].id) /\ (c[i].id = c[j].id => i = j)
      /\ \A x \in Range(c) : \E i \in DOMAIN c : x = c[i]
  BY <1>3, ChunkFacts
<1>5. /\ \A x \in Items : x.id \in Ids /\ KindOf(x.id) = KindOf(c[1].id)
      /\ \A x, y \in Items : x.id = y.id => x = y
      /\ c[1] \in Items
  BY <1>3, <1>4
<1>6. c[1].id \in Edges => \A x \in Items : x.id \in Edges
  BY <1>4, <1>5, ConstantAssumptions DEF KindOf, Ids
<1>7. CASE \A i \in DOMAIN c : c[i].rec \in Record /\ c[i].rec # Absent /\ (c[i].rec.ends = <<>> <=> c[i].id \in Nodes)
  <2>1. \A x \in Items : x.rec \in Record /\ x.rec # Absent /\ (x.rec.ends = <<>> <=> x.id \in Nodes)
    BY <1>3, <1>4, <1>7
  <2> QED
    BY <1>2, <1>5, <1>6, <2>1
<1>8. CASE \E i \in Ids : c = Erase(i) /\ DOMAIN c = {1} /\ c[1].id = i /\ c[1].rec = Absent
  <2>1. \A x \in Items : x.rec = Absent
    BY <1>3, <1>4, <1>8
  <2>2. ~(c \in Seq(Item) /\ IsBatch(c))
    <3>1. c \in Seq(Item) => c[1] \in Item
      BY <1>4
    <3> QED
      BY <1>8, <3>1, ConstantAssumptions DEF Item
  <2>3. job.check /\ ~job.maintain /\ ~job.defer
    BY <1>1, <1>2, <2>2 DEF Uniform, Filling
  <2> QED
    BY <1>2, <1>5, <1>6, <2>1, <2>3
<1> QED
  BY <1>3, <1>7, <1>8, ChunkFacts

(* Moving on to writing what is derived from the new records.               *)
LEMMA AddingKept ==
    ASSUME CoreInv, job.phase \in {"record"} \cup Adding, NEW p \in Adding, Phased(job, p, job'),
           IsStore(ws'), Described(dep, ws'), \A x \in Items : x.rec # Absent /\ ws'.rec[x.id] = x.rec,
           p = "typed" => Chunk[1].id \in Edges, p # "typed" => job.maintain,
           ~job.check => Unmet(dep, ws', Tail(job.chunks))
    PROVE  Kept
<1>1. job.phase \in Writing
  BY DEF Writing
<1>2. job.chunks # <<>> /\ Uniform(job) /\ ~job.create /\ (~job.check => Apart(job.chunks)) /\ Items = Range(Head(job.chunks))
  BY <1>1, WriterFacts
<1>3. Uniform(job')
  BY <1>2, StillUniform
<1>4. JobOK(dep, scope, ws', job')
  BY <1>2, <1>3 DEF Phased, SameJob, JobOK, Writing, Marking, Rebuilding, Clearing, Adding, Chunk
<1>5. FreshOK(dep, ws', job') /\ CleanOK(dep, ws', job')
  BY <1>2 DEF Phased, SameJob, FreshOK, CleanOK, Clearing, Adding
<1> QED
  BY <1>4, <1>5 DEF Kept, Phased, Advances, Adding, Marking, Rebuilding

(* Moving on to the next chunk.                                             *)
LEMMA NextKept ==
    ASSUME CoreInv, job.phase \in {"record"} \cup Adding, IsStore(ws'), Described(dep, ws'),
           ~job.check => Unmet(dep, ws', Tail(job.chunks)),
           NEW s0, s0.rec = ws'.rec, job' = NextChunk(s0, job)
    PROVE  Kept
<1>1. job.phase \in Writing
  BY DEF Writing
<1>2. Written(dep, ws', job)
  BY <1>1, WriterFacts DEF Written
<1>3. PICK s : s = ws'
  OBVIOUS
<1>4. PICK r : r = job'
  OBVIOUS
<1>5. WentOn(dep, scope, s, job, r)
  BY <1>2, <1>3, <1>4, NextOK
<1> QED
  BY <1>3, <1>4, <1>5 DEF WentOn, Kept, Advances

(* Records replaced, and legacy lists gone with the nodes erased.           *)
Overwrites(s, q, t) ==
    /\ t = [rec |-> t.rec, der |-> t.der, stale |-> t.stale, cfg |-> t.cfg, torn |-> t.torn]
    /\ t.stale = s.stale /\ t.cfg = s.cfg /\ t.torn = s.torn /\ t.rec = [i \in Ids |-> t.rec[i]]
    /\ \A x \in q : t.rec[x.id] = x.rec
    /\ \A i \in Ids : (\A x \in q : x.id # i) => t.rec[i] = s.rec[i]
    /\ t.der \subseteq s.der /\ \A e \in s.der \ t.der : e.fam = "legacy"

(* What follows the records of a chunk.                                     *)
Recorded(s, j, r) ==
    LET c == Head(j.chunks)
        gone == \E x \in Range(c) : x.rec = Absent
    IN  \/ gone /\ r = NextChunk(s, j)
        \/ ~gone /\ c[1].id \in Edges /\ Phased(j, "typed", r)
        \/ ~gone /\ c[1].id \notin Edges /\ j.maintain /\ Phased(j, "index", r)
        \/ ~gone /\ c[1].id \notin Edges /\ ~j.maintain /\ r = NextChunk(s, j)

(* The step does that.                                                      *)
LEMMA RecordEffect ==
    ASSUME CoreInv, PutRecords
    PROVE  Overwrites(ws, Items, ws') /\ Recorded(ws', job, job')
<1> DEFINE w == [i \in Ids |-> IF \E x \in Items : x.id = i THEN (CHOOSE x \in Items : x.id = i).rec ELSE ws.rec[i]]
<1> DEFINE erased == {x.id : x \in {y \in Items : y.rec = Absent}}
<1> DEFINE lists == {e \in ws.der : e.fam = "legacy" /\ e.key[2] \in erased}
<1> DEFINE s == [ws EXCEPT !.rec = w, !.der = @ \ lists]
<1>1. job.phase = "record" /\ job.phase \in Writing /\ ws' = s
      /\ job' = IF erased # {} THEN NextChunk(s, job)
                ELSE IF Chunk[1].id \in Edges THEN [job EXCEPT !.phase = "typed"]
                ELSE IF job.maintain THEN [job EXCEPT !.phase = "index"]
                ELSE NextChunk(s, job)
  BY DEF PutRecords, Step, Write, Writing
<1>2. IsStore(ws) /\ job \in Jobs /\ Chunk = Head(job.chunks) /\ Items = Range(Chunk)
  BY <1>1, WriterFacts
<1>3. \A x, y \in Items : x.id = y.id => x = y
  BY <1>1, ItemFacts
<1>4. \A x \in Items : x.id \in Ids
  BY <1>1, ItemFacts
<1>5. (\A x \in Items : w[x.id] = x.rec) /\ \A i \in Ids : (\A x \in Items : x.id # i) => w[i] = ws.rec[i]
  BY <1>3, <1>4
<1>6. w = [i \in Ids |-> w[i]]
  OBVIOUS
<1>7. lists \subseteq ws.der /\ \A e \in lists : e.fam = "legacy"
  OBVIOUS
<1>8. erased # {} <=> \E x \in Items : x.rec = Absent
  OBVIOUS
<1>9. s = [rec |-> w, der |-> ws.der \ lists, stale |-> ws.stale, cfg |-> ws.cfg, torn |-> ws.torn]
  <2>1. PICK r, d, st, c, t : ws = [rec |-> r, der |-> d, stale |-> st, cfg |-> c, torn |-> t]
    BY <1>2 DEF IsStore
  <2>2. PICK r2, d2 : r2 = w /\ d2 = d \ lists
    OBVIOUS
  <2>3. ws.rec = r /\ ws.der = d /\ ws.stale = st /\ ws.cfg = c /\ ws.torn = t
    BY <2>1
  <2>4. s = [ws EXCEPT !.rec = r2, !.der = d2]
    BY <2>2, <2>3
  <2> HIDE DEF s, w, lists
  <2> QED
    BY <2>1, <2>2, <2>3, <2>4
<1> HIDE DEF w, erased, lists
<1>10. PICK t : t = s
  OBVIOUS
<1> HIDE DEF s
<1>11. t.rec = w /\ t.der = ws.der \ lists /\ t.stale = ws.stale /\ t.cfg = ws.cfg /\ t.torn = ws.torn
       /\ t = [rec |-> t.rec, der |-> t.der, stale |-> t.stale, cfg |-> t.cfg, torn |-> t.torn]
  BY <1>9, <1>10
<1>12. Overwrites(ws, Items, t)
  BY <1>5, <1>6, <1>7, <1>11 DEF Overwrites
<1>13. Recorded(t, job, job')
  <2>1. CASE \E x \in Items : x.rec = Absent
    BY <1>1, <1>2, <1>8, <1>10, <2>1 DEF Recorded
  <2>2. CASE (\A x \in Items : x.rec # Absent) /\ Chunk[1].id \in Edges
    <3>1. job' = [job EXCEPT !.phase = "typed"]
      BY <1>1, <1>8, <2>2
    <3>2. Phased(job, "typed", job')
      BY <1>2, <3>1 DEF Jobs, Phases, Writing, Adding, Phased, SameJob
    <3> QED
      BY <1>2, <2>2, <3>2 DEF Recorded
  <2>3. CASE (\A x \in Items : x.rec # Absent) /\ Chunk[1].id \notin Edges /\ job.maintain
    <3>1. job' = [job EXCEPT !.phase = "index"]
      BY <1>1, <1>8, <2>3
    <3>2. Phased(job, "index", job')
      BY <1>2, <3>1 DEF Jobs, Phases, Writing, Adding, Phased, SameJob
    <3> QED
      BY <1>2, <2>3, <3>2 DEF Recorded
  <2>4. CASE (\A x \in Items : x.rec # Absent) /\ Chunk[1].id \notin Edges /\ ~job.maintain
    <3>1. job' = NextChunk(t, job)
      BY <1>1, <1>8, <1>10, <2>4
    <3> QED
      BY <1>2, <2>4, <3>1 DEF Recorded
  <2> QED
    BY <2>1, <2>2, <2>3, <2>4
<1> QED
  BY <1>1, <1>10, <1>12, <1>13

(* The records of a chunk are replaced once nothing is left of the old ones. *)
LEMMA RecordStep == ASSUME CoreInv, PutRecords PROVE Kept
<1>1. job.phase = "record" /\ job.phase \in Writing
  BY DEF PutRecords, Step, Writing
<1>2. PICK t : t = ws'
  OBVIOUS
<1>3. Overwrites(ws, Items, t) /\ Recorded(t, job, job')
  BY <1>2, RecordEffect
<1>4. /\ \A x \in Items : x.id \in Ids
      /\ \A x \in Items : t.rec[x.id] = x.rec
      /\ \A i \in Ids : (\A x \in Items : x.id # i) => t.rec[i] = ws.rec[i]
      /\ \A x \in Items : x.rec = Absent \/ (x.rec \in Record /\ (x.rec.ends = <<>> <=> x.id \in Nodes))
  BY <1>1, <1>3, ItemFacts DEF Overwrites
<1>5. IsStore(ws) /\ Described(dep, ws)
  BY <1>1, WriterFacts
<1>6. ASSUME NEW i \in Ids
      PROVE  t.rec[i] \in Record \cup {Absent} /\ (t.rec[i] # Absent => (t.rec[i].ends = <<>> <=> i \in Nodes))
  <2>1. CASE \A x \in Items : x.id # i
    BY <1>4, <1>5, <2>1 DEF IsStore
  <2>2. CASE \E x \in Items : x.id = i
    BY <1>4, <2>2
  <2> QED
    BY <2>1, <2>2
<1>7. IsStore(t)
  <2>1. t.rec \in [Ids -> Record \cup {Absent}]
    <3>1. t.rec = [i \in Ids |-> t.rec[i]]
      BY <1>3 DEF Overwrites
    <3> QED
      BY <1>6, <3>1
  <2> QED
    BY <1>3, <1>5, <1>6, <2>1 DEF IsStore, Overwrites
<1>8. Described(dep, t)
  <2> SUFFICES ASSUME NEW e \in t.der, Watched(dep, e) PROVE Describes(t, e) \/ Excused(t, e)
    BY DEF Described
  <2>1. e \in ws.der /\ e.id \in Ids /\ (Excused(ws, e) => Excused(t, e))
    BY <1>3, <1>5 DEF Overwrites, IsStore, Excused
  <2>2. CASE \A x \in Items : x.id # e.id
    BY <1>4, <1>5, <2>1, <2>2 DEF Described, Describes
  <2>3. CASE \E x \in Items : x.id = e.id
    <3>1. PICK x \in Items : x.id = e.id
      BY <2>3
    <3>2. Clean(dep, ws, x.id)
      BY <1>1 DEF CoreInv, StructureInv, CleanOK, Items, Chunk
    <3> QED
      BY <2>1, <3>1, <3>2 DEF Clean
  <2> QED
    BY <2>2, <2>3
<1>9. ~job.check => Unmet(dep, t, Tail(job.chunks))
  <2> SUFFICES ASSUME ~job.check, NEW c \in Range(Tail(job.chunks)), NEW x \in Range(c)
               PROVE  t.rec[x.id] = Absent \/ (dep.overwrite /\ x.id \in Nodes)
    BY DEF Unmet
  <2>1. /\ job.chunks \in Seq(Chunks) /\ job.chunks # <<>> /\ Apart(job.chunks) /\ Unmet(dep, ws, job.chunks)
        /\ Items = Range(Head(job.chunks))
    BY <1>1, WriterFacts DEF Adding
  <2>2. PICK m \in DOMAIN Tail(job.chunks) : c = Tail(job.chunks)[m]
    BY DEF Range
  <2>3. m \in Nat /\ m # 0 /\ m + 1 \in DOMAIN job.chunks /\ c = job.chunks[m + 1] /\ 1 \in DOMAIN job.chunks
        /\ Head(job.chunks) = job.chunks[1] /\ c \in Range(job.chunks) /\ c \in Chunks
    <3>1. m \in Nat /\ m # 0
      <4>1. Tail(job.chunks) \in Seq(Chunks)
        BY <2>1, ChunksSplit
      <4> QED
        BY <2>2, <4>1
    <3> QED
      BY <2>1, <2>2, <3>1, ChunksSplit
  <2>4. x.id \in Ids
    BY <2>3, ChunkFacts
  <2>5. \A y \in Items : y.id # x.id
    <3> SUFFICES ASSUME NEW y \in Items, y.id = x.id PROVE FALSE
      OBVIOUS
    <3>1. y \in Range(job.chunks[1]) /\ x \in Range(job.chunks[m + 1])
      BY <2>1, <2>3
    <3>2. 1 = m + 1
      BY <2>1, <2>3, <3>1 DEF Apart
    <3> QED
      BY <2>3, <3>2
  <2>6. ws.rec[x.id] = Absent \/ (dep.overwrite /\ x.id \in Nodes)
    BY <2>1, <2>3 DEF Unmet
  <2> QED
    BY <1>4, <2>4, <2>5, <2>6
<1>10. Chunk = Head(job.chunks) /\ Items = Range(Chunk)
  BY <1>1, WriterFacts
<1>11. CASE job' = NextChunk(t, job)
  BY <1>1, <1>2, <1>7, <1>8, <1>9, <1>11, NextKept
<1>12. ASSUME NEW p \in Adding, Phased(job, p, job'), p = "typed" => Chunk[1].id \in Edges, p # "typed" => job.maintain,
              \A x \in Items : x.rec # Absent
       PROVE  Kept
  <2>1. \A x \in Items : x.rec # Absent /\ ws'.rec[x.id] = x.rec
    BY <1>2, <1>4, <1>12
  <2> QED
    BY <1>1, <1>2, <1>7, <1>8, <1>9, <1>12, <2>1, AddingKept
<1>13. CASE (\A x \in Items : x.rec # Absent) /\ Chunk[1].id \in Edges /\ Phased(job, "typed", job')
  BY <1>12, <1>13 DEF Adding
<1>14. CASE (\A x \in Items : x.rec # Absent) /\ job.maintain /\ Phased(job, "index", job')
  BY <1>12, <1>14 DEF Adding
<1> QED
  BY <1>3, <1>10, <1>11, <1>13, <1>14 DEF Recorded

(* An entry has the id it was derived for.                                  *)
LEMMA OwnEntry ==
    ASSUME NEW i, NEW r, NEW e \in AllEntries(i, r)
    PROVE  e.id = i
<1>1. \/ e \in LabelEntries(i, r) \/ e \in ValueEntries(i, r, Props)
      \/ e \in TypedEntries(i, r) \/ e \in LegacyEntries(i, r)
  BY EntryParts
<1> QED
  BY <1>1, EntryShapes, ValueShapes

(* The parts of an operation's entries.                                     *)
LEMMA WithinAll ==
    ASSUME NEW i, NEW r, NEW P, P \subseteq Props
    PROVE  /\ LabelEntries(i, r) \subseteq AllEntries(i, r) /\ ValueEntries(i, r, P) \subseteq AllEntries(i, r)
           /\ PropertyEntries(i, r, P) \subseteq AllEntries(i, r) /\ RangeEntries(i, r, P) \subseteq AllEntries(i, r)
           /\ TypedEntries(i, r) \subseteq AllEntries(i, r) /\ LegacyEntries(i, r) \subseteq AllEntries(i, r)
<1>1. ValueEntries(i, r, P) \subseteq ValueEntries(i, r, Props)
  BY EntryNarrowing
<1>2. PropertyEntries(i, r, P) \subseteq ValueEntries(i, r, P) /\ RangeEntries(i, r, P) \subseteq ValueEntries(i, r, P)
  BY DEF ValueEntries
<1> QED
  BY <1>1, <1>2, EntryParts

(* The properties the session in use has indexed.                           *)
LEMMA IndexedProps ==
    ASSUME CoreInv, NEW i
    PROVE  Indexed(i) \subseteq Props /\ \A k \in Kinds : Session.indexed[k] \subseteq Props
<1>1. IsSession(Session) /\ KindOf(i) \in Kinds
  BY DEF CoreInv, ScopeInv, Session, KindOf, Kinds
<1> QED
  BY <1>1 DEF IsSession, Indexed

(* Entries of the new records are added.                                    *)
LEMMA AddedKept ==
    ASSUME CoreInv, job.phase \in Adding, NEW E, Gains(ws, E, ws'),
           \A e \in E : \E x \in Items : e \in AllEntries(x.id, x.rec),
           \/ job.maintain /\ \E p \in Adding : p # "typed" /\ Phased(job, p, job')
           \/ job' = NextChunk(ws, job)
    PROVE  Kept
<1>1. job.phase \in Writing /\ IsStore(ws) /\ Described(dep, ws) /\ Items = Range(Head(job.chunks))
  <2>1. job.phase \in Writing
    BY DEF Writing
  <2> QED
    BY <2>1, WriterFacts
<1>2. \A x \in Items : x.id \in Ids /\ x.rec # Absent /\ ws.rec[x.id] = x.rec
  BY <1>1, ItemFacts DEF CoreInv, StructureInv, JobOK
<1>3. \A e \in E : Derived(ws, e)
  BY <1>2, OwnEntry DEF Derived, Describes
<1>4. Rewrites(ws, ws') /\ ws'.rec = ws.rec
  BY <1>1, <1>3, Grown
<1>5. IsStore(ws') /\ Described(dep, ws')
  BY <1>1, <1>4, Rewritten
<1>6. ~job.check => Unmet(dep, ws', Tail(job.chunks))
  BY <1>1, <1>4, WriterFacts DEF Unmet
<1>7. CASE job' = NextChunk(ws, job)
  BY <1>4, <1>5, <1>6, <1>7, NextKept
<1>8. CASE job.maintain /\ \E p \in Adding : p # "typed" /\ Phased(job, p, job')
  <2>1. PICK p \in Adding : p # "typed" /\ Phased(job, p, job')
    BY <1>8
  <2> QED
    BY <1>2, <1>4, <1>5, <1>6, <1>8, <2>1, AddingKept
<1> QED
  BY <1>7, <1>8

(* What each of these steps adds.                                           *)
Added ==
    IF job.phase = "typed" THEN UNION {TypedEntries(x.id, x.rec) : x \in Items}
    ELSE IF job.phase = "index"
         THEN UNION {LabelEntries(x.id, x.rec) \cup PropertyEntries(x.id, x.rec, Indexed(x.id)) : x \in Items}
         ELSE IF job.phase = "range" THEN UNION {RangeEntries(x.id, x.rec, Indexed(x.id)) : x \in Items}
              ELSE UNION {LegacyEntries(x.id, x.rec) : x \in Items}

AddStep == PutTypedAdjacency \/ PutIndexEntries \/ PutRangeEntries \/ PutAdjacencyLists

(* It gains them, and goes on.                                              *)
LEMMA AddEffect ==
    ASSUME CoreInv, AddStep
    PROVE  /\ job.phase \in Adding /\ Gains(ws, Added, ws')
           /\ \/ /\ job.phase = "typed" /\ job.maintain /\ Phased(job, "index", job')
              \/ /\ job.phase = "index" /\ job.maintain /\ Phased(job, "range", job')
              \/ /\ job.phase = "range" /\ job.maintain /\ Phased(job, "legacy", job')
              \/ /\ job.phase # "index" /\ job' = NextChunk(ws, job)
                 /\ job.phase = "typed" => ~job.maintain
<1>1. job.phase \in Adding
  BY DEF AddStep, PutTypedAdjacency, PutIndexEntries, PutRangeEntries, PutAdjacencyLists, Step, Adding
<1>2. job.phase \in Writing
  BY <1>1 DEF Writing
<1>3. PICK E : E = Added
  OBVIOUS
<1>4. ws' = Add(E)
  BY <1>3 DEF AddStep, PutTypedAdjacency, PutIndexEntries, PutRangeEntries, PutAdjacencyLists, Step, Write, Added
<1>5. Gains(ws, E, ws')
  BY <1>2, <1>4, DropAdd, WriterFacts DEF Gains
<1>6. job \in Jobs /\ (job.phase \in {"index", "range", "legacy"} => job.maintain)
  BY <1>2, WriterFacts DEF CoreInv, StructureInv, JobOK
<1>7. ASSUME NEW p \in Adding, job' = [job EXCEPT !.phase = p] PROVE Phased(job, p, job')
  BY <1>6, <1>7 DEF Jobs, Phases, Writing, Phased, SameJob
<1>8. \/ /\ job.phase = "typed" /\ job.maintain /\ Phased(job, "index", job')
      \/ /\ job.phase = "index" /\ job.maintain /\ Phased(job, "range", job')
      \/ /\ job.phase = "range" /\ job.maintain /\ Phased(job, "legacy", job')
      \/ /\ job.phase # "index" /\ job' = NextChunk(ws, job)
         /\ job.phase = "typed" => ~job.maintain
  <2>1. CASE PutTypedAdjacency
    BY <1>7, <2>1 DEF PutTypedAdjacency, Step, Adding
  <2>2. CASE PutIndexEntries
    BY <1>6, <1>7, <2>2 DEF PutIndexEntries, Step, Adding
  <2>3. CASE PutRangeEntries
    BY <1>6, <1>7, <2>3 DEF PutRangeEntries, Step, Adding
  <2>4. CASE PutAdjacencyLists
    BY <1>6, <2>4 DEF PutAdjacencyLists, Step, Adding
  <2> QED
    BY <2>1, <2>2, <2>3, <2>4 DEF AddStep
<1> QED
  BY <1>1, <1>3, <1>5, <1>8

(* Each of these steps keeps the structure.                                 *)
LEMMA AddStepKept == ASSUME CoreInv, AddStep PROVE Kept
<1>1. job.phase \in Adding /\ Gains(ws, Added, ws')
  BY AddEffect
<1>2. PICK E : E = Added
  OBVIOUS
<1>3. ASSUME NEW e \in E PROVE \E x \in Items : e \in AllEntries(x.id, x.rec)
  <2>1. CASE job.phase = "typed"
    <3>1. PICK x \in Items : e \in TypedEntries(x.id, x.rec)
      BY <1>2, <1>3, <2>1 DEF Added
    <3> QED
      BY <3>1, WithinAll
  <2>2. CASE job.phase = "index"
    <3>1. PICK x \in Items : e \in LabelEntries(x.id, x.rec) \cup PropertyEntries(x.id, x.rec, Indexed(x.id))
      BY <1>2, <1>3, <2>2 DEF Added
    <3>2. Indexed(x.id) \subseteq Props
      BY IndexedProps
    <3> QED
      BY <3>1, <3>2, WithinAll
  <2>3. CASE job.phase = "range"
    <3>1. PICK x \in Items : e \in RangeEntries(x.id, x.rec, Indexed(x.id))
      BY <1>2, <1>3, <2>3 DEF Added
    <3>2. Indexed(x.id) \subseteq Props
      BY IndexedProps
    <3> QED
      BY <3>1, <3>2, WithinAll
  <2>4. CASE job.phase = "legacy"
    <3>1. PICK x \in Items : e \in LegacyEntries(x.id, x.rec)
      BY <1>2, <1>3, <2>4 DEF Added
    <3> QED
      BY <3>1, WithinAll
  <2> QED
    BY <1>1, <2>1, <2>2, <2>3, <2>4 DEF Adding
<1>4. \/ job.maintain /\ \E p \in Adding : p # "typed" /\ Phased(job, p, job')
      \/ job' = NextChunk(ws, job)
  BY AddEffect DEF Adding
<1> QED
  BY <1>1, <1>2, <1>3, <1>4, AddedKept

(* A step that only marks, or that rebuilds.                                *)
LEMMA PhaseKept ==
    ASSUME CoreInv, job.phase \in Marking \cup Rebuilding, Rewrites(ws, ws'), NEW p, Phased(job, p, job'),
           p = "end" \/ (p \in Marking /\ job.phase \in Marking) \/ (p \in Rebuilding \ {"retype"} /\ job.phase \in Rebuilding)
    PROVE  Kept
<1>1. IsStore(ws') /\ Described(dep, ws')
  BY Rewritten DEF CoreInv, ScopeInv, StructureInv
<1>2. JobOK(dep, scope, ws, job) /\ Uniform(job')
  BY StillUniform DEF CoreInv, StructureInv, JobOK
<1>3. JobOK(dep, scope, ws', job')
  BY <1>2 DEF Phased, SameJob, JobOK, Writing, Marking, Rebuilding, Clearing, Adding
<1>4. FreshOK(dep, ws', job') /\ CleanOK(dep, ws', job')
  BY DEF Phased, SameJob, FreshOK, CleanOK, Clearing, Adding, Writing, Marking, Rebuilding
<1> QED
  BY <1>1, <1>3, <1>4 DEF Kept, Phased, Advances, Adding, Marking, Rebuilding

(* A store with other marks.                                                *)
Remarks(s, t) ==
    /\ t = [rec |-> t.rec, der |-> t.der, stale |-> t.stale, cfg |-> t.cfg, torn |-> t.torn]
    /\ t.rec = s.rec /\ t.der = s.der /\ t.cfg = s.cfg
    /\ \A k : <<k, "created">> \in s.torn => <<k, "created">> \in t.torn

(* Marking a family stale, and clearing the mark after a rebuild.           *)
LEMMA MarkEffect ==
    ASSUME IsStore(ws)
    PROVE  /\ \A k, f : LET t == [ws EXCEPT !.stale = @ \cup {<<k, f>>}] IN
                        Remarks(ws, t) /\ t.stale = ws.stale \cup {<<k, f>>} /\ t.torn = ws.torn
           /\ \A f : f # "created" =>
                  LET t == ClearStale(f) IN
                  Remarks(ws, t) /\ t.stale = ws.stale \ {<<job.kind, f>>} /\ t.torn = ws.torn \ {<<job.kind, f>>}
<1>1. PICK r, d, st, c, o : ws = [rec |-> r, der |-> d, stale |-> st, cfg |-> c, torn |-> o]
  BY DEF IsStore
<1>2. ws.rec = r /\ ws.der = d /\ ws.stale = st /\ ws.cfg = c /\ ws.torn = o
  BY <1>1
<1>3. ASSUME NEW a, NEW b, NEW t, t = [ws EXCEPT !.stale = a, !.torn = b]
      PROVE  t = [rec |-> r, der |-> d, stale |-> a, cfg |-> c, torn |-> b]
  BY <1>1, <1>3
<1>4. ASSUME NEW a PROVE [ws EXCEPT !.stale = a] = [rec |-> r, der |-> d, stale |-> a, cfg |-> c, torn |-> o]
  BY <1>1
<1>5. ASSUME NEW k, NEW f, NEW t, t = [ws EXCEPT !.stale = @ \cup {<<k, f>>}]
      PROVE  Remarks(ws, t) /\ t.stale = ws.stale \cup {<<k, f>>} /\ t.torn = ws.torn
  <2>1. PICK a : a = st \cup {<<k, f>>}
    OBVIOUS
  <2>2. t = [ws EXCEPT !.stale = a]
    BY <1>2, <1>5, <2>1
  <2>3. t = [rec |-> r, der |-> d, stale |-> a, cfg |-> c, torn |-> o]
    BY <1>4, <2>2
  <2>4. t.rec = r /\ t.der = d /\ t.stale = a /\ t.cfg = c /\ t.torn = o
    BY <2>3
  <2> QED
    BY <1>2, <2>1, <2>3, <2>4 DEF Remarks
<1>6. ASSUME NEW f, f # "created", NEW t, t = ClearStale(f)
      PROVE  Remarks(ws, t) /\ t.stale = ws.stale \ {<<job.kind, f>>} /\ t.torn = ws.torn \ {<<job.kind, f>>}
  <2>1. PICK a, b : a = st \ {<<job.kind, f>>} /\ b = o \ {<<job.kind, f>>}
    OBVIOUS
  <2>2. t = [ws EXCEPT !.stale = a, !.torn = b]
    BY <1>2, <1>6, <2>1 DEF ClearStale
  <2>3. t = [rec |-> r, der |-> d, stale |-> a, cfg |-> c, torn |-> b]
    BY <1>3, <2>2
  <2>4. t.rec = r /\ t.der = d /\ t.stale = a /\ t.cfg = c /\ t.torn = b
    BY <2>3
  <2>5. \A k : <<k, "created">> \in o => <<k, "created">> \in b
    BY <1>6, <2>1
  <2> QED
    BY <1>2, <2>1, <2>3, <2>4, <2>5 DEF Remarks
<1> QED
  BY <1>5, <1>6

(* Marks are no entries.                                                    *)
LEMMA RemarksRewrites == ASSUME IsStore(ws), NEW t, Remarks(ws, t) PROVE Rewrites(ws, t)
BY DEF Remarks, Rewrites, IsStore

(* The stale markers of a deferred load.                                    *)
MarkStep == MarkLabels \/ MarkProperties

(* Which one, and what follows.                                             *)
LEMMA MarkStepEffect ==
    ASSUME CoreInv, MarkStep
    PROVE  LET k == KindOf(Chunk[1].id) IN
           /\ job.phase \in Marking /\ job.defer /\ Remarks(ws, ws') /\ ws'.torn = ws.torn
           /\ \/ /\ job.phase = "mark_label" /\ ws'.stale = ws.stale \cup {<<k, "label">>}
                 /\ IF Indexed(Chunk[1].id) # {} THEN Phased(job, "mark_property", job') ELSE Phased(job, "end", job')
              \/ /\ job.phase = "mark_property" /\ ws'.stale = ws.stale \cup {<<k, "property">>}
                 /\ Phased(job, "end", job')
<1>1. IsStore(ws) /\ job \in Jobs /\ (job.phase \in Marking => job.defer)
  BY DEF CoreInv, ScopeInv, StructureInv, JobOK
<1>2. ASSUME NEW p \in Marking \cup {"end"}, job' = [job EXCEPT !.phase = p] PROVE Phased(job, p, job')
  BY <1>1, <1>2 DEF Jobs, Phases, Phased, SameJob
<1>3. CASE MarkLabels
  <2>1. ws' = [ws EXCEPT !.stale = @ \cup {<<KindOf(Chunk[1].id), "label">>}] /\ job.phase = "mark_label"
    BY <1>3 DEF MarkLabels, Step, Write
  <2>2. Remarks(ws, ws') /\ ws'.torn = ws.torn /\ ws'.stale = ws.stale \cup {<<KindOf(Chunk[1].id), "label">>}
    BY <1>1, <2>1, MarkEffect
  <2>3. IF Indexed(Chunk[1].id) # {} THEN Phased(job, "mark_property", job') ELSE Phased(job, "end", job')
    BY <1>2, <1>3 DEF MarkLabels, Marking
  <2> QED
    BY <1>1, <2>1, <2>2, <2>3 DEF Marking
<1>4. CASE MarkProperties
  <2>1. ws' = [ws EXCEPT !.stale = @ \cup {<<KindOf(Chunk[1].id), "property">>}] /\ job.phase = "mark_property"
    BY <1>4 DEF MarkProperties, Step, Write
  <2>2. Remarks(ws, ws') /\ ws'.torn = ws.torn /\ ws'.stale = ws.stale \cup {<<KindOf(Chunk[1].id), "property">>}
    BY <1>1, <2>1, MarkEffect
  <2>3. Phased(job, "end", job')
    BY <1>2, <1>4 DEF MarkProperties
  <2> QED
    BY <1>1, <2>1, <2>2, <2>3 DEF Marking
<1> QED
  BY <1>3, <1>4 DEF MarkStep

(* They keep the structure.                                                 *)
LEMMA MarkStepKept == ASSUME CoreInv, MarkStep PROVE Kept
<1>1. job.phase \in Marking /\ Remarks(ws, ws') /\ (Phased(job, "mark_property", job') \/ Phased(job, "end", job'))
  BY MarkStepEffect
<1>2. Rewrites(ws, ws')
  BY <1>1, RemarksRewrites DEF CoreInv, ScopeInv
<1> QED
  BY <1>1, <1>2, PhaseKept DEF Marking

(* What the steps of a rebuild add.                                         *)
Flushed ==
    IF job.phase = "exact"
    THEN UNION {(IF job.labels THEN LabelEntries(i, ws.rec[i]) ELSE {})
                \cup PropertyEntries(i, ws.rec[i], job.props) : i \in Scanned}
    ELSE UNION {RangeEntries(i, ws.rec[i], job.props) : i \in Scanned}
Retyped == UNION {TypedEntries(i, ws.rec[i]) : i \in Scanned}

Flush == FlushExact \/ FlushRanges
Clear == ClearLabels \/ ClearProperties

(* Flushing adds entries and goes on.                                       *)
LEMMA FlushEffect ==
    ASSUME CoreInv, Flush
    PROVE  /\ Gains(ws, Flushed, ws')
           /\ \/ job.phase = "exact" /\ Phased(job, "ranges", job')
              \/ job.phase = "ranges" /\ Phased(job, IF job.labels THEN "clear_label" ELSE AfterLabels, job')
<1>1. IsStore(ws) /\ job \in Jobs
  BY DEF CoreInv, ScopeInv, StructureInv, JobOK
<1>2. PICK E : E = Flushed
  OBVIOUS
<1>3. ws' = Add(E)
  BY <1>2 DEF Flush, FlushExact, FlushRanges, Step, Write, Flushed
<1>4. Gains(ws, E, ws')
  BY <1>1, <1>3, DropAdd DEF Gains
<1>5. ASSUME NEW p \in Rebuilding \cup {"end"}, job' = [job EXCEPT !.phase = p] PROVE Phased(job, p, job')
  BY <1>1, <1>5 DEF Jobs, Phases, Phased, SameJob
<1>6. CASE FlushExact
  <2>1. job.phase = "exact" /\ job' = [job EXCEPT !.phase = "ranges"]
    BY <1>6 DEF FlushExact, Step
  <2>2. Phased(job, "ranges", job')
    BY <1>5, <2>1 DEF Rebuilding
  <2> QED
    BY <1>2, <1>4, <2>1, <2>2
<1>7. CASE FlushRanges
  <2>1. PICK p : p = IF job.labels THEN "clear_label" ELSE AfterLabels
    OBVIOUS
  <2>2. job.phase = "ranges" /\ job' = [job EXCEPT !.phase = p]
    BY <1>7, <2>1 DEF FlushRanges, Step
  <2>3. p \in Rebuilding \cup {"end"}
    BY <2>1 DEF Rebuilding, AfterLabels
  <2> QED
    BY <1>2, <1>4, <1>5, <2>1, <2>2, <2>3
<1> QED
  BY <1>6, <1>7 DEF Flush

(* What it adds describes the records it scanned.                           *)
LEMMA FlushDerived ==
    ASSUME CoreInv, Flush
    PROVE  \A e \in Flushed : Derived(ws, e)
<1>1. job.props \subseteq Props
  BY DEF CoreInv, StructureInv, JobOK, Jobs
<1>2. \A i \in Scanned : i \in Ids /\ ws.rec[i] # Absent
  BY DEF Scanned, Present
<1>3. ASSUME NEW e \in Flushed PROVE \E i \in Scanned : e \in AllEntries(i, ws.rec[i])
  <2>1. PICK i \in Scanned : \/ e \in LabelEntries(i, ws.rec[i]) \/ e \in PropertyEntries(i, ws.rec[i], job.props)
                             \/ e \in RangeEntries(i, ws.rec[i], job.props)
    BY <1>3 DEF Flushed
  <2> QED
    BY <1>1, <2>1, WithinAll
<1> QED
  BY <1>2, <1>3, OwnEntry DEF Derived, Describes

(* A flush keeps the structure.                                             *)
LEMMA FlushKept == ASSUME CoreInv, Flush PROVE Kept
<1>1. PICK E : E = Flushed
  OBVIOUS
<1>2. Gains(ws, E, ws') /\ IsStore(ws) /\ \A e \in E : Derived(ws, e)
  BY <1>1, FlushEffect, FlushDerived DEF CoreInv, ScopeInv
<1>3. Rewrites(ws, ws')
  BY <1>2, Grown
<1>4. PICK p : Phased(job, p, job') /\ p \in (Rebuilding \ {"retype"}) \cup {"end"} /\ job.phase \in Rebuilding
  BY FlushEffect DEF Rebuilding, AfterLabels
<1> QED
  BY <1>3, <1>4, PhaseKept

(* Clearing marks.                                                          *)
LEMMA ClearEffect ==
    ASSUME CoreInv, Clear
    PROVE  /\ job.phase \in Rebuilding /\ Remarks(ws, ws')
           /\ \/ /\ job.phase = "clear_label" /\ Phased(job, AfterLabels, job')
                 /\ ws'.stale = ws.stale \ {<<job.kind, "label">>} /\ ws'.torn = ws.torn \ {<<job.kind, "label">>}
              \/ /\ job.phase = "clear_property" /\ Phased(job, IF job.create THEN "config" ELSE "end", job')
                 /\ ws'.stale = ws.stale \ {<<job.kind, "property">>} /\ ws'.torn = ws.torn \ {<<job.kind, "property">>}
<1>1. IsStore(ws) /\ job \in Jobs
  BY DEF CoreInv, ScopeInv, StructureInv, JobOK
<1>2. ASSUME NEW p \in Rebuilding \cup {"end"}, job' = [job EXCEPT !.phase = p] PROVE Phased(job, p, job')
  BY <1>1, <1>2 DEF Jobs, Phases, Phased, SameJob
<1>3. CASE ClearLabels
  <2>1. PICK p : p = AfterLabels
    OBVIOUS
  <2>2. job.phase = "clear_label" /\ job' = [job EXCEPT !.phase = p] /\ ws' = ClearStale("label")
    BY <1>3, <2>1 DEF ClearLabels, Step, Write
  <2>3. p \in Rebuilding \cup {"end"} /\ "label" # "created"
    BY <2>1 DEF Rebuilding, AfterLabels
  <2>4. Phased(job, p, job')
    BY <1>2, <2>2, <2>3
  <2>5. Remarks(ws, ws') /\ ws'.stale = ws.stale \ {<<job.kind, "label">>} /\ ws'.torn = ws.torn \ {<<job.kind, "label">>}
    BY <1>1, <2>2, <2>3, MarkEffect
  <2> QED
    BY <2>1, <2>2, <2>4, <2>5 DEF Rebuilding
<1>4. CASE ClearProperties
  <2>1. PICK p : p = IF job.create THEN "config" ELSE "end"
    OBVIOUS
  <2>2. job.phase = "clear_property" /\ job' = [job EXCEPT !.phase = p] /\ ws' = ClearStale("property")
    BY <1>4, <2>1 DEF ClearProperties, Step, Write
  <2>3. p \in Rebuilding \cup {"end"} /\ "property" # "created"
    BY <2>1 DEF Rebuilding
  <2>4. Phased(job, p, job')
    BY <1>2, <2>2, <2>3
  <2>5. Remarks(ws, ws') /\ ws'.stale = ws.stale \ {<<job.kind, "property">>} /\ ws'.torn = ws.torn \ {<<job.kind, "property">>}
    BY <1>1, <2>2, <2>3, MarkEffect
  <2> QED
    BY <2>1, <2>2, <2>4, <2>5 DEF Rebuilding
<1> QED
  BY <1>3, <1>4 DEF Clear

(* It keeps the structure.                                                  *)
LEMMA ClearKept == ASSUME CoreInv, Clear PROVE Kept
<1>1. Rewrites(ws, ws')
  <2>1. IsStore(ws) /\ Remarks(ws, ws')
    BY ClearEffect DEF CoreInv, ScopeInv
  <2> QED
    BY <2>1, RemarksRewrites
<1>2. PICK p : Phased(job, p, job') /\ p \in (Rebuilding \ {"retype"}) \cup {"end"} /\ job.phase \in Rebuilding
  BY ClearEffect DEF Rebuilding, AfterLabels
<1> QED
  BY <1>1, <1>2, PhaseKept

(* The configuration with one kind's properties set.                        *)
Reconfigured(s, k, P, t) ==
    /\ t = [rec |-> t.rec, der |-> t.der, stale |-> t.stale, cfg |-> t.cfg, torn |-> t.torn]
    /\ t.rec = s.rec /\ t.der = s.der /\ t.stale = s.stale /\ t.torn = s.torn
    /\ t.cfg = [s.cfg EXCEPT ![k] = P]

(* Persisting the configuration.                                            *)
LEMMA ConfigEffect ==
    ASSUME CoreInv, PersistConfig
    PROVE  job.phase = "config" /\ Reconfigured(ws, job.kind, Staged, ws') /\ Phased(job, "end", job')
<1>1. IsStore(ws) /\ job \in Jobs
  BY DEF CoreInv, ScopeInv, StructureInv, JobOK
<1>2. PICK r, d, st, c, o : ws = [rec |-> r, der |-> d, stale |-> st, cfg |-> c, torn |-> o]
  BY <1>1 DEF IsStore
<1>3. ws.rec = r /\ ws.der = d /\ ws.stale = st /\ ws.cfg = c /\ ws.torn = o
  BY <1>2
<1>4. PICK P, k, a : P = Staged /\ k = job.kind /\ a = [c EXCEPT ![k] = P]
  OBVIOUS
<1>5. ws' = [ws EXCEPT !.cfg = a]
  <2>1. ws' = [ws EXCEPT !.cfg[k] = P]
    BY <1>4 DEF PersistConfig, Step, Write
  <2> QED
    BY <1>3, <1>4, <2>1
<1>6. ws' = [rec |-> r, der |-> d, stale |-> st, cfg |-> a, torn |-> o]
  BY <1>2, <1>5
<1>7. ws'.rec = r /\ ws'.der = d /\ ws'.stale = st /\ ws'.cfg = a /\ ws'.torn = o
  BY <1>6
<1>8. Reconfigured(ws, k, P, ws')
  BY <1>3, <1>4, <1>6, <1>7 DEF Reconfigured
<1>9. Phased(job, "end", job')
  <2>1. job' = [job EXCEPT !.phase = "end"]
    BY DEF PersistConfig
  <2> QED
    BY <1>1, <2>1 DEF Jobs, Phases, Phased, SameJob
<1> QED
  BY <1>4, <1>8, <1>9 DEF PersistConfig, Step

(* The staged configuration is one of properties.                           *)
LEMMA StagedProps ==
    ASSUME CoreInv
    PROVE  job.kind \in Kinds /\ Staged \subseteq Props
<1>1. job.kind \in Kinds /\ job.props \subseteq Props
  BY DEF CoreInv, StructureInv, JobOK, Jobs
<1> QED
  BY <1>1, IndexedProps DEF Staged

(* It keeps the structure.                                                  *)
LEMMA ConfigKept == ASSUME CoreInv, PersistConfig PROVE Kept
<1>1. job.phase = "config" /\ Phased(job, "end", job')
  BY ConfigEffect
<1>2. PICK P : P = Staged
  OBVIOUS
<1>3. Reconfigured(ws, job.kind, P, ws') /\ P \subseteq Props /\ job.kind \in Kinds /\ IsStore(ws)
  BY <1>2, ConfigEffect, StagedProps DEF CoreInv, ScopeInv
<1>4. Rewrites(ws, ws')
  BY <1>3 DEF Reconfigured, Rewrites, IsStore
<1> QED
  BY <1>1, <1>4, PhaseKept DEF Rebuilding

(* Typed adjacency is written again, and trusted again.                     *)
Retypes(s, E, t) ==
    /\ t = [rec |-> t.rec, der |-> t.der, stale |-> t.stale, cfg |-> t.cfg, torn |-> t.torn]
    /\ t.rec = s.rec /\ t.der = s.der \cup E /\ t.stale = s.stale /\ t.cfg = s.cfg
    /\ t.torn = s.torn \ {<<"edge", "typed">>}

(* The whole of it.                                                         *)
LEMMA RetypeEffect ==
    ASSUME CoreInv, RetypeEdges
    PROVE  job.phase = "retype" /\ Retypes(ws, Retyped, ws') /\ Phased(job, "end", job')
<1>1. IsStore(ws) /\ job \in Jobs
  BY DEF CoreInv, ScopeInv, StructureInv, JobOK
<1>2. PICK E : E = Retyped
  OBVIOUS
<1>3. UNION {TypedEntries(x.id, x.rec) : x \in {[id |-> i, rec |-> ws.rec[i]] : i \in Scanned}} = E
  <2> DEFINE B == {[id |-> i, rec |-> ws.rec[i]] : i \in Scanned}
  <2>1. \A x \in B : \E i \in Scanned : x.id = i /\ x.rec = ws.rec[i]
    OBVIOUS
  <2>2. \A i \in Scanned : \E x \in B : x.id = i /\ x.rec = ws.rec[i]
    <3> SUFFICES ASSUME NEW i \in Scanned PROVE \E x \in B : x.id = i /\ x.rec = ws.rec[i]
      OBVIOUS
    <3>1. PICK y : y = [id |-> i, rec |-> ws.rec[i]]
      OBVIOUS
    <3>2. y \in B /\ y.id = i /\ y.rec = ws.rec[i]
      BY <3>1
    <3> QED
      BY <3>2
  <2> HIDE DEF B
  <2>3. ASSUME NEW e PROVE (\E x \in B : e \in TypedEntries(x.id, x.rec)) <=> \E i \in Scanned : e \in TypedEntries(i, ws.rec[i])
    BY <2>1, <2>2
  <2>4. UNION {TypedEntries(x.id, x.rec) : x \in B} = UNION {TypedEntries(i, ws.rec[i]) : i \in Scanned}
    BY <2>3
  <2> QED
    BY <1>2, <2>4 DEF Retyped, B
<1>4. ws' = [Add(E) EXCEPT !.torn = @ \ {<<"edge", "typed">>}]
  BY <1>3 DEF RetypeEdges, Write
<1>5. PICK r, d, st, c, o : ws = [rec |-> r, der |-> d, stale |-> st, cfg |-> c, torn |-> o]
  BY <1>1 DEF IsStore
<1>6. ws.rec = r /\ ws.der = d /\ ws.stale = st /\ ws.cfg = c /\ ws.torn = o
  BY <1>5
<1>7. PICK n, o2 : n = d \cup E /\ o2 = o \ {<<"edge", "typed">>}
  OBVIOUS
<1>8. PICK g : g = Add(E)
  OBVIOUS
<1>9. g = [rec |-> r, der |-> n, stale |-> st, cfg |-> c, torn |-> o]
  BY <1>1, <1>6, <1>7, <1>8, DropAdd DEF St
<1>10. g.torn = o
  BY <1>9
<1>11. ws' = [g EXCEPT !.torn = o2]
  BY <1>4, <1>7, <1>8, <1>10
<1>12. ws' = [rec |-> r, der |-> n, stale |-> st, cfg |-> c, torn |-> o2]
  BY <1>9, <1>11
<1>13. ws'.rec = r /\ ws'.der = n /\ ws'.stale = st /\ ws'.cfg = c /\ ws'.torn = o2
  BY <1>12
<1>14. Retypes(ws, E, ws')
  BY <1>6, <1>7, <1>12, <1>13 DEF Retypes
<1>15. Phased(job, "end", job')
  <2>1. job' = [job EXCEPT !.phase = "end"]
    BY DEF RetypeEdges
  <2> QED
    BY <1>1, <2>1 DEF Jobs, Phases, Phased, SameJob
<1> QED
  BY <1>2, <1>14, <1>15 DEF RetypeEdges, Step

(* It keeps the structure.                                                  *)
LEMMA RetypeKept == ASSUME CoreInv, RetypeEdges PROVE Kept
<1>1. job.phase = "retype" /\ Phased(job, "end", job')
  BY RetypeEffect
<1>2. PICK E : E = Retyped
  OBVIOUS
<1>3. Retypes(ws, E, ws') /\ IsStore(ws)
  BY <1>2, RetypeEffect DEF CoreInv, ScopeInv
<1>4. ASSUME NEW e \in E PROVE Derived(ws, e)
  <2>1. PICK i \in Scanned : e \in TypedEntries(i, ws.rec[i])
    BY <1>2, <1>4 DEF Retyped
  <2>2. i \in Ids /\ ws.rec[i] # Absent
    BY <2>1 DEF Scanned, Present
  <2>3. e \in AllEntries(i, ws.rec[i])
    BY <2>1, WithinAll
  <2> QED
    BY <2>2, <2>3, OwnEntry DEF Derived, Describes
<1>5. Rewrites(ws, ws')
  BY <1>3, <1>4 DEF Retypes, Rewrites, IsStore
<1> QED
  BY <1>1, <1>5, PhaseKept DEF Rebuilding

(* Every step of an operation keeps the structure.                          *)
LEMMA StepKept == ASSUME CoreInv, WriteStep \/ RebuildStep PROVE Kept
BY UntypeStep, UnindexStep, UnlinkStep, RecordStep, AddStepKept, MarkStepKept, FlushKept, ClearKept, ConfigKept, RetypeKept
   DEF WriteStep, RebuildStep, AddStep, MarkStep, Flush, Clear

-----------------------------------------------------------------------------
(* Operations as they start.                                                *)

(* The jobs of writes.                                                      *)
LEMMA WriteJobShape ==
    ASSUME NEW q \in Seq(Chunks), NEW check \in BOOLEAN, NEW maintain \in BOOLEAN
    PROVE  LET w == WriteJob(q, check, maintain) IN
           /\ w \in Jobs /\ w.chunks = q /\ w.check = check /\ w.maintain = maintain
           /\ ~w.defer /\ ~w.create /\ w.props = {}
BY DEF WriteJob, NoJob, Jobs, Phases, Kinds

(* What every operation has when it starts.                                 *)
Launched(sc, j) ==
    /\ JobOK(dep, sc, ws, j) /\ FreshOK(dep, ws, j) /\ CleanOK(dep, ws, j) /\ DeletingOK(ws, j)
    /\ j.phase \in {"untype", "unindex", "record", "exact", "retype"}
    /\ j.create \/ j.props \subseteq Session.indexed[j.kind]

(* A write whose job fits together may start.                               *)
Startable(w) ==
    /\ w \in Jobs /\ w.chunks # <<>> /\ Uniform(w) /\ ~w.create /\ w.props = {}
    /\ ~w.check => Apart(w.chunks) /\ Unmet(dep, ws, w.chunks)
    /\ DeletingOK(ws, w)

(* It does.                                                                 *)
LEMMA LaunchWrite ==
    ASSUME CoreInv, NEW w, Startable(w), NEW sc
    PROVE  Launched(sc, ReplaceFrom(ws, w, 1))
<1>1. PICK j : j = ReplaceFrom(ws, w, 1)
  OBVIOUS
<1>2. PICK s : s = ws
  OBVIOUS
<1>3. Ready(dep, s, w, 1)
  <2>1. IsStore(s) /\ Described(dep, s)
    BY <1>2 DEF CoreInv, ScopeInv, StructureInv
  <2>2. \A m \in 1 .. (1 - 1) : FALSE
    OBVIOUS
  <2> QED
    BY <1>2, <2>1, <2>2 DEF Ready, Startable
<1>4. Turned(dep, sc, s, w, j)
  BY <1>1, <1>2, <1>3, AdvanceOK
<1>5. DeletingOK(ws, j)
  BY <1>4 DEF Turned, Startable, DeletingOK
<1>6. j.phase \in {"untype", "unindex", "record"}
  <2>1. w \in Jobs /\ w.chunks # <<>> /\ 1 \in Nat /\ 1 >= 1
    BY DEF Startable
  <2>2. Resumed(s.rec, w, 1, j)
    BY <1>1, <1>2, <2>1, ReplaceEffect
  <2> QED
    BY <2>2 DEF Resumed
<1> QED
  BY <1>1, <1>2, <1>4, <1>5, <1>6 DEF Turned, SameJob, Startable, Launched

(* Erasures are no batches.                                                 *)
LEMMA EraseNoBatch == ASSUME NEW n PROVE Erase(n) \notin Seq(Item)
<1> SUFFICES ASSUME Erase(n) \in Seq(Item) PROVE FALSE
  OBVIOUS
<1>1. Erase(n)[1] = [id |-> n, rec |-> Absent] /\ 1 \in DOMAIN Erase(n)
  BY Singleton DEF Erase
<1>2. [id |-> n, rec |-> Absent] \in Item
  BY <1>1
<1> QED
  BY <1>2, ConstantAssumptions DEF Item

(* The last chunk is one of the chunks.                                     *)
LEMMA LastListed ==
    ASSUME NEW q \in Seq(Chunks), q # <<>>
    PROVE  Last(q) \in Range(q) /\ (Tail(q) # <<>> => Last(Tail(q)) = Last(q))
<1>1. Last(q) = q[Len(q)] /\ Len(q) \in DOMAIN q
  BY DEF Last
<1>2. Last(q) \in Range(q)
  BY <1>1 DEF Range
<1> QED
  BY <1>2, ChunksSplit

(* A job of batches deletes no node.                                        *)
LEMMA FillingKeeps ==
    ASSUME NEW s, NEW w, w.chunks \in Seq(Chunks), Filling(w)
    PROVE  DeletingOK(s, w)
BY LastListed, EraseNoBatch DEF DeletingOK, Filling

(* What a caller's batch is.                                                *)
LEMMA BatchFacts ==
    ASSUME CoreInv, NEW k, NEW b \in BatchesOf(k)
    PROVE  /\ b \in Chunks /\ b \in Seq(Item) /\ IsBatch(b) /\ b # <<>>
           /\ \A i \in DOMAIN b : b[i] \in Item /\ b[i].id \in Ids /\ KindOf(b[i].id) = k
           /\ k = "node" => \A i \in DOMAIN b : b[i].id \in Nodes
<1>1. IsBatch(b) /\ KindOf(b[1].id) = k
  BY ConstantAssumptions DEF CoreInv, ScopeInv, IsDeployment, BatchesOf
<1>2. b \in Seq(Item) /\ b # <<>> /\ 1 \in DOMAIN b /\ \A i \in DOMAIN b : b[i] \in Item
  BY <1>1 DEF IsBatch
<1>3. \A i \in DOMAIN b : KindOf(b[i].id) = k
  BY <1>1, <1>2 DEF IsBatch
<1> QED
  BY <1>1, <1>2, <1>3 DEF Chunks, Item, KindOf

(* A batch written at once.                                                 *)
LEMMA WholeBatch ==
    ASSUME CoreInv, NEW k, NEW b \in BatchesOf(k)
    PROVE  <<b>> \in Seq(Chunks) /\ <<b>> # <<>> /\ Range(<<b>>) = {b}
BY BatchFacts, Singleton

(* A batch written record by record.                                        *)
LEMMA SinglyBatch ==
    ASSUME CoreInv, NEW k, NEW b \in BatchesOf(k)
    PROVE  /\ Singly(b) \in Seq(Chunks) /\ Singly(b) # <<>> /\ Apart(Singly(b))
           /\ \A c \in Range(Singly(b)) : /\ c \in Seq(Item) /\ IsBatch(c) /\ KindOf(c[1].id) = k
                                          /\ \A x \in Range(c) : \E i \in DOMAIN b : x = b[i]
<1>1. /\ b \in Seq(Item) /\ IsBatch(b) /\ b # <<>>
      /\ \A i \in DOMAIN b : b[i] \in Item /\ b[i].id \in Ids /\ KindOf(b[i].id) = k
  BY BatchFacts
<1>2. DOMAIN Singly(b) = DOMAIN b /\ \A i \in DOMAIN b : Singly(b)[i] = <<b[i]>>
  BY DEF Singly
<1>3. ASSUME NEW i \in DOMAIN b
      PROVE  /\ <<b[i]>> \in Seq(Item) /\ IsBatch(<<b[i]>>) /\ <<b[i]>>[1] = b[i] /\ Range(<<b[i]>>) = {b[i]}
             /\ <<b[i]>> \in Chunks
  <2>1. PICK x : x = b[i]
    OBVIOUS
  <2>2. x \in Item /\ (x.rec.ends = <<>> <=> x.id \in Nodes)
    BY <1>1, <1>3, <2>1 DEF IsBatch
  <2>3. <<x>> \in Seq(Item) /\ <<x>> # <<>>
    BY <2>2
  <2>4. DOMAIN <<x>> = {1} /\ <<x>>[1] = x /\ Range(<<x>>) = {x}
    BY Singleton
  <2>5. IsBatch(<<x>>)
    BY <2>2, <2>3, <2>4 DEF IsBatch
  <2> QED
    BY <2>1, <2>3, <2>4, <2>5 DEF Chunks
<1>4. Len(b) \in Nat /\ DOMAIN b = 1 .. Len(b) /\ 1 \in DOMAIN b
  BY <1>1
<1>5. Singly(b) \in Seq(Chunks)
  <2>1. Singly(b) \in [1 .. Len(b) -> Chunks]
    BY <1>2, <1>3, <1>4 DEF Singly
  <2> QED
    BY <1>4, <2>1
<1>6. Singly(b) # <<>>
  BY <1>2, <1>4
<1>7. Apart(Singly(b))
  <2> SUFFICES ASSUME NEW m \in DOMAIN b, NEW n \in DOMAIN b, NEW x \in Range(<<b[m]>>), NEW y \in Range(<<b[n]>>), x.id = y.id
               PROVE  m = n
    BY <1>2 DEF Apart
  <2>1. x = b[m] /\ y = b[n]
    BY <1>3
  <2> QED
    BY <1>1, <2>1 DEF IsBatch
<1>8. ASSUME NEW c \in Range(Singly(b))
      PROVE  c \in Seq(Item) /\ IsBatch(c) /\ KindOf(c[1].id) = k /\ \A x \in Range(c) : \E i \in DOMAIN b : x = b[i]
  <2>1. PICK i \in DOMAIN b : c = <<b[i]>>
    BY <1>2, <1>8 DEF Range
  <2> QED
    BY <1>1, <1>3, <2>1
<1> QED
  BY <1>5, <1>6, <1>7, <1>8

(* The scope an operation starts in.                                        *)
Started(j) ==
    /\ Idle /\ job' = j /\ ws' = ws /\ db' = db /\ handle' = handle /\ dep' = dep
    /\ \/ dep.transactional /\ scope = "none" /\ scope' = "implicit" /\ child' = Fork(handle)
       \/ ~(dep.transactional /\ scope = "none") /\ scope' = scope /\ child' = child

(* Start does this.                                                         *)
LEMMA StartEffect == ASSUME NEW j, Start(j) PROVE Started(j)
BY DEF Start, Started

(* Node puts.                                                               *)
LEMMA LaunchPutNodes == ASSUME CoreInv, PutNodes PROVE \E j : Started(j) /\ \A sc : Launched(sc, j)
<1>1. PICK b \in BatchesOf("node") : Start(ReplaceFrom(ws, WriteJob(<<b>>, TRUE, TRUE), 1))
  BY DEF PutNodes
<1>2. PICK q : q = <<b>>
  OBVIOUS
<1>3. q \in Seq(Chunks) /\ q # <<>> /\ Range(q) = {b} /\ b \in Seq(Item) /\ IsBatch(b)
  BY <1>2, WholeBatch, BatchFacts
<1>4. PICK w : w = WriteJob(q, TRUE, TRUE)
  OBVIOUS
<1>5. w \in Jobs /\ w.chunks = q /\ w.check /\ w.maintain /\ ~w.defer /\ ~w.create /\ w.props = {}
  BY <1>3, <1>4, WriteJobShape
<1>6. Filling(w)
  BY <1>3, <1>5 DEF Filling
<1>7. Startable(w)
  BY <1>3, <1>5, <1>6, FillingKeeps DEF Startable, Uniform
<1> QED
  BY <1>1, <1>2, <1>4, <1>7, LaunchWrite, StartEffect

(* Edge puts.                                                               *)
LEMMA LaunchPutEdges == ASSUME CoreInv, PutEdges PROVE \E j : Started(j) /\ \A sc : Launched(sc, j)
<1>1. PICK b \in BatchesOf("edge"), legacy \in BOOLEAN :
          Start(ReplaceFrom(ws, [WriteJob(<<b>>, TRUE, TRUE) EXCEPT !.legacy = legacy, !.counted = TRUE], 1))
  BY DEF PutEdges
<1>2. PICK q : q = <<b>>
  OBVIOUS
<1>3. q \in Seq(Chunks) /\ q # <<>> /\ Range(q) = {b} /\ b \in Seq(Item) /\ IsBatch(b)
  BY <1>2, WholeBatch, BatchFacts
<1>4. PICK u : u = WriteJob(q, TRUE, TRUE)
  OBVIOUS
<1>5. u \in Jobs /\ u.chunks = q /\ u.check /\ u.maintain /\ ~u.defer /\ ~u.create /\ u.props = {}
  BY <1>3, <1>4, WriteJobShape
<1>6. PICK w : w = [u EXCEPT !.legacy = legacy, !.counted = TRUE]
  OBVIOUS
<1>7. w \in Jobs /\ w.chunks = q /\ w.check /\ w.maintain /\ ~w.defer /\ ~w.create /\ w.props = {}
  BY <1>5, <1>6 DEF Jobs
<1>8. Filling(w)
  BY <1>3, <1>7 DEF Filling
<1>9. Startable(w)
  BY <1>3, <1>7, <1>8, FillingKeeps DEF Startable, Uniform
<1>10. Start(ReplaceFrom(ws, w, 1))
  BY <1>1, <1>2, <1>4, <1>6
<1> QED
  BY <1>9, <1>10, LaunchWrite, StartEffect

(* A load record by record.                                                 *)
LEMMA LoadStartable ==
    ASSUME CoreInv, NEW k, NEW b \in BatchesOf(k), NEW w \in Jobs, w.chunks = Singly(b), w.defer <=> ~w.maintain,
           w.defer => ~w.check, ~w.create, w.props = {},
           ~w.check => \A i \in DOMAIN b : ws.rec[b[i].id] = Absent \/ (dep.overwrite /\ b[i].id \in Nodes)
    PROVE  Startable(w)
<1>1. /\ w.chunks \in Seq(Chunks) /\ w.chunks # <<>> /\ Apart(w.chunks)
      /\ \A c \in Range(w.chunks) : /\ c \in Seq(Item) /\ IsBatch(c) /\ KindOf(c[1].id) = k
                                    /\ \A x \in Range(c) : \E i \in DOMAIN b : x = b[i]
  BY SinglyBatch
<1>2. Filling(w)
  BY <1>1 DEF Filling
<1>3. Uniform(w)
  BY <1>1, <1>2 DEF Uniform
<1>4. ~w.check => Unmet(dep, ws, w.chunks)
  BY <1>1 DEF Unmet
<1> QED
  BY <1>1, <1>2, <1>3, <1>4, FillingKeeps DEF Startable

(* Node loads.                                                              *)
LEMMA LaunchIngestNodes == ASSUME CoreInv, IngestNodes PROVE \E j : Started(j) /\ \A sc : Launched(sc, j)
<1>1. PICK b \in BatchesOf("node"), maintain \in BOOLEAN :
          /\ maintain \/ Fresh(b) \/ dep.overwrite
          /\ Start(ReplaceFrom(ws, [WriteJob(Singly(b), maintain, maintain) EXCEPT !.defer = ~maintain], 1))
  BY DEF IngestNodes
<1>2. PICK q : q = Singly(b)
  OBVIOUS
<1>3. q \in Seq(Chunks)
  BY <1>2, SinglyBatch
<1>4. PICK u : u = WriteJob(q, maintain, maintain)
  OBVIOUS
<1>5. u \in Jobs /\ u.chunks = q /\ u.check = maintain /\ u.maintain = maintain /\ ~u.create /\ u.props = {}
  BY <1>3, <1>4, WriteJobShape
<1>6. PICK w : w = [u EXCEPT !.defer = ~maintain]
  OBVIOUS
<1>7. w \in Jobs /\ w.chunks = q /\ w.check = maintain /\ w.maintain = maintain /\ w.defer = ~maintain /\ ~w.create /\ w.props = {}
  BY <1>5, <1>6 DEF Jobs
<1>8. \A i \in DOMAIN b : b[i].id \in Nodes
  BY BatchFacts
<1>9. ~w.check => \A i \in DOMAIN b : ws.rec[b[i].id] = Absent \/ (dep.overwrite /\ b[i].id \in Nodes)
  BY <1>1, <1>7, <1>8 DEF Fresh
<1>10. Startable(w)
  BY <1>2, <1>7, <1>9, LoadStartable
<1>11. Start(ReplaceFrom(ws, w, 1))
  BY <1>1, <1>2, <1>4, <1>6
<1> QED
  BY <1>10, <1>11, LaunchWrite, StartEffect

(* Edge loads.                                                              *)
LEMMA LaunchIngestEdges == ASSUME CoreInv, IngestEdges PROVE \E j : Started(j) /\ \A sc : Launched(sc, j)
<1>1. PICK b \in BatchesOf("edge"), maintain \in BOOLEAN, counted \in BOOLEAN :
          /\ Fresh(b)
          /\ Start(ReplaceFrom(ws, [WriteJob(Singly(b), FALSE, maintain) EXCEPT !.defer = ~maintain, !.counted = counted], 1))
  BY DEF IngestEdges
<1>2. PICK q : q = Singly(b)
  OBVIOUS
<1>3. q \in Seq(Chunks)
  BY <1>2, SinglyBatch
<1>4. PICK u : u = WriteJob(q, FALSE, maintain)
  OBVIOUS
<1>5. u \in Jobs /\ u.chunks = q /\ ~u.check /\ u.maintain = maintain /\ ~u.create /\ u.props = {}
  BY <1>3, <1>4, WriteJobShape
<1>6. PICK w : w = [u EXCEPT !.defer = ~maintain, !.counted = counted]
  OBVIOUS
<1>7. w \in Jobs /\ w.chunks = q /\ ~w.check /\ w.maintain = maintain /\ w.defer = ~maintain /\ ~w.create /\ w.props = {}
  BY <1>5, <1>6 DEF Jobs
<1>8. ~w.check => \A i \in DOMAIN b : ws.rec[b[i].id] = Absent \/ (dep.overwrite /\ b[i].id \in Nodes)
  BY <1>1 DEF Fresh
<1>9. Startable(w)
  BY <1>2, <1>7, <1>8, LoadStartable
<1>10. Start(ReplaceFrom(ws, w, 1))
  BY <1>1, <1>2, <1>4, <1>6
<1> QED
  BY <1>9, <1>10, LaunchWrite, StartEffect

(* Erasing jobs.                                                            *)
LEMMA EraseStartable ==
    ASSUME CoreInv, NEW q \in Seq(Chunks), q # <<>>, \A c \in Range(q) : \E i \in Ids : c = Erase(i),
           NEW w, w = WriteJob(q, TRUE, FALSE),
           \A n \in Nodes : Last(q) = Erase(n) => \A e \in Incident(ws, n) : Erase(e) \in Range(q)
    PROVE  Startable(w)
<1>1. w \in Jobs /\ w.chunks = q /\ w.check /\ ~w.maintain /\ ~w.defer /\ ~w.create /\ w.props = {}
  BY WriteJobShape
<1>2. w.phase = "idle"
  BY DEF WriteJob, NoJob
<1>3. Uniform(w)
  BY <1>1 DEF Uniform, Erasing
<1> QED
  BY <1>1, <1>2, <1>3 DEF Startable, DeletingOK

(* An erasure is of one id.                                                 *)
LEMMA EraseOne ==
    ASSUME NEW i, NEW j
    PROVE  Erase(i) = Erase(j) => i = j
<1>1. Erase(i)[1] = [id |-> i, rec |-> Absent] /\ Erase(j)[1] = [id |-> j, rec |-> Absent]
  BY Singleton DEF Erase
<1> QED
  BY <1>1

(* Edge deletion.                                                           *)
LEMMA LaunchDeleteEdge == ASSUME CoreInv, DeleteEdge PROVE \E j : Started(j) /\ \A sc : Launched(sc, j)
<1>1. PICK e \in Edges : Start(ReplaceFrom(ws, WriteJob(<<Erase(e)>>, TRUE, FALSE), 1))
  BY DEF DeleteEdge
<1>2. PICK q : q = <<Erase(e)>>
  OBVIOUS
<1>3. Erase(e) \in Chunks /\ e \in Ids
  BY DEF Chunks, Ids
<1>4. q \in Seq(Chunks) /\ q # <<>> /\ Range(q) = {Erase(e)}
  BY <1>2, <1>3, Singleton
<1>5. Last(q) = Erase(e)
  BY <1>2, Singleton DEF Last
<1>6. \A n \in Nodes : Last(q) # Erase(n)
  BY <1>5, EraseOne, ConstantAssumptions
<1>7. PICK w : w = WriteJob(q, TRUE, FALSE)
  OBVIOUS
<1>8. Startable(w)
  BY <1>3, <1>4, <1>6, <1>7, EraseStartable
<1> QED
  BY <1>1, <1>2, <1>7, <1>8, LaunchWrite, StartEffect

(* The elements of a finite set, in some order.                             *)
LEMMA Listed ==
    ASSUME NEW S, IsFiniteSet(S)
    PROVE  SetToSeq(S) \in Seq(S) /\ Range(SetToSeq(S)) = S
<1>1. PICK n : n = Cardinality(S)
  OBVIOUS
<1>2. n \in Nat /\ \E f \in [1 .. n -> S] : IsInjective(f)
  BY <1>1, FS_CardinalityType DEF ExistsBijection, Bijection, Injection
<1>3. PICK f : f = SetToSeq(S)
  OBVIOUS
<1>4. f \in [1 .. n -> S] /\ IsInjective(f)
  BY <1>1, <1>2, <1>3 DEF SetToSeq
<1>5. f \in Injection(1 .. n, S)
  BY <1>4 DEF Injection
<1>6. Cardinality(1 .. n) = n
  <2>1. 1 \in Int /\ n \in Int /\ (IF 1 > n THEN 0 ELSE n - 1 + 1) = n
    BY <1>2
  <2> QED
    BY <2>1, FS_Interval
<1>7. f \in Surjection(1 .. n, S)
  BY <1>1, <1>5, <1>6, FS_Injection
<1> QED
  BY <1>2, <1>3, <1>4, <1>7 DEF Surjection, Range

(* The erasures of a node and of its incident edges.                        *)
LEMMA ErasureFacts ==
    ASSUME NEW n \in Nodes
    PROVE  LET q == Erasures(n) IN
           /\ q \in Seq(Chunks) /\ q # <<>> /\ Last(q) = Erase(n)
           /\ \A c \in Range(q) : \E i \in Ids : c = Erase(i)
           /\ \A e \in Incident(ws, n) : Erase(e) \in Range(q)
<1> DEFINE S == Incident(ws, n)
<1>1. IsFiniteSet(S) /\ S \subseteq Ids
  <2>1. S \in SUBSET Edges
    BY DEF Incident
  <2> QED
    BY <2>1, ConstantAssumptions, FS_Subset DEF Ids
<1>2. PICK es : es = SetToSeq(S)
  OBVIOUS
<1>3. es \in Seq(S) /\ Range(es) = S
  BY <1>1, <1>2, Listed
<1>4. Len(es) \in Nat /\ DOMAIN es = 1 .. Len(es) /\ \A i \in DOMAIN es : es[i] \in S
  BY <1>3
<1>5. PICK t : t = [i \in DOMAIN es |-> Erase(es[i])]
  OBVIOUS
<1>6. Erasures(n) = Append(t, Erase(n))
  BY <1>2, <1>5 DEF Erasures
<1>7. \A i \in Ids : Erase(i) \in Chunks
  BY DEF Chunks
<1>8. t \in Seq(Chunks) /\ DOMAIN t = DOMAIN es /\ Len(t) = Len(es) /\ \A i \in DOMAIN es : t[i] = Erase(es[i])
  <2>1. t \in [1 .. Len(es) -> Chunks]
    BY <1>1, <1>4, <1>5, <1>7
  <2> QED
    BY <1>4, <1>5, <2>1
<1>9. PICK q : q = Append(t, Erase(n))
  OBVIOUS
<1>10. PICK m : m = Len(es)
  OBVIOUS
<1>11. n \in Ids /\ Erase(n) \in Chunks /\ m \in Nat
  BY <1>4, <1>7, <1>10 DEF Ids
<1>12. q \in Seq(Chunks) /\ Len(q) = m + 1 /\ q[m + 1] = Erase(n) /\ \A i \in 1 .. m : q[i] = t[i]
  BY <1>8, <1>9, <1>10, <1>11
<1>13. DOMAIN q = 1 .. (m + 1) /\ DOMAIN es = 1 .. m
  BY <1>4, <1>10, <1>12
<1>14. Last(q) = Erase(n) /\ q # <<>>
  BY <1>11, <1>12, <1>13 DEF Last
<1>15. ASSUME NEW c \in Range(q) PROVE \E i \in Ids : c = Erase(i)
  <2>1. PICK k \in DOMAIN q : c = q[k]
    BY <1>15 DEF Range
  <2>2. k = m + 1 \/ k \in 1 .. m
    BY <1>11, <1>13, <2>1
  <2>3. k \in 1 .. m => c = Erase(es[k]) /\ es[k] \in Ids
    BY <1>1, <1>4, <1>8, <1>12, <1>13, <2>1
  <2> QED
    BY <1>11, <1>12, <2>1, <2>2, <2>3
<1>16. ASSUME NEW e \in S PROVE Erase(e) \in Range(q)
  <2>1. PICK k \in DOMAIN es : e = es[k]
    BY <1>3 DEF Range
  <2>2. k \in 1 .. m /\ k \in DOMAIN q
    BY <1>11, <1>13, <2>1
  <2>3. q[k] = Erase(e)
    BY <1>8, <1>12, <2>1, <2>2
  <2> QED
    BY <2>2, <2>3 DEF Range
<1> QED
  BY <1>6, <1>9, <1>12, <1>14, <1>15, <1>16

(* Node deletion.                                                           *)
LEMMA LaunchDeleteNode == ASSUME CoreInv, DeleteNode PROVE \E j : Started(j) /\ \A sc : Launched(sc, j)
<1>1. PICK n \in Nodes : Start(ReplaceFrom(ws, WriteJob(Erasures(n), TRUE, FALSE), 1))
  BY DEF DeleteNode
<1>2. PICK q : q = Erasures(n)
  OBVIOUS
<1>3. /\ q \in Seq(Chunks) /\ q # <<>> /\ Last(q) = Erase(n) /\ \A c \in Range(q) : \E i \in Ids : c = Erase(i)
      /\ \A e \in Incident(ws, n) : Erase(e) \in Range(q)
  BY <1>2, ErasureFacts
<1>4. \A k \in Nodes : Last(q) = Erase(k) => \A e \in Incident(ws, k) : Erase(e) \in Range(q)
  BY <1>3, EraseOne
<1>5. PICK w : w = WriteJob(q, TRUE, FALSE)
  OBVIOUS
<1>6. Startable(w)
  BY <1>3, <1>4, <1>5, EraseStartable
<1> QED
  BY <1>1, <1>2, <1>5, <1>6, LaunchWrite, StartEffect

(* Rebuilds and index creation.                                             *)
LEMMA LaunchRebuild ==
    ASSUME CoreInv, NEW j \in Jobs, j.chunks = <<>>, j.phase \in {"exact", "retype"}, ~j.defer,
           j.phase = "retype" => ~j.create /\ j.kind = "edge",
           j.create \/ j.props \subseteq Session.indexed[j.kind], NEW sc, j.create /\ ~dep.nested => sc # "caller"
    PROVE  Launched(sc, j)
<1>1. JobOK(dep, sc, ws, j)
  BY DEF JobOK, Uniform, Writing, Marking, Clearing, Adding
<1>2. FreshOK(dep, ws, j) /\ CleanOK(dep, ws, j) /\ DeletingOK(ws, j)
  BY DEF FreshOK, CleanOK, DeletingOK, Writing, Clearing, Adding
<1> QED
  BY <1>1, <1>2 DEF Launched

(* Their jobs.                                                              *)
LEMMA RebuildJobShape ==
    ASSUME NEW k \in Kinds, NEW labels \in BOOLEAN, NEW P \in SUBSET Props, NEW r, r = RebuildJob(k, labels, P)
    PROVE  r \in Jobs /\ r.chunks = <<>> /\ r.phase = "exact" /\ r.kind = k /\ r.props = P /\ ~r.defer /\ ~r.create
<1>1. <<>> \in Seq(Chunks)
  OBVIOUS
<1> QED
  BY <1>1 DEF RebuildJob, NoJob, Jobs, Phases, Rebuilding, Kinds

(* Every operation starts with a job that fits together.                    *)
LEMMA OperationLaunched == ASSUME CoreInv, Operation PROVE \E j : Started(j) /\ Launched(scope', j)
<1>1. Used \subseteq Kinds /\ \A k \in Kinds : Session.indexed[k] \subseteq Props
  BY IndexedProps DEF Used, KindOf, Kinds
<1>2. CASE RebuildIndexes
  <2>0. PICK k \in Used, labels \in BOOLEAN : \E P \in SUBSET Session.indexed[k] : Start(RebuildJob(k, labels, P))
    BY <1>2 DEF RebuildIndexes
  <2>1. PICK P \in SUBSET Session.indexed[k] : Start(RebuildJob(k, labels, P))
    BY <2>0
  <2>2. PICK j : j = RebuildJob(k, labels, P)
    OBVIOUS
  <2>3. k \in Kinds /\ P \in SUBSET Props
    BY <1>1
  <2>5. j \in Jobs /\ j.chunks = <<>> /\ j.phase = "exact" /\ j.kind = k /\ j.props = P /\ ~j.create /\ ~j.defer
    BY <2>2, <2>3, RebuildJobShape
  <2>6. \A sc : Launched(sc, j)
    BY <2>5, LaunchRebuild
  <2> QED
    BY <2>1, <2>2, <2>6, StartEffect
<1>3. CASE CreatePropertyIndex
  <2>1. PICK k \in Used, p \in dep.names :
            (scope = "caller" => dep.nested) /\ Start([RebuildJob(k, FALSE, {p}) EXCEPT !.create = TRUE])
    BY <1>3 DEF CreatePropertyIndex
  <2>2. PICK j : j = [RebuildJob(k, FALSE, {p}) EXCEPT !.create = TRUE]
    OBVIOUS
  <2>3. k \in Kinds /\ {p} \in SUBSET Props
    BY <1>1, ConstantAssumptions DEF CoreInv, ScopeInv, IsDeployment
  <2>4. j \in Jobs /\ j.chunks = <<>> /\ j.phase = "exact" /\ j.create /\ ~j.defer
    <3>1. PICK P, r, l : P = {p} /\ l = FALSE /\ r = RebuildJob(k, l, P)
      OBVIOUS
    <3>4. P \in SUBSET Props /\ l \in BOOLEAN /\ k \in Kinds
      BY <2>3, <3>1
    <3>2. r \in Jobs /\ r.chunks = <<>> /\ r.phase = "exact" /\ ~r.defer
      <4> HIDE <2>1, <2>2
      <4>1. r = RebuildJob(k, l, P)
        BY <3>1
      <4> QED
        BY <3>4, <4>1, RebuildJobShape
    <3>3. j = [r EXCEPT !.create = TRUE]
      BY <2>2, <3>1
    <3> QED
      BY <3>2, <3>3 DEF Jobs
  <2>5. Started(j)
    BY <2>1, <2>2, StartEffect
  <2>6. ~dep.nested => scope' # "caller"
    BY <2>1, <2>5 DEF Started
  <2>7. Launched(scope', j)
    BY <2>4, <2>6, LaunchRebuild
  <2> QED
    BY <2>5, <2>7
<1>4. CASE RebuildTypedAdjacency
  <2>1. PICK j : j = [NoJob EXCEPT !.phase = "retype", !.kind = "edge"] /\ Start(j)
    BY <1>4 DEF RebuildTypedAdjacency
  <2>2. <<>> \in Seq(Chunks)
    OBVIOUS
  <2>3. j \in Jobs /\ j.chunks = <<>> /\ j.phase = "retype" /\ ~j.create /\ ~j.defer /\ j.props = {} /\ j.kind = "edge"
    BY <2>1, <2>2 DEF NoJob, Jobs, Phases, Rebuilding, Kinds
  <2>4. \A sc : Launched(sc, j)
    BY <2>3, LaunchRebuild
  <2> QED
    BY <2>1, <2>4, StartEffect
<1> QED
  BY <1>2, <1>3, <1>4, LaunchPutNodes, LaunchPutEdges, LaunchDeleteNode, LaunchDeleteEdge, LaunchIngestNodes,
     LaunchIngestEdges DEF Operation

-----------------------------------------------------------------------------
(* The invariant is inductive.                                              *)

(* No job in flight.                                                        *)
LEMMA NoJobOK ==
    ASSUME NEW d, NEW sc, NEW s
    PROVE  /\ JobOK(d, sc, s, NoJob) /\ FreshOK(d, s, NoJob) /\ CleanOK(d, s, NoJob) /\ DeletingOK(s, NoJob)
           /\ NoJob.phase = "idle" /\ ~NoJob.create /\ NoJob.props = {}
<1>1. NoJob \in Jobs
  <2>1. <<>> \in Seq(Chunks)
    OBVIOUS
  <2> QED
    BY <2>1 DEF NoJob, Jobs, Phases, Kinds
<1>2. NoJob.phase = "idle" /\ ~NoJob.create /\ NoJob.props = {} /\ NoJob.chunks = <<>> /\ ~NoJob.defer
  BY DEF NoJob
<1>3. JobOK(d, sc, s, NoJob)
  BY <1>1, <1>2 DEF JobOK, Uniform, Writing, Marking, Rebuilding, Clearing, Adding
<1>4. FreshOK(d, s, NoJob) /\ CleanOK(d, s, NoJob) /\ DeletingOK(s, NoJob)
  BY <1>2 DEF FreshOK, CleanOK, DeletingOK, Writing, Clearing, Adding
<1> QED
  BY <1>2, <1>3, <1>4

(* A session's copy, and a new handle's session.                            *)
LEMMA SessionShapes ==
    /\ \A v : IsSession(v) => IsSession(Fork(v)) /\ Fork(v).indexed = v.indexed /\ Fork(v).counts = NoCounts
    /\ \A s : IsStore(s) => IsSession(Opened(s)) /\ Opened(s).indexed = s.cfg /\ Opened(s).counts = NoCounts
    /\ \A v : IsSession(v) =>
          /\ IsSession(AfterCommit(v)) /\ AfterCommit(v).indexed = v.indexed /\ AfterCommit(v).counts = NoCounts
    /\ IsSession(NoSession)
<1>1. ASSUME NEW v, IsSession(v) PROVE IsSession(Fork(v)) /\ Fork(v).indexed = v.indexed /\ Fork(v).counts = NoCounts
  BY <1>1, CountShapes DEF IsSession, Fork
<1>2. ASSUME NEW s, IsStore(s) PROVE IsSession(Opened(s)) /\ Opened(s).indexed = s.cfg /\ Opened(s).counts = NoCounts
  BY <1>2, CountShapes DEF IsSession, IsStore, Opened
<1>3. ASSUME NEW v, IsSession(v)
      PROVE  IsSession(AfterCommit(v)) /\ AfterCommit(v).indexed = v.indexed /\ AfterCommit(v).counts = NoCounts
  <2>1. PICK f : f = NoCounts
    OBVIOUS
  <2>2. PICK u : u = [v EXCEPT !.counts = f]
    OBVIOUS
  <2>3. IsSession(u) /\ u.indexed = v.indexed /\ u.counts = f
    BY <1>3, <2>1, <2>2, Recounted, CountShapes
  <2> QED
    BY <2>1, <2>2, <2>3 DEF AfterCommit
<1> QED
  BY <1>1, <1>2, <1>3, CountShapes

(* Publishing a created index.                                              *)
LEMMA PublishedShape ==
    ASSUME CoreInv, NEW v, IsSession(v)
    PROVE  /\ IsSession(Published(v)) /\ Published(v).counts = v.counts
           /\ Published(v).indexed = Widened(v.indexed)
<1>1. PICK n, c : v = [indexed |-> n, counts |-> c] /\ n \in [Kinds -> SUBSET Props] /\ c = [k \in CountKeys |-> c[k]]
  BY DEF IsSession
<1>2. v.indexed = n /\ v.counts = c
  BY <1>1
<1>3. job.kind \in Kinds /\ job.props \subseteq Props
  BY DEF CoreInv, StructureInv, JobOK, Jobs
<1>4. PICK w : w = [n EXCEPT ![job.kind] = n[job.kind] \cup IF job.create THEN job.props ELSE {}]
  OBVIOUS
<1>5. w \in [Kinds -> SUBSET Props]
  <2>1. PICK P : P = n[job.kind] \cup IF job.create THEN job.props ELSE {}
    OBVIOUS
  <2>2. P \subseteq Props
    BY <1>1, <1>3, <2>1
  <2> QED
    BY <1>1, <1>3, <1>4, <2>1, <2>2
<1>6. Published(v) = [v EXCEPT !.indexed = w]
  BY <1>2, <1>4 DEF Published
<1>7. Published(v) = [indexed |-> w, counts |-> c]
  BY <1>1, <1>6
<1>8. Published(v).indexed = w /\ Published(v).counts = c
  BY <1>7
<1>9. w = Widened(n)
  <2>1. CASE job.create
    BY <1>4, <2>1 DEF Widened
  <2>2. CASE ~job.create
    <3>1. w = [n EXCEPT ![job.kind] = n[job.kind]]
      BY <1>4, <2>2
    <3> QED
      BY <1>1, <2>2, <3>1 DEF Widened
  <2> QED
    BY <2>1, <2>2
<1> QED
  BY <1>1, <1>2, <1>5, <1>7, <1>8, <1>9 DEF IsSession

(* The widened configuration, kind by kind.                                 *)
LEMMA WidenedAt ==
    ASSUME CoreInv, NEW c \in [Kinds -> SUBSET Props]
    PROVE  /\ Widened(c) \in [Kinds -> SUBSET Props]
           /\ \A k \in Kinds : Widened(c)[k] = IF job.create /\ k = job.kind THEN c[k] \cup job.props ELSE c[k]
           /\ ~job.create => Widened(c) = c
<1>1. job.kind \in Kinds /\ job.props \subseteq Props
  BY DEF CoreInv, StructureInv, JobOK, Jobs
<1>2. CASE job.create
  <2>1. PICK P : P = c[job.kind] \cup job.props
    OBVIOUS
  <2>2. P \subseteq Props
    BY <1>1, <2>1
  <2>3. Widened(c) = [c EXCEPT ![job.kind] = P]
    BY <1>2, <2>1 DEF Widened
  <2> QED
    BY <1>1, <1>2, <2>1, <2>2, <2>3
<1> QED
  BY <1>2 DEF Widened

(* What a step does to the configuration.                                   *)
LEMMA StepConfig ==
    ASSUME CoreInv, WriteStep \/ RebuildStep
    PROVE  /\ job.phase \notin {"idle", "end"}
           /\ IF PersistConfig THEN ws'.cfg = [ws.cfg EXCEPT ![job.kind] = Staged] /\ job'.phase = "end"
              ELSE ws'.cfg = ws.cfg /\ (job'.phase = "end" => ~job.create)
<1>1. job.phase \notin {"idle", "end"}
  BY DEF WriteStep, RebuildStep, Step, DeleteTypedAdjacency, DeleteIndexes, RemoveFromAdjacencies,
     PutRecords, PutTypedAdjacency, PutIndexEntries, PutRangeEntries, PutAdjacencyLists, MarkLabels, MarkProperties,
     FlushExact, FlushRanges, ClearLabels, ClearProperties, PersistConfig, RetypeEdges
<1>2. CASE PersistConfig
  BY <1>1, <1>2, ConfigEffect DEF Reconfigured, Phased
<1>3. ASSUME ~PersistConfig PROVE ws'.cfg = ws.cfg /\ (job'.phase = "end" => ~job.create)
  <2>0. IsStore(ws)
    BY DEF CoreInv, ScopeInv
  <2>1. CASE WriteStep
    <3>1. job.phase \in Writing \cup Marking
      BY <2>1 DEF WriteStep, Step, DeleteTypedAdjacency, DeleteIndexes, RemoveFromAdjacencies, PutRecords, PutTypedAdjacency,
         PutIndexEntries, PutRangeEntries, PutAdjacencyLists, MarkLabels, MarkProperties, Writing, Marking, Clearing, Adding
    <3>2. ~job.create
      BY <3>1 DEF CoreInv, StructureInv, JobOK
    <3>3. CASE DeleteTypedAdjacency \/ DeleteIndexes \/ RemoveFromAdjacencies
      <4>1. PICK E : ws' = Drop(E)
        BY <3>3 DEF DeleteTypedAdjacency, DeleteIndexes, RemoveFromAdjacencies, Write
      <4> QED
        BY <2>0, <3>2, <4>1, DropAdd DEF St
    <3>4. CASE PutRecords
      BY <3>2, <3>4, RecordEffect DEF Overwrites
    <3>5. CASE AddStep
      BY <2>0, <3>2, <3>5, AddEffect, Grown
    <3>6. CASE MarkStep
      BY <3>2, <3>6, MarkStepEffect DEF Remarks
    <3> QED
      BY <2>1, <3>3, <3>4, <3>5, <3>6 DEF WriteStep, AddStep, MarkStep
  <2>2. CASE Flush
    <3>1. ws'.cfg = ws.cfg
      BY <2>0, <2>2, FlushEffect, Grown
    <3> QED
      BY <2>2, <3>1, FlushEffect DEF Phased, AfterLabels
  <2>3. CASE Clear
    BY <2>3, ClearEffect DEF Remarks, Phased, AfterLabels
  <2>4. CASE RetypeEdges
    BY <2>4, RetypeEffect DEF Retypes, CoreInv, StructureInv, JobOK
  <2> QED
    BY <1>3, <2>1, <2>2, <2>3, <2>4 DEF RebuildStep, Flush, Clear
<1> QED
  BY <1>1, <1>2, <1>3

(* What a step leaves of the entries and of the marks of half-done indexes. *)
Inherits ==
    /\ \A k : <<k, "created">> \in ws.torn => <<k, "created">> \in ws'.torn
    /\ \A e \in ws'.der : \/ e \in ws.der \/ e.fam \notin Families
                          \/ Plain(dep) => EntryProp(e) \in Widened(ws.cfg)[KindOf(e.id)]

(* Property entries are only ever added for the configuration.              *)
LEMMA StepInherits == ASSUME CoreInv, WriteStep \/ RebuildStep PROVE Inherits
<1>0. IsStore(ws) /\ ws.cfg \in [Kinds -> SUBSET Props]
  BY DEF CoreInv, ScopeInv, IsStore
<1>1. CASE DeleteTypedAdjacency \/ DeleteIndexes \/ RemoveFromAdjacencies
  <2>1. PICK E : ws' = Drop(E)
    BY <1>1 DEF DeleteTypedAdjacency, DeleteIndexes, RemoveFromAdjacencies, Write
  <2>2. ws'.der = ws.der \ E /\ ws'.torn = ws.torn
    BY <1>0, <2>1, DropAdd DEF St
  <2> QED
    BY <2>2 DEF Inherits
<1>2. CASE PutRecords
  BY <1>2, RecordEffect DEF Overwrites, Inherits
<1>3. CASE AddStep
  <2>1. job.phase \in Adding /\ job.phase \in Writing /\ ws'.der = ws.der \cup Added /\ ws'.torn = ws.torn
    <3>1. PICK E : E = Added
      OBVIOUS
    <3>2. Gains(ws, E, ws') /\ job.phase \in Adding
      BY <1>3, <3>1, AddEffect
    <3>3. ws'.der = ws.der \cup E /\ ws'.torn = ws.torn
      BY <1>0, <3>2, Grown
    <3> QED
      BY <3>1, <3>2, <3>3 DEF Writing
  <2>2. ASSUME Plain(dep), NEW e \in Added, e.fam \in Families PROVE EntryProp(e) \in Widened(ws.cfg)[KindOf(e.id)]
    <3>1. Widened(ws.cfg) = Session.indexed
      BY <2>1, <2>2, WriterFacts DEF Widened
    <3>2. \E x \in Items : e \in ValueEntries(x.id, x.rec, Indexed(x.id))
      <4>1. CASE job.phase = "typed"
        <5>1. PICK x \in Items : e \in TypedEntries(x.id, x.rec)
          BY <2>2, <4>1 DEF Added
        <5>2. e.fam = "typed"
          BY <5>1, EntryShapes
        <5> QED
          BY <2>2, <5>2 DEF Families, PropertyFamilies, CompositeFamilies
      <4>2. CASE job.phase = "index"
        <5>1. PICK x \in Items : e \in LabelEntries(x.id, x.rec) \cup PropertyEntries(x.id, x.rec, Indexed(x.id))
          BY <2>2, <4>2 DEF Added
        <5>2. e \notin LabelEntries(x.id, x.rec)
          BY <2>2, EntryShapes DEF Families, PropertyFamilies, CompositeFamilies
        <5> QED
          BY <5>1, <5>2 DEF ValueEntries
      <4>3. CASE job.phase = "range"
        BY <2>2, <4>3 DEF Added, ValueEntries
      <4>4. CASE job.phase = "legacy"
        <5>1. PICK x \in Items : e \in LegacyEntries(x.id, x.rec)
          BY <2>2, <4>4 DEF Added
        <5>2. e.fam = "legacy"
          BY <5>1, EntryShapes
        <5> QED
          BY <2>2, <5>2 DEF Families, PropertyFamilies, CompositeFamilies
      <4> QED
        BY <2>1, <4>1, <4>2, <4>3, <4>4 DEF Adding
    <3>3. PICK x \in Items : e \in ValueEntries(x.id, x.rec, Indexed(x.id))
      BY <3>2
    <3>4. e.id = x.id /\ EntryProp(e) \in Indexed(x.id)
      BY <3>3, ValueShapes
    <3> QED
      BY <3>1, <3>4 DEF Indexed
  <2> QED
    BY <2>1, <2>2 DEF Inherits
<1>4. CASE MarkStep
  BY <1>4, MarkStepEffect DEF Remarks, Inherits
<1>5. CASE Flush
  <2>1. ws'.der = ws.der \cup Flushed /\ ws'.torn = ws.torn
    <3>1. PICK E : E = Flushed
      OBVIOUS
    <3>2. Gains(ws, E, ws')
      BY <1>5, <3>1, FlushEffect
    <3>3. ws'.der = ws.der \cup E /\ ws'.torn = ws.torn
      BY <1>0, <3>2, Grown
    <3> QED
      BY <3>1, <3>3
  <2>2. ASSUME Plain(dep), NEW e \in Flushed, e.fam \in Families PROVE EntryProp(e) \in Widened(ws.cfg)[KindOf(e.id)]
    <3>1. PICK i \in Scanned : \/ e \in LabelEntries(i, ws.rec[i]) \/ e \in PropertyEntries(i, ws.rec[i], job.props)
                               \/ e \in RangeEntries(i, ws.rec[i], job.props)
      BY <2>2 DEF Flushed
    <3>2. e \notin LabelEntries(i, ws.rec[i])
      BY <2>2, EntryShapes DEF Families, PropertyFamilies, CompositeFamilies
    <3>3. e \in ValueEntries(i, ws.rec[i], job.props)
      BY <3>1, <3>2 DEF ValueEntries
    <3>4. e.id = i /\ EntryProp(e) \in job.props
      BY <3>3, ValueShapes
    <3>5. KindOf(i) = job.kind
      <4>1. i \in OfKind(job.kind) /\ job.kind \in Kinds
        BY DEF Scanned, CoreInv, StructureInv, JobOK, Jobs
      <4> QED
        BY <4>1, ConstantAssumptions DEF OfKind, KindOf, Kinds
    <3>6. job.props \subseteq Widened(ws.cfg)[job.kind]
      BY <2>2 DEF CoreInv, KnownInv
    <3> QED
      BY <3>4, <3>5, <3>6
  <2> QED
    BY <2>1, <2>2 DEF Inherits
<1>6. CASE Clear
  BY <1>6, ClearEffect DEF Remarks, Inherits
<1>7. CASE PersistConfig
  BY <1>7, ConfigEffect DEF Reconfigured, Inherits
<1>8. CASE RetypeEdges
  <2>1. ws'.der = ws.der \cup Retyped /\ ws'.torn = ws.torn \ {<<"edge", "typed">>}
    BY <1>8, RetypeEffect DEF Retypes
  <2>2. \A e \in Retyped : e.fam = "typed"
    BY EntryShapes DEF Retyped
  <2>3. \A k : <<k, "created">> # <<"edge", "typed">>
    OBVIOUS
  <2> QED
    BY <2>1, <2>2, <2>3 DEF Inherits, Families, PropertyFamilies, CompositeFamilies
<1> QED
  BY <1>1, <1>2, <1>3, <1>4, <1>5, <1>6, <1>7, <1>8 DEF WriteStep, RebuildStep, AddStep, MarkStep, Flush, Clear

-----------------------------------------------------------------------------
(* Deletion of a node, step by step.                                        *)

(* Records are only written by the step that writes records.                *)
LEMMA StepRecords == ASSUME CoreInv, WriteStep \/ RebuildStep PROVE PutRecords \/ ws'.rec = ws.rec
<1>0. IsStore(ws)
  BY DEF CoreInv, ScopeInv
<1>1. CASE DeleteTypedAdjacency \/ DeleteIndexes \/ RemoveFromAdjacencies
  <2>1. PICK E : ws' = Drop(E)
    BY <1>1 DEF DeleteTypedAdjacency, DeleteIndexes, RemoveFromAdjacencies, Write
  <2> QED
    BY <1>0, <2>1, DropAdd DEF St
<1>2. CASE AddStep
  <2>1. PICK E : E = Added
    OBVIOUS
  <2>2. Gains(ws, E, ws')
    BY <1>2, <2>1, AddEffect
  <2> QED
    BY <1>0, <2>2, Grown
<1>3. CASE MarkStep
  BY <1>3, MarkStepEffect DEF Remarks
<1>4. CASE Flush
  <2>1. PICK E : E = Flushed
    OBVIOUS
  <2>2. Gains(ws, E, ws')
    BY <1>4, <2>1, FlushEffect
  <2> QED
    BY <1>0, <2>2, Grown
<1>5. CASE Clear
  BY <1>5, ClearEffect DEF Remarks
<1>6. CASE PersistConfig
  BY <1>6, ConfigEffect DEF Reconfigured
<1>7. CASE RetypeEdges
  BY <1>7, RetypeEffect DEF Retypes
<1> QED
  BY <1>1, <1>2, <1>3, <1>4, <1>5, <1>6, <1>7 DEF WriteStep, RebuildStep, AddStep, MarkStep, Flush, Clear

(* A job that ends in the erasure of a node only erases.                    *)
LEMMA LastErasure ==
    ASSUME CoreInv, NEW n \in Nodes, job.chunks # <<>>, Last(job.chunks) = Erase(n)
    PROVE  Erasing(job) /\ job.check /\ job.phase \notin Adding \cup Marking \cup Rebuilding
<1>1. job \in Jobs /\ Uniform(job) /\ job.chunks \in Seq(Chunks)
  BY DEF CoreInv, StructureInv, JobOK, Jobs
<1>2. Erase(n) \in Range(job.chunks)
  BY <1>1, LastListed
<1>3. Erasing(job) /\ job.check /\ ~job.defer
  BY <1>1, <1>2, EraseNoBatch DEF Uniform, Filling
<1>4. job.phase \notin Marking \cup Rebuilding
  BY <1>3 DEF CoreInv, StructureInv, JobOK
<1>5. ASSUME job.phase \in Adding PROVE FALSE
  <2>1. Head(job.chunks) \in Range(job.chunks)
    BY <1>1, ChunksSplit
  <2>2. PICK i \in Ids : Head(job.chunks) = Erase(i)
    BY <1>3, <2>1 DEF Erasing
  <2>3. PICK x : x = [id |-> i, rec |-> Absent]
    OBVIOUS
  <2>4. x \in Range(Head(job.chunks)) /\ x.rec = Absent
    BY <2>2, <2>3, Singleton DEF Erase
  <2> QED
    BY <1>5, <2>4 DEF CoreInv, StructureInv, JobOK
<1> QED
  BY <1>3, <1>4, <1>5

(* Unindexing goes on with the same chunks.                                 *)
LEMMA ClearingStays ==
    ASSUME CoreInv, DeleteTypedAdjacency \/ DeleteIndexes \/ RemoveFromAdjacencies
    PROVE  job'.chunks = job.chunks /\ job'.phase \in Clearing \cup {"record"}
<1>1. job.phase \in Clearing /\ job.phase \in Writing
  BY DEF DeleteTypedAdjacency, DeleteIndexes, RemoveFromAdjacencies, Step, Clearing, Writing
<1>2. job \in Jobs /\ job.chunks # <<>> /\ job.n \in Nat /\ job.n + 1 \in Nat /\ job.n + 1 >= 1
  BY <1>1, WriterFacts, OldFacts
<1>3. CASE job' = ReplaceFrom(ws, job, job.n + 1)
  <2>1. Resumed(ws.rec, job, job.n + 1, job')
    BY <1>2, <1>3, ReplaceEffect
  <2> QED
    BY <2>1 DEF Resumed, Clearing
<1>4. CASE job' = [job EXCEPT !.phase = "unindex"] \/ job' = [job EXCEPT !.phase = "unlink"]
  BY <1>2, <1>4 DEF Jobs, Clearing
<1> QED
  BY <1>3, <1>4 DEF DeleteTypedAdjacency, DeleteIndexes, RemoveFromAdjacencies

(* Erasing a record goes on to the next chunk, or ends.                     *)
LEMMA ErasingGoesOn ==
    ASSUME CoreInv, PutRecords, Erasing(job), job.check
    PROVE  \E i \in Ids :
              /\ Head(job.chunks) = Erase(i) /\ ws'.rec[i] = Absent
              /\ \A k \in Ids : k # i => ws'.rec[k] = ws.rec[k]
              /\ \/ job'.phase # "end" /\ job'.chunks = Tail(job.chunks) /\ Tail(job.chunks) # <<>>
                 \/ job'.chunks = job.chunks /\ Tail(job.chunks) = <<>>
<1>1. job.phase \in Writing
  BY DEF PutRecords, Step, Writing
<1>2. /\ job \in Jobs /\ job.chunks # <<>> /\ Uniform(job) /\ ~job.create
      /\ Chunk \in Range(job.chunks) /\ Chunk = Head(job.chunks) /\ Items = Range(Chunk)
  BY <1>1, WriterFacts
<1>3. PICK i \in Ids : Chunk = Erase(i)
  BY <1>2 DEF Erasing
<1>4. Items = {[id |-> i, rec |-> Absent]}
  BY <1>2, <1>3, Singleton DEF Erase
<1>5. PICK x : x = [id |-> i, rec |-> Absent]
  OBVIOUS
<1>6. Items = {x} /\ x.id = i /\ x.rec = Absent
  BY <1>4, <1>5
<1>7. PICK t : t = ws'
  OBVIOUS
<1>8. Overwrites(ws, Items, t) /\ Recorded(t, job, job')
  BY <1>7, RecordEffect
<1>9. t.rec[i] = Absent /\ \A k \in Ids : k # i => t.rec[k] = ws.rec[k]
  BY <1>6, <1>8 DEF Overwrites
<1>10. job' = NextChunk(t, job)
  BY <1>2, <1>6, <1>8 DEF Recorded
<1>11. Written(dep, t, job)
  <2>1. IsStore(t) /\ Described(dep, t)
    BY <1>7, RecordStep DEF Kept
  <2> QED
    BY <1>2, <2>1 DEF Written
<1>12. WentOn(dep, scope, t, job, job')
  BY <1>10, <1>11, NextOK
<1>13. \/ job'.phase # "end" /\ job'.chunks = Tail(job.chunks) /\ Tail(job.chunks) # <<>>
       \/ job'.chunks = job.chunks /\ Tail(job.chunks) = <<>>
  BY <1>12 DEF WentOn
<1> QED
  BY <1>2, <1>3, <1>7, <1>9, <1>13

(* The incident edges of a node being deleted stay ahead of it.             *)
LEMMA DeletingKept == ASSUME CoreInv, WriteStep \/ RebuildStep PROVE DeletingOK(ws', job')
<1> SUFFICES ASSUME NEW n \in Nodes, job'.chunks # <<>>, Last(job'.chunks) = Erase(n)
             PROVE  /\ \A e \in Incident(ws', n) : Erase(e) \in Range(job'.chunks)
                    /\ job'.phase = "end" => ws'.rec[n] = Absent
  BY DEF DeletingOK
<1>1. job.chunks \in Seq(Chunks)
  BY DEF CoreInv, StructureInv, JobOK, Jobs
<1>2. job.chunks # <<>> /\ Last(job.chunks) = Erase(n)
  <2>1. Advances
    BY StepKept DEF Kept
  <2>2. CASE job'.chunks = job.chunks
    BY <2>2
  <2>3. CASE job'.chunks = Tail(job.chunks) /\ job'.chunks # job.chunks
    <3>1. job.chunks # <<>>
      BY <1>1, <2>1, <2>3 DEF Advances
    <3> QED
      BY <1>1, <2>3, <3>1, LastListed
  <2> QED
    BY <2>1, <2>2, <2>3 DEF Advances
<1>3. Erasing(job) /\ job.check /\ job.phase \notin Adding \cup Marking \cup Rebuilding
  BY <1>2, LastErasure
<1>4. \A e \in Incident(ws, n) : Erase(e) \in Range(job.chunks)
  BY <1>2 DEF CoreInv, DeletingOK
<1>5. CASE DeleteTypedAdjacency \/ DeleteIndexes \/ RemoveFromAdjacencies
  <2>1. job'.chunks = job.chunks /\ job'.phase # "end"
    BY <1>5, ClearingStays DEF Clearing
  <2>2. ~PutRecords
    BY <1>5 DEF DeleteTypedAdjacency, DeleteIndexes, RemoveFromAdjacencies, PutRecords, Step
  <2>3. ws'.rec = ws.rec
    BY <2>2, StepRecords
  <2> QED
    BY <1>4, <2>1, <2>3 DEF Incident
<1>6. CASE PutRecords
  <2>1. PICK i \in Ids :
              /\ Head(job.chunks) = Erase(i) /\ ws'.rec[i] = Absent
              /\ \A k \in Ids : k # i => ws'.rec[k] = ws.rec[k]
              /\ \/ job'.phase # "end" /\ job'.chunks = Tail(job.chunks) /\ Tail(job.chunks) # <<>>
                 \/ job'.chunks = job.chunks /\ Tail(job.chunks) = <<>>
    BY <1>3, <1>6, ErasingGoesOn
  <2>2. Range(job.chunks) = {Erase(i)} \cup Range(Tail(job.chunks))
    BY <1>1, <1>2, <2>1, ChunksSplit
  <2>3. ASSUME NEW e \in Incident(ws', n) PROVE Erase(e) \in Range(job'.chunks)
    <3>1. e \in Edges /\ e \in Ids /\ e # i
      BY <2>1, <2>3 DEF Incident, Ids
    <3>2. e \in Incident(ws, n)
      <4>1. ws'.rec[e] = ws.rec[e]
        BY <2>1, <3>1
      <4> QED
        BY <2>3, <4>1 DEF Incident
    <3>3. Erase(e) \in Range(job.chunks) /\ Erase(e) # Erase(i)
      BY <1>4, <3>1, <3>2, EraseOne
    <3> QED
      BY <2>1, <2>2, <3>3
  <2>4. ASSUME Tail(job.chunks) = <<>> PROVE ws'.rec[n] = Absent
    <3>1. Range(job.chunks) = {Erase(i)}
      <4>1. Range(<<>>) = {}
        BY DEF Range
      <4> QED
        BY <2>2, <2>4, <4>1
    <3>2. Erase(n) = Erase(i)
      BY <1>1, <1>2, <3>1, LastListed
    <3> QED
      BY <2>1, <3>2, EraseOne
  <2> QED
    BY <2>1, <2>3, <2>4
<1>7. DeleteTypedAdjacency \/ DeleteIndexes \/ RemoveFromAdjacencies \/ PutRecords
  BY <1>3 DEF WriteStep, RebuildStep, Step, DeleteTypedAdjacency, DeleteIndexes, RemoveFromAdjacencies,
     PutRecords, PutTypedAdjacency, PutIndexEntries, PutRangeEntries, PutAdjacencyLists, MarkLabels, MarkProperties,
     FlushExact, FlushRanges, ClearLabels, ClearProperties, PersistConfig, RetypeEdges, Adding, Marking, Rebuilding
<1> QED
  BY <1>5, <1>6, <1>7

-----------------------------------------------------------------------------
(* The steps of an operation keep the invariant.                            *)

(* Each conjunct, for a step of an operation: the scope and the structure,  *)
LEMMA StepScope == ASSUME CoreInv, WriteStep \/ RebuildStep PROVE ScopeInv' /\ StructureInv'
<1>1. Moves /\ Kept /\ job.phase # "idle"
  BY StepMoves, StepKept, StepConfig
<1>2. ScopeInv'
  BY <1>1 DEF CoreInv, ScopeInv, Moves, Kept, Idle
<1>3. StructureInv'
  BY <1>1 DEF CoreInv, StructureInv, Moves, Kept
<1> QED
  BY <1>2, <1>3

(* what the job adds to the configuration,                                  *)
LEMMA StepWidens ==
    ASSUME CoreInv, WriteStep \/ RebuildStep, Plain(dep)
    PROVE  /\ ws'.cfg = IF job'.phase = "end" THEN Widened(Session.indexed)' ELSE Session.indexed'
           /\ \A k \in Kinds : Widened(ws.cfg)[k] \subseteq Widened(ws.cfg)'[k]
<1>1. Moves /\ SameJob(job, job') /\ IsStore(ws')
  BY StepMoves, StepKept DEF Kept
<1>2. PICK c : c = Session.indexed
  OBVIOUS
<1>3. Session'.indexed = c
  BY <1>1, <1>2 DEF Session, Moves
<1>4. ws.cfg = c /\ c \in [Kinds -> SUBSET Props]
  BY <1>2, StepConfig DEF CoreInv, ConfigInv, ScopeInv, IsStore
<1>5. PICK f : f = Widened(c)
  OBVIOUS
<1>6. f = IF job'.create THEN [c EXCEPT ![job'.kind] = @ \cup job'.props] ELSE c
  BY <1>1, <1>5 DEF Widened, SameJob
<1>7. Widened(Session.indexed)' = f
  BY <1>3, <1>6 DEF Widened
<1>8. PICK g : g = ws'.cfg
  OBVIOUS
<1>9. g \in [Kinds -> SUBSET Props]
  BY <1>1, <1>8 DEF IsStore
<1>10. Widened(ws.cfg)' = Widened(g)
  BY <1>1, <1>8 DEF Widened, SameJob
<1>11. f = (IF job.create THEN [c EXCEPT ![job.kind] = c[job.kind] \cup job.props] ELSE c)
  BY <1>5 DEF Widened
<1>12. CASE PersistConfig
  <2>1. g = [c EXCEPT ![job.kind] = Staged] /\ job'.phase = "end"
    BY <1>4, <1>8, <1>12, StepConfig
  <2>2. g = f
    <3>1. PICK P : P = Staged
      OBVIOUS
    <3>2. P = c[job.kind] \cup (IF job.create THEN job.props ELSE {})
      BY <1>2, <3>1 DEF Staged
    <3>3. CASE job.create
      BY <1>11, <2>1, <3>1, <3>2, <3>3
    <3>4. CASE ~job.create
      <4>1. P = c[job.kind]
        BY <3>2, <3>4
      <4> QED
        BY <1>4, <1>11, <2>1, <3>1, <3>4, <4>1
    <3> QED
      BY <3>3, <3>4
  <2>3. \A k \in Kinds : f[k] \subseteq Widened(g)[k]
    BY <1>9, <2>2, WidenedAt
  <2> QED
    BY <1>4, <1>5, <1>7, <1>8, <1>10, <2>1, <2>2, <2>3
<1>13. CASE ~PersistConfig
  <2>1. g = c /\ (job'.phase = "end" => ~job.create)
    BY <1>4, <1>8, <1>13, StepConfig
  <2> QED
    BY <1>3, <1>4, <1>5, <1>7, <1>8, <1>10, <1>11, <2>1
<1> QED
  BY <1>12, <1>13

(* the configuration and what is known of the entries.                      *)
LEMMA StepKnown == ASSUME CoreInv, WriteStep \/ RebuildStep PROVE ConfigInv' /\ KnownInv'
<1>1. Moves /\ Inherits /\ Kept /\ job.phase # "end"
  BY StepMoves, StepInherits, StepKept, StepConfig
<1>2. ASSUME Plain(dep)
      PROVE  /\ ws'.cfg = IF job'.phase = "end" THEN Widened(Session.indexed)' ELSE Session.indexed'
             /\ \A k \in Kinds : Widened(ws.cfg)[k] \subseteq Widened(ws.cfg)'[k]
  BY <1>2, StepWidens
<1>3. ConfigInv'
  BY <1>1, <1>2 DEF CoreInv, ConfigInv, Moves
<1>4. PICK g : g = Widened(ws.cfg)'
  OBVIOUS
<1>5. ASSUME Plain(dep) PROVE Known(ws', g) /\ job'.props \subseteq g[job'.kind]
  <2>1. \A k \in Kinds : Widened(ws.cfg)[k] \subseteq g[k]
    BY <1>2, <1>4, <1>5
  <2>2. Known(ws, Widened(ws.cfg)) /\ job.props \subseteq Widened(ws.cfg)[job.kind] /\ job.kind \in Kinds
    BY <1>5 DEF CoreInv, KnownInv, StructureInv, JobOK, Jobs
  <2>3. Known(ws', g)
    <3> SUFFICES ASSUME NEW e \in ws'.der, e.fam \in Families
                 PROVE  EntryProp(e) \in g[KindOf(e.id)] \/ Excused(ws', e)
      BY DEF Known
    <3>1. KindOf(e.id) \in Kinds
      BY DEF KindOf, Kinds
    <3>2. Excused(ws, e) => Excused(ws', e)
      BY <1>1 DEF Inherits, Excused
    <3> QED
      BY <1>1, <1>5, <2>1, <2>2, <3>1, <3>2 DEF Known, Inherits
  <2> QED
    BY <1>1, <2>1, <2>2, <2>3 DEF Kept, SameJob
<1>6. KnownInv'
  BY <1>1, <1>4, <1>5 DEF CoreInv, KnownInv, Moves
<1> QED
  BY <1>3, <1>6

(* Together.                                                                *)
LEMMA StepCore == ASSUME CoreInv, WriteStep \/ RebuildStep PROVE CoreInv'
BY StepScope, StepKnown, DeletingKept DEF CoreInv

-----------------------------------------------------------------------------
(* The steps between operations keep it.                                    *)

(* The configuration while nothing is half done.                            *)
LEMMA Settled ==
    ASSUME CoreInv, Plain(dep), job.phase \in {"idle", "end"}
    PROVE  Known(ws, ws.cfg) /\ (Idle => ws.cfg = Session.indexed /\ Widened(ws.cfg) = ws.cfg)
<1>1. Idle => ~job.create
  BY DEF Idle, CoreInv, StructureInv, JobOK, NoJob
<1>2. PICK w : w = ws.cfg
  OBVIOUS
<1>3. w \in [Kinds -> SUBSET Props]
  BY <1>2 DEF CoreInv, ScopeInv, IsStore
<1>4. PICK c : c = Session.indexed
  OBVIOUS
<1>5. c \in [Kinds -> SUBSET Props]
  BY <1>4 DEF CoreInv, ScopeInv, Session, IsSession
<1>6. w = IF job.phase = "end" THEN Widened(c) ELSE c
  BY <1>2, <1>4 DEF CoreInv, ConfigInv
<1>7. Idle => w = c /\ Widened(w) = w
  BY <1>1, <1>6 DEF Idle, Widened
<1>8. \A k \in Kinds : Widened(w)[k] = w[k]
  <2>1. CASE job.phase = "end"
    <3>1. w = Widened(c)
      BY <1>6, <2>1
    <3>2. \A k \in Kinds : w[k] = IF job.create /\ k = job.kind THEN c[k] \cup job.props ELSE c[k]
      BY <1>5, <3>1, WidenedAt
    <3>3. \A k \in Kinds : Widened(w)[k] = IF job.create /\ k = job.kind THEN w[k] \cup job.props ELSE w[k]
      BY <1>3, WidenedAt
    <3> QED
      BY <3>2, <3>3
  <2>2. CASE Idle
    BY <1>7, <2>2
  <2> QED
    BY <2>1, <2>2 DEF Idle
<1>9. Known(ws, w)
  <2>1. Known(ws, Widened(w))
    BY <1>2 DEF CoreInv, KnownInv
  <2>2. \A e : KindOf(e.id) \in Kinds
    BY DEF KindOf, Kinds
  <2> QED
    BY <1>8, <2>1, <2>2 DEF Known
<1> QED
  BY <1>2, <1>4, <1>7, <1>9

(* The committed store agrees with the handle while a transaction is open.  *)
LEMMA Committed ==
    ASSUME CoreInv, Plain(dep), scope # "none" \/ Idle
    PROVE  handle.indexed = db.cfg /\ Known(db, db.cfg) /\ (scope # "none" => child.indexed = handle.indexed)
<1>1. CASE scope # "none"
  BY <1>1 DEF CoreInv, ConfigInv, KnownInv
<1>2. CASE scope = "none"
  BY <1>2, Settled DEF CoreInv, ScopeInv, Session, Idle
<1> QED
  BY <1>1, <1>2

(* Operations start from it.                                                *)
LEMMA OperationCore == ASSUME CoreInv, Operation PROVE CoreInv'
<1>1. PICK j : Started(j) /\ Launched(scope', j)
  BY OperationLaunched
<1>2. /\ Idle /\ job' = j /\ ws' = ws /\ db' = db /\ handle' = handle /\ dep' = dep
      /\ \/ dep.transactional /\ scope = "none" /\ scope' = "implicit" /\ child' = Fork(handle)
         \/ ~(dep.transactional /\ scope = "none") /\ scope' = scope /\ child' = child
  BY <1>1 DEF Started
<1>3. /\ JobOK(dep, scope', ws, j) /\ FreshOK(dep, ws, j) /\ CleanOK(dep, ws, j) /\ DeletingOK(ws, j)
      /\ j.phase # "idle" /\ j.phase # "end" /\ (j.create \/ j.props \subseteq Session.indexed[j.kind])
  BY <1>1 DEF Launched
<1>4. StructureInv' /\ DeletingOK(ws, job)'
  BY <1>2, <1>3 DEF CoreInv, StructureInv
<1>5. IsSession(child') /\ (scope' # scope => child'.indexed = handle.indexed)
  BY <1>2, SessionShapes DEF CoreInv, ScopeInv
<1>6. ScopeInv'
  BY <1>2, <1>3, <1>5 DEF CoreInv, ScopeInv, Idle
<1>7. ASSUME Plain(dep) PROVE ws.cfg = Session.indexed /\ Session'.indexed = Session.indexed /\ Known(ws, ws.cfg)
                              /\ handle.indexed = db.cfg /\ Known(db, db.cfg) /\ (scope' # "none" => child'.indexed = handle.indexed)
  <2>1. ws.cfg = Session.indexed /\ Known(ws, ws.cfg)
    BY <1>2, <1>7, Settled DEF Idle
  <2>2. handle.indexed = db.cfg /\ Known(db, db.cfg) /\ (scope # "none" => child.indexed = handle.indexed)
    BY <1>2, <1>7, Committed
  <2> QED
    BY <1>2, <1>5, <2>1, <2>2 DEF Session
<1>8. ConfigInv'
  BY <1>2, <1>3, <1>7 DEF ConfigInv
<1>9. PICK c, g : c = ws.cfg /\ g = Widened(ws.cfg)'
  OBVIOUS
<1>10. g = IF j.create THEN [c EXCEPT ![j.kind] = c[j.kind] \cup j.props] ELSE c
  BY <1>2, <1>9 DEF Widened
<1>11. c \in [Kinds -> SUBSET Props] /\ j.kind \in Kinds /\ j.props \subseteq Props
  BY <1>3, <1>9 DEF CoreInv, ScopeInv, IsStore, JobOK, Jobs
<1>12. ASSUME Plain(dep) PROVE (\A k \in Kinds : c[k] \subseteq g[k]) /\ j.props \subseteq g[j.kind]
  <2>1. CASE j.create
    BY <1>10, <1>11, <2>1
  <2>2. CASE ~j.create
    BY <1>3, <1>7, <1>9, <1>10, <1>12, <2>2
  <2> QED
    BY <2>1, <2>2
<1>13. ASSUME Plain(dep) PROVE Known(ws, g)
  <2>1. \A e : KindOf(e.id) \in Kinds
    BY DEF KindOf, Kinds
  <2> QED
    BY <1>7, <1>9, <1>12, <1>13, <2>1 DEF Known
<1>14. KnownInv'
  BY <1>2, <1>7, <1>9, <1>12, <1>13 DEF KnownInv
<1> QED
  BY <1>4, <1>6, <1>8, <1>14 DEF CoreInv

(* An operation that dies on the store it writes leaves what it wrote, and  *)
(* marks what it may have left half done.                                   *)
LEMMA HalfDoneFacts ==
    ASSUME CoreInv, ~Idle, NEW t, t = HalfDone
    PROVE  /\ Remarks(ws, t) /\ t.stale = ws.stale /\ t.torn = ws.torn \cup Torn
           /\ IsStore(t) /\ Described(dep, t) /\ (Plain(dep) => Known(t, t.cfg))
<1>0. IsStore(ws) /\ Described(dep, ws) /\ job.kind \in Kinds
  BY DEF CoreInv, ScopeInv, StructureInv, JobOK, Jobs
<1>1. PICK r, d, st, c, o : ws = [rec |-> r, der |-> d, stale |-> st, cfg |-> c, torn |-> o]
  BY <1>0 DEF IsStore
<1>2. ws.rec = r /\ ws.der = d /\ ws.stale = st /\ ws.cfg = c /\ ws.torn = o
  BY <1>1
<1>3. PICK u : u = o \cup Torn
  OBVIOUS
<1>4. t = [ws EXCEPT !.torn = u]
  BY <1>2, <1>3 DEF HalfDone
<1>5. t = [rec |-> r, der |-> d, stale |-> st, cfg |-> c, torn |-> u]
  BY <1>1, <1>4
<1>6. t.rec = r /\ t.der = d /\ t.stale = st /\ t.cfg = c /\ t.torn = u
  BY <1>5
<1>7. Remarks(ws, t) /\ t.stale = ws.stale /\ t.torn = ws.torn \cup Torn
  BY <1>2, <1>3, <1>5, <1>6 DEF Remarks
<1>8. IsStore(t) /\ Described(dep, t)
  BY <1>0, <1>7, RemarksRewrites, Rewritten
<1>9. ASSUME Plain(dep) PROVE Known(t, c)
  <2> SUFFICES ASSUME NEW e \in d, e.fam \in Families PROVE EntryProp(e) \in c[KindOf(e.id)] \/ Excused(t, e)
    BY <1>6 DEF Known
  <2>1. Excused(ws, e) => Excused(t, e)
    BY <1>7 DEF Excused
  <2>2. CASE job.phase = "end"
    <3>1. Known(ws, c)
      BY <1>2, <1>9, <2>2, Settled
    <3> QED
      BY <1>2, <2>1, <3>1 DEF Known
  <2>3. CASE job.phase # "end"
    <3>1. EntryProp(e) \in Widened(c)[KindOf(e.id)] \/ Excused(ws, e)
      BY <1>2, <1>9 DEF CoreInv, KnownInv, Known
    <3>2. KindOf(e.id) \in Kinds /\ c \in [Kinds -> SUBSET Props]
      BY <1>0, <1>2 DEF KindOf, Kinds, IsStore
    <3>3. Widened(c)[KindOf(e.id)] = c[KindOf(e.id)] \/ (job.create /\ KindOf(e.id) = job.kind)
      BY <3>2, WidenedAt
    <3>4. job.create => <<job.kind, "created">> \in Torn
      BY <2>3 DEF Torn
    <3> QED
      BY <1>7, <2>1, <3>1, <3>3, <3>4 DEF Excused
  <2> QED
    BY <2>2, <2>3
<1> QED
  BY <1>6, <1>7, <1>8, <1>9

(* A state between operations.                                              *)
Resting ==
    /\ job = NoJob /\ dep \in Deployments /\ scope \in {"none", "caller"}
    /\ scope = "none" => ws = db
    /\ ~dep.transactional => scope = "none"
    /\ IsSession(handle) /\ IsSession(child) /\ IsStore(db) /\ IsStore(ws)
    /\ Described(dep, ws) /\ Described(dep, db)
    /\ Plain(dep) =>
          /\ handle.indexed = db.cfg /\ (scope = "caller" => child.indexed = handle.indexed /\ ws.cfg = child.indexed)
          /\ Known(ws, ws.cfg) /\ Known(db, db.cfg)

(* The invariant holds in it.                                               *)
LEMMA RestingCore == Resting' => CoreInv'
<1> SUFFICES ASSUME Resting' PROVE CoreInv'
  OBVIOUS
<1>0. /\ job' = NoJob /\ dep' \in Deployments /\ scope' \in {"none", "caller"}
      /\ scope' = "none" => ws' = db'
      /\ ~dep'.transactional => scope' = "none"
      /\ IsSession(handle') /\ IsSession(child') /\ IsStore(db') /\ IsStore(ws')
      /\ Described(dep', ws') /\ Described(dep', db')
      /\ Plain(dep') =>
            /\ handle'.indexed = db'.cfg
            /\ scope' = "caller" => child'.indexed = handle'.indexed /\ ws'.cfg = child'.indexed
            /\ Known(ws', ws'.cfg) /\ Known(db', db'.cfg)
  BY DEF Resting
<1>1. /\ JobOK(dep', scope', ws', job') /\ FreshOK(dep', ws', job') /\ CleanOK(dep', ws', job') /\ DeletingOK(ws', job')
      /\ job'.phase = "idle" /\ ~job'.create /\ job'.props = {}
  BY <1>0, NoJobOK
<1>2. ScopeInv' /\ StructureInv'
  BY <1>0, <1>1 DEF ScopeInv, StructureInv, Idle
<1>3. Widened(ws.cfg)' = ws'.cfg
  BY <1>1 DEF Widened
<1>4. ConfigInv'
  BY <1>0, <1>1 DEF ConfigInv, Session
<1>5. KnownInv'
  BY <1>0, <1>1, <1>3 DEF KnownInv
<1> QED
  BY <1>1, <1>2, <1>4, <1>5 DEF CoreInv

(* A store with these sessions on it: nothing is open.                      *)
LEMMA Quieted ==
    ASSUME CoreInv, NEW s, IsStore(s), Described(dep, s), job' = NoJob, dep' = dep, scope' = "none", ws' = s, db' = s,
           child' = NoSession, IsSession(handle'), Plain(dep) => handle'.indexed = s.cfg /\ Known(s, s.cfg)
    PROVE  CoreInv'
<1>1. IsSession(NoSession) /\ dep \in Deployments
  BY SessionShapes DEF CoreInv, ScopeInv
<1>2. Resting'
  BY <1>1 DEF Resting
<1> QED
  BY <1>2, RestingCore

(* The end of an operation.                                                 *)
LEMMA FinishCore == ASSUME CoreInv, Finish PROVE CoreInv'
<1>0. /\ job.phase = "end" /\ job' = NoJob /\ dep' = dep /\ ws' = ws
      /\ IsStore(ws) /\ Described(dep, ws) /\ IsSession(handle) /\ IsSession(child) /\ ~Idle
  BY DEF Finish, CoreInv, ScopeInv, StructureInv, Idle
<1>1. Plain(dep) => Known(ws, ws.cfg) /\ ws.cfg = Widened(Session.indexed)
  BY <1>0, Settled DEF CoreInv, ConfigInv
<1>2. CASE scope = "implicit"
  <2>1. db' = ws /\ scope' = "none" /\ child' = NoSession /\ handle' = Published(AfterCommit(handle))
    BY <1>2 DEF Finish
  <2>2. PICK v : v = AfterCommit(handle)
    OBVIOUS
  <2>3. IsSession(v) /\ v.indexed = handle.indexed
    BY <1>0, <2>2, SessionShapes
  <2>4. IsSession(handle') /\ handle'.indexed = Widened(handle.indexed)
    BY <2>1, <2>2, <2>3, PublishedShape
  <2>5. Plain(dep) => handle'.indexed = ws.cfg
    BY <1>1, <1>2, <2>4, Committed DEF Session
  <2> QED
    BY <1>0, <1>1, <2>1, <2>4, <2>5, Quieted
<1>3. CASE scope # "implicit"
  <2>1. db' = db /\ scope' = scope /\ SetSession(Published(Session))
    BY <1>3 DEF Finish
  <2>2. PICK v : v = Session
    OBVIOUS
  <2>3. IsSession(v)
    BY <1>0, <2>2 DEF Session
  <2>4. IsSession(Published(v)) /\ Published(v).indexed = Widened(v.indexed)
    BY <2>3, PublishedShape
  <2>5. IF scope = "none" THEN handle' = Published(v) /\ child' = child ELSE child' = Published(v) /\ handle' = handle
    BY <2>1, <2>2 DEF SetSession
  <2>6. Described(dep, db) /\ IsStore(db) /\ dep \in Deployments /\ scope \in {"none", "caller"}
        /\ (scope = "none" => ws = db) /\ (~dep.transactional => scope = "none")
    BY <1>3 DEF CoreInv, ScopeInv, StructureInv
  <2>7. CASE scope = "none"
    BY <1>0, <1>1, <2>1, <2>2, <2>4, <2>5, <2>6, <2>7, RestingCore DEF Resting
  <2>8. CASE scope = "caller"
    <3>1. ASSUME Plain(dep)
          PROVE  /\ handle.indexed = db.cfg /\ Known(db, db.cfg) /\ child.indexed = handle.indexed
                 /\ Widened(child.indexed) = child.indexed
      <4>1. ~job.create
        BY <2>8, <3>1 DEF CoreInv, StructureInv, JobOK, Plain
      <4> QED
        BY <2>8, <3>1, <4>1, Committed DEF Widened
    <3>2. v = child
      BY <2>2, <2>8 DEF Session
    <3> QED
      BY <1>0, <1>1, <2>1, <2>2, <2>4, <2>5, <2>6, <2>8, <3>1, <3>2, RestingCore DEF Resting
  <2> QED
    BY <2>6, <2>7, <2>8
<1> QED
  BY <1>2, <1>3

(* A caller's transaction opens, commits or rolls back.                     *)
LEMMA ScopeCore ==
    ASSUME CoreInv, BeginTransaction \/ CommitTransaction \/ RollbackTransaction
    PROVE  CoreInv'
<1>0. /\ Idle /\ job = NoJob /\ job' = NoJob /\ dep' = dep
      /\ IsStore(ws) /\ Described(dep, ws) /\ IsStore(db) /\ Described(dep, db) /\ IsSession(handle) /\ dep \in Deployments
  BY DEF BeginTransaction, CommitTransaction, RollbackTransaction, CoreInv, ScopeInv, StructureInv, JobOK, Idle
<1>1. Plain(dep) => /\ handle.indexed = db.cfg /\ Known(db, db.cfg) /\ (scope # "none" => child.indexed = handle.indexed)
                    /\ Known(ws, ws.cfg) /\ ws.cfg = Session.indexed
  BY <1>0, Committed, Settled DEF Idle
<1>2. CASE BeginTransaction
  <2>1. /\ dep.transactional /\ scope = "none" /\ scope' = "caller" /\ child' = Fork(handle)
        /\ db' = db /\ ws' = ws /\ handle' = handle
    BY <1>2 DEF BeginTransaction
  <2>2. IsSession(child') /\ child'.indexed = handle.indexed
    BY <1>0, <2>1, SessionShapes
  <2> QED
    BY <1>0, <1>1, <2>1, <2>2, RestingCore DEF Resting, Session
<1>3. CASE CommitTransaction
  <2>1. db' = ws /\ ws' = ws /\ scope = "caller" /\ scope' = "none" /\ child' = NoSession /\ handle' = AfterCommit(handle)
    BY <1>3 DEF CommitTransaction
  <2>2. IsSession(handle') /\ handle'.indexed = handle.indexed
    BY <1>0, <2>1, SessionShapes
  <2>3. Plain(dep) => handle'.indexed = ws.cfg
    BY <1>1, <2>1, <2>2 DEF Session
  <2> QED
    BY <1>0, <1>1, <2>1, <2>2, <2>3, Quieted
<1>4. CASE RollbackTransaction
  BY <1>0, <1>1, <1>4, Quieted DEF RollbackTransaction
<1> QED
  BY <1>2, <1>3, <1>4

(* A write raises.                                                          *)
LEMMA FailCore == ASSUME CoreInv, Fail PROVE CoreInv'
<1>0. /\ ~Idle /\ job' = NoJob /\ dep' = dep /\ handle' = handle /\ (job.phase = "end" => scope = "implicit")
      /\ IsStore(db) /\ Described(dep, db) /\ IsSession(handle) /\ IsSession(child) /\ dep \in Deployments
      /\ scope \in {"none", "implicit", "caller"} /\ (~dep.transactional => scope = "none")
  BY DEF Fail, CoreInv, ScopeInv, StructureInv
<1>1. CASE scope = "implicit"
  <2>1. Plain(dep) => handle.indexed = db.cfg /\ Known(db, db.cfg)
    BY <1>1, Committed
  <2> QED
    BY <1>0, <1>1, <2>1, Quieted DEF Fail
<1>2. CASE scope # "implicit"
  <2>1. PICK t : t = HalfDone
    OBVIOUS
  <2>2. /\ Remarks(ws, t) /\ IsStore(t) /\ Described(dep, t) /\ (Plain(dep) => Known(t, t.cfg))
    BY <1>0, <2>1, HalfDoneFacts
  <2>3. ws' = t /\ db' = (IF scope = "none" THEN t ELSE db) /\ scope' = scope /\ child' = child
    BY <1>2, <2>1 DEF Fail, Write
  <2>4. Plain(dep) => t.cfg = Session.indexed
    BY <1>0, <1>2, <2>2 DEF CoreInv, ConfigInv, Remarks
  <2>5. CASE scope = "none"
    BY <1>0, <2>2, <2>3, <2>4, <2>5, RestingCore DEF Resting, Session
  <2>6. CASE scope = "caller"
    <3>1. Plain(dep) => handle.indexed = db.cfg /\ Known(db, db.cfg) /\ child.indexed = handle.indexed
      BY <2>6, Committed
    <3> QED
      BY <1>0, <2>2, <2>3, <2>4, <2>6, <3>1, RestingCore DEF Resting, Session
  <2> QED
    BY <1>0, <1>2, <2>5, <2>6
<1> QED
  BY <1>1, <1>2

(* The process dies, or the handle is closed, and the database is opened.   *)
LEMMA RestartCore == ASSUME CoreInv, Crash \/ Reopen PROVE CoreInv'
<1>1. PICK s : s = IF Crash /\ scope = "none" /\ ~Idle THEN HalfDone ELSE db
  OBVIOUS
<1>2. Restart(s)
  <2>1. CASE Crash
    BY <1>1, <2>1 DEF Crash
  <2>2. CASE ~Crash
    BY <1>1, <2>2 DEF Reopen
  <2> QED
    BY <2>1, <2>2
<1>3. /\ job' = NoJob /\ dep' = dep /\ scope' = "none" /\ ws' = s /\ db' = s /\ child' = NoSession /\ handle' = Opened(s)
  BY <1>2 DEF Restart
<1>4. IsStore(s) /\ Described(dep, s) /\ (Plain(dep) => Known(s, s.cfg))
  <2>1. CASE Crash /\ scope = "none" /\ ~Idle
    BY <1>1, <2>1, HalfDoneFacts
  <2>2. CASE ~(Crash /\ scope = "none" /\ ~Idle)
    <3>1. scope # "none" \/ Idle
      BY <2>2 DEF Reopen
    <3>2. Plain(dep) => Known(db, db.cfg)
      BY <3>1, Committed
    <3> QED
      BY <1>1, <2>2, <3>2 DEF CoreInv, ScopeInv, StructureInv
  <2> QED
    BY <2>1, <2>2
<1>5. IsSession(handle') /\ handle'.indexed = s.cfg
  BY <1>3, <1>4, SessionShapes
<1> QED
  BY <1>3, <1>4, <1>5, Quieted

(* A count is cached.                                                       *)
LEMMA CountCore == ASSUME CoreInv, CountTypedAdjacency PROVE CoreInv'
<1>1. PICK k \in CountKeys : SetSession([Session EXCEPT !.counts[k] = StoredCount(ws, k)])
  BY DEF CountTypedAdjacency
<1>2. PICK f : f = [Session.counts EXCEPT ![k] = StoredCount(ws, k)]
  OBVIOUS
<1>3. IsSession(Session)
  BY DEF CoreInv, ScopeInv, Session
<1>4. f = [x \in CountKeys |-> f[x]]
  BY <1>1, <1>2, <1>3 DEF IsSession
<1>5. SetSession([Session EXCEPT !.counts = f])
  BY <1>1, <1>2
<1>6. handle'.indexed = handle.indexed /\ child'.indexed = child.indexed /\ IsSession(handle') /\ IsSession(child')
  BY <1>4, <1>5, SetCounts DEF CoreInv
<1>7. dep' = dep /\ db' = db /\ ws' = ws /\ scope' = scope /\ job' = job
  BY DEF CountTypedAdjacency
<1>8. ScopeInv' /\ StructureInv' /\ DeletingOK(ws, job)'
  BY <1>6, <1>7 DEF CoreInv, ScopeInv, StructureInv, Idle
<1>9. Session'.indexed = Session.indexed
  BY <1>6, <1>7 DEF Session
<1>10. ConfigInv' /\ KnownInv'
  BY <1>6, <1>7, <1>9 DEF CoreInv, ConfigInv, KnownInv, Widened
<1> QED
  BY <1>8, <1>10 DEF CoreInv

(* Nothing happens.                                                         *)
LEMMA IdleCore == ASSUME CoreInv, UNCHANGED vars PROVE CoreInv'
<1>1. dep' = dep /\ db' = db /\ ws' = ws /\ scope' = scope /\ job' = job /\ handle' = handle /\ child' = child
  BY DEF vars
<1> QED
  BY <1>1 DEF CoreInv, ScopeInv, StructureInv, ConfigInv, KnownInv, Idle, Widened, Session

(* An empty database.                                                       *)
LEMMA InitCore == Init => CoreInv
<1> SUFFICES ASSUME Init PROVE CoreInv
  OBVIOUS
<1>0. /\ dep \in Deployments /\ db = EmptyStore /\ ws = EmptyStore
      /\ scope = "none" /\ handle = NoSession /\ child = NoSession /\ job = NoJob
  BY DEF Init
<1>1. /\ JobOK(dep, scope, ws, job) /\ FreshOK(dep, ws, job) /\ CleanOK(dep, ws, job) /\ DeletingOK(ws, job)
      /\ job.phase = "idle" /\ ~job.create /\ job.props = {}
  BY <1>0, NoJobOK
<1>2. PICK r, c : r = [i \in Ids |-> Absent] /\ c = [k \in Kinds |-> {}]
  OBVIOUS
<1>3. EmptyStore = [rec |-> r, der |-> {}, stale |-> {}, cfg |-> c, torn |-> {}]
  BY <1>2 DEF EmptyStore
<1>4. IsStore(EmptyStore) /\ EmptyStore.der = {} /\ EmptyStore.cfg = c
  BY <1>2, <1>3 DEF IsStore
<1>5. IsSession(NoSession) /\ NoSession.indexed = c
  BY <1>2, SessionShapes DEF NoSession
<1>6. Described(dep, EmptyStore) /\ Known(EmptyStore, c)
  BY <1>4 DEF Described, Known
<1>7. Widened(ws.cfg) = ws.cfg
  BY <1>1 DEF Widened
<1>8. ScopeInv /\ StructureInv
  BY <1>0, <1>1, <1>4, <1>5, <1>6 DEF ScopeInv, StructureInv, Idle
<1>9. ConfigInv /\ KnownInv
  BY <1>0, <1>1, <1>4, <1>5, <1>6, <1>7 DEF ConfigInv, KnownInv, Session
<1> QED
  BY <1>1, <1>8, <1>9 DEF CoreInv

(* The invariant is inductive.                                              *)
LEMMA CoreInductive == CoreInv /\ [Next]_vars => CoreInv'
BY OperationCore, StepCore, FinishCore, ScopeCore, FailCore, RestartCore, CountCore, IdleCore DEF Next

(* It holds throughout.                                                     *)
THEOREM CoreInvariant == Spec => []CoreInv
BY InitCore, CoreInductive, PTL DEF Spec

-----------------------------------------------------------------------------
(* What it says of the entries and of deleted nodes.                        *)

(* The invariant says of every entry that it describes a record.            *)
LEMMA CoreDescribes == CoreInv => EntriesDescribeRecords
BY DEF CoreInv, StructureInv, EntriesDescribeRecords, Described, Watched, Plain, Plainly, Excused, Families

(* What an adjacency entry of an edge mentions.                             *)
LEMMA EndsMentioned ==
    ASSUME NEW i, NEW r, NEW e \in AllEntries(i, r), e.fam \in Linked
    PROVE  /\ r.ends # <<>>
           /\ e.fam = "legacy" => e.key[2] \in {r.ends[1], r.ends[2]}
           /\ e.fam = "typed" => e.key[2] \in {r.ends[1], r.ends[2]} /\ e.key[4] \in {r.ends[1], r.ends[2]}
<1>2. e.fam = "typed" => e \in TypedEntries(i, r)
  BY FamilyParts
<1>3. e.fam = "legacy" => e \in LegacyEntries(i, r)
  BY FamilyParts
<1>4. e.fam = "typed" \/ e.fam = "legacy"
  BY DEF Linked
<1>5. ASSUME e.fam = "typed"
      PROVE  r.ends # <<>> /\ e.key[2] \in {r.ends[1], r.ends[2]} /\ e.key[4] \in {r.ends[1], r.ends[2]}
  BY <1>2, <1>5 DEF TypedEntries, Entry
<1>6. ASSUME e.fam = "legacy" PROVE r.ends # <<>> /\ e.key[2] \in {r.ends[1], r.ends[2]}
  BY <1>3, <1>6 DEF LegacyEntries, Entry
<1> QED
  BY <1>4, <1>5, <1>6

(* And of a deleted node that nothing mentions it.                          *)
LEMMA CoreUnreachable == CoreInv => DeletedNodeUnreachable
<1> SUFFICES ASSUME CoreInv, NEW n \in Nodes, job.phase = "end", job.chunks = <<Erase(n)>>
             PROVE  /\ ws.rec[n] = Absent /\ Incident(ws, n) = {}
                    /\ \A e \in ws.der : /\ e.fam = "legacy" => e.key[2] # n
                                         /\ e.fam = "typed" => n \notin {e.key[2], e.key[4]}
  BY DEF DeletedNodeUnreachable
<1>1. PICK x : x = Erase(n)
  OBVIOUS
<1>2. job.chunks # <<>> /\ Last(job.chunks) = Erase(n) /\ Range(job.chunks) = {Erase(n)}
  <2>1. job.chunks = <<x>>
    BY <1>1
  <2>2. <<x>> # <<>> /\ Last(<<x>>) = x /\ Range(<<x>>) = {x}
    BY Singleton DEF Last
  <2> QED
    BY <1>1, <2>1, <2>2
<1>3. ws.rec[n] = Absent /\ \A e \in Incident(ws, n) : Erase(e) \in Range(job.chunks)
  BY <1>2 DEF CoreInv, DeletingOK
<1>4. Incident(ws, n) = {}
  <2> SUFFICES ASSUME NEW e \in Incident(ws, n) PROVE FALSE
    OBVIOUS
  <2>1. e = n
    BY <1>2, <1>3, EraseOne
  <2> QED
    BY <2>1, ConstantAssumptions DEF Incident
<1>5. ASSUME NEW e \in ws.der, e.fam \in Linked
      PROVE  /\ e.fam = "legacy" => e.key[2] # n
             /\ e.fam = "typed" => n \notin {e.key[2], e.key[4]}
  <2>1. Describes(ws, e)
    BY <1>5 DEF CoreInv, StructureInv, Described, Watched, Excused, Linked, Families, PropertyFamilies, CompositeFamilies
  <2>2. PICK i, r : i = e.id /\ r = ws.rec[e.id]
    OBVIOUS
  <2>3. r # Absent /\ e \in AllEntries(i, r) /\ i \in Ids
    BY <2>1, <2>2 DEF Describes, CoreInv, ScopeInv, IsStore
  <2>4. /\ r.ends # <<>>
        /\ e.fam = "legacy" => e.key[2] \in {r.ends[1], r.ends[2]}
        /\ e.fam = "typed" => e.key[2] \in {r.ends[1], r.ends[2]} /\ e.key[4] \in {r.ends[1], r.ends[2]}
    BY <1>5, <2>3, EndsMentioned
  <2>5. i \in Edges
    BY <2>2, <2>3, <2>4 DEF CoreInv, ScopeInv, IsStore, Ids
  <2>6. n \notin {r.ends[1], r.ends[2]}
    BY <1>4, <2>2, <2>3, <2>5 DEF Incident
  <2> QED
    BY <2>4, <2>6
<1>6. \A e \in ws.der : e.fam = "legacy" \/ e.fam = "typed" => e.fam \in Linked
  BY DEF Linked
<1> QED
  BY <1>3, <1>4, <1>5, <1>6

(* EntriesDescribeRecords: at no point, whatever the operation and wherever *)
(* it dies, does an index or adjacency entry describe a record that is not  *)
(* there, in the committed store or in the one being written.               *)
THEOREM NoDanglingEntries == Spec => []EntriesDescribeRecords
BY CoreInvariant, CoreDescribes, PTL

(* DeletedNodeUnreachable: when delete_node completes, no edge record, typed *)
(* adjacency entry or legacy list leads to the node.                        *)
THEOREM DeletionComplete == Spec => []DeletedNodeUnreachable
BY CoreInvariant, CoreUnreachable, PTL


-----------------------------------------------------------------------------
(* What lookups need of a store.                                            *)

(* Label lookups, property and range lookups, typed adjacency.              *)
Lookups == {"label", "value", "typed"}

(* The entries they need of a record, and the marks that excuse their lack. *)
Wanted(s, f, i) ==
    IF f = "label" THEN LabelEntries(i, s.rec[i])
    ELSE IF f = "value" THEN ValueEntries(i, s.rec[i], s.cfg[KindOf(i)]) ELSE TypedEntries(i, s.rec[i])
MarksOf(f) == IF f = "label" THEN {"label"} ELSE IF f = "value" THEN {"property", "created"} ELSE {"typed"}
Waived(s, f, i) == \E m \in MarksOf(f) : <<KindOf(i), m>> \in s.stale \cup s.torn
Covered(s, f, i) == Waived(s, f, i) \/ Wanted(s, f, i) \subseteq s.der
Covers(s, f, X) == \A i \in Present(s) \ X : Covered(s, f, i)

(* The phases in which the entries of the head chunk are not there yet, and *)
(* those in which a deferred load has not marked their lack yet.            *)
Unwritten(f) ==
    IF f = "label" THEN Writing \ {"range", "legacy"}
    ELSE IF f = "value" THEN Writing \ {"legacy"} ELSE Writing \ {"index", "range", "legacy"}
Postponed(f) ==
    IF f = "label" THEN Writing \cup {"mark_label"} ELSE IF f = "value" THEN Writing \cup Marking ELSE {}

(* What an operation in flight still owes.                                  *)
Heads(j) == {x.id : x \in Range(Head(j.chunks))}
Gap(j, f) ==
    (IF j.phase \in Unwritten(f) THEN Heads(j) ELSE {})
    \cup IF j.defer /\ j.phase \in Postponed(f) THEN OfKind(KindOf(Head(j.chunks)[1].id)) ELSE {}

(* Between the two writes of a chunk's index entries.                       *)
HalfIndexed(s, j) ==
    j.phase = "range" =>
        \A x \in Range(Head(j.chunks)) : PropertyEntries(x.id, x.rec, s.cfg[KindOf(x.id)]) \subseteq s.der

(* How far a rebuild has got.                                               *)
RebuiltOK(s, j) ==
    \A i \in Present(s) \cap OfKind(j.kind) :
        /\ j.phase \in {"ranges", "clear_label"} /\ j.labels => LabelEntries(i, s.rec[i]) \subseteq s.der
        /\ j.phase = "ranges" => PropertyEntries(i, s.rec[i], j.props) \subseteq s.der
        /\ j.phase \in {"clear_label", "clear_property", "config"} =>
              ValueEntries(i, s.rec[i], j.props) \subseteq s.der

(* It clears the marks of what it rebuilt.                                  *)
ClearingSound(s, j) ==
    /\ j.phase = "clear_label" => j.labels
    /\ j.phase = "clear_property" => s.cfg[j.kind] \subseteq j.props

IndexInv ==
    Plain(dep) =>
        /\ \A f \in Lookups : Covers(ws, f, Gap(job, f)) /\ (scope # "none" => Covers(db, f, {}))
        /\ HalfIndexed(ws, job) /\ RebuiltOK(ws, job) /\ ClearingSound(ws, job)

CountsInv == dep.transactional => CountsMatch(handle, db)

-----------------------------------------------------------------------------
(* A store in which nothing is owed: lookups agree with scans.              *)

(* The lookup families, and the marks each of them looks at.                *)
Served(fams, f) ==
    \/ f = "label" /\ fams = {"label"}
    \/ f = "value" /\ fams \in {PropertyFamilies, CompositeFamilies}
    \/ f = "typed" /\ fams = {"typed"}

(* The kind of an id.                                                       *)
LEMMA KindsOf ==
    ASSUME NEW i \in Ids
    PROVE  KindOf(i) \in Kinds /\ \A k \in Kinds : i \in OfKind(k) <=> KindOf(i) = k
BY ConstantAssumptions DEF KindOf, Kinds, OfKind, Ids

(* The entries wanted are all that a scan finds of those families.          *)
LEMMA WantedAll ==
    ASSUME NEW s, NEW fams, NEW f, Served(fams, f), NEW i, NEW e, e.fam \in fams
    PROVE  e \in Wanted(s, f, i) <=> e \in IndexEntries(i, s.rec[i], s.cfg[KindOf(i)]) \cup TypedEntries(i, s.rec[i])
<1>1. PICK r, P : r = s.rec[i] /\ P = s.cfg[KindOf(i)]
  OBVIOUS
<1>2. IndexEntries(i, r, P) = LabelEntries(i, r) \cup ValueEntries(i, r, P)
  BY EntryParts
<1>3. e \in LabelEntries(i, r) => e.fam = "label"
  BY EntryShapes
<1>4. e \in TypedEntries(i, r) => e.fam = "typed"
  BY EntryShapes
<1>5. e \in ValueEntries(i, r, P) => e.fam \in Families
  BY ValueShapes
<1> QED
  BY <1>1, <1>2, <1>3, <1>4, <1>5 DEF Served, Wanted, Families, PropertyFamilies, CompositeFamilies

(* Where nothing is owed and nothing marked, lookups and scans agree.       *)
LEMMA Agreement ==
    ASSUME NEW d, Plain(d), NEW s, IsStore(s), Described(d, s), NEW fams, NEW f, Served(fams, f), Covers(s, f, {}),
           NEW k \in Kinds, \A m \in MarksOf(f) : <<k, m>> \notin s.stale \cup s.torn
    PROVE  Agree(s, k, fams)
<1>1. ASSUME NEW e \in Looked(s, k, fams) PROVE e \in Scan(s, k, fams)
  <2>1. /\ e \in s.der /\ e.fam \in fams /\ KindOf(e.id) = k /\ e.id \in Ids
        /\ e.fam \in Families => EntryProp(e) \in s.cfg[k]
    BY <1>1 DEF Looked, IsStore, Families
  <2>2. ~Excused(s, e)
    BY <2>1 DEF Excused, Served, MarksOf, Families, PropertyFamilies, CompositeFamilies
  <2>3. Describes(s, e)
    BY <2>1, <2>2 DEF Described, Watched
  <2>4. PICK i, r : i = e.id /\ r = s.rec[i]
    OBVIOUS
  <2>5. e \in AllEntries(i, r) /\ i \in Present(s) \cap OfKind(k) /\ KindOf(i) = k
    BY <2>1, <2>3, <2>4, KindsOf DEF Describes, Present
  <2>6. e \in LabelEntries(i, r) \cup ValueEntries(i, r, s.cfg[k]) \cup TypedEntries(i, r)
    <3>1. e.fam = "label" => e \in LabelEntries(i, r)
      BY <2>5, FamilyParts
    <3>2. e.fam = "typed" => e \in TypedEntries(i, r)
      BY <2>5, FamilyParts
    <3>3. e.fam \in Families => e \in ValueEntries(i, r, s.cfg[k])
      <4>1. e.fam \in Families => e \in ValueEntries(i, r, Props)
        BY <2>5, FamilyParts
      <4> QED
        BY <2>1, <4>1, Narrowed
    <3> QED
      BY <2>1, <3>1, <3>2, <3>3 DEF Served, Families
  <2>7. e \in IndexEntries(i, r, s.cfg[k]) \cup TypedEntries(i, r)
    BY <2>6, EntryParts
  <2> QED
    BY <2>1, <2>4, <2>5, <2>7 DEF Scan
<1>2. ASSUME NEW e \in Scan(s, k, fams) PROVE e \in Looked(s, k, fams)
  <2>1. PICK i \in Present(s) \cap OfKind(k) : e \in IndexEntries(i, s.rec[i], s.cfg[k]) \cup TypedEntries(i, s.rec[i])
    BY <1>2 DEF Scan
  <2>2. e.fam \in fams /\ i \in Ids /\ KindOf(i) = k
    BY <1>2, <2>1, KindsOf DEF Scan, Present
  <2>3. e \in Wanted(s, f, i)
    BY <2>1, <2>2, WantedAll
  <2>4. e \in s.der
    BY <2>1, <2>2, <2>3 DEF Covers, Covered, Waived
  <2>5. PICK r, P : r = s.rec[i] /\ P = s.cfg[k]
    OBVIOUS
  <2>6. e \in LabelEntries(i, r) \/ e \in ValueEntries(i, r, P) \/ e \in TypedEntries(i, r)
    BY <2>1, <2>5, EntryParts
  <2>7. e.id = i /\ (e.fam \in Families => EntryProp(e) \in P)
    <3>1. e \in LabelEntries(i, r) => e.id = i /\ e.fam = "label"
      BY EntryShapes
    <3>2. e \in TypedEntries(i, r) => e.id = i /\ e.fam = "typed"
      BY EntryShapes
    <3>3. e \in ValueEntries(i, r, P) => e.id = i /\ EntryProp(e) \in P
      BY ValueShapes
    <3> QED
      BY <2>6, <3>1, <3>2, <3>3 DEF Families, PropertyFamilies, CompositeFamilies
  <2> QED
    BY <2>2, <2>4, <2>5, <2>7 DEF Looked, Families
<1> QED
  BY <1>1, <1>2 DEF Agree, Looked, Scan

(* All the lookups of a store.                                              *)
LEMMA AllAgree ==
    ASSUME NEW d, Plain(d), NEW s, IsStore(s), Described(d, s), \A f \in Lookups : Covers(s, f, {})
    PROVE  IndexesAgree(s)
<1> SUFFICES ASSUME NEW k \in Kinds
             PROVE  /\ Trusted(s, k, {"label"}) => Agree(s, k, {"label"})
                    /\ Trusted(s, k, {"property", "created"}) => Agree(s, k, PropertyFamilies)
                    /\ Trusted(s, k, {"label", "property", "created"}) => Agree(s, k, CompositeFamilies)
                    /\ Trusted(s, k, {"typed"}) => Agree(s, k, {"typed"})
  BY DEF IndexesAgree
<1>1. Served({"label"}, "label") /\ Served(PropertyFamilies, "value") /\ Served(CompositeFamilies, "value") /\ Served({"typed"}, "typed")
  BY DEF Served
<1>2. Covers(s, "label", {}) /\ Covers(s, "value", {}) /\ Covers(s, "typed", {})
  BY DEF Lookups
<1>3. Trusted(s, k, {"label"}) => Agree(s, k, {"label"})
  BY <1>1, <1>2, Agreement DEF Trusted, MarksOf
<1>4. Trusted(s, k, {"property", "created"}) => Agree(s, k, PropertyFamilies)
  BY <1>1, <1>2, Agreement DEF Trusted, MarksOf
<1>5. Trusted(s, k, {"label", "property", "created"}) => Agree(s, k, CompositeFamilies)
  BY <1>1, <1>2, Agreement DEF Trusted, MarksOf
<1>6. Trusted(s, k, {"typed"}) => Agree(s, k, {"typed"})
  BY <1>1, <1>2, Agreement DEF Trusted, MarksOf
<1> QED
  BY <1>3, <1>4, <1>5, <1>6

-----------------------------------------------------------------------------
(* How cover carries over.                                                  *)

(* An id whose record and marks stay, and whose entries do.                 *)
Undisturbed(s, t, f, i) ==
    /\ t.rec[i] = s.rec[i] /\ (f = "value" => t.cfg[KindOf(i)] = s.cfg[KindOf(i)])
    /\ Waived(s, f, i) => Waived(t, f, i)
    /\ \A e \in s.der : e \in t.der \/ e.id # i \/ e.fam = "legacy"

(* It stays covered.                                                        *)
LEMMA StillCovered ==
    ASSUME NEW s, NEW t, NEW f, NEW i, Undisturbed(s, t, f, i), Covered(s, f, i)
    PROVE  Covered(t, f, i)
<1>1. Wanted(t, f, i) = Wanted(s, f, i)
  BY DEF Undisturbed, Wanted
<1>2. Waived(s, f, i) => Waived(t, f, i)
  BY DEF Undisturbed, Waived
<1>3. \A e \in Wanted(s, f, i) : e.id = i /\ e.fam # "legacy"
  <2>1. PICK r, P : r = s.rec[i] /\ P = s.cfg[KindOf(i)]
    OBVIOUS
  <2>2. \A e \in LabelEntries(i, r) : e.id = i /\ e.fam = "label"
    BY EntryShapes
  <2>3. \A e \in TypedEntries(i, r) : e.id = i /\ e.fam = "typed"
    BY EntryShapes
  <2>4. \A e \in ValueEntries(i, r, P) : e.id = i /\ e.fam \in Families
    BY ValueShapes
  <2> QED
    BY <2>1, <2>2, <2>3, <2>4 DEF Wanted, Families, PropertyFamilies, CompositeFamilies
<1> QED
  BY <1>1, <1>2, <1>3 DEF Undisturbed, Covered

(* A step covers what was covered and what it was owed.                     *)
LEMMA CoversOn ==
    ASSUME NEW s, NEW t, NEW f, NEW X, NEW Y, Covers(s, f, X),
           \A i \in Present(t) \ Y : \/ i \notin X /\ i \in Present(s) /\ Undisturbed(s, t, f, i)
                                     \/ Covered(t, f, i)
    PROVE  Covers(t, f, Y)
BY StillCovered DEF Covers

-----------------------------------------------------------------------------
(* The steps of a write.                                                    *)

(* Where a job goes when it is done with a chunk.                           *)
LEMMA NextShape ==
    ASSUME NEW s, NEW j \in Jobs, j.chunks # <<>>, NEW r, r = NextChunk(s, j)
    PROVE  /\ r.defer = j.defer
           /\ \/ r.phase \in {"untype", "unindex", "record"} /\ r.chunks = Tail(j.chunks) /\ Tail(j.chunks) # <<>>
              \/ r.phase = (IF j.defer THEN "mark_label" ELSE "end") /\ r.chunks = j.chunks
<1>1. /\ j.chunks \in Seq(Chunks) /\ Tail(j.chunks) \in Seq(Chunks)
      /\ (Len(j.chunks) > 1 <=> Tail(j.chunks) # <<>>)
  BY ChunksSplit DEF Jobs
<1>2. CASE Len(j.chunks) > 1
  <2>1. PICK k : k = [j EXCEPT !.chunks = Tail(@)]
    OBVIOUS
  <2>2. k \in Jobs /\ k.chunks = Tail(j.chunks) /\ k.defer = j.defer
    BY <1>1, <2>1 DEF Jobs
  <2>3. r = ReplaceFrom(s, k, 1)
    BY <1>2, <2>1 DEF NextChunk
  <2>4. 1 \in Nat /\ 1 >= 1
    OBVIOUS
  <2>5. Resumed(s.rec, k, 1, r)
    BY <1>1, <1>2, <2>2, <2>3, <2>4, ReplaceEffect
  <2> QED
    BY <1>1, <1>2, <2>2, <2>5 DEF Resumed
<1>3. CASE ~(Len(j.chunks) > 1)
  BY <1>3 DEF NextChunk, Jobs
<1> QED
  BY <1>2, <1>3

(* A deferred load owes its whole kind until it is marked.                  *)
LEMMA NextGap ==
    ASSUME CoreInv, job.phase \in Writing, job.defer, NEW s, job' = NextChunk(s, job),
           NEW f, f = "label" \/ f = "value", NEW i \in Ids, i \notin Gap(job', f)
    PROVE  KindOf(i) # KindOf(Chunk[1].id)
<1>1. job \in Jobs /\ job.chunks # <<>> /\ job.chunks \in Seq(Chunks) /\ Uniform(job) /\ Chunk = Head(job.chunks)
  BY WriterFacts
<1>2. PICK r : r = job'
  OBVIOUS
<1>3. /\ r.defer
      /\ \/ r.phase \in {"untype", "unindex", "record"} /\ r.chunks = Tail(job.chunks) /\ Tail(job.chunks) # <<>>
         \/ r.phase = "mark_label" /\ r.chunks = job.chunks
  BY <1>1, <1>2, NextShape
<1>4. r.phase \in Postponed(f)
  BY <1>3 DEF Postponed, Writing, Clearing, Marking
<1>5. KindOf(Head(r.chunks)[1].id) = KindOf(Head(job.chunks)[1].id)
  <2>1. Head(job.chunks) \in Range(job.chunks)
    BY <1>1, ChunksSplit
  <2>2. ASSUME Tail(job.chunks) # <<>> PROVE Head(Tail(job.chunks)) \in Range(job.chunks)
    <3>1. Tail(job.chunks) \in Seq(Chunks) /\ Range(Tail(job.chunks)) \subseteq Range(job.chunks)
      BY <1>1, ChunksSplit
    <3>2. Head(Tail(job.chunks)) \in Range(Tail(job.chunks))
      BY <2>2, <3>1, ChunksSplit
    <3> QED
      BY <3>1, <3>2
  <2>3. \A b, c \in Range(job.chunks) : KindOf(b[1].id) = KindOf(c[1].id)
    BY <1>1 DEF Uniform
  <2>4. Head(r.chunks) \in Range(job.chunks)
    BY <1>3, <2>1, <2>2
  <2>5. PICK b, c : b = Head(r.chunks) /\ c = Head(job.chunks)
    OBVIOUS
  <2>6. KindOf(b[1].id) = KindOf(c[1].id)
    BY <2>1, <2>3, <2>4, <2>5
  <2> QED
    BY <2>5, <2>6
<1>6. i \notin OfKind(KindOf(Head(r.chunks)[1].id))
  BY <1>2, <1>3, <1>4 DEF Gap
<1>7. KindOf(Head(r.chunks)[1].id) \in Kinds
  BY DEF KindOf, Kinds
<1> QED
  BY <1>1, <1>5, <1>6, <1>7, KindsOf

(* Records are written either with their indexes or deferring them.         *)
LEMMA DeferredFacts ==
    ASSUME CoreInv, job.phase \in Writing, NEW x \in Items, x.rec # Absent
    PROVE  job.defer <=> ~job.maintain
<1>1. Uniform(job) /\ job.chunks # <<>> /\ Chunk \in Range(job.chunks) /\ Items = Range(Chunk)
  BY WriterFacts
<1>2. ~Erasing(job)
  <2> SUFFICES ASSUME Erasing(job) PROVE FALSE
    OBVIOUS
  <2>1. PICK i \in Ids : Chunk = Erase(i)
    BY <1>1 DEF Erasing
  <2>2. PICK y : y = [id |-> i, rec |-> Absent]
    OBVIOUS
  <2>3. Items = {y}
    BY <1>1, <2>1, <2>2, Singleton DEF Erase
  <2> QED
    BY <2>2, <2>3
<1> QED
  BY <1>1, <1>2 DEF Uniform

(* What is owed while a chunk is written.                                   *)
LEMMA WritingGap ==
    ASSUME CoreInv, job.phase \in Writing, NEW f \in Lookups, NEW i \in Ids
    PROVE  i \in Gap(job, f) <=> \/ job.phase \in Unwritten(f) /\ \E x \in Items : x.id = i
                                 \/ job.defer /\ f # "typed" /\ KindOf(i) = KindOf(Chunk[1].id)
<1>1. Chunk = Head(job.chunks) /\ Items = Range(Chunk)
  BY WriterFacts
<1>2. Heads(job) = {x.id : x \in Items}
  BY <1>1 DEF Heads
<1>3. KindOf(Chunk[1].id) \in Kinds
  BY DEF KindOf, Kinds
<1>4. i \in OfKind(KindOf(Chunk[1].id)) <=> KindOf(i) = KindOf(Chunk[1].id)
  BY <1>3, KindsOf
<1>5. job.phase \in Postponed(f) <=> f # "typed"
  BY DEF Postponed, Lookups
<1> QED
  BY <1>1, <1>2, <1>4, <1>5 DEF Gap

(* A job on the same chunk owes the same, by its phase.                     *)
LEMMA SameChunkGap ==
    ASSUME NEW j, NEW r, NEW f \in Lookups, r.chunks = j.chunks, r.defer = j.defer,
           j.phase \in Unwritten(f) => r.phase \in Unwritten(f),
           j.phase \in Postponed(f) => r.phase \in Postponed(f)
    PROVE  Gap(j, f) \subseteq Gap(r, f)
BY DEF Gap, Heads

(* Unindexing disturbs what is owed only.                                   *)
LEMMA ClearingCovers ==
    ASSUME CoreInv, IndexInv, Plain(dep), NEW f \in Lookups, DeleteTypedAdjacency \/ DeleteIndexes \/ RemoveFromAdjacencies
    PROVE  Covers(ws', f, Gap(job', f))
<1>1. job.phase \in Clearing /\ job.phase \in Writing
  BY DEF DeleteTypedAdjacency, DeleteIndexes, RemoveFromAdjacencies, Step, Clearing, Writing
<1>2. IsStore(ws) /\ Old.id \in Ids /\ Old.id = Chunk[job.n].id /\ job.n \in DOMAIN Chunk /\ Items = Range(Chunk)
  BY <1>1, WriterFacts, OldFacts
<1>3. PICK E : ws' = Drop(E) /\ \A e \in E : e.id = Old.id
  <2>1. PICK i, r, P : i = Old.id /\ r = Old.rec /\ P = Indexed(Old.id)
    OBVIOUS
  <2>2. CASE DeleteTypedAdjacency
    <3>1. \A e \in TypedEntries(i, r) : e.id = i
      BY EntryShapes
    <3> QED
      BY <2>1, <2>2, <3>1 DEF DeleteTypedAdjacency, Write
  <2>3. CASE DeleteIndexes
    <3>1. \A e \in IndexEntries(i, r, P) : e.id = i
      <4>1. IndexEntries(i, r, P) = LabelEntries(i, r) \cup ValueEntries(i, r, P)
        BY EntryParts
      <4> QED
        BY <4>1, EntryShapes, ValueShapes
    <3> QED
      BY <2>1, <2>3, <3>1 DEF DeleteIndexes, Write, Unindexed
  <2>4. CASE RemoveFromAdjacencies
    <3>1. \A e \in LegacyEntries(i, r) : e.id = i
      BY EntryShapes
    <3> QED
      BY <2>1, <2>4, <3>1 DEF RemoveFromAdjacencies, Write
  <2> QED
    BY <2>2, <2>3, <2>4
<1>4. Loses(ws, E, ws')
  BY <1>2, <1>3, DropAdd DEF Loses
<1>5. ws'.rec = ws.rec /\ ws'.der = ws.der \ E /\ ws'.torn = ws.torn /\ ws'.cfg = ws.cfg /\ ws'.stale = ws.stale
  BY <1>2, <1>4, Shrunk
<1>6. Gap(job, f) \subseteq Gap(job', f)
  <2>1. job'.chunks = job.chunks /\ job'.phase \in Clearing \cup {"record"} /\ job'.defer = job.defer
    BY ClearingStays, StepKept DEF Kept, SameJob, WriteStep
  <2>2. job'.phase \in Unwritten(f) /\ (f # "typed" => job'.phase \in Postponed(f)) /\ (f = "typed" => Postponed(f) = {})
    BY <2>1 DEF Unwritten, Postponed, Lookups, Writing, Clearing, Adding
  <2> QED
    BY <2>1, <2>2, SameChunkGap
<1>7. Old.id \in Gap(job, f)
  <2>1. job.phase \in Unwritten(f)
    BY <1>1 DEF Unwritten, Writing, Clearing, Adding
  <2>2. \E x \in Items : x.id = Old.id
    BY <1>2 DEF Range
  <2> QED
    BY <1>1, <1>2, <2>1, <2>2, WritingGap
<1>8. PICK t : t = ws'
  OBVIOUS
<1>9. ASSUME NEW i \in Present(t) \ Gap(job', f) PROVE i \notin Gap(job, f) /\ i \in Present(ws) /\ Undisturbed(ws, t, f, i)
  <2>1. i \notin Gap(job, f) /\ i # Old.id
    BY <1>6, <1>7, <1>9
  <2>2. i \in Present(ws)
    BY <1>5, <1>8, <1>9 DEF Present
  <2>3. Undisturbed(ws, t, f, i)
    BY <1>3, <1>5, <1>8, <2>1 DEF Undisturbed, Waived
  <2> QED
    BY <2>1, <2>2, <2>3
<1>10. Covers(ws, f, Gap(job, f))
  BY DEF IndexInv
<1>11. PICK X, Y : X = Gap(job, f) /\ Y = Gap(job', f)
  OBVIOUS
<1> QED
  BY <1>8, <1>9, <1>10, <1>11, CoversOn

(* Writing records: the chunk is owed, what it replaced is not.             *)
LEMMA RecordCovers ==
    ASSUME CoreInv, IndexInv, Plain(dep), NEW f \in Lookups, PutRecords
    PROVE  Covers(ws', f, Gap(job', f))
<1>1. job.phase = "record" /\ job.phase \in Writing /\ job.phase \in Unwritten(f)
  BY DEF PutRecords, Step, Unwritten, Writing
<1>2. /\ job \in Jobs /\ job.chunks # <<>> /\ Chunk = Head(job.chunks) /\ Items = Range(Chunk)
      /\ \A x \in Items : x.id \in Ids /\ KindOf(x.id) = KindOf(Chunk[1].id)
      /\ Chunk[1] \in Items
  BY <1>1, WriterFacts, ItemFacts
<1>3. PICK t : t = ws'
  OBVIOUS
<1>4. Overwrites(ws, Items, t) /\ Recorded(t, job, job')
  BY <1>3, RecordEffect
<1>5. IsStore(t)
  BY <1>3, RecordStep DEF Kept
<1>6. ASSUME NEW i \in Present(t) \ Gap(job', f), i \notin Gap(job, f)
      PROVE  i \in Present(ws) /\ Undisturbed(ws, t, f, i)
  <2>1. i \in Ids /\ \A x \in Items : x.id # i
    BY <1>1, <1>6, WritingGap DEF Present
  <2>2. t.rec[i] = ws.rec[i] /\ t.cfg = ws.cfg /\ t.stale = ws.stale /\ t.torn = ws.torn
        /\ \A e \in ws.der : e \in t.der \/ e.fam = "legacy"
    BY <1>4, <2>1 DEF Overwrites
  <2> QED
    BY <1>6, <2>1, <2>2 DEF Present, Undisturbed, Waived
<1>7. ASSUME NEW i \in Present(t) \ Gap(job', f), i \in Gap(job, f) PROVE Covered(t, f, i)
  <2>1. i \in Ids /\ t.rec[i] # Absent /\ i \notin Gap(job', f)
    BY <1>7 DEF Present
  <2>2. KindOf(i) = KindOf(Chunk[1].id)
    BY <1>1, <1>2, <1>7, <2>1, WritingGap
  <2>3. ASSUME \E x \in Items : x.rec = Absent PROVE FALSE
    <3>1. ~job.defer /\ \A x \in Items : x.rec = Absent
      BY <1>1, <2>3, ItemFacts
    <3>2. PICK x \in Items : x.id = i
      BY <1>1, <1>7, <2>1, <3>1, WritingGap
    <3> QED
      BY <1>4, <2>1, <3>1, <3>2 DEF Overwrites
  <2>4. ASSUME Chunk[1].id \notin Edges, f = "typed" PROVE Covered(t, f, i)
    <3>1. i \in Nodes
      <4>1. Chunk[1].id \in Nodes
        BY <1>2, <2>4 DEF Ids
      <4> QED
        BY <2>1, <2>2, <4>1, ConstantAssumptions DEF KindOf, Ids
    <3>2. PICK r : r = t.rec[i]
      OBVIOUS
    <3>3. r.ends = <<>>
      BY <1>5, <2>1, <3>1, <3>2 DEF IsStore
    <3>4. TypedEntries(i, r) = {}
      BY <3>3, EntryParts
    <3> QED
      BY <2>4, <3>2, <3>4 DEF Covered, Wanted
  <2>5. CASE Phased(job, "typed", job')
    <3>1. job'.phase \in Unwritten(f) /\ (f # "typed" => job'.phase \in Postponed(f)) /\ (f = "typed" => Postponed(f) = {})
      BY <2>5 DEF Phased, Unwritten, Postponed, Lookups, Writing, Clearing, Adding
    <3>2. Gap(job, f) \subseteq Gap(job', f)
      BY <2>5, <3>1, SameChunkGap DEF Phased, SameJob
    <3> QED
      BY <1>7, <2>1, <3>2
  <2>6. CASE Chunk[1].id \notin Edges /\ Phased(job, "index", job')
    <3>1. CASE f = "typed"
      BY <2>4, <2>6, <3>1
    <3>2. CASE f # "typed"
      <4>1. job'.phase \in Unwritten(f) /\ job'.phase \in Postponed(f)
        BY <2>6, <3>2 DEF Phased, Unwritten, Postponed, Lookups, Writing, Clearing, Adding
      <4>2. Gap(job, f) \subseteq Gap(job', f)
        BY <2>6, <4>1, SameChunkGap DEF Phased, SameJob
      <4> QED
        BY <1>7, <2>1, <4>2
    <3> QED
      BY <3>1, <3>2
  <2>7. CASE Chunk[1].id \notin Edges /\ ~job.maintain /\ job' = NextChunk(t, job) /\ \A x \in Items : x.rec # Absent
    <3>1. job.defer
      BY <1>1, <1>2, <2>7, DeferredFacts
    <3>2. CASE f = "typed"
      BY <2>4, <2>7, <3>2
    <3>3. CASE f # "typed"
      BY <1>1, <2>1, <2>2, <2>7, <3>1, <3>3, NextGap DEF Lookups
    <3> QED
      BY <3>2, <3>3
  <2> QED
    BY <1>2, <1>4, <2>3, <2>5, <2>6, <2>7 DEF Recorded
<1>8. Covers(ws, f, Gap(job, f))
  BY DEF IndexInv
<1>9. PICK X, Y : X = Gap(job, f) /\ Y = Gap(job', f)
  OBVIOUS
<1> QED
  BY <1>3, <1>6, <1>7, <1>8, <1>9, CoversOn

(* Entries of a chunk that were written are no longer owed.                 *)
LEMMA AddCovers ==
    ASSUME CoreInv, IndexInv, Plain(dep), NEW f \in Lookups, AddStep
    PROVE  Covers(ws', f, Gap(job', f)) /\ HalfIndexed(ws', job')
<1>0. /\ job.phase \in Adding
      /\ \/ /\ job.phase = "typed" /\ job.maintain /\ Phased(job, "index", job')
         \/ /\ job.phase = "index" /\ job.maintain /\ Phased(job, "range", job')
         \/ /\ job.phase = "range" /\ job.maintain /\ Phased(job, "legacy", job')
         \/ /\ job.phase # "index" /\ job' = NextChunk(ws, job)
            /\ job.phase = "typed" => ~job.maintain
  BY AddEffect
<1>1. job.phase \in Writing
  BY <1>0 DEF Writing
<1>2. /\ IsStore(ws) /\ job \in Jobs /\ job.chunks # <<>> /\ Chunk = Head(job.chunks) /\ Items = Range(Chunk)
      /\ \A x \in Items : x.id \in Ids /\ KindOf(x.id) = KindOf(Chunk[1].id)
      /\ ws.cfg = Session.indexed /\ Chunk[1] \in Items
  BY <1>1, WriterFacts, ItemFacts
<1>3. \A x \in Items : x.rec # Absent /\ ws.rec[x.id] = x.rec /\ Indexed(x.id) = ws.cfg[KindOf(x.id)]
  BY <1>0, <1>2 DEF CoreInv, StructureInv, JobOK, Indexed
<1>4. job.defer <=> ~job.maintain
  BY <1>1, <1>2, <1>3, DeferredFacts
<1>5. job.phase \in {"index", "range", "legacy"} => job.maintain
  BY DEF CoreInv, StructureInv, JobOK
<1>6. PICK t, E : t = ws' /\ E = Added
  OBVIOUS
<1>7. t.rec = ws.rec /\ t.der = ws.der \cup E /\ t.torn = ws.torn /\ t.cfg = ws.cfg /\ t.stale = ws.stale
  <2>1. Gains(ws, E, t)
    BY <1>6, AddEffect
  <2> QED
    BY <1>2, <2>1, Grown
<1>8. ASSUME NEW i \in Present(t) \ Gap(job', f), i \notin Gap(job, f)
      PROVE  i \in Present(ws) /\ Undisturbed(ws, t, f, i)
  BY <1>7, <1>8 DEF Present, Undisturbed, Waived
<1>9. HalfIndexed(ws, job)
  BY DEF IndexInv
<1>10. ASSUME NEW i \in Present(t) \ Gap(job', f), i \in Gap(job, f) PROVE Covered(t, f, i)
  <2>1. i \in Ids /\ i \notin Gap(job', f) /\ KindOf(i) = KindOf(Chunk[1].id)
    <3>1. i \in Ids
      BY <1>10 DEF Present
    <3> QED
      BY <1>1, <1>2, <1>10, <3>1, WritingGap
  <2>2. ASSUME job' = NextChunk(ws, job), job.defer, f # "typed" PROVE FALSE
    BY <1>1, <2>1, <2>2, NextGap DEF Lookups
  <2>3. ASSUME NEW p \in Writing, Phased(job, p, job') PROVE ~(p \in Unwritten(f))
    <3> SUFFICES ASSUME p \in Unwritten(f) PROVE FALSE
      OBVIOUS
    <3>1. job'.phase \in Unwritten(f) /\ (job.phase \in Postponed(f) => job'.phase \in Postponed(f))
      BY <2>3 DEF Phased, Postponed
    <3>2. Gap(job, f) \subseteq Gap(job', f)
      BY <2>3, <3>1, SameChunkGap DEF Phased, SameJob
    <3> QED
      BY <1>10, <2>1, <3>2
  <2>5. CASE f = "typed"
    <3>1. PICK x \in Items : x.id = i /\ job.phase \in Unwritten(f)
      BY <1>1, <1>10, <2>1, <2>5, WritingGap
    <3>2. job.phase = "typed"
      BY <1>0, <2>5, <3>1 DEF Unwritten, Adding
    <3>3. TypedEntries(x.id, x.rec) \subseteq E
      BY <1>6, <3>2 DEF Added
    <3> QED
      BY <1>3, <1>7, <2>5, <3>1, <3>3 DEF Covered, Wanted
  <2>6. CASE f = "label"
    <3>1. ~job.defer
      BY <1>0, <1>4, <1>5, <2>2, <2>6
    <3>2. PICK x \in Items : x.id = i /\ job.phase \in Unwritten(f)
      BY <1>1, <1>10, <2>1, <3>1, WritingGap
    <3>3. job.phase = "index"
      <4>1. "index" \in Writing /\ "index" \in Unwritten(f)
        BY <2>6 DEF Unwritten, Writing, Adding
      <4>2. job.phase # "typed"
        BY <1>0, <1>4, <2>3, <3>1, <4>1
      <4> QED
        BY <1>0, <2>6, <3>2, <4>2 DEF Unwritten, Adding
    <3>4. LabelEntries(x.id, x.rec) \subseteq E
      BY <1>6, <3>2, <3>3 DEF Added
    <3> QED
      BY <1>3, <1>7, <2>6, <3>2, <3>4 DEF Covered, Wanted
  <2>7. CASE f = "value"
    <3>1. ~job.defer
      BY <1>0, <1>4, <1>5, <2>2, <2>7
    <3>2. PICK x \in Items : x.id = i /\ job.phase \in Unwritten(f)
      BY <1>1, <1>10, <2>1, <3>1, WritingGap
    <3>3. job.phase = "range"
      <4>1. {"index", "range"} \subseteq Writing \cap Unwritten(f)
        BY <2>7 DEF Unwritten, Writing, Adding
      <4>2. job.phase # "typed" /\ job.phase # "index"
        BY <1>0, <1>4, <2>3, <3>1, <4>1
      <4> QED
        BY <1>0, <2>7, <3>2, <4>2 DEF Unwritten, Adding
    <3>4. RangeEntries(x.id, x.rec, Indexed(x.id)) \subseteq E
      BY <1>6, <3>2, <3>3 DEF Added
    <3>5. PropertyEntries(x.id, x.rec, ws.cfg[KindOf(x.id)]) \subseteq ws.der
      BY <1>2, <1>9, <3>2, <3>3 DEF HalfIndexed
    <3> QED
      BY <1>3, <1>7, <2>7, <3>2, <3>4, <3>5 DEF Covered, Wanted, ValueEntries
  <2> QED
    BY <2>5, <2>6, <2>7 DEF Lookups
<1>11. HalfIndexed(t, job')
  <2> SUFFICES ASSUME job'.phase = "range", NEW x \in Range(Head(job'.chunks))
               PROVE  PropertyEntries(x.id, x.rec, t.cfg[KindOf(x.id)]) \subseteq t.der
    BY DEF HalfIndexed
  <2>1. job' # NextChunk(ws, job)
    <3> SUFFICES ASSUME job' = NextChunk(ws, job) PROVE FALSE
      OBVIOUS
    <3>1. job'.phase \in {"untype", "unindex", "record", "mark_label", "end"}
      BY <1>2, NextShape
    <3> QED
      BY <3>1
  <2>2. job.phase = "index" /\ job'.chunks = job.chunks
    BY <1>0, <2>1 DEF Phased
  <2>3. x \in Items
    BY <1>2, <2>2
  <2>4. PropertyEntries(x.id, x.rec, Indexed(x.id)) \subseteq E
    BY <1>6, <2>2, <2>3 DEF Added
  <2> QED
    BY <1>3, <1>7, <2>3, <2>4
<1>12. Covers(ws, f, Gap(job, f))
  BY DEF IndexInv
<1>13. PICK X, Y : X = Gap(job, f) /\ Y = Gap(job', f)
  OBVIOUS
<1>14. Covers(t, f, Y)
  BY <1>8, <1>10, <1>12, <1>13, CoversOn
<1> QED
  BY <1>6, <1>11, <1>13, <1>14


(* No record has entries for no properties.                                 *)
LEMMA NothingIndexed == ASSUME NEW i, NEW r PROVE ValueEntries(i, r, {}) = {}
<1>1. \A e \in ValueEntries(i, r, {}) : EntryProp(e) \in {}
  BY ValueShapes
<1> QED
  BY <1>1

(* The marks of a deferred load are set where it postponed the entries.     *)
LEMMA MarkCovers ==
    ASSUME CoreInv, IndexInv, Plain(dep), NEW f \in Lookups, MarkStep
    PROVE  Covers(ws', f, Gap(job', f))
<1>1. PICK t, k : t = ws' /\ k = KindOf(Chunk[1].id)
  OBVIOUS
<1>2. /\ job.phase \in Marking /\ job.defer /\ Remarks(ws, t) /\ t.torn = ws.torn
      /\ \/ /\ job.phase = "mark_label" /\ t.stale = ws.stale \cup {<<k, "label">>}
            /\ IF Indexed(Chunk[1].id) # {} THEN Phased(job, "mark_property", job') ELSE Phased(job, "end", job')
         \/ /\ job.phase = "mark_property" /\ t.stale = ws.stale \cup {<<k, "property">>}
            /\ Phased(job, "end", job')
  BY <1>1, MarkStepEffect
<1>3. t.rec = ws.rec /\ t.der = ws.der /\ t.cfg = ws.cfg
  BY <1>2 DEF Remarks
<1>4. k \in Kinds
  BY <1>1 DEF KindOf, Kinds
<1>5. \A i : i \in Gap(job, f) <=> job.phase \in Postponed(f) /\ i \in OfKind(k)
  BY <1>1, <1>2 DEF Gap, Heads, Chunk, Unwritten, Writing, Marking, Clearing, Adding
<1>6. ASSUME NEW i \in Present(t) \ Gap(job', f), i \notin Gap(job, f)
      PROVE  i \in Present(ws) /\ Undisturbed(ws, t, f, i)
  BY <1>2, <1>3, <1>6 DEF Present, Undisturbed, Waived
<1>7. ASSUME NEW i \in Present(t) \ Gap(job', f), i \in Gap(job, f) PROVE Covered(t, f, i)
  <2>1. i \in Ids /\ KindOf(i) = k /\ job.phase \in Postponed(f) /\ i \in OfKind(k)
    BY <1>4, <1>5, <1>7, KindsOf DEF Present
  <2>2. CASE f = "label"
    <3>1. job.phase = "mark_label"
      BY <1>2, <2>1, <2>2 DEF Postponed, Marking, Writing, Clearing, Adding
    <3> QED
      BY <1>2, <2>1, <2>2, <3>1 DEF Covered, Waived, MarksOf
  <2>3. CASE f = "value" /\ job.phase = "mark_property"
    BY <1>2, <2>1, <2>3 DEF Covered, Waived, MarksOf
  <2>4. CASE f = "value" /\ job.phase = "mark_label"
    <3>1. job'.phase # "mark_property"
      <4> SUFFICES ASSUME job'.phase = "mark_property" PROVE FALSE
        OBVIOUS
      <4>1. Phased(job, "mark_property", job')
        BY <1>2, <2>4 DEF Phased
      <4>2. job'.chunks = job.chunks /\ job'.defer
        BY <1>2, <4>1 DEF Phased, SameJob
      <4>3. job'.phase \in Postponed(f)
        BY <2>4 DEF Postponed, Marking
      <4>4. i \in Gap(job', f)
        BY <1>1, <2>1, <4>2, <4>3 DEF Gap, Chunk
      <4> QED
        BY <1>7, <4>4
    <3>2. Indexed(Chunk[1].id) = {}
      BY <1>2, <2>4, <3>1 DEF Phased
    <3>3. ws.cfg = Session.indexed
      BY <2>4 DEF CoreInv, ConfigInv
    <3>4. t.cfg[KindOf(i)] = {}
      BY <1>1, <1>3, <2>1, <3>2, <3>3 DEF Indexed
    <3>5. PICK r : r = t.rec[i]
      OBVIOUS
    <3> QED
      BY <2>4, <3>4, <3>5, NothingIndexed DEF Covered, Wanted
  <2> QED
    BY <1>2, <2>1, <2>2, <2>3, <2>4 DEF Lookups, Postponed, Marking
<1>8. Covers(ws, f, Gap(job, f))
  BY DEF IndexInv
<1>9. PICK X, Y : X = Gap(job, f) /\ Y = Gap(job', f)
  OBVIOUS
<1> QED
  BY <1>1, <1>6, <1>7, <1>8, <1>9, CoversOn

(* A rebuild owes nothing.                                                  *)
LEMMA RebuildGap == ASSUME NEW j \in Jobs, j.phase \notin Writing \cup Marking PROVE \A f \in Lookups : Gap(j, f) = {}
BY DEF Gap, Heads, Lookups, Unwritten, Postponed, Writing, Marking, Clearing, Adding

(* Its steps only move it to another phase.                                 *)
LEMMA RebuildPhased ==
    ASSUME CoreInv, RebuildStep
    PROVE  job.phase \in Rebuilding /\ \E p \in Rebuilding \cup {"end"} : Phased(job, p, job')
<1>1. AfterLabels \in Rebuilding \cup {"end"}
  BY DEF AfterLabels, Rebuilding
<1>2. CASE Flush
  <2>1. job.phase \in Rebuilding
    BY <1>2 DEF Flush, FlushExact, FlushRanges, Step, Rebuilding
  <2>2. "ranges" \in Rebuilding /\ "clear_label" \in Rebuilding
    BY DEF Rebuilding
  <2> QED
    BY <1>1, <1>2, <2>1, <2>2, FlushEffect
<1>3. CASE Clear
  <2>1. "config" \in Rebuilding
    BY DEF Rebuilding
  <2> QED
    BY <1>1, <1>3, <2>1, ClearEffect
<1>4. CASE PersistConfig
  BY <1>4, ConfigEffect DEF Rebuilding
<1>5. CASE RetypeEdges
  BY <1>5, RetypeEffect DEF Rebuilding
<1> QED
  BY <1>2, <1>3, <1>4, <1>5 DEF RebuildStep, Flush, Clear

(* They owe nothing.                                                        *)
LEMMA RebuildOwesNothing ==
    ASSUME CoreInv, RebuildStep
    PROVE  \A f \in Lookups : Gap(job, f) = {} /\ Gap(job', f) = {}
<1>1. job \in Jobs
  BY DEF CoreInv, StructureInv, JobOK
<1>2. job' \in Jobs /\ job.phase \in Rebuilding /\ job'.phase \in Rebuilding \cup {"end"}
  BY RebuildPhased DEF Phased
<1>3. job.phase \notin Writing \cup Marking /\ job'.phase \notin Writing \cup Marking
  BY <1>2 DEF Rebuilding, Writing, Marking, Clearing, Adding
<1> QED
  BY <1>1, <1>2, <1>3, RebuildGap

-----------------------------------------------------------------------------
(* The steps of a rebuild.                                                  *)

(* Everything stays covered when nothing was owed.                          *)
LEMMA AllCovered ==
    ASSUME NEW s, NEW t, NEW f, Covers(s, f, {}),
           \A i \in Present(t) : (i \in Present(s) /\ Undisturbed(s, t, f, i)) \/ Covered(t, f, i)
    PROVE  Covers(t, f, {})
<1>1. PICK X : X = {}
  OBVIOUS
<1>2. \A i \in Present(t) \ X : \/ i \notin X /\ i \in Present(s) /\ Undisturbed(s, t, f, i)
                                \/ Covered(t, f, i)
  BY <1>1
<1> QED
  BY <1>1, <1>2, CoversOn

(* The marks a step removes are not those of another kind or family.        *)
LEMMA StillWaived ==
    ASSUME NEW s, NEW t, NEW k, NEW m, NEW f, NEW i, KindOf(i) # k \/ m \notin MarksOf(f),
           t.stale = s.stale \ {<<k, m>>} \/ t.stale = s.stale, t.torn = s.torn \ {<<k, m>>}
    PROVE  Waived(s, f, i) => Waived(t, f, i)
BY DEF Waived

(* A scan that wrote what it owes.                                          *)
LEMMA FlushSound ==
    ASSUME CoreInv, IndexInv, Plain(dep), Flush
    PROVE  RebuiltOK(ws', job') /\ ClearingSound(ws', job') /\ \A f \in Lookups : Covers(ws', f, {})
<1>1. PICK t, E : t = ws' /\ E = Flushed
  OBVIOUS
<1>2. IsStore(ws) /\ ws.cfg = Session.indexed /\ job.kind \in Kinds
  <2>1. job.phase # "end"
    BY DEF Flush, FlushExact, FlushRanges, Step
  <2> QED
    BY <2>1 DEF CoreInv, ScopeInv, StructureInv, ConfigInv, JobOK, Jobs
<1>3. /\ Gains(ws, E, t)
      /\ \/ job.phase = "exact" /\ Phased(job, "ranges", job')
         \/ job.phase = "ranges" /\ Phased(job, IF job.labels THEN "clear_label" ELSE AfterLabels, job')
  BY <1>1, FlushEffect
<1>4. t.rec = ws.rec /\ t.der = ws.der \cup E /\ t.torn = ws.torn /\ t.cfg = ws.cfg /\ t.stale = ws.stale
  BY <1>2, <1>3, Grown
<1>5. job'.kind = job.kind /\ job'.labels = job.labels /\ job'.props = job.props
  BY <1>3 DEF Phased, SameJob
<1>6. RebuiltOK(ws, job)
  BY DEF IndexInv
<1>7. Present(t) = Present(ws)
  BY <1>4 DEF Present
<1>8. AfterLabels \in {"clear_property", "config", "end"} /\ (AfterLabels = "clear_property" => Staged \subseteq job.props)
  BY DEF AfterLabels, CoversAll
<1>9. RebuiltOK(t, job')
  <2>1. CASE job.phase = "exact"
    <3>1. job'.phase = "ranges"
      BY <1>3, <2>1 DEF Phased
    <3>2. ASSUME NEW i \in Present(t) \cap OfKind(job.kind)
          PROVE  /\ job.labels => LabelEntries(i, t.rec[i]) \subseteq t.der
                 /\ PropertyEntries(i, t.rec[i], job.props) \subseteq t.der
      <4>1. i \in Scanned
        BY <1>7, <3>2 DEF Scanned
      <4>2. (job.labels => LabelEntries(i, ws.rec[i]) \subseteq E) /\ PropertyEntries(i, ws.rec[i], job.props) \subseteq E
        BY <1>1, <2>1, <4>1 DEF Flushed
      <4> QED
        BY <1>4, <4>2
    <3> QED
      BY <1>5, <3>1, <3>2 DEF RebuiltOK
  <2>2. CASE job.phase = "ranges"
    <3>1. job'.phase \in {"clear_label", "clear_property", "config", "end"}
      BY <1>3, <1>8, <2>2 DEF Phased
    <3>2. ASSUME NEW i \in Present(t) \cap OfKind(job.kind)
          PROVE  /\ job.labels => LabelEntries(i, t.rec[i]) \subseteq t.der
                 /\ ValueEntries(i, t.rec[i], job.props) \subseteq t.der
      <4>1. i \in Scanned /\ i \in Present(ws) \cap OfKind(job.kind)
        BY <1>7, <3>2 DEF Scanned
      <4>2. RangeEntries(i, ws.rec[i], job.props) \subseteq E
        BY <1>1, <2>2, <4>1 DEF Flushed
      <4>3. (job.labels => LabelEntries(i, ws.rec[i]) \subseteq ws.der) /\ PropertyEntries(i, ws.rec[i], job.props) \subseteq ws.der
        BY <1>6, <2>2, <4>1 DEF RebuiltOK
      <4> QED
        BY <1>4, <4>2, <4>3 DEF ValueEntries
    <3> QED
      BY <1>5, <3>1, <3>2 DEF RebuiltOK
  <2> QED
    BY <1>3, <2>1, <2>2
<1>10. ClearingSound(t, job')
  <2>1. ws.cfg[job.kind] \subseteq Staged
    BY <1>2 DEF Staged
  <2>2. job'.phase = "clear_label" => job.labels
    BY <1>3, <1>8 DEF Phased
  <2>3. job'.phase = "clear_property" => Staged \subseteq job.props
    BY <1>3, <1>8 DEF Phased
  <2> QED
    BY <1>4, <1>5, <2>1, <2>2, <2>3 DEF ClearingSound
<1>11. ASSUME NEW f \in Lookups PROVE Covers(t, f, {})
  <2>1. Covers(ws, f, {})
    <3>1. RebuildStep
      BY DEF RebuildStep, Flush
    <3> QED
      BY <3>1, RebuildOwesNothing DEF IndexInv
  <2>2. \A i \in Present(t) : i \in Present(ws) /\ Undisturbed(ws, t, f, i)
    BY <1>4, <1>7 DEF Undisturbed, Waived
  <2> QED
    BY <2>1, <2>2, AllCovered
<1> QED
  BY <1>1, <1>9, <1>10, <1>11

(* The marks it clears are of families it has rebuilt.                      *)
LEMMA ClearSound ==
    ASSUME CoreInv, IndexInv, Plain(dep), Clear
    PROVE  RebuiltOK(ws', job') /\ ClearingSound(ws', job') /\ \A f \in Lookups : Covers(ws', f, {})
<1>1. PICK t : t = ws'
  OBVIOUS
<1>2. ws.cfg = Session.indexed /\ job.kind \in Kinds
  <2>1. job.phase # "end"
    BY DEF Clear, ClearLabels, ClearProperties, Step
  <2> QED
    BY <2>1 DEF CoreInv, StructureInv, ConfigInv, JobOK, Jobs
<1>3. /\ Remarks(ws, t)
      /\ \/ /\ job.phase = "clear_label" /\ Phased(job, AfterLabels, job')
            /\ t.stale = ws.stale \ {<<job.kind, "label">>} /\ t.torn = ws.torn \ {<<job.kind, "label">>}
         \/ /\ job.phase = "clear_property" /\ Phased(job, IF job.create THEN "config" ELSE "end", job')
            /\ t.stale = ws.stale \ {<<job.kind, "property">>} /\ t.torn = ws.torn \ {<<job.kind, "property">>}
  BY <1>1, ClearEffect
<1>4. t.rec = ws.rec /\ t.der = ws.der /\ t.cfg = ws.cfg /\ Present(t) = Present(ws)
  BY <1>3 DEF Remarks, Present
<1>5. job'.kind = job.kind /\ job'.labels = job.labels /\ job'.props = job.props
  BY <1>3 DEF Phased, SameJob
<1>6. AfterLabels \in {"clear_property", "config", "end"} /\ (AfterLabels = "clear_property" => Staged \subseteq job.props)
  BY DEF AfterLabels, CoversAll
<1>7. RebuiltOK(ws, job) /\ ClearingSound(ws, job)
  BY DEF IndexInv
<1>8. job'.phase \in {"clear_property", "config", "end"}
  BY <1>3, <1>6 DEF Phased
<1>9. \A i \in Present(ws) \cap OfKind(job.kind) : ValueEntries(i, ws.rec[i], job.props) \subseteq ws.der
  BY <1>3, <1>7 DEF RebuiltOK
<1>10. RebuiltOK(t, job')
  BY <1>4, <1>5, <1>8, <1>9 DEF RebuiltOK
<1>11. ClearingSound(t, job')
  <2>1. ws.cfg[job.kind] \subseteq Staged
    BY <1>2 DEF Staged
  <2>2. job'.phase = "clear_property" => Staged \subseteq job.props
    BY <1>3, <1>6 DEF Phased
  <2> QED
    BY <1>4, <1>5, <1>8, <2>1, <2>2 DEF ClearingSound
<1>12. ASSUME NEW f \in Lookups PROVE Covers(t, f, {})
  <2>1. Covers(ws, f, {})
    <3>1. RebuildStep
      BY DEF RebuildStep, Clear
    <3> QED
      BY <3>1, RebuildOwesNothing DEF IndexInv
  <2>2. ASSUME NEW i \in Present(t) PROVE (i \in Present(ws) /\ Undisturbed(ws, t, f, i)) \/ Covered(t, f, i)
    <3>1. i \in Ids /\ i \in Present(ws) /\ (KindOf(i) = job.kind => i \in OfKind(job.kind))
      BY <1>2, <1>4, <2>2, KindsOf DEF Present
    <3>2. PICK m : /\ (job.phase = "clear_label" /\ m = "label") \/ (job.phase = "clear_property" /\ m = "property")
                   /\ t.stale = ws.stale \ {<<job.kind, m>>} /\ t.torn = ws.torn \ {<<job.kind, m>>}
      BY <1>3
    <3>3. CASE KindOf(i) # job.kind \/ m \notin MarksOf(f)
      <4>1. Waived(ws, f, i) => Waived(t, f, i)
        BY <3>2, <3>3, StillWaived
      <4> QED
        BY <1>4, <3>1, <4>1 DEF Undisturbed
    <3>4. CASE KindOf(i) = job.kind /\ m \in MarksOf(f) /\ m = "label"
      <4>1. f = "label"
        BY <3>4 DEF MarksOf
      <4>2. LabelEntries(i, ws.rec[i]) \subseteq ws.der
        BY <1>7, <3>1, <3>2, <3>4 DEF RebuiltOK, ClearingSound
      <4> QED
        BY <1>4, <4>1, <4>2 DEF Covered, Wanted
    <3>5. CASE KindOf(i) = job.kind /\ m \in MarksOf(f) /\ m = "property"
      <4>1. f = "value"
        BY <3>5 DEF MarksOf
      <4>2. ValueEntries(i, ws.rec[i], job.props) \subseteq ws.der /\ ws.cfg[job.kind] \subseteq job.props
        BY <1>7, <1>9, <3>1, <3>2, <3>5 DEF ClearingSound
      <4>3. PICK r, P, Q : r = ws.rec[i] /\ P = ws.cfg[job.kind] /\ Q = job.props
        OBVIOUS
      <4>4. ValueEntries(i, r, P) \subseteq ValueEntries(i, r, Q)
        BY <4>2, <4>3, EntryNarrowing
      <4> QED
        BY <1>4, <3>5, <4>1, <4>2, <4>3, <4>4 DEF Covered, Wanted
    <3> QED
      BY <3>2, <3>3, <3>4, <3>5
  <2> QED
    BY <2>1, <2>2, AllCovered
<1> QED
  BY <1>1, <1>10, <1>11, <1>12

(* A new property is configured once its entries are there.                 *)
LEMMA ConfigSound ==
    ASSUME CoreInv, IndexInv, Plain(dep), PersistConfig
    PROVE  RebuiltOK(ws', job') /\ ClearingSound(ws', job') /\ \A f \in Lookups : Covers(ws', f, {})
<1>1. PICK t : t = ws'
  OBVIOUS
<1>2. job.phase = "config" /\ Reconfigured(ws, job.kind, Staged, t) /\ Phased(job, "end", job')
  BY <1>1, ConfigEffect
<1>3. ws.cfg = Session.indexed /\ job.kind \in Kinds /\ ws.cfg \in [Kinds -> SUBSET Props]
  BY <1>2 DEF CoreInv, ScopeInv, IsStore, StructureInv, ConfigInv, JobOK, Jobs
<1>4. /\ t.rec = ws.rec /\ t.der = ws.der /\ t.stale = ws.stale /\ t.torn = ws.torn /\ Present(t) = Present(ws)
      /\ t.cfg[job.kind] = Staged /\ \A k \in Kinds : k # job.kind => t.cfg[k] = ws.cfg[k]
  BY <1>2, <1>3 DEF Reconfigured, Present
<1>5. RebuiltOK(t, job') /\ ClearingSound(t, job')
  BY <1>2 DEF Phased, RebuiltOK, ClearingSound
<1>6. ASSUME NEW f \in Lookups PROVE Covers(t, f, {})
  <2>1. Covers(ws, f, {})
    <3>1. RebuildStep
      BY DEF RebuildStep
    <3> QED
      BY <3>1, RebuildOwesNothing DEF IndexInv
  <2>2. ASSUME NEW i \in Present(t) PROVE (i \in Present(ws) /\ Undisturbed(ws, t, f, i)) \/ Covered(t, f, i)
    <3>1. i \in Ids /\ i \in Present(ws) /\ KindOf(i) \in Kinds /\ (KindOf(i) = job.kind => i \in OfKind(job.kind))
      BY <1>3, <1>4, <2>2, KindsOf DEF Present
    <3>2. Waived(ws, f, i) => Waived(t, f, i)
      BY <1>4 DEF Waived
    <3>3. CASE KindOf(i) # job.kind \/ f # "value"
      BY <1>4, <3>1, <3>2, <3>3 DEF Undisturbed
    <3>4. CASE KindOf(i) = job.kind /\ f = "value"
      <4>1. ValueEntries(i, ws.rec[i], job.props) \subseteq ws.der
        BY <1>2, <3>1, <3>4 DEF IndexInv, RebuiltOK
      <4>2. PICK r, P, Q : r = ws.rec[i] /\ P = ws.cfg[job.kind] /\ Q = job.props
        OBVIOUS
      <4>3. ValueEntries(i, r, P \cup Q) = ValueEntries(i, r, P) \cup ValueEntries(i, r, Q)
        BY EntryNarrowing
      <4>4. Staged = P \cup Q \/ Staged = P
        BY <1>3, <4>2 DEF Staged
      <4>5. Covered(ws, f, i)
        BY <2>1, <3>1 DEF Covers
      <4>6. ValueEntries(i, r, P) \subseteq ws.der \/ Waived(ws, f, i)
        BY <3>4, <4>2, <4>5 DEF Covered, Wanted
      <4> QED
        BY <1>4, <3>2, <3>4, <4>1, <4>2, <4>3, <4>4, <4>6 DEF Covered, Wanted
    <3> QED
      BY <3>3, <3>4
  <2> QED
    BY <2>1, <2>2, AllCovered
<1> QED
  BY <1>1, <1>5, <1>6

(* Typed adjacency is trusted again once every edge's is there.             *)
LEMMA RetypeSound ==
    ASSUME CoreInv, IndexInv, Plain(dep), RetypeEdges
    PROVE  RebuiltOK(ws', job') /\ ClearingSound(ws', job') /\ \A f \in Lookups : Covers(ws', f, {})
<1>1. PICK t, E : t = ws' /\ E = Retyped
  OBVIOUS
<1>2. job.phase = "retype" /\ Retypes(ws, E, t) /\ Phased(job, "end", job')
  BY <1>1, RetypeEffect
<1>3. job.kind = "edge"
  BY <1>2 DEF CoreInv, StructureInv, JobOK
<1>4. /\ t.rec = ws.rec /\ t.der = ws.der \cup E /\ t.stale = ws.stale /\ t.cfg = ws.cfg /\ Present(t) = Present(ws)
      /\ t.torn = ws.torn \ {<<"edge", "typed">>}
  BY <1>2 DEF Retypes, Present
<1>5. RebuiltOK(t, job') /\ ClearingSound(t, job')
  BY <1>2 DEF Phased, RebuiltOK, ClearingSound
<1>6. ASSUME NEW f \in Lookups PROVE Covers(t, f, {})
  <2>1. Covers(ws, f, {})
    <3>1. RebuildStep
      BY DEF RebuildStep
    <3> QED
      BY <3>1, RebuildOwesNothing DEF IndexInv
  <2>2. ASSUME NEW i \in Present(t) PROVE (i \in Present(ws) /\ Undisturbed(ws, t, f, i)) \/ Covered(t, f, i)
    <3>1. i \in Ids /\ i \in Present(ws) /\ (KindOf(i) = "edge" => i \in OfKind("edge"))
      BY <1>4, <2>2, KindsOf DEF Present, Kinds
    <3>2. CASE KindOf(i) # "edge" \/ "typed" \notin MarksOf(f)
      <4>1. Waived(ws, f, i) => Waived(t, f, i)
        <5>1. PICK k, m : k = "edge" /\ m = "typed"
          OBVIOUS
        <5> QED
          BY <1>4, <3>2, <5>1, StillWaived
      <4> QED
        BY <1>4, <3>1, <4>1 DEF Undisturbed
    <3>3. CASE KindOf(i) = "edge" /\ "typed" \in MarksOf(f)
      <4>1. f = "typed"
        BY <3>3 DEF MarksOf, Lookups
      <4>2. i \in Scanned
        BY <1>3, <3>1, <3>3 DEF Scanned
      <4>3. TypedEntries(i, ws.rec[i]) \subseteq E
        BY <1>1, <4>2 DEF Retyped
      <4> QED
        BY <1>4, <4>1, <4>3 DEF Covered, Wanted
    <3> QED
      BY <3>2, <3>3
  <2> QED
    BY <2>1, <2>2, AllCovered
<1> QED
  BY <1>1, <1>5, <1>6

-----------------------------------------------------------------------------
(* Every step of an operation.                                              *)

(* Where the steps of a write lead.                                         *)
LEMMA WritePhases ==
    ASSUME CoreInv, WriteStep
    PROVE  job'.phase \notin Rebuilding /\ (job'.phase = "range" => AddStep)
<1> DEFINE Before == {"untype", "unindex", "record", "mark_label", "end"}
<1>1. \A p \in Before : p \notin Rebuilding /\ p # "range"
  BY DEF Rebuilding
<1>2. CASE DeleteTypedAdjacency \/ DeleteIndexes \/ RemoveFromAdjacencies
  BY <1>2, ClearingStays DEF Clearing, Rebuilding
<1>3. CASE PutRecords
  <2>1. job \in Jobs /\ job.chunks # <<>>
    <3>1. job.phase \in Writing
      BY <1>3 DEF PutRecords, Step, Writing
    <3> QED
      BY <3>1, WriterFacts
  <2>2. PICK t, r : t = ws' /\ r = job'
    OBVIOUS
  <2>3. Phased(job, "typed", r) \/ Phased(job, "index", r) \/ r = NextChunk(t, job)
    BY <1>3, <2>2, RecordEffect DEF Recorded
  <2>4. r = NextChunk(t, job) => r.phase \in Before
    BY <2>1, NextShape
  <2> HIDE DEF Before
  <2> QED
    BY <1>1, <2>2, <2>3, <2>4 DEF Phased, Rebuilding
<1>4. CASE AddStep
  <2>1. job \in Jobs /\ job.chunks # <<>>
    <3>1. job.phase \in Writing
      BY <1>4, AddEffect DEF Writing
    <3> QED
      BY <3>1, WriterFacts
  <2>2. PICK r : r = job'
    OBVIOUS
  <2>3. Phased(job, "index", r) \/ Phased(job, "range", r) \/ Phased(job, "legacy", r) \/ r = NextChunk(ws, job)
    BY <1>4, <2>2, AddEffect
  <2>4. r = NextChunk(ws, job) => r.phase \in Before
    BY <2>1, NextShape
  <2> HIDE DEF Before
  <2>5. r.phase \notin Rebuilding
    BY <1>1, <2>3, <2>4 DEF Phased, Rebuilding
  <2> QED
    BY <1>4, <2>2, <2>5
<1>5. CASE MarkStep
  BY <1>5, MarkStepEffect DEF Phased, Rebuilding
<1> QED
  BY <1>2, <1>3, <1>4, <1>5 DEF WriteStep, AddStep, MarkStep

(* They keep the indexes covered.                                           *)
LEMMA WriteSound ==
    ASSUME CoreInv, IndexInv, Plain(dep), WriteStep
    PROVE  /\ \A f \in Lookups : Covers(ws', f, Gap(job', f))
           /\ HalfIndexed(ws', job') /\ RebuiltOK(ws', job') /\ ClearingSound(ws', job')
<1>1. ASSUME NEW f \in Lookups PROVE Covers(ws', f, Gap(job', f))
  BY ClearingCovers, RecordCovers, AddCovers, MarkCovers DEF WriteStep, AddStep, MarkStep
<1>2. HalfIndexed(ws', job')
  <2>1. CASE job'.phase = "range"
    <3>1. "label" \in Lookups
      BY DEF Lookups
    <3>2. AddStep
      BY <2>1, WritePhases
    <3> QED
      BY <3>1, <3>2, AddCovers
  <2>2. CASE job'.phase # "range"
    BY <2>2 DEF HalfIndexed
  <2> QED
    BY <2>1, <2>2
<1>3. RebuiltOK(ws', job') /\ ClearingSound(ws', job')
  BY WritePhases DEF Rebuilding, RebuiltOK, ClearingSound
<1> QED
  BY <1>1, <1>2, <1>3

(* So do those of a rebuild.                                                *)
LEMMA RebuildSound ==
    ASSUME CoreInv, IndexInv, Plain(dep), RebuildStep
    PROVE  /\ \A f \in Lookups : Covers(ws', f, Gap(job', f))
           /\ HalfIndexed(ws', job') /\ RebuiltOK(ws', job') /\ ClearingSound(ws', job')
<1>1. RebuiltOK(ws', job') /\ ClearingSound(ws', job') /\ \A f \in Lookups : Covers(ws', f, {})
  BY FlushSound, ClearSound, ConfigSound, RetypeSound DEF RebuildStep, Flush, Clear
<1>2. \A f \in Lookups : Gap(job', f) = {}
  BY RebuildOwesNothing
<1>3. job'.phase # "range"
  BY RebuildPhased DEF Phased, Rebuilding
<1> QED
  BY <1>1, <1>2, <1>3 DEF HalfIndexed

(* Every step keeps the index invariant.                                    *)
LEMMA StepIndex == ASSUME CoreInv, IndexInv, WriteStep \/ RebuildStep PROVE IndexInv'
<1>1. dep' = dep /\ scope' = scope /\ (scope # "none" => db' = db)
  BY StepMoves DEF Moves
<1>2. CASE Plain(dep)
  <2>1. /\ \A f \in Lookups : Covers(ws', f, Gap(job', f))
        /\ HalfIndexed(ws', job') /\ RebuiltOK(ws', job') /\ ClearingSound(ws', job')
    BY <1>2, WriteSound, RebuildSound
  <2>2. scope # "none" => \A f \in Lookups : Covers(db', f, {})
    BY <1>1, <1>2 DEF IndexInv
  <2> QED
    BY <1>1, <2>1, <2>2 DEF IndexInv
<1>3. CASE ~Plain(dep)
  BY <1>1, <1>3 DEF IndexInv
<1> QED
  BY <1>2, <1>3

-----------------------------------------------------------------------------
(* The steps between operations.                                            *)

(* Less may be asked than is covered.                                       *)
LEMMA CoversLess == ASSUME NEW s, NEW f, Covers(s, f, {}), NEW X PROVE Covers(s, f, X)
BY DEF Covers

(* Where nothing is being written, nothing is owed.                         *)
LEMMA RestingGap ==
    ASSUME CoreInv, job.phase \in {"idle", "end"}
    PROVE  \A f \in Lookups : Gap(job, f) = {}
<1>1. job \in Jobs /\ job.phase \notin Writing \cup Marking
  BY DEF CoreInv, StructureInv, JobOK, Writing, Marking, Clearing, Adding
<1> QED
  BY <1>1, RebuildGap

(* So everything is covered then, in both stores.                           *)
LEMMA RestingCovers ==
    ASSUME CoreInv, IndexInv, Plain(dep), NEW f \in Lookups
    PROVE  /\ job.phase \in {"idle", "end"} => Covers(ws, f, {})
           /\ scope # "none" \/ Idle => Covers(db, f, {})
<1>1. job.phase \in {"idle", "end"} => Covers(ws, f, {})
  <2> SUFFICES ASSUME job.phase \in {"idle", "end"} PROVE Covers(ws, f, {})
    OBVIOUS
  <2>1. Gap(job, f) = {}
    BY RestingGap
  <2>2. Covers(ws, f, Gap(job, f))
    BY DEF IndexInv
  <2> QED
    BY <2>1, <2>2
<1>2. scope # "none" => Covers(db, f, {})
  BY DEF IndexInv
<1>3. scope = "none" => ws = db
  BY DEF CoreInv, ScopeInv
<1> QED
  BY <1>1, <1>2, <1>3 DEF Idle

(* What is left when an operation dies is covered or marked.                *)
LEMMA HalfDoneCovers ==
    ASSUME CoreInv, IndexInv, Plain(dep), ~Idle, NEW f \in Lookups, NEW t, t = HalfDone
    PROVE  Covers(t, f, {})
<1>1. Remarks(ws, t) /\ t.stale = ws.stale /\ t.torn = ws.torn \cup Torn
  BY HalfDoneFacts
<1>2. t.rec = ws.rec /\ t.der = ws.der /\ t.cfg = ws.cfg
  BY <1>1 DEF Remarks
<1>3. ASSUME NEW i \in Present(t), i \notin Gap(job, f) PROVE i \in Present(ws) /\ Undisturbed(ws, t, f, i)
  BY <1>1, <1>2, <1>3 DEF Present, Undisturbed, Waived
<1>4. ASSUME NEW i \in Present(t), i \in Gap(job, f) PROVE Covered(t, f, i)
  <2>1. job \in Jobs /\ job.phase \in Writing \cup Marking
    <3>1. job \in Jobs
      BY DEF CoreInv, StructureInv, JobOK
    <3> QED
      BY <1>4, <3>1, RebuildGap
  <2>2. job.chunks # <<>> /\ job.phase # "end" /\ job.chunks \in Seq(Chunks)
    BY <2>1 DEF CoreInv, StructureInv, JobOK, Jobs, Writing, Marking, Clearing, Adding
  <2>3. PICK c : c = Head(job.chunks)
    OBVIOUS
  <2>4. c \in Chunks /\ c \in Range(job.chunks)
    BY <2>2, <2>3, ChunksSplit
  <2>5. c[1] \in Range(c)
    BY <2>4, ChunkFacts
  <2>6. \E x \in Range(c) : KindOf(x.id) = KindOf(i)
    <3>1. CASE i \in Heads(job)
      BY <2>3, <3>1 DEF Heads
    <3>2. CASE i \in OfKind(KindOf(c[1].id))
      <4>1. i \in Ids /\ KindOf(c[1].id) \in Kinds
        BY <1>4 DEF Present, KindOf, Kinds
      <4> QED
        BY <2>5, <3>2, <4>1, KindsOf
    <3>3. i \in Heads(job) \/ i \in OfKind(KindOf(c[1].id))
      BY <1>4, <2>3 DEF Gap
    <3> QED
      BY <3>1, <3>2, <3>3
  <2>7. PICK x \in UNION {Range(b) : b \in Range(job.chunks)} : KindOf(x.id) = KindOf(i)
    BY <2>4, <2>6
  <2>8. \A m \in {"label", "property", "typed"} : <<KindOf(i), m>> \in Torn
    BY <2>2, <2>7 DEF Torn
  <2>9. \E m \in MarksOf(f) : m \in {"label", "property", "typed"}
    BY DEF MarksOf, Lookups
  <2> QED
    BY <1>1, <2>8, <2>9 DEF Covered, Waived
<1>5. Covers(ws, f, Gap(job, f))
  BY DEF IndexInv
<1>6. PICK X, Y : X = Gap(job, f) /\ Y = {}
  OBVIOUS
<1>7. \A i \in Present(t) \ Y : (i \notin X /\ i \in Present(ws) /\ Undisturbed(ws, t, f, i)) \/ Covered(t, f, i)
  BY <1>3, <1>4, <1>6
<1> QED
  BY <1>5, <1>6, <1>7, CoversOn

(* With no operation in flight the invariant is that all is covered.        *)
LEMMA Quiescent ==
    ASSUME job'.phase = "idle", Plain(dep') => \A f \in Lookups : Covers(ws', f, {}) /\ (scope' # "none" => Covers(db', f, {}))
    PROVE  IndexInv'
<1>1. \A f \in Lookups : Covers(ws', f, {}) => Covers(ws', f, Gap(job', f))
  BY CoversLess
<1>2. HalfIndexed(ws', job') /\ RebuiltOK(ws', job') /\ ClearingSound(ws', job')
  BY DEF HalfIndexed, RebuiltOK, ClearingSound
<1> QED
  BY <1>1, <1>2 DEF IndexInv

(* Operations start from it.                                                *)
LEMMA OperationIndex == ASSUME CoreInv, IndexInv, Operation PROVE IndexInv'
<1>1. PICK j : Started(j) /\ Launched(scope', j)
  BY OperationLaunched
<1>2. Idle /\ job' = j /\ ws' = ws /\ db' = db /\ dep' = dep
  BY <1>1 DEF Started
<1>3. j.phase \in {"untype", "unindex", "record", "exact", "retype"}
  BY <1>1 DEF Launched
<1>4. HalfIndexed(ws, j) /\ RebuiltOK(ws, j) /\ ClearingSound(ws, j)
  BY <1>3 DEF HalfIndexed, RebuiltOK, ClearingSound
<1>5. ASSUME Plain(dep), NEW f \in Lookups PROVE Covers(ws, f, Gap(j, f)) /\ Covers(db, f, {})
  BY <1>2, <1>5, RestingCovers, CoversLess DEF Idle
<1> QED
  BY <1>2, <1>4, <1>5 DEF IndexInv

(* The other steps end up where all is covered.                             *)
LEMMA OtherIndex ==
    ASSUME CoreInv, IndexInv,
           \/ Finish \/ BeginTransaction \/ CommitTransaction \/ RollbackTransaction
           \/ Fail \/ Crash \/ Reopen \/ CountTypedAdjacency
    PROVE  IndexInv'
<1>0. NoJob.phase = "idle" /\ (scope = "none" => ws = db)
  BY DEF NoJob, CoreInv, ScopeInv
<1>1. CASE Finish
  <2>1. job'.phase = "idle" /\ dep' = dep /\ ws' = ws /\ job.phase = "end"
    BY <1>0, <1>1 DEF Finish
  <2>2. scope' # "none" => scope # "none" /\ db' = db
    BY <1>1 DEF Finish
  <2> QED
    BY <2>1, <2>2, RestingCovers, Quiescent
<1>2. CASE BeginTransaction
  <2>1. job'.phase = "idle" /\ dep' = dep /\ ws' = ws /\ db' = db /\ Idle
    BY <1>2 DEF BeginTransaction, Idle
  <2> QED
    BY <2>1, RestingCovers, Quiescent DEF Idle
<1>3. CASE CommitTransaction
  <2>1. job'.phase = "idle" /\ dep' = dep /\ ws' = ws /\ scope' = "none" /\ Idle
    BY <1>3 DEF CommitTransaction, Idle
  <2> QED
    BY <2>1, RestingCovers, Quiescent DEF Idle
<1>4. CASE RollbackTransaction
  <2>1. job'.phase = "idle" /\ dep' = dep /\ ws' = db /\ scope' = "none" /\ Idle
    BY <1>4 DEF RollbackTransaction, Idle
  <2> QED
    BY <2>1, RestingCovers, Quiescent
<1>5. CASE Fail
  <2>1. job'.phase = "idle" /\ dep' = dep /\ ~Idle
    BY <1>0, <1>5 DEF Fail
  <2>2. CASE scope = "implicit"
    <3>1. ws' = db /\ scope' = "none"
      BY <1>5, <2>2 DEF Fail
    <3> QED
      BY <2>1, <2>2, <3>1, RestingCovers, Quiescent
  <2>3. CASE scope # "implicit"
    <3>1. ws' = HalfDone /\ scope' = scope /\ (scope # "none" => db' = db)
      BY <1>5, <2>3 DEF Fail, Write
    <3> QED
      BY <2>1, <3>1, RestingCovers, HalfDoneCovers, Quiescent
  <2> QED
    BY <2>2, <2>3
<1>6. CASE Crash \/ Reopen
  <2>1. job'.phase = "idle" /\ dep' = dep /\ scope' = "none"
    BY <1>0, <1>6 DEF Crash, Reopen, Restart
  <2>2. CASE scope = "none" /\ ~Idle
    <3>1. ws' = HalfDone
      BY <1>6, <2>2 DEF Crash, Reopen, Restart
    <3> QED
      BY <2>1, <2>2, <3>1, HalfDoneCovers, Quiescent
  <2>3. CASE ~(scope = "none" /\ ~Idle)
    <3>1. ws' = db
      BY <1>6, <2>3 DEF Crash, Reopen, Restart
    <3> QED
      BY <2>1, <2>3, <3>1, RestingCovers, Quiescent
  <2> QED
    BY <2>2, <2>3
<1>7. CASE CountTypedAdjacency
  <2>1. job'.phase = "idle" /\ dep' = dep /\ ws' = ws /\ db' = db /\ scope' = scope /\ Idle
    BY <1>7 DEF CountTypedAdjacency, Idle
  <2> QED
    BY <2>1, RestingCovers, Quiescent DEF Idle
<1> QED
  BY <1>1, <1>2, <1>3, <1>4, <1>5, <1>6, <1>7

(* A stutter.                                                               *)
LEMMA StillIndex == ASSUME IndexInv, UNCHANGED vars PROVE IndexInv'
<1>1. dep' = dep /\ ws' = ws /\ db' = db /\ scope' = scope /\ job' = job
  BY DEF vars
<1> QED
  BY <1>1 DEF IndexInv

(* An empty database.                                                       *)
LEMMA InitIndex == ASSUME Init PROVE IndexInv
<1>1. ws = EmptyStore /\ db = EmptyStore /\ job.phase = "idle"
  BY DEF Init, NoJob
<1>2. \A i \in Ids : ws.rec[i] = Absent
  BY <1>1 DEF EmptyStore
<1>3. Present(ws) = {} /\ Present(db) = {}
  BY <1>1, <1>2 DEF Present
<1> QED
  BY <1>1, <1>3 DEF IndexInv, Covers, HalfIndexed, RebuiltOK, ClearingSound

-----------------------------------------------------------------------------
(* The counts a handle has cached.                                          *)

(* A handle that forgot them has none that is wrong.                        *)
LEMMA Forgotten == ASSUME NEW v, v.counts = NoCounts, NEW s PROVE CountsMatch(v, s)
BY DEF CountsMatch, NoCounts

(* Steps inside a transaction leave the handle alone.                       *)
LEMMA StepCounts ==
    ASSUME CoreInv, CountsInv, WriteStep \/ RebuildStep
    PROVE  CountsInv'
<1>1. dep' = dep /\ (scope # "none" => db' = db)
  BY StepMoves DEF Moves
<1>2. job.phase # "idle"
  BY StepConfig
<1>3. dep.transactional => scope # "none"
  BY <1>2 DEF CoreInv, ScopeInv, Idle
<1>4. scope # "none" => handle' = handle
  BY DEF WriteStep, RebuildStep, DeleteTypedAdjacency, DeleteIndexes, RemoveFromAdjacencies, PutRecords,
     PutTypedAdjacency, PutIndexEntries, PutRangeEntries, PutAdjacencyLists, MarkLabels, MarkProperties, FlushExact,
     FlushRanges, ClearLabels, ClearProperties, PersistConfig, RetypeEdges, SetSession, Quiet
<1> QED
  BY <1>1, <1>3, <1>4 DEF CountsInv

(* The end of an operation forgets them, or belongs to a transaction.       *)
LEMMA FinishCounts == ASSUME CoreInv, CountsInv, Finish PROVE CountsInv'
<1>1. dep' = dep /\ job.phase = "end" /\ (dep.transactional => scope # "none")
  BY DEF Finish, CoreInv, ScopeInv, Idle
<1>2. CASE scope = "implicit"
  <2>1. PICK v : v = AfterCommit(handle)
    OBVIOUS
  <2>2. IsSession(v) /\ v.counts = NoCounts
    BY <2>1, SessionShapes DEF CoreInv, ScopeInv
  <2>3. handle' = Published(v)
    BY <1>2, <2>1 DEF Finish
  <2>4. Published(v).counts = NoCounts
    BY <2>2, PublishedShape
  <2> QED
    BY <2>3, <2>4, Forgotten DEF CountsInv
<1>3. CASE scope # "implicit"
  <2>1. db' = db /\ (scope # "none" => handle' = handle)
    BY <1>3 DEF Finish, SetSession
  <2> QED
    BY <1>1, <2>1 DEF CountsInv
<1> QED
  BY <1>2, <1>3

(* A count that a read caches is what the store holds.                      *)
LEMMA CachedCounts == ASSUME CoreInv, CountsInv, CountTypedAdjacency PROVE CountsInv'
<1>1. dep' = dep /\ db' = db /\ IsSession(handle) /\ (scope = "none" => ws = db)
  BY DEF CountTypedAdjacency, CoreInv, ScopeInv
<1>2. CASE scope # "none"
  <2>1. handle' = handle
    BY <1>2 DEF CountTypedAdjacency, SetSession
  <2> QED
    BY <1>1, <2>1 DEF CountsInv
<1>3. CASE scope = "none"
  <2>1. PICK k \in CountKeys : handle' = [handle EXCEPT !.counts[k] = StoredCount(ws, k)]
    BY <1>3 DEF CountTypedAdjacency, SetSession, Session
  <2>2. PICK c, n : c = handle.counts /\ n = StoredCount(db, k)
    OBVIOUS
  <2>3. handle'.counts = [c EXCEPT ![k] = n]
    BY <1>1, <1>3, <2>1, <2>2 DEF IsSession
  <2>4. c = [l \in CountKeys |-> c[l]]
    BY <1>1, <2>2 DEF IsSession
  <2>5. \A l \in CountKeys : handle'.counts[l] = IF l = k THEN n ELSE c[l]
    BY <2>3, <2>4
  <2>6. CountsMatch(handle, db) => CountsMatch(handle', db)
    BY <2>2, <2>5 DEF CountsMatch
  <2> QED
    BY <1>1, <2>6 DEF CountsInv
<1> QED
  BY <1>2, <1>3

(* Every step keeps the handle's counts exact.                              *)
LEMMA CountsKept == ASSUME CoreInv, CountsInv, [Next]_vars PROVE CountsInv'
<1>0. IsSession(handle) /\ IsStore(db) /\ IsStore(ws) /\ (dep.transactional /\ scope = "none" => Idle)
  BY DEF CoreInv, ScopeInv
<1>1. CASE Operation
  <2>1. PICK j : Started(j) /\ Launched(scope', j)
    BY <1>1, OperationLaunched
  <2>2. handle' = handle /\ db' = db /\ dep' = dep
    BY <2>1 DEF Started
  <2> QED
    BY <2>2 DEF CountsInv
<1>2. CASE WriteStep \/ RebuildStep
  BY <1>2, StepCounts
<1>3. CASE Finish
  BY <1>3, FinishCounts
<1>4. CASE BeginTransaction \/ RollbackTransaction \/ UNCHANGED vars
  <2>1. handle' = handle /\ db' = db /\ dep' = dep
    BY <1>4 DEF BeginTransaction, RollbackTransaction, vars
  <2> QED
    BY <2>1 DEF CountsInv
<1>5. CASE CommitTransaction
  <2>1. handle' = AfterCommit(handle)
    BY <1>5 DEF CommitTransaction
  <2>2. handle'.counts = NoCounts
    BY <1>0, <2>1, SessionShapes
  <2> QED
    BY <2>2, Forgotten DEF CountsInv
<1>6. CASE Fail
  <2>1. handle' = handle /\ dep' = dep /\ ~Idle /\ (scope # "none" => db' = db)
    BY <1>6 DEF Fail, Write
  <2> QED
    BY <1>0, <2>1 DEF CountsInv
<1>7. CASE Crash \/ Reopen
  <2>1. PICK s : handle' = Opened(s)
    BY <1>7 DEF Crash, Reopen, Restart
  <2>2. handle'.counts = NoCounts
    BY <2>1 DEF Opened
  <2> QED
    BY <2>2, Forgotten DEF CountsInv
<1>8. CASE CountTypedAdjacency
  BY <1>8, CachedCounts
<1> QED
  BY <1>1, <1>2, <1>3, <1>4, <1>5, <1>6, <1>7, <1>8 DEF Next

-----------------------------------------------------------------------------
(* Lookups.                                                                 *)

LookupInv == CoreInv /\ IndexInv /\ CountsInv

(* Every step keeps the three of them.                                      *)
LEMMA LookupInductive == LookupInv /\ [Next]_vars => LookupInv'
<1> SUFFICES ASSUME CoreInv, IndexInv, CountsInv, [Next]_vars PROVE LookupInv'
  BY DEF LookupInv
<1>1. CoreInv'
  BY CoreInductive
<1>2. IndexInv'
  BY StepIndex, OperationIndex, OtherIndex, StillIndex DEF Next
<1>3. CountsInv'
  BY CountsKept
<1> QED
  BY <1>1, <1>2, <1>3 DEF LookupInv

(* They hold at first.                                                      *)
LEMMA InitLookup == Init => LookupInv
<1> SUFFICES ASSUME Init PROVE LookupInv
  OBVIOUS
<1>1. handle.counts = NoCounts
  BY DEF Init, NoSession
<1>2. CountsInv
  BY <1>1, Forgotten DEF CountsInv
<1> QED
  BY <1>2, InitCore, InitIndex DEF LookupInv

(* Then lookups agree with scans wherever they are not refused.             *)
LEMMA LookupsAgree == LookupInv => LookupExact
<1> SUFFICES ASSUME CoreInv, IndexInv, CountsInv PROVE LookupExact
  BY DEF LookupInv
<1>1. IsStore(ws) /\ IsStore(db) /\ Described(dep, ws) /\ Described(dep, db)
  BY DEF CoreInv, ScopeInv, StructureInv
<1>2. Plainly <=> Plain(dep)
  BY DEF Plainly, Plain
<1>3. ASSUME Plain(dep), scope # "none" PROVE IndexesAgree(db)
  BY <1>1, <1>3, RestingCovers, AllAgree
<1>4. ASSUME Plain(dep), Idle PROVE IndexesAgree(ws)
  BY <1>1, <1>4, RestingCovers, AllAgree DEF Idle
<1> QED
  BY <1>2, <1>3, <1>4 DEF LookupExact, CountsInv

(* LookupExact: a lookup that is not refused returns what a scan of the     *)
(* records would, and a transactional handle's cached counts are those of   *)
(* the committed store.                                                     *)
THEOREM LookupsMatchScans == Spec => []LookupExact
<1>1. Spec => []LookupInv
  BY InitLookup, LookupInductive, PTL DEF Spec
<1> QED
  BY <1>1, LookupsAgree, PTL
=============================================================================
