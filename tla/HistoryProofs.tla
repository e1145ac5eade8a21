---------------------------- MODULE HistoryProofs ----------------------------
(***************************************************************************)
(* Proofs about EntityHistory and Extraction, for any payloads, records,   *)
(* requests and policies: every selection reads what the commits of the    *)
(* history lay down, migration lays down what its records say, and what a  *)
(* claim source returns is what holds in the history it has pinned.        *)
(***************************************************************************)
EXTENDS Extraction, FiniteSetTheorems, WellFoundedInduction, TLAPS

CONSTANT Clients    \* the payloads that clients write, ExtractionNext's parameter

(* Payloads have one of three kinds, time is counted, and what a request    *)
(* names and what is aliased is finite.                                     *)
ProperHistory ==
    /\ \A p \in Clients : p.kind \in {"node", "edge", "claim"}
    /\ MaxInstant \in Nat /\ ValidIntervals \subseteq Nat \X Nat
Proper ==
    /\ ProperHistory /\ Instants \subseteq Nat
    /\ IsFiniteSet(DOMAIN Aliases)
    /\ \A r \in Requests : IsFiniteSet(r.demand) /\ r.given \in BOOLEAN

-----------------------------------------------------------------------------
(* The history.                                                             *)

(* A version carries a payload of its entity, or retracts.                  *)
Version ==
    {v \in [entity : {EntityOf(p) : p \in Clients}, op : {"assert", "correct", "retract"},
            pay : Clients \cup {Empty}, from : Nat, to : Nat] :
        IF v.op = "retract" THEN v.pay = Empty ELSE v.pay \in Clients /\ v.entity = EntityOf(v.pay)}
Commits == [migration : BOOLEAN, versions : Seq(Version)]

HistKept == hist \in Seq(Commits)

(* Locators are the places of the history.                                  *)
LEMMA Places ==
    ASSUME NEW h \in Seq(Commits)
    PROVE  /\ Len(h) \in Nat /\ DOMAIN h = 1 .. Len(h)
           /\ \A l \in Located(h) : /\ l = <<l[1], l[2]>> /\ l[1] \in 1 .. Len(h)
                                    /\ l[2] \in DOMAIN h[l[1]].versions
                                    /\ l[2] \in 1 .. Len(h[l[1]].versions) /\ Len(h[l[1]].versions) \in Nat
                                    /\ At(h, l) \in Version
           /\ \A c \in DOMAIN h : \A o \in DOMAIN h[c].versions : <<c, o>> \in Located(h)
<1>1. Len(h) \in Nat /\ DOMAIN h = 1 .. Len(h) /\ \A c \in DOMAIN h : h[c] \in Commits
  OBVIOUS
<1>2. \A c \in DOMAIN h : h[c].versions \in Seq(Version)
  BY <1>1 DEF Commits
<1>3. \A c \in DOMAIN h : \A o \in DOMAIN h[c].versions : <<c, o>> \in Located(h)
  BY DEF Located
<1>4. ASSUME NEW l \in Located(h)
      PROVE  /\ l = <<l[1], l[2]>> /\ l[1] \in 1 .. Len(h) /\ l[2] \in DOMAIN h[l[1]].versions
             /\ l[2] \in 1 .. Len(h[l[1]].versions) /\ Len(h[l[1]].versions) \in Nat /\ At(h, l) \in Version
  <2>1. PICK c \in DOMAIN h : \E o : o \in DOMAIN h[c].versions /\ l = <<c, o>>
    BY DEF Located
  <2>2. PICK o : o \in DOMAIN h[c].versions /\ l = <<c, o>>
    BY <2>1
  <2>3. l[1] = c /\ l[2] = o
    BY <2>2
  <2>4. PICK q : q = h[c].versions
    OBVIOUS
  <2>5. q \in Seq(Version) /\ o \in DOMAIN q
    BY <1>2, <2>1, <2>2, <2>4
  <2>6. o \in 1 .. Len(q) /\ Len(q) \in Nat /\ q[o] \in Version
    BY <2>5
  <2> QED
    BY <1>1, <2>1, <2>2, <2>3, <2>4, <2>6 DEF At
<1> QED
  BY <1>1, <1>3, <1>4

(* Of some numbers, one is the least.                                       *)
LEMMA LeastOf ==
    ASSUME NEW K \in SUBSET Nat, K # {}
    PROVE  \E k \in K : \A j \in K : k <= j
<1>1. PICK k \in K : \A j \in K : ~(<<j, k>> \in OpToRel(<, Nat))
  BY NatLessThanWellFounded, WFMin
<1>2. \A j \in K : j \in Nat /\ ~(j < k)
  BY <1>1 DEF OpToRel
<1>3. ASSUME NEW j \in K PROVE k <= j
  <2>1. k \in Nat /\ j \in Nat /\ ~(j < k)
    BY <1>1, <1>2
  <2> QED
    BY <2>1
<1> QED
  BY <1>1, <1>3

(* Of some numbers up to a bound, one is the greatest.                      *)
LEMMA GreatestOf ==
    ASSUME NEW n \in Nat, NEW K \in SUBSET (0 .. n), K # {}
    PROVE  \E k \in K : \A j \in K : j <= k
<1>1. PICK D : D = {n - k : k \in K}
  OBVIOUS
<1>2. D \in SUBSET Nat /\ D # {}
  <2>1. \A k \in 0 .. n : n - k \in Nat
    OBVIOUS
  <2>2. \A k \in K : k \in 0 .. n
    OBVIOUS
  <2> QED
    BY <1>1, <2>1, <2>2
<1>3. PICK d \in D : \A e \in D : d <= e
  BY <1>2, LeastOf
<1>4. PICK k \in K : d = n - k
  BY <1>1
<1>5. \A j \in K : n - j \in D
  BY <1>1
<1> QED
  BY <1>3, <1>4, <1>5

(* Locators are in the order of their commits, and within one.              *)
NotAfter(m, l) == m[1] < l[1] \/ (m[1] = l[1] /\ m[2] <= l[2])

(* Some locators have a newest.                                             *)
LEMMA NewestExists ==
    ASSUME NEW h \in Seq(Commits), NEW S \in SUBSET Located(h), S # {}
    PROVE  Newest(S) \in S /\ \A m \in S : NotAfter(m, Newest(S))
<1>1. PICK K : K = {l[1] : l \in S}
  OBVIOUS
<1>2. Len(h) \in Nat /\ K \in SUBSET (0 .. Len(h)) /\ K # {}
  BY <1>1, Places
<1>3. PICK c \in K : \A j \in K : j <= c
  BY <1>2, GreatestOf
<1>4. PICK J : J = {l[2] : l \in {m \in S : m[1] = c}}
  OBVIOUS
<1>5. Len(h[c].versions) \in Nat /\ J \in SUBSET (0 .. Len(h[c].versions)) /\ J # {}
  BY <1>1, <1>4, Places
<1>6. PICK o \in J : \A j \in J : j <= o
  BY <1>5, GreatestOf
<1>7. PICK l \in S : l[1] = c /\ l[2] = o
  BY <1>4, <1>6
<1>8. \A m \in S : NotAfter(m, l)
  <2>1. \A m \in S : m[1] \in K /\ m[1] \in Nat /\ m[2] \in Nat /\ (m[1] = c => m[2] \in J)
    BY <1>1, <1>4, Places
  <2> QED
    BY <1>2, <1>3, <1>6, <1>7, <2>1 DEF NotAfter
<1> QED
  BY <1>7, <1>8 DEF Newest, NotAfter

(* The newest is the one none is after.                                     *)
LEMMA NewestIs ==
    ASSUME NEW h \in Seq(Commits), NEW S \in SUBSET Located(h), NEW l \in S, \A m \in S : NotAfter(m, l)
    PROVE  Newest(S) = l
<1>1. PICK k : k = Newest(S)
  OBVIOUS
<1>2. k \in S /\ NotAfter(k, l) /\ NotAfter(l, k)
  BY <1>1, NewestExists
<1>3. k = <<k[1], k[2]>> /\ l = <<l[1], l[2]>> /\ k[1] \in Nat /\ k[2] \in Nat /\ l[1] \in Nat /\ l[2] \in Nat
  BY <1>2, Places
<1>4. k[1] = l[1] /\ k[2] = l[2]
  BY <1>2, <1>3 DEF NotAfter
<1> QED
  BY <1>1, <1>3, <1>4

-----------------------------------------------------------------------------
(* Where a version is filed.                                                *)

(* A payload tells whether there is one.                                    *)
LEMMA Carried ==
    ASSUME ProperHistory, NEW v \in Version
    PROVE  /\ v.op # "retract" <=> v.pay # Empty
           /\ v.pay # Empty => v.entity[1] = v.pay.kind
           /\ v.pay.kind = "claim" => v.pay # Empty /\ v.entity[1] = "claim"
           /\ v.from \in Nat /\ v.to \in Nat
<1>1. \A p \in Clients : p # Empty /\ EntityOf(p)[1] = p.kind
  BY DEF ProperHistory, Empty, EntityOf
<1>2. Empty.kind # "claim"
  BY DEF Empty
<1> QED
  BY <1>1, <1>2 DEF Version

(* A version is filed under its entity, and a claim by what it says.        *)
LEMMA FiledUnder ==
    ASSUME NEW v
    PROVE  /\ \A e : <<"logical_valid", e>> \in Filed(v) <=> e = v.entity
           /\ <<"claim_catalog">> \in Filed(v) <=> v.pay.kind = "claim"
           /\ \A s : <<"statement", s>> \in Filed(v) <=> v.pay.kind = "claim" /\ s = Statement(v.pay)
           /\ \A n, x : <<"dimension", n, x>> \in Filed(v) <=> v.pay.kind = "claim" /\ <<n, x>> \in Dimensions(v.pay)
<1>1. \A e : <<"logical_valid", e>> \in Filed(v) <=> e = v.entity
  BY DEF Filed
<1>2. <<"claim_catalog">> \in Filed(v) <=> v.pay.kind = "claim"
  BY DEF Filed
<1>3. \A s : <<"statement", s>> \in Filed(v) <=> v.pay.kind = "claim" /\ s = Statement(v.pay)
  BY DEF Filed
<1>4. \A n, x : <<"dimension", n, x>> \in Filed(v) <=> v.pay.kind = "claim" /\ <<n, x>> \in Dimensions(v.pay)
  <2>1. \A d \in Dimensions(v.pay) : d = <<d[1], d[2]>>
    BY DEF Dimensions
  <2> TAKE n, x
  <2>2. <<n, x>> \in Dimensions(v.pay) <=> \E d \in Dimensions(v.pay) : d[1] = n /\ d[2] = x
    BY <2>1
  <2>3. <<"dimension", n, x>> \in Filed(v)
            <=> v.pay.kind = "claim" /\ \E d \in Dimensions(v.pay) : d[1] = n /\ d[2] = x
    BY DEF Filed
  <2> QED
    BY <2>2, <2>3
<1> QED
  BY <1>1, <1>2, <1>3, <1>4

(* The fields that are dimensions.                                          *)
LEMMA DimensionsOf ==
    ASSUME NEW c
    PROVE  /\ \A i \in DOMAIN FieldOrder : <<FieldOrder[i], c[FieldOrder[i]]>> \in Dimensions(c)
           /\ \A n \in {"world", "predicate", "subject"} : \A x : <<n, x>> \in Dimensions(c) <=> c[n] = x
BY DEF FieldOrder, Dimensions

(* Whatever a filter chooses to read, a claim that matches it is there, and *)
(* only claims are.                                                         *)
LEMMA FiledByFilter ==
    ASSUME NEW v, NEW filter
    PROVE  /\ ClaimFiled(filter) \in Filed(v) => v.pay.kind = "claim"
           /\ v.pay.kind = "claim" /\ ClaimMatches(v.pay, filter) => ClaimFiled(filter) \in Filed(v)
<1>1. CASE {"subject", "predicate", "objectKind", "object"} \subseteq DOMAIN filter
  <2>1. ClaimFiled(filter) = <<"statement", Statement(filter)>>
    BY <1>1 DEF ClaimFiled
  <2>2. ClaimMatches(v.pay, filter) => Statement(filter) = Statement(v.pay)
    BY <1>1 DEF ClaimMatches, Statement
  <2> QED
    BY <2>1, <2>2, FiledUnder
<1>2. PICK given : given = {i \in DOMAIN FieldOrder : /\ FieldOrder[i] \in DOMAIN filter
                                                      /\ FieldOrder[i] = "source" => filter["source"] # NoSource}
  OBVIOUS
<1>3. CASE ~({"subject", "predicate", "objectKind", "object"} \subseteq DOMAIN filter) /\ given = {}
  <2>1. ClaimFiled(filter) = <<"claim_catalog">>
    BY <1>2, <1>3 DEF ClaimFiled
  <2> QED
    BY <2>1, FiledUnder
<1>4. CASE ~({"subject", "predicate", "objectKind", "object"} \subseteq DOMAIN filter) /\ given # {}
  <2>1. PICK i : i = Min(given)
    OBVIOUS
  <2>2. ClaimFiled(filter) = <<"dimension", FieldOrder[i], filter[FieldOrder[i]]>>
    BY <1>2, <1>4, <2>1 DEF ClaimFiled
  <2>3. i \in given
    <3>1. DOMAIN FieldOrder \subseteq Nat
      BY DEF FieldOrder
    <3>2. PICK k \in given : \A j \in given : k <= j
      BY <1>2, <1>4, <3>1, LeastOf
    <3> QED
      BY <2>1, <3>2 DEF Min
  <2>4. ClaimMatches(v.pay, filter) => filter[FieldOrder[i]] = v.pay[FieldOrder[i]]
    BY <1>2, <2>3 DEF ClaimMatches
  <2>5. <<FieldOrder[i], v.pay[FieldOrder[i]]>> \in Dimensions(v.pay)
    BY <1>2, <2>3, DimensionsOf
  <2> QED
    BY <2>2, <2>4, <2>5, FiledUnder
<1> QED
  BY <1>1, <1>3, <1>4

-----------------------------------------------------------------------------
(* What holds.                                                              *)

(* The last version of each claim that covers the instant, a retraction or  *)
(* not.                                                                     *)
Reigning(t, n) ==
    {l \in Catalog(n) :
        /\ InForce(At(hist, l), t)
        /\ \A m \in Catalog(n) : At(hist, m).entity = At(hist, l).entity /\ InForce(At(hist, m), t) => NotAfter(m, l)}

(* Holding leaves the retractions out.                                      *)
LEMMA HoldingReigns ==
    ASSUME NEW t, NEW n
    PROVE  \A l : l \in Holding(t, n) <=> l \in Reigning(t, n) /\ At(hist, l).op # "retract"
BY DEF Holding, Reigning, Live, NotAfter

(* Among the versions of a claim that cover the instant, the newest reigns. *)
LEMMA Reigns ==
    ASSUME HistKept, NEW t, NEW n, NEW e,
           NEW S, S = {l \in Catalog(n) : InForce(At(hist, l), t) /\ At(hist, l).entity = e}
    PROVE  /\ S # {} => Newest(S) \in Reigning(t, n) /\ At(hist, Newest(S)).entity = e
           /\ \A l \in Reigning(t, n) : At(hist, l).entity = e => S # {} /\ Newest(S) = l
<1>1. S \in SUBSET Located(hist) /\ hist \in Seq(Commits)
  BY DEF Catalog, HistKept
<1>2. ASSUME S # {} PROVE Newest(S) \in Reigning(t, n) /\ At(hist, Newest(S)).entity = e
  <2>1. PICK k : k = Newest(S)
    OBVIOUS
  <2>2. k \in S /\ \A m \in S : NotAfter(m, k)
    BY <1>1, <1>2, <2>1, NewestExists
  <2> QED
    BY <2>1, <2>2 DEF Reigning
<1>3. ASSUME NEW l \in Reigning(t, n), At(hist, l).entity = e PROVE S # {} /\ Newest(S) = l
  <2>1. l \in S /\ \A m \in S : NotAfter(m, l)
    BY <1>3 DEF Reigning
  <2> QED
    BY <1>1, <2>1, NewestIs
<1> QED
  BY <1>2, <1>3

(* So it does among those of several claims.                                *)
LEMMA LastOnesReign ==
    ASSUME HistKept, NEW t, NEW n, NEW E,
           NEW S, S = {l \in Catalog(n) : InForce(At(hist, l), t) /\ At(hist, l).entity \in E}
    PROVE  \A l : l \in LastOf(S) <=> l \in Reigning(t, n) /\ At(hist, l).entity \in E
<1> DEFINE Of(e) == {l \in Catalog(n) : InForce(At(hist, l), t) /\ At(hist, l).entity = e}
<1>1. \A e \in E : {l \in S : At(hist, l).entity = e} = Of(e)
  OBVIOUS
<1>2. \A e \in Claims(S) : e \in E /\ Of(e) # {}
  BY DEF Claims
<1>3. \A l : l \in LastOf(S) <=> \E e \in Claims(S) : l = Newest(Of(e))
  <2>1. \A e \in Claims(S) : {l \in S : At(hist, l).entity = e} = Of(e)
    BY <1>1, <1>2
  <2> HIDE DEF Of
  <2> QED
    BY <2>1 DEF LastOf
<1>4. \A e : /\ Of(e) # {} => Newest(Of(e)) \in Reigning(t, n) /\ At(hist, Newest(Of(e))).entity = e
             /\ \A l \in Reigning(t, n) : At(hist, l).entity = e => Of(e) # {} /\ Newest(Of(e)) = l
  BY Reigns
<1>5. \A l \in Reigning(t, n) : At(hist, l).entity \in E => At(hist, l).entity \in Claims(S)
  BY DEF Reigning, Claims
<1> HIDE DEF Of
<1> QED
  BY <1>2, <1>3, <1>4, <1>5

(* The complete history: all records of the prefix.                         *)
LEMMA WinnersReign ==
    ASSUME HistKept, NEW t, NEW n
    PROVE  \A l : l \in Live(Winners(t, n)) <=> l \in Holding(t, n)
<1>1. PICK E : E = {At(hist, l).entity : l \in Catalog(n)}
  OBVIOUS
<1>2. PICK S : S = {l \in Catalog(n) : InForce(At(hist, l), t)}
  OBVIOUS
<1>3. S = {l \in Catalog(n) : InForce(At(hist, l), t) /\ At(hist, l).entity \in E}
  BY <1>1, <1>2
<1>4. \A l : l \in LastOf(S) <=> l \in Reigning(t, n) /\ At(hist, l).entity \in E
  BY <1>3, LastOnesReign
<1>5. \A l \in Reigning(t, n) : At(hist, l).entity \in E
  BY <1>1 DEF Reigning
<1>6. Winners(t, n) = LastOf(S)
  BY <1>2 DEF Winners
<1> QED
  BY <1>4, <1>5, <1>6, HoldingReigns DEF Live

-----------------------------------------------------------------------------
(* The raw index.                                                           *)

(* An interrupted write has spent its id: its commit has no versions.       *)
OrphansKept ==
    \A o \in orphans : "commit" \in DOMAIN o /\ o.commit \in DOMAIN hist /\ hist[o.commit].versions = <<>>

(* So nothing in the history has its place.                                 *)
LEMMA OrphansElsewhere == ASSUME OrphansKept PROVE \A l \in Located(hist) : l \notin OrphanLocs
<1> SUFFICES ASSUME NEW l \in Located(hist), l \in OrphanLocs PROVE FALSE
  OBVIOUS
<1>1. PICK o \in orphans : l = <<o.commit, 1>>
  BY DEF OrphanLocs, OrphanLoc
<1>2. PICK c \in DOMAIN hist : \E i : i \in DOMAIN hist[c].versions /\ l = <<c, i>>
  BY DEF Located
<1>3. PICK i : i \in DOMAIN hist[c].versions /\ l = <<c, i>>
  BY <1>2
<1>4. c = o.commit /\ i = 1
  BY <1>1, <1>3
<1>5. 1 \in DOMAIN << >>
  BY <1>3, <1>4 DEF OrphansKept
<1> QED
  BY <1>5

(* Where no row is lost, a lookup finds what is filed and in force.         *)
LEMMA FoundIs ==
    ASSUME Proper, HistKept, OrphansKept, lost = {}, NEW filed, NEW t \in Nat, NEW n
    PROVE  \A l : l \in Found(filed, t, n) <=>
               l \in Located(hist) /\ l[1] <= n /\ filed \in Filed(At(hist, l)) /\ InForce(At(hist, l), t)
<1>1. \A l \in Located(hist) : At(hist, l).to \in Nat /\ VersionAt(l) = At(hist, l) /\ l \notin OrphanLocs
  BY Places, Carried, OrphansElsewhere DEF HistKept, VersionAt, Proper
<1>2. \A l \in Located(hist) : At(hist, l).to > t <=> t < At(hist, l).to
  BY <1>1
<1> QED
  BY <1>1, <1>2 DEF Found, Scanned, Stored, Within, InForce

(* The canonical lookup selects what holds.                                 *)
LEMMA CanonicalIs ==
    ASSUME Proper, HistKept, OrphansKept, lost = {}, NEW filter, NEW t \in Nat, NEW n
    PROVE  \A l : l \in Canonical(filter, t, n) <=> l \in Holding(t, n) /\ ClaimMatches(At(hist, l).pay, filter)
<1> DEFINE Of(e) == {l \in Catalog(n) : InForce(At(hist, l), t) /\ At(hist, l).entity = e}
           Resolutions(e) == Found(<<"logical_valid", e>>, t, n)
           Seen == Found(ClaimFiled(filter), t, n)
<1>1. \A l \in Located(hist) : At(hist, l) \in Version
  BY Places DEF HistKept
<1>2. \A e : e[1] = "claim" => Resolutions(e) = Of(e)
  BY FoundIs, FiledUnder DEF Catalog
<1>3. \A l \in Seen : At(hist, l).entity[1] = "claim"
  BY <1>1, FoundIs, FiledByFilter, Carried DEF Proper
<1>4. \A l : l \in Canonical(filter, t, n) <=>
          /\ \E k \in Seen : LET e == At(hist, k).entity IN Of(e) # {} /\ l = Newest(Of(e))
          /\ At(hist, l).op # "retract" /\ ClaimMatches(At(hist, l).pay, filter)
  <2>1. \A k \in Seen : Resolutions(At(hist, k).entity) = Of(At(hist, k).entity)
    BY <1>2, <1>3
  <2> HIDE DEF Of
  <2> QED
    BY <2>1 DEF Canonical
<1>5. \A e : /\ Of(e) # {} => Newest(Of(e)) \in Reigning(t, n) /\ At(hist, Newest(Of(e))).entity = e
             /\ \A l \in Reigning(t, n) : At(hist, l).entity = e => Of(e) # {} /\ Newest(Of(e)) = l
  BY Reigns
<1>6. \A l \in Holding(t, n) : ClaimMatches(At(hist, l).pay, filter) => l \in Seen
  <2>1. \A l \in Holding(t, n) : /\ l \in Located(hist) /\ l[1] <= n /\ InForce(At(hist, l), t)
                                 /\ At(hist, l).entity[1] = "claim" /\ At(hist, l).op # "retract"
    BY HoldingReigns DEF Reigning, Catalog
  <2>2. \A l \in Holding(t, n) : At(hist, l).pay.kind = "claim"
    BY <1>1, <2>1, Carried DEF Proper
  <2> QED
    BY <2>1, <2>2, FoundIs, FiledByFilter
<1> HIDE DEF Of, Seen
<1> QED
  BY <1>4, <1>5, <1>6, HoldingReigns

-----------------------------------------------------------------------------
(* Requests.                                                                *)

(* A stored name is asked for exactly when its logical name is.             *)
LEMMA StoredNames == ASSUME NEW D, NEW p PROVE p \in StoragePredicates(D) <=> Logical(p) \in D
BY DEF StoragePredicates, Logical

(* The elements of a finite set, in some order.                             *)
LEMMA Listed ==
    ASSUME NEW S, IsFiniteSet(S)
    PROVE  SetToSeq(S) \in Seq(S) /\ Range(SetToSeq(S)) = S
<1>1. PICK n : n = Cardinality(S)
  OBVIOUS
<1>2. n \in Nat /\ \E f \in [1 .. n -> S] : IsInjective(f)
  BY <1>1, FS_CardinalityType DEF ExistsBijection, Bijection, Injection
<1>3. PICK f : f = SetToSeq(S)
  OBVIOUS
<1>4. f \in [1 .. n -> S] /\ IsInjective(f)
  BY <1>1, <1>2, <1>3 DEF SetToSeq
<1>5. f \in Injection(1 .. n, S)
  BY <1>4 DEF Injection
<1>6. Cardinality(1 .. n) = n
  <2>1. 1 \in Int /\ n \in Int /\ (IF 1 > n THEN 0 ELSE n - 1 + 1) = n
    BY <1>2
  <2> QED
    BY <2>1, FS_Interval
<1>7. f \in Surjection(1 .. n, S)
  BY <1>1, <1>5, <1>6, FS_Injection
<1> QED
  BY <1>2, <1>3, <1>4, <1>7, SMTT(30) DEF Surjection, Range

(* A query asks for the base and for what is bound.                         *)
LEMMA NarrowedMatches ==
    ASSUME NEW bindings, DOMAIN bindings \cap DOMAIN Base = {}, NEW c
    PROVE  ClaimMatches(c, Narrowed(bindings)) <=>
               /\ ClaimMatches(c, Base)
               /\ \A f \in DOMAIN bindings : bindings[f] \in {"any", c[f]}
BY DEF ClaimMatches, Narrowed

(* The queries of a request keep to the base, and together they find every  *)
(* claim that was asked for.                                                *)
LEMMA QueriesCover ==
    ASSUME Proper, NEW r \in Requests
    PROVE  /\ Len(Queries(r)) \in Nat /\ DOMAIN Queries(r) = 1 .. Len(Queries(r))
           /\ \A i \in DOMAIN Queries(r) : \A c : ClaimMatches(c, Queries(r)[i]) => ClaimMatches(c, Base)
           /\ \A c : ClaimMatches(c, Base) /\ Requested(c, r) =>
                         \E i \in DOMAIN Queries(r) : ClaimMatches(c, Queries(r)[i])
<1>1. PICK names : names = SetToSeq(StoragePredicates(r.demand))
  OBVIOUS
<1>2. IsFiniteSet(StoragePredicates(r.demand))
  <2>1. IsFiniteSet({s \in DOMAIN Aliases : Aliases[s] \in r.demand}) /\ IsFiniteSet(r.demand \ DOMAIN Aliases)
    BY FS_Subset DEF Proper, ProperHistory
  <2> QED
    BY <2>1, FS_Union DEF StoragePredicates
<1>3. names \in Seq(StoragePredicates(r.demand)) /\ Range(names) = StoragePredicates(r.demand)
  BY <1>1, <1>2, Listed
<1>4. Len(names) \in Nat /\ DOMAIN names = 1 .. Len(names)
  BY <1>3
<1> DEFINE Named(p) == [predicate |-> p, subject |-> r.subject, object |-> r.object]
           Object == [object |-> r.object]
<1>5. \A p, c : ClaimMatches(c, Narrowed(Named(p))) <=>
          ClaimMatches(c, Base) /\ p \in {"any", c.predicate} /\ r.subject \in {"any", c.subject} /\ r.object \in {"any", c.object}
  <2> TAKE p, c
  <2>1. PICK b : b = Named(p)
    OBVIOUS
  <2>2. DOMAIN b = {"predicate", "subject", "object"} /\ b["predicate"] = p /\ b["subject"] = r.subject /\ b["object"] = r.object
    BY <2>1
  <2>3. DOMAIN b \cap DOMAIN Base = {}
    BY <2>2 DEF Base
  <2>4. ClaimMatches(c, Narrowed(b)) <=> ClaimMatches(c, Base) /\ \A f \in DOMAIN b : b[f] \in {"any", c[f]}
    BY <2>3, NarrowedMatches
  <2> QED
    BY <2>1, <2>2, <2>4
<1>6. \A c : ClaimMatches(c, Narrowed(Object)) <=> ClaimMatches(c, Base) /\ r.object \in {"any", c.object}
  <2> TAKE c
  <2>1. PICK b : b = Object
    OBVIOUS
  <2>2. DOMAIN b = {"object"} /\ b["object"] = r.object
    BY <2>1
  <2>3. DOMAIN b \cap DOMAIN Base = {}
    BY <2>2 DEF Base
  <2>4. ClaimMatches(c, Narrowed(b)) <=> ClaimMatches(c, Base) /\ \A f \in DOMAIN b : b[f] \in {"any", c[f]}
    BY <2>3, NarrowedMatches
  <2> QED
    BY <2>1, <2>2, <2>4
<1>7. CASE r.given /\ names # <<>>
  <2>1. PICK q : q = [i \in DOMAIN names |-> Narrowed(Named(names[i]))]
    OBVIOUS
  <2>2. q = Queries(r)
    BY <1>1, <1>7, <2>1 DEF Queries
  <2>3. Len(q) = Len(names) /\ DOMAIN q = DOMAIN names /\ \A i \in DOMAIN names : q[i] = Narrowed(Named(names[i]))
    BY <1>4, <2>1
  <2>4. ASSUME NEW c, ClaimMatches(c, Base), Requested(c, r)
        PROVE  \E i \in DOMAIN q : ClaimMatches(c, q[i])
    <3>1. c.predicate \in Range(names) /\ r.subject \in {"any", c.subject} /\ r.object \in {"any", c.object}
      BY <1>3, <1>7, <2>4 DEF Requested
    <3>2. PICK i \in DOMAIN names : names[i] = c.predicate
      BY <3>1 DEF Range
    <3> HIDE DEF Named
    <3> QED
      BY <1>5, <2>3, <2>4, <3>1, <3>2
  <2>5. \A i \in DOMAIN q : \A c : ClaimMatches(c, q[i]) => ClaimMatches(c, Base)
    <3> HIDE DEF Named
    <3> QED
      BY <1>5, <2>3
  <2> QED
    BY <1>4, <2>2, <2>3, <2>4, <2>5
<1>8. CASE ~(r.given /\ names # <<>>)
  <2>1. PICK q : q = <<Narrowed(Object)>>
    OBVIOUS
  <2>2. q = Queries(r)
    BY <1>1, <1>8, <2>1 DEF Queries
  <2>3. Len(q) = 1 /\ DOMAIN q = 1 .. 1 /\ q[1] = Narrowed(Object)
    BY <2>1
  <2> HIDE DEF Object
  <2> QED
    BY <1>6, <2>2, <2>3 DEF Requested
<1> QED
  BY <1>7, <1>8

(* What a pass should return, of the versions that hold.                    *)
Basic(t, n) == {l \in Holding(t, n) : ClaimMatches(At(hist, l).pay, Base)}

(* What a pass should return is the evidence of those versions.             *)
LEMMA WantedIs == ASSUME NEW t PROVE Wanted(t) = Evidence(Basic(t, pass.horizon), pass.request, pass.policy)
BY StoredNames DEF Wanted, Evidence, Basic, Requested

(* Queries over what holds, or over the part of it that can be asked for,   *)
(* yield the evidence that is wanted.                                       *)
YieldedBy(W, r, K) == {l \in W : \E i \in K : ClaimMatches(At(hist, l).pay, Queries(r)[i])}

(* The queries select from such a part neither more nor less.               *)
LEMMA YieldExact ==
    ASSUME Proper, NEW r \in Requests, NEW policy, NEW t, NEW n, NEW W \in SUBSET Holding(t, n),
           \A l \in Basic(t, n) : Requested(At(hist, l).pay, r) => l \in W
    PROVE  Evidence(YieldedBy(W, r, DOMAIN Queries(r)), r, policy) = Evidence(Basic(t, n), r, policy)
<1>1. \A l \in YieldedBy(W, r, DOMAIN Queries(r)) : l \in Basic(t, n)
  BY QueriesCover DEF YieldedBy, Basic
<1>2. \A l \in Basic(t, n) : Requested(At(hist, l).pay, r) => l \in YieldedBy(W, r, DOMAIN Queries(r))
  BY QueriesCover DEF YieldedBy, Basic
<1> QED
  BY <1>1, <1>2 DEF Evidence

-----------------------------------------------------------------------------
(* The native sources.                                                      *)

(* Of the versions that hold, the candidates of the locator source are all  *)
(* that can be asked for.                                                   *)
LEMMA LocatorCovers ==
    ASSUME Proper, HistKept, NEW r \in Requests, NEW t \in Nat, NEW n \in Nat,
           NEW W, W = LocatorScan(r, t, n).winners
    PROVE  /\ W \in SUBSET Holding(t, n)
           /\ \A l \in Basic(t, n) : Requested(At(hist, l).pay, r) => l \in W
<1> DEFINE Ids(name, value) == Claims({l \in MembersOf(name, value, t, n) : InForce(At(hist, l), t)})
           World == Ids("world", Base.world)
           Predicates == IF r.given THEN {Ids("predicate", p) : p \in StoragePredicates(r.demand)} ELSE {World}
           Subject == IF r.subject = "any" THEN World ELSE Ids("subject", r.subject)
<1>1. PICK E : E = IF n = 0 THEN {} ELSE World \cap Subject \cap UNION Predicates
  OBVIOUS
<1>2. PICK S : S = {l \in Catalog(n) : InForce(At(hist, l), t) /\ At(hist, l).entity \in E}
  OBVIOUS
<1>3. UNION {{l \in HistoryOf(e, t, n) : InForce(At(hist, l), t)} : e \in E} = S
  BY <1>2 DEF HistoryOf, InForce
<1>4. W = Live(LastOf(S))
  <2>1. \A name, value : DimensionScan(name, value, t, n).ids = Ids(name, value)
    BY DEF DimensionScan
  <2> HIDE DEF Ids
  <2>2. PICK ps : ps = IF r.given THEN {DimensionScan("predicate", p, t, n) : p \in StoragePredicates(r.demand)}
                       ELSE {DimensionScan("world", Base.world, t, n)}
    OBVIOUS
  <2>3. UNION {s.ids : s \in ps} = UNION Predicates
    <3>1. CASE r.given
      BY <2>1, <2>2, <3>1
    <3>2. CASE ~r.given
      BY <2>1, <2>2, <3>2
    <3> QED
      BY <3>1, <3>2
  <2>4. PICK sub : sub = IF r.subject = "any" THEN DimensionScan("world", Base.world, t, n)
                         ELSE DimensionScan("subject", r.subject, t, n)
    OBVIOUS
  <2>5. sub.ids = Subject /\ DimensionScan("world", Base.world, t, n).ids = World
    BY <2>1, <2>4
  <2>6. W = Live(LastOf(UNION {{l \in HistoryOf(e, t, n) : InForce(At(hist, l), t)} :
                e \in IF n = 0 THEN {} ELSE DimensionScan("world", Base.world, t, n).ids \cap sub.ids \cap UNION {s.ids : s \in ps}}))
    BY <2>2, <2>4 DEF LocatorScan
  <2> HIDE DEF World, Predicates, Subject
  <2> QED
    BY <1>1, <1>3, <2>3, <2>5, <2>6
<1>5. \A l : l \in LastOf(S) <=> l \in Reigning(t, n) /\ At(hist, l).entity \in E
  BY <1>2, LastOnesReign
<1>6. \A l : l \in W <=> l \in Holding(t, n) /\ At(hist, l).entity \in E
  BY <1>4, <1>5, HoldingReigns DEF Live
<1>7. ASSUME NEW l \in Basic(t, n), Requested(At(hist, l).pay, r) PROVE At(hist, l).entity \in E
  <2>1. l \in Catalog(n) /\ InForce(At(hist, l), t) /\ At(hist, l).op # "retract"
    BY <1>7, HoldingReigns DEF Basic, Reigning
  <2>2. l[1] \in Nat /\ l[1] # 0 /\ l[1] <= n /\ At(hist, l) \in Version
    BY <2>1, Places DEF HistKept, Catalog
  <2>3. n # 0 /\ At(hist, l).pay # Empty /\ At(hist, l).from <= t
    BY <2>1, <2>2, Carried DEF InForce, Proper
  <2>4. \A name, value : At(hist, l).pay[name] = value => At(hist, l).entity \in Ids(name, value)
    BY <2>1, <2>3 DEF MembersOf, Claims
  <2>5. At(hist, l).pay["world"] = Base.world
    BY <1>7 DEF Basic, ClaimMatches, Base
  <2>6. At(hist, l).entity \in World
    BY <2>4, <2>5
  <2>7. At(hist, l).entity \in UNION Predicates
    <3>1. CASE r.given
      BY <1>7, <2>4, <3>1 DEF Requested
    <3>2. CASE ~r.given
      BY <2>6, <3>2
    <3> QED
      BY <3>1, <3>2
  <2>8. At(hist, l).entity \in Subject
    BY <1>7, <2>4, <2>6 DEF Requested
  <2> HIDE DEF World, Predicates, Subject
  <2> QED
    BY <1>1, <2>3, <2>6, <2>7, <2>8
<1> QED
  BY <1>6, <1>7 DEF Basic

(* In a prefix with no unfinished write, where no row is lost, a scan of    *)
(* raw rows finds what the commits say.                                     *)
LEMMA ScannedIs ==
    ASSUME Proper, HistKept, OrphansKept, lost = {}, NEW filed, NEW t, NEW n, PrefixIntact(n)
    PROVE  \A l : l \in Scanned(filed, t, n) <=>
               l \in Located(hist) /\ l[1] <= n /\ filed \in Filed(At(hist, l)) /\ At(hist, l).from <= t
<1>1. \A l \in Located(hist) : VersionAt(l) = At(hist, l) /\ l \notin OrphanLocs
  BY OrphansElsewhere DEF VersionAt
<1>2. \A l \in OrphanLocs : ~(l[1] <= n)
  BY DEF OrphanLocs, OrphanLoc, PrefixIntact
<1> QED
  BY <1>1, <1>2 DEF Scanned, Stored, Within

(* So the native sources refuse nothing there.                              *)
LEMMA NativeAgrees ==
    ASSUME Proper, HistKept, OrphansKept, lost = {}, NEW r \in Requests, NEW t \in Nat, NEW n \in Nat, PrefixIntact(n)
    PROVE  NativeScan(r, t, n).ok /\ LocatorScan(r, t, n).ok
<1>1. Conforms(t, n)
  <2>1. \A l : ClaimMatches(At(hist, l).pay, <<>>)
    BY DEF ClaimMatches
  <2>2. \A l : l \in Canonical(<<>>, t, n) <=> l \in Live(Winners(t, n))
    BY <2>1, CanonicalIs, WinnersReign
  <2> QED
    BY <2>2 DEF Conforms
<1>2. ASSUME NEW name \in {"world", "predicate", "subject"}, NEW value
      PROVE  DimensionScan(name, value, t, n).ok
  <2>1. \A l \in Located(hist) : At(hist, l) \in Version
    BY Places DEF HistKept
  <2>2. \A l \in Located(hist) : <<"dimension", name, value>> \in Filed(At(hist, l)) <=>
            At(hist, l).entity[1] = "claim" /\ At(hist, l).pay # Empty /\ At(hist, l).pay[name] = value
    <3> TAKE l \in Located(hist)
    <3>1. PICK v : v = At(hist, l)
      OBVIOUS
    <3>2. v \in Version
      BY <2>1, <3>1
    <3>3. v.pay.kind = "claim" <=> v.entity[1] = "claim" /\ v.pay # Empty
      BY <3>2, Carried DEF Proper
    <3>4. <<"dimension", name, value>> \in Filed(v) <=> v.pay.kind = "claim" /\ <<name, value>> \in Dimensions(v.pay)
      BY FiledUnder
    <3>5. <<name, value>> \in Dimensions(v.pay) <=> v.pay[name] = value
      BY DimensionsOf
    <3> QED
      BY <3>1, <3>3, <3>4, <3>5
  <2>3. \A l : l \in Scanned(<<"dimension", name, value>>, t, n) <=> l \in MembersOf(name, value, t, n)
    BY <2>2, ScannedIs DEF MembersOf, Catalog
  <2>4. Scanned(<<"dimension", name, value>>, t, n) = MembersOf(name, value, t, n)
    BY <2>3
  <2> QED
    BY <2>4 DEF DimensionScan
<1>3. ASSUME NEW e, e[1] = "claim"
      PROVE  Scanned(<<"logical_valid", e>>, t, n) = HistoryOf(e, t, n)
  <2>1. \A l : l \in Scanned(<<"logical_valid", e>>, t, n) <=> l \in HistoryOf(e, t, n)
    BY <1>3, FiledUnder, ScannedIs DEF HistoryOf, Catalog
  <2> QED
    BY <2>1
<1>4. \A e \in DimensionScan("world", Base.world, t, n).ids : e[1] = "claim"
  BY DEF DimensionScan, Claims, MembersOf, Catalog
<1>5. LocatorScan(r, t, n).ok
  BY <1>1, <1>2, <1>3, <1>4 DEF LocatorScan
<1> QED
  BY <1>1, <1>5 DEF NativeScan

-----------------------------------------------------------------------------
(* The range source.                                                        *)

(* Nothing changes between two boundaries of the history.                   *)
LEMMA BetweenCuts ==
    ASSUME Proper, HistKept, NEW n, NEW start \in Nat, NEW end \in Nat, NEW a \in Cuts(start, end, n) \ {end}, start < end,
           NEW next, next = Min({b \in Cuts(start, end, n) : b > a}),
           NEW t \in Nat, a <= t, t < next, t < end
    PROVE  Basic(a, n) = Basic(t, n)
<1>1. \A l \in Catalog(n) : At(hist, l).from \in Nat /\ At(hist, l).to \in Nat
  BY Places, Carried DEF Catalog, HistKept, Proper
<1>2. Cuts(start, end, n) \in SUBSET Nat /\ a \in Nat /\ start <= a /\ a < end
  BY <1>1 DEF Cuts
<1>3. \A b \in Cuts(start, end, n) : b > a => next <= b
  <2>1. PICK K : K = {b \in Cuts(start, end, n) : b > a}
    OBVIOUS
  <2>2. end \in K /\ K \in SUBSET Nat
    BY <1>2, <2>1 DEF Cuts
  <2>3. PICK k \in K : \A j \in K : k <= j
    BY <2>2, LeastOf
  <2>4. Min(K) \in K /\ \A j \in K : Min(K) <= j
    BY <2>3 DEF Min
  <2> QED
    BY <2>1, <2>4
<1>4. next \in Nat
  <2>1. PICK K : K = {b \in Cuts(start, end, n) : b > a}
    OBVIOUS
  <2>2. end \in K /\ K \in SUBSET Nat
    BY <1>2, <2>1 DEF Cuts
  <2>3. PICK k \in K : \A j \in K : k <= j
    BY <2>2, LeastOf
  <2>4. Min(K) \in K
    BY <2>3 DEF Min
  <2> QED
    BY <2>1, <2>2, <2>4
<1>5. \A l \in Catalog(n), b \in Nat : b \in {At(hist, l).from, At(hist, l).to} => ~(a < b /\ b <= t)
  <2> SUFFICES ASSUME NEW l \in Catalog(n), NEW b \in {At(hist, l).from, At(hist, l).to}, b \in Nat, a < b, b <= t
               PROVE  FALSE
    OBVIOUS
  <2>1. b \in Cuts(start, end, n)
    BY <1>2 DEF Cuts
  <2> QED
    BY <1>2, <1>3, <1>4, <2>1
<1>6. \A l \in Catalog(n) : InForce(At(hist, l), a) <=> InForce(At(hist, l), t)
  BY <1>1, <1>2, <1>5 DEF InForce
<1> QED
  BY <1>6 DEF Basic, Holding, Live

(* What one query yields, and what several do, each row for its segment.    *)
Answer(p, k) == {l \in Holding(InstantOf(p, k), p.horizon) : ClaimMatches(At(hist, l).pay, FilterOf(p, k))}
Yields(p, K) == UNION {{<<e, SpanOf(p, k)>> : e \in Evidence(Answer(p, k), p.request, p.policy)} : k \in K}
During(rows, t) == {q[1] : q \in {k \in rows : k[2][1] <= t /\ t < k[2][2]}}

(* A pass keeps to the shape it was opened with.                            *)
Sources == {"canonical", "native", "locator", "range"}
Started(p) ==
    /\ p = [state |-> p.state, source |-> p.source, request |-> p.request, policy |-> p.policy, t |-> p.t, end |-> p.end,
            horizon |-> p.horizon, todo |-> p.todo, scanned |-> p.scanned, rows |-> p.rows, query |-> p.query,
            overtaken |-> p.overtaken]
    /\ p.state \in {"open", "limit", "done", "refused"} /\ p.source \in Sources /\ p.request \in Requests
    /\ p.t \in Nat /\ p.end \in Nat /\ p.horizon \in Nat /\ p.overtaken \in BOOLEAN
    /\ IF p.source = "range" THEN p.t < p.end ELSE p.end = p.t + 1

(* Its tasks are numbers.                                                   *)
LEMMA TasksAre == ASSUME Proper, HistKept, NEW p, Started(p) PROVE Tasks(p) \in SUBSET Nat
<1>1. DOMAIN Queries(p.request) \in SUBSET Nat
  BY QueriesCover DEF Started
<1>2. \A l \in Catalog(p.horizon) : At(hist, l).from \in Nat /\ At(hist, l).to \in Nat
  BY Places, Carried DEF Catalog, HistKept, Proper
<1>3. Cuts(p.t, p.end, p.horizon) \in SUBSET Nat
  BY <1>2 DEF Cuts, Started
<1> QED
  BY <1>1, <1>3 DEF Tasks

(* At each instant of the range, the segments that contain it have the      *)
(* claims that hold.                                                        *)
LEMMA RangeIs ==
    ASSUME Proper, HistKept, NEW p, Started(p), p.source = "range",
           NEW t \in Nat, p.t <= t, t < p.end
    PROVE  During(Yields(p, Tasks(p)), t) = Evidence(Basic(t, p.horizon), p.request, p.policy)
<1>1. PICK n : n = p.horizon
  OBVIOUS
<1>2. PICK start : start = p.t
  OBVIOUS
<1>3. PICK end : end = p.end
  OBVIOUS
<1>4. start \in Nat /\ end \in Nat /\ start < end /\ start <= t /\ t < end
  BY <1>2, <1>3 DEF Started
<1> DEFINE cuts == Cuts(start, end, n)
           Next1(a) == Min({b \in cuts : b > a})
<1>5. \A l \in Catalog(n) : At(hist, l).from \in Nat /\ At(hist, l).to \in Nat
  BY Places, Carried DEF Catalog, HistKept, Proper
<1>6. cuts \in SUBSET Nat /\ start \in cuts /\ end \in cuts
  BY <1>4, <1>5 DEF Cuts
<1>7. \A a : Answer(p, a) = Basic(a, n)
  BY <1>1 DEF Answer, Basic, InstantOf, FilterOf
<1>8. \A a : SpanOf(p, a) = <<a, Next1(a)>>
  BY <1>1, <1>2, <1>3 DEF SpanOf, InstantOf
<1>9. Tasks(p) = cuts \ {end}
  BY <1>1, <1>2, <1>3 DEF Tasks
<1>10. PICK rows : rows = Yields(p, Tasks(p))
  OBVIOUS
<1>11. \A k : k \in rows <=> \E a \in cuts \ {end} : \E e \in Evidence(Basic(a, n), p.request, p.policy) : k = <<e, <<a, Next1(a)>>>>
  <2> HIDE DEF cuts, Next1
  <2>1. rows = UNION {{<<e, <<a, Next1(a)>>>> : e \in Evidence(Basic(a, n), p.request, p.policy)} : a \in cuts \ {end}}
    BY <1>7, <1>8, <1>9, <1>10 DEF Yields
  <2> QED
    BY <2>1
<1>12. \A a \in cuts \ {end} : a <= t /\ t < Next1(a) => Basic(a, n) = Basic(t, n)
  BY <1>4, BetweenCuts
<1>13. PICK a \in cuts \ {end} : a <= t /\ t < Next1(a)
  <2>1. PICK K : K = {b \in cuts : b <= t}
    OBVIOUS
  <2>2. K \in SUBSET (0 .. t) /\ start \in K
    BY <1>4, <1>6, <2>1
  <2>3. PICK a \in K : \A j \in K : j <= a
    BY <2>2, GreatestOf
  <2>4. a \in cuts /\ a \in Nat /\ a <= t /\ a < end
    BY <1>4, <1>6, <2>1, <2>3
  <2>5. PICK L : L = {b \in cuts : b > a}
    OBVIOUS
  <2>6. L \in SUBSET Nat /\ end \in L
    BY <1>6, <2>4, <2>5
  <2>7. PICK k \in L : \A j \in L : k <= j
    BY <2>6, LeastOf
  <2>8. Min(L) \in L
    BY <2>7 DEF Min
  <2>9. \A b \in L : b \in Nat /\ t < b
    BY <1>6, <2>1, <2>3, <2>4, <2>5
  <2>10. Next1(a) = Min(L) /\ t < Min(L)
    BY <2>5, <2>8, <2>9
  <2>11. a \in cuts \ {end}
    BY <1>4, <1>6, <2>4
  <2> HIDE DEF cuts, Next1
  <2> QED
    BY <2>4, <2>10, <2>11
<1> HIDE DEF cuts, Next1
<1>14. \A k \in rows : k[2][1] <= t /\ t < k[2][2] => k[1] \in Evidence(Basic(t, n), p.request, p.policy)
  BY <1>11, <1>12
<1>15. \A e \in Evidence(Basic(t, n), p.request, p.policy) : \E k \in rows : k[2][1] <= t /\ t < k[2][2] /\ k[1] = e
  <2> TAKE e \in Evidence(Basic(t, n), p.request, p.policy)
  <2>1. PICK k : k = <<e, <<a, Next1(a)>>>>
    OBVIOUS
  <2>2. k \in rows
    BY <1>11, <1>12, <1>13, <2>1
  <2> QED
    BY <1>13, <2>1, <2>2
<1> QED
  BY <1>1, <1>10, <1>14, <1>15 DEF During

(* So have the queries of a pass that reads an instant.                     *)
LEMMA InstantIs ==
    ASSUME Proper, HistKept, NEW p, Started(p), p.source # "range"
    PROVE  During(Yields(p, Tasks(p)), p.t) = Evidence(Basic(p.t, p.horizon), p.request, p.policy)
<1>1. p.request \in Requests /\ p.t \in Nat /\ p.end = p.t + 1
  BY DEF Started
<1>2. PICK W : W = Holding(p.t, p.horizon)
  OBVIOUS
<1>3. Evidence(YieldedBy(W, p.request, DOMAIN Queries(p.request)), p.request, p.policy)
          = Evidence(Basic(p.t, p.horizon), p.request, p.policy)
  BY <1>1, <1>2, YieldExact DEF Basic
<1>4. Tasks(p) = DOMAIN Queries(p.request)
  BY DEF Tasks
<1>5. \A k : SpanOf(p, k) = <<p.t, p.end>> /\ Answer(p, k) = {l \in W : ClaimMatches(At(hist, l).pay, Queries(p.request)[k])}
  BY <1>2 DEF SpanOf, InstantOf, FilterOf, Answer
<1>6. \A q : q \in Yields(p, Tasks(p)) <=>
          \E k \in Tasks(p) : \E e \in Evidence(Answer(p, k), p.request, p.policy) : q = <<e, <<p.t, p.end>>>>
  BY <1>5 DEF Yields
<1>7. \A e : e \in During(Yields(p, Tasks(p)), p.t) <=> \E k \in Tasks(p) : e \in Evidence(Answer(p, k), p.request, p.policy)
  <2> TAKE e
  <2>1. PICK q : q = <<e, <<p.t, p.end>>>>
    OBVIOUS
  <2>2. q[1] = e /\ q[2][1] <= p.t /\ p.t < q[2][2]
    BY <1>1, <2>1
  <2>3. (\E k \in Tasks(p) : e \in Evidence(Answer(p, k), p.request, p.policy)) => q \in Yields(p, Tasks(p))
    BY <1>6, <2>1
  <2>4. \A k \in Yields(p, Tasks(p)) : k[1] = e => \E i \in Tasks(p) : e \in Evidence(Answer(p, i), p.request, p.policy)
    BY <1>6
  <2> QED
    BY <2>2, <2>3, <2>4 DEF During
<1>8. \A e : (\E k \in Tasks(p) : e \in Evidence(Answer(p, k), p.request, p.policy))
                 <=> e \in Evidence(YieldedBy(W, p.request, DOMAIN Queries(p.request)), p.request, p.policy)
  BY <1>4, <1>5 DEF Evidence, YieldedBy
<1> QED
  BY <1>3, <1>7, <1>8

(* At every instant that a pass covers, its queries find what is wanted.    *)
LEMMA YieldsShow ==
    ASSUME Proper, HistKept, NEW p, Started(p), NEW t \in p.t .. (p.end - 1)
    PROVE  During(Yields(p, Tasks(p)), t) = Evidence(Basic(t, p.horizon), p.request, p.policy)
<1>1. t \in Nat /\ p.t <= t /\ t < p.end
  BY DEF Started
<1>2. p.source # "range" => t = p.t
  BY DEF Started
<1> QED
  BY <1>1, <1>2, RangeIs, InstantIs

-----------------------------------------------------------------------------
(* A query under way.                                                       *)

(* What a lookup should find, and the rows its first scan should meet.      *)
Due(filed, t, n) == {l \in Catalog(n) : filed \in Filed(At(hist, l)) /\ InForce(At(hist, l), t)}
Begun(filed, t, n) == {l \in Catalog(n) : filed \in Filed(At(hist, l)) /\ At(hist, l).from <= t}
HistoryDue(e, t, n) == Due(<<"logical_valid", e>>, t, n)

(* Not ended at an instant.                                                 *)
Unexpired(l, t) == At(hist, l).to > t

(* Of a set of locators, from one of them on.                               *)
Later(S, D) == S \subseteq D /\ \A l \in S, m \in D : NotAfter(l, m) => m \in S

(* What was found of a claim are the later of its versions in force.        *)
LatestFound(found, t, n) ==
    \A l \in found : l \in Catalog(n) /\ InForce(At(hist, l), t)
                     /\ \A m \in HistoryDue(At(hist, l).entity, t, n) : NotAfter(l, m) => m \in found

(* Every candidate is to be looked up, or was found completely.             *)
Settled(found, left, filter, t, n) ==
    \A l \in Due(ClaimFiled(filter), t, n) :
        At(hist, l).entity \in left \/ HistoryDue(At(hist, l).entity, t, n) \subseteq found

(* A lookup of the candidates, or one of a claim's history, which has met   *)
(* all there is to meet while its generation stands.                        *)
LookupKept(q, filter, t, n, overtaken) ==
    /\ q = [phase |-> q.phase, filed |-> q.filed, left |-> q.left, found |-> q.found, gone |-> q.gone,
            replaced |-> q.replaced, started |-> q.started]
    /\ IF q.filed[1] = "logical_valid"
       THEN /\ q.filed = <<"logical_valid", q.filed[2]>> /\ \A e \in q.left \cup {q.filed[2]} : e[1] = "claim"
            /\ LatestFound(q.found, t, n)
            /\ ~overtaken => Settled(q.found, q.left \cup {q.filed[2]}, filter, t, n)
       ELSE q.filed = ClaimFiled(filter)
    /\ q.phase = "load" \/ q.gone = {}
    /\ q.replaced => overtaken
    /\ q.phase = "ends" =>
           /\ Later(q.started, Begun(q.filed, t, n))
           /\ ~overtaken => q.started = Begun(q.filed, t, n)
FoundKept(q, filter, t, n, overtaken) ==
    /\ LatestFound(q.found, t, n)
    /\ ~overtaken => Settled(q.found, {}, filter, t, n)

Kept(q, filter, t, n, overtaken) ==
    IF q.phase = "yield" THEN FoundKept(q, filter, t, n, overtaken) ELSE LookupKept(q, filter, t, n, overtaken)
QueryKept(p) ==
    \/ p.query = NoQuery
    \/ p.todo # {} /\ Kept(p.query, FilterOf(p, Min(p.todo)), InstantOf(p, Min(p.todo)), p.horizon, p.overtaken)

(* Candidates are claims, and their histories are elsewhere.                *)
LEMMA FiledApart == ASSUME NEW filter PROVE ClaimFiled(filter)[1] # "logical_valid"
BY DEF ClaimFiled

(* The history of a claim is what there is of it.                           *)
LEMMA HistoryIs ==
    ASSUME NEW e, NEW t, NEW n
    PROVE  HistoryDue(e, t, n) = {l \in Catalog(n) : InForce(At(hist, l), t) /\ At(hist, l).entity = e}
BY FiledUnder DEF HistoryDue, Due

(* What a lookup finds, if it finds the later part of what it should, keeps *)
(* the query.                                                               *)
LEMMA AnsweredKept ==
    ASSUME Proper, HistKept, NEW filter, NEW t, NEW n, NEW overtaken \in BOOLEAN, NEW q,
           LookupKept(q, filter, t, n, overtaken), q = pass.query,
           NEW locs, Later(locs, Due(q.filed, t, n)), ~overtaken => locs = Due(q.filed, t, n)
    PROVE  \E r : Answered(locs) = [pass EXCEPT !.query = r] /\ r # NoQuery /\ Kept(r, filter, t, n, overtaken)
<1>1. PICK found : found = IF q.filed[1] = "logical_valid" THEN q.found \cup locs ELSE {}
  OBVIOUS
<1>2. PICK left : left = IF q.filed[1] = "logical_valid" THEN q.left ELSE Claims(locs)
  OBVIOUS
<1>3. PICK next : next = CHOOSE e \in left : TRUE
  OBVIOUS
<1>4. PICK r : r = IF left = {} THEN [phase |-> "yield", found |-> found] ELSE Lookup(<<"logical_valid", next>>, left \ {next}, found)
  OBVIOUS
<1>5. Answered(locs) = [pass EXCEPT !.query = r]
  BY <1>1, <1>2, <1>3, <1>4 DEF Answered
<1>6. \A e \in left : e[1] = "claim"
  BY <1>2 DEF LookupKept, Claims, Later, Due, Catalog
<1>7. LatestFound(found, t, n)
  <2>1. CASE q.filed[1] = "logical_valid"
    <3>1. found = q.found \cup locs /\ q.filed = <<"logical_valid", q.filed[2]>> /\ LatestFound(q.found, t, n)
      BY <1>1, <2>1 DEF LookupKept
    <3>2. Due(q.filed, t, n) = HistoryDue(q.filed[2], t, n)
      BY <3>1 DEF HistoryDue
    <3>3. ASSUME NEW l \in locs
          PROVE  l \in Catalog(n) /\ InForce(At(hist, l), t) /\ \A m \in HistoryDue(At(hist, l).entity, t, n) : NotAfter(l, m) => m \in locs
      <4>1. l \in HistoryDue(q.filed[2], t, n)
        BY <3>2 DEF Later
      <4>2. l \in Catalog(n) /\ InForce(At(hist, l), t) /\ At(hist, l).entity = q.filed[2]
        BY <4>1, HistoryIs
      <4> QED
        BY <3>2, <4>2 DEF Later
    <3> QED
      BY <3>1, <3>3 DEF LatestFound
  <2>2. CASE q.filed[1] # "logical_valid"
    BY <1>1, <2>2 DEF LatestFound
  <2> QED
    BY <2>1, <2>2
<1>8. ~overtaken => Settled(found, left, filter, t, n)
  <2>1. SUFFICES ASSUME ~overtaken PROVE Settled(found, left, filter, t, n)
    OBVIOUS
  <2>2. CASE q.filed[1] = "logical_valid"
    <3>1. found = q.found \cup HistoryDue(q.filed[2], t, n) /\ left = q.left /\ Settled(q.found, q.left \cup {q.filed[2]}, filter, t, n)
      BY <1>1, <1>2, <2>1, <2>2 DEF LookupKept, HistoryDue
    <3> QED
      BY <3>1 DEF Settled
  <2>3. CASE q.filed[1] # "logical_valid"
    <3>1. left = Claims(Due(ClaimFiled(filter), t, n))
      BY <1>2, <2>1, <2>3 DEF LookupKept
    <3> QED
      BY <3>1 DEF Settled, Claims
  <2> QED
    BY <2>2, <2>3
<1>9. CASE left = {}
  <2>1. r = [phase |-> "yield", found |-> found]
    BY <1>4, <1>9
  <2>2. r.phase = "yield" /\ r.found = found /\ r # NoQuery
    BY <2>1 DEF NoQuery
  <2>3. Kept(r, filter, t, n, overtaken)
    BY <1>7, <1>8, <1>9, <2>2 DEF Kept, FoundKept
  <2> QED
    BY <1>5, <2>2, <2>3
<1>10. CASE left # {}
  <2>1. next \in left
    BY <1>3, <1>10
  <2>2. PICK filed : filed = <<"logical_valid", next>>
    OBVIOUS
  <2>3. PICK rest : rest = left \ {next}
    OBVIOUS
  <2>4. r = [phase |-> "load", filed |-> filed, left |-> rest, found |-> found, gone |-> {}, replaced |-> FALSE, started |-> {}]
    BY <1>4, <1>10, <2>2, <2>3 DEF Lookup
  <2>5. r.phase = "load" /\ r.filed = filed /\ r.left = rest /\ r.found = found /\ ~r.replaced /\ r # NoQuery
    BY <2>4 DEF NoQuery
  <2>6. r = [phase |-> r.phase, filed |-> r.filed, left |-> r.left, found |-> r.found, gone |-> r.gone,
             replaced |-> r.replaced, started |-> r.started]
    BY <2>4
  <2>7. filed[1] = "logical_valid" /\ filed[2] = next /\ rest \cup {next} = left
    BY <2>1, <2>2, <2>3
  <2>8. LookupKept(r, filter, t, n, overtaken)
    BY <1>6, <1>7, <1>8, <2>2, <2>5, <2>6, <2>7 DEF LookupKept
  <2>9. Kept(r, filter, t, n, overtaken)
    BY <2>5, <2>8 DEF Kept
  <2> QED
    BY <1>5, <2>5, <2>9
<1> QED
  BY <1>9, <1>10

(* A lookup is filed under a claim or among the claims, so that it meets    *)
(* claims only; from its generation it meets the later of them, and all     *)
(* while the generation stands.                                             *)
LEMMA RowsLater ==
    ASSUME Proper, HistKept, NEW filter, NEW t, NEW overtaken \in BOOLEAN, NEW q,
           LookupKept(q, filter, t, pass.horizon, overtaken), q.phase # "load",
           NEW end, NEW cut \in Cutoffs(q)
    PROVE  /\ Later(Rows(end, q, cut), {l \in Catalog(pass.horizon) : q.filed \in Filed(At(hist, l))})
           /\ ~overtaken => Rows(end, q, cut) = {l \in Catalog(pass.horizon) : q.filed \in Filed(At(hist, l))}
<1>1. PICK n : n = pass.horizon
  OBVIOUS
<1>2. q.gone = {} /\ (q.replaced => overtaken)
  BY DEF LookupKept
<1>3. PICK C : C = {l \in Catalog(n) : q.filed \in Filed(At(hist, l))}
  OBVIOUS
<1>4. \A l \in Located(hist) : /\ l[1] \in Nat /\ l[2] \in Nat /\ l[1] > 0
                               /\ q.filed \in Filed(At(hist, l)) => At(hist, l).entity[1] = "claim"
  <2> TAKE l \in Located(hist)
  <2>1. l[1] \in Nat /\ l[2] \in Nat /\ l[1] > 0 /\ At(hist, l) \in Version
    BY Places DEF HistKept
  <2>2. CASE q.filed[1] = "logical_valid"
    <3>1. q.filed = <<"logical_valid", q.filed[2]>> /\ q.filed[2][1] = "claim"
      BY <2>2 DEF LookupKept
    <3>2. q.filed \in Filed(At(hist, l)) => q.filed[2] = At(hist, l).entity
      BY <3>1, FiledUnder
    <3> QED
      BY <2>1, <3>1, <3>2
  <2>3. CASE q.filed[1] # "logical_valid"
    <3>1. q.filed = ClaimFiled(filter)
      BY <2>3 DEF LookupKept
    <3>2. q.filed \in Filed(At(hist, l)) => At(hist, l).pay.kind = "claim"
      BY <3>1, FiledByFilter
    <3> QED
      BY <2>1, <3>2, Carried DEF Proper
  <2> QED
    BY <2>2, <2>3
<1>5. \A l : l \in C <=> l \in Located(hist) /\ l[1] <= n /\ q.filed \in Filed(At(hist, l))
  BY <1>3, <1>4 DEF Catalog
<1>6. cut[1] \in Nat /\ cut[2] \in Nat
  <2>1. CASE q.replaced
    <3>1. cut \in Located(hist) \/ cut = <<Len(hist) + 1, 1>>
      BY <2>1 DEF Cutoffs
    <3> QED
      BY <1>4, <3>1 DEF HistKept
  <2>2. CASE ~q.replaced
    BY <2>2 DEF Cutoffs
  <2> QED
    BY <2>1, <2>2
<1>7. \A l : l \in Rows(end, q, cut) <=> l \in C /\ NotBefore(l, cut)
  BY <1>1, <1>2, <1>5 DEF Rows, Within
<1>8. \A l \in C, m \in C : NotBefore(l, cut) /\ NotAfter(l, m) => NotBefore(m, cut)
  BY <1>4, <1>5, <1>6 DEF NotBefore, NotAfter
<1>9. ~overtaken => \A l \in C : NotBefore(l, cut)
  <2>1. ASSUME ~overtaken PROVE cut[1] = 0
    BY <1>2, <2>1 DEF Cutoffs
  <2> QED
    BY <1>4, <1>5, <2>1 DEF NotBefore
<1> QED
  BY <1>1, <1>3, <1>7, <1>8, <1>9 DEF Later

(* The first scan meets what has begun.                                     *)
LEMMA StartsKept ==
    ASSUME Proper, HistKept, NEW filter, NEW t, NEW overtaken \in BOOLEAN, NEW q,
           LookupKept(q, filter, t, pass.horizon, overtaken), q.phase = "starts",
           NEW cut \in Cutoffs(q), NEW started, \A l : l \in started <=> l \in Rows("start", q, cut) /\ At(hist, l).from <= t
    PROVE  /\ Later(started, Begun(q.filed, t, pass.horizon))
           /\ ~overtaken => started = Begun(q.filed, t, pass.horizon)
<1>1. PICK R : R = Rows("start", q, cut)
  OBVIOUS
<1>2. PICK C : C = {l \in Catalog(pass.horizon) : q.filed \in Filed(At(hist, l))}
  OBVIOUS
<1>3. Later(R, C) /\ (~overtaken => R = C)
  BY <1>1, <1>2, RowsLater
<1> QED
  BY <1>1, <1>2, <1>3 DEF Later, Begun

(* The second scan leaves what is due.                                      *)
LEMMA EndsKept ==
    ASSUME Proper, HistKept, NEW filter, NEW t \in Nat, NEW overtaken \in BOOLEAN, NEW q,
           LookupKept(q, filter, t, pass.horizon, overtaken), q.phase = "ends",
           NEW cut \in Cutoffs(q), NEW locs, \A l : l \in locs <=> l \in q.started /\ l \in Rows("end", q, cut) /\ Unexpired(l, t)
    PROVE  /\ Later(locs, Due(q.filed, t, pass.horizon))
           /\ ~overtaken => locs = Due(q.filed, t, pass.horizon)
<1>1. PICK R : R = Rows("end", q, cut)
  OBVIOUS
<1>2. PICK C : C = {l \in Catalog(pass.horizon) : q.filed \in Filed(At(hist, l))}
  OBVIOUS
<1>3. Later(R, C) /\ (~overtaken => R = C)
  BY <1>1, <1>2, RowsLater
<1>4. PICK B : B = Begun(q.filed, t, pass.horizon)
  OBVIOUS
<1>5. Later(q.started, B) /\ (~overtaken => q.started = B)
  BY <1>4 DEF LookupKept
<1>6. \A l \in C : At(hist, l).to \in Nat
  BY <1>2, Places, Carried DEF HistKept, Catalog, Proper
<1>7. \A l : l \in Due(q.filed, t, pass.horizon) <=> l \in B /\ l \in C /\ Unexpired(l, t)
  BY <1>2, <1>4, <1>6 DEF Due, Begun, InForce, Unexpired
<1> QED
  BY <1>1, <1>3, <1>5, <1>7 DEF Later

(* The last versions that were found are some of the answer, and all of it  *)
(* while the generations stood.                                             *)
LEMMA YieldIs ==
    ASSUME Proper, HistKept, NEW filter, NEW t, NEW n, NEW overtaken \in BOOLEAN, NEW q,
           FoundKept(q, filter, t, n, overtaken),
           NEW answer, answer = {l \in Holding(t, n) : ClaimMatches(At(hist, l).pay, filter)},
           NEW winners, winners = {l \in Live(LastOf(q.found)) : ClaimMatches(At(hist, l).pay, filter)}
    PROVE  winners \subseteq answer /\ (~overtaken => winners = answer)
<1> DEFINE Of(e) == {l \in q.found : At(hist, l).entity = e}
<1>1. hist \in Seq(Commits) /\ q.found \in SUBSET Located(hist)
  BY DEF HistKept, FoundKept, LatestFound, Catalog
<1>2. ASSUME NEW e, Of(e) # {}
      PROVE  Newest(Of(e)) \in Reigning(t, n) /\ At(hist, Newest(Of(e))).entity = e
  <2>1. PICK k : k = Newest(Of(e))
    OBVIOUS
  <2>2. k \in Of(e) /\ \A m \in Of(e) : NotAfter(m, k)
    BY <1>1, <1>2, <2>1, NewestExists
  <2>3. ASSUME NEW m \in Catalog(n), At(hist, m).entity = e, InForce(At(hist, m), t) PROVE NotAfter(m, k)
    <3>1. k[1] \in Nat /\ k[2] \in Nat /\ m[1] \in Nat /\ m[2] \in Nat
      BY <1>1, <2>2, Places DEF Catalog
    <3>2. m \in HistoryDue(e, t, n)
      BY <2>3, HistoryIs
    <3>3. NotAfter(k, m) => m \in Of(e)
      BY <2>2, <2>3, <3>2 DEF FoundKept, LatestFound
    <3> QED
      BY <2>2, <3>1, <3>3 DEF NotAfter
  <2> HIDE DEF Of
  <2>4. k \in Catalog(n) /\ InForce(At(hist, k), t) /\ At(hist, k).entity = e
    BY <2>2 DEF Of, FoundKept, LatestFound
  <2> QED
    BY <2>1, <2>3, <2>4 DEF Reigning
<1>3. \A l : l \in LastOf(q.found) <=> \E e : Of(e) # {} /\ l = Newest(Of(e))
  <2>1. \A e : e \in Claims(q.found) <=> Of(e) # {}
    BY DEF Claims
  <2> HIDE DEF Of
  <2>2. LastOf(q.found) = {Newest(Of(e)) : e \in Claims(q.found)}
    BY DEF LastOf, Of
  <2> QED
    BY <2>1, <2>2
<1>4. winners \subseteq answer
  <2> HIDE DEF Of
  <2> QED
    BY <1>2, <1>3, HoldingReigns DEF Live
<1>5. ASSUME ~overtaken, NEW l \in answer PROVE l \in winners
  <2>1. /\ l \in Catalog(n) /\ InForce(At(hist, l), t) /\ At(hist, l).op # "retract" /\ l \in Reigning(t, n)
        /\ ClaimMatches(At(hist, l).pay, filter)
    BY <1>5, HoldingReigns DEF Reigning
  <2>2. At(hist, l) \in Version /\ At(hist, l).entity[1] = "claim"
    BY <1>1, <2>1, Places DEF Catalog
  <2>3. At(hist, l).pay.kind = "claim"
    BY <2>1, <2>2, Carried DEF Proper
  <2>4. l \in Due(ClaimFiled(filter), t, n)
    BY <2>1, <2>3, FiledByFilter DEF Due
  <2>5. PICK e : e = At(hist, l).entity
    OBVIOUS
  <2>6. HistoryDue(e, t, n) \subseteq q.found
    BY <1>5, <2>4, <2>5 DEF FoundKept, Settled
  <2>7. l \in Of(e) /\ \A m \in Of(e) : NotAfter(m, l)
    <3>1. l \in HistoryDue(e, t, n)
      BY <2>1, <2>5, HistoryIs
    <3>2. \A m \in Of(e) : m \in Catalog(n) /\ InForce(At(hist, m), t) /\ At(hist, m).entity = e
      BY DEF FoundKept, LatestFound
    <3> QED
      BY <2>1, <2>5, <2>6, <3>1, <3>2 DEF Reigning
  <2>8. Newest(Of(e)) = l
    BY <1>1, <2>7, NewestIs
  <2>9. l \in LastOf(q.found)
    <3>1. Of(e) # {}
      BY <2>7
    <3> HIDE DEF Of
    <3> QED
      BY <1>3, <2>8, <3>1
  <2> QED
    BY <2>1, <2>9 DEF Live
<1> QED
  BY <1>4, <1>5

-----------------------------------------------------------------------------
(* The invariant.                                                           *)

(* Rows are only ever lost to damage.                                       *)
RowsKept == damage \in Nat /\ (damage = 0 => lost = {})

(* A pass under way: the horizon is that of a visible prefix, what has been *)
(* collected is some of what its finished queries yield, all of it if no    *)
(* lookup was overtaken by a rebuild, and a query under way keeps to what   *)
(* there is to find.                                                        *)
Collected(p) ==
    IF p.source \in {"canonical", "range"}
    THEN /\ p.todo \subseteq Tasks(p)
         /\ damage = 0 => /\ p.rows \subseteq Yields(p, Tasks(p) \ p.todo)
                          /\ ~p.overtaken => p.rows = Yields(p, Tasks(p) \ p.todo)
                          /\ QueryKept(p)
    ELSE p.rows = {} /\ ~p.overtaken
PassKept ==
    \/ pass = Idle
    \/ Started(pass) /\ (pass.state = "open" => pass.horizon <= Len(hist) /\ Collected(pass))

SourceInv == HistKept /\ OrphansKept /\ RowsKept /\ PassKept /\ ExtractionExact

(* Before a pass and while it is under way, nothing is claimed of it.       *)
LEMMA NotEnded == ASSUME pass.state \notin {"done", "refused"} PROVE ExtractionExact
BY DEF ExtractionExact

(* An empty store without a pass satisfies the invariant.                   *)
LEMMA SourceInit == Proper /\ HistoryInit /\ ExtractionInit => SourceInv
<1> SUFFICES ASSUME Proper, HistoryInit, ExtractionInit PROVE SourceInv
  OBVIOUS
<1>1. pass.state = "idle"
  BY DEF ExtractionInit, Idle
<1> QED
  BY <1>1, NotEnded DEF SourceInv, HistoryInit, ExtractionInit, HistKept, OrphansKept, RowsKept, PassKept

(* A prefix of the history stays as it is when a commit is added.           *)
LEMMA PrefixStays ==
    ASSUME HistKept, NEW x \in Commits, hist' = Append(hist, x), NEW n \in Nat, n <= Len(hist)
    PROVE  /\ HistKept' /\ Len(hist)' = Len(hist) + 1
           /\ Catalog(n)' = Catalog(n) /\ \A l \in Catalog(n) : At(hist, l)' = At(hist, l)
           /\ \A c \in DOMAIN hist : c \in DOMAIN hist' /\ hist'[c] = hist[c]
<1>1. PICK h : h = Append(hist, x)
  OBVIOUS
<1>2. h \in Seq(Commits) /\ Len(h) = Len(hist) + 1 /\ \A c \in 1 .. Len(hist) : h[c] = hist[c]
  BY <1>1 DEF HistKept
<1>3. DOMAIN hist = 1 .. Len(hist) /\ DOMAIN h = 1 .. Len(hist) + 1 /\ Len(hist) \in Nat
  BY <1>2 DEF HistKept
<1>4. \A l \in Located(hist) : l \in Located(h) /\ At(h, l) = At(hist, l)
  BY <1>2, <1>3, Places DEF HistKept, At
<1>5. \A l \in Located(h) : l[1] <= n => l \in Located(hist)
  BY <1>2, <1>3, Places DEF HistKept
<1>6. {l \in Located(h) : l[1] <= n /\ At(h, l).entity[1] = "claim"} = Catalog(n)
  BY <1>4, <1>5 DEF Catalog
<1>7. \A l \in Catalog(n) : At(h, l) = At(hist, l)
  BY <1>4 DEF Catalog
<1> QED
  BY <1>1, <1>2, <1>3, <1>6, <1>7 DEF HistKept, Catalog

(* So does what holds in it, and what a pass has found.                     *)
LEMMA CollectedStays ==
    ASSUME NEW p, damage' = damage, Catalog(p.horizon)' = Catalog(p.horizon),
           \A l \in Catalog(p.horizon) : At(hist, l)' = At(hist, l), Collected(p)
    PROVE  Collected(p)'
<1>1. PICK n : n = p.horizon
  OBVIOUS
<1>2. Catalog(n)' = Catalog(n) /\ \A l \in Catalog(n) : At(hist, l)' = At(hist, l)
  BY <1>1
<1>3. \A t : Holding(t, n)' = Holding(t, n) /\ Holding(t, n) \subseteq Catalog(n)
  BY <1>2 DEF Holding, Live
<1>4. Cuts(p.t, p.end, n)' = Cuts(p.t, p.end, n)
  BY <1>2 DEF Cuts
<1>5. Tasks(p)' = Tasks(p) /\ \A k : SpanOf(p, k)' = SpanOf(p, k)
  BY <1>1, <1>4 DEF Tasks, SpanOf, InstantOf
<1>6. \A k : Answer(p, k)' = Answer(p, k) /\ Answer(p, k) \subseteq Catalog(n)
  BY <1>1, <1>2, <1>3 DEF Answer, InstantOf, FilterOf
<1>7. \A k : Evidence(Answer(p, k), p.request, p.policy)' = Evidence(Answer(p, k), p.request, p.policy)
  BY <1>2, <1>6 DEF Evidence
<1>8. \A K : Yields(p, K)' = Yields(p, K)
  BY <1>5, <1>7 DEF Yields
<1>9. \A filed, t : Due(filed, t, n)' = Due(filed, t, n) /\ Begun(filed, t, n)' = Begun(filed, t, n)
  BY <1>2 DEF Due, Begun
<1>10. \A e, t : HistoryDue(e, t, n)' = HistoryDue(e, t, n)
  BY <1>9 DEF HistoryDue
<1>11. \A found, t : LatestFound(found, t, n)' <=> LatestFound(found, t, n)
  BY <1>2, <1>10 DEF LatestFound
<1>12. \A found, left, filter, t : Settled(found, left, filter, t, n)' <=> Settled(found, left, filter, t, n)
  <2> TAKE found, left, filter, t
  <2>1. \A l \in Due(ClaimFiled(filter), t, n) : At(hist, l)' = At(hist, l)
    BY <1>2 DEF Due
  <2>2. \A l \in Due(ClaimFiled(filter), t, n) : HistoryDue(At(hist, l).entity, t, n)' = HistoryDue(At(hist, l).entity, t, n)
    BY <1>10, <2>1
  <2> QED
    BY <1>9, <2>1, <2>2 DEF Settled
<1>13. \A q, filter, t : Kept(q, filter, t, n, p.overtaken)' <=> Kept(q, filter, t, n, p.overtaken)
  BY <1>9, <1>11, <1>12 DEF Kept, FoundKept, LookupKept
<1>14. QueryKept(p)' <=> QueryKept(p)
  BY <1>1, <1>13 DEF QueryKept, FilterOf, InstantOf
<1> QED
  BY <1>5, <1>8, <1>14 DEF Collected

(* Commits, of clients or of writes that stop before their marker.          *)
LEMMA CommitStep ==
    ASSUME SourceInv, NEW x \in Commits, hist' = Append(hist, x), UNCHANGED <<lost, damage, pass>>,
           pass.state \in {"idle", "open"},
           orphans' = orphans \/ \E o : /\ orphans' = {o} /\ o.commit = Len(hist) + 1
                                        /\ "commit" \in DOMAIN o /\ x.versions = <<>>
    PROVE  SourceInv'
<1>1. HistKept /\ Len(hist) \in Nat /\ 0 \in Nat /\ 0 <= Len(hist)
  BY DEF SourceInv, HistKept
<1>2. HistKept' /\ Len(hist)' = Len(hist) + 1 /\ \A c \in DOMAIN hist : c \in DOMAIN hist' /\ hist'[c] = hist[c]
  BY <1>1, PrefixStays
<1>3. OrphansKept'
  <2>1. CASE orphans' = orphans
    BY <1>2, <2>1 DEF SourceInv, OrphansKept
  <2>2. CASE orphans' # orphans
    <3>1. PICK o : orphans' = {o} /\ o.commit = Len(hist) + 1 /\ "commit" \in DOMAIN o /\ x.versions = <<>>
      BY <2>2
    <3>2. Len(hist) + 1 \in DOMAIN hist' /\ hist'[Len(hist) + 1] = x
      BY <1>1 DEF HistKept
    <3> QED
      BY <3>1, <3>2 DEF OrphansKept
  <2> QED
    BY <2>1, <2>2
<1>4. PassKept'
  <2>1. CASE pass = Idle
    BY <2>1 DEF PassKept
  <2>2. CASE pass # Idle
    <3>1. Started(pass) /\ pass.horizon <= Len(hist) /\ Collected(pass) /\ pass.state = "open"
      BY <2>2 DEF SourceInv, PassKept, Started
    <3>2. PICK p : p = pass
      OBVIOUS
    <3>3. p.horizon \in Nat /\ p.horizon <= Len(hist) /\ Started(p) /\ Collected(p)
      BY <3>1, <3>2 DEF Started
    <3>4. Catalog(p.horizon)' = Catalog(p.horizon) /\ \A l \in Catalog(p.horizon) : At(hist, l)' = At(hist, l)
      BY <1>1, <3>3, PrefixStays
    <3>5. Collected(p)'
      BY <3>3, <3>4, CollectedStays
    <3> QED
      BY <1>1, <1>2, <3>1, <3>2, <3>3, <3>5 DEF PassKept
  <2> QED
    BY <2>1, <2>2
<1>5. ExtractionExact'
  BY DEF ExtractionExact
<1> QED
  BY <1>2, <1>3, <1>4, <1>5 DEF SourceInv, RowsKept

-----------------------------------------------------------------------------
(* The steps.                                                               *)

(* What clients commit are versions.                                        *)
LEMMA ClientCommits ==
    ASSUME ProperHistory, HistKept, HistoryNext(Clients)
    PROVE  \E x \in Commits : hist' = Append(hist, x) /\ ~x.migration /\ UNCHANGED <<legacy, scanned, doomed>>
<1> DEFINE Committed == \E x \in Commits : hist' = Append(hist, x) /\ ~x.migration /\ UNCHANGED <<legacy, scanned, doomed>>
<1>1. ASSUME NEW v \in Version, OneVersion(v) PROVE Committed
  <2>1. PICK x : x = [migration |-> FALSE, versions |-> <<v>>]
    OBVIOUS
  <2>2. x \in Commits
    BY <2>1 DEF Commits
  <2> QED
    BY <1>1, <2>1, <2>2 DEF OneVersion, CommitVersions
<1>2. \A l \in Located(hist) : At(hist, l).from \in Nat /\ At(hist, l).to \in Nat
  BY Places, Carried DEF HistKept
<1>3. \A i \in ValidIntervals : i[1] \in Nat /\ i[2] \in Nat
  BY DEF ProperHistory
<1>4. Inherited[1] \in Nat /\ Inherited[2] \in Nat
  BY DEF ProperHistory, Inherited, Open
<1>5. \A l \in Located(hist), i \in ValidIntervals \cup {Inherited} :
          Covering(i, At(hist, l))[1] \in Nat /\ Covering(i, At(hist, l))[2] \in Nat
  BY <1>2, <1>3 DEF Covering
<1>6. ASSUME NEW p \in Clients, NEW op \in {"assert", "correct"}, NEW i, i[1] \in Nat, i[2] \in Nat
      PROVE  VersionOf(EntityOf(p), op, p, i) \in Version
  BY <1>6 DEF VersionOf, Version
<1>7. ASSUME NEW p \in Clients, NEW i, i[1] \in Nat, i[2] \in Nat
      PROVE  VersionOf(EntityOf(p), "retract", Empty, i) \in Version
  BY <1>7 DEF VersionOf, Version
<1>8. ASSUME NEW p \in Clients, NEW i \in ValidIntervals, PutVersion(p, i) \/ AssertClaim(p, i)
      PROVE  Committed
  <2>1. VersionOf(EntityOf(p), "assert", p, i) \in Version
    BY <1>3, <1>6
  <2> QED
    BY <1>1, <1>8, <2>1 DEF PutVersion, AssertClaim
<1>9. ASSUME NEW l \in Located(hist), NEW p \in Clients, NEW i \in ValidIntervals \cup {Inherited},
             CorrectVersion(l, p, i) \/ CorrectClaim(l, p, i)
      PROVE  Committed
  <2>1. VersionOf(EntityOf(p), "correct", p, Covering(i, At(hist, l))) \in Version
    BY <1>5, <1>6
  <2> QED
    BY <1>1, <1>9, <2>1 DEF CorrectVersion, CorrectClaim
<1>10. ASSUME NEW p \in Clients, NEW l \in Located(hist) \cup {<<>>}, NEW i \in ValidIntervals \cup {Inherited},
              Retracts(EntityOf(p), l, i)
       PROVE  Committed
  <2>1. PICK j : j = IF l = <<>> THEN i ELSE Covering(i, At(hist, l))
    OBVIOUS
  <2>2. j[1] \in Nat /\ j[2] \in Nat
    BY <1>3, <1>4, <1>5, <2>1
  <2>3. VersionOf(EntityOf(p), "retract", Empty, j) \in Version
    BY <1>7, <2>2
  <2> QED
    BY <1>1, <1>10, <2>1, <2>3 DEF Retracts
<1> QED
  BY <1>8, <1>9, <1>10 DEF HistoryNext, RetractVersion, RetractClaim

(* Clients write beside a pass, and their writes may stop half way.         *)
LEMMA WriteStep == ASSUME Proper, SourceInv, WriteBeside(Clients) PROVE SourceInv'
<1>1. PICK x \in Commits : hist' = Append(hist, x)
  BY ClientCommits DEF WriteBeside, SourceInv, Proper
<1> QED
  BY <1>1, CommitStep DEF WriteBeside, Undamaged, Unpassed

(* A write that stops leaves its descriptor in an empty commit.             *)
LEMMA InterruptStep ==
    ASSUME Proper, SourceInv, NEW p, NEW valid, NEW indexed, Interrupt(p, valid, indexed)
    PROVE  SourceInv'
<1>1. PICK x : x = [migration |-> FALSE, versions |-> <<>>]
  OBVIOUS
<1>2. x \in Commits /\ x.versions = <<>> /\ hist' = Append(hist, x)
  BY <1>1 DEF Interrupt, CommitVersions, Commits
<1>3. \E o : orphans' = {o} /\ o.commit = Len(hist) + 1 /\ "commit" \in DOMAIN o
  <2>1. PICK o : o = [commit |-> Len(hist) + 1, version |-> VersionOf(EntityOf(p), "assert", p, valid), indexed |-> indexed]
    OBVIOUS
  <2>2. orphans' = {o}
    BY <2>1 DEF Interrupt
  <2> QED
    BY <2>1, <2>2
<1> QED
  BY <1>2, <1>3, CommitStep DEF Interrupt, Unpassed

(* A rebuild overtakes a lookup that holds the generation before it.        *)
LEMMA ReplacedKept ==
    ASSUME NEW o, o = pass, Started(o), o.state = "open", Collected(o), NEW p, p = Replaced
    PROVE  Started(p) /\ p.state = "open" /\ p.horizon = o.horizon /\ Collected(p)
<1>1. CASE ~HoldsGeneration
  BY <1>1 DEF Replaced
<1>2. CASE HoldsGeneration
  <2>1. PICK q : q = [o.query EXCEPT !.replaced = TRUE]
    OBVIOUS
  <2>2. p = [o EXCEPT !.query = q, !.overtaken = TRUE]
    BY <1>2, <2>1 DEF Replaced
  <2>3. p = [state |-> o.state, source |-> o.source, request |-> o.request, policy |-> o.policy, t |-> o.t, end |-> o.end,
             horizon |-> o.horizon, todo |-> o.todo, scanned |-> o.scanned, rows |-> o.rows, query |-> q, overtaken |-> TRUE]
    BY <2>2 DEF Started
  <2>4. /\ p.state = o.state /\ p.source = o.source /\ p.request = o.request /\ p.policy = o.policy /\ p.t = o.t /\ p.end = o.end
        /\ p.horizon = o.horizon /\ p.todo = o.todo /\ p.rows = o.rows /\ p.query = q /\ p.overtaken = TRUE
    BY <2>3
  <2>5. p = [state |-> p.state, source |-> p.source, request |-> p.request, policy |-> p.policy, t |-> p.t, end |-> p.end,
             horizon |-> p.horizon, todo |-> p.todo, scanned |-> p.scanned, rows |-> p.rows, query |-> p.query,
             overtaken |-> p.overtaken]
    BY <2>3
  <2>6. Started(p)
    BY <2>4, <2>5 DEF Started
  <2>7. Tasks(p) = Tasks(o) /\ \A K : Yields(p, K) = Yields(o, K)
    BY <2>4 DEF Tasks, Yields, Answer, SpanOf, InstantOf, FilterOf
  <2>8. o.query.phase \in {"starts", "ends"} /\ o.source \in {"canonical", "range"}
    BY <1>2 DEF HoldsGeneration, Reading
  <2>9. QueryKept(o) => QueryKept(p)
    <3>1. SUFFICES ASSUME QueryKept(o) PROVE QueryKept(p)
      OBVIOUS
    <3>2. PICK k : k = Min(o.todo)
      OBVIOUS
    <3>3. o.todo # {} /\ LookupKept(o.query, FilterOf(o, k), InstantOf(o, k), o.horizon, o.overtaken)
      BY <2>8, <3>1, <3>2 DEF QueryKept, Kept, NoQuery
    <3>4. q = [phase |-> o.query.phase, filed |-> o.query.filed, left |-> o.query.left, found |-> o.query.found,
               gone |-> o.query.gone, replaced |-> TRUE, started |-> o.query.started]
      BY <2>1, <3>3 DEF LookupKept
    <3>5. /\ q.phase = o.query.phase /\ q.filed = o.query.filed /\ q.left = o.query.left /\ q.found = o.query.found
          /\ q.gone = o.query.gone /\ q.started = o.query.started
          /\ q = [phase |-> q.phase, filed |-> q.filed, left |-> q.left, found |-> q.found, gone |-> q.gone,
                  replaced |-> q.replaced, started |-> q.started]
      BY <3>4
    <3>6. FilterOf(p, k) = FilterOf(o, k) /\ InstantOf(p, k) = InstantOf(o, k)
      BY <2>4 DEF FilterOf, InstantOf
    <3>7. LookupKept(q, FilterOf(p, k), InstantOf(p, k), p.horizon, TRUE)
      BY <2>4, <2>8, <3>3, <3>5, <3>6 DEF LookupKept
    <3> QED
      BY <2>4, <2>8, <3>2, <3>3, <3>5, <3>7 DEF QueryKept, Kept
  <2>10. Collected(p)
    BY <2>4, <2>7, <2>8, <2>9 DEF Collected
  <2> QED
    BY <2>4, <2>6, <2>10
<1> QED
  BY <1>1, <1>2

(* The index is built anew.                                                 *)
LEMMA IndexStep ==
    ASSUME SourceInv, hist' = hist, damage' = damage, lost' = {}, pass.state \in {"idle", "open"}, pass' = Replaced,
           \A o \in orphans' : "commit" \in DOMAIN o /\ \E q \in orphans : o.commit = q.commit
    PROVE  SourceInv'
<1>1. OrphansKept'
  BY DEF SourceInv, OrphansKept
<1>2. RowsKept'
  BY DEF SourceInv, RowsKept
<1>3. PassKept' /\ pass'.state \in {"idle", "open"}
  <2>1. CASE pass = Idle
    BY <2>1 DEF Replaced, HoldsGeneration, Reading, Idle, PassKept
  <2>2. CASE pass # Idle
    <3>1. PICK o : o = pass
      OBVIOUS
    <3>2. Started(o) /\ o.state = "open" /\ o.horizon <= Len(hist) /\ Collected(o)
      BY <2>2, <3>1 DEF SourceInv, PassKept, Started
    <3>3. PICK p : p = pass'
      OBVIOUS
    <3>4. Started(p) /\ p.state = "open" /\ p.horizon = o.horizon /\ Collected(p)
      BY <3>1, <3>2, <3>3, ReplacedKept
    <3>5. Catalog(p.horizon)' = Catalog(p.horizon) /\ \A l \in Catalog(p.horizon) : At(hist, l)' = At(hist, l)
      BY DEF Catalog
    <3>6. Collected(p)'
      BY <3>4, <3>5, CollectedStays
    <3> QED
      BY <3>2, <3>3, <3>4, <3>6 DEF PassKept
  <2> QED
    BY <2>1, <2>2
<1>4. ExtractionExact'
  BY <1>3 DEF ExtractionExact
<1> QED
  BY <1>1, <1>2, <1>3, <1>4 DEF SourceInv, HistKept

(* A row is lost; a rebuild and a reclamation leave none missing.           *)
LEMMA MaintenanceStep ==
    ASSUME SourceInv, (\E end, filed, l : LoseRow(end, filed, l)) \/ Rebuild \/ Reclaim
    PROVE  SourceInv'
<1>1. CASE \E end, filed, l : LoseRow(end, filed, l)
  <2>1. UNCHANGED <<hist, pass, orphans>> /\ pass = Idle /\ damage' = damage + 1 /\ damage \in Nat
    BY <1>1 DEF LoseRow, SourceInv, RowsKept, Unpassed, historyVars
  <2>2. damage' \in Nat /\ damage' # 0
    BY <2>1
  <2>3. PassKept' /\ ExtractionExact'
    BY <2>1 DEF PassKept, ExtractionExact, Idle
  <2> QED
    BY <2>1, <2>2, <2>3 DEF SourceInv, HistKept, OrphansKept, RowsKept
<1>2. CASE Rebuild
  <2>1. ASSUME NEW o \in orphans' PROVE "commit" \in DOMAIN o /\ \E q \in orphans : o.commit = q.commit
    <3>1. PICK q \in orphans : o = [q EXCEPT !.indexed = FALSE]
      BY <1>2 DEF Rebuild
    <3>2. "commit" \in DOMAIN q
      BY DEF SourceInv, OrphansKept
    <3> QED
      BY <3>1, <3>2
  <2>2. \A o \in orphans' : "commit" \in DOMAIN o /\ \E q \in orphans : o.commit = q.commit
    BY <2>1
  <2>3. hist' = hist /\ pass' = Replaced /\ pass.state \in {"idle", "open"} /\ damage' = damage /\ lost' = {}
    BY <1>2 DEF Rebuild, historyVars
  <2> QED
    BY <2>2, <2>3, IndexStep
<1>3. CASE Reclaim
  <2>1. /\ hist' = hist /\ pass' = Replaced /\ pass.state \in {"idle", "open"} /\ damage' = damage /\ lost' = {}
        /\ \A o \in orphans' : FALSE
    BY <1>3 DEF Reclaim, historyVars
  <2> QED
    BY <2>1, IndexStep
<1> QED
  BY <1>1, <1>2, <1>3

(* A pass begins at the last visible commit.                                *)
LEMMA OpenStep ==
    ASSUME Proper, SourceInv, NEW source, NEW r \in Requests, NEW policy, NEW t \in Instants, NEW end \in Nat,
           source \in Sources, OpenSource(source, r, policy, t, end)
    PROVE  SourceInv'
<1>1. PICK K : K = {c \in DOMAIN hist : hist[c].versions # <<>>} \cup {0}
  OBVIOUS
<1>2. K \in SUBSET (0 .. Len(hist)) /\ K # {} /\ Len(hist) \in Nat
  BY <1>1 DEF SourceInv, HistKept
<1>3. PICK k \in K : \A j \in K : j <= k
  BY <1>2, GreatestOf
<1>4. PICK n : n = Horizon
  OBVIOUS
<1>5. n \in Nat /\ n <= Len(hist)
  <2>1. k \in K /\ \A j \in K : k >= j
    BY <1>2, <1>3
  <2>2. n \in K
    BY <1>1, <1>4, <2>1 DEF Horizon, Max
  <2> QED
    BY <1>2, <2>2
<1>6. PICK p : p = pass'
  OBVIOUS
<1>7. PICK effective : effective = Effective(policy, r)
  OBVIOUS
<1>8. PICK blank : blank = [state |-> IF PrefixIntact(n) THEN "open" ELSE "refused", source |-> source, request |-> r,
                    policy |-> effective, t |-> t, end |-> end, horizon |-> n, todo |-> {}, scanned |-> 0, rows |-> {},
                    query |-> NoQuery, overtaken |-> FALSE]
  OBVIOUS
<1>9. PICK todo : todo = Tasks(blank)
  OBVIOUS
<1>10. p = [state |-> IF PrefixIntact(n) THEN "open" ELSE "refused", source |-> source, request |-> r,
            policy |-> effective, t |-> t, end |-> end, horizon |-> n, todo |-> todo, scanned |-> 0, rows |-> {},
            query |-> NoQuery, overtaken |-> FALSE]
  <2>1. pass' = [blank EXCEPT !.todo = todo]
    BY <1>4, <1>7, <1>8, <1>9 DEF OpenSource
  <2> QED
    BY <1>6, <1>8, <2>1
<1>11. /\ Started(p) /\ p.horizon = n /\ p.rows = {} /\ p.query = NoQuery /\ ~p.overtaken /\ p.todo = todo
       /\ p.state = IF PrefixIntact(n) THEN "open" ELSE "refused"
  <2>1. p = [state |-> p.state, source |-> p.source, request |-> p.request, policy |-> p.policy, t |-> p.t, end |-> p.end,
             horizon |-> p.horizon, todo |-> p.todo, scanned |-> p.scanned, rows |-> p.rows, query |-> p.query,
             overtaken |-> p.overtaken]
    BY <1>10
  <2>2. t \in Nat
    BY DEF Proper, ProperHistory
  <2>3. IF source = "range" THEN t < end ELSE end = t + 1
    BY DEF OpenSource
  <2> QED
    BY <1>5, <1>10, <2>1, <2>2, <2>3 DEF Started
<1>12. UNCHANGED <<hist, lost, orphans, damage>>
  BY DEF OpenSource, historyVars, Undamaged
<1>13. PassKept'
  <2>1. Tasks(p) = todo
    BY <1>8, <1>9, <1>10 DEF Tasks
  <2>2. Yields(p, {}) = {}
    BY DEF Yields
  <2>3. todo \ todo = {}
    OBVIOUS
  <2>4. Collected(p)
    BY <1>11, <2>1, <2>2, <2>3 DEF Collected, QueryKept
  <2>5. Catalog(p.horizon)' = Catalog(p.horizon) /\ \A l \in Catalog(p.horizon) : At(hist, l)' = At(hist, l)
    BY <1>12 DEF Catalog
  <2>6. Collected(p)'
    BY <1>12, <2>4, <2>5, CollectedStays
  <2> QED
    BY <1>5, <1>6, <1>11, <1>12, <2>6 DEF PassKept
<1>14. ExtractionExact'
  <2>1. CASE PrefixIntact(n)
    BY <1>6, <1>11, <2>1 DEF ExtractionExact
  <2>2. CASE ~PrefixIntact(n)
    <3>1. p.state = "refused" /\ \E o \in orphans : o.commit <= p.horizon
      BY <1>11, <2>2 DEF PrefixIntact
    <3> QED
      BY <1>6, <1>12, <3>1 DEF ExtractionExact
  <2> QED
    BY <2>1, <2>2
<1> QED
  BY <1>12, <1>13, <1>14 DEF SourceInv, HistKept, OrphansKept, RowsKept

(* While the history stays, a pass that is over is as good as what it       *)
(* returned, or has a reason.                                               *)
LEMMA PassStep ==
    ASSUME SourceInv, UNCHANGED <<hist, lost, orphans, damage>>, NEW p, p = pass', Started(p),
           p.state = "open" => p.horizon <= Len(hist) /\ Collected(p),
           p.state = "done" /\ (damage = 0 \/ p.source \in {"native", "locator"}) =>
               \A t \in p.t .. (p.end - 1) :
                   LET wanted == Evidence(Basic(t, p.horizon), p.request, p.policy)
                   IN  During(p.rows, t) \subseteq wanted /\ (~p.overtaken => During(p.rows, t) = wanted),
           p.state = "refused" /\ damage = 0 => ~PrefixIntact(p.horizon)
    PROVE  SourceInv'
<1>1. \A t : Basic(t, p.horizon)' = Basic(t, p.horizon)
  BY DEF Basic, Holding, Live, Catalog
<1>2. \A t, r, policy : Evidence(Basic(t, p.horizon), r, policy)' = Evidence(Basic(t, p.horizon), r, policy)
  BY <1>1 DEF Evidence
<1>3. \A t : Wanted(t)' = Evidence(Basic(t, p.horizon), p.request, p.policy) /\ ShownAt(t)' = During(p.rows, t)
  <2> TAKE t
  <2>1. Wanted(t)' = Evidence(Basic(t, pass.horizon), pass.request, pass.policy)'
    BY StoredNames DEF Wanted, Evidence, Basic, Requested
  <2> QED
    BY <1>2, <2>1 DEF ShownAt, During
<1>4. ExtractionExact'
  BY <1>3 DEF ExtractionExact, PrefixIntact
<1>5. PassKept'
  <2>1. Catalog(p.horizon)' = Catalog(p.horizon) /\ \A l \in Catalog(p.horizon) : At(hist, l)' = At(hist, l)
    BY DEF Catalog
  <2>2. Collected(p) => Collected(p)'
    BY <2>1, CollectedStays
  <2> QED
    BY <2>2 DEF PassKept
<1> QED
  BY <1>4, <1>5 DEF SourceInv, HistKept, OrphansKept, RowsKept

(* What is known of a pass under way.                                       *)
LEMMA UnderWay ==
    ASSUME SourceInv, NEW o, o = pass, o.state = "open"
    PROVE  Started(o) /\ o.request \in Requests /\ o.horizon <= Len(hist) /\ Collected(o) /\ (damage = 0 => lost = {})
BY DEF SourceInv, PassKept, Started, Idle, RowsKept

(* A step of a query leaves the rest of the pass.                           *)
LEMMA QueryMoves ==
    ASSUME Proper, SourceInv, UNCHANGED <<hist, lost, orphans, damage>>, Reading, NEW o, o = pass, NEW r,
           pass' = [o EXCEPT !.query = r],
           damage = 0 => o.todo # {} /\ Kept(r, FilterOf(o, Min(o.todo)), InstantOf(o, Min(o.todo)), o.horizon, o.overtaken)
    PROVE  SourceInv'
<1>1. Started(o) /\ o.horizon <= Len(hist) /\ Collected(o) /\ o.state = "open" /\ o.source \in {"canonical", "range"}
  BY UnderWay DEF Reading
<1>2. PICK p : p = pass'
  OBVIOUS
<1>3. p = [state |-> o.state, source |-> o.source, request |-> o.request, policy |-> o.policy, t |-> o.t, end |-> o.end,
           horizon |-> o.horizon, todo |-> o.todo, scanned |-> o.scanned, rows |-> o.rows, query |-> r,
           overtaken |-> o.overtaken]
  BY <1>1, <1>2 DEF Started
<1>4. /\ p.state = o.state /\ p.source = o.source /\ p.request = o.request /\ p.policy = o.policy /\ p.t = o.t /\ p.end = o.end
      /\ p.horizon = o.horizon /\ p.todo = o.todo /\ p.rows = o.rows /\ p.query = r /\ p.overtaken = o.overtaken
      /\ p = [state |-> p.state, source |-> p.source, request |-> p.request, policy |-> p.policy, t |-> p.t, end |-> p.end,
              horizon |-> p.horizon, todo |-> p.todo, scanned |-> p.scanned, rows |-> p.rows, query |-> p.query,
              overtaken |-> p.overtaken]
  BY <1>3
<1>5. Started(p)
  BY <1>1, <1>4 DEF Started
<1>6. Tasks(p) = Tasks(o) /\ \A K : Yields(p, K) = Yields(o, K)
  BY <1>4 DEF Tasks, Yields, Answer, SpanOf, InstantOf, FilterOf
<1>7. \A k : FilterOf(p, k) = FilterOf(o, k) /\ InstantOf(p, k) = InstantOf(o, k)
  BY <1>4 DEF FilterOf, InstantOf
<1>8. damage = 0 => QueryKept(p)
  BY <1>4, <1>7 DEF QueryKept
<1>9. Collected(p)
  BY <1>1, <1>4, <1>6, <1>8 DEF Collected
<1> QED
  BY <1>1, <1>2, <1>4, <1>5, <1>9, PassStep

(* A query begins by loading the generation, for the candidates.            *)
LEMMA AskStep == ASSUME Proper, SourceInv, Ask PROVE SourceInv'
<1>1. PICK o : o = pass
  OBVIOUS
<1>2. PICK filed : filed = ClaimFiled(FilterOf(o, Min(o.todo)))
  OBVIOUS
<1>3. PICK lookup : lookup = Lookup(filed, {}, {})
  OBVIOUS
<1>4. PICK r : r = [phase |-> "starts", filed |-> filed, left |-> {}, found |-> {}, gone |-> lost, replaced |-> FALSE, started |-> {}]
  OBVIOUS
<1>5. Loaded(lookup) = r
  <2>1. lookup = [phase |-> "load", filed |-> filed, left |-> {}, found |-> {}, gone |-> {}, replaced |-> FALSE, started |-> {}]
    BY <1>3 DEF Lookup
  <2>2. PICK gone : gone = lost
    OBVIOUS
  <2>3. Loaded(lookup) = [lookup EXCEPT !.phase = "starts", !.gone = gone]
    BY <2>2 DEF Loaded
  <2>4. r = [phase |-> "starts", filed |-> filed, left |-> {}, found |-> {}, gone |-> gone, replaced |-> FALSE, started |-> {}]
    BY <1>4, <2>2
  <2> QED
    BY <2>1, <2>3, <2>4
<1>6. pass' = [o EXCEPT !.query = r] /\ Reading /\ o.todo # {} /\ UNCHANGED <<hist, lost, orphans, damage>>
  BY <1>1, <1>2, <1>3, <1>5 DEF Ask, Task, historyVars, Undamaged
<1>7. damage = 0 => lost = {}
  BY DEF SourceInv, RowsKept
<1>8. r.phase = "starts" /\ r.filed = filed /\ r.gone = lost /\ ~r.replaced
      /\ r = [phase |-> r.phase, filed |-> r.filed, left |-> r.left, found |-> r.found, gone |-> r.gone,
              replaced |-> r.replaced, started |-> r.started]
  BY <1>4
<1>9. filed[1] # "logical_valid"
  BY <1>2, FiledApart
<1>10. damage = 0 => Kept(r, FilterOf(o, Min(o.todo)), InstantOf(o, Min(o.todo)), o.horizon, o.overtaken)
  BY <1>2, <1>7, <1>8, <1>9 DEF Kept, LookupKept
<1> QED
  BY <1>1, <1>6, <1>10, QueryMoves

(* So does the lookup of a claim's history.                                 *)
LEMMA LoadStep == ASSUME Proper, SourceInv, LoadGeneration PROVE SourceInv'
<1>1. PICK o : o = pass
  OBVIOUS
<1>2. PICK q : q = o.query
  OBVIOUS
<1>3. PICK r : r = Loaded(q)
  OBVIOUS
<1>4. pass' = [o EXCEPT !.query = r] /\ Reading /\ q.phase = "load" /\ UNCHANGED <<hist, lost, orphans, damage>>
  BY <1>1, <1>2, <1>3 DEF LoadGeneration, historyVars, Undamaged
<1>5. ASSUME damage = 0
      PROVE  o.todo # {} /\ Kept(r, FilterOf(o, Min(o.todo)), InstantOf(o, Min(o.todo)), o.horizon, o.overtaken)
  <2>1. lost = {} /\ QueryKept(o)
    BY <1>1, <1>4, <1>5, UnderWay DEF Reading, Collected
  <2>2. o.todo # {} /\ LookupKept(q, FilterOf(o, Min(o.todo)), InstantOf(o, Min(o.todo)), o.horizon, o.overtaken)
    BY <1>2, <1>4, <2>1 DEF QueryKept, Kept, NoQuery
  <2>3. r = [q EXCEPT !.phase = "starts", !.gone = {}]
    BY <1>3, <2>1 DEF Loaded
  <2>4. r = [phase |-> "starts", filed |-> q.filed, left |-> q.left, found |-> q.found, gone |-> {},
             replaced |-> q.replaced, started |-> q.started]
    BY <2>2, <2>3 DEF LookupKept
  <2>5. r.phase = "starts" /\ r.filed = q.filed /\ r.left = q.left /\ r.found = q.found /\ r.gone = {} /\ r.replaced = q.replaced
        /\ r = [phase |-> r.phase, filed |-> r.filed, left |-> r.left, found |-> r.found, gone |-> r.gone,
                replaced |-> r.replaced, started |-> r.started]
    BY <2>4
  <2> QED
    BY <2>2, <2>5 DEF Kept, LookupKept
<1> QED
  BY <1>1, <1>4, <1>5, QueryMoves
(* The scans of a lookup.                                                   *)
LEMMA ScansStep == ASSUME Proper, SourceInv, ScanStarts \/ ScanEnds PROVE SourceInv'
<1>1. PICK o : o = pass
  OBVIOUS
<1>2. PICK q : q = o.query
  OBVIOUS
<1>3. PICK k : k = Min(o.todo)
  OBVIOUS
<1>4. PICK t : t = InstantOf(o, k)
  OBVIOUS
<1>5. PICK filter : filter = FilterOf(o, k)
  OBVIOUS
<1>6. Reading /\ UNCHANGED <<hist, lost, orphans, damage>> /\ q.phase \in {"starts", "ends"}
  <2>1. Reading /\ UNCHANGED historyVars /\ Undamaged
    BY Zenon DEF ScanStarts, ScanEnds
  <2>2. pass.query.phase = "starts" \/ pass.query.phase = "ends"
    BY Zenon DEF ScanStarts, ScanEnds
  <2> QED
    BY <1>1, <1>2, <2>1, <2>2 DEF historyVars, Undamaged
<1>7. Started(o) /\ Collected(o) /\ o.overtaken \in BOOLEAN /\ o.source \in {"canonical", "range"} /\ HistKept
  BY <1>1, <1>6, UnderWay DEF Reading, Started, SourceInv
<1>8. ASSUME damage = 0
      PROVE  o.todo # {} /\ t \in Nat /\ LookupKept(q, filter, t, o.horizon, o.overtaken)
  <2>1. o.todo # {} /\ LookupKept(q, filter, t, o.horizon, o.overtaken)
    BY <1>2, <1>3, <1>4, <1>5, <1>6, <1>7, <1>8 DEF Collected, QueryKept, Kept, NoQuery
  <2>2. o.todo \in SUBSET Nat
    BY <1>7, TasksAre DEF Collected
  <2>3. \E i \in o.todo : \A j \in o.todo : i <= j
    BY <2>1, <2>2, LeastOf
  <2>4. k \in Nat
    BY <1>3, <2>2, <2>3 DEF Min
  <2> QED
    BY <1>4, <1>7, <2>1, <2>4 DEF InstantOf, Started
<1>9. ASSUME NEW locs, pass' = Answered(locs),
             damage = 0 => /\ Later(locs, Due(q.filed, t, o.horizon))
                           /\ ~o.overtaken => locs = Due(q.filed, t, o.horizon)
      PROVE  SourceInv'
  <2>1. CASE damage = 0
    <3>1. \E r : Answered(locs) = [pass EXCEPT !.query = r] /\ r # NoQuery /\ Kept(r, filter, t, o.horizon, o.overtaken)
      BY <1>1, <1>2, <1>7, <1>8, <1>9, <2>1, AnsweredKept
    <3>2. PICK r : pass' = [o EXCEPT !.query = r] /\ Kept(r, filter, t, o.horizon, o.overtaken)
      BY <1>1, <1>9, <3>1
    <3> QED
      BY <1>1, <1>3, <1>4, <1>5, <1>6, <1>8, <2>1, <3>2, QueryMoves
  <2>2. CASE damage # 0
    <3>1. \E r : Answered(locs) = [pass EXCEPT !.query = r]
      BY DEF Answered
    <3>2. PICK r : pass' = [o EXCEPT !.query = r]
      BY <1>1, <1>9, <3>1
    <3> QED
      BY <1>1, <1>6, <2>2, <3>2, QueryMoves
  <2> QED
    BY <2>1, <2>2
<1>10. CASE ScanStarts
  <2>1. PICK cut \in Cutoffs(q) :
            pass' = IF StartRows(cut) = {} THEN Answered({})
                    ELSE [o EXCEPT !.query = [@ EXCEPT !.phase = "ends", !.started = StartRows(cut)]]
    <3>1. \E cut \in Cutoffs(pass.query) :
              pass' = IF StartRows(cut) = {} THEN Answered({})
                      ELSE [pass EXCEPT !.query = [@ EXCEPT !.phase = "ends", !.started = StartRows(cut)]]
      BY <1>10, Zenon DEF ScanStarts
    <3> QED
      BY <1>1, <1>2, <3>1, Zenon
  <2>2. PICK started : started = StartRows(cut)
    OBVIOUS
  <2>3. q.phase = "starts"
    <3>1. pass.query.phase = "starts"
      BY <1>10, Zenon DEF ScanStarts
    <3> QED
      BY <1>1, <1>2, <3>1
  <2>4. damage = 0 => /\ Later(started, Begun(q.filed, t, o.horizon))
                      /\ ~o.overtaken => started = Begun(q.filed, t, o.horizon)
    <3> SUFFICES ASSUME damage = 0
                 PROVE  /\ Later(started, Begun(q.filed, t, o.horizon))
                        /\ ~o.overtaken => started = Begun(q.filed, t, o.horizon)
      OBVIOUS
    <3>1. LookupKept(q, filter, t, pass.horizon, o.overtaken) /\ pass.horizon = o.horizon
      BY <1>1, <1>8
    <3>2. /\ Later(started, Begun(q.filed, t, pass.horizon))
          /\ ~o.overtaken => started = Begun(q.filed, t, pass.horizon)
      <4>1. cut \in Cutoffs(q)
        BY <2>1
      <4>2. \A l : l \in started <=> l \in Rows("start", q, cut) /\ At(hist, l).from <= t
        BY <1>1, <1>2, <1>3, <1>4, <2>2 DEF StartRows, Task
      <4>3. HistKept /\ o.overtaken \in BOOLEAN
        BY <1>7
      <4>4. LookupKept(q, filter, t, pass.horizon, o.overtaken)
        BY <3>1
      <4> QED
        BY <2>3, <4>1, <4>2, <4>3, <4>4, StartsKept, ZenonT(60)
    <3> QED
      BY <3>1, <3>2
  <2>5. CASE started = {}
    <3>1. pass' = Answered({})
      BY <2>1, <2>2, <2>5
    <3>2. Due(q.filed, t, o.horizon) \subseteq Begun(q.filed, t, o.horizon)
      BY DEF Due, Begun, InForce
    <3>3. damage = 0 => /\ Later({}, Due(q.filed, t, o.horizon))
                        /\ ~o.overtaken => {} = Due(q.filed, t, o.horizon)
      BY <2>4, <2>5, <3>2 DEF Later
    <3> QED
      BY <1>9, <3>1, <3>3
  <2>6. CASE started # {}
    <3>1. PICK r : r = [q EXCEPT !.phase = "ends", !.started = started]
      OBVIOUS
    <3>2. pass' = [o EXCEPT !.query = r]
      BY <1>2, <2>1, <2>2, <2>6, <3>1
    <3>3. ASSUME damage = 0 PROVE o.todo # {} /\ Kept(r, filter, t, o.horizon, o.overtaken)
      <4>1. o.todo # {} /\ LookupKept(q, filter, t, o.horizon, o.overtaken)
        BY <1>8, <3>3
      <4>2. r = [phase |-> "ends", filed |-> q.filed, left |-> q.left, found |-> q.found, gone |-> q.gone,
                 replaced |-> q.replaced, started |-> started]
        BY <3>1, <4>1 DEF LookupKept
      <4>3. r.phase = "ends" /\ r.filed = q.filed /\ r.left = q.left /\ r.found = q.found /\ r.gone = q.gone
            /\ r.replaced = q.replaced /\ r.started = started
            /\ r = [phase |-> r.phase, filed |-> r.filed, left |-> r.left, found |-> r.found, gone |-> r.gone,
                    replaced |-> r.replaced, started |-> r.started]
        BY <4>2
      <4>4. LookupKept(r, filter, t, o.horizon, o.overtaken)
        BY <2>3, <2>4, <3>3, <4>1, <4>3 DEF LookupKept
      <4> QED
        BY <4>1, <4>3, <4>4 DEF Kept
    <3> QED
      BY <1>1, <1>3, <1>4, <1>5, <1>6, <3>2, <3>3, QueryMoves
  <2> QED
    BY <2>5, <2>6
<1>11. CASE ScanEnds
  <2>1. PICK cut \in Cutoffs(q) : pass' = Answered(q.started \cap EndRows(cut))
    BY <1>1, <1>2, <1>11 DEF ScanEnds
  <2>2. PICK locs : locs = q.started \cap EndRows(cut)
    OBVIOUS
  <2>3. q.phase = "ends"
    BY <1>1, <1>2, <1>11 DEF ScanEnds
  <2>4. damage = 0 => /\ Later(locs, Due(q.filed, t, o.horizon))
                      /\ ~o.overtaken => locs = Due(q.filed, t, o.horizon)
    <3> SUFFICES ASSUME damage = 0
                 PROVE  /\ Later(locs, Due(q.filed, t, o.horizon))
                        /\ ~o.overtaken => locs = Due(q.filed, t, o.horizon)
      OBVIOUS
    <3>1. LookupKept(q, filter, t, pass.horizon, o.overtaken) /\ pass.horizon = o.horizon /\ t \in Nat
      BY <1>1, <1>8
    <3>2. /\ Later(locs, Due(q.filed, t, pass.horizon))
          /\ ~o.overtaken => locs = Due(q.filed, t, pass.horizon)
      <4>1. cut \in Cutoffs(q)
        BY <2>1
      <4>2. \A l : l \in locs <=> l \in q.started /\ l \in Rows("end", q, cut) /\ Unexpired(l, t)
        BY <1>1, <1>2, <1>3, <1>4, <2>2 DEF EndRows, Unexpired, Task
      <4>3. HistKept /\ o.overtaken \in BOOLEAN
        BY <1>7
      <4>4. t \in Nat
        BY <3>1
      <4>5. LookupKept(q, filter, t, pass.horizon, o.overtaken)
        BY <3>1
      <4> QED
        BY <2>3, <4>1, <4>2, <4>3, <4>4, <4>5, EndsKept, ZenonT(60)
    <3> QED
      BY <3>1, <3>2
  <2> QED
    BY <1>9, <2>1, <2>2, <2>4
<1> QED
  BY <1>10, <1>11

(* What a query yields is evidence for its segment.                         *)
LEMMA YieldStep == ASSUME Proper, SourceInv, Yield PROVE SourceInv'
<1>1. PICK o : o = pass
  OBVIOUS
<1>2. PICK k : k = Min(o.todo)
  OBVIOUS
<1>3. PICK winners : winners = {l \in Live(LastOf(o.query.found)) : ClaimMatches(At(hist, l).pay, FilterOf(o, k))}
  OBVIOUS
<1>4. PICK span : span = SpanOf(o, k)
  OBVIOUS
<1>5. PICK rows : rows = o.rows \cup {<<e, span>> : e \in Evidence(winners, o.request, o.policy)}
  OBVIOUS
<1>6. PICK count : count = o.scanned + Cardinality(winners)
  OBVIOUS
<1>7. PICK s : s = IF count > o.request.maxScanned \/ Cardinality({r[1] : r \in rows}) > o.request.maxRows THEN "limit" ELSE o.state
  OBVIOUS
<1>8. PICK todo : todo = o.todo \ {k}
  OBVIOUS
<1>9. PICK p : p = pass'
  OBVIOUS
<1>10. Reading /\ UNCHANGED <<hist, lost, orphans, damage>> /\ o.query.phase = "yield" /\ o.state = "open"
       /\ o.source \in {"canonical", "range"}
  BY <1>1 DEF Yield, Reading, historyVars, Undamaged
<1>11. p = [o EXCEPT !.scanned = count, !.rows = rows, !.state = s, !.query = NoQuery, !.todo = todo]
  <2>1. Take(winners, span) = [o EXCEPT !.scanned = count, !.rows = rows, !.state = s]
    BY <1>1, <1>5, <1>6, <1>7 DEF Take
  <2>2. pass' = [Take(winners, span) EXCEPT !.query = NoQuery, !.todo = @ \ {k}]
    BY <1>1, <1>2, <1>3, <1>4 DEF Yield, Task
  <2> QED
    BY <1>8, <1>9, <2>1, <2>2
<1>12. Started(o) /\ o.horizon <= Len(hist) /\ Collected(o) /\ HistKept
  BY <1>1, <1>10, UnderWay DEF SourceInv
<1>13. p = [state |-> s, source |-> o.source, request |-> o.request, policy |-> o.policy, t |-> o.t, end |-> o.end,
            horizon |-> o.horizon, todo |-> todo, scanned |-> count, rows |-> rows, query |-> NoQuery,
            overtaken |-> o.overtaken]
  BY <1>11, <1>12 DEF Started
<1>14. /\ p.state = s /\ p.source = o.source /\ p.request = o.request /\ p.policy = o.policy /\ p.t = o.t /\ p.end = o.end
       /\ p.horizon = o.horizon /\ p.todo = todo /\ p.rows = rows /\ p.query = NoQuery /\ p.overtaken = o.overtaken
       /\ p = [state |-> p.state, source |-> p.source, request |-> p.request, policy |-> p.policy, t |-> p.t, end |-> p.end,
               horizon |-> p.horizon, todo |-> p.todo, scanned |-> p.scanned, rows |-> p.rows, query |-> p.query,
               overtaken |-> p.overtaken]
  BY <1>13
<1>15. s \in {"open", "limit"}
  BY <1>7, <1>10
<1>16. Started(p)
  BY <1>12, <1>14, <1>15 DEF Started
<1>17. Tasks(p) = Tasks(o) /\ \A K : Yields(p, K) = Yields(o, K)
  BY <1>14 DEF Tasks, Yields, Answer, SpanOf, InstantOf, FilterOf
<1>18. ASSUME damage = 0
       PROVE  /\ rows \subseteq Yields(o, Tasks(o) \ todo)
              /\ ~o.overtaken => rows = Yields(o, Tasks(o) \ todo)
  <2>1. /\ o.rows \subseteq Yields(o, Tasks(o) \ o.todo) /\ (~o.overtaken => o.rows = Yields(o, Tasks(o) \ o.todo))
        /\ o.todo # {} /\ FoundKept(o.query, FilterOf(o, k), InstantOf(o, k), o.horizon, o.overtaken)
    <3>1. /\ o.rows \subseteq Yields(o, Tasks(o) \ o.todo) /\ (~o.overtaken => o.rows = Yields(o, Tasks(o) \ o.todo))
          /\ QueryKept(o)
      BY <1>10, <1>12, <1>18 DEF Collected
    <3>2. o.query # NoQuery
      BY <1>10 DEF NoQuery
    <3>3. o.todo # {} /\ Kept(o.query, FilterOf(o, k), InstantOf(o, k), o.horizon, o.overtaken)
      BY <1>2, <3>1, <3>2 DEF QueryKept
    <3> QED
      BY <1>10, <3>1, <3>3 DEF Kept
  <2>2. o.todo \in SUBSET Nat /\ o.todo \subseteq Tasks(o)
    BY <1>10, <1>12, TasksAre DEF Collected
  <2>3. \E i \in o.todo : \A j \in o.todo : i <= j
    BY <2>1, <2>2, LeastOf
  <2>4. k \in o.todo
    BY <1>2, <2>3 DEF Min
  <2>5. winners \subseteq Answer(o, k) /\ (~o.overtaken => winners = Answer(o, k))
    <3>1. o.overtaken \in BOOLEAN
      BY <1>12 DEF Started
    <3>2. PICK filter : filter = FilterOf(o, k)
      OBVIOUS
    <3>3. PICK t : t = InstantOf(o, k)
      OBVIOUS
    <3>4. PICK answer : answer = {l \in Holding(t, o.horizon) : ClaimMatches(At(hist, l).pay, filter)}
      OBVIOUS
    <3>5. Answer(o, k) = answer /\ FoundKept(o.query, filter, t, o.horizon, o.overtaken)
          /\ winners = {l \in Live(LastOf(o.query.found)) : ClaimMatches(At(hist, l).pay, filter)}
      BY <1>3, <2>1, <3>2, <3>3, <3>4 DEF Answer
    <3>6. winners \subseteq answer /\ (~o.overtaken => winners = answer)
      BY <1>12, <3>1, <3>4, <3>5, YieldIs
    <3> QED
      BY <3>5, <3>6
  <2>6. Tasks(o) \ todo = (Tasks(o) \ o.todo) \cup {k}
    BY <1>8, <2>2, <2>4
  <2>7. Yields(o, Tasks(o) \ todo) = Yields(o, Tasks(o) \ o.todo) \cup {<<e, span>> : e \in Evidence(Answer(o, k), o.request, o.policy)}
    BY <1>4, <2>6 DEF Yields
  <2>8. Evidence(winners, o.request, o.policy) \subseteq Evidence(Answer(o, k), o.request, o.policy)
    BY <2>5 DEF Evidence
  <2> QED
    BY <1>5, <2>1, <2>5, <2>7, <2>8
<1>19. Collected(p)
  BY <1>8, <1>10, <1>12, <1>14, <1>17, <1>18 DEF Collected, QueryKept
<1> QED
  BY <1>9, <1>10, <1>12, <1>14, <1>15, <1>16, <1>19, PassStep

(* When all queries have been asked, the pass has what is wanted, or some   *)
(* of it, or has met an unfinished write.                                   *)
LEMMA FinishStep == ASSUME Proper, SourceInv, Finish PROVE SourceInv'
<1>1. PICK o : o = pass
  OBVIOUS
<1>2. o.state = "open" /\ o.source \in {"canonical", "range"} /\ o.todo = {} /\ UNCHANGED <<hist, lost, orphans, damage>>
  BY <1>1 DEF Finish, Reading, historyVars, Undamaged
<1>3. Started(o) /\ Collected(o) /\ HistKept
  BY <1>1, <1>2, UnderWay DEF SourceInv
<1>4. PICK p : p = pass'
  OBVIOUS
<1>5. PICK s : s = IF PrefixIntact(o.horizon) THEN "done" ELSE "refused"
  OBVIOUS
<1>6. p = [o EXCEPT !.state = s]
  BY <1>1, <1>4, <1>5 DEF Finish
<1>7. p = [state |-> s, source |-> o.source, request |-> o.request, policy |-> o.policy, t |-> o.t, end |-> o.end,
           horizon |-> o.horizon, todo |-> o.todo, scanned |-> o.scanned, rows |-> o.rows, query |-> o.query,
           overtaken |-> o.overtaken]
  BY <1>3, <1>6 DEF Started
<1>8. /\ p.state = s /\ p.source = o.source /\ p.request = o.request /\ p.policy = o.policy /\ p.t = o.t /\ p.end = o.end
      /\ p.horizon = o.horizon /\ p.rows = o.rows /\ p.overtaken = o.overtaken
      /\ p = [state |-> p.state, source |-> p.source, request |-> p.request, policy |-> p.policy, t |-> p.t, end |-> p.end,
              horizon |-> p.horizon, todo |-> p.todo, scanned |-> p.scanned, rows |-> p.rows, query |-> p.query,
              overtaken |-> p.overtaken]
  BY <1>7
<1>9. s \in {"done", "refused"}
  BY <1>5
<1>10. Started(p)
  BY <1>3, <1>8, <1>9 DEF Started
<1>11. ASSUME damage = 0, NEW t \in o.t .. (o.end - 1)
       PROVE  LET wanted == Evidence(Basic(t, o.horizon), o.request, o.policy)
              IN  During(o.rows, t) \subseteq wanted /\ (~o.overtaken => During(o.rows, t) = wanted)
  <2>1. Tasks(o) \ {} = Tasks(o)
    OBVIOUS
  <2>2. o.rows \subseteq Yields(o, Tasks(o)) /\ (~o.overtaken => o.rows = Yields(o, Tasks(o)))
    BY <1>2, <1>3, <1>11, <2>1 DEF Collected
  <2>3. During(Yields(o, Tasks(o)), t) = Evidence(Basic(t, o.horizon), o.request, o.policy)
    BY <1>3, YieldsShow
  <2>4. During(o.rows, t) \subseteq During(Yields(o, Tasks(o)), t)
    BY <2>2 DEF During
  <2> QED
    BY <2>2, <2>3, <2>4
<1>12. /\ p.state = "open" => p.horizon <= Len(hist) /\ Collected(p)
       /\ p.state = "done" => \A t \in p.t .. (p.end - 1) :
             damage = 0 => LET wanted == Evidence(Basic(t, p.horizon), p.request, p.policy)
                           IN  During(p.rows, t) \subseteq wanted /\ (~p.overtaken => During(p.rows, t) = wanted)
       /\ p.state = "refused" => ~PrefixIntact(p.horizon)
       /\ p.source \notin {"native", "locator"}
  BY <1>2, <1>5, <1>8, <1>9, <1>11 DEF During
<1> QED
  BY <1>2, <1>4, <1>10, <1>12, PassStep

(* The native sources scan, compare and authenticate in one go.             *)
LEMMA ScanStep == ASSUME Proper, SourceInv, ScanNatively PROVE SourceInv'
<1>1. PICK o : o = pass
  OBVIOUS
<1>2. o.state = "open" /\ o.source \in {"native", "locator"}
  BY <1>1 DEF ScanNatively
<1>3. Started(o) /\ Collected(o) /\ o.request \in Requests /\ o.t \in Nat /\ o.horizon \in Nat /\ o.end = o.t + 1
  BY <1>1, <1>2, UnderWay DEF Started
<1>4. o.rows = {} /\ ~o.overtaken
  BY <1>2, <1>3 DEF Collected
<1>5. PICK scan : scan = IF o.source = "native" THEN NativeScan(o.request, o.t, o.horizon) ELSE LocatorScan(o.request, o.t, o.horizon)
  OBVIOUS
<1>6. PICK p : p = pass'
  OBVIOUS
<1>7. PICK W : W = scan.winners
  OBVIOUS
<1>8. W \in SUBSET Holding(o.t, o.horizon) /\ \A l \in Basic(o.t, o.horizon) : Requested(At(hist, l).pay, o.request) => l \in W
  <2>1. HistKept
    BY DEF SourceInv
  <2>2. CASE o.source = "native"
    <3>1. W = Live(Winners(o.t, o.horizon))
      BY <1>5, <1>7, <2>2 DEF NativeScan
    <3> QED
      BY <2>1, <3>1, WinnersReign DEF Basic
  <2>3. CASE o.source # "native"
    BY <1>3, <1>5, <1>7, <2>1, <2>3, LocatorCovers
  <2> QED
    BY <2>2, <2>3
<1>9. PICK U : U = YieldedBy(W, o.request, DOMAIN Queries(o.request))
  OBVIOUS
<1>10. PICK span : span = <<o.t, o.end>>
  OBVIOUS
<1>11. PICK rows : rows = {<<e, span>> : e \in Evidence(U, o.request, o.policy)}
  OBVIOUS
<1>12. During(rows, o.t) = Evidence(Basic(o.t, o.horizon), o.request, o.policy)
  <2>1. Evidence(U, o.request, o.policy) = Evidence(Basic(o.t, o.horizon), o.request, o.policy)
    BY <1>3, <1>8, <1>9, YieldExact
  <2>2. span[1] <= o.t /\ o.t < span[2]
    BY <1>3, <1>10
  <2>3. \A e : e \in During(rows, o.t) <=> e \in Evidence(U, o.request, o.policy)
    <3> TAKE e
    <3>1. PICK q : q = <<e, span>>
      OBVIOUS
    <3>2. q[1] = e /\ q[2] = span
      BY <3>1
    <3>3. e \in Evidence(U, o.request, o.policy) => q \in rows
      BY <1>11, <3>1
    <3>4. \A k \in rows : k[1] \in Evidence(U, o.request, o.policy)
      BY <1>11
    <3> QED
      BY <2>2, <3>2, <3>3, <3>4 DEF During
  <2> QED
    BY <2>1, <2>3
<1>13. \/ /\ p.state \in {"limit", "done"} /\ p.rows = rows
          /\ p = [state |-> p.state, source |-> o.source, request |-> o.request, policy |-> o.policy, t |-> o.t, end |-> o.end,
                  horizon |-> o.horizon, todo |-> p.todo, scanned |-> p.scanned, rows |-> p.rows, query |-> p.query,
                  overtaken |-> o.overtaken]
       \/ /\ p.state = "refused" /\ ~(scan.ok /\ PrefixIntact(o.horizon))
          /\ p = [state |-> p.state, source |-> o.source, request |-> o.request, policy |-> o.policy, t |-> o.t, end |-> o.end,
                  horizon |-> o.horizon, todo |-> p.todo, scanned |-> p.scanned, rows |-> p.rows, query |-> p.query,
                  overtaken |-> o.overtaken]
  <2>1. o = [state |-> o.state, source |-> o.source, request |-> o.request, policy |-> o.policy, t |-> o.t, end |-> o.end,
             horizon |-> o.horizon, todo |-> o.todo, scanned |-> o.scanned, rows |-> o.rows, query |-> o.query,
             overtaken |-> o.overtaken]
    BY <1>3 DEF Started
  <2>2. UNION {{l \in W : ClaimMatches(At(hist, l).pay, Queries(o.request)[i])} : i \in DOMAIN Queries(o.request)} = U
    BY <1>9 DEF YieldedBy
  <2>3. PICK taken : taken = Take(U, span)
    OBVIOUS
  <2>4. p = IF scan.ok /\ PrefixIntact(o.horizon)
            THEN [taken EXCEPT !.state = IF @ = "limit" THEN @ ELSE "done"]
            ELSE [o EXCEPT !.state = "refused"]
    <3>1. PICK V : V = UNION {{l \in scan.winners : ClaimMatches(At(hist, l).pay, Queries(pass.request)[i])} :
                                  i \in DOMAIN Queries(pass.request)}
      OBVIOUS
    <3>2. V = U
      BY <1>1, <1>7, <2>2, <3>1
    <3>3. PICK given : given = Take(V, <<pass.t, pass.end>>)
      OBVIOUS
    <3>4. pass' = IF scan.ok /\ PrefixIntact(pass.horizon)
                  THEN [given EXCEPT !.state = IF @ = "limit" THEN @ ELSE "done"]
                  ELSE [pass EXCEPT !.state = "refused"]
      BY <1>1, <1>5, <3>1, <3>3 DEF ScanNatively
    <3>5. given = taken
      BY <1>1, <1>10, <2>3, <3>2, <3>3
    <3> QED
      BY <1>1, <1>6, <3>4, <3>5
  <2>5. PICK count : count = o.scanned + Cardinality(U)
    OBVIOUS
  <2>6. PICK s : s = IF count > o.request.maxScanned \/ Cardinality({q[1] : q \in rows}) > o.request.maxRows THEN "limit" ELSE o.state
    OBVIOUS
  <2>7. o.rows \cup rows = rows
    BY <1>4
  <2>8. taken = [o EXCEPT !.scanned = count, !.rows = rows, !.state = s]
    BY <1>1, <1>11, <2>3, <2>5, <2>6, <2>7 DEF Take
  <2>9. taken = [state |-> s, source |-> o.source, request |-> o.request, policy |-> o.policy, t |-> o.t, end |-> o.end,
                 horizon |-> o.horizon, todo |-> o.todo, scanned |-> count, rows |-> rows, query |-> o.query,
                 overtaken |-> o.overtaken]
    BY <2>1, <2>8
  <2>10. CASE scan.ok /\ PrefixIntact(o.horizon)
    <3>1. PICK q : q = IF s = "limit" THEN s ELSE "done"
      OBVIOUS
    <3>2. p = [state |-> q, source |-> o.source, request |-> o.request, policy |-> o.policy, t |-> o.t, end |-> o.end,
               horizon |-> o.horizon, todo |-> o.todo, scanned |-> count, rows |-> rows, query |-> o.query,
               overtaken |-> o.overtaken]
      BY <2>4, <2>9, <2>10, <3>1
    <3>3. q \in {"limit", "done"}
      BY <3>1
    <3> QED
      BY <3>2, <3>3
  <2>11. CASE ~(scan.ok /\ PrefixIntact(o.horizon))
    <3>1. p = [state |-> "refused", source |-> o.source, request |-> o.request, policy |-> o.policy, t |-> o.t, end |-> o.end,
               horizon |-> o.horizon, todo |-> o.todo, scanned |-> o.scanned, rows |-> o.rows, query |-> o.query,
               overtaken |-> o.overtaken]
      BY <2>1, <2>4, <2>11
    <3> QED
      BY <2>11, <3>1
  <2> QED
    BY <2>10, <2>11
<1>14. p.source = o.source /\ p.request = o.request /\ p.policy = o.policy /\ p.t = o.t /\ p.end = o.end
       /\ p.horizon = o.horizon /\ p.overtaken = o.overtaken
       /\ p.state \in {"limit", "done", "refused"} /\ (p.state = "done" => p.rows = rows)
       /\ (p.state = "refused" => ~(scan.ok /\ PrefixIntact(o.horizon)))
  BY <1>13
<1>15. Started(p)
  BY <1>3, <1>13, <1>14 DEF Started
<1>16. damage = 0 /\ PrefixIntact(o.horizon) => scan.ok
  <2>1. SUFFICES ASSUME damage = 0, PrefixIntact(o.horizon) PROVE scan.ok
    OBVIOUS
  <2>2. lost = {} /\ HistKept /\ OrphansKept
    BY <2>1 DEF SourceInv, RowsKept
  <2> QED
    BY <1>3, <1>5, <2>1, <2>2, NativeAgrees
<1>17. UNCHANGED <<hist, lost, orphans, damage>>
  BY DEF ScanNatively, historyVars, Undamaged
<1>18. \A t \in p.t .. (p.end - 1) : t = o.t
  BY <1>3, <1>14
<1> QED
  BY <1>2, <1>4, <1>6, <1>12, <1>14, <1>15, <1>16, <1>17, <1>18, PassStep

(* Every step keeps the invariant.                                          *)
LEMMA SourceStep ==
    Proper /\ SourceInv /\ [ExtractionNext(Clients)]_<<historyVars, extractionVars>> => SourceInv'
<1> SUFFICES ASSUME Proper, SourceInv, [ExtractionNext(Clients)]_<<historyVars, extractionVars>> PROVE SourceInv'
  OBVIOUS
<1>1. CASE QueryStep
  BY <1>1, AskStep, LoadStep, ScansStep, YieldStep, FinishStep DEF QueryStep
<1>2. CASE ExtractionNext(Clients)
  <2>1. CASE WriteBeside(Clients)
    BY <2>1, WriteStep
  <2>2. CASE Rebuild \/ Reclaim \/ \E end, filed, l : LoseRow(end, filed, l)
    BY <2>2, MaintenanceStep
  <2>3. CASE ScanNatively
    BY <2>3, ScanStep
  <2>4. CASE \E p \in Clients, valid \in ValidIntervals, indexed \in BOOLEAN : Interrupt(p, valid, indexed)
    BY <2>4, InterruptStep
  <2>5. CASE \E r \in Requests, policy \in Policies, t \in Instants, source \in Sources :
                 \E end \in {t + 1, Open} \cup Times : OpenSource(source, r, policy, t, end)
    <3>1. \A t \in Instants : \A end \in {t + 1, Open} \cup Times : end \in Nat
      BY DEF Proper, ProperHistory, Times, Open
    <3> QED
      BY <2>5, <3>1, OpenStep
  <2> QED
    BY <1>1, <1>2, <2>1, <2>2, <2>3, <2>4, <2>5 DEF ExtractionNext, Sources
<1>3. CASE UNCHANGED <<historyVars, extractionVars>>
  <2>1. UNCHANGED <<hist, lost, orphans, damage, pass>>
    BY <1>3 DEF historyVars, extractionVars
  <2>2. PICK p : p = pass
    OBVIOUS
  <2>3. Catalog(p.horizon)' = Catalog(p.horizon) /\ \A l \in Catalog(p.horizon) : At(hist, l)' = At(hist, l)
    BY <2>1 DEF Catalog
  <2>4. Collected(p) => Collected(p)'
    BY <2>1, <2>3, CollectedStays
  <2>5. PassKept'
    BY <2>1, <2>2, <2>4 DEF SourceInv, PassKept
  <2>6. ExtractionExact'
    BY <2>1 DEF SourceInv, ExtractionExact, ShownAt, Wanted, Holding, Live, Catalog
  <2> QED
    BY <2>1, <2>5, <2>6 DEF SourceInv, HistKept, OrphansKept, RowsKept
<1> QED
  BY <1>2, <1>3

(* ExtractionExact: a pass that ends returns the admitted claims that hold   *)
(* at its instants in the prefix it has pinned, whichever source it reads    *)
(* and whatever is written and interrupted beside its scans: all of them,    *)
(* unless a rebuild replaced the generation of a lookup half way, and never  *)
(* one that does not hold.  The native sources are exact, or refuse, even    *)
(* with index rows lost, and no source refuses without a reason.             *)
THEOREM SourcesExact == Proper => (ExtractionSpec(Clients) => []ExtractionExact)
<1> SUFFICES ASSUME Proper PROVE ExtractionSpec(Clients) => []ExtractionExact
  OBVIOUS
<1>1. HistoryInit /\ ExtractionInit => SourceInv
  BY SourceInit
<1>2. SourceInv /\ [ExtractionNext(Clients)]_<<historyVars, extractionVars>> => SourceInv'
  BY SourceStep
<1>3. SourceInv => ExtractionExact
  BY DEF SourceInv
<1> QED
  BY <1>1, <1>2, <1>3, PTL DEF ExtractionSpec
-----------------------------------------------------------------------------
(* Selection from a history, and migration into it.                         *)

(* What can be seen of the history at a place of it: the versions that      *)
(* cover the instant up to there, those of them that no later one of their  *)
(* entity is laid over, and the payloads of these.                          *)
UpTo(h, t, c, o) == {l \in Located(h) : InForce(At(h, l), t) /\ NotAfter(l, <<c, o>>)}
OnTop(h, t, c, o) ==
    {l \in UpTo(h, t, c, o) : \A m \in UpTo(h, t, c, o) : At(h, m).entity = At(h, l).entity => NotAfter(m, l)}
Shown(h, t, c, o) == {At(h, l).pay : l \in OnTop(h, t, c, o)} \ {Empty}

(* A payload tells its entity.                                              *)
LEMMA PayTells ==
    ASSUME NEW h \in Seq(Commits), NEW l \in Located(h), At(h, l).pay # Empty
    PROVE  EntityOf(At(h, l).pay) = At(h, l).entity /\ At(h, l).pay \in Clients
BY Places DEF Version

(* Laying a version over what is shown shows what is shown up to it.        *)
LEMMA LayShows ==
    ASSUME NEW h \in Seq(Commits), NEW t, NEW c \in DOMAIN h, NEW o \in DOMAIN h[c].versions
    PROVE  Lay(Shown(h, t, c, o - 1), h[c].versions[o], t) = Shown(h, t, c, o)
<1>1. PICK k : k = <<c, o>>
  OBVIOUS
<1>2. k \in Located(h) /\ k[1] = c /\ k[2] = o /\ c \in Nat /\ o \in Nat
  BY <1>1, Places
<1>3. PICK v : v = h[c].versions[o]
  OBVIOUS
<1>4. v = At(h, k)
  BY <1>2, <1>3 DEF At
<1>5. \A l \in Located(h) : l = <<l[1], l[2]>> /\ l[1] \in Nat /\ l[2] \in Nat
  BY Places
<1>6. \A l \in Located(h) : NotAfter(l, <<c, o>>) <=> NotAfter(l, <<c, o - 1>>) \/ l = k
  BY <1>1, <1>2, <1>5 DEF NotAfter
<1>7. \A l \in Located(h) : NotAfter(l, <<c, o - 1>>) => NotAfter(l, k) /\ ~NotAfter(k, l)
  BY <1>2, <1>5 DEF NotAfter
<1>8. NotAfter(k, k)
  BY <1>2 DEF NotAfter
<1>9. CASE ~InForce(v, t)
  <2>1. UpTo(h, t, c, o) = UpTo(h, t, c, o - 1)
    BY <1>4, <1>6, <1>9 DEF UpTo
  <2> QED
    BY <1>3, <1>9, <2>1 DEF OnTop, Shown, Lay, InForce
<1>10. CASE InForce(v, t)
  <2>1. \A l : l \in UpTo(h, t, c, o) <=> l \in UpTo(h, t, c, o - 1) \/ l = k
    BY <1>2, <1>4, <1>6, <1>10 DEF UpTo
  <2>2. \A l \in UpTo(h, t, c, o - 1) : l \in Located(h) /\ NotAfter(l, k) /\ ~NotAfter(k, l)
    BY <1>7 DEF UpTo
  <2>3. \A l : l \in OnTop(h, t, c, o) <=> l = k \/ (l \in OnTop(h, t, c, o - 1) /\ At(h, l).entity # v.entity)
    BY <1>4, <1>8, <2>1, <2>2 DEF OnTop
  <2>4. \A l \in OnTop(h, t, c, o - 1) : l \in Located(h)
    BY DEF OnTop, UpTo
  <2>5. \A p : p \in Shown(h, t, c, o) <=> p # Empty /\ \E l \in OnTop(h, t, c, o) : p = At(h, l).pay
    BY DEF Shown
  <2>6. \A p : p \in Shown(h, t, c, o - 1) <=> p # Empty /\ \E l \in OnTop(h, t, c, o - 1) : p = At(h, l).pay
    BY DEF Shown
  <2>7. \A l \in OnTop(h, t, c, o - 1) : At(h, l).pay # Empty => EntityOf(At(h, l).pay) = At(h, l).entity
    BY <2>4, PayTells
  <2>8. \A p : p \in Shown(h, t, c, o) <=>
            (p \in Shown(h, t, c, o - 1) /\ EntityOf(p) # v.entity) \/ (p = v.pay /\ p # Empty)
    BY <1>4, <2>3, <2>5, <2>6, <2>7
  <2>9. Lay(Shown(h, t, c, o - 1), v, t)
            = {q \in Shown(h, t, c, o - 1) : EntityOf(q) # v.entity} \cup ({v.pay} \ {Empty})
    BY <1>10 DEF Lay, InForce
  <2> QED
    BY <1>3, <2>8, <2>9
<1> QED
  BY <1>9, <1>10

(* Painting is a fold of folds.                                             *)
LayDo(top, v, t, none1, none2) == Lay(top, v, t)
LayGood(top, n, k) == top = Shown(k[1], k[2], k[3], n)
Laying == INSTANCE Folding WITH Do <- LayDo, Good <- LayGood
CommitDo(top, c, t, none1, none2) == LayCommit(top, c, t)
CommitGood(top, n, k) == top = Shown(k[1], k[2], n + 1, 0)
Painting == INSTANCE Folding WITH Do <- CommitDo, Good <- CommitGood

(* What a commit lays over the timeline is what its versions show on top.   *)
LEMMA CommitShows ==
    ASSUME NEW h \in Seq(Commits), NEW t, NEW c \in DOMAIN h
    PROVE  LayCommit(Shown(h, t, c, 0), h[c], t) = Shown(h, t, c + 1, 0)
<1>1. PICK vs : vs = h[c].versions
  OBVIOUS
<1>2. PICK base : base = Shown(h, t, c, 0)
  OBVIOUS
<1>3. PICK k : k = <<h, t, c>>
  OBVIOUS
<1>4. Len(vs) \in Nat /\ DOMAIN vs = 1 .. Len(vs) /\ c \in Nat
  BY <1>1 DEF Commits
<1>5. LayGood(base, 0, k)
  BY <1>2, <1>3 DEF LayGood
<1>6. ASSUME NEW x, NEW n \in 1 .. Len(vs), LayGood(x, n - 1, k)
      PROVE  LayGood(LayDo(x, vs[n], t, "", ""), n, k)
  BY <1>1, <1>3, <1>4, <1>6, LayShows DEF LayGood, LayDo
<1>7. LayGood(Laying!Run(base, vs, t, "", ""), IF Len(vs) \in Nat THEN Len(vs) ELSE 0, k)
  BY <1>5, <1>6, Laying!Runs
<1>8. LayCommit(base, h[c], t) = Laying!Run(base, vs, t, "", "")
  BY <1>1 DEF LayCommit, Fold, Laying!Run, LayDo
<1>9. Shown(h, t, c, Len(vs)) = Shown(h, t, c + 1, 0)
  <2>1. \A l \in Located(h) : /\ l[1] \in Nat /\ l[2] \in Nat /\ l[2] > 0
                              /\ l[1] = c => l[2] <= Len(vs)
    BY <1>1, Places
  <2>2. \A l \in Located(h) : NotAfter(l, <<c, Len(vs)>>) <=> NotAfter(l, <<c + 1, 0>>)
    BY <1>4, <2>1 DEF NotAfter
  <2>3. UpTo(h, t, c, Len(vs)) = UpTo(h, t, c + 1, 0)
    BY <2>2 DEF UpTo
  <2> QED
    BY <2>3 DEF Shown, OnTop
<1> QED
  BY <1>2, <1>3, <1>4, <1>7, <1>8, <1>9 DEF LayGood

(* The painted timeline shows what is on top at the horizon.                *)
LEMMA PaintedIs ==
    ASSUME NEW h \in Seq(Commits), NEW t, NEW n \in 0 .. Len(h)
    PROVE  Painted(h, t, n) = Shown(h, t, n + 1, 0)
<1>1. PICK s : s = SubSeq(h, 1, n)
  OBVIOUS
<1>2. Len(h) \in Nat /\ n \in Nat /\ Len(s) = n /\ \A i \in 1 .. n : s[i] = h[i] /\ i \in DOMAIN h
  BY <1>1
<1>3. PICK k : k = <<h, t>>
  OBVIOUS
<1>4. CommitGood({}, 0, k)
  <2>1. \A l \in Located(h) : l[1] \in Nat /\ l[2] \in Nat /\ l[1] > 0 /\ l[2] > 0
    BY Places
  <2>2. UpTo(h, t, 1, 0) = {}
    BY <2>1 DEF UpTo, NotAfter
  <2> QED
    BY <1>3, <2>2 DEF CommitGood, Shown, OnTop
<1>5. ASSUME NEW x, NEW i \in 1 .. Len(s), CommitGood(x, i - 1, k)
      PROVE  CommitGood(CommitDo(x, s[i], t, "", ""), i, k)
  <2>1. x = Shown(h, t, i, 0)
    BY <1>2, <1>3, <1>5 DEF CommitGood
  <2> QED
    BY <1>2, <1>3, <2>1, CommitShows DEF CommitGood, CommitDo
<1>6. CommitGood(Painting!Run({}, s, t, "", ""), IF Len(s) \in Nat THEN Len(s) ELSE 0, k)
  BY <1>4, <1>5, Painting!Runs
<1>7. Painted(h, t, n) = Painting!Run({}, s, t, "", "")
  BY <1>1 DEF Painted, Fold, Painting!Run, CommitDo
<1>8. (IF Len(s) \in Nat THEN Len(s) ELSE 0) = n
  BY <1>2
<1>9. CommitGood(Painted(h, t, n), n, k)
  BY <1>6, <1>7, <1>8
<1> QED
  BY <1>3, <1>9 DEF CommitGood

(* The versions of an entity that a read resolves are those up to the       *)
(* horizon that cover the instant.                                          *)
Resolving(h, e, t, n) == {l \in UpTo(h, t, n + 1, 0) : At(h, l).entity = e}

(* The interval index has, up to a horizon, the versions filed under a key  *)
(* that cover the instant.                                                  *)
LEMMA ReachIs ==
    ASSUME ProperHistory, NEW h \in Seq(Commits), NEW t \in Nat, NEW n \in Nat, NEW filed
    PROVE  Within(IntervalLocators(h, filed, t), n) = {l \in UpTo(h, t, n + 1, 0) : filed \in Filed(At(h, l))}
<1>1. \A l \in Located(h) : /\ l[1] \in Nat /\ l[2] \in Nat /\ l[2] > 0
                            /\ At(h, l).from \in Nat /\ At(h, l).to \in Nat
  BY Places, Carried
<1>2. \A l \in Located(h) : NotAfter(l, <<n + 1, 0>>) <=> l[1] <= n
  BY <1>1 DEF NotAfter
<1>3. \A l \in Located(h) : At(h, l).to > t <=> t < At(h, l).to
  BY <1>1
<1> QED
  BY <1>2, <1>3 DEF Within, IntervalLocators, UpTo, InForce

(* What an entity resolves to is what is shown of it.                       *)
HasVersion(h, p, t, n) == \E l \in UpTo(h, t, n + 1, 0) : At(h, l).pay = p /\ At(h, l).entity = EntityOf(p)

(* What the read of one entity resolves to is what is on top of the         *)
(* timeline.                                                                *)
LEMMA ResolvesToShown ==
    ASSUME ProperHistory, NEW h \in Seq(Commits), NEW t \in Nat, NEW n \in Nat
    PROVE  /\ \A e : EntityAsOf(h, e, t, n) # Empty =>
                         /\ EntityAsOf(h, e, t, n) \in Shown(h, t, n + 1, 0)
                         /\ EntityOf(EntityAsOf(h, e, t, n)) = e
           /\ \A p \in Shown(h, t, n + 1, 0) :
                  /\ p \in Clients /\ p # Empty /\ EntityAsOf(h, EntityOf(p), t, n) = p
                  /\ HasVersion(h, p, t, n)
<1>1. PICK up : up = UpTo(h, t, n + 1, 0)
  OBVIOUS
<1>2. up \subseteq Located(h)
  BY <1>1 DEF UpTo
<1>3. \A e : Within(IntervalLocators(h, <<"logical_valid", e>>, t), n) = Resolving(h, e, t, n)
  <2> TAKE e
  <2>1. Within(IntervalLocators(h, <<"logical_valid", e>>, t), n)
            = {l \in UpTo(h, t, n + 1, 0) : <<"logical_valid", e>> \in Filed(At(h, l))}
    BY ReachIs
  <2> QED
    BY <2>1, FiledUnder DEF Resolving
<1>4. ASSUME NEW e, EntityAsOf(h, e, t, n) # Empty
      PROVE  /\ EntityAsOf(h, e, t, n) \in Shown(h, t, n + 1, 0)
             /\ EntityOf(EntityAsOf(h, e, t, n)) = e
  <2>1. PICK S : S = Resolving(h, e, t, n)
    OBVIOUS
  <2>2. S # {} /\ EntityAsOf(h, e, t, n) = At(h, Newest(S)).pay
    BY <1>3, <1>4, <2>1 DEF EntityAsOf
  <2>3. S \in SUBSET Located(h) /\ S = {l \in up : At(h, l).entity = e}
    BY <1>1, <1>2, <2>1 DEF Resolving
  <2>4. PICK l : l = Newest(S)
    OBVIOUS
  <2>5. l \in S /\ \A m \in S : NotAfter(m, l)
    BY <2>2, <2>3, <2>4, NewestExists
  <2>6. l \in up /\ At(h, l).entity = e /\ l \in Located(h)
    BY <2>3, <2>5
  <2>7. l \in OnTop(h, t, n + 1, 0)
    BY <1>1, <2>3, <2>5, <2>6 DEF OnTop
  <2>8. At(h, l).pay # Empty
    BY <1>4, <2>2, <2>4
  <2>9. At(h, l).pay \in Shown(h, t, n + 1, 0)
    BY <2>7, <2>8 DEF Shown
  <2> QED
    BY <2>2, <2>4, <2>6, <2>8, <2>9, PayTells
<1>5. ASSUME NEW p \in Shown(h, t, n + 1, 0)
      PROVE  /\ p \in Clients /\ p # Empty /\ EntityAsOf(h, EntityOf(p), t, n) = p
             /\ HasVersion(h, p, t, n)
  <2>1. PICK l \in OnTop(h, t, n + 1, 0) : p = At(h, l).pay /\ p # Empty
    BY DEF Shown
  <2>2. l \in up /\ l \in Located(h) /\ \A m \in up : At(h, m).entity = At(h, l).entity => NotAfter(m, l)
    BY <1>1, <1>2 DEF OnTop
  <2>3. EntityOf(p) = At(h, l).entity /\ p \in Clients
    BY <2>1, <2>2, PayTells
  <2>4. PICK S : S = Resolving(h, EntityOf(p), t, n)
    OBVIOUS
  <2>5. S \in SUBSET Located(h) /\ l \in S /\ \A m \in S : NotAfter(m, l)
    BY <1>1, <1>2, <2>2, <2>3, <2>4 DEF Resolving
  <2>6. Newest(S) = l
    BY <2>5, NewestIs
  <2>7. EntityAsOf(h, EntityOf(p), t, n) = At(h, l).pay
    BY <1>3, <2>4, <2>5, <2>6 DEF EntityAsOf
  <2> QED
    BY <1>1, <2>1, <2>2, <2>3, <2>7 DEF HasVersion
<1> QED
  BY <1>1, <1>4, <1>5

(* Candidates of an index resolve to what is shown and whose entity has a   *)
(* version there.                                                           *)
LEMMA CandidatesResolve ==
    ASSUME ProperHistory, NEW h \in Seq(Commits), NEW t \in Nat, NEW n \in Nat, NEW filed, NEW p
    PROVE  p \in Resolved(h, Candidates(h, filed, t, n), t, n) <=>
               /\ p \in Shown(h, t, n + 1, 0)
               /\ \E l \in UpTo(h, t, n + 1, 0) : filed \in Filed(At(h, l)) /\ At(h, l).entity = EntityOf(p)
<1>1. PICK C : C = Candidates(h, filed, t, n)
  OBVIOUS
<1>2. \A e : e \in C <=> \E l \in UpTo(h, t, n + 1, 0) : filed \in Filed(At(h, l)) /\ At(h, l).entity = e
  BY <1>1, ReachIs DEF Candidates
<1>3. p \in Resolved(h, C, t, n) <=> p # Empty /\ \E e \in C : EntityAsOf(h, e, t, n) = p
  BY DEF Resolved
<1>4. p # Empty /\ (\E e \in C : EntityAsOf(h, e, t, n) = p) <=> p \in Shown(h, t, n + 1, 0) /\ EntityOf(p) \in C
  <2>1. ASSUME NEW e \in C, EntityAsOf(h, e, t, n) = p, p # Empty
        PROVE  p \in Shown(h, t, n + 1, 0) /\ EntityOf(p) \in C
    <3>1. EntityAsOf(h, e, t, n) # Empty
      BY <2>1
    <3>2. EntityAsOf(h, e, t, n) \in Shown(h, t, n + 1, 0) /\ EntityOf(EntityAsOf(h, e, t, n)) = e
      BY <3>1, ResolvesToShown
    <3> QED
      BY <2>1, <3>2
  <2>2. ASSUME p \in Shown(h, t, n + 1, 0)
        PROVE  p # Empty /\ EntityAsOf(h, EntityOf(p), t, n) = p
    BY <2>2, ResolvesToShown
  <2> QED
    BY <2>1, <2>2
<1> QED
  BY <1>1, <1>2, <1>3, <1>4

(* Where nodes and edges are filed.                                         *)
EdgeFiled(type, direction, node) ==
    IF type = "none" THEN <<IF direction = "out" THEN "out_catalog" ELSE "in_catalog", node>>
    ELSE <<direction, node, type>>

(* A version is filed under its kind and, for an edge, under its type and   *)
(* ends.                                                                    *)
LEMMA FiledByEnds ==
    ASSUME NEW v, NEW type, NEW direction \in {"out", "in"}, NEW node
    PROVE  /\ <<"node_catalog">> \in Filed(v) <=> v.entity[1] = "node"
           /\ EdgeFiled(type, direction, node) \in Filed(v) <=>
                  v.pay.kind = "edge" /\ EdgeMatches(v.pay, type, direction, node)
<1>1. <<"node_catalog">> \in Filed(v) <=> v.entity[1] = "node"
  BY DEF Filed
<1>2. \A x : /\ <<"out_catalog", x>> \in Filed(v) <=> v.pay.kind = "edge" /\ v.pay.source = x
             /\ <<"in_catalog", x>> \in Filed(v) <=> v.pay.kind = "edge" /\ v.pay.target = x
  BY DEF Filed
<1>3. \A x, y : /\ <<"out", x, y>> \in Filed(v) <=>
                       v.pay.kind = "edge" /\ v.pay.type # "none" /\ v.pay.source = x /\ v.pay.type = y
                /\ <<"in", x, y>> \in Filed(v) <=>
                       v.pay.kind = "edge" /\ v.pay.type # "none" /\ v.pay.target = x /\ v.pay.type = y
  BY DEF Filed
<1> QED
  BY <1>1, <1>2, <1>3 DEF EdgeFiled, EdgeMatches

(* The reads return what is shown of their kind and matches.                *)
LEMMA ReadsShow ==
    ASSUME ProperHistory, NEW h \in Seq(Commits), NEW t \in Nat, NEW n \in Nat,
           NEW top, top = Shown(h, t, n + 1, 0)
    PROVE  /\ NodesAsOf(h, t, n) = {p \in top : p.kind = "node"}
           /\ \A type, node : \A direction \in {"out", "in"} :
                  EdgesAsOf(h, type, direction, node, t, n)
                      = {p \in top : p.kind = "edge" /\ EdgeMatches(p, type, direction, node)}
           /\ \A filter : ClaimsAsOf(h, filter, t, n) = {p \in top : p.kind = "claim" /\ ClaimMatches(p, filter)}
<1>1. PICK up : up = UpTo(h, t, n + 1, 0)
  OBVIOUS
<1>2. \A p \in top : /\ p \in Clients /\ EntityOf(p)[1] = p.kind
                     /\ \E l \in up : At(h, l).pay = p /\ At(h, l).entity = EntityOf(p)
  <2>1. \A p : EntityOf(p)[1] = p.kind
    BY DEF EntityOf
  <2>2. \A p \in Shown(h, t, n + 1, 0) :
            p \in Clients /\ HasVersion(h, p, t, n)
    BY ResolvesToShown
  <2> QED
    BY <1>1, <2>1, <2>2 DEF HasVersion
<1>3. \A l \in up : At(h, l) \in Version
  BY <1>1, Places DEF UpTo
<1>4. \A l \in up : At(h, l).pay.kind \in {"node", "edge", "claim"} => At(h, l).entity[1] = At(h, l).pay.kind
  BY <1>3, Carried DEF Empty
<1>5. \A filed, p : p \in Resolved(h, Candidates(h, filed, t, n), t, n) <=>
          p \in top /\ \E l \in up : filed \in Filed(At(h, l)) /\ At(h, l).entity = EntityOf(p)
  BY <1>1, CandidatesResolve
<1>6. NodesAsOf(h, t, n) = {p \in top : p.kind = "node"}
  <2>1. \A p : p \in NodesAsOf(h, t, n) <=>
            p \in top /\ \E l \in up : At(h, l).entity[1] = "node" /\ At(h, l).entity = EntityOf(p)
    BY <1>5, FiledByEnds DEF NodesAsOf
  <2>2. \A p : p \in NodesAsOf(h, t, n) <=> p \in top /\ p.kind = "node"
    BY <1>2, <2>1
  <2> QED
    BY <2>2
<1>7. ASSUME NEW type, NEW node, NEW direction \in {"out", "in"}
      PROVE  EdgesAsOf(h, type, direction, node, t, n)
                 = {p \in top : p.kind = "edge" /\ EdgeMatches(p, type, direction, node)}
  <2>1. PICK filed : filed = EdgeFiled(type, direction, node)
    OBVIOUS
  <2>2. \A p : p \in EdgesAsOf(h, type, direction, node, t, n) <=>
            p \in Resolved(h, Candidates(h, filed, t, n), t, n) /\ EdgeMatches(p, type, direction, node)
    BY <2>1 DEF EdgesAsOf, EdgeFiled
  <2>3. \A l \in up : filed \in Filed(At(h, l)) <=>
            At(h, l).pay.kind = "edge" /\ EdgeMatches(At(h, l).pay, type, direction, node)
    BY <2>1, FiledByEnds
  <2>4. \A p \in top : (\E l \in up : filed \in Filed(At(h, l)) /\ At(h, l).entity = EntityOf(p)) => p.kind = "edge"
    BY <1>2, <1>4, <2>3
  <2>5. \A p \in top : p.kind = "edge" /\ EdgeMatches(p, type, direction, node) =>
            \E l \in up : filed \in Filed(At(h, l)) /\ At(h, l).entity = EntityOf(p)
    BY <1>2, <2>3
  <2>6. \A p : p \in EdgesAsOf(h, type, direction, node, t, n) <=>
            p \in top /\ p.kind = "edge" /\ EdgeMatches(p, type, direction, node)
    BY <1>5, <2>2, <2>4, <2>5
  <2> QED
    BY <2>6
<1>8. ASSUME NEW filter
      PROVE  ClaimsAsOf(h, filter, t, n) = {p \in top : p.kind = "claim" /\ ClaimMatches(p, filter)}
  <2>1. PICK filed : filed = ClaimFiled(filter)
    OBVIOUS
  <2>2. \A p : p \in ClaimsAsOf(h, filter, t, n) <=>
            p \in Resolved(h, Candidates(h, filed, t, n), t, n) /\ ClaimMatches(p, filter)
    BY <2>1 DEF ClaimsAsOf
  <2>3. \A l \in up : /\ filed \in Filed(At(h, l)) => At(h, l).pay.kind = "claim"
                      /\ At(h, l).pay.kind = "claim" /\ ClaimMatches(At(h, l).pay, filter) => filed \in Filed(At(h, l))
    BY <2>1, FiledByFilter
  <2>4. \A p \in top : (\E l \in up : filed \in Filed(At(h, l)) /\ At(h, l).entity = EntityOf(p)) => p.kind = "claim"
    BY <1>2, <1>4, <2>3
  <2>5. \A p \in top : p.kind = "claim" /\ ClaimMatches(p, filter) =>
            \E l \in up : filed \in Filed(At(h, l)) /\ At(h, l).entity = EntityOf(p)
    BY <1>2, <2>3
  <2>6. \A p : p \in ClaimsAsOf(h, filter, t, n) <=> p \in top /\ p.kind = "claim" /\ ClaimMatches(p, filter)
    BY <1>5, <2>2, <2>4, <2>5
  <2> QED
    BY <2>6
<1> QED
  BY <1>6, <1>7, <1>8

(* Hence every read of a history of versions is exact.                      *)
LEMMA ReadsPainted ==
    ASSUME ProperHistory, HistKept, NEW t \in Nat, NEW n \in 0 .. Len(hist), NEW top, top = Painted(hist, t, n)
    PROVE  /\ EntitiesExact(top, t, n) /\ NodesAsOf(hist, t, n) = OfKind(top, "node")
           /\ EdgesExact(top, t, n) /\ ClaimsExact(top, t, n)
<1>1. hist \in Seq(Commits) /\ n \in Nat
  BY DEF HistKept
<1>2. top = Shown(hist, t, n + 1, 0)
  BY <1>1, PaintedIs
<1>3. \A e : EntityAsOf(hist, e, t, n) =
          IF \E p \in top : EntityOf(p) = e THEN CHOOSE p \in top : EntityOf(p) = e ELSE Empty
  <2> TAKE e
  <2>1. CASE \E p \in top : EntityOf(p) = e
    <3>1. PICK p : p = CHOOSE q \in top : EntityOf(q) = e
      OBVIOUS
    <3>2. p \in top /\ EntityOf(p) = e
      BY <2>1, <3>1
    <3> QED
      BY <1>1, <1>2, <2>1, <3>1, <3>2, ResolvesToShown
  <2>2. CASE ~\E p \in top : EntityOf(p) = e
    BY <1>1, <1>2, <2>2, ResolvesToShown
  <2> QED
    BY <2>1, <2>2
<1>4. NodesAsOf(hist, t, n) = OfKind(top, "node")
  BY <1>1, <1>2, ReadsShow DEF OfKind
<1>5. \A type, node :
          /\ EdgesAsOf(hist, type, "out", node, t, n)
                 = {q \in OfKind(top, "edge") : q.source = node /\ type \in {"none", q.type}}
          /\ EdgesAsOf(hist, type, "in", node, t, n)
                 = {q \in OfKind(top, "edge") : q.target = node /\ type \in {"none", q.type}}
  <2> TAKE type, node
  <2>1. /\ EdgesAsOf(hist, type, "out", node, t, n) = {p \in top : p.kind = "edge" /\ EdgeMatches(p, type, "out", node)}
        /\ EdgesAsOf(hist, type, "in", node, t, n) = {p \in top : p.kind = "edge" /\ EdgeMatches(p, type, "in", node)}
    BY <1>1, <1>2, ReadsShow
  <2>2. \A p : /\ EdgeMatches(p, type, "out", node) <=> p.source = node /\ type \in {"none", p.type}
               /\ EdgeMatches(p, type, "in", node) <=> p.target = node /\ type \in {"none", p.type}
    BY DEF EdgeMatches
  <2> QED
    BY <2>1, <2>2 DEF OfKind
<1>6. \A c, fields :
          ClaimsAsOf(hist, Only(c, fields), t, n)
              = {q \in OfKind(top, "claim") : \A f \in fields : q[f] = c[f]}
  <2> TAKE c, fields
  <2>1. PICK filter : filter = Only(c, fields)
    OBVIOUS
  <2>2. ClaimsAsOf(hist, filter, t, n) = {p \in top : p.kind = "claim" /\ ClaimMatches(p, filter)}
    BY <1>1, <1>2, ReadsShow
  <2>3. \A p : ClaimMatches(p, filter) <=> \A f \in fields : p[f] = c[f]
    BY <2>1 DEF ClaimMatches, Only
  <2> QED
    BY <2>1, <2>2, <2>3 DEF OfKind
<1>7. EntitiesExact(top, t, n)
  BY <1>3, Zenon DEF EntitiesExact
<1>8. EdgesExact(top, t, n)
  BY <1>5 DEF EdgesExact
<1>9. ClaimsExact(top, t, n)
  BY <1>6 DEF ClaimsExact
<1> QED
  BY <1>4, <1>7, <1>8, <1>9

(* Every selection of a read is exact for the history.                      *)
LEMMA SelectionHolds == ProperHistory /\ HistKept => SelectionExact
<1> SUFFICES ASSUME ProperHistory, HistKept PROVE SelectionExact
  OBVIOUS
<1>1. Changes(hist) \subseteq Nat
  <2>1. Times \subseteq Nat
    BY DEF Times, ProperHistory
  <2> QED
    BY <2>1 DEF Changes
<1>2. Horizons \subseteq 0 .. Len(hist)
  BY DEF HistKept, Horizons
<1>3. ASSUME NEW t \in Changes(hist), NEW n \in Horizons
      PROVE  t \in Nat /\ n \in 0 .. Len(hist)
  BY <1>1, <1>2
<1> QED
  BY <1>3, ReadsPainted DEF SelectionExact

-----------------------------------------------------------------------------
(* Migration.                                                               *)

(* Legacy records are of edges with numbered ids, whose payloads are among  *)
(* the payloads considered.                                                 *)
ProperLegacy ==
    \A r \in LegacyRecords : r.start \in Nat /\ r.pay \in Clients /\ r.pay.kind = "edge" /\ r.pay.id \in Nat

OneForKey(S) == \A q, r \in S : LegacyKey(q) = LegacyKey(r) => q = r
LegacyKept == IsFiniteSet(legacy) /\ legacy \subseteq LegacyRecords /\ OneForKey(legacy)

(* Records have different places in the order, and so fill it.              *)
LEMMA AheadCounts ==
    ASSUME ProperLegacy, NEW S \in SUBSET LegacyRecords, IsFiniteSet(S), OneForKey(S)
    PROVE  /\ Cardinality(S) \in Nat
           /\ \A r \in S : Ahead(r, S) \in 0 .. Cardinality(S) - 1
           /\ \A q, r \in S : Ahead(q, S) = Ahead(r, S) => q = r
<1>1. \A r \in S : r.pay.id \in Nat /\ r.start \in Nat
  BY DEF ProperLegacy
<1>2. \A q, r \in S : q # r => Precedes(q, r) \/ Precedes(r, q)
  <2> TAKE q, r \in S
  <2>1. q.pay.id = r.pay.id /\ q.start = r.start => q = r
    BY DEF OneForKey, LegacyKey
  <2> QED
    BY <1>1, <2>1 DEF Precedes
<1>3. \A r \in S : ~Precedes(r, r)
  BY <1>1 DEF Precedes
<1>4. \A p, q, r \in S : Precedes(p, q) /\ Precedes(q, r) => Precedes(p, r)
  BY <1>1 DEF Precedes
<1>5. Cardinality(S) \in Nat
  BY FS_CardinalityType
<1>6. ASSUME NEW r \in S PROVE Ahead(r, S) \in 0 .. Cardinality(S) - 1
  <2>1. PICK A : A = {q \in S : Precedes(q, r)}
    OBVIOUS
  <2>2. A \in SUBSET (S \ {r}) /\ IsFiniteSet(S \ {r}) /\ Cardinality(S \ {r}) = Cardinality(S) - 1
    BY <1>3, <2>1, FS_RemoveElement
  <2>3. IsFiniteSet(A) /\ Cardinality(A) <= Cardinality(S) - 1
    BY <2>2, FS_Subset
  <2>4. Cardinality(A) \in Nat
    BY <2>3, FS_CardinalityType
  <2> QED
    BY <1>5, <2>1, <2>3, <2>4 DEF Ahead
<1>7. ASSUME NEW q \in S, NEW r \in S, Precedes(q, r) PROVE Ahead(q, S) # Ahead(r, S)
  <2>1. PICK A : A = {p \in S : Precedes(p, q)}
    OBVIOUS
  <2>2. PICK B : B = {p \in S : Precedes(p, r)}
    OBVIOUS
  <2>3. q \in B /\ q \notin A /\ A \subseteq B /\ B \in SUBSET S
    BY <1>3, <1>4, <1>7, <2>1, <2>2
  <2>4. IsFiniteSet(B) /\ A \in SUBSET B /\ A # B
    BY <2>3, FS_Subset
  <2>5. Cardinality(A) # Cardinality(B)
    BY <2>4, FS_Subset
  <2> QED
    BY <2>1, <2>2, <2>5 DEF Ahead
<1>8. \A q, r \in S : Ahead(q, S) = Ahead(r, S) => q = r
  BY <1>2, <1>7
<1> QED
  BY <1>5, <1>6, <1>8

InPlace(S) == [i \in 1 .. Cardinality(S) |-> CHOOSE r \in S : Ahead(r, S) = i - 1]

(* Records with a rank of their own fill the places of a migrated batch.    *)
LEMMA PlacesFilled ==
    ASSUME ProperLegacy, NEW S \in SUBSET LegacyRecords, IsFiniteSet(S), OneForKey(S)
    PROVE  /\ Cardinality(S) \in Nat /\ \A i \in 1 .. Cardinality(S) : InPlace(S)[i] \in S
           /\ \A r \in S : \E i \in 1 .. Cardinality(S) : InPlace(S)[i] = r
<1>0. PICK f : f = InPlace(S)
  OBVIOUS
<1>1. PICK n : n = Cardinality(S)
  OBVIOUS
<1>2. n \in Nat /\ \A r \in S : Ahead(r, S) \in 0 .. n - 1
  BY <1>1, AheadCounts
<1>3. \A q, r \in S : Ahead(q, S) = Ahead(r, S) => q = r
  BY AheadCounts
<1>4. IsFiniteSet(0 .. n - 1) /\ Cardinality(0 .. n - 1) = n
  <2>1. 0 \in Int /\ n - 1 \in Int /\ (IF 0 > n - 1 THEN 0 ELSE (n - 1) - 0 + 1) = n
    BY <1>2
  <2> QED
    BY <2>1, FS_Interval
<1>5. PICK g : g = [r \in S |-> Ahead(r, S)]
  OBVIOUS
<1>6. g \in [S -> 0 .. n - 1] /\ \A q, r \in S : g[q] = g[r] => q = r
  BY <1>2, <1>3, <1>5
<1>7. g \in Injection(S, 0 .. n - 1)
  BY <1>6 DEF Injection, IsInjective
<1>8. g \in Surjection(S, 0 .. n - 1)
  BY <1>1, <1>4, <1>7, FS_Injection
<1>9. \A k \in 0 .. n - 1 : \E r \in S : Ahead(r, S) = k
  BY <1>5, <1>8 DEF Surjection
<1>10. ASSUME NEW i \in 1 .. n PROVE f[i] \in S /\ Ahead(f[i], S) = i - 1
  <2>1. i - 1 \in 0 .. n - 1
    BY <1>2
  <2>2. \E r \in S : Ahead(r, S) = i - 1
    BY <1>9, <2>1
  <2>3. f[i] = CHOOSE r \in S : Ahead(r, S) = i - 1
    BY <1>0, <1>1 DEF InPlace
  <2> QED
    BY <2>2, <2>3
<1>11. ASSUME NEW r \in S PROVE \E i \in 1 .. n : f[i] = r
  <2>1. PICK k : k = Ahead(r, S)
    OBVIOUS
  <2>2. k + 1 \in 1 .. n /\ (k + 1) - 1 = k
    BY <1>2, <2>1
  <2>3. f[k + 1] \in S /\ Ahead(f[k + 1], S) = k
    BY <1>10, <2>2
  <2> QED
    BY <1>3, <2>1, <2>2, <2>3
<1> QED
  BY <1>0, <1>1, <1>2, <1>10, <1>11

(* A record holds until the next one of its id starts.                      *)
LEMMA EndIs ==
    ASSUME ProperHistory, ProperLegacy, LegacyKept, NEW r \in legacy, NEW e, e = EndOf(r, RecordsOf(r.pay.id))
    PROVE  /\ e \in Nat
           /\ \A s \in legacy : s.pay.id = r.pay.id /\ s.start > r.start => e <= s.start
           /\ e = Open \/ \E s \in legacy : s.pay.id = r.pay.id /\ s.start > r.start /\ e = s.start
<1>1. PICK K : K = {q.start : q \in {s \in RecordsOf(r.pay.id) : s.start > r.start}} \cup {Open}
  OBVIOUS
<1>2. Open \in Nat
  BY DEF Open, ProperHistory
<1>3. \A s \in legacy : s.start \in Nat
  BY DEF ProperLegacy, LegacyKept
<1>4. K \in SUBSET Nat /\ K # {}
  BY <1>1, <1>2, <1>3 DEF RecordsOf
<1>5. PICK k \in K : \A j \in K : k <= j
  BY <1>4, LeastOf
<1>6. e = Min(K)
  BY <1>1 DEF EndOf
<1>7. e \in K /\ \A j \in K : e <= j
  BY <1>5, <1>6 DEF Min
<1> QED
  BY <1>1, <1>4, <1>7 DEF RecordsOf

(* The versions a migration writes are those of the records it takes over.  *)
LEMMA WritesAre ==
    ASSUME ProperHistory, ProperLegacy, LegacyKept, NEW vs, vs = MigrationWrites
    PROVE  /\ vs \in Seq(Version) /\ (vs = <<>> <=> Unmigrated = {})
           /\ \A i \in DOMAIN vs : \E r \in Unmigrated : vs[i] = Asserted(r)
           /\ \A r \in Unmigrated : \E i \in DOMAIN vs : vs[i] = Asserted(r)
<1>1. PICK S : S = Unmigrated
  OBVIOUS
<1>2. S \in SUBSET LegacyRecords /\ S \in SUBSET legacy /\ IsFiniteSet(S) /\ OneForKey(S)
  <2>1. S \in SUBSET legacy
    BY <1>1 DEF Unmigrated
  <2> QED
    BY <2>1, FS_Subset DEF LegacyKept, OneForKey
<1>3. PICK f : f = InPlace(S)
  OBVIOUS
<1>4. PICK n : n = Cardinality(S)
  OBVIOUS
<1>5. n \in Nat /\ (\A i \in 1 .. n : f[i] \in S) /\ \A r \in S : \E i \in 1 .. n : f[i] = r
  <2>1. /\ Cardinality(S) \in Nat /\ \A i \in 1 .. Cardinality(S) : InPlace(S)[i] \in S
        /\ \A r \in S : \E i \in 1 .. Cardinality(S) : InPlace(S)[i] = r
    BY <1>2, PlacesFilled
  <2> QED
    BY <1>3, <1>4, <2>1
<1>6. vs = [i \in 1 .. n |-> Asserted(CHOOSE r \in S : Ahead(r, S) = i - 1)]
  BY <1>1, <1>4 DEF MigrationWrites
<1>7. vs = [i \in 1 .. n |-> Asserted(f[i])]
  BY <1>3, <1>4, <1>6 DEF InPlace
<1>8. ASSUME NEW r \in S PROVE Asserted(r) \in Version
  <2>1. r \in legacy /\ r.start \in Nat /\ r.pay \in Clients /\ r.pay.kind = "edge"
    BY <1>2 DEF ProperLegacy
  <2>2. PICK e : e = EndOf(r, RecordsOf(r.pay.id))
    OBVIOUS
  <2>3. e \in Nat
    BY <2>1, <2>2, EndIs
  <2>4. <<"edge", r.pay.id>> = EntityOf(r.pay)
    BY <2>1 DEF EntityOf
  <2>5. Asserted(r) = [entity |-> EntityOf(r.pay), op |-> "assert", pay |-> r.pay, from |-> r.start, to |-> e]
    BY <2>2, <2>4 DEF Asserted, VersionOf
  <2> QED
    BY <2>1, <2>3, <2>5 DEF Version
<1>9. vs \in Seq(Version) /\ Len(vs) = n /\ DOMAIN vs = 1 .. n
  BY <1>5, <1>7, <1>8
<1>10. vs = <<>> <=> S = {}
  <2>1. vs = <<>> <=> n = 0
    BY <1>5, <1>9
  <2>2. n = 0 <=> S = {}
    BY <1>2, <1>4, FS_EmptySet
  <2> QED
    BY <2>1, <2>2
<1>11. \A i \in DOMAIN vs : \E r \in S : vs[i] = Asserted(r)
  BY <1>5, <1>7, <1>9
<1>12. \A r \in S : \E i \in DOMAIN vs : vs[i] = Asserted(r)
  BY <1>5, <1>7, <1>9
<1> QED
  BY <1>1, <1>9, <1>10, <1>11, <1>12

(* In the commit of a migration every edge is laid out as its records say.  *)
LEMMA MigrationLays ==
    ASSUME ProperHistory, ProperLegacy, LegacyKept, NEW h \in Seq(Commits), NEW c \in DOMAIN h,
           c = Len(h), h[c].versions = MigrationWrites
    PROVE  LaidOut(h, c)
<1>1. PICK vs : vs = MigrationWrites
  OBVIOUS
<1>2. /\ \A i \in DOMAIN vs : \E r \in Unmigrated : vs[i] = Asserted(r)
      /\ \A r \in Unmigrated : \E i \in DOMAIN vs : vs[i] = Asserted(r)
  BY <1>1, WritesAre
<1>3. Unmigrated \subseteq legacy /\ \A q \in Unmigrated : \A r \in legacy : r.pay.id = q.pay.id => r \in Unmigrated
  BY DEF Unmigrated
<1>4. \A r \in legacy : r.start \in Nat /\ r.pay # Empty
  BY DEF ProperLegacy, LegacyKept, Empty
<1>5. \A r : /\ Asserted(r).entity = <<"edge", r.pay.id>> /\ Asserted(r).pay = r.pay
             /\ Asserted(r).from = r.start /\ Asserted(r).to = EndOf(r, RecordsOf(r.pay.id))
  BY DEF Asserted, VersionOf
<1>6. Range(vs) = {vs[i] : i \in DOMAIN vs}
  BY DEF Range
<1>7. SUFFICES ASSUME NEW v \in Range(vs), NEW t \in Times,
                      NEW own, own = {w \in Range(vs) : w.entity = v.entity /\ w.from <= t}, own # {}
               PROVE  \E w \in own : /\ \A u \in own : u.from <= w.from
                                     /\ EntityAsOf(h, v.entity, t, c) = w.pay
  BY <1>1, ZenonT(30) DEF LaidOut
<1>8. PICK r0 \in Unmigrated : v = Asserted(r0)
  BY <1>2, <1>6
<1>9. PICK R : R = {r \in legacy : r.pay.id = r0.pay.id /\ r.start <= t}
  OBVIOUS
<1>10. R \subseteq Unmigrated
  BY <1>3, <1>8, <1>9
<1>11. \A w : w \in own <=> \E r \in R : w = Asserted(r)
  <2>1. ASSUME NEW w \in own PROVE \E r \in R : w = Asserted(r)
    <3>1. PICK r \in Unmigrated : w = Asserted(r)
      BY <1>2, <1>6, <1>7
    <3>2. <<"edge", r.pay.id>> = <<"edge", r0.pay.id>> /\ r.start <= t
      BY <1>5, <1>7, <1>8, <3>1
    <3> QED
      BY <1>3, <1>9, <3>1, <3>2
  <2>2. ASSUME NEW r \in R PROVE Asserted(r) \in own
    <3>1. Asserted(r) \in Range(vs)
      BY <1>2, <1>6, <1>10
    <3>2. Asserted(r).entity = v.entity /\ Asserted(r).from <= t
      BY <1>5, <1>8, <1>9
    <3> QED
      BY <1>7, <3>1, <3>2
  <2> QED
    BY <2>1, <2>2
<1>12. t \in Nat /\ t < Open
  BY DEF Times, Open, ProperHistory
<1>13. PICK r1 \in R : \A r \in R : r.start <= r1.start
  <2>1. PICK K : K = {r.start : r \in R}
    OBVIOUS
  <2>2. \A r \in R : r.start \in 0 .. t
    BY <1>4, <1>9, <1>12
  <2>3. R # {}
    BY <1>7, <1>11
  <2>4. K \in SUBSET (0 .. t) /\ K # {}
    BY <2>1, <2>2, <2>3
  <2>5. PICK k \in K : \A j \in K : j <= k
    BY <1>12, <2>4, GreatestOf
  <2> QED
    BY <2>1, <2>5
<1>14. r1 \in legacy /\ r1.pay.id = r0.pay.id /\ r1.start <= t /\ r1.start \in Nat /\ r1 \in Unmigrated
  BY <1>4, <1>9, <1>10, <1>13
<1>15. PICK e : e = EndOf(r1, RecordsOf(r1.pay.id))
  OBVIOUS
<1>16. t < e /\ e \in Nat
  <2>1. /\ e \in Nat
        /\ e = Open \/ \E s \in legacy : s.pay.id = r1.pay.id /\ s.start > r1.start /\ e = s.start
    BY <1>14, <1>15, EndIs
  <2>2. ASSUME NEW s \in legacy, s.pay.id = r1.pay.id, s.start > r1.start PROVE t < s.start
    <3>1. s.start \in Nat
      BY <1>4
    <3>2. CASE s.start <= t
      <4>1. s \in R
        BY <1>9, <1>14, <2>2, <3>2
      <4>2. s.start <= r1.start
        BY <1>13, <4>1
      <4> QED
        BY <1>14, <2>2, <3>1, <4>2
    <3> QED
      BY <1>12, <3>1, <3>2
  <2> QED
    BY <1>12, <2>1, <2>2
<1>17. PICK i1 \in DOMAIN vs : vs[i1] = Asserted(r1)
  BY <1>2, <1>14
<1>18. PICK l1 : l1 = <<c, i1>>
  OBVIOUS
<1>19. l1 \in Located(h) /\ At(h, l1) = Asserted(r1) /\ c \in Nat
  BY <1>1, <1>17, <1>18, Places DEF At
<1>20. PICK S : S = Resolving(h, v.entity, t, c)
  OBVIOUS
<1>21. \A l : l \in S <=> l \in Located(h) /\ l[1] <= c /\ At(h, l).entity = v.entity /\ InForce(At(h, l), t)
  <2>1. \A l \in Located(h) : l[1] \in Nat /\ l[2] \in Nat /\ l[2] > 0
    BY Places
  <2>2. \A l \in Located(h) : NotAfter(l, <<c + 1, 0>>) <=> l[1] <= c
    BY <1>19, <2>1 DEF NotAfter
  <2> QED
    BY <1>20, <2>2 DEF Resolving, UpTo
<1>22. l1 \in S
  <2>1. Asserted(r1).entity = v.entity
    BY <1>5, <1>8, <1>14
  <2>2. InForce(Asserted(r1), t)
    BY <1>5, <1>14, <1>15, <1>16 DEF InForce
  <2>3. l1[1] <= c
    BY <1>18, <1>19
  <2> QED
    BY <1>19, <1>21, <2>1, <2>2, <2>3
<1>23. PICK l : l = Newest(S)
  OBVIOUS
<1>24. l \in S /\ NotAfter(l1, l)
  <2>1. S \in SUBSET Located(h) /\ S # {}
    BY <1>21, <1>22
  <2> QED
    BY <1>22, <1>23, <2>1, NewestExists
<1>25. l[1] = c /\ l[2] \in DOMAIN vs /\ At(h, l) = vs[l[2]]
  <2>1. l \in Located(h) /\ l[1] <= c /\ l[1] \in Nat /\ l[2] \in DOMAIN h[l[1]].versions
    BY <1>21, <1>24, Places
  <2>2. c <= l[1]
    BY <1>18, <1>19, <1>24, <2>1 DEF NotAfter
  <2>3. l[1] = c
    BY <1>19, <2>1, <2>2
  <2> QED
    BY <1>1, <2>1, <2>3 DEF At
<1>26. PICK r2 \in Unmigrated : At(h, l) = Asserted(r2)
  BY <1>2, <1>25
<1>27. r2 = r1
  <2>1. <<"edge", r2.pay.id>> = <<"edge", r0.pay.id>> /\ r2.start <= t /\ t < EndOf(r2, RecordsOf(r2.pay.id))
    BY <1>5, <1>8, <1>21, <1>24, <1>26 DEF InForce
  <2>2. r2 \in legacy /\ r2.pay.id = r1.pay.id /\ r2.start \in Nat
    BY <1>3, <1>4, <1>14, <2>1
  <2>3. r2 \in R
    BY <1>9, <1>14, <2>1, <2>2
  <2>4. r2.start <= r1.start
    BY <1>13, <2>3
  <2>5. ASSUME r2.start < r1.start PROVE FALSE
    <3>1. PICK e2 : e2 = EndOf(r2, RecordsOf(r2.pay.id))
      OBVIOUS
    <3>2. e2 \in Nat /\ e2 <= r1.start
      BY <1>14, <2>2, <2>5, <3>1, EndIs
    <3> QED
      BY <1>12, <1>14, <2>1, <3>1, <3>2
  <2>6. r2.start = r1.start
    BY <1>14, <2>2, <2>4, <2>5
  <2> QED
    BY <1>14, <2>2, <2>6 DEF LegacyKept, OneForKey, LegacyKey
<1>28. EntityAsOf(h, v.entity, t, c) = r1.pay
  <2>1. Within(IntervalLocators(h, <<"logical_valid", v.entity>>, t), c)
            = {m \in UpTo(h, t, c + 1, 0) : <<"logical_valid", v.entity>> \in Filed(At(h, m))}
    BY <1>12, <1>19, ReachIs
  <2>2. Within(IntervalLocators(h, <<"logical_valid", v.entity>>, t), c) = S
    BY <1>20, <2>1, FiledUnder DEF Resolving
  <2>3. EntityAsOf(h, v.entity, t, c) = At(h, Newest(S)).pay
    BY <1>22, <2>2 DEF EntityAsOf
  <2> QED
    BY <1>5, <1>23, <1>26, <1>27, <2>3
<1>29. \A u \in own : u.from <= r1.start
  BY <1>5, <1>11, <1>13
<1> QED
  BY <1>5, <1>11, <1>13, <1>28, <1>29

(* A longer history has the places of a shorter one.                        *)
LEMMA PlacesStay ==
    ASSUME NEW g \in Seq(Commits), NEW h \in Seq(Commits), Len(h) = Len(g) + 1, \A d \in 1 .. Len(g) : h[d] = g[d]
    PROVE  /\ \A l \in Located(g) : l \in Located(h) /\ At(h, l) = At(g, l) /\ h[l[1]] = g[l[1]]
           /\ \A c \in 1 .. Len(g) : \A l \in Located(h) : l[1] <= c => l \in Located(g)
<1>1. DOMAIN g = 1 .. Len(g) /\ DOMAIN h = 1 .. Len(g) + 1 /\ Len(g) \in Nat
  OBVIOUS
<1>2. \A l \in Located(g) : l \in Located(h) /\ At(h, l) = At(g, l) /\ h[l[1]] = g[l[1]]
  BY <1>1, Places DEF At
<1>3. ASSUME NEW c \in 1 .. Len(g), NEW l \in Located(h), l[1] <= c PROVE l \in Located(g)
  <2>1. l = <<l[1], l[2]>> /\ l[1] \in 1 .. Len(h) /\ l[2] \in DOMAIN h[l[1]].versions
    BY Places
  <2>2. l[1] \in DOMAIN g /\ l[2] \in DOMAIN g[l[1]].versions
    BY <1>1, <1>3, <2>1
  <2> QED
    BY <2>1, <2>2, Places
<1> QED
  BY <1>2, <1>3

(* A commit leaves what was laid out and what was migrated.                 *)
LEMMA LaidOutStays ==
    ASSUME HistKept, NEW x \in Commits, NEW h, h = Append(hist, x), NEW c \in DOMAIN hist, LaidOut(hist, c)
    PROVE  LaidOut(h, c)
<1>1. h \in Seq(Commits) /\ Len(h) = Len(hist) + 1 /\ \A d \in 1 .. Len(hist) : h[d] = hist[d]
  BY DEF HistKept
<1>2. DOMAIN hist = 1 .. Len(hist) /\ DOMAIN h = 1 .. Len(hist) + 1 /\ Len(hist) \in Nat
  BY <1>1 DEF HistKept
<1>3. \A l \in Located(hist) : l \in Located(h) /\ At(h, l) = At(hist, l)
  BY <1>1, PlacesStay DEF HistKept
<1>4. \A l \in Located(h) : l[1] <= c => l \in Located(hist)
  BY <1>1, <1>2, PlacesStay DEF HistKept
<1>5. ASSUME NEW e, NEW t PROVE EntityAsOf(h, e, t, c) = EntityAsOf(hist, e, t, c)
  <2>1. PICK S : S = Within(IntervalLocators(hist, <<"logical_valid", e>>, t), c)
    OBVIOUS
  <2>2. S = Within(IntervalLocators(h, <<"logical_valid", e>>, t), c)
    BY <1>3, <1>4, <2>1 DEF Within, IntervalLocators
  <2>3. S \in SUBSET Located(hist)
    BY <2>1 DEF Within, IntervalLocators
  <2>4. S # {} => Newest(S) \in Located(hist)
    BY <2>3, NewestExists DEF HistKept
  <2>5. S # {} => At(h, Newest(S)) = At(hist, Newest(S))
    BY <1>3, <2>4
  <2> QED
    BY <2>1, <2>2, <2>5 DEF EntityAsOf
<1>6. h[c] = hist[c]
  BY <1>1, <1>2
<1> QED
  BY <1>5, <1>6 DEF LaidOut

(* An edge that a version took stays taken when the history grows.          *)
LEMMA TakenStays ==
    ASSUME HistKept, NEW x \in Commits, hist' = Append(hist, x), NEW r, Taken(r)
    PROVE  Taken(r)'
<1>1. PICK h : h = hist'
  OBVIOUS
<1>2. h \in Seq(Commits) /\ Len(h) = Len(hist) + 1 /\ \A c \in 1 .. Len(hist) : h[c] = hist[c]
  BY <1>1 DEF HistKept
<1>3. \A l \in Located(hist) : l \in Located(h) /\ At(h, l) = At(hist, l) /\ h[l[1]] = hist[l[1]]
  BY <1>2, PlacesStay DEF HistKept
<1>4. PICK v \in MigrationVersions(r.pay.id) : v.from = r.start /\ v.pay = r.pay
  BY DEF Taken
<1>5. PICK l \in Located(hist) : hist[l[1]].migration /\ v = At(hist, l) /\ v.entity = <<"edge", r.pay.id>>
  BY <1>4 DEF MigrationVersions
<1>6. l \in Located(h) /\ h[l[1]].migration /\ v = At(h, l)
  BY <1>3, <1>5
<1>7. v \in MigrationVersions(r.pay.id)'
  BY <1>1, <1>5, <1>6 DEF MigrationVersions
<1> QED
  BY <1>4, <1>7 DEF Taken

(* A commit of clients is no migration; one of a migration is the first.    *)
LEMMA MigrationStays ==
    ASSUME HistKept, MigrationExact, NEW x \in Commits, hist' = Append(hist, x),
           \A r \in scanned' : Taken(r)',
           x.migration => LaidOut(hist', Len(hist) + 1) /\ \A c \in DOMAIN hist : ~hist[c].migration
    PROVE  HistKept' /\ MigrationExact'
<1>1. PICK h : h = hist'
  OBVIOUS
<1>2. PICK n : n = Len(hist)
  OBVIOUS
<1>3. h \in Seq(Commits) /\ n \in Nat /\ DOMAIN hist = 1 .. n /\ DOMAIN h = 1 .. n + 1
  BY <1>1, <1>2 DEF HistKept
<1>4. h[n + 1] = x /\ \A c \in 1 .. n : h[c] = hist[c]
  BY <1>1, <1>2 DEF HistKept
<1>5. ASSUME NEW c \in DOMAIN h, h[c].migration PROVE LaidOut(h, c)
  <2>1. CASE c = n + 1
    BY <1>1, <1>2, <1>4, <1>5, <2>1
  <2>2. CASE c # n + 1
    <3>1. c \in DOMAIN hist /\ hist[c].migration
      BY <1>3, <1>4, <1>5, <2>2
    <3>2. LaidOut(hist, c)
      BY <3>1 DEF MigrationExact
    <3> QED
      BY <1>1, <3>1, <3>2, LaidOutStays
  <2> QED
    BY <2>1, <2>2
<1>6. ASSUME NEW c \in DOMAIN h, NEW d \in DOMAIN h, h[c].migration, h[d].migration PROVE c = d
  <2>1. CASE x.migration
    <3>1. \A b \in DOMAIN h : h[b].migration => b = n + 1
      BY <1>3, <1>4, <2>1
    <3> QED
      BY <1>6, <3>1
  <2>2. CASE ~x.migration
    <3>1. c \in DOMAIN hist /\ d \in DOMAIN hist /\ hist[c].migration /\ hist[d].migration
      BY <1>3, <1>4, <1>6, <2>2
    <3> QED
      BY <3>1 DEF MigrationExact
  <2> QED
    BY <2>1, <2>2
<1>7. HistKept'
  BY <1>1, <1>3 DEF HistKept
<1>8. \A c \in DOMAIN hist' : hist'[c].migration => LaidOut(hist', c)
  BY <1>1, <1>5
<1>9. \A c, d \in DOMAIN hist' : (hist'[c].migration /\ hist'[d].migration) => c = d
  BY <1>1, <1>6
<1>10. MigrationExact'
  BY <1>8, <1>9 DEF MigrationExact
<1> QED
  BY <1>7, <1>10

-----------------------------------------------------------------------------
(* The invariant of a history with migrations, and its steps.               *)

HistInv == HistKept /\ LegacyKept /\ MigrationExact

(* The empty history has the invariant.                                     *)
LEMMA HistInit == HistoryInit => HistInv
<1> SUFFICES ASSUME HistoryInit PROVE HistInv
  OBVIOUS
<1>1. hist = <<>> /\ legacy = {} /\ scanned = {}
  BY DEF HistoryInit
<1>2. HistKept /\ DOMAIN hist = {}
  BY <1>1 DEF HistKept
<1>3. LegacyKept
  BY <1>1, FS_EmptySet DEF LegacyKept, OneForKey
<1>4. MigrationExact
  BY <1>1, <1>2 DEF MigrationExact
<1> QED
  BY <1>2, <1>3, <1>4 DEF HistInv

(* Commits and migrations keep the invariant.                               *)
LEMMA ClientStep ==
    ASSUME ProperHistory, HistInv, HistoryNext(Clients)
    PROVE  HistInv'
<1>1. PICK x \in Commits : hist' = Append(hist, x) /\ ~x.migration /\ UNCHANGED <<legacy, scanned, doomed>>
  BY ClientCommits DEF HistInv
<1>2. HistKept /\ MigrationExact
  BY DEF HistInv
<1>3. \A r \in scanned' : Taken(r)'
  BY <1>1, <1>2, TakenStays DEF MigrationExact
<1>4. HistKept' /\ MigrationExact'
  BY <1>1, <1>2, <1>3, MigrationStays
<1>5. LegacyKept'
  BY <1>1 DEF HistInv, LegacyKept
<1> QED
  BY <1>4, <1>5 DEF HistInv

(* Legacy records come and go.                                              *)
LEMMA LegacyStep ==
    ASSUME HistInv, (\E r \in LegacyRecords : PutLegacy(r)) \/ (\E r \in doomed : DeleteLegacy(r)) \/ MigrationFails
    PROVE  HistInv'
<1>1. UNCHANGED <<hist, scanned>>
  BY DEF PutLegacy, DeleteLegacy, MigrationFails
<1>2. HistKept' /\ MigrationExact'
  <2>1. \A r : Taken(r)' = Taken(r)
    BY <1>1 DEF Taken, MigrationVersions
  <2> QED
    BY <1>1, <2>1 DEF HistInv, HistKept, MigrationExact
<1>3. LegacyKept'
  <2>1. IsFiniteSet(legacy) /\ legacy \subseteq LegacyRecords /\ OneForKey(legacy)
    BY DEF HistInv, LegacyKept
  <2>2. CASE \E r \in LegacyRecords : PutLegacy(r)
    <3>1. PICK r \in LegacyRecords : PutLegacy(r)
      BY <2>2
    <3>2. PICK rest : rest = {q \in legacy : LegacyKey(q) # LegacyKey(r)}
      OBVIOUS
    <3>3. legacy' = rest \cup {r} /\ rest \in SUBSET legacy
      BY <3>1, <3>2 DEF PutLegacy
    <3>4. IsFiniteSet(rest \cup {r})
      BY <2>1, <3>3, FS_Subset, FS_AddElement
    <3>5. OneForKey(rest \cup {r})
      BY <2>1, <3>2 DEF OneForKey
    <3> QED
      BY <2>1, <3>3, <3>4, <3>5 DEF LegacyKept
  <2>3. CASE \E r \in doomed : DeleteLegacy(r)
    <3>1. PICK r : legacy' = {q \in legacy : LegacyKey(q) # LegacyKey(r)}
      BY <2>3 DEF DeleteLegacy
    <3>2. legacy' \in SUBSET legacy
      BY <3>1
    <3>3. IsFiniteSet(legacy')
      BY <2>1, <3>2, FS_Subset
    <3> QED
      BY <2>1, <3>2, <3>3 DEF LegacyKept, OneForKey
  <2>4. CASE MigrationFails
    BY <2>1, <2>4 DEF MigrationFails, LegacyKept
  <2> QED
    BY <2>2, <2>3, <2>4
<1> QED
  BY <1>2, <1>3 DEF HistInv

(* A migration commits what was not migrated before, if anything.           *)
LEMMA MigrateStep ==
    ASSUME ProperHistory, ProperLegacy, HistInv, NEW deleteLegacy, Migrate(deleteLegacy)
    PROVE  HistInv'
<1>1. HistKept /\ LegacyKept /\ MigrationExact
  BY DEF HistInv
<1>2. scanned' = legacy /\ legacy' = legacy
  BY DEF Migrate
<1>3. ASSUME NEW r \in legacy, Migrated(r.pay.id) PROVE Taken(r)
  BY <1>3 DEF Migrate, Acceptable, MatchingVersion, Taken
<1>4. LegacyKept'
  BY <1>1, <1>2 DEF LegacyKept
<1>5. PICK vs : vs = MigrationWrites
  OBVIOUS
<1>6. /\ vs \in Seq(Version) /\ (vs = <<>> <=> Unmigrated = {})
      /\ \A r \in Unmigrated : \E i \in DOMAIN vs : vs[i] = Asserted(r)
  BY <1>1, <1>5, WritesAre
<1>7. CASE vs = <<>>
  <2>1. hist' = hist
    BY <1>5, <1>7 DEF Migrate
  <2>2. \A r \in legacy : Taken(r)
    BY <1>3, <1>6, <1>7 DEF Unmigrated
  <2>3. \A r : Taken(r)' = Taken(r)
    BY <2>1 DEF Taken, MigrationVersions
  <2>4. \A r \in scanned' : Taken(r)'
    BY <1>2, <2>2, <2>3
  <2>5. HistKept' /\ MigrationExact'
    BY <1>1, <2>1, <2>4 DEF HistKept, MigrationExact
  <2> QED
    BY <1>4, <2>5 DEF HistInv
<1>8. CASE vs # <<>>
  <2>1. PICK x : x = [migration |-> TRUE, versions |-> vs]
    OBVIOUS
  <2>2. x \in Commits /\ x.migration /\ x.versions = vs
    BY <1>6, <2>1 DEF Commits
  <2>3. hist' = Append(hist, x)
    BY <1>5, <1>8, <2>1 DEF Migrate, CommitVersions
  <2>4. \A c \in DOMAIN hist : ~hist[c].migration
    <3>1. PICK r \in legacy : ~Migrated(r.pay.id)
      BY <1>6, <1>8 DEF Unmigrated
    <3>2. ~MigrationExists
      BY <3>1 DEF Migrate, Acceptable, LegacyIds
    <3> QED
      BY <3>2 DEF MigrationExists
  <2>5. PICK h : h = hist'
    OBVIOUS
  <2>6. PICK n : n = Len(hist) + 1
    OBVIOUS
  <2>7. h \in Seq(Commits) /\ n \in DOMAIN h /\ n = Len(h) /\ h[n] = x
    BY <1>1, <2>2, <2>3, <2>5, <2>6 DEF HistKept
  <2>8. LaidOut(h, n)
    BY <1>1, <1>5, <2>2, <2>7, MigrationLays
  <2>9. ASSUME NEW r \in legacy PROVE Taken(r)'
    <3>1. CASE Migrated(r.pay.id)
      BY <1>1, <1>3, <2>2, <2>3, <3>1, TakenStays
    <3>2. CASE ~Migrated(r.pay.id)
      <4>1. PICK i \in DOMAIN vs : vs[i] = Asserted(r)
        BY <1>6, <3>2 DEF Unmigrated
      <4>2. PICK l : l = <<n, i>>
        OBVIOUS
      <4>3. l \in Located(h) /\ l[1] = n /\ At(h, l) = Asserted(r)
        BY <2>2, <2>7, <4>1, <4>2 DEF Located, At
      <4>4. /\ Asserted(r).entity = <<"edge", r.pay.id>> /\ Asserted(r).from = r.start
            /\ Asserted(r).pay = r.pay
        BY DEF Asserted, VersionOf
      <4>5. PICK v : v = Asserted(r)
        OBVIOUS
      <4>6. v.from = r.start /\ v.pay = r.pay /\ v.entity = <<"edge", r.pay.id>>
        BY <4>4, <4>5
      <4>7. v \in MigrationVersions(r.pay.id)'
        BY <2>2, <2>5, <2>7, <4>3, <4>5, <4>6 DEF MigrationVersions
      <4> QED
        BY <4>6, <4>7 DEF Taken
    <3> QED
      BY <3>1, <3>2
  <2>10. \A r \in scanned' : Taken(r)'
    BY <1>2, <2>9
  <2>11. HistKept' /\ MigrationExact'
    BY <1>1, <2>2, <2>3, <2>4, <2>5, <2>6, <2>8, <2>10, MigrationStays
  <2> QED
    BY <1>4, <2>11 DEF HistInv
<1> QED
  BY <1>7, <1>8

(* Whatever is written, corrected, retracted and migrated, the as-of reads  *)
(* agree with the versions laid over one another, and a migrated edge with  *)
(* its legacy records (temporal_selection, migrate_time_indexed_edges).     *)
THEOREM ReadsFollowHistory == ProperHistory /\ ProperLegacy => (HistorySpec(Clients) => []HistoryExact)
<1> SUFFICES ASSUME ProperHistory, ProperLegacy PROVE HistorySpec(Clients) => []HistoryExact
  OBVIOUS
<1>1. HistoryInit => HistInv
  BY HistInit
<1>2. HistInv /\ [HistoryNext(Clients) \/ MigrationNext]_historyVars => HistInv'
  <2> SUFFICES ASSUME HistInv, [HistoryNext(Clients) \/ MigrationNext]_historyVars PROVE HistInv'
    OBVIOUS
  <2>1. CASE HistoryNext(Clients)
    BY <2>1, ClientStep
  <2>2. CASE MigrationNext
    BY <2>2, LegacyStep, MigrateStep DEF MigrationNext
  <2>3. CASE UNCHANGED historyVars
    <3>1. UNCHANGED <<hist, legacy, scanned>>
      BY <2>3 DEF historyVars
    <3>2. \A r : Taken(r)' = Taken(r)
      BY <3>1 DEF Taken, MigrationVersions
    <3> QED
      BY <3>1, <3>2 DEF HistInv, HistKept, LegacyKept, MigrationExact
  <2> QED
    BY <2>1, <2>2, <2>3
<1>3. HistInv => HistoryExact
  BY SelectionHolds DEF HistInv, HistoryExact
<1> QED
  BY <1>1, <1>2, <1>3, PTL DEF HistorySpec
==============================================================================
