----------------------------- MODULE TemporalProofs -----------------------------
(***************************************************************************)
(* Proofs about TemporalCommit: what is stored and visible at each step of *)
(* a commit, that indexes fail closed, that a rebuild keeps readable       *)
(* indexes readable, and that what commits accept makes a consistent       *)
(* history.  Proofs about TemporalRead: what a reader without a guard may  *)
(* rely on while the writer goes on.                                       *)
(***************************************************************************)
EXTENDS TemporalRead, FiniteSetTheorems, WellFoundedInduction, TLAPS

CommitSteps == {"sequence", "descriptor", "records", "defer", "maintain", "exact",
                "range", "state", "visible"}
Recorded == {"defer", "maintain", "exact", "range", "state", "visible"}

(* The descriptor of the commit in flight is stored, alone under its id,    *)
(* with the records before n and no other.                                  *)
Stored(n) ==
    /\ Descriptor \in ws.desc
    /\ \A d \in ws.desc : d.id = cmt.id => d = Descriptor
    /\ \A i \in DOMAIN cmt.versions :
          i < n => [id |-> cmt.id, ord |-> i, ver |-> cmt.versions[i]] \in ws.rec
    /\ \A r \in ws.rec : r.id = cmt.id =>
          r.ord \in DOMAIN cmt.versions /\ r.ver = cmt.versions[r.ord]

(* How far the operation in flight has got, by its step.                    *)
InFlight ==
    /\ pc \in CommitSteps =>
          /\ cmt.id = sidecar.id /\ cmt.time = sidecar.time
          /\ cmt.id >= 1 /\ cmt.time >= 1
          /\ \A m \in ws.mark : m.id < cmt.id /\ m.time < cmt.time
    /\ pc \in {"sequence", "descriptor"} => KeysAbsent(ws, cmt.id) /\ cmt.next = 1
    /\ pc \in {"sequence", "descriptor", "records"} => cmt.next \in DOMAIN cmt.versions
    /\ pc = "records" => Stored(cmt.next)
    /\ pc \in Recorded => Stored(Len(cmt.versions) + 1)
    /\ pc \in {"unindex", "unrecord"} => rcl # {} /\ rcl \cap VisibleIds(ws) = {}

(* Every visible commit is authentic, in the store and in the transaction.  *)
AuthInv == \A m \in db.mark : Authentic(db, m)
AuthWs == \A m \in ws.mark : Authentic(ws, m)

(* The visible commits are totally ordered, and a transaction only adds     *)
(* later ones.                                                              *)
LogInv ==
    /\ \A c, d \in ws.mark : c = d \/ History!Precedes(c, d) \/ History!Precedes(d, c)
    /\ db.mark \subseteq ws.mark
    /\ \A c \in db.mark, d \in ws.mark \ db.mark : History!Precedes(c, d)

(* Unless the family is stale, the published generation reaches every       *)
(* visible commit.                                                          *)
Indexed(s, gen) ==
    \A m \in s.mark : \A f \in Families : Entries(m, gen, f) \subseteq s.idx
Published(s) ==
    /\ \A m \in s.mark : s.state.gen # 0 /\ m.id <= s.state.through
    /\ Indexed(s, s.state.gen)
IndexInv(s) == s.stale \/ Published(s)

IndexInFlight ==
    /\ pc \in {"exact", "range"} => ws.stale \/ cmt.publish
    /\ pc \in {"range", "state"} => Entries(Descriptor, ActiveGen(ws), "exact") \subseteq ws.idx
    /\ pc = "state" => Entries(Descriptor, ActiveGen(ws), "range") \subseteq ws.idx
    /\ pc = "visible" => \/ ws.stale
                         \/ /\ ws.state.gen # 0 /\ cmt.id <= ws.state.through
                            /\ \A f \in Families :
                                  Entries(Descriptor, ws.state.gen, f) \subseteq ws.idx
    /\ pc \in {"unindex", "unrecord", "rebuild"} => ws.stale
    /\ pc = "build" => /\ reb.gen = ws.state.gen + 1 /\ reb.prior = ws.state.gen
                       /\ \A m \in ws.mark :
                             /\ m.id <= reb.horizon
                             /\ \/ m.id \in reb.todo
                                \/ \A f \in Families : Entries(m, reb.gen, f) \subseteq ws.idx
    /\ pc = "clear" => Published(ws)
    /\ pc \in {"clear", "prune"} => reb.prior # ws.state.gen

IdxInv == ~dep.partial => (IndexInv(db) /\ IndexInv(ws) /\ IndexInFlight)

-----------------------------------------------------------------------------
(* Minimum and maximum of bounded sets of commit ids.                       *)

(* A non-empty set of naturals has a least element.                         *)
LEMMA MinExists ==
    ASSUME NEW S \in SUBSET Nat, S # {}
    PROVE  Min(S) \in S /\ \A y \in S : Min(S) <= y
<1>1. IsWellFoundedOn(OpToRel(<, Nat), Nat)
  BY NatLessThanWellFounded
<1>2. PICK x \in S : \A y \in S : <<y, x>> \notin OpToRel(<, Nat)
  BY <1>1, WFMin, Zenon
<1>3. \A y \in S : ~(y < x)
  BY <1>2 DEF OpToRel
<1>4. \A y \in S : x <= y
  BY <1>3
<1> QED
  BY <1>4 DEF Min

(* A non-empty set of naturals with an upper bound has a greatest element.  *)
LEMMA MaxExists ==
    ASSUME NEW n \in Nat, NEW S \in SUBSET (0..n), S # {}
    PROVE  Max(S) \in S /\ \A y \in S : Max(S) >= y
<1> DEFINE U == {u \in Nat : \A y \in S : y <= u}
<1>1. U \in SUBSET Nat /\ n \in U
  OBVIOUS
<1>2. Min(U) \in U /\ \A u \in U : Min(U) <= u
  BY <1>1, MinExists, Zenon
<1> DEFINE m == Min(U)
<1>3. m \in Nat /\ (\A y \in S : y <= m) /\ (\A u \in U : m <= u)
  BY <1>2
<1> HIDE DEF m
<1>4. m \in S
  <2> SUFFICES ASSUME m \notin S PROVE FALSE
    OBVIOUS
  <2>1. \A y \in S : y \in Nat /\ y < m
    BY <1>3
  <2>2. PICK z \in S : z \in Nat /\ z < m
    BY <2>1
  <2>3. m - 1 \in Nat /\ \A y \in S : y <= m - 1
    BY <1>3, <2>1, <2>2
  <2> QED
    BY <1>3, <2>3
<1> QED
  BY <1>3, <1>4 DEF Max

(* system_horizon: the newest visible commit, 0 when there is none.         *)
LEMMA LatestIsLast ==
    ASSUME NEW s \in Store, NEW reserved \in [id : Nat, time : Nat], ReservedFirst(s, reserved)
    PROVE  /\ Latest(s) \in 0..reserved.id
           /\ \A m \in s.mark : m.id <= Latest(s)
<1>1. VisibleIds(s) \cup {0} \in SUBSET (0..reserved.id)
  BY DEF VisibleIds, ReservedFirst
<1>2. reserved.id \in Nat
  OBVIOUS
<1>3. Max(VisibleIds(s) \cup {0}) \in VisibleIds(s) \cup {0}
      /\ \A y \in VisibleIds(s) \cup {0} : Max(VisibleIds(s) \cup {0}) >= y
  BY <1>1, <1>2, MaxExists
<1>4. \A m \in s.mark : m.id \in VisibleIds(s) /\ m.id \in Nat
  BY DEF VisibleIds, Store, Commit
<1> QED
  BY <1>1, <1>2, <1>3, <1>4 DEF Latest

-----------------------------------------------------------------------------
(* Type correctness.                                                        *)

Entry == [gen : Nat, fam : Families, id : Nat, ord : Nat, vid : VersionIds]
Record == [id : Nat, ord : Nat, ver : Version]

(* The positions and the elements of a sequence.                            *)
LEMMA ElementTyped ==
    ASSUME NEW T, NEW q \in Seq(T), NEW i \in DOMAIN q
    PROVE  i \in Nat /\ i \in 1..Len(q) /\ q[i] \in T
OBVIOUS

(* Bounds survive a new reservation.                                        *)
LEMMA ReservedGrows ==
    ASSUME NEW s \in Store, NEW r \in [id : Nat, time : Nat], NEW q \in [id : Nat, time : Nat],
           ReservedFirst(s, r), r.id <= q.id, r.time <= q.time
    PROVE  ReservedFirst(s, q)
<1>1. \A n \in 1..r.id : n \in 1..q.id
  OBVIOUS
<1>2. \A n \in 1..r.time : n \in 1..q.time
  OBVIOUS
<1>3. s.seq <= q.id /\ s.state.through <= q.id
  BY DEF ReservedFirst, Store
<1> QED
  BY <1>1, <1>2, <1>3 DEF ReservedFirst

(* The index entries of a commit are well formed and carry its id.          *)
LEMMA EntriesTyped ==
    ASSUME NEW d \in Commit, NEW gen \in Nat, NEW f \in Families
    PROVE  Entries(d, gen, f) \subseteq Entry /\ \A e \in Entries(d, gen, f) : e.id = d.id /\ e.gen = gen
<1>0. d.versions \in Seq(Version)
  BY DEF Commit
<1>1. \A i \in DOMAIN d.versions : i \in Nat /\ d.versions[i].vid \in VersionIds
  <2> TAKE i \in DOMAIN d.versions
  <2>1. i \in Nat /\ d.versions[i] \in Version
    BY <1>0, ElementTyped
  <2> QED
    BY <2>1 DEF Version
<1>2. d.id \in Nat
  BY DEF Commit
<1> QED
  BY <1>1, <1>2 DEF Entries, Entry

(* The id and the time a commit reserves are past every one reserved before. *)
LEMMA AllocatorAdvances ==
    ASSUME TypeOK, NEW now \in Clocks
    PROVE  NextId \in Nat /\ NextId > sidecar.id /\ NextTime(now) \in Nat /\ NextTime(now) > sidecar.time
<1>1. sidecar.id \in Nat /\ sidecar.time \in Nat
  BY DEF TypeOK
<1>2. now \in Nat
  BY ConstantAssumptions
<1> QED
  BY <1>1, <1>2 DEF NextId, NextTime

(* A write of a well-formed store keeps both copies well formed.            *)
LEMMA WriteTyped ==
    ASSUME TypeOK, NEW s \in Store, ReservedFirst(s, sidecar), Write(s), UNCHANGED inTx
    PROVE  /\ ws' = s /\ ws' \in Store /\ ReservedFirst(ws', sidecar)
           /\ db' \in Store /\ ReservedFirst(db', sidecar)
           /\ ~inTx' => ws' = db'
BY DEF TypeOK, Write

(* The commit in flight is a well-formed, reserved commit.                  *)
LEMMA DescriptorTyped ==
    ASSUME TypeOK, InFlight, pc \in CommitSteps
    PROVE  /\ Descriptor \in Commit
           /\ Descriptor.id \in 1..sidecar.id /\ Descriptor.time \in 1..sidecar.time
BY DEF TypeOK, InFlight, Descriptor, Commit

(* Every step keeps the types and the bounds on ids.                        *)
LEMMA TypeStep == TypeOK /\ InFlight /\ [Next]_vars => TypeOK'
<1> SUFFICES ASSUME TypeOK, InFlight, [Next]_vars PROVE TypeOK'
  OBVIOUS
<1> USE ConstantAssumptions
<1>1. CASE ReserveSequence
  <2>1. PICK b \in Batches, m \in dep.modes, now \in Clocks :
             /\ sidecar' = [id |-> NextId, time |-> NextTime(now)]
             /\ cmt' = [id |-> NextId, time |-> NextTime(now), versions |-> b, mode |-> m,
                        next |-> 1, publish |-> FALSE]
    BY <1>1 DEF ReserveSequence, ReplaceSidecar
  <2>2. NextId \in Nat /\ NextId > sidecar.id /\ NextTime(now) \in Nat /\ NextTime(now) > sidecar.time
    BY AllocatorAdvances
  <2>3. b \in Seq(Version) /\ m \in {"maintain", "defer"}
    BY DEF TypeOK, DeploymentType
  <2>5. /\ sidecar' \in [id : Nat, time : Nat]
        /\ sidecar.id <= sidecar'.id /\ sidecar.time <= sidecar'.time
    BY <2>1, <2>2, SMTT(30) DEF TypeOK
  <2>4. ReservedFirst(ws, sidecar') /\ ReservedFirst(db, sidecar')
    BY <2>1, <2>2, <2>5, ReservedGrows DEF TypeOK
  <2>6. UNCHANGED <<dep, inTx, faults, db, ws, reb, rcl>> /\ pc' \in Steps
    BY <1>1 DEF ReserveSequence, Goto, Steps
  <2>7. cmt' \in [id : Nat, time : Nat, versions : Seq(Version), mode : {"maintain", "defer"},
                  next : Nat, publish : BOOLEAN]
    BY <2>1, <2>2, <2>3
  <2>8. \A n \in 1..sidecar.id : n \in 1..sidecar'.id
    BY <2>5 DEF TypeOK
  <2> QED
    BY <2>1, <2>4, <2>5, <2>6, <2>7, <2>8, SMTT(30) DEF TypeOK
<1>2. CASE PutSequence
  <2> DEFINE s == [ws EXCEPT !.seq = cmt.id]
  <2>1. s \in Store /\ ReservedFirst(s, sidecar)
    BY DEF TypeOK, Store, ReservedFirst
  <2>2. Write(s) /\ UNCHANGED <<sidecar, dep, inTx, faults, cmt, reb, rcl>> /\ pc' \in Steps
    BY <1>2 DEF PutSequence, Goto, Steps
  <2>3. /\ ws' \in Store /\ ReservedFirst(ws', sidecar)
        /\ db' \in Store /\ ReservedFirst(db', sidecar)
        /\ ~inTx' => ws' = db'
    BY <2>1, <2>2, WriteTyped
  <2> QED
    BY <1>2, <2>2, <2>3 DEF TypeOK
<1>3. CASE PutDescriptor
  <2>4. Descriptor \in Commit /\ Descriptor.id \in 1..sidecar.id /\ Descriptor.time \in 1..sidecar.time
    BY <1>3, DescriptorTyped DEF PutDescriptor, CommitSteps
  <2> DEFINE s == [ws EXCEPT !.desc = @ \cup {Descriptor}]
  <2>1. s \in Store /\ ReservedFirst(s, sidecar)
    BY <2>4 DEF TypeOK, Store, ReservedFirst
  <2>2. Write(s) /\ UNCHANGED <<sidecar, dep, inTx, faults, cmt, reb, rcl>> /\ pc' \in Steps
    BY <1>3 DEF PutDescriptor, Goto, Steps
  <2>3. /\ ws' \in Store /\ ReservedFirst(ws', sidecar)
        /\ db' \in Store /\ ReservedFirst(db', sidecar)
        /\ ~inTx' => ws' = db'
    BY <2>1, <2>2, WriteTyped
  <2> QED
    BY <1>3, <2>2, <2>3 DEF TypeOK
<1>4. CASE PutRecord
  <2>4. /\ cmt.next \in Nat /\ cmt.versions[cmt.next] \in Version /\ cmt.id \in 1..sidecar.id
        /\ cmt.mode \in {"maintain", "defer"}
    <3>1. cmt.versions \in Seq(Version) /\ cmt.next \in DOMAIN cmt.versions
      BY <1>4 DEF PutRecord, InFlight, TypeOK
    <3> QED
      BY <1>4, <3>1, ElementTyped DEF PutRecord, InFlight, CommitSteps, TypeOK
  <2> DEFINE r == [id |-> cmt.id, ord |-> cmt.next, ver |-> cmt.versions[cmt.next]]
  <2>6. r \in Record /\ r.id \in 1..sidecar.id
    BY <2>4 DEF Record
  <2>7. Write([ws EXCEPT !.rec = @ \cup {r}])
    BY <1>4 DEF PutRecord
  <2> HIDE DEF r
  <2> DEFINE s == [ws EXCEPT !.rec = @ \cup {r}]
  <2>1. s \in Store /\ ReservedFirst(s, sidecar)
    BY <2>6 DEF TypeOK, Store, ReservedFirst, Record
  <2>2. Write(s) /\ UNCHANGED <<sidecar, dep, inTx, faults, reb, rcl>> /\ pc' \in Steps
        /\ cmt' = [cmt EXCEPT !.next = @ + 1]
    BY <1>4, <2>4, <2>7 DEF PutRecord, Goto, Steps
  <2>3. /\ ws' \in Store /\ ReservedFirst(ws', sidecar)
        /\ db' \in Store /\ ReservedFirst(db', sidecar)
        /\ ~inTx' => ws' = db'
    BY <2>1, <2>2, WriteTyped
  <2>5. cmt' \in [id : Nat, time : Nat, versions : Seq(Version), mode : {"maintain", "defer"},
                  next : Nat, publish : BOOLEAN] /\ cmt'.id = cmt.id /\ cmt'.time = cmt.time
    <3>1. cmt.next + 1 \in Nat
      BY <2>4
    <3> QED
      BY <2>2, <3>1 DEF TypeOK
  <2> QED
    BY <2>2, <2>3, <2>4, <2>5 DEF TypeOK
<1>5. CASE DeferIndexes
  <2> DEFINE s == [ws EXCEPT !.stale = TRUE]
  <2>1. s \in Store /\ ReservedFirst(s, sidecar)
    BY DEF TypeOK, Store, ReservedFirst
  <2>2. Write(s) /\ UNCHANGED <<sidecar, dep, inTx, faults, cmt, reb, rcl>> /\ pc' \in Steps
    BY <1>5 DEF DeferIndexes, Goto, Steps
  <2>3. /\ ws' \in Store /\ ReservedFirst(ws', sidecar)
        /\ db' \in Store /\ ReservedFirst(db', sidecar)
        /\ ~inTx' => ws' = db'
    BY <2>1, <2>2, WriteTyped
  <2> QED
    BY <1>5, <2>2, <2>3 DEF TypeOK
<1>6. CASE MaintainIndexes
  <2> DEFINE s == [ws EXCEPT !.stale = @ \/ (ws.state.gen = 0 /\ \E i \in VisibleIds(ws) : i < cmt.id)]
  <2>1. s \in Store /\ ReservedFirst(s, sidecar)
    BY DEF TypeOK, Store, ReservedFirst
  <2>2. Write(s) /\ UNCHANGED <<sidecar, dep, inTx, faults, reb, rcl>> /\ pc' \in Steps
        /\ cmt' = [cmt EXCEPT !.publish = ~(ws.state.gen = 0 /\ \E i \in VisibleIds(ws) : i < cmt.id)]
    BY <1>6 DEF MaintainIndexes, Goto, Steps
  <2>3. /\ ws' \in Store /\ ReservedFirst(ws', sidecar)
        /\ db' \in Store /\ ReservedFirst(db', sidecar)
        /\ ~inTx' => ws' = db'
    BY <2>1, <2>2, WriteTyped
  <2> QED
    BY <1>6, <2>2, <2>3 DEF TypeOK
<1>7. CASE PutExactEntries
  <2>4. Descriptor \in Commit /\ Descriptor.id \in 1..sidecar.id /\ Descriptor.time \in 1..sidecar.time
    BY <1>7, DescriptorTyped DEF PutExactEntries, CommitSteps
  <2>5. Entries(Descriptor, ActiveGen(ws), "exact") \subseteq Entry
        /\ \A e \in Entries(Descriptor, ActiveGen(ws), "exact") : e.id = Descriptor.id
    BY <2>4, EntriesTyped, SMTT(30) DEF TypeOK, Store, ActiveGen, Families
  <2> DEFINE s == [ws EXCEPT !.idx = @ \cup Entries(Descriptor, ActiveGen(ws), "exact")]
  <2>1. s \in Store /\ ReservedFirst(s, sidecar)
    BY <2>4, <2>5 DEF TypeOK, Store, ReservedFirst, Entry
  <2>2. Write(s) /\ UNCHANGED <<sidecar, dep, inTx, faults, cmt, reb, rcl>> /\ pc' \in Steps
    BY <1>7 DEF PutExactEntries, Goto, Steps
  <2>3. /\ ws' \in Store /\ ReservedFirst(ws', sidecar)
        /\ db' \in Store /\ ReservedFirst(db', sidecar)
        /\ ~inTx' => ws' = db'
    BY <2>1, <2>2, WriteTyped
  <2> QED
    BY <1>7, <2>2, <2>3 DEF TypeOK
<1>8. CASE PutRangeEntries
  <2>4. Descriptor \in Commit /\ Descriptor.id \in 1..sidecar.id /\ Descriptor.time \in 1..sidecar.time
    BY <1>8, DescriptorTyped DEF PutRangeEntries, CommitSteps
  <2>5. Entries(Descriptor, ActiveGen(ws), "range") \subseteq Entry
        /\ \A e \in Entries(Descriptor, ActiveGen(ws), "range") : e.id = Descriptor.id
    BY <2>4, EntriesTyped, SMTT(30) DEF TypeOK, Store, ActiveGen, Families
  <2> DEFINE s == [ws EXCEPT !.idx = @ \cup Entries(Descriptor, ActiveGen(ws), "range")]
  <2>1. s \in Store /\ ReservedFirst(s, sidecar)
    BY <2>4, <2>5 DEF TypeOK, Store, ReservedFirst, Entry
  <2>2. Write(s) /\ UNCHANGED <<sidecar, dep, inTx, faults, cmt, reb, rcl>> /\ pc' \in Steps
    BY <1>8 DEF PutRangeEntries, Goto, Steps
  <2>3. /\ ws' \in Store /\ ReservedFirst(ws', sidecar)
        /\ db' \in Store /\ ReservedFirst(db', sidecar)
        /\ ~inTx' => ws' = db'
    BY <2>1, <2>2, WriteTyped
  <2> QED
    BY <1>8, <2>2, <2>3 DEF TypeOK
<1>9. CASE PersistIndexState
  <2>4. Descriptor \in Commit /\ Descriptor.id \in 1..sidecar.id /\ Descriptor.time \in 1..sidecar.time
    BY <1>9, DescriptorTyped DEF PersistIndexState, CommitSteps
  <2> DEFINE s == [ws EXCEPT !.state = [through |-> cmt.id, gen |-> ActiveGen(ws),
                                        sum |-> Markers(ws, cmt.id) \cup {Descriptor}]]
  <2>1. s \in Store /\ ReservedFirst(s, sidecar)
    BY <2>4 DEF TypeOK, Store, ReservedFirst, Markers, ActiveGen
  <2>2. Write(s) /\ UNCHANGED <<sidecar, dep, inTx, faults, cmt, reb, rcl>> /\ pc' \in Steps
    BY <1>9 DEF PersistIndexState, Goto, Steps
  <2>3. /\ ws' \in Store /\ ReservedFirst(ws', sidecar)
        /\ db' \in Store /\ ReservedFirst(db', sidecar)
        /\ ~inTx' => ws' = db'
    BY <2>1, <2>2, WriteTyped
  <2> QED
    BY <1>9, <2>2, <2>3 DEF TypeOK
<1>10. CASE PutVisibleMarker
  <2>4. Descriptor \in Commit /\ Descriptor.id \in 1..sidecar.id /\ Descriptor.time \in 1..sidecar.time
    BY <1>10, DescriptorTyped DEF PutVisibleMarker, CommitSteps
  <2> DEFINE s == [ws EXCEPT !.mark = @ \cup {Descriptor}]
  <2>1. s \in Store /\ ReservedFirst(s, sidecar)
    BY <2>4 DEF TypeOK, Store, ReservedFirst
  <2>2. Write(s) /\ UNCHANGED <<sidecar, dep, inTx, faults, reb, rcl>> /\ pc' \in Steps /\ cmt' = NoCommit
    BY <1>10 DEF PutVisibleMarker, Goto, Steps
  <2>3. /\ ws' \in Store /\ ReservedFirst(ws', sidecar)
        /\ db' \in Store /\ ReservedFirst(db', sidecar)
        /\ ~inTx' => ws' = db'
    BY <2>1, <2>2, WriteTyped
  <2> QED
    BY <1>10, <2>2, <2>3 DEF TypeOK, NoCommit
<1>11. CASE StartRebuild
  <2>4. Latest(ws) \in 0..sidecar.id
    BY LatestIsLast DEF TypeOK
  <2>5. VisibleIds(ws) \subseteq 1..sidecar.id
    BY DEF VisibleIds, TypeOK, ReservedFirst
  <2>6. PICK k \in 0..Latest(ws) :
           reb' = [prior |-> ws.state.gen, gen |-> ws.state.gen + 1, horizon |-> k,
                   latest |-> Latest(ws), todo |-> CommitsToCopy(ws, k)]
    BY <1>11 DEF StartRebuild
  <2>7. CommitsToCopy(ws, k) \subseteq 1..sidecar.id
    BY <2>5 DEF CommitsToCopy
  <2>8. ws.state.gen \in Nat
    BY DEF TypeOK, Store
  <2> DEFINE s == [ws EXCEPT !.stale = @ \/ ws.state.gen = 0]
  <2>1. s \in Store /\ ReservedFirst(s, sidecar)
    BY DEF TypeOK, Store, ReservedFirst
  <2>2. Write(s) /\ UNCHANGED <<sidecar, dep, inTx, faults, cmt, rcl>> /\ pc' \in Steps
    BY <1>11 DEF StartRebuild, Goto, Steps
  <2>3. /\ ws' \in Store /\ ReservedFirst(ws', sidecar)
        /\ db' \in Store /\ ReservedFirst(db', sidecar)
        /\ ~inTx' => ws' = db'
    BY <2>1, <2>2, WriteTyped
  <2>9. /\ reb' \in [prior : Nat, gen : Nat, horizon : Nat, latest : Nat, todo : SUBSET Nat]
        /\ reb'.horizon <= sidecar.id /\ reb'.todo \subseteq 1..sidecar.id
    <3>1. k \in Nat /\ k <= sidecar.id /\ Latest(ws) \in Nat
      BY <2>4 DEF TypeOK
    <3>2. CommitsToCopy(ws, k) \in SUBSET Nat
      BY <2>7
    <3> QED
      BY <2>6, <2>7, <2>8, <3>1, <3>2
  <2> QED
    BY <2>2, <2>3, <2>9 DEF TypeOK
<1>12. CASE BuildGeneration
  <2> PICK m \in ws.mark :
           /\ Write([ws EXCEPT !.idx = @ \cup UNION {Entries(m, reb.gen, f) : f \in Families}])
           /\ reb' = [reb EXCEPT !.todo = @ \ {m.id}]
    BY <1>12 DEF BuildGeneration
  <2>4. m \in Commit /\ m.id \in 1..sidecar.id
    BY DEF TypeOK, Store, ReservedFirst
  <2>5. \A f \in Families : Entries(m, reb.gen, f) \subseteq Entry
                             /\ \A e \in Entries(m, reb.gen, f) : e.id = m.id
    BY <2>4, EntriesTyped DEF TypeOK
  <2>6. \A e \in UNION {Entries(m, reb.gen, f) : f \in Families} : e \in Entry /\ e.id = m.id
    BY <2>5
  <2> DEFINE s == [ws EXCEPT !.idx = @ \cup UNION {Entries(m, reb.gen, f) : f \in Families}]
  <2>1. s \in Store /\ ReservedFirst(s, sidecar)
    BY <2>4, <2>6 DEF TypeOK, Store, ReservedFirst, Entry
  <2>2. Write(s) /\ UNCHANGED <<sidecar, dep, inTx, faults, cmt, rcl>> /\ pc' \in Steps
    BY <1>12 DEF BuildGeneration, Goto, Steps
  <2>3. /\ ws' \in Store /\ ReservedFirst(ws', sidecar)
        /\ db' \in Store /\ ReservedFirst(db', sidecar)
        /\ ~inTx' => ws' = db'
    BY <2>1, <2>2, WriteTyped
  <2> QED
    BY <1>12, <2>2, <2>3 DEF TypeOK
<1>13. CASE ActivateGeneration
  <2> DEFINE s == [ws EXCEPT !.state = [through |-> reb.horizon, gen |-> reb.gen,
                                        sum |-> Markers(ws, reb.horizon)]]
  <2>1. s \in Store /\ ReservedFirst(s, sidecar)
    BY DEF TypeOK, Store, ReservedFirst, Markers
  <2>2. Write(s) /\ UNCHANGED <<sidecar, dep, inTx, faults, cmt, reb, rcl>> /\ pc' \in Steps
    BY <1>13 DEF ActivateGeneration, Goto, Steps
  <2>3. /\ ws' \in Store /\ ReservedFirst(ws', sidecar)
        /\ db' \in Store /\ ReservedFirst(db', sidecar)
        /\ ~inTx' => ws' = db'
    BY <2>1, <2>2, WriteTyped
  <2> QED
    BY <1>13, <2>2, <2>3 DEF TypeOK
<1>14. CASE ClearStale
  <2>4. VisibleIds(ws) \subseteq 1..sidecar.id
    BY DEF VisibleIds, TypeOK, ReservedFirst
  <2> DEFINE s == [ws EXCEPT !.stale = @ /\ ~CoversLatest]
  <2>1. s \in Store /\ ReservedFirst(s, sidecar)
    BY DEF TypeOK, Store, ReservedFirst, CoversLatest
  <2>2. Write(s) /\ UNCHANGED <<sidecar, dep, inTx, faults, cmt, rcl>> /\ pc' \in Steps /\ reb' = [reb EXCEPT !.todo = VisibleIds(ws)]
    BY <1>14 DEF ClearStale, Goto, Steps
  <2>3. /\ ws' \in Store /\ ReservedFirst(ws', sidecar)
        /\ db' \in Store /\ ReservedFirst(db', sidecar)
        /\ ~inTx' => ws' = db'
    BY <2>1, <2>2, WriteTyped
  <2>5. /\ reb' \in [prior : Nat, gen : Nat, horizon : Nat, latest : Nat, todo : SUBSET Nat]
        /\ reb'.horizon <= sidecar.id /\ reb'.todo \subseteq 1..sidecar.id
    <3>1. VisibleIds(ws) \in SUBSET Nat
      BY <2>4
    <3> QED
      BY <2>2, <2>4, <3>1 DEF TypeOK
  <2> QED
    BY <2>2, <2>3, <2>5 DEF TypeOK
<1>15. CASE PruneGeneration
  <2> PICK m \in ws.mark :
           /\ Write([ws EXCEPT !.idx = {e \in @ : ~Superseded(e, m.id)}])
           /\ reb' = [reb EXCEPT !.todo = @ \ {m.id}]
    BY <1>15 DEF PruneGeneration
  <2> DEFINE s == [ws EXCEPT !.idx = {e \in @ : ~Superseded(e, m.id)}]
  <2>1. s \in Store /\ ReservedFirst(s, sidecar)
    BY DEF TypeOK, Store, ReservedFirst
  <2>2. Write(s) /\ UNCHANGED <<sidecar, dep, inTx, faults, cmt, rcl>> /\ pc' \in Steps
    BY <1>15 DEF PruneGeneration, Goto, Steps
  <2>3. /\ ws' \in Store /\ ReservedFirst(ws', sidecar)
        /\ db' \in Store /\ ReservedFirst(db', sidecar)
        /\ ~inTx' => ws' = db'
    BY <2>1, <2>2, WriteTyped
  <2> QED
    BY <1>15, <2>2, <2>3 DEF TypeOK
<1>16. CASE FinishRebuild
  BY <1>16 DEF TypeOK, FinishRebuild, NoRebuild, Goto, Steps
<1>17. CASE RebuildRaises
  BY <1>17 DEF TypeOK, RebuildRaises, NoRebuild, Goto, Steps
<1>18. CASE StartReclaim
  <2>4. PICK t \in 0..sidecar.id : rcl' = IncompleteCommits(ws, t)
    BY <1>18 DEF StartReclaim
  <2>5. IncompleteCommits(ws, t) \subseteq 1..sidecar.id
    BY DEF IncompleteCommits, TypeOK, ReservedFirst
  <2> DEFINE s == [ws EXCEPT !.stale = TRUE]
  <2>1. s \in Store /\ ReservedFirst(s, sidecar)
    BY DEF TypeOK, Store, ReservedFirst
  <2>2. Write(s) /\ UNCHANGED <<sidecar, dep, inTx, faults, cmt, reb>> /\ pc' \in Steps
    BY <1>18 DEF StartReclaim, Goto, Steps
  <2>3. /\ ws' \in Store /\ ReservedFirst(ws', sidecar)
        /\ db' \in Store /\ ReservedFirst(db', sidecar)
        /\ ~inTx' => ws' = db'
    BY <2>1, <2>2, WriteTyped
  <2> QED
    BY <2>2, <2>3, <2>4, <2>5 DEF TypeOK
<1>19. CASE UnindexOrphans
  <2> DEFINE s == [ws EXCEPT !.idx = {e \in @ : ~(/\ e.id \in rcl /\ e.gen = ActiveGen(ws)
                                               /\ \E r \in ws.rec : r.id = e.id /\ r.ord = e.ord)}]
  <2>1. s \in Store /\ ReservedFirst(s, sidecar)
    BY DEF TypeOK, Store, ReservedFirst
  <2>2. Write(s) /\ UNCHANGED <<sidecar, dep, inTx, faults, cmt, reb, rcl>> /\ pc' \in Steps
    BY <1>19 DEF UnindexOrphans, Goto, Steps
  <2>3. /\ ws' \in Store /\ ReservedFirst(ws', sidecar)
        /\ db' \in Store /\ ReservedFirst(db', sidecar)
        /\ ~inTx' => ws' = db'
    BY <2>1, <2>2, WriteTyped
  <2> QED
    BY <1>19, <2>2, <2>3 DEF TypeOK
<1>20. CASE DeleteOrphanRecord
  <2> PICK r \in ws.rec : Write([ws EXCEPT !.rec = @ \ {r}])
    BY <1>20 DEF DeleteOrphanRecord
  <2> DEFINE s == [ws EXCEPT !.rec = @ \ {r}]
  <2>1. s \in Store /\ ReservedFirst(s, sidecar)
    BY DEF TypeOK, Store, ReservedFirst
  <2>2. Write(s) /\ UNCHANGED <<sidecar, dep, inTx, faults, cmt, reb, rcl>> /\ pc' \in Steps
    BY <1>20 DEF DeleteOrphanRecord, Goto, Steps
  <2>3. /\ ws' \in Store /\ ReservedFirst(ws', sidecar)
        /\ db' \in Store /\ ReservedFirst(db', sidecar)
        /\ ~inTx' => ws' = db'
    BY <2>1, <2>2, WriteTyped
  <2> QED
    BY <1>20, <2>2, <2>3 DEF TypeOK
<1>21. CASE DeleteOrphanDescriptor
  <2> DEFINE s == [ws EXCEPT !.desc = {d \in @ : d.id # Min(rcl)}]
  <2>1. s \in Store /\ ReservedFirst(s, sidecar)
    BY DEF TypeOK, Store, ReservedFirst
  <2>2. Write(s) /\ UNCHANGED <<sidecar, dep, inTx, faults, cmt, reb>> /\ pc' \in Steps /\ rcl' \subseteq rcl
    BY <1>21 DEF DeleteOrphanDescriptor, Goto, Steps
  <2>3. /\ ws' \in Store /\ ReservedFirst(ws', sidecar)
        /\ db' \in Store /\ ReservedFirst(db', sidecar)
        /\ ~inTx' => ws' = db'
    BY <2>1, <2>2, WriteTyped
  <2> QED
    BY <1>21, <2>2, <2>3 DEF TypeOK
<1>22. CASE BeginTransaction
  BY <1>22 DEF TypeOK, BeginTransaction, ReservedFirst
<1>23. CASE CommitTransaction
  BY <1>23 DEF TypeOK, CommitTransaction, ReservedFirst
<1>24. CASE RollbackTransaction
  BY <1>24 DEF TypeOK, RollbackTransaction, ReservedFirst
<1>25. CASE Crash
  <2>1. /\ UNCHANGED <<dep, sidecar, db>> /\ ws' = db /\ inTx' = FALSE
        /\ faults < MaxFaults /\ faults' = faults + 1
        /\ pc' = "idle" /\ cmt' = NoCommit /\ reb' = NoRebuild /\ rcl' = {}
    BY <1>25 DEF Crash, Abandon
  <2>2. faults' \in 0..MaxFaults
    BY <2>1 DEF TypeOK
  <2>3. /\ NoCommit \in [id : Nat, time : Nat, versions : Seq(Version),
                         mode : {"maintain", "defer"}, next : Nat, publish : BOOLEAN]
        /\ NoRebuild \in [prior : Nat, gen : Nat, horizon : Nat, latest : Nat, todo : SUBSET Nat]
        /\ NoCommit.id = 0 /\ NoCommit.time = 0 /\ NoRebuild.horizon = 0 /\ NoRebuild.todo = {}
    BY DEF NoCommit, NoRebuild
  <2>4. /\ ws' \in Store /\ db' \in Store /\ ReservedFirst(ws', sidecar) /\ ReservedFirst(db', sidecar)
        /\ inTx' \in BOOLEAN /\ (~inTx' => ws' = db')
    BY <2>1 DEF TypeOK
  <2> QED
    BY <2>1, <2>2, <2>3, <2>4 DEF TypeOK, Steps
<1>26. CASE Fail
  <2>1. /\ UNCHANGED <<dep, sidecar, db>> /\ UNCHANGED <<ws, inTx>>
        /\ faults < MaxFaults /\ faults' = faults + 1
        /\ pc' = "idle" /\ cmt' = NoCommit /\ reb' = NoRebuild /\ rcl' = {}
    BY <1>26 DEF Fail, Abandon
  <2>2. faults' \in 0..MaxFaults
    BY <2>1 DEF TypeOK
  <2>3. /\ NoCommit \in [id : Nat, time : Nat, versions : Seq(Version),
                         mode : {"maintain", "defer"}, next : Nat, publish : BOOLEAN]
        /\ NoRebuild \in [prior : Nat, gen : Nat, horizon : Nat, latest : Nat, todo : SUBSET Nat]
        /\ NoCommit.id = 0 /\ NoCommit.time = 0 /\ NoRebuild.horizon = 0 /\ NoRebuild.todo = {}
    BY DEF NoCommit, NoRebuild
  <2>4. /\ ws' \in Store /\ db' \in Store /\ ReservedFirst(ws', sidecar) /\ ReservedFirst(db', sidecar)
        /\ inTx' \in BOOLEAN /\ (~inTx' => ws' = db')
    BY <2>1 DEF TypeOK
  <2> QED
    BY <2>1, <2>2, <2>3, <2>4 DEF TypeOK, Steps
<1>27. CASE UNCHANGED vars
  BY <1>27 DEF TypeOK, vars, ReservedFirst
<1> QED
  BY <1>1, <1>2, <1>3, <1>4, <1>5, <1>6, <1>7, <1>8, <1>9, <1>10, <1>11, <1>12, <1>13, <1>14, <1>15, <1>16, <1>17, <1>18, <1>19, <1>20, <1>21, <1>22, <1>23, <1>24, <1>25, <1>26, <1>27
     DEF Next, CommitStep, RebuildStep, ReclaimStep

-----------------------------------------------------------------------------
(* Authenticity of visible commits.                                         *)

HistoryUnchanged ==
    /\ ws'.desc = ws.desc /\ ws'.rec = ws.rec /\ ws'.mark = ws.mark
    /\ db'.desc = db.desc /\ db'.rec = db.rec /\ db'.mark = db.mark

IndexOnly ==
    \/ ReserveSequence \/ PutSequence \/ DeferIndexes \/ MaintainIndexes
    \/ PutExactEntries \/ PutRangeEntries \/ PersistIndexState
    \/ StartRebuild \/ RebuildStep \/ StartReclaim \/ UnindexOrphans
    \/ BeginTransaction \/ Fail \/ UNCHANGED vars

(* A write that leaves descriptors, records and markers alone.              *)
LEMMA WriteIndexOnly ==
    ASSUME TypeOK, NEW s, s.desc = ws.desc, s.rec = ws.rec, s.mark = ws.mark, Write(s)
    PROVE  HistoryUnchanged
BY DEF TypeOK, Write, HistoryUnchanged

(* Index maintenance, rebuilds and reservations never touch the history.    *)
LEMMA IndexOnlySteps == TypeOK /\ IndexOnly => HistoryUnchanged
<1> SUFFICES ASSUME TypeOK, IndexOnly PROVE HistoryUnchanged
  OBVIOUS
<1>0. ws \in Store
  BY DEF TypeOK
<1>1. CASE PutSequence
  BY <1>0, <1>1, WriteIndexOnly DEF PutSequence, Store
<1>2. CASE DeferIndexes
  BY <1>0, <1>2, WriteIndexOnly DEF DeferIndexes, Store
<1>3. CASE MaintainIndexes
  BY <1>0, <1>3, WriteIndexOnly DEF MaintainIndexes, Store
<1>4. CASE PutExactEntries
  BY <1>0, <1>4, WriteIndexOnly DEF PutExactEntries, Store
<1>5. CASE PutRangeEntries
  BY <1>0, <1>5, WriteIndexOnly DEF PutRangeEntries, Store
<1>6. CASE PersistIndexState
  BY <1>0, <1>6, WriteIndexOnly DEF PersistIndexState, Store
<1>7. CASE StartRebuild
  BY <1>0, <1>7, WriteIndexOnly DEF StartRebuild, Store
<1>8. CASE BuildGeneration
  BY <1>0, <1>8, WriteIndexOnly DEF BuildGeneration, Store
<1>9. CASE ActivateGeneration
  BY <1>0, <1>9, WriteIndexOnly DEF ActivateGeneration, Store
<1>10. CASE ClearStale
  BY <1>0, <1>10, WriteIndexOnly DEF ClearStale, Store
<1>11. CASE PruneGeneration
  BY <1>0, <1>11, WriteIndexOnly DEF PruneGeneration, Store
<1>12. CASE StartReclaim
  BY <1>0, <1>12, WriteIndexOnly DEF StartReclaim, Store
<1>13. CASE UnindexOrphans
  BY <1>0, <1>13, WriteIndexOnly DEF UnindexOrphans, Store
<1>14. CASE ReserveSequence \/ FinishRebuild \/ RebuildRaises \/ BeginTransaction \/ Fail \/ UNCHANGED vars
  BY <1>14 DEF ReserveSequence, FinishRebuild, RebuildRaises, BeginTransaction, Fail, Abandon, vars,
               HistoryUnchanged
<1> QED
  BY <1>1, <1>2, <1>3, <1>4, <1>5, <1>6, <1>7, <1>8, <1>9, <1>10, <1>11, <1>12, <1>13, <1>14
     DEF IndexOnly, RebuildStep

(* Authenticity depends on the history alone.                               *)
LEMMA AuthenticUnchanged ==
    ASSUME NEW s, NEW t, t.desc = s.desc, t.rec = s.rec, t.mark = s.mark,
           \A m \in s.mark : Authentic(s, m)
    PROVE  \A m \in t.mark : Authentic(t, m)
BY DEF Authentic

(* A write of an authentic store keeps both copies authentic.               *)
LEMMA WriteAuthentic ==
    ASSUME AuthInv, NEW s, \A m \in s.mark : Authentic(s, m), Write(s), inTx \in BOOLEAN
    PROVE  AuthInv' /\ AuthWs'
<1>1. AuthWs'
  BY DEF AuthWs, Write
<1>2. CASE inTx
  <2>1. db' = db
    BY <1>2 DEF Write
  <2> QED
    BY <1>1, <2>1 DEF AuthInv
<1>3. CASE ~inTx
  <2>1. db' = s
    BY <1>3 DEF Write
  <2> QED
    BY <1>1, <2>1 DEF AuthInv
<1> QED
  BY <1>2, <1>3

(* Min(rcl) is one of the orphans, and no visible commit.                   *)
LEMMA OrphanInvisible ==
    ASSUME TypeOK, InFlight, pc \in {"unindex", "unrecord"}
    PROVE  Min(rcl) \in rcl /\ \A m \in ws.mark : m.id \notin rcl
<1>1. rcl \in SUBSET Nat /\ rcl # {}
  BY DEF TypeOK, InFlight
<1>2. Min(rcl) \in rcl
  BY <1>1, MinExists
<1>3. \A m \in ws.mark : m.id \in VisibleIds(ws)
  BY DEF VisibleIds
<1> QED
  BY <1>2, <1>3 DEF InFlight

(* Every step keeps every visible commit authentic, in the committed store  *)
(* and in the open transaction.                                             *)
LEMMA AuthStep == TypeOK /\ InFlight /\ AuthInv /\ AuthWs /\ [Next]_vars => AuthInv' /\ AuthWs'
<1> SUFFICES ASSUME TypeOK, InFlight, AuthInv, AuthWs, [Next]_vars PROVE AuthInv' /\ AuthWs'
  OBVIOUS
<1>0. ws \in Store /\ inTx \in BOOLEAN
  BY DEF TypeOK
<1>1. CASE IndexOnly
  <2>1. HistoryUnchanged
    BY <1>1, IndexOnlySteps
  <2>2. \A m \in ws'.mark : Authentic(ws', m)
    BY <2>1, AuthenticUnchanged DEF HistoryUnchanged, AuthWs
  <2>3. \A m \in db'.mark : Authentic(db', m)
    BY <2>1, AuthenticUnchanged DEF HistoryUnchanged, AuthInv
  <2> QED
    BY <2>2, <2>3 DEF AuthInv, AuthWs
<1>2. CASE PutDescriptor
  <2> DEFINE s == [ws EXCEPT !.desc = @ \cup {Descriptor}]
  <2>1. s.desc = ws.desc \cup {Descriptor} /\ s.rec = ws.rec /\ s.mark = ws.mark
    BY <1>0 DEF Store
  <2>2. \A m \in ws.mark : m.id # Descriptor.id
    BY <1>2 DEF PutDescriptor, InFlight, KeysAbsent, Descriptor
  <2>3. Write(s)
    BY <1>2 DEF PutDescriptor
  <2> HIDE DEF s
  <2>4. \A m \in s.mark : Authentic(s, m)
    BY <2>1, <2>2 DEF AuthWs, Authentic
  <2> QED
    BY <1>0, <2>3, <2>4, WriteAuthentic
<1>3. CASE PutRecord
  <2> DEFINE r == [id |-> cmt.id, ord |-> cmt.next, ver |-> cmt.versions[cmt.next]]
             s == [ws EXCEPT !.rec = @ \cup {r}]
  <2>1. s.desc = ws.desc /\ s.rec = ws.rec \cup {r} /\ s.mark = ws.mark
    BY <1>0 DEF Store
  <2>2. \A m \in ws.mark : m.id # r.id
    BY <1>3, SMTT(30) DEF PutRecord, InFlight, CommitSteps, TypeOK, Store, Commit
  <2>3. Write(s)
    BY <1>3 DEF PutRecord
  <2> HIDE DEF r, s
  <2>4. \A m \in s.mark : Authentic(s, m)
    BY <2>1, <2>2 DEF AuthWs, Authentic
  <2> QED
    BY <1>0, <2>3, <2>4, WriteAuthentic
<1>4. CASE PutVisibleMarker
  <2> DEFINE s == [ws EXCEPT !.mark = @ \cup {Descriptor}]
  <2>1. s.desc = ws.desc /\ s.rec = ws.rec /\ s.mark = ws.mark \cup {Descriptor}
    BY <1>0 DEF Store
  <2>2. Stored(Len(cmt.versions) + 1) /\ cmt.versions \in Seq(Version)
    BY <1>4 DEF PutVisibleMarker, InFlight, Recorded, TypeOK
  <2>3. \A i \in DOMAIN cmt.versions : i < Len(cmt.versions) + 1
    BY <2>2
  <2>4. Write(s)
    BY <1>4 DEF PutVisibleMarker
  <2> HIDE DEF s
  <2>5. Authentic(s, Descriptor)
    BY <2>1, <2>2, <2>3 DEF Authentic, Stored, Descriptor
  <2>6. \A m \in s.mark : Authentic(s, m)
    BY <2>1, <2>5 DEF AuthWs, Authentic
  <2> QED
    BY <1>0, <2>4, <2>6, WriteAuthentic
<1>5. CASE DeleteOrphanRecord
  <2> PICK r \in ws.rec : r.id = Min(rcl) /\ Write([ws EXCEPT !.rec = @ \ {r}])
    BY <1>5 DEF DeleteOrphanRecord
  <2> DEFINE s == [ws EXCEPT !.rec = @ \ {r}]
  <2>1. s.desc = ws.desc /\ s.rec = ws.rec \ {r} /\ s.mark = ws.mark
    BY <1>0 DEF Store
  <2>2. \A m \in ws.mark : m.id # r.id
    BY <1>5, OrphanInvisible DEF DeleteOrphanRecord
  <2>3. Write(s)
    OBVIOUS
  <2> HIDE DEF s
  <2>4. \A m \in s.mark : Authentic(s, m)
    BY <2>1, <2>2 DEF AuthWs, Authentic
  <2> QED
    BY <1>0, <2>3, <2>4, WriteAuthentic
<1>6. CASE DeleteOrphanDescriptor
  <2> DEFINE s == [ws EXCEPT !.desc = {d \in @ : d.id # Min(rcl)}]
  <2>1. s.desc = {d \in ws.desc : d.id # Min(rcl)} /\ s.rec = ws.rec /\ s.mark = ws.mark
    BY <1>0 DEF Store
  <2>2. \A m \in ws.mark : m.id # Min(rcl)
    BY <1>6, OrphanInvisible DEF DeleteOrphanDescriptor
  <2>3. Write(s)
    BY <1>6 DEF DeleteOrphanDescriptor
  <2> HIDE DEF s
  <2>4. \A m \in s.mark : Authentic(s, m)
    BY <2>1, <2>2 DEF AuthWs, Authentic
  <2> QED
    BY <1>0, <2>3, <2>4, WriteAuthentic
<1>7. CASE CommitTransaction
  BY <1>7 DEF CommitTransaction, AuthInv, AuthWs
<1>8. CASE RollbackTransaction
  BY <1>8 DEF RollbackTransaction, AuthInv, AuthWs
<1>9. CASE Crash
  BY <1>9 DEF Crash, Abandon, AuthInv, AuthWs
<1> QED
  BY <1>1, <1>2, <1>3, <1>4, <1>5, <1>6, <1>7, <1>8, <1>9
     DEF Next, CommitStep, ReclaimStep, IndexOnly

-----------------------------------------------------------------------------
(* The progress of the operation in flight.                                 *)

(* A step of the same commit that leaves the history alone.                 *)
LEMMA SameCommit ==
    ASSUME InFlight, HistoryUnchanged, UNCHANGED <<sidecar, rcl>>,
           cmt'.id = cmt.id, cmt'.time = cmt.time, cmt'.versions = cmt.versions,
           pc \in Recorded, pc' \in Recorded
    PROVE  InFlight'
<1>1. Stored(Len(cmt.versions) + 1)'
  BY DEF InFlight, Stored, Descriptor, HistoryUnchanged
<1>2. (\A m \in ws.mark : m.id < cmt.id /\ m.time < cmt.time)'
  BY DEF InFlight, HistoryUnchanged, Recorded, CommitSteps
<1> QED
  BY <1>1, <1>2 DEF InFlight, Recorded, CommitSteps

(* Every step leaves the operation in flight where its step says it is.     *)
LEMMA InFlightStep == TypeOK /\ InFlight /\ [Next]_vars => InFlight'
<1> SUFFICES ASSUME TypeOK, InFlight, [Next]_vars PROVE InFlight'
  OBVIOUS
<1> USE ConstantAssumptions
<1>0. ws \in Store /\ inTx \in BOOLEAN
  BY DEF TypeOK
<1>1. CASE ReserveSequence
  <2>1. PICK b \in Batches, m \in dep.modes, now \in Clocks :
             /\ sidecar' = [id |-> NextId, time |-> NextTime(now)]
             /\ cmt' = [id |-> NextId, time |-> NextTime(now), versions |-> b, mode |-> m,
                        next |-> 1, publish |-> FALSE]
    BY <1>1 DEF ReserveSequence, ReplaceSidecar
  <2>2. NextId \in Nat /\ NextId > sidecar.id /\ NextTime(now) \in Nat /\ NextTime(now) > sidecar.time
    BY AllocatorAdvances
  <2>3. pc' = "sequence" /\ ws' = ws
    BY <1>1 DEF ReserveSequence, Goto
  <2>4. /\ \A d \in ws.desc \cup ws.mark : d.id \in Nat /\ d.id < NextId /\ d.time < NextTime(now)
        /\ \A r \in ws.rec : r.id \in Nat /\ r.id < NextId
    <3>1. sidecar.id \in Nat /\ sidecar.time \in Nat
      BY DEF TypeOK
    <3>2. /\ \A d \in ws.desc \cup ws.mark : d.id \in 1..sidecar.id /\ d.time \in 1..sidecar.time
          /\ \A r \in ws.rec : r.id \in 1..sidecar.id
      BY DEF TypeOK, ReservedFirst
    <3> QED
      BY <2>2, <3>1, <3>2
  <2>5. KeysAbsent(ws, cmt.id)'
    BY <2>1, <2>2, <2>3, <2>4 DEF KeysAbsent
  <2>6. 1 \in DOMAIN b
    <3>1. b \in Seq(Version) /\ b # <<>>
      OBVIOUS
    <3> QED
      BY <3>1
  <2>7. cmt'.id = sidecar'.id /\ cmt'.time = sidecar'.time /\ cmt'.id >= 1 /\ cmt'.time >= 1
        /\ cmt'.next \in DOMAIN cmt'.versions
    BY <2>1, <2>2, <2>6 DEF TypeOK
  <2> QED
    BY <2>1, <2>3, <2>4, <2>5, <2>7 DEF InFlight, CommitSteps, Recorded
<1>2. CASE PutSequence
  <2>1. HistoryUnchanged
    BY <1>2, IndexOnlySteps DEF IndexOnly
  <2>2. pc = "sequence" /\ pc' = "descriptor" /\ UNCHANGED <<sidecar, cmt>>
    BY <1>2 DEF PutSequence, Goto
  <2> QED
    BY <2>1, <2>2 DEF InFlight, HistoryUnchanged, KeysAbsent, CommitSteps, Recorded
<1>3. CASE PutDescriptor
  <2> DEFINE s == [ws EXCEPT !.desc = @ \cup {Descriptor}]
  <2>1. s.desc = ws.desc \cup {Descriptor} /\ s.rec = ws.rec /\ s.mark = ws.mark
    BY <1>0 DEF Store
  <2>2. pc = "descriptor" /\ pc' = "records" /\ UNCHANGED <<sidecar, cmt>> /\ ws' = s
    BY <1>3 DEF PutDescriptor, Goto, Write
  <2>3. KeysAbsent(ws, cmt.id) /\ cmt.next \in DOMAIN cmt.versions /\ cmt.next = 1
    BY <2>2 DEF InFlight
  <2> HIDE DEF s
  <2>4. Stored(cmt.next)'
    <3>1. Descriptor' = Descriptor /\ Descriptor.id = cmt.id
      BY <2>2 DEF Descriptor
    <3>2. \A i \in DOMAIN cmt.versions : ~(i < 1)
      BY DEF TypeOK
    <3> QED
      BY <2>1, <2>2, <2>3, <3>1, <3>2 DEF Stored, KeysAbsent
  <2> QED
    BY <2>1, <2>2, <2>3, <2>4 DEF InFlight, CommitSteps, Recorded
<1>4. CASE PutRecord
  <2> DEFINE r == [id |-> cmt.id, ord |-> cmt.next, ver |-> cmt.versions[cmt.next]]
             s == [ws EXCEPT !.rec = @ \cup {r}]
  <2>1. s.desc = ws.desc /\ s.rec = ws.rec \cup {r} /\ s.mark = ws.mark
    BY <1>0 DEF Store
  <2>2. /\ pc = "records" /\ UNCHANGED sidecar /\ ws' = s
        /\ pc' = IF MoreRecords THEN "records" ELSE cmt.mode
        /\ cmt' = [cmt EXCEPT !.next = @ + 1]
    BY <1>4 DEF PutRecord, Goto, Write
  <2>3. Stored(cmt.next) /\ cmt.next \in DOMAIN cmt.versions
    BY <2>2 DEF InFlight
  <2>4. cmt.versions \in Seq(Version) /\ cmt.mode \in {"maintain", "defer"}
    BY DEF TypeOK
  <2>5. /\ cmt'.id = cmt.id /\ cmt'.time = cmt.time /\ cmt'.versions = cmt.versions
        /\ cmt'.next = cmt.next + 1 /\ Descriptor' = Descriptor
    BY <2>2 DEF TypeOK, Descriptor
  <2>6. \A i \in DOMAIN cmt.versions : i < cmt.next + 1 => i < cmt.next \/ i = cmt.next
    BY <2>3, <2>4
  <2> HIDE DEF s
  <2>7. \A i \in DOMAIN cmt.versions :
           i < cmt.next + 1 => [id |-> cmt.id, ord |-> i, ver |-> cmt.versions[i]] \in ws'.rec
    BY <2>1, <2>2, <2>3, <2>6 DEF Stored
  <2>8. \A q \in ws'.rec : q.id = cmt.id =>
           q.ord \in DOMAIN cmt.versions /\ q.ver = cmt.versions[q.ord]
    BY <2>1, <2>2, <2>3 DEF Stored
  <2>9. Stored(cmt.next)'
    BY <2>1, <2>2, <2>3, <2>5, <2>7, <2>8 DEF Stored
  <2>10. (\A m \in ws.mark : m.id < cmt.id /\ m.time < cmt.time)'
         /\ cmt'.id = sidecar'.id /\ cmt'.time = sidecar'.time /\ cmt'.id >= 1 /\ cmt'.time >= 1
    BY <2>1, <2>2, <2>5 DEF InFlight, CommitSteps
  <2>11. CASE MoreRecords
    <3>1. cmt'.next \in DOMAIN cmt'.versions
      BY <2>3, <2>4, <2>5, <2>11 DEF MoreRecords
    <3> QED
      BY <2>2, <2>9, <2>10, <2>11, <3>1 DEF InFlight, CommitSteps, Recorded
  <2>12. CASE ~MoreRecords
    <3>1. cmt'.next = Len(cmt'.versions) + 1
      BY <2>3, <2>4, <2>5, <2>12 DEF MoreRecords
    <3>2. Stored(Len(cmt.versions) + 1)'
      BY <2>9, <3>1
    <3>3. pc' \in {"maintain", "defer"}
      BY <2>2, <2>4, <2>12
    <3> QED
      BY <2>10, <3>2, <3>3 DEF InFlight, CommitSteps, Recorded
  <2> QED
    BY <2>11, <2>12
<1>5. CASE DeferIndexes \/ MaintainIndexes \/ PutExactEntries \/ PutRangeEntries \/ PersistIndexState
  <2>1. HistoryUnchanged
    BY <1>5, IndexOnlySteps DEF IndexOnly
  <2>2. /\ pc \in Recorded /\ pc' \in Recorded /\ UNCHANGED <<sidecar, rcl>>
        /\ cmt'.id = cmt.id /\ cmt'.time = cmt.time /\ cmt'.versions = cmt.versions
    BY <1>5 DEF DeferIndexes, MaintainIndexes, PutExactEntries, PutRangeEntries, PersistIndexState,
               Goto, Recorded, TypeOK
  <2> QED
    BY <2>1, <2>2, SameCommit
<1>6. CASE StartReclaim
  <2>1. PICK t \in 0..sidecar.id : IncompleteCommits(ws, t) # {} /\ rcl' = IncompleteCommits(ws, t)
    BY <1>6 DEF StartReclaim
  <2>2. HistoryUnchanged /\ pc' = "unindex"
    BY <1>6, IndexOnlySteps DEF IndexOnly, StartReclaim, Goto
  <2>3. rcl' # {} /\ rcl' \cap VisibleIds(ws') = {}
    BY <2>1, <2>2 DEF IncompleteCommits, VisibleIds, HistoryUnchanged
  <2> QED
    BY <2>2, <2>3 DEF InFlight, CommitSteps, Recorded
<1>7. CASE UnindexOrphans
  <2>1. HistoryUnchanged /\ pc = "unindex" /\ pc' = "unrecord" /\ rcl' = rcl
    BY <1>7, IndexOnlySteps DEF IndexOnly, UnindexOrphans, Goto
  <2>2. VisibleIds(ws') = VisibleIds(ws)
    BY <2>1 DEF VisibleIds, HistoryUnchanged
  <2> QED
    BY <2>1, <2>2 DEF InFlight, CommitSteps, Recorded
<1>8. CASE DeleteOrphanRecord
  <2>1. pc = "unrecord" /\ pc' = "unrecord" /\ rcl' = rcl /\ ws'.mark = ws.mark
    BY <1>0, <1>8 DEF DeleteOrphanRecord, Goto, Write, Store
  <2>2. VisibleIds(ws') = VisibleIds(ws)
    BY <2>1 DEF VisibleIds
  <2> QED
    BY <2>1, <2>2 DEF InFlight, CommitSteps, Recorded
<1>9. CASE DeleteOrphanDescriptor
  <2>1. /\ pc = "unrecord" /\ rcl' = rcl \ {Min(rcl)} /\ ws'.mark = ws.mark
        /\ pc' = IF rcl = {Min(rcl)} THEN "rebuild" ELSE "unrecord"
    BY <1>0, <1>9 DEF DeleteOrphanDescriptor, Goto, Write, Store
  <2>2. VisibleIds(ws') = VisibleIds(ws)
    BY <2>1 DEF VisibleIds
  <2>3. pc' = "unrecord" => rcl' # {}
    BY <2>1 DEF InFlight
  <2> QED
    BY <2>1, <2>2, <2>3 DEF InFlight, CommitSteps, Recorded
<1>10. CASE \/ PutVisibleMarker \/ StartRebuild \/ RebuildStep \/ Crash \/ Fail
            \/ BeginTransaction \/ CommitTransaction \/ RollbackTransaction
  <2>1. pc' \in {"idle", "build", "clear", "prune"}
    BY <1>10 DEF PutVisibleMarker, StartRebuild, RebuildStep, BuildGeneration, ActivateGeneration,
         ClearStale, PruneGeneration, FinishRebuild, RebuildRaises, Crash, Fail, Abandon,
         BeginTransaction, CommitTransaction, RollbackTransaction, Goto
  <2> QED
    BY <2>1 DEF InFlight, CommitSteps, Recorded
<1>11. CASE UNCHANGED vars
  BY <1>11 DEF InFlight, vars, Stored, Descriptor, KeysAbsent, VisibleIds
<1> QED
  BY <1>1, <1>2, <1>3, <1>4, <1>5, <1>6, <1>7, <1>8, <1>9, <1>10, <1>11
     DEF Next, CommitStep, ReclaimStep

-----------------------------------------------------------------------------
(* The visible history is an append-only log.                               *)

(* Steps that change no marker keep the order of the log.                   *)
LEMMA LogUnchanged ==
    ASSUME LogInv, ws'.mark = ws.mark, db'.mark = db.mark
    PROVE  LogInv'
BY DEF LogInv, History!Precedes

(* Every step keeps the visible commits totally ordered, and the committed  *)
(* ones before those of the open transaction.                               *)
LEMMA LogStep == TypeOK /\ InFlight /\ LogInv /\ [Next]_vars => LogInv'
<1> SUFFICES ASSUME TypeOK, InFlight, LogInv, [Next]_vars PROVE LogInv'
  OBVIOUS
<1>0. ws \in Store /\ db \in Store /\ inTx \in BOOLEAN /\ (~inTx => ws = db)
  BY DEF TypeOK
<1>1. CASE IndexOnly
  BY <1>1, IndexOnlySteps, LogUnchanged DEF HistoryUnchanged
<1>2. CASE PutDescriptor \/ PutRecord \/ DeleteOrphanRecord \/ DeleteOrphanDescriptor
  <2>1. ws'.mark = ws.mark /\ db'.mark = db.mark
    BY <1>0, <1>2 DEF PutDescriptor, PutRecord, DeleteOrphanRecord, DeleteOrphanDescriptor, Write, Store
  <2> QED
    BY <2>1, LogUnchanged
<1>3. CASE PutVisibleMarker
  <2>1. ws'.mark = ws.mark \cup {Descriptor}
    BY <1>0, <1>3 DEF PutVisibleMarker, Write, Store
  <2>2. db'.mark = db.mark \/ db'.mark = ws'.mark
    BY <1>3 DEF PutVisibleMarker, Write
  <2>3. \A c \in ws.mark : History!Precedes(c, Descriptor)
    BY <1>3 DEF PutVisibleMarker, InFlight, CommitSteps, Descriptor, History!Precedes
  <2> QED
    BY <2>1, <2>2, <2>3 DEF LogInv, History!Precedes
<1>4. CASE CommitTransaction
  BY <1>4 DEF CommitTransaction, LogInv, History!Precedes
<1>5. CASE RollbackTransaction \/ Crash
  <2>1. ws'.mark = db.mark /\ db'.mark = db.mark
    BY <1>5 DEF RollbackTransaction, Crash, Abandon
  <2> QED
    BY <2>1 DEF LogInv, History!Precedes
<1> QED
  BY <1>1, <1>2, <1>3, <1>4, <1>5 DEF Next, CommitStep, ReclaimStep, IndexOnly

(* A step either leaves the committed markers alone or publishes commits    *)
(* that follow all of them.                                                 *)
LEMMA PublishStep == TypeOK /\ InFlight /\ LogInv /\ [Next]_vars => [History!Publish]_(db.mark)
<1> SUFFICES ASSUME TypeOK, InFlight, LogInv, [Next]_vars PROVE History!Publish \/ db'.mark = db.mark
  OBVIOUS
<1>0. ws \in Store /\ db \in Store /\ inTx \in BOOLEAN /\ (~inTx => ws = db)
  BY DEF TypeOK
<1>1. CASE IndexOnly
  BY <1>1, IndexOnlySteps DEF HistoryUnchanged
<1>2. CASE PutDescriptor \/ PutRecord \/ DeleteOrphanRecord \/ DeleteOrphanDescriptor
  BY <1>0, <1>2 DEF PutDescriptor, PutRecord, DeleteOrphanRecord, DeleteOrphanDescriptor, Write, Store
<1>3. CASE PutVisibleMarker
  <2>1. CASE inTx
    BY <1>3, <2>1 DEF PutVisibleMarker, Write
  <2>2. CASE ~inTx
    <3>1. db'.mark = db.mark \cup {Descriptor}
      BY <1>0, <1>3, <2>2 DEF PutVisibleMarker, Write, Store
    <3>2. \A c \in db.mark : History!Precedes(c, Descriptor)
      BY <1>0, <1>3, <2>2 DEF PutVisibleMarker, InFlight, CommitSteps, Descriptor, History!Precedes
    <3> QED
      BY <3>1, <3>2 DEF History!Publish
  <2> QED
    BY <1>0, <2>1, <2>2
<1>4. CASE CommitTransaction
  BY <1>4 DEF CommitTransaction, LogInv, History!Publish
<1>5. CASE RollbackTransaction \/ Crash
  BY <1>5 DEF RollbackTransaction, Crash, Abandon
<1> QED
  BY <1>1, <1>2, <1>3, <1>4, <1>5 DEF Next, CommitStep, ReclaimStep, IndexOnly

-----------------------------------------------------------------------------
(* The theorems about history.                                              *)

CoreInv == TypeOK /\ InFlight /\ AuthInv /\ AuthWs /\ LogInv

(* The inductive invariant holds in every reachable state.                  *)
LEMMA CoreInvariant == Spec => []CoreInv
<1>1. Init => CoreInv
  <2> SUFFICES ASSUME Init PROVE CoreInv
    OBVIOUS
  <2> USE ConstantAssumptions
  <2>1. EmptyStore \in Store
    BY DEF EmptyStore, NoState, Store
  <2>2. ReservedFirst(EmptyStore, [id |-> 0, time |-> 0])
    BY DEF EmptyStore, NoState, ReservedFirst
  <2>3. TypeOK
    <3>1. /\ NoCommit \in [id : Nat, time : Nat, versions : Seq(Version),
                           mode : {"maintain", "defer"}, next : Nat, publish : BOOLEAN]
          /\ NoCommit.id = 0 /\ NoCommit.time = 0
      BY DEF NoCommit
    <3>2. /\ NoRebuild \in [prior : Nat, gen : Nat, horizon : Nat, latest : Nat, todo : SUBSET Nat]
          /\ NoRebuild.horizon = 0 /\ NoRebuild.todo = {}
      BY DEF NoRebuild
    <3>3. sidecar \in [id : Nat, time : Nat] /\ sidecar.id = 0 /\ sidecar.time = 0
      BY DEF Init
    <3>4. /\ db \in Store /\ ReservedFirst(db, sidecar)
          /\ ws \in Store /\ ReservedFirst(ws, sidecar) /\ ws = db
      BY <2>1, <2>2 DEF Init
    <3>5. /\ dep \in Deployments /\ inTx \in BOOLEAN /\ pc \in Steps
          /\ cmt = NoCommit /\ reb = NoRebuild /\ rcl = {}
      BY DEF Init, Steps
    <3>6. faults \in 0..MaxFaults
      <4>1. MaxFaults \in Nat /\ faults = 0
        BY DEF Init
      <4> QED
        BY <4>1
    <3> QED
      BY <3>1, <3>2, <3>3, <3>4, <3>5, <3>6 DEF TypeOK
  <2>4. InFlight
    BY DEF Init, InFlight, CommitSteps, Recorded
  <2>5. db.mark = {} /\ ws.mark = {}
    BY DEF Init, EmptyStore
  <2> QED
    BY <2>3, <2>4, <2>5 DEF CoreInv, AuthInv, AuthWs, LogInv
<1>2. CoreInv /\ [Next]_vars => CoreInv'
  BY TypeStep, InFlightStep, AuthStep, LogStep DEF CoreInv
<1> QED
  BY <1>1, <1>2, PTL DEF Spec

(* The type invariant: no store ever mentions a commit id that was not      *)
(* durably reserved, whatever is interrupted or rolled back.                *)
THEOREM TypeCorrect == Spec => []TypeOK
<1>1. CoreInv => TypeOK
  BY DEF CoreInv
<1> QED
  BY <1>1, CoreInvariant, PTL

(* A reserved commit id is new, so commit_direct never finds a key it would *)
(* overwrite.                                                               *)
THEOREM Freshness == Spec => []ReservedIdFresh
<1>1. CoreInv => ReservedIdFresh
  BY DEF CoreInv, InFlight, ReservedIdFresh
<1> QED
  BY <1>1, CoreInvariant, PTL

(* Every visible commit passes get_commit's authentication: a crash, a      *)
(* rollback or a reclamation never leaves a marker without its descriptor   *)
(* and records.                                                             *)
THEOREM Authenticity == Spec => []VisibleAuthentic
<1>1. CoreInv => VisibleAuthentic
  BY DEF CoreInv, AuthInv, VisibleAuthentic
<1> QED
  BY <1>1, CoreInvariant, PTL

(* The write path implements the abstract append-only log.                  *)
THEOREM AppendOnly == Spec => ImplementsLog
<1>1. Init => History!Init
  BY DEF Init, EmptyStore, History!Init
<1>2. CoreInv /\ [Next]_vars => [History!Publish]_(db.mark)
  BY PublishStep DEF CoreInv
<1> QED
  BY <1>1, <1>2, CoreInvariant, PTL DEF Spec, ImplementsLog, History!Spec

-----------------------------------------------------------------------------
(* Indexed reads fail closed.                                               *)

(* A store keeps its invariant when it only gains entries or becomes stale. *)
LEMMA IndexGrows ==
    ASSUME NEW s, NEW t, t.mark = s.mark, t.state = s.state, s.idx \subseteq t.idx,
           s.stale => t.stale, IndexInv(s)
    PROVE  IndexInv(t)
BY DEF IndexInv, Published, Indexed

(* A write keeps the invariant of both copies.                              *)
LEMMA WriteIndexed ==
    ASSUME IndexInv(db), NEW s, IndexInv(s), Write(s), inTx \in BOOLEAN
    PROVE  IndexInv(db)' /\ IndexInv(ws)'
<1>1. ws' = s
  BY DEF Write
<1>2. db' = db \/ db' = s
  BY DEF Write
<1> QED
  BY <1>1, <1>2 DEF IndexInv, Published, Indexed

(* Steps of one operation that gain entries or mark the family stale.       *)
Grows(s) == /\ s.mark = ws.mark /\ s.state = ws.state /\ ws.idx \subseteq s.idx
            /\ ws.stale => s.stale

(* A growing write keeps the invariant of both copies.                      *)
LEMMA GrowthIndexed ==
    ASSUME IndexInv(db), IndexInv(ws), NEW s, Grows(s), Write(s), inTx \in BOOLEAN
    PROVE  IndexInv(db)' /\ IndexInv(ws)'
<1>1. IndexInv(s)
  BY IndexGrows DEF Grows
<1> QED
  BY <1>1, WriteIndexed

(* A database's deployment never changes.                                   *)
LEMMA DepFixed == [Next]_vars => dep' = dep
<1> SUFFICES ASSUME [Next]_vars PROVE dep' = dep
  OBVIOUS
<1>1. CASE ReserveSequence \/ StartRebuild \/ StartReclaim
  BY <1>1 DEF ReserveSequence, StartRebuild, StartReclaim, Goto
<1>2. CASE CommitStep
  BY <1>2 DEF CommitStep, PutSequence, PutDescriptor, PutRecord, DeferIndexes, MaintainIndexes,
              PutExactEntries, PutRangeEntries, PersistIndexState, PutVisibleMarker, Goto
<1>3. CASE RebuildStep
  BY <1>3 DEF RebuildStep, BuildGeneration, ActivateGeneration, ClearStale, PruneGeneration,
              FinishRebuild, RebuildRaises, Goto
<1>4. CASE ReclaimStep
  BY <1>4 DEF ReclaimStep, UnindexOrphans, DeleteOrphanRecord, DeleteOrphanDescriptor, Goto
<1>5. CASE \/ BeginTransaction \/ CommitTransaction \/ RollbackTransaction \/ Crash \/ Fail
           \/ UNCHANGED vars
  BY <1>5 DEF BeginTransaction, CommitTransaction, RollbackTransaction, Crash, Fail, Abandon, vars
<1> QED
  BY <1>1, <1>2, <1>3, <1>4, <1>5 DEF Next

(* Every step keeps the published generation complete, or the family stale. *)
LEMMA IndexStep == CoreInv /\ IdxInv /\ [Next]_vars => IdxInv'
<1> SUFFICES ASSUME CoreInv, IdxInv, [Next]_vars PROVE IdxInv'
  OBVIOUS
<1>a. dep' = dep
  BY DepFixed
<1> SUFFICES ASSUME ~dep.partial
             PROVE  IndexInv(db)' /\ IndexInv(ws)' /\ IndexInFlight'
  BY <1>a DEF IdxInv
<1>b. TypeOK /\ InFlight /\ LogInv /\ IndexInv(db) /\ IndexInv(ws) /\ IndexInFlight
  BY DEF CoreInv, IdxInv
<1> USE <1>b
<1>0. /\ ws \in Store /\ db \in Store /\ inTx \in BOOLEAN /\ (~inTx => ws = db)
      /\ ws.stale \in BOOLEAN /\ ws.state.gen \in Nat
  BY DEF TypeOK, Store
<1>1. CASE ReserveSequence
  <2>1. ws' = ws /\ db' = db /\ pc' = "sequence"
    BY <1>1 DEF ReserveSequence, Goto
  <2> QED
    BY <2>1 DEF IndexInv, Published, Indexed, IndexInFlight
<1>2. CASE PutSequence
  <2> DEFINE s == [ws EXCEPT !.seq = cmt.id]
  <2>1. Grows(s)
    BY <1>0 DEF Grows, Store
  <2>2. Write(s) /\ pc' = "descriptor"
    BY <1>2 DEF PutSequence, Goto
  <2> QED
    BY <1>0, <2>1, <2>2, GrowthIndexed DEF IndexInFlight
<1>3. CASE PutDescriptor
  <2> DEFINE s == [ws EXCEPT !.desc = @ \cup {Descriptor}]
  <2>1. Grows(s)
    BY <1>0 DEF Grows, Store
  <2>2. Write(s) /\ pc' = "records"
    BY <1>3 DEF PutDescriptor, Goto
  <2> QED
    BY <1>0, <2>1, <2>2, GrowthIndexed DEF IndexInFlight
<1>4. CASE PutRecord
  <2> DEFINE s == [ws EXCEPT !.rec = @ \cup {[id |-> cmt.id, ord |-> cmt.next,
                                              ver |-> cmt.versions[cmt.next]]}]
  <2>1. Grows(s)
    BY <1>0 DEF Grows, Store
  <2>2. Write(s) /\ pc' \in {"records", "maintain", "defer"}
    BY <1>4 DEF PutRecord, Goto, TypeOK
  <2> QED
    BY <1>0, <2>1, <2>2, GrowthIndexed DEF IndexInFlight
<1>5. CASE DeferIndexes
  <2> DEFINE s == [ws EXCEPT !.stale = TRUE]
  <2>1. Grows(s) /\ s.stale
    BY <1>0 DEF Grows, Store
  <2>2. Write(s) /\ pc' = "visible" /\ ws' = s
    BY <1>5 DEF DeferIndexes, Goto, Write
  <2> QED
    BY <1>0, <2>1, <2>2, GrowthIndexed DEF IndexInFlight
<1>6. CASE MaintainIndexes
  <2> DEFINE prior == ws.state.gen = 0 /\ \E i \in VisibleIds(ws) : i < cmt.id
             s == [ws EXCEPT !.stale = @ \/ prior]
  <2>1. Grows(s) /\ (prior => s.stale)
    BY <1>0 DEF Grows, Store
  <2>2. Write(s) /\ pc' = "exact" /\ ws' = s /\ cmt' = [cmt EXCEPT !.publish = ~prior]
    BY <1>6 DEF MaintainIndexes, Goto, Write
  <2>3. cmt'.publish = ~prior
    BY <2>2 DEF TypeOK
  <2> QED
    BY <1>0, <2>1, <2>2, <2>3, GrowthIndexed DEF IndexInFlight
<1>7. CASE PutExactEntries
  <2> DEFINE s == [ws EXCEPT !.idx = @ \cup Entries(Descriptor, ActiveGen(ws), "exact")]
  <2>1. Grows(s) /\ Entries(Descriptor, ActiveGen(ws), "exact") \subseteq s.idx /\ s.stale = ws.stale
    BY <1>0 DEF Grows, Store
  <2>2. Write(s) /\ pc = "exact" /\ pc' = "range" /\ ws' = s /\ cmt' = cmt
    BY <1>7 DEF PutExactEntries, Goto, Write
  <2> HIDE DEF s
  <2>3. ActiveGen(ws') = ActiveGen(ws) /\ Descriptor' = Descriptor
    BY <2>1, <2>2 DEF Grows, ActiveGen, Descriptor
  <2>4. IndexInFlight'
    BY <2>1, <2>2, <2>3 DEF IndexInFlight
  <2> QED
    BY <1>0, <2>1, <2>2, <2>4, GrowthIndexed
<1>8. CASE PutRangeEntries
  <2> DEFINE s == [ws EXCEPT !.idx = @ \cup Entries(Descriptor, ActiveGen(ws), "range")]
  <2>1. Grows(s) /\ Entries(Descriptor, ActiveGen(ws), "range") \subseteq s.idx /\ s.stale = ws.stale
    BY <1>0 DEF Grows, Store
  <2>2. /\ Write(s) /\ pc = "range" /\ ws' = s /\ cmt' = cmt
        /\ pc' = IF cmt.publish THEN "state" ELSE "visible"
    BY <1>8 DEF PutRangeEntries, Goto, Write
  <2> HIDE DEF s
  <2>3. ActiveGen(ws') = ActiveGen(ws) /\ Descriptor' = Descriptor
    BY <2>1, <2>2 DEF Grows, ActiveGen, Descriptor
  <2>4. Entries(Descriptor, ActiveGen(ws), "exact") \subseteq s.idx
    BY <2>1, <2>2 DEF Grows, IndexInFlight
  <2>5. IndexInFlight'
    BY <2>1, <2>2, <2>3, <2>4 DEF IndexInFlight
  <2> QED
    BY <1>0, <2>1, <2>2, <2>5, GrowthIndexed
<1>9. CASE PersistIndexState
  <2> DEFINE st == [through |-> cmt.id, gen |-> ActiveGen(ws),
                    sum |-> Markers(ws, cmt.id) \cup {Descriptor}]
             s == [ws EXCEPT !.state = st]
  <2>1. s.mark = ws.mark /\ s.idx = ws.idx /\ s.stale = ws.stale /\ s.state = st
    BY <1>0 DEF Store
  <2>2. Write(s) /\ pc = "state" /\ pc' = "visible" /\ ws' = s /\ cmt' = cmt
    BY <1>9 DEF PersistIndexState, Goto, Write
  <2>3. st.through = cmt.id /\ st.gen = ActiveGen(ws) /\ ActiveGen(ws) # 0
    BY <1>0 DEF ActiveGen
  <2> HIDE DEF st, s
  <2>4. \A m \in ws.mark : m.id <= cmt.id
    <3>1. pc \in CommitSteps
      BY <2>2 DEF CommitSteps
    <3>2. \A m \in ws.mark : m.id < cmt.id
      BY <3>1 DEF InFlight
    <3>3. ws.mark \in SUBSET Commit /\ cmt.id \in Nat
      BY <1>0, <3>1 DEF TypeOK, Store, Commit, InFlight
    <3>4. \A m \in ws.mark : m.id \in Nat
      BY <3>3 DEF Commit
    <3> QED
      BY <3>2, <3>3, <3>4
  <2>5. IndexInv(s)
    <3>1. CASE ws.stale
      BY <2>1, <3>1 DEF IndexInv
    <3>2. CASE ~ws.stale
      <4>1. Published(ws)
        BY <3>2 DEF IndexInv
      <4>2. \A m \in ws.mark : ActiveGen(ws) = ws.state.gen
        BY <4>1 DEF Published, ActiveGen
      <4> QED
        BY <2>1, <2>3, <2>4, <4>1, <4>2 DEF IndexInv, Published, Indexed
    <3> QED
      BY <3>1, <3>2
  <2>6. Descriptor' = Descriptor /\ cmt.id <= cmt.id
    BY <2>2 DEF Descriptor, TypeOK
  <2>7. \A f \in Families : Entries(Descriptor, ActiveGen(ws), f) \subseteq ws.idx
    BY <2>2 DEF IndexInFlight, Families
  <2>8. IndexInFlight'
    BY <2>1, <2>2, <2>3, <2>6, <2>7 DEF IndexInFlight
  <2> QED
    BY <1>0, <2>2, <2>5, <2>8, WriteIndexed
<1>10. CASE PutVisibleMarker
  <2> DEFINE s == [ws EXCEPT !.mark = @ \cup {Descriptor}]
  <2>1. s.mark = ws.mark \cup {Descriptor} /\ s.idx = ws.idx /\ s.stale = ws.stale /\ s.state = ws.state
    BY <1>0 DEF Store
  <2>2. Write(s) /\ pc = "visible" /\ pc' = "idle"
    BY <1>10 DEF PutVisibleMarker, Goto
  <2>3. Descriptor.id = cmt.id
    BY DEF Descriptor
  <2> HIDE DEF s
  <2>4. IndexInv(s)
    BY <2>1, <2>2, <2>3 DEF IndexInv, Published, Indexed, IndexInFlight
  <2> QED
    BY <1>0, <2>2, <2>4, WriteIndexed DEF IndexInFlight
<1>11. CASE StartRebuild
  <2> DEFINE s == [ws EXCEPT !.stale = @ \/ ws.state.gen = 0]
  <2>1. Grows(s) /\ s.state = ws.state /\ s.mark = ws.mark
    BY <1>0 DEF Grows, Store
  <2>2. Write(s) /\ pc' = "build" /\ ws' = s
    BY <1>11 DEF StartRebuild, Goto, Write
  <2>3. reb' = [prior |-> ws.state.gen, gen |-> ws.state.gen + 1, horizon |-> Latest(ws),
                latest |-> Latest(ws), todo |-> CommitsToCopy(ws, Latest(ws))]
    BY <1>11 DEF StartRebuild
  <2>4. \A m \in ws.mark : m.id <= Latest(ws) /\ m.id \in CommitsToCopy(ws, Latest(ws))
    <3>1. \A m \in ws.mark : m.id <= Latest(ws)
      BY LatestIsLast DEF TypeOK
    <3> QED
      BY <3>1 DEF CommitsToCopy, VisibleIds
  <2> HIDE DEF s
  <2>5. IndexInFlight'
    BY <2>1, <2>2, <2>3, <2>4 DEF IndexInFlight
  <2> QED
    BY <1>0, <2>1, <2>2, <2>5, GrowthIndexed
<1>12. CASE BuildGeneration
  <2> PICK m \in ws.mark :
           /\ Write([ws EXCEPT !.idx = @ \cup UNION {Entries(m, reb.gen, f) : f \in Families}])
           /\ reb' = [reb EXCEPT !.todo = @ \ {m.id}]
    BY <1>12 DEF BuildGeneration
  <2> DEFINE s == [ws EXCEPT !.idx = @ \cup UNION {Entries(m, reb.gen, f) : f \in Families}]
  <2>1. Grows(s) /\ \A f \in Families : Entries(m, reb.gen, f) \subseteq s.idx
    BY <1>0 DEF Grows, Store
  <2>2. Write(s) /\ pc = "build" /\ pc' = "build" /\ ws' = s
    BY <1>12 DEF BuildGeneration, Goto, Write
  <2>3. reb'.gen = reb.gen /\ reb'.prior = reb.prior /\ reb'.horizon = reb.horizon /\ reb'.todo = reb.todo \ {m.id}
    BY DEF TypeOK
  <2>4. \A n \in ws.mark : n.id = m.id => n = m
    <3>1. \A n \in ws.mark : n.id \in Nat
      BY <1>0 DEF Store, Commit
    <3>2. \A n \in ws.mark : n = m \/ n.id < m.id \/ m.id < n.id
      BY DEF LogInv, History!Precedes
    <3> QED
      BY <3>1, <3>2
  <2> HIDE DEF s
  <2>5. IndexInFlight'
    BY <2>1, <2>2, <2>3, <2>4 DEF IndexInFlight, Grows
  <2> QED
    BY <1>0, <2>1, <2>2, <2>5, GrowthIndexed
<1>13. CASE ActivateGeneration
  <2> DEFINE st == [through |-> reb.horizon, gen |-> reb.gen, sum |-> Markers(ws, reb.horizon)]
             s == [ws EXCEPT !.state = st]
  <2>1. s.mark = ws.mark /\ s.idx = ws.idx /\ s.state = st
    BY <1>0 DEF Store
  <2>2. Write(s) /\ pc = "build" /\ reb.todo = {} /\ pc' = "clear" /\ ws' = s /\ reb' = reb
    BY <1>13 DEF ActivateGeneration, Goto, Write
  <2>3. st.through = reb.horizon /\ st.gen = reb.gen /\ reb.gen = ws.state.gen + 1
    BY <2>2 DEF IndexInFlight
  <2> HIDE DEF st, s
  <2>4. Published(s)
    BY <1>0, <2>1, <2>2, <2>3 DEF Published, Indexed, IndexInFlight
  <2>5. reb.prior # s.state.gen
    BY <1>0, <2>1, <2>2, <2>3 DEF IndexInFlight
  <2> QED
    BY <1>0, <2>2, <2>4, <2>5, WriteIndexed DEF IndexInFlight, IndexInv, Published, Indexed
<1>14. CASE ClearStale
  <2> DEFINE s == [ws EXCEPT !.stale = @ /\ ~CoversLatest]
  <2>1. s.mark = ws.mark /\ s.idx = ws.idx /\ s.state = ws.state
    BY <1>0 DEF Store
  <2>2. Write(s) /\ pc = "clear" /\ pc' = "prune" /\ ws' = s /\ reb' = [reb EXCEPT !.todo = VisibleIds(ws)]
    BY <1>14 DEF ClearStale, Goto, Write
  <2> HIDE DEF s
  <2>3. IndexInv(s)
    BY <2>1, <2>2 DEF IndexInFlight, IndexInv, Published, Indexed
  <2>4. reb'.prior # ws'.state.gen
    BY <2>1, <2>2 DEF IndexInFlight, TypeOK
  <2> QED
    BY <1>0, <2>2, <2>3, <2>4, WriteIndexed DEF IndexInFlight
<1>15. CASE PruneGeneration
  <2> PICK m \in ws.mark :
           /\ Write([ws EXCEPT !.idx = {e \in @ : ~Superseded(e, m.id)}])
           /\ reb' = [reb EXCEPT !.todo = @ \ {m.id}]
    BY <1>15 DEF PruneGeneration
  <2> DEFINE s == [ws EXCEPT !.idx = {e \in @ : ~Superseded(e, m.id)}]
  <2>1. s.mark = ws.mark /\ s.state = ws.state /\ s.stale = ws.stale
        /\ s.idx = {e \in ws.idx : ~Superseded(e, m.id)}
    BY <1>0 DEF Store
  <2>2. Write(s) /\ pc = "prune" /\ pc' = "prune" /\ ws' = s
    BY <1>15 DEF PruneGeneration, Goto, Write
  <2> HIDE DEF s
  <2>3. reb.prior # ws.state.gen
    BY <2>2 DEF IndexInFlight
  <2>4. \A n \in ws.mark, f \in Families :
           Entries(n, ws.state.gen, f) \subseteq ws.idx => Entries(n, ws.state.gen, f) \subseteq s.idx
    <3>1. \A n \in ws.mark, f \in Families : \A e \in Entries(n, ws.state.gen, f) : e.gen = ws.state.gen
      BY DEF Entries
    <3> QED
      BY <2>1, <2>3, <3>1 DEF Superseded
  <2>5. IndexInv(s)
    BY <2>1, <2>4 DEF IndexInv, Published, Indexed
  <2>6. reb'.prior # ws'.state.gen
    BY <2>1, <2>2, <2>3 DEF TypeOK
  <2> QED
    BY <1>0, <2>2, <2>5, <2>6, WriteIndexed DEF IndexInFlight
<1>16. CASE FinishRebuild \/ RebuildRaises \/ BeginTransaction \/ Fail
  <2>1. ws' = ws /\ db' = db /\ pc' = "idle"
    BY <1>16 DEF FinishRebuild, RebuildRaises, BeginTransaction, Fail, Abandon, Goto
  <2> QED
    BY <2>1 DEF IndexInv, Published, Indexed, IndexInFlight
<1>17. CASE StartReclaim
  <2> DEFINE s == [ws EXCEPT !.stale = TRUE]
  <2>1. Grows(s) /\ s.stale
    BY <1>0 DEF Grows, Store
  <2>2. Write(s) /\ pc' = "unindex" /\ ws' = s
    BY <1>17 DEF StartReclaim, Goto, Write
  <2> QED
    BY <1>0, <2>1, <2>2, GrowthIndexed DEF IndexInFlight
<1>18. CASE UnindexOrphans \/ DeleteOrphanRecord \/ DeleteOrphanDescriptor
  <2>1. PICK s : Write(s) /\ s.stale = ws.stale
    <3>1. CASE UnindexOrphans
      BY <1>0, <3>1 DEF UnindexOrphans, Store
    <3>2. CASE DeleteOrphanRecord
      <4>1. PICK r \in ws.rec : Write([ws EXCEPT !.rec = @ \ {r}])
        BY <3>2 DEF DeleteOrphanRecord
      <4> QED
        BY <1>0, <4>1 DEF Store
    <3>3. CASE DeleteOrphanDescriptor
      BY <1>0, <3>3 DEF DeleteOrphanDescriptor, Store
    <3> QED
      BY <1>18, <3>1, <3>2, <3>3
  <2>2. pc \in {"unindex", "unrecord"} /\ pc' \in {"unrecord", "rebuild"}
    BY <1>18 DEF UnindexOrphans, DeleteOrphanRecord, DeleteOrphanDescriptor, Goto
  <2>3. s.stale /\ ws' = s
    BY <2>1, <2>2 DEF IndexInFlight, Write
  <2>4. IndexInv(s)
    BY <2>3 DEF IndexInv
  <2> QED
    BY <1>0, <2>1, <2>2, <2>3, <2>4, WriteIndexed DEF IndexInFlight
<1>19. CASE CommitTransaction \/ RollbackTransaction \/ Crash
  <2>1. /\ (ws' = ws /\ db' = ws) \/ (ws' = db /\ db' = db)
        /\ pc' = "idle"
    BY <1>19 DEF CommitTransaction, RollbackTransaction, Crash, Abandon
  <2> QED
    BY <2>1 DEF IndexInv, Published, Indexed, IndexInFlight
<1>20. CASE UNCHANGED vars
  BY <1>20 DEF vars, IndexInv, Published, Indexed, IndexInFlight, Descriptor, ActiveGen
<1> QED
  BY <1>1, <1>2, <1>3, <1>4, <1>5, <1>6, <1>7, <1>8, <1>9, <1>10, <1>11, <1>12, <1>13, <1>14,
     <1>15, <1>16, <1>17, <1>18, <1>19, <1>20 DEF Next, CommitStep, RebuildStep, ReclaimStep

(* In a database whose rebuilds are never bounded by through_commit, an     *)
(* indexed read that ensure_temporal_indexes lets through finds every entry *)
(* of every visible commit it asks about, in every index mode and after any *)
(* sequence of crashes.                                                     *)
THEOREM FailClosed == Spec => []IndexFailClosedUnlessPartial
<1>1. Init => IdxInv
  BY DEF Init, EmptyStore, IdxInv, IndexInv, Published, Indexed, IndexInFlight
<1>2. CoreInv /\ IdxInv => IndexFailClosedUnlessPartial
  <2> SUFFICES ASSUME TypeOK, IndexInv(db), NEW h \in 0..Latest(db), EnsureIndexes(db, h)
               PROVE  Covers(db, h)
    BY DEF CoreInv, IdxInv, IndexFailClosedUnlessPartial
  <2>1. Published(db)
    BY DEF IndexInv, EnsureIndexes
  <2> QED
    BY <2>1 DEF Published, Indexed, Covers, Markers, ActiveGen
<1> QED
  BY <1>1, <1>2, CoreInvariant, IndexStep, PTL DEF Spec

-----------------------------------------------------------------------------
(* Rebuilds.                                                                *)

Rebuilding == {"build", "clear", "prune"}

(* A rebuild exists only between its first and its last step.               *)
RebuildEnds == pc \notin Rebuilding => reb = NoRebuild

(* No other step leaves a rebuild behind.                                   *)
LEMMA RebuildEndsStep == RebuildEnds /\ [Next]_vars => RebuildEnds'
<1> SUFFICES ASSUME RebuildEnds, [Next]_vars PROVE RebuildEnds'
  OBVIOUS
<1> USE DEF RebuildEnds, Rebuilding
<1>1. CASE ReserveSequence \/ StartRebuild \/ StartReclaim
  BY <1>1 DEF ReserveSequence, StartRebuild, StartReclaim, Goto
<1>2. CASE CommitStep
  BY <1>2 DEF CommitStep, PutSequence, PutDescriptor, PutRecord, DeferIndexes, MaintainIndexes,
              PutExactEntries, PutRangeEntries, PersistIndexState, PutVisibleMarker, Goto
<1>3. CASE RebuildStep
  BY <1>3 DEF RebuildStep, BuildGeneration, ActivateGeneration, ClearStale, PruneGeneration,
              FinishRebuild, RebuildRaises, Goto
<1>4. CASE ReclaimStep
  BY <1>4 DEF ReclaimStep, UnindexOrphans, DeleteOrphanRecord, DeleteOrphanDescriptor, Goto
<1>5. CASE \/ BeginTransaction \/ CommitTransaction \/ RollbackTransaction \/ Crash \/ Fail
           \/ UNCHANGED vars
  BY <1>5 DEF BeginTransaction, CommitTransaction, RollbackTransaction, Crash, Fail, Abandon, vars
<1> QED
  BY <1>1, <1>2, <1>3, <1>4, <1>5 DEF Next

(* A whole-history read is served, and completely.                          *)
Served(s) == Readable(s) /\ Covers(s, Latest(s))

(* A store that keeps its markers and its published state, and every entry  *)
(* of the active generation, goes on serving reads.                         *)
LEMMA ServedOn ==
    ASSUME NEW s, NEW t, t.mark = s.mark, t.state = s.state, ~t.stale, Served(s),
           \A e \in s.idx : e.gen = ActiveGen(s) => e \in t.idx
    PROVE  Served(t)
<1>1. ActiveGen(t) = ActiveGen(s) /\ Latest(t) = Latest(s) /\ \A h : Markers(t, h) = Markers(s, h)
  BY DEF ActiveGen, Latest, VisibleIds, Markers
<1>2. Readable(t)
  BY <1>1 DEF Served, Readable, EnsureIndexes
<1>3. \A m, f : \A e \in Entries(m, ActiveGen(s), f) : e.gen = ActiveGen(s)
  BY DEF Entries
<1> QED
  BY <1>1, <1>2, <1>3 DEF Served, Covers

(* The newest visible commit is one of them.                                *)
LEMMA LatestExists ==
    ASSUME NEW s \in Store, NEW reserved \in [id : Nat, time : Nat], ReservedFirst(s, reserved)
    PROVE  Latest(s) \in VisibleIds(s) \cup {0}
<1>1. VisibleIds(s) \cup {0} \in SUBSET (0..reserved.id)
  BY DEF VisibleIds, ReservedFirst
<1>2. reserved.id \in Nat
  OBVIOUS
<1> QED
  BY <1>1, <1>2, MaxExists DEF Latest

(* No step of a rebuild takes served reads away.                            *)
LEMMA RebuildServes ==
    ASSUME CoreInv, IdxInv, RebuildEnds, Next, reb # NoRebuild, ~dep.partial, Served(db)
    PROVE  Served(db)'
<1>1. pc \in Rebuilding
  BY DEF RebuildEnds
<1>2. /\ TypeOK /\ IndexInFlight /\ ws \in Store /\ db \in Store /\ inTx \in BOOLEAN /\ (~inTx => ws = db)
      /\ ws.state.gen \in Nat /\ ReservedFirst(ws, sidecar) /\ sidecar \in [id : Nat, time : Nat]
  BY DEF CoreInv, IdxInv, TypeOK, Store
<1>3. SUFFICES ASSUME db' # db PROVE Served(db)'
  BY DEF Served, Readable, Covers, EnsureIndexes, Latest, VisibleIds, Markers, ActiveGen
<1>4. ~db.stale
  BY DEF Served, Readable, EnsureIndexes
<1>5. BuildGeneration \/ ActivateGeneration \/ ClearStale \/ PruneGeneration
  BY <1>1, <1>3 DEF Rebuilding, Next, ReserveSequence, CommitStep, PutSequence, PutDescriptor, PutRecord, DeferIndexes,
     MaintainIndexes, PutExactEntries, PutRangeEntries, PersistIndexState, PutVisibleMarker, StartRebuild,
     RebuildStep, FinishRebuild, RebuildRaises, StartReclaim, ReclaimStep, UnindexOrphans, DeleteOrphanRecord,
     DeleteOrphanDescriptor, BeginTransaction, CommitTransaction, RollbackTransaction, Crash, Fail, Abandon
<1>6. ws = db /\ db' = ws'
  BY <1>2, <1>3, <1>5 DEF BuildGeneration, ActivateGeneration, ClearStale, PruneGeneration, Write
<1>7. CASE BuildGeneration
  <2>1. PICK m \in ws.mark : ws' = [ws EXCEPT !.idx = @ \cup UNION {Entries(m, reb.gen, f) : f \in Families}]
    BY <1>7 DEF BuildGeneration, Write
  <2>2. ws'.mark = ws.mark /\ ws'.state = ws.state /\ ws'.stale = ws.stale /\ ws.idx \subseteq ws'.idx
    BY <1>2, <2>1 DEF Store
  <2> QED
    BY <1>4, <1>6, <2>2, ServedOn
<1>8. CASE ActivateGeneration
  <2>1. /\ pc = "build" /\ reb.todo = {}
        /\ ws' = [ws EXCEPT !.state = [through |-> reb.horizon, gen |-> reb.gen, sum |-> Markers(ws, reb.horizon)]]
    BY <1>8 DEF ActivateGeneration, Write
  <2>2. /\ ws'.mark = ws.mark /\ ws'.idx = ws.idx /\ ws'.stale = ws.stale
        /\ ws'.state.through = reb.horizon /\ ws'.state.gen = reb.gen /\ ws'.state.sum = Markers(ws, reb.horizon)
    BY <1>2, <2>1 DEF Store
  <2>3. /\ reb.gen = ws.state.gen + 1 /\ reb.gen # 0
        /\ \A m \in ws.mark : m.id <= reb.horizon /\ \A f \in Families : Entries(m, reb.gen, f) \subseteq ws.idx
    BY <1>2, <2>1 DEF IndexInFlight
  <2>4. Latest(ws) \in VisibleIds(ws) \cup {0}
    BY <1>2, LatestExists
  <2>5. reb.horizon \in Nat /\ reb.horizon >= Latest(ws)
    BY <1>2, <2>3, <2>4 DEF VisibleIds, TypeOK
  <2>6. ~ws'.stale /\ ws'.state.gen # 0 /\ ws'.state.through >= Latest(ws) /\ Latest(ws') = Latest(ws)
        /\ ws'.state.sum = Markers(ws', ws'.state.through) /\ ActiveGen(ws') = reb.gen
    BY <1>4, <1>6, <2>2, <2>3, <2>5 DEF Latest, VisibleIds, Markers, ActiveGen
  <2>7. Readable(ws')
    BY <2>6 DEF Readable, EnsureIndexes
  <2>8. Covers(ws', Latest(ws'))
    BY <2>2, <2>3, <2>6 DEF Covers, Markers
  <2> QED
    BY <1>6, <2>7, <2>8 DEF Served
<1>9. CASE ClearStale
  <2>1. ws' = [ws EXCEPT !.stale = @ /\ ~CoversLatest]
    BY <1>9 DEF ClearStale, Write
  <2>2. ws'.mark = ws.mark /\ ws'.state = ws.state /\ ws'.idx = ws.idx /\ ~ws'.stale
    BY <1>2, <1>4, <1>6, <2>1 DEF Store
  <2> QED
    BY <1>6, <2>2, ServedOn
<1>10. CASE PruneGeneration
  <2>1. PICK m \in ws.mark : ws' = [ws EXCEPT !.idx = {e \in @ : ~Superseded(e, m.id)}]
    BY <1>10 DEF PruneGeneration, Write
  <2>2. /\ ws'.mark = ws.mark /\ ws'.state = ws.state /\ ws'.stale = ws.stale
        /\ ws'.idx = {e \in ws.idx : ~Superseded(e, m.id)}
    BY <1>2, <2>1 DEF Store
  <2>3. m.id \in 1..sidecar.id /\ m.id <= Latest(ws) /\ Latest(ws) \in Nat
    BY <1>2, LatestIsLast DEF ReservedFirst
  <2>4. ws.state.gen # 0
    BY <1>6, <2>3 DEF Served, Readable, EnsureIndexes
  <2>5. reb.prior # ActiveGen(ws)
    BY <1>2, <1>10, <2>4 DEF IndexInFlight, ActiveGen, PruneGeneration
  <2> QED
    BY <1>4, <1>6, <2>2, <2>5, ServedOn DEF Superseded
<1> QED
  BY <1>5, <1>7, <1>8, <1>9, <1>10

(* A full rebuild never takes a readable index away, at whatever step it    *)
(* stands or dies (rebuild_temporal_indexes).                               *)
THEOREM RebuildSafe == Spec => RebuildKeepsReads
<1>1. Init => IdxInv /\ RebuildEnds
  BY DEF Init, EmptyStore, IdxInv, IndexInv, Published, Indexed, IndexInFlight, RebuildEnds, Rebuilding
<1>2. CoreInv /\ IdxInv /\ RebuildEnds /\ [Next]_vars =>
        [(reb # NoRebuild /\ ~dep.partial /\ Readable(db) /\ Covers(db, Latest(db)))
          => (Readable(db) /\ Covers(db, Latest(db)))']_vars
  BY RebuildServes DEF Served
<1> QED
  BY <1>1, <1>2, CoreInvariant, IndexStep, RebuildEndsStep, PTL DEF Spec, RebuildKeepsReads

-----------------------------------------------------------------------------
(* Corrections and retractions stand on visible history.                    *)

(* The corrections of commit d have their targets, and its retractions an   *)
(* assertion, in the history of s before d or earlier in d.                 *)
Justified(s, d) ==
    \A i \in DOMAIN d.versions :
        /\ d.versions[i].sup # None =>
              \E y \in VisibleVersions(s, d.id - 1) :
                  y.ver.vid = d.versions[i].sup /\ y.ver.lid = d.versions[i].lid
        /\ d.versions[i].op = "retract" =>
              \/ \E j \in 1..(i - 1) : Establishes(d.versions[j], d.versions[i].lid)
              \/ \E y \in VisibleVersions(s, d.id - 1) : Establishes(y.ver, d.versions[i].lid)

JustInv ==
    /\ \A m \in db.mark : Justified(db, m)
    /\ \A m \in ws.mark : Justified(ws, m)
    /\ pc \in CommitSteps => Justified(ws, Descriptor)

(* Visible versions by marker and position.                                 *)
LEMMA VisibleVersion ==
    ASSUME NEW s, NEW h
    PROVE  /\ \A x \in VisibleVersions(s, h) : \E m \in s.mark : \E i \in DOMAIN m.versions :
                  m.id <= h /\ x = [id |-> m.id, ord |-> i, ver |-> m.versions[i]]
           /\ \A m \in s.mark : \A i \in DOMAIN m.versions :
                  m.id <= h => [id |-> m.id, ord |-> i, ver |-> m.versions[i]] \in VisibleVersions(s, h)
BY DEF VisibleVersions

(* More history justifies no less.                                          *)
LEMMA JustifiedOn ==
    ASSUME NEW s, NEW t, NEW d, s.mark \subseteq t.mark, Justified(s, d)
    PROVE  Justified(t, d)
<1>1. VisibleVersions(s, d.id - 1) \subseteq VisibleVersions(t, d.id - 1)
  BY DEF VisibleVersions
<1> QED
  BY <1>1 DEF Justified

(* Every step keeps visible corrections and retractions justified: the      *)
(* checks of commit_direct are made in the history the commit is added to.  *)
LEMMA JustStep == CoreInv /\ JustInv /\ [Next]_vars => JustInv'
<1> SUFFICES ASSUME CoreInv, JustInv, [Next]_vars PROVE JustInv'
  OBVIOUS
<1>0. /\ TypeOK /\ InFlight /\ ws \in Store /\ db \in Store /\ inTx \in BOOLEAN /\ (~inTx => ws = db)
      /\ db.mark \subseteq ws.mark /\ sidecar.id \in Nat
  BY DEF CoreInv, TypeOK, LogInv
<1>1. ASSUME ws'.mark = ws.mark, db'.mark = db.mark,
             pc' \in CommitSteps => pc \in CommitSteps /\ Descriptor' = Descriptor
      PROVE  JustInv'
  <2>1. \A m \in db'.mark : Justified(db', m)
    BY <1>1, JustifiedOn DEF JustInv
  <2>2. \A m \in ws'.mark : Justified(ws', m)
    BY <1>1, JustifiedOn DEF JustInv
  <2>3. pc' \in CommitSteps => Justified(ws', Descriptor')
    BY <1>1, JustifiedOn DEF JustInv
  <2> QED
    BY <2>1, <2>2, <2>3 DEF JustInv
<1>2. CASE ReserveSequence
  <2>1. PICK b \in Batches : /\ ValidBatch(ws, sidecar.id, b) /\ cmt'.id = sidecar.id + 1 /\ cmt'.versions = b
    BY <1>2 DEF ReserveSequence, NextId
  <2>2. ws' = ws /\ db' = db
    BY <1>2 DEF ReserveSequence
  <2>3. Descriptor'.versions = b /\ Descriptor'.id - 1 = sidecar.id
    BY <1>0, <2>1 DEF Descriptor
  <2>4. Justified(ws, Descriptor')
    <3> SUFFICES ASSUME NEW i \in DOMAIN b
                 PROVE  /\ b[i].sup # None =>
                              \E y \in VisibleVersions(ws, sidecar.id) : y.ver.vid = b[i].sup /\ y.ver.lid = b[i].lid
                        /\ b[i].op = "retract" =>
                              \/ \E j \in 1..(i - 1) : Establishes(b[j], b[i].lid)
                              \/ \E y \in VisibleVersions(ws, sidecar.id) : Establishes(y.ver, b[i].lid)
      BY <2>3 DEF Justified
    <3>1. ValidVersion(ws, sidecar.id, b, i)
      BY <2>1 DEF ValidBatch
    <3> QED
      BY <3>1 DEF ValidVersion, SupersessionHolds, RetractionEstablished, Matches
  <2> QED
    BY <2>2, <2>4 DEF JustInv
<1>3. CASE \/ PutSequence \/ DeferIndexes \/ MaintainIndexes \/ PutExactEntries \/ PutRangeEntries
           \/ PersistIndexState \/ StartRebuild \/ RebuildStep \/ StartReclaim \/ UnindexOrphans
           \/ BeginTransaction \/ Fail \/ UNCHANGED vars
  <2>1. ws'.mark = ws.mark /\ db'.mark = db.mark
    BY <1>0, <1>3, IndexOnlySteps DEF IndexOnly, HistoryUnchanged
  <2>2. CASE PutSequence \/ DeferIndexes \/ PutExactEntries \/ PutRangeEntries \/ PersistIndexState \/ UNCHANGED vars
    <3>1. cmt' = cmt /\ (pc' \in CommitSteps => pc \in CommitSteps)
      BY <2>2 DEF PutSequence, DeferIndexes, PutExactEntries, PutRangeEntries, PersistIndexState, vars, Goto, CommitSteps
    <3> QED
      BY <1>1, <2>1, <3>1 DEF Descriptor
  <2>3. CASE MaintainIndexes
    <3>1. /\ cmt'.id = cmt.id /\ cmt'.time = cmt.time /\ cmt'.versions = cmt.versions /\ pc \in CommitSteps
      BY <1>0, <2>3 DEF MaintainIndexes, CommitSteps, TypeOK
    <3> QED
      BY <1>1, <2>1, <3>1 DEF Descriptor
  <2>4. CASE StartRebuild \/ RebuildStep \/ StartReclaim \/ UnindexOrphans \/ BeginTransaction \/ Fail
    <3>1. pc' \notin CommitSteps
      BY <2>4 DEF StartRebuild, RebuildStep, BuildGeneration, ActivateGeneration, ClearStale, PruneGeneration, FinishRebuild,
         RebuildRaises, StartReclaim, UnindexOrphans, BeginTransaction, Fail, Abandon, Goto, CommitSteps
    <3> QED
      BY <1>1, <2>1, <3>1
  <2> QED
    BY <1>3, <2>2, <2>3, <2>4
<1>4. CASE PutDescriptor \/ PutRecord
  <2>1. ws'.mark = ws.mark /\ db'.mark = db.mark
    BY <1>0, <1>4 DEF PutDescriptor, PutRecord, Write, Store
  <2>2. /\ cmt'.id = cmt.id /\ cmt'.time = cmt.time /\ cmt'.versions = cmt.versions /\ pc \in CommitSteps
    BY <1>0, <1>4 DEF PutDescriptor, PutRecord, CommitSteps, TypeOK
  <2> QED
    BY <1>1, <2>1, <2>2 DEF Descriptor
<1>5. CASE DeleteOrphanRecord \/ DeleteOrphanDescriptor
  <2>1. ws'.mark = ws.mark /\ db'.mark = db.mark
    BY <1>0, <1>5 DEF DeleteOrphanRecord, DeleteOrphanDescriptor, Write, Store
  <2>2. pc' \notin CommitSteps
    BY <1>5 DEF DeleteOrphanRecord, DeleteOrphanDescriptor, Goto, CommitSteps
  <2> QED
    BY <1>1, <2>1, <2>2
<1>6. CASE PutVisibleMarker
  <2>1. ws'.mark = ws.mark \cup {Descriptor} /\ pc = "visible" /\ pc' = "idle" /\ (db' = db \/ db' = ws')
    BY <1>0, <1>6 DEF PutVisibleMarker, Write, Store, Goto
  <2>2. \A m \in ws'.mark : Justified(ws', m)
    BY <2>1, JustifiedOn DEF JustInv, CommitSteps
  <2> QED
    BY <2>1, <2>2 DEF JustInv, CommitSteps
<1>7. CASE CommitTransaction \/ RollbackTransaction \/ Crash
  <2>1. ((ws' = ws /\ db' = ws) \/ (ws' = db /\ db' = db)) /\ pc' = "idle"
    BY <1>7 DEF CommitTransaction, RollbackTransaction, Crash, Abandon
  <2> QED
    BY <2>1 DEF JustInv, CommitSteps
<1> QED
  BY <1>2, <1>3, <1>4, <1>5, <1>6, <1>7 DEF Next, CommitStep, ReclaimStep

(* Justified commits make a well-formed history.                            *)
LEMMA JustWellFormed == CoreInv /\ JustInv => HistoryWellFormed
<1> SUFFICES ASSUME CoreInv, JustInv, NEW x \in VisibleVersions(db, sidecar.id)
             PROVE  /\ x.ver.sup # None =>
                          \E y \in Matches(db, x.ver.sup, x.id - 1) : y.ver.lid = x.ver.lid
                    /\ x.ver.op = "retract" =>
                          \E y \in VisibleVersions(db, x.id) :
                             /\ y.ver.lid = x.ver.lid /\ y.ver.op # "retract"
                             /\ y.id < x.id \/ y.ord < x.ord
  BY DEF HistoryWellFormed
<1>1. PICK m \in db.mark : \E i \in DOMAIN m.versions : x = [id |-> m.id, ord |-> i, ver |-> m.versions[i]]
  BY VisibleVersion
<1>2. PICK i \in DOMAIN m.versions : x = [id |-> m.id, ord |-> i, ver |-> m.versions[i]]
  BY <1>1
<1>3. db \in Store /\ m \in Commit /\ m.id \in Nat /\ m.versions \in Seq(Version) /\ i \in Nat /\ i \in 1..Len(m.versions)
  <2>1. db \in Store /\ m \in Commit
    BY DEF CoreInv, TypeOK, Store
  <2>2. m.id \in Nat /\ m.versions \in Seq(Version)
    BY <2>1 DEF Commit
  <2> QED
    BY <2>1, <2>2, ElementTyped
<1>4. Justified(db, m)
  BY DEF JustInv
<1>5. x.ver.sup # None => \E y \in Matches(db, x.ver.sup, x.id - 1) : y.ver.lid = x.ver.lid
  BY <1>2, <1>4 DEF Justified, Matches
<1>6. ASSUME x.ver.op = "retract"
      PROVE  \E y \in VisibleVersions(db, x.id) :
                /\ y.ver.lid = x.ver.lid /\ y.ver.op # "retract" /\ (y.id < x.id \/ y.ord < x.ord)
  <2>1. CASE \E j \in 1..(i - 1) : Establishes(m.versions[j], m.versions[i].lid)
    <3>1. PICK j \in 1..(i - 1) : Establishes(m.versions[j], m.versions[i].lid)
      BY <2>1
    <3>2. j \in DOMAIN m.versions /\ j < i
      BY <1>3, <3>1
    <3>3. [id |-> m.id, ord |-> j, ver |-> m.versions[j]] \in VisibleVersions(db, x.id)
      BY <1>2, <1>3, <3>2, VisibleVersion
    <3> QED
      BY <1>2, <3>1, <3>2, <3>3 DEF Establishes
  <2>2. CASE \E y \in VisibleVersions(db, m.id - 1) : Establishes(y.ver, m.versions[i].lid)
    <3>1. PICK y \in VisibleVersions(db, m.id - 1) : Establishes(y.ver, m.versions[i].lid)
      BY <2>2
    <3>2. PICK n \in db.mark : n.id <= m.id - 1 /\ \E k \in DOMAIN n.versions : y = [id |-> n.id, ord |-> k, ver |-> n.versions[k]]
      BY VisibleVersion
    <3>3. n.id \in Nat
      BY <1>3 DEF Store, Commit
    <3>4. y \in VisibleVersions(db, x.id) /\ y.id < x.id
      BY <1>2, <1>3, <3>2, <3>3, VisibleVersion
    <3> QED
      BY <1>2, <3>1, <3>4 DEF Establishes
  <2> QED
    BY <1>2, <1>4, <1>6, <2>1, <2>2 DEF Justified
<1> QED
  BY <1>5, <1>6

-----------------------------------------------------------------------------
(* Version ids where every writer maintains the indexes.                    *)

Maintained == dep.modes = {"maintain"} /\ ~dep.partial

(* The active generation of s is complete, stale or not; it has one locator *)
(* for an id; what it locates is stored.  A later generation, which some    *)
(* rebuild began, locates visible versions only.                            *)
Located(s, e) ==
    /\ \E d \in s.desc : d.id = e.id /\ e.ord \in DOMAIN d.versions /\ d.versions[e.ord].vid = e.vid
    /\ \E r \in s.rec : r.id = e.id /\ r.ord = e.ord

ExactIndex(s) ==
    /\ s.mark # {} => s.state.gen # 0
    /\ Indexed(s, ActiveGen(s))
    /\ \A e \in s.idx, f \in s.idx :
          /\ e.gen = ActiveGen(s) /\ e.fam = "exact"
          /\ f.gen = ActiveGen(s) /\ f.fam = "exact"
          /\ e.vid = f.vid
          => e.id = f.id /\ e.ord = f.ord
    /\ \A e \in s.idx : e.gen = ActiveGen(s) => Located(s, e)
    /\ \A e \in s.idx : e.gen > ActiveGen(s) => \E m \in s.mark : e \in Entries(m, e.gen, e.fam)

(* The version ids of a commit that has no entries yet are new.             *)
NewIds ==
    /\ \A i, j \in DOMAIN cmt.versions : cmt.versions[i].vid = cmt.versions[j].vid => i = j
    /\ \A e \in ws.idx : e.gen = ActiveGen(ws) /\ e.fam = "exact" =>
          \A i \in DOMAIN cmt.versions : e.vid # cmt.versions[i].vid

ExactInFlight ==
    /\ pc \in CommitSteps => cmt.mode = "maintain" /\ pc # "defer"
    /\ pc \in {"exact", "range"} => cmt.publish
    /\ pc \in {"sequence", "descriptor", "records", "maintain", "exact"} => NewIds
    /\ pc \in {"range", "state", "visible"} => Entries(Descriptor, ActiveGen(ws), "exact") \subseteq ws.idx
    /\ pc \in {"state", "visible"} => Entries(Descriptor, ActiveGen(ws), "range") \subseteq ws.idx
    /\ pc = "visible" => ws.state.gen # 0
    /\ pc = "unrecord" => \A e \in ws.idx : e.gen = ActiveGen(ws) => e.id \notin rcl

ExactInv == Maintained => ExactIndex(db) /\ ExactIndex(ws) /\ ExactInFlight

(* A write of an exact store keeps both copies exact.                       *)
LEMMA WriteExact ==
    ASSUME ExactIndex(db), NEW s, ExactIndex(s), Write(s), inTx \in BOOLEAN
    PROVE  ExactIndex(db') /\ ExactIndex(ws')
<1>1. ws' = s /\ (db' = db \/ db' = s)
  BY DEF Write
<1> QED
  BY <1>1

(* An exact store stays so when it loses no entry of a visible commit and   *)
(* no active generation, and nothing that an active entry locates.          *)
LEMMA ExactOn ==
    ASSUME NEW s, NEW t, ExactIndex(s), t.mark = s.mark, t.idx \subseteq s.idx,
           ActiveGen(t) = ActiveGen(s), s.state.gen # 0 => t.state.gen # 0,
           \A m \in s.mark, f \in Families : Entries(m, ActiveGen(s), f) \subseteq t.idx,
           \A e \in t.idx : e.gen = ActiveGen(s) => Located(t, e)
    PROVE  ExactIndex(t)
BY DEF ExactIndex, Indexed

(* The same when nothing is lost at all.                                    *)
LEMMA ExactSame ==
    ASSUME NEW s, NEW t, ExactIndex(s), t.mark = s.mark, t.idx = s.idx, t.state = s.state,
           s.desc \subseteq t.desc, s.rec \subseteq t.rec
    PROVE  ExactIndex(t)
<1>1. ActiveGen(t) = ActiveGen(s)
  BY DEF ActiveGen
<1>2. \A e : Located(s, e) => Located(t, e)
  BY DEF Located
<1> QED
  BY <1>1, <1>2, ExactOn DEF ExactIndex, Indexed

(* Entries are about the versions of their commit.                          *)
LEMMA EntryOf ==
    ASSUME NEW d, NEW gen, NEW f, NEW e \in Entries(d, gen, f)
    PROVE  /\ e.gen = gen /\ e.fam = f /\ e.id = d.id
           /\ e.ord \in DOMAIN d.versions /\ e.vid = d.versions[e.ord].vid
BY DEF Entries

(* The records of a fully recorded commit are where its entries point.      *)
LEMMA InFlightLocated ==
    ASSUME Stored(Len(cmt.versions) + 1), cmt.versions \in Seq(Version), NEW s, s.desc = ws.desc, s.rec = ws.rec,
           NEW e, e.id = cmt.id, e.ord \in DOMAIN cmt.versions, e.vid = cmt.versions[e.ord].vid
    PROVE  Located(s, e)
<1>1. e.ord \in Nat /\ e.ord < Len(cmt.versions) + 1
  OBVIOUS
<1>2. [id |-> cmt.id, ord |-> e.ord, ver |-> cmt.versions[e.ord]] \in s.rec
  BY <1>1 DEF Stored
<1>3. Descriptor \in s.desc /\ Descriptor.id = cmt.id /\ Descriptor.versions = cmt.versions
  BY DEF Stored, Descriptor
<1> QED
  BY <1>2, <1>3 DEF Located

(* Entries that are added to the active generation.                         *)
LEMMA EntriesAdded ==
    ASSUME ExactIndex(ws), NEW s, NEW new, s.mark = ws.mark, s.idx = ws.idx \cup new, s.state = ws.state,
           s.desc = ws.desc, s.rec = ws.rec, ActiveGen(s) = ActiveGen(ws), ActiveGen(ws) \in Nat,
           \A e \in new : e.gen = ActiveGen(ws) /\ Located(s, e),
           \A e \in s.idx, f \in s.idx :
              /\ e.gen = ActiveGen(s) /\ e.fam = "exact" /\ f.gen = ActiveGen(s) /\ f.fam = "exact" /\ e.vid = f.vid
              => e.id = f.id /\ e.ord = f.ord
    PROVE  ExactIndex(s)
<1>1. \A e \in ws.idx : Located(ws, e) => Located(s, e)
  BY DEF Located
<1>2. Indexed(s, ActiveGen(s))
  BY DEF ExactIndex, Indexed
<1>3. \A e \in s.idx : e.gen = ActiveGen(s) => Located(s, e)
  BY <1>1 DEF ExactIndex
<1>4. \A e \in s.idx : e.gen > ActiveGen(s) => \E m \in s.mark : e \in Entries(m, e.gen, e.fam)
  BY DEF ExactIndex
<1> QED
  BY <1>2, <1>3, <1>4 DEF ExactIndex

(* With an exact index, a version id is at one position of visible history. *)
LEMMA VisibleOnce ==
    ASSUME NEW s, ExactIndex(s), NEW m \in s.mark, NEW n \in s.mark, NEW i \in DOMAIN m.versions,
           NEW j \in DOMAIN n.versions, m.versions[i].vid = n.versions[j].vid
    PROVE  m.id = n.id /\ i = j
<1> DEFINE E(d, k) == [gen |-> ActiveGen(s), fam |-> "exact", id |-> d.id, ord |-> k, vid |-> d.versions[k].vid]
<1>1. E(m, i) \in s.idx /\ E(n, j) \in s.idx
  BY DEF ExactIndex, Indexed, Entries, Families
<1> QED
  BY <1>1 DEF ExactIndex

(* Every step of a database whose writers maintain the indexes keeps its    *)
(* version index exact.                                                     *)
LEMMA ExactStep == CoreInv /\ IdxInv /\ ExactInv /\ [Next]_vars => ExactInv'
<1> SUFFICES ASSUME CoreInv, IdxInv, ExactInv, [Next]_vars, Maintained'
             PROVE  ExactIndex(db') /\ ExactIndex(ws') /\ ExactInFlight'
  BY DEF ExactInv, ExactIndex, Indexed, ActiveGen, Located
<1>a. dep' = dep /\ Maintained
  BY DepFixed DEF Maintained
<1>0. /\ TypeOK /\ InFlight /\ AuthWs /\ ws \in Store /\ db \in Store /\ inTx \in BOOLEAN /\ (~inTx => ws = db)
      /\ ws.state.gen \in Nat /\ ExactIndex(db) /\ ExactIndex(ws) /\ ExactInFlight /\ IndexInFlight
  BY <1>a DEF CoreInv, TypeOK, Store, ExactInv, IdxInv, Maintained
<1>1. CASE ReserveSequence
  <2>1. PICK b \in Batches, m \in dep.modes : /\ ValidBatch(ws, sidecar.id, b) /\ cmt'.versions = b /\ cmt'.mode = m
    BY <1>1 DEF ReserveSequence
  <2>2. ws' = ws /\ db' = db /\ pc' = "sequence"
    BY <1>1 DEF ReserveSequence, Goto
  <2>3. m = "maintain"
    BY <1>a DEF Maintained
  <2>4. b \in Seq(Version)
    BY ConstantAssumptions
  <2>5. \A i, j \in DOMAIN b : b[i].vid = b[j].vid => i = j
    <3> SUFFICES ASSUME NEW i \in DOMAIN b, NEW j \in DOMAIN b, b[i].vid = b[j].vid, i # j PROVE FALSE
      OBVIOUS
    <3>1. i \in 1..Len(b) /\ j \in 1..Len(b) /\ Len(b) \in Nat
      BY <2>4
    <3>2. \A k \in DOMAIN b : \A l \in 1..(k - 1) : b[l].vid # b[k].vid
      BY <2>1 DEF ValidBatch, ValidVersion
    <3>3. i \in 1..(j - 1) \/ j \in 1..(i - 1)
      BY <3>1
    <3> QED
      BY <3>2, <3>3
  <2>6. ASSUME NEW e \in ws.idx, e.gen = ActiveGen(ws), e.fam = "exact", NEW i \in DOMAIN b, e.vid = b[i].vid PROVE FALSE
    <3>1. ~VersionIdExists(ws, e.vid)
      BY <2>1, <2>6 DEF ValidBatch, ValidVersion
    <3>2. e \in Locators(ws, e.vid)
      BY <2>6 DEF Locators
    <3>3. \E d \in ws.desc : \E k \in DOMAIN d.versions : d.versions[k].vid = e.vid
      BY <1>0, <2>6 DEF ExactIndex, Located
    <3> QED
      BY <3>1, <3>2, <3>3 DEF VersionIdExists
  <2>7. NewIds'
    BY <2>1, <2>2, <2>5, <2>6 DEF NewIds
  <2> QED
    BY <1>0, <2>1, <2>2, <2>3, <2>7 DEF ExactInFlight
<1>2. CASE PutSequence
  <2> DEFINE s == [ws EXCEPT !.seq = cmt.id]
  <2>1. /\ s.mark = ws.mark /\ s.idx = ws.idx /\ s.state = ws.state /\ s.desc = ws.desc /\ s.rec = ws.rec
    BY <1>0 DEF Store
  <2>2. Write(s) /\ ws' = s /\ pc = "sequence" /\ pc' = "descriptor" /\ cmt' = cmt
    BY <1>2 DEF PutSequence, Goto, Write
  <2> HIDE DEF s
  <2>3. ExactIndex(s)
    BY <1>0, <2>1, ExactSame
  <2>4. NewIds'
    BY <1>0, <2>1, <2>2 DEF ExactInFlight, NewIds, ActiveGen
  <2> QED
    BY <1>0, <2>2, <2>3, <2>4, WriteExact DEF ExactInFlight, CommitSteps
<1>3. CASE PutDescriptor
  <2> DEFINE s == [ws EXCEPT !.desc = @ \cup {Descriptor}]
  <2>1. /\ s.mark = ws.mark /\ s.idx = ws.idx /\ s.state = ws.state /\ ws.desc \subseteq s.desc /\ s.rec = ws.rec
    BY <1>0 DEF Store
  <2>2. Write(s) /\ ws' = s /\ pc = "descriptor" /\ pc' = "records" /\ cmt' = cmt
    BY <1>3 DEF PutDescriptor, Goto, Write
  <2> HIDE DEF s
  <2>3. ExactIndex(s)
    BY <1>0, <2>1, ExactSame
  <2>4. NewIds'
    BY <1>0, <2>1, <2>2 DEF ExactInFlight, NewIds, ActiveGen
  <2> QED
    BY <1>0, <2>2, <2>3, <2>4, WriteExact DEF ExactInFlight, CommitSteps
<1>4. CASE PutRecord
  <2> DEFINE s == [ws EXCEPT !.rec = @ \cup {[id |-> cmt.id, ord |-> cmt.next, ver |-> cmt.versions[cmt.next]]}]
  <2>1. /\ s.mark = ws.mark /\ s.idx = ws.idx /\ s.state = ws.state /\ s.desc = ws.desc /\ ws.rec \subseteq s.rec
    BY <1>0 DEF Store
  <2>2. /\ Write(s) /\ ws' = s /\ pc = "records" /\ pc' \in {"records", cmt.mode}
        /\ cmt'.versions = cmt.versions /\ cmt'.mode = cmt.mode
    BY <1>0, <1>4 DEF PutRecord, Goto, Write, TypeOK
  <2> HIDE DEF s
  <2>3. ExactIndex(s)
    BY <1>0, <2>1, ExactSame
  <2>4. NewIds'
    BY <1>0, <2>1, <2>2 DEF ExactInFlight, NewIds, ActiveGen
  <2>5. cmt.mode = "maintain"
    BY <1>0, <2>2 DEF ExactInFlight, CommitSteps
  <2> QED
    BY <1>0, <2>2, <2>3, <2>4, <2>5, WriteExact DEF ExactInFlight, CommitSteps
<1>5. CASE DeferIndexes
  BY <1>0, <1>5 DEF DeferIndexes, ExactInFlight, CommitSteps
<1>6. CASE MaintainIndexes
  <2> DEFINE priorVisible == ws.state.gen = 0 /\ \E i \in VisibleIds(ws) : i < cmt.id
             s == [ws EXCEPT !.stale = @ \/ priorVisible]
  <2>1. /\ s.mark = ws.mark /\ s.idx = ws.idx /\ s.state = ws.state /\ s.desc = ws.desc /\ s.rec = ws.rec
    BY <1>0 DEF Store
  <2>2. /\ Write(s) /\ ws' = s /\ pc = "maintain" /\ pc' = "exact"
        /\ cmt' = [cmt EXCEPT !.publish = ~priorVisible]
    BY <1>6 DEF MaintainIndexes, Goto, Write
  <2>3. ~priorVisible
    BY <1>0 DEF ExactIndex, VisibleIds
  <2>4. cmt'.publish /\ cmt'.versions = cmt.versions /\ cmt'.mode = cmt.mode
    BY <1>0, <2>2, <2>3 DEF TypeOK
  <2> HIDE DEF s
  <2>5. ExactIndex(s)
    BY <1>0, <2>1, ExactSame
  <2>6. NewIds'
    BY <1>0, <2>1, <2>2, <2>4 DEF ExactInFlight, NewIds, ActiveGen
  <2> QED
    BY <1>0, <2>2, <2>4, <2>5, <2>6, WriteExact DEF ExactInFlight, CommitSteps
<1>7. CASE PutExactEntries
  <2> DEFINE new == Entries(Descriptor, ActiveGen(ws), "exact")
             s == [ws EXCEPT !.idx = @ \cup new]
  <2>1. /\ s.mark = ws.mark /\ s.idx = ws.idx \cup new /\ s.state = ws.state /\ s.desc = ws.desc /\ s.rec = ws.rec
    BY <1>0 DEF Store
  <2>2. Write(s) /\ ws' = s /\ pc = "exact" /\ pc' = "range" /\ cmt' = cmt
    BY <1>7 DEF PutExactEntries, Goto, Write
  <2> HIDE DEF s
  <2>3. ActiveGen(s) = ActiveGen(ws)
    BY <2>1 DEF ActiveGen
  <2>4. NewIds /\ Stored(Len(cmt.versions) + 1) /\ cmt.publish /\ cmt.versions \in Seq(Version)
    BY <1>0, <2>2 DEF ExactInFlight, InFlight, Recorded, TypeOK
  <2>5. \A e \in new : /\ e.gen = ActiveGen(ws) /\ e.fam = "exact" /\ e.id = cmt.id
                         /\ e.ord \in DOMAIN cmt.versions /\ e.vid = cmt.versions[e.ord].vid
    BY DEF Entries, Descriptor
  <2>6. \A e \in new : Located(s, e)
    BY <2>1, <2>4, <2>5, InFlightLocated
  <2>7. \A e \in s.idx, f \in s.idx :
          /\ e.gen = ActiveGen(s) /\ e.fam = "exact" /\ f.gen = ActiveGen(s) /\ f.fam = "exact" /\ e.vid = f.vid
          => e.id = f.id /\ e.ord = f.ord
    <3> SUFFICES ASSUME NEW e \in s.idx, NEW f \in s.idx, e.gen = ActiveGen(s), e.fam = "exact",
                        f.gen = ActiveGen(s), f.fam = "exact", e.vid = f.vid
                 PROVE  e.id = f.id /\ e.ord = f.ord
      OBVIOUS
    <3>1. CASE e \in ws.idx /\ f \in ws.idx
      BY <1>0, <2>3, <3>1 DEF ExactIndex
    <3>2. CASE e \in new /\ f \in new
      BY <2>4, <2>5, <3>2 DEF NewIds
    <3>3. CASE e \in ws.idx /\ f \in new
      BY <2>3, <2>4, <2>5, <3>3 DEF NewIds
    <3>4. CASE e \in new /\ f \in ws.idx
      BY <2>3, <2>4, <2>5, <3>4 DEF NewIds
    <3> QED
      BY <2>1, <3>1, <3>2, <3>3, <3>4
  <2>g. ActiveGen(ws) \in Nat
    BY <1>0 DEF ActiveGen
  <2> HIDE DEF new
  <2>8. ExactIndex(s)
    BY <1>0, <2>1, <2>3, <2>5, <2>6, <2>7, <2>g, EntriesAdded
  <2> USE DEF new
  <2>9. Entries(Descriptor, ActiveGen(ws), "exact")' \subseteq ws'.idx
    BY <2>1, <2>2, <2>3 DEF Descriptor
  <2> QED
    BY <1>0, <2>2, <2>4, <2>8, <2>9, WriteExact DEF ExactInFlight, CommitSteps
<1>8. CASE PutRangeEntries
  <2> DEFINE new == Entries(Descriptor, ActiveGen(ws), "range")
             s == [ws EXCEPT !.idx = @ \cup new]
  <2>1. /\ s.mark = ws.mark /\ s.idx = ws.idx \cup new /\ s.state = ws.state /\ s.desc = ws.desc /\ s.rec = ws.rec
    BY <1>0 DEF Store
  <2>2. Write(s) /\ ws' = s /\ pc = "range" /\ pc' = (IF cmt.publish THEN "state" ELSE "visible") /\ cmt' = cmt
    BY <1>8 DEF PutRangeEntries, Goto, Write
  <2> HIDE DEF s
  <2>3. ActiveGen(s) = ActiveGen(ws)
    BY <2>1 DEF ActiveGen
  <2>4. /\ Stored(Len(cmt.versions) + 1) /\ cmt.publish /\ cmt.versions \in Seq(Version)
        /\ Entries(Descriptor, ActiveGen(ws), "exact") \subseteq ws.idx
    BY <1>0, <2>2 DEF ExactInFlight, InFlight, Recorded, TypeOK
  <2>5. \A e \in new : /\ e.gen = ActiveGen(ws) /\ e.fam = "range" /\ e.id = cmt.id
                         /\ e.ord \in DOMAIN cmt.versions /\ e.vid = cmt.versions[e.ord].vid
    BY DEF Entries, Descriptor
  <2>6. \A e \in new : Located(s, e)
    BY <2>1, <2>4, <2>5, InFlightLocated
  <2>7. \A e \in s.idx, f \in s.idx :
          /\ e.gen = ActiveGen(s) /\ e.fam = "exact" /\ f.gen = ActiveGen(s) /\ f.fam = "exact" /\ e.vid = f.vid
          => e.id = f.id /\ e.ord = f.ord
    BY <1>0, <2>1, <2>3, <2>5 DEF ExactIndex
  <2>g. ActiveGen(ws) \in Nat
    BY <1>0 DEF ActiveGen
  <2> HIDE DEF new
  <2>8. ExactIndex(s)
    BY <1>0, <2>1, <2>3, <2>5, <2>6, <2>7, <2>g, EntriesAdded
  <2> USE DEF new
  <2>9. /\ Entries(Descriptor, ActiveGen(ws), "exact")' \subseteq ws'.idx
        /\ Entries(Descriptor, ActiveGen(ws), "range")' \subseteq ws'.idx
    BY <2>1, <2>2, <2>3, <2>4 DEF Descriptor
  <2>10. pc' = "state" /\ cmt'.mode = "maintain"
    BY <1>0, <2>2, <2>4 DEF ExactInFlight, CommitSteps
  <2> QED
    BY <1>0, <2>2, <2>8, <2>9, <2>10, WriteExact DEF ExactInFlight
<1>9. CASE PersistIndexState
  <2> DEFINE s == [ws EXCEPT !.state = [through |-> cmt.id, gen |-> ActiveGen(ws),
                                        sum |-> Markers(ws, cmt.id) \cup {Descriptor}]]
  <2>1. /\ s.mark = ws.mark /\ s.idx = ws.idx /\ s.state.gen = ActiveGen(ws) /\ s.desc = ws.desc /\ s.rec = ws.rec
    BY <1>0 DEF Store
  <2>2. Write(s) /\ ws' = s /\ pc = "state" /\ pc' = "visible" /\ cmt' = cmt
    BY <1>9 DEF PersistIndexState, Goto, Write
  <2> HIDE DEF s
  <2>3. ActiveGen(s) = ActiveGen(ws) /\ s.state.gen # 0
    BY <1>0, <2>1 DEF ActiveGen
  <2>4. ExactIndex(s)
    BY <1>0, <2>1, <2>3, ExactOn DEF ExactIndex, Indexed, Located
  <2>5. \A f \in Families : Entries(Descriptor, ActiveGen(ws), f)' \subseteq ws'.idx
    BY <1>0, <2>1, <2>2, <2>3 DEF ExactInFlight, Descriptor, Families
  <2> QED
    BY <1>0, <2>2, <2>3, <2>4, <2>5, WriteExact DEF ExactInFlight, Families, CommitSteps
<1>10. CASE PutVisibleMarker
  <2> DEFINE s == [ws EXCEPT !.mark = @ \cup {Descriptor}]
  <2>1. /\ s.mark = ws.mark \cup {Descriptor} /\ s.idx = ws.idx /\ s.state = ws.state /\ s.desc = ws.desc /\ s.rec = ws.rec
    BY <1>0 DEF Store
  <2>2. Write(s) /\ ws' = s /\ pc = "visible" /\ pc' = "idle"
    BY <1>10 DEF PutVisibleMarker, Goto, Write
  <2> HIDE DEF s
  <2>3. ActiveGen(s) = ActiveGen(ws)
    BY <2>1 DEF ActiveGen
  <2>4. \A f \in Families : Entries(Descriptor, ActiveGen(ws), f) \subseteq ws.idx
    BY <1>0, <2>2 DEF ExactInFlight, Families
  <2>5. ExactIndex(s)
    BY <1>0, <2>1, <2>2, <2>3, <2>4 DEF ExactIndex, Indexed, Located, ExactInFlight
  <2> QED
    BY <1>0, <2>2, <2>5, WriteExact DEF ExactInFlight, CommitSteps
<1>11. CASE StartRebuild
  <2> DEFINE s == [ws EXCEPT !.stale = @ \/ ws.state.gen = 0]
  <2>1. /\ s.mark = ws.mark /\ s.idx = ws.idx /\ s.state = ws.state /\ s.desc = ws.desc /\ s.rec = ws.rec
    BY <1>0 DEF Store
  <2>2. Write(s) /\ pc' = "build"
    BY <1>11 DEF StartRebuild, Goto
  <2> HIDE DEF s
  <2> QED
    BY <1>0, <2>1, <2>2, ExactSame, WriteExact DEF ExactInFlight, CommitSteps
<1>12. CASE BuildGeneration
  <2>1. PICK m \in ws.mark : Write([ws EXCEPT !.idx = @ \cup UNION {Entries(m, reb.gen, f) : f \in Families}])
    BY <1>12 DEF BuildGeneration
  <2> DEFINE new == UNION {Entries(m, reb.gen, f) : f \in Families}
             s == [ws EXCEPT !.idx = @ \cup new]
  <2>2. /\ s.mark = ws.mark /\ s.idx = ws.idx \cup new /\ s.state = ws.state /\ s.desc = ws.desc /\ s.rec = ws.rec
    BY <1>0 DEF Store
  <2>3. Write(s) /\ pc = "build" /\ pc' = "build"
    BY <1>12, <2>1 DEF BuildGeneration, Goto
  <2> HIDE DEF s
  <2>4. ActiveGen(s) = ActiveGen(ws) /\ ws.state.gen # 0 /\ reb.gen = ws.state.gen + 1 /\ ActiveGen(ws) = ws.state.gen
    BY <1>0, <2>2, <2>3 DEF ActiveGen, ExactIndex, IndexInFlight
  <2>5. \A e \in new : e.gen = reb.gen /\ e \in Entries(m, e.gen, e.fam)
    BY DEF Entries
  <2>6. reb.gen # ActiveGen(ws)
    BY <1>0, <2>4
  <2> HIDE DEF new
  <2>7. ExactIndex(s)
    BY <1>0, <2>2, <2>4, <2>5, <2>6 DEF ExactIndex, Indexed, Located
  <2> QED
    BY <1>0, <2>3, <2>7, WriteExact DEF ExactInFlight, CommitSteps
<1>13. CASE ActivateGeneration
  <2> DEFINE s == [ws EXCEPT !.state = [through |-> reb.horizon, gen |-> reb.gen, sum |-> Markers(ws, reb.horizon)]]
  <2>1. /\ s.mark = ws.mark /\ s.idx = ws.idx /\ s.state.gen = reb.gen /\ s.desc = ws.desc /\ s.rec = ws.rec
    BY <1>0 DEF Store
  <2>2. Write(s) /\ pc = "build" /\ pc' = "clear" /\ reb.todo = {}
    BY <1>13 DEF ActivateGeneration, Goto
  <2> HIDE DEF s
  <2>3. /\ reb.gen = ws.state.gen + 1 /\ ActiveGen(s) = reb.gen /\ reb.gen # 0
        /\ \A m \in ws.mark, f \in Families : Entries(m, reb.gen, f) \subseteq ws.idx
    BY <1>0, <2>1, <2>2 DEF IndexInFlight, ActiveGen
  <2>4. CASE ws.state.gen = 0
    <3>1. ActiveGen(s) = ActiveGen(ws)
      BY <2>3, <2>4 DEF ActiveGen
    <3> QED
      BY <1>0, <2>1, <2>2, <2>3, <3>1, ExactOn, WriteExact DEF ExactIndex, Indexed, Located, ExactInFlight, CommitSteps
  <2>5. CASE ws.state.gen # 0
    <3>1. \A e \in ws.idx : e.gen \in Nat
      BY <1>0 DEF Store
    <3>2. ActiveGen(ws) = ws.state.gen /\ \A n \in Nat : n >= reb.gen => n > ActiveGen(ws)
      BY <1>0, <2>3, <2>5 DEF ActiveGen
    <3>3. \A e \in ws.idx : e.gen >= reb.gen => \E m \in ws.mark : e \in Entries(m, e.gen, e.fam)
      BY <1>0, <3>1, <3>2 DEF ExactIndex
    <3>4. \A e \in ws.idx : e.gen = reb.gen => Located(s, e)
      <4> SUFFICES ASSUME NEW e \in ws.idx, e.gen = reb.gen PROVE Located(s, e)
        OBVIOUS
      <4>1. PICK m \in ws.mark : e \in Entries(m, e.gen, e.fam)
        BY <1>0, <2>3, <3>1, <3>3
      <4>2. e.id = m.id /\ e.ord \in DOMAIN m.versions /\ e.vid = m.versions[e.ord].vid
        BY <4>1, EntryOf
      <4>3. Authentic(ws, m)
        BY <1>0 DEF AuthWs
      <4>4. m \in s.desc
        BY <2>1, <4>3 DEF Authentic
      <4>5. [id |-> m.id, ord |-> e.ord, ver |-> m.versions[e.ord]] \in s.rec
        BY <2>1, <4>2, <4>3 DEF Authentic
      <4> DEFINE r == [id |-> m.id, ord |-> e.ord, ver |-> m.versions[e.ord]]
      <4>6. r \in s.rec /\ r.id = e.id /\ r.ord = e.ord
        BY <4>2, <4>5
      <4> HIDE DEF r
      <4> QED
        BY <4>2, <4>4, <4>6 DEF Located
    <3>5. \A e \in ws.idx, f \in ws.idx :
            /\ e.gen = reb.gen /\ e.fam = "exact" /\ f.gen = reb.gen /\ f.fam = "exact" /\ e.vid = f.vid
            => e.id = f.id /\ e.ord = f.ord
      <4> SUFFICES ASSUME NEW e \in ws.idx, NEW f \in ws.idx, e.gen = reb.gen, e.fam = "exact",
                          f.gen = reb.gen, f.fam = "exact", e.vid = f.vid
                   PROVE  e.id = f.id /\ e.ord = f.ord
        OBVIOUS
      <4>1. PICK m \in ws.mark : e \in Entries(m, reb.gen, "exact")
        BY <1>0, <2>3, <3>1, <3>3
      <4>2. PICK n \in ws.mark : f \in Entries(n, reb.gen, "exact")
        BY <1>0, <2>3, <3>1, <3>3
      <4>3. m.versions[e.ord].vid = n.versions[f.ord].vid /\ e.ord \in DOMAIN m.versions /\ f.ord \in DOMAIN n.versions
            /\ e.id = m.id /\ f.id = n.id
        BY <4>1, <4>2, EntryOf
      <4> QED
        BY <1>0, <4>3, VisibleOnce
    <3>6. ExactIndex(s)
      <4>1. Indexed(s, reb.gen)
        BY <2>1, <2>3 DEF Indexed
      <4>2. \A e \in s.idx : e.gen > reb.gen => \E m \in s.mark : e \in Entries(m, e.gen, e.fam)
        BY <1>0, <2>1, <2>3, <3>1, <3>3
      <4> QED
        BY <2>1, <2>3, <3>4, <3>5, <4>1, <4>2 DEF ExactIndex
    <3> QED
      BY <1>0, <2>2, <3>6, WriteExact DEF ExactInFlight, CommitSteps
  <2> QED
    BY <2>4, <2>5
<1>14. CASE ClearStale
  <2> DEFINE s == [ws EXCEPT !.stale = @ /\ ~CoversLatest]
  <2>1. /\ s.mark = ws.mark /\ s.idx = ws.idx /\ s.state = ws.state /\ s.desc = ws.desc /\ s.rec = ws.rec
    BY <1>0 DEF Store
  <2>2. Write(s) /\ pc' = "prune"
    BY <1>14 DEF ClearStale, Goto
  <2> HIDE DEF s
  <2> QED
    BY <1>0, <2>1, <2>2, ExactSame, WriteExact DEF ExactInFlight, CommitSteps
<1>15. CASE PruneGeneration
  <2>1. PICK m \in ws.mark : Write([ws EXCEPT !.idx = {e \in @ : ~Superseded(e, m.id)}])
    BY <1>15 DEF PruneGeneration
  <2> DEFINE s == [ws EXCEPT !.idx = {e \in @ : ~Superseded(e, m.id)}]
  <2>2. /\ s.mark = ws.mark /\ s.idx = {e \in ws.idx : ~Superseded(e, m.id)} /\ s.state = ws.state
        /\ s.desc = ws.desc /\ s.rec = ws.rec
    BY <1>0 DEF Store
  <2>3. Write(s) /\ pc = "prune" /\ pc' = "prune"
    BY <1>15, <2>1 DEF PruneGeneration, Goto
  <2> HIDE DEF s
  <2>4. ActiveGen(s) = ActiveGen(ws) /\ ActiveGen(ws) # reb.prior
    BY <1>0, <2>2, <2>3 DEF ActiveGen, ExactIndex, IndexInFlight
  <2>5. \A e \in ws.idx : e.gen = ActiveGen(ws) => e \in s.idx
    BY <2>2, <2>4 DEF Superseded
  <2>6. \A n \in ws.mark, f \in Families : Entries(n, ActiveGen(ws), f) \subseteq s.idx
    <3> SUFFICES ASSUME NEW n \in ws.mark, NEW f \in Families, NEW e \in Entries(n, ActiveGen(ws), f) PROVE e \in s.idx
      OBVIOUS
    <3>1. e \in ws.idx
      BY <1>0 DEF ExactIndex, Indexed
    <3>2. e.gen = ActiveGen(ws)
      BY EntryOf
    <3> QED
      BY <2>5, <3>1, <3>2
  <2>7. \A e \in s.idx : e.gen = ActiveGen(ws) => Located(s, e)
    BY <1>0, <2>2 DEF ExactIndex, Located
  <2>8. ExactIndex(s)
    BY <1>0, <2>2, <2>4, <2>6, <2>7, ExactOn
  <2> QED
    BY <1>0, <2>3, <2>8, WriteExact DEF ExactInFlight, CommitSteps
<1>16. CASE FinishRebuild \/ RebuildRaises \/ BeginTransaction \/ Fail
  <2>1. ws' = ws /\ db' = db /\ pc' = "idle"
    BY <1>16 DEF FinishRebuild, RebuildRaises, BeginTransaction, Fail, Abandon, Goto
  <2> QED
    BY <1>0, <2>1 DEF ExactInFlight, CommitSteps
<1>17. CASE StartReclaim
  <2> DEFINE s == [ws EXCEPT !.stale = TRUE]
  <2>1. /\ s.mark = ws.mark /\ s.idx = ws.idx /\ s.state = ws.state /\ s.desc = ws.desc /\ s.rec = ws.rec
    BY <1>0 DEF Store
  <2>2. Write(s) /\ pc' = "unindex"
    BY <1>17 DEF StartReclaim, Goto
  <2> HIDE DEF s
  <2> QED
    BY <1>0, <2>1, <2>2, ExactSame, WriteExact DEF ExactInFlight, CommitSteps
<1>18. CASE UnindexOrphans
  <2> DEFINE Derived(e) == /\ e.id \in rcl /\ e.gen = ActiveGen(ws)
                           /\ \E r \in ws.rec : r.id = e.id /\ r.ord = e.ord
             s == [ws EXCEPT !.idx = {e \in @ : ~Derived(e)}]
  <2>1. /\ s.mark = ws.mark /\ s.idx = {e \in ws.idx : ~Derived(e)} /\ s.state = ws.state
        /\ s.desc = ws.desc /\ s.rec = ws.rec
    BY <1>0 DEF Store
  <2>2. Write(s) /\ ws' = s /\ pc = "unindex" /\ pc' = "unrecord" /\ rcl' = rcl
    BY <1>18 DEF UnindexOrphans, Goto, Write
  <2> HIDE DEF s
  <2>3. ActiveGen(s) = ActiveGen(ws)
    BY <2>1 DEF ActiveGen
  <2>4. \A m \in ws.mark : m.id \notin rcl
    BY <1>0, <2>2, OrphanInvisible
  <2>5. \A n \in ws.mark, f \in Families : Entries(n, ActiveGen(ws), f) \subseteq s.idx
    <3> SUFFICES ASSUME NEW n \in ws.mark, NEW f \in Families, NEW e \in Entries(n, ActiveGen(ws), f) PROVE e \in s.idx
      OBVIOUS
    <3>1. e \in ws.idx
      BY <1>0 DEF ExactIndex, Indexed
    <3>2. e.id \notin rcl
      BY <2>4, EntryOf
    <3> QED
      BY <2>1, <3>1, <3>2
  <2>6. \A e \in s.idx : e.gen = ActiveGen(ws) => Located(s, e)
    BY <1>0, <2>1 DEF ExactIndex, Located
  <2>7. ExactIndex(s)
    BY <1>0, <2>1, <2>3, <2>5, <2>6, ExactOn
  <2>8. \A e \in s.idx : e.gen = ActiveGen(s) => e.id \notin rcl
    BY <1>0, <2>1, <2>3 DEF ExactIndex, Located
  <2> QED
    BY <1>0, <2>2, <2>7, <2>8, WriteExact DEF ExactInFlight, CommitSteps
<1>19. CASE DeleteOrphanRecord \/ DeleteOrphanDescriptor
  <2>1. pc = "unrecord" /\ pc' \in {"unrecord", "rebuild"} /\ rcl' \subseteq rcl
    BY <1>19 DEF DeleteOrphanRecord, DeleteOrphanDescriptor, Goto
  <2>2. Min(rcl) \in rcl
    BY <1>0, <2>1, OrphanInvisible
  <2>3. PICK s : /\ Write(s) /\ s.mark = ws.mark /\ s.idx = ws.idx /\ s.state = ws.state
                 /\ \A d \in ws.desc : d.id # Min(rcl) => d \in s.desc
                 /\ \A r \in ws.rec : r.id # Min(rcl) => r \in s.rec
    <3>1. CASE DeleteOrphanRecord
      <4>1. PICK r \in ws.rec : r.id = Min(rcl) /\ Write([ws EXCEPT !.rec = @ \ {r}])
        BY <3>1 DEF DeleteOrphanRecord
      <4> QED
        BY <1>0, <4>1 DEF Store
    <3>2. CASE DeleteOrphanDescriptor
      <4>1. Write([ws EXCEPT !.desc = {d \in @ : d.id # Min(rcl)}])
        BY <3>2 DEF DeleteOrphanDescriptor
      <4> QED
        BY <1>0, <4>1 DEF Store
    <3> QED
      BY <1>19, <3>1, <3>2
  <2>4. ActiveGen(s) = ActiveGen(ws) /\ ws' = s
    BY <2>3 DEF ActiveGen, Write
  <2>5. \A e \in s.idx : e.gen = ActiveGen(ws) => e.id \notin rcl
    BY <1>0, <2>1, <2>3 DEF ExactInFlight
  <2>6. \A e \in s.idx : e.gen = ActiveGen(ws) => Located(s, e)
    BY <1>0, <2>2, <2>3, <2>5 DEF ExactIndex, Located
  <2>7. ExactIndex(s)
    BY <1>0, <2>3, <2>4, <2>6, ExactOn DEF ExactIndex, Indexed
  <2> QED
    BY <1>0, <2>1, <2>3, <2>4, <2>5, <2>7, WriteExact DEF ExactInFlight, CommitSteps
<1>20. CASE CommitTransaction \/ RollbackTransaction \/ Crash
  <2>1. ((ws' = ws /\ db' = ws) \/ (ws' = db /\ db' = db)) /\ pc' = "idle"
    BY <1>20 DEF CommitTransaction, RollbackTransaction, Crash, Abandon
  <2> QED
    BY <1>0, <2>1 DEF ExactInFlight, CommitSteps
<1>21. CASE UNCHANGED vars
  BY <1>0, <1>21 DEF vars, ExactInFlight, NewIds, Descriptor
<1> QED
  BY <1>1, <1>2, <1>3, <1>4, <1>5, <1>6, <1>7, <1>8, <1>9, <1>10, <1>11, <1>12, <1>13, <1>14, <1>15, <1>16, <1>17,
     <1>18, <1>19, <1>20, <1>21 DEF Next, CommitStep, RebuildStep, ReclaimStep

(* An exact index locates a version id at most once, and every visible      *)
(* version: what get_versions_through_batch takes for corruption is not     *)
(* there.                                                                   *)
LEMMA NeverRaises ==
    ASSUME NEW s, ExactIndex(s), NEW v, NEW h
    PROVE  ~LookupRaises(s, v, h)
<1> SUFFICES ASSUME LookupRaises(s, v, h) PROVE FALSE
  OBVIOUS
<1> DEFINE P == {<<e.id, e.ord>> : e \in Locators(s, v)}
<1>1. ~Cardinality(P) > 1
  <2>1. CASE P = {}
    BY <2>1, FS_EmptySet
  <2>2. CASE P # {}
    <3>1. PICK e \in Locators(s, v) : TRUE
      BY <2>2
    <3>2. \A f \in Locators(s, v) : f.id = e.id /\ f.ord = e.ord
      BY DEF ExactIndex, Locators
    <3>3. P = {<<e.id, e.ord>>}
      BY <3>1, <3>2
    <3>4. Cardinality(P) = 1
      BY <3>3, FS_Singleton
    <3> QED
      BY <3>4
  <2> QED
    BY <2>1, <2>2
<1>2. PICK x \in VisibleVersions(s, h) : x.ver.vid = v
  BY <1>1 DEF LookupRaises, Matches
<1>3. PICK m \in s.mark : m.id <= h /\ \E i \in DOMAIN m.versions : x = [id |-> m.id, ord |-> i, ver |-> m.versions[i]]
  BY VisibleVersion
<1>4. PICK i \in DOMAIN m.versions : x = [id |-> m.id, ord |-> i, ver |-> m.versions[i]]
  BY <1>3
<1> DEFINE e == [gen |-> ActiveGen(s), fam |-> "exact", id |-> m.id, ord |-> i, vid |-> m.versions[i].vid]
<1>5. e \in s.idx
  BY DEF ExactIndex, Indexed, Entries, Families
<1>6. e \in Locators(s, v) /\ e.id = m.id
  BY <1>2, <1>4, <1>5 DEF Locators
<1> HIDE DEF e
<1>7. m.id \in VisibleIds(s)
  BY DEF VisibleIds
<1> QED
  BY <1>1, <1>3, <1>6, <1>7 DEF LookupRaises

(* Visible versions that share an id are in one commit, at one position.    *)
LEMMA VisibleIdOnce ==
    ASSUME NEW s, ExactIndex(s), NEW h, NEW g, NEW x \in VisibleVersions(s, h), NEW y \in VisibleVersions(s, g),
           x.ver.vid = y.ver.vid
    PROVE  x.id = y.id /\ x.ord = y.ord
<1>1. PICK m \in s.mark : \E i \in DOMAIN m.versions : x = [id |-> m.id, ord |-> i, ver |-> m.versions[i]]
  BY VisibleVersion
<1>2. PICK i \in DOMAIN m.versions : x = [id |-> m.id, ord |-> i, ver |-> m.versions[i]]
  BY <1>1
<1>3. PICK n \in s.mark : \E j \in DOMAIN n.versions : y = [id |-> n.id, ord |-> j, ver |-> n.versions[j]]
  BY VisibleVersion
<1>4. PICK j \in DOMAIN n.versions : y = [id |-> n.id, ord |-> j, ver |-> n.versions[j]]
  BY <1>3
<1>5. m.id = n.id /\ i = j
  BY <1>2, <1>4, VisibleOnce
<1> QED
  BY <1>2, <1>4, <1>5

(* The commits of a database with exact indexes are consistent.             *)
LEMMA ExactHistory == CoreInv /\ ExactInv /\ Maintained => VersionIdsUnique /\ LookupNeverRaises
<1> SUFFICES ASSUME CoreInv, ExactInv, Maintained PROVE VersionIdsUnique /\ LookupNeverRaises
  OBVIOUS
<1>0. ExactIndex(db) /\ \A c, d \in db.mark : c = d \/ c.id # d.id
  <2>1. \A c \in db.mark : c.id \in Nat
    BY DEF CoreInv, TypeOK, Store, Commit
  <2> QED
    BY <2>1 DEF ExactInv, CoreInv, LogInv, History!Precedes
<1>1. VersionIdsUnique
  <2> SUFFICES ASSUME NEW x \in VisibleVersions(db, sidecar.id), NEW y \in VisibleVersions(db, sidecar.id),
                      x.ver.vid = y.ver.vid
               PROVE  x = y
    BY DEF VersionIdsUnique
  <2>1. PICK m \in db.mark : \E i \in DOMAIN m.versions : x = [id |-> m.id, ord |-> i, ver |-> m.versions[i]]
    BY VisibleVersion
  <2>2. PICK n \in db.mark : \E j \in DOMAIN n.versions : y = [id |-> n.id, ord |-> j, ver |-> n.versions[j]]
    BY VisibleVersion
  <2>3. x.id = y.id /\ x.ord = y.ord
    BY <1>0, VisibleIdOnce
  <2> QED
    BY <1>0, <2>1, <2>2, <2>3
<1>2. LookupNeverRaises
  BY <1>0, NeverRaises DEF LookupNeverRaises
<1> QED
  BY <1>1, <1>2

(* A justified commit passes its own supersession check (get_commit).       *)
LEMMA JustifiedValidates ==
    ASSUME NEW s \in Store, ExactIndex(s), NEW m \in s.mark, Justified(s, m)
    PROVE  Validates(s, m)
<1> SUFFICES ASSUME NEW i \in DOMAIN m.versions, m.versions[i].sup # None
             PROVE  \E x \in Matches(s, m.versions[i].sup, m.id - 1) :
                       Resolves(s, m.versions[i].sup, m.id - 1, x) /\ x.ver.lid = m.versions[i].lid
  BY DEF Validates, SupersessionHolds
<1> DEFINE v == m.versions[i].sup
           h == m.id - 1
<1>1. PICK y \in VisibleVersions(s, h) : y.ver.vid = v /\ y.ver.lid = m.versions[i].lid
  BY DEF Justified
<1>2. y \in Matches(s, v, h)
  BY <1>1 DEF Matches
<1>3. \A z \in Matches(s, v, h) : z.id = y.id
  BY <1>1, VisibleIdOnce DEF Matches
<1>4. y.id \in Nat
  <2>1. PICK n \in s.mark : \E j \in DOMAIN n.versions : y = [id |-> n.id, ord |-> j, ver |-> n.versions[j]]
    BY VisibleVersion
  <2> QED
    BY <2>1 DEF Store, Commit
<1>5. ~LookupRaises(s, v, h)
  BY NeverRaises
<1> HIDE DEF v, h
<1>6. Resolves(s, v, h, y)
  BY <1>2, <1>3, <1>4, <1>5 DEF Resolves
<1> QED
  BY <1>1, <1>2, <1>6 DEF v, h

(* The invariants hold of an empty database.                                *)
LEMMA ConsistentInit == Init => IdxInv /\ JustInv /\ ExactInv
<1> SUFFICES ASSUME Init PROVE IdxInv /\ JustInv /\ ExactInv
  OBVIOUS
<1>1. pc = "idle" /\ db = ws /\ ws.mark = {} /\ ws.idx = {} /\ ws.desc = {} /\ ws.rec = {}
  BY DEF Init, EmptyStore
<1>2. IdxInv
  BY DEF Init, EmptyStore, IdxInv, IndexInv, Published, Indexed, IndexInFlight
<1>3. JustInv
  BY <1>1 DEF JustInv, CommitSteps
<1>4. ExactInv
  BY <1>1 DEF ExactInv, ExactIndex, Indexed, ExactInFlight, CommitSteps
<1> QED
  BY <1>2, <1>3, <1>4

(* What commit_direct accepts makes a consistent history, whatever crashes, *)
(* rolls back or is retried: targets of corrections and retractions are     *)
(* visible, and where indexes are maintained a version id is used once and  *)
(* resolving it never reports corruption.                                   *)
THEOREM Consistent == Spec => []HistoryConsistent
<1>1. Init => IdxInv /\ JustInv /\ ExactInv
  BY ConsistentInit
<1>2. CoreInv /\ JustInv /\ ExactInv => HistoryConsistent
  BY JustWellFormed, ExactHistory DEF HistoryConsistent, Maintained
<1> QED
  BY <1>1, <1>2, CoreInvariant, IndexStep, JustStep, ExactStep, PTL DEF Spec

(* Where indexes are maintained, no rebuild finds a commit that fails its   *)
(* supersession check: rebuild_temporal_indexes, and the reclamation that   *)
(* calls it, do not raise in the middle.                                    *)
NoRebuildRaises == [][Maintained => ~RebuildRaises]_vars

(* RebuildRaises is never taken by a database that maintains its indexes.   *)
THEOREM RebuildNeverRaises == Spec => NoRebuildRaises
<1>1. Init => IdxInv /\ JustInv /\ ExactInv
  BY ConsistentInit
<1>2. CoreInv /\ JustInv /\ ExactInv => (Maintained => ~RebuildRaises)
  <2> SUFFICES ASSUME CoreInv, JustInv, ExactInv, Maintained, RebuildRaises PROVE FALSE
    OBVIOUS
  <2>1. PICK m \in ws.mark : ~Validates(ws, m)
    BY DEF RebuildRaises
  <2>2. ws \in Store /\ ExactIndex(ws) /\ Justified(ws, m)
    BY DEF CoreInv, TypeOK, ExactInv, JustInv
  <2> QED
    BY <2>1, <2>2, JustifiedValidates
<1>3. CoreInv /\ JustInv /\ ExactInv => [Maintained => ~RebuildRaises]_vars
  BY <1>2
<1> QED
  BY <1>1, <1>3, CoreInvariant, IndexStep, JustStep, ExactStep, PTL DEF Spec, NoRebuildRaises

-----------------------------------------------------------------------------
(* The readers.                                                             *)

-----------------------------------------------------------------------------
(* The inductive invariant of a reader, in parts.                           *)

Read ==
    [op : ReadOps \cup {"none"}, phase : ReadPhases, pinned : BOOLEAN, stored : Nat, alloc : Nat,
     at : Nat, h : Nat, gen : Nat, scan : SUBSET (Nat \X Nat), pass : {1, 2},
     admitted : SUBSET Commit, res : SUBSET (Nat \X Nat)]

ReaderTyped ==
    /\ rd \in Read
    /\ cache \in Seq(Commit) /\ pinCache \in Seq(Commit)
    /\ Len(cache) <= MaxCache /\ Len(pinCache) <= MaxCache
    /\ view \in [h : Nat, marks : SUBSET Commit, open : BOOLEAN]
    /\ rd.phase = "marker" => rd.at # 0

(* A commit id has one marker.                                              *)
OneMarker(s) == \A c, d \in s.mark : c.id = d.id => c = d

(* The store of a snapshot scope is a committed one.                        *)
SnapInv ==
    /\ snap \in Store /\ ReservedFirst(snap, sidecar) /\ OneMarker(snap)
    /\ Maintained => ExactIndex(snap)

(* Where the two reads of the sequence stand.                               *)
SequenceInv ==
    /\ rd.phase = "second" => rd.stored <= sidecar.id
    /\ rd.phase = "compare" => rd.stored <= rd.alloc /\ rd.alloc <= sidecar.id

(* No commit through the reader's horizon can still be published.           *)
Settled(s, h) == h = 0 \/ \E m \in s.mark : h <= m.id

HorizonInv == Settled(Source, rd.h)

(* What a lookup has found is in history; what it has not is still to be    *)
(* decoded, unless the generation it reads was replaced.                    *)
Scanned == {"unexpired", "hydrate", "revalidate", "done"}
Looking == Scanned \cup {"started"}

SoundInv ==
    /\ rd.res \subseteq PositionsThrough(Source, rd.h)
    /\ rd.phase \notin {"hydrate", "revalidate", "done"} => rd.res = {}
    /\ rd.phase \in {"revalidate", "done"} => rd.scan = {}

CompleteInv ==
    /\ rd.phase \in Looking => rd.gen <= ActiveGen(Source) /\ (rd.pinned => rd.gen = ActiveGen(snap))
    /\ rd.phase \in Scanned /\ rd.gen = ActiveGen(Source)
         => PositionsThrough(Source, rd.h) \subseteq rd.res \cup rd.scan

(* Generations only grow.                                                   *)
GenInv == db.state.gen <= ws.state.gen

(* With one commit in a transaction, whatever the transaction added belongs *)
(* to the last reserved id.                                                 *)
SingleInv ==
    /\ pc \in CommitSteps /\ inTx => db.seq < cmt.id
    /\ pc \in CommitSteps \ {"sequence"} /\ inTx => ws.seq = cmt.id
    /\ \A d \in (ws.mark \ db.mark) \cup (ws.desc \ db.desc) : d.id = sidecar.id /\ ws.seq # db.seq

(* The prefix of history scanned so far: an id below the last allocated one *)
(* that was skipped stays a gap.                                            *)
PrefixInv ==
    /\ rd.op = "view" => ~rd.pinned /\ rd.pass = 1 /\ rd.phase \in {"first", "second", "compare", "prefix"}
    /\ rd.op = "view" /\ rd.phase # "prefix" => rd.admitted = {}
    /\ rd.phase = "prefix" =>
          /\ rd.op = "view" /\ rd.alloc <= sidecar.id /\ rd.at >= 1
          /\ rd.admitted \subseteq db.mark
          /\ \A m \in rd.admitted : m.id <= rd.alloc /\ m.id < rd.at
          /\ \A m \in db.mark : m.id < rd.at /\ m.id < rd.alloc => m \in rd.admitted
          /\ \A d \in db.desc : d.id < rd.at /\ d.id < rd.alloc => d.id \in VisibleIds(db)

ViewInv ==
    view.open => /\ Markers(db, view.h) = view.marks
                 /\ view.h \in VisibleIds(db) \cup {0}
                 /\ \A d \in db.desc : d.id <= view.h => d.id \in VisibleIds(db)

-----------------------------------------------------------------------------
(* Operators on caches.                                                     *)

(* The elements of a concatenation.                                         *)
LEMMA ConcatPart ==
    ASSUME NEW S, NEW a \in Seq(S), NEW b \in Seq(S)
    PROVE  /\ a \o b \in Seq(S) /\ Len(a \o b) = Len(a) + Len(b)
           /\ Range(a \o b) \subseteq Range(a) \cup Range(b)
<1>1. a \o b \in Seq(S) /\ Len(a \o b) = Len(a) + Len(b) /\ Len(a) \in Nat /\ Len(b) \in Nat
  OBVIOUS
<1>2. DOMAIN (a \o b) = 1..(Len(a) + Len(b)) /\ DOMAIN a = 1..Len(a) /\ DOMAIN b = 1..Len(b)
  BY <1>1
<1>3. ASSUME NEW j \in 1..(Len(a) + Len(b)) PROVE (a \o b)[j] \in Range(a) \cup Range(b)
  <2>1. CASE j <= Len(a)
    <3>1. (a \o b)[j] = a[j] /\ j \in DOMAIN a
      BY <1>1, <1>2, <2>1
    <3> QED
      BY <3>1 DEF Range
  <2>2. CASE j > Len(a)
    <3>1. (a \o b)[j] = b[j - Len(a)] /\ j - Len(a) \in DOMAIN b
      BY <1>1, <1>2, <2>2
    <3> QED
      BY <3>1 DEF Range
  <2> QED
    BY <1>1, <2>1, <2>2
<1> QED
  BY <1>1, <1>2, <1>3 DEF Range

(* Removing a position of a sequence leaves elements of that sequence.      *)
LEMMA RemoveAtPart ==
    ASSUME NEW S, NEW q \in Seq(S), NEW i \in 1..Len(q)
    PROVE  /\ RemoveAt(q, i) \in Seq(S) /\ Len(RemoveAt(q, i)) = Len(q) - 1
           /\ Range(RemoveAt(q, i)) \subseteq Range(q)
<1> DEFINE a == SubSeq(q, 1, i - 1)
           b == SubSeq(q, i + 1, Len(q))
<1>1. a \in Seq(S) /\ Len(a) = i - 1 /\ \A j \in 1..(i - 1) : a[j] = q[j]
  OBVIOUS
<1>2. b \in Seq(S) /\ Len(b) = Len(q) - i /\ \A j \in 1..(Len(q) - i) : b[j] = q[i + j]
  OBVIOUS
<1> HIDE DEF a, b
<1>3. Range(a) \subseteq Range(q)
  BY <1>1 DEF Range
<1>4. Range(b) \subseteq Range(q)
  <2>1. \A n \in Nat : \A j \in 1..(n - i) : i + j \in 1..n
    OBVIOUS
  <2>2. Len(q) \in Nat /\ DOMAIN q = 1..Len(q) /\ DOMAIN b = 1..(Len(q) - i)
    BY <1>2
  <2>3. \A j \in DOMAIN b : i + j \in DOMAIN q /\ b[j] = q[i + j]
    BY <1>2, <2>1, <2>2, Zenon
  <2> QED
    BY <2>3 DEF Range
<1>5. /\ a \o b \in Seq(S) /\ Len(a \o b) = Len(a) + Len(b)
      /\ Range(a \o b) \subseteq Range(a) \cup Range(b)
  BY <1>1, <1>2, ConcatPart, Zenon
<1>6. Len(a) + Len(b) = Len(q) - 1
  <2>1. \A n \in Nat : i <= n => (i - 1) + (n - i) = n - 1
    OBVIOUS
  <2>2. Len(q) \in Nat /\ i <= Len(q)
    OBVIOUS
  <2>3. (i - 1) + (Len(q) - i) = Len(q) - 1
    BY <2>1, <2>2, Zenon
  <2> QED
    BY <1>1, <1>2, <2>3, Zenon
<1>7. RemoveAt(q, i) = a \o b
  BY DEF RemoveAt, a, b
<1>8. Range(a \o b) \subseteq Range(q)
  BY <1>3, <1>4, <1>5
<1> QED
  BY <1>5, <1>6, <1>7, <1>8, Zenon

(* The cache without one commit.                                            *)
LEMMA WithoutPart ==
    ASSUME NEW S, NEW q \in Seq(S), NEW c
    PROVE  /\ Without(q, c) \in Seq(S) /\ Len(Without(q, c)) <= Len(q)
           /\ Range(Without(q, c)) \subseteq Range(q)
<1> DEFINE I == {i \in 1..Len(q) : q[i].id = c}
<1>1. CASE I = {}
  <2>1. Without(q, c) = q
    BY <1>1 DEF Without, RemoveFirstMatch
  <2> QED
    BY <2>1
<1>2. CASE I # {}
  <2>1. Min(I) \in I
    <3>1. I \subseteq Nat
      OBVIOUS
    <3> HIDE DEF I
    <3> QED
      BY <1>2, <3>1, MinExists
  <2>2. Without(q, c) = RemoveAt(q, Min(I))
    BY <1>2 DEF Without, RemoveFirstMatch, SelectInSeq
  <2>3. Min(I) \in 1..Len(q)
    BY <2>1
  <2> HIDE DEF I
  <2> QED
    BY <2>2, <2>3, RemoveAtPart
<1> QED
  BY <1>1, <1>2

(* Admission adds the commit and nothing else, within the bound.            *)
LEMMA AdmitPart ==
    ASSUME NEW S, NEW q \in Seq(S), NEW m \in S, Len(q) <= MaxCache
    PROVE  /\ Admit(q, m) \in Seq(S) /\ Len(Admit(q, m)) <= MaxCache
           /\ Range(Admit(q, m)) \subseteq Range(q) \cup {m}
<1> DEFINE room == Without(q, m.id)
           kept == IF Len(room) >= MaxCache THEN Tail(room) ELSE room
<1>0. MaxCache \in Nat /\ MaxCache >= 1
  BY ReadAssumptions
<1>1. room \in Seq(S) /\ Len(room) <= Len(q) /\ Range(room) \subseteq Range(q)
  BY WithoutPart
<1> HIDE DEF room
<1>2. kept \in Seq(S) /\ Len(kept) < MaxCache /\ Range(kept) \subseteq Range(room)
  <2>1. CASE Len(room) >= MaxCache
    <3>1. room # <<>> /\ Len(room) = MaxCache
      BY <1>0, <1>1, <2>1
    <3>2. kept = Tail(room)
      BY <2>1
    <3>3. kept \in Seq(S) /\ Len(kept) = Len(room) - 1 /\ \A i \in 1..(Len(room) - 1) : kept[i] = room[i + 1]
      BY <1>1, <3>1, <3>2
    <3>4. Range(kept) \subseteq Range(room)
      BY <1>1, <3>3 DEF Range
    <3> QED
      BY <1>0, <3>1, <3>3, <3>4
  <2>2. CASE ~Len(room) >= MaxCache
    BY <1>0, <1>1, <2>2
  <2> QED
    BY <2>1, <2>2
<1> HIDE DEF kept
<1>3. /\ Append(kept, m) \in Seq(S) /\ Len(Append(kept, m)) <= MaxCache
      /\ Range(Append(kept, m)) \subseteq Range(kept) \cup {m}
  <2>1. Append(kept, m) \in Seq(S) /\ Len(Append(kept, m)) = Len(kept) + 1
    BY <1>2
  <2>2. \A i \in 1..(Len(kept) + 1) : Append(kept, m)[i] = IF i = Len(kept) + 1 THEN m ELSE kept[i]
    BY <1>2
  <2>3. Range(Append(kept, m)) \subseteq Range(kept) \cup {m}
    BY <1>2, <2>1, <2>2 DEF Range
  <2> QED
    BY <1>0, <1>2, <2>1, <2>3
<1>4. Admit(q, m) = IF m \in Range(q) THEN q ELSE Append(kept, m)
  BY DEF Admit, kept, room
<1> QED
  BY <1>1, <1>2, <1>3, <1>4

-----------------------------------------------------------------------------
(* Steps of the writer seen by a reader.                                    *)

(* A step of the two together is a step of the writer or leaves its state   *)
(* alone, so that all that is proved of the writer still holds.             *)
LEMMA WriterUndisturbed == [ReadNext]_allVars => [Next]_vars
BY DEF ReadNext, WriterStep, ReadStep, StartRead, ReadSequence, CompareSequence, WalkToHorizon, WalkMarker, CheckStale,
       CheckState, CheckSum, LoadGeneration, ScanStarted, ScanUnexpired, Hydrate, EndPass, Revalidate, Return,
       ScanPrefix, CloseView, Reading, allVars

(* The reader changes nothing the writer uses.                              *)
LEMMA ReaderOnly == ReadStep => UNCHANGED vars
BY DEF ReadStep, StartRead, ReadSequence, CompareSequence, WalkToHorizon, WalkMarker, CheckStale,
       CheckState, CheckSum, LoadGeneration, ScanStarted, ScanUnexpired, Hydrate, EndPass, Revalidate, Return,
       ScanPrefix, CloseView, Reading

(* History through a settled horizon does not change, and later commits     *)
(* leave the horizon settled.                                               *)
LEMMA SettledStep ==
    ASSUME CoreInv, [Next]_vars, NEW h \in Nat, Settled(db, h)
    PROVE  Settled(db', h) /\ Markers(db', h) = Markers(db, h) /\ VisibleVersions(db', h) = VisibleVersions(db, h)
<1>1. db'.mark = db.mark \/ History!Publish
  BY PublishStep DEF CoreInv
<1>2. db.mark \subseteq db'.mark /\ \A c \in db.mark, d \in db'.mark \ db.mark : c.id < d.id
  BY <1>1 DEF History!Publish, History!Precedes
<1>3. db' \in Store /\ db \in Store /\ ReservedFirst(db', sidecar') /\ sidecar' \in [id : Nat, time : Nat]
  BY TypeStep DEF CoreInv, TypeOK
<1>4. \A m \in db'.mark : m.id \in Nat /\ m.id >= 1
  BY <1>3 DEF ReservedFirst
<1>5. \A m \in db'.mark \ db.mark : ~(m.id <= h)
  <2>1. CASE h = 0
    BY <1>4, <2>1
  <2>2. CASE \E c \in db.mark : h <= c.id
    BY <1>2, <1>4, <2>2
  <2> QED
    BY <2>1, <2>2 DEF Settled
<1>6. \A m \in db'.mark : m.id <= h => m \in db.mark
  BY <1>5
<1>7. Markers(db', h) = Markers(db, h)
  BY <1>2, <1>6 DEF Markers
<1>8. VisibleVersions(db', h) = VisibleVersions(db, h)
  BY <1>7 DEF VisibleVersions, Markers
<1> QED
  BY <1>2, <1>7, <1>8 DEF Settled

(* Where indexes are maintained, generations grow.                          *)
LEMMA GenerationStep ==
    ASSUME CoreInv, IdxInv, Maintained, GenInv, [Next]_vars
    PROVE  GenInv' /\ db.state.gen <= db'.state.gen /\ db'.state.gen \in Nat
<1>0. /\ TypeOK /\ ws \in Store /\ db \in Store /\ inTx \in BOOLEAN /\ (~inTx => ws = db) /\ IndexInFlight
      /\ ws.state.gen \in Nat /\ db.state.gen \in Nat /\ db.state.gen <= ws.state.gen /\ db' \in Store
  BY TypeStep DEF CoreInv, IdxInv, Maintained, GenInv, TypeOK, Store
<1>1. ASSUME NEW s, Write(s), s.state.gen \in Nat, ws.state.gen <= s.state.gen
      PROVE  GenInv' /\ db.state.gen <= db'.state.gen
  <2>1. ws' = s /\ (db' = s \/ (inTx /\ db' = db))
    BY <1>0, <1>1 DEF Write
  <2> QED
    BY <1>0, <1>1, <2>1 DEF GenInv
<1>2. CASE PersistIndexState
  <2> DEFINE s == [ws EXCEPT !.state = [through |-> cmt.id, gen |-> ActiveGen(ws),
                                        sum |-> Markers(ws, cmt.id) \cup {Descriptor}]]
  <2>1. Write(s) /\ s.state.gen = ActiveGen(ws)
    BY <1>0, <1>2 DEF PersistIndexState, Store
  <2> HIDE DEF s
  <2> QED
    BY <1>0, <1>1, <2>1 DEF ActiveGen, Store
<1>3. CASE ActivateGeneration
  <2> DEFINE s == [ws EXCEPT !.state = [through |-> reb.horizon, gen |-> reb.gen, sum |-> Markers(ws, reb.horizon)]]
  <2>1. Write(s) /\ s.state.gen = reb.gen /\ reb.gen = ws.state.gen + 1
    BY <1>0, <1>3 DEF ActivateGeneration, IndexInFlight, Store
  <2> HIDE DEF s
  <2> QED
    BY <1>0, <1>1, <2>1 DEF Store
<1>4. CASE CommitTransaction \/ RollbackTransaction \/ Crash
  BY <1>0, <1>4 DEF CommitTransaction, RollbackTransaction, Crash, Abandon, GenInv, Store
<1>5. CASE \/ ReserveSequence \/ BeginTransaction \/ Fail \/ FinishRebuild \/ RebuildRaises \/ UNCHANGED vars
  <2>1. ws' = ws /\ db' = db
    BY <1>5 DEF ReserveSequence, BeginTransaction, Fail, Abandon, FinishRebuild, RebuildRaises, vars
  <2> QED
    BY <1>0, <2>1 DEF GenInv
<1>6. CASE \/ PutSequence \/ PutDescriptor \/ PutRecord \/ DeferIndexes \/ MaintainIndexes \/ PutExactEntries
           \/ PutRangeEntries \/ PutVisibleMarker \/ StartRebuild \/ BuildGeneration \/ ClearStale \/ PruneGeneration
           \/ StartReclaim \/ ReclaimStep
  <2>1. ws'.state = ws.state /\ (db' = ws' \/ db' = db)
    BY <1>0, <1>6 DEF PutSequence, PutDescriptor, PutRecord, DeferIndexes, MaintainIndexes, PutExactEntries,
       PutRangeEntries, PutVisibleMarker, StartRebuild, BuildGeneration, ClearStale, PruneGeneration, StartReclaim,
       ReclaimStep, UnindexOrphans, DeleteOrphanRecord, DeleteOrphanDescriptor, Write, Store
  <2> QED
    BY <1>0, <2>1 DEF GenInv
<1>7. db'.state.gen \in Nat
  BY <1>0 DEF Store
<1> QED
  BY <1>2, <1>3, <1>4, <1>5, <1>6, <1>7 DEF Next, CommitStep, RebuildStep

-----------------------------------------------------------------------------
(* The reader's own state.                                                  *)

(* The store a reader uses is a store, and its cache a cache of commits.    *)
LEMMA SourceTyped ==
    ASSUME CoreInv, SnapInv, ReaderTyped
    PROVE  /\ Source \in Store /\ ReservedFirst(Source, sidecar) /\ OneMarker(Source)
           /\ ScopeCache \in Seq(Commit) /\ Len(ScopeCache) <= MaxCache
<1>1. db \in Store /\ ReservedFirst(db, sidecar)
  BY DEF CoreInv, TypeOK
<1>2. OneMarker(db)
  <2>1. \A c \in db.mark : c.id \in Nat
    BY <1>1 DEF Store, Commit
  <2> QED
    BY <2>1 DEF OneMarker, CoreInv, LogInv, History!Precedes
<1> QED
  BY <1>1, <1>2 DEF Source, ScopeCache, SnapInv, ReaderTyped

(* A horizon is bounded by the newest visible commit that was met.          *)
LEMMA BoundLow ==
    ASSUME ReaderTyped
    PROVE  Bound(rd.at) \in Nat /\ Bound(rd.at) <= rd.at
<1> DEFINE B == {rd.at} \cup (IF view.open THEN {view.h} ELSE {}) \cup (IF rd.pass = 2 THEN {rd.h} ELSE {})
<1>1. B \in SUBSET Nat /\ rd.at \in B
  BY DEF ReaderTyped, Read
<1> HIDE DEF B
<1>2. Min(B) \in B /\ \A y \in B : Min(B) <= y
  BY <1>1, MinExists
<1>3. Bound(rd.at) = Min(B)
  BY DEF Bound, B
<1> QED
  BY <1>1, <1>2, <1>3

(* A scan finds positions.                                                  *)
LEMMA ScanTyped ==
    ASSUME NEW s \in Store, s = Source
    PROVE  LastLocators \subseteq Nat \X Nat /\ \A f : Positions(f) \subseteq Nat \X Nat
<1>1. \A e \in s.idx : e.id \in Nat /\ e.ord \in Nat
  BY DEF Store
<1> QED
  BY <1>1 DEF LastLocators, Positions

(* The caches stay typed whichever scope they belong to.                    *)
LEMMA SetCacheTyped ==
    ASSUME ReaderTyped, NEW c \in Seq(Commit), Len(c) <= MaxCache, SetCache(c)
    PROVE  cache' \in Seq(Commit) /\ pinCache' \in Seq(Commit) /\ Len(cache') <= MaxCache /\ Len(pinCache') <= MaxCache
BY DEF ReaderTyped, SetCache

(* A read that is refused leaves a typed reader.                            *)
LEMMA RefuseTyped ==
    ASSUME ReaderTyped, Refuse
    PROVE  /\ rd' = NoRead /\ rd' \in Read /\ rd'.phase = "idle"
           /\ cache' \in Seq(Commit) /\ pinCache' \in Seq(Commit) /\ Len(cache') <= MaxCache /\ Len(pinCache') <= MaxCache
<1>1. <<>> \in Seq(Commit) /\ Len(<<>>) <= MaxCache /\ rd' = NoRead
  BY ReadAssumptions DEF Refuse
<1>2. NoRead \in Read /\ NoRead.phase = "idle"
  BY DEF NoRead, Read, ReadPhases
<1> QED
  BY <1>1, <1>2, SetCacheTyped DEF Refuse

(* What a step to the next phase keeps.                                     *)
LEMMA ToTyped ==
    ASSUME NEW r \in Read, NEW p \in ReadPhases, To(r, p)
    PROVE  /\ rd' \in Read /\ rd'.phase = p
           /\ rd'.op = r.op /\ rd'.pinned = r.pinned /\ rd'.stored = r.stored /\ rd'.alloc = r.alloc
           /\ rd'.at = r.at /\ rd'.h = r.h /\ rd'.gen = r.gen /\ rd'.scan = r.scan /\ rd'.pass = r.pass
           /\ rd'.admitted = r.admitted /\ rd'.res = r.res
BY DEF To, Read

(* Parts of a read that a step leaves alone.                                *)
SameScope == rd'.op = rd.op /\ rd'.pinned = rd.pinned /\ rd'.pass = rd.pass
SameLookup == rd'.gen = rd.gen /\ rd'.scan = rd.scan /\ rd'.res = rd.res

(* The two reads of the sequence.                                           *)
LEMMA ReadSequenceEffect ==
    ASSUME CoreInv, SnapInv, ReaderTyped, ReadSequence
    PROVE  /\ rd' \in Read /\ SameScope /\ SameLookup /\ rd'.h = rd.h /\ rd'.at = rd.at /\ rd'.admitted = rd.admitted
           /\ \/ rd.phase = "first" /\ rd'.phase = "second" /\ rd'.stored = Source.seq
              \/ rd.phase = "second" /\ rd'.phase = "compare" /\ rd'.stored = rd.stored /\ rd'.alloc = sidecar.id
<1>0. rd \in Read /\ Source.seq \in Nat /\ sidecar.id \in Nat
  BY SourceTyped DEF ReaderTyped, Store, CoreInv, TypeOK
<1>1. CASE rd.phase = "first"
  <2> DEFINE r == [rd EXCEPT !.stored = Source.seq]
  <2>1. To(r, "second")
    BY <1>1 DEF ReadSequence, SequenceOrder
  <2>2. /\ r \in Read /\ r.stored = Source.seq /\ r.op = rd.op /\ r.pinned = rd.pinned /\ r.pass = rd.pass /\ r.gen = rd.gen
        /\ r.scan = rd.scan /\ r.res = rd.res /\ r.h = rd.h /\ r.at = rd.at /\ r.admitted = rd.admitted
    BY <1>0 DEF Read
  <2> HIDE DEF r
  <2> QED
    BY <1>1, <2>1, <2>2, ToTyped DEF ReadPhases, SameScope, SameLookup
<1>2. CASE rd.phase = "second"
  <2> DEFINE r == [rd EXCEPT !.alloc = sidecar.id]
  <2>1. To(r, "compare")
    BY <1>2 DEF ReadSequence, SequenceOrder
  <2>2. /\ r \in Read /\ r.alloc = sidecar.id /\ r.stored = rd.stored /\ r.op = rd.op /\ r.pinned = rd.pinned
        /\ r.pass = rd.pass /\ r.gen = rd.gen
        /\ r.scan = rd.scan /\ r.res = rd.res /\ r.h = rd.h /\ r.at = rd.at /\ r.admitted = rd.admitted
    BY <1>0 DEF Read
  <2> HIDE DEF r
  <2> QED
    BY <1>2, <2>1, <2>2, ToTyped DEF ReadPhases, SameScope, SameLookup
<1> QED
  BY <1>1, <1>2 DEF ReadSequence

(* A sequence that does not trail starts the walk, or the scan of a view.   *)
LEMMA CompareEffect ==
    ASSUME ReaderTyped, CompareSequence, ~(rd.alloc < rd.stored)
    PROVE  /\ rd' \in Read /\ SameScope /\ SameLookup /\ rd'.h = rd.h /\ rd'.admitted = rd.admitted
           /\ \/ rd.op = "view" /\ rd'.phase = "prefix" /\ rd'.at = 1 /\ rd'.alloc = rd.alloc
              \/ rd.op # "view" /\ rd'.phase = "walk"
<1>0. rd \in Read
  BY DEF ReaderTyped
<1> DEFINE r == [rd EXCEPT !.stored = 0, !.alloc = IF rd.op = "view" THEN @ ELSE 0,
                           !.at = IF rd.op = "view" THEN 1 ELSE rd.alloc]
           p == IF rd.op = "view" THEN "prefix" ELSE "walk"
<1>1. To(r, p)
  BY DEF CompareSequence
<1>2. /\ r.op = rd.op /\ r.pinned = rd.pinned /\ r.pass = rd.pass /\ r.gen = rd.gen
      /\ r.scan = rd.scan /\ r.res = rd.res /\ r.h = rd.h /\ r.admitted = rd.admitted
      /\ r.at = (IF rd.op = "view" THEN 1 ELSE rd.alloc) /\ r.alloc = (IF rd.op = "view" THEN rd.alloc ELSE 0)
  BY <1>0 DEF Read
<1>3. r \in Read
  <2>1. CASE rd.op = "view"
    BY <1>0, <2>1 DEF Read
  <2>2. CASE rd.op # "view"
    BY <1>0, <2>2 DEF Read
  <2> QED
    BY <2>1, <2>2
<1>4. p \in ReadPhases
  BY DEF ReadPhases
<1> HIDE DEF r
<1> QED
  BY <1>1, <1>2, <1>3, <1>4, ToTyped DEF SameScope, SameLookup

(* One id of the walk, its descriptor first.                                *)
LEMMA WalkEffect ==
    ASSUME ReaderTyped, WalkToHorizon
    PROVE  /\ rd' \in Read /\ SameScope /\ SameLookup /\ rd'.admitted = rd.admitted
           /\ \/ rd.at = 0 /\ rd'.phase = "stale" /\ rd'.h = 0
              \/ rd.at # 0 /\ rd'.phase = "marker" /\ rd'.at = rd.at /\ rd'.h = rd.h
<1>0. rd \in Read
  BY DEF ReaderTyped
<1>1. CASE rd.at = 0
  <2> DEFINE r == [rd EXCEPT !.h = 0]
  <2>1. To(r, "stale")
    BY <1>1 DEF WalkToHorizon
  <2>2. /\ r \in Read /\ r.h = 0 /\ r.op = rd.op /\ r.pinned = rd.pinned /\ r.pass = rd.pass /\ r.gen = rd.gen
        /\ r.scan = rd.scan /\ r.res = rd.res /\ r.admitted = rd.admitted
    BY <1>0 DEF Read
  <2> HIDE DEF r
  <2> QED
    BY <1>1, <2>1, <2>2, ToTyped DEF ReadPhases, SameScope, SameLookup
<1>2. CASE rd.at # 0
  <2> DEFINE n == IF HasDescriptor(rd.at) THEN 1 ELSE 0
             r == [rd EXCEPT !.stored = n]
  <2>0. n \in Nat
    OBVIOUS
  <2>1. To(r, "marker")
    BY <1>2 DEF WalkToHorizon
  <2> HIDE DEF n
  <2>2. /\ r \in Read /\ r.op = rd.op /\ r.pinned = rd.pinned /\ r.pass = rd.pass /\ r.gen = rd.gen
        /\ r.scan = rd.scan /\ r.res = rd.res /\ r.admitted = rd.admitted /\ r.at = rd.at /\ r.h = rd.h
    BY <1>0, <2>0 DEF Read
  <2> HIDE DEF r
  <2> QED
    BY <1>2, <2>1, <2>2, ToTyped DEF ReadPhases, SameScope, SameLookup
<1> QED
  BY <1>1, <1>2

(* ... and its marker: the walk ends at a visible commit.                   *)
LEMMA MarkerEffect ==
    ASSUME ReaderTyped, WalkMarker, ~Refuse
    PROVE  /\ rd' \in Read /\ SameScope /\ SameLookup /\ rd'.admitted = rd.admitted /\ KeepCaches
           /\ \/ rd'.phase = "walk" /\ rd'.h = rd.h
              \/ MarkerOf(rd.at) # {} /\ rd'.phase = "stale" /\ rd'.h = Bound(rd.at)
<1>0. rd \in Read /\ rd.at - 1 \in Nat /\ Bound(rd.at) \in Nat
  <2>1. rd \in Read /\ rd.at # 0
    BY DEF ReaderTyped, WalkMarker, Reading
  <2>2. rd.at \in Nat
    BY <2>1 DEF Read
  <2>3. Bound(rd.at) \in Nat
    BY BoundLow
  <2> QED
    BY <2>1, <2>2, <2>3
<1>1. CASE MarkerOf(rd.at) = {}
  <2> DEFINE r == [rd EXCEPT !.at = @ - 1, !.stored = 0]
  <2>1. To(r, "walk") /\ KeepCaches
    BY <1>1 DEF WalkMarker
  <2>2. /\ r \in Read /\ r.op = rd.op /\ r.pinned = rd.pinned /\ r.pass = rd.pass /\ r.gen = rd.gen
        /\ r.scan = rd.scan /\ r.res = rd.res /\ r.admitted = rd.admitted /\ r.h = rd.h
    BY <1>0 DEF Read
  <2> HIDE DEF r
  <2> QED
    BY <1>1, <2>1, <2>2, ToTyped DEF ReadPhases, SameScope, SameLookup
<1>2. CASE MarkerOf(rd.at) # {}
  <2> DEFINE b == Bound(rd.at)
             r == [rd EXCEPT !.h = b, !.at = 0, !.stored = 0]
  <2>1. To(r, "stale") /\ KeepCaches
    BY <1>2 DEF WalkMarker
  <2>2. b \in Nat
    BY <1>0
  <2> HIDE DEF b
  <2>3. /\ r \in Read /\ r.op = rd.op /\ r.pinned = rd.pinned /\ r.pass = rd.pass /\ r.gen = rd.gen
        /\ r.scan = rd.scan /\ r.res = rd.res /\ r.admitted = rd.admitted /\ r.h = b
    BY <1>0, <2>2 DEF Read
  <2> HIDE DEF r
  <2>4. rd'.h = b
    BY <2>1, <2>3, ToTyped DEF ReadPhases
  <2> QED
    BY <1>2, <2>1, <2>3, <2>4, ToTyped DEF ReadPhases, SameScope, SameLookup, b
<1> QED
  BY <1>1, <1>2

(* The checks of ensure_temporal_indexes change no more than the phase.     *)
LEMMA CheckEffect ==
    ASSUME CoreInv, SnapInv, ReaderTyped, CheckStale \/ CheckState \/ CheckSum, ~Refuse
    PROVE  /\ rd' \in Read /\ SameScope /\ SameLookup /\ rd'.admitted = rd.admitted /\ rd'.h = rd.h /\ KeepCaches
           /\ rd'.phase \in {"state", "checksum", "generation"}
<1>0. rd \in Read /\ Source.state.through \in Nat
  BY SourceTyped DEF ReaderTyped, Store
<1>1. PICK n \in Nat, p \in {"state", "checksum", "generation"} : To([rd EXCEPT !.at = n], p) /\ KeepCaches
  <2>1. rd = [rd EXCEPT !.at = rd.at] /\ rd.at \in Nat
    BY <1>0 DEF Read
  <2>2. CASE CheckStale
    BY <2>1, <2>2 DEF CheckStale
  <2>3. CASE CheckState
    BY <1>0, <2>1, <2>3 DEF CheckState
  <2>4. CASE CheckSum
    BY <2>4 DEF CheckSum
  <2> QED
    BY <2>2, <2>3, <2>4
<1> DEFINE r == [rd EXCEPT !.at = n]
<1>2. /\ r \in Read /\ r.op = rd.op /\ r.pinned = rd.pinned /\ r.pass = rd.pass /\ r.gen = rd.gen
      /\ r.scan = rd.scan /\ r.res = rd.res /\ r.admitted = rd.admitted /\ r.h = rd.h
  BY <1>0 DEF Read
<1>3. p \in ReadPhases /\ To(r, p)
  BY <1>1 DEF ReadPhases
<1> HIDE DEF r
<1> QED
  BY <1>1, <1>2, <1>3, ToTyped DEF SameScope, SameLookup

(* The generation a lookup reads.                                           *)
LEMMA GenerationEffect ==
    ASSUME CoreInv, SnapInv, ReaderTyped, LoadGeneration
    PROVE  /\ rd' \in Read /\ SameScope /\ rd'.scan = rd.scan /\ rd'.res = rd.res /\ rd'.h = rd.h
           /\ rd'.phase = "started" /\ rd'.gen = ActiveGen(Source)
<1>0. rd \in Read /\ ActiveGen(Source) \in Nat /\ MarkerOf(rd.h) \subseteq Commit
  BY SourceTyped DEF ReaderTyped, Store, ActiveGen, MarkerOf
<1> DEFINE a == IF rd.op = "claims" THEN rd.admitted \cup MarkerOf(rd.h) ELSE rd.admitted
           g == ActiveGen(Source)
           r == [rd EXCEPT !.gen = g, !.admitted = a]
<1>1. To(r, "started")
  BY DEF LoadGeneration
<1>2. a \subseteq Commit /\ g \in Nat
  BY <1>0 DEF Read
<1> HIDE DEF a, g
<1>3. /\ r \in Read /\ r.op = rd.op /\ r.pinned = rd.pinned /\ r.pass = rd.pass /\ r.gen = g
      /\ r.scan = rd.scan /\ r.res = rd.res /\ r.h = rd.h
  BY <1>0, <1>2 DEF Read
<1> HIDE DEF r
<1> QED
  BY <1>1, <1>3, ToTyped DEF SameScope, ReadPhases, g

(* The scans.                                                               *)
LEMMA ScanEffect ==
    ASSUME CoreInv, SnapInv, ReaderTyped, ScanStarted \/ ScanUnexpired
    PROVE  /\ rd' \in Read /\ SameScope /\ rd'.gen = rd.gen /\ rd'.res = rd.res /\ rd'.h = rd.h
           /\ rd'.phase \in {"hydrate", "unexpired"}
           /\ \/ rd.phase = "started" /\ rd'.scan \in {LastLocators, Positions("range")}
              \/ rd.phase = "unexpired" /\ rd'.scan = rd.scan \cap Positions("range")
<1>0. rd \in Read /\ LastLocators \subseteq Nat \X Nat /\ Positions("range") \subseteq Nat \X Nat
  BY SourceTyped, ScanTyped DEF ReaderTyped
<1>1. PICK q \in SUBSET (Nat \X Nat), p \in {"hydrate", "unexpired"} :
        /\ To([rd EXCEPT !.scan = q], p)
        /\ \/ rd.phase = "started" /\ q \in {LastLocators, Positions("range")}
           \/ rd.phase = "unexpired" /\ q = rd.scan \cap Positions("range")
  <2>1. CASE ScanStarted /\ rd.op = "version"
    BY <1>0, <2>1 DEF ScanStarted, Reading
  <2>2. CASE ScanStarted /\ rd.op # "version"
    BY <1>0, <2>2 DEF ScanStarted, Reading
  <2>3. CASE ScanUnexpired
    <3>1. rd.scan \cap Positions("range") \in SUBSET (Nat \X Nat)
      BY <1>0
    <3> QED
      BY <2>3, <3>1 DEF ScanUnexpired, Reading
  <2> QED
    BY <2>1, <2>2, <2>3
<1>2. q \subseteq Nat \X Nat
  BY <1>0, <1>1
<1> DEFINE r == [rd EXCEPT !.scan = q]
<1>3. /\ r \in Read /\ r.op = rd.op /\ r.pinned = rd.pinned /\ r.pass = rd.pass /\ r.gen = rd.gen
      /\ r.scan = q /\ r.res = rd.res /\ r.h = rd.h
  BY <1>0, <1>2 DEF Read
<1>4. p \in ReadPhases /\ To(r, p)
  BY <1>1 DEF ReadPhases
<1> HIDE DEF r
<1> QED
  BY <1>1, <1>3, <1>4, ToTyped DEF SameScope

(* A pass ends: the next begins afresh, or the read is over.                *)
LEMMA EndPassEffect ==
    ASSUME ReaderTyped, EndPass
    PROVE  /\ rd' \in Read /\ rd'.op = rd.op /\ rd'.pinned = rd.pinned /\ rd'.gen = rd.gen
           /\ rd'.scan = rd.scan /\ rd.scan = {} /\ rd'.h = rd.h
           /\ \/ rd'.phase \in {"first", "generation"} /\ rd'.res = {} /\ rd.op \in {"nodes", "claims"}
              \/ rd'.phase \in {"revalidate", "done"} /\ rd'.res = rd.res
<1>0. rd \in Read
  BY DEF ReaderTyped
<1>1. CASE rd.pass = 1 /\ rd.op \in {"nodes", "claims"} /\ rd.res # {}
  <2> DEFINE r == [rd EXCEPT !.pass = 2, !.res = {}]
             p == IF rd.op = "nodes" THEN "first" ELSE "generation"
  <2>1. To(r, p)
    BY <1>1 DEF EndPass
  <2>2. /\ r \in Read /\ r.op = rd.op /\ r.pinned = rd.pinned /\ r.gen = rd.gen
        /\ r.scan = rd.scan /\ r.res = {} /\ r.h = rd.h
    BY <1>0 DEF Read
  <2>3. p \in ReadPhases /\ p \in {"first", "generation"}
    BY DEF ReadPhases
  <2> HIDE DEF r, p
  <2> QED
    BY <1>1, <2>1, <2>2, <2>3, ToTyped DEF EndPass
<1>2. CASE ~(rd.pass = 1 /\ rd.op \in {"nodes", "claims"} /\ rd.res # {})
  <2> DEFINE p == IF rd.op = "claims" THEN "revalidate" ELSE "done"
  <2>1. To(rd, p)
    BY <1>2 DEF EndPass
  <2>2. p \in ReadPhases /\ p \in {"revalidate", "done"}
    BY DEF ReadPhases
  <2> HIDE DEF p
  <2> QED
    BY <1>0, <2>1, <2>2, ToTyped DEF EndPass
<1> QED
  BY <1>1, <1>2

(* The last check of a claim read.                                          *)
LEMMA RevalidateEffect ==
    ASSUME ReaderTyped, Revalidate, ~Refuse
    PROVE  /\ rd' \in Read /\ SameScope /\ SameLookup /\ rd'.h = rd.h /\ rd'.phase = "done" /\ KeepCaches
<1>0. rd \in Read /\ To(rd, "done") /\ KeepCaches
  BY DEF ReaderTyped, Revalidate
<1> QED
  BY <1>0, ToTyped DEF SameScope, SameLookup, ReadPhases

(* One commit of a lookup: skipped, decoded, or the read is refused.        *)
LEMMA HydrateEffect ==
    ASSUME CoreInv, SnapInv, ReaderTyped, CachesFaithful, Hydrate, ~Refuse
    PROVE  \E c : /\ rd' \in Read /\ SameScope /\ rd'.h = rd.h /\ rd'.gen = rd.gen /\ rd'.phase = "hydrate"
                  /\ rd'.scan = {p \in rd.scan : p[1] # c}
                  /\ \/ /\ rd'.res = rd.res /\ (c > rd.h \/ MarkerOf(c) = {})
                        /\ KeepCaches \/ SetCache(Without(ScopeCache, c))
                     \/ \E m \in MarkerOf(c) : /\ rd'.res = rd.res \cup Decoded(m)
                                               /\ KeepCaches \/ SetCache(Admit(ScopeCache, m))
<1> DEFINE c == Min({p[1] : p \in rd.scan})
           rest == {p \in rd.scan : p[1] # c}
           found(m) == [rd EXCEPT !.scan = rest, !.res = @ \cup Decoded(m),
                                  !.admitted = IF rd.op = "claims" THEN @ \cup {m} ELSE @]
           none == [rd EXCEPT !.scan = rest]
<1>0. rd \in Read /\ Source \in Store /\ rd.phase = "hydrate"
  BY SourceTyped DEF ReaderTyped, Hydrate, Reading
<1>1. \/ rd' = none /\ KeepCaches /\ c > rd.h
      \/ \E m \in Cached(c) : rd' = found(m) /\ KeepCaches /\ rd.pinned
      \/ rd' = none /\ SetCache(Without(ScopeCache, c)) /\ MarkerOf(c) = {}
      \/ \E m \in MarkerOf(c) : rd' = found(m) /\ SetCache(Admit(ScopeCache, m))
  BY DEF Hydrate, Reusable
<1>2. ASSUME NEW m \in Cached(c), rd.pinned PROVE m \in MarkerOf(c)
  BY <1>2 DEF Cached, MarkerOf, ScopeCache, Source, CachesFaithful
<1>3. ASSUME rd' = none
      PROVE  /\ rd' \in Read /\ SameScope /\ rd'.h = rd.h /\ rd'.gen = rd.gen /\ rd'.phase = "hydrate"
             /\ rd'.scan = rest /\ rd'.res = rd.res
  BY <1>0, <1>3 DEF Read, SameScope
<1>4. ASSUME NEW m \in MarkerOf(c), rd' = found(m)
      PROVE  /\ rd' \in Read /\ SameScope /\ rd'.h = rd.h /\ rd'.gen = rd.gen /\ rd'.phase = "hydrate"
             /\ rd'.scan = rest /\ rd'.res = rd.res \cup Decoded(m)
  <2>1. m \in Commit /\ Decoded(m) \subseteq rd.scan
    BY <1>0 DEF MarkerOf, Store, Decoded
  <2> DEFINE dm == Decoded(m)
             am == IF rd.op = "claims" THEN rd.admitted \cup {m} ELSE rd.admitted
  <2>2. rd' = [rd EXCEPT !.scan = rest, !.res = rd.res \cup dm, !.admitted = am]
    BY <1>4
  <2>3. rest \subseteq Nat \X Nat /\ rd.res \cup dm \subseteq Nat \X Nat /\ am \subseteq Commit
    BY <1>0, <2>1 DEF Read
  <2> HIDE DEF rest, dm, am
  <2>4. /\ rd' \in Read /\ SameScope /\ rd'.h = rd.h /\ rd'.gen = rd.gen /\ rd'.phase = "hydrate"
        /\ rd'.scan = rest /\ rd'.res = rd.res \cup dm
    BY <1>0, <2>2, <2>3 DEF Read, SameScope
  <2> QED
    BY <2>4 DEF dm
<1> HIDE DEF found, none
<1>5. CASE rd' = none /\ KeepCaches /\ c > rd.h
  BY <1>3, <1>5
<1>6. CASE \E m \in Cached(c) : rd' = found(m) /\ KeepCaches /\ rd.pinned
  BY <1>2, <1>4, <1>6
<1>7. CASE rd' = none /\ SetCache(Without(ScopeCache, c)) /\ MarkerOf(c) = {}
  BY <1>3, <1>7
<1>8. CASE \E m \in MarkerOf(c) : rd' = found(m) /\ SetCache(Admit(ScopeCache, m))
  BY <1>4, <1>8
<1> QED
  BY <1>1, <1>5, <1>6, <1>7, <1>8

-----------------------------------------------------------------------------
(* The parts of the invariant, step by step.                                *)

(* A read that starts.                                                      *)
LEMMA StartEffect ==
    ASSUME StartRead
    PROVE  /\ rd' \in Read /\ rd'.phase = "first" /\ rd'.op \in ReadOps /\ rd'.pass = 1 /\ rd'.h = 0
           /\ rd'.res = {} /\ rd'.admitted = {} /\ pinCache' = <<>> /\ cache' = cache /\ view' = view
           /\ \/ rd'.pinned /\ rd'.op # "view" /\ snap' = db
              \/ ~rd'.pinned /\ snap' = EmptyStore
<1>1. PICK op \in ReadOps, pinned \in BOOLEAN :
        /\ op = "view" => ~pinned
        /\ rd' = [NoRead EXCEPT !.op = op, !.pinned = pinned, !.phase = "first"]
        /\ snap' = IF pinned THEN db ELSE EmptyStore
  BY DEF StartRead
<1>2. /\ rd' \in Read /\ rd'.phase = "first" /\ rd'.op = op /\ rd'.pinned = pinned /\ rd'.pass = 1 /\ rd'.h = 0
      /\ rd'.res = {} /\ rd'.admitted = {}
  BY <1>1 DEF NoRead, Read, ReadPhases
<1> QED
  BY <1>1, <1>2 DEF StartRead

(* Every step keeps the reader typed and its caches within their bound.     *)
LEMMA ReaderTypedStep == CoreInv /\ SnapInv /\ ReaderTyped /\ CachesFaithful /\ [ReadNext]_allVars => ReaderTyped'
<1> SUFFICES ASSUME CoreInv, SnapInv, ReaderTyped, CachesFaithful, [ReadNext]_allVars PROVE ReaderTyped'
  OBVIOUS
<1>0. /\ rd \in Read /\ ScopeCache \in Seq(Commit) /\ Len(ScopeCache) <= MaxCache /\ Source \in Store
      /\ cache \in Seq(Commit) /\ pinCache \in Seq(Commit) /\ Len(cache) <= MaxCache /\ Len(pinCache) <= MaxCache
      /\ view \in [h : Nat, marks : SUBSET Commit, open : BOOLEAN]
  BY SourceTyped DEF ReaderTyped
<1>e. <<>> \in Seq(Commit) /\ Len(<<>>) <= MaxCache
  BY ReadAssumptions
<1>n. NoRead \in Read /\ NoRead.phase = "idle" /\ NoView \in [h : Nat, marks : SUBSET Commit, open : BOOLEAN]
  BY DEF NoRead, Read, ReadPhases, NoView
<1>r. CASE Refuse /\ view' = view
  BY <1>0, <1>r, RefuseTyped DEF ReaderTyped
<1>k. ASSUME rd' \in Read, rd'.phase = "marker" => rd'.at # 0, KeepCaches, view' = view
      PROVE  ReaderTyped'
  BY <1>0, <1>k DEF KeepCaches, ReaderTyped
<1>1. CASE WriterStep \/ UNCHANGED allVars
  BY <1>1 DEF WriterStep, allVars, readVars, ReaderTyped
<1>2. CASE StartRead
  BY <1>0, <1>2, <1>e, StartEffect DEF ReaderTyped
<1>3. CASE ReadSequence
  BY <1>3, <1>k, ReadSequenceEffect DEF ReadSequence
<1>4. CASE CompareSequence
  <2>1. CASE rd.alloc < rd.stored
    BY <1>4, <1>r, <2>1 DEF CompareSequence
  <2>2. CASE ~(rd.alloc < rd.stored)
    BY <1>4, <1>k, <2>2, CompareEffect DEF CompareSequence
  <2> QED
    BY <2>1, <2>2
<1>5. CASE WalkToHorizon
  BY <1>5, <1>k, WalkEffect DEF WalkToHorizon
<1>6. CASE WalkMarker
  BY <1>6, <1>k, <1>r, MarkerEffect DEF WalkMarker
<1>7. CASE CheckStale \/ CheckState \/ CheckSum
  <2>1. view' = view
    BY <1>7 DEF CheckStale, CheckState, CheckSum
  <2> QED
    BY <1>7, <1>k, <1>r, <2>1, CheckEffect
<1>8. CASE LoadGeneration
  BY <1>8, <1>k, GenerationEffect DEF LoadGeneration
<1>9. CASE ScanStarted \/ ScanUnexpired
  <2>1. view' = view /\ KeepCaches
    BY <1>9 DEF ScanStarted, ScanUnexpired
  <2> QED
    BY <1>9, <1>k, <2>1, ScanEffect
<1>10. CASE Hydrate
  <2>1. CASE Refuse
    BY <1>10, <1>r, <2>1 DEF Hydrate
  <2>2. CASE ~Refuse
    <3>1. PICK c : /\ rd' \in Read /\ rd'.phase = "hydrate"
                   /\ \/ KeepCaches \/ SetCache(Without(ScopeCache, c))
                      \/ \E m \in MarkerOf(c) : SetCache(Admit(ScopeCache, m))
      BY <1>10, <2>2, HydrateEffect
    <3>2. view' = view
      BY <1>10 DEF Hydrate
    <3>3. CASE KeepCaches
      BY <1>k, <3>1, <3>2, <3>3
    <3>4. CASE SetCache(Without(ScopeCache, c))
      <4>1. Without(ScopeCache, c) \in Seq(Commit) /\ Len(Without(ScopeCache, c)) <= Len(ScopeCache)
        BY <1>0, WithoutPart
      <4>2. Len(Without(ScopeCache, c)) <= MaxCache
        <5>1. \A i, j, k \in Nat : i <= j /\ j <= k => i <= k
          OBVIOUS
        <5>2. Len(Without(ScopeCache, c)) \in Nat /\ Len(ScopeCache) \in Nat /\ MaxCache \in Nat
          BY <1>0, <4>1, ReadAssumptions
        <5> QED
          BY <1>0, <4>1, <5>1, <5>2, Zenon
      <4>3. cache' \in Seq(Commit) /\ pinCache' \in Seq(Commit) /\ Len(cache') <= MaxCache /\ Len(pinCache') <= MaxCache
        BY <3>4, <4>1, <4>2, SetCacheTyped
      <4> QED
        BY <1>0, <3>1, <3>2, <4>3 DEF ReaderTyped
    <3>5. CASE \E m \in MarkerOf(c) : SetCache(Admit(ScopeCache, m))
      <4>1. PICK m \in MarkerOf(c) : SetCache(Admit(ScopeCache, m))
        BY <3>5
      <4>2. m \in Commit
        BY <1>0 DEF MarkerOf, Store
      <4>3. Admit(ScopeCache, m) \in Seq(Commit) /\ Len(Admit(ScopeCache, m)) <= MaxCache
        BY <1>0, <4>2, AdmitPart
      <4>4. cache' \in Seq(Commit) /\ pinCache' \in Seq(Commit) /\ Len(cache') <= MaxCache /\ Len(pinCache') <= MaxCache
        BY <4>1, <4>3, SetCacheTyped
      <4> QED
        BY <1>0, <3>1, <3>2, <4>4 DEF ReaderTyped
    <3> QED
      BY <3>1, <3>3, <3>4, <3>5
  <2> QED
    BY <2>1, <2>2
<1>11. CASE EndPass
  BY <1>11, <1>k, EndPassEffect DEF EndPass
<1>12. CASE Revalidate
  BY <1>12, <1>k, <1>r, RevalidateEffect DEF Revalidate
<1>13. CASE Return
  BY <1>0, <1>13, <1>e, <1>n DEF Return, ReaderTyped
<1>14. CASE ScanPrefix
  <2>1. CASE rd' = NoRead
    <3>1. CASE view' = view
      BY <1>0, <1>14, <1>n, <2>1, <3>1 DEF ScanPrefix, KeepCaches, ReaderTyped
    <3>2. CASE view' # view
      <4>1. PICK h \in {0} \cup {m.id : m \in rd.admitted} :
              view' = [h |-> h, marks |-> {m \in rd.admitted : m.id <= h}, open |-> TRUE]
        BY <1>14, <3>2 DEF ScanPrefix
      <4>2. rd.admitted \subseteq Commit /\ \A m \in Commit : m.id \in Nat
        BY <1>0 DEF Read, Commit
      <4>3. h \in Nat /\ {m \in rd.admitted : m.id <= h} \in SUBSET Commit
        BY <4>2
      <4>4. view' \in [h : Nat, marks : SUBSET Commit, open : BOOLEAN]
        BY <4>1, <4>3
      <4> QED
        BY <1>0, <1>14, <1>n, <2>1, <4>4 DEF ScanPrefix, KeepCaches, ReaderTyped
    <3> QED
      BY <3>1, <3>2
  <2>2. CASE rd' = [rd EXCEPT !.at = @ + 1, !.admitted = @ \cup MarkerOf(rd.at)] /\ UNCHANGED view
    <3> DEFINE a == rd.admitted \cup MarkerOf(rd.at)
    <3>1. a \subseteq Commit /\ rd.at + 1 \in Nat
      BY <1>0 DEF MarkerOf, Store, Read
    <3>2. rd' = [rd EXCEPT !.at = rd.at + 1, !.admitted = a] /\ rd.phase = "prefix" /\ KeepCaches
      BY <1>14, <2>2 DEF ScanPrefix, Reading
    <3> HIDE DEF a
    <3>3. rd' \in Read /\ rd'.phase = "prefix"
      BY <1>0, <3>1, <3>2 DEF Read
    <3> QED
      BY <1>k, <2>2, <3>2, <3>3
  <2> QED
    BY <1>14, <2>1, <2>2 DEF ScanPrefix
<1>15. CASE CloseView
  BY <1>0, <1>15, <1>n DEF CloseView, ReaderTyped
<1> QED
  BY <1>1, <1>2, <1>3, <1>4, <1>5, <1>6, <1>7, <1>8, <1>9, <1>10, <1>11, <1>12, <1>13, <1>14, <1>15 DEF ReadNext, ReadStep

(* Reservations only grow.                                                  *)
LEMMA SidecarGrows ==
    ASSUME CoreInv, [Next]_vars
    PROVE  /\ sidecar \in [id : Nat, time : Nat] /\ sidecar' \in [id : Nat, time : Nat]
           /\ sidecar.id <= sidecar'.id /\ sidecar.time <= sidecar'.time
<1>1. sidecar \in [id : Nat, time : Nat] /\ sidecar' \in [id : Nat, time : Nat]
  BY TypeStep DEF CoreInv, TypeOK
<1>2. CASE ReserveSequence
  <2>1. PICK now \in Clocks : sidecar' = [id |-> NextId, time |-> NextTime(now)]
    BY <1>2 DEF ReserveSequence, ReplaceSidecar
  <2> QED
    BY <1>1, <2>1, AllocatorAdvances DEF CoreInv
<1>3. CASE ~ReserveSequence
  <2>1. sidecar' = sidecar
    BY <1>3 DEF Next, CommitStep, PutSequence, PutDescriptor, PutRecord, DeferIndexes, MaintainIndexes, PutExactEntries,
       PutRangeEntries, PersistIndexState, PutVisibleMarker, StartRebuild, RebuildStep, BuildGeneration,
       ActivateGeneration, ClearStale, PruneGeneration, FinishRebuild, RebuildRaises, StartReclaim, ReclaimStep,
       UnindexOrphans, DeleteOrphanRecord, DeleteOrphanDescriptor, BeginTransaction, CommitTransaction,
       RollbackTransaction, Crash, Fail, Abandon, vars
  <2> QED
    BY <1>1, <2>1
<1> QED
  BY <1>2, <1>3

(* A snapshot stays what it was when its scope opened.                      *)
LEMMA SnapStep == CoreInv /\ ExactInv /\ ReaderTyped /\ SnapInv /\ [ReadNext]_allVars => SnapInv'
<1> SUFFICES ASSUME CoreInv, ExactInv, ReaderTyped, SnapInv, [ReadNext]_allVars PROVE SnapInv'
  OBVIOUS
<1>1. [Next]_vars
  BY WriterUndisturbed
<1>2. /\ sidecar \in [id : Nat, time : Nat] /\ sidecar' \in [id : Nat, time : Nat]
      /\ sidecar.id <= sidecar'.id /\ sidecar.time <= sidecar'.time /\ Maintained' = Maintained
  BY <1>1, SidecarGrows, DepFixed DEF Maintained
<1>3. snap' \in {snap, db, EmptyStore}
  BY DEF ReadNext, ReadStep, WriterStep, StartRead, ReadSequence, CompareSequence, WalkToHorizon, WalkMarker, CheckStale,
     CheckState, CheckSum, LoadGeneration, ScanStarted, ScanUnexpired, Hydrate, EndPass, Revalidate, Return,
     ScanPrefix, CloseView, Reading, allVars, readVars
<1>4. ASSUME NEW s \in Store, ReservedFirst(s, sidecar), OneMarker(s), Maintained => ExactIndex(s), snap' = s
      PROVE  SnapInv'
  <2>1. ReservedFirst(s, sidecar')
    BY <1>2, <1>4, ReservedGrows
  <2> QED
    BY <1>2, <1>4, <2>1 DEF SnapInv
<1>5. CASE snap' = snap
  BY <1>4, <1>5 DEF SnapInv
<1>6. CASE snap' = db
  <2>1. db \in Store /\ ReservedFirst(db, sidecar) /\ OneMarker(db)
    <3>1. db \in Store /\ ReservedFirst(db, sidecar) /\ \A c \in db.mark : c.id \in Nat
      BY DEF CoreInv, TypeOK, Store, Commit
    <3> QED
      BY <3>1 DEF OneMarker, CoreInv, LogInv, History!Precedes
  <2> QED
    BY <1>4, <1>6, <2>1 DEF ExactInv
<1>7. CASE snap' = EmptyStore
  <2>1. EmptyStore \in Store
    BY DEF EmptyStore, NoState, Store
  <2>2. ReservedFirst(EmptyStore, sidecar) /\ OneMarker(EmptyStore)
    BY <1>2 DEF EmptyStore, NoState, ReservedFirst, OneMarker
  <2>3. ExactIndex(EmptyStore)
    BY DEF EmptyStore, ExactIndex, Indexed
  <2> QED
    BY <1>4, <1>7, <2>1, <2>2, <2>3
<1> QED
  BY <1>3, <1>5, <1>6, <1>7

(* Committed markers are never taken back.                                  *)
LEMMA MarksGrow == CoreInv /\ [Next]_vars => db.mark \subseteq db'.mark
BY PublishStep DEF CoreInv, History!Publish

(* Caches are filled from markers that were read.                           *)
LEMMA CachesStep ==
    CoreInv /\ SnapInv /\ ReaderTyped /\ CachesFaithful /\ [ReadNext]_allVars => CachesFaithful'
<1> SUFFICES ASSUME CoreInv, SnapInv, ReaderTyped, CachesFaithful, [ReadNext]_allVars PROVE CachesFaithful'
  OBVIOUS
<1>0. ScopeCache \in Seq(Commit) /\ Len(ScopeCache) <= MaxCache /\ Source \in Store
  BY SourceTyped
<1>e. Range(<<>>) = {}
  BY DEF Range
<1>g. db.mark \subseteq db'.mark
  BY WriterUndisturbed, MarksGrow
<1>s. Range(ScopeCache) \subseteq Source.mark
  BY DEF ScopeCache, Source, CachesFaithful
<1>c. ASSUME NEW q, Range(q) \subseteq Source.mark, SetCache(q), UNCHANGED <<vars, snap>> PROVE CachesFaithful'
  BY <1>c DEF SetCache, Source, CachesFaithful, vars
<1>r. CASE Refuse /\ UNCHANGED <<vars, snap>>
  BY <1>c, <1>e, <1>r DEF Refuse
<1>k. CASE KeepCaches /\ UNCHANGED snap
  BY <1>g, <1>k DEF KeepCaches, CachesFaithful
<1>1. CASE WriterStep \/ UNCHANGED allVars
  BY <1>1, <1>g DEF WriterStep, allVars, readVars, CachesFaithful
<1>2. CASE StartRead \/ Return
  BY <1>2, <1>e, <1>g DEF StartRead, Return, CachesFaithful
<1>3. CASE \/ ReadSequence \/ CompareSequence \/ WalkToHorizon \/ WalkMarker \/ CheckStale \/ CheckState \/ CheckSum
           \/ LoadGeneration \/ ScanStarted \/ ScanUnexpired \/ EndPass \/ Revalidate \/ ScanPrefix \/ CloseView
  <2>1. UNCHANGED <<vars, snap>> /\ (KeepCaches \/ Refuse)
    BY <1>3 DEF ReadSequence, CompareSequence, WalkToHorizon, WalkMarker, CheckStale, CheckState, CheckSum,
       LoadGeneration, ScanStarted, ScanUnexpired, EndPass, Revalidate, ScanPrefix, CloseView, Reading, KeepCaches
  <2> QED
    BY <1>k, <1>r, <2>1
<1>4. CASE Hydrate
  <2>0. UNCHANGED <<vars, snap>>
    BY <1>4 DEF Hydrate, Reading
  <2>1. CASE Refuse
    BY <1>r, <2>0, <2>1
  <2>2. CASE ~Refuse
    <3>1. PICK c : \/ KeepCaches \/ SetCache(Without(ScopeCache, c))
                   \/ \E m \in MarkerOf(c) : SetCache(Admit(ScopeCache, m))
      BY <1>4, <2>2, HydrateEffect
    <3>2. CASE SetCache(Without(ScopeCache, c))
      <4>1. Range(Without(ScopeCache, c)) \subseteq Source.mark
        BY <1>0, <1>s, WithoutPart
      <4> QED
        BY <1>c, <2>0, <3>2, <4>1
    <3>3. CASE \E m \in MarkerOf(c) : SetCache(Admit(ScopeCache, m))
      <4>1. PICK m \in MarkerOf(c) : SetCache(Admit(ScopeCache, m))
        BY <3>3
      <4>2. m \in Commit /\ m \in Source.mark
        BY <1>0 DEF MarkerOf, Store
      <4>3. Range(Admit(ScopeCache, m)) \subseteq Source.mark
        BY <1>0, <1>s, <4>2, AdmitPart
      <4> QED
        BY <1>c, <2>0, <4>1, <4>3
    <3> QED
      BY <1>k, <2>0, <3>1, <3>2, <3>3
  <2> QED
    BY <2>1, <2>2
<1> QED
  BY <1>1, <1>2, <1>3, <1>4 DEF ReadNext, ReadStep

(* A read in progress goes on with the same store.                          *)
LEMMA SourceSame ==
    ASSUME rd'.pinned = rd.pinned, UNCHANGED <<vars, snap>>
    PROVE  Source' = Source
BY DEF Source, vars

(* Only the middle of the sequence reads matters to their comparison.       *)
LEMMA SequenceStep ==
    CoreInv /\ SnapInv /\ ReaderTyped /\ CachesFaithful /\ SequenceInv /\ [ReadNext]_allVars => SequenceInv'
<1> SUFFICES ASSUME CoreInv, SnapInv, ReaderTyped, CachesFaithful, SequenceInv, [ReadNext]_allVars PROVE SequenceInv'
  OBVIOUS
<1>0. rd \in Read /\ sidecar.id \in Nat /\ sidecar'.id \in Nat /\ sidecar.id <= sidecar'.id
  BY WriterUndisturbed, SidecarGrows DEF ReaderTyped
<1>1. CASE WriterStep \/ UNCHANGED allVars \/ CloseView
  <2>1. rd' = rd
    BY <1>1 DEF WriterStep, CloseView, allVars, readVars
  <2>2. rd.stored \in Nat /\ rd.alloc \in Nat
    BY <1>0 DEF Read
  <2> QED
    BY <1>0, <2>1, <2>2 DEF SequenceInv
<1>2. CASE rd' = NoRead
  BY <1>2 DEF NoRead, SequenceInv
<1>3. CASE ReadSequence
  <2>1. Source.seq <= sidecar.id /\ sidecar' = sidecar
    BY <1>3, SourceTyped DEF ReservedFirst, ReadSequence, vars
  <2> QED
    BY <1>0, <1>3, <2>1, ReadSequenceEffect DEF SequenceInv
<1>4. CASE rd'.phase \notin {"second", "compare"}
  BY <1>4 DEF SequenceInv
<1>5. CASE StartRead
  BY <1>4, <1>5, StartEffect
<1>6. CASE CompareSequence
  BY <1>2, <1>4, <1>6, CompareEffect DEF CompareSequence, Refuse
<1>7. CASE WalkToHorizon \/ WalkMarker
  BY <1>2, <1>4, <1>7, WalkEffect, MarkerEffect DEF Refuse
<1>8. CASE CheckStale \/ CheckState \/ CheckSum
  BY <1>2, <1>4, <1>8, CheckEffect DEF Refuse
<1>9. CASE LoadGeneration \/ ScanStarted \/ ScanUnexpired
  BY <1>4, <1>9, GenerationEffect, ScanEffect
<1>10. CASE Hydrate
  BY <1>2, <1>4, <1>10, HydrateEffect DEF Refuse
<1>11. CASE EndPass
  BY <1>4, <1>11, EndPassEffect
<1>12. CASE Revalidate
  BY <1>2, <1>4, <1>12, RevalidateEffect DEF Refuse
<1>13. CASE Return
  BY <1>2, <1>13 DEF Return
<1>14. CASE ScanPrefix
  <2>1. CASE rd' = [rd EXCEPT !.at = @ + 1, !.admitted = @ \cup MarkerOf(rd.at)]
    <3>1. rd'.phase = rd.phase /\ rd.phase = "prefix"
      BY <1>0, <1>14, <2>1 DEF Read, ScanPrefix, Reading
    <3> QED
      BY <1>4, <3>1
  <2> QED
    BY <1>2, <1>14, <2>1 DEF ScanPrefix
<1> QED
  BY <1>1, <1>3, <1>5, <1>6, <1>7, <1>8, <1>9, <1>10, <1>11, <1>12, <1>13, <1>14 DEF ReadNext, ReadStep

(* Positions are those of the markers through the horizon.                  *)
LEMMA PositionIn ==
    ASSUME NEW s, NEW h, NEW m \in s.mark, m.id <= h, NEW i \in DOMAIN m.versions
    PROVE  <<m.id, i>> \in PositionsThrough(s, h)
<1> DEFINE x == [id |-> m.id, ord |-> i, ver |-> m.versions[i]]
<1>1. x \in VisibleVersions(s, h)
  BY VisibleVersion
<1>2. x.id = m.id /\ x.ord = i
  OBVIOUS
<1> HIDE DEF x
<1> QED
  BY <1>1, <1>2 DEF PositionsThrough

(* ... and of no others.                                                    *)
LEMMA PositionOf ==
    ASSUME NEW s, NEW h, NEW p \in PositionsThrough(s, h)
    PROVE  \E m \in s.mark : m.id <= h /\ \E i \in DOMAIN m.versions : p = <<m.id, i>>
<1>1. PICK x \in VisibleVersions(s, h) : p = <<x.id, x.ord>>
  BY DEF PositionsThrough
<1>2. PICK m \in s.mark : m.id <= h /\ \E i \in DOMAIN m.versions : x = [id |-> m.id, ord |-> i, ver |-> m.versions[i]]
  BY VisibleVersion
<1> QED
  BY <1>1, <1>2

(* Horizons settle, and what a lookup collects is in history.               *)
LEMMA SoundStep ==
    CoreInv /\ SnapInv /\ ReaderTyped /\ CachesFaithful /\ HorizonInv /\ SoundInv /\ [ReadNext]_allVars
      => HorizonInv' /\ SoundInv'
<1> SUFFICES ASSUME CoreInv, SnapInv, ReaderTyped, CachesFaithful, HorizonInv, SoundInv, [ReadNext]_allVars
             PROVE  HorizonInv' /\ SoundInv'
  OBVIOUS
<1>0. rd \in Read /\ rd.h \in Nat /\ Source \in Store
  BY SourceTyped DEF ReaderTyped, Read
<1>1. CASE WriterStep \/ UNCHANGED allVars \/ CloseView
  <2>1. rd' = rd /\ snap' = snap /\ [Next]_vars
    BY <1>1, WriterUndisturbed DEF WriterStep, CloseView, allVars, readVars
  <2>2. CASE rd.pinned
    <3>1. Source' = Source
      BY <2>1, <2>2 DEF Source
    <3> QED
      BY <2>1, <3>1 DEF HorizonInv, SoundInv
  <2>3. CASE ~rd.pinned
    <3>1. Source = db /\ Source' = db'
      BY <2>1, <2>3 DEF Source
    <3>2. Settled(db', rd.h) /\ VisibleVersions(db', rd.h) = VisibleVersions(db, rd.h)
      BY <1>0, <2>1, <3>1, SettledStep DEF HorizonInv
    <3>3. PositionsThrough(db', rd.h) = PositionsThrough(db, rd.h)
      BY <3>2 DEF PositionsThrough
    <3> QED
      BY <2>1, <3>1, <3>2, <3>3 DEF HorizonInv, SoundInv
  <2> QED
    BY <2>2, <2>3
<1>2. ASSUME rd'.h = 0, rd'.res = {}, rd'.phase \in {"idle", "first"} PROVE HorizonInv' /\ SoundInv'
  BY <1>2 DEF HorizonInv, Settled, SoundInv
<1>3. CASE rd' = NoRead
  BY <1>2, <1>3 DEF NoRead
<1>4. CASE StartRead
  BY <1>2, <1>4, StartEffect
<1>5. ASSUME UNCHANGED <<vars, snap>>, rd'.pinned = rd.pinned, Settled(Source, rd'.h), rd.res = {}, rd'.res = {},
             rd'.phase \notin {"revalidate", "done"}
      PROVE  HorizonInv' /\ SoundInv'
  BY <1>5, SourceSame DEF HorizonInv, SoundInv
<1>6. CASE ReadSequence
  <2>1. rd.res = {} /\ UNCHANGED <<vars, snap>>
    BY <1>6 DEF ReadSequence, SoundInv
  <2> QED
    BY <1>5, <1>6, <2>1, ReadSequenceEffect DEF HorizonInv, SameScope, SameLookup
<1>7. CASE CompareSequence
  <2>1. rd.res = {} /\ UNCHANGED <<vars, snap>>
    BY <1>7 DEF CompareSequence, Reading, SoundInv
  <2>2. CASE rd.alloc < rd.stored
    BY <1>3, <1>7, <2>2 DEF CompareSequence, Refuse
  <2>3. CASE ~(rd.alloc < rd.stored)
    BY <1>5, <1>7, <2>1, <2>3, CompareEffect DEF HorizonInv, SameScope, SameLookup
  <2> QED
    BY <2>2, <2>3
<1>8. CASE WalkToHorizon
  <2>1. rd.res = {} /\ UNCHANGED <<vars, snap>>
    BY <1>8 DEF WalkToHorizon, Reading, SoundInv
  <2> QED
    BY <1>5, <1>8, <2>1, WalkEffect DEF HorizonInv, Settled, SameScope, SameLookup
<1>9. CASE WalkMarker
  <2>1. rd.res = {} /\ UNCHANGED <<vars, snap>>
    BY <1>9 DEF WalkMarker, Reading, SoundInv
  <2>2. CASE Refuse
    BY <1>3, <2>2 DEF Refuse
  <2>3. CASE ~Refuse
    <3>1. MarkerOf(rd.at) # {} => Settled(Source, Bound(rd.at))
      BY BoundLow DEF MarkerOf, Settled
    <3> QED
      BY <1>5, <1>9, <2>1, <2>3, <3>1, MarkerEffect DEF HorizonInv, SameScope, SameLookup
  <2> QED
    BY <2>2, <2>3
<1>10. CASE CheckStale \/ CheckState \/ CheckSum
  <2>1. rd.res = {} /\ UNCHANGED <<vars, snap>>
    BY <1>10 DEF CheckStale, CheckState, CheckSum, Reading, SoundInv
  <2>2. CASE Refuse
    BY <1>3, <2>2 DEF Refuse
  <2>3. CASE ~Refuse
    BY <1>5, <1>10, <2>1, <2>3, CheckEffect DEF HorizonInv, SameScope, SameLookup
  <2> QED
    BY <2>2, <2>3
<1>11. CASE LoadGeneration
  <2>1. rd.res = {} /\ UNCHANGED <<vars, snap>>
    BY <1>11 DEF LoadGeneration, Reading, SoundInv
  <2> QED
    BY <1>5, <1>11, <2>1, GenerationEffect DEF HorizonInv, SameScope
<1>12. CASE ScanStarted \/ ScanUnexpired
  <2>1. rd.res = {} /\ UNCHANGED <<vars, snap>>
    BY <1>12 DEF ScanStarted, ScanUnexpired, Reading, SoundInv
  <2> QED
    BY <1>5, <1>12, <2>1, ScanEffect DEF HorizonInv, SameScope
<1>13. CASE Hydrate
  <2>1. CASE Refuse
    BY <1>3, <2>1 DEF Refuse
  <2>2. CASE ~Refuse
    <3>1. PICK c : /\ SameScope /\ rd'.h = rd.h /\ rd'.phase = "hydrate"
                   /\ rd'.res = rd.res \/ \E m \in MarkerOf(c) : rd'.res = rd.res \cup Decoded(m)
      BY <1>13, <2>2, HydrateEffect
    <3>2. Source' = Source
      BY <1>13, <3>1, SourceSame DEF Hydrate, Reading, SameScope
    <3>3. \A m \in MarkerOf(c) : Decoded(m) \subseteq PositionsThrough(Source, rd.h)
      <4> SUFFICES ASSUME NEW m \in MarkerOf(c), NEW p \in Decoded(m) PROVE p \in PositionsThrough(Source, rd.h)
        OBVIOUS
      <4>1. m \in Source.mark /\ p[1] = m.id /\ p[2] \in DOMAIN m.versions /\ p[1] <= rd.h /\ p \in Nat \X Nat
        BY <1>0 DEF MarkerOf, Decoded, Read
      <4>2. <<m.id, p[2]>> \in PositionsThrough(Source, rd.h)
        BY <4>1, PositionIn
      <4>3. p = <<p[1], p[2]>>
        BY <4>1
      <4> QED
        BY <4>1, <4>2, <4>3
    <3>4. rd'.res \subseteq PositionsThrough(Source, rd.h)
      BY <3>1, <3>3 DEF SoundInv
    <3> QED
      BY <3>1, <3>2, <3>4 DEF HorizonInv, SoundInv
  <2> QED
    BY <2>1, <2>2
<1>14. CASE EndPass
  <2>1. Source' = Source
    BY <1>14, EndPassEffect, SourceSame DEF EndPass, Reading
  <2> QED
    BY <1>14, <2>1, EndPassEffect DEF HorizonInv, SoundInv
<1>15. CASE Revalidate
  <2>1. CASE Refuse
    BY <1>3, <2>1 DEF Refuse
  <2>2. CASE ~Refuse
    <3>1. SameScope /\ SameLookup /\ rd'.h = rd.h /\ rd'.phase = "done" /\ rd.phase = "revalidate"
      BY <1>15, <2>2, RevalidateEffect DEF Revalidate, Reading
    <3>2. Source' = Source
      BY <1>15, <3>1, SourceSame DEF Revalidate, Reading, SameScope
    <3> QED
      BY <3>1, <3>2 DEF HorizonInv, SoundInv, SameLookup
  <2> QED
    BY <2>1, <2>2
<1>16. CASE Return
  BY <1>3, <1>16 DEF Return
<1>17. CASE ScanPrefix
  <2>1. CASE rd' = [rd EXCEPT !.at = @ + 1, !.admitted = @ \cup MarkerOf(rd.at)]
    <3>1. rd'.phase = "prefix" /\ rd.phase = "prefix" /\ rd'.h = rd.h /\ rd'.res = rd.res /\ rd'.pinned = rd.pinned
      BY <1>0, <1>17, <2>1 DEF Read, ScanPrefix, Reading
    <3>2. rd.res = {} /\ UNCHANGED <<vars, snap>>
      BY <1>17, <3>1 DEF ScanPrefix, Reading, SoundInv
    <3> QED
      BY <1>5, <3>1, <3>2 DEF HorizonInv
  <2> QED
    BY <1>3, <1>17, <2>1 DEF ScanPrefix
<1> QED
  BY <1>1, <1>4, <1>6, <1>7, <1>8, <1>9, <1>10, <1>11, <1>12, <1>13, <1>14, <1>15, <1>16, <1>17 DEF ReadNext, ReadStep

(* An exact index lists every position of history in either scan.           *)
LEMMA ScanComplete ==
    ASSUME Source \in Store, ExactIndex(Source), rd.gen = ActiveGen(Source), NEW h
    PROVE  PositionsThrough(Source, h) \subseteq Positions("range") /\ PositionsThrough(Source, h) \subseteq LastLocators
<1> SUFFICES ASSUME NEW p \in PositionsThrough(Source, h) PROVE p \in Positions("range") /\ p \in LastLocators
  OBVIOUS
<1>1. PICK m \in Source.mark : m.id <= h /\ \E i \in DOMAIN m.versions : p = <<m.id, i>>
  BY PositionOf
<1>2. PICK i \in DOMAIN m.versions : p = <<m.id, i>>
  BY <1>1
<1>3. m.id \in Nat /\ i \in Nat
  <2>1. m \in Commit
    BY DEF Store
  <2>2. m.id \in Nat /\ m.versions \in Seq(Version)
    BY <2>1 DEF Commit
  <2> QED
    BY <2>2, ElementTyped
<1> DEFINE E(f) == [gen |-> rd.gen, fam |-> f, id |-> m.id, ord |-> i, vid |-> m.versions[i].vid]
<1>4. \A f \in Families : E(f) \in Source.idx
  BY DEF ExactIndex, Indexed, Entries
<1>5. \A f : E(f).gen = rd.gen /\ E(f).fam = f /\ E(f).id = m.id /\ E(f).ord = i
  OBVIOUS
<1> HIDE DEF E
<1>6. p \in Positions("range")
  BY <1>2, <1>4, <1>5 DEF Positions, Families
<1> DEFINE es == {e \in Source.idx : e.gen = rd.gen /\ e.fam = "exact"}
           Later(e, f) == e.id > f.id \/ (e.id = f.id /\ e.ord > f.ord)
<1>7. E("exact") \in es
  BY <1>4, <1>5 DEF Families
<1>8. \A y \in es : y.vid = E("exact").vid => y.id = m.id /\ y.ord = i
  BY <1>5, <1>7 DEF ExactIndex
<1>9. ~\E y \in es : y.vid = E("exact").vid /\ Later(y, E("exact"))
  BY <1>3, <1>5, <1>8
<1>10. E("exact") \in {x \in es : ~\E y \in es : y.vid = x.vid /\ Later(y, x)}
  BY <1>7, <1>9
<1>11. LastLocators = {<<e.id, e.ord>> : e \in {x \in es : ~\E y \in es : y.vid = x.vid /\ Later(y, x)}}
  BY DEF LastLocators
<1> HIDE DEF es, Later
<1>12. p \in LastLocators
  BY <1>2, <1>5, <1>10, <1>11
<1> QED
  BY <1>6, <1>12

(* A lookup misses nothing, unless its generation is replaced.              *)
LEMMA CompleteStep ==
    ASSUME CoreInv, IdxInv, ExactInv, GenInv, SnapInv, ReaderTyped, CachesFaithful, HorizonInv, Maintained,
           CompleteInv, [ReadNext]_allVars
    PROVE  CompleteInv'
<1>0. /\ rd \in Read /\ rd.h \in Nat /\ rd.gen \in Nat /\ Source \in Store /\ OneMarker(Source) /\ ExactIndex(Source)
      /\ ActiveGen(Source) \in Nat
  BY SourceTyped DEF ReaderTyped, Read, SnapInv, ExactInv, Source, Store, ActiveGen
<1>1. CASE WriterStep \/ UNCHANGED allVars \/ CloseView
  <2>1. rd' = rd /\ snap' = snap /\ [Next]_vars
    BY <1>1, WriterUndisturbed DEF WriterStep, CloseView, allVars, readVars
  <2>2. CASE rd.pinned
    <3>1. Source' = Source
      BY <2>1, <2>2 DEF Source
    <3> QED
      BY <2>1, <3>1 DEF CompleteInv
  <2>3. CASE ~rd.pinned
    <3>1. Source = db /\ Source' = db'
      BY <2>1, <2>3 DEF Source
    <3>2. PositionsThrough(db', rd.h) = PositionsThrough(db, rd.h)
      BY <1>0, <2>1, <3>1, SettledStep DEF HorizonInv, PositionsThrough
    <3>3. db.state.gen <= db'.state.gen /\ db'.state.gen \in Nat /\ db.state.gen \in Nat
      BY <1>0, <2>1, <3>1, GenerationStep DEF Store
    <3>4. ActiveGen(db) <= ActiveGen(db') /\ ActiveGen(db') \in Nat
      BY <3>3 DEF ActiveGen
    <3>5. rd.gen <= ActiveGen(db) => (rd.gen <= ActiveGen(db') /\ (rd.gen = ActiveGen(db') => rd.gen = ActiveGen(db)))
      BY <1>0, <3>1, <3>4
    <3> QED
      BY <2>1, <2>3, <3>1, <3>2, <3>5 DEF CompleteInv, Looking
  <2> QED
    BY <2>2, <2>3
<1>2. CASE rd'.phase \notin Looking
  BY <1>2 DEF CompleteInv, Looking
<1>3. CASE rd' = NoRead
  BY <1>2, <1>3 DEF NoRead, Looking, Scanned
<1>4. CASE StartRead \/ ReadSequence
  BY <1>2, <1>4, StartEffect, ReadSequenceEffect DEF Looking, Scanned
<1>5. CASE CompareSequence
  BY <1>2, <1>3, <1>5, CompareEffect DEF CompareSequence, Refuse, Looking, Scanned
<1>6. CASE WalkToHorizon \/ WalkMarker
  BY <1>2, <1>3, <1>6, WalkEffect, MarkerEffect DEF Refuse, Looking, Scanned
<1>7. CASE CheckStale \/ CheckState \/ CheckSum
  BY <1>2, <1>3, <1>7, CheckEffect DEF Refuse, Looking, Scanned
<1>8. CASE LoadGeneration
  <2>1. rd'.pinned = rd.pinned /\ rd'.phase = "started" /\ rd'.gen = ActiveGen(Source)
    BY <1>8, GenerationEffect DEF SameScope
  <2>2. Source' = Source /\ snap' = snap
    BY <1>8, <2>1, SourceSame DEF LoadGeneration, Reading
  <2>3. rd.pinned => Source = snap
    BY DEF Source
  <2> QED
    BY <1>0, <2>1, <2>2, <2>3 DEF CompleteInv, Looking, Scanned
<1>9. CASE ScanStarted \/ ScanUnexpired
  <2>1. /\ SameScope /\ rd'.gen = rd.gen /\ rd'.h = rd.h /\ rd'.phase \in {"hydrate", "unexpired"} /\ rd'.res = rd.res
        /\ \/ rd.phase = "started" /\ rd'.scan \in {LastLocators, Positions("range")}
           \/ rd.phase = "unexpired" /\ rd'.scan = rd.scan \cap Positions("range")
    BY <1>9, ScanEffect
  <2>2. Source' = Source /\ snap' = snap
    BY <1>9, <2>1, SourceSame DEF ScanStarted, ScanUnexpired, Reading, SameScope
  <2>3. rd.gen = ActiveGen(Source) =>
          PositionsThrough(Source, rd.h) \subseteq Positions("range") /\ PositionsThrough(Source, rd.h) \subseteq LastLocators
    BY <1>0, ScanComplete
  <2>4. rd.gen = ActiveGen(Source) => PositionsThrough(Source, rd.h) \subseteq rd'.res \cup rd'.scan
    <3>1. CASE rd.phase = "started"
      BY <2>1, <2>3, <3>1
    <3>2. CASE rd.phase = "unexpired"
      BY <2>1, <2>3, <3>2 DEF CompleteInv, Scanned
    <3> QED
      BY <2>1, <3>1, <3>2
  <2> QED
    BY <2>1, <2>2, <2>4 DEF CompleteInv, Looking, Scanned, SameScope
<1>10. CASE Hydrate
  <2>1. CASE Refuse
    BY <1>3, <2>1 DEF Refuse
  <2>2. CASE ~Refuse
    <3>1. PICK c : /\ SameScope /\ rd'.h = rd.h /\ rd'.gen = rd.gen /\ rd'.phase = "hydrate"
                   /\ rd'.scan = {p \in rd.scan : p[1] # c}
                   /\ \/ rd'.res = rd.res /\ (c > rd.h \/ MarkerOf(c) = {})
                      \/ \E m \in MarkerOf(c) : rd'.res = rd.res \cup Decoded(m)
      BY <1>10, <2>2, HydrateEffect
    <3>2. Source' = Source /\ snap' = snap /\ rd.phase = "hydrate"
      BY <1>10, <3>1, SourceSame DEF Hydrate, Reading, SameScope
    <3>3. ASSUME NEW p \in PositionsThrough(Source, rd.h), p \in rd.res \cup rd.scan
          PROVE  p \in rd'.res \cup rd'.scan
      <4>1. PICK m \in Source.mark : m.id <= rd.h /\ \E i \in DOMAIN m.versions : p = <<m.id, i>>
        BY PositionOf
      <4>2. p[1] = m.id /\ p[2] \in DOMAIN m.versions /\ m.id \in Nat
        BY <1>0, <4>1 DEF Store, Commit
      <4>3. CASE p \in rd.res
        BY <3>1, <4>3
      <4>4. CASE p \in rd.scan /\ m.id # c
        BY <3>1, <4>2, <4>4
      <4>5. CASE p \in rd.scan /\ m.id = c
        <5>1. m \in MarkerOf(c) /\ ~(c > rd.h)
          BY <1>0, <4>1, <4>2, <4>5 DEF MarkerOf
        <5>2. \A n \in MarkerOf(c) : n = m
          BY <1>0, <4>5 DEF MarkerOf, OneMarker
        <5>3. rd'.res = rd.res \cup Decoded(m)
          BY <3>1, <5>1, <5>2
        <5>4. p \in Decoded(m)
          BY <4>1, <4>2, <4>5 DEF Decoded
        <5> QED
          BY <5>3, <5>4
      <4> QED
        BY <3>3, <4>3, <4>4, <4>5
    <3>4. rd.gen = ActiveGen(Source) => PositionsThrough(Source, rd.h) \subseteq rd'.res \cup rd'.scan
      BY <3>2, <3>3 DEF CompleteInv, Scanned
    <3> QED
      BY <3>1, <3>2, <3>4 DEF CompleteInv, Looking, Scanned, SameScope
  <2> QED
    BY <2>1, <2>2
<1>11. CASE EndPass
  <2>1. Source' = Source /\ snap' = snap /\ rd.phase = "hydrate"
    BY <1>11, EndPassEffect, SourceSame DEF EndPass, Reading
  <2>2. CASE rd'.phase \in {"first", "generation"}
    BY <1>2, <2>2 DEF Looking, Scanned
  <2>3. CASE rd'.phase \in {"revalidate", "done"}
    BY <1>11, <2>1, <2>3, EndPassEffect DEF CompleteInv, Looking, Scanned
  <2> QED
    BY <1>11, <2>2, <2>3, EndPassEffect
<1>12. CASE Revalidate
  <2>1. CASE Refuse
    BY <1>3, <2>1 DEF Refuse
  <2>2. CASE ~Refuse
    <3>1. SameScope /\ SameLookup /\ rd'.h = rd.h /\ rd'.phase = "done" /\ rd.phase = "revalidate"
      BY <1>12, <2>2, RevalidateEffect DEF Revalidate, Reading
    <3>2. Source' = Source /\ snap' = snap
      BY <1>12, <3>1, SourceSame DEF Revalidate, Reading, SameScope
    <3> QED
      BY <3>1, <3>2 DEF CompleteInv, Looking, Scanned, SameScope, SameLookup
  <2> QED
    BY <2>1, <2>2
<1>13. CASE Return
  BY <1>3, <1>13 DEF Return
<1>14. CASE ScanPrefix
  <2>1. CASE rd' = [rd EXCEPT !.at = @ + 1, !.admitted = @ \cup MarkerOf(rd.at)]
    <3>1. rd'.phase = "prefix"
      BY <1>0, <1>14, <2>1 DEF Read, ScanPrefix, Reading
    <3> QED
      BY <1>2, <3>1 DEF Looking, Scanned
  <2> QED
    BY <1>3, <1>14, <2>1 DEF ScanPrefix
<1> QED
  BY <1>1, <1>4, <1>5, <1>6, <1>7, <1>8, <1>9, <1>10, <1>11, <1>12, <1>13, <1>14 DEF ReadNext, ReadStep

-----------------------------------------------------------------------------
(* The theorems about reads.                                                *)

WriterInv == CoreInv /\ IdxInv /\ JustInv /\ ExactInv /\ (Maintained => GenInv)
ReaderInv == SnapInv /\ ReaderTyped /\ CachesFaithful /\ SequenceInv /\ HorizonInv /\ SoundInv
               /\ (Maintained => CompleteInv)

(* A writer that is being read is still the writer of TemporalCommit.       *)
LEMMA StillWriter == ReadSpec => Spec
<1>1. ReadInit => Init
  BY DEF ReadInit
<1> QED
  BY <1>1, WriterUndisturbed, PTL DEF ReadSpec, Spec

(* The invariants hold in every reachable state of writer and reader.       *)
LEMMA ReadInvariant == ReadSpec => [](WriterInv /\ ReaderInv)
<1>1. ReadInit => IdxInv /\ JustInv /\ ExactInv /\ (Maintained => GenInv) /\ ReaderInv
  <2> SUFFICES ASSUME ReadInit PROVE IdxInv /\ JustInv /\ ExactInv /\ (Maintained => GenInv) /\ ReaderInv
    OBVIOUS
  <2>1. /\ pc = "idle" /\ db = ws /\ ws.mark = {} /\ ws.idx = {} /\ ws.desc = {} /\ ws.rec = {} /\ ws.state.gen = 0
        /\ sidecar \in [id : Nat, time : Nat]
    BY DEF ReadInit, Init, EmptyStore, NoState
  <2>2. IdxInv
    BY DEF ReadInit, Init, EmptyStore, IdxInv, IndexInv, Published, Indexed, IndexInFlight
  <2>3. JustInv
    BY <2>1 DEF JustInv, CommitSteps
  <2>4. ExactInv /\ GenInv
    BY <2>1 DEF ExactInv, ExactIndex, Indexed, ExactInFlight, CommitSteps, GenInv
  <2>5. ReaderTyped
    <3>1. NoRead \in Read /\ NoRead.phase = "idle" /\ NoView \in [h : Nat, marks : SUBSET Commit, open : BOOLEAN]
      BY DEF NoRead, Read, ReadPhases, NoView
    <3>2. <<>> \in Seq(Commit) /\ Len(<<>>) <= MaxCache
      BY ReadAssumptions
    <3> QED
      BY <3>1, <3>2 DEF ReaderTyped, ReadInit
  <2>6. SnapInv
    <3>1. EmptyStore \in Store
      BY DEF EmptyStore, NoState, Store
    <3>2. ReservedFirst(EmptyStore, sidecar) /\ OneMarker(EmptyStore)
      BY <2>1 DEF EmptyStore, NoState, ReservedFirst, OneMarker
    <3>3. ExactIndex(EmptyStore)
      BY DEF EmptyStore, ExactIndex, Indexed
    <3> QED
      BY <3>1, <3>2, <3>3 DEF SnapInv, ReadInit
  <2>7. CachesFaithful
    BY DEF CachesFaithful, ReadInit, Range
  <2>8. SequenceInv /\ HorizonInv /\ SoundInv /\ CompleteInv
    BY DEF ReadInit, NoRead, SequenceInv, HorizonInv, Settled, SoundInv, CompleteInv, Looking, Scanned
  <2> QED
    BY <2>2, <2>3, <2>4, <2>5, <2>6, <2>7, <2>8 DEF ReaderInv
<1>2. CoreInv /\ IdxInv /\ JustInv /\ ExactInv /\ (Maintained => GenInv) /\ [ReadNext]_allVars
        => IdxInv' /\ JustInv' /\ ExactInv' /\ (Maintained => GenInv)'
  <2> SUFFICES ASSUME CoreInv, IdxInv, JustInv, ExactInv, Maintained => GenInv, [ReadNext]_allVars
               PROVE  IdxInv' /\ JustInv' /\ ExactInv' /\ (Maintained' => GenInv')
    OBVIOUS
  <2>1. [Next]_vars
    BY WriterUndisturbed
  <2>2. Maintained' = Maintained
    BY <2>1, DepFixed DEF Maintained
  <2>3. Maintained => GenInv'
    BY <2>1, GenerationStep
  <2> QED
    BY <2>1, <2>2, <2>3, IndexStep, JustStep, ExactStep
<1>3. WriterInv /\ ReaderInv /\ [ReadNext]_allVars => ReaderInv'
  <2> SUFFICES ASSUME WriterInv, ReaderInv, [ReadNext]_allVars PROVE ReaderInv'
    OBVIOUS
  <2> USE DEF WriterInv, ReaderInv
  <2>1. Maintained' = Maintained
    BY WriterUndisturbed, DepFixed DEF Maintained
  <2>2. SnapInv'
    BY SnapStep
  <2>3. ReaderTyped'
    BY ReaderTypedStep
  <2>4. CachesFaithful' /\ SequenceInv'
    BY CachesStep, SequenceStep
  <2>5. HorizonInv' /\ SoundInv'
    BY SoundStep
  <2>6. Maintained => CompleteInv'
    BY CompleteStep
  <2> QED
    BY <2>1, <2>2, <2>3, <2>4, <2>5, <2>6
<1> QED
  BY <1>1, <1>2, <1>3, StillWriter, CoreInvariant, PTL DEF ReadSpec, WriterInv

(* Commit caches never hold a commit that is not visible in their store:    *)
(* not one in flight, rolled back, reclaimed or, for a snapshot, later.     *)
THEOREM CacheFidelity == ReadSpec => []CachesFaithful
<1>1. ReaderInv => CachesFaithful
  BY DEF ReaderInv
<1> QED
  BY <1>1, ReadInvariant, PTL

(* read_temporal_sequence never takes a commit in flight for a sidecar that *)
(* trails the store, in a snapshot scope or outside.                        *)
THEOREM SequenceOrdered == ReadSpec => []SequenceNeverTrails
<1>1. ReaderInv => SequenceNeverTrails
  BY DEF ReaderInv, SequenceInv, SequenceNeverTrails, ReaderTyped, Read
<1> QED
  BY <1>1, ReadInvariant, PTL

(* Where indexes are maintained, a lookup that returns has found the        *)
(* versions through its horizon, all of them and nothing else, unless a     *)
(* rebuild replaced the generation it was reading.                          *)
THEOREM ReadsExact == ReadSpec => [](Maintained => ReadExactUnlessRebuilt)
<1>1. WriterInv /\ ReaderInv => (Maintained => ReadExactUnlessRebuilt)
  <2> SUFFICES ASSUME WriterInv, ReaderInv, Maintained, rd.pinned \/ rd.gen = ActiveGen(db), rd.phase = "done"
               PROVE  rd.res = PositionsThrough(Source, rd.h)
    BY DEF ReadExactUnlessRebuilt, ReadExact
  <2>1. rd.gen = ActiveGen(Source)
    BY DEF ReaderInv, CompleteInv, Looking, Scanned, Source, ReaderTyped, Read
  <2> QED
    BY <2>1 DEF ReaderInv, CompleteInv, SoundInv, Scanned
<1> QED
  BY <1>1, ReadInvariant, PTL

-----------------------------------------------------------------------------
(* Views, where a transaction holds one commit.                             *)

(* What a transaction with one commit added belongs to the last reserved    *)
(* id, and so does whatever a step adds to the committed store.             *)
LEMMA SingleStep ==
    ASSUME CoreInv, SingleInv, ~Grouped, [ReadNext]_allVars
    PROVE  /\ SingleInv'
           /\ \A d \in (db'.mark \ db.mark) \cup (db'.desc \ db.desc) : d.id = sidecar.id
<1>0. /\ TypeOK /\ InFlight /\ ws \in Store /\ db \in Store /\ inTx \in BOOLEAN /\ (~inTx => ws = db)
      /\ sidecar.id \in Nat /\ db.seq \in Nat /\ db.seq <= sidecar.id
  BY DEF CoreInv, TypeOK, Store, ReservedFirst
<1>1. CASE ReadStep \/ UNCHANGED allVars
  BY <1>1, ReaderOnly DEF allVars, vars, SingleInv
<1>2. CASE WriterStep /\ ReserveSequence
  <2>1. ws.seq = db.seq /\ ws' = ws /\ db' = db /\ sidecar'.id = sidecar.id + 1 /\ cmt'.id = sidecar.id + 1 /\ pc' = "sequence"
    BY <1>2 DEF WriterStep, ReserveSequence, Goto, ReplaceSidecar, NextId
  <2>2. (ws.mark \ db.mark) \cup (ws.desc \ db.desc) = {}
    BY <2>1 DEF SingleInv
  <2> QED
    BY <1>0, <2>1, <2>2 DEF SingleInv, CommitSteps
<1>3. ASSUME NEW s, Write(s), UNCHANGED <<sidecar, inTx>>, s.seq = ws.seq,
             s.mark \subseteq ws.mark, s.desc \subseteq ws.desc,
             pc' \in CommitSteps => pc \in CommitSteps \ {"sequence"} /\ cmt'.id = cmt.id
      PROVE  /\ SingleInv'
             /\ \A d \in (db'.mark \ db.mark) \cup (db'.desc \ db.desc) : d.id = sidecar.id
  <2>1. ws' = s /\ ((inTx /\ db' = db) \/ (~inTx /\ db' = s /\ ws = db))
    BY <1>0, <1>3 DEF Write
  <2> QED
    BY <1>3, <2>1 DEF SingleInv
<1>4. CASE PutSequence
  <2> DEFINE s == [ws EXCEPT !.seq = cmt.id]
  <2>1. /\ Write(s) /\ UNCHANGED <<sidecar, inTx>> /\ s.seq = cmt.id /\ s.mark = ws.mark /\ s.desc = ws.desc
        /\ pc = "sequence" /\ pc' = "descriptor" /\ cmt' = cmt /\ cmt.id = sidecar.id
    BY <1>0, <1>4 DEF PutSequence, Goto, Store, InFlight, CommitSteps
  <2> HIDE DEF s
  <2>2. ws' = s /\ ((inTx /\ db' = db) \/ (~inTx /\ db' = s /\ ws = db))
    BY <1>0, <2>1 DEF Write
  <2> QED
    BY <1>0, <2>1, <2>2 DEF SingleInv, CommitSteps
<1>5. CASE PutDescriptor \/ PutVisibleMarker
  <2>1. PICK s : /\ Write(s) /\ UNCHANGED <<sidecar, inTx>> /\ s.seq = ws.seq
                 /\ s.mark \subseteq ws.mark \cup {Descriptor} /\ s.desc \subseteq ws.desc \cup {Descriptor}
                 /\ pc \in CommitSteps \ {"sequence"} /\ cmt.id = sidecar.id
                 /\ pc' \in CommitSteps => pc' # "sequence" /\ cmt' = cmt
    <3>1. CASE PutDescriptor
      BY <1>0, <3>1 DEF PutDescriptor, Goto, Store, InFlight, CommitSteps
    <3>2. CASE PutVisibleMarker
      BY <1>0, <3>2 DEF PutVisibleMarker, Goto, Store, InFlight, CommitSteps
    <3> QED
      BY <1>5, <3>1, <3>2
  <2>2. ws' = s /\ ((inTx /\ db' = db) \/ (~inTx /\ db' = s /\ ws = db))
    BY <1>0, <2>1 DEF Write
  <2>3. Descriptor.id = sidecar.id
    BY <2>1 DEF Descriptor
  <2>4. inTx => ws.seq = sidecar.id /\ db.seq < sidecar.id
    BY <2>1 DEF SingleInv
  <2> QED
    BY <1>0, <2>1, <2>2, <2>3, <2>4 DEF SingleInv
<1>6. CASE PutRecord \/ DeferIndexes \/ MaintainIndexes \/ PutExactEntries \/ PutRangeEntries \/ PersistIndexState
  <2>1. PICK s : Write(s) /\ s.seq = ws.seq /\ s.mark = ws.mark /\ s.desc = ws.desc
    <3>1. CASE PutRecord
      BY <1>0, <3>1 DEF PutRecord, Store
    <3>2. CASE DeferIndexes
      BY <1>0, <3>2 DEF DeferIndexes, Store
    <3>3. CASE MaintainIndexes
      BY <1>0, <3>3 DEF MaintainIndexes, Store
    <3>4. CASE PutExactEntries
      BY <1>0, <3>4 DEF PutExactEntries, Store
    <3>5. CASE PutRangeEntries
      BY <1>0, <3>5 DEF PutRangeEntries, Store
    <3>6. CASE PersistIndexState
      BY <1>0, <3>6 DEF PersistIndexState, Store
    <3> QED
      BY <1>6, <3>1, <3>2, <3>3, <3>4, <3>5, <3>6
  <2>2. UNCHANGED <<sidecar, inTx>> /\ pc \in CommitSteps \ {"sequence"} /\ cmt'.id = cmt.id
    BY <1>0, <1>6 DEF PutRecord, DeferIndexes, MaintainIndexes, PutExactEntries, PutRangeEntries, PersistIndexState, Goto,
       CommitSteps, TypeOK
  <2> QED
    BY <1>3, <2>1, <2>2
<1>7. CASE StartRebuild \/ BuildGeneration \/ ActivateGeneration \/ ClearStale \/ PruneGeneration \/ StartReclaim \/ ReclaimStep
  <2>1. PICK s : Write(s) /\ s.seq = ws.seq /\ s.mark = ws.mark /\ s.desc \subseteq ws.desc
    <3>1. CASE StartRebuild \/ ClearStale \/ StartReclaim \/ ActivateGeneration
      BY <1>0, <3>1 DEF StartRebuild, ClearStale, StartReclaim, ActivateGeneration, Store
    <3>2. CASE BuildGeneration
      BY <1>0, <3>2 DEF BuildGeneration, Store
    <3>3. CASE PruneGeneration
      BY <1>0, <3>3 DEF PruneGeneration, Store
    <3>4. CASE UnindexOrphans
      BY <1>0, <3>4 DEF UnindexOrphans, Store
    <3>5. CASE DeleteOrphanRecord
      BY <1>0, <3>5 DEF DeleteOrphanRecord, Store
    <3>6. CASE DeleteOrphanDescriptor
      BY <1>0, <3>6 DEF DeleteOrphanDescriptor, Store
    <3> QED
      BY <1>7, <3>1, <3>2, <3>3, <3>4, <3>5, <3>6 DEF ReclaimStep
  <2>2. UNCHANGED <<sidecar, inTx>> /\ pc' \notin CommitSteps
    BY <1>7 DEF StartRebuild, BuildGeneration, ActivateGeneration, ClearStale, PruneGeneration, StartReclaim, ReclaimStep,
       UnindexOrphans, DeleteOrphanRecord, DeleteOrphanDescriptor, Goto, CommitSteps
  <2> QED
    BY <1>3, <2>1, <2>2
<1>8. CASE FinishRebuild \/ RebuildRaises \/ BeginTransaction \/ Fail
  <2>1. ws' = ws /\ db' = db /\ pc' = "idle" /\ sidecar' = sidecar
    BY <1>8 DEF FinishRebuild, RebuildRaises, BeginTransaction, Fail, Abandon, Goto
  <2> QED
    BY <2>1 DEF SingleInv, CommitSteps
<1>9. CASE CommitTransaction \/ RollbackTransaction \/ Crash
  <2>1. ((ws' = ws /\ db' = ws) \/ (ws' = db /\ db' = db)) /\ pc' = "idle" /\ sidecar' = sidecar
    BY <1>9 DEF CommitTransaction, RollbackTransaction, Crash, Abandon
  <2> QED
    BY <2>1 DEF SingleInv, CommitSteps
<1> QED
  BY <1>1, <1>2, <1>4, <1>5, <1>6, <1>7, <1>8, <1>9 DEF ReadNext, WriterStep, Next, CommitStep, RebuildStep

(* The prefix a view is being built from stays a prefix.                    *)
LEMMA PrefixStep ==
    ASSUME CoreInv, SnapInv, ReaderTyped, CachesFaithful, SequenceInv, SingleInv, PrefixInv, ~Grouped, [ReadNext]_allVars
    PROVE  PrefixInv'
<1>0. /\ rd \in Read /\ rd.at \in Nat /\ rd.alloc \in Nat /\ sidecar.id \in Nat /\ sidecar'.id \in Nat
      /\ sidecar.id <= sidecar'.id /\ Source \in Store /\ db \in Store
  BY WriterUndisturbed, SidecarGrows, SourceTyped DEF ReaderTyped, Read, CoreInv, TypeOK
<1>1. CASE WriterStep \/ UNCHANGED allVars \/ CloseView
  <2>1. rd' = rd
    BY <1>1 DEF WriterStep, CloseView, allVars, readVars
  <2>2. \A d \in (db'.mark \ db.mark) \cup (db'.desc \ db.desc) : d.id = sidecar.id
    BY SingleStep
  <2>3. db.mark \subseteq db'.mark /\ VisibleIds(db) \subseteq VisibleIds(db')
    BY WriterUndisturbed, MarksGrow DEF VisibleIds
  <2>4. SUFFICES ASSUME rd.phase = "prefix"
                 PROVE  /\ rd.alloc <= sidecar'.id /\ rd.admitted \subseteq db'.mark
                        /\ \A m \in db'.mark : m.id < rd.at /\ m.id < rd.alloc => m \in rd.admitted
                        /\ \A d \in db'.desc : d.id < rd.at /\ d.id < rd.alloc => d.id \in VisibleIds(db')
    BY <2>1 DEF PrefixInv
  <2>5. rd.alloc <= sidecar.id
    BY <2>4 DEF PrefixInv
  <2>6. ~(sidecar.id < rd.alloc)
    BY <1>0, <2>5
  <2> QED
    BY <1>0, <2>2, <2>3, <2>4, <2>5, <2>6 DEF PrefixInv
<1>2. CASE rd' = NoRead
  BY <1>2 DEF NoRead, PrefixInv
<1>3. CASE StartRead
  BY <1>3, StartEffect DEF PrefixInv
<1>4. ASSUME rd'.op = rd.op, rd.op # "view", rd'.phase # "prefix" PROVE PrefixInv'
  BY <1>4 DEF PrefixInv
<1>5. CASE ReadSequence
  BY <1>5, ReadSequenceEffect DEF PrefixInv, SameScope
<1>6. CASE CompareSequence
  <2>1. CASE rd.alloc < rd.stored
    BY <1>2, <1>6, <2>1 DEF CompareSequence, Refuse
  <2>2. CASE ~(rd.alloc < rd.stored) /\ rd.op = "view"
    <3>1. /\ rd'.op = "view" /\ rd'.pinned = rd.pinned /\ rd'.pass = rd.pass /\ rd'.phase = "prefix" /\ rd'.at = 1
          /\ rd'.alloc = rd.alloc /\ rd'.admitted = rd.admitted
      BY <1>6, <2>2, CompareEffect DEF SameScope
    <3>2. rd.phase = "compare" /\ db' = db /\ sidecar' = sidecar
      BY <1>6 DEF CompareSequence, Reading, vars
    <3>3. rd.admitted = {} /\ rd.alloc <= sidecar.id
      BY <2>2, <3>2 DEF PrefixInv, SequenceInv
    <3>4. \A d \in db.mark \cup db.desc : ~(d.id < 1)
      BY DEF CoreInv, TypeOK, ReservedFirst
    <3> QED
      BY <2>2, <3>1, <3>2, <3>3, <3>4 DEF PrefixInv
  <2>3. CASE ~(rd.alloc < rd.stored) /\ rd.op # "view"
    BY <1>4, <1>6, <2>3, CompareEffect DEF SameScope
  <2> QED
    BY <2>1, <2>2, <2>3
<1>7. CASE WalkToHorizon \/ WalkMarker
  <2>1. rd.op # "view"
    BY <1>7 DEF WalkToHorizon, WalkMarker, Reading, PrefixInv
  <2> QED
    BY <1>2, <1>4, <1>7, <2>1, WalkEffect, MarkerEffect DEF Refuse, SameScope
<1>8. CASE CheckStale \/ CheckState \/ CheckSum
  <2>1. rd.op # "view"
    BY <1>8 DEF CheckStale, CheckState, CheckSum, Reading, PrefixInv
  <2> QED
    BY <1>2, <1>4, <1>8, <2>1, CheckEffect DEF Refuse, SameScope
<1>9. CASE LoadGeneration \/ ScanStarted \/ ScanUnexpired
  <2>1. rd.op # "view"
    BY <1>9 DEF LoadGeneration, ScanStarted, ScanUnexpired, Reading, PrefixInv
  <2> QED
    BY <1>4, <1>9, <2>1, GenerationEffect, ScanEffect DEF SameScope
<1>10. CASE Hydrate
  <2>1. rd.op # "view"
    BY <1>10 DEF Hydrate, Reading, PrefixInv
  <2> QED
    BY <1>2, <1>4, <1>10, <2>1, HydrateEffect DEF Refuse, SameScope
<1>11. CASE EndPass
  <2>1. rd.op # "view"
    BY <1>11 DEF EndPass, Reading, PrefixInv
  <2> QED
    BY <1>4, <1>11, <2>1, EndPassEffect
<1>12. CASE Revalidate
  <2>1. rd.op # "view"
    BY <1>12 DEF Revalidate, Reading, PrefixInv
  <2> QED
    BY <1>2, <1>4, <1>12, <2>1, RevalidateEffect DEF Refuse, SameScope
<1>13. CASE Return
  BY <1>2, <1>13 DEF Return
<1>14. CASE ScanPrefix
  <2>1. CASE rd' = [rd EXCEPT !.at = @ + 1, !.admitted = @ \cup MarkerOf(rd.at)]
    <3>1. /\ rd'.phase = "prefix" /\ rd'.op = rd.op /\ rd'.pinned = rd.pinned /\ rd'.pass = rd.pass /\ rd'.at = rd.at + 1
          /\ rd'.admitted = rd.admitted \cup MarkerOf(rd.at) /\ rd'.alloc = rd.alloc /\ rd.phase = "prefix"
      BY <1>0, <1>14, <2>1 DEF Read, ScanPrefix, Reading
    <3>2. db' = db /\ sidecar' = sidecar /\ ~rd.pinned /\ Source = db
      BY <1>14, <3>1 DEF ScanPrefix, Reading, vars, PrefixInv, Source
    <3>3. rd.at <= rd.alloc /\ ~(MarkerOf(rd.at) = {} /\ Incomplete(rd.at))
      <4>1. rd' # NoRead
        BY <3>1 DEF NoRead
      <4> QED
        BY <1>0, <1>14, <4>1 DEF ScanPrefix
    <3>4. \A m \in db.mark : m.id \in Nat /\ (m.id = rd.at <=> m \in MarkerOf(rd.at))
      BY <1>0, <3>2 DEF MarkerOf, Store, Commit
    <3>5. \A d \in db.desc : d.id \in Nat /\ (d.id = rd.at => rd.at \in VisibleIds(db))
      BY <1>0, <3>2, <3>3 DEF MarkerOf, Incomplete, HasDescriptor, VisibleIds, Store, Commit
    <3>6. \A n \in Nat : n < rd.at + 1 => n < rd.at \/ n = rd.at
      BY <1>0
    <3>7. MarkerOf(rd.at) \subseteq db.mark /\ \A m \in MarkerOf(rd.at) : m.id = rd.at
      BY <3>2 DEF MarkerOf
    <3>8. ASSUME NEW m \in rd'.admitted PROVE m.id <= rd.alloc /\ m.id < rd.at + 1 /\ m \in db.mark
      <4>1. CASE m \in rd.admitted
        <5>1. m \in db.mark /\ m.id <= rd.alloc /\ m.id < rd.at
          BY <3>1, <4>1 DEF PrefixInv
        <5> QED
          BY <1>0, <3>4, <5>1
      <4>2. CASE m \in MarkerOf(rd.at)
        BY <1>0, <3>3, <3>7, <4>2
      <4> QED
        BY <3>1, <4>1, <4>2
    <3>9. \A m \in db.mark : m.id < rd.at + 1 /\ m.id < rd.alloc => m \in rd'.admitted
      BY <3>1, <3>4, <3>6 DEF PrefixInv
    <3>10. \A d \in db.desc : d.id < rd.at + 1 /\ d.id < rd.alloc => d.id \in VisibleIds(db)
      BY <3>1, <3>5, <3>6 DEF PrefixInv
    <3>11. rd.at + 1 >= 1
      BY <1>0
    <3> QED
      BY <3>1, <3>2, <3>8, <3>9, <3>10, <3>11 DEF PrefixInv
  <2> QED
    BY <1>2, <1>14, <2>1 DEF ScanPrefix
<1> QED
  BY <1>1, <1>3, <1>5, <1>6, <1>7, <1>8, <1>9, <1>10, <1>11, <1>12, <1>13, <1>14 DEF ReadNext, ReadStep

(* A view that was opened stays a settled, complete prefix.                 *)
LEMMA ViewStep ==
    ASSUME CoreInv, SnapInv, ReaderTyped, SingleInv, PrefixInv, ViewInv, ~Grouped, [ReadNext]_allVars
    PROVE  ViewInv'
<1>0. /\ rd \in Read /\ sidecar.id \in Nat /\ db \in Store /\ view.h \in Nat /\ ReservedFirst(db, sidecar)
      /\ \A d \in db.mark \cup db.desc : d.id \in Nat
  BY DEF ReaderTyped, CoreInv, TypeOK, Store, Commit
<1>1. CASE view' = view
  <2> SUFFICES ASSUME view.open
               PROVE  /\ Markers(db', view.h) = view.marks /\ view.h \in VisibleIds(db') \cup {0}
                      /\ \A d \in db'.desc : d.id <= view.h => d.id \in VisibleIds(db')
    BY <1>1 DEF ViewInv
  <2>1. Settled(db, view.h)
    <3>1. CASE view.h = 0
      BY <3>1 DEF Settled
    <3>2. CASE view.h # 0
      <4>1. PICK m \in db.mark : m.id = view.h
        BY <3>2 DEF ViewInv, VisibleIds
      <4> QED
        BY <1>0, <4>1 DEF Settled
    <3> QED
      BY <3>1, <3>2
  <2>2. Markers(db', view.h) = view.marks
    BY <1>0, <2>1, WriterUndisturbed, SettledStep DEF ViewInv
  <2>3. VisibleIds(db) \subseteq VisibleIds(db')
    BY WriterUndisturbed, MarksGrow DEF VisibleIds
  <2>4. \A d \in db'.desc \ db.desc : d.id = sidecar.id
    BY SingleStep
  <2>5. view.h \in VisibleIds(db) => view.h <= sidecar.id
    BY <1>0 DEF VisibleIds, ReservedFirst
  <2>6. db' \in Store /\ ReservedFirst(db', sidecar')
    BY WriterUndisturbed, TypeStep DEF CoreInv, TypeOK
  <2>7. ASSUME NEW d \in db'.desc \ db.desc, d.id <= view.h PROVE d.id \in VisibleIds(db')
    <3>1. CASE view.h = 0
      BY <1>0, <2>4, <2>6, <2>7, <3>1 DEF ReservedFirst
    <3>2. CASE view.h \in VisibleIds(db)
      BY <1>0, <2>3, <2>4, <2>5, <2>7, <3>2
    <3> QED
      BY <3>1, <3>2 DEF ViewInv
  <2>8. \A d \in db'.desc : d.id <= view.h => d.id \in VisibleIds(db')
    BY <2>3, <2>7 DEF ViewInv
  <2> QED
    BY <2>2, <2>3, <2>8 DEF ViewInv
<1>2. CASE view' # view
  <2>1. CASE CloseView
    BY <2>1 DEF CloseView, NoView, ViewInv
  <2>2. CASE ScanPrefix
    <3>1. PICK h \in {0} \cup {m.id : m \in rd.admitted} :
            view' = [h |-> h, marks |-> {m \in rd.admitted : m.id <= h}, open |-> TRUE]
      BY <1>2, <2>2 DEF ScanPrefix
    <3>2. db' = db /\ rd.phase = "prefix"
      BY <2>2 DEF ScanPrefix, Reading, vars
    <3>3. /\ rd.admitted \subseteq db.mark
          /\ \A m \in rd.admitted : m.id <= rd.alloc /\ m.id < rd.at
          /\ \A m \in db.mark : m.id < rd.at /\ m.id < rd.alloc => m \in rd.admitted
          /\ \A d \in db.desc : d.id < rd.at /\ d.id < rd.alloc => d.id \in VisibleIds(db)
      BY <3>2 DEF PrefixInv
    <3>4. h = 0 \/ \E m \in rd.admitted : h = m.id
      BY <3>1
    <3>5. rd.at \in Nat /\ rd.alloc \in Nat /\ h \in Nat
      BY <1>0, <3>3, <3>4 DEF Read
    <3>6. OneMarker(db)
      BY <1>0 DEF OneMarker, CoreInv, LogInv, History!Precedes
    <3>7. ASSUME NEW m \in db.mark, m.id <= h PROVE m \in rd.admitted
      <4>1. m.id \in Nat /\ m.id >= 1
        BY <1>0 DEF ReservedFirst
      <4>2. PICK n \in rd.admitted : h = n.id
        BY <3>4, <3>5, <3>7, <4>1
      <4>3. CASE m.id = h
        BY <3>3, <3>6, <4>2, <4>3 DEF OneMarker
      <4>4. CASE m.id < h
        BY <3>3, <3>5, <4>1, <4>2, <4>4
      <4> QED
        BY <3>5, <3>7, <4>1, <4>3, <4>4
    <3>8. Markers(db, h) = {m \in rd.admitted : m.id <= h}
      BY <3>3, <3>7 DEF Markers
    <3>9. h \in VisibleIds(db) \cup {0}
      BY <3>3, <3>4 DEF VisibleIds
    <3>10. ASSUME NEW d \in db.desc, d.id <= h PROVE d.id \in VisibleIds(db)
      <4>1. d.id \in Nat /\ d.id >= 1
        BY <1>0 DEF ReservedFirst
      <4>2. PICK n \in rd.admitted : h = n.id
        BY <3>4, <3>5, <3>10, <4>1
      <4>3. CASE d.id = h
        BY <3>3, <4>2, <4>3 DEF VisibleIds
      <4>4. CASE d.id < h
        BY <3>3, <3>5, <4>1, <4>2, <4>4
      <4> QED
        BY <3>5, <3>10, <4>1, <4>3, <4>4
    <3> QED
      BY <3>1, <3>2, <3>8, <3>9, <3>10 DEF ViewInv
  <2> QED
    BY <1>2, <2>1, <2>2 DEF ReadNext, ReadStep, WriterStep, readVars, allVars, StartRead, ReadSequence, CompareSequence,
       WalkToHorizon, WalkMarker, CheckStale, CheckState, CheckSum, LoadGeneration, ScanStarted, ScanUnexpired,
       Hydrate, EndPass, Revalidate, Return
<1> QED
  BY <1>1, <1>2

(* Where indexes are maintained and a transaction holds one commit, the     *)
(* provenance of an open view verifies for as long as the view is kept,     *)
(* whatever is committed, reclaimed or interrupted meanwhile.               *)
THEOREM ViewsStable == ReadSpec => [](Maintained /\ ~Grouped => ViewStable)
<1> DEFINE Prefixed == ~Grouped => SingleInv /\ PrefixInv /\ ViewInv
<1>1. ReadInit => Prefixed
  <2> SUFFICES ASSUME ReadInit PROVE SingleInv /\ PrefixInv /\ ViewInv
    OBVIOUS
  <2>1. ws = db /\ pc = "idle" /\ rd = NoRead /\ view = NoView
    BY DEF ReadInit, Init
  <2> QED
    BY <2>1 DEF SingleInv, PrefixInv, ViewInv, CommitSteps, NoRead, NoView
<1>2. WriterInv /\ ReaderInv /\ Prefixed /\ [ReadNext]_allVars => Prefixed'
  BY SingleStep, PrefixStep, ViewStep DEF WriterInv, ReaderInv
<1>3. WriterInv /\ Prefixed => (Maintained /\ ~Grouped => ViewStable)
  <2> SUFFICES ASSUME WriterInv, ViewInv, Maintained, view.open PROVE VerifySource(db)
    BY DEF ViewStable
  <2>1. Markers(db, view.h) = view.marks /\ IncompleteCommits(db, view.h) = {}
    BY DEF ViewInv, IncompleteCommits
  <2>2. ASSUME view.h # 0 PROVE \E m \in Markers(db, view.h) : m.id = view.h /\ Validates(db, m)
    <3>1. PICK m \in db.mark : m.id = view.h
      BY <2>2 DEF ViewInv, VisibleIds
    <3>2. db \in Store /\ ExactIndex(db) /\ Justified(db, m) /\ m.id \in Nat
      BY DEF WriterInv, CoreInv, TypeOK, ExactInv, JustInv, Store, Commit
    <3>3. Validates(db, m)
      BY <3>2, JustifiedValidates
    <3>4. m \in Markers(db, view.h)
      BY <3>1, <3>2 DEF Markers
    <3> QED
      BY <3>1, <3>3, <3>4
  <2> QED
    BY <2>1, <2>2 DEF VerifySource
<1> HIDE DEF Prefixes
<1> QED
  BY <1>1, <1>2, <1>3, ReadInvariant, PTL DEF ReadSpec
=============================================================================
