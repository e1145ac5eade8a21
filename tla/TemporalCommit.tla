---------------------------- MODULE TemporalCommit ----------------------------
(***************************************************************************)
(* The temporal write path of one database: commit publication, derived    *)
(* index maintenance, index rebuild and orphan reclamation, on stores with *)
(* and without backend transactions, with a crash or an exception possible *)
(* between any two durable writes.  Every operation runs under the         *)
(* database-wide writer guard, so at most one is in flight (module         *)
(* WriterLock); pc is the step the guard's holder has reached.             *)
(*                                                                         *)
(* A digest is modelled by the value it digests: a visibility marker is    *)
(* the descriptor it hashes, a visibility checksum the set of markers, and *)
(* a record digest the version itself.                                     *)
(***************************************************************************)
EXTENDS Naturals, Sequences, FiniteSets, FiniteSetsExt

CONSTANTS
    VersionIds,     \* version ids
    Entities,       \* pairs of an entity kind and a logical id
    Batches,        \* the write batches callers may submit, sequences of versions
    Deployments,    \* how databases are used: see DeploymentType
    Clocks,         \* readings of the injected clock, which may go backwards
    IdLimit,        \* commit ids stay below it (2^64 in the code)
    MaxGen,         \* bound on index generations while reads are served
    RepairGen,      \* bound on generations when full rebuilds repair refused reads
    MaxFaults,      \* bound on crashes and caught exceptions
    None            \* no superseded version

Families == {"exact", "range"}

Version ==
    [vid : VersionIds, lid : Entities, op : {"assert", "correct", "retract"},
     sup : VersionIds \cup {None}]

(* transactional: the backend offers graph transactions; modes: the index   *)
(* modes its writers use; partial: rebuilds with a through_commit bound.    *)
DeploymentType ==
    [transactional : BOOLEAN, modes : SUBSET {"maintain", "defer"}, partial : BOOLEAN]

ASSUME ConstantAssumptions ==
    /\ Deployments \subseteq DeploymentType
    /\ Clocks \subseteq Nat \ {0}
    /\ IdLimit \in Nat /\ MaxGen \in Nat /\ RepairGen \in Nat /\ MaxFaults \in Nat
    /\ None \notin VersionIds
    /\ Batches \subseteq Seq(Version) \ {<<>>}

VARIABLES
    dep,        \* the deployment, fixed by Init
    sidecar,    \* durable allocation high-water mark, outside every transaction
    db,         \* the committed store
    ws,         \* the store the guard's holder reads and writes
    inTx,       \* whether ws is a backend transaction not yet committed
    pc,         \* step of the operation in flight
    cmt,        \* the commit being published
    reb,        \* the index rebuild in progress
    rcl,        \* ids of the orphans being reclaimed
    faults      \* crashes and caught exceptions so far

vars == <<dep, sidecar, db, ws, inTx, pc, cmt, reb, rcl, faults>>

NoState == [through |-> 0, gen |-> 0, sum |-> {}]
EmptyStore == [seq |-> 0, desc |-> {}, rec |-> {}, mark |-> {},
               stale |-> FALSE, state |-> NoState, idx |-> {}]
NoCommit == [id |-> 0, time |-> 0, versions |-> <<>>, mode |-> "maintain",
             next |-> 1, publish |-> FALSE]
NoRebuild == [prior |-> 0, gen |-> 0, horizon |-> 0, latest |-> 0, todo |-> {}]

-----------------------------------------------------------------------------
(* Reading a store s.                                                       *)

VisibleIds(s) == {m.id : m \in s.mark}

(* system_horizon without a system time: the newest visible commit.         *)
Latest(s) == Max(VisibleIds(s) \cup {0})

(* Every version of the visible commits through h, with its position.       *)
VisibleVersions(s, h) ==
    UNION {{[id |-> m.id, ord |-> i, ver |-> m.versions[i]] : i \in DOMAIN m.versions} :
              m \in {n \in s.mark : n.id <= h}}

ActiveGen(s) == IF s.state.gen = 0 THEN 1 ELSE s.state.gen

(* temporal_index_entries for one commit, one index family, one generation. *)
Entries(d, gen, fam) ==
    {[gen |-> gen, fam |-> fam, id |-> d.id, ord |-> i, vid |-> d.versions[i].vid] :
        i \in DOMAIN d.versions}

Locators(s, v) ==
    {e \in s.idx : e.gen = ActiveGen(s) /\ e.fam = "exact" /\ e.vid = v}

Markers(s, h) == {m \in s.mark : m.id <= h}

(* ensure_temporal_indexes: TRUE when an indexed read at h goes ahead.      *)
EnsureIndexes(s, h) ==
    /\ ~s.stale
    /\ \/ h = 0 /\ s.state.gen = 0
       \/ /\ s.state.gen # 0
          /\ s.state.through >= h
          /\ s.state.sum = Markers(s, s.state.through)

(* A reader of the whole visible history is served.                         *)
Readable(s) == EnsureIndexes(s, Latest(s))

UsableVersionIndex(s, h) ==
    h >= 1 /\ ~s.stale /\ s.state.gen # 0 /\ s.state.through >= h

(* version_id_exists: the version index once any index state is published,  *)
(* else a scan of the descriptors, orphans included.                        *)
VersionIdExists(s, v) ==
    IF s.state.gen # 0
    THEN Locators(s, v) # {}
    ELSE \E d \in s.desc : \E i \in DOMAIN d.versions : d.versions[i].vid = v

Matches(s, v, h) == {x \in VisibleVersions(s, h) : x.ver.vid = v}

(* get_versions_through_batch raises TemporalCorruptionError: the usable    *)
(* index holds two locators for v, or omits a version the history holds.    *)
LookupRaises(s, v, h) ==
    /\ UsableVersionIndex(s, h)
    /\ \/ Cardinality({<<e.id, e.ord>> : e \in Locators(s, v)}) > 1
       \/ /\ ~\E e \in Locators(s, v) : e.id \in VisibleIds(s) /\ e.id <= h
          /\ Matches(s, v, h) # {}

(* The version a supersession resolves to: the earliest with that id.       *)
Resolves(s, v, h, x) ==
    /\ x \in Matches(s, v, h)
    /\ \A y \in Matches(s, v, h) : x.id <= y.id
    /\ ~LookupRaises(s, v, h)

(* A superseded version is an earlier one of the same kind and logical id.  *)
SupersessionHolds(s, v, h) ==
    v.sup # None => \E x \in Matches(s, v.sup, h) :
                       Resolves(s, v.sup, h, x) /\ x.ver.lid = v.lid

(* get_commit with its supersession check: FALSE when it raises.            *)
Validates(s, m) == \A i \in DOMAIN m.versions : SupersessionHolds(s, m.versions[i], m.id - 1)

Establishes(w, lid) == w.lid = lid /\ w.op # "retract"

(* Faulty variants.  An operator whose name starts with Bad changes the one *)
(* that follows it as a plausible mistake in the code would: it is used     *)
(* only to show that a property can tell the difference.                    *)
BadOrphansEstablish(s, h, b, i) ==
    \/ \E j \in 1..(i-1) : Establishes(b[j], b[i].lid)
    \/ \E d \in s.desc : \E j \in DOMAIN d.versions : Establishes(d.versions[j], b[i].lid)

(* What may be retracted: an entity asserted earlier in the batch or in     *)
(* published history.                                                       *)
RetractionEstablished(s, h, b, i) ==
    \/ \E j \in 1..(i-1) : Establishes(b[j], b[i].lid)
    \/ \E x \in VisibleVersions(s, h) : Establishes(x.ver, b[i].lid)

(* The checks commit_direct makes before it reserves an id.  A logical id   *)
(* stands for the pair of entity kind and logical id.                       *)
ValidVersion(s, h, b, i) ==
    LET v == b[i]
    IN /\ \A j \in 1..(i-1) : b[j].vid # v.vid
       /\ ~VersionIdExists(s, v.vid)
       /\ SupersessionHolds(s, v, h)
       /\ v.op = "assert" => v.sup = None
       /\ v.op = "correct" => v.sup # None
       /\ v.op = "retract" => RetractionEstablished(s, h, b, i)

ValidBatch(s, h, b) == \A i \in DOMAIN b : ValidVersion(s, h, b, i)

-----------------------------------------------------------------------------
(* A durable write: straight to the store, or to the open transaction.      *)
Write(s) == ws' = s /\ db' = IF inTx THEN db ELSE s

Goto(p) == pc' = p /\ UNCHANGED <<dep, inTx, faults>>

Descriptor == [id |-> cmt.id, time |-> cmt.time, versions |-> cmt.versions]

Init ==
    /\ dep \in Deployments
    /\ sidecar = [id |-> 0, time |-> 0]
    /\ db = EmptyStore /\ ws = EmptyStore
    /\ inTx = FALSE /\ pc = "idle"
    /\ cmt = NoCommit /\ reb = NoRebuild /\ rcl = {}
    /\ faults = 0

-----------------------------------------------------------------------------
(* commit_direct, one action per durable write.                             *)

BadClock(now) == now
BadLatestVisible == Latest(ws) + 1

(* next_temporal_system_time: strictly after the previous one.              *)
NextTime(now) == IF now <= sidecar.time THEN sidecar.time + 1 ELSE now

(* The id that reserve_temporal_sequence allocates.                         *)
NextId == sidecar.id + 1

(* The sidecar file is replaced atomically, outside every transaction.      *)
ReplaceSidecar(id, time) == sidecar' = [id |-> id, time |-> time]

(* Validation, then reserve_temporal_sequence.                              *)
ReserveSequence ==
    /\ pc = "idle" /\ inTx = dep.transactional
    /\ NextId < IdLimit
    /\ \E b \in Batches, m \in dep.modes, now \in Clocks :
          /\ ValidBatch(ws, sidecar.id, b)
          /\ ReplaceSidecar(NextId, NextTime(now))
          /\ cmt' = [id |-> NextId, time |-> NextTime(now), versions |-> b, mode |-> m,
                     next |-> 1, publish |-> FALSE]
    /\ Goto("sequence")
    /\ UNCHANGED <<db, ws, reb, rcl>>

KeysAbsent(s, id) ==
    /\ \A d \in s.desc \cup s.mark : d.id # id
    /\ \A r \in s.rec : r.id # id

(* The overwrite checks, then the sequence metadata.                        *)
PutSequence ==
    /\ pc = "sequence"
    /\ KeysAbsent(ws, cmt.id)
    /\ Write([ws EXCEPT !.seq = cmt.id])
    /\ Goto("descriptor")
    /\ UNCHANGED <<sidecar, cmt, reb, rcl>>

PutDescriptor ==
    /\ pc = "descriptor"
    /\ Write([ws EXCEPT !.desc = @ \cup {Descriptor}])
    /\ Goto("records")
    /\ UNCHANGED <<sidecar, cmt, reb, rcl>>

BadSkipsLast == cmt.next + 1 < Len(cmt.versions)

MoreRecords == cmt.next < Len(cmt.versions)

PutRecord ==
    /\ pc = "records"
    /\ Write([ws EXCEPT !.rec = @ \cup {[id |-> cmt.id, ord |-> cmt.next,
                                         ver |-> cmt.versions[cmt.next]]}])
    /\ cmt' = [cmt EXCEPT !.next = @ + 1]
    /\ Goto(IF MoreRecords THEN "records" ELSE cmt.mode)
    /\ UNCHANGED <<sidecar, reb, rcl>>

BadDeferUnmarked ==
    /\ pc = "defer"
    /\ Write(ws)
    /\ Goto("visible")
    /\ UNCHANGED <<sidecar, cmt, reb, rcl>>

(* DEFER: the family is marked stale before the commit becomes visible.     *)
DeferIndexes ==
    /\ pc = "defer"
    /\ Write([ws EXCEPT !.stale = TRUE])
    /\ Goto("visible")
    /\ UNCHANGED <<sidecar, cmt, reb, rcl>>

(* MAINTAIN: history that no published index state covers makes the family  *)
(* stale, and this commit's entries are written but not published.          *)
MaintainIndexes ==
    /\ pc = "maintain"
    /\ LET priorVisible == ws.state.gen = 0 /\ \E i \in VisibleIds(ws) : i < cmt.id
       IN /\ Write([ws EXCEPT !.stale = @ \/ priorVisible])
          /\ cmt' = [cmt EXCEPT !.publish = ~priorVisible]
    /\ Goto("exact")
    /\ UNCHANGED <<sidecar, reb, rcl>>

PutExactEntries ==
    /\ pc = "exact"
    /\ Write([ws EXCEPT !.idx = @ \cup Entries(Descriptor, ActiveGen(ws), "exact")])
    /\ Goto("range")
    /\ UNCHANGED <<sidecar, cmt, reb, rcl>>

PutRangeEntries ==
    /\ pc = "range"
    /\ Write([ws EXCEPT !.idx = @ \cup Entries(Descriptor, ActiveGen(ws), "range")])
    /\ Goto(IF cmt.publish THEN "state" ELSE "visible")
    /\ UNCHANGED <<sidecar, cmt, reb, rcl>>

(* persist_index_state, its checksum over the marker about to be written.   *)
PersistIndexState ==
    /\ pc = "state"
    /\ Write([ws EXCEPT !.state = [through |-> cmt.id, gen |-> ActiveGen(ws),
                                   sum |-> Markers(ws, cmt.id) \cup {Descriptor}]])
    /\ Goto("visible")
    /\ UNCHANGED <<sidecar, cmt, reb, rcl>>

(* The visibility marker is always written last; the read-back that follows *)
(* changes nothing.                                                         *)
PutVisibleMarker ==
    /\ pc = "visible"
    /\ Write([ws EXCEPT !.mark = @ \cup {Descriptor}])
    /\ cmt' = NoCommit
    /\ Goto("idle")
    /\ UNCHANGED <<sidecar, reb, rcl>>

-----------------------------------------------------------------------------
(* rebuild_temporal_indexes, called directly (through_commit may bound it)  *)
(* or by the reclamation of orphans (pc = "rebuild").                       *)

BadCopiesGaps(s, k) == 1..k

(* The commits a rebuild through k copies: iter_commits skips ids with no   *)
(* visible commit.                                                          *)
CommitsToCopy(s, k) == {i \in VisibleIds(s) : i <= k}

StartRebuild ==
    /\ \E k \in 0..Latest(ws) :
          /\ \/ /\ pc = "idle" /\ (dep.partial \/ k = Latest(ws))
                /\ ws.state.gen < IF k = Latest(ws) /\ ~Readable(ws) THEN RepairGen ELSE MaxGen
             \/ pc = "rebuild" /\ k = Latest(ws)
          /\ reb' = [prior |-> ws.state.gen, gen |-> ws.state.gen + 1, horizon |-> k,
                     latest |-> Latest(ws), todo |-> CommitsToCopy(ws, k)]
    /\ Write([ws EXCEPT !.stale = @ \/ ws.state.gen = 0])
    /\ Goto("build")
    /\ UNCHANGED <<sidecar, cmt, rcl>>

(* One visible commit copied into the new, still inactive generation.       *)
BuildGeneration ==
    /\ pc = "build" /\ reb.todo # {}
    /\ \E m \in ws.mark :
          /\ m.id = Min(reb.todo) /\ Validates(ws, m)
          /\ Write([ws EXCEPT !.idx = @ \cup UNION {Entries(m, reb.gen, f) : f \in Families}])
          /\ reb' = [reb EXCEPT !.todo = @ \ {m.id}]
    /\ Goto("build")
    /\ UNCHANGED <<sidecar, cmt, rcl>>

ActivateGeneration ==
    /\ pc = "build" /\ reb.todo = {}
    /\ Write([ws EXCEPT !.state = [through |-> reb.horizon, gen |-> reb.gen,
                                   sum |-> Markers(ws, reb.horizon)]])
    /\ Goto("clear")
    /\ UNCHANGED <<sidecar, cmt, reb, rcl>>

BadStrict == reb.horizon > reb.latest

CoversLatest == reb.horizon >= reb.latest

ClearStale ==
    /\ pc = "clear"
    /\ Write([ws EXCEPT !.stale = @ /\ ~CoversLatest])
    /\ reb' = [reb EXCEPT !.todo = VisibleIds(ws)]
    /\ Goto("prune")
    /\ UNCHANGED <<sidecar, cmt, rcl>>

BadAnyGeneration(e, id) == e.id = id

Superseded(e, id) == e.gen = reb.prior /\ e.id = id

(* delete_temporal_index_generation: the entries of one visible commit.     *)
PruneGeneration ==
    /\ pc = "prune" /\ reb.todo # {}
    /\ \E m \in ws.mark :
          /\ m.id = Min(reb.todo) /\ Validates(ws, m)
          /\ Write([ws EXCEPT !.idx = {e \in @ : ~Superseded(e, m.id)}])
          /\ reb' = [reb EXCEPT !.todo = @ \ {m.id}]
    /\ Goto("prune")
    /\ UNCHANGED <<sidecar, cmt, rcl>>

FinishRebuild ==
    /\ pc = "prune" /\ reb.todo = {}
    /\ reb' = NoRebuild
    /\ Goto("idle")
    /\ UNCHANGED <<sidecar, db, ws, cmt, rcl>>

(* A commit that fails its own supersession check stops the rebuild: the    *)
(* exception leaves what was written behind.                                *)
RebuildRaises ==
    /\ pc \in {"build", "prune"} /\ reb.todo # {}
    /\ \E m \in ws.mark : m.id = Min(reb.todo) /\ ~Validates(ws, m)
    /\ reb' = NoRebuild
    /\ Goto("idle")
    /\ UNCHANGED <<sidecar, db, ws, cmt, rcl>>

-----------------------------------------------------------------------------
(* reclaim_orphans_locked.                                                  *)

(* Unmarked commits through t that have a descriptor.  Without a descriptor *)
(* the id is only a reservation gap, and there is nothing to delete.        *)
IncompleteCommits(s, t) == {d.id : d \in {x \in s.desc : x.id <= t}} \ VisibleIds(s)

StartReclaim ==
    /\ pc = "idle" /\ inTx = dep.transactional
    /\ \E t \in 0..sidecar.id :
          /\ \A m \in Markers(ws, t) : Validates(ws, m)
          /\ IncompleteCommits(ws, t) # {}
          /\ rcl' = IncompleteCommits(ws, t)
    /\ Write([ws EXCEPT !.stale = TRUE])
    /\ Goto("unindex")
    /\ UNCHANGED <<sidecar, cmt, reb>>

(* Entries are derived from the records still present, active generation.   *)
UnindexOrphans ==
    /\ pc = "unindex"
    /\ LET Derived(e) == /\ e.id \in rcl /\ e.gen = ActiveGen(ws)
                         /\ \E r \in ws.rec : r.id = e.id /\ r.ord = e.ord
       IN Write([ws EXCEPT !.idx = {e \in @ : ~Derived(e)}])
    /\ Goto("unrecord")
    /\ UNCHANGED <<sidecar, cmt, reb, rcl>>

DeleteOrphanRecord ==
    /\ pc = "unrecord"
    /\ \E r \in ws.rec :
          /\ r.id = Min(rcl)
          /\ \A q \in ws.rec : q.id = r.id => r.ord <= q.ord
          /\ Write([ws EXCEPT !.rec = @ \ {r}])
    /\ Goto("unrecord")
    /\ UNCHANGED <<sidecar, cmt, reb, rcl>>

(* The descriptor goes once the records are gone; after the last orphan the *)
(* indexes are rebuilt under the same guard.                                *)
DeleteOrphanDescriptor ==
    /\ pc = "unrecord"
    /\ \A r \in ws.rec : r.id # Min(rcl)
    /\ Write([ws EXCEPT !.desc = {d \in @ : d.id # Min(rcl)}])
    /\ rcl' = rcl \ {Min(rcl)}
    /\ Goto(IF rcl = {Min(rcl)} THEN "rebuild" ELSE "unrecord")
    /\ UNCHANGED <<sidecar, cmt, reb>>

-----------------------------------------------------------------------------
(* Backend transactions: implicit around one commit or reclamation, or the  *)
(* caller's own around several.  The guard is held from begin to end.       *)

BeginTransaction ==
    /\ dep.transactional /\ ~inTx /\ pc = "idle"
    /\ inTx' = TRUE
    /\ UNCHANGED <<dep, sidecar, db, ws, pc, cmt, reb, rcl, faults>>

CommitTransaction ==
    /\ inTx /\ pc = "idle"
    /\ db' = ws /\ inTx' = FALSE
    /\ UNCHANGED <<dep, sidecar, ws, pc, cmt, reb, rcl, faults>>

RollbackTransaction ==
    /\ inTx /\ pc = "idle"
    /\ ws' = db /\ inTx' = FALSE
    /\ UNCHANGED <<dep, sidecar, db, pc, cmt, reb, rcl, faults>>

-----------------------------------------------------------------------------
(* Faults.                                                                  *)

Abandon ==
    /\ faults < MaxFaults
    /\ faults' = faults + 1
    /\ pc' = "idle" /\ cmt' = NoCommit /\ reb' = NoRebuild /\ rcl' = {}
    /\ UNCHANGED <<dep, sidecar, db>>

(* The process dies: an open transaction is lost, the rest stays.           *)
Crash ==
    /\ pc # "idle" \/ inTx
    /\ Abandon
    /\ ws' = db /\ inTx' = FALSE

(* A write raises and the caller carries on, inside its transaction if it   *)
(* has one.                                                                 *)
Fail ==
    /\ pc # "idle"
    /\ Abandon
    /\ UNCHANGED <<ws, inTx>>

-----------------------------------------------------------------------------
CommitStep ==
    \/ PutSequence \/ PutDescriptor \/ PutRecord
    \/ DeferIndexes \/ MaintainIndexes \/ PutExactEntries \/ PutRangeEntries
    \/ PersistIndexState \/ PutVisibleMarker

RebuildStep ==
    \/ BuildGeneration \/ ActivateGeneration \/ ClearStale \/ PruneGeneration \/ FinishRebuild
    \/ RebuildRaises

ReclaimStep == UnindexOrphans \/ DeleteOrphanRecord \/ DeleteOrphanDescriptor

Next ==
    \/ ReserveSequence \/ CommitStep
    \/ StartRebuild \/ RebuildStep
    \/ StartReclaim \/ ReclaimStep
    \/ BeginTransaction \/ CommitTransaction \/ RollbackTransaction
    \/ Crash \/ Fail

Spec == Init /\ [][Next]_vars
-----------------------------------------------------------------------------
(* Properties.                                                              *)

Steps == {"idle", "sequence", "descriptor", "records", "defer", "maintain", "exact",
          "range", "state", "visible", "rebuild", "build", "clear", "prune",
          "unindex", "unrecord"}

Commit == [id : Nat, time : Nat, versions : Seq(Version)]
Store ==
    [seq : Nat, desc : SUBSET Commit, mark : SUBSET Commit,
     rec : SUBSET [id : Nat, ord : Nat, ver : Version],
     stale : BOOLEAN, state : [through : Nat, gen : Nat, sum : SUBSET Commit],
     idx : SUBSET [gen : Nat, fam : Families, id : Nat, ord : Nat, vid : VersionIds]]

(* Everything stored under a commit id was reserved first.                  *)
ReservedFirst(s, reserved) ==
    /\ s.seq <= reserved.id /\ s.state.through <= reserved.id
    /\ \A d \in s.desc \cup s.mark : d.id \in 1..reserved.id /\ d.time \in 1..reserved.time
    /\ \A r \in s.rec : r.id \in 1..reserved.id
    /\ \A e \in s.idx : e.id \in 1..reserved.id

(* The type invariant.  It bounds every id a store mentions, the sequence   *)
(* metadata included, by the sidecar: read_temporal_sequence never finds    *)
(* that the durable sequence trails the stored one.                         *)
TypeOK ==
    /\ dep \in Deployments /\ inTx \in BOOLEAN /\ pc \in Steps
    /\ sidecar \in [id : Nat, time : Nat]
    /\ cmt \in [id : Nat, time : Nat, versions : Seq(Version), mode : {"maintain", "defer"},
                next : Nat, publish : BOOLEAN]
    /\ reb \in [prior : Nat, gen : Nat, horizon : Nat, latest : Nat, todo : SUBSET Nat]
    /\ rcl \in SUBSET (1..sidecar.id)
    /\ reb.horizon <= sidecar.id /\ reb.todo \subseteq 1..sidecar.id
    /\ cmt.id <= sidecar.id /\ cmt.time <= sidecar.time
    /\ faults \in 0..MaxFaults
    /\ db \in Store /\ ReservedFirst(db, sidecar)
    /\ ws \in Store /\ ReservedFirst(ws, sidecar)
    /\ ~inTx => ws = db

(* A reserved id is new: no descriptor, marker or record was ever stored    *)
(* under it, in spite of crashes and rollbacks after earlier reservations,  *)
(* so the overwrite checks of commit_direct never raise.                    *)
ReservedIdFresh == pc = "sequence" => KeysAbsent(ws, cmt.id)

(* get_commit authenticates every visible commit: its marker is the digest  *)
(* of the one descriptor stored under its id, and every record that the     *)
(* descriptor lists is present and unaltered.                               *)
Authentic(s, m) ==
    /\ m \in s.desc
    /\ \A d \in s.desc : d.id = m.id => d = m
    /\ \A i \in DOMAIN m.versions : [id |-> m.id, ord |-> i, ver |-> m.versions[i]] \in s.rec
    /\ \A r \in s.rec : r.id = m.id => r.ord \in DOMAIN m.versions /\ r.ver = m.versions[r.ord]

VisibleAuthentic == \A m \in db.mark : Authentic(db, m)

(* Temporal history is an append-only log, whatever is committed, rolled    *)
(* back, rebuilt, reclaimed or interrupted.                                 *)
History == INSTANCE TemporalLog WITH log <- db.mark
ImplementsLog == History!Spec

(* The active generation holds every entry of every commit through h.       *)
Covers(s, h) ==
    \A m \in Markers(s, h) : \A f \in Families : Entries(m, ActiveGen(s), f) \subseteq s.idx

(* Indexed reads fail closed: if ensure_temporal_indexes lets a read go     *)
(* ahead at horizon h, the active generation holds every entry of every     *)
(* visible commit through h, so that no answer silently omits history.      *)
IndexFailClosedUnlessPartial ==
    ~dep.partial => \A h \in 0..Latest(db) : EnsureIndexes(db, h) => Covers(db, h)

(* No two visible versions share a version id.                              *)
VersionIdsUnique ==
    \A x, y \in VisibleVersions(db, sidecar.id) : x.ver.vid = y.ver.vid => x = y

(* Version resolution raises neither for two locators nor for none.         *)
LookupNeverRaises ==
    \A v \in {x.ver.vid : x \in VisibleVersions(db, sidecar.id)}, h \in 0..sidecar.id : ~LookupRaises(db, v, h)

(* Each correction's target is a version of the same entity in an earlier   *)
(* visible commit, each retracted entity was asserted in visible history.   *)
HistoryWellFormed ==
    \A x \in VisibleVersions(db, sidecar.id) :
        /\ x.ver.sup # None =>
              \E y \in Matches(db, x.ver.sup, x.id - 1) : y.ver.lid = x.ver.lid
        /\ x.ver.op = "retract" =>
              \E y \in VisibleVersions(db, x.id) :
                 /\ y.ver.lid = x.ver.lid /\ y.ver.op # "retract"
                 /\ y.id < x.id \/ y.ord < x.ord

(* What commit_direct accepted makes sense in visible history alone, in     *)
(* spite of the orphans that its checks may also have met: corrections and  *)
(* retractions have their targets; and where indexes are maintained,        *)
(* version ids are unique, and no crash, orphan or retry makes the version  *)
(* index hold two locators for an id or omit a visible version, so that     *)
(* TemporalCorruptionError means corrupt data.                              *)
HistoryConsistent ==
    /\ HistoryWellFormed
    /\ (dep.modes = {"maintain"} /\ ~dep.partial) => VersionIdsUnique /\ LookupNeverRaises

(* A full rebuild never takes a readable index away: until activation the   *)
(* prior generation answers, afterwards the new one, whatever step the      *)
(* process dies at.                                                         *)
RebuildKeepsReads ==
    [][(reb # NoRebuild /\ ~dep.partial /\ Readable(db) /\ Covers(db, Latest(db)))
          => (Readable(db) /\ Covers(db, Latest(db)))']_vars

-----------------------------------------------------------------------------
(* Fairness: a started operation is not suspended for ever, a transaction   *)
(* scope ends, and someone rebuilds the indexes while reads are refused.    *)

RebuildWhenRefused == StartRebuild /\ ~inTx /\ ~Readable(db)

Fairness ==
    /\ WF_vars(CommitStep \/ RebuildStep \/ ReclaimStep \/ (pc = "rebuild" /\ StartRebuild))
    /\ WF_vars(CommitTransaction \/ RollbackTransaction)
    /\ SF_vars(RebuildWhenRefused)

FairSpec == Spec /\ Fairness

(* Every operation that starts ends: no guard, check or recovery step       *)
(* leaves the holder of the writer guard stuck.                             *)
OperationEnds == pc # "idle" ~> pc = "idle"

(* Refused reads come back: whatever crashes left behind, rebuilding makes  *)
(* a history of unique version ids readable again.                          *)
ReadsComeBack ==
    (~dep.partial /\ ~Readable(db)) ~> (Readable(db) \/ ~VersionIdsUnique)
=============================================================================
