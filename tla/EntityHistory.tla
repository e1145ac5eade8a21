---------------------------- MODULE EntityHistory ----------------------------
(***************************************************************************)
(* Versioned nodes, edges and claims: the writes of temporal_entity_writes *)
(* over the commit log, the interval indexes they maintain, the as-of      *)
(* selection that reads through those indexes, and the migration of legacy *)
(* timestamp-keyed edges.  How one commit is published is TemporalCommit's *)
(* subject; here a commit is one step and its indexes are maintained.      *)
(*                                                                         *)
(* A payload is a record with a kind; what identifies it is its entity.    *)
(* The ids of edges are numbers, in the order of the strings they stand    *)
(* for.                                                                    *)
(***************************************************************************)
EXTENDS Naturals, Sequences, FiniteSets, SequencesExt, FiniteSetsExt

CONSTANTS
    MaxInstant,         \* bound: valid time is 0..MaxInstant
    ValidIntervals,     \* the intervals <<from, to>> that clients write
    LegacyRecords,      \* the legacy records that are stored
    MaxCommits,         \* bound: commits
    MaxLegacyPuts       \* bound: legacy records stored

VARIABLES
    hist,               \* the visible commits: [migration, versions]
    legacy,             \* the TimeIndexedEdge records: [start, pay]
    scanned,            \* the records a running migration has read
    doomed,             \* those of them it has yet to delete
    puts

historyVars == <<hist, legacy, scanned, doomed, puts>>

HistoryInit == hist = <<>> /\ legacy = {} /\ scanned = {} /\ doomed = {} /\ puts = 0

Times == 0..MaxInstant
Open == MaxInstant + 1          \* OPEN_END: after every instant
Inherited == <<Open, Open>>     \* no interval given
Empty == [kind |-> "none"]      \* the payload of a retraction

-----------------------------------------------------------------------------
(* Identity: a claim is identified by what it states and in which context,  *)
(* never by its confidence.                                                 *)

Statement(c) == <<c.subject, c.predicate, c.objectKind, c.object>>
ClaimId(c) == <<Statement(c), c.polarity, c.agent, c.source, c.world>>
EntityOf(p) == <<p.kind, IF p.kind = "claim" THEN ClaimId(p) ELSE p.id>>

-----------------------------------------------------------------------------
(* Writes.                                                                  *)

VersionOf(entity, op, pay, valid) ==
    [entity |-> entity, op |-> op, pay |-> pay, from |-> valid[1], to |-> valid[2]]
Located(h) == UNION {{<<c, o>> : o \in DOMAIN h[c].versions} : c \in DOMAIN h}
At(h, loc) == h[loc[1]].versions[loc[2]]

CommitVersions(vs, migration) ==
    /\ Len(hist) < MaxCommits
    /\ hist' = Append(hist, [migration |-> migration, versions |-> vs])

OneVersion(v) == CommitVersions(<<v>>, FALSE) /\ UNCHANGED <<legacy, scanned, doomed, puts>>

(* put_node_version, put_edge_version                                       *)
PutVersion(p, valid) == p.kind # "claim" /\ OneVersion(VersionOf(EntityOf(p), "assert", p, valid))
AssertClaim(p, valid) == p.kind = "claim" /\ OneVersion(VersionOf(EntityOf(p), "assert", p, valid))

(* What a write that names a superseded version covers when it gives no     *)
(* interval of its own.                                                     *)
Covering(valid, target) == IF valid = Inherited THEN <<target.from, target.to>> ELSE valid

(* correct_node_version, correct_edge_version                               *)
CorrectVersion(loc, p, valid) ==
    /\ p.kind # "claim" /\ At(hist, loc).entity = EntityOf(p)
    /\ OneVersion(VersionOf(EntityOf(p), "correct", p, Covering(valid, At(hist, loc))))

(* A claim's correction keeps the identity, and corrects a version that     *)
(* carries a claim.                                                         *)
CorrectClaim(loc, p, valid) ==
    /\ p.kind = "claim" /\ At(hist, loc).pay # Empty /\ EntityOf(At(hist, loc).pay) = EntityOf(p)
    /\ OneVersion(VersionOf(EntityOf(p), "correct", p, Covering(valid, At(hist, loc))))

(* require_retraction_identities                                            *)
Published(entity) == \E loc \in Located(hist) : At(hist, loc).entity = entity /\ At(hist, loc).op # "retract"

(* loc is the superseded version, or <<>> where none is named.              *)
Retracts(entity, loc, valid) ==
    /\ Published(entity)
    /\ IF loc = <<>> THEN valid # Inherited ELSE At(hist, loc).entity = entity
    /\ OneVersion(VersionOf(entity, "retract", Empty, IF loc = <<>> THEN valid ELSE Covering(valid, At(hist, loc))))

(* retract_node_version, retract_edge_version                               *)
RetractVersion(entity, loc, valid) == entity[1] # "claim" /\ Retracts(entity, loc, valid)
RetractClaim(entity, loc, valid) == entity[1] = "claim" /\ Retracts(entity, loc, valid)

-----------------------------------------------------------------------------
(* The migration of legacy records.  A record is keyed by its timestamp and *)
(* id, so no id has two records of one timestamp.                           *)

LegacyKey(r) == <<r.start, r.pay.id>>
PutLegacy(r) ==
    /\ puts < MaxLegacyPuts
    /\ legacy' = {q \in legacy : LegacyKey(q) # LegacyKey(r)} \cup {r}
    /\ puts' = puts + 1
    /\ UNCHANGED <<hist, scanned, doomed>>

LegacyIds == {r.pay.id : r \in legacy}
RecordsOf(id) == {r \in legacy : r.pay.id = id}
(* interval_policy "successive"                                             *)
EndOf(r, records) == Min({q.start : q \in {s \in records : s.start > r.start}} \cup {Open})

MigrationVersions(id) ==
    {v \in {At(hist, loc) : loc \in {l \in Located(hist) : hist[l[1]].migration}} : v.entity = <<"edge", id>>}
Migrated(id) == MigrationVersions(id) # {}
MigrationExists == \E c \in DOMAIN hist : hist[c].migration
MatchingVersion(r) ==
    \E v \in MigrationVersions(r.pay.id) : v.op = "assert" /\ v.from = r.start /\ v.pay = r.pay

(* An id that no migration has seen is refused once there was one, and so   *)
(* is a record that a migrated id did not have.                             *)
Acceptable ==
    /\ MigrationExists => \A id \in LegacyIds : Migrated(id)
    /\ \A r \in legacy : Migrated(r.pay.id) => MatchingVersion(r)

(* Sorted by id and then by start: a record's place is how many precede it. *)
Precedes(q, r) == q.pay.id < r.pay.id \/ (q.pay.id = r.pay.id /\ q.start < r.start)
Ahead(r, records) == Cardinality({q \in records : Precedes(q, r)})
Unmigrated == {r \in legacy : ~Migrated(r.pay.id)}
Asserted(r) == VersionOf(<<"edge", r.pay.id>>, "assert", r.pay, <<r.start, EndOf(r, RecordsOf(r.pay.id))>>)
MigrationWrites ==
    [i \in 1..Cardinality(Unmigrated) |-> Asserted(CHOOSE r \in Unmigrated : Ahead(r, Unmigrated) = i - 1)]

(* migrate_time_indexed_edges up to its commit.  The deletions follow one   *)
(* by one, when they were asked for; whoever fails in between may retry.    *)
Migrate(deleteLegacy) ==
    /\ legacy # {} /\ doomed = {} /\ Acceptable
    /\ IF MigrationWrites = <<>> THEN UNCHANGED hist ELSE CommitVersions(MigrationWrites, TRUE)
    /\ scanned' = legacy
    /\ doomed' = IF deleteLegacy THEN legacy ELSE {}
    /\ UNCHANGED <<legacy, puts>>

DeleteLegacy(r) ==
    /\ r \in doomed
    /\ legacy' = {q \in legacy : LegacyKey(q) # LegacyKey(r)}
    /\ doomed' = doomed \ {r}
    /\ UNCHANGED <<hist, scanned, puts>>

MigrationFails ==
    /\ doomed # {} /\ doomed' = {}
    /\ UNCHANGED <<hist, legacy, scanned, puts>>

(* The clients' payloads are a parameter of what follows.                   *)
HistoryNext(payloads) ==
    \/ \E p \in payloads, valid \in ValidIntervals : PutVersion(p, valid) \/ AssertClaim(p, valid)
    \/ \E loc \in Located(hist), p \in payloads, valid \in ValidIntervals \cup {Inherited} :
            CorrectVersion(loc, p, valid) \/ CorrectClaim(loc, p, valid)
    \/ \E entity \in {EntityOf(p) : p \in payloads}, loc \in Located(hist) \cup {<<>>},
           valid \in ValidIntervals \cup {Inherited} :
            RetractVersion(entity, loc, valid) \/ RetractClaim(entity, loc, valid)

MigrationNext ==
    \/ \E r \in LegacyRecords : PutLegacy(r)
    \/ \E deleteLegacy \in BOOLEAN : Migrate(deleteLegacy)
    \/ \E r \in doomed : DeleteLegacy(r)
    \/ MigrationFails

HistorySpec(payloads) == HistoryInit /\ [][HistoryNext(payloads) \/ MigrationNext]_historyVars

-----------------------------------------------------------------------------
(* temporal_index_entries: the families and parts a version is filed under. *)

Dimensions(c) ==
    {<<"subject", c.subject>>, <<"predicate", c.predicate>>, <<"agent", c.agent>>, <<"source", c.source>>,
     <<"world", c.world>>, <<"polarity", c.polarity>>, <<"objectKind", c.objectKind>>}
Filed(v) ==
    {<<"logical_valid", v.entity>>}
        \cup (IF v.entity[1] = "node" THEN {<<"node_catalog">>} ELSE {})
        \cup (IF v.pay.kind = "edge"
              THEN {<<"out_catalog", v.pay.source>>, <<"in_catalog", v.pay.target>>}
                       \cup (IF v.pay.type = "none" THEN {}
                             ELSE {<<"out", v.pay.source, v.pay.type>>, <<"in", v.pay.target, v.pay.type>>})
              ELSE {})
        \cup (IF v.pay.kind = "claim"
              THEN {<<"claim_catalog">>, <<"statement", Statement(v.pay)>>}
                       \cup {<<"dimension", d[1], d[2]>> : d \in Dimensions(v.pay)}
              ELSE {})

(* interval_locators: started, and not yet ended, at an instant.            *)
IntervalLocators(h, filed, t) ==
    {loc \in Located(h) : /\ filed \in Filed(At(h, loc))
                          /\ At(h, loc).from <= t /\ At(h, loc).to > t}

Newest(locs) == CHOOSE l \in locs : \A m \in locs : m[1] < l[1] \/ (m[1] = l[1] /\ m[2] <= l[2])
Within(locs, horizon) == {l \in locs : l[1] <= horizon}

(* entity_as_of: the payload, or Empty.                                     *)
EntityAsOf(h, entity, t, horizon) ==
    LET locs == Within(IntervalLocators(h, <<"logical_valid", entity>>, t), horizon)
    IN  IF locs = {} THEN Empty ELSE At(h, Newest(locs)).pay

Candidates(h, filed, t, horizon) == {At(h, l).entity : l \in Within(IntervalLocators(h, filed, t), horizon)}
Resolved(h, entities, t, horizon) == {EntityAsOf(h, e, t, horizon) : e \in entities} \ {Empty}

(* iter_nodes_as_of                                                         *)
NodesAsOf(h, t, horizon) == Resolved(h, Candidates(h, <<"node_catalog">>, t, horizon), t, horizon)

(* iter_edges_as_of: a candidate may since have moved, so what it resolves  *)
(* to is compared again with what was asked for.                            *)
BadEdgeMatches(p, type, direction, node) == type # "none" => p.type = type
EdgeMatches(p, type, direction, node) ==
    /\ type # "none" => p.type = type
    /\ node = (IF direction = "out" THEN p.source ELSE p.target)
EdgesAsOf(h, type, direction, node, t, horizon) ==
    LET filed == IF type = "none" THEN <<IF direction = "out" THEN "out_catalog" ELSE "in_catalog", node>>
                 ELSE <<direction, node, type>>
    IN  {p \in Resolved(h, Candidates(h, filed, t, horizon), t, horizon) : EdgeMatches(p, type, direction, node)}

(* iter_claims_as_of: a filter is a function from some of the fields to     *)
(* their values; one with an object has an objectKind, entity by default.   *)
(* The statement comes first, then the first field given, in this order; a      *)
(* source that is asked to be absent selects no index.                      *)
FieldOrder == <<"subject", "predicate", "agent", "world", "polarity", "objectKind", "source">>
NoSource == "none"
ClaimFiled(filter) ==
    LET given == {i \in DOMAIN FieldOrder : /\ FieldOrder[i] \in DOMAIN filter
                                            /\ FieldOrder[i] = "source" => filter["source"] # NoSource}
        name == FieldOrder[Min(given)]
    IN  IF {"subject", "predicate", "objectKind", "object"} \subseteq DOMAIN filter
        THEN <<"statement", Statement(filter)>>
        ELSE IF given = {} THEN <<"claim_catalog">> ELSE <<"dimension", name, filter[name]>>
ClaimMatches(c, filter) == \A f \in DOMAIN filter : c[f] = filter[f]
ClaimsAsOf(h, filter, t, horizon) ==
    {c \in Resolved(h, Candidates(h, ClaimFiled(filter), t, horizon), t, horizon) : ClaimMatches(c, filter)}

(* claim_status                                                             *)
StatusOf(polarities) ==
    CASE polarities = {"positive", "negative"} -> "both"
      [] polarities = {"positive"} -> "supported"
      [] polarities = {"negative"} -> "refuted"
      [] OTHER -> "unknown"
ClaimStatus(h, filter, t, horizon) == StatusOf({c.polarity : c \in ClaimsAsOf(h, filter, t, horizon)})

-----------------------------------------------------------------------------
(* Properties.                                                              *)

(* Reference: the versions are laid over the timeline one after another, in *)
(* the order they were committed; what is on top is what holds.             *)
Fold(op(_, _), base, s) ==
    LET r[n \in 0..Len(s)] == IF n = 0 THEN base ELSE op(r[n - 1], s[n])
    IN IF Len(s) \in Nat THEN r[Len(s)] ELSE base
Lay(top, v, t) ==
    IF v.from <= t /\ t < v.to THEN {q \in top : EntityOf(q) # v.entity} \cup ({v.pay} \ {Empty}) ELSE top
LayCommit(top, c, t) == Fold(LAMBDA acc, v : Lay(acc, v, t), top, c.versions)
Painted(h, t, horizon) == Fold(LAMBDA acc, c : LayCommit(acc, c, t), {}, SubSeq(h, 1, horizon))

(* What holds only changes where a version starts or ends.                  *)
Changes(h) == (UNION {{At(h, l).from, At(h, l).to} : l \in Located(h)}) \cap Times
Horizons == {c \in DOMAIN hist : c + 1 >= Len(hist)}

Ever(kind) == {p \in {At(hist, l).pay : l \in Located(hist)} : p.kind = kind}
OfKind(top, kind) == {p \in top : p.kind = kind}
Only(c, fields) == [f \in fields |-> c[f]]
FilterFields ==
    {{}, {"object", "objectKind"}, {"source"}, {"agent", "source"}, {"polarity", "world"},
     {"subject", "predicate", "objectKind", "object"}}

(* What is read of an entity, and by ends and type or by a filter.          *)
EntitiesExact(top, t, horizon) ==
    \A l \in Located(hist) :
        EntityAsOf(hist, At(hist, l).entity, t, horizon) =
            IF \E p \in top : EntityOf(p) = At(hist, l).entity
            THEN CHOOSE p \in top : EntityOf(p) = At(hist, l).entity ELSE Empty
EdgesExact(top, t, horizon) ==
    \A type \in {p.type : p \in Ever("edge")} \cup {"none"}, p \in Ever("edge") :
        /\ EdgesAsOf(hist, type, "out", p.source, t, horizon)
               = {q \in OfKind(top, "edge") : q.source = p.source /\ type \in {"none", q.type}}
        /\ EdgesAsOf(hist, type, "in", p.target, t, horizon)
               = {q \in OfKind(top, "edge") : q.target = p.target /\ type \in {"none", q.type}}
ClaimsExact(top, t, horizon) ==
    \A c \in Ever("claim"), fields \in FilterFields :
        ClaimsAsOf(hist, Only(c, fields), t, horizon)
            = {q \in OfKind(top, "claim") : \A f \in fields : q[f] = c[f]}

(* Every as-of read through the indexes returns exactly what the painted    *)
(* timeline holds at that instant and horizon: an entity corrected to other *)
(* endpoints, another type or another confidence is found where it is now   *)
(* and nowhere else, and a retraction hides what it covers and only that    *)
(* (temporal_selection over temporal_index_entries).                        *)
SelectionExact ==
    \A t \in Changes(hist), horizon \in Horizons :
        LET top == Painted(hist, t, horizon)
        IN  /\ EntitiesExact(top, t, horizon)
            /\ NodesAsOf(hist, t, horizon) = OfKind(top, "node")
            /\ EdgesExact(top, t, horizon) /\ ClaimsExact(top, t, horizon)

Taken(r) == \E v \in MigrationVersions(r.pay.id) : v.from = r.start /\ v.pay = r.pay
LaidOut(h, c) ==
    \A v \in Range(h[c].versions), t \in Times :
        LET own == {w \in Range(h[c].versions) : w.entity = v.entity /\ w.from <= t}
        IN  own # {} => \E w \in own : /\ \A u \in own : u.from <= w.from
                                       /\ EntityAsOf(h, v.entity, t, c) = w.pay

(* A migration gives the edges it takes over the history their records      *)
(* describe, each id once: at its commit an edge is, at every instant, its  *)
(* latest record until then, and every record a migration has read, deleted *)
(* since or not, is asserted in the history with its start and its payload, *)
(* whatever was retried after a failure (migrate_time_indexed_edges).       *)
MigrationExact ==
    /\ \A r \in scanned : Taken(r)
    /\ \A c \in DOMAIN hist : hist[c].migration => LaidOut(hist, c)
    /\ \A c, d \in DOMAIN hist : (hist[c].migration /\ hist[d].migration) => c = d

(* Reads through the indexes and migration of legacy records agree with the *)
(* history they are about: see SelectionExact and MigrationExact            *)
(* (temporal_selection, migrate_time_indexed_edges).                        *)
HistoryExact == SelectionExact /\ MigrationExact
=============================================================================
