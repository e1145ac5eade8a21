----------------------------- MODULE TemporalRead -----------------------------
(***************************************************************************)
(* A reader of temporal history beside the writer of TemporalCommit.       *)
(* Readers take no guard: every lookup is a series of separate reads of a  *)
(* store that the writer changes in between.  A live reader reads the      *)
(* committed store; a reader inside a snapshot scope reads the store as it *)
(* was when the scope was opened, but the sidecar file as it is now.       *)
(*                                                                         *)
(* A lookup finds positions <<commit, ordinal>>.  Which of them match an   *)
(* entity, an interval or a filter is decided after a version is decoded,  *)
(* so that a lookup here asks for all of them.                             *)
(***************************************************************************)
EXTENDS TemporalCommit, SequencesExt

CONSTANTS
    ReadOps,        \* the kinds of read that are made
    Grouped,        \* whether callers put several commits in one transaction
    MaxCache        \* bound on the entries of a commit cache (256 in the code)

ASSUME ReadAssumptions ==
    /\ ReadOps \subseteq {"entity", "version", "nodes", "claims", "view"}
    /\ Grouped \in BOOLEAN /\ MaxCache \in Nat \ {0}

VARIABLES
    rd,         \* the read in progress
    snap,       \* the store of the open snapshot scope
    cache,      \* the commit cache of the live handle, oldest entry first
    pinCache,   \* the commit cache of the snapshot scope
    view        \* the open temporal read view

readVars == <<rd, snap, cache, pinCache, view>>
allVars == <<vars, readVars>>

NoRead == [op |-> "none", phase |-> "idle", pinned |-> FALSE, stored |-> 0, alloc |-> 0,
           at |-> 0, h |-> 0, gen |-> 0, scan |-> {}, pass |-> 1, admitted |-> {}, res |-> {}]
NoView == [h |-> 0, marks |-> {}, open |-> FALSE]

(* The store the read in progress uses, and its scope's cache.              *)
Source == IF rd.pinned THEN snap ELSE db
ScopeCache == IF rd.pinned THEN pinCache ELSE cache
SetCache(c) ==
    IF rd.pinned THEN pinCache' = c /\ UNCHANGED cache ELSE cache' = c /\ UNCHANGED pinCache
KeepCaches == UNCHANGED <<cache, pinCache>>

BadMarkerOf(c) == {d \in Source.desc : d.id = c}

(* What a live read finds under a commit id: nothing without a marker.      *)
MarkerOf(c) == {m \in Source.mark : m.id = c}

HasDescriptor(c) == \E d \in Source.desc : d.id = c

Reading(p) == rd.phase = p /\ UNCHANGED <<vars, snap>>
To(r, p) == rd' = [r EXCEPT !.phase = p]

(* The read raises; authentication failures empty the scope's cache.        *)
Refuse == rd' = NoRead /\ SetCache(<<>>)

-----------------------------------------------------------------------------
(* Opening: entity_as_of, _version_by_id, iter_nodes_as_of and its edge     *)
(* twin, iter_claims_as_of, and open_temporal_view all start by reading the *)
(* commit sequence, or do so at their horizon.  Views are opened on the     *)
(* live handle here: the store of a snapshot scope cannot move under them.  *)
StartRead ==
    /\ rd.phase = "idle"
    /\ \E op \in ReadOps, pinned \in BOOLEAN :
          /\ pinned => dep.transactional /\ ~view.open
          /\ op = "view" => ~view.open /\ ~pinned
          /\ rd' = [NoRead EXCEPT !.op = op, !.pinned = pinned, !.phase = "first"]
          /\ snap' = IF pinned THEN db ELSE EmptyStore
    /\ pinCache' = <<>>
    /\ UNCHANGED <<vars, cache, view>>

(* read_temporal_sequence: the stored sequence first, the sidecar second.   *)
SequenceOrder == <<"stored", "sidecar">>

ReadSequence ==
    /\ rd.phase \in {"first", "second"} /\ UNCHANGED <<vars, snap, view>> /\ KeepCaches
    /\ LET place == SequenceOrder[IF rd.phase = "first" THEN 1 ELSE 2]
       IN  To(IF place = "stored" THEN [rd EXCEPT !.stored = Source.seq]
              ELSE [rd EXCEPT !.alloc = sidecar.id],
              IF rd.phase = "first" THEN "second" ELSE "compare")

CompareSequence ==
    /\ Reading("compare") /\ UNCHANGED view
    /\ IF rd.alloc < rd.stored THEN Refuse
       ELSE /\ To([rd EXCEPT !.stored = 0, !.alloc = IF rd.op = "view" THEN @ ELSE 0,
                              !.at = IF rd.op = "view" THEN 1 ELSE rd.alloc],
                  IF rd.op = "view" THEN "prefix" ELSE "walk")
            /\ KeepCaches

(* system_horizon: down from the last allocated id to a visible commit.  A  *)
(* read through a view, or the second pass of a catalog read, is bounded by *)
(* its horizon.                                                             *)
Bound(latest) ==
    LET bounds == {latest} \cup (IF view.open THEN {view.h} ELSE {})
                           \cup (IF rd.pass = 2 THEN {rd.h} ELSE {})
    IN  Min(bounds)

(* get_commit reads the descriptor before the marker.  A commit published   *)
(* in between has a marker and, to this reader, no descriptor: it raises.   *)
WalkToHorizon ==
    /\ Reading("walk") /\ KeepCaches /\ UNCHANGED view
    /\ IF rd.at = 0 THEN To([rd EXCEPT !.h = 0], "stale")
       ELSE To([rd EXCEPT !.stored = IF HasDescriptor(rd.at) THEN 1 ELSE 0], "marker")

WalkMarker ==
    /\ Reading("marker") /\ UNCHANGED view
    /\ IF MarkerOf(rd.at) = {} THEN To([rd EXCEPT !.at = @ - 1, !.stored = 0], "walk") /\ KeepCaches
       ELSE IF rd.stored = 0 THEN Refuse
       ELSE To([rd EXCEPT !.h = Bound(rd.at), !.at = 0, !.stored = 0], "stale") /\ KeepCaches

(* ensure_temporal_indexes, one read at a time: the stale flag, the horizon *)
(* of the index state, then its checksum and the markers.                   *)
CheckStale ==
    /\ Reading("stale") /\ UNCHANGED view
    /\ IF Source.stale THEN Refuse ELSE To(rd, "state") /\ KeepCaches

CheckState ==
    /\ Reading("state") /\ UNCHANGED view
    /\ IF Source.state.gen = 0
       THEN IF rd.h = 0 THEN To(rd, "generation") /\ KeepCaches ELSE Refuse
       ELSE IF Source.state.through < rd.h THEN Refuse
            ELSE To([rd EXCEPT !.at = Source.state.through], "checksum") /\ KeepCaches

CheckSum ==
    /\ Reading("checksum") /\ UNCHANGED view
    /\ IF Source.state.sum = Markers(Source, rd.at)
       THEN To([rd EXCEPT !.at = 0], "generation") /\ KeepCaches ELSE Refuse

(* index_state_generation; a claim read also admits its horizon.            *)
LoadGeneration ==
    /\ Reading("generation") /\ KeepCaches /\ UNCHANGED view
    /\ To([rd EXCEPT !.gen = ActiveGen(Source),
                     !.admitted = IF rd.op = "claims" THEN @ \cup MarkerOf(rd.h) ELSE @], "started")

Positions(fam) == {<<e.id, e.ord>> : e \in {x \in Source.idx : x.gen = rd.gen /\ x.fam = fam}}

(* _version_by_id takes the last locator of a version id.                   *)
LastLocators ==
    LET es == {e \in Source.idx : e.gen = rd.gen /\ e.fam = "exact"}
        Later(e, f) == e.id > f.id \/ (e.id = f.id /\ e.ord > f.ord)
    IN  {<<e.id, e.ord>> : e \in {x \in es : ~\E y \in es : y.vid = x.vid /\ Later(y, x)}}

(* interval_locators: versions started by the instant, met with those that  *)
(* have not ended.  A version lookup makes one exact scan.                  *)
ScanStarted ==
    /\ Reading("started") /\ KeepCaches /\ UNCHANGED view
    /\ IF rd.op = "version" THEN To([rd EXCEPT !.scan = LastLocators], "hydrate")
       ELSE To([rd EXCEPT !.scan = Positions("range")],
               IF Positions("range") = {} THEN "hydrate" ELSE "unexpired")

ScanUnexpired ==
    /\ Reading("unexpired") /\ KeepCaches /\ UNCHANGED view
    /\ To([rd EXCEPT !.scan = @ \cap Positions("range")], "hydrate")

-----------------------------------------------------------------------------
(* get_commit_cached.                                                       *)

Cached(c) == {m \in Range(ScopeCache) : m.id = c}
Without(q, c) == RemoveFirstMatch(q, LAMBDA m : m.id = c)

(* A commit that is cached as it is stored stays where it is; admission of  *)
(* another makes room by dropping the oldest entry.                         *)
Admit(q, m) ==
    LET room == Without(q, m.id)
    IN  IF m \in Range(q) THEN q
        ELSE Append(IF Len(room) >= MaxCache THEN Tail(room) ELSE room, m)

(* Only a verifiable snapshot answers from its cache without checking.      *)
Reusable(c) == rd.pinned /\ Cached(c) # {}

BadDecoded(m) == {p \in rd.scan : p[1] = m.id /\ p[2] \in DOMAIN m.versions}

(* The versions of a decoded commit that the read asks for.  A commit after *)
(* the horizon has none.                                                    *)
Decoded(m) == {p \in rd.scan : p[1] = m.id /\ p[2] \in DOMAIN m.versions /\ p[1] <= rd.h}

(* One commit of the scan is decoded: from the cache of a snapshot, else    *)
(* checked against its marker, descriptor and records.  A commit that is    *)
(* not visible has no versions; one that does not authenticate raises.  A   *)
(* claim read skips commits after its horizon, others filter them later.    *)
Hydrate ==
    /\ Reading("hydrate") /\ rd.scan # {} /\ UNCHANGED view
    /\ LET c == Min({p[1] : p \in rd.scan})
           rest == {p \in rd.scan : p[1] # c}
           found(m) == [rd EXCEPT !.scan = rest,
                                  !.res = @ \cup Decoded(m),
                                  !.admitted = IF rd.op = "claims" THEN @ \cup {m} ELSE @]
           none == [rd EXCEPT !.scan = rest]
       IN  IF rd.op = "claims" /\ c > rd.h THEN rd' = none /\ KeepCaches
           ELSE IF Reusable(c)
           THEN \E m \in Cached(c) : rd' = found(m) /\ KeepCaches
           ELSE IF MarkerOf(c) = {} THEN rd' = none /\ SetCache(Without(ScopeCache, c))
           ELSE \E m \in MarkerOf(c) :
                   IF Authentic(Source, m)
                   THEN rd' = found(m) /\ SetCache(Admit(ScopeCache, m))
                   ELSE Refuse

(* Catalog reads resolve the candidates in a second pass: node and edge     *)
(* iteration through entity_as_of, with a horizon and checks of its own;    *)
(* a claim read through a second scan under a generation loaded again.      *)
EndPass ==
    /\ Reading("hydrate") /\ rd.scan = {} /\ KeepCaches /\ UNCHANGED view
    /\ IF rd.pass = 1 /\ rd.op \in {"nodes", "claims"} /\ rd.res # {}
       THEN To([rd EXCEPT !.pass = 2, !.res = {}],
               IF rd.op = "nodes" THEN "first" ELSE "generation")
       ELSE To(rd, IF rd.op = "claims" THEN "revalidate" ELSE "done")

(* A claim read checks every commit it used once more before it succeeds.   *)
Revalidate ==
    /\ Reading("revalidate") /\ UNCHANGED view
    /\ IF \A m \in rd.admitted : m \in Source.mark /\ Authentic(Source, m)
       THEN To(rd, "done") /\ KeepCaches ELSE Refuse

Return ==
    /\ rd.phase = "done" /\ rd' = NoRead
    /\ snap' = EmptyStore /\ pinCache' = <<>>
    /\ UNCHANGED <<vars, cache, view>>

-----------------------------------------------------------------------------
(* open_temporal_view: the visible commits in order up to the first         *)
(* incomplete one.  An id without a descriptor is a gap.                    *)

BadIncomplete(c) == FALSE

Incomplete(c) == HasDescriptor(c)

ScanPrefix ==
    /\ Reading("prefix") /\ KeepCaches
    /\ LET stop == rd.at > rd.alloc \/ (MarkerOf(rd.at) = {} /\ Incomplete(rd.at))
       IN  IF stop
           THEN /\ \E h \in {0} \cup {m.id : m \in rd.admitted} :
                      view' = [h |-> h, marks |-> {m \in rd.admitted : m.id <= h}, open |-> TRUE]
                /\ rd' = NoRead
           ELSE /\ rd' = [rd EXCEPT !.at = @ + 1, !.admitted = @ \cup MarkerOf(rd.at)]
                /\ UNCHANGED view

CloseView ==
    /\ view.open /\ rd.phase = "idle" /\ view' = NoView
    /\ UNCHANGED <<vars, rd, snap, cache, pinCache>>

(* ReadViewProvenance.verify_source succeeds on a store.                    *)
VerifySource(s) ==
    /\ view.h # 0 => \E m \in Markers(s, view.h) : m.id = view.h /\ Validates(s, m)
    /\ view.h # 0 => IncompleteCommits(s, view.h) = {}
    /\ Markers(s, view.h) = view.marks

-----------------------------------------------------------------------------
ReadInit ==
    /\ Init
    /\ rd = NoRead /\ snap = EmptyStore /\ cache = <<>> /\ pinCache = <<>> /\ view = NoView

(* The writer's steps.  Unless Grouped, a transaction holds one commit.     *)
WriterStep ==
    /\ Next /\ UNCHANGED readVars
    /\ (pc = "idle" /\ pc' = "sequence") => (Grouped \/ ws.seq = db.seq)

ReadStep ==
    \/ StartRead \/ ReadSequence \/ CompareSequence \/ WalkToHorizon \/ WalkMarker
    \/ CheckStale \/ CheckState \/ CheckSum
    \/ LoadGeneration \/ ScanStarted \/ ScanUnexpired
    \/ Hydrate \/ EndPass \/ Revalidate \/ Return
    \/ ScanPrefix \/ CloseView

ReadNext == WriterStep \/ ReadStep

ReadSpec == ReadInit /\ [][ReadNext]_allVars

-----------------------------------------------------------------------------
(* Properties.                                                              *)

ReadPhases == {"idle", "first", "second", "compare", "walk", "marker", "stale", "state", "checksum", "generation",
               "started", "unexpired", "hydrate", "revalidate", "done", "prefix"}

(* The type invariant of the reader.                                        *)
ReadTypeOK ==
    /\ rd.phase \in ReadPhases /\ rd.pinned \in BOOLEAN /\ rd.pass \in {1, 2}
    /\ rd.res \subseteq (1..rd.h) \X Nat
    /\ Len(cache) <= MaxCache /\ Len(pinCache) <= MaxCache
    /\ view.marks \subseteq Commit

(* read_temporal_sequence reads two places that the writer advances one     *)
(* after the other, and never takes a commit in flight for a sidecar that   *)
(* trails the store.                                                        *)
SequenceNeverTrails == rd.phase = "compare" => rd.alloc >= rd.stored

PositionsThrough(s, h) == {<<x.id, x.ord>> : x \in VisibleVersions(s, h)}

(* A read that returns has found every version of the visible commits       *)
(* through its horizon and nothing else, although commits, crashes and      *)
(* reclamations went on between its steps.                                  *)
ReadExact == rd.phase = "done" => rd.res = PositionsThrough(Source, rd.h)

(* ReadExact for readers in a snapshot scope, and for live readers whose    *)
(* generation no rebuild has replaced since they loaded it.                 *)
ReadExactUnlessRebuilt == (rd.pinned \/ rd.gen = ActiveGen(db)) => ReadExact

(* Commit caches hold visible commits of their own store and nothing else,  *)
(* so a hit never shows a commit that was in flight, rolled back, reclaimed *)
(* or published after the snapshot.                                         *)
CachesFaithful ==
    /\ Range(cache) \subseteq db.mark
    /\ Range(pinCache) \subseteq snap.mark

(* An open view is a stable prefix of history: a later marker cannot change *)
(* it, and its provenance verifies for as long as it is kept.               *)
ViewStable == view.open => VerifySource(db)
=============================================================================
