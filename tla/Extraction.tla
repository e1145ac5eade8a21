------------------------------ MODULE Extraction ------------------------------
(***************************************************************************)
(* The claim sources of the reasoner.  Each borrows a read view, pinned at *)
(* an instant and a horizon, and turns the claims that hold there into     *)
(* evidence: the canonical source asks the as-of reads one query after     *)
(* another, the range source one query at every boundary of a range, and   *)
(* each query scans row by row while writers and rebuilds go on; the       *)
(* native sources hold the write guard and scan raw records or raw index   *)
(* rows, which they authenticate against the commits.                      *)
(*                                                                         *)
(* The raw index is what the maintained one should be, less the rows that  *)
(* a damaged store has lost, plus the rows of interrupted writes.  A       *)
(* damaged record is refused whenever its commit is read (TemporalRead),   *)
(* so records are never lost here.  Identities of view, store, decoder and *)
(* handle are not modelled: nothing rebinds them.                          *)
(***************************************************************************)
EXTENDS EntityHistory

CONSTANTS
    Policies,           \* the [agents, sources, derived] of a ClaimSelection
    Aliases,            \* predicate_aliases: from stored to logical names
    Requests,           \* the requests: [demand, given, subject, object, agents, sources,
                        \* maxScanned, maxRows]
    Instants,           \* the instants that views are pinned at
    DerivedAgents,      \* the agents that mark what they derive
    MaxDamage           \* bound: lost rows and interrupted writes

VARIABLES
    lost,               \* the raw index rows that are gone
    orphans,            \* interrupted writes: [commit, version, indexed]
    damage,             \* how many rows were lost
    pass                \* the extraction under way

extractionVars == <<lost, orphans, damage, pass>>

Idle == [state |-> "idle"]
ExtractionInit == lost = {} /\ orphans = {} /\ damage = 0 /\ pass = Idle

Unpassed == UNCHANGED pass
Undamaged == UNCHANGED <<lost, orphans, damage>>

-----------------------------------------------------------------------------
(* Policy.                                                                  *)

(* ClaimMapping.map                                                         *)
Logical(p) == IF p \in DOMAIN Aliases THEN Aliases[p] ELSE p
MappedFact(c) == <<c.subject, Logical(c.predicate), c.object>>

(* A logical name is every stored name that maps to it, and itself unless   *)
(* it maps to another.                                                      *)
BadStoragePredicates(ps) == {s \in DOMAIN Aliases : Aliases[s] \in ps} \cup ps
StoragePredicates(ps) ==
    {s \in DOMAIN Aliases : Aliases[s] \in ps} \cup (ps \ DOMAIN Aliases)

(* The request restricts the policy and never widens it.                    *)
Effective(policy, request) ==
    [policy EXCEPT !.agents = @ \cap request.agents, !.sources = @ \cap request.sources]

Derived(c) == c.agent \in DerivedAgents /\ c.derived
Admitted(c, policy) ==
    /\ c.agent \in policy.agents /\ c.source \in policy.sources
    /\ Derived(c) => policy.derived

(* What any source looks for: the positive entity claims of the world.      *)
Base == [world |-> "v", polarity |-> "positive", objectKind |-> "entity"]

(* The base, narrowed by what is bound.                                     *)
Narrowed(bindings) ==
    LET bound == {f \in DOMAIN bindings : bindings[f] # "any"}
    IN  [f \in DOMAIN Base \cup bound |-> IF f \in bound THEN bindings[f] ELSE Base[f]]

(* A request that names predicates is asked for one by one; bindings are    *)
(* pushed into the queries where the index serves them.                     *)
Queries(request) ==
    LET names == SetToSeq(StoragePredicates(request.demand))
        Named(p) == [predicate |-> p, subject |-> request.subject, object |-> request.object]
    IN  IF request.given /\ names # <<>> THEN [i \in DOMAIN names |-> Narrowed(Named(names[i]))]
        ELSE << Narrowed([object |-> request.object]) >>

Requested(c, request) ==
    /\ request.given => c.predicate \in StoragePredicates(request.demand)
    /\ request.subject \in {"any", c.subject} /\ request.object \in {"any", c.object}

-----------------------------------------------------------------------------
(* The raw index.                                                           *)

Ends == {"start", "end"}        \* a row orders an interval by its start or its end
OrphanLoc(o) == <<o.commit, 1>>
OrphanLocs == {OrphanLoc(o) : o \in orphans}
VersionAt(loc) ==
    IF loc \in OrphanLocs THEN (CHOOSE o \in orphans : OrphanLoc(o) = loc).version ELSE At(hist, loc)
Stored(end, filed, loc) ==
    /\ filed \in Filed(VersionAt(loc)) /\ <<end, filed, loc>> \notin lost
    /\ loc \in OrphanLocs => \E o \in orphans : OrphanLoc(o) = loc /\ o.indexed
InForce(v, t) == v.from <= t /\ t < v.to

(* A scan of a prefix up to the instant: locators, later commits left out.  *)
Scanned(filed, t, horizon) ==
    {loc \in Within(Located(hist) \cup OrphanLocs, horizon) :
        VersionAt(loc).from <= t /\ Stored("start", filed, loc)}

(* interval_locators over the raw rows; an invisible commit is passed over. *)
Found(filed, t, horizon) ==
    {loc \in Scanned(filed, t, horizon) :
        loc \notin OrphanLocs /\ VersionAt(loc).to > t /\ Stored("end", filed, loc)}

(* iter_claims_as_of: the locators of the winners.                          *)
Canonical(filter, t, horizon) ==
    LET entities == {At(hist, l).entity : l \in Found(ClaimFiled(filter), t, horizon)}
        Resolutions(e) == Found(<<"logical_valid", e>>, t, horizon)
        winners == {Newest(Resolutions(e)) : e \in {d \in entities : Resolutions(d) # {}}}
    IN  {l \in winners : At(hist, l).op # "retract" /\ ClaimMatches(At(hist, l).pay, filter)}

(* The descriptor of an interrupted write within the horizon breaks the     *)
(* prefix that the view has pinned.                                         *)
PrefixIntact(horizon) == ~\E o \in orphans : o.commit <= horizon

-----------------------------------------------------------------------------
(* The native sources.                                                      *)

Catalog(horizon) == {l \in Located(hist) : l[1] <= horizon /\ At(hist, l).entity[1] = "claim"}
Claims(locs) == {At(hist, l).entity : l \in locs}
LastOf(locs) == {Newest({l \in locs : At(hist, l).entity = e}) : e \in Claims(locs)}
Live(locs) == {l \in locs : At(hist, l).op # "retract"}

(* The last record of each claim that covers the instant.                   *)
Winners(t, horizon) == LastOf({l \in Catalog(horizon) : InForce(At(hist, l), t)})

(* Canonical selection must agree with the complete history, both ways.     *)
Conforms(t, horizon) == Canonical(<<>>, t, horizon) = Live(Winners(t, horizon))

(* PinnedNativeClaimSource: all records of the prefix.  Those of a commit   *)
(* that never became visible are not evidence.                              *)
NativeScan(request, t, horizon) ==
    [ok |-> Conforms(t, horizon), winners |-> Live(Winners(t, horizon))]

(* PinnedNativeLocatorClaimSource: the rows of a dimension, then of each    *)
(* candidate's history, are compared with what the commits say they are.    *)
MembersOf(name, value, t, horizon) ==
    {l \in Catalog(horizon) : /\ At(hist, l).pay # Empty /\ At(hist, l).from <= t
                              /\ At(hist, l).pay[name] = value}
DimensionScan(name, value, t, horizon) ==
    [ok |-> Scanned(<<"dimension", name, value>>, t, horizon) = MembersOf(name, value, t, horizon),
     ids |-> Claims({l \in MembersOf(name, value, t, horizon) : InForce(At(hist, l), t)})]
HistoryOf(e, t, horizon) == {l \in Catalog(horizon) : At(hist, l).entity = e /\ At(hist, l).from <= t}

LocatorScan(request, t, horizon) ==
    LET world == DimensionScan("world", Base.world, t, horizon)
        predicates == IF request.given
                      THEN {DimensionScan("predicate", p, t, horizon) : p \in StoragePredicates(request.demand)}
                      ELSE {world}
        subject == IF request.subject = "any" THEN world ELSE DimensionScan("subject", request.subject, t, horizon)
        ids == IF horizon = 0 THEN {} ELSE world.ids \cap subject.ids \cap UNION {s.ids : s \in predicates}
        resolved == LastOf(UNION {{l \in HistoryOf(e, t, horizon) : InForce(At(hist, l), t)} : e \in ids})
    IN  [ok |-> /\ \A s \in {world, subject} \cup predicates : s.ok
                /\ \A e \in ids : Scanned(<<"logical_valid", e>>, t, horizon) = HistoryOf(e, t, horizon)
                /\ Conforms(t, horizon),
         winners |-> Live(resolved)]

-----------------------------------------------------------------------------
(* A pass.  Its policy is the effective one; it covers the instants from t  *)
(* to end, one of them unless it reads a range, and its rows are evidence,  *)
(* <<fact, version>>, with the segment it was found for.                    *)

Evidence(locs, request, policy) ==
    {<<MappedFact(At(hist, l).pay), l>> :
        l \in {k \in locs : Requested(At(hist, k).pay, request) /\ Admitted(At(hist, k).pay, policy)}}

Horizon == Max({c \in DOMAIN hist : hist[c].versions # <<>>} \cup {0})

(* _RangeSource.extract reads at every boundary of the history in its range. *)
Cuts(start, end, horizon) ==
    {start, end} \cup {b \in UNION {{At(hist, l).from, At(hist, l).to} : l \in Catalog(horizon)} : start < b /\ b < end}

(* What there is to ask: a query for each, by number, or a query at each    *)
(* boundary.                                                                *)
Tasks(p) == IF p.source = "range" THEN Cuts(p.t, p.end, p.horizon) \ {p.end} ELSE DOMAIN Queries(p.request)
FilterOf(p, k) == IF p.source = "range" THEN Base ELSE Queries(p.request)[k]
InstantOf(p, k) == IF p.source = "range" THEN k ELSE p.t
SpanOf(p, k) == <<InstantOf(p, k), IF p.source = "range" THEN Min({b \in Cuts(p.t, p.end, p.horizon) : b > k}) ELSE p.end>>

NoQuery == [phase |-> "none"]

OpenSource(source, request, policy, t, end) ==
    /\ pass = Idle
    /\ IF source = "range" THEN t < end /\ ~request.given /\ request.subject = "any" /\ request.object = "any"
                           ELSE end = t + 1
    /\ LET p == [state |-> IF PrefixIntact(Horizon) THEN "open" ELSE "refused", source |-> source, request |-> request,
                 policy |-> Effective(policy, request), t |-> t, end |-> end, horizon |-> Horizon, todo |-> {},
                 scanned |-> 0, rows |-> {}, query |-> NoQuery, overtaken |-> FALSE]
       IN  pass' = [p EXCEPT !.todo = Tasks(p)]
    /\ UNCHANGED historyVars /\ Undamaged

(* _filtered: what one query yields counts before the policy filters it.    *)
Take(locs, span) ==
    LET rows == pass.rows \cup {<<e, span>> : e \in Evidence(locs, pass.request, pass.policy)}
        count == pass.scanned + Cardinality(locs)
        full == count > pass.request.maxScanned \/ Cardinality({r[1] : r \in rows}) > pass.request.maxRows
    IN  [pass EXCEPT !.scanned = count, !.rows = rows, !.state = IF full THEN "limit" ELSE @]

-----------------------------------------------------------------------------
(* A query, scan by scan and without the guard: iter_claims_as_of looks up  *)
(* the candidates and then the history of each.  A lookup loads the active  *)
(* generation and scans the rows of that generation by their starts and     *)
(* then by their ends.                                                      *)

Reading == pass.state = "open" /\ pass.source \in {"canonical", "range"}
Task == Min(pass.todo)

Lookup(filed, left, found) ==
    [phase |-> "load", filed |-> filed, left |-> left, found |-> found, gone |-> {}, replaced |-> FALSE, started |-> {}]
Loaded(query) == [query EXCEPT !.phase = "starts", !.gone = lost]

Ask ==
    /\ Reading /\ pass.query = NoQuery /\ pass.todo # {}
    /\ pass' = [pass EXCEPT !.query = Loaded(Lookup(ClaimFiled(FilterOf(pass, Task)), {}, {}))]
    /\ UNCHANGED historyVars /\ Undamaged

LoadGeneration ==
    /\ Reading /\ pass.query.phase = "load"
    /\ pass' = [pass EXCEPT !.query = Loaded(@)]
    /\ UNCHANGED historyVars /\ Undamaged

(* The rows that a scan meets: once a rebuild has replaced the generation   *)
(* it deletes its rows, version by version in the order of the commits, and *)
(* what is left starts somewhere in that order.                             *)
Cutoffs(q) == IF q.replaced THEN Located(hist) \cup {<<Len(hist) + 1, 1>>} ELSE {<<0, 0>>}
NotBefore(l, cut) == cut[1] < l[1] \/ (cut[1] = l[1] /\ cut[2] <= l[2])
Rows(end, q, cut) ==
    {l \in Within(Located(hist), pass.horizon) :
        q.filed \in Filed(At(hist, l)) /\ <<end, q.filed, l>> \notin q.gone /\ NotBefore(l, cut)}
StartRows(cut) == {l \in Rows("start", pass.query, cut) : At(hist, l).from <= InstantOf(pass, Task)}
EndRows(cut) == {l \in Rows("end", pass.query, cut) : At(hist, l).to > InstantOf(pass, Task)}

(* A lookup's answer: of the candidates, whose history to look up; of a     *)
(* claim, its locators.                                                     *)
Answered(locs) ==
    LET q == pass.query
        ofClaim == q.filed[1] = "logical_valid"
        found == IF ofClaim THEN q.found \cup locs ELSE {}
        left == IF ofClaim THEN q.left ELSE Claims(locs)
        next == CHOOSE e \in left : TRUE
    IN  [pass EXCEPT !.query = IF left = {} THEN [phase |-> "yield", found |-> found]
                               ELSE Lookup(<<"logical_valid", next>>, left \ {next}, found)]

ScanStarts ==
    /\ Reading /\ pass.query.phase = "starts"
    /\ \E cut \in Cutoffs(pass.query) :
        pass' = IF StartRows(cut) = {} THEN Answered({})
                ELSE [pass EXCEPT !.query = [@ EXCEPT !.phase = "ends", !.started = StartRows(cut)]]
    /\ UNCHANGED historyVars /\ Undamaged

ScanEnds ==
    /\ Reading /\ pass.query.phase = "ends"
    /\ \E cut \in Cutoffs(pass.query) : pass' = Answered(pass.query.started \cap EndRows(cut))
    /\ UNCHANGED historyVars /\ Undamaged

(* The last version that was found of each claim, unless it is a retraction *)
(* or no longer what was asked for.                                         *)
Yield ==
    /\ Reading /\ pass.query.phase = "yield"
    /\ LET winners == {l \in Live(LastOf(pass.query.found)) : ClaimMatches(At(hist, l).pay, FilterOf(pass, Task))}
       IN  pass' = [Take(winners, SpanOf(pass, Task)) EXCEPT !.query = NoQuery, !.todo = @ \ {Task}]
    /\ UNCHANGED historyVars /\ Undamaged

Finish ==
    /\ Reading /\ pass.query = NoQuery /\ pass.todo = {}
    /\ pass' = [pass EXCEPT !.state = IF PrefixIntact(pass.horizon) THEN "done" ELSE "refused"]
    /\ UNCHANGED historyVars /\ Undamaged

QueryStep == Ask \/ LoadGeneration \/ ScanStarts \/ ScanEnds \/ Yield \/ Finish

(* Under the write guard, and so without a writer in between.               *)
ScanNatively ==
    /\ pass.state = "open" /\ pass.source \in {"native", "locator"}
    /\ LET scan == IF pass.source = "native" THEN NativeScan(pass.request, pass.t, pass.horizon)
                   ELSE LocatorScan(pass.request, pass.t, pass.horizon)
           Yielded(filter) == {l \in scan.winners : ClaimMatches(At(hist, l).pay, filter)}
           taken == Take(UNION {Yielded(Queries(pass.request)[i]) : i \in DOMAIN Queries(pass.request)}, <<pass.t, pass.end>>)
       IN  pass' = IF scan.ok /\ PrefixIntact(pass.horizon)
                   THEN [taken EXCEPT !.state = IF @ = "limit" THEN @ ELSE "done"]
                   ELSE [pass EXCEPT !.state = "refused"]
    /\ UNCHANGED historyVars /\ Undamaged

-----------------------------------------------------------------------------
(* What goes on around a pass.                                              *)

WriteBeside(payloads) == pass.state \in {"idle", "open"} /\ HistoryNext(payloads) /\ Undamaged /\ Unpassed

(* A write that stops before its marker: its descriptor and its record are  *)
(* stored, its index rows perhaps; its id is spent.                         *)
Interrupt(p, valid, indexed) ==
    /\ pass.state \in {"idle", "open"} /\ orphans = {}
    /\ CommitVersions(<<>>, FALSE)
    /\ orphans' = {[commit |-> Len(hist) + 1, version |-> VersionOf(EntityOf(p), "assert", p, valid), indexed |-> indexed]}
    /\ UNCHANGED <<legacy, scanned, doomed, puts, lost, damage>> /\ Unpassed

(* Only the families that some source reads matter.                         *)
ReadBySources(filed) ==
    \/ filed[1] \in {"logical_valid", "claim_catalog"}
    \/ filed[1] = "dimension" /\ filed[2] \in {"world", "predicate", "subject"}
LoseRow(end, filed, loc) ==
    /\ pass = Idle /\ damage < MaxDamage /\ ReadBySources(filed) /\ Stored(end, filed, loc)
    /\ lost' = lost \cup {<<end, filed, loc>>} /\ damage' = damage + 1
    /\ UNCHANGED orphans /\ UNCHANGED historyVars /\ Unpassed

(* A lookup that has loaded a generation keeps to it when it is replaced.   *)
HoldsGeneration == Reading /\ pass.query.phase \in {"starts", "ends"}
Replaced ==
    IF HoldsGeneration THEN [pass EXCEPT !.query = [@ EXCEPT !.replaced = TRUE], !.overtaken = TRUE] ELSE pass

(* rebuild_temporal_indexes: a new generation from the visible commits, and *)
(* then the deletion of the one before.                                     *)
Rebuild ==
    /\ pass.state \in {"idle", "open"}
    /\ lost # {} \/ (\E o \in orphans : o.indexed) \/ (HoldsGeneration /\ ~pass.query.replaced)
    /\ lost' = {} /\ orphans' = {[o EXCEPT !.indexed = FALSE] : o \in orphans} /\ pass' = Replaced
    /\ UNCHANGED damage /\ UNCHANGED historyVars

(* reclaim_temporal_orphans, which ends in a rebuild.                       *)
Reclaim ==
    /\ pass.state \in {"idle", "open"} /\ orphans # {}
    /\ orphans' = {} /\ lost' = {} /\ pass' = Replaced
    /\ UNCHANGED damage /\ UNCHANGED historyVars

ExtractionNext(payloads) ==
    \/ WriteBeside(payloads) \/ Rebuild \/ Reclaim \/ QueryStep \/ ScanNatively
    \/ \E p \in payloads, valid \in ValidIntervals, indexed \in BOOLEAN : Interrupt(p, valid, indexed)
    \/ \E end \in Ends, loc \in Located(hist) : \E filed \in Filed(At(hist, loc)) : LoseRow(end, filed, loc)
    \/ \E request \in Requests, policy \in Policies, t \in Instants, source \in {"canonical", "native", "locator", "range"} :
            \E end \in {t + 1, Open} \cup Times : OpenSource(source, request, policy, t, end)

ExtractionSpec(payloads) ==
    HistoryInit /\ ExtractionInit /\ [][ExtractionNext(payloads)]_<<historyVars, extractionVars>>

-----------------------------------------------------------------------------
(* Properties.                                                              *)

(* Reference: no later version of the claim covers the instant.             *)
Holding(t, horizon) ==
    {l \in Live(Catalog(horizon)) :
        /\ InForce(At(hist, l), t)
        /\ \A m \in Catalog(horizon) : (At(hist, m).entity = At(hist, l).entity /\ InForce(At(hist, m), t))
                                           => (m[1] < l[1] \/ (m[1] = l[1] /\ m[2] <= l[2]))}
Wanted(t) ==
    {<<MappedFact(At(hist, l).pay), l>> : l \in {k \in Holding(t, pass.horizon) :
        LET c == At(hist, k).pay
        IN  /\ ClaimMatches(c, Base) /\ Admitted(c, pass.policy)
            /\ pass.request.given => Logical(c.predicate) \in pass.request.demand
            /\ pass.request.subject \in {"any", c.subject} /\ pass.request.object \in {"any", c.object}}}

ShownAt(t) == {r[1] : r \in {q \in pass.rows : q[2][1] <= t /\ t < q[2][2]}}

(* A pass that ends returns exactly the admitted claims that hold at its    *)
(* instants in the history it has pinned, whatever was written or           *)
(* interrupted meanwhile and whatever was rebuilt or reclaimed between its  *)
(* lookups, and for the logical names it was asked for, whatever names they *)
(* are stored under.  A rebuild in the middle of a lookup may cost a claim, *)
(* without a word, but never shows one that does not hold.  The native      *)
(* sources are exact or refuse even when the index has lost rows, and no    *)
(* source refuses a store that lost nothing and has no unfinished write     *)
(* (PinnedBatchedClaimSource, PinnedNativeClaimSource,                      *)
(* PinnedNativeLocatorClaimSource, _RangeSource).                           *)
ExtractionExact ==
    /\ (pass.state = "done" /\ (damage = 0 \/ pass.source \in {"native", "locator"})) =>
           \A t \in pass.t..(pass.end - 1) :
               ShownAt(t) \subseteq Wanted(t) /\ (~pass.overtaken => ShownAt(t) = Wanted(t))
    /\ (pass.state = "refused" /\ damage = 0) => \E o \in orphans : o.commit <= pass.horizon
=============================================================================
