--------------------------- MODULE TruthMaintenance ---------------------------
(***************************************************************************)
(* Stored rules over temporal claims: the rule catalog, rule runs, truth   *)
(* maintenance and explanations.  A claim is a fact and the agent that     *)
(* states it; each of its versions covers an interval of valid time, and   *)
(* what a claim says at an instant is its newest version there.            *)
(*                                                                         *)
(* A rule version stands for one ground instance of a stored rule: a head  *)
(* fact, body facts in order and negated facts.  Unification and the joins *)
(* over atoms find those instances whose body facts are there.  All claims *)
(* are positive entity claims of one world.                                *)
(***************************************************************************)
EXTENDS Naturals, Sequences, FiniteSets, SequencesExt, FiniteSetsExt

CONSTANTS
    Facts,
    Agents,
    BaseClaims,     \* the claims that agents make
    Programs,       \* the sets of rule versions that may be active at first
    Instants,       \* valid time
    AsOf,           \* the instants that runs and passes are asked for
    Intervals,      \* the intervals that are asserted and retracted
    RuleVersions,   \* [rule, head, body, neg] for each rule version identity
    MaxChanges,     \* bound: base claims and rules written
    MaxPasses       \* bound: runs and maintenance passes

Engine == "rules"   \* RULE_ENGINE_AGENT
None == Max(Instants) + 1       \* no instant

(* The instants are the first ones. A rule has at least one body atom, and  *)
(* the facts it is about are claims.                                        *)
ASSUME InstantsAssumption ==
    /\ Max(Instants) \in Nat /\ Instants = 0..Max(Instants)
    /\ AsOf \subseteq Instants /\ \A valid \in Intervals : valid \subseteq Instants /\ valid # {}
ASSUME RulesAssumption ==
    /\ IsFiniteSet(Facts) /\ Engine \notin Agents /\ BaseClaims \subseteq Facts \X Agents
    /\ \A v \in DOMAIN RuleVersions :
           /\ RuleVersions[v].head \in Facts /\ RuleVersions[v].neg \subseteq Facts
           /\ RuleVersions[v].body \in Seq(Facts) /\ RuleVersions[v].body # <<>>

VARIABLES
    versions,       \* every claim version, by identity: claim, valid, supports
    held,           \* the version of each claim at each instant, 0 for none
    meta,           \* for each commit, the as_of its metadata records, or None
    active,         \* the latest rule version of each rule
    run,            \* a rule run between its read and its commit
    state,          \* the stored truth-maintenance state
    saving,         \* the state a maintenance pass has yet to store
    maintained,     \* the instant maintained last, if nothing changed since
    lastPass,       \* the instant of the last pass that left a trace
    changes, passes

vars == <<versions, held, meta, active, run, state, saving, maintained, lastPass, changes, passes>>

Statements == Facts \X (Agents \cup {Engine})
NoState == [instant |-> None, through |-> 0]    \* no state stored, or none to store
NoRun == [on |-> FALSE, writes |-> {}, instant |-> None]

Init ==
    /\ versions = <<>> /\ held = [c \in Statements |-> [t \in Instants |-> 0]]
    /\ meta = <<>> /\ active \in Programs
    /\ run = NoRun /\ state = NoState /\ saving = NoState
    /\ maintained = None /\ lastPass = None /\ changes = 0 /\ passes = 0

-----------------------------------------------------------------------------
(* Steps that are repeated until nothing changes any more.                  *)

Fold(op(_, _), base, s) ==
    LET r[n \in 0..Len(s)] == IF n = 0 THEN base ELSE op(r[n - 1], s[n])
    IN  IF Len(s) \in Nat THEN r[Len(s)] ELSE base
Numbers(n) == [i \in 1..n |-> i]

(* What follows from a set by pairs of what must be in it and what is then. *)
Follow(pairs, S) == S \cup {p[2] : p \in {q \in pairs : q[1] \subseteq S}}
Closure(pairs, S) ==
    Fold(LAMBDA X, i : Follow(pairs, X), S, Numbers(Cardinality({p[2] : p \in pairs})))

-----------------------------------------------------------------------------
(* The catalog: stratify_rules.                                             *)

Ru(v) == RuleVersions[v]
Heads(rules) == {Ru(v).head : v \in rules}
PositiveEdges(rules) == UNION {{<<f, Ru(v).head>> : f \in Range(Ru(v).body)} : v \in rules}
NegativeEdges(rules) == UNION {{<<f, Ru(v).head>> : f \in Ru(v).neg} : v \in rules}

(* Kosaraju over the positive dependencies.                                 *)
Behind(rules) ==
    LET pairs == {<<{e[1]}, e[2]>> : e \in PositiveEdges(rules)} IN [f \in Facts |-> Closure(pairs, {f})]
Components(rules) == LET behind == Behind(rules) IN {{g \in behind[f] : f \in behind[g]} : f \in Facts}

(* What must be complete before a component starts: what it negates too.    *)
Edges(rules) == PositiveEdges(rules) \cup NegativeEdges(rules)

(* The components in order, as far as there are ready ones.                 *)
Startable(comps, edges, done) ==
    {c \in comps \ Range(done) : \A e \in edges : e[2] \in c => e[1] \in c \cup UNION Range(done)}
Ordered(comps, edges, done) ==
    LET ready == Startable(comps, edges, done)
    IN  IF ready = {} THEN done ELSE Append(done, CHOOSE c \in ready : TRUE)
Strata(rules) ==
    LET comps == Components(rules)
    IN  Fold(LAMBDA done, i : Ordered(comps, Edges(rules), done), <<>>, Numbers(Cardinality(comps)))

Stratifies(rules) ==
    LET comps == Components(rules)
    IN  /\ \A e \in NegativeEdges(rules), c \in comps : ~(e[1] \in c /\ e[2] \in c)
        /\ Range(Strata(rules)) = comps

(* A program that is active stratifies: a rule is only created if it does.  *)
ASSUME ProgramsAssumption == \A P \in Programs : P \subseteq DOMAIN RuleVersions /\ Stratifies(P)

-----------------------------------------------------------------------------
(* The fixpoint that runs and maintenance share.                            *)

Hull(S) == IF S = {} THEN {} ELSE Min(S)..Max(S)      \* union_validity

(* absence_checks: any overlap with a negated fact blocks.                  *)
Unblocked(v, valid, facts) == \A f \in facts : f.fact \in Ru(v).neg => f.valid \cap valid = {}

(* The rows of a rule that use something new, each a support of its head.   *)
Rows(v, facts, delta) ==
    LET body == Ru(v).body
        joined == {s \in [DOMAIN body -> facts] : \A i \in DOMAIN body : s[i].fact = body[i]}
        Valid(s) == {t \in Instants : \A i \in DOMAIN body : t \in s[i].valid}
    IN  {[key |-> Ru(v).head, valid |-> Valid(s), support |-> <<v, [i \in DOMAIN body |-> s[i].ref]>>] :
            s \in {r \in joined : /\ Valid(r) # {} /\ Unblocked(v, Valid(r), facts)
                                  /\ \E i \in DOMAIN body : r[i].ref \in delta}}

(* Outputs are records of a key, its validity and its supports.  A round    *)
(* adds rows to them; was is the validity an output starts from.            *)
Keys(out) == {o.key : o \in out}
Merged(out, rows, was) ==
    {LET old == {o \in out : o.key = k}
         own == {r \in rows : r.key = k}
     IN  [key |-> k,
          valid |-> Hull(was[k] \cup (UNION {o.valid : o \in old}) \cup (UNION {r.valid : r \in own})),
          supports |-> (UNION {o.supports : o \in old}) \cup {r.support : r \in own}] :
        k \in Keys(out) \cup Keys(rows)}

(* A round of one component, which does nothing when nothing was new; ref   *)
(* names the fact that an output becomes.                                   *)
Round(st, rules, ref, was) ==
    LET next == Merged(st.out, UNION {Rows(v, st.facts, st.delta) : v \in rules}, was)
        fresh == {o \in next : ~\E p \in st.out : p.key = o.key /\ p.valid = o.valid}
        grown == {f \in st.facts : f.ref \notin {ref[o.key] : o \in fresh}} \cup
                 {[ref |-> ref[o.key], fact |-> o.key, valid |-> o.valid] : o \in fresh}
    IN  IF st.delta = {} THEN st ELSE [facts |-> grown, out |-> next, delta |-> {ref[o.key] : o \in fresh}]

(* An output is new at most once, and once for each instant it gains.       *)
MaxRounds(comp) == Cardinality(comp) * (Cardinality(Instants) + 1) + 1

Own(rules, comp) == {v \in rules : Ru(v).head \in comp}
Saturated(st, comp, rules, ref, was) ==
    Fold(LAMBDA x, i : Round(x, Own(rules, comp), ref, was),
         [st EXCEPT !.delta = {f.ref : f \in st.facts}], Numbers(MaxRounds(comp)))

Evaluated(rules, facts, ref, was) ==
    Fold(LAMBDA st, comp : Saturated(st, comp, rules, ref, was),
         [facts |-> facts, out |-> {}, delta |-> {}], Strata(rules)).out

(* Claims as of an instant: what the base states, what the engine derived.  *)
BaseAt(t) ==
    {[ref |-> <<"version", held[c][t]>>, fact |-> c[1], valid |-> versions[held[c][t]].valid] :
        c \in {d \in Statements : d[2] # Engine /\ held[d][t] # 0}}
ExistingAt(t) == [k \in Facts |-> held[<<k, Engine>>][t]]

(* A commit writes versions and retractions.  A support names its premises  *)
(* by version, or by the key of an output that is written with it.          *)
Write(k, valid, supports) == [key |-> k, valid |-> valid, supports |-> supports]
Retraction(k, valid) == Write(k, valid, {})
Encoded(supports, idOf) ==
    {<<s[1], [i \in DOMAIN s[2] |->
        IF s[2][i][1] = "derived" /\ idOf[s[2][i][2]] # 0 THEN <<"version", idOf[s[2][i][2]]>> ELSE s[2][i]]>> :
        s \in supports}

-----------------------------------------------------------------------------
(* run_rules.  Without negation the engine's earlier conclusions are facts  *)
(* too; with it they are not, and only lend their identity and validity.    *)

ValidOf(id) == IF id = 0 THEN {} ELSE versions[id].valid
SupportsOf(id) == IF id = 0 THEN {} ELSE versions[id].supports

RunOutputs(t) ==
    LET existing == ExistingAt(t)
        known == {k \in Facts : existing[k] # 0}
        negates == \E v \in active : Ru(v).neg # {}
        ref == [k \in Facts |-> IF k \in known THEN <<"version", existing[k]>> ELSE <<"derived", k>>]
        seeds == {[ref |-> ref[k], fact |-> k, valid |-> ValidOf(existing[k])] : k \in known}
    IN  Evaluated(active, BaseAt(t) \cup (IF negates THEN {} ELSE seeds), ref,
                  [k \in Facts |-> ValidOf(existing[k])])

RunWrites(out, existing) ==
    LET all == {Write(o.key, o.valid, o.supports \cup SupportsOf(existing[o.key])) : o \in out}
        Same(w) == /\ existing[w.key] # 0
                   /\ w.valid = ValidOf(existing[w.key]) /\ w.supports = SupportsOf(existing[w.key])
    IN  {w \in all : ~Same(w)}

-----------------------------------------------------------------------------
(* maintain_truth.                                                          *)

BadMaintenanceBase(t) ==
    BaseAt(t) \cup {[ref |-> <<"derived", k>>, fact |-> k, valid |-> versions[ExistingAt(t)[k]].valid] :
                       k \in {j \in Facts : ExistingAt(t)[j] # 0}}

(* The authoritative base leaves out what the engine derived.               *)
MaintenanceBase(t) == BaseAt(t)

MaintenanceOutputs(t) ==
    Evaluated(active, MaintenanceBase(t), [k \in Facts |-> <<"derived", k>>], [k \in Facts |-> {}])

(* A recorded premise that the engine derived is named by its conclusion.   *)
SemanticPremise(ref) ==
    IF versions[ref[2]].claim[2] = Engine THEN <<"derived", versions[ref[2]].claim[1]>> ELSE ref
SemanticSupports(id) ==
    {<<s[1], [i \in DOMAIN s[2] |-> SemanticPremise(s[2][i])]>> : s \in versions[id].supports}

BadDiffers(id, output) == versions[id].valid # output.valid

Differs(id, output) == versions[id].valid # output.valid \/ SemanticSupports(id) # output.supports

(* What depends on a changed conclusion is written again with it.           *)
Dependents(out) ==
    UNION {UNION {{<<{p[2]}, o.key>> : p \in {r \in Range(s[2]) : r[1] = "derived"}} : s \in o.supports} : o \in out}
ChangedOutputs(out, existing) ==
    LET keys == Closure(Dependents(out), {o.key : o \in {p \in out : existing[p.key] = 0 \/ Differs(existing[p.key], p)}})
    IN  {o \in out : o.key \in keys}

(* The changed conclusions, and what no rule derives any more.              *)
Repairs(out, changed, existing) ==
    LET kept == [k \in Facts |-> IF k \in Keys(changed) THEN 0 ELSE existing[k]]
        rest == {Retraction(o.key, ValidOf(existing[o.key]) \ o.valid) : o \in changed}
        gone == {Retraction(k, ValidOf(existing[k])) : k \in Facts \ Keys(out)}
    IN  {Write(o.key, o.valid, Encoded(o.supports, kept)) : o \in changed} \cup
        {w \in rest \cup gone : w.valid # {}}

(* last_truth_maintenance_instant: the stored state, unless a later commit  *)
(* records a pass.                                                          *)
Newer(commit, s) == commit > s.through
LastInstant ==
    LET recorded == {i \in DOMAIN meta : meta[i] # None}
    IN  IF recorded # {} /\ Newer(Max(recorded), state) THEN meta[Max(recorded)] ELSE state.instant

-----------------------------------------------------------------------------
(* Actions.  Commits take the write guard; a maintenance pass holds it from *)
(* its read to the end, a rule run only for its commit.                     *)

GuardFree == saving = NoState

(* commit_versions: the new versions hold where they are valid, retractions *)
(* leave nothing.                                                           *)
CommitVersions(agent, writes, asOf) ==
    LET new == SetToSeq({w \in writes : w.supports # {} \/ agent # Engine})
        ids == [k \in Facts |-> IF \E i \in DOMAIN new : new[i].key = k
                                THEN Len(versions) + (CHOOSE i \in DOMAIN new : new[i].key = k) ELSE 0]
        Covered(S, c, t) == \E w \in S : c = <<w.key, agent>> /\ t \in w.valid
    IN  /\ versions' = versions \o [i \in DOMAIN new |->
                [claim |-> <<new[i].key, agent>>, valid |-> new[i].valid, supports |-> Encoded(new[i].supports, ids)]]
        /\ held' = [c \in Statements |-> [t \in Instants |->
                IF Covered(Range(new), c, t) THEN ids[c[1]] ELSE IF Covered(writes, c, t) THEN 0 ELSE held[c][t]]]
        /\ meta' = Append(meta, asOf)

Changed ==
    /\ GuardFree /\ changes < MaxChanges /\ changes' = changes + 1
    /\ maintained' = None
    /\ UNCHANGED <<run, state, saving, lastPass, passes>>

AssertClaim(f, a, valid) ==
    /\ Changed
    /\ CommitVersions(a, {Write(f, valid, {})}, None)
    /\ UNCHANGED active

(* A retraction of what a claim states somewhere in an interval.            *)
RetractClaim(f, a, valid) ==
    /\ Changed
    /\ \E t \in valid : held[<<f, a>>][t] # 0
    /\ held' = [held EXCEPT ![<<f, a>>] = [t \in Instants |-> IF t \in valid THEN 0 ELSE @[t]]]
    /\ meta' = Append(meta, None)
    /\ UNCHANGED <<versions, active>>

(* create_rule: a version replaces its rule's earlier one; an active program *)
(* always stratifies.                                                       *)
CreateRule(v) ==
    LET next == {w \in active : Ru(w).rule # Ru(v).rule} \cup {v}
    IN  /\ Changed
        /\ v \notin active /\ Stratifies(next)
        /\ active' = next
        /\ UNCHANGED <<versions, held, meta>>

RunRead(t) ==
    /\ ~run.on /\ active # {} /\ passes < MaxPasses
    /\ \E out \in {RunOutputs(t)} : run' = [on |-> TRUE, writes |-> RunWrites(out, ExistingAt(t)), instant |-> t]
    /\ passes' = passes + 1
    /\ UNCHANGED <<versions, held, meta, active, state, saving, maintained, lastPass, changes>>

RunCommit ==
    /\ run.on /\ GuardFree
    /\ run' = NoRun
    /\ IF run.writes = {} THEN UNCHANGED <<versions, held, meta, maintained, lastPass>>
       ELSE /\ CommitVersions(Engine, run.writes, run.instant)
            /\ maintained' = None /\ lastPass' = run.instant
    /\ UNCHANGED <<active, state, saving, changes, passes>>

(* The commit of a pass, then the state that describes it.                  *)
Maintain(t) ==
    /\ GuardFree /\ passes < MaxPasses /\ passes' = passes + 1
    /\ \E out \in {MaintenanceOutputs(t)}, existing \in {ExistingAt(t)} :
           \E changed \in {ChangedOutputs(out, existing)} :
               \E writes \in {Repairs(out, changed, existing)} :
                   \/ /\ writes = {} /\ UNCHANGED <<versions, held, meta, lastPass>>
                   \/ /\ writes # {} /\ CommitVersions(Engine, writes, t) /\ lastPass' = t
    /\ saving' = [instant |-> t, through |-> Len(meta')]
    /\ maintained' = t
    /\ UNCHANGED <<active, run, state, changes>>

SaveState ==
    /\ saving # NoState
    /\ state' = saving /\ lastPass' = saving.instant /\ saving' = NoState
    /\ UNCHANGED <<versions, held, meta, active, run, maintained, changes, passes>>

Die ==
    /\ saving # NoState \/ run.on
    /\ saving' = NoState /\ run' = NoRun
    /\ UNCHANGED <<versions, held, meta, active, state, maintained, lastPass, changes, passes>>

Next ==
    \/ \E c \in BaseClaims, valid \in Intervals : AssertClaim(c[1], c[2], valid) \/ RetractClaim(c[1], c[2], valid)
    \/ \E v \in DOMAIN RuleVersions : CreateRule(v)
    \/ \E t \in AsOf : RunRead(t)
    \/ \E t \in AsOf \cup ({LastInstant} \ {None}) : Maintain(t)
    \/ RunCommit \/ SaveState \/ Die

Spec == Init /\ [][Next]_vars

-----------------------------------------------------------------------------
(* explain_claim: a bounded depth-first walk over recorded supports.        *)

AddNode(w, node, lim) ==
    IF node \in w.nodes THEN w
    ELSE IF Cardinality(w.nodes) >= lim.nodes THEN [w EXCEPT !.truncated = TRUE]
    ELSE [w EXCEPT !.nodes = @ \cup {node}]

(* The walk stops below the depth limit, and says so.                       *)
Cut(w) == [w EXCEPT !.truncated = TRUE]

Nodes == ({"claim"} \X Nat) \cup ({"rule", "absence"} \X DOMAIN RuleVersions)
Walks == [nodes : SUBSET Nodes, expanded : SUBSET Nat, truncated : BOOLEAN]

Explain(id, lim) ==
    LET visit[w \in Walks, at \in Nat, depth \in 0..lim.depth] ==
            LET seen == AddNode(w, <<"claim", at>>, lim)
                open == [seen EXCEPT !.expanded = @ \cup {at}]
                Premise(x, ref) == LET y == AddNode(x, <<"claim", ref[2]>>, lim)
                                   IN  IF <<"claim", ref[2]>> \in y.nodes THEN visit[y, ref[2], depth + 1] ELSE y
                Support(x, s) ==
                    LET ruled == AddNode(x, <<"rule", s[1]>>, lim)
                    IN  IF <<"rule", s[1]>> \notin ruled.nodes THEN ruled
                        ELSE LET premised == Fold(Premise, ruled, s[2])
                             IN  IF Ru(s[1]).neg = {} THEN premised ELSE AddNode(premised, <<"absence", s[1]>>, lim)
            IN  CASE <<"claim", at>> \notin seen.nodes \/ at \in seen.expanded -> seen
                  [] OTHER -> IF versions[at].supports = {} THEN open
                              ELSE IF depth >= lim.depth THEN Cut(open)
                              ELSE Fold(Support, open, SetToSeq(versions[at].supports))
    IN  visit[[nodes |-> {}, expanded |-> {}, truncated |-> FALSE], id, 0]

(* export_inference: the recorded supports of the claims in an explanation, *)
(* without those that it holds only in part.                                *)
NodesOf(s) ==
    {<<"rule", s[1]>>} \cup {<<"claim", r[2]>> : r \in Range(s[2])} \cup
    (IF Ru(s[1]).neg = {} THEN {} ELSE {<<"absence", s[1]>>})
Exported(e) ==
    LET recorded == UNION {{<<n[2], s>> : s \in versions[n[2]].supports} : n \in {m \in e.nodes : m[1] = "claim"}}
        whole == {x \in recorded : NodesOf(x[2]) \subseteq e.nodes}
    IN  [supports |-> whole, truncated |-> e.truncated \/ whole # recorded]

-----------------------------------------------------------------------------
(* Properties.                                                              *)

BaseFacts(t) == {f.fact : f \in BaseAt(t)}
Derived(t) == {k \in Facts : ExistingAt(t)[k] # 0}
Fires(rules, believed) == {Ru(v).head : v \in {w \in rules : Range(Ru(w).body) \subseteq believed}}
Least(rules, believed) == Closure({<<Range(Ru(v).body), Ru(v).head>> : v \in rules}, believed)

(* A repeated pass over unchanged claims and rules writes nothing.          *)
Settled(t) ==
    \A out \in {MaintenanceOutputs(t)}, existing \in {ExistingAt(t)} :
        Repairs(out, ChangedOutputs(out, existing), existing) = {}

(* After a maintenance pass the engine's conclusions at its instant are     *)
(* exactly what the rules derive there: with the base they form the stable  *)
(* model of the active program, so a conclusion goes with its last support  *)
(* and no cycle of conclusions keeps itself alive; a second pass writes     *)
(* nothing.  The default instant of a pass is that of the last run or pass  *)
(* that left a trace, also when the process died between a commit and its   *)
(* state (maintain, last_instant).                                          *)
MaintainedExact ==
    LET believed == BaseFacts(maintained) \cup Derived(maintained)
        unblocked == {v \in active : Ru(v).neg \cap believed = {}}
    IN  /\ GuardFree => LastInstant = lastPass
        /\ maintained # None =>
              /\ believed = Least(unblocked, BaseFacts(maintained))
              /\ Derived(maintained) = Fires(unblocked, believed)
              /\ Settled(maintained)

Behinds == UNION {UNION {{<<{i}, r[2]>> : r \in Range(s[2])} : s \in versions[i].supports} : i \in DOMAIN versions}
Reached(ids) == Closure(Behinds, ids)

(* What the explanation of a conclusion leaves out, it says: one that is    *)
(* not truncated, and its export, hold every version the conclusion rests   *)
(* on and every support of each.                                            *)
Explained(id, lim) ==
    \A e \in {Explain(id, lim)}, behind \in {Reached({id})} :
        /\ Cardinality(e.nodes) <= lim.nodes
        /\ ~e.truncated => \A i \in behind :
               <<"claim", i>> \in e.nodes /\ \A s \in versions[i].supports : NodesOf(s) \subseteq e.nodes
        /\ Exported(e).truncated = e.truncated
        /\ lim.depth = 3 /\ lim.nodes = 99 /\ Cardinality(behind) <= 3 => ~e.truncated

(* A recorded support still holds: its rule version is active, a base       *)
(* premise is the version that holds now and a derived premise is a         *)
(* conclusion that still stands.                                            *)
SupportsCurrent ==
    maintained # None => \A k \in Derived(maintained) :
        \A s \in versions[ExistingAt(maintained)[k]].supports :
            /\ s[1] \in active
            /\ \A i \in DOMAIN s[2] :
                   LET claim == versions[s[2][i][2]].claim
                   IN  IF claim[2] = Engine THEN claim[1] \in Derived(maintained)
                       ELSE held[claim][maintained] = s[2][i][2]

(* After a pass every recorded support of a conclusion still holds.  At any *)
(* time a conclusion's explanation is complete or says that it is           *)
(* truncated, whatever the limits and however supports share premises or    *)
(* run in circles (maintain, explain).                                      *)
SupportsHold ==
    /\ SupportsCurrent
    /\ \A id \in (UNION {Range(held[<<k, Engine>>]) : k \in Facts}) \ {0}, lim \in [depth : {0, 1, 3}, nodes : {4, 99}] :
           Explained(id, lim)
=============================================================================
