-------------------------------- MODULE Datalog --------------------------------
(***************************************************************************)
(* The rule engines: semi-naive evaluation of positive rules, evaluation   *)
(* by strata of rules with absence atoms, supports and their maintenance   *)
(* under insertion and retraction, and goal-directed specialisation.       *)
(*                                                                         *)
(* An atom is a predicate and a sequence of terms, a fact an atom of       *)
(* constants.  A rule has a body, absence atoms and a head; filters only   *)
(* drop matches and are left out.  A match is a binding of the rule's      *)
(* variables; the order in which a join binds them is not modelled.        *)
(***************************************************************************)
EXTENDS Naturals, Sequences, FiniteSets, SequencesExt, FiniteSetsExt

CONSTANTS
    Vars,           \* the variables of rules
    Names           \* the predicate names, in the order they sort

(* A predicate of a program, and the magic predicate of a demand.           *)
Rel(n) == [kind |-> "rel", name |-> n, ad |-> <<>>]
Magic(n, ad) == [kind |-> "magic", name |-> n, ad |-> ad]

Atom(p, args) == [p |-> p, args |-> args]

VarsOf(atom) == Range(atom.args) \cap Vars
RuleVars(rule) == UNION {VarsOf(rule.body[i]) : i \in DOMAIN rule.body}
Ground(atom, b) ==
    [atom EXCEPT !.args = [i \in DOMAIN @ |-> IF @[i] \in Vars THEN b[@[i]] ELSE @[i]]]

Predicates(facts) == {f.p : f \in facts}
Values(facts) == UNION {Range(f.args) : f \in facts}

(* _matches: one body atom, the pivot, is taken from the delta, the others  *)
(* from everything known.                                                   *)
Matches(rule, pivot, full, delta) ==
    {b \in [RuleVars(rule) -> Values(full)] :
        /\ Ground(rule.body[pivot], b) \in delta
        /\ \A i \in DOMAIN rule.body : Ground(rule.body[i], b) \in full}

(* Identical atoms of a body share one pivot.                               *)
Pivots(rule) == {i \in DOMAIN rule.body : ~\E j \in 1..(i - 1) : rule.body[j] = rule.body[i]}

(* dispatch: the rules and pivots a delta can start.                        *)
Active(rules, full, delta) ==
    {<<rule, i>> \in UNION {{rule} \X Pivots(rule) : rule \in rules} :
        /\ rule.body[i].p \in Predicates(delta)
        /\ \A j \in DOMAIN rule.body : rule.body[j].p \in Predicates(full)}

(* _check_negated: no absence atom of the rule is among the known facts.    *)
Unblocked(rule, b, full) ==
    \A i \in DOMAIN rule.negated : Ground(rule.negated[i], b) \notin full

Conclusions(rule, pivot, full, delta) ==
    {Ground(rule.head, b) : b \in {c \in Matches(rule, pivot, full, delta) : Unblocked(rule, c, full)}}

(* One round adds what the active rules conclude; the additions are the     *)
(* next round's delta.                                                      *)
Added(rules, full, delta) ==
    UNION {Conclusions(a[1], a[2], full, delta) : a \in Active(rules, full, delta)} \ full

RECURSIVE Rounds(_, _, _)
Rounds(rules, full, delta) ==
    IF delta = {} \/ Active(rules, full, delta) = {} THEN full
    ELSE LET added == Added(rules, full, delta) IN Rounds(rules, full \cup added, added)

(* evaluate: the closure of the input facts under positive rules.           *)
Evaluate(rules, base) == Rounds(rules, base, base)

-----------------------------------------------------------------------------
(* Strata.                                                                  *)

BodyNames(rule) == {rule.body[i].p : i \in DOMAIN rule.body}
NegatedNames(rule) == {rule.negated[i].p : i \in DOMAIN rule.negated}
ProgramNames(rules) ==
    UNION {BodyNames(rule) \cup NegatedNames(rule) \cup {rule.head.p} : rule \in rules}

(* Which predicates the positive dependencies lead to from a predicate.     *)
RECURSIVE Followers(_, _)
Followers(rules, ps) ==
    LET next == ps \cup {rule.head.p : rule \in {r \in rules : BodyNames(r) \cap ps # {}}}
    IN  IF next = ps THEN ps ELSE Followers(rules, next)

(* Components of the positive dependencies.                                 *)
ComponentOf(rules, p) ==
    {q \in ProgramNames(rules) : q \in Followers(rules, {p}) /\ p \in Followers(rules, {q})}
Components(rules) == {ComponentOf(rules, p) : p \in ProgramNames(rules)}

BadReads(rules, comp) ==
    UNION {BodyNames(rule) : rule \in {r \in rules : r.head.p \in comp}}

(* The predicates that must be complete before a component is evaluated.    *)
Reads(rules, comp) ==
    UNION {BodyNames(rule) \cup NegatedNames(rule) : rule \in {r \in rules : r.head.p \in comp}}

Rank(p) == CHOOSE i \in DOMAIN Names : Names[i] = p.name
First(comp) == Min({Rank(p) : p \in comp})

(* The schedule: among the components that only read finished ones, the one *)
(* that sorts first.  It ends short when none is ready.                     *)
RECURSIVE Schedule(_, _)
Schedule(rules, done) ==
    LET ready == {c \in Components(rules) \ Range(done) :
                    Reads(rules, c) \ c \subseteq UNION Range(done)}
    IN  IF ready = {} THEN done
        ELSE Schedule(rules, Append(done, CHOOSE c \in ready : \A d \in ready : First(c) <= First(d)))

(* _stratify succeeds: no rule negates its own component, and the schedule  *)
(* reaches every component.                                                 *)
Stratifies(rules) ==
    /\ \A rule \in rules : NegatedNames(rule) \cap ComponentOf(rules, rule.head.p) = {}
    /\ Range(Schedule(rules, <<>>)) = Components(rules)

(* evaluate_stratified: a fixpoint per component, in schedule order.        *)
EvaluateStratified(rules, base) ==
    FoldLeft(LAMBDA full, comp : Rounds({r \in rules : r.head.p \in comp}, full, full),
             base, Schedule(rules, <<>>))

-----------------------------------------------------------------------------
(* Proof collection.  A trace keeps one witness per fact, up to a limit of  *)
(* nodes and one of edges, and says whether anything was left out.  Which   *)
(* of a round's witnesses is met first is left to CHOOSE.                   *)

Witness(fact, rule, b) ==
    [fact |-> fact, rule |-> rule.id,
     premises |-> {Ground(rule.body[i], b) : i \in DOMAIN rule.body},
     absent |-> {Ground(rule.negated[i], b) : i \in DOMAIN rule.negated},
     cost |-> Len(rule.body) + Len(rule.negated)]
InputWitness(fact) == [fact |-> fact, rule |-> "input", premises |-> {}, absent |-> {}, cost |-> 0]

(* Every witness the active rules give for facts that are not known yet.    *)
Witnesses(rules, full, delta) ==
    {w \in UNION {{Witness(Ground(a[1].head, b), a[1], b) :
                      b \in {c \in Matches(a[1], a[2], full, delta) : Unblocked(a[1], c, full)}}
                  : a \in Active(rules, full, delta)} : w.fact \notin full}

(* start: the input facts, cut at the limit of nodes.                       *)
StartTrace(base, lim) ==
    LET kept == IF Cardinality(base) <= lim.nodes THEN base
                ELSE CHOOSE s \in SUBSET base : Cardinality(s) = lim.nodes
    IN  [nodes |-> {InputWitness(f) : f \in kept}, edges |-> 0, truncated |-> kept # base]

(* derived: a witness that does not fit is dropped and the trace says so.   *)
Derived(trace, w, lim) ==
    IF Cardinality(trace.nodes) >= lim.nodes \/ trace.edges + w.cost > lim.edges
    THEN [trace EXCEPT !.truncated = TRUE]
    ELSE [trace EXCEPT !.nodes = @ \cup {w}, !.edges = @ + w.cost]

RECURSIVE TracedRounds(_, _, _, _, _)
TracedRounds(rules, full, delta, trace, lim) ==
    LET found == Witnesses(rules, full, delta)
        added == {w.fact : w \in found}
        Record(f, t) == Derived(t, CHOOSE w \in found : w.fact = f, lim)
    IN  IF added = {} THEN [facts |-> full, trace |-> trace]
        ELSE TracedRounds(rules, full \cup added, added, FoldSet(Record, trace, added), lim)

(* evaluate_stratified with collect_proofs.                                 *)
EvaluateTraced(rules, base, lim) ==
    FoldLeft(LAMBDA st, comp :
                 TracedRounds({r \in rules : r.head.p \in comp}, st.facts, st.facts, st.trace, lim),
             [facts |-> base, trace |-> StartTrace(base, lim)], Schedule(rules, <<>>))

(* The facts that can be ordered after the premises the trace knows.        *)
RECURSIVE Ordered(_, _)
Ordered(nodes, done) ==
    LET known == {w.fact : w \in nodes}
        ready == {w.fact : w \in {n \in nodes : n.premises \cap known \subseteq done}}
    IN  IF ready = done THEN done ELSE Ordered(nodes, ready)

(* _canonical_witnesses: the checks a set of witnesses must pass.           *)
Canonical(nodes, truncated) ==
    /\ Cardinality({w.fact : w \in nodes}) = Cardinality(nodes)
    /\ truncated \/ \A w \in nodes : w.premises \subseteq {n.fact : n \in nodes}
    /\ Ordered(nodes, {}) = {w.fact : w \in nodes}

(* TypedProofTrace: an absence that a proved fact contradicts is refused.   *)
TraceAccepted(trace) ==
    /\ Canonical(trace.nodes, trace.truncated)
    /\ \A w \in trace.nodes : w.absent \cap {n.fact : n \in trace.nodes} = {}

RECURSIVE Walk(_, _, _, _, _)
Walk(trace, queue, queued, truncated, max) ==
    IF queue = <<>> THEN [nodes |-> {w \in trace.nodes : w.fact \in queued}, truncated |-> truncated]
    ELSE LET node == CHOOSE w \in trace.nodes : w.fact = Head(queue)
             known == {w.fact : w \in trace.nodes}
             fresh == (node.premises \cap known) \ queued
             room == IF max > Cardinality(queued) THEN max - Cardinality(queued) ELSE 0
             taken == IF Cardinality(fresh) <= room THEN fresh
                      ELSE CHOOSE s \in SUBSET fresh : Cardinality(s) = room
         IN  Walk(trace, Tail(queue) \o SetToSeq(taken), queued \cup taken,
                  truncated \/ taken # fresh \/ ~node.premises \subseteq known, max)

(* explain: the witnesses reachable from a fact, breadth first, bounded.    *)
Explain(trace, fact, max) ==
    IF fact \in {w.fact : w \in trace.nodes}
    THEN Walk(trace, <<fact>>, {fact}, trace.truncated, max)
    ELSE [nodes |-> {}, truncated |-> TRUE]

-----------------------------------------------------------------------------
(* Supports and maintenance.                                                *)

Support(fact, rule, b) ==
    [fact |-> fact, rule |-> rule.id, premises |-> {Ground(rule.body[i], b) : i \in DOMAIN rule.body}]

(* _find_all_supports: every derivation of a fact from the known facts.     *)
FindAllSupports(rules, full, target) ==
    UNION {{Support(target, rule, b) : b \in {c \in Matches(rule, 1, full, full) : Ground(rule.head, c) = target}}
           : rule \in rules}

(* rematerialize: supports are sought for facts that are not in the base.   *)
Rematerialize(rules, base) ==
    LET full == Evaluate(rules, base)
    IN  [facts |-> full, supports |-> UNION {FindAllSupports(rules, full, f) : f \in full \ base}]

RECURSIVE Propagated(_, _, _, _)
Propagated(rules, full, delta, supports) ==
    LET starts == {<<rule, i>> \in UNION {{rule} \X Pivots(rule) : rule \in rules} :
                       rule.body[i].p \in Predicates(delta)}
        found == UNION {{Support(Ground(a[1].head, b), a[1], b) : b \in Matches(a[1], a[2], full, delta)}
                        : a \in starts}
        added == {s.fact : s \in found} \ full
    IN  IF delta = {} THEN [facts |-> full, supports |-> supports]
        ELSE Propagated(rules, full \cup added, added, supports \cup found)

(* propagate_insertions: only rules downstream of a changed predicate run.  *)
PropagateInsertions(rules, m, inserted) ==
    LET fresh == inserted \ m.facts
        affected == Followers(rules, Predicates(fresh))
        relevant == {r \in rules : r.head.p \in affected /\ BodyNames(r) \cap affected # {}}
    IN  Propagated(relevant, m.facts \cup fresh, fresh, m.supports)

RECURSIVE Overdeleted(_, _)
Overdeleted(supports, doomed) ==
    LET next == doomed \cup {s.fact : s \in {t \in supports : t.premises \cap doomed # {}}}
    IN  IF next = doomed THEN doomed ELSE Overdeleted(supports, next)

(* retract_facts: everything that depends on a retracted fact is dropped,   *)
(* then derived again from what is left.                                    *)
RetractFacts(rules, m, retracted) ==
    LET over == Overdeleted(m.supports, retracted \cap m.facts) \cap m.facts
        final == Evaluate(rules, m.facts \ over)
        kept == {s \in m.supports : s.fact \in final /\ s.premises \subseteq final}
    IN  [facts |-> final,
         supports |-> kept \cup UNION {FindAllSupports(rules, final, f) : f \in final \cap over}]

-----------------------------------------------------------------------------
(* Demand.                                                                  *)

(* The adornment of an atom: which arguments are constants or bound.        *)
Adorn(atom, bound) ==
    [i \in DOMAIN atom.args |-> IF atom.args[i] \in Vars \ bound THEN "f" ELSE "b"]
BoundArgs(args, ad) ==
    LET at == SelectSeq([i \in DOMAIN ad |-> i], LAMBDA i : ad[i] = "b")
    IN  [k \in DOMAIN at |-> args[at[k]]]
HeadBound(rule, ad) == Range(BoundArgs(rule.head.args, ad)) \cap Vars

(* The adorned predicates a demand reaches.  Every atom of a body is        *)
(* adorned with the variables the head binds.                               *)
RECURSIVE Adorned(_, _)
Adorned(rules, known) ==
    LET next == known \cup
            UNION {UNION {{<<rule.body[i].p, Adorn(rule.body[i], HeadBound(rule, k[2]))>> : i \in DOMAIN rule.body}
                          : rule \in {r \in rules : r.head.p = k[1]}} : k \in known}
    IN  IF next = known THEN known ELSE Adorned(rules, next)

(* The demand of a body atom is passed sideways: it is adorned with what    *)
(* the head and the atoms before it bind.                                   *)
BoundBefore(rule, ad, i) == HeadBound(rule, ad) \cup UNION {VarsOf(rule.body[j]) : j \in 1..(i - 1)}

Guard(rule, ad) == Atom(Magic(rule.head.p.name, ad), BoundArgs(rule.head.args, ad))

GuardedRule(rule, ad) == [rule EXCEPT !.body = <<Guard(rule, ad)>> \o @]
MagicRule(rule, ad, i) ==
    LET key == Adorn(rule.body[i], BoundBefore(rule, ad, i))
    IN  [rule EXCEPT !.body = <<Guard(rule, ad)>> \o SubSeq(@, 1, i - 1),
                     !.head = Atom(Magic(rule.body[i].p.name, key), BoundArgs(rule.body[i].args, key))]

(* specialize: the rules guarded by their demand, and the rules that pass   *)
(* the demand on.                                                           *)
Specialize(rules, goal) ==
    UNION {UNION {{GuardedRule(rule, k[2])} \cup {MagicRule(rule, k[2], i) : i \in DOMAIN rule.body}
                  : rule \in {r \in rules : r.head.p = k[1]}}
           : k \in Adorned(rules, {<<goal.p, Adorn(goal, {})>>})}

(* Facts that an atom with variables asks for.                              *)
Asked(goal, facts) ==
    {f \in facts : f.p = goal.p /\ Len(f.args) = Len(goal.args) /\
        \A i, j \in DOMAIN goal.args :
            /\ goal.args[i] \notin Vars => f.args[i] = goal.args[i]
            /\ goal.args[i] = goal.args[j] => f.args[i] = f.args[j]}

(* answer: the specialised program from the input and the goal's seed.      *)
Answer(rules, base, goal) ==
    LET ad == Adorn(goal, {})
        seed == Atom(Magic(goal.p.name, ad), BoundArgs(goal.args, ad))
    IN  Asked(goal, Evaluate(Specialize(rules, goal), base \cup {seed}))

(* required_predicates: what the input of a goal can be restricted to.      *)
RECURSIVE Required(_, _)
Required(rules, ps) ==
    LET next == ps \cup UNION {BodyNames(r) : r \in {q \in rules : q.head.p \in ps}}
    IN  IF next = ps THEN ps ELSE Required(rules, next)

(* evaluate_frontier: requests and facts grow together.  A request is a     *)
(* predicate and the arguments it fixes; limits are not modelled.           *)
RequestOf(atom, b) ==
    LET fixed == {i \in DOMAIN atom.args : atom.args[i] \notin Vars \ DOMAIN b}
    IN  [p |-> atom.p, bound |-> [i \in fixed |-> IF atom.args[i] \in Vars THEN b[atom.args[i]] ELSE atom.args[i]]]

(* read: the input facts within a request.                                  *)
InRequest(request, facts) ==
    {f \in facts : f.p = request.p /\ \A i \in DOMAIN request.bound : f.args[i] = request.bound[i]}

(* head_bindings: none when the head cannot have the requested values.      *)
HeadBindings(rule, request) ==
    LET fixed == {rule.head.args[i] : i \in DOMAIN request.bound} \cap Vars
    IN  {b \in [fixed -> {request.bound[i] : i \in DOMAIN request.bound}] :
            \A i \in DOMAIN request.bound :
                request.bound[i] = IF rule.head.args[i] \in Vars THEN b[rule.head.args[i]] ELSE rule.head.args[i]}

(* One body atom: each binding demands the atom under what it binds, and is *)
(* extended by the facts known so far.                                      *)
Sideways(acc, atom, full) ==
    [requests |-> acc.requests \cup {RequestOf(atom, b) : b \in acc.bindings},
     bindings |-> UNION {{c \in [DOMAIN b \cup VarsOf(atom) -> Values(full) \cup Range(b)] :
                              /\ \A v \in DOMAIN b : c[v] = b[v]
                              /\ Ground(atom, c) \in full}
                         : b \in acc.bindings}]
Visited(rule, request, full) ==
    FoldLeft(LAMBDA acc, atom : Sideways(acc, atom, full),
             [requests |-> {}, bindings |-> HeadBindings(rule, request)], rule.body)

BadFrontierEnds(full, known, requested, more) == known = full
FrontierEnds(full, known, requested, more) == known = full /\ requested = more

RECURSIVE Frontier(_, _, _, _)
Frontier(rules, base, requested, known) ==
    LET full == known \cup UNION {InRequest(r, base) : r \in requested}
        visits == {[rule |-> rule, at |-> Visited(rule, r, full)] :
                      <<rule, r>> \in {q \in rules \X requested : q[1].head.p = q[2].p}}
        added == UNION {{Ground(v.rule.head, b) : b \in v.at.bindings} : v \in visits}
        more == requested \cup UNION {v.at.requests : v \in visits}
    IN  IF FrontierEnds(full \cup added, full, requested, more) THEN full
        ELSE Frontier(rules, base, more, full \cup added)

FrontierAnswer(rules, base, goal) ==
    Asked(goal, Frontier(rules, base, {RequestOf(goal, <<>>)}, {}))
=============================================================================
