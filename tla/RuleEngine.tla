------------------------------ MODULE RuleEngine ------------------------------
(***************************************************************************)
(* A caller of the rule engines: it declares rules, supplies facts, and    *)
(* asks for closures and for the answers to goals.  The engines keep no    *)
(* state of their own; the caller's program and input are the state, and   *)
(* every engine must agree with the logical meaning of that program on     *)
(* that input.                                                             *)
(***************************************************************************)
EXTENDS Datalog

CONSTANTS
    RulePool,       \* the rules a program may contain
    FactPool,       \* the facts an input may contain
    Goals,          \* the goals that are asked
    ProofLimits,    \* the limits on nodes and edges of a proof trace
    MaxRules,       \* bound: rules in a program
    MaxFacts        \* bound: facts in an input

VARIABLES
    rules,          \* the program
    base            \* the input facts

vars == <<rules, base>>

Init == rules = {} /\ base = {}

(* GenericProgram: a program whose rules do not stratify is refused.        *)
Declare(rule) ==
    /\ base = {} /\ Cardinality(rules) < MaxRules
    /\ Stratifies(rules \cup {rule})
    /\ rules' = rules \cup {rule}
    /\ UNCHANGED base

Supply(fact) ==
    /\ rules # {} /\ Cardinality(base) < MaxFacts
    /\ base' = base \cup {fact}
    /\ UNCHANGED rules

Next ==
    \/ \E rule \in RulePool : Declare(rule)
    \/ \E fact \in FactPool : Supply(fact)

Spec == Init /\ [][Next]_vars

-----------------------------------------------------------------------------
(* The meaning of a program, independent of the engines.                    *)

Positive(rs) == {r \in rs : r.negated = <<>>}

(* Everything the rules conclude in one step from a set of facts, where     *)
(* absence is judged against another set.                                   *)
Consequences(rs, facts, closed) ==
    UNION {{Ground(r.head, b) :
              b \in {c \in [RuleVars(r) -> Values(facts)] :
                        /\ \A i \in DOMAIN r.body : Ground(r.body[i], c) \in facts
                        /\ \A i \in DOMAIN r.negated : Ground(r.negated[i], c) \notin closed}}
           : r \in rs}

RECURSIVE LeastModel(_, _, _)
LeastModel(rs, facts, closed) ==
    LET next == facts \cup Consequences(rs, facts, closed)
    IN  IF next = facts THEN facts ELSE LeastModel(rs, next, closed)

(* Levels: a rule's head is not below its body and above what it negates.   *)
Levels(rs) ==
    {lv \in [ProgramNames(rs) -> 0..2] :
        \A r \in rs :
            /\ \A p \in BodyNames(r) : lv[p] <= lv[r.head.p]
            /\ \A p \in NegatedNames(r) : lv[p] < lv[r.head.p]}

(* The perfect model: the least model of each level over those below it.    *)
PerfectModel(rs, facts, lv) ==
    LET At(i) == {r \in rs : lv[r.head.p] = i}
        M0 == LeastModel(At(0), facts, facts)
        M1 == LeastModel(At(1), M0, M0)
    IN  LeastModel(At(2), M1, M1)

-----------------------------------------------------------------------------
(* Properties.                                                              *)

(* Whatever the limits cut off, a collected trace passes the checks of its  *)
(* own constructor, so does every explanation taken from it, and collecting *)
(* it changes no fact.                                                      *)
ProofsAccepted ==
    \A lim \in ProofLimits :
        LET run == EvaluateTraced(rules, base, lim)
        IN  /\ run.facts = EvaluateStratified(rules, base)
            /\ TraceAccepted(run.trace)
            /\ \A f \in run.facts, max \in {1, 2, 9} :
                  LET e == Explain(run.trace, f, max) IN Canonical(e.nodes, e.truncated)

(* Semi-naive evaluation, which restricts every join to one delta atom and  *)
(* starts a rule only when all its predicates are known, computes the least *)
(* model.  A program is accepted exactly when its predicates have levels    *)
(* with negation strictly downward, and the component schedule, ordered by  *)
(* name among ready components, computes the perfect model.  The proofs     *)
(* collected on the way are one witness per fact, acyclic, complete unless  *)
(* they say truncated, and rest on no absence that a fact proved later      *)
(* contradicts.                                                             *)
EvaluationExact ==
    /\ Evaluate(Positive(rules), base) = LeastModel(Positive(rules), base, {})
    /\ \A rule \in RulePool : Stratifies(rules \cup {rule}) <=> Levels(rules \cup {rule}) # {}
    /\ \A lv \in Levels(rules) : EvaluateStratified(rules, base) = PerfectModel(rules, base, lv)
    /\ ProofsAccepted

(* A goal answered over the input restricted to required_predicates has the *)
(* answer the whole input gives; so has the frontier, which reads only what *)
(* the bindings met so far demand and may stop only when both facts and     *)
(* demands are stable (evaluate_frontier); demand specialisation, which     *)
(* adds guards and demand facts, never answers outside the full closure.    *)
DemandSound ==
    \A goal \in Goals :
        LET program == Positive(rules)
            full == Asked(goal, LeastModel(program, base, {}))
            needed == {f \in base : f.p \in Required(program, {goal.p})}
        IN  /\ Asked(goal, Evaluate(program, needed)) = full
            /\ FrontierAnswer(program, base, goal) = full
            /\ Answer(program, base, goal) \subseteq full
=============================================================================
