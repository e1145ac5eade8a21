------------------------------ MODULE Structural ------------------------------
(***************************************************************************)
(* Closed-world validation of a finite set of facts: the members of closed *)
(* classes are checked one after the other against a suite of constraints, *)
(* and the report ends as soon as it holds max_violations.                 *)
(***************************************************************************)
EXTENDS Naturals, Sequences, FiniteSets, SequencesExt, FiniteSetsExt

CONSTANTS
    Membership,     \* the predicate that states a class
    ClosedClasses,  \* the classes that are complete
    Suite,          \* the constraints: required, then cardinality, datatype, exclusive
    KindOf(_),      \* the literal kind of a value, "entity" for an entity
    MaxViolations   \* max_violations

IsMembership(f) == f.p = Membership /\ Len(f.args) = 2 /\ KindOf(f.args[2]) = "entity"
ClassesOf(facts, e) == {f.args[2] : f \in {g \in facts : IsMembership(g) /\ g.args[1] = e}} \cap ClosedClasses
Members(facts) == {f.args[1] : f \in {g \in facts : IsMembership(g) /\ g.args[2] \in ClosedClasses}}
MemberFact(facts, e, class) == CHOOSE f \in facts : IsMembership(f) /\ f.args = <<e, class>>

(* by_subject: what is said of an entity; literals have no properties.      *)
Said(facts, e, pred) == {f \in facts : f.p = pred /\ f.args[1] = e /\ KindOf(e) = "entity"}

Breach(con, facts) == [con |-> con, facts |-> facts]
Present(facts, e, con) == {p \in con.preds : Said(facts, e, p) # {}}

DatatypeFacts(f, member) == {f, member}

(* What one constraint finds wrong with one member, and on which facts.     *)
(* Only datatype checks find more than one thing.                           *)
Breaches(facts, e, con, member) ==
    CASE con.kind = "required" -> {Breach(con, {member}) : x \in {y \in {1} : Said(facts, e, con.pred) = {}}}
      [] con.kind = "cardinality" ->
            {Breach(con, Said(facts, e, con.pred) \cup {member}) :
                x \in {y \in {1} : Cardinality(Said(facts, e, con.pred)) \notin con.min..con.max}}
      [] con.kind = "datatype" ->
            {Breach(con, DatatypeFacts(f, member)) : f \in {g \in Said(facts, e, con.pred) :
                                          \E i \in 2..Len(g.args) : KindOf(g.args[i]) # con.type}}
      [] con.kind = "exclusive" ->
            {Breach(con, UNION {Said(facts, e, p) : p \in Present(facts, e, con)} \cup {member}) :
                x \in {y \in {1} : Cardinality(Present(facts, e, con)) \notin con.min..1}}

(* Members in order, the suite in order, and the cut at the limit.          *)
InEntityOrder(es) == [i \in 1..Cardinality(es) |-> CHOOSE e \in es : Cardinality({x \in es : x < e}) = i - 1]
Examine(facts, e, con, found) ==
    IF con.class \in ClassesOf(facts, e)
    THEN found \o SetToSeq(Breaches(facts, e, con, MemberFact(facts, e, con.class)))
    ELSE found
Found(facts) ==
    FoldLeft(LAMBDA found, e : FoldLeft(LAMBDA acc, con : Examine(facts, e, con, acc), found, Suite),
             <<>>, InEntityOrder(Members(facts)))
Reported(found) ==
    [violations |-> Range(SubSeq(found, 1, Min({Len(found), MaxViolations}))),
     truncated |-> Len(found) >= MaxViolations]

(* validate_structural                                                      *)
Validate(facts) == Reported(Found(facts))
Clean(report) == report.violations = {} /\ ~report.truncated
=============================================================================
