------------------------------ MODULE Reasoners ------------------------------
(***************************************************************************)
(* A caller of the reasoners that keep no state: it collects axioms for    *)
(* the classifier, or facts and equality links for canonicalisation and    *)
(* structural validation, withdraws them again, and asks at any time.      *)
(***************************************************************************)
EXTENDS Classification, Equality, Structural

CONSTANTS
    AxiomPool, LinkPool, EqualityFacts,     \* what may be collected
    MaxAxioms, MaxLinks, MaxEqualityFacts   \* bounds on what is held at once

VARIABLES
    axioms,         \* the axioms, in the order they were given
    facts,          \* the facts, in the order they were given
    links           \* SameAs, DifferentFrom and FunctionalProperty links

reasonerVars == <<axioms, facts, links>>

ReasonersInit == axioms = <<>> /\ facts = <<>> /\ links = {}

GiveAxiom(spec) ==
    /\ facts = <<>> /\ links = {} /\ Len(axioms) < MaxAxioms
    /\ NormalizeAxiom(spec) \notin Range(axioms)
    /\ axioms' = Append(axioms, NormalizeAxiom(spec))
    /\ UNCHANGED <<facts, links>>

GiveFact(fact) ==
    /\ axioms = <<>> /\ Len(facts) < MaxEqualityFacts
    /\ fact \notin Range(facts)
    /\ facts' = Append(facts, fact)
    /\ UNCHANGED <<axioms, links>>

GiveLink(link) ==
    /\ axioms = <<>> /\ Cardinality(links) < MaxLinks
    /\ links' = links \cup {link}
    /\ UNCHANGED <<axioms, facts>>

(* Support is withdrawn; the next call starts from what is left.            *)
Withdraw ==
    \/ /\ \E i \in DOMAIN facts : facts' = SubSeq(facts, 1, i - 1) \o SubSeq(facts, i + 1, Len(facts))
       /\ UNCHANGED <<axioms, links>>
    \/ /\ \E link \in links : links' = links \ {link}
       /\ UNCHANGED <<axioms, facts>>

ReasonersNext ==
    \/ \E spec \in AxiomPool : GiveAxiom(spec)
    \/ \E fact \in EqualityFacts : GiveFact(fact)
    \/ \E link \in LinkPool : GiveLink(link)
    \/ Withdraw

-----------------------------------------------------------------------------
(* Properties.                                                              *)

(* The canonical interpretation of a classification: one element for each   *)
(* concept.                                                                 *)
CanonicalModel(cl, given) ==
    \A i \in DOMAIN given :
        Satisfies(given[i], [c \in Concepts(given) |-> {d \in Concepts(given) : <<d, c>> \in cl.named}],
                  cl.some, Concepts(given))

(* Classification by in-place rounds finds exactly what the axioms entail:  *)
(* every subsumption it returns holds in all models of two elements, the    *)
(* interpretation it describes is itself a model, so nothing is missing,    *)
(* and the checker accepts the derivations.                                 *)
ClassificationExact ==
    LET Exact(cl) ==
            cl = Refused \/
            /\ Entailed(axioms, Concepts(axioms), {1, 2}, cl.named)
            /\ CanonicalModel(cl, axioms)
            /\ CheckProof(axioms, cl)
    IN  axioms # <<>> => Exact(Classify(axioms))

RECURSIVE Linked(_, _)
Linked(generated, es) ==
    LET next == es \cup UNION {{l.left, l.right} : l \in {k \in generated : {k.left, k.right} \cap es # {}}}
    IN  IF next = es THEN es ELSE Linked(generated, next)

(* The classes are the connected components of the links, named by their    *)
(* smallest member; the links that justify a class are just enough to       *)
(* connect it; exactly the inequalities inside a class are conflicts, with  *)
(* evidence that connects their ends; and rewriting twice changes nothing,  *)
(* merges two facts only when their values are equal, and touches no        *)
(* literal.                                                                 *)
EqualityExact ==
    LET generated == Generated(facts, links)
        different == Different(links)
        Exact(m) ==
            /\ {c.members : c \in m.classes} = {Linked(generated, {e}) : e \in Entities(facts, links)}
            /\ \A c \in m.classes :
                  /\ c.rep = Min(c.members) /\ c.just \subseteq generated
                  /\ Linked(c.just, {c.rep}) = c.members
                  /\ Cardinality(c.just) = Cardinality(c.members) - 1
            /\ {c.link : c \in m.conflicts} = {d \in different : d.right \in Linked(generated, {d.left})}
            /\ \A c \in m.conflicts : c.link.right \in Linked(c.evidence \ different, {c.link.left})
            /\ \A i, j \in DOMAIN facts :
                  LET Same(a, b) == a = b \/ (IsEntity(a) /\ IsEntity(b) /\ b \in Linked(generated, {a}))
                  IN  (Rewrite(m, <<facts[i]>>) = Rewrite(m, <<facts[j]>>)) <=>
                          /\ facts[i].p = facts[j].p /\ Len(facts[i].args) = Len(facts[j].args)
                          /\ \A k \in DOMAIN facts[i].args : Same(facts[i].args[k], facts[j].args[k])
            /\ \A f \in Rewrite(m, facts) : Rewrite(m, <<f>>) = {f}
    IN  axioms = <<>> /\ Affordable(facts, links) => Exact(Canonicalize(facts, links))

(* Every reported violation can be seen on its own facts alone: validating  *)
(* just those reports it again.  The report names every member and          *)
(* constraint that fail unless it says it was cut, and it is clean only if  *)
(* no member of a closed class breaks a constraint.                         *)
ValidationExact ==
    LET held == Range(facts)
        broken == {<<e, k>> \in Members(held) \X DOMAIN Suite :
                     /\ Suite[k].class \in ClassesOf(held, e)
                     /\ Breaches(held, e, Suite[k], MemberFact(held, e, Suite[k].class)) # {}}
        Exact(report) ==
            /\ \A v \in report.violations :
                  /\ v.facts \subseteq held
                  /\ v \in Validate(v.facts).violations
            /\ report.truncated \/
                  {<<e, Suite[k]>> : <<e, k>> \in broken} =
                      {<<(CHOOSE f \in v.facts : IsMembership(f) /\ f.args[2] = v.con.class).args[1], v.con>>
                       : v \in report.violations}
            /\ Clean(report) <=> broken = {}
    IN  axioms = <<>> => Exact(Validate(held))

(* The three reasoners agree with the meaning of their input: subsumption   *)
(* is entailment, equality classes are the connected components of the      *)
(* links, a report has exactly the broken constraints, each with the facts  *)
(* that show it (classify, canonicalize, validate).                         *)
ReasonersExact == ClassificationExact /\ EqualityExact /\ ValidationExact
=============================================================================
