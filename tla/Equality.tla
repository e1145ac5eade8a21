------------------------------- MODULE Equality -------------------------------
(***************************************************************************)
(* Entity equality over one snapshot of facts: union-find over explicit    *)
(* links and the links that functional properties generate, with the       *)
(* smallest member as representative, the links that justify each class,   *)
(* and the inequalities a class contradicts.  Entities are numbers below   *)
(* FirstLiteral, in the order their names sort; the other values are       *)
(* literals.                                                               *)
(***************************************************************************)
EXTENDS Naturals, Sequences, FiniteSets, SequencesExt, FiniteSetsExt

CONSTANTS FirstLiteral, MaxEntities

IsEntity(v) == v < FirstLiteral

(* SameAs and DifferentFrom store their smaller end on the left.            *)
Link(kind, a, b) == [kind |-> kind, left |-> Min({a, b}), right |-> Max({a, b})]
LinkBefore(a, b) == a.left < b.left \/ (a.left = b.left /\ a.right < b.right)

(* The values of a functional property of one subject, as they are met.     *)
ValuesOf(facts, property, subject) ==
    LET hits == SelectSeq(facts, LAMBDA f : f.p = property /\ Len(f.args) = 2 /\ f.args[1] = subject
                                            /\ IsEntity(f.args[1]) /\ IsEntity(f.args[2]))
        firsts == SelectSeq([i \in DOMAIN hits |-> i],
                            LAMBDA i : ~\E j \in 1..(i - 1) : hits[j].args[2] = hits[i].args[2])
    IN  [k \in DOMAIN firsts |-> hits[firsts[k]].args[2]]
Chained(values) == {Link("same", values[i], values[i + 1]) : i \in 1..(Len(values) - 1)}
FactEntities(facts) == UNION {{v \in Range(facts[i].args) : IsEntity(v)} : i \in DOMAIN facts}

(* The equality links that are asserted and generated.                      *)
Generated(facts, links) ==
    {l \in links : l.kind = "same"}
    \cup UNION {UNION {Chained(ValuesOf(facts, l.property, s)) : s \in FactEntities(facts)}
                : l \in {k \in links : k.kind = "functional"}}
Different(links) == {l \in links : l.kind = "different"}

Entities(facts, links) ==
    FactEntities(facts) \cup UNION {{l.left, l.right} : l \in Generated(facts, links) \cup Different(links)}

(* find: halving paths changes no root and is left out.                     *)
RECURSIVE Find(_, _)
Find(parent, e) == IF parent[e] = e THEN e ELSE Find(parent, parent[e])

BadUnite(uf, link) ==
    LET l == Find(uf.parent, link.left)
        r == Find(uf.parent, link.right)
        keep == IF uf.size[l] >= uf.size[r] THEN l ELSE r
        drop == IF keep = l THEN r ELSE l
    IN  IF l = r THEN uf
        ELSE [parent |-> [uf.parent EXCEPT ![drop] = keep],
              size |-> [uf.size EXCEPT ![keep] = @ + uf.size[drop]],
              evidence |-> [uf.evidence EXCEPT ![keep] = @ \cup {link}]]

(* Union by size; the kept root takes over the evidence of the dropped one. *)
Unite(uf, link) ==
    LET l == Find(uf.parent, link.left)
        r == Find(uf.parent, link.right)
        keep == IF uf.size[l] >= uf.size[r] THEN l ELSE r
        drop == IF keep = l THEN r ELSE l
    IN  IF l = r THEN uf
        ELSE [parent |-> [uf.parent EXCEPT ![drop] = keep],
              size |-> [uf.size EXCEPT ![keep] = @ + uf.size[drop]],
              evidence |-> [uf.evidence EXCEPT ![keep] = @ \cup uf.evidence[drop] \cup {link}]]

InLinkOrder(links) ==
    [i \in 1..Cardinality(links) |-> CHOOSE l \in links : Cardinality({k \in links : LinkBefore(k, l)}) = i - 1]

Mapping(es, uf, different) ==
    LET Members(root) == {e \in es : Find(uf.parent, e) = root}
        roots == {Find(uf.parent, e) : e \in es}
    IN  [classes |-> {[rep |-> Min(Members(root)), members |-> Members(root), just |-> uf.evidence[root]] : root \in roots},
         conflicts |-> {[link |-> d, rep |-> Min(Members(Find(uf.parent, d.left))),
                         evidence |-> uf.evidence[Find(uf.parent, d.left)] \cup {d}]
                        : d \in {k \in different : Find(uf.parent, k.left) = Find(uf.parent, k.right)}}]

Canonicalized(es, generated, different) ==
    Mapping(es,
            FoldLeft(Unite, [parent |-> [e \in es |-> e], size |-> [e \in es |-> 1], evidence |-> [e \in es |-> {}]],
                     InLinkOrder(generated)),
            different)

(* canonicalize: built from nothing at every call.                          *)
Canonicalize(facts, links) == Canonicalized(Entities(facts, links), Generated(facts, links), Different(links))
Affordable(facts, links) == Cardinality(Entities(facts, links)) <= MaxEntities

(* representative and rewrite: literals pass through.                       *)
Representative(m, v) ==
    IF IsEntity(v) /\ \E c \in m.classes : v \in c.members
    THEN (CHOOSE c \in m.classes : v \in c.members).rep ELSE v
Rewrite(m, facts) ==
    {[facts[i] EXCEPT !.args = [k \in DOMAIN @ |-> Representative(m, @[k])]] : i \in DOMAIN facts}
=============================================================================
