----------------------------- MODULE Classification -----------------------------
(***************************************************************************)
(* EL classification: the completion rules run in rounds over named        *)
(* concepts, every conclusion carries its grounds, and a checker replays   *)
(* the derivations.  An axiom is one of four forms:                        *)
(*   sub        sub <= sup                                                 *)
(*   and        the intersection of members <= sup                         *)
(*   someRight  sub <= exists role.filler                                  *)
(*   someLeft   exists role.filler <= sup                                  *)
(***************************************************************************)
EXTENDS Naturals, Sequences, FiniteSets, SequencesExt, FiniteSetsExt

CONSTANTS
    ConceptOrder,       \* the concept names as they sort
    MaxSubsumptions,    \* max_subsumptions
    MaxRounds           \* max_rounds

(* normalize_axiom: a conjunction of one member is a subsumption.           *)
NormalizeAxiom(spec) ==
    IF spec.form = "and" /\ Cardinality(spec.members) = 1
    THEN [form |-> "sub", sub |-> CHOOSE m \in spec.members : TRUE, sup |-> spec.sup]
    ELSE spec

AxiomConcepts(ax) ==
    CASE ax.form = "sub" -> {ax.sub, ax.sup}
      [] ax.form = "and" -> ax.members \cup {ax.sup}
      [] ax.form = "someRight" -> {ax.sub, ax.filler}
      [] ax.form = "someLeft" -> {ax.filler, ax.sup}
Concepts(axioms) == UNION {AxiomConcepts(axioms[i]) : i \in DOMAIN axioms}
SortedConcepts(axioms) == SelectSeq(ConceptOrder, LAMBDA c : c \in Concepts(axioms))
Form(axioms, form) == SelectSeq(axioms, LAMBDA ax : ax.form = form)

(* Tables: the named subsumptions, the existentials, the derivations.       *)
Seed(axioms) ==
    [named |-> {<<c, c>> : c \in Concepts(axioms)}
               \cup {<<axioms[i].sub, axioms[i].sup>> : i \in {j \in DOMAIN axioms : axioms[j].form = "sub"}},
     some |-> {}, proof |-> {}]

Sub(c, d) == [is |-> "sub", of |-> <<c, d>>]
Some(c, r, d) == [is |-> "some", of |-> <<c, r, d>>]
Step(rule, conclusion, grounds, axiom, round) ==
    [rule |-> rule, concl |-> conclusion, grounds |-> grounds, axiom |-> axiom, round |-> round]

(* emit: a conclusion enters its table with the derivation that found it.   *)
Emit(st, steps) ==
    [named |-> st.named \cup {s.concl.of : s \in {t \in steps : t.concl.is = "sub"}},
     some |-> st.some \cup {s.concl.of : s \in {t \in steps : t.concl.is = "some"}},
     proof |-> st.proof \cup steps]

(* Transitivity, in place: what one pair adds the next pair sees.           *)
Transitive(st, cs, round) ==
    LET At(k) == <<cs[((k - 1) \div Len(cs)) + 1], cs[((k - 1) % Len(cs)) + 1]>>
        Chain(acc, k) ==
            LET middle == At(k)[1]
                sub == At(k)[2]
                sups == {c \in Range(cs) : <<middle, c>> \in acc.named /\ <<sub, c>> \notin acc.named}
            IN  IF <<sub, middle>> \notin acc.named THEN acc
                ELSE Emit(acc, {Step("transitivity", Sub(sub, c), {Sub(sub, middle), Sub(middle, c)}, {}, round)
                                : c \in sups})
    IN  FoldLeft(Chain, st, [k \in 1..(Len(cs) * Len(cs)) |-> k])

Conjoin(st, ax, cs, round) ==
    LET subs == {c \in Range(cs) : <<c, ax.sup>> \notin st.named /\ \A m \in ax.members : <<c, m>> \in st.named}
    IN  Emit(st, {Step("conjunction", Sub(c, ax.sup), {Sub(c, m) : m \in ax.members}, {ax}, round) : c \in subs})

Introduce(st, ax, cs, round) ==
    LET subs == {c \in Range(cs) : <<c, ax.sub>> \in st.named /\ <<c, ax.role, ax.filler>> \notin st.some}
    IN  Emit(st, {Step("some-intro", Some(c, ax.role, ax.filler), {Sub(c, ax.sub)}, {ax}, round) : c \in subs})

(* Existential elimination reads the subsumptions of fillers that the same  *)
(* pass may just have extended, so concepts go in order.                    *)
Eliminate(st, ax, cs, round) ==
    LET One(acc, c) ==
            LET hits == SelectSeq(cs, LAMBDA d : <<c, ax.role, d>> \in acc.some /\ <<d, ax.filler>> \in acc.named)
            IN  IF hits = <<>> \/ <<c, ax.sup>> \in acc.named THEN acc
                ELSE Emit(acc, {Step("existential-left", Sub(c, ax.sup),
                                     {Some(c, ax.role, hits[1]), Sub(hits[1], ax.filler)}, {ax}, round)})
    IN  FoldLeft(One, st, cs)

Round(axioms, cs, st, round) ==
    LET s1 == Transitive(st, cs, round)
        s2 == FoldLeft(LAMBDA acc, ax : Conjoin(acc, ax, cs, round), s1, Form(axioms, "and"))
        s3 == FoldLeft(LAMBDA acc, ax : Introduce(acc, ax, cs, round), s2, Form(axioms, "someRight"))
    IN  FoldLeft(LAMBDA acc, ax : Eliminate(acc, ax, cs, round), s3, Form(axioms, "someLeft"))

Exceeded(st) == Cardinality(st.named) + Cardinality(st.proof) > MaxSubsumptions /\ st.proof # {}
Refused == [named |-> {}, some |-> {}, proof |-> {}]

(* Rounds until one adds nothing, or a budget refuses the classification.   *)
RECURSIVE Saturate(_, _, _, _)
Saturate(axioms, cs, st, round) ==
    IF round > MaxRounds THEN Refused
    ELSE LET next == Round(axioms, cs, st, round)
         IN  IF Exceeded(next) THEN Refused
             ELSE IF next = st THEN st ELSE Saturate(axioms, cs, next, round + 1)

Classify(axioms) == Saturate(axioms, SortedConcepts(axioms), Seed(axioms), 1)
Subsumed(cl, sub, sup) == sub = sup \/ <<sub, sup>> \in cl.named

-----------------------------------------------------------------------------
(* The proof checker.                                                       *)

(* _grounds_ready                                                           *)
GroundsReady(d, named, some, axioms) ==
    /\ \A g \in d.grounds : IF g.is = "sub" THEN g.of \in named ELSE g.of \in some
    /\ d.axiom \subseteq Range(axioms)

(* _apply_checked: a step is an instance of the rule it names.              *)
Follows(d) ==
    LET subs == {g.of : g \in {h \in d.grounds : h.is = "sub"}}
        somes == {g.of : g \in {h \in d.grounds : h.is = "some"}}
        Ax(form) == \E ax \in d.axiom : d.axiom = {ax} /\ ax.form = form
        ax == CHOOSE a \in d.axiom : TRUE
        c == d.concl.of
    IN  CASE d.rule = "transitivity" ->
                /\ Cardinality(d.grounds) = 2 /\ somes = {} /\ d.axiom = {} /\ d.concl.is = "sub"
                /\ \E m \in UNION {{p[1], p[2]} : p \in subs} : <<c[1], m>> \in subs /\ <<m, c[2]>> \in subs
          [] d.rule = "conjunction" ->
                /\ Ax("and") /\ d.concl = Sub(c[1], ax.sup) /\ subs = {<<c[1], m>> : m \in ax.members}
          [] d.rule = "some-intro" ->
                /\ Ax("someRight") /\ Cardinality(subs) = 1
                /\ \A p \in subs : d.concl = Some(p[1], ax.role, ax.filler) /\ p[2] = ax.sub
          [] d.rule = "existential-left" ->
                /\ Ax("someLeft") /\ Cardinality(subs) = 1 /\ Cardinality(somes) = 1
                /\ \A p \in subs, s \in somes :
                      s[1] = c[1] /\ s[2] = ax.role /\ p = <<s[3], ax.filler>> /\ d.concl = Sub(c[1], ax.sup)

RECURSIVE Replay(_, _, _)
Replay(st, pending, axioms) ==
    LET ready == {d \in pending : GroundsReady(d, st.named, st.some, axioms)}
    IN  IF pending = {} THEN st
        ELSE IF ready = {} \/ \E d \in ready : ~Follows(d) THEN Refused
        ELSE Replay(Emit(st, ready), pending \ ready, axioms)

(* check_proof: the derivations close in dependency order over what the     *)
(* axioms give, and replay to the claimed classification.                   *)
CheckProof(axioms, cl) == Replay(Seed(axioms), cl.proof, axioms).named = cl.named

-----------------------------------------------------------------------------
(* Interpretations.                                                         *)

(* _holds                                                                   *)
Satisfies(ax, ext, rel, dom) ==
    CASE ax.form = "sub" -> ext[ax.sub] \subseteq ext[ax.sup]
      [] ax.form = "and" -> {x \in dom : \A m \in ax.members : x \in ext[m]} \subseteq ext[ax.sup]
      [] ax.form = "someRight" -> \A x \in ext[ax.sub] : \E y \in ext[ax.filler] : <<x, ax.role, y>> \in rel
      [] ax.form = "someLeft" ->
            \A x \in dom : (\E y \in ext[ax.filler] : <<x, ax.role, y>> \in rel) => x \in ext[ax.sup]

(* The models of the axioms over a domain, as holds_in_all_models           *)
(* enumerates them.                                                         *)
Roles(axioms) ==
    {axioms[i].role : i \in {j \in DOMAIN axioms : axioms[j].form \in {"someRight", "someLeft"}}}
Entailed(axioms, cs, dom, pairs) ==
    \A ext \in [cs -> SUBSET dom], rel \in SUBSET (dom \X Roles(axioms) \X dom) :
        (\A i \in DOMAIN axioms : Satisfies(axioms[i], ext, rel, dom)) =>
            \A p \in pairs : ext[p[1]] \subseteq ext[p[2]]
=============================================================================
