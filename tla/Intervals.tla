------------------------------- MODULE Intervals -------------------------------
(***************************************************************************)
(* Interval algebra: half-open spans and normalised unions of them.  A     *)
(* missing bound is Below or Above, which sort outside every instant, so   *)
(* the case distinctions on None become comparisons.                       *)
(***************************************************************************)
EXTENDS Integers, Sequences, FiniteSets, SequencesExt, FiniteSetsExt

CONSTANT Points         \* the instants that are looked at

Below == Min(Points) - 9
Above == Max(Points) + 9

(* Interval: start < end, so no span is empty.                              *)
Span(from, to) == [from |-> from, to |-> to]
Proper(iv) == iv.from < iv.to
Includes(iv, t) == iv.from <= t /\ t < iv.to
Overlaps(a, b) == a.from < b.to /\ b.from < a.to
Touches(a, b) == a.to = b.from \/ b.to = a.from
Cut(a, b) == Span(Max({a.from, b.from}), Min({a.to, b.to}))

(* Interval.difference: what is left of a before and behind b.              *)
Carved(a, b) ==
    IF ~Proper(Cut(a, b)) THEN {a}
    ELSE {iv \in {Span(a.from, b.from), Span(b.to, a.to)} : Proper(iv)}

InOrder(S, Before(_, _)) ==
    [i \in 1..Cardinality(S) |-> CHOOSE x \in S : Cardinality({y \in S : Before(y, x)}) = i - 1]
Earlier(a, b) == a.from < b.from \/ (a.from = b.from /\ a.to < b.to)

(* The next span in order extends the last one or starts a new one.         *)
Joined(out, iv) ==
    IF out # <<>> /\ (Overlaps(Last(out), iv) \/ Touches(Last(out), iv))
    THEN [out EXCEPT ![Len(out)] = Span(@.from, Max({@.to, iv.to}))]
    ELSE Append(out, iv)

(* _normalize, and the IntervalSet it is the constructor of.                *)
Normalize(spans) == FoldLeft(Joined, <<>>, InOrder(spans, Earlier))

Within(set, t) == \E i \in DOMAIN set : Includes(set[i], t)
UnionSet(a, b) == Normalize(Range(a) \cup Range(b))

(* The two sweeps below walk the right operand once: spans that end before  *)
(* the current left span are skipped for good.                              *)
Skip(right, k, left) == Min({j \in k..(Len(right) + 1) : j > Len(right) \/ right[j].to > left.from})
Meeting(right, k, left) ==
    SubSeq(right, k, Min({j \in k..(Len(right) + 1) : j > Len(right) \/ right[j].from >= left.to}) - 1)

IntersectOne(right, st, left) ==
    LET k == Skip(right, st.skip, left)
        met == Meeting(right, k, left)
    IN  [skip |-> k, parts |-> st.parts \cup {iv \in {Cut(left, met[j]) : j \in DOMAIN met} : Proper(iv)}]
Intersection(a, b) ==
    Normalize(FoldLeft(LAMBDA st, left : IntersectOne(b, st, left), [skip |-> 1, parts |-> {}], a).parts)

SubtractOne(right, st, left) ==
    LET k == Skip(right, st.skip, left)
        Pass(sw, cut) == [at |-> Max({sw.at, cut.to}),
                          parts |-> sw.parts \cup {iv \in {Span(sw.at, cut.from)} : Proper(iv)}]
        sw == FoldLeft(Pass, [at |-> left.from, parts |-> st.parts], Meeting(right, k, left))
    IN  [skip |-> k, parts |-> sw.parts \cup {iv \in {Span(sw.at, left.to)} : Proper(iv)}]
Difference(a, b) ==
    Normalize(FoldLeft(LAMBDA st, left : SubtractOne(b, st, left), [skip |-> 1, parts |-> {}], a).parts)

(* coalesce_segments: spans join only with spans of the same support.       *)
Coalesce(segments) ==
    UNION {{[support |-> s, span |-> iv] : iv \in Range(Normalize({g.span : g \in {h \in segments : h.support = s}}))}
           : s \in {g.support : g \in segments}}
=============================================================================
