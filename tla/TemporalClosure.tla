---------------------------- MODULE TemporalClosure ----------------------------
(***************************************************************************)
(* Range evaluation: facts hold during unions of intervals, the timeline   *)
(* is cut wherever an input starts or ends, each segment is evaluated as a *)
(* point, and a retained closure is brought up to date by evaluating only  *)
(* the segments whose active facts are new.  Aggregates are left out.      *)
(***************************************************************************)
EXTENDS Datalog, Intervals

CONSTANTS
    RowPool,        \* the temporal facts: a fact and the spans it holds in
    RangePrograms,  \* the programs, as sets of rules
    RangeLimits,    \* the proof limits a caller may pass
    MaxRows,        \* bound: rows of an input
    MaxSegments     \* max_segments

VARIABLES
    program,        \* the rules the caller uses now
    closure         \* the closure it retains

rangeVars == <<program, closure>>

NoClosure == [segments |-> <<>>, base |-> {}, derivations |-> {}, conclusions |-> {},
              program |-> {}, truncated |-> FALSE]

ActiveAt(rows, t) == {r.fact : r \in {s \in rows : Within(s.valid, t)}}

-----------------------------------------------------------------------------
(* Segments.                                                                *)

Spans(rows) == UNION {Range(r.valid) : r \in rows}
Cuts(rows) ==
    InOrder(({s.from : s \in Spans(rows)} \cup {s.to : s \in Spans(rows)}) \ {Below, Above}, <)
OpenBelow(rows) == \E s \in Spans(rows) : s.from = Below
OpenAbove(rows) == \E s \in Spans(rows) : s.to = Above

(* change_segments                                                          *)
ChangeSegments(rows) ==
    LET cuts == Cuts(rows)
        inner == [i \in 1..(Len(cuts) - 1) |-> Span(cuts[i], cuts[i + 1])]
    IN  IF cuts = <<>> THEN (IF Spans(rows) = {} THEN <<>> ELSE <<Span(Below, Above)>>)
        ELSE (IF OpenBelow(rows) THEN <<Span(Below, cuts[1])>> ELSE <<>>)
             \o inner
             \o (IF OpenAbove(rows) THEN <<Span(Last(cuts), Above)>> ELSE <<>>)

StartsAt(rows, cut) == {r \in rows : \E i \in DOMAIN r.valid : r.valid[i].from = cut}
EndsAt(rows, cut) == {r \in rows : \E i \in DOMAIN r.valid : r.valid[i].to = cut}
Segment(iv, active) == [span |-> iv, facts |-> {r.fact : r \in active}]

(* At a cut the rows that end leave before the rows that start join.        *)
Crossed(rows, active, cut) == (active \ EndsAt(rows, cut)) \cup StartsAt(rows, cut)

(* active_segments: one sweep over the cuts; a row stays active until its   *)
(* own end, whatever other rows say of the same fact.                       *)
ActiveSegments(rows) ==
    LET cuts == Cuts(rows)
        first == StartsAt(rows, Below)
        Step(st, i) ==
            LET active == Crossed(rows, st.active, cuts[i])
                next == IF i < Len(cuts) THEN <<Segment(Span(cuts[i], cuts[i + 1]), active)>>
                        ELSE IF OpenAbove(rows) THEN <<Segment(Span(cuts[i], Above), active)>>
                        ELSE <<>>
            IN  [active |-> active, out |-> st.out \o next]
        opening == IF OpenBelow(rows) THEN <<Segment(Span(Below, cuts[1]), first)>> ELSE <<>>
    IN  IF cuts = <<>> THEN (IF first = {} THEN <<>> ELSE <<Segment(Span(Below, Above), first)>>)
        ELSE FoldLeft(Step, [active |-> first, out |-> opening], [i \in DOMAIN cuts |-> i]).out

-----------------------------------------------------------------------------
(* Evaluation.                                                              *)

Conclusion(fact, span) == [fact |-> fact, span |-> span]
Evidence(fact, span, rule, premises, absent) ==
    [fact |-> fact, span |-> span, rule |-> rule, premises |-> premises, absent |-> absent]
NeedsTrace(rs) == \E rule \in rs : rule.negated # <<>>

(* _segment_derivations: every support of a positive program's conclusions, *)
(* or the witnesses of a proof trace, which its limits may cut short.       *)
TracedSegment(rs, seg, result) ==
    LET fresh == result.facts \ seg.facts
        shown == {w \in result.trace.nodes : w.rule # "input" /\ w.fact \in fresh}
    IN  [conclusions |-> {Conclusion(f, seg.span) : f \in fresh},
         derivations |-> {Evidence(w.fact, seg.span, w.rule, w.premises, w.absent) : w \in shown},
         truncated |-> result.trace.truncated \/ {w.fact : w \in shown} # fresh]
SupportedSegment(rs, seg, full) ==
    [conclusions |-> {Conclusion(f, seg.span) : f \in full \ seg.facts},
     derivations |-> {Evidence(s.fact, seg.span, s.rule, s.premises, {}) :
                         s \in UNION {FindAllSupports(rs, full, f) : f \in full \ seg.facts}},
     truncated |-> FALSE]
SegmentDerivations(rs, seg, lim) ==
    IF NeedsTrace(rs) THEN TracedSegment(rs, seg, EvaluateTraced(rs, seg.facts, lim))
    ELSE SupportedSegment(rs, seg, Evaluate(rs, seg.facts))

Closure(rs, rows, scheduled, parts) ==
    [segments |-> [i \in DOMAIN scheduled |-> scheduled[i].span], base |-> rows, program |-> rs,
     conclusions |-> UNION {p.conclusions : p \in parts},
     derivations |-> UNION {p.derivations : p \in parts},
     truncated |-> \E p \in parts : p.truncated]

EvaluateRange(rs, rows, lim) ==
    LET scheduled == ActiveSegments(rows)
    IN  Closure(rs, rows, scheduled, {SegmentDerivations(rs, scheduled[i], lim) : i \in DOMAIN scheduled})

(* _sample: an instant of a segment.                                        *)
Sample(iv) == IF iv.from # Below THEN iv.from ELSE IF iv.to # Above THEN iv.to - 1 ELSE 0

(* What the old closure says on segments with these active facts, moved to  *)
(* a new segment.                                                           *)
Reused(old, seg) ==
    LET Same(x) == ActiveAt(old.base, Sample(x.span)) = seg.facts
    IN  [conclusions |-> {[c EXCEPT !.span = seg.span] : c \in {x \in old.conclusions : Same(x)}},
         derivations |-> {[d EXCEPT !.span = seg.span] : d \in {x \in old.derivations : Same(x)}},
         truncated |-> FALSE]
Remembered(old, seg) == \E c \in old.conclusions : ActiveAt(old.base, Sample(c.span)) = seg.facts

BadRematerializes(rs, old, incremental) == ~incremental \/ old.program # rs

(* A closure of another program, or one with partial evidence, is not       *)
(* reused.                                                                  *)
Rematerializes(rs, old, incremental) == ~incremental \/ old.program # rs \/ old.truncated

UpdateRange(rs, old, rows, incremental, lim) ==
    LET scheduled == ActiveSegments(rows)
        Part(seg) == IF Remembered(old, seg) THEN Reused(old, seg) ELSE SegmentDerivations(rs, seg, lim)
    IN  IF Rematerializes(rs, old, incremental) THEN EvaluateRange(rs, rows, lim)
        ELSE Closure(rs, rows, scheduled, {Part(scheduled[i]) : i \in DOMAIN scheduled})

(* TemporalClosure.at and answers.                                          *)
At(c, t) == ActiveAt(c.base, t) \cup {x.fact : x \in {y \in c.conclusions : Includes(y.span, t)}}
Answers(c, fact) ==
    Normalize(UNION {Range(r.valid) : r \in {s \in c.base : s.fact = fact}}
              \cup {x.span : x \in {y \in c.conclusions : y.fact = fact}})
MissingEvidence(c) == {x \in c.conclusions : ~\E d \in c.derivations : d.fact = x.fact /\ d.span = x.span}

(* verify_closure: the conformance gate.                                    *)
VerifyClosure(rs, c) ==
    /\ c.program = rs
    /\ c.segments = ChangeSegments(c.base)
    /\ \A i \in DOMAIN c.segments :
          LET t == Sample(c.segments[i])
          IN  At(c, t) = EvaluateStratified(rs, ActiveAt(c.base, t))
    /\ \A d \in c.derivations :
          LET covered == At(c, Sample(d.span))
          IN  /\ d.span \in Range(c.segments)
              /\ d.rule \in {r.id : r \in rs}
              /\ {d.fact} \cup d.premises \subseteq covered
              /\ d.absent \cap covered = {}
    /\ \A r \in c.base : Difference(r.valid, Answers(c, r.fact)) = <<>>
    /\ c.truncated \/ MissingEvidence(c) = {}

-----------------------------------------------------------------------------
(* A caller that keeps a closure over a changing input.                     *)

RangeInit == program \in RangePrograms /\ closure = NoClosure

Admitted(rows) == Cardinality(rows) <= MaxRows /\ Len(ChangeSegments(rows)) <= MaxSegments

Materialize(rows, lim) ==
    /\ closure = NoClosure /\ Admitted(rows)
    /\ closure' = EvaluateRange(program, rows, lim)
    /\ UNCHANGED program

(* Validity changes: one row goes, one comes, or both.                      *)
Update(gone, come, incremental, lim) ==
    /\ closure # NoClosure /\ gone \subseteq closure.base
    /\ Admitted((closure.base \ gone) \cup come)
    /\ closure' = UpdateRange(program, closure, (closure.base \ gone) \cup come, incremental, lim)
    /\ UNCHANGED program

Reprogram(rs) ==
    /\ program' = rs
    /\ UNCHANGED closure

Few == {s \in SUBSET RowPool : Cardinality(s) <= 1}

RangeNext ==
    \/ \E row \in RowPool, lim \in RangeLimits : Materialize({row}, lim)
    \/ \E gone, come \in Few, incremental \in BOOLEAN, lim \in RangeLimits :
          Update(gone, come, incremental, lim)
    \/ \E rs \in RangePrograms \ {program} : Reprogram(rs)

(* Union, intersection and difference of validity sets are those of the     *)
(* instants they cover, their results are sorted with a gap between spans,  *)
(* and carving one span out of another leaves disjoint pieces.              *)
IntervalsExact ==
    \A a, b \in {r.valid : r \in closure.base} :
        LET gapped(set) == \A i \in 1..(Len(set) - 1) : set[i].to < set[i + 1].from
        IN  /\ \A t \in Points :
                  /\ Within(UnionSet(a, b), t) <=> Within(a, t) \/ Within(b, t)
                  /\ Within(Intersection(a, b), t) <=> Within(a, t) /\ Within(b, t)
                  /\ Within(Difference(a, b), t) <=> Within(a, t) /\ ~Within(b, t)
                  /\ \A s \in Range(a), u \in Range(b) :
                        Cardinality({p \in Carved(s, u) : Includes(p, t)}) =
                            (IF Includes(s, t) /\ ~Includes(u, t) THEN 1 ELSE 0)
            /\ gapped(UnionSet(a, b)) /\ gapped(Intersection(a, b)) /\ gapped(Difference(a, b))
            /\ LET Of(s, set) == {[support |-> s, span |-> iv] : iv \in Range(set)}
               IN  Coalesce(Of(1, a) \cup Of(1, b) \cup Of(2, b)) = Of(1, UnionSet(a, b)) \cup Of(2, b)

(* However a closure came about (evaluated, updated segment by segment,     *)
(* rematerialised after a program change or partial evidence), it says at   *)
(* every instant what the engine says of the facts valid at that instant,   *)
(* its answers are the normalised spans of exactly those instants, the      *)
(* sweep cut the timeline where the conformance gate does, and the gate     *)
(* accepts it.  The operations on validity sets it is built from are those  *)
(* of the instants they cover (IntervalsExact).                             *)
RangeExact ==
    closure # NoClosure =>
        /\ IntervalsExact
        /\ \A t \in Points : At(closure, t) = EvaluateStratified(closure.program, ActiveAt(closure.base, t))
        /\ \A f \in UNION {At(closure, t) : t \in Points} :
              LET set == Answers(closure, f)
              IN  /\ \A t \in Points : Within(set, t) <=> f \in At(closure, t)
                  /\ \A i \in 1..(Len(set) - 1) : set[i].to < set[i + 1].from
        /\ VerifyClosure(closure.program, closure)
=============================================================================
