------------------------------ MODULE Epistemic ------------------------------
(***************************************************************************)
(* Claims about worlds and the modal layer over them: accessibility is     *)
(* stated by claims, and evaluate_modal reads a formula at one world of a  *)
(* point pinned at an instant and a horizon, with a cache and two limits.   *)
(*                                                                         *)
(* A formula is <<op, agent, operands...>>; an atom is <<"atom", agent,    *)
(* subject, predicate, object>>.  No agent is "".                          *)
(***************************************************************************)
EXTENDS EntityHistory

CONSTANTS
    Worlds,
    Formulas,           \* the formulas that are evaluated
    Limits,             \* the <<max_depth, max_states>> they are given
    Links,              \* the accessibility <<agent, from, to, frame>> that clients assert
    Absent              \* no confidence

(* assert_world_accessibility                                               *)
AccessClaim(agent, from, to, predicate) ==
    [kind |-> "claim", subject |-> from, predicate |-> predicate, object |-> to, objectKind |-> "entity",
     polarity |-> "positive", agent |-> agent, source |-> NoSource, world |-> from, confidence |-> Absent]
AssertWorldAccessibility(agent, from, to, predicate, valid) ==
    AssertClaim(AccessClaim(agent, from, to, predicate), valid)

(* The frame an operator reads, and whether it asks for all its worlds.     *)
Frame(op) == CASE op = "believes" -> "belief" [] op = "knows" -> "knowledge" [] OTHER -> "modal"
IsModal(f) == f[1] \in {"believes", "knows", "possible", "necessary"}
Universal(op) == op \in {"and", "believes", "knows", "necessary"}
Operands(f) == IF f[1] = "atom" THEN <<>> ELSE SubSeq(f, 3, Len(f))

EpistemicNext(payloads) ==
    \/ HistoryNext(payloads)
    \/ \E link \in Links, valid \in ValidIntervals :
            AssertWorldAccessibility(link[1], link[2], link[3], link[4], valid)

-----------------------------------------------------------------------------
(* _Value: truth and falsity are separate, each with its confidence.        *)

Value(t, f, tc, fc) == [true |-> t, false |-> f, trueConf |-> tc, falseConf |-> fc]
ValueStatus(v) == StatusOf((IF v.true THEN {"positive"} ELSE {}) \cup (IF v.false THEN {"negative"} ELSE {}))
AllConfidences(S) == IF S = {} \/ Absent \in S THEN Absent ELSE Min(S)
AnyConfidences(S) == IF S \ {Absent} = {} THEN Absent ELSE Max(S \ {Absent})

(* Of several values: all must hold and one may fail, or the other way.     *)
Conjoined(vs) ==
    LET t == \A v \in vs : v.true
        f == \E v \in vs : v.false
    IN  Value(t, f, IF t THEN AllConfidences({v.trueConf : v \in vs}) ELSE Absent,
                    IF f THEN AnyConfidences({v.falseConf : v \in {w \in vs : w.false}}) ELSE Absent)
Swapped(v) == Value(v.false, v.true, v.falseConf, v.trueConf)
Disjoined(vs) ==
    LET t == \E v \in vs : v.true
        f == \A v \in vs : v.false
    IN  Value(t, f, IF t THEN AnyConfidences({v.trueConf : v \in {w \in vs : w.true}}) ELSE Absent,
                    IF f THEN AllConfidences({v.falseConf : v \in vs}) ELSE Absent)
Unknown == Value(FALSE, FALSE, Absent, Absent)

(* What the atom's claims say, and where the operator's frame leads.        *)
AtomFilter(f, world) ==
    LET given == {"subject", "predicate", "object", "objectKind", "world"} \cup (IF f[2] = "" THEN {} ELSE {"agent"})
        full == [subject |-> f[3], predicate |-> f[4], object |-> f[5], objectKind |-> "entity", world |-> world, agent |-> f[2]]
    IN  [x \in given |-> full[x]]
AtomValue(point, f, world) ==
    LET claims == ClaimsAsOf(point.hist, AtomFilter(f, world), point.time, point.horizon)
        Of(polarity) == {c.confidence : c \in {d \in claims : d.polarity = polarity}}
    IN  Value(Of("positive") # {}, Of("negative") # {}, AnyConfidences(Of("positive")), AnyConfidences(Of("negative")))
Targets(point, f, world) ==
    {c.object : c \in ClaimsAsOf(point.hist,
        [subject |-> world, predicate |-> Frame(f[1]), objectKind |-> "entity", agent |-> f[2],
         world |-> world, polarity |-> "positive"], point.time, point.horizon)}

(* evaluate: run carries the cache, a set of [key, value], whose size is    *)
(* state_count, and whether a limit has been exceeded.                      *)
BadCacheKey(f, world, depth) == <<f, "any", depth>>
CacheKey(f, world, depth) == <<f, world, depth>>
RECURSIVE Evaluate(_, _, _, _, _, _)
Evaluate(point, limits, f, world, depth, run) ==
    LET key == CacheKey(f, world, depth)
        started == [run EXCEPT !.states = @ + 1, !.limited = run.states + 1 > limits[2]]
        Visit(acc, job) == Evaluate(point, limits, job[1], job[2], job[3], acc)
        Over(jobs) == FoldLeft(LAMBDA acc, job :
                            LET r == Visit(acc.run, job) IN [run |-> r, values |-> acc.values \cup {r.value}],
                        [run |-> started, values |-> {}], jobs)
        Stored(r, v) == IF r.limited THEN r
                        ELSE [r EXCEPT !.value = v, !.cache = @ \cup {[key |-> key, value |-> v]}]
        Combined(values) == IF values = {} THEN Unknown
                            ELSE IF Universal(f[1]) THEN Conjoined(values) ELSE Disjoined(values)
        Jobs == IF IsModal(f)
                THEN [i \in DOMAIN SetToSeq(Targets(point, f, world)) |-> <<f[3], SetToSeq(Targets(point, f, world))[i], depth + 1>>]
                ELSE [i \in DOMAIN Operands(f) |-> <<Operands(f)[i], world, depth>>]
    IN  IF run.limited THEN run
        ELSE IF \E e \in run.cache : e.key = key
        THEN [run EXCEPT !.value = (CHOOSE e \in run.cache : e.key = key).value]
        ELSE IF started.limited THEN started
        ELSE IF f[1] = "atom" THEN Stored(started, AtomValue(point, f, world))
        ELSE IF IsModal(f) /\ depth >= limits[1] THEN [started EXCEPT !.limited = TRUE]
        ELSE LET done == Over(Jobs)
             IN  Stored(done.run, IF f[1] = "not" THEN Swapped(done.run.value) ELSE Combined(done.values))

EvaluateModal(point, limits, f, world) ==
    Evaluate(point, limits, f, world, 0, [cache |-> {}, states |-> 0, limited |-> FALSE, value |-> Unknown])

-----------------------------------------------------------------------------
(* Properties.                                                              *)

(* Reference: the pairs of a formula and a world that matter, each at the   *)
(* depth it is met at, and four-valued truth by quantifying over worlds.    *)
Below(point, s) ==
    IF s[1][1] = "atom" THEN {}
    ELSE IF IsModal(s[1]) THEN {<<s[1][3], w, s[3] + 1>> : w \in Targets(point, s[1], s[2])}
    ELSE {<<g, s[2], s[3]>> : g \in Range(Operands(s[1]))}
RECURSIVE Spread(_, _)
Spread(point, S) == LET more == S \cup UNION {Below(point, s) : s \in S} IN IF more = S THEN S ELSE Spread(point, more)

RECURSIVE Holds(_, _, _, _)
Holds(point, f, world, positive) ==
    LET sub == IF IsModal(f) THEN {<<f[3], w>> : w \in Targets(point, f, world)}
               ELSE {<<g, world>> : g \in Range(Operands(f))}
    IN  CASE f[1] = "atom" -> \E c \in Painted(point.hist, point.time, point.horizon) :
                    /\ c.kind = "claim" /\ Statement(c) = <<f[3], f[4], "entity", f[5]>> /\ c.world = world
                    /\ f[2] \in {"", c.agent} /\ c.polarity = (IF positive THEN "positive" ELSE "negative")
          [] f[1] = "not" -> \E s \in sub : Holds(point, s[1], s[2], ~positive)
          [] Universal(f[1]) = positive /\ f[1] \notin {"atom", "not"} ->
                    sub # {} /\ \A s \in sub : Holds(point, s[1], s[2], positive)
          [] OTHER -> \E s \in sub : Holds(point, s[1], s[2], positive)

(* At every instant and in every world, a formula is refused exactly when   *)
(* the states it visits are more than max_states or nest modal operators    *)
(* deeper than max_depth, and otherwise has the four-valued truth of the    *)
(* frames: an agent without accessible worlds knows and excludes nothing,   *)
(* and NECESSARY is the dual of POSSIBLE, confidence included, although     *)
(* results are cached across the formula (evaluate_modal).                  *)
ModalExact ==
    \A t \in Changes(hist), world \in Worlds, f \in Formulas, limits \in Limits :
        LET point == [hist |-> hist, time |-> t, horizon |-> Len(hist)]
            result == EvaluateModal(point, limits, f, world)
            states == Spread(point, {<<f, world, 0>>})
            Negated(g) == <<"not", "", g>>
            dual == EvaluateModal(point, <<limits[1], limits[2] + 2>>, Negated(<<"possible", f[2], Negated(f[3])>>), world)
        IN  /\ result.limited <=> \/ Cardinality(states) > limits[2]
                                  \/ \E s \in states : IsModal(s[1]) /\ s[3] >= limits[1]
            /\ ~result.limited =>
                   /\ result.value.true = Holds(point, f, world, TRUE)
                   /\ result.value.false = Holds(point, f, world, FALSE)
                   /\ f[1] = "atom" => ValueStatus(result.value) = ClaimStatus(hist, AtomFilter(f, world), t, Len(hist))
                   /\ (f[1] = "necessary" /\ ~dual.limited) => dual.value = result.value
=============================================================================
