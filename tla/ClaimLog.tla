------------------------------- MODULE ClaimLog -------------------------------
(***************************************************************************)
(* The claim history that reasoning reads and publishes into, as the       *)
(* temporal layer promises it: an append-only sequence of commits, each a  *)
(* set of claim versions, seen through horizons.  TemporalCommit models    *)
(* how the temporal layer keeps that promise.                              *)
(*                                                                         *)
(* One valid-time point is of interest; a version covers it or not.  A     *)
(* claim's identity fixes what it states, its agent and its world, so the  *)
(* fact of a claim is a constant.  So is what the engine computes: Datalog  *)
(* has the engine.                                                         *)
(***************************************************************************)
EXTENDS Naturals, Sequences, FiniteSets, SequencesExt, FiniteSetsExt

CONSTANTS
    ClosureOf(_),   \* what the engine derives from a set of facts, themselves included
    Claims,         \* the source claims
    FactOf,         \* what each claim states
    MaxCommits      \* bound: commits in the history

VARIABLE log        \* the visible commits, in order

Now == Len(log)

(* A version of a source claim, and one that publication writes into the    *)
(* world of its kind: it carries the evidence its generation was computed   *)
(* from, that source's horizon and the freshness it was published under.    *)
SourceVersion(c, op, covers) ==
    [world |-> "source", claim |-> c, op |-> op, covers |-> covers, gen |-> {}, from |-> 0, fresh |-> ""]
TargetVersion(k, f, op, gen, from, fresh) ==
    [world |-> k, claim |-> f, op |-> op, covers |-> TRUE, gen |-> gen, from |-> from, fresh |-> fresh]

(* The commits up to h with a version of the claim that covers the point.   *)
Covering(h, w, c) == {i \in 1..h : \E v \in log[i] : v.world = w /\ v.claim = c /\ v.covers}
VersionAt(i, w, c) == CHOOSE v \in log[i] : v.world = w /\ v.claim = c

(* The newest covering version wins; a claim whose winner is a retraction   *)
(* is not there.                                                            *)
Present(h, w, c) ==
    Covering(h, w, c) # {} /\ VersionAt(Max(Covering(h, w, c)), w, c).op # "retract"
SourceIds(h) == {Max(Covering(h, "source", c)) : c \in {d \in Claims : Present(h, "source", d)}}
SourceClaim(i) == (CHOOSE v \in log[i] : v.world = "source").claim
SourceFacts(h) == {FactOf[SourceClaim(i)] : i \in SourceIds(h)}

TargetClaims(k, h) == UNION {{v.claim : v \in {w \in log[i] : w.world = k}} : i \in 1..h}
Target(k, h) ==
    {VersionAt(Max(Covering(h, k, f)), k, f) : f \in {g \in TargetClaims(k, h) : Present(h, k, g)}}

InitLog == log = <<>>

(* An agent asserts, corrects or retracts a claim.  A correction names the  *)
(* version it supersedes.                                                   *)
Record(c, op, covers) ==
    /\ Now < MaxCommits
    /\ op # "assert" => \E i \in 1..Now : \E v \in log[i] : v.world = "source" /\ v.claim = c
    /\ log' = Append(log, {SourceVersion(c, op, covers)})

(* What is told: claims with an operation and whether it covers the point.  *)
Recorded(told) == \E r \in told : Record(r[1], r[2], r[3])
=============================================================================
