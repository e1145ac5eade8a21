----------------------------- MODULE Publication ------------------------------
(***************************************************************************)
(* Publication of derived claims.  A generation is staged from a view      *)
(* without the writer guard and published later under it, after the source *)
(* and the target were compared with what the stage saw; or it is          *)
(* recomputed and published under the guard in one go.  A step that holds  *)
(* the guard is one action: no commit can come between its reads and its   *)
(* own commit.                                                             *)
(***************************************************************************)
EXTENDS ClaimLog

CONSTANT Publishers \* those who stage and publish

VARIABLE stage      \* what each publisher has staged

(* "point": one instant, computed when it is staged.  "bound": a range,     *)
(* computed and authenticated likewise.  "given": a range whose triples the *)
(* caller derived before.  Each kind has a namespace of its own.            *)
Kinds == {"point", "bound", "given"}
NoStage == [kind |-> "none", h |-> 0, desired |-> {}, gen |-> {}, base |-> {}]

InitPublication == stage = [u \in Publishers |-> NoStage]

BadBase(k, h) == {<<0, v.claim, {}>> : v \in Target(k, h)}

(* The fingerprint of the target: its claims with their generations.  That  *)
(* of a bound range has the whole history of the namespace as well.         *)
Base(k, h) ==
    {<<0, v.claim, v.gen>> : v \in Target(k, h)} \cup
    (IF k = "bound" THEN {<<i, "history", {}>> : i \in {j \in 1..h : \E v \in log[j] : v.world = k}}
                    ELSE {})

(* stage_point, stage_range_generation, stage_range: desired facts and base *)
(* of the view at the current horizon.  Given facts stem from any horizon.  *)
Staged(k, c) ==
    [kind |-> k, h |-> Now, desired |-> ClosureOf(SourceFacts(c)), gen |-> SourceIds(c), base |-> Base(k, Now)]

Stage(u, k, c) ==
    /\ stage[u] = NoStage /\ Now < MaxCommits
    /\ k # "given" => c = Now
    /\ stage' = [stage EXCEPT ![u] = Staged(k, c)]
    /\ UNCHANGED log

(* Claims are asserted, corrected when another generation wrote them, left  *)
(* alone when this one did, and retracted when they are not desired.        *)
Writes(s, fresh) ==
    LET current == Target(s.kind, Now)
        kept == {v.claim : v \in {w \in current : w.gen = s.gen}}
        there == {v.claim : v \in current}
        Write(f, op) == TargetVersion(s.kind, f, op, s.gen, s.h, fresh)
    IN  {Write(f, "assert") : f \in s.desired \ there} \cup
        {Write(f, "correct") : f \in (s.desired \cap there) \ kept} \cup
        {Write(f, "retract") : f \in there \ s.desired}

Publish(s, fresh) ==
    log' = IF Writes(s, fresh) = {} THEN log ELSE Append(log, Writes(s, fresh))

(* Only "latest" requires that nothing was committed since staging.         *)
Fresh(s, fresh) == fresh = "latest" => Now = s.h

(* publish_staged, publish_staged_range, publish_range_generation: a stale  *)
(* stage is refused and has to be staged again.                             *)
PublishStaged(u, fresh) ==
    /\ stage[u] # NoStage /\ Now < MaxCommits
    /\ IF Fresh(stage[u], fresh) /\ Base(stage[u].kind, Now) = stage[u].base
       THEN Publish(stage[u], fresh) ELSE UNCHANGED log
    /\ stage' = [stage EXCEPT ![u] = NoStage]

(* reconcile_point.                                                         *)
Reconcile(u) ==
    /\ Now < MaxCommits
    /\ Publish(Staged("point", Now), "latest")
    /\ UNCHANGED stage

PublicationStep(u) ==
    \/ \E k \in Kinds, c \in 0..Now : Stage(u, k, c)
    \/ \E fresh \in {"latest", "historical"} : PublishStaged(u, fresh)
    \/ Reconcile(u)

PublicationNext(told) ==
    \/ Recorded(told) /\ UNCHANGED stage
    \/ \E u \in Publishers : PublicationStep(u)

PublicationSpec(told) == InitLog /\ InitPublication /\ [][PublicationNext(told)]_<<log, stage>>

-----------------------------------------------------------------------------
(* Properties.                                                              *)

Published(k, i) == {v \in log[i] : v.world = k}

(* The claims of the target with the generations that wrote them.           *)
Seen(k, h) == {<<v.claim, v.gen>> : v \in Target(k, h)}

(* A computed generation published as latest is the closure of the source   *)
(* as it stood when its commit became visible, all of it and nothing else,  *)
(* although it was computed before, without the guard.  Every generation,   *)
(* historical ones included, is written over the very claims and            *)
(* generations that the target showed at the horizon it was staged at; and  *)
(* a bound range only while its namespace has not moved at all since then,  *)
(* even if it came back to the same claims (publish_staged,                 *)
(* publish_staged_range, publish_range_generation, reconcile_point).        *)
PublicationExact ==
    \A i \in 1..Now : \A k \in Kinds :
        /\ k # "given" /\ (\E v \in Published(k, i) : v.fresh = "latest")
               => {v.claim : v \in Target(k, i)} = ClosureOf(SourceFacts(i - 1))
        /\ \A v \in Published(k, i) : v.from < i /\ Seen(k, i - 1) = Seen(k, v.from)
        /\ k = "bound" => \A v \in Published(k, i), j \in 1..(i - 1) : Published(k, j) # {} => j <= v.from
=============================================================================
