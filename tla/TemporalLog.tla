------------------------------ MODULE TemporalLog ------------------------------
(***************************************************************************)
(* What the temporal history of a database promises to a reader, whatever  *)
(* store, index mode or recovery procedure produced it: an append-only log *)
(* of commits in which ids and system times grow together.  Ids may have   *)
(* gaps: a reservation that was never published is never reused.           *)
(***************************************************************************)
EXTENDS Naturals

VARIABLE log    \* the visible commits, records with at least .id and .time

Precedes(c, d) == c.id < d.id /\ c.time < d.time

Init == log = {}

(* One publication: a single commit, or all commits of an outer backend     *)
(* transaction at once.                                                     *)
Publish ==
    /\ log \subseteq log'
    /\ \A c \in log, d \in log' \ log : Precedes(c, d)
    /\ \A c, d \in log' \ log : c = d \/ Precedes(c, d) \/ Precedes(d, c)

Spec == Init /\ [][Publish]_log
=============================================================================
