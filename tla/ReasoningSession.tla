--------------------------- MODULE ReasoningSession ---------------------------
(***************************************************************************)
(* Reasoning sessions.  A session pins a horizon and holds the evidence    *)
(* ledger, the closure and its supports at that horizon; it advances over  *)
(* the commits after it, or is rebuilt from a full scan.  Processes keep   *)
(* sessions in memory and share one session file, replaced under a lock    *)
(* after its state was compared.                                           *)
(***************************************************************************)
EXTENDS ClaimLog

CONSTANTS
    Procs,          \* the processes
    MaxVersions,    \* max_versions: ledger entries, retired ones included
    MaxAdvance,     \* max_advance_commits: a longer gap is rebuilt
    Rebuilt(_),     \* rematerialize: [facts, supports] of a set of facts
    Retracted(_, _),    \* retract_facts
    Extended(_, _)      \* propagate_insertions

VARIABLES
    mem,            \* the session each process holds
    expected,       \* the file state a process loaded, which its save expects
    step,           \* what each process is doing
    pinned,         \* the horizon a process pinned before it scans
    file,           \* the session file
    lock            \* the process that holds the session file's lock

sessionVars == <<mem, expected, step, pinned, file, lock>>

NoSession == [h |-> 0, scan |-> 0, ids |-> {}, retired |-> {}, facts |-> {}, supports |-> {}]
NoProc == "none"

ASSUME NoProcAssumption == NoProc \notin Procs

InitSessions ==
    /\ mem = [p \in Procs |-> NoSession] /\ expected = [p \in Procs |-> NoSession]
    /\ step = [p \in Procs |-> "idle"] /\ pinned = [p \in Procs |-> 0]
    /\ file = NoSession /\ lock = NoProc

Live(s) == s.ids \ s.retired
LedgerFacts(s) == {FactOf[SourceClaim(i)] : i \in Live(s)}

(* _materialize_session from the versions a scan saw.                       *)
Materialized(h, ids) ==
    LET m == Rebuilt({FactOf[SourceClaim(i)] : i \in ids})
    IN  [h |-> h, scan |-> Now, ids |-> ids, retired |-> {}, facts |-> m.facts, supports |-> m.supports]

(* _full_scan reads in a view of its own.  A version newer than the pinned  *)
(* horizon fails the scan.                                                  *)
ScanAdmits(h) == SourceIds(Now) \subseteq 1..h /\ Cardinality(SourceIds(Now)) <= MaxVersions

-----------------------------------------------------------------------------
(* Advancing over the commits since the session's horizon.                  *)

BadRetires(v) == v.op \in {"retract", "correct"}

(* A retraction retires every live version of its claim, and so does a      *)
(* correction, when they cover the point.                                   *)
Retires(v) == v.op \in {"retract", "correct"} /\ v.covers
Asserts(v) == v.op \in {"assert", "correct"} /\ v.covers

Consumed(delta, i) ==
    LET found == {v \in log[i] : v.world = "source"}
        v == CHOOSE w \in found : TRUE
        matches == {j \in delta.live : SourceClaim(j) = v.claim}
        kept == IF Retires(v) THEN delta.live \ matches ELSE delta.live
    IN  IF found = {} THEN delta
        ELSE [live |-> IF Asserts(v) THEN kept \cup {i} ELSE kept,
              asserted |-> IF Asserts(v) THEN delta.asserted \cup {i} ELSE delta.asserted,
              retired |-> IF Retires(v) THEN delta.retired \cup matches ELSE delta.retired]

Delta(s, current) ==
    LET after[i \in s.h..current] ==
            IF i = s.h THEN [live |-> Live(s), asserted |-> {}, retired |-> {}]
            ELSE Consumed(after[i - 1], i)
    IN  after[current]

(* EvidenceLedger.transition refuses a ledger past its limit.               *)
Fits(s, d) == Cardinality(s.ids \cup d.asserted) <= MaxVersions

(* Facts that lost their last assertion are retracted, then facts that      *)
(* gained their first are propagated.                                       *)
Moved(s, current) ==
    LET d == Delta(s, current)
        ledger == [s EXCEPT !.ids = @ \cup d.asserted, !.retired = @ \cup d.retired]
        gone == LedgerFacts(s) \ LedgerFacts(ledger)
        new == LedgerFacts(ledger) \ LedgerFacts(s)
        m0 == [facts |-> s.facts, supports |-> s.supports]
        m1 == IF gone = {} THEN m0 ELSE Retracted(m0, gone)
        m2 == IF new = {} THEN m1 ELSE Extended(m1, new)
    IN  [ledger EXCEPT !.h = current, !.scan = current, !.facts = m2.facts, !.supports = m2.supports]

MustRebuild(s, current) == current - s.h > MaxAdvance \/ ~Fits(s, Delta(s, current))

Advanced(s) == IF Now = s.h THEN s ELSE Moved(s, Now)

-----------------------------------------------------------------------------
(* Steps of a process.                                                      *)

Ready(p) == step[p] = "idle"
Set(f, p, x) == [f EXCEPT ![p] = x]

(* start_session pins the horizon in one view and scans in another.         *)
StartPin(p) ==
    /\ Ready(p) /\ mem[p] = NoSession /\ Now > 0
    /\ step' = Set(step, p, "start") /\ pinned' = Set(pinned, p, Now)
    /\ UNCHANGED <<log, mem, expected, file, lock>>

Scan(p) ==
    /\ step[p] \in {"start", "rebuild"}
    /\ mem' = IF ScanAdmits(pinned[p]) THEN Set(mem, p, Materialized(pinned[p], SourceIds(Now))) ELSE mem
    /\ step' = Set(step, p, IF step[p] = "rebuild" /\ ScanAdmits(pinned[p]) /\ expected[p] # NoSession
                            THEN "moved" ELSE "idle")
    /\ pinned' = Set(pinned, p, 0)
    /\ UNCHANGED <<log, expected, file, lock>>

(* advance_session: the delta is applied, or the horizon is pinned for a    *)
(* rebuild.                                                                 *)
Advance(p) ==
    /\ Ready(p) /\ mem[p] # NoSession /\ mem[p].h < Now
    /\ IF MustRebuild(mem[p], Now)
       THEN /\ step' = Set(step, p, "rebuild") /\ pinned' = Set(pinned, p, Now)
            /\ UNCHANGED mem
       ELSE /\ mem' = Set(mem, p, Advanced(mem[p]))
            /\ step' = Set(step, p, IF expected[p] # NoSession THEN "moved" ELSE "idle")
            /\ UNCHANGED pinned
    /\ UNCHANGED <<log, expected, file, lock>>

(* session_from_dict refuses a closure that misses a ledger fact.           *)
Loadable(s) == s # NoSession /\ LedgerFacts(s) \subseteq s.facts

(* advance_persisted_session loads, advances and saves what it loaded.      *)
Load(p) ==
    /\ Ready(p) /\ mem[p] = NoSession /\ Loadable(file)
    /\ mem' = Set(mem, p, file) /\ expected' = Set(expected, p, file)
    /\ UNCHANGED <<log, step, pinned, file, lock>>

BadUnlocked(p) == TRUE

(* _session_file_guard.                                                     *)
Unlocked(p) == lock = NoProc

(* save_session takes the lock and compares.  A session that was started    *)
(* here is saved with no expectation.                                       *)
SaveCompare(p) ==
    /\ \/ step[p] = "moved"
       \/ Ready(p) /\ mem[p] # NoSession /\ expected[p] = NoSession
    /\ Unlocked(p)
    /\ IF expected[p] \in {NoSession, file}
       THEN lock' = p /\ step' = Set(step, p, "replace") /\ UNCHANGED <<mem, expected>>
       ELSE /\ step' = Set(step, p, "idle") /\ mem' = Set(mem, p, NoSession)
            /\ expected' = Set(expected, p, NoSession) /\ UNCHANGED lock
    /\ UNCHANGED <<log, pinned, file>>

SaveReplace(p) ==
    /\ step[p] = "replace"
    /\ file' = mem[p] /\ lock' = NoProc
    /\ step' = Set(step, p, "idle")
    /\ expected' = Set(expected, p, mem[p])
    /\ UNCHANGED <<log, mem, pinned>>

(* A process dies: its memory and its lock go, the temporary file is left.  *)
Crash(p) ==
    /\ mem[p] # NoSession \/ ~Ready(p)
    /\ mem' = Set(mem, p, NoSession) /\ expected' = Set(expected, p, NoSession)
    /\ step' = Set(step, p, "idle") /\ pinned' = Set(pinned, p, 0)
    /\ lock' = IF lock = p THEN NoProc ELSE lock
    /\ UNCHANGED <<log, file>>

(* bind_session_generation: the live versions are exactly the winners the   *)
(* source shows at the session's horizon.                                   *)
Authentic(s) == Live(s) = SourceIds(s.h)

(* advance_authenticated_session holds the writer guard and the file lock   *)
(* throughout: the old state is authenticated, advanced to the latest       *)
(* horizon, authenticated again and replaced.                               *)
AuthenticatedAdvance(p) ==
    LET rebuilt == MustRebuild(file, Now)
        next == IF rebuilt THEN Materialized(Now, SourceIds(Now)) ELSE Advanced(file)
    IN  /\ Ready(p) /\ Unlocked(p) /\ Loadable(file) /\ file.h < Now
        /\ Authentic(file)
        /\ rebuilt => ScanAdmits(Now)
        /\ Authentic(next) /\ Loadable(next)
        /\ file' = next
        /\ UNCHANGED <<log, mem, expected, step, pinned, lock>>

SessionStep(p) ==
    \/ StartPin(p) \/ Scan(p) \/ Advance(p) \/ Load(p)
    \/ SaveCompare(p) \/ SaveReplace(p) \/ Crash(p) \/ AuthenticatedAdvance(p)

SessionNext(told) ==
    \/ Recorded(told) /\ UNCHANGED sessionVars
    \/ \E p \in Procs : SessionStep(p)

SessionSpec(told) == InitLog /\ InitSessions /\ [][SessionNext(told)]_<<log, sessionVars>>

-----------------------------------------------------------------------------
(* Properties.                                                              *)

(* What a session relies on of the engine, over the facts of the claims:    *)
(* what it computes from them, and computes again when some are gone or new,*)
(* is within their closure, and its supports are about what it computed.    *)
EvidenceFacts == {FactOf[c] : c \in Claims}
EngineSound(states) ==
    /\ \A facts \in SUBSET EvidenceFacts : <<Rebuilt(facts), facts>> \in states
    /\ \A s \in states : \A gone \in SUBSET s[2] :
          gone # {} => <<Retracted(s[1], gone), s[2] \ gone>> \in states
    /\ \A s \in states : \A new \in SUBSET (EvidenceFacts \ s[2]) :
          new # {} => <<Extended(s[1], new), s[2] \cup new>> \in states
    /\ \A s \in states :
          /\ s[1] = [facts |-> s[1].facts, supports |-> s[1].supports]
          /\ s[1].facts \subseteq ClosureOf(s[2])
          /\ \A t \in s[1].supports : t.premises \cup {t.fact} \subseteq s[1].facts

Sessions == {s \in {mem[p] : p \in Procs} \cup {file} : s # NoSession}

(* However a session came about (scan, deltas, rebuild, reload), its ledger *)
(* states exactly what the source states at the horizon it has read: its    *)
(* own, or that of the later view its scan was taken in.  Incremental       *)
(* maintenance never keeps a fact that has no derivation left: the closure  *)
(* of a session is within the closure of its ledger, and every support it   *)
(* keeps is about facts it has.                                             *)
SessionSound ==
    \A s \in Sessions :
        /\ LedgerFacts(s) = SourceFacts(Max({s.h, s.scan}))
        /\ s.facts \subseteq ClosureOf(LedgerFacts(s))
        /\ \A t \in s.supports : t.premises \cup {t.fact} \subseteq s.facts

(* A save that expects a state replaces exactly that state: no other        *)
(* process's save comes between the compare and the replacement.            *)
NoSaveLost ==
    [][\A p \in Procs : SaveReplace(p) /\ expected[p] # NoSession => file = expected[p]]_<<log, sessionVars>>
=============================================================================
