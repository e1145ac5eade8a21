------------------------------ MODULE MCReasoning -----------------------------
(* Sessions and publication over a claim history, in two parts: sessions    *)
(* next to agents who claim g twice and f, and publishers next to an agent  *)
(* whose operations on one claim all cover the point.                       *)
EXTENDS ReasoningSession, Publication, Datalog

CONSTANT MaxSessionCommits  \* bound: commits where sessions read them

VARIABLE part

Fact(n) == Atom(Rel(n), <<>>)
Follows(id, from, to) == [id |-> id, body |-> <<Fact(from)>>, negated |-> <<>>, head |-> Fact(to)]

(* g entails f, f entails e and back: a chain into a cycle of support.      *)
MCProgram == {Follows("r1", "g", "f"), Follows("r2", "f", "e"), Follows("r3", "e", "f")}

MCClosureOf(facts) == Evaluate(MCProgram, facts)
MCRebuilt(facts) == Rematerialize(MCProgram, facts)
MCRetracted(m, facts) == RetractFacts(MCProgram, m, facts)
MCExtended(m, facts) == PropagateInsertions(MCProgram, m, facts)

(* The states of the engine, from any evidence on.                          *)
RECURSIVE EngineStates(_)
EngineStates(found) ==
    LET next == found
            \cup UNION {{<<Retracted(s[1], gone), s[2] \ gone>> : gone \in SUBSET s[2] \ {{}}} : s \in found}
            \cup UNION {{<<Extended(s[1], new), s[2] \cup new>> : new \in SUBSET (EvidenceFacts \ s[2]) \ {{}}}
                       : s \in found}
    IN  IF next = found THEN found ELSE EngineStates(next)

ASSUME EngineAssumption == EngineSound(EngineStates({<<Rebuilt(facts), facts>> : facts \in SUBSET EvidenceFacts}))

(* Two agents claim g, one claims f, which g entails.                       *)
MCFactOf == [c \in {"g1", "g2", "f1"} |-> IF c = "f1" THEN Fact("f") ELSE Fact("g")]
MCNames == <<"e", "f", "g">>

MCInit == part \in {"sessions", "publication"} /\ InitLog /\ InitSessions /\ InitPublication

(* What agents may do to a claim: all of it, or only what covers the point, *)
(* where correcting a claim comes to the same as asserting it again.        *)
MCTold == Claims \X {"assert"} \X {TRUE} \cup Claims \X {"correct", "retract"} \X BOOLEAN
MCCovering == {"g1"} \X {"assert", "retract"} \X {TRUE}

MCNext ==
    \/ part = "sessions" /\ SessionNext(MCTold) /\ Now' <= MaxSessionCommits /\ UNCHANGED <<part, stage>>
    \/ part = "publication" /\ PublicationNext(MCCovering) /\ UNCHANGED <<part, sessionVars>>

ActorSymmetry == Permutations(Publishers) \cup Permutations(Procs)

MCSpec == MCInit /\ [][MCNext]_<<part, log, sessionVars, stage>>
=============================================================================
