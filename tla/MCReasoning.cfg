SPECIFICATION MCSpec
SYMMETRY ActorSymmetry
CONSTANTS
    Vars = {}
    Names <- MCNames
    ClosureOf <- MCClosureOf
    Rebuilt <- MCRebuilt
    Retracted <- MCRetracted
    Extended <- MCExtended
    Claims = {"g1", "g2", "f1"}
    FactOf <- MCFactOf
    MaxCommits = 5
    MaxSessionCommits = 3
    Procs = {p1, p2}
    MaxVersions = 2
    MaxAdvance = 2
    Publishers = {u1, u2}
INVARIANTS
    SessionSound
    PublicationExact
PROPERTY NoSaveLost
CHECK_DEADLOCK FALSE
