SPECIFICATION Spec
CONSTANTS
    MaxKeyBytes = 20
    Backends = {"lmdb", "leveldb", "pyrex"}
    Procs = {"p1", "p2"}
    Records <- MCRecords
    NewId <- MCNewId
    Preloaded <- MCPreloaded
    Queries <- MCQueries
    MaxWrites = 2
    MaxTxnWrites = 1
INVARIANTS
    IdentityAgrees
    ScansExact
    VerifiedUnchanged
CHECK_DEADLOCK FALSE
