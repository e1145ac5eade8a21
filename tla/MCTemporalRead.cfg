SPECIFICATION MCSpec
CONSTANTS
    v1 = v1
    v2 = v2
    x = x
    None = None
    VersionIds = {v1, v2}
    Entities = {x}
    Batches <- ReadBatches
    Deployments <- ReadDeployments
    Clocks = {1}
    IdLimit = 3
    MaxGen = 2
    RepairGen = 2
    MaxFaults = 1
    ReadOps = {"version", "nodes", "claims", "view"}
    Grouped = FALSE
    MaxCache = 1
    MaxInstant = 2
    ValidIntervals <- MCValidIntervals
    LegacyRecords <- MCLegacyRecords
    MaxCommits = 3
    MaxLegacyPuts = 3
    Worlds = {"v", "w"}
    Formulas <- MCFormulas
    Limits <- MCLimits
    Links <- MCLinks
    Absent = Absent
SYMMETRY Ids
INVARIANTS
    ReadExactUnlessRebuilt
    CachesFaithful
    ViewStable
    HistoryExact
    ModalExact
CHECK_DEADLOCK FALSE
