SPECIFICATION MCSpec
CONSTANTS
    v1 = v1
    v2 = v2
    v3 = v3
    x = x
    y = y
    None = None
    VersionIds = {v1, v2, v3}
    Entities = {x, y}
    Batches <- MCBatches
    Deployments <- MCDeployments
    Clocks = {1}
    IdLimit = 4
    MaxGen = 2
    RepairGen = 2
    MaxFaults = 2
    MaxInstant = 2
    ValidIntervals <- MCValidIntervals
    LegacyRecords = {}
    MaxCommits = 2
    MaxLegacyPuts = 0
    Policies <- MCPolicies
    Aliases <- MCAliases
    Requests <- MCRequests
    Instants = {0, 1}
    DerivedAgents = {"rules"}
    MaxDamage = 1
INVARIANTS
    ReservedIdFresh
    VisibleAuthentic
    IndexFailClosedUnlessPartial
    HistoryConsistent
    ExtractionExact
PROPERTIES
    ImplementsLog
    RebuildKeepsReads
CHECK_DEADLOCK FALSE
