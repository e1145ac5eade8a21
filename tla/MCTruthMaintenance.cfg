SPECIFICATION Spec
CONSTANTS
    Facts = {"p", "n", "q", "r", "s"}
    Agents = {"a", "b"}
    Instants = {0, 1, 2}
    BaseClaims <- MCBaseClaims
    Programs <- MCPrograms
    AsOf = {0, 1}
    Intervals <- MCIntervals
    RuleVersions <- MCRuleVersions
    MaxChanges = 3
    MaxPasses = 2
INVARIANTS
    MaintainedExact
    SupportsHold
CHECK_DEADLOCK FALSE
