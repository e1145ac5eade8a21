SPECIFICATION MCSpec
CONSTANTS
    Vars <- MCVars
    Names <- MCNames
    RulePool <- MCRules
    FactPool <- MCFacts
    Goals <- MCGoals
    ProofLimits <- MCLimits
    MaxRules = 4
    MaxFacts = 3
    Points <- MCPoints
    RowPool <- MCRowPool
    RangePrograms <- MCRangePrograms
    RangeLimits <- MCRangeLimits
    MaxRows = 4
    MaxSegments = 5
    ConceptOrder <- MCConcepts
    MaxSubsumptions = 30
    MaxRounds = 4
    FirstLiteral = 100
    MaxEntities = 4
    Membership = "type"
    ClosedClasses = {5}
    Suite <- MCSuite
    KindOf <- MCKind
    MaxViolations = 4
    AxiomPool <- MCAxioms
    LinkPool <- MCLinks
    EqualityFacts <- MCEqualityFacts
    MaxAxioms = 4
    MaxLinks = 3
    MaxEqualityFacts = 3
INVARIANTS
    EvaluationExact
    DemandSound
    RangeExact
    ReasonersExact
CHECK_DEADLOCK FALSE
