SPECIFICATION Spec
CONSTANTS
  NodeKeys <- MCNodeKeys
  EdgeIds <- MCEdgeIds
  RelationKeys <- MCRelationKeys
  Links <- MCLinks
  MaxWrites = 3
  MaxOps = 3
  EdgeVersions <- MCEdgeVersions
  NodeVersions <- MCNodeVersions
  Filters <- MCFilters
  MaxEdgeLog = 3
  MaxNodeLog = 2
  Bucket = 2
  Contexts <- MCContexts
  TypeSets <- MCTypeSets
  Draws <- MCDraws
  Policies <- MCPolicies
  Fanouts <- MCFanouts
  WalkLength = 4
  Window = 2
  MaxDropped = 1
INVARIANTS
  SnapshotExact
  SamplesFaithful
  BatchMapsBack
PROPERTIES
  SnapshotDurable
  IdsStable
CHECK_DEADLOCK FALSE
