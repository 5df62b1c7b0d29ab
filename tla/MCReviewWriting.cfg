SPECIFICATION Spec
CONSTANTS
  c1 = c1
  c2 = c2
  c3 = c3
  unknown = unknown
  NoCluster = NoCluster
  NRefs = 3
  Core = 2
  Target = 2
  Named <- MCNamed
  ClusterMaps <- MCClusterMaps
  Texts <- MCTexts
  Titles <- MCTitles
  SectionCounts = {1, 2}
  SourceLimit = 2
  MaxCites = 2
  MaxAttempts = 2
  MaxRevisions = 1
INVARIANT CitationsAreTrue
INVARIANT GroundedSections
INVARIANT StoredIsReviewed
INVARIANT PlansServeSections
CHECK_DEADLOCK FALSE
