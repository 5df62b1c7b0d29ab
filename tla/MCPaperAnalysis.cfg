SPECIFICATION FairSpec
CONSTANTS
  Enabled = {"semantic_scholar", "pubmed", "arxiv", "openalex", "crossref"}
  Answers <- MCAnswers
  WithDoi <- MCWithDoi
  KgAnswers <- MCKgAnswers
  OldCards <- MCOldCards
  MaxSearches = 2
  StepLimit = 5
  MaxParallel = 2
  Target = 2
  MaxAttempts = 2
  MaxRounds = 2
  MaxStops = 1
  ClusterLimit = 4
  MinClustered = 2
  KgLimit = 1
  EvidenceLimit = 2
INVARIANT FoundIsLinked
INVARIANT NewPapersCountedOnce
INVARIANT TablesAgree
PROPERTY PhasesEnd
CHECK_DEADLOCK FALSE
