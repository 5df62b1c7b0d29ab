SPECIFICATION ContractedSpec
CONSTANTS
  MaxPhaseAttempts = 2
  MaxResearchRounds = 2
  MaxRevisions = 2
  RecursionLimit = 60
INVARIANT VerdictsAgree
INVARIANT CompletedIsScored
INVARIANT ReviewedTextIsSaved
INVARIANT CompletedIsStored
INVARIANT WithinRecursionLimit
INVARIANT UpdatesAccepted
INVARIANT DataIsOfOnePiece
INVARIANT DeclaredOutcomeHolds
PROPERTY EveryRunEnds
CHECK_DEADLOCK FALSE
