CONSTANTS
  Clients = {c1}
  MaxConns = 2
  QueueSize = 2
  MaxRuns = 2
  MaxProgress = 2
  MaxCrashes = 1
SPECIFICATION Spec
INVARIANT OneLiveStream
PROPERTY TerminalSurvives
PROPERTY PlacesReturn
PROPERTY ViewSettles
CHECK_DEADLOCK FALSE
