SPECIFICATION FairSpec
CONSTANTS
  server = server
  c1 = c1
  c2 = c2
  Procs <- MCProcs
  Server <- server
  Drawers <- MCDrawers
  Sources = 2
  Threshold <- MCThreshold
  Yields <- MCYields
  MaxLoop = 1
  Interval = 2
  MaxCalls = 4
INVARIANTS
  GeneratorSound
  TwinsOnlyByFork
  ReseededInTime
PROPERTY CallEnds
CHECK_DEADLOCK FALSE
