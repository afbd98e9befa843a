SPECIFICATION FairSpec
CONSTANTS
  N = 3
  Script <- MixedScript
  Cap = 3
  MaxErr = 1
INVARIANTS
  RoundAligned
  NobodyRunsAhead
  InFlight
  BroadcastBarrier
PROPERTIES
  Termination
