SPECIFICATION FairSpec
CONSTANTS
  Party = {1, 2, 3}
  Faulty = {3}
  Bits = {0, 1}
  Short = Short
  None = None
INVARIANTS Agreement FixedByCommitment HonestAccepted
PROPERTIES ImplementsAgreeOrAbort HonestRunsComplete
CHECK_DEADLOCK FALSE
