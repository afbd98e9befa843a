SPECIFICATION FairSpec
CONSTANTS
  N = 3
  q = 7
  Share <- MCShare
  Draws <- MCDraws
  Challenge <- MCChallenge
  Setups <- MCSetups
  None = None
INVARIANTS OneSignature ReleaseMeansProducts BadSigNeedsFault
PROPERTIES CallsReturn
CHECK_DEADLOCK FALSE
