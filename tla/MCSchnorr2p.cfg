SPECIFICATION FairSpecAll
CONSTANTS
  FaultySets = {{}, {1}, {2}}
  q = 5
  Draw = {1, 3}
  W = 2
  None = None
  MaxSessions = 4
  MaxErr = 2
  Calls <- MCCalls
  Nonces <- MCNonces
  Challenge <- MCChallenge
INVARIANTS SameLineageSharesKey FixedBeforeAnswer SignsWhenSharesFit NoncesFixedBeforeAnswer
PROPERTIES EveryCallReturns
CHECK_DEADLOCK FALSE
