SPECIFICATION Spec
CONSTANTS
  N = 3
  q = 3
  Draw = {1, 2}
  Setups <- ThreeSetups
  None = None
INVARIANTS SameSessionSameKey MixedSharesRefused NoFalseAlarm FailureKeepsKey
CHECK_DEADLOCK FALSE
