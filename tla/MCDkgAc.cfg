SPECIFICATION Spec
CONSTANTS
  q = 7
  Pid <- PidOf
  Draw = {1, 3}
  Setups <- ThreeSetups
  None = None
INVARIANTS  SameQuorumEverywhere NoFalseAlarm
CHECK_DEADLOCK FALSE
