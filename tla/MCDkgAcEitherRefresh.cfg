SPECIFICATION Spec
CONSTANTS
  q = 7
  Pid <- PidOf
  Draw = {1, 3}
  Setups <- EitherSetup
  None = None
INVARIANTS NoFalseAlarm
CHECK_DEADLOCK FALSE
