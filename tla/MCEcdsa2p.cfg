SPECIFICATION Spec
CONSTANTS
  q = 7
  SEC_P_STAT = 1
  SEC_P_COM = 1
  N = 10977
  Draw = {3, 5}
  RhoDraw = {0, 195}
  FaultyRho <- MCFaultyRho
  Garbage = {0, 8}
  Batches <- MCBatches
  Setups <- MCSetups
  None = None
INVARIANTS CipherHoldsPeerShare NoFalseAlarm LeakNeedsFaultOrTornKey ProvedCiphertextsSign
CHECK_DEADLOCK FALSE
