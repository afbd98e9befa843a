SPECIFICATION Spec
CONSTANTS
  q = 7
  SEC_P_STAT = 1
  SEC_P_COM = 1
  N = 10977
  Draw = {3, 5}
  RhoDraw = {0, 195}
  FaultyRho <- MCFaultyRho
  Garbage = {0, 8}
  Batches <- MCBatches
  Setups <- TornSetup
  None = None
INVARIANT LeakMeansCheating
CHECK_DEADLOCK FALSE
