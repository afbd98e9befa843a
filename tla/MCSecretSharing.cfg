SPECIFICATION Spec
CONSTANTS
  q = 7
  Pid <- PidOf
  Draw <- AllScalars
  Trees <- AllTrees
  Secrets <- AllScalars
  None = None
  MaxAltered = 2
  AlteredSecrets = {3}
INVARIANTS
  QuorumReconstructs
  AdditiveSharesAddUp
  VerifiedSharesReconstruct
  UnqualifiedSetsLearnNothing
CHECK_DEADLOCK FALSE
