SPECIFICATION Spec
CONSTANTS
  q = 5
  W = 2
  KeyDraw <- MCKeyDraw
  Draw = {1, 3}
  Toss <- MCToss
  Args <- MCArgs
  Hash <- MCHash
  SoftHash <- MCSoftHash
  Setups <- MCSetups
  None = None
INVARIANTS SameLineageMatches LeftoversRefused DerivedKeysFit SamePathSameKey
CHECK_DEADLOCK FALSE
