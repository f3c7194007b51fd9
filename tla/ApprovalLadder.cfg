SPECIFICATION Spec
CONSTANTS
  Ids = {q1, q2}
  Primary <- MCPrimary
  Secondary <- MCSecondary
  Off = Off
SYMMETRY Symmetry
CHECK_DEADLOCK FALSE
INVARIANTS
  TypeOK
  SilenceDecidesOnlyTier4
  NobodyIsForgotten
  LadderIsClimbedInOrder
PROPERTIES
  VerdictStands
