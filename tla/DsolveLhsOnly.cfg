SPECIFICATION Spec
CONSTANTS
  k1 = k1
  k2 = k2
  k3 = k3
  x = x
  V = V
  Const = Const
  KVar = {k1, k2, k3}
  Qual <- MCQual
  Place <- MCPlace
  Contra <- MCContra
  UseSimple = TRUE
  MinSol = FALSE
  Problems <- PairProblems
  Entails <- MCEntails
INVARIANTS UnconstrainedAssumesNothing
CHECK_DEADLOCK FALSE
