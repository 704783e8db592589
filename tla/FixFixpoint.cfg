SPECIFICATION Spec
CONSTANTS
  k1 = k1
  k2 = k2
  k3 = k3
  x = x
  VV = VV
  KVar = {k1, k2, k3}
  Qual <- MCQual
  Place <- MCPlace
  Contra <- MCContra
  UseSimple = TRUE
  Slice = TRUE
  TrueUnconstrained = TRUE
  AdjDeps = FALSE
  Problems <- FixProblems
  Entails <- MCEntails
INVARIANT SolutionIsFixpoint
CHECK_DEADLOCK FALSE
