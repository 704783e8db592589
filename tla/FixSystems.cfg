SPECIFICATION Spec
CONSTANTS
  k1 = k1
  k2 = k2
  k3 = k3
  x = x
  VV = VV
  KVar = {k1, k2, k3}
  Qual <- MCQual
  Place <- MCPlace
  Contra <- MCContra
  UseSimple = TRUE
  Slice = TRUE
  TrueUnconstrained = TRUE
  AdjDeps = TRUE
  Problems <- FixProblems
  Entails <- MCEntails
INVARIANTS RefinedIsSatisfied SatMeansSolution OnlyGoalsFail AnswersGreatest
PROPERTIES Terminates
CHECK_DEADLOCK FALSE
