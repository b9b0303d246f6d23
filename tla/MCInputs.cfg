SPECIFICATION Spec
CONSTANTS
  t1 = t1
  t2 = t2
  Target = {t1, t2}
  Global = Global
  NoTarget = NoTarget
  NoPolicy = NoPolicy
  DefaultTarget = t2
  Inputs <- MCInputs
  Rebuilds <- MCRebuilds
  Malformed = Malformed
  NoValue = NoValue
INVARIANTS PolicyIsMerged NoForbiddenBuild SourcesRank 
CHECK_DEADLOCK FALSE
