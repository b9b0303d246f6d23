SPECIFICATION Spec
CONSTANTS
  t1 = t1
  t2 = t2
  Target = {t1, t2}
  Global = Global
  NoTarget = NoTarget
  NoPolicy = NoPolicy
  DefaultTarget = t2
  Inputs <- MCRebuilds
  Rebuilds <- MCRebuilds
  Malformed = Malformed
  NoValue = NoValue
INVARIANTS TargetRulesApply
CHECK_DEADLOCK FALSE
