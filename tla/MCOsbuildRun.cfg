SPECIFICATION Spec
CONSTANTS
  Lines = 3
  Pipe = 1
  Mount <- MCMount
  Below <- MCBelow
INVARIANTS SuccessIsHonest MountsSpared CleanupAfterChild
PROPERTY RunEnds
CHECK_DEADLOCK FALSE
