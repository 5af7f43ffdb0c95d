\* A stack of up to four frames, one more than a walk follows.
CONSTANTS
  Addr = {a, b, c, d}
  NULL = NULL
  PHPSPY_MAX_STACK_WALK = 3
  INT_MAX = 7
  FromLeaf <- MCFromLeaf
  FromRoot <- MCFromRoot
  ReadsFail = TRUE
SPECIFICATION Spec
SYMMETRY Symmetric
INVARIANTS NothingMissingUnmarked PausedExact
PROPERTY WalkEnds
