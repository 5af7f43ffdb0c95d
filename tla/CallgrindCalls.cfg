\* Handler use ends with DEINIT.
CHECK_DEADLOCK FALSE
SPECIFICATION Spec
CONSTANTS
  Loc = {f, g}
  MAX_STACK_DEPTH = 3
  TraceBound = 2
  FrameBound = 3
PROPERTIES ReturnsAreNoCalls
