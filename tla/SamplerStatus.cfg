SPECIFICATION Spec
CONSTANTS
  Options <- PausedCommand
  MaxDepth = 2
  EmitBound = 3
INVARIANT StatusPropagated
