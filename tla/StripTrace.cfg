SPECIFICATION Spec
CONSTANTS
  Mark = Mark
  Frame = Frame
  Trace = Trace
  Letter = Letter
  MaxText = 4
  Second = 4
  MaxSecond = 2
  MaxArgs = 5
INVARIANT NoTraceDelim
