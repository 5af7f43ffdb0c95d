SPECIFICATION Spec
CONSTANTS
  BUF_SIZE = 6
  FUNC_SIZE = 3
  Lines <- MCLines
  ErrTexts <- MCErrTexts
  Keys = {"q", "p"}
  MaxEvents = 3
INVARIANTS CountsExact ScreenConsistent
PROPERTY QuitEnds
