SPECIFICATION StdSpec
CONSTANTS
  Session = {s1, s2}
  None = None
  Majors = {4, 7}
  PlayNeedsPing = FALSE
  Decoded = {"video"}
  Silent = {"mic"}
  Codes = {1}
INVARIANTS OneSession FailureHasError
PROPERTIES ImplementsHandshake SetupEnds AllEnd
CHECK_DEADLOCK FALSE
