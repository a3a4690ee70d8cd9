CONSTANTS
  a1 = a1
  a2 = a2
  p1 = p1
  p2 = p2
  Attempt = {a1, a2}
  Pin = {p1, p2}
  Majors = {6, 7}
  Backend = "ureq"
  None = None
SPECIFICATION Spec
INVARIANTS FailureLeavesNothing ErrorsAreRight
PROPERTIES ImplementsPinPairing PairingEnds
CHECK_DEADLOCK FALSE
