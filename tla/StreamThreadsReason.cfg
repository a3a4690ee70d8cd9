SPECIFICATION StreamSpec
CONSTANTS
  Decoded = {"audio", "video"}
  Silent = {"mic"}
  Codes = {1}
INVARIANT ReasonReported
CHECK_DEADLOCK FALSE
