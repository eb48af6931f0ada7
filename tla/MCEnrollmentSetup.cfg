CONSTANTS
  Forms = {}
  Setups = {s}
  Pasted = Pasted
  None = None
  SetupMayTimeOut = TRUE
  MaxMints = 2
  MaxCrashes = 1
SPECIFICATION Spec
INVARIANTS Accounted
CHECK_DEADLOCK FALSE
