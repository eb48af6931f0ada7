CONSTANTS
  Forms = {f, g}
  Setups = {s}
  Pasted = Pasted
  None = None
  SetupMayTimeOut = FALSE
  MaxMints = 1
  MaxCrashes = 1
SPECIFICATION Spec
SYMMETRY FormSymmetry
INVARIANTS Accounted FileUsable CancelIsHonest
PROPERTIES SavedStays
CHECK_DEADLOCK FALSE
