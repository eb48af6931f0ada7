CONSTANTS
  Forms = {f, g}
  Setups = {}
  Pasted = Pasted
  None = None
  SetupMayTimeOut = FALSE
  MaxMints = 1
  MaxCrashes = 1
SPECIFICATION Spec
SYMMETRY FormSymmetry
INVARIANT SharingWorks

CHECK_DEADLOCK FALSE
