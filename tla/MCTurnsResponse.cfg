CONSTANTS
  Sessions = {a, b}
  MaxTurns = 2
  MaxDeliveries = 2
  MaxCrashes = 1
  MaxRebinds = 2
  RebindWhileSubmitting = FALSE
  SaveMayFail = FALSE
SPECIFICATION Spec
INVARIANT OwnResponse
