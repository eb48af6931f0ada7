CONSTANTS
  Sessions = {a, b}
  Kinds = {decision}
  Tasks = {t, u}
  Calls = {c}
  Claims = {x}
  None = None
  MaxTurns = 2
  MaxRebinds = 2
  MaxCrashes = 1
SPECIFICATION Spec
SYMMETRY Symmetry
INVARIANTS OncePerClaim ExaminedOnce
PROPERTIES DeliberateFirst
CHECK_DEADLOCK FALSE
