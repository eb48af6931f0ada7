CONSTANTS
  Sessions = {a}
  Kinds = {decision}
  Tasks = {t, u}
  Calls = {c, d}
  Claims = {x}
  None = None
  MaxTurns = 2
  MaxRebinds = 0
  MaxCrashes = 1
SPECIFICATION Spec
SYMMETRY Symmetry
PROPERTIES DeliberateFirst
CHECK_DEADLOCK FALSE
