CONSTANTS
  Sessions = {a, b}
  Threads = {t1, t2}
  Unsupported = {}
  NoSession = NoSession
  MaxCards = 3
  MaxRebinds = 2
  MaxRestarts = 1
SPECIFICATION Spec
SYMMETRY ThreadSymmetry
CHECK_DEADLOCK FALSE
INVARIANTS OneSender NeverAhead StatusIsEarned
PROPERTIES NoStaleOverwrite
