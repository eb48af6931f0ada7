CONSTANTS
  Sessions = {a, b}
  Threads = {t1, t2}
  Unsupported = {"presence"}
  NoSession = NoSession
  MaxCards = 3
  MaxRebinds = 2
  MaxRestarts = 1
SPECIFICATION Spec
CHECK_DEADLOCK FALSE
INVARIANT DisabledOnlyIfUnsupported
