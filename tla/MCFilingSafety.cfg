CONSTANTS
  h1 = h1
  h2 = h2
  t1 = t1
  t2 = t2
  p1 = p1
  p2 = p2
  p3 = p3
  n1 = n1
  n2 = n2
  NoProject = NoProject
  Hooks <- OneHook
  Threads <- TwoThreads
  Of <- Together
  Projects <- TwoProjects
  Names <- OneName
  normalise <- SameName
  Messages = {1, 2, 3, 4}
  To <- ToMany
  Oversize = {4}
  Expired = {}
  Forbidden = {p2}
  REPORT_BATCH = 1
  MIRROR_MAX_ATTEMPTS = 2
  RebindWhileFiling = FALSE
  MaxCrashes = 1
  MaxRebinds = 1
  MaxOverlaps = 1
  MaxFaults = 4
SPECIFICATION Spec
INVARIANTS FiledIsThere FiledOnce OneBacklog
