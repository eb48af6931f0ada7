CONSTANTS
  s1 = s1  s2 = s2
  p1 = p1  p2 = p2
  Sessions = {s1, s2}
  Projects = {p1}
  ProjectOf <- OneProject
  ConnectionProject = p1
  Threads = {t1}
  Replayers = {replay}
  NoSession = NoSession
  MaxReceipts = 2
  MaxRows = 4
SPECIFICATION Spec
SYMMETRY SessionSymmetry
INVARIANTS TypeOK NothingLost NoConflict CaughtUp
PROPERTIES FifoSpec
