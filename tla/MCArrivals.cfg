CONSTANTS
  Projects = {a, b}
  First = a
  Names = {q, k}
  Knowledge = {k}
  Requests = {q}
  Omissible = {k}
  Waits = {w}
  Prompts = {s}
  Watch = watch
  None = None
  MaxPages = 2
  Batch = 1
  MaxVersion = 2
  MaxEdits = 2
  MaxFaults = 1
SPECIFICATION FairSpec
PROPERTIES NoArrivalLost
INVARIANTS AnswerIsMine AnswerNotMissed CacheFaithful
CHECK_DEADLOCK FALSE
