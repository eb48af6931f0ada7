SPECIFICATION Spec
CONSTANTS
  c1 = c1  c2 = c2  home = home  away = away
  Calls = {c1, c2}
  Tools = {"tasks", "write", "ask", "send", "publish"}
  Projects = {home, away}
  Records = {1}
  Agent = 2
  Configured = home
  People = {1, 2, 3}
  Local <- LocalOfFirst
  PAGE_LIMIT = 2
  MaxEdits = 0
  MaxBinds = 1
INVARIANT PublishedAtHome
CHECK_DEADLOCK FALSE
