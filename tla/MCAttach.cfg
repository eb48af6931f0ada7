CONSTANTS
  Runs = {r1, r2, r3}
  Secrets = {k, l}
  Directories = {d, e}
  Person = Person
  Nobody = Nobody
  MaxExchanges = 2
  MaxDeaths = 1
SPECIFICATION AttachSpec
SYMMETRY Symmetry
INVARIANTS Protected WholeOrNothing
PROPERTIES NothingTaken
CHECK_DEADLOCK FALSE
