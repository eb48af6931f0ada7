CONSTANTS
  Runs = {r1, r2}
  Secrets = {k, l}
  Directories = {d, e}
  Person = Person
  Nobody = Nobody
  MaxExchanges = 2
  MaxDeaths = 1
SPECIFICATION AttachSpec
SYMMETRY Symmetry
PROPERTIES VerifiedIsThere
CHECK_DEADLOCK FALSE
