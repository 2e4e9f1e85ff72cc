SPECIFICATION Spec
CONSTANTS
  Players = {p1, p2, p3}
  Nobody = Nobody
  Nodes = {n1}
  MaxTasks = 2
  MaxGames = 1
  MaxStarts = 1
  MaxDepartures = 2
  Rounds = 1
  Hints = FALSE
  Deserts = TRUE
  Lone = TRUE
  Leaves = TRUE
  Failures = TRUE
  Crashes = FALSE
  Prompt = TRUE
INVARIANTS
  TypeOK
  DrawOrderSound
  OneDrawer
  StatsBacked
SYMMETRY Symmetry
CHECK_DEADLOCK FALSE
