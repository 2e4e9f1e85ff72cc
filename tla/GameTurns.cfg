SPECIFICATION Spec
CONSTANTS
  Players = {p1, p2, p3}
  Nobody = Nobody
  Nodes = {n1}
  MaxTasks = 3
  MaxGames = 1
  MaxStarts = 1
  MaxDepartures = 2
  Rounds = 2
  Hints = TRUE
  Deserts = FALSE
  Lone = FALSE
  Leaves = FALSE
  Failures = TRUE
  Crashes = TRUE
  Prompt = TRUE
INVARIANTS
  DrawerHasPen
PROPERTIES
  CreditInItsTurn
  WordStaysSet
  FollowsTheRules
SYMMETRY Symmetry
CHECK_DEADLOCK FALSE
