SPECIFICATION FairSpec
CONSTANTS
  Players = {p1, p2, p3}
  Nobody = Nobody
  Nodes = {n1}
  MaxTasks = 2
  MaxGames = 1
  MaxStarts = 1
  MaxDepartures = 1
  Rounds = 2
  Hints = FALSE
  Deserts = FALSE
  Lone = TRUE
  Leaves = FALSE
  Failures = FALSE
  Crashes = FALSE
  Prompt = TRUE
PROPERTIES
  GamesEnd
  WordGetsChosen
CHECK_DEADLOCK FALSE
