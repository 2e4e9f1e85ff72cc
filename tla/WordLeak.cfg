SPECIFICATION Spec
CONSTANTS
  p1 = p1
  p2 = p2
  p3 = p3
  Players = {p1, p2, p3}
  Nobody = Nobody
  Null = Null
  FirstOrder <- MCOrder
  Words <- MCWords
  DifficultyOf <- MCDifficultyOf
  Guesses <- MCGuesses
  Total = 1
  MaxTasks = 2
  MaxTurns = 2
  MaxDepartures = 1
  Shifts = TRUE
  Overlap = FALSE
  Luck = FALSE
INVARIANT
  SecretKept
CHECK_DEADLOCK FALSE
