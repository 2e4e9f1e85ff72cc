SPECIFICATION Spec
CONSTANTS
  Users = {u1, u2, u3}
  RoomIds = {r1, r2}
  Codes = {c1, c2}
  None = None
  MaxPlayers = 2
  MaxTasks = 2
  MaxLosses = 1
  MaxChanges = 1
  Patient = TRUE
  Tidy = TRUE
  Collide = FALSE
INVARIANTS
  TypeOK
  CodeLeadsThere
  IndexIsExact
  Whereabouts
SYMMETRY Alike
CHECK_DEADLOCK FALSE
