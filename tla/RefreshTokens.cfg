SPECIFICATION Spec
CONSTANTS
  Tokens = {t1, t2, t3, t4}
  NoToken = NoToken
  Calls = {c1, c2}
INVARIANTS
  TypeOK
  OneLive
  NoFalseAlarm
  BurnedIsDead
SYMMETRY Symmetry
CHECK_DEADLOCK FALSE
