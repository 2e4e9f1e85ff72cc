SPECIFICATION FairSpec
CONSTANTS
  p1 = p1
  p2 = p2
  s1 = s1
  s2 = s2
  s3 = s3
  n1 = n1
  n2 = n2
  Players = {p1, p2}
  Sockets = {s1, s2, s3}
  NoSocket = NoSocket
  Nodes = {n1, n2}
  Owner <- MCOwner
  Home <- MCHome
  Creator = s1
  MaxPlayers = 2
  MaxTasks = 3
  Late = FALSE
  Prompt = TRUE
INVARIANTS
  TypeOK
  HostIsPlayer
PROPERTIES
  GraceSparesTheLiving
  
  HostComesBack
CHECK_DEADLOCK FALSE
