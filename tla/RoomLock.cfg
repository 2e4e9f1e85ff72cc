SPECIFICATION FairSpec
CONSTANTS
  Calls = {c1, c2, c3}
  NoCall = NoCall
  Outlive = FALSE
  Crashes = TRUE
INVARIANTS
  TypeOK
  MutualExclusion
  NoLostUpdate
PROPERTIES
  OnlyOwnerUnlocks
  ImplementsAtomicRoom
  LockIsFreed
CHECK_DEADLOCK FALSE
