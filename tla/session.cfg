SPECIFICATION Spec
CONSTANTS
  Sockets = {s1, s2}
  Names = {n1, n2}
  NoSocket = NoSocket
  NoPlayer = NoPlayer
  FirstId = 100
  MaxAuths = 3
  MaxWipes = 1
  MaxQueue = 2
INVARIANTS
  TypeOK
  NoOrphan
  AccountsMatchPlayers
  PauseEnds
PROPERTIES
  DetachedByItsOwn
  EveryAuthAnswered
CHECK_DEADLOCK FALSE
