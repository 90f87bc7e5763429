SPECIFICATION Spec
CONSTANTS
  n1 = n1
  n2 = n2
  a1 = a1
  Names = {n1, n2}
  Autosavers = {a1}
  NoFile = NoFile
  Torn = Torn
  FirstId = 1
  Disks = {TRUE, FALSE}
  MaxIds = 2
  MaxStamp = 3
  MaxBans = 1
  MaxRestarts = 1
SYMMETRY Symmetric
CONSTRAINT FewMishaps
INVARIANTS
  TypeOK
  AccountsDurable
  PlayersHaveAccounts
  IdsOwnUnlessLost
  StarterNotTwice
PROPERTIES
  ShutdownLosesNothing
  ImplementsArchive
CHECK_DEADLOCK FALSE
