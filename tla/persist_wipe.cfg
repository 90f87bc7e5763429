SPECIFICATION Spec
CONSTANTS
  n1 = n1
  n2 = n2
  Names = {n1, n2}
  Autosavers = {a1}
  NoFile = NoFile
  Torn = Torn
  FirstId = 1
  Disks = {FALSE}
  MaxIds = 2
  MaxStamp = 2
  MaxBans = 1
  MaxRestarts = 0
INVARIANT WipeSticks
CHECK_DEADLOCK FALSE
