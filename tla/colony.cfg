SPECIFICATION Spec
CONSTANTS
  u1 = u1
  u2 = u2
  n1 = n1
  Users = {u1, u2}
  Npcs = {n1}
  Nobody = Nobody
  XpOf <- ThreeXp
  HpOf <- ThreeHp
  Gate <- Gates
  Price <- Prices
  DailyAnts = 1
  LevelGrant = 1
  ArmyCap = 1
  KillXp = 3
  BruteMult = 2
  Gifts <- AllGifts
  Starts = {0, 3}
  Stock = {1}
  Field = {0, 1}
  MaxOps = 2
  MaxTicks = 1
SYMMETRY Symmetric
INVARIANTS
  TypeOK
  LiveQueensSound
  KillsFolded
  UnlocksInStep
  FallenHoldNothing
PROPERTY WorkersReturn
CHECK_DEADLOCK FALSE
