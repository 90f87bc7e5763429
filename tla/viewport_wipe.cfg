SPECIFICATION Spec
CONSTANTS
  TickRate = 4
  TileHz = 2
  AntHz = 4
  LbEvery = 3
  LbSeconds = 1
  Standings = {q1, q2}
  Unsent = Unsent
  Restored = {0, 5}
  Lag = 2
  MaxTicks = 9
  MaxWipes = 1
INVARIANT CadenceKept
CHECK_DEADLOCK FALSE
