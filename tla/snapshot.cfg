SPECIFICATION Spec
CONSTANTS
  k1 = k1
  k2 = k2
  k3 = k3
  t1 = t1
  t2 = t2
  Chunks = {k1, k2, k3}
  Locals = {l1}
  Owners = {p1, p2}
  Unclaimed = Unclaimed
  Supers = {t1, t2}
  SuperOf <- TwoSupers
  NoObject = NoObject
  MaxEpoch = 2
  MayRestart = TRUE
  MaxChanges = 3
INVARIANTS
  TypeOK
  SinkAccounted
PROPERTIES
  MirrorsWorld
  SinkCatchesUp
CHECK_DEADLOCK FALSE
