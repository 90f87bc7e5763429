SPECIFICATION Spec
CONSTANTS
  Cells = {c1, c2}
  Owners = {p1}
  Unclaimed = Unclaimed
  Views = {g1, g2}
  None = None
  DeltaShare = 2
  KF_INTERVAL = 2
  Interrupts = {"pause", "reconnect", "forget"}
  MaxFrames = 4
  MaxWire = 2
  MaxInterrupts = 1
SYMMETRY Symmetry
INVARIANTS
  TypeOK
  InStep
PROPERTY FollowsFrames
CHECK_DEADLOCK FALSE
