SPECIFICATION Spec
CONSTANTS
  Cells = {c1, c2}
  Owners = {p1, p2}
  Unclaimed = Unclaimed
  Views = {g1}
  None = None
  DeltaShare = 2
  KF_INTERVAL = 2
  Interrupts = {"pause"}
  MaxFrames = 3
  MaxWire = 2
  MaxInterrupts = 1
SYMMETRY Symmetry
PROPERTY ResumeRepaints
CHECK_DEADLOCK FALSE
