SPECIFICATION Spec
CONSTANTS
  Chunks = {k1, k2}
  Locals = {l1, l2, l3}
  Owners = {p1, p2, p3}
  Unclaimed = Unclaimed
  NoChunk = NoChunk
  IdxSpace = 4
  TouchSpace = 1
  MaxLive = 3
SYMMETRY Symmetry
INVARIANTS
  TypeOK
  BooksBalance
PROPERTY ImplementsGrid
