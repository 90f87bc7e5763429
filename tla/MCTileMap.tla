------------------------------ MODULE MCTileMap ------------------------------
(* TLC instances of TileMap.  Owners, chunks and cells are interchangeable: *)
(* the store only compares them for equality.                               *)
EXTENDS TileMap, TLC

Symmetry == Permutations(Owners) \cup Permutations(Locals) \cup Permutations(Chunks)
=============================================================================
