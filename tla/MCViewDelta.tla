----------------------------- MODULE MCViewDelta -----------------------------
(* TLC instances of ViewDelta.  Two cells and a share of one half, so that *)
(* one changed cell makes a delta and two a keyframe.                       *)
EXTENDS ViewDelta, TLC

Symmetry == Permutations(Cells) \cup Permutations(Owners) \cup Permutations(Views)
=============================================================================
