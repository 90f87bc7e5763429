------------------------------- MODULE MCField -------------------------------
(* TLC instances of Field: two players whose bubbles meet on a small map. *)
EXTENDS Field

TwoSizes == 2 :> 3 @@ 3 :> 4
TwoThirds == [of |-> 2, in |-> 3]
OneView == {[x |-> 0, y |-> 1, w |-> 2, h |-> 2]}
QueenPlaces == {<<1, 1>>, <<5, 4>>}
Moves == {<<3, 3>>, <<7, 1>>}
AntPlaces == {<<4, 3>>, <<5, 3>>, <<8, 4>>, <<0, 4>>}
OneBought == <<0, 1>>
TwoHeadings == {<<1, 0>>, <<-1, 0>>}
=============================================================================
