------------------------------- MODULE MCColony -------------------------------
(* TLC instances of Colony: three levels, a purse that buys one of each. *)
EXTENDS Colony, TLC

CONSTANTS u1, u2, n1

ThreeXp == <<0, 2, 4>>
ThreeHp == <<2, 3, 4>>
Gates == [defender |-> 2, worker |-> 2, shield |-> 3, brute |-> 3, relocate |-> 3]
Prices == [defender |-> 1, worker |-> 1, shield |-> 1, brute |-> 1, relocate |-> 1]
AllGifts == {"ants", "credits", "heal", "level-up", "level-down", "set-level",
             "xp", "npc", "delete", "place"}
Symmetric == Permutations({u1, u2})
=============================================================================
