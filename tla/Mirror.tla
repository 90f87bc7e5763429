-------------------------------- MODULE Mirror --------------------------------
(***************************************************************************)
(* What the snapshot writer promises to whoever reads the sink: under the  *)
(* current season's epoch each super-tile has a picture the world once     *)
(* showed in this season, and never goes back to an older one.  A season   *)
(* starts with nothing stored, and what was taken in the last never shows  *)
(* up in it.  Nothing is said of chunks, queues, epochs or deletions:      *)
(* SnapshotWriter implements this module.                                  *)
(***************************************************************************)
CONSTANTS
  Supers,    \* keys of the super-tiles
  Pictures,  \* what a super-tile may look like, or NoObject
  NoObject   \* nothing painted, and nothing stored

VARIABLES
  shown,     \* what the world shows of each super-tile
  stored,    \* what a reader of the sink sees of it
  taken      \* pictures of some, on their way to the sink

vars == <<shown, stored, taken>>

Nothing == [s \in Supers |-> NoObject]
NoneTaken == [s \in {} |-> NoObject]

Init == shown = Nothing /\ stored = Nothing /\ taken = NoneTaken

Paint ==
  /\ shown' \in [Supers -> Pictures]
  /\ UNCHANGED <<stored, taken>>

(* One round of pictures, all of the same moment, and none before the last *)
(* round is dealt with.                                                    *)
Take ==
  /\ taken = NoneTaken
  /\ \E S \in SUBSET Supers : taken' = [s \in S |-> shown[s]]
  /\ UNCHANGED <<shown, stored>>

(* A picture reaches the sink or is lost on the way. *)
Deliver(s) ==
  /\ s \in DOMAIN taken
  /\ stored' \in {stored, [stored EXCEPT ![s] = taken[s]]}
  /\ taken' = [r \in DOMAIN taken \ {s} |-> taken[r]]
  /\ UNCHANGED shown

(* A new season, or a new life of the server, whose world goes on.         *)
Begin ==
  /\ shown' \in {shown, Nothing}
  /\ stored' = Nothing
  /\ taken' = NoneTaken

Next ==
  \/ Paint
  \/ Take
  \/ \E s \in Supers : Deliver(s)
  \/ Begin

Spec == Init /\ [][Next]_vars
=============================================================================
