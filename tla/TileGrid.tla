------------------------------ MODULE TileGrid ------------------------------
(***************************************************************************)
(* What the territory store promises to the rest of the server: a map from *)
(* cells to owners, and the set of chunks whose content changed since the  *)
(* snapshot writer last drained it.  Nothing is said of palettes, indices, *)
(* compressed chunks or counts: TileMap implements this module.            *)
(***************************************************************************)
CONSTANTS
  Chunks,      \* keys of the 256x256 chunks
  Locals,      \* cells within one chunk
  Owners,      \* player ids that can own a tile
  Unclaimed    \* what get() answers for a cell nobody owns

Cells == Chunks \X Locals

VARIABLES
  owner,       \* the owner of each cell, or Unclaimed
  pending      \* chunks to re-upload

vars == <<owner, pending>>

Init ==
  /\ owner = [c \in Cells |-> Unclaimed]
  /\ pending = {}

Claimed(k) == \E l \in Locals : owner[<<k, l>>] # Unclaimed

(* One cell changes hands (or is cleared): exactly its chunk turns pending. *)
Assign(k, l, p) ==
  /\ owner[<<k, l>>] # p
  /\ owner' = [owner EXCEPT ![<<k, l>>] = p]
  /\ pending' = pending \cup {k}

(* Every tile of p is forfeited: the chunks that held one turn pending. *)
Forfeit(p) ==
  /\ owner' = [c \in Cells |-> IF owner[c] = p THEN Unclaimed ELSE owner[c]]
  /\ pending' = pending \cup {k \in Chunks : \E l \in Locals : owner[<<k, l>>] = p}

Wipe ==
  /\ owner' = [c \in Cells |-> Unclaimed]
  /\ pending' = {}

Drain ==
  /\ pending' = {}
  /\ UNCHANGED owner

(* A world loaded from disk has everything it holds to upload. *)
Reload ==
  /\ pending' = {k \in Chunks : Claimed(k)}
  /\ UNCHANGED owner

Next ==
  \/ \E k \in Chunks, l \in Locals, p \in Owners \cup {Unclaimed} : Assign(k, l, p)
  \/ \E p \in Owners : Forfeit(p)
  \/ Wipe
  \/ Drain
  \/ Reload

Spec == Init /\ [][Next]_vars
=============================================================================
