-------------------------------- MODULE Archive --------------------------------
(***************************************************************************)
(* What persistence promises to the world it saves: a restart goes back to *)
(* the last copy that was committed, whole, and a copy is what the world   *)
(* was at one moment after everything committed before.  The promise ends  *)
(* once two copies have been under way together; even then a restart finds *)
(* a world.  Nothing is said of files, threads or locks: Persist           *)
(* implements this module.                                                 *)
(***************************************************************************)
CONSTANTS
  Worlds,  \* what a world may be
  Fresh    \* the world of a first boot

VARIABLES
  world,   \* the world in memory
  saved,   \* the world a restart would go back to
  copies,  \* copies of the world being saved
  mixed    \* whether two have been under way together

vars == <<world, saved, copies, mixed>>

Init == world = Fresh /\ saved = Fresh /\ copies = {} /\ mixed = FALSE

Play ==
  /\ world' \in Worlds
  /\ UNCHANGED <<saved, copies, mixed>>

(* A save begins on the world as it is, or as a wipe has just left it.     *)
Copy ==
  /\ world' \in Worlds
  /\ copies' = copies \cup {world'}
  /\ mixed' = (mixed \/ copies # {})
  /\ UNCHANGED saved

Commit(w) ==
  /\ saved' = w
  /\ copies' = copies \ {w}
  /\ UNCHANGED <<world, mixed>>

(* A save fails, and what was committed stays. *)
Abandon(w) ==
  /\ copies' = copies \ {w}
  /\ UNCHANGED <<world, saved, mixed>>

(* Copies that were under way together may spoil each other.               *)
Spoil ==
  /\ mixed
  /\ saved' \in Worlds
  /\ copies' \subseteq copies
  /\ UNCHANGED <<world, mixed>>

(* The process ends and the next one boots. *)
Restart ==
  /\ world' = saved
  /\ copies' = {}
  /\ UNCHANGED <<saved, mixed>>

Next ==
  \/ Play
  \/ Copy
  \/ \E w \in copies : Commit(w) \/ Abandon(w)
  \/ Spoil
  \/ Restart

Spec == Init /\ [][Next]_vars
=============================================================================
