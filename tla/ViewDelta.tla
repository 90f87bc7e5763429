------------------------------ MODULE ViewDelta ------------------------------
(***************************************************************************)
(* The keyframe/delta protocol between the viewport thread and one client: *)
(* finish_view and PrevGrid (network.rs), the prev_grids of viewport_loop  *)
(* (server.rs), the latest-wins slot of the connection, and the page's     *)
(* clientGrid (client.html), which decodes frames concurrently and may     *)
(* finish them in any order.  Clients share nothing but the world, so one  *)
(* is enough.                                                              *)
(*                                                                         *)
(* A cell holds an owner id; on the wire it is an index into a palette the *)
(* keyframe carries and deltas append to.                                  *)
(***************************************************************************)
EXTENDS Integers, Sequences, FiniteSets

CONSTANTS
  Cells,        \* cells of the served grid
  Owners,       \* player ids
  Unclaimed,    \* owner id 0
  Views,        \* geometries the client may ask for
  None,         \* no grid, no frame
  DeltaShare,   \* a delta carries at most 1/DeltaShare of the cells: 4
  KF_INTERVAL,  \* deltas between two keyframes at most
  Interrupts,   \* what may interrupt the service: "pause", "reconnect", "forget"
  MaxFrames,    \* bound on the tile frames built
  MaxWire,      \* bound on the frames being decoded
  MaxInterrupts \* bound on the interruptions

ASSUME ViewDeltaAssumption ==
  /\ IsFiniteSet(Cells) /\ Cells # {}
  /\ Unclaimed \notin Owners
  /\ DeltaShare \in Nat \ {0} /\ KF_INTERVAL \in Nat \ {0}
  /\ Interrupts \subseteq {"pause", "reconnect", "forget"}
  /\ MaxFrames \in Nat /\ MaxWire \in Nat /\ MaxInterrupts \in Nat

VARIABLES
  world,   \* owner of each cell, as the sim has it
  geom,    \* the view the server has on file for the client
  prev,    \* the client's entry of prev_grids
  run,     \* how often that entry has been dropped, for the properties
  served,  \* whether the client is in pids: attached and not paused
  slot,    \* the watch channel: the tile frame the write task has not taken
  wire,    \* tile frames sent and not yet decoded
  grid,    \* clientGrid
  frames, interrupts  \* bound counters

vars == <<world, geom, prev, run, served, slot, wire, grid, frames, interrupts>>

Ids == Owners \cup {Unclaimed}
Seqs == 0 .. MaxFrames
Runs == 0 .. MaxInterrupts
Kept == -1    \* a cell a delta leaves alone
Mixed == -1   \* the run of a grid that took a delta another run has numbered

PrevGrid == [geom : Views, local : [Cells -> Nat], ids : Seq(Ids),
             seq : Seqs, sinceKf : 0 .. KF_INTERVAL]

(* A frame remembers the run that numbered it; the page does not see it.   *)
Keyframe == [kind : {"key"}, geom : Views, seq : Seqs, local : [Cells -> Nat], ids : Seq(Ids),
             run : Runs]
Delta == [kind : {"delta"}, geom : Views, seq : Seqs, base : Seqs,
          changed : [Cells -> Nat \cup {Kept}], add : Seq(Owners), run : Runs]

ClientGrid == [geom : Views, seq : Seqs, ids : Seq(Ids), tiles : [Cells -> Ids],
               run : Runs \cup {Mixed}]

ASSUME NoneAssumption == None \notin PrevGrid \cup Keyframe \cup Delta \cup ClientGrid

TypeOK ==
  /\ world \in [Cells -> Ids]
  /\ geom \in Views
  /\ prev \in PrevGrid \cup {None}
  /\ prev # None => \A c \in Cells : prev.local[c] < Len(prev.ids)
  /\ run \in Runs
  /\ served \in BOOLEAN
  /\ slot \in Keyframe \cup Delta \cup {None}
  /\ wire \subseteq Keyframe \cup Delta
  /\ IsFiniteSet(wire) /\ Cardinality(wire) <= MaxWire
  /\ grid \in ClientGrid \cup {None}
  /\ frames \in 0 .. MaxFrames /\ interrupts \in 0 .. MaxInterrupts

Init ==
  /\ world \in [Cells -> {Unclaimed}]
  /\ geom \in Views
  /\ prev = None
  /\ run = 0
  /\ served = TRUE
  /\ slot = None
  /\ wire = {}
  /\ grid = None
  /\ frames = 0 /\ interrupts = 0

-----------------------------------------------------------------------------
(* The world and the client's requests. *)

Paint(c, o) ==
  /\ world[c] # o
  /\ world' = [world EXCEPT ![c] = o]
  /\ UNCHANGED <<geom, prev, run, served, slot, wire, grid, frames, interrupts>>

(* view-set: the client pans or zooms. *)
ViewSet(g) ==
  /\ g # geom
  /\ geom' = g
  /\ UNCHANGED <<world, prev, run, served, slot, wire, grid, frames, interrupts>>

-----------------------------------------------------------------------------
(* finish_view. *)

(* The palette a grid needs on top of ids, in some order of first sight    *)
(* (the code scans row by row; a cell's place is not modelled).            *)
Extensions(ids) ==
  LET new == {world[c] : c \in Cells} \ {ids[n] : n \in 1 .. Len(ids)}
  IN  {s \in [1 .. Cardinality(new) -> new] : \A o \in new : \E n \in DOMAIN s : s[n] = o}

LocalIn(ids, o) == (CHOOSE n \in 1 .. Len(ids) : ids[n] = o) - 1

(* Mutant: a keyframe starts the numbering over. *)
NextSeqRestarts == 0

NextSeq == IF prev = None THEN 0 ELSE prev.seq + 1

BuildKeyframe ==
  \E add \in Extensions(<<Unclaimed>>) :
    LET ids   == <<Unclaimed>> \o add
        local == [c \in Cells |-> LocalIn(ids, world[c])]
    IN  /\ slot' = [kind |-> "key", geom |-> geom, seq |-> NextSeq, local |-> local, ids |-> ids,
                    run |-> run]
        /\ prev' = [geom |-> geom, local |-> local, ids |-> ids,
                    seq |-> NextSeq, sinceKf |-> 0]

ForceKeyframe == prev = None \/ prev.geom # geom \/ prev.sinceKf >= KF_INTERVAL

(* Mutant: owners that newly appear are not kept in the sticky palette.    *)
BuildDeltaLosesIds(add) ==
  LET ids     == prev.ids \o add
      local   == [c \in Cells |-> LocalIn(ids, world[c])]
      changed == [c \in Cells |-> IF local[c] # prev.local[c] THEN local[c] ELSE Kept]
  IN  /\ slot' = [kind |-> "delta", geom |-> geom, seq |-> prev.seq + 1, base |-> prev.seq,
                  changed |-> changed, add |-> add, run |-> run]
      /\ prev' = [prev EXCEPT !.local = local, !.seq = @ + 1, !.sinceKf = @ + 1]

BuildDelta(add) ==
  LET ids     == prev.ids \o add
      local   == [c \in Cells |-> LocalIn(ids, world[c])]
      changed == [c \in Cells |-> IF local[c] # prev.local[c] THEN local[c] ELSE Kept]
  IN  /\ slot' = [kind |-> "delta", geom |-> geom, seq |-> prev.seq + 1, base |-> prev.seq,
                  changed |-> changed, add |-> add, run |-> run]
      /\ prev' = [geom |-> geom, local |-> local, ids |-> ids,
                  seq |-> prev.seq + 1, sinceKf |-> prev.sinceKf + 1]

FewChanged ==
  Cardinality({c \in Cells : world[c] # prev.ids[prev.local[c] + 1]})
    <= Cardinality(Cells) \div DeltaShare

(* A cycle whose frames carry tiles.  It overwrites what the write task    *)
(* has not taken from the slot.                                            *)
TileCycle ==
  /\ served
  /\ frames < MaxFrames
  /\ frames' = frames + 1
  /\ IF ForceKeyframe THEN BuildKeyframe
     ELSE IF FewChanged THEN \E add \in Extensions(prev.ids) : BuildDelta(add)
     ELSE BuildKeyframe
  /\ UNCHANGED <<world, geom, run, served, wire, grid, interrupts>>

(* A cycle between tile frames: prev passes through untouched, and the     *)
(* ants-only frame takes the slot.  The grid has no use for it, so a slot  *)
(* that holds it is written None.                                          *)
AntsCycle ==
  /\ served
  /\ slot' = None
  /\ UNCHANGED <<world, geom, prev, run, served, wire, grid, frames, interrupts>>

(* A cycle that sends a batch while the client is not among pids drops its *)
(* grid; a resumed client starts over.                                     *)
CycleWithout ==
  /\ ~served
  /\ prev # None
  /\ prev' = None
  /\ run' = run + 1
  /\ UNCHANGED <<world, geom, served, slot, wire, grid, frames, interrupts>>

-----------------------------------------------------------------------------
(* The connection and the page. *)

(* The write task takes what is in the slot and sends it. *)
Send ==
  /\ slot # None
  /\ slot' = None
  /\ Cardinality(wire) < MaxWire
  /\ wire' = wire \cup {slot}
  /\ UNCHANGED <<world, geom, prev, run, served, grid, frames, interrupts>>

TakesKey(f) ==
  f.kind = "key" /\ (grid = None \/ grid.geom # f.geom \/ f.seq >= grid.seq)

(* Mutant: a delta is applied to whatever grid has its geometry. *)
TakesAnyDelta(f) ==
  f.kind = "delta" /\ grid # None /\ grid.geom = f.geom

TakesDelta(f) ==
  f.kind = "delta" /\ grid # None /\ grid.geom = f.geom /\ f.base = grid.seq

Local(ids, n) == IF n + 1 <= Len(ids) THEN ids[n + 1] ELSE Unclaimed

(* handleViewBin on a decoded tile frame; any other frame is dropped.      *)
Decode(f) ==
  /\ wire' = wire \ {f}
  /\ grid' =
       IF TakesKey(f)
       THEN [geom |-> f.geom, seq |-> f.seq, ids |-> f.ids, run |-> f.run,
             tiles |-> [c \in Cells |-> Local(f.ids, f.local[c])]]
       ELSE IF TakesDelta(f)
       THEN LET ids == grid.ids \o f.add
            IN  [geom |-> f.geom, seq |-> f.seq, ids |-> ids,
                 run |-> IF f.run = grid.run THEN f.run ELSE Mixed,
                 tiles |-> [c \in Cells |-> IF f.changed[c] = Kept THEN grid.tiles[c]
                                            ELSE Local(ids, f.changed[c])]]
       ELSE grid
  /\ UNCHANGED <<world, geom, prev, run, served, slot, frames, interrupts>>

(* view-pause when the tab is hidden, view-resume when it is shown. *)
Pause ==
  /\ "pause" \in Interrupts /\ interrupts < MaxInterrupts
  /\ served
  /\ served' = FALSE
  /\ interrupts' = interrupts + 1
  /\ UNCHANGED <<world, geom, prev, run, slot, wire, grid, frames>>

(* The connection drops: the slot goes with it.  The page keeps its grid,  *)
(* or not when the fourth attempt to reconnect has failed.                 *)
Disconnect ==
  /\ "reconnect" \in Interrupts /\ interrupts < MaxInterrupts
  /\ served
  /\ served' = FALSE
  /\ slot' = None
  /\ grid' \in {grid, None}
  /\ interrupts' = interrupts + 1
  /\ UNCHANGED <<world, geom, prev, run, wire, frames>>

Resume ==
  /\ ~served
  /\ served' = TRUE
  /\ UNCHANGED <<world, geom, prev, run, slot, wire, grid, frames, interrupts>>

(* world-wiped or a logout: the page forgets its grid. *)
Forget ==
  /\ "forget" \in Interrupts /\ interrupts < MaxInterrupts
  /\ grid' = None
  /\ interrupts' = interrupts + 1
  /\ UNCHANGED <<world, geom, prev, run, served, slot, wire, frames>>

Next ==
  \/ \E c \in Cells, o \in Ids : Paint(c, o)
  \/ \E g \in Views : ViewSet(g)
  \/ TileCycle
  \/ AntsCycle
  \/ CycleWithout
  \/ Send
  \/ \E f \in wire : Decode(f)
  \/ Pause
  \/ Disconnect
  \/ Resume
  \/ Forget

Spec == Init /\ [][Next]_vars

-----------------------------------------------------------------------------
(* "needs an exact base + matching geometry": a page whose grid carries    *)
(* the number and the geometry of the server's last tile frame shows what  *)
(* the server sent, whichever frames were overwritten or overtaken, as     *)
(* long as the frames it builds on were all numbered by the same run.      *)
InStep ==
  (grid # None /\ prev # None
     /\ grid.seq = prev.seq /\ grid.geom = prev.geom /\ grid.run = run)
    => \A c \in Cells : grid.tiles[c] = prev.ids[prev.local[c] + 1]

Newest(f) == f.kind = "key" /\ prev # None /\ f.geom = prev.geom /\ f.seq = prev.seq
Shows(f) == grid # None /\ grid.seq = f.seq /\ grid.geom = f.geom /\ grid.run = f.run

(* The page never goes back in time: within one geometry the number of the *)
(* grid it shows only grows, unless it has forgotten the grid.             *)
NotBack == grid # None /\ grid' # None /\ grid'.geom = grid.geom => grid'.seq >= grid.seq

(* The newest keyframe the server has built, once decoded, is what the     *)
(* page shows, if the grid it held was numbered by the same run.           *)
NewestShown ==
  \A f \in wire \ wire' : Newest(f) /\ (grid = None \/ grid.run = run) => Shows(f)'

(* The page's grid follows the server's frames, in whatever order they are *)
(* decoded: never an older one, and the newest keyframe at once.           *)
FollowsFrames == [][NotBack /\ NewestShown]_vars

(* "Resuming re-subscribes; the next keyframe repaints": the same without  *)
(* the condition.                                                          *)
ResumeRepaints ==
  [][\A f \in wire \ wire' : (Newest(f) /\ f.run = run) => Shows(f)']_vars
=============================================================================
