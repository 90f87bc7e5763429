---------------------------- MODULE SnapshotWriter ----------------------------
(***************************************************************************)
(* The snapshot writer thread (server.rs, snapshot_writer_loop) beside the *)
(* sim: it drains the dirty chunks and the retired epochs under the write  *)
(* lock, captures the super-tiles they fall in under the read lock and     *)
(* uploads them with no lock held, while the sim goes on painting, wiping  *)
(* and restarting.  The world is the abstract TileGrid, which TileMap      *)
(* implements; the sink (R2 or a directory) is external.                   *)
(***************************************************************************)
EXTENDS Integers, FiniteSets

CONSTANTS
  Chunks, Locals, Owners, Unclaimed,
  Supers,     \* keys of the S x S super-tiles
  SuperOf,    \* the super-tile of each chunk
  NoObject,   \* no tile stored under a key
  MaxEpoch,   \* bound on the clock, in seconds
  MayRestart, \* whether the process may restart
  MaxChanges  \* bound on the changes of the world

ASSUME SnapshotAssumption ==
  /\ SuperOf \in [Chunks -> Supers]
  /\ MaxEpoch \in Nat /\ MaxChanges \in Nat
  /\ MayRestart \in BOOLEAN

VARIABLES
  owner, pending,  \* the store, as TileGrid has it
  epoch,    \* world.epoch: the second of the last wipe or boot
  retire,   \* world.snapshot_retire
  sink,     \* what is stored under each epoch and super-tile
  writer,   \* the locals of the writer: where it is and what it holds
  \* What the properties look back at: objects nothing will put right.
  stale,    \* super-tiles a failed call, or a wipe that kept the epoch, left as they were
  left,     \* epochs a restart or a failed deletion left behind
  changes   \* bound counter

vars == <<owner, pending, epoch, retire, sink, writer, stale, left, changes>>

Grid == INSTANCE TileGrid

Epochs == 0 .. MaxEpoch
CellsOf(s) == {k \in Chunks : SuperOf[k] = s} \X Locals
Painted(s) == \E c \in CellsOf(s) : owner[c] # Unclaimed
Picture(s) == [c \in CellsOf(s) |-> owner[c]]
Wanted(s) == IF Painted(s) THEN Picture(s) ELSE NoObject
Idle == [at |-> "sleep", epoch |-> 0, keys |-> {}, retire |-> {}, snaps |-> <<>>]

Images == [Supers -> {NoObject} \cup UNION {[CellsOf(s) -> Owners \cup {Unclaimed}] : s \in Supers}]

TypeOK ==
  /\ owner \in [Grid!Cells -> Owners \cup {Unclaimed}]
  /\ pending \subseteq Chunks
  /\ epoch \in Epochs
  /\ retire \subseteq Epochs \ {epoch}
  /\ sink \in [Epochs -> Images]
  /\ writer.at \in {"sleep", "retire", "capture", "upload"}
  /\ writer.epoch \in Epochs /\ writer.retire \subseteq Epochs /\ writer.keys \subseteq Chunks
  /\ DOMAIN writer.snaps \subseteq Supers
  /\ \A s \in DOMAIN writer.snaps : writer.snaps[s] \in [CellsOf(s) -> Owners \cup {Unclaimed}]
  /\ stale \subseteq Supers /\ left \subseteq Epochs
  /\ changes \in 0 .. MaxChanges

(* Booted with what the snapshot held; nothing uploaded under this epoch.  *)
Init ==
  /\ owner \in [Grid!Cells -> {Unclaimed}]
  /\ pending = {}
  /\ epoch = 0
  /\ retire = {}
  /\ sink = [e \in Epochs |-> [s \in Supers |-> NoObject]]
  /\ writer = Idle
  /\ stale = {} /\ left = {}
  /\ changes = 0

-----------------------------------------------------------------------------
(* The sim. *)

Change ==
  /\ changes < MaxChanges
  /\ changes' = changes + 1
  /\ \/ \E k \in Chunks, l \in Locals, p \in Owners \cup {Unclaimed} : Grid!Assign(k, l, p)
     \/ \E p \in Owners : (\E c \in Grid!Cells : owner[c] = p) /\ Grid!Forfeit(p)
  /\ UNCHANGED <<epoch, retire, sink, writer, stale, left>>

(* Mutant: the epoch is rolled before the outgoing one is read. *)
RotateThenRead(now) ==
  /\ epoch' = now
  /\ retire' = IF now # epoch THEN retire \cup {now} ELSE retire

(* rotate_epoch_retiring_old *)
Rotate(now) ==
  /\ epoch' = now
  /\ retire' = IF now # epoch THEN retire \cup {epoch} ELSE retire

Wipe ==
  /\ changes < MaxChanges
  /\ changes' = changes + 1
  /\ Grid!Wipe
  /\ \E now \in Epochs :
       /\ now >= epoch
       /\ Rotate(now)
       /\ stale' = IF now = epoch THEN Supers ELSE {}
  /\ UNCHANGED <<sink, writer, left>>

(* The process restarts and restores its world: World::new takes a fresh   *)
(* epoch, everything it holds is to upload, and what the writer and the    *)
(* retire queue held is gone.                                              *)
Restart ==
  /\ MayRestart
  /\ \E now \in Epochs : now > epoch /\ epoch' = now
  /\ Grid!Reload
  /\ left' = left \cup {epoch} \cup retire \cup writer.retire
  /\ retire' = {}
  /\ stale' = {}
  /\ writer' = Idle
  /\ UNCHANGED <<sink, changes>>

-----------------------------------------------------------------------------
(* The writer. *)

(* Phase A1, under the write lock. *)
Drain ==
  /\ writer.at = "sleep"
  /\ Grid!Drain
  /\ writer' = [at |-> "retire", epoch |-> epoch, keys |-> pending,
                retire |-> retire, snaps |-> <<>>]
  /\ retire' = {}
  /\ UNCHANGED <<epoch, sink, stale, left, changes>>

(* delete_prefix of one retired epoch; a failure is logged. *)
DeletePrefix(e) ==
  /\ writer.at = "retire" /\ e \in writer.retire
  /\ writer' = [writer EXCEPT !.retire = @ \ {e}]
  /\ \/ sink' = [sink EXCEPT ![e] = [s \in Supers |-> NoObject]] /\ UNCHANGED left
     \/ left' = left \cup {e} /\ UNCHANGED sink
  /\ UNCHANGED <<owner, pending, epoch, retire, stale, changes>>

(* Nothing left to retire: with no keys the cycle is over. *)
Retired ==
  /\ writer.at = "retire" /\ writer.retire = {}
  /\ writer' = IF writer.keys = {} THEN Idle ELSE [writer EXCEPT !.at = "capture"]
  /\ UNCHANGED <<owner, pending, epoch, retire, sink, stale, left, changes>>

(* Mutant: only the dirty chunks of a super-tile are captured. *)
CapturedDirty(keys) ==
  [s \in {SuperOf[k] : k \in keys} |->
     [c \in CellsOf(s) |-> IF c[1] \in keys THEN owner[c] ELSE Unclaimed]]

(* Phase A2, under the read lock: every chunk of each super-tile.          *)
Captured(keys) == [s \in {SuperOf[k] : k \in keys} |-> Picture(s)]

Capture ==
  /\ writer.at = "capture"
  /\ writer' = [writer EXCEPT !.at = "upload", !.keys = {}, !.snaps = Captured(writer.keys)]
  /\ stale' = IF writer.epoch = epoch THEN stale \ {SuperOf[k] : k \in writer.keys} ELSE stale
  /\ UNCHANGED <<owner, pending, epoch, retire, sink, left, changes>>

AllEmpty(image) == \A c \in DOMAIN image : image[c] = Unclaimed

(* Mutant: an empty super-tile is skipped and its object stays. *)
StoredSkipsEmpty(e, s, image) ==
  IF AllEmpty(image) THEN sink ELSE [sink EXCEPT ![e][s] = image]

(* Mutant: the epoch is read again at the upload. *)
StoredUnderCurrent(e, s, image) ==
  [sink EXCEPT ![epoch][s] = IF AllEmpty(image) THEN NoObject ELSE image]

Stored(e, s, image) ==
  [sink EXCEPT ![e][s] = IF AllEmpty(image) THEN NoObject ELSE image]

(* Phase B: put or delete one super-tile; a failure is counted and logged. *)
Upload(s) ==
  /\ writer.at = "upload" /\ s \in DOMAIN writer.snaps
  /\ \/ /\ sink' = Stored(writer.epoch, s, writer.snaps[s])
        /\ UNCHANGED stale
     \/ /\ stale' = IF writer.epoch = epoch THEN stale \cup {s} ELSE stale
        /\ UNCHANGED sink
  /\ LET rest == DOMAIN writer.snaps \ {s}
     IN  writer' = IF rest = {} THEN Idle
                   ELSE [writer EXCEPT !.snaps = [r \in rest |-> writer.snaps[r]]]
  /\ UNCHANGED <<owner, pending, epoch, retire, left, changes>>

Next ==
  \/ Change
  \/ Wipe
  \/ Restart
  \/ Drain
  \/ \E e \in Epochs : DeletePrefix(e)
  \/ Retired
  \/ Capture
  \/ \E s \in Supers : Upload(s)

(* The writer is an endless loop on a thread of its own. *)
Fairness ==
  /\ WF_vars(Drain) /\ WF_vars(Retired) /\ WF_vars(Capture)
  /\ \A e \in Epochs : WF_vars(DeletePrefix(e))
  /\ \A s \in Supers : WF_vars(Upload(s))

Spec == Init /\ [][Next]_vars /\ Fairness

-----------------------------------------------------------------------------
InHand(s) ==
  writer.epoch = epoch /\ (s \in DOMAIN writer.snaps \/ \E k \in writer.keys : SuperOf[k] = s)

(* "so R2 tracks live territory": a super-tile whose stored object is not  *)
(* what the world shows is in hand with the writer, or one of its chunks   *)
(* is still pending; no change falls between the drain and the capture.    *)
(* The exceptions are named: a put or delete that failed is not tried      *)
(* again, and a wipe within the second of the last one keeps its objects.  *)
NothingForgotten ==
  \A s \in Supers \ stale :
    sink[epoch][s] # Wanted(s) =>
      InHand(s) \/ \E k \in pending : SuperOf[k] = s

(* "Race-free: nothing re-creates these keys": what is stored under an     *)
(* epoch a wipe has retired is still queued for deletion, whatever the     *)
(* writer was uploading when the epoch rolled.                             *)
RetiredQueued ==
  \A e \in Epochs \ left :
    e # epoch /\ (\E s \in Supers : sink[e][s] # NoObject) => e \in retire \cup writer.retire

(* Nothing is left in the store that should not be there, or out of it that *)
(* should, without the writer having it still to do.                       *)
SinkAccounted == NothingForgotten /\ RetiredQueued

(* The sink mirrors the world: what is stored under the current epoch is   *)
(* what the world showed at some time of this season, one capture after    *)
(* the other; what is still uploaded for an epoch that is over, and the    *)
(* deletions, are never seen there.                                        *)
Filed(image) == IF AllEmpty(image) THEN NoObject ELSE image

Mirrored == INSTANCE Mirror WITH
  Pictures <- {NoObject} \cup UNION {[CellsOf(s) -> Owners \cup {Unclaimed}] : s \in Supers},
  shown <- [s \in Supers |-> Wanted(s)],
  stored <- sink[epoch],
  taken <- [s \in {t \in DOMAIN writer.snaps : writer.epoch = epoch} |-> Filed(writer.snaps[s])]

MirrorsWorld == Mirrored!Spec

(* Territory the sim has stopped changing is eventually what is stored,    *)
(* but for what a failure left.                                            *)
SinkCatchesUp ==
  \A s \in Supers : <>[](s \in stale \/ sink[epoch][s] = Wanted(s))
=============================================================================
