------------------------- MODULE SnapshotWriterProofs -------------------------
(***************************************************************************)
(* Proofs about the snapshot writer, for every world, sink, clock and      *)
(* number of changes: what is stored is accounted for at every step.       *)
(***************************************************************************)
EXTENDS SnapshotWriter, TLAPS

-----------------------------------------------------------------------------
(* The inductive invariant. *)

Claims == Owners \cup {Unclaimed}
Pictures == UNION {[CellsOf(s) -> Claims] : s \in Supers}

(* The locals of the writer are a record of the right kind. *)
WriterTyped ==
  writer \in [at : {"sleep", "retire", "capture", "upload"}, epoch : Epochs,
              keys : SUBSET Chunks, retire : SUBSET Epochs,
              snaps : UNION {[S -> Pictures] : S \in SUBSET Supers}]

(* The clock only goes up: nothing is stored under an epoch to come, and   *)
(* those queued for deletion are over.                                     *)
EpochsPass ==
  /\ \A e \in Epochs : e > epoch => \A s \in Supers : sink[e][s] = NoObject
  /\ writer.epoch <= epoch
  /\ \A e \in retire \cup writer.retire : e < epoch

(* What the writer holds in each of its phases. *)
HoldsByPhase ==
  /\ writer.at # "upload" => DOMAIN writer.snaps = {}
  /\ writer.at \in {"sleep", "upload"} => writer.keys = {}
  /\ writer.at # "retire" => writer.retire = {}

(* While it works for an epoch that is over, that epoch waits for its next *)
(* round: what it still uploads will be deleted.                           *)
LateWorkQueued == writer.at # "sleep" => writer.epoch = epoch \/ writer.epoch \in retire

(* A capture is as good as the world, or its super-tile is pending again.  *)
CaptureFresh ==
  writer.epoch = epoch =>
    \A s \in DOMAIN writer.snaps \ stale :
      writer.snaps[s] = Picture(s) \/ \E k \in pending : SuperOf[k] = s

IInv ==
  /\ TypeOK /\ WriterTyped /\ EpochsPass /\ HoldsByPhase /\ LateWorkQueued /\ CaptureFresh
  /\ NothingForgotten /\ RetiredQueued

-----------------------------------------------------------------------------
(* Pictures. *)

(* What is captured of a super-tile is a picture of it. *)
LEMMA PictureTyped ==
  ASSUME TypeOK, NEW s \in Supers
  PROVE  /\ Picture(s) \in [CellsOf(s) -> Claims]
         /\ Picture(s) \in Pictures
<1>1. CellsOf(s) \subseteq Grid!Cells
  BY DEF CellsOf, Grid!Cells
<1>2. Picture(s) \in [CellsOf(s) -> Claims]
  BY <1>1 DEF TypeOK, Picture, Claims
<1> QED BY <1>2 DEF Pictures

(* An empty capture is the picture of a super-tile nothing is painted on.  *)
LEMMA EmptyPicture ==
  ASSUME NEW s \in Supers
  PROVE  Wanted(s) = IF AllEmpty(Picture(s)) THEN NoObject ELSE Picture(s)
<1>1. AllEmpty(Picture(s)) <=> ~Painted(s)
  BY DEF AllEmpty, Picture, Painted
<1> QED BY <1>1 DEF Wanted

(* A change leaves a super-tile as it was, or one of its chunks pending.   *)
LEMMA ChangeNoted ==
  ASSUME TypeOK, NEW s \in Supers,
         \A c \in Grid!Cells : owner'[c] # owner[c] => c[1] \in pending'
  PROVE  \/ \E k \in pending' : SuperOf[k] = s
         \/ Picture(s)' = Picture(s) /\ Wanted(s)' = Wanted(s)
<1>1. CASE \A c \in CellsOf(s) : owner'[c] = owner[c]
  BY <1>1 DEF Picture, Wanted, Painted
<1>2. CASE \E c \in CellsOf(s) : owner'[c] # owner[c]
  <2>1. PICK c \in CellsOf(s) : owner'[c] # owner[c]
    BY <1>2
  <2>2. c \in Grid!Cells /\ SuperOf[c[1]] = s
    BY DEF CellsOf, Grid!Cells
  <2> QED BY <2>1, <2>2
<1> QED BY <1>1, <1>2

-----------------------------------------------------------------------------
(* Each action preserves the invariant. *)

(* The writer at rest holds nothing. *)
LEMMA IdleTyped ==
  /\ Idle \in [at : {"sleep", "retire", "capture", "upload"}, epoch : Epochs,
               keys : SUBSET Chunks, retire : SUBSET Epochs,
               snaps : UNION {[S -> Pictures] : S \in SUBSET Supers}]
  /\ DOMAIN Idle.snaps = {}
<1>1. 0 \in Epochs
  BY SnapshotAssumption DEF Epochs
<1>2. <<>> \in [{} -> Pictures]
  OBVIOUS
<1>3. <<>> \in UNION {[S -> Pictures] : S \in SUBSET Supers}
  BY <1>2
<1> QED BY <1>1, <1>2, <1>3 DEF Idle

(* At boot nothing is stored and nothing is awaited. *)
LEMMA InitInv == Init => IInv
<1> SUFFICES ASSUME Init PROVE IInv
  OBVIOUS
<1>1. 0 \in Epochs /\ \A e \in Epochs : ~(e > 0 /\ e <= 0)
  BY SnapshotAssumption DEF Epochs
<1>2. WriterTyped /\ writer = Idle
  BY IdleTyped DEF Init, WriterTyped
<1>3. TypeOK
  <2>1. sink \in [Epochs -> Images]
    BY DEF Init, Images
  <2> QED BY <1>1, <1>2, <2>1, IdleTyped, SnapshotAssumption DEF Init, TypeOK, Idle
<1>4. EpochsPass
  BY <1>1 DEF Init, EpochsPass, Idle, Epochs
<1>5. HoldsByPhase
  BY <1>2, IdleTyped DEF HoldsByPhase, Idle
<1>6. LateWorkQueued
  BY <1>2 DEF LateWorkQueued, Idle
<1>7. CaptureFresh
  BY <1>2, IdleTyped DEF CaptureFresh
<1>8. NothingForgotten
  <2>1. \A s \in Supers : Wanted(s) = NoObject
    BY DEF Init, Wanted, Painted, CellsOf, Grid!Cells
  <2> QED BY <1>1, <2>1 DEF Init, NothingForgotten
<1>9. RetiredQueued
  BY DEF Init, RetiredQueued
<1> QED BY <1>2, <1>3, <1>4, <1>5, <1>6, <1>7, <1>8, <1>9 DEF IInv

(* The sim's changes: what differs is pending. *)
LEMMA ChangeInv ==
  ASSUME IInv, Change
  PROVE  IInv'
<1>1. TypeOK /\ WriterTyped
  BY DEF IInv
<1>2. /\ UNCHANGED <<epoch, retire, sink, writer, stale, left>>
      /\ changes' = changes + 1 /\ changes < MaxChanges
  BY DEF Change
<1>3. /\ owner' \in [Grid!Cells -> Owners \cup {Unclaimed}]
      /\ pending \subseteq pending' /\ pending' \subseteq Chunks
      /\ \A c \in Grid!Cells : owner'[c] # owner[c] => c[1] \in pending'
  <2>1. CASE \E k \in Chunks, l \in Locals, p \in Owners \cup {Unclaimed} : Grid!Assign(k, l, p)
    BY <1>1, <2>1 DEF TypeOK, Grid!Assign, Grid!Cells
  <2>2. CASE \E p \in Owners : Grid!Forfeit(p)
    BY <1>1, <2>2 DEF TypeOK, Grid!Forfeit, Grid!Cells
  <2> QED BY <2>1, <2>2 DEF Change
<1>4. \A s \in Supers : \/ \E k \in pending' : SuperOf[k] = s
                        \/ Picture(s)' = Picture(s) /\ Wanted(s)' = Wanted(s)
  BY <1>1, <1>3, ChangeNoted
<1>5. TypeOK'
  BY <1>1, <1>2, <1>3, SnapshotAssumption DEF TypeOK, Images, Epochs
<1>6. WriterTyped' /\ EpochsPass' /\ HoldsByPhase' /\ LateWorkQueued' /\ RetiredQueued'
  BY <1>2 DEF IInv, WriterTyped, EpochsPass, HoldsByPhase, LateWorkQueued, RetiredQueued, Pictures
<1>7. CaptureFresh'
  BY <1>1, <1>2, <1>3, <1>4 DEF IInv, CaptureFresh, TypeOK
<1>8. NothingForgotten'
  BY <1>2, <1>3, <1>4 DEF IInv, NothingForgotten, InHand
<1> QED BY <1>5, <1>6, <1>7, <1>8 DEF IInv

(* A wipe clears the ground; if the clock has moved on, the new epoch is   *)
(* empty and the old one is queued.                                        *)
LEMMA WipeInv ==
  ASSUME IInv, Wipe
  PROVE  IInv'
<1>1. TypeOK /\ WriterTyped /\ EpochsPass
  BY DEF IInv
<1>2. PICK now \in Epochs :
        /\ now >= epoch
        /\ epoch' = now
        /\ retire' = IF now # epoch THEN retire \cup {epoch} ELSE retire
        /\ stale' = IF now = epoch THEN Supers ELSE {}
  BY DEF Wipe, Rotate
<1>3. /\ UNCHANGED <<sink, writer, left>>
      /\ changes' = changes + 1 /\ changes < MaxChanges
      /\ owner' = [c \in Grid!Cells |-> Unclaimed] /\ pending' = {}
  BY DEF Wipe, Grid!Wipe
<1>4. \A s \in Supers : Wanted(s)' = NoObject
  BY <1>3 DEF Wanted, Painted, CellsOf, Grid!Cells
<1>5. /\ Epochs \subseteq Nat /\ epoch \in Epochs /\ writer.epoch \in Epochs
      /\ retire \subseteq Epochs /\ writer.retire \subseteq Epochs
  BY <1>1, SnapshotAssumption DEF TypeOK, Epochs
<1>6. TypeOK'
  <2>1. retire' \subseteq Epochs \ {epoch'}
    BY <1>1, <1>2, <1>5 DEF EpochsPass
  <2> QED BY <1>1, <1>2, <1>3, <2>1, SnapshotAssumption DEF TypeOK, Images, Epochs
<1>7. WriterTyped' /\ HoldsByPhase'
  BY <1>3 DEF IInv, WriterTyped, HoldsByPhase, Pictures
<1>8. EpochsPass'
  <2>0. now \in Nat /\ epoch \in Nat /\ now >= epoch /\ \A e \in Epochs : e \in Nat
    BY <1>2, <1>5
  <2>1. \A e \in Epochs : e > now => e > epoch
    BY ONLY <2>0
  <2>2. \A e \in Epochs : e < epoch => e < now
    BY ONLY <2>0
  <2>3. writer.epoch <= now
    <3>1. writer.epoch \in Nat /\ writer.epoch <= epoch
      BY <1>1, <1>5 DEF EpochsPass
    <3> QED BY ONLY <2>0, <3>1
  <2>4. \A e \in retire' \cup writer.retire : e < now
    BY <1>1, <1>2, <1>5, <2>2 DEF EpochsPass
  <2> QED BY <1>1, <1>2, <1>3, <2>1, <2>3, <2>4 DEF EpochsPass
<1>9. LateWorkQueued'
  BY <1>2, <1>3 DEF IInv, LateWorkQueued
<1>10. CaptureFresh'
  <2>1. CASE now = epoch
    BY <1>1, <1>2, <1>3, <2>1 DEF CaptureFresh, TypeOK
  <2>2. CASE now # epoch
    BY <1>1, <1>2, <1>3, <1>5, <2>2 DEF CaptureFresh, EpochsPass
  <2> QED BY <2>1, <2>2
<1>11. NothingForgotten'
  <2>1. CASE now = epoch
    BY <1>2, <2>1 DEF NothingForgotten
  <2>2. CASE now # epoch
    <3>1. now > epoch
      BY <1>2, <1>5, <2>2
    <3>2. \A s \in Supers : sink'[epoch'][s] = NoObject
      BY <1>1, <1>2, <1>3, <3>1 DEF EpochsPass
    <3> QED BY <1>4, <3>2 DEF NothingForgotten
  <2> QED BY <2>1, <2>2
<1>12. RetiredQueued'
  BY <1>2, <1>3 DEF IInv, RetiredQueued
<1> QED BY <1>6, <1>7, <1>8, <1>9, <1>10, <1>11, <1>12 DEF IInv

(* A restart has a fresh epoch, and everything it holds still to upload.   *)
LEMMA RestartInv ==
  ASSUME IInv, Restart
  PROVE  IInv'
<1>1. TypeOK /\ WriterTyped /\ EpochsPass
  BY DEF IInv
<1>2. /\ epoch' \in Epochs /\ epoch' > epoch
      /\ left' = left \cup {epoch} \cup retire \cup writer.retire
      /\ retire' = {} /\ stale' = {} /\ writer' = Idle
      /\ UNCHANGED <<sink, changes, owner>>
      /\ pending' = {k \in Chunks : Grid!Claimed(k)}
  BY DEF Restart, Grid!Reload
<1>3. /\ Epochs \subseteq Nat /\ epoch \in Epochs /\ 0 \in Epochs
      /\ retire \subseteq Epochs /\ writer.retire \subseteq Epochs
  BY <1>1, SnapshotAssumption DEF TypeOK, Epochs
<1>4. WriterTyped' /\ DOMAIN writer'.snaps = {}
  BY <1>2, IdleTyped DEF WriterTyped, Pictures, Epochs
<1>5. /\ writer'.at = "sleep" /\ writer'.epoch = 0
      /\ writer'.keys = {} /\ writer'.retire = {}
  BY <1>2 DEF Idle
<1>6. TypeOK'
  BY <1>1, <1>2, <1>3, <1>4, <1>5, SnapshotAssumption DEF TypeOK, Images, Epochs
<1>7. EpochsPass'
  BY <1>1, <1>2, <1>3, <1>5 DEF EpochsPass
<1>8. HoldsByPhase' /\ LateWorkQueued' /\ CaptureFresh'
  BY <1>4, <1>5 DEF HoldsByPhase, LateWorkQueued, CaptureFresh
<1>9. NothingForgotten'
  <2>1. \A s \in Supers : sink'[epoch'][s] = NoObject
    BY <1>1, <1>2 DEF EpochsPass
  <2>2. ASSUME NEW s \in Supers, Wanted(s)' # NoObject
        PROVE  \E k \in pending' : SuperOf[k] = s
    <3>1. Painted(s)
      BY <1>2, <2>2 DEF Wanted, Painted
    <3>2. PICK c \in CellsOf(s) : owner[c] # Unclaimed
      BY <3>1 DEF Painted
    <3> QED BY <1>2, <3>2 DEF CellsOf, Grid!Claimed
  <2> QED BY <2>1, <2>2 DEF NothingForgotten
<1>10. RetiredQueued'
  BY <1>2 DEF IInv, RetiredQueued
<1> QED BY <1>4, <1>6, <1>7, <1>8, <1>9, <1>10 DEF IInv

(* Phase A1 takes over what was pending and what was queued. *)
LEMMA DrainInv ==
  ASSUME IInv, Drain
  PROVE  IInv'
<1>1. TypeOK /\ WriterTyped /\ EpochsPass /\ HoldsByPhase
  BY DEF IInv
<1>2. /\ writer.at = "sleep" /\ pending' = {} /\ retire' = {}
      /\ writer' = [at |-> "retire", epoch |-> epoch, keys |-> pending,
                    retire |-> retire, snaps |-> <<>>]
      /\ UNCHANGED <<owner, epoch, sink, stale, left, changes>>
  BY DEF Drain, Grid!Drain
<1>3. /\ writer'.at = "retire" /\ writer'.epoch = epoch /\ writer'.keys = pending
      /\ writer'.retire = retire /\ writer'.snaps = <<>>
  BY <1>2
<1>4. <<>> \in UNION {[S -> Pictures] : S \in SUBSET Supers} /\ DOMAIN <<>> = {}
  BY IdleTyped DEF Idle
<1>5. WriterTyped'
  BY <1>1, <1>2, <1>4 DEF TypeOK, WriterTyped, Pictures, Epochs
<1>6. TypeOK'
  BY <1>1, <1>2, <1>3, <1>4, SnapshotAssumption DEF TypeOK, Images, Epochs
<1>7. EpochsPass'
  BY <1>1, <1>2, <1>3, SnapshotAssumption DEF TypeOK, EpochsPass, Epochs
<1>8. HoldsByPhase' /\ LateWorkQueued' /\ CaptureFresh'
  BY <1>2, <1>3, <1>4 DEF HoldsByPhase, LateWorkQueued, CaptureFresh
<1>9. NothingForgotten'
  <2>1. ASSUME NEW s \in Supers PROVE ~InHand(s)
    BY <1>1, <1>2 DEF InHand, HoldsByPhase
  <2>2. \A s \in Supers : Wanted(s)' = Wanted(s)
    BY <1>2 DEF Wanted, Painted, Picture
  <2> QED BY <1>2, <1>3, <2>1, <2>2 DEF IInv, NothingForgotten, InHand
<1>10. RetiredQueued'
  BY <1>1, <1>2, <1>3 DEF IInv, RetiredQueued, HoldsByPhase
<1> QED BY <1>5, <1>6, <1>7, <1>8, <1>9, <1>10 DEF IInv

(* A queued epoch is over: deleting it touches nothing that is wanted.     *)
LEMMA DeletePrefixInv ==
  ASSUME IInv, NEW e \in Epochs, DeletePrefix(e)
  PROVE  IInv'
<1>1. TypeOK /\ WriterTyped /\ EpochsPass /\ HoldsByPhase
  BY DEF IInv
<1>2. /\ writer.at = "retire" /\ e \in writer.retire
      /\ writer' = [writer EXCEPT !.retire = @ \ {e}]
      /\ UNCHANGED <<owner, pending, epoch, retire, stale, changes>>
      /\ \/ sink' = [sink EXCEPT ![e] = [s \in Supers |-> NoObject]] /\ left' = left
         \/ left' = left \cup {e} /\ sink' = sink
  BY DEF DeletePrefix
<1>3. /\ writer' \in [at : {"retire"}, epoch : Epochs, keys : SUBSET Chunks, retire : SUBSET Epochs,
                      snaps : UNION {[S -> Pictures] : S \in SUBSET Supers}]
      /\ writer'.epoch = writer.epoch /\ writer'.keys = writer.keys
      /\ writer'.retire = writer.retire \ {e} /\ writer'.snaps = writer.snaps
  BY <1>1, <1>2 DEF WriterTyped
<1>4. /\ \A d \in Epochs : \A s \in Supers :
           sink'[d][s] = sink[d][s] \/ (d = e /\ sink'[d][s] = NoObject)
      /\ sink' \in [Epochs -> Images]
  <2>1. [s \in Supers |-> NoObject] \in Images
    BY DEF Images
  <2> QED BY <1>1, <1>2, <2>1 DEF TypeOK
<1>5. e # epoch
  BY <1>1, <1>2, SnapshotAssumption DEF EpochsPass, TypeOK, Epochs
<1>6. TypeOK' /\ WriterTyped'
  BY <1>1, <1>2, <1>3, <1>4 DEF TypeOK, WriterTyped, Images, Epochs, Pictures
<1>7. EpochsPass'
  BY <1>1, <1>2, <1>3, <1>4 DEF EpochsPass
<1>8. HoldsByPhase' /\ LateWorkQueued'
  BY <1>1, <1>2, <1>3 DEF IInv, HoldsByPhase, LateWorkQueued
<1>9. CaptureFresh'
  BY <1>2, <1>3 DEF IInv, CaptureFresh, Picture
<1>10. NothingForgotten'
  BY <1>1, <1>2, <1>3, <1>4, <1>5 DEF IInv, TypeOK, NothingForgotten, InHand, Wanted, Painted, Picture
<1>11. RetiredQueued'
  <2>1. CASE sink' = [sink EXCEPT ![e] = [s \in Supers |-> NoObject]] /\ left' = left
    <3>1. \A s \in Supers : sink'[e][s] = NoObject
      BY <1>1, <2>1 DEF TypeOK
    <3> QED BY <1>2, <1>3, <1>4, <2>1, <3>1 DEF IInv, RetiredQueued
  <2>2. CASE left' = left \cup {e} /\ sink' = sink
    BY <1>2, <1>3, <2>2 DEF IInv, RetiredQueued
  <2> QED BY <1>2, <2>1, <2>2
<1> QED BY <1>6, <1>7, <1>8, <1>9, <1>10, <1>11 DEF IInv

(* The writer has deleted what it was told to and reads the clock anew.    *)
LEMMA RetiredInv ==
  ASSUME IInv, Retired
  PROVE  IInv'
<1>1. TypeOK /\ WriterTyped /\ EpochsPass /\ HoldsByPhase
  BY DEF IInv
<1>2. /\ writer.at = "retire" /\ writer.retire = {} /\ DOMAIN writer.snaps = {}
      /\ UNCHANGED <<owner, pending, epoch, retire, sink, stale, left, changes>>
  BY <1>1 DEF Retired, HoldsByPhase
<1>3. CASE writer.keys = {} /\ writer' = Idle
  <2>1. /\ writer'.at = "sleep" /\ writer'.epoch = 0
        /\ writer'.keys = {} /\ writer'.retire = {} /\ DOMAIN writer'.snaps = {}
    BY <1>3, IdleTyped DEF Idle
  <2>2. 0 \in Epochs /\ 0 <= epoch
    BY <1>1, SnapshotAssumption DEF TypeOK, Epochs
  <2>3. WriterTyped'
    BY <1>3, IdleTyped DEF WriterTyped, Pictures, Epochs
  <2>4. TypeOK'
    BY <1>1, <1>2, <2>1, <2>2 DEF TypeOK, Images, Epochs
  <2>5. EpochsPass' /\ HoldsByPhase' /\ LateWorkQueued' /\ CaptureFresh'
    BY <1>1, <1>2, <2>1, <2>2 DEF EpochsPass, HoldsByPhase, LateWorkQueued, CaptureFresh
  <2>6. NothingForgotten'
    BY <1>2, <1>3, <2>1 DEF IInv, NothingForgotten, InHand, Wanted, Painted, Picture
  <2>7. RetiredQueued'
    BY <1>2, <2>1 DEF IInv, RetiredQueued
  <2> QED BY <2>3, <2>4, <2>5, <2>6, <2>7 DEF IInv
<1>4. CASE writer' = [writer EXCEPT !.at = "capture"]
  <2>1. /\ writer' \in [at : {"capture"}, epoch : Epochs, keys : SUBSET Chunks, retire : SUBSET Epochs,
                        snaps : UNION {[S -> Pictures] : S \in SUBSET Supers}]
        /\ writer'.epoch = writer.epoch /\ writer'.keys = writer.keys
        /\ writer'.retire = writer.retire /\ writer'.snaps = writer.snaps
    BY <1>1, <1>4 DEF WriterTyped
  <2>2. TypeOK' /\ WriterTyped'
    BY <1>1, <1>2, <2>1 DEF TypeOK, WriterTyped, Images, Epochs, Pictures
  <2>3. EpochsPass' /\ HoldsByPhase' /\ LateWorkQueued' /\ CaptureFresh'
    BY <1>1, <1>2, <2>1 DEF IInv, EpochsPass, HoldsByPhase, LateWorkQueued, CaptureFresh
  <2>4. NothingForgotten'
    BY <1>2, <2>1 DEF IInv, NothingForgotten, InHand, Wanted, Painted, Picture
  <2>5. RetiredQueued'
    BY <1>2, <2>1 DEF IInv, RetiredQueued
  <2> QED BY <2>2, <2>3, <2>4, <2>5 DEF IInv
<1> QED BY <1>3, <1>4 DEF Retired

(* Phase A2: what was in hand as keys is now in hand as pictures. *)
LEMMA CaptureInv ==
  ASSUME IInv, Capture
  PROVE  IInv'
<1> DEFINE held == {SuperOf[k] : k \in writer.keys}
           shots == [s \in held |-> Picture(s)]
<1>1. TypeOK /\ WriterTyped /\ EpochsPass /\ HoldsByPhase
  BY DEF IInv
<1>2. /\ writer.at = "capture"
      /\ writer' = [writer EXCEPT !.at = "upload", !.keys = {}, !.snaps = shots]
      /\ stale' = IF writer.epoch = epoch THEN stale \ held ELSE stale
      /\ UNCHANGED <<owner, pending, epoch, retire, sink, left, changes>>
  BY DEF Capture, Captured
<1>3. held \subseteq Supers
  BY <1>1, SnapshotAssumption DEF TypeOK
<1>4. /\ shots \in [held -> Pictures]
      /\ \A s \in held : shots[s] = Picture(s) /\ shots[s] \in [CellsOf(s) -> Claims]
  BY <1>1, <1>3, PictureTyped
<1>5. shots \in UNION {[S -> Pictures] : S \in SUBSET Supers} /\ DOMAIN shots = held
  BY <1>3, <1>4
<1> HIDE DEF shots
<1>6. /\ writer' \in [at : {"upload"}, epoch : Epochs, keys : {{}}, retire : SUBSET Epochs,
                      snaps : UNION {[S -> Pictures] : S \in SUBSET Supers}]
      /\ writer'.epoch = writer.epoch /\ writer'.retire = writer.retire /\ writer'.snaps = shots
  BY <1>1, <1>2, <1>5 DEF WriterTyped
<1>7. WriterTyped'
  BY <1>6 DEF WriterTyped, Epochs, Pictures
<1>8. TypeOK'
  BY <1>1, <1>2, <1>3, <1>4, <1>5, <1>6 DEF TypeOK, Images, Epochs, Claims
<1>9. EpochsPass' /\ HoldsByPhase' /\ LateWorkQueued'
  BY <1>1, <1>2, <1>6 DEF IInv, EpochsPass, HoldsByPhase, LateWorkQueued
<1>10. CaptureFresh'
  <2>1. \A s \in held : Picture(s)' = Picture(s)
    BY <1>2 DEF Picture
  <2> QED BY <1>2, <1>4, <1>5, <1>6, <2>1 DEF CaptureFresh
<1>11. NothingForgotten'
  <2>1. ASSUME NEW s \in Supers PROVE Wanted(s)' = Wanted(s)
    BY <1>2 DEF Wanted, Painted, Picture
  <2>2. ASSUME NEW s \in Supers, InHand(s) PROVE InHand(s)'
    BY <1>1, <1>2, <1>5, <1>6, <2>2 DEF InHand, HoldsByPhase
  <2>3. ASSUME NEW s \in held, writer.epoch = epoch PROVE InHand(s)'
    BY <1>2, <1>5, <1>6, <2>3 DEF InHand
  <2>4. ASSUME NEW s \in Supers, s \notin stale', sink'[epoch'][s] # Wanted(s)'
        PROVE  InHand(s)' \/ \E k \in pending' : SuperOf[k] = s
    <3>1. CASE s \in stale
      BY <1>2, <2>3, <2>4, <3>1
    <3>2. CASE s \notin stale
      BY <1>2, <2>1, <2>2, <2>4, <3>2 DEF IInv, NothingForgotten
    <3> QED BY <3>1, <3>2
  <2> QED BY <2>4 DEF NothingForgotten
<1>12. RetiredQueued'
  BY <1>2, <1>6 DEF IInv, RetiredQueued
<1> QED BY <1>7, <1>8, <1>9, <1>10, <1>11, <1>12 DEF IInv

(* Phase B: one picture is stored under the epoch of the capture, or the   *)
(* failure is on record.                                                   *)
LEMMA UploadInv ==
  ASSUME IInv, NEW s \in Supers, Upload(s)
  PROVE  IInv'
<1> DEFINE rest == DOMAIN writer.snaps \ {s}
           others == [r \in rest |-> writer.snaps[r]]
           image == IF AllEmpty(writer.snaps[s]) THEN NoObject ELSE writer.snaps[s]
<1>1. TypeOK /\ WriterTyped /\ EpochsPass /\ HoldsByPhase
  BY DEF IInv
<1>2. /\ writer.at = "upload" /\ s \in DOMAIN writer.snaps
      /\ writer.keys = {} /\ writer.retire = {}
      /\ writer' = IF rest = {} THEN Idle ELSE [writer EXCEPT !.snaps = others]
      /\ UNCHANGED <<owner, pending, epoch, retire, left, changes>>
      /\ \/ sink' = [sink EXCEPT ![writer.epoch][s] = image] /\ stale' = stale
         \/ /\ stale' = IF writer.epoch = epoch THEN stale \cup {s} ELSE stale
            /\ sink' = sink
  BY <1>1 DEF Upload, Stored, HoldsByPhase
<1>3. /\ rest \subseteq Supers
      /\ others \in [rest -> Pictures]
      /\ \A r \in rest : others[r] = writer.snaps[r]
  BY <1>1 DEF TypeOK, Pictures, Claims
<1>4. others \in UNION {[S -> Pictures] : S \in SUBSET Supers} /\ DOMAIN others = rest
  BY <1>3
<1>5. image \in {NoObject} \cup Pictures
  BY <1>1, <1>2 DEF TypeOK, Pictures, Claims
<1> HIDE DEF rest, others, image
<1>6. /\ sink' \in [Epochs -> Images]
      /\ \A d \in Epochs, r \in Supers :
           \/ sink'[d][r] = sink[d][r] /\ ~(d = writer.epoch /\ r = s)
           \/ d = writer.epoch /\ r = s /\ (sink'[d][r] = image \/ s \in stale' \/ d # epoch)
  <2>1. CASE sink' = [sink EXCEPT ![writer.epoch][s] = image] /\ stale' = stale
    <3>1. sink \in [Epochs -> [Supers -> {NoObject} \cup Pictures]] /\ writer.epoch \in Epochs
      BY <1>1 DEF TypeOK, Images, Pictures, Claims
    <3>2. sink' \in [Epochs -> [Supers -> {NoObject} \cup Pictures]]
      BY <1>5, <2>1, <3>1
    <3>3. \A d \in Epochs, r \in Supers :
            sink'[d][r] = IF d = writer.epoch /\ r = s THEN image ELSE sink[d][r]
      BY <2>1, <3>1
    <3> QED BY <3>2, <3>3 DEF Images, Pictures, Claims
  <2>2. CASE sink' = sink /\ stale' = IF writer.epoch = epoch THEN stale \cup {s} ELSE stale
    BY <1>1, <2>2 DEF TypeOK, Images
  <2> QED BY <1>2, <2>1, <2>2
<1>7. \A d \in Epochs, r \in Supers : sink'[d][r] # sink[d][r] => d = writer.epoch /\ r = s
  BY <1>6
<1>8. /\ writer' \in [at : {"sleep", "upload"}, epoch : Epochs, keys : {{}}, retire : {{}},
                      snaps : UNION {[S -> Pictures] : S \in SUBSET Supers}]
      /\ DOMAIN writer'.snaps = rest
      /\ \A r \in rest : writer'.snaps[r] = writer.snaps[r]
      /\ rest # {} => writer'.at = "upload" /\ writer'.epoch = writer.epoch
      /\ rest = {} => writer'.at = "sleep" /\ writer'.epoch = 0
  <2>1. CASE rest = {}
    BY <1>2, <2>1, IdleTyped DEF Idle
  <2>2. CASE rest # {}
    BY <1>1, <1>2, <1>3, <1>4, <2>2 DEF WriterTyped
  <2> QED BY <2>1, <2>2
<1>9. WriterTyped'
  BY <1>8 DEF WriterTyped, Epochs, Pictures
<1>10. TypeOK'
  BY <1>1, <1>2, <1>3, <1>6, <1>8 DEF TypeOK, Images, Epochs, rest
<1>11. EpochsPass'
  <2>1. \A d \in Epochs : d > epoch => d # writer.epoch
    BY <1>1, SnapshotAssumption DEF EpochsPass, TypeOK, Epochs
  <2>2. 0 <= epoch
    BY <1>1, SnapshotAssumption DEF TypeOK, Epochs
  <2>3. \A d \in Epochs : d > epoch => \A r \in Supers : sink'[d][r] = NoObject
    BY <1>1, <1>7, <2>1 DEF EpochsPass
  <2>4. writer'.epoch <= epoch
    BY <1>1, <1>8, <2>2 DEF EpochsPass
  <2> QED BY <1>1, <1>2, <1>8, <2>3, <2>4 DEF EpochsPass
<1>12. HoldsByPhase'
  BY <1>8 DEF HoldsByPhase
<1>13. LateWorkQueued'
  BY <1>2, <1>8 DEF IInv, LateWorkQueued
<1>14. CaptureFresh'
  <2>1. \A r \in Supers : Picture(r)' = Picture(r)
    BY <1>2 DEF Picture
  <2>2. stale \subseteq stale' /\ rest \subseteq DOMAIN writer.snaps
    BY <1>2 DEF rest
  <2> QED BY <1>2, <1>3, <1>8, <2>1, <2>2 DEF IInv, CaptureFresh
<1>15. NothingForgotten'
  <2>1. ASSUME NEW r \in Supers PROVE Wanted(r)' = Wanted(r)
    BY <1>2 DEF Wanted, Painted, Picture
  <2>2. stale \subseteq stale' /\ epoch \in Epochs
    BY <1>1, <1>2 DEF TypeOK
  <2>3. ASSUME NEW r \in Supers, r \notin stale', sink'[epoch][r] # Wanted(r)
        PROVE  InHand(r)' \/ \E k \in pending : SuperOf[k] = r
    <3>1. CASE writer.epoch = epoch /\ r = s
      <4>1. sink'[epoch][s] = image
        BY <1>6, <2>2, <2>3, <3>1
      <4>2. CASE writer.snaps[s] = Picture(s)
        BY <2>3, <3>1, <4>1, <4>2, EmptyPicture DEF image
      <4>3. CASE \E k \in pending : SuperOf[k] = s
        BY <3>1, <4>3
      <4> QED BY <1>2, <2>2, <2>3, <3>1, <4>2, <4>3 DEF IInv, CaptureFresh
    <3>2. CASE ~(writer.epoch = epoch /\ r = s)
      <4>1. sink[epoch][r] # Wanted(r) /\ r \notin stale
        BY <1>7, <2>2, <2>3, <3>2
      <4>2. CASE InHand(r)
        BY <1>2, <1>8, <3>2, <4>2 DEF InHand, rest
      <4>3. CASE \E k \in pending : SuperOf[k] = r
        BY <4>3
      <4> QED BY <4>1, <4>2, <4>3 DEF IInv, NothingForgotten
    <3> QED BY <3>1, <3>2
  <2> QED BY <1>2, <2>1, <2>3 DEF NothingForgotten
<1>16. RetiredQueued'
  <2>1. CASE writer.epoch = epoch
    BY <1>2, <1>7, <1>8, <2>1 DEF IInv, RetiredQueued
  <2>2. CASE writer.epoch \in retire
    BY <1>2, <1>7, <1>8, <2>2 DEF IInv, RetiredQueued
  <2> QED BY <1>2, <2>1, <2>2 DEF IInv, LateWorkQueued
<1> QED BY <1>9, <1>10, <1>11, <1>12, <1>13, <1>14, <1>15, <1>16 DEF IInv

(* Every step preserves the inductive invariant. *)
LEMMA NextInv == IInv /\ [Next]_vars => IInv'
<1> SUFFICES ASSUME IInv, [Next]_vars PROVE IInv'
  OBVIOUS
<1>1. CASE UNCHANGED vars
  BY <1>1 DEF vars, IInv, TypeOK, WriterTyped, EpochsPass, HoldsByPhase, LateWorkQueued,
              CaptureFresh, NothingForgotten, RetiredQueued, InHand, Wanted, Painted, Picture,
              Images, Epochs, Pictures
<1>2. CASE Next
  BY <1>2, ChangeInv, WipeInv, RestartInv, DrainInv, DeletePrefixInv, RetiredInv, CaptureInv,
     UploadInv DEF Next
<1> QED BY <1>1, <1>2

-----------------------------------------------------------------------------
(* The invariant holds in every reachable state. *)
THEOREM Invariance == Spec => []IInv
BY InitInv, NextInv, PTL DEF Spec

(* Every reachable state of the writer and of the world beside it is       *)
(* well-typed; in particular the current epoch is never queued for         *)
(* deletion (World::rotate_epoch_retiring_old).                            *)
THEOREM TypeCorrect == Spec => []TypeOK
<1>1. IInv => TypeOK
  BY DEF IInv
<1> QED BY <1>1, Invariance, PTL

(* For every set of chunks and super-tiles, every clock and whatever       *)
(* changes, wipes, restarts and failed calls come between the steps of     *)
(* snapshot_writer_loop: what is stored and should not be, or should be    *)
(* and is not, the writer has still to do.                                 *)
THEOREM NothingLost == Spec => []SinkAccounted
<1>1. IInv => SinkAccounted
  BY DEF IInv, SinkAccounted
<1> QED BY <1>1, Invariance, PTL

-----------------------------------------------------------------------------
(* The sink as a mirror of the world: the state of Mirror, as a reader of  *)
(* the current epoch sees it. *)

Looks == {NoObject} \cup UNION {[CellsOf(s) -> Owners \cup {Unclaimed}] : s \in Supers}
Shows == [s \in Supers |-> Wanted(s)]
Reads == sink[epoch]
Ours == {s \in DOMAIN writer.snaps : writer.epoch = epoch}
Takes == [s \in Ours |-> Filed(writer.snaps[s])]
NoneTaken == [s \in {} |-> NoObject]
ShownTyped == Shows \in [Supers -> Looks]

(* What the world shows is a picture, or nothing. *)
LEMMA ShowsPictures == TypeOK => ShownTyped
<1> SUFFICES ASSUME TypeOK, NEW s \in Supers PROVE Wanted(s) \in Looks
  BY DEF ShownTyped, Shows
<1>1. Picture(s) \in [CellsOf(s) -> Owners \cup {Unclaimed}]
  BY PictureTyped DEF Claims
<1> QED BY <1>1 DEF Wanted, Looks

(* Filing a capture gives what the world shows of the super-tile. *)
LEMMA FiledPicture ==
  ASSUME NEW s \in Supers
  PROVE  Filed(Picture(s)) = Wanted(s)
BY EmptyPicture DEF Filed

(* The world shows the same where nothing changed hands. *)
LEMMA ShowsSame ==
  ASSUME owner' = owner
  PROVE  Shows' = Shows /\ \A s \in Supers : Wanted(s)' = Wanted(s)
<1>1. \A s \in Supers : Wanted(s)' = Wanted(s)
  BY DEF Wanted, Painted, Picture
<1> QED BY <1>1 DEF Shows

(* Without captures, or with those of an epoch that is over, the mirror    *)
(* has nothing on its way.                                                 *)
LEMMA NothingTaken ==
  ASSUME DOMAIN writer.snaps = {} \/ writer.epoch # epoch
  PROVE  Takes = NoneTaken
<1>1. Ours = {}
  BY DEF Ours
<1>2. [s \in {} |-> Filed(writer.snaps[s])] = [s \in {} |-> NoObject]
  OBVIOUS
<1> QED BY <1>1, <1>2 DEF Takes, NoneTaken

LEMMA NothingTakenNext ==
  ASSUME DOMAIN writer'.snaps = {} \/ writer'.epoch # epoch'
  PROVE  Takes' = NoneTaken
<1>1. Ours' = {}
  BY DEF Ours
<1>2. [s \in {} |-> Filed(writer'.snaps[s])] = [s \in {} |-> NoObject]
  OBVIOUS
<1>3. Takes' = [s \in Ours' |-> Filed(writer'.snaps[s])]
  BY DEF Takes, Filed, AllEmpty
<1> QED BY <1>1, <1>2, <1>3 DEF NoneTaken

(* The steps of the mirror, over this module's names. *)
LEMMA MirrorKept ==
  ASSUME Shows' = Shows, Reads' = Reads, Takes' = Takes
  PROVE  UNCHANGED Mirrored!vars
BY DEF Mirrored!vars, Shows, Reads, Takes, Ours

LEMMA MirrorPaints ==
  ASSUME ShownTyped', Reads' = Reads, Takes' = Takes
  PROVE  Mirrored!Paint
BY DEF Mirrored!Paint, ShownTyped, Looks, Shows, Reads, Takes, Ours

LEMMA MirrorBegins ==
  ASSUME Shows' \in {Shows, [s \in Supers |-> NoObject]},
         Reads' = [s \in Supers |-> NoObject], Takes' = NoneTaken
  PROVE  Mirrored!Begin
BY DEF Mirrored!Begin, Mirrored!Nothing, Mirrored!NoneTaken, Shows, Reads, Takes, Ours, NoneTaken

LEMMA MirrorTakes ==
  ASSUME Shows' = Shows, Reads' = Reads, Takes = NoneTaken,
         NEW S \in SUBSET Supers, Takes' = [s \in S |-> Shows[s]]
  PROVE  Mirrored!Take
BY DEF Mirrored!Take, Mirrored!NoneTaken, Shows, Reads, Takes, Ours, NoneTaken

LEMMA MirrorDelivers ==
  ASSUME NEW s \in Supers, s \in Ours, Shows' = Shows,
         Reads' \in {Reads, [Reads EXCEPT ![s] = Takes[s]]},
         Takes' = [r \in Ours \ {s} |-> Takes[r]]
  PROVE  Mirrored!Deliver(s)
<1>1. DOMAIN Takes = Ours
  BY DEF Takes
<1>2. /\ s \in DOMAIN Takes
      /\ Reads' \in {Reads, [Reads EXCEPT ![s] = Takes[s]]}
      /\ Takes' = [r \in DOMAIN Takes \ {s} |-> Takes[r]]
      /\ Shows' = Shows
  BY <1>1
<1> QED BY <1>2 DEF Mirrored!Deliver, Shows, Reads, Takes, Ours

(* Nothing is stored under an epoch to come, so a new one reads as empty.  *)
LEMMA NewEpochEmpty ==
  ASSUME IInv, sink' = sink, epoch' \in Epochs, epoch' > epoch
  PROVE  Reads' = [s \in Supers |-> NoObject] /\ writer.epoch # epoch'
<1>1. sink[epoch'] \in Images /\ \A s \in Supers : sink[epoch'][s] = NoObject
  BY DEF IInv, TypeOK, EpochsPass
<1>2. sink[epoch'] = [s \in Supers |-> NoObject]
  BY <1>1 DEF Images
<1>3. writer.epoch # epoch'
  BY SnapshotAssumption DEF IInv, TypeOK, EpochsPass, Epochs
<1> QED BY <1>2, <1>3 DEF Reads

(* A wipe begins a season, unless it falls in the second of the last one:  *)
(* then the map is only cleared.                                           *)
LEMMA WipeMirrored ==
  ASSUME IInv, ShownTyped', Wipe
  PROVE  Mirrored!Paint \/ Mirrored!Begin
<1>1. PICK now \in Epochs : now >= epoch /\ epoch' = now
  BY DEF Wipe, Rotate
<1>2. UNCHANGED <<sink, writer>> /\ owner' = [c \in Grid!Cells |-> Unclaimed]
  BY DEF Wipe, Grid!Wipe
<1>3. CASE now = epoch
  <2>1. Reads' = Reads /\ Takes' = Takes
    BY <1>1, <1>2, <1>3 DEF Reads, Takes, Ours
  <2> QED BY <2>1, MirrorPaints
<1>4. CASE now # epoch
  <2>1. epoch' \in Epochs /\ epoch' > epoch
    BY <1>1, <1>4, SnapshotAssumption DEF IInv, TypeOK, Epochs
  <2>2. Reads' = [s \in Supers |-> NoObject] /\ writer'.epoch # epoch'
    BY <1>2, <2>1, NewEpochEmpty
  <2>3. Takes' = NoneTaken
    BY <2>2, NothingTakenNext
  <2>4. Shows' = [s \in Supers |-> NoObject]
    BY <1>2 DEF Shows, Wanted, Painted, CellsOf, Grid!Cells
  <2> QED BY <2>2, <2>3, <2>4, MirrorBegins
<1> QED BY <1>3, <1>4

LEMMA RestartMirrored ==
  ASSUME IInv, Restart
  PROVE  Mirrored!Begin
<1>1. /\ epoch' \in Epochs /\ epoch' > epoch /\ writer' = Idle
      /\ sink' = sink /\ owner' = owner
  BY DEF Restart, Grid!Reload
<1>2. Takes' = NoneTaken
  BY <1>1, IdleTyped, NothingTakenNext
<1> QED BY <1>1, <1>2, NewEpochEmpty, ShowsSame, MirrorBegins

(* The captures of a round are of one moment. *)
LEMMA CaptureMirrored ==
  ASSUME IInv, Capture
  PROVE  Mirrored!Take \/ UNCHANGED Mirrored!vars
<1> DEFINE held == {SuperOf[k] : k \in writer.keys}
           shots == [s \in held |-> Picture(s)]
<1>1. /\ writer.at = "capture" /\ UNCHANGED <<owner, epoch, sink>>
      /\ writer' = [writer EXCEPT !.at = "upload", !.keys = {}, !.snaps = shots]
  BY DEF Capture, Captured
<1>2. held \in SUBSET Supers /\ DOMAIN shots = held /\ \A s \in held : shots[s] = Picture(s)
  BY SnapshotAssumption DEF IInv, TypeOK
<1> HIDE DEF shots
<1>3. writer'.epoch = writer.epoch /\ writer'.snaps = shots
  BY <1>1 DEF IInv, WriterTyped
<1>4. Takes = NoneTaken
  BY <1>1, NothingTaken DEF IInv, HoldsByPhase
<1>5. Shows' = Shows /\ Reads' = Reads
  BY <1>1, ShowsSame DEF Reads
<1>6. CASE writer.epoch = epoch
  <2>1. Ours' = held
    BY <1>1, <1>2, <1>3, <1>6 DEF Ours
  <2>2. Takes' = [s \in Ours' |-> Filed(shots[s])]
    BY <1>3 DEF Takes, Filed, AllEmpty
  <2>3. \A s \in held : Filed(shots[s]) = Shows[s]
    BY <1>2, FiledPicture DEF Shows
  <2> HIDE DEF held
  <2>4. Takes' = [s \in held |-> Shows[s]]
    BY <2>1, <2>2, <2>3
  <2> QED BY <1>2, <1>4, <1>5, <2>4, MirrorTakes
<1>7. CASE writer.epoch # epoch
  <2>1. Takes' = NoneTaken
    BY <1>1, <1>3, <1>7, NothingTakenNext
  <2> QED BY <1>4, <1>5, <2>1, MirrorKept
<1> QED BY <1>6, <1>7

(* An upload is a delivery, if the epoch it was captured for is not over.  *)
LEMMA UploadMirrored ==
  ASSUME IInv, NEW s \in Supers, Upload(s)
  PROVE  Mirrored!Deliver(s) \/ UNCHANGED Mirrored!vars
<1> DEFINE rest == DOMAIN writer.snaps \ {s}
           others == [r \in rest |-> writer.snaps[r]]
           image == Filed(writer.snaps[s])
<1>1. /\ writer.at = "upload" /\ s \in DOMAIN writer.snaps
      /\ UNCHANGED <<owner, epoch>>
      /\ writer' = IF rest = {} THEN Idle ELSE [writer EXCEPT !.snaps = others]
      /\ sink' = sink \/ sink' = [sink EXCEPT ![writer.epoch][s] = image]
  BY DEF Upload, Stored, Filed
<1>2. /\ sink \in [Epochs -> [Supers -> Looks]] /\ epoch \in Epochs /\ writer.epoch \in Epochs
  BY DEF IInv, TypeOK, Images, Looks
<1>3. DOMAIN others = rest /\ \A r \in rest : others[r] = writer.snaps[r]
  OBVIOUS
<1> HIDE DEF others, image
<1>4. /\ DOMAIN writer'.snaps = rest
      /\ \A r \in rest : writer'.snaps[r] = writer.snaps[r]
      /\ rest # {} => writer'.epoch = writer.epoch
  <2>1. CASE rest = {}
    BY <1>1, <2>1, IdleTyped
  <2>2. CASE rest # {}
    BY <1>1, <1>3, <2>2 DEF IInv, WriterTyped
  <2> QED BY <2>1, <2>2
<1>5. Shows' = Shows
  BY <1>1, ShowsSame
<1>6. CASE writer.epoch = epoch
  <2>1. Ours = DOMAIN writer.snaps /\ Takes[s] = image
    BY <1>1, <1>6 DEF Ours, Takes, image
  <2>2. Reads' \in {Reads, [Reads EXCEPT ![s] = Takes[s]]}
    BY <1>1, <1>2, <1>6, <2>1 DEF Reads
  <2>3. Ours' = rest
    BY <1>1, <1>4, <1>6 DEF Ours
  <2>4. \A r \in rest : Takes[r] = Filed(writer.snaps[r]) /\ Filed(writer'.snaps[r]) = Takes[r]
    BY <1>4, <2>1 DEF Takes
  <2>5. Takes' = [r \in Ours' |-> Filed(writer'.snaps[r])]
    BY DEF Takes, Filed, AllEmpty
  <2>6. Ours \ {s} = rest
    BY <2>1
  <2> HIDE DEF rest
  <2>7. Takes' = [r \in rest |-> Takes[r]]
    BY <2>3, <2>4, <2>5
  <2> QED BY <1>1, <1>5, <2>1, <2>2, <2>6, <2>7, MirrorDelivers
<1>7. CASE writer.epoch # epoch
  <2>1. Takes = NoneTaken
    BY <1>7, NothingTaken
  <2>2. Takes' = NoneTaken
    BY <1>1, <1>4, <1>7, NothingTakenNext
  <2>3. Reads' = Reads
    BY <1>1, <1>2, <1>7 DEF Reads
  <2> QED BY <1>5, <2>1, <2>2, <2>3, MirrorKept
<1> QED BY <1>6, <1>7

(* The rest of the writer's round is not to be seen. *)
LEMMA RoundUnseen ==
  ASSUME IInv, IInv', Drain \/ Retired \/ \E e \in Epochs : DeletePrefix(e)
  PROVE  UNCHANGED Mirrored!vars
<1>1. /\ writer.at \in {"sleep", "retire"} /\ writer'.at # "upload"
      /\ UNCHANGED <<owner, epoch>>
  BY DEF IInv, WriterTyped, Drain, Grid!Drain, Retired, DeletePrefix, Idle
<1>2. Takes = NoneTaken /\ Takes' = NoneTaken
  BY <1>1, NothingTaken, NothingTakenNext DEF IInv, HoldsByPhase
<1>3. Reads' = Reads
  <2>1. CASE Drain \/ Retired
    BY <2>1 DEF Drain, Retired, Reads
  <2>2. ASSUME NEW e \in Epochs, DeletePrefix(e) PROVE Reads' = Reads
    <3>1. e # epoch
      BY <2>2, SnapshotAssumption DEF IInv, TypeOK, EpochsPass, Epochs, DeletePrefix
    <3>2. sink' = sink \/ sink' = [sink EXCEPT ![e] = [s \in Supers |-> NoObject]]
      BY <2>2 DEF DeletePrefix
    <3> QED BY <1>1, <3>1, <3>2 DEF IInv, TypeOK, Reads
  <2> QED BY <2>1, <2>2
<1> QED BY <1>1, <1>2, <1>3, ShowsSame, MirrorKept

(* snapshot_writer_loop mirrors the world: whoever reads the sink under    *)
(* the current epoch sees, of every super-tile, nothing or what the world  *)
(* showed in this season, and never goes back; no upload or deletion for   *)
(* an epoch that is over shows there, whatever was under way when the      *)
(* epoch rolled and whatever fails.                                        *)
THEOREM Mirroring == Spec => MirrorsWorld
<1>1. Init => Mirrored!Init
  <2> SUFFICES ASSUME Init PROVE Mirrored!Init
    OBVIOUS
  <2>1. \A s \in Supers : Wanted(s) = NoObject
    BY DEF Init, Wanted, Painted, CellsOf, Grid!Cells
  <2>2. Shows = [s \in Supers |-> NoObject]
    BY <2>1 DEF Shows
  <2>3. Reads = [s \in Supers |-> NoObject]
    BY SnapshotAssumption DEF Init, Reads, Epochs
  <2>4. Takes = NoneTaken
    BY IdleTyped, NothingTaken DEF Init
  <2> QED BY <2>2, <2>3, <2>4 DEF Mirrored!Init, Mirrored!Nothing, Mirrored!NoneTaken,
                                  Shows, Reads, Takes, Ours, NoneTaken
<1>2. IInv /\ IInv' /\ ShownTyped' /\ [Next]_vars => [Mirrored!Next]_(Mirrored!vars)
  <2> SUFFICES ASSUME IInv, IInv', ShownTyped', [Next]_vars
               PROVE  [Mirrored!Next]_(Mirrored!vars)
    OBVIOUS
  <2>1. CASE UNCHANGED vars
    <3>1. Shows' = Shows /\ Reads' = Reads /\ Takes' = Takes
      BY <2>1, ShowsSame DEF vars, Reads, Takes, Ours
    <3> QED BY <3>1, MirrorKept
  <2>2. CASE Change
    <3>1. Reads' = Reads /\ Takes' = Takes
      BY <2>2 DEF Change, Reads, Takes, Ours
    <3> QED BY <3>1, MirrorPaints DEF Mirrored!Next
  <2>3. CASE Wipe
    BY <2>3, WipeMirrored DEF Mirrored!Next
  <2>4. CASE Restart
    BY <2>4, RestartMirrored DEF Mirrored!Next
  <2>5. CASE Drain \/ Retired \/ \E e \in Epochs : DeletePrefix(e)
    BY <2>5, RoundUnseen
  <2>6. CASE Capture
    BY <2>6, CaptureMirrored DEF Mirrored!Next
  <2>7. ASSUME NEW s \in Supers, Upload(s) PROVE [Mirrored!Next]_(Mirrored!vars)
    BY <2>7, UploadMirrored DEF Mirrored!Next
  <2> QED BY <2>1, <2>2, <2>3, <2>4, <2>5, <2>6, <2>7 DEF Next
<1>3. IInv => ShownTyped
  BY ShowsPictures DEF IInv
<1> QED BY <1>1, <1>2, <1>3, Invariance, PTL DEF Spec, MirrorsWorld, Mirrored!Spec
=============================================================================
