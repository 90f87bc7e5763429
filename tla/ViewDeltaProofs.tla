--------------------------- MODULE ViewDeltaProofs ---------------------------
(***************************************************************************)
(* Proofs about the frame protocol, for any grid, palette, geometries,     *)
(* keyframe interval and order of delivery.                                *)
(*                                                                         *)
(* The argument follows the grids the server has numbered in its current   *)
(* run: a history, of which every frame of that run, wherever it is, tells *)
(* a part, and of which a page that took frames of that run only shows a   *)
(* grid.                                                                   *)
(***************************************************************************)
EXTENDS ViewDelta, FiniteSetTheorems, TLAPS

-----------------------------------------------------------------------------
(* The inductive invariant. *)

Frames == Keyframe \cup Delta
Flying == {f \in wire \cup {slot} : f # None}

(* Numbers are within a run, and runs follow each other.                   *)
Numbered ==
  /\ prev # None => prev.seq < frames /\ 1 <= Len(prev.ids) /\ prev.ids[1] = Unclaimed
  /\ \A f \in Flying : f.run <= run /\ (f.kind = "delta" => f.seq = f.base + 1)
  /\ grid # None => grid.run <= run
  /\ run <= interrupts
  /\ ~served /\ prev # None => run < interrupts

Content == [geom : Views, ids : Seq(Ids), tiles : [Cells -> Ids]]
Histories == [Seqs -> Content]

(* The server's own grid is the last of the history.                       *)
Built(h) ==
  prev # None =>
    /\ prev.geom = h[prev.seq].geom /\ prev.ids = h[prev.seq].ids
    /\ \A c \in Cells : prev.ids[prev.local[c] + 1] = h[prev.seq].tiles[c]

(* A frame of the run tells one grid, or the step to it from the last.     *)
TellsKey(h, f) ==
  f.ids = h[f.seq].ids /\ \A c \in Cells : Local(f.ids, f.local[c]) = h[f.seq].tiles[c]

TellsDelta(h, f) ==
  /\ h[f.base].geom = f.geom /\ h[f.seq].ids = h[f.base].ids \o f.add
  /\ \A c \in Cells : h[f.seq].tiles[c] = IF f.changed[c] = Kept THEN h[f.base].tiles[c]
                                          ELSE Local(h[f.seq].ids, f.changed[c])

Tells(h, f) ==
  f.run = run =>
    /\ prev # None /\ f.seq <= prev.seq /\ f.geom = h[f.seq].geom
    /\ f.kind = "key" => TellsKey(h, f)
    /\ f.kind = "delta" => TellsDelta(h, f)

(* A page that took frames of the run only shows a grid of the history.    *)
Shown(h) ==
  grid # None /\ grid.run = run =>
    /\ prev # None /\ grid.seq <= prev.seq
    /\ grid.geom = h[grid.seq].geom /\ grid.ids = h[grid.seq].ids
    /\ \A c \in Cells : grid.tiles[c] = h[grid.seq].tiles[c]

Follows(h) == Built(h) /\ Shown(h) /\ \A f \in Flying : Tells(h, f)

IInv == TypeOK /\ Numbered /\ \E h \in Histories : Follows(h)

-----------------------------------------------------------------------------
(* Palettes. *)

(* build_keyframe and finish_view give every owner in sight an index, and  *)
(* leave the indices there were.                                           *)
LEMMA Palette ==
  ASSUME world \in [Cells -> Ids], NEW ids \in Seq(Ids), NEW add \in Extensions(ids),
         1 <= Len(ids), ids[1] = Unclaimed
  PROVE  /\ add \in Seq(Owners) /\ ids \o add \in Seq(Ids)
         /\ 1 <= Len(ids \o add) /\ (ids \o add)[1] = Unclaimed
         /\ \A n \in 1 .. Len(ids) : n <= Len(ids \o add) /\ (ids \o add)[n] = ids[n]
         /\ \A c \in Cells : /\ LocalIn(ids \o add, world[c]) \in Nat
                             /\ LocalIn(ids \o add, world[c]) < Len(ids \o add)
                             /\ (ids \o add)[LocalIn(ids \o add, world[c]) + 1] = world[c]
<1> DEFINE sight == {world[c] : c \in Cells}
           new == sight \ {ids[n] : n \in 1 .. Len(ids)}
           k == Cardinality(new)
<1>1. IsFiniteSet(new) /\ k \in Nat
  <2>1. world \in Surjection(Cells, sight)
    BY DEF Surjection
  <2>2. IsFiniteSet(sight)
    BY <2>1, FS_Surjection, ViewDeltaAssumption
  <2>3. IsFiniteSet(new)
    BY <2>2, FS_Subset
  <2> QED BY <2>3, FS_CardinalityType
<1>2. add \in [1 .. k -> new] /\ \A o \in new : \E n \in 1 .. k : add[n] = o
  BY DEF Extensions
<1>3. new \subseteq Owners
  <2>1. Unclaimed \in {ids[n] : n \in 1 .. Len(ids)}
    OBVIOUS
  <2> QED BY <2>1 DEF Ids
<1> HIDE DEF k
<1>4. add \in Seq(Owners) /\ Len(add) = k /\ Owners \subseteq Ids
  BY <1>1, <1>2, <1>3 DEF Ids
<1>5. /\ ids \o add \in Seq(Ids) /\ Len(ids \o add) = Len(ids) + k
      /\ \A n \in 1 .. Len(ids) + k : (ids \o add)[n] = IF n <= Len(ids) THEN ids[n] ELSE add[n - Len(ids)]
  BY <1>1, <1>4
<1>6. ASSUME NEW c \in Cells
      PROVE  \E n \in 1 .. Len(ids \o add) : (ids \o add)[n] = world[c]
  <2>1. CASE world[c] \in {ids[n] : n \in 1 .. Len(ids)}
    <3>1. PICK n \in 1 .. Len(ids) : ids[n] = world[c]
      BY <2>1
    <3> QED BY <1>1, <1>5, <3>1
  <2>2. CASE world[c] \notin {ids[n] : n \in 1 .. Len(ids)}
    <3>1. PICK n \in 1 .. k : add[n] = world[c]
      BY <1>2, <2>2
    <3>2. n + Len(ids) \in 1 .. Len(ids) + k /\ ~(n + Len(ids) <= Len(ids)) /\ n + Len(ids) - Len(ids) = n
      BY <1>1, <3>1
    <3> QED BY <1>5, <3>1, <3>2
  <2> QED BY <2>1, <2>2
<1>7. ASSUME NEW c \in Cells
      PROVE  /\ LocalIn(ids \o add, world[c]) \in Nat
             /\ LocalIn(ids \o add, world[c]) < Len(ids \o add)
             /\ (ids \o add)[LocalIn(ids \o add, world[c]) + 1] = world[c]
  <2> DEFINE n == CHOOSE n \in 1 .. Len(ids \o add) : (ids \o add)[n] = world[c]
  <2>1. n \in 1 .. Len(ids \o add) /\ (ids \o add)[n] = world[c]
    BY <1>6
  <2>2. LocalIn(ids \o add, world[c]) = n - 1
    BY DEF LocalIn
  <2> HIDE DEF n
  <2>3. n - 1 \in Nat /\ n - 1 < Len(ids \o add) /\ (n - 1) + 1 = n
    BY <1>5, <2>1
  <2> QED BY <2>1, <2>2, <2>3
<1> QED BY <1>1, <1>4, <1>5, <1>7

-----------------------------------------------------------------------------
(* Initially. *)

(* Nothing has been built.                                                 *)
LEMMA InitInv == Init => IInv
<1> SUFFICES ASSUME Init PROVE IInv
  OBVIOUS
<1>0. /\ world \in [Cells -> Ids] /\ geom \in Views /\ prev = None /\ run = 0 /\ served = TRUE
      /\ slot = None /\ wire = {} /\ grid = None /\ frames = 0 /\ interrupts = 0
      /\ MaxFrames \in Nat /\ MaxWire \in Nat /\ MaxInterrupts \in Nat
  BY ViewDeltaAssumption DEF Init, Ids
<1>1. IsFiniteSet(wire) /\ Cardinality(wire) <= MaxWire
  BY <1>0, FS_EmptySet
<1>2. TypeOK
  BY <1>0, <1>1 DEF TypeOK, Runs
<1>3. Flying = {}
  BY <1>0 DEF Flying
<1>4. Numbered
  BY <1>0, <1>3 DEF Numbered
<1> DEFINE h == [q \in Seqs |-> [geom |-> geom, ids |-> << >>, tiles |-> world]]
<1>5. h \in Histories
  BY <1>0 DEF Histories, Content
<1>6. \A g \in Histories : Follows(g)
  BY <1>0, <1>3 DEF Follows, Built, Shown
<1> HIDE DEF h
<1> QED BY <1>2, <1>4, <1>5, <1>6 DEF IInv

-----------------------------------------------------------------------------
(* Steps. *)

(* Frames and grids may disappear, or pass from the slot to the wire.      *)
LEMMA QuietInv ==
  ASSUME IInv, TypeOK', Flying' \subseteq Flying, grid' \in {grid, None},
         prev' = prev, run' = run, frames' = frames, interrupts' \in {interrupts, interrupts + 1},
         served' = served \/ served' = TRUE \/ interrupts' = interrupts + 1
  PROVE  IInv'
<1>1. Numbered'
  <2>1. Numbered /\ run \in Nat /\ interrupts \in Nat
    BY ViewDeltaAssumption DEF IInv, TypeOK, Runs
  <2>2. run <= interrupts' /\ (~served' /\ prev # None => run < interrupts')
    <3>1. CASE interrupts' = interrupts + 1
      BY <2>1, <3>1 DEF Numbered
    <3>2. CASE interrupts' = interrupts
      <4>1. served' = served \/ served' = TRUE
        BY <2>1, <3>2
      <4> QED BY <2>1, <3>2, <4>1 DEF Numbered
    <3> QED BY <3>1, <3>2
  <2> QED BY <2>1, <2>2 DEF Numbered
<1>2. PICK h \in Histories : Follows(h)
  BY DEF IInv
<1>3. Follows(h)'
  BY <1>2 DEF Follows, Built, Shown, Tells, TellsKey, TellsDelta, Local
<1> QED BY <1>1, <1>2, <1>3 DEF IInv, Histories, Content, Seqs, Ids

(* The server forgets its grid: what is under way is of an earlier run.    *)
LEMMA CycleWithoutInv ==
  ASSUME IInv, CycleWithout
  PROVE  IInv'
<1>0. /\ TypeOK /\ Numbered /\ ~served /\ prev # None /\ prev' = None /\ run' = run + 1
      /\ world' = world /\ geom' = geom /\ served' = served /\ slot' = slot /\ wire' = wire
      /\ grid' = grid /\ frames' = frames /\ interrupts' = interrupts
      /\ MaxInterrupts \in Nat
  BY ViewDeltaAssumption DEF IInv, CycleWithout
<1>1. run \in Nat /\ run + 1 \in Runs /\ run + 1 <= interrupts
  BY <1>0 DEF TypeOK, Numbered, Runs
<1>2. TypeOK'
  BY <1>0, <1>1 DEF TypeOK
<1>3. /\ Flying' = Flying
      /\ \A f \in Flying : f.run \in Nat /\ f.run <= run
      /\ grid # None => grid.run \in Int /\ grid.run <= run
  BY <1>0 DEF Flying, TypeOK, Keyframe, Delta, ClientGrid, Runs, Mixed, Numbered
<1>4. Numbered'
  BY <1>0, <1>1, <1>3 DEF Numbered
<1>5. PICK h \in Histories : Follows(h)
  BY DEF IInv
<1>6. Follows(h)'
  BY <1>0, <1>1, <1>3 DEF Follows, Built, Shown, Tells
<1> QED BY <1>2, <1>4, <1>5, <1>6 DEF IInv

(* finish_view numbers the next grid, and tells it in a frame.             *)
LEMMA BuiltInv ==
  ASSUME IInv, frames < MaxFrames, frames' = frames + 1, served,
         UNCHANGED <<world, geom, run, served, wire, grid, interrupts>>,
         NEW p \in PrevGrid, prev' = p, p.seq = NextSeq, p.geom = geom,
         1 <= Len(p.ids), p.ids[1] = Unclaimed,
         \A c \in Cells : p.local[c] < Len(p.ids) /\ p.ids[p.local[c] + 1] = world[c],
         NEW f \in Frames, slot' = f, f.run = run, f.seq = p.seq, f.geom = geom,
         f.kind = "key" => f.ids = p.ids /\ f.local = p.local,
         f.kind = "delta" =>
           /\ prev # None /\ prev.geom = geom /\ f.base = prev.seq /\ p.ids = prev.ids \o f.add
           /\ \A n \in 1 .. Len(prev.ids) : p.ids[n] = prev.ids[n]
           /\ \A c \in Cells : \/ f.changed[c] = Kept /\ p.local[c] = prev.local[c]
                               \/ f.changed[c] # Kept /\ f.changed[c] = p.local[c]
  PROVE  IInv'
<1> DEFINE now == [geom |-> geom, ids |-> p.ids, tiles |-> world]
<1>0. /\ TypeOK /\ Numbered /\ world' = world /\ geom' = geom /\ run' = run /\ served' = served
      /\ wire' = wire /\ grid' = grid /\ interrupts' = interrupts
      /\ frames \in Nat /\ MaxFrames \in Nat
      /\ \A r \in PrevGrid \cup Frames \cup ClientGrid : r # None
  BY ViewDeltaAssumption, NoneAssumption DEF IInv, TypeOK, Frames
<1>1. /\ p.seq \in Seqs /\ p.seq \in Nat /\ p.seq < frames + 1
      /\ prev # None => prev \in PrevGrid /\ prev.seq \in Nat /\ p.seq = prev.seq + 1
  <2>1. CASE prev = None
    BY <1>0, <2>1 DEF NextSeq, Seqs
  <2>2. CASE prev # None
    <3>1. prev \in PrevGrid /\ prev.seq \in Seqs /\ prev.seq < frames
      BY <1>0, <2>2 DEF TypeOK, PrevGrid, Numbered
    <3>2. p.seq = prev.seq + 1
      BY <2>2 DEF NextSeq
    <3> QED BY <1>0, <3>1, <3>2 DEF Seqs
  <2> QED BY <2>1, <2>2
<1>2. TypeOK'
  <2>1. prev' # None => \A c \in Cells : prev'.local[c] < Len(prev'.ids)
    OBVIOUS
  <2>2. frames' \in 0 .. MaxFrames
    BY <1>0
  <2> QED BY <1>0, <2>1, <2>2 DEF TypeOK, Frames
<1>3. Flying' \subseteq Flying \cup {f} /\ f \in Flying'
  BY <1>0 DEF Flying
<1>4. Numbered'
  <2>1. f.run <= run
    BY <1>0, ViewDeltaAssumption DEF TypeOK, Runs
  <2>2. f.kind = "delta" => f.seq = f.base + 1
    BY <1>1
  <2>3. prev'.seq < frames' /\ prev' # None
    BY <1>0, <1>1
  <2> QED BY <1>0, <1>3, <2>1, <2>2, <2>3 DEF Numbered
<1>5. PICK h \in Histories : Follows(h)
  BY DEF IInv
<1>6. now \in Content
  BY <1>0 DEF TypeOK, Content, PrevGrid
<1>7. PICK g \in Histories : g[p.seq] = now /\ \A s \in Seqs : s # p.seq => g[s] = h[s]
  <2>1. [h EXCEPT ![p.seq] = now] \in Histories
    BY <1>5, <1>6 DEF Histories
  <2> QED BY <1>1, <1>5, <2>1 DEF Histories
<1>8. g[p.seq].geom = geom /\ g[p.seq].ids = p.ids /\ g[p.seq].tiles = world
  BY <1>7
<1> HIDE DEF now
<1>9. Built(g)'
  BY <1>0, <1>7, <1>8 DEF Built
<1>10. Shown(g)'
  <2> SUFFICES ASSUME grid # None, grid.run = run
               PROVE  /\ p # None /\ grid.seq <= p.seq
                      /\ grid.geom = g[grid.seq].geom /\ grid.ids = g[grid.seq].ids
                      /\ \A c \in Cells : grid.tiles[c] = g[grid.seq].tiles[c]
    BY <1>0 DEF Shown
  <2>1. /\ prev # None /\ grid.seq <= prev.seq
        /\ grid.geom = h[grid.seq].geom /\ grid.ids = h[grid.seq].ids
        /\ \A c \in Cells : grid.tiles[c] = h[grid.seq].tiles[c]
    BY <1>5 DEF Follows, Shown
  <2>2. grid.seq \in Seqs /\ grid.seq \in Nat
    BY <1>0 DEF TypeOK, ClientGrid, Seqs
  <2>3. grid.seq # p.seq /\ grid.seq <= p.seq
    BY <1>1, <2>1, <2>2
  <2> QED BY <1>0, <1>7, <2>1, <2>2, <2>3
<1>11. ASSUME NEW e \in Flying
       PROVE  Tells(g, e)'
  <2> SUFFICES ASSUME e.run = run
               PROVE  /\ e.seq <= p.seq /\ e.geom = g[e.seq].geom
                      /\ e.kind = "key" => TellsKey(g, e)
                      /\ e.kind = "delta" => TellsDelta(g, e)
    BY <1>0 DEF Tells, TellsKey, TellsDelta, Local
  <2>1. /\ prev # None /\ e.seq <= prev.seq /\ e.geom = h[e.seq].geom
        /\ e.kind = "key" => TellsKey(h, e)
        /\ e.kind = "delta" => TellsDelta(h, e)
    BY <1>5 DEF Follows, Tells
  <2>2. e \in Keyframe \cup Delta /\ e.seq \in Seqs /\ e.seq \in Nat
    BY <1>0 DEF Flying, TypeOK, Keyframe, Delta, Seqs
  <2>3. e.kind = "delta" => e.base \in Seqs /\ e.base \in Nat /\ e.seq = e.base + 1
    BY <1>0, <2>2 DEF Numbered, Keyframe, Delta, Seqs
  <2>4. e.seq # p.seq /\ e.seq <= p.seq /\ g[e.seq] = h[e.seq]
    BY <1>1, <1>7, <2>1, <2>2
  <2>5. e.kind = "delta" => g[e.base] = h[e.base]
    BY <1>1, <1>7, <2>1, <2>2, <2>3
  <2> QED BY <2>1, <2>4, <2>5 DEF TellsKey, TellsDelta
<1>12. Tells(g, f)'
  <2> SUFFICES /\ f.seq <= p.seq /\ f.geom = g[f.seq].geom
               /\ f.kind = "key" => TellsKey(g, f)
               /\ f.kind = "delta" => TellsDelta(g, f)
    BY <1>0 DEF Tells, TellsKey, TellsDelta, Local
  <2>0. \A c \in Cells : p.local[c] \in Nat /\ p.local[c] < Len(p.ids) /\ Len(p.ids) \in Nat
    BY DEF PrevGrid
  <2>1. \A c \in Cells : Local(p.ids, p.local[c]) = world[c]
    <3>1. \A c \in Cells : p.local[c] + 1 <= Len(p.ids)
      BY <2>0
    <3> QED BY <3>1 DEF Local
  <2>2. f.seq <= p.seq /\ f.geom = g[f.seq].geom
    BY <1>1, <1>7, <1>8
  <2>3. f.kind = "key" => TellsKey(g, f)
    BY <1>7, <1>8, <2>1 DEF TellsKey
  <2>4. ASSUME f.kind = "delta" PROVE TellsDelta(g, f)
    <3>1. /\ prev # None /\ prev \in PrevGrid /\ f.base = prev.seq /\ prev.geom = h[prev.seq].geom
          /\ prev.ids = h[prev.seq].ids
          /\ \A c \in Cells : prev.ids[prev.local[c] + 1] = h[prev.seq].tiles[c]
      BY <1>1, <1>5, <2>4 DEF Follows, Built
    <3>2. prev.seq \in Seqs /\ prev.seq # p.seq /\ g[prev.seq] = h[prev.seq]
      BY <1>1, <1>7, <3>1 DEF PrevGrid
    <3>3. ASSUME NEW c \in Cells
          PROVE  world[c] = IF f.changed[c] = Kept THEN h[prev.seq].tiles[c]
                            ELSE Local(p.ids, f.changed[c])
      <4>1. CASE f.changed[c] = Kept
        <5>0. /\ prev.local[c] \in Nat /\ Len(prev.ids) \in Nat
              /\ prev.local[c] < Len(prev.ids)
          <6>1. prev.local[c] \in Nat /\ Len(prev.ids) \in Nat
            BY <3>1 DEF PrevGrid
          <6>2. prev.local[c] < Len(prev.ids)
            BY <1>0, <3>1 DEF TypeOK
          <6> QED BY <6>1, <6>2
        <5>1. p.local[c] = prev.local[c] /\ prev.local[c] \in Nat /\ prev.local[c] < Len(prev.ids)
              /\ Len(prev.ids) \in Nat
          BY <2>4, <4>1, <5>0
        <5>2. prev.local[c] + 1 \in 1 .. Len(prev.ids)
          BY <5>1
        <5>3. p.ids[prev.local[c] + 1] = prev.ids[prev.local[c] + 1]
          BY <2>4, <5>2
        <5>4. p.ids[p.local[c] + 1] = world[c]
          OBVIOUS
        <5> QED BY <3>1, <4>1, <5>1, <5>3, <5>4
      <4>2. CASE f.changed[c] # Kept
        BY <2>1, <2>4, <4>2
      <4> QED BY <4>1, <4>2
    <3>4. /\ g[f.base] = h[prev.seq] /\ g[f.base].geom = f.geom
          /\ g[f.seq].ids = p.ids /\ p.ids = prev.ids \o f.add /\ g[f.base].ids = prev.ids
          /\ g[f.seq].tiles = world
      BY <1>7, <1>8, <2>4, <3>1, <3>2
    <3>5. \A c \in Cells : g[f.seq].tiles[c] = IF f.changed[c] = Kept THEN g[f.base].tiles[c]
                                               ELSE Local(g[f.seq].ids, f.changed[c])
      BY <3>3, <3>4
    <3>6. g[f.seq].ids = g[f.base].ids \o f.add
      BY <3>4
    <3> QED BY <3>4, <3>5, <3>6 DEF TellsDelta
  <2> QED BY <2>2, <2>3, <2>4
<1>13. Follows(g)'
  BY <1>3, <1>9, <1>10, <1>11, <1>12 DEF Follows
<1> QED BY <1>2, <1>4, <1>7, <1>13 DEF IInv

(* NextSeq is the number of a frame within the bound.                      *)
LEMMA NextSeqType ==
  ASSUME TypeOK, Numbered, frames < MaxFrames
  PROVE  NextSeq \in Seqs
<1>1. frames \in Nat /\ MaxFrames \in Nat
  BY ViewDeltaAssumption DEF TypeOK
<1>2. CASE prev = None
  BY <1>1, <1>2 DEF NextSeq, Seqs
<1>3. CASE prev # None
  <2>1. prev.seq \in Seqs /\ prev.seq < frames /\ NextSeq = prev.seq + 1
    BY <1>3 DEF TypeOK, PrevGrid, Numbered, NextSeq
  <2> QED BY <1>1, <2>1 DEF Seqs
<1> QED BY <1>2, <1>3

(* A keyframe carries its own palette.                                     *)
LEMMA KeyframeInv ==
  ASSUME IInv, frames < MaxFrames, frames' = frames + 1, served, BuildKeyframe,
         UNCHANGED <<world, geom, run, served, wire, grid, interrupts>>
  PROVE  IInv'
<1>0. /\ TypeOK /\ Numbered /\ world \in [Cells -> Ids] /\ geom \in Views /\ run \in Runs
      /\ <<Unclaimed>> \in Seq(Ids)
  BY DEF IInv, TypeOK, Ids
<1>1. PICK add \in Extensions(<<Unclaimed>>) :
        /\ slot' = [kind |-> "key", geom |-> geom, seq |-> NextSeq,
                    local |-> [c \in Cells |-> LocalIn(<<Unclaimed>> \o add, world[c])],
                    ids |-> <<Unclaimed>> \o add, run |-> run]
        /\ prev' = [geom |-> geom, local |-> [c \in Cells |-> LocalIn(<<Unclaimed>> \o add, world[c])],
                    ids |-> <<Unclaimed>> \o add, seq |-> NextSeq, sinceKf |-> 0]
  BY DEF BuildKeyframe
<1>2. PICK ids : ids = <<Unclaimed>> \o add
  OBVIOUS
<1>3. PICK local : local = [c \in Cells |-> LocalIn(ids, world[c])]
  OBVIOUS
<1>4. /\ ids \in Seq(Ids) /\ 1 <= Len(ids) /\ ids[1] = Unclaimed
      /\ \A c \in Cells : /\ LocalIn(ids, world[c]) \in Nat /\ LocalIn(ids, world[c]) < Len(ids)
                          /\ ids[LocalIn(ids, world[c]) + 1] = world[c]
  <2>1. PICK zero : zero = <<Unclaimed>>
    OBVIOUS
  <2>2. zero \in Seq(Ids) /\ 1 <= Len(zero) /\ zero[1] = Unclaimed
    BY <1>0, <2>1
  <2>3. add \in Extensions(zero) /\ ids = zero \o add
    BY <1>2, <2>1
  <2> QED BY <1>0, <2>2, <2>3, Palette
<1>5. /\ local \in [Cells -> Nat]
      /\ \A c \in Cells : local[c] < Len(ids) /\ ids[local[c] + 1] = world[c]
  BY <1>3, <1>4
<1>6. PICK p : p = [geom |-> geom, local |-> local, ids |-> ids, seq |-> NextSeq, sinceKf |-> 0]
  OBVIOUS
<1>7. PICK f : f = [kind |-> "key", geom |-> geom, seq |-> NextSeq, local |-> local, ids |-> ids,
                    run |-> run]
  OBVIOUS
<1>8. prev' = p /\ slot' = f
  BY <1>1, <1>2, <1>3, <1>6, <1>7
<1>9. NextSeq \in Seqs /\ 0 \in 0 .. KF_INTERVAL
  BY <1>0, NextSeqType, ViewDeltaAssumption
<1>10. /\ p \in PrevGrid /\ p.seq = NextSeq /\ p.geom = geom /\ p.ids = ids /\ p.local = local
  BY <1>0, <1>4, <1>5, <1>6, <1>9 DEF PrevGrid
<1>11. f \in Frames /\ f.run = run /\ f.seq = NextSeq /\ f.geom = geom /\ f.kind = "key"
       /\ f.ids = ids /\ f.local = local
  BY <1>0, <1>4, <1>5, <1>7, <1>9 DEF Frames, Keyframe
<1> QED BY <1>4, <1>5, <1>8, <1>10, <1>11, BuiltInv

(* A delta extends the palette, and names the cells whose index changed.   *)
LEMMA DeltaInv ==
  ASSUME IInv, frames < MaxFrames, frames' = frames + 1, served, ~ForceKeyframe,
         NEW add \in Extensions(prev.ids), BuildDelta(add),
         UNCHANGED <<world, geom, run, served, wire, grid, interrupts>>
  PROVE  IInv'
<1>0. /\ TypeOK /\ Numbered /\ world \in [Cells -> Ids] /\ geom \in Views /\ run \in Runs
      /\ prev # None /\ prev.geom = geom /\ ~(prev.sinceKf >= KF_INTERVAL)
      /\ 1 <= Len(prev.ids) /\ prev.ids[1] = Unclaimed
  BY DEF IInv, TypeOK, ForceKeyframe, Numbered
<1>1. prev \in PrevGrid
  BY <1>0 DEF TypeOK
<1>2. /\ prev.ids \in Seq(Ids) /\ prev.local \in [Cells -> Nat] /\ prev.seq \in Seqs
      /\ prev.sinceKf \in 0 .. KF_INTERVAL
  BY <1>1 DEF PrevGrid
<1>3. PICK ids : ids = prev.ids \o add
  OBVIOUS
<1>4. PICK local : local = [c \in Cells |-> LocalIn(ids, world[c])]
  OBVIOUS
<1>5. PICK changed : changed = [c \in Cells |-> IF local[c] # prev.local[c] THEN local[c] ELSE Kept]
  OBVIOUS
<1>6. /\ add \in Seq(Owners) /\ ids \in Seq(Ids) /\ 1 <= Len(ids) /\ ids[1] = Unclaimed
      /\ \A n \in 1 .. Len(prev.ids) : ids[n] = prev.ids[n]
      /\ \A c \in Cells : /\ LocalIn(ids, world[c]) \in Nat /\ LocalIn(ids, world[c]) < Len(ids)
                          /\ ids[LocalIn(ids, world[c]) + 1] = world[c]
  BY <1>0, <1>2, <1>3, Palette
<1>7. /\ local \in [Cells -> Nat]
      /\ \A c \in Cells : local[c] < Len(ids) /\ ids[local[c] + 1] = world[c]
  BY <1>4, <1>6
<1>8. /\ changed \in [Cells -> Nat \cup {Kept}]
      /\ \A c \in Cells : \/ changed[c] = Kept /\ local[c] = prev.local[c]
                          \/ changed[c] # Kept /\ changed[c] = local[c]
  <2>1. \A c \in Cells : local[c] \in Nat /\ local[c] # Kept
    BY <1>7 DEF Kept
  <2> QED BY <1>5, <2>1
<1>9. NextSeq = prev.seq + 1 /\ NextSeq \in Seqs
  BY <1>0, NextSeqType DEF NextSeq
<1>10. prev.sinceKf + 1 \in 0 .. KF_INTERVAL
  BY <1>0, <1>2, ViewDeltaAssumption
<1>11. PICK p : p = [geom |-> geom, local |-> local, ids |-> ids, seq |-> NextSeq,
                     sinceKf |-> prev.sinceKf + 1]
  OBVIOUS
<1>12. PICK f : f = [kind |-> "delta", geom |-> geom, seq |-> NextSeq, base |-> prev.seq,
                     changed |-> changed, add |-> add, run |-> run]
  OBVIOUS
<1>13. prev' = p /\ slot' = f
  BY <1>3, <1>4, <1>5, <1>9, <1>11, <1>12 DEF BuildDelta
<1>14. /\ p \in PrevGrid /\ p.seq = NextSeq /\ p.geom = geom /\ p.ids = ids /\ p.local = local
  BY <1>0, <1>6, <1>7, <1>9, <1>10, <1>11 DEF PrevGrid
<1>15. f \in Frames /\ f.run = run /\ f.seq = NextSeq /\ f.geom = geom /\ f.kind = "delta"
       /\ f.base = prev.seq /\ f.changed = changed /\ f.add = add
  BY <1>0, <1>2, <1>6, <1>8, <1>9, <1>12 DEF Frames, Delta
<1>16. /\ f.base = prev.seq /\ p.ids = prev.ids \o f.add
       /\ \A n \in 1 .. Len(prev.ids) : p.ids[n] = prev.ids[n]
       /\ \A c \in Cells : \/ f.changed[c] = Kept /\ p.local[c] = prev.local[c]
                           \/ f.changed[c] # Kept /\ f.changed[c] = p.local[c]
  BY <1>3, <1>6, <1>8, <1>14, <1>15
<1>17. /\ 1 <= Len(p.ids) /\ p.ids[1] = Unclaimed
       /\ \A c \in Cells : p.local[c] < Len(p.ids) /\ p.ids[p.local[c] + 1] = world[c]
  BY <1>6, <1>7, <1>14
<1>18. f.kind # "key"
  BY <1>15
<1> QED BY <1>0, <1>13, <1>14, <1>15, <1>16, <1>17, <1>18, BuiltInv

(* A cycle that serves tiles builds one or the other.                      *)
LEMMA TileCycleInv ==
  ASSUME IInv, TileCycle
  PROVE  IInv'
BY KeyframeInv, DeltaInv DEF TileCycle

(* Nothing else changes a number, a frame or what a grid shows.            *)
LEMMA ServerQuietInv ==
  ASSUME IInv, (\E c \in Cells, o \in Ids : Paint(c, o)) \/ (\E g \in Views : ViewSet(g))
                 \/ AntsCycle \/ Resume
  PROVE  IInv'
<1>0. TypeOK
  BY DEF IInv
<1>1. /\ prev' = prev /\ run' = run /\ grid' = grid /\ frames' = frames /\ interrupts' = interrupts
      /\ wire' = wire /\ slot' \in {slot, None} /\ served' \in {served, TRUE}
      /\ world' \in [Cells -> Ids] /\ geom' \in Views
  BY <1>0 DEF TypeOK, Paint, ViewSet, AntsCycle, Resume
<1>2. TypeOK'
  BY <1>0, <1>1 DEF TypeOK
<1>3. Flying' \subseteq Flying
  BY <1>1 DEF Flying
<1> QED BY <1>1, <1>2, <1>3, QuietInv

(* The write task passes a frame on.                                       *)
LEMMA SendInv ==
  ASSUME IInv, Send
  PROVE  IInv'
<1>0. /\ TypeOK /\ slot # None /\ slot' = None /\ Cardinality(wire) < MaxWire
      /\ wire' = wire \cup {slot} /\ MaxWire \in Nat
      /\ world' = world /\ geom' = geom /\ prev' = prev /\ run' = run /\ served' = served
      /\ grid' = grid /\ frames' = frames /\ interrupts' = interrupts
  BY ViewDeltaAssumption DEF IInv, Send
<1>1. IsFiniteSet(wire) /\ slot \in Keyframe \cup Delta
  BY <1>0 DEF TypeOK
<1>2. IsFiniteSet(wire') /\ (Cardinality(wire') = Cardinality(wire) \/ Cardinality(wire') = Cardinality(wire) + 1)
  BY <1>0, <1>1, FS_AddElement
<1>3. Cardinality(wire') <= MaxWire
  BY <1>0, <1>1, <1>2, FS_CardinalityType
<1>4. TypeOK'
  BY <1>0, <1>1, <1>2, <1>3 DEF TypeOK
<1>5. Flying' \subseteq Flying
  BY <1>0 DEF Flying
<1> QED BY <1>0, <1>4, <1>5, QuietInv

(* The client is interrupted.                                              *)
LEMMA InterruptInv ==
  ASSUME IInv, Pause \/ Disconnect \/ Forget
  PROVE  IInv'
<1>0. TypeOK
  BY DEF IInv
<1>1. /\ prev' = prev /\ run' = run /\ grid' \in {grid, None} /\ frames' = frames
      /\ interrupts' = interrupts + 1 /\ interrupts < MaxInterrupts
      /\ wire' = wire /\ slot' \in {slot, None} /\ served' \in {served, FALSE}
      /\ world' = world /\ geom' = geom
  BY DEF Pause, Disconnect, Forget
<1>2. interrupts' \in 0 .. MaxInterrupts
  BY <1>0, <1>1, ViewDeltaAssumption DEF TypeOK
<1>3. TypeOK'
  BY <1>0, <1>1, <1>2 DEF TypeOK
<1>4. Flying' \subseteq Flying
  BY <1>1 DEF Flying
<1> QED BY <1>1, <1>3, <1>4, QuietInv

-----------------------------------------------------------------------------
(* The page. *)

(* An index the palette has stands for an owner.                           *)
LEMMA LocalType ==
  ASSUME NEW ids \in Seq(Ids), NEW n \in Nat
  PROVE  Local(ids, n) \in Ids
<1>1. n + 1 \in 1 .. Len(ids) \/ ~(n + 1 <= Len(ids))
  OBVIOUS
<1> QED BY <1>1 DEF Local, Ids

(* A decoded frame leaves the wire.                                        *)
LEMMA Decoded ==
  ASSUME TypeOK, NEW f \in wire, Decode(f)
  PROVE  /\ IsFiniteSet(wire') /\ Cardinality(wire') <= MaxWire /\ Flying' \subseteq Flying
         /\ f \in Flying /\ wire' \subseteq Keyframe \cup Delta
<1>0. /\ wire' = wire \ {f} /\ slot' = slot /\ MaxWire \in Nat /\ IsFiniteSet(wire)
      /\ wire \subseteq Keyframe \cup Delta /\ Cardinality(wire) <= MaxWire
  BY ViewDeltaAssumption DEF Decode, TypeOK
<1>1. IsFiniteSet(wire') /\ Cardinality(wire') = Cardinality(wire) - 1
  BY <1>0, FS_RemoveElement
<1>2. f # None
  BY <1>0, NoneAssumption
<1> QED BY <1>0, <1>1, <1>2, FS_CardinalityType DEF Flying

(* A keyframe replaces the grid.                                           *)
LEMMA KeyTaken ==
  ASSUME TypeOK, NEW f \in Keyframe, Decode(f), TakesKey(f)
  PROVE  /\ grid' \in ClientGrid /\ grid'.run = f.run /\ grid'.seq = f.seq /\ grid'.geom = f.geom
         /\ grid'.ids = f.ids /\ \A c \in Cells : grid'.tiles[c] = Local(f.ids, f.local[c])
<1>1. PICK g : g = [geom |-> f.geom, seq |-> f.seq, ids |-> f.ids, run |-> f.run,
                    tiles |-> [c \in Cells |-> Local(f.ids, f.local[c])]]
  OBVIOUS
<1>2. grid' = g
  BY <1>1 DEF Decode
<1>3. /\ f.geom \in Views /\ f.seq \in Seqs /\ f.ids \in Seq(Ids) /\ f.run \in Runs
      /\ f.local \in [Cells -> Nat]
  BY DEF Keyframe
<1>4. [c \in Cells |-> Local(f.ids, f.local[c])] \in [Cells -> Ids]
  BY <1>3, LocalType
<1>5. /\ g \in ClientGrid /\ g.run = f.run /\ g.seq = f.seq /\ g.geom = f.geom /\ g.ids = f.ids
      /\ \A c \in Cells : g.tiles[c] = Local(f.ids, f.local[c])
  BY <1>1, <1>3, <1>4 DEF ClientGrid
<1> QED BY <1>2, <1>5

LEMMA DecodeKeyInv ==
  ASSUME IInv, NEW f \in wire, Decode(f), TakesKey(f)
  PROVE  IInv'
<1>0. /\ TypeOK /\ Numbered /\ f \in Keyframe /\ f.kind = "key" /\ f.run <= run
      /\ world' = world /\ geom' = geom /\ prev' = prev /\ run' = run /\ served' = served
      /\ slot' = slot /\ frames' = frames /\ interrupts' = interrupts
      /\ IsFiniteSet(wire') /\ Cardinality(wire') <= MaxWire /\ Flying' \subseteq Flying
      /\ f \in Flying /\ wire' \subseteq Keyframe \cup Delta
  BY Decoded DEF IInv, Decode, TakesKey, Numbered, TypeOK, Delta
<1>1. /\ grid' \in ClientGrid /\ grid'.run = f.run /\ grid'.seq = f.seq /\ grid'.geom = f.geom
      /\ grid'.ids = f.ids /\ \A c \in Cells : grid'.tiles[c] = Local(f.ids, f.local[c])
  BY <1>0, KeyTaken
<1>2. TypeOK'
  BY <1>0, <1>1 DEF TypeOK
<1>3. Numbered'
  BY <1>0, <1>1 DEF Numbered
<1>4. PICK h \in Histories : Follows(h)
  BY DEF IInv
<1>5. Tells(h, f)
  BY <1>0, <1>4 DEF Follows
<1>6. Shown(h)'
  BY <1>0, <1>1, <1>5 DEF Shown, Tells, TellsKey
<1>7. Follows(h)'
  BY <1>0, <1>4, <1>6 DEF Follows, Built, Tells, TellsKey, TellsDelta, Local
<1> QED BY <1>2, <1>3, <1>4, <1>7 DEF IInv, Histories, Content, Seqs, Ids

(* A delta of the run of the grid takes it to the next of the history; of  *)
(* another run, it leaves a grid of no run.                                *)
LEMMA DecodeDeltaInv ==
  ASSUME IInv, NEW f \in wire, Decode(f), TakesDelta(f)
  PROVE  IInv'
<1>0. /\ TypeOK /\ Numbered /\ f \in Delta /\ f.kind = "delta" /\ f.run <= run
      /\ grid # None /\ grid.geom = f.geom /\ f.base = grid.seq
      /\ world' = world /\ geom' = geom /\ prev' = prev /\ run' = run /\ served' = served
      /\ slot' = slot /\ frames' = frames /\ interrupts' = interrupts
      /\ IsFiniteSet(wire') /\ Cardinality(wire') <= MaxWire /\ Flying' \subseteq Flying
      /\ f \in Flying /\ wire' \subseteq Keyframe \cup Delta
  BY Decoded DEF IInv, Decode, TakesDelta, Numbered, TypeOK, Keyframe
<1>1. PICK ids : ids = grid.ids \o f.add
  OBVIOUS
<1>2. PICK tiles : tiles = [c \in Cells |-> IF f.changed[c] = Kept THEN grid.tiles[c]
                                            ELSE Local(ids, f.changed[c])]
  OBVIOUS
<1>3. PICK r : r = IF f.run = grid.run THEN f.run ELSE Mixed
  OBVIOUS
<1>4. PICK g : g = [geom |-> f.geom, seq |-> f.seq, ids |-> ids, run |-> r, tiles |-> tiles]
  OBVIOUS
<1>5. grid' = g
  <2>1. ~TakesKey(f)
    BY <1>0 DEF TakesKey
  <2> QED BY <2>1, <1>1, <1>2, <1>3, <1>4 DEF Decode
<1>6. /\ f.geom \in Views /\ f.seq \in Seqs /\ f.add \in Seq(Owners) /\ f.run \in Runs
      /\ f.changed \in [Cells -> Nat \cup {Kept}]
      /\ grid.ids \in Seq(Ids) /\ grid.tiles \in [Cells -> Ids] /\ run \in Nat
  BY <1>0 DEF Delta, TypeOK, ClientGrid, Runs
<1>7. ids \in Seq(Ids)
  <2>1. f.add \in Seq(Ids)
    BY <1>6 DEF Ids
  <2> QED BY <1>1, <1>6, <2>1
<1>8. tiles \in [Cells -> Ids]
  <2>1. ASSUME NEW c \in Cells, f.changed[c] # Kept PROVE Local(ids, f.changed[c]) \in Ids
    BY <1>6, <1>7, <2>1, LocalType
  <2> QED BY <1>2, <1>6, <2>1
<1>9. r \in Runs \cup {Mixed} /\ r <= run
  BY <1>0, <1>3, <1>6 DEF Mixed
<1>10. /\ g \in ClientGrid /\ g.run = r /\ g.seq = f.seq /\ g.geom = f.geom /\ g.ids = ids
       /\ g.tiles = tiles
  BY <1>4, <1>6, <1>7, <1>8, <1>9 DEF ClientGrid
<1>11. TypeOK'
  BY <1>0, <1>5, <1>10 DEF TypeOK
<1>12. Numbered'
  BY <1>0, <1>5, <1>9, <1>10 DEF Numbered
<1>13. PICK h \in Histories : Follows(h)
  BY DEF IInv
<1>14. ASSUME r = run
       PROVE  /\ prev # None /\ f.seq <= prev.seq /\ f.geom = h[f.seq].geom /\ ids = h[f.seq].ids
              /\ \A c \in Cells : tiles[c] = h[f.seq].tiles[c]
  <2>1. f.run = run /\ grid.run = run
    BY <1>3, <1>6, <1>14 DEF Mixed
  <2>2. /\ prev # None /\ f.seq <= prev.seq /\ f.geom = h[f.seq].geom /\ TellsDelta(h, f)
    BY <1>0, <1>13, <2>1 DEF Follows, Tells
  <2>3. grid.ids = h[f.base].ids /\ \A c \in Cells : grid.tiles[c] = h[f.base].tiles[c]
    BY <1>0, <1>13, <2>1 DEF Follows, Shown
  <2>4. ids = h[f.seq].ids
    BY <1>1, <2>2, <2>3 DEF TellsDelta
  <2>5. \A c \in Cells : tiles[c] = h[f.seq].tiles[c]
    BY <1>2, <2>2, <2>3, <2>4 DEF TellsDelta
  <2> QED BY <2>2, <2>4, <2>5
<1>15. Shown(h)'
  BY <1>0, <1>5, <1>10, <1>14 DEF Shown
<1>16. Follows(h)'
  BY <1>0, <1>13, <1>15 DEF Follows, Built, Tells, TellsKey, TellsDelta, Local
<1> QED BY <1>11, <1>12, <1>13, <1>16 DEF IInv, Histories, Content, Seqs, Ids

(* Any other frame is dropped.                                             *)
LEMMA DecodeInv ==
  ASSUME IInv, NEW f \in wire, Decode(f)
  PROVE  IInv'
<1>1. CASE TakesKey(f)
  BY <1>1, DecodeKeyInv
<1>2. CASE TakesDelta(f)
  BY <1>2, DecodeDeltaInv
<1>3. CASE ~TakesKey(f) /\ ~TakesDelta(f)
  <2>1. /\ grid' = grid /\ world' = world /\ geom' = geom /\ prev' = prev /\ run' = run
        /\ served' = served /\ slot' = slot /\ frames' = frames /\ interrupts' = interrupts
    BY <1>3 DEF Decode
  <2>2. TypeOK /\ IsFiniteSet(wire') /\ Cardinality(wire') <= MaxWire /\ Flying' \subseteq Flying
        /\ wire' \subseteq Keyframe \cup Delta
    BY Decoded DEF IInv
  <2>3. TypeOK'
    BY <2>1, <2>2 DEF TypeOK
  <2> QED BY <2>1, <2>2, <2>3, QuietInv
<1> QED BY <1>1, <1>2, <1>3

LEMMA NextInv == IInv /\ [Next]_vars => IInv'
<1> SUFFICES ASSUME IInv, [Next]_vars PROVE IInv'
  OBVIOUS
<1>1. CASE UNCHANGED vars
  <2>1. TypeOK'
    BY <1>1 DEF IInv, TypeOK, vars
  <2> QED BY <1>1, <2>1, QuietInv DEF vars, Flying
<1>2. CASE Next
  BY <1>2, TileCycleInv, CycleWithoutInv, ServerQuietInv, SendInv, InterruptInv, DecodeInv DEF Next
<1> QED BY <1>1, <1>2

-----------------------------------------------------------------------------
(* Theorems. *)

(* The inductive invariant holds in every reachable state.                 *)
THEOREM Invariance == Spec => []IInv
<1> QED BY InitInv, NextInv, PTL DEF Spec

(* Every index the server keeps is one of its palette's, and no more       *)
(* frames are under way than the bound allows (finish_view, PrevGrid).     *)
THEOREM TypeCorrect == Spec => []TypeOK
<1>1. IInv => TypeOK
  BY DEF IInv
<1> QED BY <1>1, Invariance, PTL

(* "Needs an exact base + matching geometry": a page whose grid carries    *)
(* the number and the geometry of the server's last tile frame shows what  *)
(* the server sent, if all the frames it builds on are of one run.         *)
THEOREM ShowsWhatWasSent == Spec => []InStep
<1>1. IInv => InStep
  BY DEF IInv, Follows, Built, Shown, InStep
<1> QED BY <1>1, Invariance, PTL

(* handleViewBin never takes an older grid of one geometry, and the newest *)
(* keyframe at once.                                                       *)
THEOREM Follow == Spec => FollowsFrames
<1>1. IInv /\ [Next]_vars => [NotBack /\ NewestShown]_vars
  <2> SUFFICES ASSUME IInv, Next PROVE NotBack /\ NewestShown
    OBVIOUS
  <2>0. TypeOK /\ Numbered
    BY DEF IInv
  <2>1. ASSUME NEW f \in wire, Decode(f)
        PROVE  NotBack /\ NewestShown
    <3>0. /\ wire \ wire' \subseteq {f} /\ f \in Flying /\ f \in Keyframe \cup Delta
          /\ f.seq \in Nat
      <4>1. f \in Keyframe \cup Delta /\ f \in Flying
        BY <2>0, <2>1, Decoded DEF TypeOK
      <4>2. f.seq \in Nat
        BY <4>1 DEF Keyframe, Delta, Seqs
      <4> QED BY <2>1, <4>1, <4>2 DEF Decode
    <3>1. grid # None => grid.seq \in Nat
      BY <2>0 DEF TypeOK, ClientGrid, Seqs
    <3>2. CASE TakesKey(f)
      <4>1. grid' # None /\ grid'.seq = f.seq /\ grid'.geom = f.geom /\ grid'.run = f.run
        <5>1. f \in Keyframe
          BY <3>0, <3>2 DEF TakesKey, Delta
        <5>2. grid' \in ClientGrid
          BY <2>0, <2>1, <3>2, <5>1, KeyTaken
        <5>3. grid' # None
          BY <5>2, NoneAssumption
        <5> QED BY <2>0, <2>1, <3>2, <5>1, <5>3, KeyTaken
      <4> QED BY <3>0, <3>1, <3>2, <4>1 DEF NotBack, NewestShown, Shows, TakesKey
    <3>3. CASE TakesDelta(f)
      <4>1. f.kind = "delta" /\ f.base = grid.seq /\ f.seq = f.base + 1 /\ grid # None
        BY <2>0, <3>0, <3>3 DEF TakesDelta, Numbered
      <4>2. grid'.seq = f.seq
        BY <2>1, <3>3, <4>1 DEF Decode, TakesKey
      <4> QED BY <3>0, <3>1, <4>1, <4>2 DEF NotBack, NewestShown, Newest
    <3>4. CASE ~TakesKey(f) /\ ~TakesDelta(f)
      <4>1. grid' = grid
        BY <2>1, <3>4 DEF Decode
      <4>2. ASSUME Newest(f), grid = None \/ grid.run = run
            PROVE  FALSE
        <5>1. f.kind = "key" /\ prev # None /\ f.geom = prev.geom /\ f.seq = prev.seq
          BY <4>2 DEF Newest
        <5>2. grid # None /\ grid.run = run /\ ~(f.seq >= grid.seq)
          BY <3>4, <4>2, <5>1 DEF TakesKey
        <5>3. grid.seq <= prev.seq
          BY <5>2 DEF IInv, Follows, Shown
        <5> QED BY <3>0, <3>1, <5>1, <5>2, <5>3
      <4> QED BY <3>0, <3>1, <4>1, <4>2 DEF NotBack, NewestShown
    <3> QED BY <3>2, <3>3, <3>4
  <2>2. ASSUME grid' \in {grid, None}, wire \subseteq wire'
        PROVE  NotBack /\ NewestShown
    <3>1. grid # None => grid.seq \in Nat
      BY <2>0 DEF TypeOK, ClientGrid, Seqs
    <3> QED BY <2>2, <3>1 DEF NotBack, NewestShown
  <2>3. CASE ~\E f \in wire : Decode(f)
    <3>1. grid' \in {grid, None} /\ wire \subseteq wire'
      BY <2>3 DEF Next, Paint, ViewSet, TileCycle, AntsCycle, CycleWithout, Send, Pause,
                  Disconnect, Resume, Forget
    <3> QED BY <2>2, <3>1
  <2> QED BY <2>1, <2>3
<1> QED BY <1>1, Invariance, PTL DEF Spec, FollowsFrames
=============================================================================
