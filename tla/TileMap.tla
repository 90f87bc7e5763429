------------------------------- MODULE TileMap -------------------------------
(***************************************************************************)
(* The territory store of src/src/tile_map.rs.  A cell holds a palette     *)
(* index, not a player id: palette[i+1] is the owner of index i, idToIdx   *)
(* the index of a live owner, free the stack of recycled indices.  A chunk *)
(* is absent, one index for all its cells (uniform) or a table of cells    *)
(* with the number of nonzero ones (dense).                                *)
(*                                                                         *)
(* Every call holds &mut World, so a call is one atomic step.  The widths  *)
(* of the code are constants: IdxSpace = 2^16 indices, TouchSpace = 2^64,  *)
(* CHUNK_CELLS = 65536 cells per chunk.                                    *)
(***************************************************************************)
EXTENDS Integers, Sequences, FiniteSets

CONSTANTS
  Chunks,      \* chunk keys
  Locals,      \* positions within a chunk
  Owners,      \* player ids (lifetime ids: may outnumber the indices)
  Unclaimed,   \* owner id 0
  NoChunk,     \* last_touched_chunk = None
  IdxSpace,    \* number of values of the index type (u16)
  TouchSpace,  \* number of values of dirty_chunk_touches (u64)
  MaxLive      \* bound on the owners that hold tiles at the same time

CHUNK_CELLS == Cardinality(Locals)

ASSUME GeometryAssumption ==
  /\ IsFiniteSet(Chunks) /\ NoChunk \notin Chunks
  /\ IsFiniteSet(Locals) /\ Cardinality(Locals) > 1
  /\ Unclaimed \notin Owners

(* The one thing the store relies on and does not enforce: a call never    *)
(* makes more owners live at once than there are nonzero indices.          *)
ASSUME CapacityAssumption ==
  /\ IdxSpace \in Nat \ {0}
  /\ TouchSpace \in Nat \ {0}
  /\ MaxLive \in Nat /\ MaxLive < IdxSpace

VARIABLES
  chunks,      \* chunk of every key (Absent when the hash map has no entry)
  counts,      \* tiles per owner; 0 stands for "no entry"
  palette,     \* index -> owner, shifted by one: Vec index 0 is position 1
  idToIdx,     \* owner -> index, NoIdx when the hash map has no entry
  free,        \* recycled indices, a stack
  dirty,       \* dirty_chunks
  lastTouched, \* last_touched_chunk
  touches      \* dirty_chunk_touches

vars == <<chunks, counts, palette, idToIdx, free, dirty, lastTouched, touches>>

Idx == 0 .. IdxSpace - 1
NoIdx == -1

Absent == [shape |-> "absent"]
Uniform(i) == [shape |-> "uniform", idx |-> i]
Dense(cells, occupied) == [shape |-> "dense", cells |-> cells, occupied |-> occupied]

Chunk ==
  {Absent}
    \cup [shape : {"uniform"}, idx : Idx]
    \cup [shape : {"dense"}, cells : [Locals -> Idx], occupied : 0 .. CHUNK_CELLS]

TypeOK ==
  /\ chunks \in [Chunks -> Chunk]
  /\ counts \in [Owners -> Nat]
  /\ palette \in Seq(Owners \cup {Unclaimed})
  /\ idToIdx \in [Owners -> Idx \cup {NoIdx}]
  /\ free \in Seq(Idx)
  /\ dirty \subseteq Chunks
  /\ lastTouched \in Chunks \cup {NoChunk}
  /\ touches \in 0 .. TouchSpace - 1

Init ==
  /\ chunks = [k \in Chunks |-> Absent]
  /\ counts = [p \in Owners |-> 0]
  /\ palette = <<Unclaimed>>
  /\ idToIdx = [p \in Owners |-> NoIdx]
  /\ free = <<>>
  /\ dirty = {}
  /\ lastTouched = NoChunk
  /\ touches = 0

-----------------------------------------------------------------------------
(* Reading a cell. *)

IdxAt(ch, l) ==
  IF ch.shape = "dense" THEN ch.cells[l]
  ELSE IF ch.shape = "uniform" THEN ch.idx ELSE 0

Get(k, l) == palette[IdxAt(chunks[k], l) + 1]
OwnerOf == [c \in Chunks \X Locals |-> Get(c[1], c[2])]

Live == {p \in Owners : idToIdx[p] # NoIdx}
Populated == {k \in Chunks : chunks[k] # Absent}
HeldBy(i, S) == {c \in S \X Locals : IdxAt(chunks[c[1]], c[2]) = i}

-----------------------------------------------------------------------------
(* idx_for: the index of p, recycled or appended if p has none.  The three *)
(* operators give the index it returns and the palette and free stack it   *)
(* leaves; len() as u16 wraps.                                             *)

IdxFor(p) ==
  IF idToIdx[p] # NoIdx THEN idToIdx[p]
  ELSE IF free # <<>> THEN free[Len(free)]
  ELSE Len(palette) % IdxSpace

PaletteWith(p) ==
  IF idToIdx[p] # NoIdx THEN palette
  ELSE IF free # <<>> THEN [palette EXCEPT ![free[Len(free)] + 1] = p]
  ELSE Append(palette, p)

FreeWith(p) ==
  IF idToIdx[p] # NoIdx \/ free = <<>> THEN free ELSE SubSeq(free, 1, Len(free) - 1)

(* dec_count drops the entry and recycles the index of an owner whose last *)
(* tile goes; an owner without an entry is left alone.                     *)
LastTile(p) == p \in Owners /\ counts[p] = 1

Recycle(p, indices, stack) ==
  IF LastTile(p) /\ indices[p] # NoIdx THEN Append(stack, indices[p]) ELSE stack

(* Mutant: the run-length shortcut of the counter guards the set as well. *)
NoteDirtyOncePerRun(k) ==
  /\ dirty' = IF lastTouched = k THEN dirty ELSE dirty \cup {k}
  /\ lastTouched' = k
  /\ touches' = IF lastTouched = k THEN touches ELSE (touches + 1) % TouchSpace

NoteDirty(k) ==
  /\ dirty' = dirty \cup {k}
  /\ lastTouched' = k
  /\ touches' = IF lastTouched = k THEN touches ELSE (touches + 1) % TouchSpace

-----------------------------------------------------------------------------
(* set(x, y, 0). *)

(* Mutant: a dense chunk that has lost its last tile stays in the map. *)
ClearedKeepsEmpty(ch, l) ==
  IF ch.shape = "uniform"
  THEN Dense([m \in Locals |-> IF m = l THEN 0 ELSE ch.idx], CHUNK_CELLS - 1)
  ELSE Dense([ch.cells EXCEPT ![l] = 0], ch.occupied - 1)

Cleared(ch, l) ==
  IF ch.shape = "uniform"
  THEN Dense([m \in Locals |-> IF m = l THEN 0 ELSE ch.idx], CHUNK_CELLS - 1)
  ELSE IF ch.occupied = 1 THEN Absent
  ELSE Dense([ch.cells EXCEPT ![l] = 0], ch.occupied - 1)

ClearCell(k, l) ==
  LET old == palette[IdxAt(chunks[k], l) + 1]
  IN  /\ chunks[k] # Absent
      /\ chunks[k].shape = "dense" => chunks[k].cells[l] # 0
      /\ chunks' = [chunks EXCEPT ![k] = Cleared(@, l)]
      /\ counts' = [p \in Owners |->
                      IF p = old /\ counts[p] > 0 THEN counts[p] - 1 ELSE counts[p]]
      /\ idToIdx' = [p \in Owners |-> IF p = old /\ LastTile(p) THEN NoIdx ELSE idToIdx[p]]
      /\ free' = Recycle(old, idToIdx, free)
      /\ NoteDirty(k)
      /\ UNCHANGED palette

-----------------------------------------------------------------------------
(* set(x, y, p) for a player p.  idx_for runs first, so p's index is taken *)
(* before the index of an owner that loses its last tile is recycled.      *)

(* Mutant: painting over a claimed cell of a dense chunk counts it again.  *)
PaintedCountsTwice(ch, l, i) ==
  IF ch.shape = "uniform"
  THEN Dense([m \in Locals |-> IF m = l THEN i ELSE ch.idx], CHUNK_CELLS)
  ELSE LET before == IF ch = Absent THEN [m \in Locals |-> 0] ELSE ch.cells
           nonzero == IF ch = Absent THEN 0 ELSE ch.occupied
       IN  Dense([before EXCEPT ![l] = i], nonzero + 1)

Painted(ch, l, i) ==
  IF ch.shape = "uniform"
  THEN Dense([m \in Locals |-> IF m = l THEN i ELSE ch.idx], CHUNK_CELLS)
  ELSE LET before   == IF ch = Absent THEN [m \in Locals |-> 0] ELSE ch.cells
           nonzero  == IF ch = Absent THEN 0 ELSE ch.occupied
           cells    == [before EXCEPT ![l] = i]
           occupied == IF before[l] = 0 THEN nonzero + 1 ELSE nonzero
           solid    == before[l] = 0 /\ occupied = CHUNK_CELLS /\ \A m \in Locals : cells[m] = i
       IN  IF solid THEN Uniform(i) ELSE Dense(cells, occupied)

PaintCell(k, l, p) ==
  LET i     == IdxFor(p)
      old_i == IdxAt(chunks[k], l)
      old   == IF old_i # 0 THEN PaletteWith(p)[old_i + 1] ELSE Unclaimed
      indices == [idToIdx EXCEPT ![p] = i]
  IN  /\ old_i # i
      /\ Cardinality(Live \cup {p}) <= MaxLive
      /\ chunks' = [chunks EXCEPT ![k] = Painted(@, l, i)]
      /\ counts' = [q \in Owners |->
                      IF q = p THEN counts[q] + 1
                      ELSE IF q = old /\ counts[q] > 0 THEN counts[q] - 1
                      ELSE counts[q]]
      /\ palette' = PaletteWith(p)
      /\ idToIdx' = [q \in Owners |-> IF q = old /\ LastTile(q) THEN NoIdx ELSE indices[q]]
      /\ free' = Recycle(old, indices, FreeWith(p))
      /\ NoteDirty(k)

-----------------------------------------------------------------------------
(* clear_owner: retain() visits the chunks in hash order and stops looking *)
(* once it has found as many tiles as p owns, so V is any set it can have  *)
(* scanned by then.  Chunks it touched become dirty without a note_dirty.  *)
(* An owner without an index has no entry in counts either (CountsExact):  *)
(* the early return of the code changes nothing and is no action here.     *)

Forfeited(ch, i) ==
  IF ch.shape = "uniform"
  THEN IF ch.idx = i THEN Absent ELSE ch
  ELSE LET zeroed == {l \in Locals : ch.cells[l] = i}
           left   == ch.occupied - Cardinality(zeroed)
       IN  IF left = 0 THEN Absent
           ELSE Dense([l \in Locals |-> IF l \in zeroed THEN 0 ELSE ch.cells[l]], left)

(* Mutant: the scan stops one tile early. *)
ScannedShort(p, V) ==
  V = Populated \/ Cardinality(HeldBy(idToIdx[p], V)) >= counts[p] - 1

Scanned(p, V) ==
  LET found(S) == Cardinality(HeldBy(idToIdx[p], S))
  IN  /\ V = Populated \/ found(V) >= counts[p]
      /\ V # {} => \E last \in V : found(V \ {last}) < counts[p]

ClearOwner(p) ==
  /\ idToIdx[p] # NoIdx
  /\ \E V \in SUBSET Populated :
       /\ Scanned(p, V)
       /\ chunks' = [k \in Chunks |->
                       IF k \in V THEN Forfeited(chunks[k], idToIdx[p]) ELSE chunks[k]]
       /\ dirty' = dirty \cup {c[1] : c \in HeldBy(idToIdx[p], V)}
  /\ counts' = [counts EXCEPT ![p] = 0]
  /\ idToIdx' = [idToIdx EXCEPT ![p] = NoIdx]
  /\ free' = Append(free, idToIdx[p])
  /\ UNCHANGED <<palette, lastTouched, touches>>

-----------------------------------------------------------------------------
(* clear: the world wipe.  The touch counter survives it. *)
Clear ==
  /\ chunks' = [k \in Chunks |-> Absent]
  /\ counts' = [p \in Owners |-> 0]
  /\ palette' = <<Unclaimed>>
  /\ idToIdx' = [p \in Owners |-> NoIdx]
  /\ free' = <<>>
  /\ dirty' = {}
  /\ lastTouched' = NoChunk
  /\ UNCHANGED touches

(* compact_pass: every dense chunk that has become one owner's turns       *)
(* uniform; nothing is marked dirty, since no cell changes.                *)
Compacted(ch) ==
  IF /\ ch.shape = "dense"
     /\ ch.occupied = CHUNK_CELLS
     /\ \E i \in Idx \ {0} : \A l \in Locals : ch.cells[l] = i
  THEN Uniform(CHOOSE i \in Idx \ {0} : \A l \in Locals : ch.cells[l] = i)
  ELSE ch

CompactPass ==
  /\ chunks' = [k \in Chunks |-> Compacted(chunks[k])]
  /\ UNCHANGED <<counts, palette, idToIdx, free, dirty, lastTouched, touches>>

(* drain_dirty_chunks, called by the snapshot writer. *)
DrainDirty ==
  /\ dirty' = {}
  /\ UNCHANGED <<chunks, counts, palette, idToIdx, free, lastTouched, touches>>

(* The store written to disk and read back: the fields marked serde(skip)  *)
(* start afresh and restore() marks every populated chunk dirty.           *)
Reload ==
  /\ dirty' = Populated
  /\ lastTouched' = NoChunk
  /\ touches' = 0
  /\ UNCHANGED <<chunks, counts, palette, idToIdx, free>>

Next ==
  \/ \E k \in Chunks, l \in Locals : ClearCell(k, l)
  \/ \E k \in Chunks, l \in Locals, p \in Owners : PaintCell(k, l, p)
  \/ \E p \in Owners : ClearOwner(p)
  \/ Clear
  \/ CompactPass
  \/ DrainDirty
  \/ Reload

Spec == Init /\ [][Next]_vars

-----------------------------------------------------------------------------
(* Every index except 0 belongs to exactly one live owner or lies on the   *)
(* free stack exactly once: idx_for and the two places that push to free   *)
(* (dec_count, clear_owner) neither leak an index nor free one twice.      *)
IndexConservation ==
  LET used  == {idToIdx[p] : p \in Live}
      spare == {free[n] : n \in 1 .. Len(free)}
  IN  /\ used \cap spare = {}
      /\ used \cup spare = 1 .. Len(palette) - 1
      /\ \A m, n \in 1 .. Len(free) : free[m] = free[n] => m = n

(* The palette inverts idToIdx: index 0 is the reserved unclaimed slot and *)
(* the slot of a live owner's index names that owner, so no two live       *)
(* owners share an index.                                                  *)
PaletteInverts ==
  /\ Len(palette) > 0 /\ palette[1] = Unclaimed
  /\ \A p \in Live : idToIdx[p] \in 1 .. Len(palette) - 1 /\ palette[idToIdx[p] + 1] = p

(* "safe: count 0 => no cell references that index any longer": an index   *)
(* found in a cell belongs to a live owner, so recycling it for another    *)
(* player can never hand that player somebody else's tiles.                *)
NoDanglingIndex ==
  \A k \in Chunks, l \in Locals :
    IdxAt(chunks[k], l) # 0 => \E p \in Live : idToIdx[p] = IdxAt(chunks[k], l)

(* "kept exact per-cell across every chunk transition": the count of an    *)
(* owner is the number of cells get() attributes to it, and it has an      *)
(* index exactly while that number is positive.                            *)
CountsExact ==
  \A p \in Owners :
    /\ counts[p] = Cardinality({c \in Chunks \X Locals : Get(c[1], c[2]) = p})
    /\ (counts[p] > 0) <=> (p \in Live)

(* No chunk without a claimed cell stays in the map, and the occupied      *)
(* count of a dense chunk is its number of nonzero cells.                  *)
ChunksCanonical ==
  \A k \in Chunks :
    /\ chunks[k].shape = "uniform" => chunks[k].idx # 0
    /\ chunks[k].shape = "dense" =>
         /\ chunks[k].occupied > 0
         /\ chunks[k].occupied = Cardinality({l \in Locals : chunks[k].cells[l] # 0})

(* "the live index space is bounded by the number of concurrently painting *)
(* owners": the palette never grows past the most owners ever live at once,*)
(* whatever the number of lifetime ids, so the u16 index cannot wrap.      *)
IndexSpaceBounded == Len(palette) <= MaxLive + 1

(* The index books: nothing leaks, nothing is named twice, nothing dangles *)
(* and the index type is wide enough.                                      *)
IndexBooks == IndexConservation /\ PaletteInverts /\ NoDanglingIndex /\ IndexSpaceBounded

(* The cell books: owners' counts and chunks' occupancy are those of the   *)
(* cells, through every change of a chunk's shape.                         *)
CellBooks == CountsExact /\ ChunksCanonical

(* Both sets of books, which set, clear, clear_owner and the sweep keep by *)
(* hand and each relies on: an index is freed when a count reaches zero,   *)
(* and a count is of the cells that hold the owner's index.                *)
BooksBalance == IndexBooks /\ CellBooks

(* The store implements the abstract grid: what get() answers and the      *)
(* dirty set evolve as TileGrid says, whatever the chunks look like inside.*)
Grid == INSTANCE TileGrid WITH owner <- OwnerOf, pending <- dirty
ImplementsGrid == Grid!Spec
=============================================================================
