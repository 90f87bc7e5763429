---------------------------- MODULE TileMapProofs ----------------------------
(***************************************************************************)
(* Proofs about the territory store, for every set of chunks, cells and    *)
(* owners and every index width: the bookkeeping invariants of TileMap and *)
(* the refinement of TileGrid.                                             *)
(***************************************************************************)
EXTENDS TileMap, FiniteSetTheorems, SequenceTheorems, TLAPS

-----------------------------------------------------------------------------
(* Chunks taken one at a time. *)

Nonzero(ch) == {m \in Locals : ch.cells[m] # 0}

GoodChunk(ch) ==
  /\ ch \in Chunk
  /\ ch.shape = "uniform" => ch.idx # 0
  /\ ch.shape = "dense" => ch.occupied > 0 /\ ch.occupied = Cardinality(Nonzero(ch))

(* A chunk has one of three shapes, and its shape determines its fields. *)
LEMMA ChunkShapes ==
  ASSUME NEW ch \in Chunk
  PROVE  \/ ch = Absent /\ ch.shape = "absent"
         \/ /\ ch.shape = "uniform" /\ ch # Absent
            /\ ch.idx \in Idx
         \/ /\ ch.shape = "dense" /\ ch # Absent
            /\ ch.cells \in [Locals -> Idx]
            /\ ch.occupied \in 0 .. CHUNK_CELLS
  BY DEF Chunk, Absent

(* The number of cells of a chunk is a natural number above one. *)
LEMMA CellCount == CHUNK_CELLS \in Nat /\ CHUNK_CELLS > 1
  BY GeometryAssumption, FS_CardinalityType DEF CHUNK_CELLS

(* Building a dense chunk: it is well formed when its count is right, and  *)
(* reading it back gives the table.                                        *)
LEMMA DenseChunk ==
  ASSUME NEW f \in [Locals -> Idx], NEW n \in Nat, n > 0,
         n = Cardinality({m \in Locals : f[m] # 0})
  PROVE  /\ GoodChunk(Dense(f, n))
         /\ \A m \in Locals : IdxAt(Dense(f, n), m) = f[m]
<1>1. n \in 0 .. CHUNK_CELLS
  <2>1. {m \in Locals : f[m] # 0} \in SUBSET Locals
    OBVIOUS
  <2>2. Cardinality({m \in Locals : f[m] # 0}) <= Cardinality(Locals)
    BY <2>1, FS_Subset, GeometryAssumption
  <2> QED BY <2>2, CellCount DEF CHUNK_CELLS
<1>2. Dense(f, n) \in Chunk
  BY <1>1 DEF Dense, Chunk
<1>3. /\ Dense(f, n).shape = "dense"
      /\ Dense(f, n).cells = f
      /\ Dense(f, n).occupied = n
  BY DEF Dense
<1> QED BY <1>2, <1>3 DEF GoodChunk, Nonzero, IdxAt

(* A uniform chunk of a nonzero index is well formed. *)
LEMMA UniformChunk ==
  ASSUME NEW i \in Idx, i # 0
  PROVE  /\ GoodChunk(Uniform(i))
         /\ \A m \in Locals : IdxAt(Uniform(i), m) = i
<1>1. Uniform(i) \in Chunk /\ Uniform(i).shape = "uniform" /\ Uniform(i).idx = i
  BY DEF Uniform, Chunk
<1> QED BY <1>1 DEF GoodChunk, IdxAt

(* The empty chunk is well formed and reads as unclaimed everywhere. *)
LEMMA AbsentChunk ==
  /\ GoodChunk(Absent)
  /\ \A m \in Locals : IdxAt(Absent, m) = 0
<1>1. Absent \in Chunk /\ Absent.shape = "absent"
  BY DEF Absent, Chunk
<1> QED BY <1>1 DEF GoodChunk, IdxAt

(* Every cell of a well-formed chunk reads as an index; a dense chunk is   *)
(* absent from the map exactly when all its cells are unclaimed.           *)
LEMMA ChunkReads ==
  ASSUME NEW ch, GoodChunk(ch)
  PROVE  /\ \A m \in Locals : IdxAt(ch, m) \in Idx
         /\ ch # Absent <=> \E m \in Locals : IdxAt(ch, m) # 0
<1>1. ch \in Chunk
  BY DEF GoodChunk
<1>0. 0 \in Idx
  BY CapacityAssumption DEF Idx
<1>2. CASE ch = Absent /\ ch.shape = "absent"
  BY <1>0, <1>2 DEF IdxAt
<1>3. CASE ch.shape = "uniform" /\ ch # Absent /\ ch.idx \in Idx
  <2>1. ch.idx # 0
    BY <1>3 DEF GoodChunk
  <2>2. \E m \in Locals : TRUE
    BY GeometryAssumption, FS_EmptySet
  <2>3. \A m \in Locals : IdxAt(ch, m) = ch.idx
    BY <1>3 DEF IdxAt
  <2> QED BY <1>3, <2>1, <2>2, <2>3
<1>4. CASE ch.shape = "dense" /\ ch # Absent /\ ch.cells \in [Locals -> Idx]
  <2>1. Cardinality(Nonzero(ch)) > 0
    BY <1>4 DEF GoodChunk
  <2>2. Nonzero(ch) # {}
    BY <2>1, FS_EmptySet
  <2>3. \A m \in Locals : IdxAt(ch, m) = ch.cells[m]
    BY <1>4 DEF IdxAt
  <2> QED BY <1>4, <2>2, <2>3 DEF Nonzero
<1> QED BY <1>1, <1>2, <1>3, <1>4, ChunkShapes

(* Painting cell l with another index changes that cell and no other.      *)
LEMMA PaintedChunk ==
  ASSUME NEW ch, GoodChunk(ch), NEW l \in Locals, NEW i \in Idx, i # 0,
         IdxAt(ch, l) # i
  PROVE  /\ GoodChunk(Painted(ch, l, i))
         /\ \A m \in Locals : IdxAt(Painted(ch, l, i), m) = IF m = l THEN i ELSE IdxAt(ch, m)
<1>0. ch \in Chunk /\ 0 \in Idx /\ IsFiniteSet(Locals)
  BY CapacityAssumption, GeometryAssumption DEF GoodChunk, Idx
<1>1. CASE ch = Absent /\ ch.shape = "absent"
  <2> DEFINE f == [[m \in Locals |-> 0] EXCEPT ![l] = i]
  <2>1. f \in [Locals -> Idx] /\ \A m \in Locals : f[m] = IF m = l THEN i ELSE 0
    BY <1>0
  <2>2. {m \in Locals : f[m] # 0} = {l}
    BY <2>1
  <2>3. Cardinality({m \in Locals : f[m] # 0}) = 1
    BY <2>2, FS_Singleton
  <2>4. Painted(ch, l, i) = Dense(f, 1)
    BY <1>1, CellCount DEF Painted
  <2>5. \A m \in Locals : IdxAt(ch, m) = 0
    BY <1>1 DEF IdxAt
  <2> HIDE DEF f
  <2> QED BY <2>1, <2>3, <2>4, <2>5, DenseChunk
<1>2. CASE ch.shape = "uniform" /\ ch # Absent /\ ch.idx \in Idx
  <2> DEFINE f == [m \in Locals |-> IF m = l THEN i ELSE ch.idx]
  <2>1. f \in [Locals -> Idx] /\ \A m \in Locals : f[m] = IF m = l THEN i ELSE ch.idx
    BY <1>2
  <2>2. {m \in Locals : f[m] # 0} = Locals
    BY <1>2, <2>1 DEF GoodChunk
  <2>3. Painted(ch, l, i) = Dense(f, CHUNK_CELLS)
    BY <1>2 DEF Painted
  <2>4. \A m \in Locals : IdxAt(ch, m) = ch.idx
    BY <1>2 DEF IdxAt
  <2>5. CHUNK_CELLS = Cardinality({m \in Locals : f[m] # 0})
    BY <2>2 DEF CHUNK_CELLS
  <2> HIDE DEF f
  <2> QED BY <2>1, <2>3, <2>4, <2>5, CellCount, DenseChunk
<1>3. CASE /\ ch.shape = "dense" /\ ch # Absent
           /\ ch.cells \in [Locals -> Idx] /\ ch.occupied \in 0 .. CHUNK_CELLS
  <2> DEFINE f == [ch.cells EXCEPT ![l] = i]
             n == IF ch.cells[l] = 0 THEN ch.occupied + 1 ELSE ch.occupied
             solid == ch.cells[l] = 0 /\ n = CHUNK_CELLS /\ \A m \in Locals : f[m] = i
  <2>1. f \in [Locals -> Idx] /\ \A m \in Locals : f[m] = IF m = l THEN i ELSE ch.cells[m]
    BY <1>3
  <2>2. \A m \in Locals : IdxAt(ch, m) = ch.cells[m]
    BY <1>3 DEF IdxAt
  <2>3. IsFiniteSet(Nonzero(ch))
    BY <1>0, FS_Subset DEF Nonzero
  <2>4. {m \in Locals : f[m] # 0} = Nonzero(ch) \cup {l}
    BY <2>1 DEF Nonzero
  <2>5. n = Cardinality({m \in Locals : f[m] # 0})
    <3>1. ch.cells[l] = 0 <=> l \notin Nonzero(ch)
      BY DEF Nonzero
    <3>2. Cardinality(Nonzero(ch) \cup {l}) =
            IF l \in Nonzero(ch) THEN Cardinality(Nonzero(ch)) ELSE Cardinality(Nonzero(ch)) + 1
      BY <2>3, FS_AddElement
    <3>3. ch.occupied = Cardinality(Nonzero(ch))
      BY <1>3 DEF GoodChunk
    <3> QED BY <2>4, <3>1, <3>2, <3>3
  <2>6. Painted(ch, l, i) = IF solid THEN Uniform(i) ELSE Dense(f, n)
    BY <1>3 DEF Painted
  <2>7. n \in Nat /\ n > 0
    BY <1>3, CellCount DEF GoodChunk
  <2>8. CASE solid
    BY <2>1, <2>2, <2>6, <2>8, UniformChunk
  <2>9. CASE ~solid
    <3>1. Painted(ch, l, i) = Dense(f, n)
      BY <2>6, <2>9
    <3> HIDE DEF f, n
    <3> QED BY <3>1, <2>1, <2>2, <2>5, <2>7, DenseChunk
  <2> QED BY <2>8, <2>9
<1> QED BY <1>0, <1>1, <1>2, <1>3, ChunkShapes

(* Clearing a claimed cell changes that cell and no other. *)
LEMMA ClearedChunk ==
  ASSUME NEW ch, GoodChunk(ch), NEW l \in Locals, IdxAt(ch, l) # 0
  PROVE  /\ GoodChunk(Cleared(ch, l))
         /\ \A m \in Locals : IdxAt(Cleared(ch, l), m) = IF m = l THEN 0 ELSE IdxAt(ch, m)
<1>0. ch \in Chunk /\ 0 \in Idx /\ IsFiniteSet(Locals)
  BY CapacityAssumption, GeometryAssumption DEF GoodChunk, Idx
<1>1. CASE ch = Absent /\ ch.shape = "absent"
  BY <1>1 DEF IdxAt
<1>2. CASE ch.shape = "uniform" /\ ch # Absent /\ ch.idx \in Idx
  <2> DEFINE f == [m \in Locals |-> IF m = l THEN 0 ELSE ch.idx]
  <2>1. f \in [Locals -> Idx] /\ \A m \in Locals : f[m] = IF m = l THEN 0 ELSE ch.idx
    BY <1>0, <1>2
  <2>2. {m \in Locals : f[m] # 0} = Locals \ {l}
    BY <1>2, <2>1 DEF GoodChunk
  <2>3. Cleared(ch, l) = Dense(f, CHUNK_CELLS - 1)
    BY <1>2 DEF Cleared
  <2>4. \A m \in Locals : IdxAt(ch, m) = ch.idx
    BY <1>2 DEF IdxAt
  <2>5. CHUNK_CELLS - 1 = Cardinality({m \in Locals : f[m] # 0})
    BY <1>0, <2>2, FS_RemoveElement DEF CHUNK_CELLS
  <2> HIDE DEF f
  <2> QED BY <2>1, <2>3, <2>4, <2>5, CellCount, DenseChunk
<1>3. CASE /\ ch.shape = "dense" /\ ch # Absent
           /\ ch.cells \in [Locals -> Idx] /\ ch.occupied \in 0 .. CHUNK_CELLS
  <2> DEFINE f == [ch.cells EXCEPT ![l] = 0]
             n == ch.occupied - 1
  <2>1. f \in [Locals -> Idx] /\ \A m \in Locals : f[m] = IF m = l THEN 0 ELSE ch.cells[m]
    BY <1>0, <1>3
  <2>2. \A m \in Locals : IdxAt(ch, m) = ch.cells[m]
    BY <1>3 DEF IdxAt
  <2>3. IsFiniteSet(Nonzero(ch)) /\ l \in Nonzero(ch)
    BY <1>0, <2>2, FS_Subset DEF Nonzero
  <2>4. {m \in Locals : f[m] # 0} = Nonzero(ch) \ {l}
    BY <2>1 DEF Nonzero
  <2>5. n = Cardinality({m \in Locals : f[m] # 0}) /\ n \in Nat
    <3>1. Cardinality(Nonzero(ch) \ {l}) = Cardinality(Nonzero(ch)) - 1
      BY <2>3, FS_RemoveElement
    <3>2. ch.occupied = Cardinality(Nonzero(ch)) /\ ch.occupied > 0
      BY <1>3 DEF GoodChunk
    <3> QED BY <1>3, <2>4, <3>1, <3>2, CellCount
  <2>6. CASE ch.occupied = 1
    <3>1. Cleared(ch, l) = Absent
      BY <1>3, <2>6 DEF Cleared
    <3>2. {m \in Locals : f[m] # 0} = {}
      <4>1. IsFiniteSet(Nonzero(ch) \ {l})
        BY <2>3, FS_RemoveElement
      <4>2. Cardinality(Nonzero(ch) \ {l}) = 0
        BY <1>3, <2>4, <2>5, <2>6
      <4> QED BY <2>4, <4>1, <4>2, FS_EmptySet
    <3> QED BY <2>1, <2>2, <3>1, <3>2, AbsentChunk
  <2>7. CASE ch.occupied # 1
    <3>1. Cleared(ch, l) = Dense(f, n)
      BY <1>3, <2>7 DEF Cleared
    <3>2. n > 0
      BY <2>5, <2>7, <1>3, CellCount
    <3> HIDE DEF f, n
    <3> QED BY <3>1, <3>2, <2>1, <2>2, <2>5, DenseChunk
  <2> QED BY <2>6, <2>7
<1> QED BY <1>0, <1>1, <1>2, <1>3, ChunkShapes

(* Forfeiting index i in a chunk clears its cells and no others. *)
LEMMA ForfeitedChunk ==
  ASSUME NEW ch, GoodChunk(ch), ch # Absent, NEW i \in Idx, i # 0
  PROVE  /\ GoodChunk(Forfeited(ch, i))
         /\ \A m \in Locals : IdxAt(Forfeited(ch, i), m) =
                                IF IdxAt(ch, m) = i THEN 0 ELSE IdxAt(ch, m)
<1>0. ch \in Chunk /\ 0 \in Idx /\ IsFiniteSet(Locals)
  BY CapacityAssumption, GeometryAssumption DEF GoodChunk, Idx
<1>1. CASE ch.shape = "uniform" /\ ch.idx \in Idx
  <2>1. Forfeited(ch, i) = IF ch.idx = i THEN Absent ELSE ch
    BY <1>1 DEF Forfeited
  <2>2. \A m \in Locals : IdxAt(ch, m) = ch.idx
    BY <1>1 DEF IdxAt
  <2> QED BY <2>1, <2>2, AbsentChunk
<1>2. CASE /\ ch.shape = "dense"
           /\ ch.cells \in [Locals -> Idx] /\ ch.occupied \in 0 .. CHUNK_CELLS
  <2> DEFINE zeroed == {m \in Locals : ch.cells[m] = i}
             f == [m \in Locals |-> IF m \in zeroed THEN 0 ELSE ch.cells[m]]
             left == ch.occupied - Cardinality(zeroed)
  <2>1. f \in [Locals -> Idx] /\ \A m \in Locals : f[m] = IF ch.cells[m] = i THEN 0 ELSE ch.cells[m]
    BY <1>0, <1>2
  <2>2. \A m \in Locals : IdxAt(ch, m) = ch.cells[m]
    BY <1>2 DEF IdxAt
  <2>3. IsFiniteSet(Nonzero(ch)) /\ IsFiniteSet(zeroed) /\ Nonzero(ch) \cap zeroed = zeroed
    BY <1>0, FS_Subset DEF Nonzero
  <2>4. {m \in Locals : f[m] # 0} = Nonzero(ch) \ zeroed
    BY <2>1 DEF Nonzero
  <2>5. left = Cardinality({m \in Locals : f[m] # 0}) /\ left \in Nat
    <3>1. /\ IsFiniteSet(Nonzero(ch) \ zeroed)
          /\ Cardinality(Nonzero(ch) \ zeroed) = Cardinality(Nonzero(ch)) - Cardinality(zeroed)
      BY <2>3, FS_Difference
    <3>2. Cardinality(Nonzero(ch) \ zeroed) \in Nat
      BY <3>1, FS_CardinalityType
    <3>3. ch.occupied = Cardinality(Nonzero(ch))
      BY <1>2 DEF GoodChunk
    <3> QED BY <2>4, <3>1, <3>2, <3>3
  <2>6. Forfeited(ch, i) = IF left = 0 THEN Absent ELSE Dense(f, left)
    BY <1>2 DEF Forfeited
  <2>7. CASE left = 0
    <3>1. {m \in Locals : f[m] # 0} = {}
      BY <2>3, <2>4, <2>5, <2>7, FS_Difference, FS_EmptySet
    <3> HIDE DEF f, left
    <3> QED BY <2>1, <2>2, <2>6, <2>7, <3>1, AbsentChunk
  <2>8. CASE left # 0
    <3>1. left > 0
      BY <2>5, <2>8
    <3> HIDE DEF f, left
    <3> QED BY <2>1, <2>2, <2>5, <2>6, <2>8, <3>1, DenseChunk
  <2> QED BY <2>7, <2>8
<1> QED BY <1>0, <1>1, <1>2, ChunkShapes

(* Compaction changes what a chunk stores and not what it says. *)
LEMMA CompactedChunk ==
  ASSUME NEW ch, GoodChunk(ch)
  PROVE  /\ GoodChunk(Compacted(ch))
         /\ \A m \in Locals : IdxAt(Compacted(ch), m) = IdxAt(ch, m)
         /\ Compacted(ch) = Absent <=> ch = Absent
<1> DEFINE solid == /\ ch.shape = "dense"
                    /\ ch.occupied = CHUNK_CELLS
                    /\ \E i \in Idx \ {0} : \A m \in Locals : ch.cells[m] = i
           i == CHOOSE i \in Idx \ {0} : \A m \in Locals : ch.cells[m] = i
<1>1. Compacted(ch) = IF solid THEN Uniform(i) ELSE ch
  BY DEF Compacted
<1>2. CASE solid
  <2>1. i \in Idx \ {0} /\ \A m \in Locals : ch.cells[m] = i
    BY <1>2
  <2> HIDE DEF i
  <2>2. \A m \in Locals : IdxAt(ch, m) = ch.cells[m]
    BY <1>2 DEF IdxAt
  <2>3. Uniform(i) # Absent /\ ch # Absent
    BY <1>2 DEF Uniform, Absent
  <2> QED BY <1>1, <1>2, <2>1, <2>2, <2>3, UniformChunk
<1>3. CASE ~solid
  BY <1>1, <1>3
<1> QED BY <1>2, <1>3

-----------------------------------------------------------------------------
(* A length that fits the index type is not changed by the cast. *)
LEMMA SmallMod ==
  ASSUME NEW a \in Nat, NEW n \in Nat, a < n
  PROVE  a % n = a
  OBVIOUS

(* What is left of a stack when elements are popped from its end. *)
LEMMA Prefix ==
  ASSUME NEW S, NEW s \in Seq(S), NEW k \in Nat, k <= Len(s)
  PROVE  /\ SubSeq(s, 1, k) \in Seq(S)
         /\ Len(SubSeq(s, 1, k)) = k
         /\ \A n \in 1 .. k : SubSeq(s, 1, k)[n] = s[n]
<1>1. \A i \in 1 .. k : s[i] \in S
  BY ElementOfSeq, LenProperties
<1>2. 1 \in Int /\ k \in Int
  OBVIOUS
<1>3. /\ SubSeq(s, 1, k) \in Seq(S)
      /\ Len(SubSeq(s, 1, k)) = IF 1 <= k THEN k - 1 + 1 ELSE 0
      /\ \A i \in 1 .. k - 1 + 1 : SubSeq(s, 1, k)[i] = s[1 + i - 1]
  BY ONLY <1>1, <1>2, SubSeqProperties
<1> QED BY <1>3

(* The palette, the index table and the free stack, taken together.        *)
(* Written over arbitrary tables so that it also describes the moment      *)
(* between the two halves of set(): idx_for has run and dec_count has not. *)
Books(ix, st, pal) ==
  /\ ix \in [Owners -> Idx \cup {NoIdx}]
  /\ st \in Seq(Idx)
  /\ pal \in Seq(Owners \cup {Unclaimed})
  /\ Len(pal) > 0 /\ pal[1] = Unclaimed
  /\ \A q \in Owners : ix[q] # NoIdx => ix[q] \in 1 .. Len(pal) - 1 /\ pal[ix[q] + 1] = q
  /\ \A n \in 1 .. Len(st) : st[n] \in 1 .. Len(pal) - 1
  /\ \A m, n \in 1 .. Len(st) : st[m] = st[n] => m = n
  /\ \A q \in Owners, n \in 1 .. Len(st) : ix[q] # st[n]
  /\ \A i \in 1 .. Len(pal) - 1 :
       (\E q \in Owners : ix[q] = i) \/ (\E n \in 1 .. Len(st) : st[n] = i)

(* Books is IndexConservation and PaletteInverts, for a typed state. *)
LEMMA BooksMeaning ==
  ASSUME Books(idToIdx, free, palette)
  PROVE  IndexConservation /\ PaletteInverts
<1>1. PaletteInverts
  BY DEF Books, PaletteInverts, Live
<1>2. {idToIdx[p] : p \in Live} \cap {free[n] : n \in 1 .. Len(free)} = {}
  BY DEF Books, Live
<1>3. {idToIdx[p] : p \in Live} \cup {free[n] : n \in 1 .. Len(free)} = 1 .. Len(palette) - 1
  <2>1. {idToIdx[p] : p \in Live} \subseteq 1 .. Len(palette) - 1
    BY DEF Books, Live
  <2>2. {free[n] : n \in 1 .. Len(free)} \subseteq 1 .. Len(palette) - 1
    BY DEF Books
  <2>3. ASSUME NEW i \in 1 .. Len(palette) - 1
        PROVE  i \in {idToIdx[p] : p \in Live} \cup {free[n] : n \in 1 .. Len(free)}
    <3>1. i # NoIdx
      BY LenProperties DEF NoIdx, Books
    <3>2. (\E q \in Owners : idToIdx[q] = i) \/ (\E n \in 1 .. Len(free) : free[n] = i)
      BY DEF Books
    <3> QED BY <3>1, <3>2 DEF Live
  <2> QED BY <2>1, <2>2, <2>3
<1>4. \A m, n \in 1 .. Len(free) : free[m] = free[n] => m = n
  BY DEF Books
<1> QED BY <1>1, <1>2, <1>3, <1>4 DEF IndexConservation

(* Two live owners never share an index. *)
LEMMA BooksInjective ==
  ASSUME NEW ix, NEW st, NEW pal, Books(ix, st, pal),
         NEW p \in Owners, NEW q \in Owners, ix[p] = ix[q], ix[p] # NoIdx
  PROVE  p = q
  BY DEF Books

(* dec_count and clear_owner: an index taken from its owner goes to the    *)
(* top of the free stack.                                                  *)
LEMMA GiveBack ==
  ASSUME NEW ix, NEW st, NEW pal, Books(ix, st, pal),
         NEW q \in Owners, ix[q] # NoIdx
  PROVE  Books([ix EXCEPT ![q] = NoIdx], Append(st, ix[q]), pal)
<1> DEFINE jx == [ix EXCEPT ![q] = NoIdx]
           tt == Append(st, ix[q])
<1>1. /\ ix \in [Owners -> Idx \cup {NoIdx}]
      /\ st \in Seq(Idx)
      /\ pal \in Seq(Owners \cup {Unclaimed})
      /\ Len(pal) > 0 /\ pal[1] = Unclaimed
      /\ ix[q] \in Idx
  BY DEF Books
<1>2. /\ jx \in [Owners -> Idx \cup {NoIdx}]
      /\ \A r \in Owners : jx[r] = IF r = q THEN NoIdx ELSE ix[r]
  BY <1>1
<1>3. /\ tt \in Seq(Idx)
      /\ Len(tt) = Len(st) + 1
      /\ Len(st) \in Nat
      /\ \A n \in 1 .. Len(st) : tt[n] = st[n]
      /\ tt[Len(st) + 1] = ix[q]
  BY <1>1, AppendProperties, LenProperties
<1> HIDE DEF jx, tt
<1>4. \A r \in Owners : jx[r] # NoIdx => jx[r] \in 1 .. Len(pal) - 1 /\ pal[jx[r] + 1] = r
  BY <1>2 DEF Books
<1>5. \A n \in 1 .. Len(tt) : tt[n] \in 1 .. Len(pal) - 1
  <2>1. ix[q] \in 1 .. Len(pal) - 1
    BY DEF Books
  <2>2. \A n \in 1 .. Len(st) : st[n] \in 1 .. Len(pal) - 1
    BY DEF Books
  <2> QED BY <1>3, <2>1, <2>2
<1>6. \A m, n \in 1 .. Len(tt) : tt[m] = tt[n] => m = n
  <2>1. \A n \in 1 .. Len(st) : ix[q] # st[n]
    BY DEF Books
  <2>2. \A m, n \in 1 .. Len(st) : st[m] = st[n] => m = n
    BY DEF Books
  <2> QED BY <1>3, <2>1, <2>2
<1>7. \A r \in Owners, n \in 1 .. Len(tt) : jx[r] # tt[n]
  <2> SUFFICES ASSUME NEW r \in Owners, NEW n \in 1 .. Len(tt) PROVE jx[r] # tt[n]
    OBVIOUS
  <2>1. tt[n] # NoIdx
    BY <1>5, LenProperties, <1>1 DEF NoIdx
  <2>2. CASE r = q
    BY <1>2, <2>1, <2>2
  <2>3. CASE r # q /\ n \in 1 .. Len(st)
    BY <1>2, <1>3, <2>3 DEF Books
  <2>4. CASE r # q /\ n = Len(st) + 1
    BY <1>2, <1>3, <2>4, BooksInjective
  <2> QED BY <1>3, <2>2, <2>3, <2>4
<1>8. \A i \in 1 .. Len(pal) - 1 :
        (\E r \in Owners : jx[r] = i) \/ (\E n \in 1 .. Len(tt) : tt[n] = i)
  <2> SUFFICES ASSUME NEW i \in 1 .. Len(pal) - 1
               PROVE  (\E r \in Owners : jx[r] = i) \/ (\E n \in 1 .. Len(tt) : tt[n] = i)
    OBVIOUS
  <2>1. CASE ix[q] = i
    BY <1>3, <2>1
  <2>2. CASE ix[q] # i /\ \E r \in Owners : ix[r] = i
    BY <1>2, <2>2
  <2>3. CASE \E n \in 1 .. Len(st) : st[n] = i
    BY <1>3, <2>3
  <2> QED BY <2>1, <2>2, <2>3 DEF Books
<1> QED BY <1>1, <1>2, <1>3, <1>4, <1>5, <1>6, <1>7, <1>8 DEF Books, jx, tt

(* When every allocated index is in use, the palette holds the reserved    *)
(* slot and one slot per live owner.                                       *)
LEMMA FullPalette ==
  ASSUME Books(idToIdx, free, palette), free = <<>>
  PROVE  IsFiniteSet(Live) /\ Cardinality(Live) = Len(palette) - 1
<1> DEFINE n == Len(palette) - 1
           f == [q \in Live |-> idToIdx[q]]
<1>1. n \in Nat
  BY LenProperties DEF Books
<1>2. f \in [Live -> 1 .. n]
  BY DEF Books, Live
<1>3. \A p, q \in Live : f[p] = f[q] => p = q
  BY BooksInjective DEF Live
<1>4. \A i \in 1 .. n : \E q \in Live : f[q] = i
  <2> SUFFICES ASSUME NEW i \in 1 .. n PROVE \E q \in Live : f[q] = i
    OBVIOUS
  <2>1. Len(free) = 0 /\ i # NoIdx
    BY <1>1, EmptySeq DEF NoIdx
  <2>2. PICK q \in Owners : idToIdx[q] = i
    BY <2>1 DEF Books
  <2> QED BY <2>1, <2>2 DEF Live
<1> HIDE DEF n, f
<1>5. f \in Injection(Live, 1 .. n) /\ f \in Surjection(Live, 1 .. n)
  BY <1>2, <1>3, <1>4 DEF Injection, IsInjective, Surjection
<1>6. IsFiniteSet(1 .. n) /\ Cardinality(1 .. n) = n
  BY <1>1, FS_Interval
<1>7. IsFiniteSet(Live) /\ Cardinality(Live) = Cardinality(1 .. n)
  BY <1>5, <1>6, FS_Injection
<1> QED BY <1>6, <1>7 DEF n

(* idx_for: whatever way the index of p is found, the books stay in order  *)
(* with it entered, the index is a nonzero u16, the slots of the other     *)
(* owners are untouched and the palette stays within its bound.            *)
LEMMA TakeIndex ==
  ASSUME Books(idToIdx, free, palette), Len(palette) <= MaxLive + 1,
         NEW p \in Owners, Cardinality(Live \cup {p}) <= MaxLive
  PROVE  /\ IdxFor(p) \in Idx \ {0}
         /\ Books([idToIdx EXCEPT ![p] = IdxFor(p)], FreeWith(p), PaletteWith(p))
         /\ Len(PaletteWith(p)) <= MaxLive + 1
<1> DEFINE i == IdxFor(p)
           ix == [idToIdx EXCEPT ![p] = i]
           st == FreeWith(p)
           pal == PaletteWith(p)
<1>1. /\ idToIdx \in [Owners -> Idx \cup {NoIdx}]
      /\ free \in Seq(Idx)
      /\ palette \in Seq(Owners \cup {Unclaimed})
      /\ Len(free) \in Nat /\ Len(palette) \in Nat /\ Len(palette) > 0
      /\ palette[1] = Unclaimed
  BY LenProperties DEF Books
<1>2. CASE idToIdx[p] # NoIdx
  <2>1. i = idToIdx[p] /\ ix = idToIdx /\ st = free /\ pal = palette
    BY <1>1, <1>2 DEF IdxFor, FreeWith, PaletteWith
  <2>2. i \in Idx /\ i \in 1 .. Len(palette) - 1
    BY <1>1, <1>2, <2>1 DEF Books, NoIdx
  <2>3. Books(ix, st, pal)
    BY <2>1
  <2>4. Len(pal) <= MaxLive + 1 /\ i # 0
    BY <1>1, <2>1, <2>2
  <2> QED BY <2>2, <2>3, <2>4
<1>3. CASE idToIdx[p] = NoIdx /\ free # <<>>
  <2>1. /\ i = free[Len(free)]
        /\ st = SubSeq(free, 1, Len(free) - 1)
        /\ pal = [palette EXCEPT ![i + 1] = p]
    BY <1>3 DEF IdxFor, FreeWith, PaletteWith
  <2>2. Len(free) \in 1 .. Len(free)
    BY <1>1, <1>3, EmptySeq
  <2>3. i \in Idx /\ i \in 1 .. Len(palette) - 1
    BY <1>1, <2>1, <2>2, ElementOfSeq DEF Books
  <2>4. /\ st \in Seq(Idx)
        /\ Len(st) = Len(free) - 1
        /\ \A n \in 1 .. Len(st) : st[n] = free[n]
    <3>1. Len(free) - 1 \in Nat /\ Len(free) - 1 <= Len(free)
      BY <1>1, <2>2
    <3>2. /\ SubSeq(free, 1, Len(free) - 1) \in Seq(Idx)
          /\ Len(SubSeq(free, 1, Len(free) - 1)) = Len(free) - 1
          /\ \A n \in 1 .. Len(free) - 1 : SubSeq(free, 1, Len(free) - 1)[n] = free[n]
      BY <1>1, <3>1, Prefix
    <3> QED BY <2>1, <3>2
  <2>5. /\ pal \in Seq(Owners \cup {Unclaimed})
        /\ Len(pal) = Len(palette)
        /\ \A j \in 1 .. Len(palette) : pal[j] = IF j = i + 1 THEN p ELSE palette[j]
    <3>1. i + 1 \in 1 .. Len(palette) /\ p \in Owners \cup {Unclaimed}
      BY <1>1, <2>3
    <3> HIDE DEF i
    <3> QED BY <1>1, <2>1, <3>1, ExceptSeq
  <2>6. /\ ix \in [Owners -> Idx \cup {NoIdx}]
        /\ \A q \in Owners : ix[q] = IF q = p THEN i ELSE idToIdx[q]
    BY <1>1, <2>3
  <2> HIDE DEF i, st, pal, ix
  <2>7. pal[1] = Unclaimed /\ Len(pal) > 0
    BY <1>1, <2>3, <2>5
  <2>8. \A q \in Owners : q # p => ix[q] # i
    BY <2>1, <2>2, <2>6 DEF Books
  <2>9. \A q \in Owners : ix[q] # NoIdx => ix[q] \in 1 .. Len(pal) - 1 /\ pal[ix[q] + 1] = q
    <3> SUFFICES ASSUME NEW q \in Owners, ix[q] # NoIdx
                 PROVE  ix[q] \in 1 .. Len(pal) - 1 /\ pal[ix[q] + 1] = q
      OBVIOUS
    <3>1. CASE q = p
      BY <1>1, <2>3, <2>5, <2>6, <3>1
    <3>2. CASE q # p
      <4>1. ix[q] = idToIdx[q] /\ ix[q] # i
        BY <2>6, <2>8, <3>2
      <4>2. idToIdx[q] \in 1 .. Len(palette) - 1 /\ palette[idToIdx[q] + 1] = q
        BY <4>1 DEF Books
      <4> QED BY <1>1, <2>3, <2>5, <4>1, <4>2
    <3> QED BY <3>1, <3>2
  <2>10. \A n \in 1 .. Len(st) : st[n] \in 1 .. Len(pal) - 1
    BY <1>1, <2>4, <2>5 DEF Books
  <2>11. \A m, n \in 1 .. Len(st) : st[m] = st[n] => m = n
    <3>1. \A m, n \in 1 .. Len(free) : free[m] = free[n] => m = n
      BY DEF Books
    <3>2. \A n \in 1 .. Len(st) : n \in 1 .. Len(free) /\ st[n] = free[n]
      BY <1>1, <2>4
    <3> QED BY <3>1, <3>2
  <2>12. \A q \in Owners, n \in 1 .. Len(st) : ix[q] # st[n]
    <3>1. \A n \in 1 .. Len(st) : n \in 1 .. Len(free) /\ n # Len(free) /\ st[n] = free[n]
      BY <1>1, <2>4
    <3>2. \A n \in 1 .. Len(st) : st[n] # i
      BY <2>1, <2>2, <3>1 DEF Books
    <3>3. \A q \in Owners, n \in 1 .. Len(free) : idToIdx[q] # free[n]
      BY DEF Books
    <3> QED BY <2>6, <3>1, <3>2, <3>3
  <2>13. \A j \in 1 .. Len(pal) - 1 :
           (\E q \in Owners : ix[q] = j) \/ (\E n \in 1 .. Len(st) : st[n] = j)
    <3> SUFFICES ASSUME NEW j \in 1 .. Len(pal) - 1
                 PROVE  (\E q \in Owners : ix[q] = j) \/ (\E n \in 1 .. Len(st) : st[n] = j)
      OBVIOUS
    <3>1. CASE j = i
      BY <2>6, <3>1
    <3>2. CASE j # i /\ \E q \in Owners : idToIdx[q] = j
      <4>1. PICK q \in Owners : idToIdx[q] = j
        BY <3>2
      <4>2. q # p
        BY <1>1, <1>3, <2>5, <4>1 DEF NoIdx
      <4> QED BY <2>6, <4>1, <4>2
    <3>3. CASE j # i /\ \E n \in 1 .. Len(free) : free[n] = j
      <4>1. PICK n \in 1 .. Len(free) : free[n] = j
        BY <3>3
      <4>2. n \in 1 .. Len(st)
        BY <1>1, <2>1, <2>4, <3>3, <4>1
      <4> QED BY <2>4, <4>1, <4>2
    <3> QED BY <2>5, <3>1, <3>2, <3>3 DEF Books
  <2>14. Books(ix, st, pal)
    BY <2>4, <2>5, <2>6, <2>7, <2>9, <2>10, <2>11, <2>12, <2>13 DEF Books
  <2> QED BY <1>1, <2>3, <2>5, <2>14 DEF i, st, pal, ix
<1>4. CASE idToIdx[p] = NoIdx /\ free = <<>>
  <2>1. Len(palette) <= MaxLive
    <3>1. IsFiniteSet(Live) /\ Cardinality(Live) = Len(palette) - 1
      BY <1>4, FullPalette
    <3>2. p \notin Live
      BY <1>4 DEF Live
    <3>3. Cardinality(Live \cup {p}) = Cardinality(Live) + 1
      BY <3>1, <3>2, FS_AddElement
    <3> QED BY <1>1, <3>1, <3>3, CapacityAssumption
  <2>2. Len(palette) \in Idx /\ Len(palette) % IdxSpace = Len(palette)
    <3>1. IdxSpace \in Nat /\ Len(palette) < IdxSpace
      BY <1>1, <2>1, CapacityAssumption
    <3>2. Len(palette) % IdxSpace = Len(palette)
      BY <1>1, <3>1, SmallMod
    <3> QED BY <1>1, <3>1, <3>2 DEF Idx
  <2>3. /\ i = Len(palette)
        /\ st = free
        /\ pal = Append(palette, p)
    BY <1>4, <2>2 DEF IdxFor, FreeWith, PaletteWith
  <2>4. /\ pal \in Seq(Owners \cup {Unclaimed})
        /\ Len(pal) = Len(palette) + 1
        /\ \A j \in 1 .. Len(palette) : pal[j] = palette[j]
        /\ pal[i + 1] = p
    BY <1>1, <2>3, AppendProperties
  <2>5. Len(free) = 0
    BY <1>4, EmptySeq
  <2>6. /\ ix \in [Owners -> Idx \cup {NoIdx}]
        /\ \A q \in Owners : ix[q] = IF q = p THEN i ELSE idToIdx[q]
    BY <1>1, <2>2, <2>3
  <2> HIDE DEF i, st, pal, ix
  <2>7. \A q \in Owners : ix[q] # NoIdx => ix[q] \in 1 .. Len(pal) - 1 /\ pal[ix[q] + 1] = q
    <3> SUFFICES ASSUME NEW q \in Owners, ix[q] # NoIdx
                 PROVE  ix[q] \in 1 .. Len(pal) - 1 /\ pal[ix[q] + 1] = q
      OBVIOUS
    <3>1. CASE q = p
      BY <1>1, <2>3, <2>4, <2>6, <3>1
    <3>2. CASE q # p
      <4>1. ix[q] = idToIdx[q]
        BY <2>6, <3>2
      <4>2. idToIdx[q] \in 1 .. Len(palette) - 1 /\ palette[idToIdx[q] + 1] = q
        BY <4>1 DEF Books
      <4>3. idToIdx[q] + 1 \in 1 .. Len(palette) /\ idToIdx[q] \in 1 .. Len(pal) - 1
        BY <1>1, <2>4, <4>2
      <4> QED BY <2>4, <4>1, <4>2, <4>3
    <3> QED BY <3>1, <3>2
  <2>8. \A j \in 1 .. Len(pal) - 1 : \E q \in Owners : ix[q] = j
    <3> SUFFICES ASSUME NEW j \in 1 .. Len(pal) - 1 PROVE \E q \in Owners : ix[q] = j
      OBVIOUS
    <3>1. CASE j = Len(palette)
      BY <2>3, <2>6, <3>1
    <3>2. CASE j \in 1 .. Len(palette) - 1
      <4>1. PICK q \in Owners : idToIdx[q] = j
        BY <2>5, <3>2 DEF Books
      <4>2. q # p
        BY <1>1, <1>4, <3>2, <4>1 DEF NoIdx
      <4> QED BY <2>6, <4>1, <4>2
    <3> QED BY <1>1, <2>4, <3>1, <3>2
  <2>9. Books(ix, st, pal)
    BY <1>1, <2>3, <2>4, <2>5, <2>6, <2>7, <2>8 DEF Books
  <2>10. i \in Idx \ {0} /\ Len(pal) <= MaxLive + 1
    BY <1>1, <2>1, <2>2, <2>3, <2>4, CapacityAssumption
  <2> QED BY <2>9, <2>10 DEF i, st, pal, ix
<1> QED BY <1>2, <1>3, <1>4

-----------------------------------------------------------------------------
(* Cells seen through the whole map. *)

Held(C, i) == {c \in Chunks \X Locals : IdxAt(C[c[1]], c[2]) = i}

LEMMA HeldFinite ==
  ASSUME NEW C, NEW i
  PROVE  IsFiniteSet(Held(C, i)) /\ Cardinality(Held(C, i)) \in Nat
<1>1. IsFiniteSet(Chunks \X Locals)
  BY GeometryAssumption, FS_Product
<1>2. Held(C, i) \in SUBSET (Chunks \X Locals)
  BY DEF Held
<1> QED BY <1>1, <1>2, FS_Subset, FS_CardinalityType

(* When one cell goes from one index to another, the first loses a tile,   *)
(* the second gains one and no other index notices.                        *)
OneCellDiffers(C, D, k, l, i) ==
  /\ i # IdxAt(C[k], l)
  /\ \A kk \in Chunks, m \in Locals :
       IdxAt(D[kk], m) = IF kk = k /\ m = l THEN i ELSE IdxAt(C[kk], m)

LEMMA OneCell ==
  ASSUME NEW C, NEW D, NEW k \in Chunks, NEW l \in Locals, NEW i,
         OneCellDiffers(C, D, k, l, i)
  PROVE  /\ Cardinality(Held(D, i)) = Cardinality(Held(C, i)) + 1
         /\ Cardinality(Held(D, IdxAt(C[k], l))) = Cardinality(Held(C, IdxAt(C[k], l))) - 1
         /\ \A j : j # i /\ j # IdxAt(C[k], l) => Held(D, j) = Held(C, j)
<1> DEFINE c == <<k, l>>
           old == IdxAt(C[k], l)
<1> USE DEF OneCellDiffers
<1>1. c \in Chunks \X Locals
  OBVIOUS
<1>2. \A e \in Chunks \X Locals :
        /\ e[1] \in Chunks /\ e[2] \in Locals
        /\ (e[1] = k /\ e[2] = l) <=> e = c
  OBVIOUS
<1>3. \A e \in Chunks \X Locals :
        IdxAt(D[e[1]], e[2]) = IF e = c THEN i ELSE IdxAt(C[e[1]], e[2])
  BY <1>2
<1>4. IdxAt(C[c[1]], c[2]) = old
  OBVIOUS
<1> HIDE DEF c, old
<1>5. Held(D, i) = Held(C, i) \cup {c} /\ c \notin Held(C, i)
  BY <1>1, <1>3, <1>4 DEF Held, old
<1>6. Held(D, old) = Held(C, old) \ {c} /\ c \in Held(C, old)
  BY <1>1, <1>3, <1>4 DEF Held, old
<1>7. \A j : j # i /\ j # old => Held(D, j) = Held(C, j)
  BY <1>1, <1>3, <1>4 DEF Held
<1>0. IsFiniteSet(Held(C, i)) /\ IsFiniteSet(Held(C, old))
  BY HeldFinite
<1>8. Cardinality(Held(D, i)) = Cardinality(Held(C, i)) + 1
  BY <1>0, <1>5, FS_AddElement
<1>9. Cardinality(Held(D, old)) = Cardinality(Held(C, old)) - 1
  BY <1>0, <1>6, FS_RemoveElement
<1> QED BY <1>7, <1>8, <1>9 DEF old

(* Every index a cell holds belongs to somebody, and every owner's count   *)
(* is the number of cells holding its index.                               *)
Indexed(ix, C) ==
  \A k \in Chunks, l \in Locals :
    IdxAt(C[k], l) # 0 => \E q \in Owners : ix[q] = IdxAt(C[k], l)

Tallied(ix, cnt, C) ==
  \A q \in Owners :
    /\ ix[q] # NoIdx => cnt[q] = Cardinality(Held(C, ix[q])) /\ cnt[q] > 0
    /\ ix[q] = NoIdx => cnt[q] = 0

(* The inductive invariant.                                                *)
IInv ==
  /\ chunks \in [Chunks -> Chunk]
  /\ \A k \in Chunks : GoodChunk(chunks[k])
  /\ counts \in [Owners -> Nat]
  /\ Books(idToIdx, free, palette)
  /\ Len(palette) <= MaxLive + 1
  /\ Indexed(idToIdx, chunks)
  /\ Tallied(idToIdx, counts, chunks)
  /\ dirty \subseteq Chunks
  /\ lastTouched \in Chunks \cup {NoChunk}
  /\ touches \in 0 .. TouchSpace - 1

(* The palette entry of a cell's index is p exactly when the index is p's. *)
LEMMA Reads ==
  ASSUME NEW ix, NEW st, NEW pal, Books(ix, st, pal),
         NEW C, \A k \in Chunks : GoodChunk(C[k]), Indexed(ix, C),
         NEW k \in Chunks, NEW l \in Locals
  PROVE  /\ pal[IdxAt(C[k], l) + 1] \in Owners \cup {Unclaimed}
         /\ pal[IdxAt(C[k], l) + 1] = Unclaimed <=> IdxAt(C[k], l) = 0
         /\ \A q \in Owners : pal[IdxAt(C[k], l) + 1] = q <=> ix[q] = IdxAt(C[k], l)
<1> DEFINE i == IdxAt(C[k], l)
<1>1. i \in Idx /\ i \in Nat /\ i # NoIdx
  BY ChunkReads, CapacityAssumption DEF Idx, NoIdx
<1> HIDE DEF i
<1>2. CASE i = 0
  <2>1. pal[i + 1] = Unclaimed
    BY <1>2 DEF Books
  <2>2. \A q \in Owners : ix[q] # i
    <3>1. \A q \in Owners : ix[q] # NoIdx => ix[q] \in 1 .. Len(pal) - 1
      BY DEF Books
    <3> QED BY <1>1, <1>2, <3>1 DEF NoIdx
  <2> QED BY <1>2, <2>1, <2>2, GeometryAssumption DEF i
<1>3. CASE i # 0
  <2>1. PICK q \in Owners : ix[q] = i
    BY <1>3 DEF Indexed, i
  <2>2. pal[i + 1] = q
    BY <1>1, <2>1 DEF Books
  <2>3. \A r \in Owners : ix[r] = i => r = q
    BY <1>1, <2>1, BooksInjective
  <2> QED BY <1>3, <2>1, <2>2, <2>3, GeometryAssumption DEF i
<1> QED BY <1>2, <1>3

-----------------------------------------------------------------------------
(* The invariant holds initially and every operation preserves it. *)

LEMMA InitInv ==
  ASSUME Init
  PROVE  IInv
<1> USE DEF Init
<1>0. 0 \in Idx /\ 0 \in 0 .. TouchSpace - 1 /\ MaxLive \in Nat
  BY CapacityAssumption DEF Idx
<1>1. chunks \in [Chunks -> Chunk] /\ \A k \in Chunks : GoodChunk(chunks[k])
  BY AbsentChunk DEF GoodChunk
<1>2. palette \in Seq(Owners \cup {Unclaimed}) /\ Len(palette) = 1 /\ palette[1] = Unclaimed
  OBVIOUS
<1>3. free \in Seq(Idx) /\ Len(free) = 0
  OBVIOUS
<1>4. Books(idToIdx, free, palette)
  BY <1>2, <1>3 DEF Books
<1>5. Indexed(idToIdx, chunks)
  BY AbsentChunk DEF Indexed
<1>6. Tallied(idToIdx, counts, chunks)
  BY DEF Tallied
<1> QED BY <1>0, <1>1, <1>2, <1>4, <1>5, <1>6 DEF IInv

LEMMA NoteDirtyTypes ==
  ASSUME NEW k \in Chunks, IInv, NoteDirty(k)
  PROVE  /\ dirty' \subseteq Chunks
         /\ lastTouched' \in Chunks \cup {NoChunk}
         /\ touches' \in 0 .. TouchSpace - 1
<1>1. (touches + 1) % TouchSpace \in 0 .. TouchSpace - 1
  BY CapacityAssumption DEF IInv
<1> QED BY <1>1 DEF NoteDirty, IInv

LEMMA PaintCellInv ==
  ASSUME IInv, NEW k \in Chunks, NEW l \in Locals, NEW p \in Owners, PaintCell(k, l, p)
  PROVE  IInv'
<1> DEFINE i == IdxFor(p)
           old_i == IdxAt(chunks[k], l)
           old == IF old_i # 0 THEN PaletteWith(p)[old_i + 1] ELSE Unclaimed
           ix == [idToIdx EXCEPT ![p] = i]
           st == FreeWith(p)
           pal == PaletteWith(p)
<1>1. /\ old_i # i
      /\ Cardinality(Live \cup {p}) <= MaxLive
      /\ chunks' = [chunks EXCEPT ![k] = Painted(@, l, i)]
      /\ counts' = [q \in Owners |->
                      IF q = p THEN counts[q] + 1
                      ELSE IF q = old /\ counts[q] > 0 THEN counts[q] - 1
                      ELSE counts[q]]
      /\ palette' = pal
      /\ idToIdx' = [q \in Owners |-> IF q = old /\ LastTile(q) THEN NoIdx ELSE ix[q]]
      /\ free' = Recycle(old, ix, st)
      /\ NoteDirty(k)
  BY DEF PaintCell
<1>2. /\ i \in Idx \ {0}
      /\ Books(ix, st, pal)
      /\ Len(pal) <= MaxLive + 1
  BY <1>1, TakeIndex DEF IInv
<1>3. /\ idToIdx \in [Owners -> Idx \cup {NoIdx}]
      /\ \A q \in Owners : ix[q] = IF q = p THEN i ELSE idToIdx[q]
      /\ idToIdx[p] # NoIdx => idToIdx[p] = i
      /\ i # NoIdx
  BY <1>2 DEF IInv, Books, IdxFor, Idx, NoIdx
<1>4. /\ GoodChunk(chunks'[k])
      /\ \A kk \in Chunks, m \in Locals :
           IdxAt(chunks'[kk], m) = IF kk = k /\ m = l THEN i ELSE IdxAt(chunks[kk], m)
      /\ \A kk \in Chunks : GoodChunk(chunks'[kk])
      /\ chunks' \in [Chunks -> Chunk]
  <2>1. GoodChunk(chunks[k]) /\ chunks \in [Chunks -> Chunk]
    BY DEF IInv
  <2>2. \A kk \in Chunks : chunks'[kk] = IF kk = k THEN Painted(chunks[k], l, i) ELSE chunks[kk]
    BY <1>1, <2>1
  <2>3. /\ GoodChunk(Painted(chunks[k], l, i))
        /\ \A m \in Locals : IdxAt(Painted(chunks[k], l, i), m) =
                               IF m = l THEN i ELSE IdxAt(chunks[k], m)
    BY <1>1, <1>2, <2>1, PaintedChunk
  <2>4. \A kk \in Chunks : GoodChunk(chunks'[kk])
    BY <2>2, <2>3 DEF IInv
  <2>5. chunks' \in [Chunks -> Chunk]
    BY <1>1, <2>1, <2>3 DEF GoodChunk
  <2> QED BY <2>2, <2>3, <2>4, <2>5
<1> HIDE DEF i, ix, st, pal, old
<1>5. \/ old_i = 0 /\ old \notin Owners
      \/ old_i # 0 /\ old \in Owners /\ old # p /\ idToIdx[old] = old_i
  <2>1. CASE old_i = 0
    BY <2>1, GeometryAssumption DEF old
  <2>2. CASE old_i # 0
    <3>1. PICK q \in Owners : idToIdx[q] = old_i
      BY <2>2 DEF IInv, Indexed
    <3>2. old_i \in Idx /\ old_i # NoIdx
      BY ChunkReads DEF IInv, Idx, NoIdx
    <3>3. q # p /\ ix[q] = old_i
      BY <1>1, <1>3, <3>1, <3>2
    <3>4. pal[old_i + 1] = q
      BY <1>2, <3>2, <3>3 DEF Books
    <3> QED BY <2>2, <3>1, <3>3, <3>4 DEF old, pal
  <2> QED BY <2>1, <2>2
<1>6. /\ Cardinality(Held(chunks', i)) = Cardinality(Held(chunks, i)) + 1
      /\ Cardinality(Held(chunks', old_i)) = Cardinality(Held(chunks, old_i)) - 1
      /\ \A j : j # i /\ j # old_i => Held(chunks', j) = Held(chunks, j)
  <2>1. OneCellDiffers(chunks, chunks', k, l, i)
    BY <1>1, <1>4 DEF OneCellDiffers
  <2> QED BY <2>1, OneCell
<1>7. Books(idToIdx', free', palette')
  <2>1. CASE old \in Owners /\ LastTile(old)
    <3>1. ix[old] # NoIdx
      BY <1>3, <1>5, <2>1, ChunkReads DEF IInv, Idx, NoIdx
    <3>2. idToIdx' = [ix EXCEPT ![old] = NoIdx] /\ free' = Append(st, ix[old])
      <4>1. ix \in [Owners -> Idx \cup {NoIdx}]
        BY <1>2 DEF Books
      <4> QED BY <1>1, <2>1, <3>1, <4>1 DEF Recycle
    <3> QED BY <1>1, <1>2, <2>1, <3>1, <3>2, GiveBack
  <2>2. CASE ~(old \in Owners /\ LastTile(old))
    <3>1. ix \in [Owners -> Idx \cup {NoIdx}]
      BY <1>2 DEF Books
    <3>2. idToIdx' = ix /\ free' = st
      BY <1>1, <2>2, <3>1 DEF Recycle, LastTile
    <3> QED BY <1>1, <1>2, <3>2
  <2> QED BY <2>1, <2>2
<1>8. Tallied(idToIdx', counts', chunks')
  <2> SUFFICES ASSUME NEW q \in Owners
               PROVE  /\ idToIdx'[q] # NoIdx =>
                           counts'[q] = Cardinality(Held(chunks', idToIdx'[q])) /\ counts'[q] > 0
                      /\ idToIdx'[q] = NoIdx => counts'[q] = 0
    BY DEF Tallied
  <2>0. /\ counts[q] \in Nat
        /\ idToIdx[q] # NoIdx => counts[q] = Cardinality(Held(chunks, idToIdx[q])) /\ counts[q] > 0
        /\ idToIdx[q] = NoIdx => counts[q] = 0
    BY DEF IInv, Tallied
  <2>1. CASE q = p
    <3>1. idToIdx'[q] = i /\ counts'[q] = counts[q] + 1
      BY <1>1, <1>3, <1>5, <2>1
    <3>2. counts[q] = Cardinality(Held(chunks, i))
      <4>1. CASE idToIdx[p] # NoIdx
        BY <1>3, <2>0, <2>1, <4>1
      <4>2. CASE idToIdx[p] = NoIdx
        <5>1. \A r \in Owners : idToIdx[r] # i
          BY <1>2, <1>3, <4>2, BooksInjective
        <5>2. Held(chunks, i) = {}
          BY <1>2, <5>1 DEF Held, IInv, Indexed
        <5> QED BY <2>0, <2>1, <4>2, <5>2, FS_EmptySet
      <4> QED BY <4>1, <4>2
    <3> QED BY <1>3, <1>6, <2>0, <3>1, <3>2
  <2>2. CASE q # p /\ q = old
    <3>1. old_i # 0 /\ idToIdx[q] = old_i /\ old_i # NoIdx
      BY <1>5, <2>2, ChunkReads DEF IInv, Idx, NoIdx
    <3>2. counts[q] > 0 /\ counts'[q] = counts[q] - 1
      BY <1>1, <2>0, <2>2, <3>1
    <3>3. idToIdx'[q] = IF counts[q] = 1 THEN NoIdx ELSE old_i
      BY <1>1, <1>3, <2>2, <3>1 DEF LastTile
    <3> QED BY <1>6, <2>0, <3>1, <3>2, <3>3
  <2>3. CASE q # p /\ q # old
    <3>1. idToIdx'[q] = idToIdx[q] /\ counts'[q] = counts[q]
      BY <1>1, <1>3, <2>3
    <3>2. CASE idToIdx[q] # NoIdx
      <4>1. idToIdx[q] # i
        BY <1>2, <1>3, <2>3, <3>2, BooksInjective
      <4>2. idToIdx[q] # 0
        BY <3>2 DEF IInv, Books
      <4>3. idToIdx[q] # old_i
        BY <1>5, <2>3, <3>2, <4>2, BooksInjective DEF IInv
      <4> QED BY <1>6, <2>0, <3>1, <4>1, <4>3
    <3> QED BY <2>0, <3>1, <3>2
  <2> QED BY <2>1, <2>2, <2>3
<1>9. Indexed(idToIdx', chunks')
  <2> SUFFICES ASSUME NEW kk \in Chunks, NEW m \in Locals, IdxAt(chunks'[kk], m) # 0
               PROVE  \E q \in Owners : idToIdx'[q] = IdxAt(chunks'[kk], m)
    BY DEF Indexed
  <2> DEFINE j == IdxAt(chunks'[kk], m)
  <2>1. CASE j = i
    <3>1. idToIdx'[p] = i
      BY <1>1, <1>3, <1>5
    <3> QED BY <2>1, <3>1
  <2>2. CASE j # i
    <3>1. j = IdxAt(chunks[kk], m)
      BY <1>4, <2>2
    <3>2. PICK q \in Owners : idToIdx[q] = j
      BY <3>1 DEF IInv, Indexed
    <3>3. q # p
      BY <1>3, <2>2, <3>1, <3>2, ChunkReads DEF IInv, Idx, NoIdx
    <3>4. CASE q = old /\ LastTile(q)
      <4>1. j = old_i /\ counts[q] = 1
        BY <1>5, <3>2, <3>4 DEF LastTile
      <4>2. Cardinality(Held(chunks, old_i)) = 1
        BY <3>1, <3>2, <4>1, ChunkReads DEF IInv, Tallied, Idx, NoIdx
      <4>3. Cardinality(Held(chunks', old_i)) = 0
        BY <1>6, <4>2
      <4>4. <<kk, m>> \in Held(chunks', old_i)
        BY <4>1 DEF Held
      <4> QED BY <4>3, <4>4, HeldFinite, FS_EmptySet
    <3>5. CASE ~(q = old /\ LastTile(q))
      <4>1. idToIdx'[q] = idToIdx[q]
        BY <1>1, <1>3, <3>3, <3>5
      <4> QED BY <3>2, <4>1
    <3> QED BY <3>4, <3>5
  <2> QED BY <2>1, <2>2
<1>10. counts' \in [Owners -> Nat]
  <2>1. counts \in [Owners -> Nat]
    BY DEF IInv
  <2> QED BY <1>1, <2>1
<1>11. Len(palette') <= MaxLive + 1
  BY <1>1, <1>2
<1>12. /\ dirty' \subseteq Chunks
       /\ lastTouched' \in Chunks \cup {NoChunk}
       /\ touches' \in 0 .. TouchSpace - 1
  BY <1>1, NoteDirtyTypes
<1> QED BY <1>4, <1>7, <1>8, <1>9, <1>10, <1>11, <1>12 DEF IInv

LEMMA ClearCellInv ==
  ASSUME IInv, NEW k \in Chunks, NEW l \in Locals, ClearCell(k, l)
  PROVE  IInv'
<1> DEFINE old_i == IdxAt(chunks[k], l)
           old == palette[old_i + 1]
<1>1. /\ chunks[k] # Absent
      /\ chunks[k].shape = "dense" => chunks[k].cells[l] # 0
      /\ chunks' = [chunks EXCEPT ![k] = Cleared(@, l)]
      /\ counts' = [q \in Owners |->
                      IF q = old /\ counts[q] > 0 THEN counts[q] - 1 ELSE counts[q]]
      /\ idToIdx' = [q \in Owners |-> IF q = old /\ LastTile(q) THEN NoIdx ELSE idToIdx[q]]
      /\ free' = Recycle(old, idToIdx, free)
      /\ NoteDirty(k)
      /\ palette' = palette
  BY DEF ClearCell
<1>2. idToIdx \in [Owners -> Idx \cup {NoIdx}] /\ chunks \in [Chunks -> Chunk]
  BY DEF IInv, Books
<1>3. old_i # 0
  BY <1>1, <1>2, ChunkShapes DEF IInv, GoodChunk, IdxAt
<1>4. /\ \A kk \in Chunks, m \in Locals :
           IdxAt(chunks'[kk], m) = IF kk = k /\ m = l THEN 0 ELSE IdxAt(chunks[kk], m)
      /\ \A kk \in Chunks : GoodChunk(chunks'[kk])
      /\ chunks' \in [Chunks -> Chunk]
  <2>1. \A kk \in Chunks : chunks'[kk] = IF kk = k THEN Cleared(chunks[k], l) ELSE chunks[kk]
    BY <1>1, <1>2
  <2>2. /\ GoodChunk(Cleared(chunks[k], l))
        /\ \A m \in Locals : IdxAt(Cleared(chunks[k], l), m) =
                               IF m = l THEN 0 ELSE IdxAt(chunks[k], m)
    BY <1>3, ClearedChunk DEF IInv
  <2>3. \A kk \in Chunks : GoodChunk(chunks'[kk])
    BY <2>1, <2>2 DEF IInv
  <2>4. chunks' \in [Chunks -> Chunk]
    BY <1>1, <1>2, <2>2 DEF GoodChunk
  <2> QED BY <2>1, <2>2, <2>3, <2>4
<1>5. old \in Owners /\ idToIdx[old] = old_i
  <2>1. PICK q \in Owners : idToIdx[q] = old_i
    BY <1>3 DEF IInv, Indexed
  <2>2. palette[old_i + 1] = q
    BY <2>1, Reads DEF IInv
  <2> QED BY <2>1, <2>2
<1> HIDE DEF old
<1>6. /\ Cardinality(Held(chunks', old_i)) = Cardinality(Held(chunks, old_i)) - 1
      /\ \A j : j # 0 /\ j # old_i => Held(chunks', j) = Held(chunks, j)
  <2>1. OneCellDiffers(chunks, chunks', k, l, 0)
    BY <1>3, <1>4 DEF OneCellDiffers
  <2> QED BY <2>1, OneCell
<1>7. idToIdx[old] # NoIdx
  BY <1>5, ChunkReads DEF IInv, Idx, NoIdx
<1>8. Books(idToIdx', free', palette')
  <2>1. CASE LastTile(old)
    <3>1. idToIdx' = [idToIdx EXCEPT ![old] = NoIdx] /\ free' = Append(free, idToIdx[old])
      BY <1>1, <1>2, <1>7, <2>1 DEF Recycle
    <3>2. Books(idToIdx, free, palette)
      BY DEF IInv
    <3>3. Books([idToIdx EXCEPT ![old] = NoIdx], Append(free, idToIdx[old]), palette)
      BY <1>5, <1>7, <3>2, GiveBack
    <3> QED BY <1>1, <3>1, <3>3
  <2>2. CASE ~LastTile(old)
    <3>1. idToIdx' = idToIdx /\ free' = free
      BY <1>1, <1>2, <2>2 DEF Recycle
    <3> QED BY <1>1, <3>1 DEF IInv
  <2> QED BY <2>1, <2>2
<1>9. Tallied(idToIdx', counts', chunks')
  <2> SUFFICES ASSUME NEW q \in Owners
               PROVE  /\ idToIdx'[q] # NoIdx =>
                           counts'[q] = Cardinality(Held(chunks', idToIdx'[q])) /\ counts'[q] > 0
                      /\ idToIdx'[q] = NoIdx => counts'[q] = 0
    BY DEF Tallied
  <2>0. /\ counts[q] \in Nat
        /\ idToIdx[q] # NoIdx => counts[q] = Cardinality(Held(chunks, idToIdx[q])) /\ counts[q] > 0
        /\ idToIdx[q] = NoIdx => counts[q] = 0
    BY DEF IInv, Tallied
  <2>1. CASE q = old
    <3>1. counts[q] > 0 /\ counts'[q] = counts[q] - 1
      BY <1>1, <1>7, <2>0, <2>1
    <3>2. idToIdx'[q] = IF counts[q] = 1 THEN NoIdx ELSE old_i
      BY <1>1, <1>5, <2>1 DEF LastTile
    <3> QED BY <1>5, <1>6, <1>7, <2>0, <2>1, <3>1, <3>2
  <2>2. CASE q # old
    <3>1. idToIdx'[q] = idToIdx[q] /\ counts'[q] = counts[q]
      BY <1>1, <2>2
    <3>2. CASE idToIdx[q] # NoIdx
      <4>1. idToIdx[q] # 0
        BY <3>2 DEF IInv, Books
      <4>2. idToIdx[q] # old_i
        BY <1>5, <2>2, <3>2, BooksInjective DEF IInv
      <4> QED BY <1>6, <2>0, <3>1, <4>1, <4>2
    <3> QED BY <2>0, <3>1, <3>2
  <2> QED BY <2>1, <2>2
<1>10. Indexed(idToIdx', chunks')
  <2> SUFFICES ASSUME NEW kk \in Chunks, NEW m \in Locals, IdxAt(chunks'[kk], m) # 0
               PROVE  \E q \in Owners : idToIdx'[q] = IdxAt(chunks'[kk], m)
    BY DEF Indexed
  <2> DEFINE j == IdxAt(chunks'[kk], m)
  <2>1. j = IdxAt(chunks[kk], m)
    BY <1>4
  <2>2. PICK q \in Owners : idToIdx[q] = j
    BY <2>1 DEF IInv, Indexed
  <2>3. CASE q = old /\ LastTile(q)
    <3>1. j = old_i /\ counts[q] = 1
      BY <1>5, <2>2, <2>3 DEF LastTile
    <3>2. Cardinality(Held(chunks', old_i)) = 0
      BY <1>5, <1>6, <1>7, <2>3, <3>1 DEF IInv, Tallied
    <3>3. <<kk, m>> \in Held(chunks', old_i)
      BY <3>1 DEF Held
    <3> QED BY <3>2, <3>3, HeldFinite, FS_EmptySet
  <2>4. CASE ~(q = old /\ LastTile(q))
    <3>1. idToIdx'[q] = idToIdx[q]
      BY <1>1, <2>4
    <3> QED BY <2>2, <3>1
  <2> QED BY <2>3, <2>4
<1>11. counts' \in [Owners -> Nat]
  <2>1. counts \in [Owners -> Nat]
    BY DEF IInv
  <2> QED BY <1>1, <2>1
<1>12. /\ dirty' \subseteq Chunks
       /\ lastTouched' \in Chunks \cup {NoChunk}
       /\ touches' \in 0 .. TouchSpace - 1
  BY <1>1, NoteDirtyTypes
<1>13. Len(palette') <= MaxLive + 1
  BY <1>1 DEF IInv
<1> QED BY <1>4, <1>8, <1>9, <1>10, <1>11, <1>12, <1>13 DEF IInv

(* Whatever the order in which clear_owner visits the chunks and however   *)
(* early it stops looking, it has seen every tile of the owner.            *)
LEMMA ScanIsComplete ==
  ASSUME IInv, NEW p \in Owners, idToIdx[p] # NoIdx,
         NEW V \in SUBSET Populated, Scanned(p, V)
  PROVE  \A k \in Chunks, l \in Locals : IdxAt(chunks[k], l) = idToIdx[p] => k \in V
<1> DEFINE i == idToIdx[p]
<1>1. i # 0
  BY DEF IInv, Books
<1>2. HeldBy(i, V) \in SUBSET Held(chunks, i)
  BY DEF HeldBy, Held, Populated
<1>3. HeldBy(i, V) = Held(chunks, i)
  <2>1. CASE V = Populated
    <3>1. \A c \in Chunks \X Locals : IdxAt(chunks[c[1]], c[2]) = i => c[1] \in Populated
      BY <1>1, ChunkReads DEF IInv, Populated
    <3> QED BY <1>2, <2>1, <3>1 DEF HeldBy, Held
  <2>2. CASE Cardinality(HeldBy(i, V)) >= counts[p]
    <3>1. counts[p] = Cardinality(Held(chunks, i))
      BY DEF IInv, Tallied
    <3>2. /\ Cardinality(HeldBy(i, V)) \in Nat
          /\ Cardinality(HeldBy(i, V)) <= Cardinality(Held(chunks, i))
          /\ Cardinality(Held(chunks, i)) = Cardinality(HeldBy(i, V)) =>
                Held(chunks, i) = HeldBy(i, V)
      BY <1>2, HeldFinite, FS_Subset, FS_CardinalityType
    <3> QED BY <2>2, <3>1, <3>2, HeldFinite
  <2> QED BY <2>1, <2>2 DEF Scanned
<1> SUFFICES ASSUME NEW k \in Chunks, NEW l \in Locals, IdxAt(chunks[k], l) = i
             PROVE  k \in V
  OBVIOUS
<1>4. <<k, l>> \in HeldBy(i, V)
  BY <1>3 DEF Held
<1> QED BY <1>4 DEF HeldBy

(* What clear_owner does to the cells: those of the owner turn unclaimed,  *)
(* the others keep their index, and the chunks stay well formed.           *)
LEMMA ForfeitedCells ==
  ASSUME IInv, NEW p \in Owners, idToIdx[p] # NoIdx,
         NEW V \in SUBSET Populated, Scanned(p, V),
         chunks' = [k \in Chunks |->
                      IF k \in V THEN Forfeited(chunks[k], idToIdx[p]) ELSE chunks[k]]
  PROVE  /\ \A k \in Chunks : GoodChunk(chunks'[k])
         /\ \A k \in Chunks, l \in Locals :
              IdxAt(chunks'[k], l) =
                IF IdxAt(chunks[k], l) = idToIdx[p] THEN 0 ELSE IdxAt(chunks[k], l)
<1> DEFINE i == idToIdx[p]
<1>1. i \in Idx /\ i # 0
  <2>1. i \in Idx \cup {NoIdx}
    BY DEF IInv, Books
  <2>2. i # 0
    BY DEF IInv, Books
  <2> QED BY <2>1, <2>2
<1> HIDE DEF i
<1> SUFFICES ASSUME NEW k \in Chunks
             PROVE  /\ GoodChunk(chunks'[k])
                    /\ \A l \in Locals :
                         IdxAt(chunks'[k], l) =
                           IF IdxAt(chunks[k], l) = i THEN 0 ELSE IdxAt(chunks[k], l)
  BY DEF i
<1>2. GoodChunk(chunks[k])
  BY DEF IInv
<1>3. CASE k \in V
  <2>1. chunks'[k] = Forfeited(chunks[k], i) /\ chunks[k] # Absent
    BY <1>3 DEF Populated, i
  <2> QED BY <1>1, <1>2, <2>1, ForfeitedChunk
<1>4. CASE k \notin V
  <2>1. chunks'[k] = chunks[k]
    BY <1>4
  <2>2. \A l \in Locals : IdxAt(chunks[k], l) # i
    BY <1>4, ScanIsComplete DEF i
  <2> QED BY <1>2, <2>1, <2>2
<1> QED BY <1>3, <1>4

LEMMA ClearOwnerInv ==
  ASSUME IInv, NEW p \in Owners, ClearOwner(p)
  PROVE  IInv'
<1> DEFINE i == idToIdx[p]
<1>1. /\ i # NoIdx
      /\ counts' = [counts EXCEPT ![p] = 0]
      /\ idToIdx' = [idToIdx EXCEPT ![p] = NoIdx]
      /\ free' = Append(free, i)
      /\ palette' = palette /\ lastTouched' = lastTouched /\ touches' = touches
  BY DEF ClearOwner
<1>2. PICK V \in SUBSET Populated :
        /\ Scanned(p, V)
        /\ chunks' = [k \in Chunks |->
                        IF k \in V THEN Forfeited(chunks[k], idToIdx[p]) ELSE chunks[k]]
        /\ dirty' = dirty \cup {c[1] : c \in HeldBy(idToIdx[p], V)}
  BY DEF ClearOwner
<1>3. /\ \A k \in Chunks : GoodChunk(chunks'[k])
      /\ \A k \in Chunks, l \in Locals :
           IdxAt(chunks'[k], l) = IF IdxAt(chunks[k], l) = i THEN 0 ELSE IdxAt(chunks[k], l)
  BY <1>1, <1>2, ForfeitedCells
<1>4. chunks' \in [Chunks -> Chunk]
  BY <1>2, <1>3 DEF GoodChunk
<1>5. i \in Idx /\ i # 0
  <2>1. i \in Idx \cup {NoIdx}
    BY DEF IInv, Books
  <2>2. i # 0
    BY <1>1 DEF IInv, Books
  <2> QED BY <1>1, <2>1, <2>2
<1>6. Books(idToIdx', free', palette')
  <2>1. Books(idToIdx, free, palette)
    BY DEF IInv
  <2>2. Books([idToIdx EXCEPT ![p] = NoIdx], Append(free, idToIdx[p]), palette)
    BY <1>1, <2>1, GiveBack
  <2> QED BY <1>1, <2>2
<1>7. \A q \in Owners : idToIdx'[q] = IF q = p THEN NoIdx ELSE idToIdx[q]
  BY <1>1 DEF IInv, Books
<1>8. \A q \in Owners : q # p /\ idToIdx[q] # NoIdx =>
        idToIdx[q] # i /\ idToIdx[q] # 0
  <2>1. \A q \in Owners : idToIdx[q] # NoIdx => idToIdx[q] # 0
    BY DEF IInv, Books
  <2>2. \A q \in Owners : q # p /\ idToIdx[q] # NoIdx => idToIdx[q] # i
    BY BooksInjective DEF IInv
  <2> QED BY <2>1, <2>2
<1>9. \A j : j # i /\ j # 0 => Held(chunks', j) = Held(chunks, j)
  <2>1. \A c \in Chunks \X Locals :
          IdxAt(chunks'[c[1]], c[2]) =
            IF IdxAt(chunks[c[1]], c[2]) = i THEN 0 ELSE IdxAt(chunks[c[1]], c[2])
    BY <1>3
  <2> HIDE DEF i
  <2> QED BY <2>1 DEF Held
<1> HIDE DEF i
<1>10. Indexed(idToIdx', chunks')
  <2> SUFFICES ASSUME NEW kk \in Chunks, NEW m \in Locals, IdxAt(chunks'[kk], m) # 0
               PROVE  \E q \in Owners : idToIdx'[q] = IdxAt(chunks'[kk], m)
    BY DEF Indexed
  <2>1. IdxAt(chunks'[kk], m) = IdxAt(chunks[kk], m) /\ IdxAt(chunks[kk], m) # i
    BY <1>3
  <2>2. PICK q \in Owners : idToIdx[q] = IdxAt(chunks[kk], m)
    BY <2>1 DEF IInv, Indexed
  <2> QED BY <1>7, <2>1, <2>2 DEF i
<1>11. Tallied(idToIdx', counts', chunks')
  <2> SUFFICES ASSUME NEW q \in Owners
               PROVE  /\ idToIdx'[q] # NoIdx =>
                           counts'[q] = Cardinality(Held(chunks', idToIdx'[q])) /\ counts'[q] > 0
                      /\ idToIdx'[q] = NoIdx => counts'[q] = 0
    BY DEF Tallied
  <2>1. counts'[q] = IF q = p THEN 0 ELSE counts[q]
    BY <1>1 DEF IInv
  <2>2. CASE q = p
    BY <1>7, <2>1, <2>2
  <2>3. CASE q # p /\ idToIdx[q] = NoIdx
    BY <1>7, <2>1, <2>3 DEF IInv, Tallied
  <2>4. CASE q # p /\ idToIdx[q] # NoIdx
    <3>1. Held(chunks', idToIdx[q]) = Held(chunks, idToIdx[q])
      BY <1>8, <1>9, <2>4
    <3> QED BY <1>7, <2>1, <2>4, <3>1 DEF IInv, Tallied
  <2> QED BY <2>2, <2>3, <2>4
<1>12. dirty' \subseteq Chunks
  BY <1>2 DEF HeldBy, Populated, IInv
<1>13. counts' \in [Owners -> Nat]
  BY <1>1 DEF IInv
<1> QED BY <1>1, <1>3, <1>4, <1>6, <1>10, <1>11, <1>12, <1>13 DEF IInv

LEMMA ClearInv ==
  ASSUME IInv, Clear
  PROVE  IInv'
<1>0. 0 \in Idx /\ MaxLive \in Nat
  BY CapacityAssumption DEF Idx
<1>1. chunks' \in [Chunks -> Chunk] /\ \A k \in Chunks : chunks'[k] = Absent
  BY AbsentChunk DEF GoodChunk, Clear
<1>2. Books(idToIdx', free', palette')
  <2>1. /\ palette' \in Seq(Owners \cup {Unclaimed})
        /\ Len(palette') = 1 /\ palette'[1] = Unclaimed
    BY DEF Clear
  <2>2. free' \in Seq(Idx) /\ Len(free') = 0
    BY DEF Clear
  <2>3. idToIdx' \in [Owners -> Idx \cup {NoIdx}] /\ \A q \in Owners : idToIdx'[q] = NoIdx
    BY DEF Clear
  <2> QED BY <2>1, <2>2, <2>3 DEF Books
<1>3. Indexed(idToIdx', chunks')
  BY <1>1, AbsentChunk DEF Indexed
<1>4. Tallied(idToIdx', counts', chunks')
  BY DEF Tallied, Clear
<1>5. Len(palette') <= MaxLive + 1
  BY <1>0 DEF Clear
<1> QED BY <1>1, <1>2, <1>3, <1>4, <1>5, AbsentChunk DEF IInv, Clear

(* A step that rewrites chunks without changing what a cell reads, and     *)
(* keeps the tables, keeps the invariant.                                  *)
LEMMA SameReads ==
  ASSUME IInv,
         \A k \in Chunks : GoodChunk(chunks'[k]),
         chunks' \in [Chunks -> Chunk],
         \A k \in Chunks, l \in Locals : IdxAt(chunks'[k], l) = IdxAt(chunks[k], l),
         UNCHANGED <<counts, palette, idToIdx, free>>,
         dirty' \subseteq Chunks,
         lastTouched' \in Chunks \cup {NoChunk},
         touches' \in 0 .. TouchSpace - 1
  PROVE  IInv'
<1>1. \A j : Held(chunks', j) = Held(chunks, j)
  <2>1. \A c \in Chunks \X Locals : IdxAt(chunks'[c[1]], c[2]) = IdxAt(chunks[c[1]], c[2])
    OBVIOUS
  <2> QED BY <2>1 DEF Held
<1>2. Tallied(idToIdx', counts', chunks')
  BY <1>1 DEF Tallied, IInv
<1>3. Indexed(idToIdx', chunks')
  BY DEF Indexed, IInv
<1> QED BY <1>2, <1>3 DEF IInv

LEMMA CompactPassInv ==
  ASSUME IInv, CompactPass
  PROVE  IInv'
<1>1. \A k \in Chunks : chunks'[k] = Compacted(chunks[k]) /\ GoodChunk(chunks[k])
  BY DEF CompactPass, IInv
<1>2. \A k \in Chunks : GoodChunk(chunks'[k])
  BY <1>1, CompactedChunk
<1>3. \A k \in Chunks, l \in Locals : IdxAt(chunks'[k], l) = IdxAt(chunks[k], l)
  BY <1>1, CompactedChunk
<1>4. chunks' \in [Chunks -> Chunk]
  BY <1>2 DEF CompactPass, GoodChunk
<1> QED BY <1>2, <1>3, <1>4, SameReads DEF CompactPass, IInv

LEMMA DrainDirtyInv ==
  ASSUME IInv, DrainDirty
  PROVE  IInv'
  BY SameReads DEF DrainDirty, IInv

LEMMA ReloadInv ==
  ASSUME IInv, Reload
  PROVE  IInv'
<1>1. 0 \in 0 .. TouchSpace - 1
  BY CapacityAssumption
<1> QED BY <1>1, SameReads DEF Reload, IInv, Populated

(* Every operation of the store preserves the inductive invariant. *)
LEMMA NextInv ==
  ASSUME IInv, [Next]_vars
  PROVE  IInv'
<1>1. ASSUME NEW k \in Chunks, NEW l \in Locals, ClearCell(k, l) PROVE IInv'
  BY <1>1, ClearCellInv
<1>2. ASSUME NEW k \in Chunks, NEW l \in Locals, NEW p \in Owners, PaintCell(k, l, p)
      PROVE  IInv'
  BY <1>2, PaintCellInv
<1>3. ASSUME NEW p \in Owners, ClearOwner(p) PROVE IInv'
  BY <1>3, ClearOwnerInv
<1>4. CASE Clear
  BY <1>4, ClearInv
<1>5. CASE CompactPass
  BY <1>5, CompactPassInv
<1>6. CASE DrainDirty
  BY <1>6, DrainDirtyInv
<1>7. CASE Reload
  BY <1>7, ReloadInv
<1>8. CASE UNCHANGED vars
  BY <1>8, SameReads DEF vars, IInv
<1> QED BY <1>1, <1>2, <1>3, <1>4, <1>5, <1>6, <1>7, <1>8 DEF Next

(* The bookkeeping of tile_map.rs is never out of step with the cells.     *)
THEOREM Invariance == Spec => []IInv
<1>1. Init => IInv
  BY InitInv
<1>2. IInv /\ [Next]_vars => IInv'
  BY NextInv
<1> QED BY <1>1, <1>2, PTL DEF Spec

-----------------------------------------------------------------------------
(* What the inductive invariant says in the words of TileMap. *)

(* The tiles of an owner, as get() answers, are the cells of its index. *)
LEMMA TilesOf ==
  ASSUME IInv, NEW p \in Owners
  PROVE  {c \in Chunks \X Locals : Get(c[1], c[2]) = p} =
           IF idToIdx[p] = NoIdx THEN {} ELSE Held(chunks, idToIdx[p])
<1>1. \A k \in Chunks, l \in Locals : Get(k, l) = p <=> idToIdx[p] = IdxAt(chunks[k], l)
  BY Reads DEF Get, IInv
<1>2. \A k \in Chunks, l \in Locals : IdxAt(chunks[k], l) # NoIdx
  BY ChunkReads DEF IInv, Idx, NoIdx
<1>3. \A c \in Chunks \X Locals :
        /\ Get(c[1], c[2]) = p <=> idToIdx[p] = IdxAt(chunks[c[1]], c[2])
        /\ IdxAt(chunks[c[1]], c[2]) # NoIdx
  BY <1>1, <1>2
<1> QED BY <1>3 DEF Held

LEMMA InvCountsExact == ASSUME IInv PROVE CountsExact
<1> SUFFICES ASSUME NEW p \in Owners
             PROVE  /\ counts[p] = Cardinality({c \in Chunks \X Locals : Get(c[1], c[2]) = p})
                    /\ (counts[p] > 0) <=> (p \in Live)
  BY DEF CountsExact
<1> DEFINE tiles == {c \in Chunks \X Locals : Get(c[1], c[2]) = p}
<1>0. tiles = IF idToIdx[p] = NoIdx THEN {} ELSE Held(chunks, idToIdx[p])
  BY TilesOf
<1> HIDE DEF tiles
<1>1. CASE idToIdx[p] = NoIdx
  <2>1. Cardinality(tiles) = 0
    BY <1>0, <1>1, FS_EmptySet
  <2>2. counts[p] = 0 /\ p \notin Live
    BY <1>1 DEF IInv, Tallied, Live
  <2> QED BY <2>1, <2>2 DEF tiles
<1>2. CASE idToIdx[p] # NoIdx
  <2>1. counts[p] = Cardinality(tiles) /\ counts[p] > 0 /\ p \in Live
    BY <1>0, <1>2 DEF IInv, Tallied, Live
  <2> QED BY <2>1 DEF tiles
<1> QED BY <1>1, <1>2

(* The variables keep their types. *)
THEOREM TypeCorrect == Spec => []TypeOK
<1>1. IInv => TypeOK
  BY DEF IInv, Books, TypeOK
<1> QED BY <1>1, Invariance, PTL

(* No index is leaked, freed twice or owned twice, and the palette entry   *)
(* of a live owner's index names that owner.                               *)
THEOREM IndicesConserved == Spec => [](IndexConservation /\ PaletteInverts)
<1>1. IInv => IndexConservation /\ PaletteInverts
  BY BooksMeaning DEF IInv
<1> QED BY <1>1, Invariance, PTL

(* A recycled index is referenced by no cell: it cannot give one player    *)
(* another's tiles.                                                        *)
THEOREM RecyclingIsSafe == Spec => []NoDanglingIndex
<1>1. ASSUME IInv PROVE NoDanglingIndex
  <2> SUFFICES ASSUME NEW k \in Chunks, NEW l \in Locals, IdxAt(chunks[k], l) # 0
               PROVE  \E p \in Live : idToIdx[p] = IdxAt(chunks[k], l)
    BY DEF NoDanglingIndex
  <2>1. PICK p \in Owners : idToIdx[p] = IdxAt(chunks[k], l)
    BY <1>1 DEF IInv, Indexed
  <2>2. IdxAt(chunks[k], l) # NoIdx
    BY <1>1, ChunkReads DEF IInv, Idx, NoIdx
  <2> QED BY <2>1, <2>2 DEF Live
<1> QED BY <1>1, Invariance, PTL

(* The territory count of every player is exact after any sequence of      *)
(* paints, clears, forfeits, wipes, compactions and reloads.               *)
THEOREM CountsAreExact == Spec => []CountsExact
<1>1. IInv => CountsExact
  BY InvCountsExact
<1> QED BY <1>1, Invariance, PTL

(* No empty chunk is kept, and occupied counts are true. *)
THEOREM ChunksStayCanonical == Spec => []ChunksCanonical
<1>1. IInv => ChunksCanonical
  BY DEF IInv, GoodChunk, Nonzero, ChunksCanonical
<1> QED BY <1>1, Invariance, PTL

(* The palette never grows past the most owners that held tiles at once,   *)
(* so an index never wraps, however many ids the server hands out.         *)
THEOREM IndicesNeverWrap == Spec => []IndexSpaceBounded
<1>1. IInv => IndexSpaceBounded
  BY DEF IInv, IndexSpaceBounded
<1> QED BY <1>1, Invariance, PTL

(* The index books balance: no index is leaked, freed twice, owned twice,  *)
(* left in a cell when it is recycled or beyond the width of its type.     *)
THEOREM IndexBooksBalance == Spec => []IndexBooks
<1>1. IndexConservation /\ PaletteInverts /\ NoDanglingIndex /\ IndexSpaceBounded => IndexBooks
  BY DEF IndexBooks
<1> QED BY <1>1, IndicesConserved, RecyclingIsSafe, IndicesNeverWrap, PTL

(* The cell books balance: counts and occupancy are exact whatever shapes  *)
(* the chunks have gone through.                                           *)
THEOREM CellBooksBalance == Spec => []CellBooks
<1>1. CountsExact /\ ChunksCanonical => CellBooks
  BY DEF CellBooks
<1> QED BY <1>1, CountsAreExact, ChunksStayCanonical, PTL

(* Both books balance together, which is what the run checks: the store    *)
(* frees an index by the count of its owner, and counts by the index.      *)
THEOREM AllBooksBalance == Spec => []BooksBalance
<1>1. IndexBooks /\ CellBooks => BooksBalance
  BY DEF BooksBalance
<1> QED BY <1>1, IndexBooksBalance, CellBooksBalance, PTL

-----------------------------------------------------------------------------
(* TileMap implements TileGrid. *)

(* A cell reads as p exactly when it holds p's index, as unclaimed exactly *)
(* when it holds index 0.                                                  *)
LEMMA GetMeaning ==
  ASSUME IInv, NEW k \in Chunks, NEW l \in Locals
  PROVE  /\ OwnerOf[<<k, l>>] = Get(k, l)
         /\ Get(k, l) = Unclaimed <=> IdxAt(chunks[k], l) = 0
         /\ \A q \in Owners : Get(k, l) = q <=> idToIdx[q] = IdxAt(chunks[k], l)
<1>1. OwnerOf[<<k, l>>] = Get(k, l)
  BY DEF OwnerOf
<1> QED BY <1>1, Reads DEF Get, IInv

(* An abstract owner map is determined by what its cells read.             *)
LEMMA OwnerOfIs ==
  ASSUME NEW f, f = [c \in Chunks \X Locals |-> f[c]],
         \A k \in Chunks, l \in Locals : Get(k, l)' = f[<<k, l>>]
  PROVE  OwnerOf' = f
<1>1. \A c \in Chunks \X Locals :
        c[1] \in Chunks /\ c[2] \in Locals /\ c = <<c[1], c[2]>>
  OBVIOUS
<1>2. \A c \in Chunks \X Locals : Get(c[1], c[2])' = f[c]
  <2> SUFFICES ASSUME NEW c \in Chunks \X Locals PROVE Get(c[1], c[2])' = f[c]
    OBVIOUS
  <2>1. Get(c[1], c[2])' = f[<<c[1], c[2]>>]
    BY <1>1
  <2> QED BY <1>1, <2>1
<1>3. OwnerOf' = [c \in Chunks \X Locals |-> f[c]]
  BY <1>2 DEF OwnerOf
<1> QED BY <1>3

(* set() gives the cell to the player and leaves every other owner alone,  *)
(* although the palette may have handed a recycled index to the player.    *)
LEMMA PaintCellReads ==
  ASSUME IInv, IInv', NEW k \in Chunks, NEW l \in Locals, NEW p \in Owners,
         PaintCell(k, l, p)
  PROVE  /\ Get(k, l) # p
         /\ \A kk \in Chunks, m \in Locals :
              Get(kk, m)' = IF kk = k /\ m = l THEN p ELSE Get(kk, m)
<1> DEFINE i == IdxFor(p)
           ix == [idToIdx EXCEPT ![p] = i]
<1>1. /\ IdxAt(chunks[k], l) # i
      /\ Cardinality(Live \cup {p}) <= MaxLive
      /\ chunks' = [chunks EXCEPT ![k] = Painted(@, l, i)]
      /\ \A q \in Owners : idToIdx'[q] \in {NoIdx, ix[q]}
  BY DEF PaintCell
<1>2. i \in Idx \ {0} /\ Books(ix, FreeWith(p), PaletteWith(p))
  BY <1>1, TakeIndex DEF IInv
<1>3. \A kk \in Chunks, m \in Locals :
        IdxAt(chunks'[kk], m) = IF kk = k /\ m = l THEN i ELSE IdxAt(chunks[kk], m)
  <2>1. GoodChunk(chunks[k]) /\ chunks \in [Chunks -> Chunk]
    BY DEF IInv
  <2>2. \A m \in Locals : IdxAt(Painted(chunks[k], l, i), m) =
                            IF m = l THEN i ELSE IdxAt(chunks[k], m)
    BY <1>1, <1>2, <2>1, PaintedChunk
  <2> QED BY <1>1, <2>1, <2>2
<1>4. /\ \A q \in Owners : ix[q] = IF q = p THEN i ELSE idToIdx[q]
      /\ idToIdx[p] # NoIdx => idToIdx[p] = i
      /\ i # NoIdx
  BY <1>2 DEF IInv, Books, IdxFor, Idx, NoIdx
<1> HIDE DEF i, ix
<1>5. Get(k, l) # p
  <2>1. Get(k, l) = p => idToIdx[p] = IdxAt(chunks[k], l) /\ IdxAt(chunks[k], l) # NoIdx
    <3>1. IdxAt(chunks[k], l) # NoIdx
      BY ChunkReads DEF IInv, Idx, NoIdx
    <3>2. Get(k, l) = p => idToIdx[p] = IdxAt(chunks[k], l)
      BY GetMeaning
    <3> QED BY <3>1, <3>2
  <2> QED BY <1>1, <1>4, <2>1
<1>6. ASSUME NEW kk \in Chunks, NEW m \in Locals
      PROVE  /\ Get(kk, m)' = Unclaimed <=> IdxAt(chunks'[kk], m) = 0
             /\ \A q \in Owners : Get(kk, m)' = q <=> idToIdx'[q] = IdxAt(chunks'[kk], m)
  <2>1. /\ Books(idToIdx', free', palette')
        /\ \A kc \in Chunks : GoodChunk(chunks'[kc])
        /\ Indexed(idToIdx', chunks')
    BY DEF IInv
  <2>2. Get(kk, m)' = palette'[IdxAt(chunks'[kk], m) + 1]
    BY DEF Get
  <2> QED BY <2>1, <2>2, Reads
<1>7. ASSUME NEW kk \in Chunks, NEW m \in Locals, IdxAt(chunks'[kk], m) # 0
      PROVE  \E q \in Owners : idToIdx'[q] = IdxAt(chunks'[kk], m) /\ ix[q] = idToIdx'[q]
  <2>1. PICK q \in Owners : idToIdx'[q] = IdxAt(chunks'[kk], m)
    BY <1>7 DEF IInv, Indexed
  <2>2. IdxAt(chunks'[kk], m) # NoIdx
    BY ChunkReads DEF IInv, Idx, NoIdx
  <2> QED BY <1>1, <2>1, <2>2
<1>8. Get(k, l)' = p
  <2>1. IdxAt(chunks'[k], l) = i
    BY <1>3
  <2>2. PICK q \in Owners : idToIdx'[q] = i /\ ix[q] = i
    BY <1>2, <1>7, <2>1
  <2>3. q = p
    BY <1>2, <1>4, <2>2, BooksInjective
  <2> QED BY <1>6, <2>1, <2>2, <2>3
<1>9. ASSUME NEW kk \in Chunks, NEW m \in Locals, ~(kk = k /\ m = l)
      PROVE  Get(kk, m)' = Get(kk, m)
  <2> DEFINE j == IdxAt(chunks[kk], m)
  <2>1. IdxAt(chunks'[kk], m) = j
    BY <1>3, <1>9
  <2>2. CASE j = 0
    <3>1. Get(kk, m) = Unclaimed
      BY <2>2, GetMeaning
    <3>2. Get(kk, m)' = Unclaimed
      BY <1>6, <2>1, <2>2
    <3> QED BY <3>1, <3>2
  <2>3. CASE j # 0
    <3>1. PICK q \in Owners : idToIdx[q] = j
      BY <2>3 DEF IInv, Indexed
    <3>2. PICK r \in Owners : idToIdx'[r] = j /\ ix[r] = j
      BY <1>7, <2>1, <2>3
    <3>3. j # NoIdx
      BY ChunkReads DEF IInv, Idx, NoIdx
    <3>4. ix[q] = j
      BY <1>4, <3>1, <3>3
    <3>5. q = r
      BY <1>2, <3>2, <3>3, <3>4, BooksInjective
    <3>6. Get(kk, m) = q
      BY <3>1, GetMeaning
    <3>7. Get(kk, m)' = r
      BY <1>6, <2>1, <3>2
    <3> QED BY <3>5, <3>6, <3>7
  <2> QED BY <2>2, <2>3
<1> QED BY <1>5, <1>8, <1>9

(* A step that keeps the palette changes what a cell reads only if it      *)
(* changes the cell's index.                                               *)
LEMMA SamePalette ==
  ASSUME palette' = palette, NEW k \in Chunks, NEW l \in Locals
  PROVE  Get(k, l)' = palette[IdxAt(chunks'[k], l) + 1]
  BY DEF Get

LEMMA PaintCellStep ==
  ASSUME IInv, IInv', NEW k \in Chunks, NEW l \in Locals, NEW p \in Owners,
         PaintCell(k, l, p)
  PROVE  Grid!Assign(k, l, p)
<1> DEFINE f == [OwnerOf EXCEPT ![<<k, l>>] = p]
<1>1. \A kk \in Chunks, m \in Locals :
        f[<<kk, m>>] = IF kk = k /\ m = l THEN p ELSE Get(kk, m)
  BY DEF OwnerOf
<1>2. f = [c \in Chunks \X Locals |-> f[c]]
  BY DEF OwnerOf
<1> HIDE DEF f
<1>3. OwnerOf' = f
  <2>1. \A kk \in Chunks, m \in Locals :
          Get(kk, m)' = IF kk = k /\ m = l THEN p ELSE Get(kk, m)
    BY PaintCellReads
  <2>2. \A kk \in Chunks, m \in Locals : Get(kk, m)' = f[<<kk, m>>]
    BY <1>1, <2>1
  <2> QED BY <1>2, <2>2, OwnerOfIs
<1>4. OwnerOf[<<k, l>>] # p
  BY PaintCellReads, GetMeaning
<1>5. dirty' = dirty \cup {k}
  BY DEF PaintCell, NoteDirty
<1> QED BY <1>3, <1>4, <1>5 DEF Grid!Assign, f

LEMMA ClearCellStep ==
  ASSUME IInv, NEW k \in Chunks, NEW l \in Locals, ClearCell(k, l)
  PROVE  Grid!Assign(k, l, Unclaimed)
<1> DEFINE f == [OwnerOf EXCEPT ![<<k, l>>] = Unclaimed]
<1>1. \A kk \in Chunks, m \in Locals :
        f[<<kk, m>>] = IF kk = k /\ m = l THEN Unclaimed ELSE Get(kk, m)
  BY DEF OwnerOf
<1>2. f = [c \in Chunks \X Locals |-> f[c]]
  BY DEF OwnerOf
<1>3. IdxAt(chunks[k], l) # 0
  BY ChunkShapes DEF ClearCell, IInv, GoodChunk, IdxAt
<1>4. \A kk \in Chunks, m \in Locals :
        IdxAt(chunks'[kk], m) = IF kk = k /\ m = l THEN 0 ELSE IdxAt(chunks[kk], m)
  <2>1. \A m \in Locals : IdxAt(Cleared(chunks[k], l), m) =
                            IF m = l THEN 0 ELSE IdxAt(chunks[k], m)
    BY <1>3, ClearedChunk DEF IInv
  <2>2. \A kk \in Chunks : chunks'[kk] = IF kk = k THEN Cleared(chunks[k], l) ELSE chunks[kk]
    BY DEF ClearCell, IInv
  <2> QED BY <2>1, <2>2
<1> HIDE DEF f
<1>5. palette[0 + 1] = Unclaimed /\ palette' = palette
  BY DEF IInv, Books, ClearCell
<1>6. \A kk \in Chunks, m \in Locals : Get(kk, m)' = f[<<kk, m>>]
  <2> SUFFICES ASSUME NEW kk \in Chunks, NEW m \in Locals PROVE Get(kk, m)' = f[<<kk, m>>]
    OBVIOUS
  <2>1. Get(kk, m)' = palette[IdxAt(chunks'[kk], m) + 1]
    BY <1>5, SamePalette
  <2>2. Get(kk, m) = palette[IdxAt(chunks[kk], m) + 1]
    BY DEF Get
  <2> QED BY <1>1, <1>4, <1>5, <2>1, <2>2
<1>7. OwnerOf' = f
  BY <1>2, <1>6, OwnerOfIs
<1>8. OwnerOf[<<k, l>>] # Unclaimed
  BY <1>3, GetMeaning
<1>9. dirty' = dirty \cup {k}
  BY DEF ClearCell, NoteDirty
<1> QED BY <1>7, <1>8, <1>9 DEF Grid!Assign, f

LEMMA ClearOwnerStep ==
  ASSUME IInv, NEW p \in Owners, ClearOwner(p)
  PROVE  Grid!Forfeit(p)
<1> DEFINE i == idToIdx[p]
           f == [c \in Chunks \X Locals |-> IF OwnerOf[c] = p THEN Unclaimed ELSE OwnerOf[c]]
<1>1. i # NoIdx /\ palette' = palette /\ palette[0 + 1] = Unclaimed
  BY DEF ClearOwner, IInv, Books
<1>2. PICK V \in SUBSET Populated :
        /\ Scanned(p, V)
        /\ chunks' = [k \in Chunks |->
                        IF k \in V THEN Forfeited(chunks[k], idToIdx[p]) ELSE chunks[k]]
        /\ dirty' = dirty \cup {c[1] : c \in HeldBy(idToIdx[p], V)}
  BY DEF ClearOwner
<1>3. \A k \in Chunks, l \in Locals :
        IdxAt(chunks'[k], l) = IF IdxAt(chunks[k], l) = i THEN 0 ELSE IdxAt(chunks[k], l)
  BY <1>1, <1>2, ForfeitedCells
<1>4. \A k \in Chunks, l \in Locals :
        /\ OwnerOf[<<k, l>>] = Get(k, l)
        /\ Get(k, l) = p <=> IdxAt(chunks[k], l) = i
  BY GetMeaning
<1>5. \A k \in Chunks, l \in Locals :
        f[<<k, l>>] = IF Get(k, l) = p THEN Unclaimed ELSE Get(k, l)
  BY <1>4
<1>6. f = [c \in Chunks \X Locals |-> f[c]]
  OBVIOUS
<1> HIDE DEF f, i
<1>7. \A k \in Chunks, l \in Locals : Get(k, l)' = f[<<k, l>>]
  <2> SUFFICES ASSUME NEW k \in Chunks, NEW l \in Locals PROVE Get(k, l)' = f[<<k, l>>]
    OBVIOUS
  <2>1. Get(k, l)' = palette[IdxAt(chunks'[k], l) + 1]
    BY <1>1, SamePalette
  <2>2. Get(k, l) = palette[IdxAt(chunks[k], l) + 1]
    BY DEF Get
  <2> QED BY <1>1, <1>3, <1>4, <1>5, <2>1, <2>2
<1>8. OwnerOf' = f
  BY <1>6, <1>7, OwnerOfIs
<1>9. {c[1] : c \in HeldBy(i, V)} = {k \in Chunks : \E l \in Locals : OwnerOf[<<k, l>>] = p}
  <2>1. \A k \in Chunks, l \in Locals : IdxAt(chunks[k], l) = i => k \in V
    BY <1>1, <1>2, ScanIsComplete DEF i
  <2>2. V \subseteq Chunks
    BY DEF Populated
  <2>3. ASSUME NEW k \in Chunks
        PROVE  k \in {c[1] : c \in HeldBy(i, V)} <=> \E l \in Locals : OwnerOf[<<k, l>>] = p
    <3>1. ASSUME NEW l \in Locals, OwnerOf[<<k, l>>] = p PROVE k \in {c[1] : c \in HeldBy(i, V)}
      <4>1. IdxAt(chunks[k], l) = i
        BY <1>4, <3>1
      <4>2. <<k, l>> \in HeldBy(i, V)
        BY <2>1, <4>1 DEF HeldBy
      <4> QED BY <4>2
    <3>2. ASSUME NEW c \in HeldBy(i, V), c[1] = k PROVE \E l \in Locals : OwnerOf[<<k, l>>] = p
      <4>1. c[2] \in Locals /\ IdxAt(chunks[k], c[2]) = i
        BY <3>2 DEF HeldBy
      <4> QED BY <1>4, <4>1
    <3> QED BY <3>1, <3>2
  <2>4. {c[1] : c \in HeldBy(i, V)} \subseteq Chunks
    BY <2>2 DEF HeldBy
  <2> QED BY <2>3, <2>4
<1>10. dirty' = dirty \cup {k \in Chunks : \E l \in Locals : OwnerOf[<<k, l>>] = p}
  BY <1>2, <1>9 DEF i
<1> QED BY <1>8, <1>10 DEF Grid!Forfeit, Grid!Cells, f

LEMMA ClearStep ==
  ASSUME Clear
  PROVE  Grid!Wipe
<1> DEFINE f == [c \in Chunks \X Locals |-> Unclaimed]
<1>1. \A k \in Chunks, l \in Locals : Get(k, l)' = Unclaimed
  <2> SUFFICES ASSUME NEW k \in Chunks, NEW l \in Locals PROVE Get(k, l)' = Unclaimed
    OBVIOUS
  <2>1. palette'[0 + 1] = Unclaimed
    BY DEF Clear
  <2>2. IdxAt(chunks'[k], l) = 0
    BY AbsentChunk DEF Clear
  <2> QED BY <2>1, <2>2 DEF Get
<1>2. \A k \in Chunks, l \in Locals : f[<<k, l>>] = Unclaimed
  OBVIOUS
<1>3. f = [c \in Chunks \X Locals |-> f[c]]
  OBVIOUS
<1> HIDE DEF f
<1>4. OwnerOf' = f
  BY <1>1, <1>2, <1>3, OwnerOfIs
<1> QED BY <1>4 DEF Grid!Wipe, Grid!Cells, Clear, f

(* A step that keeps the palette and what every cell holds keeps the       *)
(* abstract owners.                                                        *)
LEMMA SameOwners ==
  ASSUME palette' = palette,
         \A k \in Chunks, l \in Locals : IdxAt(chunks'[k], l) = IdxAt(chunks[k], l)
  PROVE  OwnerOf' = OwnerOf
<1>1. OwnerOf = [c \in Chunks \X Locals |-> OwnerOf[c]]
  BY DEF OwnerOf
<1>2. \A k \in Chunks, l \in Locals : OwnerOf[<<k, l>>] = palette[IdxAt(chunks[k], l) + 1]
  BY DEF OwnerOf, Get
<1>3. \A k \in Chunks, l \in Locals : Get(k, l)' = OwnerOf[<<k, l>>]
  <2> SUFFICES ASSUME NEW k \in Chunks, NEW l \in Locals
               PROVE  Get(k, l)' = OwnerOf[<<k, l>>]
    OBVIOUS
  <2>1. Get(k, l)' = palette[IdxAt(chunks'[k], l) + 1]
    BY SamePalette
  <2> QED BY <1>2, <2>1
<1> QED BY <1>1, <1>3, OwnerOfIs

LEMMA CompactPassStep ==
  ASSUME IInv, CompactPass
  PROVE  UNCHANGED <<OwnerOf, dirty>>
<1>1. \A k \in Chunks, l \in Locals : IdxAt(chunks'[k], l) = IdxAt(chunks[k], l)
  BY CompactedChunk DEF CompactPass, IInv
<1> QED BY <1>1, SameOwners DEF CompactPass

LEMMA DrainDirtyStep ==
  ASSUME DrainDirty
  PROVE  Grid!Drain
  BY SameOwners DEF DrainDirty, Grid!Drain

LEMMA ReloadStep ==
  ASSUME IInv, Reload
  PROVE  Grid!Reload
<1>1. OwnerOf' = OwnerOf
  BY SameOwners DEF Reload
<1>2. \A k \in Chunks : k \in Populated <=> \E l \in Locals : OwnerOf[<<k, l>>] # Unclaimed
  <2>1. \A k \in Chunks : k \in Populated <=> \E l \in Locals : IdxAt(chunks[k], l) # 0
    BY ChunkReads DEF Populated, IInv
  <2>2. \A k \in Chunks, l \in Locals :
          OwnerOf[<<k, l>>] = Unclaimed <=> IdxAt(chunks[k], l) = 0
    BY GetMeaning
  <2> QED BY <2>1, <2>2
<1>3. Populated = {k \in Chunks : \E l \in Locals : OwnerOf[<<k, l>>] # Unclaimed}
  BY <1>2 DEF Populated
<1> QED BY <1>1, <1>3 DEF Reload, Grid!Reload, Grid!Claimed

(* The palette, the free stack, the chunk shapes and the early stop of     *)
(* clear_owner are invisible from outside: every step of the store is a    *)
(* step of the abstract grid or changes nothing it shows.                  *)
THEOREM Refinement == Spec => ImplementsGrid
<1>1. Init => Grid!Init
  <2> SUFFICES ASSUME Init PROVE Grid!Init
    OBVIOUS
  <2>1. \A k \in Chunks, l \in Locals : Get(k, l) = Unclaimed
    <3>1. \A k \in Chunks, l \in Locals : IdxAt(chunks[k], l) = 0
      BY AbsentChunk DEF Init
    <3>2. palette[0 + 1] = Unclaimed
      BY DEF Init
    <3> QED BY <3>1, <3>2 DEF Get
  <2>2. OwnerOf = [c \in Chunks \X Locals |-> Unclaimed]
    BY <2>1 DEF OwnerOf
  <2> QED BY <2>2 DEF Grid!Init, Grid!Cells, Init
<1>2. IInv /\ IInv' /\ [Next]_vars => [Grid!Next]_(Grid!vars)
  <2> SUFFICES ASSUME IInv, IInv', [Next]_vars PROVE [Grid!Next]_(Grid!vars)
    OBVIOUS
  <2>1. ASSUME NEW k \in Chunks, NEW l \in Locals, ClearCell(k, l) PROVE Grid!Next
    BY <2>1, ClearCellStep DEF Grid!Next
  <2>2. ASSUME NEW k \in Chunks, NEW l \in Locals, NEW p \in Owners, PaintCell(k, l, p)
        PROVE  Grid!Next
    BY <2>2, PaintCellStep DEF Grid!Next
  <2>3. ASSUME NEW p \in Owners, ClearOwner(p) PROVE Grid!Next
    BY <2>3, ClearOwnerStep DEF Grid!Next
  <2>4. CASE Clear
    BY <2>4, ClearStep DEF Grid!Next
  <2>5. CASE CompactPass
    BY <2>5, CompactPassStep DEF Grid!vars
  <2>6. CASE DrainDirty
    BY <2>6, DrainDirtyStep DEF Grid!Next
  <2>7. CASE Reload
    BY <2>7, ReloadStep DEF Grid!Next
  <2>8. CASE UNCHANGED vars
    BY <2>8, SameOwners DEF vars, Grid!vars
  <2> QED BY <2>1, <2>2, <2>3, <2>4, <2>5, <2>6, <2>7, <2>8 DEF Next
<1> QED BY <1>1, <1>2, Invariance, PTL DEF Spec, ImplementsGrid, Grid!Spec
=============================================================================
