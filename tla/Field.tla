--------------------------------- MODULE Field ---------------------------------
(***************************************************************************)
(* The ground: where ants walk and paint, what stops them, who meets whom. *)
(* Phases 1 to 5b, 8b and 9 of tick_world (simulation.rs), the queen map   *)
(* (world.rs), the handlers that put queens and ants down (handlers.rs)    *)
(* and the fog that decides what a player sees of it (fog.rs).             *)
(*                                                                         *)
(* Lives, levels, purses and pools are Colony's: here a queen is where she *)
(* stands and how large she is, may be resized or fall at any time between *)
(* ticks, and of two that collide either may be the lesser.  Ants do not   *)
(* grow old.  The tick is one atomic call; its phases are steps in the     *)
(* code's order, and no handler runs while phase # "idle".                 *)
(***************************************************************************)
EXTENDS Integers, FiniteSets, SequencesExt

CONSTANTS
  Players,      \* ids: numbers above 0, which is blank
  W, H,         \* world_w, world_h
  NoQueen,      \* none, or a dead one
  Bubble,       \* size a queen may have -> her bubble_r
  MinEdge, FarEdge,  \* the margins a queen keeps: 2 and 8
  Bucket,       \* CELL of the collision grid
  Share,        \* convert_pct as a fraction: [of, in]
  GuardReach,   \* DEFENDER_RANGE
  DedupEvery, SortEvery, GuardEvery,  \* 64, 50 and 25 ticks
  Bought,       \* defenders each player may have at boot
  Clear, Grad, Pad,  \* fog.rs, in tiles
  Unit, Diagonal,    \* lengths of a straight step and of a diagonal one: 1 and SQRT_2
  Views,        \* viewports: [x, y, w, h]
  QueenSpots, MoveSpots, AntSpots, Headings,  \* where messages ask for
  MaxOps, MaxTicks  \* bounds on the handled messages and on the ticks

Sizes == DOMAIN Bubble
Lowest(S) == CHOOSE n \in S : \A m \in S : n <= m
Least == Lowest(Sizes)
Largest == CHOOSE s \in Sizes : \A t \in Sizes : t <= s

Cells == (0 .. W - 1) \X (0 .. H - 1)

(* The key of a cell.  A cell off the map has one too: that of another     *)
(* cell, a row on, or of none.                                             *)
Key(c) == c[2] * W + c[1]

(* A size x size block of cells, its top left corner at c. *)
Block(c, size) == {<<c[1] + i, c[2] + j>> : i, j \in 0 .. size - 1}

Square(n) == n * n
Dist2(a, b) == Square(a[1] - b[1]) + Square(a[2] - b[2])
Abs(n) == IF n < 0 THEN -n ELSE n
Larger(a, b) == IF a > b THEN a ELSE b
Smaller(a, b) == IF a < b THEN a ELSE b

Dirs == {<<0, -1>>, <<1, 0>>, <<0, 1>>, <<-1, 0>>}
Ccw(d) == <<d[2], -d[1]>>
Cw(d) == <<-d[2], d[1]>>
Back(d) == <<-d[1], -d[2]>>
Ahead(c, d, n) == <<c[1] + n * d[1], c[2] + n * d[2]>>
Clamped(c) == <<Larger(0, Smaller(c[1], W - 1)), Larger(0, Smaller(c[2], H - 1))>>

(* What Vec::retain leaves of a sequence: its elements that are in K. *)
Kept(seq, K) == FoldLeft(LAMBDA kept, a : IF a \in K THEN Append(kept, a) ELSE kept, <<>>, seq)

Ant == [owner : Players, at : Cells, dir : Dirs, brute : BOOLEAN]
Queen == [at : Int \X Int, size : Sizes]

ASSUME FieldAssumption ==
  /\ Players \subseteq Nat \ {0} /\ IsFiniteSet(Players)
  /\ W \in Nat \ {0} /\ H \in Nat \ {0}
  /\ Sizes \subseteq Nat \ {0} /\ IsFiniteSet(Sizes) /\ Sizes # {} /\ Bubble \in [Sizes -> Nat]
  /\ NoQueen \notin Queen
  /\ MinEdge \in Nat \ {0} /\ FarEdge \in Nat /\ FarEdge >= Largest
  /\ Bucket \in Nat /\ Bucket >= Largest + 1  \* "larger than any possible collision distance"
  /\ GuardReach \in Nat /\ Bought \in [Players -> Nat]
  /\ Clear \in Nat /\ Grad \in Nat /\ Pad \in Nat /\ Clear <= Grad /\ Grad <= Pad
  /\ Unit \in Nat \ {0} /\ Diagonal \in Nat /\ Unit <= Diagonal /\ Diagonal <= 2 * Unit
  /\ Views \subseteq [x : Int, y : Int, w : Nat, h : Nat]
  /\ DedupEvery \in Nat \ {0} /\ DedupEvery % 2 = 0
  /\ SortEvery \in Nat \ {0} /\ SortEvery % 2 = 0 /\ GuardEvery \in Nat \ {0}
  /\ QueenSpots \cup MoveSpots \subseteq Int \X Int
  /\ AntSpots \subseteq Cells /\ Headings \subseteq Dirs
  /\ MaxOps \in Nat /\ MaxTicks \in Nat

VARIABLES
  tile,      \* world.tiles: cell -> owner, 0 if blank
  ants,      \* world.ants, in the order of the Vec
  queens,    \* live queens: where and how large
  guards,    \* unspent defenders of each player
  queenMap,  \* keys of the cells queens stand on
  mapDirty,  \* queen_map_dirty
  pairs,     \* scratch_pairs: the key each ant is planned to stand on
  clock,     \* world.tick
  phase,     \* the phase the tick is in
  exiled,    \* ghost: queens the admin's move-queen put where they stand
  ops        \* bound counter

vars == <<tile, ants, queens, guards, queenMap, mapDirty, pairs, clock, phase, exiled, ops>>

Live(u) == queens[u] # NoQueen
Body(u) == IF Live(u) THEN Block(queens[u].at, queens[u].size) ELSE {}
Centre(q) == <<q.at[1] + q.size \div 2, q.at[2] + q.size \div 2>>

(* The cells an ant covers standing at c: a brute hangs over the edge.     *)
Footprint(c, brute) == Block(c, IF brute THEN 2 ELSE 1) \cap Cells

Stride(a) == IF a.brute THEN 2 ELSE 1

TypeOK ==
  /\ tile \in [Cells -> Players \cup {0}]
  /\ ants \in Seq(Ant)
  /\ queens \in [Players -> {NoQueen} \cup Queen]
  /\ guards \in [Players -> Nat]
  /\ queenMap \subseteq Int /\ mapDirty \in BOOLEAN
  /\ phase = "clash" => DOMAIN pairs = DOMAIN ants
  /\ phase \in {"idle", "walk", "clash", "capture", "guard", "collide"}
  /\ exiled \subseteq Players /\ clock \in 0 .. MaxTicks /\ ops \in 0 .. MaxOps

-----------------------------------------------------------------------------
(* The queen map. *)

(* get_queen_map: the keys are rebuilt when something has made them dirty. *)
FreshMap == IF mapDirty THEN {Key(c) : c \in UNION {Body(u) : u \in Players}} ELSE queenMap

Refresh == queenMap' = FreshMap /\ mapDirty' = FALSE

(* paint_queen_body, clear_queen_body: what of it lies in the world. *)
Bodied(t, u, at, size) == [c \in Cells |-> IF c \in Block(at, size) THEN u ELSE t[c]]

Unbodied(t, u, at, size) ==
  [c \in Cells |-> IF c \in Block(at, size) /\ t[c] = u THEN 0 ELSE t[c]]

(* kill_queen for the players in L: land, ants and footprint go.           *)
Fell(L) ==
  /\ queens' = [u \in Players |-> IF u \in L THEN NoQueen ELSE queens[u]]
  /\ tile' = [c \in Cells |-> IF tile[c] \in L THEN 0 ELSE tile[c]]
  /\ ants' = Kept(ants, {a \in ToSet(ants) : a.owner \notin L})
  /\ mapDirty' = (mapDirty \/ L # {})
  /\ exiled' = exiled \ L

-----------------------------------------------------------------------------
(* The handlers, between ticks. *)

Handler == phase = "idle" /\ ops < MaxOps /\ ops' = ops + 1 /\ UNCHANGED <<pairs, phase>>

InBounds(c) == c[1] >= MinEdge /\ c[2] >= MinEdge /\ c[1] < W - FarEdge /\ c[2] < H - FarEdge

(* too_close_to_queen: inside the bubble of another's queen. *)
TooClose(c, u) ==
  \E v \in Players \ {u} :
    Live(v) /\ Dist2(Centre(queens[v]), c) < Square(Bubble[queens[v].size])

(* A world that was saved at rest and restored: queens where they may be,  *)
(* their bodies painted.                                                   *)
Init ==
  /\ queens \in [Players -> {NoQueen} \cup [at : QueenSpots, size : Sizes]]
  /\ \A u \in Players : Live(u) => InBounds(queens[u].at) /\ ~TooClose(queens[u].at, u)
  /\ tile = [c \in Cells |->
       IF \E u \in Players : c \in Body(u) THEN CHOOSE u \in Players : c \in Body(u) ELSE 0]
  /\ ants = <<>> /\ pairs = <<>>
  /\ guards = Bought
  /\ queenMap = {} /\ mapDirty = TRUE
  /\ clock = 0 /\ phase = "idle" /\ exiled = {} /\ ops = 0

PlaceQueen(u, c) ==
  /\ Handler
  /\ ~Live(u) /\ InBounds(c) /\ ~TooClose(c, u)
  /\ queens' = [queens EXCEPT ![u] = [at |-> c, size |-> Least]]
  /\ tile' = Bodied(tile, u, c, Least)
  /\ mapDirty' = TRUE
  /\ UNCHANGED <<ants, guards, queenMap, clock, exiled>>

(* Mutant: the map is not told. *)
ShiftQuietly(u, c) ==
  LET q == queens[u]
  IN  /\ tile' = Bodied(Unbodied(tile, u, q.at, q.size), u, c, q.size)
      /\ queens' = [queens EXCEPT ![u].at = c]
      /\ UNCHANGED <<mapDirty, ants, guards, queenMap, clock>>

Shift(u, c) ==
  LET q == queens[u]
  IN  /\ tile' = Bodied(Unbodied(tile, u, q.at, q.size), u, c, q.size)
      /\ queens' = [queens EXCEPT ![u].at = c]
      /\ mapDirty' = TRUE
      /\ UNCHANGED <<ants, guards, queenMap, clock>>

(* shop-buy relocate. *)
Relocate(u, c) ==
  /\ Handler
  /\ Live(u) /\ InBounds(c) /\ ~TooClose(c, u)
  /\ Shift(u, c)
  /\ exiled' = exiled \ {u}

(* The admin's move-queen asks for neither margin nor distance.  Of a dead *)
(* queen it paints the body all the same: that gift of land is Colony's.   *)
MoveQueen(u, c) ==
  /\ Handler
  /\ Live(u)
  /\ Shift(u, c)
  /\ exiled' = exiled \cup {u}

(* set_level: by xp at the end of a tick, or by the admin. *)
Resize(u, size) ==
  /\ Handler
  /\ Live(u) /\ size # queens[u].size
  /\ queens' = [queens EXCEPT ![u].size = size]
  /\ mapDirty' = TRUE
  /\ UNCHANGED <<tile, ants, guards, queenMap, clock, exiled>>

(* Out of hp at the end of a tick, or by the admin. *)
Fall(u) ==
  /\ Handler
  /\ Live(u)
  /\ Fell({u})
  /\ UNCHANGED <<guards, queenMap, clock>>

(* validate_worker_placement: of a brute it sees the corner. *)
Placeable(u, c) ==
  /\ Key(c) \notin FreshMap
  /\ IF Dist2(c, Centre(queens[u])) <= Square(Bubble[queens[u].size])
     THEN tile[c] \in {0, u}
     ELSE tile[c] = u

(* place-ant refuses a worker where an ant of its owner stands and heads   *)
(* alike; shop-buy brute does not.                                         *)
Twin(a) == \E i \in DOMAIN ants : /\ ants[i].owner = a.owner
                                  /\ ants[i].at = a.at /\ ants[i].dir = a.dir

(* Refused or not, the map is fresh after it. *)
Deploy(u, c, d, brute) ==
  LET a == [owner |-> u, at |-> c, dir |-> d, brute |-> brute]
  IN  /\ Handler
      /\ Live(u)
      /\ Refresh
      /\ ants' = IF Placeable(u, c) /\ (brute \/ ~Twin(a)) THEN Append(ants, a) ELSE ants
      /\ UNCHANGED <<tile, queens, guards, clock, exiled>>

BuyDefender(u) ==
  /\ Handler
  /\ Live(u)
  /\ guards' = [guards EXCEPT ![u] = @ + 1]
  /\ UNCHANGED <<tile, ants, queens, queenMap, mapDirty, clock, exiled>>

(* wipe_world: defenders stay. *)
SeasonWipe ==
  /\ Handler
  /\ tile' = [c \in Cells |-> 0] /\ ants' = <<>>
  /\ queens' = [u \in Players |-> NoQueen]
  /\ queenMap' = {} /\ mapDirty' = FALSE
  /\ clock' = 0 /\ exiled' = {}
  /\ UNCHANGED guards

-----------------------------------------------------------------------------
(* tick_world. *)

InTick(from, to) == phase = from /\ phase' = to /\ UNCHANGED ops

Rank(a) == <<a.owner, a.at[1], a.at[2], a.dir[1], a.dir[2]>>

Precedes(r, s) == \E i \in 1 .. 5 : r[i] < s[i] /\ \A j \in 1 .. i - 1 : r[j] = s[j]

(* The sort by owner, cell and heading, and the dedup, which does not look *)
(* at the kind: of a worker and a brute that coincide either stays.        *)
Deduped ==
  {kept \in SetToAllKPermutations(ToSet(ants)) :
     /\ \A i, j \in DOMAIN kept : i < j => Precedes(Rank(kept[i]), Rank(kept[j]))
     /\ \A a \in ToSet(ants) : \E i \in DOMAIN kept : Rank(kept[i]) = Rank(a)}

(* The spatial sort is by 256 x 256 chunks and unstable; the modelled      *)
(* world is smaller than one: any order.                                   *)
Shuffled(kept) ==
  {[i \in DOMAIN kept |-> kept[order[i]]] : order \in Bijection(DOMAIN kept, DOMAIN kept)}

(* The head of the tick. *)
Begin ==
  /\ InTick("idle", "walk")
  /\ clock < MaxTicks /\ clock' = clock + 1
  /\ Refresh
  /\ \E kept \in IF clock' % DedupEvery = 0 THEN Deduped ELSE {ants} :
       ants' \in IF clock' % SortEvery = 0 THEN Shuffled(kept) ELSE {kept}
  /\ UNCHANGED <<tile, queens, guards, pairs, exiled>>

Even == clock % 2 = 0
Acts(a) == a.brute => Even  \* brutes rest on odd ticks

Blocked(c, brute) == \E k \in Footprint(c, brute) : Key(k) \in queenMap

(* Langton's rule over the cells covered: blank turns left, own ground     *)
(* right, anything else leads straight on.                                 *)
Turned(a) ==
  LET seen == {tile[c] : c \in Footprint(a.at, a.brute)}
  IN  IF seen = {a.owner} THEN Cw(a.dir) ELSE IF seen = {0} THEN Ccw(a.dir) ELSE a.dir

(* Mutant: an ant comes back from the edge one cell late. *)
BouncedLate(a, d) ==
  LET to == Ahead(a.at, d, Stride(a))
  IN  IF to \in (0 .. W) \X (0 .. H) THEN [at |-> to, dir |-> d]
      ELSE [at |-> Clamped(Ahead(a.at, Back(d), Stride(a))), dir |-> Back(d)]

(* The edge turns an ant back. *)
Bounced(a, d) ==
  LET to == Ahead(a.at, d, Stride(a))
  IN  IF to \in Cells THEN [at |-> to, dir |-> d]
      ELSE [at |-> Clamped(Ahead(a.at, Back(d), Stride(a))), dir |-> Back(d)]

(* Phase 1: one ant's plan.  A body in the way turns it aside where it is. *)
Planned(a) ==
  LET go == Bounced(a, Turned(a))
  IN  IF ~Acts(a) THEN [at |-> a.at, dir |-> a.dir]
      ELSE IF Blocked(go.at, a.brute) THEN [at |-> a.at, dir |-> Cw(go.dir)]
      ELSE go

(* Phase 2: an ant whose cell another also plans steps to the right of its *)
(* plan instead; the map is asked for the corner of a brute alone.         *)
Nudged(a, plan) ==
  LET to == Ahead(a.at, Cw(plan.dir), Stride(a))
  IN  [at |-> IF to \in Cells /\ Key(to) \notin queenMap THEN to ELSE a.at,
       dir |-> Cw(plan.dir)]

Plans ==
  LET first == [i \in DOMAIN ants |-> Planned(ants[i])]
      crowded(i) == \E j \in DOMAIN ants \ {i} : first[j].at = first[i].at
  IN  [i \in DOMAIN ants |->
         IF crowded(i) /\ first[i].at # ants[i].at THEN Nudged(ants[i], first[i]) ELSE first[i]]

(* Phase 3: what one ant leaves where it stands.  Not under a queen; a     *)
(* brute its footprint, a worker its cell, blank if it was its own.        *)
Painted(t, a) ==
  IF Key(a.at) \in queenMap \/ ~Acts(a) THEN t
  ELSE [c \in Cells |->
          IF c \notin Footprint(a.at, a.brute) THEN t[c]
          ELSE IF ~a.brute /\ t[c] = a.owner THEN 0 ELSE a.owner]

(* Mutant: the pairs are those of the plans before the nudge. *)
PairsOfFirstPlans(plans) == [i \in DOMAIN ants |-> Key(Planned(ants[i]).at)]

PairsOf(plans) == [i \in DOMAIN ants |-> Key(plans[i].at)]

Walk ==
  /\ InTick("walk", "clash")
  /\ LET plans == Plans
     IN  /\ ants' = [i \in DOMAIN ants |-> [ants[i] EXCEPT !.at = plans[i].at, !.dir = plans[i].dir]]
         /\ pairs' = PairsOf(plans)
  /\ tile' = FoldLeft(Painted, tile, ants)
  /\ UNCHANGED <<queens, guards, queenMap, mapDirty, clock, exiled>>

(* Cells where ants of several owners stand, by the pairs. *)
Met(k) == {i \in DOMAIN pairs : pairs[i] = k}
Contested == {k \in ToSet(pairs) : \E i, j \in Met(k) : ants[i].owner # ants[j].owner}

(* Who holds enough of the 5 x 5 around: perhaps none of those who met.    *)
Dominant(k) ==
  LET around == {c \in Block(<<(k % W) - 2, (k \div W) - 2>>, 5) \cap Cells : tile[c] # 0}
      held(u) == Cardinality({c \in around : tile[c] = u})
  IN  {u \in Players : /\ around # {} /\ \A v \in Players : held(v) <= held(u)
                       /\ held(u) * Share.in >= Cardinality(around) * Share.of}

(* Phase 5. *)
Clash ==
  /\ InTick("clash", "capture")
  /\ \E dom \in [Contested -> Players \cup {0}] :
       /\ \A k \in Contested : IF Dominant(k) = {} THEN dom[k] = 0 ELSE dom[k] \in Dominant(k)
       /\ ants' = [i \in DOMAIN ants |->
            IF pairs[i] \in Contested /\ dom[pairs[i]] # 0
            THEN [ants[i] EXCEPT !.owner = dom[pairs[i]]] ELSE ants[i]]
  /\ pairs' = <<>>  \* cleared before they are filled again
  /\ UNCHANGED <<tile, queens, guards, queenMap, mapDirty, clock, exiled>>

(* Mutant: only the corner of the footprint captures. *)
CoversCorner(b, c) == b.brute /\ b.at = c

Covers(b, c) == b.brute /\ c \in Footprint(b.at, TRUE)

(* brute_cells: the last brute of the Vec to cover a cell has it. *)
Holder(c) ==
  LET over == {i \in DOMAIN ants : Covers(ants[i], c)}
  IN  IF over = {} THEN 0 ELSE ants[CHOOSE i \in over : \A j \in over : j <= i].owner

(* Phase 5b: workers on a cell of another's brute leave for their pool.    *)
Capture ==
  /\ InTick("capture", "guard")
  /\ ants' = Kept(ants, {a \in ToSet(ants) : a.brute \/ Holder(a.at) \in {0, a.owner}})
  /\ UNCHANGED <<tile, queens, guards, queenMap, mapDirty, pairs, clock, exiled>>

(* Mutant: a fixed way from the centre, whatever the queen's size. *)
PostNearCentre(q, e) ==
  LET m  == Centre(q)
      dx == e[1] - m[1]
      dy == e[2] - m[2]
      d  == IF Abs(dx) >= Abs(dy) THEN IF dx >= 0 THEN <<1, 0>> ELSE <<-1, 0>>
            ELSE IF dy >= 0 THEN <<0, 1>> ELSE <<0, -1>>
  IN  [at |-> Ahead(m, d, 1), dir |-> d]

(* Outside the queen's body on the side of the enemy at e. *)
Post(q, e) ==
  LET m  == Centre(q)
      dx == e[1] - m[1]
      dy == e[2] - m[2]
  IN  IF Abs(dx) >= Abs(dy)
      THEN IF dx >= 0 THEN [at |-> <<q.at[1] + q.size, m[2]>>, dir |-> <<1, 0>>]
                      ELSE [at |-> <<q.at[1] - 1, m[2]>>, dir |-> <<-1, 0>>]
      ELSE IF dy >= 0 THEN [at |-> <<m[1], q.at[2] + q.size>>, dir |-> <<0, 1>>]
                      ELSE [at |-> <<m[1], q.at[2] - 1>>, dir |-> <<0, -1>>]

(* One player's turn in phase 8b, over the ants and guards so far: a       *)
(* defender against the nearest enemy in reach, the first of the Vec.      *)
Guarded(so, u) ==
  LET m     == Centre(queens[u])
      far(i) == Larger(Abs(so.ants[i].at[1] - m[1]), Abs(so.ants[i].at[2] - m[2]))
      near  == {i \in DOMAIN so.ants : so.ants[i].owner # u /\ far(i) <= GuardReach}
      first == CHOOSE i \in near : \A j \in near : far(i) < far(j) \/ (far(i) = far(j) /\ i <= j)
      post  == Post(queens[u], so.ants[first].at)
  IN  IF so.guards[u] = 0 \/ ~Live(u) \/ near = {} THEN so
      ELSE [guards |-> [so.guards EXCEPT ![u] = @ - 1],
            ants |-> Append(so.ants, [owner |-> u, at |-> Clamped(post.at),
                                      dir |-> post.dir, brute |-> FALSE])]

(* Phase 8b, in whatever order the players come. *)
Guard ==
  /\ InTick("guard", "collide")
  /\ \E turns \in SetToSeqs(Players) :
       LET end == IF clock % GuardEvery = 0
                  THEN FoldLeft(Guarded, [ants |-> ants, guards |-> guards], turns)
                  ELSE [ants |-> ants, guards |-> guards]
       IN  ants' = end.ants /\ guards' = end.guards
  /\ UNCHANGED <<tile, queens, queenMap, mapDirty, pairs, clock, exiled>>

(* Division as the code has it: towards zero. *)
Slot(n) == IF n >= 0 THEN n \div Bucket ELSE -((-n) \div Bucket)

(* Mutant: only queens of the same bucket are compared. *)
ComparedSame(p, q) == Slot(p.at[1]) = Slot(q.at[1]) /\ Slot(p.at[2]) = Slot(q.at[2])

Compared(p, q) ==
  Abs(Slot(p.at[1]) - Slot(q.at[1])) <= 1 /\ Abs(Slot(p.at[2]) - Slot(q.at[2])) <= 1

(* Centre distance below the mean size plus one. *)
Touching(p, q) == 4 * Dist2(p.at, q.at) < Square(p.size + q.size + 2)

(* Phase 9: of each pair the scan finds the lesser falls, all judged       *)
(* before any falls.                                                       *)
Collide ==
  /\ InTick("collide", "idle")
  /\ \E might \in Injection(Players, 1 .. Cardinality(Players)) :
       Fell({u \in Players : Live(u) /\ \E v \in Players \ {u} :
               /\ Live(v) /\ might[u] < might[v]
               /\ Compared(queens[u], queens[v]) /\ Touching(queens[u], queens[v])})
  /\ UNCHANGED <<guards, queenMap, pairs, clock>>

Next ==
  \/ \E u \in Players, c \in QueenSpots : PlaceQueen(u, c) \/ Relocate(u, c)
  \/ \E u \in Players, c \in MoveSpots : MoveQueen(u, c)
  \/ \E u \in Players, size \in Sizes : Resize(u, size)
  \/ \E u \in Players : Fall(u) \/ BuyDefender(u)
  \/ \E u \in Players, c \in AntSpots, d \in Headings, brute \in BOOLEAN : Deploy(u, c, d, brute)
  \/ SeasonWipe
  \/ Begin \/ Walk \/ Clash \/ Capture \/ Guard \/ Collide

Spec == Init /\ [][Next]_vars

-----------------------------------------------------------------------------
(* compute_fog_field_slice, over the slice of a view: the view's cells and *)
(* Pad more on every side, blank where the world ends (snapshot_view).     *)

TooFar == Unit * (Grad + 5)

(* Cell c of the slice is InWorld(v, c), Pad off the view. *)
Pw(v) == v.w + 2 * Pad
Ph(v) == v.h + 2 * Pad
Slice(v) == (0 .. Pw(v) - 1) \X (0 .. Ph(v) - 1)
InWorld(v, c) == <<v.x + c[1] - Pad, v.y + c[2] - Pad>>

(* Its cells row by row. *)
Raster(v, k) == <<k % Pw(v), k \div Pw(v)>>

Before == {<<-1, -1>>, <<0, -1>>, <<1, -1>>, <<-1, 0>>}

(* Mutant: the second pass looks at the row below alone. *)
AfterBelow == {<<1, 1>>, <<0, 1>>, <<-1, 1>>}

After == {<<1, 1>>, <<0, 1>>, <<-1, 1>>, <<1, 0>>}

Way(s) == IF s[1] = 0 \/ s[2] = 0 THEN Unit ELSE Diagonal

(* A cell is no farther than by way of a neighbour on that side. *)
Closer(v, dist, c, nearby) ==
  Lowest({dist[c]} \cup
         {dist[Ahead(c, s, 1)] + Way(s) : s \in {t \in nearby : Ahead(c, t, 1) \in Slice(v)}})

(* A pass over the n cells in the order given. *)
Pass(v, n, start, order, nearby) ==
  LET upto[k \in 0 .. n] ==
        IF k = 0 THEN start
        ELSE LET dist == upto[k - 1]
                 c == order[k]
             IN  [dist EXCEPT ![c] = Closer(v, dist, c, nearby)]
  IN  upto[n]

TwoPass(v, u) ==
  LET n == Pw(v) * Ph(v)
      seeds == [c \in Slice(v) |->
                  IF InWorld(v, c) \in Cells /\ tile[InWorld(v, c)] = u THEN 0 ELSE TooFar]
      forward == [k \in 1 .. n |-> Raster(v, k - 1)]
      backward == [k \in 1 .. n |-> Raster(v, n - k)]
  IN  Pass(v, n, Pass(v, n, seeds, forward, Before), backward, After)

(* None up to Clear, whole from Grad on. *)
FogAt(d) ==
  IF d <= Unit * Clear THEN 0 ELSE IF d >= Unit * Grad THEN Unit * (Grad - Clear) ELSE d - Unit * Clear

-----------------------------------------------------------------------------
(* No step leads onto a queen: an ant that is not under a living queen's   *)
(* body does not get there by walking, whatever queens and bodies did      *)
(* since the map was last built.                                           *)
StepsOffBodies ==
  [][phase = "walk" => \A i \in DOMAIN ants :
       ants'[i].at # ants[i].at => \A u \in Players : ants'[i].at \notin Body(u)]_vars

(* Only an ant that ends its step on the cell of another player's ant      *)
(* changes sides: the pairs the clash works from are the cells the ants    *)
(* stand on.                                                               *)
ConvertedWhereMet ==
  [][phase = "clash" => \A i \in DOMAIN ants :
       ants'[i].owner # ants[i].owner =>
         \E j \in DOMAIN ants : ants[j].at = ants[i].at /\ ants[j].owner # ants[i].owner]_vars

(* The owners of the brutes over a worker's cell. *)
Over(c) == {b.owner : b \in {a \in ToSet(ants) : a.brute /\ c \in Block(a.at, 2)}}

(* "an enemy worker caught under a brute's 2x2 footprint is sent back":    *)
(* after the capture none is left under enemy brutes alone, and none was   *)
(* taken from where no enemy brute stands.  Under a brute of its own as    *)
(* well it may stay or go: the later of the two in the Vec has the cell.   *)
CaughtLeave ==
  [][phase = "capture" =>
       /\ \A a \in ToSet(ants') : ~a.brute /\ Over(a.at) # {} => a.owner \in Over(a.at)
       /\ \A a \in ToSet(ants) \ ToSet(ants') : ~a.brute /\ Over(a.at) \ {a.owner} # {}]_vars

(* "so the defender never lands on queen tiles": the margins queens keep   *)
(* leave room for one around the largest, unless the admin moved her.      *)
GuardsOutside ==
  [][phase = "guard" => \A i \in DOMAIN ants' \ DOMAIN ants :
       ants'[i].owner \in exiled \/ ants'[i].at \notin Body(ants'[i].owner)]_vars

(* Of two queens that touched in a tick at least one has fallen at its     *)
(* end, however they straddle the buckets of the scan.                     *)
TouchingResolved ==
  [][phase = "collide" => \A u, v \in Players :
       u # v /\ Live(u) /\ Live(v) /\ Touching(queens[u], queens[v])
         => queens'[u] = NoQueen \/ queens'[v] = NoQueen]_vars

(* The length of the shortest way between two cells. *)
Octile(a, b) ==
  LET dx == Abs(a[1] - b[1])
      dy == Abs(a[2] - b[2])
  IN  Unit * Larger(dx, dy) + (Diagonal - Unit) * Smaller(dx, dy)

(* What two passes over the padded slice say of a cell of the view is its  *)
(* distance to the player's nearest tile in the whole world.               *)
FogExact ==
  phase = "idle" => \A v \in Views, u \in Players :
    LET dist == TwoPass(v, u)
    IN  \A i \in 0 .. v.w - 1, j \in 0 .. v.h - 1 :
          LET ways == {Octile(<<v.x + i, v.y + j>>, c) : c \in {c \in Cells : tile[c] = u}}
                        \cup {TooFar}
          IN  FogAt(dist[<<i + Pad, j + Pad>>]) = FogAt(Lowest(ways))
=============================================================================
