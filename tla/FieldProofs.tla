----------------------------- MODULE FieldProofs -----------------------------
(***************************************************************************)
(* Proofs about the ground, for maps, margins, queens and armies of any    *)
(* size: where ants step, who is converted and caught, where defenders are *)
(* posted and which queens fall; and about the fog of any view.            *)
(***************************************************************************)
EXTENDS Field, FiniteSetTheorems, SequenceTheorems, WellFoundedInduction, TLAPS

-----------------------------------------------------------------------------
(* Induction, over sets instead of formulas. *)

(* A set of naturals has a least element.                                  *)
LEMMA LeastNat ==
  ASSUME NEW T \in SUBSET Nat, T # {}
  PROVE  \E n \in T : \A m \in T : n <= m
<1>1. PICK n \in T : \A m \in T : <<m, n>> \notin OpToRel(<, Nat)
  BY NatLessThanWellFounded, WFMin
<1>2. \A m \in T : ~(m < n)
  BY <1>1 DEF OpToRel
<1> QED BY <1>2

(* What holds at 0 and goes from each number to the next holds up to n.    *)
LEMMA UpTo ==
  ASSUME NEW n \in Nat, NEW P, 0 \in P, \A k \in 0 .. n - 1 : k \in P => k + 1 \in P
  PROVE  0 .. n \subseteq P
<1> DEFINE Bad == (0 .. n) \ P
<1> SUFFICES ASSUME Bad # {} PROVE FALSE
  OBVIOUS
<1>0. Bad \in SUBSET Nat
  OBVIOUS
<1>1. PICK k \in Bad : \A m \in Bad : k <= m
  <2> HIDE DEF Bad
  <2> QED BY <1>0, LeastNat
<1>2. k # 0 /\ k - 1 \in 0 .. n /\ k - 1 \notin Bad
  BY <1>1
<1> QED BY <1>1, <1>2

(* What holds of the empty set, and of a set when it does without one of   *)
(* its elements, holds of every subset.                                    *)
LEMMA EverySubset ==
  ASSUME NEW S, IsFiniteSet(S), NEW P, {} \in P,
         \A s \in SUBSET S : s # {} => \E x \in s : s \ {x} \in P => s \in P
  PROVE  SUBSET S \subseteq P
<1> DEFINE Q == {n \in Nat : \A s \in SUBSET S : Cardinality(s) = n => s \in P}
<1>0. \A s \in SUBSET S : IsFiniteSet(s) /\ Cardinality(s) \in Nat /\ (Cardinality(s) = 0 <=> s = {})
  BY FS_Subset, FS_CardinalityType, FS_EmptySet
<1>1. 0 \in Q
  BY <1>0
<1>2. ASSUME NEW k \in Nat, k \in Q PROVE k + 1 \in Q
  <2> SUFFICES ASSUME NEW s \in SUBSET S, Cardinality(s) = k + 1 PROVE s \in P
    OBVIOUS
  <2>1. s # {}
    BY <1>0
  <2>2. PICK x \in s : s \ {x} \in P => s \in P
    BY <2>1
  <2>3. s \ {x} \in SUBSET S /\ Cardinality(s \ {x}) = k
    <3>1. IsFiniteSet(s) /\ Cardinality(s) \in Nat
      BY <1>0
    <3>2. Cardinality(s \ {x}) = Cardinality(s) - 1
      BY <2>1, <3>1, FS_RemoveElement
    <3> QED BY <3>2
  <2> QED BY <1>2, <2>2, <2>3
<1>3. Cardinality(S) \in Nat /\ 0 .. Cardinality(S) \subseteq Q
  BY <1>0, <1>1, <1>2, UpTo
<1>4. \A s \in SUBSET S : Cardinality(s) \in 0 .. Cardinality(S)
  BY <1>0, FS_Subset
<1> QED BY <1>3, <1>4

(* A recursion that takes a set apart, element by element.                 *)
Unfolds(h, S, base, step, pick) ==
  \A s \in SUBSET S : h[s] = IF s = {} THEN base ELSE step[s][h[s \ {pick[s]}]]

(* It has a solution when the set is finite and steps stay within X.       *)
LEMMA Recursion ==
  ASSUME NEW S, IsFiniteSet(S), NEW X, NEW base \in X,
         NEW step \in [SUBSET S -> [X -> X]], NEW pick \in [(SUBSET S) \ {{}} -> S],
         \A s \in (SUBSET S) \ {{}} : pick[s] \in s
  PROVE  \E h \in [SUBSET S -> X] : Unfolds(h, S, base, step, pick)
<1> DEFINE D(n) == {s \in SUBSET S : Cardinality(s) <= n}
           Good(n, h) == /\ h \in [D(n) -> X]
                         /\ \A s \in D(n) : h[s] = IF s = {} THEN base ELSE step[s][h[s \ {pick[s]}]]
           Done == {n \in Nat : \E h : Good(n, h)}
<1>0. \A s \in SUBSET S : IsFiniteSet(s) /\ Cardinality(s) \in Nat /\ (Cardinality(s) = 0 <=> s = {})
  BY FS_Subset, FS_CardinalityType, FS_EmptySet
<1>1. \A s \in SUBSET S : s # {} => /\ s \ {pick[s]} \in SUBSET S
                                    /\ Cardinality(s \ {pick[s]}) = Cardinality(s) - 1
  BY <1>0, FS_RemoveElement
<1>2. 0 \in Done
  <2>1. D(0) = {{}}
    BY <1>0
  <2>2. Good(0, [s \in D(0) |-> base])
    BY <2>1
  <2> QED BY <2>2
<1>3. ASSUME NEW n \in Nat, n \in Done PROVE n + 1 \in Done
  <2>1. PICK g : Good(n, g)
    BY <1>3
  <2> DEFINE h == [s \in D(n + 1) |-> IF s = {} THEN base ELSE step[s][g[s \ {pick[s]}]]]
  <2>2. \A s \in D(n + 1) : s # {} => s \ {pick[s]} \in D(n)
    BY <1>0, <1>1
  <2>3. h \in [D(n + 1) -> X]
    BY <2>1, <2>2
  <2>4. ASSUME NEW s \in D(n) PROVE s \in D(n + 1) /\ h[s] = g[s]
    <3>1. s \in D(n + 1)
      BY <1>0
    <3>2. g[s] = IF s = {} THEN base ELSE step[s][g[s \ {pick[s]}]]
      BY <2>1
    <3> QED BY <3>1, <3>2
  <2>5. Good(n + 1, h)
    BY <2>2, <2>3, <2>4
  <2> HIDE DEF Good, h
  <2> QED BY <2>5
<1>4. PICK h : Good(Cardinality(S), h)
  <2> HIDE DEF Done
  <2>1. Cardinality(S) \in Done
    BY <1>0, <1>2, <1>3, UpTo
  <2> QED BY <2>1 DEF Done
<1>5. D(Cardinality(S)) = SUBSET S
  BY FS_Subset, <1>0
<1> QED BY <1>4, <1>5 DEF Unfolds

-----------------------------------------------------------------------------
(* Folds over sequences. *)

(* The largest of some positions.                                          *)
LEMMA TopPosition ==
  ASSUME NEW n \in Nat, NEW d \in SUBSET (1 .. n), d # {}
  PROVE  Max(d) \in d /\ \A i \in d : i <= Max(d)
<1> DEFINE Above == {m \in Nat : \A i \in d : i <= m}
<1>1. PICK m \in Above : \A k \in Above : m <= k
  <2>1. n \in Above /\ Above \in SUBSET Nat
    OBVIOUS
  <2> HIDE DEF Above
  <2> QED BY <2>1, LeastNat
<1>2. m \in d
  <2> SUFFICES ASSUME m \notin d PROVE FALSE
    OBVIOUS
  <2>1. \A i \in d : i \in Nat \ {0} /\ i <= m /\ i # m
    BY <1>1
  <2>2. m - 1 \in Nat /\ \A i \in d : i <= m - 1
    <3>1. m \in Nat
      BY <1>1
    <3>2. PICK i \in d : i \in Nat \ {0} /\ i <= m
      BY <2>1
    <3> QED BY <2>1, <3>1, <3>2
  <2>3. m - 1 \in Above
    BY <2>2
  <2> QED BY <1>1, <2>3
<1>3. \E x \in d : \A i \in d : x >= i
  BY <1>1, <1>2
<1> QED BY <1>3 DEF Max

(* The recursion FoldLeft makes over the positions of a sequence.          *)
Folds(h, n, base, step) ==
  \A d \in SUBSET (1 .. n) : h[d] = IF d = {} THEN base ELSE step[Max(d)][h[d \ {Max(d)}]]

(* It has a solution when steps stay within X.                             *)
LEMMA LeftRecursion ==
  ASSUME NEW n \in Nat, NEW X, NEW base \in X, NEW step \in [1 .. n -> [X -> X]]
  PROVE  \E h \in [SUBSET (1 .. n) -> X] : Folds(h, n, base, step)
<1> DEFINE S == 1 .. n
           pick == [d \in (SUBSET S) \ {{}} |-> Max(d)]
           by == [d \in SUBSET S |-> IF d = {} THEN [x \in X |-> x] ELSE step[Max(d)]]
<1>1. IsFiniteSet(S)
  BY FS_Interval
<1>2. \A d \in (SUBSET S) \ {{}} : pick[d] \in d /\ pick[d] = Max(d) /\ Max(d) \in S
  BY TopPosition
<1>3. by \in [SUBSET S -> [X -> X]] /\ pick \in [(SUBSET S) \ {{}} -> S]
  BY <1>2
<1>4. PICK h \in [SUBSET S -> X] : Unfolds(h, S, base, by, pick)
  <2> HIDE DEF S, by, pick
  <2> QED BY <1>1, <1>2, <1>3, Recursion
<1>5. \A d \in SUBSET S : h[d] = IF d = {} THEN base ELSE step[Max(d)][h[d \ {Max(d)}]]
  BY <1>2, <1>4 DEF Unfolds
<1> QED BY <1>5 DEF Folds

LEMMA WithLast ==
  ASSUME NEW A, NEW seq \in Seq(A), NEW e \in A
  PROVE  Append(seq, e) \in Seq(A) /\ ToSet(Append(seq, e)) = ToSet(seq) \cup {e}
<1> DEFINE longer == Append(seq, e)
<1>1. /\ longer \in Seq(A) /\ Len(seq) \in Nat /\ DOMAIN seq = 1 .. Len(seq)
      /\ DOMAIN longer = 1 .. Len(seq) + 1 /\ longer[Len(seq) + 1] = e
      /\ \A i \in 1 .. Len(seq) : longer[i] = seq[i]
  OBVIOUS
<1> HIDE DEF longer
<1>2. 1 .. Len(seq) + 1 = (1 .. Len(seq)) \cup {Len(seq) + 1}
  BY <1>1
<1>3. {longer[i] : i \in DOMAIN longer} = {seq[i] : i \in DOMAIN seq} \cup {e}
  BY <1>1, <1>2
<1> QED BY <1>1, <1>3 DEF ToSet, longer

(* What is kept of a sequence.                                             *)
LEMMA KeptElements ==
  ASSUME NEW A, NEW seq \in Seq(A), NEW K
  PROVE  Kept(seq, K) \in Seq(A) /\ ToSet(Kept(seq, K)) = ToSet(seq) \cap K
<1> DEFINE n == Len(seq)
           S == 1 .. n
           Step(i, kept) == IF seq[i] \in K THEN Append(kept, seq[i]) ELSE kept
           Solves(f) == f = [d \in SUBSET S |-> IF d = {} THEN <<>> ELSE Step(Max(d), f[d \ {Max(d)}])]
           iter == CHOOSE f : Solves(f)
<1>0. DOMAIN seq = S /\ n \in Nat /\ \A i \in S : seq[i] \in A
  OBVIOUS
<1>1. Kept(seq, K) = iter[S]
  BY <1>0 DEF Kept, FoldLeft, MapThenFoldSet
<1>2. \E f : Solves(f)
  <2> DEFINE step == [i \in S |-> [kept \in Seq(A) |-> Step(i, kept)]]
  <2>1. step \in [S -> [Seq(A) -> Seq(A)]] /\ <<>> \in Seq(A)
    BY <1>0
  <2>2. PICK h \in [SUBSET S -> Seq(A)] : Folds(h, n, <<>>, step)
    <3> HIDE DEF step, n
    <3> QED BY <1>0, <2>1, LeftRecursion
  <2>3. \A d \in SUBSET S : d # {} => Max(d) \in S /\ h[d \ {Max(d)}] \in Seq(A)
    BY <1>0, TopPosition
  <2>4. \A d \in SUBSET S : h[d] = IF d = {} THEN <<>> ELSE Step(Max(d), h[d \ {Max(d)}])
    BY <2>2, <2>3 DEF Folds
  <2>5. h = [d \in SUBSET S |-> IF d = {} THEN <<>> ELSE Step(Max(d), h[d \ {Max(d)}])]
    BY <2>4
  <2> QED BY <2>5
<1>3. Solves(iter)
  BY <1>2
<1>4. \A d \in SUBSET S : iter[d] = IF d = {} THEN <<>> ELSE Step(Max(d), iter[d \ {Max(d)}])
  BY <1>3
<1> HIDE DEF iter
<1> DEFINE P == {d \in SUBSET S : iter[d] \in Seq(A) /\ ToSet(iter[d]) = {seq[i] : i \in d} \cap K}
<1>5. {} \in P
  <2>1. ToSet(<<>>) = {}
    BY DEF ToSet
  <2>2. {} \in SUBSET S /\ iter[{}] = <<>>
    BY <1>4
  <2>3. {seq[i] : i \in {}} \cap K = {} /\ <<>> \in Seq(A)
    OBVIOUS
  <2> QED BY <2>1, <2>2, <2>3
<1>6. ASSUME NEW d \in SUBSET S, d # {}, d \ {Max(d)} \in P PROVE d \in P
  <2> DEFINE m == Max(d)
             rest == iter[d \ {m}]
  <2>1. m \in d /\ m \in S /\ seq[m] \in A
    BY <1>0, <1>6, TopPosition
  <2>2. rest \in Seq(A) /\ ToSet(rest) = {seq[i] : i \in d \ {m}} \cap K
    BY <1>6
  <2>3. iter[d] = Step(m, rest)
    BY <1>4, <1>6
  <2>4. {seq[i] : i \in d} = {seq[i] : i \in d \ {m}} \cup {seq[m]}
    BY <2>1
  <2>5. CASE seq[m] \in K
    <3>1. iter[d] = Append(rest, seq[m])
      BY <2>3, <2>5
    <3>2. iter[d] \in Seq(A) /\ ToSet(iter[d]) = ToSet(rest) \cup {seq[m]}
      <4> HIDE DEF rest, m
      <4> QED BY <2>1, <2>2, <3>1, WithLast
    <3> QED BY <2>2, <2>4, <2>5, <3>2
  <2>6. CASE seq[m] \notin K
    BY <2>2, <2>3, <2>4, <2>6
  <2> QED BY <2>5, <2>6
<1>7. SUBSET S \subseteq P
  <2>1. \A d \in SUBSET S : d # {} => \E x \in d : d \ {x} \in P => d \in P
    <3> HIDE DEF P
    <3> QED BY <1>0, <1>6, TopPosition
  <2>2. IsFiniteSet(S)
    BY <1>0, FS_Interval
  <2> HIDE DEF P, S
  <2> QED BY <1>5, <2>1, <2>2, EverySubset
<1>8. ToSet(seq) = {seq[i] : i \in S} /\ S \in P
  BY <1>0, <1>7 DEF ToSet
<1> QED BY <1>1, <1>8

-----------------------------------------------------------------------------
(* Cells. *)

Spots == Int \X Int

(* No two cells of the map share a key.                                    *)
LEMMA KeysDiffer ==
  ASSUME NEW c \in Cells, NEW d \in Cells, Key(c) = Key(d)
  PROVE  c = d
<1>1. /\ c[1] \in 0 .. W - 1 /\ c[2] \in 0 .. H - 1 /\ d[1] \in 0 .. W - 1 /\ d[2] \in 0 .. H - 1
      /\ c = <<c[1], c[2]>> /\ d = <<d[1], d[2]>> /\ W \in Nat \ {0} /\ H \in Nat
  BY FieldAssumption DEF Cells
<1>2. \A m, n \in Nat : m < n => m * W + W <= n * W
  <2> SUFFICES ASSUME NEW m \in Nat, NEW n \in Nat, m < n PROVE m * W + W <= n * W
    OBVIOUS
  <2>1. PICK k \in Nat : n = m + 1 + k
    <3>1. n - m - 1 \in Nat /\ n = m + 1 + (n - m - 1)
      OBVIOUS
    <3> QED BY <3>1
  <2>2. n * W = m * W + W + k * W /\ k * W >= 0
    BY <1>1, <2>1
  <2>3. m * W \in Int /\ n * W \in Int /\ k * W \in Int
    BY <1>1
  <2> QED BY <1>1, <2>2, <2>3
<1>3. c[2] * W + c[1] = d[2] * W + d[1]
  BY DEF Key
<1>4. c[2] * W \in Int /\ d[2] * W \in Int
  BY <1>1
<1>5. ~(c[2] < d[2]) /\ ~(d[2] < c[2])
  BY <1>1, <1>2, <1>3, <1>4
<1>6. c[2] = d[2]
  BY <1>1, <1>5
<1> QED BY <1>1, <1>3, <1>4, <1>6

(* Clamping stays on the map, and leaves its cells alone.                  *)
LEMMA ClampedOnMap ==
  ASSUME NEW c \in Spots
  PROVE  Clamped(c) \in Cells /\ (c \in Cells => Clamped(c) = c)
BY FieldAssumption DEF Spots, Clamped, Cells, Larger, Smaller

(* Turned directions are directions; a step leads to a spot.               *)
LEMMA Directions ==
  ASSUME NEW d \in Dirs
  PROVE  /\ Cw(d) \in Dirs /\ Ccw(d) \in Dirs /\ Back(d) \in Dirs
         /\ d[1] \in Int /\ d[2] \in Int
BY DEF Dirs, Cw, Ccw, Back

LEMMA Steps ==
  ASSUME NEW c \in Spots, NEW d \in Dirs, NEW n \in {1, 2}
  PROVE  Ahead(c, d, n) \in Spots
<1>1. c[1] \in Int /\ c[2] \in Int /\ d[1] \in Int /\ d[2] \in Int
  BY Directions DEF Spots
<1> QED BY <1>1 DEF Ahead, Spots

(* An ant covers the cell it stands on.                                    *)
LEMMA OwnCell ==
  ASSUME NEW c \in Cells, NEW brute \in BOOLEAN
  PROVE  c \in Spots /\ c \in Footprint(c, brute)
<1>1. c = <<c[1] + 0, c[2] + 0>> /\ c \in Spots
  BY FieldAssumption DEF Cells, Spots
<1>2. 0 \in 0 .. (IF brute THEN 2 ELSE 1) - 1
  OBVIOUS
<1> QED BY <1>1, <1>2 DEF Footprint, Block

-----------------------------------------------------------------------------
(* Walking. *)

(* The plan of an ant: a cell of the map, and no queen's unless it is the  *)
(* one the ant stands on.                                                  *)
GoodPlan(a, plan) ==
  /\ plan.at \in Cells /\ plan.dir \in Dirs
  /\ plan.at # a.at => Key(plan.at) \notin queenMap

LEMMA BouncedOnMap ==
  ASSUME NEW a \in Ant, NEW d \in Dirs
  PROVE  Bounced(a, d).at \in Cells /\ Bounced(a, d).dir \in Dirs
<1>1. a.at \in Cells /\ a.brute \in BOOLEAN
  BY DEF Ant
<1>2. a.at \in Spots
  BY <1>1, OwnCell
<1>3. Stride(a) \in {1, 2} /\ Back(d) \in Dirs
  BY <1>1, Directions DEF Stride
<1>4. Ahead(a.at, Back(d), Stride(a)) \in Spots
  BY <1>2, <1>3, Steps
<1> QED BY <1>3, <1>4, ClampedOnMap DEF Bounced

LEMMA PlannedWell ==
  ASSUME NEW a \in Ant
  PROVE  GoodPlan(a, Planned(a))
<1>0. a.at \in Cells /\ a.dir \in Dirs /\ a.brute \in BOOLEAN
  BY DEF Ant
<1> DEFINE go == Bounced(a, Turned(a))
<1>1. Turned(a) \in Dirs
  BY <1>0, Directions DEF Turned
<1>2. go.at \in Cells /\ go.dir \in Dirs /\ Cw(go.dir) \in Dirs
  BY <1>1, BouncedOnMap, Directions
<1>3. ~Blocked(go.at, a.brute) => Key(go.at) \notin queenMap
  BY <1>0, <1>2, OwnCell DEF Blocked
<1>4. CASE ~Acts(a)
  BY <1>0, <1>4 DEF Planned, GoodPlan
<1>5. CASE Acts(a) /\ Blocked(go.at, a.brute)
  BY <1>0, <1>2, <1>5 DEF Planned, GoodPlan
<1>6. CASE Acts(a) /\ ~Blocked(go.at, a.brute)
  <2>1. Planned(a) = go
    BY <1>6 DEF Planned
  <2> QED BY <1>2, <1>3, <1>6, <2>1 DEF GoodPlan
<1> QED BY <1>4, <1>5, <1>6

LEMMA NudgedWell ==
  ASSUME NEW a \in Ant, NEW plan, plan.dir \in Dirs
  PROVE  GoodPlan(a, Nudged(a, plan))
<1>0. a.at \in Cells /\ a.brute \in BOOLEAN
  BY DEF Ant
<1>1. Cw(plan.dir) \in Dirs
  BY Directions
<1> QED BY <1>0, <1>1 DEF Nudged, GoodPlan

LEMMA PlansWell ==
  ASSUME ants \in Seq(Ant)
  PROVE  DOMAIN Plans = DOMAIN ants /\ \A i \in DOMAIN ants : GoodPlan(ants[i], Plans[i])
<1>1. \A i \in DOMAIN ants : ants[i] \in Ant
  OBVIOUS
<1>2. \A i \in DOMAIN ants : Plans[i] = Planned(ants[i]) \/ Plans[i] = Nudged(ants[i], Planned(ants[i]))
  BY DEF Plans
<1>3. \A i \in DOMAIN ants : Planned(ants[i]).dir \in Dirs
  BY <1>1, PlannedWell DEF GoodPlan
<1>4. \A i \in DOMAIN ants : GoodPlan(ants[i], Plans[i])
  BY <1>1, <1>2, <1>3, PlannedWell, NudgedWell
<1> QED BY <1>4 DEF Plans

-----------------------------------------------------------------------------
(* Painting and reordering. *)

Ground == [Cells -> Players \cup {0}]

(* What all the ants paint is ground.                                      *)
LEMMA GroundPainted ==
  ASSUME ants \in Seq(Ant), tile \in Ground
  PROVE  FoldLeft(Painted, tile, ants) \in Ground
<1> DEFINE n == Len(ants)
           S == 1 .. n
           Solves(f) == f = [d \in SUBSET S |-> IF d = {} THEN tile ELSE Painted(f[d \ {Max(d)}], ants[Max(d)])]
           iter == CHOOSE f : Solves(f)
<1>0. DOMAIN ants = S /\ n \in Nat /\ \A i \in S : ants[i] \in Ant
  OBVIOUS
<1>1. FoldLeft(Painted, tile, ants) = iter[S]
  BY <1>0 DEF FoldLeft, MapThenFoldSet
<1>2. \A t \in Ground, a \in Ant : Painted(t, a) \in Ground
  BY DEF Painted, Ground, Ant
<1>3. \E f : Solves(f)
  <2> DEFINE step == [i \in S |-> [t \in Ground |-> Painted(t, ants[i])]]
  <2>1. step \in [S -> [Ground -> Ground]]
    BY <1>0, <1>2
  <2>2. PICK h \in [SUBSET S -> Ground] : Folds(h, n, tile, step)
    <3> HIDE DEF step, n
    <3> QED BY <1>0, <2>1, LeftRecursion
  <2>3. \A d \in SUBSET S : d # {} => Max(d) \in S /\ h[d \ {Max(d)}] \in Ground
    BY <1>0, TopPosition
  <2>4. \A d \in SUBSET S : h[d] = IF d = {} THEN tile ELSE Painted(h[d \ {Max(d)}], ants[Max(d)])
    BY <2>2, <2>3 DEF Folds
  <2>5. h = [d \in SUBSET S |-> IF d = {} THEN tile ELSE Painted(h[d \ {Max(d)}], ants[Max(d)])]
    BY <2>4
  <2> QED BY <2>5
<1>4. Solves(iter)
  BY <1>3
<1>5. \A d \in SUBSET S : iter[d] = IF d = {} THEN tile ELSE Painted(iter[d \ {Max(d)}], ants[Max(d)])
  BY <1>4
<1> HIDE DEF iter
<1> DEFINE P == {d \in SUBSET S : iter[d] \in Ground}
<1>6. {} \in P
  BY <1>5
<1>7. ASSUME NEW d \in SUBSET S, d # {}, d \ {Max(d)} \in P PROVE d \in P
  <2>1. ants[Max(d)] \in Ant
    BY <1>0, <1>7, TopPosition
  <2>2. Painted(iter[d \ {Max(d)}], ants[Max(d)]) \in Ground
    BY <1>2, <1>7, <2>1
  <2> QED BY <1>5, <1>7, <2>2
<1>8. SUBSET S \subseteq P
  <2>1. \A d \in SUBSET S : d # {} => \E x \in d : d \ {x} \in P => d \in P
    <3> HIDE DEF P
    <3> QED BY <1>0, <1>7, TopPosition
  <2>2. IsFiniteSet(S)
    BY <1>0, FS_Interval
  <2> HIDE DEF P, S
  <2> QED BY <1>6, <2>1, <2>2, EverySubset
<1> QED BY <1>1, <1>8

(* The ants that stand are finitely many.                                  *)
LEMMA AntsFinite ==
  ASSUME NEW A, NEW seq \in Seq(A)
  PROVE  IsFiniteSet(ToSet(seq)) /\ ToSet(seq) \subseteq A
<1> DEFINE S == 1 .. Len(seq)
           f == [i \in S |-> seq[i]]
<1>1. IsFiniteSet(S) /\ DOMAIN seq = S
  BY FS_Interval
<1>2. f \in Surjection(S, ToSet(seq))
  BY <1>1 DEF Surjection, ToSet
<1> QED BY <1>1, <1>2, FS_Surjection DEF ToSet

(* Deduplicated or reordered, ants are ants.                               *)
LEMMA DedupedAnts ==
  ASSUME ants \in Seq(Ant), NEW kept \in Deduped
  PROVE  kept \in Seq(Ant)
<1>1. PICK s \in SUBSET ToSet(ants) : kept \in SetToSeqs(s)
  BY DEF Deduped, SetToAllKPermutations
<1>2. s \subseteq Ant /\ Cardinality(s) \in Nat
  BY AntsFinite, FS_Subset, FS_CardinalityType
<1>3. kept \in [1 .. Cardinality(s) -> s]
  BY <1>1 DEF SetToSeqs
<1> QED BY <1>2, <1>3

LEMMA ShuffledAnts ==
  ASSUME NEW kept \in Seq(Ant), NEW s \in Shuffled(kept)
  PROVE  s \in Seq(Ant)
<1>1. PICK order \in Bijection(DOMAIN kept, DOMAIN kept) : s = [i \in DOMAIN kept |-> kept[order[i]]]
  BY DEF Shuffled
<1>2. \A i \in DOMAIN kept : order[i] \in DOMAIN kept
  BY <1>1 DEF Bijection, Injection, Surjection
<1>3. DOMAIN kept = 1 .. Len(kept) /\ Len(kept) \in Nat /\ \A i \in DOMAIN kept : kept[i] \in Ant
  OBVIOUS
<1>4. s \in [1 .. Len(kept) -> Ant]
  BY <1>1, <1>2, <1>3
<1> QED BY <1>3, <1>4

-----------------------------------------------------------------------------
(* Queens and their defenders. *)

(* Finitely many sizes have a largest.                                     *)
LEMMA LargestSize ==
  /\ Largest \in Sizes /\ \A s \in Sizes : s <= Largest
  /\ Sizes \subseteq Nat \ {0} /\ Largest \in Nat \ {0}
<1> DEFINE P == {s \in SUBSET Sizes : s # {} => \E m \in s : \A t \in s : t <= m}
<1>0. Sizes \subseteq Nat \ {0} /\ IsFiniteSet(Sizes) /\ Sizes # {}
  BY FieldAssumption
<1>1. {} \in P
  OBVIOUS
<1>2. ASSUME NEW s \in SUBSET Sizes, NEW x \in s, s \ {x} \in P PROVE s \in P
  <2>0. s \subseteq Nat /\ x \in Nat
    BY <1>0
  <2>1. CASE s \ {x} = {}
    <3>1. \A t \in s : t <= x
      BY <2>0, <2>1
    <3> QED BY <3>1
  <2>2. CASE s \ {x} # {}
    <3>1. PICK m \in s \ {x} : \A t \in s \ {x} : t <= m
      BY <1>2, <2>2
    <3>2. CASE x <= m
      <4>1. m \in s /\ \A t \in s : t <= m
        BY <2>0, <3>1, <3>2
      <4> QED BY <4>1
    <3>3. CASE ~(x <= m)
      <4>1. \A t \in s : t <= x
        BY <2>0, <3>1, <3>3
      <4> QED BY <4>1
    <3> QED BY <3>2, <3>3
  <2> QED BY <2>1, <2>2
<1>3. SUBSET Sizes \subseteq P
  <2>1. \A s \in SUBSET Sizes : s # {} => \E x \in s : s \ {x} \in P => s \in P
    <3> HIDE DEF P
    <3> QED BY <1>2
  <2> HIDE DEF P
  <2> QED BY <1>0, <1>1, <2>1, EverySubset
<1>4. \E m \in Sizes : \A t \in Sizes : t <= m
  BY <1>0, <1>3
<1> QED BY <1>0, <1>4 DEF Largest

(* A defender is posted on the map and outside its queen's body, if she    *)
(* keeps the margins.                                                      *)
LEMMA PostOutside ==
  ASSUME NEW q \in Queen, NEW e
  PROVE  /\ Post(q, e).at \in Spots /\ Post(q, e).dir \in Dirs
         /\ InBounds(q.at) => /\ Post(q, e).at \in Cells
                              /\ Post(q, e).at \notin Block(q.at, q.size)
<1> DEFINE x == q.at[1]
           y == q.at[2]
           s == q.size
           mx == x + s \div 2
           my == y + s \div 2
           dx == e[1] - mx
           dy == e[2] - my
<1>1. x \in Int /\ y \in Int /\ q.at = <<x, y>> /\ s \in Nat \ {0} /\ s <= Largest /\ Largest \in Nat
  <2>1. q.at \in Int \X Int /\ q.size \in Sizes
    BY DEF Queen
  <2>2. q.at[1] \in Int /\ q.at[2] \in Int /\ q.at = <<q.at[1], q.at[2]>>
    BY <2>1
  <2>3. s \in Nat \ {0} /\ s <= Largest /\ Largest \in Nat
    BY <2>1, LargestSize
  <2> QED BY <2>2, <2>3
<1>2. Centre(q) = <<mx, my>> /\ s \div 2 \in Nat /\ s \div 2 < s
  BY <1>1 DEF Centre
<1>3. \/ Post(q, e) = [at |-> <<x + s, my>>, dir |-> <<1, 0>>]
      \/ Post(q, e) = [at |-> <<x - 1, my>>, dir |-> <<-1, 0>>]
      \/ Post(q, e) = [at |-> <<mx, y + s>>, dir |-> <<0, 1>>]
      \/ Post(q, e) = [at |-> <<mx, y - 1>>, dir |-> <<0, -1>>]
  BY <1>2 DEF Post
<1>4. mx \in Int /\ my \in Int
  BY <1>1, <1>2
<1>5. Post(q, e).at \in {<<x + s, my>>, <<x - 1, my>>, <<mx, y + s>>, <<mx, y - 1>>}
  BY <1>3
<1>6. Post(q, e).at \in Spots /\ Post(q, e).dir \in Dirs
  <2>1. Post(q, e).dir \in Dirs
    BY <1>3 DEF Dirs
  <2> QED BY <1>1, <1>4, <1>5, <2>1 DEF Spots
<1>7. ASSUME InBounds(q.at)
      PROVE  /\ Post(q, e).at \in Cells
             /\ Post(q, e).at \notin Block(q.at, q.size)
  <2>1. /\ x >= 1 /\ y >= 1 /\ x + s < W /\ y + s < H
    <3>1. W \in Nat /\ H \in Nat /\ MinEdge \in Nat /\ MinEdge >= 1 /\ FarEdge \in Nat /\ FarEdge >= Largest
      BY FieldAssumption
    <3>2. x >= MinEdge /\ y >= MinEdge /\ x < W - FarEdge /\ y < H - FarEdge
      BY <1>7 DEF InBounds
    <3> HIDE DEF x, y, s
    <3> QED BY <1>1, <3>1, <3>2
  <2>2. W \in Nat /\ H \in Nat
    BY FieldAssumption
  <2>3. /\ x + s \in 0 .. W - 1 /\ x - 1 \in 0 .. W - 1 /\ mx \in 0 .. W - 1
        /\ y + s \in 0 .. H - 1 /\ y - 1 \in 0 .. H - 1 /\ my \in 0 .. H - 1
    <3> DEFINE h == s \div 2
    <3>1. h \in Nat /\ h < s
      BY <1>2
    <3> HIDE DEF x, y, s, h
    <3> QED BY <1>1, <2>1, <2>2, <3>1
  <2>4. Post(q, e).at \in Cells
    BY <1>5, <2>3 DEF Cells
  <2>5. ASSUME NEW i \in 0 .. s - 1, NEW j \in 0 .. s - 1
        PROVE  Post(q, e).at # <<x + i, y + j>>
    <3>1. x + i # x + s /\ x + i # x - 1 /\ y + j # y + s /\ y + j # y - 1
      <4> HIDE DEF x, y, s
      <4> QED BY <1>1
    <3> QED BY <1>5, <3>1
  <2>6. Post(q, e).at \notin Block(q.at, q.size)
    BY <2>5 DEF Block
  <2> QED BY <2>4, <2>6
<1> QED BY <1>6, <1>7

(* An ant outside the body of its owner's queen, unless she was exiled.    *)
Posted(a) == a.owner \in exiled \/ a.at \notin Body(a.owner)

MarginsKept == \A u \in Players : Live(u) /\ u \notin exiled => InBounds(queens[u].at)

(* The army and the defenders while players take their turns of phase 8b.  *)
Garrisons ==
  {so \in [ants : Seq(Ant), guards : [Players -> Nat]] :
     Len(so.ants) >= Len(ants) /\ \A i \in Len(ants) + 1 .. Len(so.ants) : Posted(so.ants[i])}

LEMMA OneGarrison ==
  ASSUME ants \in Seq(Ant), queens \in [Players -> {NoQueen} \cup Queen], MarginsKept,
         NEW so \in Garrisons, NEW u \in Players
  PROVE  Guarded(so, u) \in Garrisons
<1> DEFINE m == Centre(queens[u])
           far(i) == Larger(Abs(so.ants[i].at[1] - m[1]), Abs(so.ants[i].at[2] - m[2]))
           near == {i \in DOMAIN so.ants : so.ants[i].owner # u /\ far(i) <= GuardReach}
           first == CHOOSE i \in near : \A j \in near : far(i) < far(j) \/ (far(i) = far(j) /\ i <= j)
           post == Post(queens[u], so.ants[first].at)
           new == [owner |-> u, at |-> Clamped(post.at), dir |-> post.dir, brute |-> FALSE]
           next == [guards |-> [so.guards EXCEPT ![u] = @ - 1], ants |-> Append(so.ants, new)]
<1>1. Guarded(so, u) = so \/ (so.guards[u] # 0 /\ Live(u) /\ Guarded(so, u) = next)
  BY DEF Guarded
<1>2. CASE Guarded(so, u) = so
  BY <1>2
<1>3. CASE so.guards[u] # 0 /\ Live(u) /\ Guarded(so, u) = next
  <2>1. queens[u] \in Queen
    BY <1>3 DEF Live
  <2>2. post.at \in Spots /\ post.dir \in Dirs /\ Clamped(post.at) \in Cells
    <3> HIDE DEF first
    <3> QED BY <2>1, PostOutside, ClampedOnMap
  <2>3. new \in Ant
    <3> HIDE DEF post
    <3> QED BY <2>2 DEF Ant
  <2>4. Posted(new)
    <3> SUFFICES ASSUME u \notin exiled PROVE Clamped(post.at) \notin Body(u)
      BY DEF Posted
    <3>1. InBounds(queens[u].at)
      BY <1>3 DEF MarginsKept
    <3>2. post.at \in Cells /\ post.at \notin Block(queens[u].at, queens[u].size)
      <4> HIDE DEF first
      <4> QED BY <2>1, <3>1, PostOutside
    <3>3. Clamped(post.at) = post.at
      BY <2>2, <3>2, ClampedOnMap
    <3>4. Body(u) = Block(queens[u].at, queens[u].size)
      BY <1>3 DEF Body
    <3> QED BY <3>2, <3>3, <3>4
  <2> HIDE DEF new
  <2>5. so.ants \in Seq(Ant) /\ so.guards \in [Players -> Nat] /\ Len(so.ants) >= Len(ants)
    BY DEF Garrisons
  <2>6. next.ants \in Seq(Ant) /\ next.guards \in [Players -> Nat]
    BY <1>3, <2>3, <2>5
  <2>7. Len(next.ants) = Len(so.ants) + 1
    BY <2>5
  <2>8. ASSUME NEW i \in Len(ants) + 1 .. Len(so.ants) + 1
        PROVE  Posted(next.ants[i])
    <3>1. CASE i <= Len(so.ants)
      <4>1. next.ants[i] = so.ants[i] /\ i \in Len(ants) + 1 .. Len(so.ants)
        BY <2>5, <3>1
      <4> QED BY <4>1 DEF Garrisons
    <3>2. CASE i = Len(so.ants) + 1
      <4>1. next.ants[i] = new
        BY <2>5, <3>2
      <4> QED
        <5> HIDE DEF next
        <5> QED BY <2>4, <4>1
    <3>3. i <= Len(so.ants) \/ i = Len(so.ants) + 1
      <4>1. Len(so.ants) \in Nat /\ Len(ants) \in Nat
        BY <2>5
      <4> QED BY <4>1
    <3> QED
      <4> HIDE DEF next
      <4> QED BY <3>1, <3>2, <3>3
  <2>9. next \in [ants : Seq(Ant), guards : [Players -> Nat]] /\ Len(next.ants) >= Len(ants)
    BY <2>5, <2>6, <2>7
  <2>10. next \in Garrisons
    <3> HIDE DEF next
    <3> QED BY <2>5, <2>7, <2>8, <2>9 DEF Garrisons
  <2> QED BY <1>3, <2>10
<1> QED BY <1>1, <1>2, <1>3

LEMMA Listed ==
  ASSUME NEW X, NEW n \in Nat, NEW f \in [1 .. n -> X]
  PROVE  f \in Seq(X)
OBVIOUS

LEMMA Garrisoned ==
  ASSUME ants \in Seq(Ant), queens \in [Players -> {NoQueen} \cup Queen], MarginsKept,
         guards \in [Players -> Nat], NEW turns \in SetToSeqs(Players)
  PROVE  FoldLeft(Guarded, [ants |-> ants, guards |-> guards], turns) \in Garrisons
<1> DEFINE n == Len(turns)
           S == 1 .. n
           so0 == [ants |-> ants, guards |-> guards]
           Solves(f) == f = [d \in SUBSET S |-> IF d = {} THEN so0 ELSE Guarded(f[d \ {Max(d)}], turns[Max(d)])]
           iter == CHOOSE f : Solves(f)
<1>0. DOMAIN turns = S /\ n \in Nat /\ \A i \in S : turns[i] \in Players
  <2>1. Cardinality(Players) \in Nat /\ turns \in [1 .. Cardinality(Players) -> Players]
    BY FieldAssumption, FS_CardinalityType DEF SetToSeqs
  <2>2. turns \in Seq(Players)
    BY <2>1, Listed
  <2> QED BY <2>2
<1>1. FoldLeft(Guarded, so0, turns) = iter[S]
  BY <1>0 DEF FoldLeft, MapThenFoldSet
<1>2. \A so \in Garrisons, u \in Players : Guarded(so, u) \in Garrisons
  BY OneGarrison
<1>3. so0 \in Garrisons
  <2>1. Len(ants) \in Nat /\ so0.ants = ants
    OBVIOUS
  <2>2. Len(ants) + 1 .. Len(so0.ants) = {}
    BY <2>1
  <2> QED BY <2>1, <2>2 DEF Garrisons
<1> HIDE DEF so0
<1>4. \E f : Solves(f)
  <2> DEFINE step == [i \in S |-> [so \in Garrisons |-> Guarded(so, turns[i])]]
  <2>1. step \in [S -> [Garrisons -> Garrisons]]
    BY <1>0, <1>2
  <2>2. PICK h \in [SUBSET S -> Garrisons] : Folds(h, n, so0, step)
    <3> HIDE DEF step, n
    <3> QED BY <1>0, <1>3, <2>1, LeftRecursion
  <2>3. \A d \in SUBSET S : d # {} => Max(d) \in S /\ h[d \ {Max(d)}] \in Garrisons
    BY <1>0, TopPosition
  <2>4. \A d \in SUBSET S : h[d] = IF d = {} THEN so0 ELSE Guarded(h[d \ {Max(d)}], turns[Max(d)])
    BY <2>2, <2>3 DEF Folds
  <2>5. h = [d \in SUBSET S |-> IF d = {} THEN so0 ELSE Guarded(h[d \ {Max(d)}], turns[Max(d)])]
    BY <2>4
  <2> QED BY <2>5
<1>5. Solves(iter)
  BY <1>4
<1>6. \A d \in SUBSET S : iter[d] = IF d = {} THEN so0 ELSE Guarded(iter[d \ {Max(d)}], turns[Max(d)])
  BY <1>5
<1> HIDE DEF iter
<1> DEFINE P == {d \in SUBSET S : iter[d] \in Garrisons}
<1>7. {} \in P
  BY <1>3, <1>6
<1>8. ASSUME NEW d \in SUBSET S, d # {}, d \ {Max(d)} \in P PROVE d \in P
  <2>1. turns[Max(d)] \in Players
    BY <1>0, <1>8, TopPosition
  <2>2. Guarded(iter[d \ {Max(d)}], turns[Max(d)]) \in Garrisons
    BY <1>2, <1>8, <2>1
  <2> QED BY <1>6, <1>8, <2>2
<1>9. SUBSET S \subseteq P
  <2>1. \A d \in SUBSET S : d # {} => \E x \in d : d \ {x} \in P => d \in P
    <3> HIDE DEF P
    <3> QED BY <1>0, <1>8, TopPosition
  <2>2. IsFiniteSet(S)
    BY <1>0, FS_Interval
  <2> HIDE DEF P, S
  <2> QED BY <1>7, <2>1, <2>2, EverySubset
<1> QED BY <1>1, <1>9 DEF so0

-----------------------------------------------------------------------------
(* The inductive invariant: the queen map is exact unless it is known to   *)
(* be dirty, and it is not within a tick; the pairs are the keys ants      *)
(* stand on; queens keep the margins unless the admin moved them.          *)

QueenKeys == {Key(c) : c \in UNION {Body(u) : u \in Players}}

MapKnown == (~mapDirty => queenMap = QueenKeys) /\ (phase # "idle" => ~mapDirty)

PairsFollow == phase = "clash" => pairs = [i \in DOMAIN ants |-> Key(ants[i].at)]

IInv == TypeOK /\ MapKnown /\ PairsFollow /\ MarginsKept

(* A cell of a body has a whole number for a key.                          *)
LEMMA QueenKeysInt ==
  ASSUME queens \in [Players -> {NoQueen} \cup Queen]
  PROVE  QueenKeys \subseteq Int
<1>1. ASSUME NEW u \in Players, NEW c \in Body(u) PROVE Key(c) \in Int
  <2>1. queens[u] \in Queen /\ c \in Block(queens[u].at, queens[u].size)
    BY DEF Body, Live
  <2>2. queens[u].at[1] \in Int /\ queens[u].at[2] \in Int
    BY <2>1 DEF Queen
  <2>3. PICK i, j \in 0 .. queens[u].size - 1 : c = <<queens[u].at[1] + i, queens[u].at[2] + j>>
    BY <2>1 DEF Block
  <2>4. c[1] \in Int /\ c[2] \in Int /\ W \in Int
    BY <2>2, <2>3, FieldAssumption
  <2> QED BY <2>4 DEF Key
<1> QED BY <1>1 DEF QueenKeys

(* A restored world.                                                       *)
LEMMA InvInit == Init => IInv
<1> SUFFICES ASSUME Init PROVE IInv
  OBVIOUS
<1> USE DEF Init
<1>1. queens \in [Players -> {NoQueen} \cup Queen]
  BY FieldAssumption DEF Queen
<1>2. tile \in [Cells -> Players \cup {0}]
  OBVIOUS
<1>3. TypeOK
  BY <1>1, <1>2, FieldAssumption DEF TypeOK
<1> QED BY <1>3 DEF IInv, MapKnown, PairsFollow, MarginsKept

(* Handlers that put down, move or resize a queen. *)
LEMMA InvQueens ==
  ASSUME IInv, NEW u \in Players, NEW c \in Int \X Int, NEW size \in Sizes,
         PlaceQueen(u, c) \/ Relocate(u, c) \/ MoveQueen(u, c) \/ Resize(u, size)
  PROVE  IInv'
<1> USE DEF IInv, Handler
<1>0. TypeOK /\ MarginsKept /\ Least \in Sizes /\ phase' = "idle" /\ mapDirty' = TRUE
  <2>1. Sizes \subseteq Nat /\ Sizes # {}
    BY FieldAssumption
  <2>2. \E n \in Sizes : \A m \in Sizes : n <= m
    BY <2>1, LeastNat
  <2>3. Least \in Sizes
    BY <2>2 DEF Least, Lowest
  <2> QED BY <2>3 DEF PlaceQueen, Relocate, MoveQueen, Resize, Shift, TypeOK
<1>1. ants' = ants /\ guards' = guards /\ queenMap' = queenMap /\ clock' = clock /\ pairs' = pairs
  BY DEF PlaceQueen, Relocate, MoveQueen, Resize, Shift
<1>2. ops' \in 0 .. MaxOps
  <2>1. ops \in 0 .. MaxOps /\ ops < MaxOps /\ ops' = ops + 1 /\ MaxOps \in Nat
    BY FieldAssumption DEF TypeOK, PlaceQueen, Relocate, MoveQueen, Resize
  <2> QED BY <2>1
<1>3. tile' \in [Cells -> Players \cup {0}]
  BY DEF PlaceQueen, Relocate, MoveQueen, Resize, Shift, Bodied, Unbodied, TypeOK
<1>4. queens' \in [Players -> {NoQueen} \cup Queen]
  <2>1. CASE PlaceQueen(u, c)
    BY <1>0, <2>1 DEF PlaceQueen, TypeOK, Queen
  <2>2. CASE Relocate(u, c) \/ MoveQueen(u, c)
    <3>1. queens[u] \in Queen /\ queens' = [queens EXCEPT ![u].at = c]
      BY <2>2 DEF Relocate, MoveQueen, Shift, TypeOK, Live
    <3>2. [queens[u] EXCEPT !.at = c] \in Queen
      BY <3>1 DEF Queen
    <3> QED BY <3>1, <3>2 DEF TypeOK
  <2>3. CASE Resize(u, size)
    <3>1. queens[u] \in Queen /\ queens' = [queens EXCEPT ![u].size = size]
      BY <2>3 DEF Resize, TypeOK, Live
    <3>2. [queens[u] EXCEPT !.size = size] \in Queen
      BY <3>1 DEF Queen
    <3> QED BY <3>1, <3>2 DEF TypeOK
  <2> QED BY <2>1, <2>2, <2>3
<1>5. exiled' \subseteq Players
  BY DEF PlaceQueen, Relocate, MoveQueen, Resize, TypeOK
<1>6. TypeOK'
  BY <1>0, <1>1, <1>2, <1>3, <1>4, <1>5 DEF TypeOK
<1>7. MarginsKept'
  <2> SUFFICES ASSUME NEW v \in Players, Live(v)', v \notin exiled' PROVE InBounds(queens'[v].at)
    BY DEF MarginsKept
  <2>1. CASE v # u
    <3>1. queens'[v] = queens[v]
      BY <2>1 DEF PlaceQueen, Relocate, MoveQueen, Resize, Shift, TypeOK
    <3>2. v \notin exiled
      BY <2>1 DEF PlaceQueen, Relocate, MoveQueen, Resize
    <3> QED BY <1>0, <3>1, <3>2 DEF MarginsKept, Live
  <2>2. CASE v = u
    <3>1. CASE PlaceQueen(u, c)
      BY <2>2, <3>1 DEF PlaceQueen, TypeOK
    <3>2. CASE Relocate(u, c)
      <4>1. queens[u] \in Queen /\ queens' = [queens EXCEPT ![u].at = c] /\ InBounds(c)
        BY <3>2 DEF Relocate, Shift, TypeOK, Live
      <4>2. queens'[u] = [queens[u] EXCEPT !.at = c]
        BY <4>1 DEF TypeOK
      <4>3. queens'[u].at = c
        BY <4>1, <4>2 DEF Queen
      <4> QED BY <2>2, <4>1, <4>3
    <3>3. CASE MoveQueen(u, c)
      BY <2>2, <3>3 DEF MoveQueen
    <3>4. CASE Resize(u, size)
      <4>1. queens[u] \in Queen /\ queens' = [queens EXCEPT ![u].size = size] /\ u \notin exiled
        BY <2>2, <3>4 DEF Resize, TypeOK, Live
      <4>2. queens'[u] = [queens[u] EXCEPT !.size = size]
        BY <4>1 DEF TypeOK
      <4>3. queens'[u].at = queens[u].at
        BY <4>1, <4>2 DEF Queen
      <4>4. Live(u)
        BY <3>4 DEF Resize
      <4> QED BY <2>2, <4>1, <4>3, <4>4 DEF MarginsKept
    <3> QED BY <3>1, <3>2, <3>3, <3>4
  <2> QED BY <2>1, <2>2
<1> QED BY <1>0, <1>6, <1>7 DEF MapKnown, PairsFollow

(* A queen falls, or several do: what is left is as it was. *)
LEMMA FellWell ==
  ASSUME TypeOK, MarginsKept, NEW L \in SUBSET Players, Fell(L)
  PROVE  /\ tile' \in [Cells -> Players \cup {0}] /\ ants' \in Seq(Ant)
         /\ queens' \in [Players -> {NoQueen} \cup Queen] /\ exiled' \subseteq Players
         /\ mapDirty' \in BOOLEAN /\ (~mapDirty' => ~mapDirty /\ queens' = queens)
         /\ MarginsKept'
<1> USE DEF Fell, TypeOK
<1>1. tile' \in [Cells -> Players \cup {0}]
  OBVIOUS
<1>2. ants' \in Seq(Ant)
  BY KeptElements
<1>3. queens' \in [Players -> {NoQueen} \cup Queen] /\ exiled' \subseteq Players
  OBVIOUS
<1>4. mapDirty' \in BOOLEAN /\ (~mapDirty' => ~mapDirty /\ queens' = queens)
  <2>1. mapDirty' = (mapDirty \/ L # {})
    OBVIOUS
  <2>2. L = {} => queens' = queens
    OBVIOUS
  <2> QED BY <2>1, <2>2
<1>5. MarginsKept'
  <2> SUFFICES ASSUME NEW v \in Players, Live(v)', v \notin exiled' PROVE InBounds(queens'[v].at)
    BY DEF MarginsKept
  <2>1. v \notin L /\ queens'[v] = queens[v]
    BY DEF Live
  <2> QED BY <2>1 DEF MarginsKept, Live
<1> QED BY <1>1, <1>2, <1>3, <1>4, <1>5

LEMMA InvFall ==
  ASSUME IInv, NEW u \in Players, Fall(u)
  PROVE  IInv'
<1> USE DEF IInv
<1>1. Fell({u}) /\ TypeOK /\ MarginsKept /\ phase' = "idle"
  BY DEF Fall, Handler
<1>2. /\ tile' \in [Cells -> Players \cup {0}] /\ ants' \in Seq(Ant) /\ mapDirty' \in BOOLEAN
      /\ queens' \in [Players -> {NoQueen} \cup Queen] /\ exiled' \subseteq Players /\ MarginsKept'
  BY <1>1, FellWell
<1>3. mapDirty'
  BY <1>1 DEF Fell
<1>4. ops' \in 0 .. MaxOps
  BY <1>1, FieldAssumption DEF Fall, Handler, TypeOK
<1>5. TypeOK'
  BY <1>1, <1>2, <1>4 DEF TypeOK, Fall, Handler
<1> QED BY <1>1, <1>2, <1>3, <1>5 DEF MapKnown, PairsFollow

(* A refreshed map is exact. *)
LEMMA Refreshed ==
  ASSUME TypeOK, MapKnown, Refresh
  PROVE  queenMap' = QueenKeys /\ queenMap' \subseteq Int /\ mapDirty' = FALSE /\ FreshMap = QueenKeys
<1>1. FreshMap = QueenKeys
  BY DEF FreshMap, MapKnown, QueenKeys
<1>2. QueenKeys \subseteq Int
  BY QueenKeysInt DEF TypeOK
<1> QED BY <1>1, <1>2 DEF Refresh

(* One more handled message, one more tick. *)
LEMMA Counted ==
  ASSUME TypeOK
  PROVE  /\ ops < MaxOps /\ ops' = ops + 1 => ops' \in 0 .. MaxOps
         /\ clock < MaxTicks /\ clock' = clock + 1 => clock' \in 0 .. MaxTicks
<1>1. ops \in 0 .. MaxOps /\ clock \in 0 .. MaxTicks /\ MaxOps \in Nat /\ MaxTicks \in Nat
  BY FieldAssumption DEF TypeOK
<1> QED BY <1>1

(* The keys of the bodies change with the queens alone. *)
LEMMA SameKeys ==
  ASSUME queens' = queens
  PROVE  QueenKeys' = QueenKeys
BY DEF QueenKeys, Body, Live, Block, Key

LEMMA InvDeploy ==
  ASSUME IInv, NEW u \in Players, NEW c \in Cells, NEW d \in Dirs, NEW brute \in BOOLEAN,
         Deploy(u, c, d, brute)
  PROVE  IInv'
<1> USE DEF IInv, Handler
<1> DEFINE a == [owner |-> u, at |-> c, dir |-> d, brute |-> brute]
<1>1. a \in Ant
  BY DEF Ant
<1>2. /\ TypeOK /\ MapKnown /\ Refresh /\ phase' = "idle"
      /\ ants' = ants \/ ants' = Append(ants, a)
      /\ tile' = tile /\ queens' = queens /\ guards' = guards /\ clock' = clock /\ exiled' = exiled
      /\ pairs' = pairs /\ ops < MaxOps /\ ops' = ops + 1
  BY DEF Deploy
<1>3. queenMap' = QueenKeys /\ queenMap' \subseteq Int /\ mapDirty' = FALSE
  BY <1>2, Refreshed
<1>4. ants' \in Seq(Ant)
  <2>1. ants \in Seq(Ant)
    BY <1>2 DEF TypeOK
  <2> HIDE DEF a
  <2> QED BY <1>1, <1>2, <2>1
<1>5. TypeOK'
  BY <1>2, <1>3, <1>4, Counted DEF TypeOK
<1>6. MapKnown'
  BY <1>2, <1>3, SameKeys DEF MapKnown
<1>7. MarginsKept'
  BY <1>2 DEF MarginsKept, Live
<1> QED BY <1>2, <1>5, <1>6, <1>7 DEF PairsFollow

LEMMA InvBuyDefender ==
  ASSUME IInv, NEW u \in Players, BuyDefender(u)
  PROVE  IInv'
<1> USE DEF IInv, Handler, BuyDefender
<1>1. TypeOK'
  <2>1. ops' \in 0 .. MaxOps
    BY Counted
  <2> QED BY <2>1 DEF TypeOK
<1>2. MapKnown'
  BY SameKeys DEF MapKnown
<1>3. MarginsKept'
  BY DEF MarginsKept, Live
<1> QED BY <1>1, <1>2, <1>3 DEF PairsFollow

LEMMA InvSeasonWipe ==
  ASSUME IInv, SeasonWipe
  PROVE  IInv'
<1> USE DEF IInv, Handler, SeasonWipe
<1>1. TypeOK'
  <2>1. ops' \in 0 .. MaxOps /\ 0 \in 0 .. MaxTicks
    BY Counted, FieldAssumption
  <2>2. ants' = <<>> /\ ants' \in Seq(Ant) /\ queenMap' \subseteq Int /\ exiled' \subseteq Players
    OBVIOUS
  <2>3. tile' \in [Cells -> Players \cup {0}] /\ queens' \in [Players -> {NoQueen} \cup Queen]
    OBVIOUS
  <2>4. phase' = "idle" /\ guards' \in [Players -> Nat] /\ mapDirty' \in BOOLEAN /\ clock' = 0
    BY DEF TypeOK
  <2> HIDE DEF IInv, Handler, SeasonWipe
  <2> QED BY <2>1, <2>2, <2>3, <2>4 DEF TypeOK
<1>2. \A u \in Players : ~Live(u)'
  BY DEF Live
<1>3. MapKnown'
  <2>1. QueenKeys' = {}
    BY <1>2 DEF QueenKeys, Body
  <2> QED BY <2>1 DEF MapKnown
<1> QED BY <1>1, <1>2, <1>3 DEF PairsFollow, MarginsKept

LEMMA InvBegin ==
  ASSUME IInv, Begin
  PROVE  IInv'
<1> USE DEF IInv, InTick
<1>1. /\ TypeOK /\ MapKnown /\ Refresh /\ phase' = "walk" /\ ops' = ops
      /\ clock < MaxTicks /\ clock' = clock + 1
      /\ tile' = tile /\ queens' = queens /\ guards' = guards /\ pairs' = pairs /\ exiled' = exiled
  BY DEF Begin
<1>2. queenMap' = QueenKeys /\ queenMap' \subseteq Int /\ mapDirty' = FALSE
  BY <1>1, Refreshed
<1>3. ants' \in Seq(Ant)
  <2>1. ants \in Seq(Ant)
    BY <1>1 DEF TypeOK
  <2>2. PICK kept \in IF clock' % DedupEvery = 0 THEN Deduped ELSE {ants} :
               ants' \in IF clock' % SortEvery = 0 THEN Shuffled(kept) ELSE {kept}
    BY DEF Begin
  <2>3. kept \in Seq(Ant)
    <3>1. CASE kept = ants
      BY <2>1, <3>1
    <3>2. CASE kept \in Deduped
      BY <2>1, <3>2, DedupedAnts
    <3> QED BY <2>2, <3>1, <3>2
  <2>4. CASE ants' = kept
    BY <2>3, <2>4
  <2>5. CASE ants' \in Shuffled(kept)
    BY <2>3, <2>5, ShuffledAnts
  <2> QED BY <2>2, <2>4, <2>5
<1>4. TypeOK'
  <2>1. clock' \in 0 .. MaxTicks
    BY <1>1, Counted
  <2> QED BY <1>1, <1>2, <1>3, <2>1 DEF TypeOK
<1>5. MapKnown'
  BY <1>1, <1>2, SameKeys DEF MapKnown
<1>6. MarginsKept'
  BY <1>1 DEF MarginsKept, Live
<1> QED BY <1>1, <1>4, <1>5, <1>6 DEF PairsFollow

LEMMA InvWalk ==
  ASSUME IInv, Walk
  PROVE  IInv'
<1> USE DEF IInv, InTick
<1>1. /\ TypeOK /\ MapKnown /\ phase = "walk" /\ phase' = "clash" /\ ops' = ops
      /\ ants' = [i \in DOMAIN ants |-> [ants[i] EXCEPT !.at = Plans[i].at, !.dir = Plans[i].dir]]
      /\ pairs' = [i \in DOMAIN ants |-> Key(Plans[i].at)]
      /\ tile' = FoldLeft(Painted, tile, ants)
      /\ queens' = queens /\ guards' = guards /\ queenMap' = queenMap /\ mapDirty' = mapDirty
      /\ clock' = clock /\ exiled' = exiled
  BY DEF Walk, PairsOf
<1>2. ants \in Seq(Ant) /\ tile' \in [Cells -> Players \cup {0}]
  BY <1>1, GroundPainted DEF TypeOK, Ground
<1>3. ASSUME NEW i \in DOMAIN ants
      PROVE  ants'[i] \in Ant /\ ants'[i].at = Plans[i].at
  <2>1. ants[i] \in Ant /\ Plans[i].at \in Cells /\ Plans[i].dir \in Dirs
    BY <1>2, PlansWell DEF GoodPlan
  <2>2. ants'[i] = [ants[i] EXCEPT !.at = Plans[i].at, !.dir = Plans[i].dir]
    BY <1>1
  <2> QED BY <2>1, <2>2 DEF Ant
<1>4. DOMAIN ants' = DOMAIN ants /\ ants' \in Seq(Ant)
  <2>1. DOMAIN ants = 1 .. Len(ants) /\ Len(ants) \in Nat
    BY <1>2
  <2>2. ants' \in [1 .. Len(ants) -> Ant]
    BY <1>1, <1>3, <2>1
  <2> QED BY <2>1, <2>2
<1>5. TypeOK'
  BY <1>1, <1>2, <1>4 DEF TypeOK
<1>6. PairsFollow'
  <2>1. \A i \in DOMAIN ants : pairs'[i] = Key(ants'[i].at)
    BY <1>1, <1>3
  <2> QED BY <1>1, <1>4, <2>1 DEF PairsFollow, Key
<1>7. MapKnown'
  BY <1>1, SameKeys DEF MapKnown
<1>8. MarginsKept'
  BY <1>1 DEF MarginsKept, Live
<1> QED BY <1>5, <1>6, <1>7, <1>8

LEMMA InvClash ==
  ASSUME IInv, Clash
  PROVE  IInv'
<1> USE DEF IInv, InTick
<1>1. PICK dom \in [Contested -> Players \cup {0}] :
        ants' = [i \in DOMAIN ants |->
                   IF pairs[i] \in Contested /\ dom[pairs[i]] # 0
                   THEN [ants[i] EXCEPT !.owner = dom[pairs[i]]] ELSE ants[i]]
  BY DEF Clash
<1>2. ants' \in Seq(Ant)
  <2>1. ants \in Seq(Ant) /\ DOMAIN ants = 1 .. Len(ants) /\ Len(ants) \in Nat
    BY DEF TypeOK
  <2>2. ASSUME NEW i \in DOMAIN ants PROVE ants'[i] \in Ant
    <3>1. ants[i] \in Ant
      BY <2>1
    <3>2. ASSUME NEW v \in Players PROVE [ants[i] EXCEPT !.owner = v] \in Ant
      BY <3>1 DEF Ant
    <3> HIDE DEF IInv
    <3> QED BY <1>1, <3>1, <3>2
  <2>3. ants' \in [1 .. Len(ants) -> Ant]
    BY <1>1, <2>1, <2>2
  <2> QED BY <2>1, <2>3
<1>3. /\ phase = "clash" /\ phase' = "capture" /\ ops' = ops /\ tile' = tile /\ queens' = queens
      /\ guards' = guards /\ queenMap' = queenMap /\ mapDirty' = mapDirty /\ clock' = clock
      /\ exiled' = exiled
  BY DEF Clash
<1>4. TypeOK'
  BY <1>2, <1>3 DEF TypeOK
<1>5. MapKnown' /\ MarginsKept'
  BY <1>3, SameKeys DEF MapKnown, MarginsKept, Live
<1> QED BY <1>3, <1>4, <1>5 DEF PairsFollow

LEMMA InvCapture ==
  ASSUME IInv, Capture
  PROVE  IInv'
<1> USE DEF IInv, InTick
<1> DEFINE K == {a \in ToSet(ants) : a.brute \/ Holder(a.at) \in {0, a.owner}}
<1>1. ants' \in Seq(Ant)
  <2>1. ants' = Kept(ants, K) /\ ants \in Seq(Ant)
    BY DEF Capture, TypeOK
  <2> HIDE DEF K
  <2> QED BY <2>1, KeptElements
<1>2. /\ phase = "capture" /\ phase' = "guard" /\ ops' = ops /\ tile' = tile /\ queens' = queens
      /\ guards' = guards /\ queenMap' = queenMap /\ mapDirty' = mapDirty /\ clock' = clock
      /\ exiled' = exiled
  BY DEF Capture
<1>3. TypeOK'
  BY <1>1, <1>2 DEF TypeOK
<1>4. MapKnown' /\ MarginsKept'
  BY <1>2, SameKeys DEF MapKnown, MarginsKept, Live
<1> QED BY <1>2, <1>3, <1>4 DEF PairsFollow

LEMMA InvGuard ==
  ASSUME IInv, Guard
  PROVE  IInv'
<1> USE DEF IInv, InTick
<1>1. PICK turns \in SetToSeqs(Players) :
        LET end == IF clock % GuardEvery = 0
                   THEN FoldLeft(Guarded, [ants |-> ants, guards |-> guards], turns)
                   ELSE [ants |-> ants, guards |-> guards]
        IN  ants' = end.ants /\ guards' = end.guards
  BY DEF Guard
<1>2. ants' \in Seq(Ant) /\ guards' \in [Players -> Nat]
  <2>1. CASE clock % GuardEvery = 0
    <3>1. FoldLeft(Guarded, [ants |-> ants, guards |-> guards], turns) \in Garrisons
      BY Garrisoned DEF TypeOK
    <3> QED BY <1>1, <2>1, <3>1 DEF Garrisons
  <2>2. CASE clock % GuardEvery # 0
    BY <1>1, <2>2 DEF TypeOK
  <2> QED BY <2>1, <2>2
<1>3. /\ phase = "guard" /\ phase' = "collide" /\ ops' = ops /\ tile' = tile /\ queens' = queens
      /\ queenMap' = queenMap /\ mapDirty' = mapDirty /\ clock' = clock /\ exiled' = exiled
  BY DEF Guard
<1>4. TypeOK'
  BY <1>2, <1>3 DEF TypeOK
<1>5. MapKnown' /\ MarginsKept'
  BY <1>3, SameKeys DEF MapKnown, MarginsKept, Live
<1> QED BY <1>3, <1>4, <1>5 DEF PairsFollow

LEMMA InvCollide ==
  ASSUME IInv, Collide
  PROVE  IInv'
<1> USE DEF IInv, InTick
<1>1. PICK L \in SUBSET Players : Fell(L)
  BY DEF Collide
<1>2. phase' = "idle" /\ ops' = ops /\ guards' = guards /\ queenMap' = queenMap /\ clock' = clock
  BY DEF Collide
<1>3. /\ tile' \in [Cells -> Players \cup {0}] /\ ants' \in Seq(Ant)
      /\ queens' \in [Players -> {NoQueen} \cup Queen] /\ exiled' \subseteq Players
      /\ mapDirty' \in BOOLEAN /\ (~mapDirty' => ~mapDirty /\ queens' = queens)
      /\ MarginsKept'
  BY <1>1, FellWell
<1>4. TypeOK'
  BY <1>2, <1>3 DEF TypeOK
<1>5. MapKnown'
  BY <1>2, <1>3, SameKeys DEF MapKnown
<1> QED BY <1>2, <1>3, <1>4, <1>5 DEF PairsFollow

LEMMA InvNext ==
  ASSUME IInv, [Next]_vars
  PROVE  IInv'
<1>0. /\ QueenSpots \subseteq Int \X Int /\ MoveSpots \subseteq Int \X Int
      /\ AntSpots \subseteq Cells /\ Headings \subseteq Dirs /\ \E s \in Sizes : TRUE
  BY FieldAssumption
<1>1. ASSUME NEW u \in Players, NEW c \in QueenSpots, PlaceQueen(u, c) \/ Relocate(u, c) PROVE IInv'
  <2>1. \E s \in Sizes : TRUE
    BY <1>0
  <2> QED BY <1>0, <1>1, <2>1, InvQueens
<1>2. ASSUME NEW u \in Players, NEW c \in MoveSpots, MoveQueen(u, c) PROVE IInv'
  BY <1>0, <1>2, InvQueens
<1>3. ASSUME NEW u \in Players, NEW size \in Sizes, Resize(u, size) PROVE IInv'
  <2>1. <<0, 0>> \in Int \X Int
    OBVIOUS
  <2> QED BY <1>3, <2>1, InvQueens
<1>4. ASSUME NEW u \in Players, Fall(u) \/ BuyDefender(u) PROVE IInv'
  BY <1>4, InvFall, InvBuyDefender
<1>5. ASSUME NEW u \in Players, NEW c \in AntSpots, NEW d \in Headings, NEW brute \in BOOLEAN,
             Deploy(u, c, d, brute)
      PROVE  IInv'
  BY <1>0, <1>5, InvDeploy
<1>6. ASSUME UNCHANGED vars PROVE IInv'
  <2>1. TypeOK' /\ PairsFollow' /\ MarginsKept'
    BY <1>6 DEF vars, IInv, TypeOK, PairsFollow, MarginsKept, Live
  <2>2. MapKnown'
    BY <1>6, SameKeys DEF vars, IInv, MapKnown
  <2> QED BY <2>1, <2>2 DEF IInv
<1> QED BY <1>1, <1>2, <1>3, <1>4, <1>5, <1>6, InvSeasonWipe, InvBegin, InvWalk, InvClash,
           InvCapture, InvGuard, InvCollide DEF Next

(* The invariant holds of every behaviour, and with it the types.          *)
THEOREM Invariance == Spec => []IInv
<1> QED BY InvInit, InvNext, PTL DEF Spec

THEOREM TypesHold == Spec => []TypeOK
<1>1. IInv => TypeOK
  BY DEF IInv
<1> QED BY <1>1, Invariance, PTL

-----------------------------------------------------------------------------
(* Walking ends off bodies. *)

THEOREM StepsAside == Spec => StepsOffBodies
<1>1. ASSUME IInv, [Next]_vars
      PROVE  [phase = "walk" => \A i \in DOMAIN ants :
                ants'[i].at # ants[i].at => \A u \in Players : ants'[i].at \notin Body(u)]_vars
  <2> SUFFICES ASSUME phase = "walk", Next, NEW i \in DOMAIN ants, ants'[i].at # ants[i].at,
                      NEW u \in Players, ants'[i].at \in Body(u)
               PROVE  FALSE
    BY <1>1
  <2>1. Walk
    BY DEF Next, Handler, InTick, PlaceQueen, Relocate, MoveQueen, Resize, Fall, BuyDefender, Deploy,
           SeasonWipe, Begin, Clash, Capture, Guard, Collide
  <2>2. ants \in Seq(Ant) /\ queenMap = QueenKeys
    BY <1>1 DEF IInv, TypeOK, MapKnown
  <2>3. GoodPlan(ants[i], Plans[i])
    BY <2>2, PlansWell
  <2>4. ants'[i].at = Plans[i].at
    <3>1. ants'[i] = [ants[i] EXCEPT !.at = Plans[i].at, !.dir = Plans[i].dir]
      BY <2>1 DEF Walk
    <3>2. ants[i] \in Ant
      BY <2>2
    <3> QED BY <3>1, <3>2 DEF Ant
  <2>5. Key(Plans[i].at) \notin QueenKeys
    BY <2>2, <2>3, <2>4 DEF GoodPlan
  <2> QED BY <2>4, <2>5 DEF QueenKeys
<1> QED BY <1>1, Invariance, PTL DEF Spec, StepsOffBodies

-----------------------------------------------------------------------------
(* Who clashes has met. *)

THEOREM ConvertsMet == Spec => ConvertedWhereMet
<1>1. ASSUME IInv, [Next]_vars
      PROVE  [phase = "clash" => \A i \in DOMAIN ants :
                ants'[i].owner # ants[i].owner =>
                  \E j \in DOMAIN ants : ants[j].at = ants[i].at /\ ants[j].owner # ants[i].owner]_vars
  <2> SUFFICES ASSUME phase = "clash", Next, NEW i \in DOMAIN ants, ants'[i].owner # ants[i].owner
               PROVE  \E j \in DOMAIN ants : ants[j].at = ants[i].at /\ ants[j].owner # ants[i].owner
    BY <1>1
  <2>1. Clash
    BY DEF Next, Handler, InTick, PlaceQueen, Relocate, MoveQueen, Resize, Fall, BuyDefender, Deploy,
           SeasonWipe, Begin, Walk, Capture, Guard, Collide
  <2>2. ants \in Seq(Ant) /\ pairs = [k \in DOMAIN ants |-> Key(ants[k].at)]
    BY <1>1 DEF IInv, TypeOK, PairsFollow
  <2>3. pairs[i] \in Contested
    BY <2>1 DEF Clash
  <2>4. PICK j, k \in Met(pairs[i]) : ants[j].owner # ants[k].owner
    BY <2>3 DEF Contested
  <2>5. \A m \in Met(pairs[i]) : m \in DOMAIN ants /\ ants[m].at = ants[i].at
    <3> SUFFICES ASSUME NEW m \in Met(pairs[i]) PROVE m \in DOMAIN ants /\ ants[m].at = ants[i].at
      OBVIOUS
    <3>1. m \in DOMAIN ants /\ Key(ants[m].at) = Key(ants[i].at)
      BY <2>2 DEF Met
    <3>2. ants[m] \in Ant /\ ants[i] \in Ant
      BY <2>2, <3>1
    <3>3. ants[m].at \in Cells /\ ants[i].at \in Cells
      BY <3>2 DEF Ant
    <3> QED BY <3>1, <3>3, KeysDiffer
  <2> QED BY <2>4, <2>5
<1> QED BY <1>1, Invariance, PTL DEF Spec, ConvertedWhereMet

-----------------------------------------------------------------------------
(* Who is caught leaves. *)

(* The last of the brutes over a cell holds it.                            *)
LEMMA HolderOver ==
  ASSUME ants \in Seq(Ant), NEW c \in Cells
  PROVE  IF Over(c) = {} THEN Holder(c) = 0 ELSE Holder(c) \in Over(c) /\ Holder(c) \in Players
<1> DEFINE over == {i \in DOMAIN ants : Covers(ants[i], c)}
           last == CHOOSE i \in over : \A j \in over : j <= i
<1>1. DOMAIN ants = 1 .. Len(ants) /\ Len(ants) \in Nat /\ \A i \in DOMAIN ants : ants[i] \in Ant
  OBVIOUS
<1>2. \A b \in Ant : Covers(b, c) <=> b.brute /\ c \in Block(b.at, 2)
  BY DEF Covers, Footprint
<1>3. over \in SUBSET (1 .. Len(ants)) /\ (over = {} <=> Over(c) = {})
  BY <1>1, <1>2 DEF Over, ToSet
<1>4. CASE over = {}
  BY <1>3, <1>4 DEF Holder
<1>5. CASE over # {}
  <2>1. Max(over) \in over /\ \A j \in over : j <= Max(over)
    <3> HIDE DEF over
    <3> QED BY <1>1, <1>3, <1>5, TopPosition
  <2>2. last \in over
    <3> HIDE DEF over
    <3> QED BY <2>1
  <2>3. Holder(c) = ants[last].owner
    BY <1>5 DEF Holder
  <2>4. ants[last] \in Ant /\ ants[last].brute /\ c \in Block(ants[last].at, 2)
    <3> HIDE DEF last
    <3> QED BY <1>1, <1>2, <2>2
  <2>5. ants[last] \in ToSet(ants)
    <3> HIDE DEF last
    <3> QED BY <2>2 DEF ToSet
  <2> HIDE DEF last, over
  <2>6. ants[last].owner \in Over(c) /\ ants[last].owner \in Players
    BY <2>4, <2>5 DEF Over, Ant
  <2> QED BY <1>3, <1>5, <2>3, <2>6
<1> QED BY <1>4, <1>5

THEOREM CaughtAreTaken == Spec => CaughtLeave
<1>1. ASSUME IInv, [Next]_vars
      PROVE  [phase = "capture" =>
                /\ \A a \in ToSet(ants') : ~a.brute /\ Over(a.at) # {} => a.owner \in Over(a.at)
                /\ \A a \in ToSet(ants) \ ToSet(ants') : ~a.brute /\ Over(a.at) \ {a.owner} # {}]_vars
  <2> SUFFICES ASSUME phase = "capture", Next
               PROVE  /\ \A a \in ToSet(ants') : ~a.brute /\ Over(a.at) # {} => a.owner \in Over(a.at)
                      /\ \A a \in ToSet(ants) \ ToSet(ants') : ~a.brute /\ Over(a.at) \ {a.owner} # {}
    BY <1>1
  <2> DEFINE K == {a \in ToSet(ants) : a.brute \/ Holder(a.at) \in {0, a.owner}}
  <2>1. Capture
    BY DEF Next, Handler, InTick, PlaceQueen, Relocate, MoveQueen, Resize, Fall, BuyDefender, Deploy,
           SeasonWipe, Begin, Walk, Clash, Guard, Collide
  <2>2. ants' = Kept(ants, K) /\ ants \in Seq(Ant)
    BY <1>1, <2>1 DEF Capture, IInv, TypeOK
  <2>3. ToSet(ants') = ToSet(ants) \cap K
    <3> HIDE DEF K
    <3> QED BY <2>2, KeptElements
  <2>4. \A a \in ToSet(ants) : a.at \in Cells /\ a.owner \in Players /\ a.owner # 0 /\ a.brute \in BOOLEAN
    <3>1. ToSet(ants) \subseteq Ant
      BY <2>2, AntsFinite
    <3>2. \A a \in Ant : a.at \in Cells /\ a.owner \in Players /\ a.brute \in BOOLEAN
      BY DEF Ant
    <3> QED BY <3>1, <3>2, FieldAssumption
  <2>5. ASSUME NEW a \in ToSet(ants'), ~a.brute, Over(a.at) # {}
        PROVE  a.owner \in Over(a.at)
    <3>1. a \in ToSet(ants) /\ Holder(a.at) \in {0, a.owner}
      BY <2>3, <2>5
    <3>2. Holder(a.at) \in Over(a.at) /\ Holder(a.at) \in Players
      BY <2>2, <2>4, <2>5, <3>1, HolderOver
    <3> QED BY <3>1, <3>2, FieldAssumption
  <2>6. ASSUME NEW a \in ToSet(ants) \ ToSet(ants')
        PROVE  ~a.brute /\ Over(a.at) \ {a.owner} # {}
    <3>1. ~a.brute /\ Holder(a.at) # 0 /\ Holder(a.at) # a.owner
      BY <2>3
    <3>2. Holder(a.at) \in Over(a.at)
      BY <2>2, <2>4, <3>1, HolderOver
    <3> QED BY <3>1, <3>2
  <2> QED BY <2>5, <2>6
<1> QED BY <1>1, Invariance, PTL DEF Spec, CaughtLeave

-----------------------------------------------------------------------------
(* Defenders stand outside. *)

THEOREM GuardsStandOutside == Spec => GuardsOutside
<1>1. ASSUME IInv, [Next]_vars
      PROVE  [phase = "guard" => \A i \in DOMAIN ants' \ DOMAIN ants :
                ants'[i].owner \in exiled \/ ants'[i].at \notin Body(ants'[i].owner)]_vars
  <2> SUFFICES ASSUME phase = "guard", Next, NEW i \in DOMAIN ants' \ DOMAIN ants
               PROVE  ants'[i].owner \in exiled \/ ants'[i].at \notin Body(ants'[i].owner)
    BY <1>1
  <2>1. Guard
    BY DEF Next, Handler, InTick, PlaceQueen, Relocate, MoveQueen, Resize, Fall, BuyDefender, Deploy,
           SeasonWipe, Begin, Walk, Clash, Capture, Collide
  <2>2. PICK turns \in SetToSeqs(Players) :
          LET end == IF clock % GuardEvery = 0
                     THEN FoldLeft(Guarded, [ants |-> ants, guards |-> guards], turns)
                     ELSE [ants |-> ants, guards |-> guards]
          IN  ants' = end.ants /\ guards' = end.guards
    BY <2>1 DEF Guard
  <2>3. clock % GuardEvery = 0
    BY <2>2
  <2> DEFINE end == FoldLeft(Guarded, [ants |-> ants, guards |-> guards], turns)
  <2>4. end \in Garrisons /\ ants \in Seq(Ant)
    BY <1>1, Garrisoned DEF IInv, TypeOK
  <2>5. ants' = end.ants
    BY <2>2, <2>3
  <2> HIDE DEF end
  <2>6. ants' \in Seq(Ant) /\ \A k \in Len(ants) + 1 .. Len(ants') : Posted(ants'[k])
    BY <2>4, <2>5 DEF Garrisons
  <2>7. i \in Len(ants) + 1 .. Len(ants')
    BY <2>4, <2>6
  <2> QED BY <2>6, <2>7 DEF Posted
<1> QED BY <1>1, Invariance, PTL DEF Spec, GuardsOutside

-----------------------------------------------------------------------------
(* Who touches falls. *)

(* Coordinates less than a bucket apart are in buckets next to each other. *)
LEMMA SlotsNear ==
  ASSUME NEW a \in Int, NEW b \in Int, a <= b, b < a + Bucket
  PROVE  Slot(a) \in Int /\ Slot(b) \in Int /\ Abs(Slot(a) - Slot(b)) <= 1 /\ Abs(Slot(b) - Slot(a)) <= 1
<1>0. Bucket \in Nat \ {0}
  BY FieldAssumption, LargestSize
<1>1. \A n \in Nat : n \div Bucket \in Nat /\ (n \div Bucket) * Bucket <= n /\ n < (n \div Bucket) * Bucket + Bucket
  <2> SUFFICES ASSUME NEW n \in Nat
               PROVE  n \div Bucket \in Nat /\ (n \div Bucket) * Bucket <= n /\ n < (n \div Bucket) * Bucket + Bucket
    OBVIOUS
  <2> QED BY <1>0
<1>2. ASSUME NEW m \in Nat, NEW n \in Nat, m <= n, n < m + Bucket
      PROVE  (n \div Bucket) - (m \div Bucket) \in {0, 1}
  <2> DEFINE p == m \div Bucket
             q == n \div Bucket
  <2>1. p \in Nat /\ q \in Nat /\ p * Bucket <= m /\ m < p * Bucket + Bucket /\ q * Bucket <= n /\ n < q * Bucket + Bucket
    BY <1>1
  <2> HIDE DEF p, q
  <2>2. \A k, l \in Nat : k < l => k * Bucket + Bucket <= l * Bucket
    <3> SUFFICES ASSUME NEW k \in Nat, NEW l \in Nat, k < l PROVE k * Bucket + Bucket <= l * Bucket
      OBVIOUS
    <3>1. l - k - 1 \in Nat /\ (l - k - 1) * Bucket >= 0
      BY <1>0
    <3>2. l * Bucket = k * Bucket + Bucket + (l - k - 1) * Bucket
      BY <1>0
    <3>3. l * Bucket \in Int /\ k * Bucket \in Int /\ (l - k - 1) * Bucket \in Int
      BY <1>0
    <3> QED BY <1>0, <3>1, <3>2, <3>3
  <2>3. p * Bucket \in Int /\ q * Bucket \in Int /\ (p + 1) * Bucket = p * Bucket + Bucket
    BY <1>0, <2>1
  <2>4. ~(q < p)
    BY <1>0, <1>2, <2>1, <2>2, <2>3
  <2>5. ~(p + 1 < q)
    <3>1. p + 1 < q => (p + 1) * Bucket + Bucket <= q * Bucket
      BY <2>1, <2>2
    <3> QED BY <1>0, <1>2, <2>1, <2>3, <3>1
  <2>6. q - p \in {0, 1}
    BY <2>1, <2>4, <2>5
  <2> QED BY <2>6 DEF p, q
<1>3. CASE a >= 0
  <2>1. a \in Nat /\ b \in Nat /\ Slot(a) = a \div Bucket /\ Slot(b) = b \div Bucket
    BY <1>3 DEF Slot
  <2>2. Slot(b) - Slot(a) \in {0, 1} /\ Slot(a) \in Int /\ Slot(b) \in Int
    BY <1>1, <1>2, <2>1
  <2> QED BY <2>2 DEF Abs
<1>4. CASE b < 0
  <2>1. -a \in Nat /\ -b \in Nat /\ Slot(a) = -((-a) \div Bucket) /\ Slot(b) = -((-b) \div Bucket)
    BY <1>4 DEF Slot
  <2>2. ((-a) \div Bucket) - ((-b) \div Bucket) \in {0, 1}
    <3>1. -b <= -a /\ -a < -b + Bucket
      BY <1>0
    <3> HIDE DEF Slot
    <3> QED BY <1>2, <2>1, <3>1
  <2>3. (-a) \div Bucket \in Int /\ (-b) \div Bucket \in Int
    BY <1>1, <2>1
  <2>4. Slot(b) - Slot(a) \in {0, 1} /\ Slot(a) \in Int /\ Slot(b) \in Int
    BY <2>1, <2>2, <2>3
  <2> QED BY <2>4 DEF Abs
<1>5. CASE a < 0 /\ b >= 0
  <2>1. -a \in Nat /\ b \in Nat /\ -a < Bucket /\ b < Bucket
    BY <1>0, <1>5
  <2>2. \A n \in Nat : n < Bucket => n \div Bucket = 0
    BY <1>0
  <2>3. Slot(a) = 0 /\ Slot(b) = 0
    BY <1>5, <2>1, <2>2 DEF Slot
  <2> QED BY <2>3 DEF Abs
<1> QED BY <1>3, <1>4, <1>5

(* Queens that touch are within a bucket of each other: the scan compares  *)
(* them.                                                                   *)
LEMMA TouchingCompared ==
  ASSUME NEW p \in Queen, NEW q \in Queen, Touching(p, q)
  PROVE  Compared(p, q)
<1> DEFINE B == Bucket
           dx == p.at[1] - q.at[1]
           dy == p.at[2] - q.at[2]
           r == p.size + q.size + 2
<1>1. /\ p.at[1] \in Int /\ p.at[2] \in Int /\ q.at[1] \in Int /\ q.at[2] \in Int
      /\ p.size \in Sizes /\ q.size \in Sizes
  BY DEF Queen
<1>2. B \in Nat \ {0} /\ r \in Nat /\ r <= 2 * B
  <2>1. /\ p.size \in Nat /\ q.size \in Nat /\ p.size <= Largest /\ q.size <= Largest
        /\ Largest \in Nat /\ Bucket \in Nat /\ Bucket >= Largest + 1
    BY <1>1, LargestSize, FieldAssumption
  <2> QED BY <2>1
<1>3. dx \in Int /\ dy \in Int /\ 4 * (dx * dx + dy * dy) < r * r
  BY <1>1 DEF Touching, Dist2, Square
<1> HIDE DEF B, dx, dy, r
<1>4. \A n \in Int : n * n \in Nat /\ (n >= B \/ -n >= B => n * n >= B * B)
  <2> SUFFICES ASSUME NEW n \in Int PROVE n * n \in Nat /\ (n >= B \/ -n >= B => n * n >= B * B)
    OBVIOUS
  <2>1. n * n \in Nat
    OBVIOUS
  <2>2. \A m \in Nat : m >= B => m * m >= B * B
    <3> SUFFICES ASSUME NEW m \in Nat, m >= B PROVE m * m >= B * B
      OBVIOUS
    <3>1. m * m >= m * B /\ m * B >= B * B
      BY <1>2
    <3>2. m * m \in Int /\ m * B \in Int /\ B * B \in Int
      BY <1>2
    <3> QED BY <3>1, <3>2
  <2>3. (-n) * (-n) = n * n
    OBVIOUS
  <2>4. n >= B => n \in Nat
    BY <1>2
  <2>5. -n >= B => -n \in Nat
    BY <1>2
  <2> QED BY <2>1, <2>2, <2>3, <2>4, <2>5
<1>5. r * r <= 4 * (B * B)
  <2>1. r * r <= r * (2 * B) /\ r * (2 * B) <= (2 * B) * (2 * B)
    BY <1>2
  <2>2. (2 * B) * (2 * B) = 4 * (B * B)
    BY <1>2
  <2>3. r * r \in Int /\ r * (2 * B) \in Int /\ B * B \in Int
    BY <1>2
  <2> QED BY <2>1, <2>2, <2>3
<1>6. dx * dx < B * B /\ dy * dy < B * B
  <2>1. dx * dx \in Nat /\ dy * dy \in Nat /\ B * B \in Nat /\ r * r \in Nat
    BY <1>2, <1>3, <1>4
  <2> QED BY <1>3, <1>5, <2>1
<1>7. dx < B /\ -dx < B /\ dy < B /\ -dy < B
  <2>1. dx * dx \in Nat /\ dy * dy \in Nat /\ B * B \in Nat
    BY <1>2, <1>3, <1>4
  <2>2. ~(dx >= B) /\ ~(-dx >= B) /\ ~(dy >= B) /\ ~(-dy >= B)
    BY <1>3, <1>4, <1>6, <2>1
  <2> QED BY <1>2, <1>3, <2>2
<1>8. \A m, n \in Int : m - n < Bucket /\ -(m - n) < Bucket => Abs(Slot(m) - Slot(n)) <= 1
  <2> SUFFICES ASSUME NEW m \in Int, NEW n \in Int, m - n < Bucket, -(m - n) < Bucket
               PROVE  Abs(Slot(m) - Slot(n)) <= 1
    OBVIOUS
  <2>1. Bucket \in Nat
    BY FieldAssumption
  <2>2. CASE m <= n
    BY <2>1, <2>2, SlotsNear
  <2>3. CASE n <= m
    BY <2>1, <2>3, SlotsNear
  <2> QED BY <2>2, <2>3
<1> QED BY <1>1, <1>7, <1>8 DEF Compared, B, dx, dy

THEOREM TouchingFall == Spec => TouchingResolved
<1>1. ASSUME IInv, [Next]_vars
      PROVE  [phase = "collide" => \A u, v \in Players :
                u # v /\ Live(u) /\ Live(v) /\ Touching(queens[u], queens[v])
                  => queens'[u] = NoQueen \/ queens'[v] = NoQueen]_vars
  <2> SUFFICES ASSUME phase = "collide", Next, NEW u \in Players, NEW v \in Players,
                      u # v, Live(u), Live(v), Touching(queens[u], queens[v])
               PROVE  queens'[u] = NoQueen \/ queens'[v] = NoQueen
    BY <1>1
  <2>1. Collide
    BY DEF Next, Handler, InTick, PlaceQueen, Relocate, MoveQueen, Resize, Fall, BuyDefender, Deploy,
           SeasonWipe, Begin, Walk, Clash, Capture, Guard
  <2>2. queens[u] \in Queen /\ queens[v] \in Queen
    BY <1>1 DEF IInv, TypeOK, Live
  <2>3. Touching(queens[v], queens[u])
    <3>1. \A m, n \in Int : Square(m - n) = Square(n - m)
      BY DEF Square
    <3>2. Dist2(queens[u].at, queens[v].at) = Dist2(queens[v].at, queens[u].at)
      BY <2>2, <3>1 DEF Dist2, Queen
    <3>3. queens[u].size \in Int /\ queens[v].size \in Int
      <4>1. queens[u].size \in Sizes /\ queens[v].size \in Sizes
        BY <2>2 DEF Queen
      <4>2. \A s \in Sizes : s \in Int
        BY FieldAssumption
      <4> QED BY <4>1, <4>2, Zenon
    <3>4. queens[u].size + queens[v].size + 2 = queens[v].size + queens[u].size + 2
      BY <3>3
    <3> QED BY <3>2, <3>4 DEF Touching
  <2>4. Compared(queens[u], queens[v]) /\ Compared(queens[v], queens[u])
    BY <2>2, <2>3, TouchingCompared
  <2>5. PICK might \in Injection(Players, 1 .. Cardinality(Players)) :
          Fell({w \in Players : Live(w) /\ \E o \in Players \ {w} :
                  /\ Live(o) /\ might[w] < might[o]
                  /\ Compared(queens[w], queens[o]) /\ Touching(queens[w], queens[o])})
    BY <2>1 DEF Collide
  <2>6. might[u] < might[v] \/ might[v] < might[u]
    <3>1. Cardinality(Players) \in Nat
      BY FieldAssumption, FS_CardinalityType
    <3>2. might[u] \in Nat /\ might[v] \in Nat /\ might[u] # might[v]
      BY <2>5, <3>1 DEF Injection, IsInjective
    <3> QED BY <3>2
  <2> QED BY <2>3, <2>4, <2>5, <2>6 DEF Fell
<1> QED BY <1>1, Invariance, PTL DEF Spec, TouchingResolved

-----------------------------------------------------------------------------
(* The passes of the fog. *)

LEMMA Growing ==
  ASSUME NEW c \in Nat, NEW k \in Nat, NEW n \in Nat, k <= n
  PROVE  c * k \in Nat /\ c * n \in Nat /\ c * k <= c * n
<1>1. PICK m \in Nat : m = n - k
  OBVIOUS
<1>2. n = k + m /\ c * m \in Nat /\ c * k \in Nat
  BY <1>1
<1>3. c * n = c * k + c * m
  BY <1>2
<1> QED BY <1>2, <1>3

LEMMA FogAssumption ==
  /\ Clear \in Nat /\ Grad \in Nat /\ Pad \in Nat /\ Clear <= Grad /\ Grad <= Pad
  /\ Unit \in Nat \ {0} /\ Diagonal \in Nat /\ Unit <= Diagonal /\ Diagonal <= 2 * Unit
  /\ Unit * Clear \in Nat /\ Unit * Grad \in Nat /\ Unit * Clear <= Unit * Grad
  /\ TooFar \in Nat /\ TooFar >= Unit * Grad
<1>1. /\ Clear \in Nat /\ Grad \in Nat /\ Pad \in Nat /\ Clear <= Grad /\ Grad <= Pad
      /\ Unit \in Nat \ {0} /\ Diagonal \in Nat /\ Unit <= Diagonal /\ Diagonal <= 2 * Unit
  BY FieldAssumption
<1>2. Unit * Clear \in Nat /\ Unit * Grad \in Nat /\ Unit * Clear <= Unit * Grad
  BY <1>1, Growing
<1>3. TooFar \in Nat /\ TooFar >= Unit * Grad
  BY <1>1, Growing DEF TooFar
<1> QED BY <1>1, <1>2, <1>3

LEMMA ViewSizes ==
  ASSUME NEW v \in Views
  PROVE  /\ v.x \in Int /\ v.y \in Int /\ v.w \in Nat /\ v.h \in Nat
         /\ Pw(v) \in Nat /\ Ph(v) \in Nat /\ Pw(v) = v.w + 2 * Pad /\ Ph(v) = v.h + 2 * Pad
<1>1. v \in [x : Int, y : Int, w : Nat, h : Nat] /\ Pad \in Nat
  BY FieldAssumption
<1> QED BY <1>1 DEF Pw, Ph

LEMMA LowestOf ==
  ASSUME NEW S \in SUBSET Nat, S # {}
  PROVE  Lowest(S) \in S /\ \A m \in S : Lowest(S) <= m
<1>1. \E n \in S : \A m \in S : n <= m
  BY LeastNat
<1> QED BY <1>1 DEF Lowest

(* A recursion over the numbers up to n.                                   *)
Climbs(h, n, base, step) == h[0] = base /\ \A k \in 1 .. n : h[k] = step[k][h[k - 1]]

(* It has a solution when steps stay within X.                             *)
LEMMA UpwardRecursion ==
  ASSUME NEW n \in Nat, NEW X, NEW base \in X, NEW step \in [1 .. n -> [X -> X]]
  PROVE  \E h \in [0 .. n -> X] : Climbs(h, n, base, step)
<1>1. PICK g \in [SUBSET (1 .. n) -> X] : Folds(g, n, base, step)
  BY LeftRecursion
<1> DEFINE h == [k \in 0 .. n |-> g[1 .. k]]
<1>2. \A k \in 0 .. n : 1 .. k \in SUBSET (1 .. n)
  OBVIOUS
<1>3. h \in [0 .. n -> X]
  BY <1>2
<1>4. h[0] = base
  <2>1. h[0] = g[{}]
    <3>1. 1 .. 0 = {}
      OBVIOUS
    <3> QED BY <3>1
  <2> QED BY <1>1, <2>1 DEF Folds
<1>5. ASSUME NEW k \in 1 .. n PROVE h[k] = step[k][h[k - 1]]
  <2>0. k \in Nat /\ k >= 1 /\ k <= n /\ k - 1 \in 0 .. n /\ k \in 0 .. n
    OBVIOUS
  <2>1. 1 .. k \in SUBSET (1 .. n) /\ k \in 1 .. k
    BY <1>2, <2>0
  <2>2. Max(1 .. k) \in 1 .. k /\ \A i \in 1 .. k : i <= Max(1 .. k)
    BY <2>0, <2>1, TopPosition
  <2>3. Max(1 .. k) = k
    BY <2>0, <2>1, <2>2
  <2>4. (1 .. k) \ {k} = 1 .. k - 1
    BY <2>0
  <2>5. g[1 .. k] = step[k][g[(1 .. k) \ {k}]]
    BY <1>1, <2>1, <2>3 DEF Folds
  <2>6. h[k] = g[1 .. k] /\ h[k - 1] = g[1 .. k - 1]
    BY <2>0
  <2> QED BY <2>4, <2>5, <2>6
<1> QED BY <1>3, <1>4, <1>5 DEF Climbs

Sides == (-1 .. 1) \X (-1 .. 1)

LEMMA Sideways ==
  /\ Before \subseteq Sides /\ After \subseteq Sides
  /\ \A s \in Sides : Way(s) \in Nat \ {0}
  /\ <<0, 0>> \notin Before /\ <<0, 0>> \notin After
BY FogAssumption DEF Sides, Before, After, Way

LEMMA CloserIs ==
  ASSUME NEW v \in Views, NEW dist \in [Slice(v) -> Nat], NEW c \in Slice(v), NEW nearby \in SUBSET Sides
  PROVE  /\ Closer(v, dist, c, nearby) \in Nat
         /\ Closer(v, dist, c, nearby) <= dist[c]
         /\ \A s \in nearby : Ahead(c, s, 1) \in Slice(v) =>
              Closer(v, dist, c, nearby) <= dist[Ahead(c, s, 1)] + Way(s)
         /\ \/ Closer(v, dist, c, nearby) = dist[c]
            \/ \E s \in nearby : /\ Ahead(c, s, 1) \in Slice(v)
                                 /\ Closer(v, dist, c, nearby) = dist[Ahead(c, s, 1)] + Way(s)
<1> DEFINE there == {t \in nearby : Ahead(c, t, 1) \in Slice(v)}
           S == {dist[c]} \cup {dist[Ahead(c, s, 1)] + Way(s) : s \in there}
<1>1. \A s \in there : Way(s) \in Nat /\ dist[Ahead(c, s, 1)] \in Nat
  BY Sideways
<1>2. \A s \in there : dist[Ahead(c, s, 1)] + Way(s) \in Nat
  BY <1>1
<1>3. S \in SUBSET Nat /\ S # {}
  BY <1>2
<1>4. Lowest(S) \in S /\ \A m \in S : Lowest(S) <= m
  <2> HIDE DEF S
  <2> QED BY <1>3, LowestOf
<1>5. Closer(v, dist, c, nearby) = Lowest(S)
  BY DEF Closer
<1>6. \A s \in there : dist[Ahead(c, s, 1)] + Way(s) \in S
  OBVIOUS
<1>7. Lowest(S) \in Nat
  BY <1>3, <1>4
<1> HIDE DEF S
<1>8. dist[c] \in S /\ \A m \in S : m = dist[c] \/ \E s \in there : m = dist[Ahead(c, s, 1)] + Way(s)
  BY DEF S
<1> QED BY <1>4, <1>5, <1>6, <1>7, <1>8

(* Nothing is farther than by way of a neighbour on that side.             *)
Settled(v, dist, nearby) ==
  \A c \in Slice(v), s \in nearby :
    Ahead(c, s, 1) \in Slice(v) => dist[c] <= dist[Ahead(c, s, 1)] + Way(s)

(* An order of the cells in which each comes after its neighbours.         *)
InOrder(v, order, rank, n, nearby) ==
  /\ n \in Nat /\ order \in [1 .. n -> Slice(v)] /\ rank \in [Slice(v) -> 1 .. n]
  /\ \A k \in 1 .. n : rank[order[k]] = k
  /\ \A c \in Slice(v) : order[rank[c]] = c
  /\ \A c \in Slice(v), s \in nearby : Ahead(c, s, 1) \in Slice(v) => rank[Ahead(c, s, 1)] < rank[c]

LEMMA PassSettles ==
  ASSUME NEW v \in Views, NEW start \in [Slice(v) -> Nat], NEW n, NEW order, NEW rank,
         NEW nearby \in SUBSET Sides, InOrder(v, order, rank, n, nearby),
         NEW low \in [Slice(v) -> Nat], Settled(v, low, nearby), \A c \in Slice(v) : low[c] <= start[c]
  PROVE  /\ Pass(v, n, start, order, nearby) \in [Slice(v) -> Nat]
         /\ Settled(v, Pass(v, n, start, order, nearby), nearby)
         /\ \A c \in Slice(v) : /\ Pass(v, n, start, order, nearby)[c] <= start[c]
                                /\ low[c] <= Pass(v, n, start, order, nearby)[c]
<1> DEFINE X == [Slice(v) -> Nat]
           Step(k, dist) == [dist EXCEPT ![order[k]] = Closer(v, dist, order[k], nearby)]
           Solves(f) == f = [k \in 0 .. n |-> IF k = 0 THEN start ELSE Step(k, f[k - 1])]
           upto == CHOOSE f : Solves(f)
<1>0. /\ n \in Nat /\ order \in [1 .. n -> Slice(v)] /\ rank \in [Slice(v) -> 1 .. n]
      /\ \A k \in 1 .. n : rank[order[k]] = k
      /\ \A c \in Slice(v) : order[rank[c]] = c
      /\ \A c \in Slice(v), s \in nearby : Ahead(c, s, 1) \in Slice(v) => rank[Ahead(c, s, 1)] < rank[c]
  BY DEF InOrder
<1>1. Pass(v, n, start, order, nearby) = upto[n]
  BY DEF Pass
<1>2. \A k \in 1 .. n, dist \in X : Step(k, dist) \in X
  BY <1>0, CloserIs
<1>3. \E f : Solves(f)
  <2> DEFINE step == [k \in 1 .. n |-> [dist \in X |-> Step(k, dist)]]
  <2>1. step \in [1 .. n -> [X -> X]] /\ start \in X
    BY <1>2
  <2>2. PICK h \in [0 .. n -> X] : Climbs(h, n, start, step)
    <3>1. n \in Nat
      BY <1>0
    <3> HIDE DEF step, X
    <3> QED BY <2>1, <3>1, UpwardRecursion
  <2> HIDE DEF X, Step
  <2>3. \A k \in 1 .. n : k - 1 \in 0 .. n
    BY <1>0
  <2>4. \A k \in 1 .. n : h[k] = Step(k, h[k - 1])
    BY <2>2, <2>3 DEF Climbs
  <2>5. h = [k \in 0 .. n |-> IF k = 0 THEN start ELSE Step(k, h[k - 1])]
    BY <1>0, <2>2, <2>4 DEF Climbs
  <2> QED BY <2>5
<1>4. Solves(upto)
  BY <1>3
<1>5. upto[0] = start /\ \A k \in 1 .. n : upto[k] = Step(k, upto[k - 1])
  <2>1. 0 \in 0 .. n /\ \A k \in 1 .. n : k \in 0 .. n /\ k # 0
    BY <1>0
  <2>2. \A k \in 0 .. n : upto[k] = IF k = 0 THEN start ELSE Step(k, upto[k - 1])
    <3> HIDE DEF Step, upto
    <3> QED BY <1>4
  <2> HIDE DEF Step, upto
  <2> QED BY <2>1, <2>2
<1> HIDE DEF upto
<1> DEFINE Good(k) == /\ upto[k] \in X
                      /\ \A c \in Slice(v) : upto[k][c] <= start[c] /\ low[c] <= upto[k][c]
                      /\ \A c \in Slice(v), s \in nearby :
                           rank[c] <= k /\ Ahead(c, s, 1) \in Slice(v)
                             => upto[k][c] <= upto[k][Ahead(c, s, 1)] + Way(s)
           P == {k \in 0 .. n : Good(k)}
<1>6. 0 \in P
  BY <1>0, <1>5
<1>7. ASSUME NEW k \in 0 .. n - 1, k \in P PROVE k + 1 \in P
  <2> DEFINE d == upto[k]
             e == upto[k + 1]
             here == order[k + 1]
             near == Closer(v, d, here, nearby)
  <2>0. k + 1 \in 1 .. n /\ k + 1 \in 0 .. n /\ (k + 1) - 1 = k /\ k \in Nat
    BY <1>0
  <2>1. e = Step(k + 1, d)
    BY <1>5, <2>0
  <2>2. d \in X /\ here \in Slice(v) /\ rank[here] = k + 1
    BY <1>0, <1>7, <2>0
  <2>3. e \in X /\ e[here] = near /\ \A c \in Slice(v) \ {here} : e[c] = d[c]
    BY <1>2, <2>0, <2>1, <2>2
  <2>4. /\ near \in Nat /\ near <= d[here]
        /\ \A s \in nearby : Ahead(here, s, 1) \in Slice(v) => near <= d[Ahead(here, s, 1)] + Way(s)
        /\ \/ near = d[here]
           \/ \E s \in nearby : Ahead(here, s, 1) \in Slice(v) /\ near = d[Ahead(here, s, 1)] + Way(s)
    BY <2>2, CloserIs
  <2>5. \A c \in Slice(v) : /\ d[c] <= start[c] /\ low[c] <= d[c] /\ d[c] \in Nat
                            /\ start[c] \in Nat /\ low[c] \in Nat
    BY <1>7
  <2> HIDE DEF d, e, near
  <2>6. low[here] <= near
    <3>1. CASE near = d[here]
      BY <2>2, <2>5, <3>1
    <3>2. ASSUME NEW s \in nearby, Ahead(here, s, 1) \in Slice(v), near = d[Ahead(here, s, 1)] + Way(s)
          PROVE  low[here] <= near
      <4>1. low[here] <= low[Ahead(here, s, 1)] + Way(s)
        BY <2>2, <3>2 DEF Settled
      <4>2. low[Ahead(here, s, 1)] <= d[Ahead(here, s, 1)] /\ Way(s) \in Nat
        BY <2>5, <3>2, Sideways
      <4>3. low[here] \in Nat /\ low[Ahead(here, s, 1)] \in Nat /\ d[Ahead(here, s, 1)] \in Nat
        BY <2>2, <2>5, <3>2
      <4> QED BY <3>2, <4>1, <4>2, <4>3
    <3> QED BY <2>4, <3>1, <3>2
  <2>7. ASSUME NEW c \in Slice(v) PROVE e[c] <= start[c] /\ low[c] <= e[c]
    <3>1. CASE c = here
      BY <2>2, <2>3, <2>4, <2>5, <2>6, <3>1
    <3>2. CASE c # here
      BY <2>3, <2>5, <3>2
    <3> QED BY <3>1, <3>2
  <2>8. ASSUME NEW c \in Slice(v), NEW s \in nearby, rank[c] <= k + 1, Ahead(c, s, 1) \in Slice(v)
        PROVE  e[c] <= e[Ahead(c, s, 1)] + Way(s)
    <3>1. rank[Ahead(c, s, 1)] < rank[c] /\ rank[c] \in Nat /\ rank[Ahead(c, s, 1)] \in Nat
      BY <1>0, <2>8
    <3>2. Ahead(c, s, 1) # here
      BY <2>0, <2>2, <2>8, <3>1
    <3>3. e[Ahead(c, s, 1)] = d[Ahead(c, s, 1)]
      BY <2>3, <2>8, <3>2
    <3>4. CASE c = here
      BY <2>3, <2>4, <2>8, <3>3, <3>4
    <3>5. CASE c # here
      <4>1. rank[c] # k + 1
        BY <1>0, <2>0, <2>2, <3>5
      <4>2. rank[c] <= k
        BY <2>0, <2>8, <3>1, <4>1
      <4>3. d[c] <= d[Ahead(c, s, 1)] + Way(s)
        BY <1>7, <2>8, <4>2 DEF d
      <4> QED BY <2>3, <3>3, <3>5, <4>3
    <3> QED BY <3>4, <3>5
  <2>9. Good(k + 1)
    BY <2>3, <2>7, <2>8 DEF e
  <2> QED BY <2>0, <2>9
<1>8. n \in P
  <2>1. 0 .. n \subseteq P
    <3> HIDE DEF P
    <3> QED BY <1>0, <1>6, <1>7, UpTo
  <2> HIDE DEF P
  <2> QED BY <1>0, <2>1
<1>9. Good(n)
  BY <1>8
<1>10. \A c \in Slice(v) : rank[c] <= n
  BY <1>0
<1> QED BY <1>1, <1>9, <1>10 DEF Settled

-----------------------------------------------------------------------------
(* Row by row, and back. *)

LEMMA Divided ==
  ASSUME NEW P \in Nat, P > 0, NEW x \in 0 .. P - 1, NEW y \in Nat
  PROVE  (y * P + x) % P = x /\ (y * P + x) \div P = y
OBVIOUS

LEMMA Remains ==
  ASSUME NEW P \in Nat, P > 0, NEW k \in Nat
  PROVE  k % P \in 0 .. P - 1 /\ k \div P \in Nat /\ k = (k \div P) * P + (k % P)
OBVIOUS

(* The place of a cell in the slice.                                       *)
Place(v, c) == c[2] * Pw(v) + c[1]

LEMMA RowsBelow ==
  ASSUME NEW P \in Nat, NEW Q \in Nat, NEW y \in Nat
  PROVE  /\ y < Q => y * P + P <= P * Q
         /\ y >= Q => y * P >= P * Q
<1>1. y * P \in Int /\ P * Q \in Int
  OBVIOUS
<1>2. CASE y < Q
  <2>1. Q - y - 1 \in Nat
    BY <1>2
  <2>2. PICK m \in Nat : m = Q - y - 1
    BY <2>1
  <2>3. m * P >= 0 /\ m * P \in Int
    BY <2>2
  <2>4. Q = y + 1 + m
    BY <2>2
  <2>5. P * Q = y * P + P + m * P
    BY <2>4
  <2> QED BY <1>1, <1>2, <2>3, <2>5
<1>3. CASE y >= Q
  <2>1. PICK m \in Nat : m = y - Q
    BY <1>3
  <2>2. m * P >= 0 /\ m * P \in Int
    OBVIOUS
  <2>3. y = Q + m
    BY <2>1
  <2>4. y * P = P * Q + m * P
    BY <2>3
  <2> QED BY <1>1, <1>3, <2>2, <2>4
<1> QED BY <1>2, <1>3

LEMMA PlaceOf ==
  ASSUME NEW v \in Views, NEW c \in Slice(v)
  PROVE  Place(v, c) \in 0 .. Pw(v) * Ph(v) - 1 /\ Raster(v, Place(v, c)) = c
<1> DEFINE P == Pw(v)
           Q == Ph(v)
<1>1. /\ P \in Nat /\ Q \in Nat /\ c = <<c[1], c[2]>> /\ c[1] \in 0 .. P - 1 /\ c[2] \in 0 .. Q - 1
      /\ c[1] \in Nat /\ c[2] \in Nat /\ P > 0 /\ c[2] < Q
  BY ViewSizes DEF Slice
<1>2. c[2] * P + P <= P * Q
  BY <1>1, RowsBelow
<1>3. c[2] * P \in Nat /\ P * Q \in Nat
  BY <1>1
<1>4. Place(v, c) = c[2] * P + c[1]
  BY DEF Place
<1>5. Place(v, c) \in 0 .. P * Q - 1
  <2> HIDE DEF P, Q
  <2> QED BY <1>1, <1>2, <1>3, <1>4
<1>6. (c[2] * P + c[1]) % P = c[1] /\ (c[2] * P + c[1]) \div P = c[2]
  BY <1>1, Divided
<1> QED BY <1>1, <1>4, <1>5, <1>6 DEF Raster

LEMMA RasterAt ==
  ASSUME NEW v \in Views, NEW k \in 0 .. Pw(v) * Ph(v) - 1
  PROVE  Raster(v, k) \in Slice(v) /\ Place(v, Raster(v, k)) = k
<1> DEFINE P == Pw(v)
           Q == Ph(v)
           x == k % P
           y == k \div P
<1>1. P \in Nat /\ Q \in Nat /\ k \in Nat /\ k < P * Q /\ P * Q \in Nat
  BY ViewSizes
<1>2. P > 0
  <2>1. P = 0 => P * Q = 0
    BY <1>1
  <2> QED BY <1>1, <2>1
<1>3. x \in 0 .. P - 1 /\ y \in Nat /\ k = y * P + x
  BY <1>1, <1>2, Remains
<1>4. Raster(v, k) = <<x, y>>
  BY DEF Raster
<1> HIDE DEF x, y, P, Q
<1>5. y < Q
  <2>1. y >= Q => y * P >= P * Q
    BY <1>1, <1>3, RowsBelow
  <2>2. y * P \in Nat
    BY <1>1, <1>3
  <2> QED BY <1>1, <1>3, <2>1, <2>2
<1>6. Raster(v, k) \in Slice(v)
  BY <1>1, <1>3, <1>4, <1>5 DEF Slice, P, Q
<1>7. Place(v, <<x, y>>) = y * P + x
  BY DEF Place, P
<1> QED BY <1>3, <1>4, <1>6, <1>7

(* A neighbour on the first pass's side comes before, one on the second's  *)
(* after.                                                                  *)
LEMMA PlacesNear ==
  ASSUME NEW v \in Views, NEW c \in Slice(v), NEW s \in Sides, Ahead(c, s, 1) \in Slice(v)
  PROVE  /\ s \in Before => Place(v, Ahead(c, s, 1)) < Place(v, c)
         /\ s \in After => Place(v, Ahead(c, s, 1)) > Place(v, c)
<1> DEFINE P == Pw(v)
<1>1. /\ P \in Nat /\ c[1] \in 0 .. P - 1 /\ c[2] \in Nat
      /\ s \in (-1 .. 1) \X (-1 .. 1) /\ s[1] \in -1 .. 1 /\ s[2] \in -1 .. 1
  BY ViewSizes DEF Slice, Sides
<1>2. Ahead(c, s, 1) = <<c[1] + s[1], c[2] + s[2]>>
  BY <1>1 DEF Ahead
<1>3. c[1] + s[1] \in 0 .. P - 1 /\ c[2] + s[2] \in Nat
  BY <1>2, ViewSizes DEF Slice
<1>4. Place(v, c) = c[2] * P + c[1] /\ Place(v, Ahead(c, s, 1)) = (c[2] + s[2]) * P + (c[1] + s[1])
  BY <1>2 DEF Place
<1> HIDE DEF P
<1>5. c[2] * P \in Nat /\ s[2] * P \in Int /\ (c[2] + s[2]) * P = c[2] * P + s[2] * P
  BY <1>1
<1>6. Place(v, Ahead(c, s, 1)) - Place(v, c) = s[2] * P + s[1] /\ Place(v, c) \in Int /\ Place(v, Ahead(c, s, 1)) \in Int
  BY <1>1, <1>3, <1>4, <1>5
<1>7. ASSUME s \in Before PROVE s[2] * P + s[1] < 0
  <2>1. s = <<-1, 0>> \/ (s[2] = -1 /\ s[1] <= 1 /\ (s[1] = 1 => P > 1))
    BY <1>1, <1>3, <1>7 DEF Before
  <2>2. s[2] = -1 => s[2] * P = -P
    BY <1>1
  <2>3. s[2] = 0 => s[2] * P = 0
    BY <1>1
  <2>4. P > 0
    BY <1>1
  <2> QED BY <1>1, <2>1, <2>2, <2>3, <2>4
<1>8. ASSUME s \in After PROVE s[2] * P + s[1] > 0
  <2>1. s = <<1, 0>> \/ (s[2] = 1 /\ s[1] >= -1 /\ (s[1] = -1 => P > 1))
    BY <1>1, <1>3, <1>8 DEF After
  <2>2. s[2] = 1 => s[2] * P = P
    BY <1>1
  <2>3. s[2] = 0 => s[2] * P = 0
    BY <1>1
  <2>4. P > 0
    BY <1>1
  <2> QED BY <1>1, <2>1, <2>2, <2>3, <2>4
<1> QED BY <1>6, <1>7, <1>8, <1>5, <1>1

LEMMA RowByRow ==
  ASSUME NEW v \in Views, NEW n, n = Pw(v) * Ph(v)
  PROVE  InOrder(v, [k \in 1 .. n |-> Raster(v, k - 1)], [c \in Slice(v) |-> Place(v, c) + 1], n, Before)
<1> DEFINE order == [k \in 1 .. n |-> Raster(v, k - 1)]
           rank == [c \in Slice(v) |-> Place(v, c) + 1]
<1>1. n \in Nat
  BY ViewSizes
<1>2. \A c \in Slice(v) : Place(v, c) \in 0 .. n - 1 /\ Raster(v, Place(v, c)) = c
  BY PlaceOf
<1>3. \A k \in 0 .. n - 1 : Raster(v, k) \in Slice(v) /\ Place(v, Raster(v, k)) = k
  BY RasterAt
<1>4. /\ \A k \in 1 .. n : k - 1 \in 0 .. n - 1 /\ (k - 1) + 1 = k
      /\ \A k \in 0 .. n - 1 : k + 1 \in 1 .. n /\ (k + 1) - 1 = k
  BY <1>1
<1>5. /\ \A k \in 1 .. n : order[k] = Raster(v, k - 1)
      /\ \A c \in Slice(v) : rank[c] = Place(v, c) + 1
  OBVIOUS
<1>6. order \in [1 .. n -> Slice(v)]
  BY <1>3, <1>4
<1>7. rank \in [Slice(v) -> 1 .. n]
  BY <1>2, <1>4
<1> HIDE DEF order, rank
<1>8. \A k \in 1 .. n : rank[order[k]] = k
  BY <1>3, <1>4, <1>5
<1>9. \A c \in Slice(v) : order[rank[c]] = c
  BY <1>2, <1>4, <1>5
<1>10. ASSUME NEW c \in Slice(v), NEW s \in Before, Ahead(c, s, 1) \in Slice(v)
       PROVE  rank[Ahead(c, s, 1)] < rank[c]
  <2>1. Place(v, Ahead(c, s, 1)) < Place(v, c)
    BY <1>10, PlacesNear, Sideways
  <2>2. Place(v, Ahead(c, s, 1)) \in 0 .. n - 1 /\ Place(v, c) \in 0 .. n - 1
    BY <1>2, <1>10
  <2> QED BY <1>1, <1>5, <1>10, <2>1, <2>2
<1>11. InOrder(v, order, rank, n, Before)
  BY <1>1, <1>6, <1>7, <1>8, <1>9, <1>10 DEF InOrder
<1> QED BY <1>11 DEF order, rank

LEMMA AndBack ==
  ASSUME NEW v \in Views, NEW n, n = Pw(v) * Ph(v)
  PROVE  InOrder(v, [k \in 1 .. n |-> Raster(v, n - k)], [c \in Slice(v) |-> n - Place(v, c)], n, After)
<1> DEFINE order == [k \in 1 .. n |-> Raster(v, n - k)]
           rank == [c \in Slice(v) |-> n - Place(v, c)]
<1>1. n \in Nat
  BY ViewSizes
<1>2. \A c \in Slice(v) : Place(v, c) \in 0 .. n - 1 /\ Raster(v, Place(v, c)) = c
  BY PlaceOf
<1>3. \A k \in 0 .. n - 1 : Raster(v, k) \in Slice(v) /\ Place(v, Raster(v, k)) = k
  BY RasterAt
<1>4. /\ \A k \in 1 .. n : n - k \in 0 .. n - 1 /\ n - (n - k) = k
      /\ \A k \in 0 .. n - 1 : n - k \in 1 .. n /\ n - (n - k) = k
  BY <1>1
<1>5. /\ \A k \in 1 .. n : order[k] = Raster(v, n - k)
      /\ \A c \in Slice(v) : rank[c] = n - Place(v, c)
  OBVIOUS
<1>6. order \in [1 .. n -> Slice(v)]
  BY <1>3, <1>4
<1>7. rank \in [Slice(v) -> 1 .. n]
  BY <1>2, <1>4
<1> HIDE DEF order, rank
<1>8. \A k \in 1 .. n : rank[order[k]] = k
  BY <1>3, <1>4, <1>5
<1>9. \A c \in Slice(v) : order[rank[c]] = c
  BY <1>2, <1>4, <1>5
<1>10. ASSUME NEW c \in Slice(v), NEW s \in After, Ahead(c, s, 1) \in Slice(v)
       PROVE  rank[Ahead(c, s, 1)] < rank[c]
  <2>1. Place(v, Ahead(c, s, 1)) > Place(v, c)
    BY <1>10, PlacesNear, Sideways
  <2>2. Place(v, Ahead(c, s, 1)) \in 0 .. n - 1 /\ Place(v, c) \in 0 .. n - 1
    BY <1>2, <1>10
  <2> QED BY <1>1, <1>5, <1>10, <2>1, <2>2
<1>11. InOrder(v, order, rank, n, After)
  BY <1>1, <1>6, <1>7, <1>8, <1>9, <1>10 DEF InOrder
<1> QED BY <1>11 DEF order, rank

-----------------------------------------------------------------------------
(* The two passes measure the shortest way. *)

LEMMA SliceCells ==
  ASSUME NEW v \in Views
  PROVE  /\ \A c \in Slice(v) : /\ c = <<c[1], c[2]>> /\ c[1] \in Int /\ c[2] \in Int
                                /\ 0 <= c[1] /\ c[1] < Pw(v) /\ 0 <= c[2] /\ c[2] < Ph(v)
         /\ \A x, y \in Int : 0 <= x /\ x < Pw(v) /\ 0 <= y /\ y < Ph(v) => <<x, y>> \in Slice(v)
BY ViewSizes DEF Slice

(* Between two cells of the slice that are in line all are of the slice.   *)
LEMMA Between ==
  ASSUME NEW v \in Views, NEW p \in Slice(v), NEW s \in Sides, NEW n \in Nat, NEW k \in 0 .. n,
         Ahead(p, s, n) \in Slice(v)
  PROVE  Ahead(p, s, k) \in Slice(v)
<1>1. /\ p[1] \in Int /\ p[2] \in Int /\ 0 <= p[1] /\ p[1] < Pw(v) /\ 0 <= p[2] /\ p[2] < Ph(v)
      /\ Pw(v) \in Nat /\ Ph(v) \in Nat
  BY SliceCells, ViewSizes
<1>2. s[1] \in {-1, 0, 1} /\ s[2] \in {-1, 0, 1}
  BY DEF Sides
<1>3. /\ p[1] + n * s[1] \in Int /\ 0 <= p[1] + n * s[1] /\ p[1] + n * s[1] < Pw(v)
      /\ p[2] + n * s[2] \in Int /\ 0 <= p[2] + n * s[2] /\ p[2] + n * s[2] < Ph(v)
  <2>1. Ahead(p, s, n) = <<p[1] + n * s[1], p[2] + n * s[2]>>
    BY DEF Ahead
  <2> QED BY <2>1, SliceCells
<1>4. ASSUME NEW a \in Int, NEW d \in {-1, 0, 1}, NEW b \in Nat,
             0 <= a, a < b, 0 <= a + n * d, a + n * d < b
      PROVE  a + k * d \in Int /\ 0 <= a + k * d /\ a + k * d < b
  <2>1. CASE d = -1
    <3>1. n * d = -n /\ k * d = -k
      BY <2>1
    <3> QED BY <1>4, <3>1
  <2>2. CASE d = 0
    <3>1. n * d = 0 /\ k * d = 0
      BY <2>2
    <3> QED BY <1>4, <3>1
  <2>3. CASE d = 1
    <3>1. n * d = n /\ k * d = k
      BY <2>3
    <3> QED BY <1>4, <3>1
  <2> QED BY <2>1, <2>2, <2>3
<1>5. /\ p[1] + k * s[1] \in Int /\ 0 <= p[1] + k * s[1] /\ p[1] + k * s[1] < Pw(v)
      /\ p[2] + k * s[2] \in Int /\ 0 <= p[2] + k * s[2] /\ p[2] + k * s[2] < Ph(v)
  BY <1>1, <1>2, <1>3, <1>4
<1> QED BY <1>5, SliceCells DEF Ahead

(* n steps to one side cost at most n times a step.                        *)
LEMMA Straight ==
  ASSUME NEW v \in Views, NEW dist \in [Slice(v) -> Nat], NEW nearby \in SUBSET Sides,
         Settled(v, dist, nearby), NEW s \in nearby, NEW p \in Slice(v), NEW n \in Nat,
         Ahead(p, s, n) \in Slice(v)
  PROVE  dist[p] <= dist[Ahead(p, s, n)] + n * Way(s)
<1> DEFINE P == {k \in 0 .. n : dist[p] <= dist[Ahead(p, s, k)] + k * Way(s)}
<1>0. s \in Sides /\ Way(s) \in Nat /\ dist[p] \in Nat
  BY Sideways
<1>1. \A k \in 0 .. n : Ahead(p, s, k) \in Slice(v) /\ dist[Ahead(p, s, k)] \in Nat /\ k * Way(s) \in Nat
  BY <1>0, Between
<1>2. 0 \in P
  <2>1. Ahead(p, s, 0) = p
    <3>1. p = <<p[1], p[2]>> /\ p[1] \in Int /\ p[2] \in Int /\ s[1] \in Int /\ s[2] \in Int
      BY <1>0, SliceCells DEF Sides
    <3> QED BY <3>1 DEF Ahead
  <2>2. 0 * Way(s) = 0
    BY <1>0
  <2> QED BY <1>0, <2>1, <2>2
<1>3. ASSUME NEW k \in 0 .. n - 1, k \in P PROVE k + 1 \in P
  <2> DEFINE here == Ahead(p, s, k)
             next == Ahead(p, s, k + 1)
  <2>1. k + 1 \in 0 .. n /\ k \in 0 .. n /\ k \in Nat
    OBVIOUS
  <2>2. here \in Slice(v) /\ next \in Slice(v) /\ dist[here] \in Nat /\ dist[next] \in Nat
    BY <1>1, <2>1
  <2>3. Ahead(here, s, 1) = next
    <3>1. p[1] \in Int /\ p[2] \in Int /\ s[1] \in Int /\ s[2] \in Int
      BY <1>0, SliceCells DEF Sides
    <3>2. ASSUME NEW i \in Int PROVE k * i \in Int /\ 1 * i = i /\ (k + 1) * i = k * i + i
      BY <2>1
    <3>3. /\ k * s[1] \in Int /\ 1 * s[1] = s[1] /\ (k + 1) * s[1] = k * s[1] + s[1]
          /\ k * s[2] \in Int /\ 1 * s[2] = s[2] /\ (k + 1) * s[2] = k * s[2] + s[2]
      BY <3>1, <3>2
    <3> QED BY <3>1, <3>3 DEF Ahead
  <2>4. dist[here] <= dist[next] + Way(s)
    BY <2>2, <2>3 DEF Settled
  <2>5. dist[p] <= dist[here] + k * Way(s)
    BY <1>3
  <2>6. (k + 1) * Way(s) = k * Way(s) + Way(s) /\ k * Way(s) \in Nat
    BY <1>0, <2>1
  <2> HIDE DEF here, next
  <2>7. dist[p] <= dist[next] + (k + 1) * Way(s)
    BY <1>0, <2>2, <2>4, <2>5, <2>6
  <2> QED BY <2>1, <2>7 DEF next
<1>4. n \in P
  <2>1. 0 .. n \subseteq P
    <3> HIDE DEF P
    <3> QED BY <1>2, <1>3, UpTo
  <2> HIDE DEF P
  <2> QED BY <2>1
<1> QED BY <1>4

(* First some steps to one side, then some to another.                     *)
LEMMA TwoRuns ==
  ASSUME NEW v \in Views, NEW f \in [Slice(v) -> Nat], NEW g \in [Slice(v) -> Nat],
         \A c \in Slice(v) : f[c] <= g[c],
         NEW near \in SUBSET Sides, NEW far \in SUBSET Sides, Settled(v, f, near), Settled(v, g, far),
         NEW s \in near, NEW t \in far, NEW a \in Nat, NEW b \in Nat, NEW p \in Slice(v),
         NEW m \in Slice(v), NEW q \in Slice(v), m = Ahead(p, s, a), q = Ahead(m, t, b)
  PROVE  f[p] <= g[q] + (a * Way(s) + b * Way(t))
<1>1. f[p] <= f[m] + a * Way(s)
  BY Straight
<1>2. g[m] <= g[q] + b * Way(t)
  BY Straight
<1>3. /\ f[p] \in Nat /\ f[m] \in Nat /\ g[m] \in Nat /\ g[q] \in Nat /\ f[m] <= g[m]
      /\ a * Way(s) \in Nat /\ b * Way(t) \in Nat
  BY Sideways
<1> QED BY <1>1, <1>2, <1>3

LEMMA Units == \A k \in Nat : k * 0 = 0 /\ k * 1 = k /\ k * (-1) = -k
OBVIOUS

LEMMA Costs ==
  ASSUME NEW a \in Nat, NEW w \in Nat, NEW c \in Nat, a = 0 \/ w = c
  PROVE  a * w = c * a
<1>1. CASE a = 0
  BY <1>1
<1>2. CASE w = c
  BY <1>2
<1> QED BY <1>1, <1>2

LEMMA Measured ==
  ASSUME NEW a \in Nat, NEW b \in Nat
  PROVE  /\ Unit * (a + b) + (Diagonal - Unit) * a = Diagonal * a + Unit * b
         /\ Unit * (a + b) + (Diagonal - Unit) * b = Unit * a + Diagonal * b
         /\ Unit * a \in Nat /\ Unit * b \in Nat /\ Diagonal * a \in Nat /\ Diagonal * b \in Nat
<1>1. Unit \in Nat /\ Diagonal \in Nat
  BY FogAssumption
<1>2. /\ Unit * (a + b) = Unit * a + Unit * b
      /\ (Diagonal - Unit) * a = Diagonal * a - Unit * a
      /\ (Diagonal - Unit) * b = Diagonal * b - Unit * b
  BY <1>1
<1>3. Unit * a \in Nat /\ Unit * b \in Nat /\ Diagonal * a \in Nat /\ Diagonal * b \in Nat
  BY <1>1
<1> QED BY <1>2, <1>3

(* A cell is no farther from another than the shortest way, when the first *)
(* pass has settled one side and the second the other.                     *)
LEMMA WayUp ==
  ASSUME NEW v \in Views, NEW f \in [Slice(v) -> Nat], NEW g \in [Slice(v) -> Nat],
         \A c \in Slice(v) : f[c] <= g[c], Settled(v, f, After), Settled(v, g, Before),
         NEW p \in Slice(v), NEW q \in Slice(v), g[q] = 0
  PROVE  f[p] <= Octile(p, q)
<1>1. /\ p = <<p[1], p[2]>> /\ p[1] \in Int /\ p[2] \in Int /\ q = <<q[1], q[2]>> /\ q[1] \in Int /\ q[2] \in Int
      /\ 0 <= p[1] /\ p[1] < Pw(v) /\ 0 <= p[2] /\ p[2] < Ph(v)
      /\ 0 <= q[1] /\ q[1] < Pw(v) /\ 0 <= q[2] /\ q[2] < Ph(v) /\ Pw(v) \in Nat /\ Ph(v) \in Nat
  BY SliceCells, ViewSizes
<1> DEFINE x == q[1] - p[1]
           y == q[2] - p[2]
<1>2. x \in Int /\ y \in Int
  BY <1>1
<1>3. Octile(p, q) = Unit * Larger(Abs(x), Abs(y)) + (Diagonal - Unit) * Smaller(Abs(x), Abs(y))
  <2>1. Abs(p[1] - q[1]) = Abs(x) /\ Abs(p[2] - q[2]) = Abs(y)
    BY <1>1 DEF Abs
  <2> QED BY <2>1 DEF Octile
<1>4. Before \in SUBSET Sides /\ After \in SUBSET Sides /\ f[q] = 0 /\ \A c \in Slice(v) : f[c] <= f[c] /\ g[c] <= g[c]
  <2>1. f[q] = 0
    <3>1. f[q] \in Nat /\ f[q] <= 0
      OBVIOUS
    <3> QED BY <3>1
  <2> QED BY <2>1, Sideways
<1>5. /\ \A d \in {-1, 0, 1} : <<d, -1>> \in Before /\ <<d, 1>> \in After
      /\ <<-1, 0>> \in Before /\ <<1, 0>> \in After
  BY DEF Before, After
<1>6. /\ \A d \in {-1, 0, 1} : Way(<<0, d>>) = Unit /\ Way(<<d, 0>>) = Unit
      /\ \A d, e \in {-1, 1} : Way(<<d, e>>) = Diagonal
  BY DEF Way
<1> HIDE DEF x, y
(* Steep, downwards: the second pass.                                      *)
<1>7. CASE y >= 0 /\ Abs(x) <= y
  <2> DEFINE d == IF x < 0 THEN -1 ELSE IF x = 0 THEN 0 ELSE 1
             a == Abs(x)
             b == y - Abs(x)
             s == <<d, 1>>
             t == <<0, 1>>
             i == q[1]
             j == p[2] + a
             m == <<i, j>>
  <2>1. a \in Nat /\ b \in Nat /\ d \in {-1, 0, 1} /\ (d = 0 => a = 0) /\ (d # 0 => d \in {-1, 1}) /\ a * d = x
    BY <1>2, <1>7 DEF Abs
  <2>2. m \in Slice(v)
    <3>1. i \in Int /\ 0 <= i /\ i < Pw(v) /\ j \in Int /\ 0 <= j /\ j < Ph(v)
      BY <1>1, <1>2, <1>7, <2>1 DEF x, y, Abs
    <3> HIDE DEF i, j
    <3> QED BY <3>1, SliceCells
  <2>3. m = Ahead(p, s, a) /\ q = Ahead(m, t, b)
    <3>1. a * s[1] = x /\ a * s[2] = a /\ b * t[1] = 0 /\ b * t[2] = b
      <4> HIDE DEF a, b
      <4> QED BY <2>1, Units
    <3>2. /\ p[1] + x = i /\ p[2] + a = j
          /\ i + 0 = q[1] /\ j + b = q[2]
      BY <1>1, <1>2, <1>7, <2>1 DEF x, y, Abs
    <3>3. Ahead(p, s, a) = <<p[1] + a * s[1], p[2] + a * s[2]>> /\ Ahead(m, t, b) = <<i + b * t[1], j + b * t[2]>>
      BY DEF Ahead
    <3> HIDE DEF a, b, s, t, i, j
    <3> QED BY <1>1, <3>1, <3>2, <3>3
  <2>4. s \in After /\ t \in After
    BY <1>5, <2>1
  <2>5. a * Way(s) = Diagonal * a /\ b * Way(t) = Unit * b
    <3>1. a = 0 \/ Way(s) = Diagonal
      BY <1>6, <2>1
    <3>2. b = 0 \/ Way(t) = Unit
      BY <1>6, <2>1
    <3>3. Way(s) \in Nat /\ Way(t) \in Nat
      BY <1>4, <2>4, Sideways
    <3>4. a \in Nat /\ b \in Nat
      BY <2>1
    <3> HIDE DEF a, b, s, t
    <3> QED BY <3>1, <3>2, <3>3, <3>4, Costs, FogAssumption
  <2>6. Octile(p, q) = Diagonal * a + Unit * b
    <3>1. Larger(Abs(x), Abs(y)) = a + b /\ Smaller(Abs(x), Abs(y)) = a
      BY <1>2, <1>7, <2>1 DEF Larger, Smaller, Abs
    <3>2. a \in Nat /\ b \in Nat
      BY <2>1
    <3> HIDE DEF a, b
    <3> QED BY <1>3, <3>1, <3>2, Measured
  <2> HIDE DEF a, b, s, t, m
  <2>7. f[p] <= f[q] + (a * Way(s) + b * Way(t))
    BY <1>4, <2>1, <2>2, <2>3, <2>4, TwoRuns
  <2>8. f[p] <= f[q] + (Diagonal * a + Unit * b)
    BY <2>5, <2>7
  <2>9. Diagonal * a \in Nat /\ Unit * b \in Nat
    BY <2>1, Measured
  <2>10. f[p] \in Nat /\ g[p] \in Nat /\ f[p] <= g[p] /\ f[q] = 0 /\ g[q] = 0
    OBVIOUS
  <2> QED BY <2>6, <2>8, <2>9, <2>10
(* Steep, upwards: the first pass.                                         *)
<1>8. CASE y <= 0 /\ Abs(x) <= -y
  <2> DEFINE d == IF x < 0 THEN -1 ELSE IF x = 0 THEN 0 ELSE 1
             a == Abs(x)
             b == -y - Abs(x)
             s == <<d, -1>>
             t == <<0, -1>>
             i == q[1]
             j == p[2] - a
             m == <<i, j>>
  <2>1. a \in Nat /\ b \in Nat /\ d \in {-1, 0, 1} /\ (d = 0 => a = 0) /\ (d # 0 => d \in {-1, 1}) /\ a * d = x
    BY <1>2, <1>8 DEF Abs
  <2>2. m \in Slice(v)
    <3>1. i \in Int /\ 0 <= i /\ i < Pw(v) /\ j \in Int /\ 0 <= j /\ j < Ph(v)
      BY <1>1, <1>2, <1>8, <2>1 DEF x, y, Abs
    <3> HIDE DEF i, j
    <3> QED BY <3>1, SliceCells
  <2>3. m = Ahead(p, s, a) /\ q = Ahead(m, t, b)
    <3>1. a * s[1] = x /\ a * s[2] = (-a) /\ b * t[1] = 0 /\ b * t[2] = (-b)
      <4> HIDE DEF a, b
      <4> QED BY <2>1, Units
    <3>2. /\ p[1] + x = i /\ p[2] + (-a) = j
          /\ i + 0 = q[1] /\ j + (-b) = q[2]
      BY <1>1, <1>2, <1>8, <2>1 DEF x, y, Abs
    <3>3. Ahead(p, s, a) = <<p[1] + a * s[1], p[2] + a * s[2]>> /\ Ahead(m, t, b) = <<i + b * t[1], j + b * t[2]>>
      BY DEF Ahead
    <3> HIDE DEF a, b, s, t, i, j
    <3> QED BY <1>1, <3>1, <3>2, <3>3
  <2>4. s \in Before /\ t \in Before
    BY <1>5, <2>1
  <2>5. a * Way(s) = Diagonal * a /\ b * Way(t) = Unit * b
    <3>1. a = 0 \/ Way(s) = Diagonal
      BY <1>6, <2>1
    <3>2. b = 0 \/ Way(t) = Unit
      BY <1>6, <2>1
    <3>3. Way(s) \in Nat /\ Way(t) \in Nat
      BY <1>4, <2>4, Sideways
    <3>4. a \in Nat /\ b \in Nat
      BY <2>1
    <3> HIDE DEF a, b, s, t
    <3> QED BY <3>1, <3>2, <3>3, <3>4, Costs, FogAssumption
  <2>6. Octile(p, q) = Diagonal * a + Unit * b
    <3>1. Larger(Abs(x), Abs(y)) = a + b /\ Smaller(Abs(x), Abs(y)) = a
      BY <1>2, <1>8, <2>1 DEF Larger, Smaller, Abs
    <3>2. a \in Nat /\ b \in Nat
      BY <2>1
    <3> HIDE DEF a, b
    <3> QED BY <1>3, <3>1, <3>2, Measured
  <2> HIDE DEF a, b, s, t, m
  <2>7. g[p] <= g[q] + (a * Way(s) + b * Way(t))
    BY <1>4, <2>1, <2>2, <2>3, <2>4, TwoRuns
  <2>8. g[p] <= g[q] + (Diagonal * a + Unit * b)
    BY <2>5, <2>7
  <2>9. Diagonal * a \in Nat /\ Unit * b \in Nat
    BY <2>1, Measured
  <2>10. f[p] \in Nat /\ g[p] \in Nat /\ f[p] <= g[p] /\ f[q] = 0 /\ g[q] = 0
    OBVIOUS
  <2> QED BY <2>6, <2>8, <2>9, <2>10
(* Flat, to the right and downwards: the second pass.                      *)
<1>9. CASE y >= 0 /\ y <= x
  <2> DEFINE a == x - y
             b == y
             s == <<1, 0>>
             t == <<1, 1>>
             i == p[1] + a
             j == p[2]
             m == <<i, j>>
  <2>1. a \in Nat /\ b \in Nat
    BY <1>2, <1>9 DEF Abs
  <2>2. m \in Slice(v)
    <3>1. i \in Int /\ 0 <= i /\ i < Pw(v) /\ j \in Int /\ 0 <= j /\ j < Ph(v)
      BY <1>1, <1>2, <1>9, <2>1 DEF x, y, Abs
    <3> HIDE DEF i, j
    <3> QED BY <3>1, SliceCells
  <2>3. m = Ahead(p, s, a) /\ q = Ahead(m, t, b)
    <3>1. a * s[1] = a /\ a * s[2] = 0 /\ b * t[1] = b /\ b * t[2] = b
      <4> HIDE DEF a, b
      <4> QED BY <2>1, Units
    <3>2. /\ p[1] + a = i /\ p[2] + 0 = j
          /\ i + b = q[1] /\ j + b = q[2]
      BY <1>1, <1>2, <1>9, <2>1 DEF x, y, Abs
    <3>3. Ahead(p, s, a) = <<p[1] + a * s[1], p[2] + a * s[2]>> /\ Ahead(m, t, b) = <<i + b * t[1], j + b * t[2]>>
      BY DEF Ahead
    <3> HIDE DEF a, b, s, t, i, j
    <3> QED BY <1>1, <3>1, <3>2, <3>3
  <2>4. s \in After /\ t \in After
    BY <1>5, <2>1
  <2>5. a * Way(s) = Unit * a /\ b * Way(t) = Diagonal * b
    <3>1. a = 0 \/ Way(s) = Unit
      BY <1>6, <2>1
    <3>2. b = 0 \/ Way(t) = Diagonal
      BY <1>6, <2>1
    <3>3. Way(s) \in Nat /\ Way(t) \in Nat
      BY <1>4, <2>4, Sideways
    <3>4. a \in Nat /\ b \in Nat
      BY <2>1
    <3> HIDE DEF a, b, s, t
    <3> QED BY <3>1, <3>2, <3>3, <3>4, Costs, FogAssumption
  <2>6. Octile(p, q) = Unit * a + Diagonal * b
    <3>1. Larger(Abs(x), Abs(y)) = a + b /\ Smaller(Abs(x), Abs(y)) = b
      BY <1>2, <1>9, <2>1 DEF Larger, Smaller, Abs
    <3>2. a \in Nat /\ b \in Nat
      BY <2>1
    <3> HIDE DEF a, b
    <3> QED BY <1>3, <3>1, <3>2, Measured
  <2> HIDE DEF a, b, s, t, m
  <2>7. f[p] <= f[q] + (a * Way(s) + b * Way(t))
    BY <1>4, <2>1, <2>2, <2>3, <2>4, TwoRuns
  <2>8. f[p] <= f[q] + (Unit * a + Diagonal * b)
    BY <2>5, <2>7
  <2>9. Unit * a \in Nat /\ Diagonal * b \in Nat
    BY <2>1, Measured
  <2>10. f[p] \in Nat /\ g[p] \in Nat /\ f[p] <= g[p] /\ f[q] = 0 /\ g[q] = 0
    OBVIOUS
  <2> QED BY <2>6, <2>8, <2>9, <2>10
(* Flat, to the right and upwards: the second pass, then the first.        *)
<1>10. CASE y <= 0 /\ -y <= x
  <2> DEFINE a == x + y
             b == -y
             s == <<1, 0>>
             t == <<1, -1>>
             i == p[1] + a
             j == p[2]
             m == <<i, j>>
  <2>1. a \in Nat /\ b \in Nat
    BY <1>2, <1>10 DEF Abs
  <2>2. m \in Slice(v)
    <3>1. i \in Int /\ 0 <= i /\ i < Pw(v) /\ j \in Int /\ 0 <= j /\ j < Ph(v)
      BY <1>1, <1>2, <1>10, <2>1 DEF x, y, Abs
    <3> HIDE DEF i, j
    <3> QED BY <3>1, SliceCells
  <2>3. m = Ahead(p, s, a) /\ q = Ahead(m, t, b)
    <3>1. a * s[1] = a /\ a * s[2] = 0 /\ b * t[1] = b /\ b * t[2] = (-b)
      <4> HIDE DEF a, b
      <4> QED BY <2>1, Units
    <3>2. /\ p[1] + a = i /\ p[2] + 0 = j
          /\ i + b = q[1] /\ j + (-b) = q[2]
      BY <1>1, <1>2, <1>10, <2>1 DEF x, y, Abs
    <3>3. Ahead(p, s, a) = <<p[1] + a * s[1], p[2] + a * s[2]>> /\ Ahead(m, t, b) = <<i + b * t[1], j + b * t[2]>>
      BY DEF Ahead
    <3> HIDE DEF a, b, s, t, i, j
    <3> QED BY <1>1, <3>1, <3>2, <3>3
  <2>4. s \in After /\ t \in Before
    BY <1>5, <2>1
  <2>5. a * Way(s) = Unit * a /\ b * Way(t) = Diagonal * b
    <3>1. a = 0 \/ Way(s) = Unit
      BY <1>6, <2>1
    <3>2. b = 0 \/ Way(t) = Diagonal
      BY <1>6, <2>1
    <3>3. Way(s) \in Nat /\ Way(t) \in Nat
      BY <1>4, <2>4, Sideways
    <3>4. a \in Nat /\ b \in Nat
      BY <2>1
    <3> HIDE DEF a, b, s, t
    <3> QED BY <3>1, <3>2, <3>3, <3>4, Costs, FogAssumption
  <2>6. Octile(p, q) = Unit * a + Diagonal * b
    <3>1. Larger(Abs(x), Abs(y)) = a + b /\ Smaller(Abs(x), Abs(y)) = b
      BY <1>2, <1>10, <2>1 DEF Larger, Smaller, Abs
    <3>2. a \in Nat /\ b \in Nat
      BY <2>1
    <3> HIDE DEF a, b
    <3> QED BY <1>3, <3>1, <3>2, Measured
  <2> HIDE DEF a, b, s, t, m
  <2>7. f[p] <= g[q] + (a * Way(s) + b * Way(t))
    BY <1>4, <2>1, <2>2, <2>3, <2>4, TwoRuns
  <2>8. f[p] <= g[q] + (Unit * a + Diagonal * b)
    BY <2>5, <2>7
  <2>9. Unit * a \in Nat /\ Diagonal * b \in Nat
    BY <2>1, Measured
  <2>10. f[p] \in Nat /\ g[p] \in Nat /\ f[p] <= g[p] /\ f[q] = 0 /\ g[q] = 0
    OBVIOUS
  <2> QED BY <2>6, <2>8, <2>9, <2>10
(* Flat, to the left and upwards: the first pass.                          *)
<1>11. CASE y <= 0 /\ -y <= -x
  <2> DEFINE a == y - x
             b == -y
             s == <<-1, 0>>
             t == <<-1, -1>>
             i == p[1] - a
             j == p[2]
             m == <<i, j>>
  <2>1. a \in Nat /\ b \in Nat
    BY <1>2, <1>11 DEF Abs
  <2>2. m \in Slice(v)
    <3>1. i \in Int /\ 0 <= i /\ i < Pw(v) /\ j \in Int /\ 0 <= j /\ j < Ph(v)
      BY <1>1, <1>2, <1>11, <2>1 DEF x, y, Abs
    <3> HIDE DEF i, j
    <3> QED BY <3>1, SliceCells
  <2>3. m = Ahead(p, s, a) /\ q = Ahead(m, t, b)
    <3>1. a * s[1] = (-a) /\ a * s[2] = 0 /\ b * t[1] = (-b) /\ b * t[2] = (-b)
      <4> HIDE DEF a, b
      <4> QED BY <2>1, Units
    <3>2. /\ p[1] + (-a) = i /\ p[2] + 0 = j
          /\ i + (-b) = q[1] /\ j + (-b) = q[2]
      BY <1>1, <1>2, <1>11, <2>1 DEF x, y, Abs
    <3>3. Ahead(p, s, a) = <<p[1] + a * s[1], p[2] + a * s[2]>> /\ Ahead(m, t, b) = <<i + b * t[1], j + b * t[2]>>
      BY DEF Ahead
    <3> HIDE DEF a, b, s, t, i, j
    <3> QED BY <1>1, <3>1, <3>2, <3>3
  <2>4. s \in Before /\ t \in Before
    BY <1>5, <2>1
  <2>5. a * Way(s) = Unit * a /\ b * Way(t) = Diagonal * b
    <3>1. a = 0 \/ Way(s) = Unit
      BY <1>6, <2>1
    <3>2. b = 0 \/ Way(t) = Diagonal
      BY <1>6, <2>1
    <3>3. Way(s) \in Nat /\ Way(t) \in Nat
      BY <1>4, <2>4, Sideways
    <3>4. a \in Nat /\ b \in Nat
      BY <2>1
    <3> HIDE DEF a, b, s, t
    <3> QED BY <3>1, <3>2, <3>3, <3>4, Costs, FogAssumption
  <2>6. Octile(p, q) = Unit * a + Diagonal * b
    <3>1. Larger(Abs(x), Abs(y)) = a + b /\ Smaller(Abs(x), Abs(y)) = b
      BY <1>2, <1>11, <2>1 DEF Larger, Smaller, Abs
    <3>2. a \in Nat /\ b \in Nat
      BY <2>1
    <3> HIDE DEF a, b
    <3> QED BY <1>3, <3>1, <3>2, Measured
  <2> HIDE DEF a, b, s, t, m
  <2>7. g[p] <= g[q] + (a * Way(s) + b * Way(t))
    BY <1>4, <2>1, <2>2, <2>3, <2>4, TwoRuns
  <2>8. g[p] <= g[q] + (Unit * a + Diagonal * b)
    BY <2>5, <2>7
  <2>9. Unit * a \in Nat /\ Diagonal * b \in Nat
    BY <2>1, Measured
  <2>10. f[p] \in Nat /\ g[p] \in Nat /\ f[p] <= g[p] /\ f[q] = 0 /\ g[q] = 0
    OBVIOUS
  <2> QED BY <2>6, <2>8, <2>9, <2>10
(* Flat, to the left and downwards: the second pass, then the first.       *)
<1>12. CASE y >= 0 /\ y <= -x
  <2> DEFINE a == y
             b == -x - y
             s == <<-1, 1>>
             t == <<-1, 0>>
             i == p[1] - a
             j == p[2] + a
             m == <<i, j>>
  <2>1. a \in Nat /\ b \in Nat
    BY <1>2, <1>12 DEF Abs
  <2>2. m \in Slice(v)
    <3>1. i \in Int /\ 0 <= i /\ i < Pw(v) /\ j \in Int /\ 0 <= j /\ j < Ph(v)
      BY <1>1, <1>2, <1>12, <2>1 DEF x, y, Abs
    <3> HIDE DEF i, j
    <3> QED BY <3>1, SliceCells
  <2>3. m = Ahead(p, s, a) /\ q = Ahead(m, t, b)
    <3>1. a * s[1] = (-a) /\ a * s[2] = a /\ b * t[1] = (-b) /\ b * t[2] = 0
      <4> HIDE DEF a, b
      <4> QED BY <2>1, Units
    <3>2. /\ p[1] + (-a) = i /\ p[2] + a = j
          /\ i + (-b) = q[1] /\ j + 0 = q[2]
      BY <1>1, <1>2, <1>12, <2>1 DEF x, y, Abs
    <3>3. Ahead(p, s, a) = <<p[1] + a * s[1], p[2] + a * s[2]>> /\ Ahead(m, t, b) = <<i + b * t[1], j + b * t[2]>>
      BY DEF Ahead
    <3> HIDE DEF a, b, s, t, i, j
    <3> QED BY <1>1, <3>1, <3>2, <3>3
  <2>4. s \in After /\ t \in Before
    BY <1>5, <2>1
  <2>5. a * Way(s) = Diagonal * a /\ b * Way(t) = Unit * b
    <3>1. a = 0 \/ Way(s) = Diagonal
      BY <1>6, <2>1
    <3>2. b = 0 \/ Way(t) = Unit
      BY <1>6, <2>1
    <3>3. Way(s) \in Nat /\ Way(t) \in Nat
      BY <1>4, <2>4, Sideways
    <3>4. a \in Nat /\ b \in Nat
      BY <2>1
    <3> HIDE DEF a, b, s, t
    <3> QED BY <3>1, <3>2, <3>3, <3>4, Costs, FogAssumption
  <2>6. Octile(p, q) = Diagonal * a + Unit * b
    <3>1. Larger(Abs(x), Abs(y)) = a + b /\ Smaller(Abs(x), Abs(y)) = a
      BY <1>2, <1>12, <2>1 DEF Larger, Smaller, Abs
    <3>2. a \in Nat /\ b \in Nat
      BY <2>1
    <3> HIDE DEF a, b
    <3> QED BY <1>3, <3>1, <3>2, Measured
  <2> HIDE DEF a, b, s, t, m
  <2>7. f[p] <= g[q] + (a * Way(s) + b * Way(t))
    BY <1>4, <2>1, <2>2, <2>3, <2>4, TwoRuns
  <2>8. f[p] <= g[q] + (Diagonal * a + Unit * b)
    BY <2>5, <2>7
  <2>9. Diagonal * a \in Nat /\ Unit * b \in Nat
    BY <2>1, Measured
  <2>10. f[p] \in Nat /\ g[p] \in Nat /\ f[p] <= g[p] /\ f[q] = 0 /\ g[q] = 0
    OBVIOUS
  <2> QED BY <2>6, <2>8, <2>9, <2>10
<1> QED BY <1>2, <1>7, <1>8, <1>9, <1>10, <1>11, <1>12 DEF Abs

-----------------------------------------------------------------------------
(* What a view shows of the fog is the distance in the world. *)

(* The way over h cells along one side and k along the other.              *)
Cost(h, k) == Unit * Larger(h, k) + (Diagonal - Unit) * Smaller(h, k)

LEMMA CostGrows ==
  ASSUME NEW h \in Nat, NEW k \in Nat
  PROVE  Cost(h, k) \in Nat /\ Cost(h, k) = Cost(k, h) /\ Unit * h <= Cost(h, k)
<1>1. /\ Larger(h, k) \in Nat /\ Smaller(h, k) \in Nat /\ h <= Larger(h, k)
      /\ Larger(h, k) = Larger(k, h) /\ Smaller(h, k) = Smaller(k, h)
  BY DEF Larger, Smaller
<1>2. Unit * h \in Nat /\ Unit * Larger(h, k) \in Nat /\ Unit * h <= Unit * Larger(h, k)
  BY <1>1, FogAssumption, Growing
<1>3. Diagonal - Unit \in Nat
  BY FogAssumption
<1>4. (Diagonal - Unit) * Smaller(h, k) \in Nat
  BY <1>1, <1>3
<1> QED BY <1>1, <1>2, <1>4 DEF Cost

(* A cell less on one side or on both is a step less.                      *)
LEMMA CostSteps ==
  ASSUME NEW h \in Nat, NEW k \in Nat, NEW l \in Nat, NEW m \in Nat, h <= l + 1, k <= m + 1
  PROVE  /\ Cost(h, k) <= Cost(l, m) + Diagonal
         /\ h = l \/ k = m => Cost(h, k) <= Cost(l, m) + Unit
<1> DEFINE E == Diagonal - Unit
           A == Larger(h, k)
           B == Smaller(h, k)
           C == Larger(l, m)
           D == Smaller(l, m)
<1>1. Unit \in Nat /\ E \in Nat /\ E <= Unit /\ Diagonal = Unit + E
  BY FogAssumption
<1>2. A \in Nat /\ B \in Nat /\ C \in Nat /\ D \in Nat /\ A <= C + 1 /\ B <= D + 1
  BY DEF Larger, Smaller
<1>3. h = l \/ k = m => A <= C \/ B <= D
  BY DEF Larger, Smaller
<1>4. Cost(h, k) = Unit * A + E * B /\ Cost(l, m) = Unit * C + E * D
  BY DEF Cost
<1> HIDE DEF A, B, C, D, E
<1>5. /\ Unit * A <= Unit * (C + 1) /\ Unit * (C + 1) = Unit * C + Unit
      /\ E * B <= E * (D + 1) /\ E * (D + 1) = E * D + E
  BY <1>1, <1>2, Growing
<1>6. (A <= C => Unit * A <= Unit * C) /\ (B <= D => E * B <= E * D)
  BY <1>1, <1>2, Growing
<1>7. Unit * A \in Nat /\ Unit * C \in Nat /\ E * B \in Nat /\ E * D \in Nat
  BY <1>1, <1>2
<1> QED BY <1>1, <1>3, <1>4, <1>5, <1>6, <1>7

LEMMA OctileNat ==
  ASSUME NEW a \in Spots, NEW b \in Spots
  PROVE  /\ Octile(a, b) \in Nat /\ Octile(a, a) = 0
         /\ Octile(a, b) = Cost(Abs(a[1] - b[1]), Abs(a[2] - b[2]))
         /\ Unit * Abs(a[1] - b[1]) <= Octile(a, b) /\ Unit * Abs(a[2] - b[2]) <= Octile(a, b)
<1>1. /\ a[1] - a[1] = 0 /\ a[2] - a[2] = 0
      /\ Abs(a[1] - b[1]) \in Nat /\ Abs(a[2] - b[2]) \in Nat
  BY DEF Spots, Abs
<1>2. /\ Octile(a, b) = Cost(Abs(a[1] - b[1]), Abs(a[2] - b[2]))
      /\ Octile(a, a) = Cost(Abs(a[1] - a[1]), Abs(a[2] - a[2]))
  BY DEF Octile, Cost
<1>3. Octile(a, a) = 0
  <2>1. Larger(0, 0) = 0 /\ Smaller(0, 0) = 0 /\ Abs(0) = 0
    BY DEF Larger, Smaller, Abs
  <2>2. Cost(0, 0) = Unit * 0 + (Diagonal - Unit) * 0
    BY <2>1 DEF Cost
  <2>3. Unit \in Nat /\ Diagonal - Unit \in Nat
    BY FogAssumption
  <2>4. Unit * 0 = 0 /\ (Diagonal - Unit) * 0 = 0
    BY <2>3
  <2> QED BY <1>1, <1>2, <2>1, <2>2, <2>4
<1> QED BY <1>1, <1>2, <1>3, CostGrows

LEMMA OctileStep ==
  ASSUME NEW a \in Spots, NEW b \in Spots, NEW s \in Sides
  PROVE  Ahead(a, s, 1) \in Spots /\ Octile(a, b) <= Octile(Ahead(a, s, 1), b) + Way(s)
<1> DEFINE x == a[1] - b[1]
           y == a[2] - b[2]
<1>1. a[1] \in Int /\ a[2] \in Int /\ b[1] \in Int /\ b[2] \in Int /\ s[1] \in {-1, 0, 1} /\ s[2] \in {-1, 0, 1}
  BY DEF Spots, Sides
<1>2. Ahead(a, s, 1) = <<a[1] + s[1], a[2] + s[2]>> /\ Ahead(a, s, 1) \in Spots
  BY <1>1 DEF Ahead, Spots
<1>3. x \in Int /\ y \in Int /\ (a[1] + s[1]) - b[1] = x + s[1] /\ (a[2] + s[2]) - b[2] = y + s[2]
  BY <1>1
<1>4. /\ Octile(a, b) = Cost(Abs(x), Abs(y))
      /\ Octile(Ahead(a, s, 1), b) = Cost(Abs(x + s[1]), Abs(y + s[2]))
  BY <1>2, <1>3, OctileNat
<1> HIDE DEF x, y
<1>5. PICK h \in Nat, k \in Nat, l \in Nat, m \in Nat :
        h = Abs(x) /\ k = Abs(y) /\ l = Abs(x + s[1]) /\ m = Abs(y + s[2])
  <2>1. Abs(x) \in Nat /\ Abs(y) \in Nat /\ Abs(x + s[1]) \in Nat /\ Abs(y + s[2]) \in Nat
    BY <1>1, <1>3 DEF Abs
  <2> QED BY <2>1
<1>6. h <= l + 1 /\ k <= m + 1 /\ (s[1] = 0 => h = l) /\ (s[2] = 0 => k = m)
  BY <1>1, <1>3, <1>5 DEF Abs
<1>7. Cost(h, k) <= Cost(l, m) + Way(s)
  <2>1. Way(s) = IF s[1] = 0 \/ s[2] = 0 THEN Unit ELSE Diagonal
    BY DEF Way
  <2> QED BY <1>6, <2>1, CostSteps
<1> QED BY <1>2, <1>4, <1>5, <1>7

(* Beyond the gradient the fog is whole.                                   *)
LEMMA FogWhole ==
  ASSUME NEW d \in Nat, d >= Unit * Grad
  PROVE  FogAt(d) = Unit * (Grad - Clear)
<1>1. CASE d <= Unit * Clear
  <2>1. Unit * Clear = Unit * Grad
    BY <1>1, FogAssumption
  <2>2. Unit * (Grad - Clear) = Unit * Grad - Unit * Clear
    BY FogAssumption
  <2> QED BY <1>1, <2>1, <2>2, FogAssumption DEF FogAt
<1>2. CASE d > Unit * Clear
  BY <1>2, FogAssumption DEF FogAt
<1> QED BY <1>1, <1>2, FogAssumption

LEMMA SliceInWorld ==
  ASSUME NEW v \in Views, NEW c \in Slice(v)
  PROVE  /\ InWorld(v, c) \in Spots
         /\ \A s \in Sides : InWorld(v, Ahead(c, s, 1)) = Ahead(InWorld(v, c), s, 1)
         /\ \A e \in Slice(v) : Octile(InWorld(v, c), InWorld(v, e)) = Octile(c, e)
<1>1. c[1] \in Int /\ c[2] \in Int /\ v.x \in Int /\ v.y \in Int /\ Pad \in Nat
  BY SliceCells, ViewSizes, FogAssumption
<1>2. InWorld(v, c) = <<v.x + c[1] - Pad, v.y + c[2] - Pad>>
  BY DEF InWorld
<1>3. InWorld(v, c) \in Spots
  BY <1>1, <1>2 DEF Spots
<1>4. ASSUME NEW s \in Sides PROVE InWorld(v, Ahead(c, s, 1)) = Ahead(InWorld(v, c), s, 1)
  <2>1. s[1] \in Int /\ s[2] \in Int
    BY DEF Sides
  <2> QED BY <1>1, <2>1 DEF InWorld, Ahead
<1>5. ASSUME NEW e \in Slice(v) PROVE Octile(InWorld(v, c), InWorld(v, e)) = Octile(c, e)
  <2>1. e[1] \in Int /\ e[2] \in Int
    BY SliceCells
  <2>2. /\ (v.x + c[1] - Pad) - (v.x + e[1] - Pad) = c[1] - e[1]
        /\ (v.y + c[2] - Pad) - (v.y + e[2] - Pad) = c[2] - e[2]
    BY <1>1, <2>1
  <2>3. InWorld(v, e) = <<v.x + e[1] - Pad, v.y + e[2] - Pad>>
    BY DEF InWorld
  <2> QED BY <1>2, <2>2, <2>3 DEF Octile
<1> QED BY <1>3, <1>4, <1>5

(* What the passes start from, and what bounds them from below.            *)
Seeds(v, u) ==
  [c \in Slice(v) |-> IF InWorld(v, c) \in Cells /\ tile[InWorld(v, c)] = u THEN 0 ELSE TooFar]

Ways(a, u) == {Octile(a, c) : c \in {c \in Cells : tile[c] = u}} \cup {TooFar}

Nearest(v, u) == [c \in Slice(v) |-> Lowest(Ways(InWorld(v, c), u))]

LEMMA WaysLowest ==
  ASSUME NEW a \in Spots, NEW u
  PROVE  /\ Lowest(Ways(a, u)) \in Nat /\ Lowest(Ways(a, u)) <= TooFar
         /\ \A c \in Cells : tile[c] = u => Lowest(Ways(a, u)) <= Octile(a, c)
         /\ \/ Lowest(Ways(a, u)) = TooFar
            \/ \E c \in Cells : tile[c] = u /\ Lowest(Ways(a, u)) = Octile(a, c)
<1>1. Cells \subseteq Spots
  BY FieldAssumption DEF Cells, Spots
<1>2. Ways(a, u) \in SUBSET Nat /\ Ways(a, u) # {}
  <2>1. \A c \in Cells : Octile(a, c) \in Nat
    BY <1>1, OctileNat
  <2> QED BY <2>1, FogAssumption DEF Ways
<1>3. Lowest(Ways(a, u)) \in Ways(a, u) /\ \A m \in Ways(a, u) : Lowest(Ways(a, u)) <= m
  BY <1>2, LowestOf
<1>4. /\ TooFar \in Ways(a, u)
      /\ \A c \in Cells : tile[c] = u => Octile(a, c) \in Ways(a, u)
      /\ \A m \in Ways(a, u) : m = TooFar \/ \E c \in Cells : tile[c] = u /\ m = Octile(a, c)
  BY DEF Ways
<1> QED BY <1>2, <1>3, <1>4

LEMMA NearestBelow ==
  ASSUME NEW v \in Views, NEW u
  PROVE  /\ Seeds(v, u) \in [Slice(v) -> Nat] /\ Nearest(v, u) \in [Slice(v) -> Nat]
         /\ \A c \in Slice(v) : Nearest(v, u)[c] <= Seeds(v, u)[c]
         /\ Settled(v, Nearest(v, u), Sides)
<1>1. Seeds(v, u) \in [Slice(v) -> Nat]
  BY FogAssumption DEF Seeds
<1>2. \A c \in Slice(v) : Nearest(v, u)[c] = Lowest(Ways(InWorld(v, c), u))
  BY DEF Nearest
<1>3. Nearest(v, u) \in [Slice(v) -> Nat]
  BY SliceInWorld, WaysLowest DEF Nearest
<1>4. ASSUME NEW c \in Slice(v) PROVE Nearest(v, u)[c] <= Seeds(v, u)[c]
  <2>1. InWorld(v, c) \in Spots
    BY SliceInWorld
  <2>2. CASE InWorld(v, c) \in Cells /\ tile[InWorld(v, c)] = u
    <3>1. Lowest(Ways(InWorld(v, c), u)) <= Octile(InWorld(v, c), InWorld(v, c))
      BY <2>1, <2>2, WaysLowest
    <3>2. Octile(InWorld(v, c), InWorld(v, c)) = 0
      BY <2>1, OctileNat
    <3>3. Seeds(v, u)[c] = 0
      BY <2>2 DEF Seeds
    <3> QED BY <1>2, <3>1, <3>2, <3>3
  <2>3. CASE ~(InWorld(v, c) \in Cells /\ tile[InWorld(v, c)] = u)
    <3>1. Seeds(v, u)[c] = TooFar
      BY <2>3 DEF Seeds
    <3>2. Lowest(Ways(InWorld(v, c), u)) <= TooFar
      BY <2>1, WaysLowest
    <3> QED BY <1>2, <3>1, <3>2
  <2> QED BY <2>2, <2>3
<1>5. ASSUME NEW c \in Slice(v), NEW s \in Sides, Ahead(c, s, 1) \in Slice(v)
      PROVE  Nearest(v, u)[c] <= Nearest(v, u)[Ahead(c, s, 1)] + Way(s)
  <2> DEFINE a == InWorld(v, c)
             b == Ahead(a, s, 1)
  <2>1. a \in Spots /\ b \in Spots /\ InWorld(v, Ahead(c, s, 1)) = b
    BY SliceInWorld, OctileStep
  <2>2. Way(s) \in Nat
    BY Sideways
  <2>3. Nearest(v, u)[c] = Lowest(Ways(a, u)) /\ Nearest(v, u)[Ahead(c, s, 1)] = Lowest(Ways(b, u))
    BY <1>2, <1>5, <2>1
  <2>4. Cells \subseteq Spots
    BY FieldAssumption DEF Cells, Spots
  <2>5. \A t \in Cells : Octile(a, t) \in Nat /\ Octile(b, t) \in Nat /\ Octile(a, t) <= Octile(b, t) + Way(s)
    <3> HIDE DEF a
    <3> QED BY <2>1, <2>4, OctileNat, OctileStep
  <2> HIDE DEF a, b
  <2>6. Lowest(Ways(a, u)) \in Nat /\ Lowest(Ways(a, u)) <= TooFar /\ Lowest(Ways(b, u)) \in Nat
    BY <2>1, WaysLowest
  <2>7. CASE Lowest(Ways(b, u)) = TooFar
    BY <2>2, <2>3, <2>6, <2>7, FogAssumption
  <2>8. ASSUME NEW t \in Cells, tile[t] = u, Lowest(Ways(b, u)) = Octile(b, t)
        PROVE  Nearest(v, u)[c] <= Nearest(v, u)[Ahead(c, s, 1)] + Way(s)
    <3>1. Lowest(Ways(a, u)) <= Octile(a, t)
      BY <2>1, <2>8, WaysLowest
    <3> QED BY <2>2, <2>3, <2>5, <2>6, <2>8, <3>1
  <2> QED BY <2>1, <2>7, <2>8, WaysLowest
<1> QED BY <1>1, <1>3, <1>4, <1>5 DEF Settled

(* Of the two passes: no less than the nearest tile is away, wherever in   *)
(* the world, and no more than the way to any in the slice.                *)
LEMMA TwoPassBounds ==
  ASSUME NEW v \in Views, NEW u
  PROVE  /\ TwoPass(v, u) \in [Slice(v) -> Nat]
         /\ \A c \in Slice(v) : Nearest(v, u)[c] <= TwoPass(v, u)[c]
         /\ \A c, e \in Slice(v) : Seeds(v, u)[e] = 0 => TwoPass(v, u)[c] <= Octile(c, e)
<1> DEFINE n == Pw(v) * Ph(v)
           forward == [k \in 1 .. n |-> Raster(v, k - 1)]
           backward == [k \in 1 .. n |-> Raster(v, n - k)]
           low == Nearest(v, u)
           seeds == Seeds(v, u)
           g == Pass(v, n, seeds, forward, Before)
           f == Pass(v, n, g, backward, After)
<1>1. TwoPass(v, u) = f
  BY DEF TwoPass, Seeds
<1>2. /\ seeds \in [Slice(v) -> Nat] /\ low \in [Slice(v) -> Nat]
      /\ \A c \in Slice(v) : low[c] <= seeds[c]
      /\ Settled(v, low, Sides)
  BY NearestBelow
<1>3. Before \in SUBSET Sides /\ After \in SUBSET Sides
  BY Sideways
<1>4. Settled(v, low, Before) /\ Settled(v, low, After)
  <2> HIDE DEF low
  <2> QED BY <1>2, <1>3 DEF Settled
<1>5. PICK rank1 : InOrder(v, forward, rank1, n, Before)
  <2>1. InOrder(v, forward, [c \in Slice(v) |-> Place(v, c) + 1], n, Before)
    BY RowByRow
  <2> HIDE DEF forward, n
  <2> QED BY <2>1
<1>6. PICK rank2 : InOrder(v, backward, rank2, n, After)
  <2>1. InOrder(v, backward, [c \in Slice(v) |-> n - Place(v, c)], n, After)
    BY AndBack
  <2> HIDE DEF backward, n
  <2> QED BY <2>1
<1> HIDE DEF n, forward, backward, low, seeds
<1>7. /\ g \in [Slice(v) -> Nat] /\ Settled(v, g, Before)
      /\ \A c \in Slice(v) : g[c] <= seeds[c] /\ low[c] <= g[c]
  BY <1>2, <1>3, <1>4, <1>5, PassSettles
<1> HIDE DEF g
<1>8. /\ f \in [Slice(v) -> Nat] /\ Settled(v, f, After)
      /\ \A c \in Slice(v) : f[c] <= g[c] /\ low[c] <= f[c]
  BY <1>2, <1>3, <1>4, <1>6, <1>7, PassSettles
<1> HIDE DEF f
<1>9. ASSUME NEW c \in Slice(v), NEW e \in Slice(v), seeds[e] = 0 PROVE f[c] <= Octile(c, e)
  <2>1. g[e] = 0
    <3>1. g[e] \in Nat /\ g[e] <= 0
      BY <1>7, <1>9
    <3> QED BY <3>1
  <2>2. f \in [Slice(v) -> Nat] /\ g \in [Slice(v) -> Nat] /\ \A d \in Slice(v) : f[d] <= g[d]
    BY <1>7, <1>8
  <2>3. Settled(v, f, After) /\ Settled(v, g, Before)
    BY <1>7, <1>8
  <2> QED BY <2>1, <2>2, <2>3, WayUp
<1> QED BY <1>1, <1>8, <1>9 DEF low, seeds

(* The fog of a view tells every distance to the player's territory right, *)
(* up to where fog is whole, though it is measured on a slice of the world *)
(* in two passes; whatever the sizes of view, margin and gradient and the  *)
(* length of a diagonal step.                                              *)
THEOREM FogIsExact == Spec => []FogExact
<1>1. IInv => FogExact
  <2> SUFFICES ASSUME NEW v \in Views, NEW u \in Players, NEW i \in 0 .. v.w - 1, NEW j \in 0 .. v.h - 1
               PROVE  FogAt(TwoPass(v, u)[<<i + Pad, j + Pad>>]) = FogAt(Lowest(Ways(<<v.x + i, v.y + j>>, u)))
    BY DEF FogExact, Ways
  <2> DEFINE c == <<i + Pad, j + Pad>>
             a == <<v.x + i, v.y + j>>
             d == TwoPass(v, u)[c]
             low == Lowest(Ways(a, u))
  <2>1. /\ v.x \in Int /\ v.y \in Int /\ v.w \in Nat /\ v.h \in Nat /\ Pad \in Nat /\ Grad \in Nat /\ Grad <= Pad
        /\ Pw(v) = v.w + 2 * Pad /\ Ph(v) = v.h + 2 * Pad
    BY ViewSizes, FogAssumption
  <2>2. c \in Slice(v)
    BY <2>1, SliceCells
  <2>3. InWorld(v, c) = a
    BY <2>1 DEF InWorld
  <2>4. Nearest(v, u)[c] = low
    BY <2>2, <2>3 DEF Nearest
  <2>5. a \in Spots
    BY <2>1 DEF Spots
  <2>6. low \in Nat /\ (low = TooFar \/ \E t \in Cells : tile[t] = u /\ low = Octile(a, t))
    BY <2>5, WaysLowest
  <2>7. d \in Nat /\ low <= d
    BY <2>2, <2>4, TwoPassBounds
  <2> HIDE DEF d, low
  <2>8. CASE low >= Unit * Grad
    <3>1. d >= Unit * Grad
      BY <2>6, <2>7, <2>8, FogAssumption
    <3> QED BY <2>6, <2>7, <2>8, <3>1, FogWhole DEF d, low
  <2>9. CASE low < Unit * Grad
    <3>1. PICK t \in Cells : tile[t] = u /\ low = Octile(a, t)
      BY <2>6, <2>9, FogAssumption
    <3> DEFINE e == <<t[1] - v.x + Pad, t[2] - v.y + Pad>>
    <3>2. t \in Spots /\ t = <<t[1], t[2]>> /\ t[1] \in Int /\ t[2] \in Int
      BY FieldAssumption DEF Cells, Spots
    <3>3. Abs(a[1] - t[1]) < Pad /\ Abs(a[2] - t[2]) < Pad
      <4>1. Unit * Abs(a[1] - t[1]) <= low /\ Unit * Abs(a[2] - t[2]) <= low
        BY <2>5, <3>1, <3>2, OctileNat
      <4>2. Abs(a[1] - t[1]) \in Nat /\ Abs(a[2] - t[2]) \in Nat
        BY <2>5, <3>2 DEF Spots, Abs
      <4>3. ASSUME NEW k \in Nat, Unit * k <= low PROVE k < Grad
        <5>1. k >= Grad => Unit * Grad <= Unit * k
          BY FogAssumption, Growing
        <5>2. Unit * k \in Nat
          BY FogAssumption
        <5> QED BY <2>1, <2>6, <2>9, <4>3, <5>1, <5>2, FogAssumption
      <4>4. Abs(a[1] - t[1]) < Grad /\ Abs(a[2] - t[2]) < Grad
        BY <4>1, <4>2, <4>3
      <4> QED BY <2>1, <4>2, <4>4
    <3>4. e \in Slice(v)
      BY <2>1, <3>2, <3>3, SliceCells DEF Abs
    <3>5. InWorld(v, e) = t
      BY <2>1, <3>2 DEF InWorld
    <3>6. Seeds(v, u)[e] = 0
      BY <3>1, <3>4, <3>5 DEF Seeds
    <3>7. d <= Octile(c, e)
      BY <2>2, <3>4, <3>6, TwoPassBounds DEF d
    <3>8. Octile(c, e) = low
      BY <2>2, <2>3, <3>1, <3>4, <3>5, SliceInWorld
    <3>9. d = low
      BY <2>6, <2>7, <3>7, <3>8
    <3> QED BY <3>9 DEF d, low
  <2> QED BY <2>6, <2>8, <2>9, FogAssumption DEF d, low
<1> QED BY <1>1, Invariance, PTL
==============================================================================
