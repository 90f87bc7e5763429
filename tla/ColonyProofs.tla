----------------------------- MODULE ColonyProofs -----------------------------
(***************************************************************************)
(* Proofs about what queens and players earn and lose, for any users, NPCs,*)
(* levels, gates, prices and grants, in two parts.  IInv carries the kills,*)
(* the unlocks and what the fallen hold; it needs no arithmetic on hp.     *)
(* JInv adds what hp, pools and purses need, with the sums over the armies *)
(* that the bites and the count of all ants are.                           *)
(***************************************************************************)
EXTENDS Colony, FiniteSetTheorems, WellFoundedInduction, TLAPS

-----------------------------------------------------------------------------
(* The inductive invariant. *)

QueenFields == {"dead", "hp", "level", "xp", "kills", "shield", "attacker"}

Queenly(q) ==
  /\ DOMAIN q = QueenFields
  /\ q.dead \in BOOLEAN /\ q.level \in Levels /\ q.xp \in Nat /\ q.kills \in Nat
  /\ q.attacker \in Ids \cup {Nobody}

Queens(qs) == qs = [u \in Ids |-> qs[u]] /\ \A u \in Ids : qs[u] # NoQueen => Queenly(qs[u])

PlayerFields == {"ready", "credits", "lifetime", "rivals", "guards"}

Playerly(p) == DOMAIN p = PlayerFields /\ p.lifetime \in Nat /\ p.rivals \in Nat

Players(ps) == ps = [u \in Ids |-> ps[u]] /\ \A u \in Ids : Playerly(ps[u])

(* The kills a tick has still to carry out.                                *)
Ticking(t) ==
  /\ DOMAIN t = {"at", "list"}
  /\ \A k \in t.list : k.loser \in Ids /\ k.winner \in Ids \cup {Nobody}

Typed ==
  /\ Queens(queen) /\ Players(player) /\ Ticking(tick)
  /\ peak \in [Users -> Nat] /\ starters \in [Users -> Nat] /\ unfolded \in [Users -> Nat]
  /\ workers \in [Ids -> Nat] /\ brutes \in [Ids -> Nat] /\ xpq \in [Ids -> Nat]
  /\ land \subseteq Ids /\ raised \subseteq Users

(* A peak that was raised silently is past the gate, so no path pays for   *)
(* it any more.                                                            *)
RaisedPast == \A u \in raised : peak[u] >= Shop

(* In the middle of a tick too. *)
Covered == \A u \in Users \ skipped : Live(u) => queen[u].level <= Larger(peak[u], 1)

FallenBare ==
  \A u \in Ids \ gifted : ~Live(u) => u \notin land /\ workers[u] = 0 /\ brutes[u] = 0

IInv == Typed /\ KillsFolded /\ StarterOnce /\ RaisedPast /\ Covered /\ FallenBare

-----------------------------------------------------------------------------
(* Levels. *)

LEMMA Constants ==
  /\ Cap \in Nat /\ Cap >= 1 /\ Levels = 1 .. Cap /\ Levels \subseteq Nat /\ 1 \in Levels
  /\ Shop \in Nat /\ Nobody \notin Ids /\ Users \subseteq Ids /\ KillXp \in Nat
BY ColonyAssumption DEF Shop, Ids

(* level_for_xp is a level, whatever the xp.                               *)
LEMMA LevelForType ==
  ASSUME NEW xp \in Nat
  PROVE  LevelFor(xp) \in Levels
<1> DEFINE reached == {l \in Levels : XpOf[l] <= xp}
           left == {Cap - l : l \in reached}
<1>1. 1 \in reached /\ reached \subseteq Levels
  BY Constants, ColonyAssumption
<1>2. left \subseteq Nat /\ left # {}
  <2>1. \A l \in reached : Cap - l \in Nat
    BY Constants
  <2> QED BY <1>1, <2>1
<1> HIDE DEF left
<1>3. \E n \in left : \A m \in left : ~(<<m, n>> \in OpToRel(<, Nat))
  BY <1>2, NatLessThanWellFounded, WFMin
<1>4. PICK n \in left : \A m \in left : ~(m < n)
  BY <1>2, <1>3 DEF OpToRel
<1>5. PICK l \in reached : n = Cap - l
  BY DEF left
<1>6. \A m \in reached : m <= l
  <2> SUFFICES ASSUME NEW m \in reached PROVE m <= l
    OBVIOUS
  <2>1. Cap - m \in left
    BY DEF left
  <2> QED BY <1>4, <1>5, <2>1, Constants
<1>7. l \in Levels /\ XpOf[l] <= xp /\ \A m \in Levels : XpOf[m] <= xp => m <= l
  BY <1>6
<1> QED BY <1>7 DEF LevelFor

(* A queen that grows stays the same queen, and never loses a level.       *)
LEMMA GrownKeeps ==
  ASSUME NEW q, Queenly(q), NEW amount \in Nat
  PROVE  /\ Queenly(Grown(q, amount)) /\ Grown(q, amount) # NoQueen
         /\ Grown(q, amount).dead = q.dead /\ Grown(q, amount).kills = q.kills
         /\ Grown(q, amount).level \in Levels /\ Grown(q, amount).level >= q.level
<1>1. PICK xp : xp = q.xp + amount
  OBVIOUS
<1>2. PICK level : level = Larger(q.level, LevelFor(xp))
  OBVIOUS
<1>3. PICK hp : hp = Smaller(q.hp + (HpOf[level] - HpOf[q.level]), HpOf[level])
  OBVIOUS
<1>4. xp \in Nat /\ level \in Levels /\ level >= q.level
  <2>1. xp \in Nat /\ q.level \in Levels
    BY <1>1 DEF Queenly
  <2>2. LevelFor(xp) \in Levels
    BY <2>1, LevelForType
  <2> QED BY <1>2, <2>1, <2>2, Constants DEF Larger
<1>5. Grown(q, amount) = [q EXCEPT !.xp = xp, !.level = level, !.hp = hp]
  BY <1>1, <1>2, <1>3 DEF Grown
<1> QED BY <1>4, <1>5 DEF Queenly, QueenFields, NoQueen

-----------------------------------------------------------------------------
(* Unlocks. *)

(* apply_peak_unlocks pays the starter credit as the peak passes the gate. *)
Pays(u) == IF peak[u] < Shop /\ Shop <= peak'[u] THEN 1 ELSE 0

LEMMA UnlockPays ==
  ASSUME Typed, NEW S \in SUBSET Users, NEW level, \A u \in S : level[u] \in Nat, Unlock(S, level)
  PROVE  /\ peak' \in [Users -> Nat] /\ starters' \in [Users -> Nat] /\ skipped' = skipped \ S
         /\ \A u \in Users : peak'[u] >= peak[u] /\ starters'[u] = starters[u] + Pays(u)
         /\ \A u \in Users : u \in S => level[u] <= peak'[u]
         /\ \A u \in Users : u \notin S => peak'[u] = peak[u]
<1>1. /\ peak \in [Users -> Nat] /\ starters \in [Users -> Nat]
      /\ peak' = [u \in Users |-> IF u \in S THEN Larger(peak[u], level[u]) ELSE peak[u]]
      /\ starters' = [u \in Users |->
           IF u \in S /\ peak[u] < Shop /\ Shop <= level[u] THEN starters[u] + 1 ELSE starters[u]]
      /\ skipped' = skipped \ S
  BY DEF Typed, Unlock, Unlocked, StarterDue
<1>2. peak' \in [Users -> Nat] /\ starters' \in [Users -> Nat]
  <2>1. \A u \in Users : u \in S => Larger(peak[u], level[u]) \in Nat
    BY <1>1 DEF Larger
  <2>2. \A u \in Users : starters[u] + 1 \in Nat
    BY <1>1
  <2> QED BY <1>1, <2>1, <2>2
<1>3. ASSUME NEW u \in Users
      PROVE  /\ peak'[u] >= peak[u] /\ starters'[u] = starters[u] + Pays(u)
             /\ u \in S => level[u] <= peak'[u]
             /\ u \notin S => peak'[u] = peak[u]
  <2>1. peak[u] \in Nat /\ starters[u] \in Nat /\ Shop \in Nat
    BY <1>1, Constants
  <2>2. CASE u \in S
    <3>1. level[u] \in Nat /\ peak'[u] = Larger(peak[u], level[u])
      BY <1>1, <2>2
    <3>2. starters'[u] = IF peak[u] < Shop /\ Shop <= level[u] THEN starters[u] + 1 ELSE starters[u]
      BY <1>1, <2>2
    <3> QED BY <2>1, <2>2, <3>1, <3>2 DEF Larger, Pays
  <2>3. CASE u \notin S
    <3>1. peak'[u] = peak[u] /\ starters'[u] = starters[u]
      BY <1>1, <2>3
    <3> QED BY <2>1, <2>3, <3>1 DEF Pays
  <2> QED BY <2>2, <2>3
<1> QED BY <1>1, <1>2, <1>3

(* So the account has had it once it is past, unless the peak was raised   *)
(* silently.                                                               *)
LEMMA PaidOnce ==
  ASSUME IInv, raised' = raised, peak' \in [Users -> Nat],
         \A u \in Users : peak'[u] >= peak[u] /\ starters'[u] = starters[u] + Pays(u)
  PROVE  StarterOnce' /\ RaisedPast'
<1>1. /\ peak \in [Users -> Nat] /\ starters \in [Users -> Nat] /\ raised \subseteq Users
      /\ \A u \in raised : peak[u] >= Shop
      /\ \A u \in Users : starters[u] = IF peak[u] >= Shop /\ u \notin raised THEN 1 ELSE 0
      /\ Shop \in Nat
  BY Constants DEF IInv, Typed, StarterOnce, RaisedPast
<1>2. ASSUME NEW u \in Users
      PROVE  starters'[u] = IF peak'[u] >= Shop /\ u \notin raised THEN 1 ELSE 0
  <2>1. peak[u] \in Nat /\ peak'[u] \in Nat /\ peak'[u] >= peak[u]
    BY <1>1
  <2>2. CASE peak[u] >= Shop
    <3>1. Pays(u) = 0 /\ peak'[u] >= Shop
      BY <1>1, <2>1, <2>2 DEF Pays
    <3> QED BY <1>1, <2>2, <3>1
  <2>3. CASE ~(peak[u] >= Shop)
    <3>1. u \notin raised /\ starters[u] = 0
      BY <1>1, <2>3
    <3>2. Pays(u) = IF peak'[u] >= Shop THEN 1 ELSE 0
      BY <1>1, <2>1, <2>3 DEF Pays
    <3> QED BY <3>1, <3>2
  <2> QED BY <2>2, <2>3
<1>3. \A u \in raised : peak'[u] >= Shop
  BY <1>1
<1> QED BY <1>2, <1>3 DEF StarterOnce, RaisedPast, Shop

-----------------------------------------------------------------------------
(* flush_xp. *)

(* A queen in qs lives on in the next state: as she was but for her hp,    *)
(* shield, xp and a level she may have lost.                               *)
LivesOn(qs, u) ==
  /\ queen'[u] = NoQueen <=> qs[u] = NoQueen
  /\ qs[u] # NoQueen => /\ queen'[u].dead = qs[u].dead /\ queen'[u].kills = qs[u].kills
                        /\ queen'[u].level <= qs[u].level

(* What her player has earned over all queens. *)
Keeps(ps, u) == player'[u].lifetime = ps[u].lifetime /\ player'[u].rivals = ps[u].rivals

Gains(qs, u) == u \in Users /\ qs[u] # NoQueen /\ ~qs[u].dead

(* What flush_xp, or a promotion, leaves of the queens qs and the players  *)
(* ps.                                                                     *)
Flushed(qs, ps) ==
  /\ Queens(queen') /\ Players(player') /\ xpq' \in [Ids -> Nat]
  /\ \A u \in Ids : /\ queen'[u] = NoQueen <=> qs[u] = NoQueen
                    /\ qs[u] # NoQueen => queen'[u].dead = qs[u].dead
                    /\ qs[u] # NoQueen => queen'[u].kills = qs[u].kills
                    /\ Keeps(ps, u)
  /\ peak' \in [Users -> Nat] /\ starters' \in [Users -> Nat]
  /\ \A u \in Users : peak'[u] >= peak[u] /\ starters'[u] = starters[u] + Pays(u)
  /\ \A u \in Users : Gains(qs, u) =>
       \/ queen'[u].level = qs[u].level /\ (u \in skipped => u \in skipped')
       \/ queen'[u].level <= peak'[u]
       \/ u \in skipped'

(* Queens that take xp keep what they are, and rise no further than the    *)
(* account's peak goes with them.                                          *)
LEMMA FlushKeeps ==
  ASSUME Typed, NEW qs, NEW ps, NEW due \in [Ids -> Nat], Queens(qs), Players(ps),
         Flush(qs, ps, due)
  PROVE  Flushed(qs, ps)
<1> DEFINE after == [u \in Ids |-> IF Gains(qs, u) THEN Grown(qs[u], due[u]) ELSE qs[u]]
           risen == {u \in Users : Gains(qs, u) /\ after[u].level > qs[u].level}
           level == [u \in Users |-> IF u \in risen THEN after[u].level ELSE 0]
<1>1. after = [u \in Ids |-> IF Gains(qs, u) THEN Grown(qs[u], due[u]) ELSE qs[u]]
  OBVIOUS
<1>2. risen = {u \in Users : Gains(qs, u) /\ after[u].level > qs[u].level}
  OBVIOUS
<1>3. level = [u \in Users |-> IF u \in risen THEN after[u].level ELSE 0]
  OBVIOUS
<1>4. /\ queen' = after /\ Unlock(risen, level) /\ xpq' = [u \in Ids |-> 0]
      /\ player' = [u \in Ids |->
           IF u \in risen
           THEN [ps[u] EXCEPT !.ready = @ + LevelGrant * (after[u].level - qs[u].level),
                              !.credits = @ + StarterFor(u, risen, level)]
           ELSE ps[u]]
  BY DEF Flush, Gains
<1> HIDE DEF after, risen, level
<1>5. ASSUME NEW u \in Ids
      PROVE  /\ after[u] # NoQueen => Queenly(after[u])
             /\ after[u] = NoQueen <=> qs[u] = NoQueen
             /\ qs[u] # NoQueen => after[u].dead = qs[u].dead /\ after[u].kills = qs[u].kills
             /\ Gains(qs, u) => after[u].level \in Levels /\ after[u].level >= qs[u].level
  <2>1. CASE Gains(qs, u)
    <3>1. Queenly(qs[u]) /\ due[u] \in Nat /\ after[u] = Grown(qs[u], due[u]) /\ qs[u] # NoQueen
      BY <1>1, <2>1 DEF Gains, Queens
    <3>2. PICK g : g = Grown(qs[u], due[u])
      OBVIOUS
    <3>3. /\ Queenly(g) /\ g # NoQueen /\ g.dead = qs[u].dead /\ g.kills = qs[u].kills
          /\ g.level \in Levels /\ g.level >= qs[u].level
      BY <3>1, <3>2, GrownKeeps
    <3>4. after[u] = g
      BY <3>1, <3>2
    <3> QED BY <3>1, <3>3, <3>4
  <2>2. CASE ~Gains(qs, u)
    <3>1. after[u] = qs[u]
      BY <1>1, <2>2
    <3> QED BY <2>2, <3>1 DEF Queens
  <2> QED BY <2>1, <2>2
<1>6. Queens(queen')
  <2>1. after = [u \in Ids |-> after[u]]
    BY <1>1
  <2> QED BY <1>4, <1>5, <2>1 DEF Queens
<1>7. risen \subseteq Users /\ \A u \in risen : level[u] = after[u].level /\ level[u] \in Nat
  <2>1. \A u \in risen : u \in Users /\ u \in Ids /\ Gains(qs, u) /\ level[u] = after[u].level
    BY <1>2, <1>3, Constants
  <2>2. \A u \in risen : after[u].level \in Nat
    BY <1>5, <2>1, Constants
  <2> QED BY <1>2, <2>1, <2>2
<1>8. /\ peak' \in [Users -> Nat] /\ starters' \in [Users -> Nat] /\ skipped' = skipped \ risen
      /\ \A u \in Users : peak'[u] >= peak[u] /\ starters'[u] = starters[u] + Pays(u)
      /\ \A u \in Users : u \in risen => level[u] <= peak'[u]
  BY <1>4, <1>7, UnlockPays
<1>9. ASSUME NEW u \in Ids
      PROVE  Playerly(player'[u]) /\ Keeps(ps, u)
  <2>1. Playerly(ps[u])
    BY DEF Players
  <2>2. CASE u \in risen
    <3>1. PICK ready, credits : player'[u] = [ps[u] EXCEPT !.ready = ready, !.credits = credits]
      BY <1>4, <2>2
    <3> QED BY <2>1, <3>1 DEF Playerly, PlayerFields, Keeps
  <2>3. CASE u \notin risen
    <3>1. player'[u] = ps[u]
      BY <1>4, <2>3
    <3> QED BY <2>1, <3>1 DEF Keeps
  <2> QED BY <2>2, <2>3
<1>10. Players(player')
  <2>1. player' = [u \in Ids |-> player'[u]]
    BY <1>4
  <2> QED BY <1>9, <2>1 DEF Players
<1>11. ASSUME NEW u \in Users, qs[u] # NoQueen, ~qs[u].dead
       PROVE  \/ after[u].level = qs[u].level /\ (u \in skipped => u \in skipped')
              \/ after[u].level <= peak'[u]
  <2>1. CASE u \in risen
    BY <1>7, <1>8, <2>1
  <2>2. CASE u \notin risen
    <3>1. Gains(qs, u) /\ u \in Ids
      BY <1>11, Constants DEF Gains
    <3>2. ~(after[u].level > qs[u].level) /\ after[u].level >= qs[u].level /\ after[u].level \in Nat
      BY <1>2, <1>5, <2>2, <3>1, Constants
    <3>3. qs[u].level \in Nat
      BY <1>11, <3>1, Constants DEF Queens, Queenly
    <3>4. after[u].level = qs[u].level
      BY <3>2, <3>3
    <3> QED BY <1>8, <2>2, <3>4
  <2> QED BY <2>1, <2>2
<1>12. xpq' \in [Ids -> Nat]
  BY <1>4
<1> QED BY <1>4, <1>5, <1>6, <1>8, <1>9, <1>10, <1>11, <1>12 DEF Flushed, Gains

(* When the kills of qs and ps add up and nobody rose before the flush.    *)
LEMMA FlushSettles ==
  ASSUME IInv, NEW qs, NEW ps, Queens(qs), Flushed(qs, ps), raised' = raised,
         unfolded' \in [Users -> Nat],
         \A u \in Users : Gains(qs, u) => Live(u) /\ qs[u].level = queen[u].level,
         \A u \in Users : ps[u].rivals =
           ps[u].lifetime + (IF Gains(qs, u) THEN qs[u].kills ELSE 0) + unfolded'[u]
  PROVE  KillsFolded' /\ StarterOnce' /\ RaisedPast' /\ Covered'
<1>1. ASSUME NEW u \in Users
      PROVE  /\ Live(u)' <=> Gains(qs, u)
             /\ Gains(qs, u) => queen'[u].kills = qs[u].kills
             /\ Keeps(ps, u)
  BY Constants DEF Flushed, Live, Gains
<1>2. KillsFolded'
  <2> SUFFICES ASSUME NEW u \in Users
               PROVE  player'[u].rivals = player'[u].lifetime
                        + (IF Live(u)' THEN queen'[u].kills ELSE 0) + unfolded'[u]
    BY DEF KillsFolded
  <2>1. (IF Live(u)' THEN queen'[u].kills ELSE 0) = IF Gains(qs, u) THEN qs[u].kills ELSE 0
    BY <1>1
  <2>2. player'[u].rivals = ps[u].rivals /\ player'[u].lifetime = ps[u].lifetime
    BY <1>1 DEF Keeps
  <2> QED BY <2>1, <2>2
<1>3. StarterOnce' /\ RaisedPast'
  BY PaidOnce DEF Flushed
<1>4. Covered'
  <2> SUFFICES ASSUME NEW u \in Users, u \notin skipped', Live(u)'
               PROVE  queen'[u].level <= Larger(peak'[u], 1)
    BY DEF Covered
  <2>1. Gains(qs, u) /\ Live(u) /\ qs[u].level = queen[u].level
    BY <1>1
  <2>2. peak[u] \in Nat /\ peak'[u] \in Nat /\ peak'[u] >= peak[u]
    BY DEF IInv, Typed, Flushed
  <2>3. queen[u].level \in Nat /\ queen'[u].level \in Nat
    <3>1. Queenly(queen[u]) /\ Queenly(queen'[u])
      BY <2>1, Constants DEF IInv, Typed, Queens, Live, Flushed
    <3> QED BY <3>1, Constants DEF Queenly
  <2>4. CASE queen'[u].level = qs[u].level /\ (u \in skipped => u \in skipped')
    <3>1. queen[u].level <= Larger(peak[u], 1)
      BY <2>1, <2>4 DEF IInv, Covered
    <3> QED BY <2>1, <2>2, <2>3, <2>4, <3>1 DEF Larger
  <2>5. CASE queen'[u].level <= peak'[u]
    BY <2>2, <2>3, <2>5 DEF Larger
  <2> QED BY <2>1, <2>4, <2>5 DEF Flushed
<1> QED BY <1>2, <1>3, <1>4

(* A step that leaves lives, earnings and accounts alone.                  *)
LEMMA Quiet ==
  ASSUME IInv, Queens(queen'), \A u \in Ids : LivesOn(queen, u) /\ Keeps(player, u),
         UNCHANGED <<peak, starters, unfolded, raised, skipped>>
  PROVE  /\ KillsFolded' /\ StarterOnce' /\ RaisedPast' /\ Covered'
         /\ \A u \in Ids : Live(u)' <=> Live(u)
<1>0. Users \subseteq Ids /\ Typed /\ KillsFolded /\ StarterOnce /\ RaisedPast /\ Covered
  BY Constants DEF IInv
<1>1. ASSUME NEW u \in Ids
      PROVE  Live(u)' <=> Live(u)
  BY <1>1 DEF Live, LivesOn
<1>2. KillsFolded'
  <2> SUFFICES ASSUME NEW u \in Users
               PROVE  player'[u].rivals = player'[u].lifetime
                        + (IF Live(u)' THEN queen'[u].kills ELSE 0) + unfolded'[u]
    BY DEF KillsFolded
  <2>1. /\ player'[u].rivals = player[u].rivals /\ player'[u].lifetime = player[u].lifetime
        /\ Live(u)' <=> Live(u)
        /\ Live(u) => queen'[u].kills = queen[u].kills
    BY <1>0, <1>1 DEF Live, LivesOn, Keeps
  <2>2. player[u].rivals =
          player[u].lifetime + (IF Live(u) THEN queen[u].kills ELSE 0) + unfolded[u]
    BY <1>0 DEF KillsFolded
  <2>3. (IF Live(u)' THEN queen'[u].kills ELSE 0) = IF Live(u) THEN queen[u].kills ELSE 0
    <3>1. CASE Live(u)
      <4>1. Live(u)' /\ queen'[u].kills = queen[u].kills
        BY <2>1, <3>1
      <4> QED BY <3>1, <4>1
    <3>2. CASE ~Live(u)
      <4>1. ~Live(u)'
        BY <2>1, <3>2
      <4> QED BY <3>2, <4>1
    <3> QED BY <3>1, <3>2
  <2> QED BY <2>1, <2>2, <2>3
<1>3. StarterOnce' /\ RaisedPast'
  BY <1>0 DEF StarterOnce, RaisedPast, Shop
<1>4. Covered'
  <2> SUFFICES ASSUME NEW u \in Users, u \notin skipped, Live(u)'
               PROVE  queen'[u].level <= Larger(peak[u], 1)
    BY DEF Covered
  <2>1. Live(u) /\ queen'[u].level <= queen[u].level /\ queen[u].level <= Larger(peak[u], 1)
    BY <1>0, <1>1 DEF Live, LivesOn, Covered
  <2>2. Queenly(queen[u]) /\ Queenly(queen'[u])
    BY <1>0, <2>1 DEF Live, Typed, Queens
  <2>3. queen'[u].level \in Nat /\ queen[u].level \in Nat /\ Larger(peak[u], 1) \in Nat
    BY <1>0, <2>2, Constants DEF Queenly, Larger, Typed
  <2> QED BY <2>1, <2>3
<1> QED BY <1>1, <1>2, <1>3, <1>4

(* What becomes of those who have fallen, when the living are the same.    *)
LEMMA QuietFallen ==
  ASSUME IInv, workers' \in [Ids -> Nat], brutes' \in [Ids -> Nat],
         \A u \in Ids : Live(u)' <=> Live(u), gifted \subseteq gifted',
         \A u \in Ids \ gifted' : ~Live(u) =>
           /\ u \in land' => u \in land
           /\ workers'[u] <= workers[u] /\ brutes'[u] <= brutes[u]
  PROVE  FallenBare'
<1> SUFFICES ASSUME NEW u \in Ids, u \notin gifted', ~Live(u)'
             PROVE  u \notin land' /\ workers'[u] = 0 /\ brutes'[u] = 0
  BY DEF FallenBare
<1>1. u \notin land /\ workers[u] = 0 /\ brutes[u] = 0
  BY DEF IInv, FallenBare
<1> QED BY <1>1

-----------------------------------------------------------------------------
(* kill_queen. *)

(* The fallen queen's kills are in the account, the killer's with his      *)
(* queen; with no live queen of his they are counted as unfolded.          *)
LEMMA FelledSettles ==
  ASSUME IInv, NEW l \in Ids, NEW k \in Ids \cup {Nobody}, Live(l), NEW qs, NEW ps,
         qs = Felled(l, k), ps = Paid(l, k),
         unfolded' = [u \in Users |-> IF u = k /\ ~Live(k) THEN unfolded[u] + 1 ELSE unfolded[u]]
  PROVE  /\ Queens(qs) /\ Players(ps) /\ unfolded' \in [Users -> Nat]
         /\ \A u \in Ids : u # l => /\ qs[u] = NoQueen <=> queen[u] = NoQueen
                                    /\ qs[u] # NoQueen => qs[u].dead = queen[u].dead
         /\ \A u \in Users : Gains(qs, u) => Live(u) /\ qs[u].level = queen[u].level
         /\ \A u \in Users : ps[u].rivals =
              ps[u].lifetime + (IF Gains(qs, u) THEN qs[u].kills ELSE 0) + unfolded'[u]
<1>0. /\ Queens(queen) /\ Players(player) /\ unfolded \in [Users -> Nat] /\ KillsFolded
      /\ Users \subseteq Ids /\ Nobody \notin Ids /\ Users \cap Npcs = {} /\ Queenly(queen[l])
  BY Constants, ColonyAssumption DEF IInv, Typed, Live, Queens
<1>1. /\ qs[l] = IF l \in Npcs THEN NoQueen ELSE [queen[l] EXCEPT !.dead = TRUE]
      /\ \A u \in Ids : u # l =>
           qs[u] = IF u = k /\ queen[k] # NoQueen THEN [queen[k] EXCEPT !.kills = @ + 1]
                   ELSE queen[u]
      /\ qs = [u \in Ids |-> qs[u]]
  BY DEF Felled
<1>2. /\ \E ready : ps[l] = [player[l] EXCEPT !.lifetime = @ + queen[l].kills, !.ready = ready]
      /\ \A u \in Ids : u # l =>
           ps[u] = IF u = k /\ Present(k) THEN [player[k] EXCEPT !.credits = @ + 1, !.rivals = @ + 1]
                   ELSE player[u]
      /\ ps = [u \in Ids |-> ps[u]]
  <2>1. ps[l] = [player[l] EXCEPT !.lifetime = @ + queen[l].kills,
                                  !.ready = IF l \in Users THEN DailyAnts ELSE @]
    BY DEF Paid
  <2> QED BY <2>1 DEF Paid
<1>3. /\ qs[l] # NoQueen => Queenly(qs[l]) /\ qs[l].dead
      /\ Playerly(ps[l]) /\ ps[l].rivals = player[l].rivals
      /\ ps[l].lifetime = player[l].lifetime + queen[l].kills
  <2>1. qs[l] # NoQueen => Queenly(qs[l]) /\ qs[l].dead
    BY <1>0, <1>1 DEF Queenly, QueenFields
  <2>2. PICK ready : ps[l] = [player[l] EXCEPT !.lifetime = @ + queen[l].kills, !.ready = ready]
    BY <1>2
  <2>3. Playerly(player[l]) /\ queen[l].kills \in Nat
    BY <1>0 DEF Players, Queenly
  <2> QED BY <2>1, <2>2, <2>3 DEF Playerly, PlayerFields
<1>4. ASSUME NEW u \in Ids, u # l, u = k
      PROVE  /\ qs[u] = NoQueen <=> queen[u] = NoQueen
             /\ qs[u] # NoQueen => /\ Queenly(qs[u]) /\ qs[u].dead = queen[u].dead
                                   /\ qs[u].level = queen[u].level
                                   /\ qs[u].kills = queen[u].kills + 1
             /\ Playerly(ps[u])
             /\ Present(u) => /\ ps[u].rivals = player[u].rivals + 1
                              /\ ps[u].lifetime = player[u].lifetime
  <2>1. Playerly(player[u]) /\ (queen[u] # NoQueen => Queenly(queen[u]))
    BY <1>0 DEF Players, Queens
  <2>0. /\ Playerly(ps[u])
        /\ Present(u) => ps[u].rivals = player[u].rivals + 1 /\ ps[u].lifetime = player[u].lifetime
    <3>1. CASE Present(u)
      <4>1. ps[u] = [player[u] EXCEPT !.credits = @ + 1, !.rivals = @ + 1]
        BY <1>2, <1>4, <3>1
      <4> QED BY <2>1, <4>1 DEF Playerly, PlayerFields
    <3>2. CASE ~Present(u)
      <4>1. ps[u] = player[u]
        BY <1>2, <1>4, <3>2
      <4> QED BY <2>1, <3>2, <4>1
    <3> QED BY <3>1, <3>2
  <2>2. CASE queen[u] = NoQueen
    <3>1. qs[u] = NoQueen
      BY <1>1, <1>4, <2>2
    <3> QED BY <2>0, <2>2, <3>1
  <2>3. CASE queen[u] # NoQueen
    <3>1. qs[u] = [queen[u] EXCEPT !.kills = @ + 1]
      BY <1>1, <1>4, <2>3
    <3>2. Queenly(qs[u]) /\ qs[u] # NoQueen /\ qs[u].dead = queen[u].dead
          /\ qs[u].level = queen[u].level /\ qs[u].kills = queen[u].kills + 1
      BY <2>1, <2>3, <3>1 DEF Queenly, QueenFields, NoQueen
    <3> QED BY <2>0, <2>3, <3>2
  <2> QED BY <2>2, <2>3
<1>5. ASSUME NEW u \in Ids, u # l, u # k
      PROVE  qs[u] = queen[u] /\ ps[u] = player[u]
  BY <1>1, <1>2, <1>5
<1>6. Queens(qs)
  BY <1>0, <1>1, <1>3, <1>4, <1>5 DEF Queens
<1>7. Players(ps)
  BY <1>0, <1>2, <1>3, <1>4, <1>5 DEF Players
<1>8. unfolded' \in [Users -> Nat]
  BY <1>0
<1>9. \A u \in Ids : u # l => /\ qs[u] = NoQueen <=> queen[u] = NoQueen
                              /\ qs[u] # NoQueen => qs[u].dead = queen[u].dead
  BY <1>4, <1>5
<1>10. \A u \in Users : Gains(qs, u) => Live(u) /\ qs[u].level = queen[u].level
  <2> SUFFICES ASSUME NEW u \in Users, Gains(qs, u)
               PROVE  Live(u) /\ qs[u].level = queen[u].level
    OBVIOUS
  <2>1. u # l /\ u \in Ids
    BY <1>0, <1>3 DEF Gains
  <2> QED BY <1>4, <1>5, <1>9, <2>1 DEF Gains, Live
<1>11. ASSUME NEW u \in Users
       PROVE  ps[u].rivals =
                ps[u].lifetime + (IF Gains(qs, u) THEN qs[u].kills ELSE 0) + unfolded'[u]
  <2>1. /\ u \in Ids /\ Present(u) /\ unfolded[u] \in Nat
        /\ Playerly(player[u]) /\ (Live(u) => queen[u].kills \in Nat)
        /\ unfolded'[u] = IF u = k /\ ~Live(k) THEN unfolded[u] + 1 ELSE unfolded[u]
    BY <1>0 DEF Present, Players, Live, Queens, Queenly
  <2>2. player[u].rivals =
          player[u].lifetime + (IF Live(u) THEN queen[u].kills ELSE 0) + unfolded[u]
    BY <1>0 DEF KillsFolded
  <2>3. CASE u = l
    <3>1. ~Gains(qs, u) /\ unfolded'[u] = unfolded[u]
      BY <1>3, <2>1, <2>3 DEF Gains
    <3>2. player[u].rivals = player[u].lifetime + queen[u].kills + unfolded[u]
      BY <2>2, <2>3
    <3>3. (IF Gains(qs, u) THEN qs[u].kills ELSE 0) = 0 /\ player[u].lifetime \in Nat
      BY <2>1, <3>1 DEF Playerly
    <3>4. queen[u].kills \in Nat
      BY <1>0, <2>3 DEF Queenly
    <3> QED BY <1>3, <2>1, <2>3, <3>1, <3>2, <3>3, <3>4
  <2>4. CASE u # l /\ u = k /\ Live(u)
    <3>1. Gains(qs, u) /\ unfolded'[u] = unfolded[u] /\ qs[u].kills = queen[u].kills + 1
      BY <1>4, <2>1, <2>4 DEF Gains, Live
    <3>2. ps[u].rivals = player[u].rivals + 1 /\ ps[u].lifetime = player[u].lifetime
      BY <1>4, <2>1, <2>4
    <3>3. player[u].rivals = player[u].lifetime + queen[u].kills + unfolded[u]
      BY <2>2, <2>4
    <3>4. queen[u].kills \in Nat /\ player[u].lifetime \in Nat
      BY <2>1, <2>4 DEF Playerly
    <3>5. (IF Gains(qs, u) THEN qs[u].kills ELSE 0) = queen[u].kills + 1
      BY <3>1
    <3> QED BY <2>1, <3>1, <3>2, <3>3, <3>4, <3>5
  <2>5. CASE u # l /\ u = k /\ ~Live(u)
    <3>1. ~Gains(qs, u) /\ unfolded'[u] = unfolded[u] + 1
      BY <1>4, <2>1, <2>5 DEF Gains, Live
    <3>2. ps[u].rivals = player[u].rivals + 1 /\ ps[u].lifetime = player[u].lifetime
      BY <1>4, <2>1, <2>5
    <3>3. player[u].rivals = player[u].lifetime + unfolded[u]
      BY <2>1, <2>2, <2>5 DEF Playerly
    <3>4. (IF Gains(qs, u) THEN qs[u].kills ELSE 0) = 0 /\ player[u].lifetime \in Nat
      BY <2>1, <3>1 DEF Playerly
    <3> QED BY <2>1, <3>1, <3>2, <3>3, <3>4
  <2>6. CASE u # l /\ u # k
    <3>1. Gains(qs, u) <=> Live(u)
      BY <1>5, <2>1, <2>6 DEF Gains, Live
    <3>2. qs[u] = queen[u] /\ ps[u] = player[u] /\ unfolded'[u] = unfolded[u]
      BY <1>5, <2>1, <2>6
    <3> QED BY <2>2, <3>1, <3>2
  <2> QED BY <2>3, <2>4, <2>5, <2>6
<1> QED BY <1>6, <1>7, <1>8, <1>9, <1>10, <1>11

LEMMA KillKeeps ==
  ASSUME IInv, NEW l \in Ids, NEW k \in Ids \cup {Nobody}, KillQueen(l, k),
         raised' = raised, Ticking(tick')
  PROVE  IInv'
<1>1. CASE ~Live(l)
  <2>1. UNCHANGED <<queen, player, peak, workers, brutes, land, xpq, starters, unfolded,
                    raised, skipped, gifted>>
    BY <1>1 DEF KillQueen, ants
  <2>2. UNCHANGED <<KillsFolded, StarterOnce, RaisedPast, Covered, FallenBare>>
    BY <2>1 DEF KillsFolded, StarterOnce, RaisedPast, Covered, FallenBare, Live
  <2>3. Typed'
    BY <2>1 DEF IInv, Typed
  <2> QED BY <2>2, <2>3 DEF IInv
<1>2. CASE Live(l)
  <2>1. PICK qs : qs = Felled(l, k)
    OBVIOUS
  <2>2. PICK ps : ps = Paid(l, k)
    OBVIOUS
  <2>3. /\ unfolded' = [u \in Users |-> IF u = k /\ ~Live(k) THEN unfolded[u] + 1 ELSE unfolded[u]]
        /\ land' = land \ {l} /\ gifted' = gifted \ {l}
        /\ workers' = [workers EXCEPT ![l] = 0] /\ brutes' = [brutes EXCEPT ![l] = 0]
    BY <1>2 DEF KillQueen, Disband
  <2>4. /\ Queens(qs) /\ Players(ps) /\ unfolded' \in [Users -> Nat]
        /\ \A u \in Ids : u # l => /\ qs[u] = NoQueen <=> queen[u] = NoQueen
                                   /\ qs[u] # NoQueen => qs[u].dead = queen[u].dead
        /\ \A u \in Users : Gains(qs, u) => Live(u) /\ qs[u].level = queen[u].level
        /\ \A u \in Users : ps[u].rivals =
             ps[u].lifetime + (IF Gains(qs, u) THEN qs[u].kills ELSE 0) + unfolded'[u]
    BY <1>2, <2>1, <2>2, <2>3, FelledSettles
  <2>5. Flushed(qs, ps)
    <3>1. CASE k = Nobody
      <4>1. queen' = qs /\ player' = ps /\ UNCHANGED <<peak, starters, skipped, xpq>>
        BY <1>2, <2>1, <2>2, <3>1 DEF KillQueen
      <4>2. /\ peak \in [Users -> Nat] /\ starters \in [Users -> Nat] /\ xpq \in [Ids -> Nat]
        BY DEF IInv, Typed
      <4>3. \A u \in Users : peak'[u] >= peak[u] /\ starters'[u] = starters[u] + Pays(u)
        <5> SUFFICES ASSUME NEW u \in Users
                     PROVE  peak'[u] >= peak[u] /\ starters'[u] = starters[u] + Pays(u)
          OBVIOUS
        <5>1. peak'[u] = peak[u] /\ peak[u] \in Nat /\ starters'[u] = starters[u] /\ starters[u] \in Nat
          BY <4>1, <4>2
        <5>2. Pays(u) = 0
          BY <5>1, Constants DEF Pays
        <5> QED BY <5>1, <5>2
      <4> QED BY <2>4, <4>1, <4>2, <4>3 DEF Flushed, Keeps
    <3>2. CASE k # Nobody
      <4>1. PICK due : due = [xpq EXCEPT ![k] = @ + KillXp]
        OBVIOUS
      <4>2. due \in [Ids -> Nat]
        BY <3>2, <4>1, Constants DEF IInv, Typed
      <4>3. Flush(qs, ps, due)
        BY <1>2, <2>1, <2>2, <3>2, <4>1 DEF KillQueen
      <4> QED BY <2>4, <4>2, <4>3, FlushKeeps DEF IInv
    <3> QED BY <3>1, <3>2
  <2>6. KillsFolded' /\ StarterOnce' /\ RaisedPast' /\ Covered'
    BY <2>4, <2>5, FlushSettles
  <2>7. FallenBare'
    <3> SUFFICES ASSUME NEW u \in Ids, u \notin gifted', ~Live(u)'
                 PROVE  u \notin land' /\ workers'[u] = 0 /\ brutes'[u] = 0
      BY DEF FallenBare
    <3>1. workers \in [Ids -> Nat] /\ brutes \in [Ids -> Nat]
      BY DEF IInv, Typed
    <3>2. CASE u = l
      BY <2>3, <3>1, <3>2
    <3>3. CASE u # l
      <4>1. ~Live(u)
        BY <2>4, <2>5, <3>3 DEF Live, Flushed
      <4>2. u \notin gifted
        BY <2>3, <3>3
      <4> QED BY <2>3, <3>1, <3>3, <4>1, <4>2 DEF IInv, FallenBare
    <3> QED BY <3>2, <3>3
  <2>8. Typed'
    <3>1. workers' \in [Ids -> Nat] /\ brutes' \in [Ids -> Nat] /\ land' \subseteq Ids
      BY <2>3 DEF IInv, Typed
    <3> QED BY <2>4, <2>5, <3>1 DEF IInv, Typed, Flushed
  <2> QED BY <2>6, <2>7, <2>8 DEF IInv
<1> QED BY <1>1, <1>2

(* And of the queens and the players there are.                            *)
LEMMA FlushedKeeps ==
  ASSUME IInv, Flushed(queen, player), Ticking(tick'),
         UNCHANGED <<workers, brutes, land, unfolded, raised, gifted>>
  PROVE  IInv'
<1>1. \A u \in Users : Gains(queen, u) <=> Live(u)
  BY DEF Gains, Live
<1>2. \A u \in Users : player[u].rivals =
        player[u].lifetime + (IF Gains(queen, u) THEN queen[u].kills ELSE 0) + unfolded'[u]
  BY <1>1 DEF IInv, KillsFolded
<1>3. Queens(queen) /\ unfolded' \in [Users -> Nat]
  BY DEF IInv, Typed
<1>4. KillsFolded' /\ StarterOnce' /\ RaisedPast' /\ Covered'
  BY <1>1, <1>2, <1>3, FlushSettles
<1>5. \A u \in Ids : Live(u)' <=> Live(u)
  BY DEF Live, Flushed
<1>6. FallenBare'
  BY <1>5 DEF IInv, FallenBare
<1>7. Typed'
  BY DEF IInv, Typed, Flushed
<1> QED BY <1>4, <1>6, <1>7 DEF IInv

LEMMA EndTickKeeps ==
  ASSUME IInv, EndTick
  PROVE  IInv'
<1>1. /\ Flush(queen, player, xpq) /\ tick' = Rest
      /\ UNCHANGED <<workers, brutes, land, unfolded, raised, gifted>>
  BY DEF EndTick, Same, ants
<1>2. Flushed(queen, player)
  BY <1>1, FlushKeeps DEF IInv, Typed
<1>3. Ticking(tick')
  BY <1>1 DEF Ticking, Rest
<1> QED BY <1>1, <1>2, <1>3, FlushedKeeps

-----------------------------------------------------------------------------
(* The steps that leave lives, earnings and accounts alone.                *)

SameLives == Queens(queen') /\ \A u \in Ids : LivesOn(queen, u)
SameEarnings == Players(player') /\ \A u \in Ids : Keeps(player, u)

(* Who has fallen gains no land and no ants.                               *)
FallenGainNothing ==
  \A u \in Ids \ gifted' : ~Live(u) =>
    /\ u \in land' => u \in land
    /\ workers'[u] <= workers[u] /\ brutes'[u] <= brutes[u]

Holdings ==
  workers \in [Ids -> Nat] /\ brutes \in [Ids -> Nat] /\ xpq \in [Ids -> Nat] /\ land \subseteq Ids

LEMMA QuietKeeps ==
  ASSUME IInv, SameLives, SameEarnings, Ticking(tick'), Holdings', FallenGainNothing,
         gifted \subseteq gifted', UNCHANGED <<peak, starters, unfolded, raised, skipped>>
  PROVE  IInv'
<1>1. /\ KillsFolded' /\ StarterOnce' /\ RaisedPast' /\ Covered'
      /\ \A u \in Ids : Live(u)' <=> Live(u)
  BY Quiet DEF SameLives, SameEarnings
<1>2. FallenBare'
  BY <1>1, QuietFallen DEF Holdings, FallenGainNothing
<1>3. Typed'
  BY DEF IInv, Typed, SameLives, SameEarnings, Holdings
<1> QED BY <1>1, <1>2, <1>3 DEF IInv

LEMMA StillQueens ==
  ASSUME IInv, queen' = queen
  PROVE  SameLives
<1> SUFFICES ASSUME NEW u \in Ids, queen[u] # NoQueen
             PROVE  queen[u].level <= queen[u].level
  BY DEF IInv, Typed, SameLives, LivesOn
<1>1. queen[u].level \in Nat
  BY Constants DEF IInv, Typed, Queens, Queenly
<1> QED BY <1>1

LEMMA OneQueen ==
  ASSUME IInv, NEW t \in Ids, NEW q, queen[t] # NoQueen, queen' = [queen EXCEPT ![t] = q],
         Queenly(q), q # NoQueen, q.dead = queen[t].dead, q.kills = queen[t].kills,
         q.level <= queen[t].level
  PROVE  SameLives
<1>1. Queens(queen)
  BY DEF IInv, Typed
<1>2. Queens(queen')
  BY <1>1 DEF Queens
<1>3. ASSUME NEW u \in Ids
      PROVE  LivesOn(queen, u)
  <2>1. CASE u = t
    BY <1>1, <2>1 DEF LivesOn, Queens
  <2>2. CASE u # t
    <3>1. queen'[u] = queen[u]
      BY <2>2
    <3>2. queen[u] # NoQueen => queen[u].level \in Nat
      BY <1>1, Constants DEF Queens, Queenly
    <3> QED BY <3>1, <3>2 DEF LivesOn
  <2> QED BY <2>1, <2>2
<1> QED BY <1>2, <1>3 DEF SameLives

LEMMA StillPlayers ==
  ASSUME IInv, player' = player
  PROVE  SameEarnings
BY DEF IInv, Typed, SameEarnings, Keeps

LEMMA OnePlayer ==
  ASSUME IInv, NEW t \in Ids, NEW ready, NEW credits, NEW guards,
         player' = [player EXCEPT ![t] =
           [@ EXCEPT !.ready = ready, !.credits = credits, !.guards = guards]]
  PROVE  SameEarnings
<1>1. Players(player)
  BY DEF IInv, Typed
<1>2. ASSUME NEW u \in Ids
      PROVE  Playerly(player'[u]) /\ Keeps(player, u)
  <2>1. Playerly(player[u])
    BY <1>1 DEF Players
  <2>2. CASE u = t
    <3>1. player'[u] = [player[u] EXCEPT !.ready = ready, !.credits = credits, !.guards = guards]
      BY <1>1, <2>2 DEF Players
    <3> QED BY <2>1, <3>1 DEF Playerly, PlayerFields, Keeps
  <2>3. CASE u # t
    <3>1. player'[u] = player[u]
      BY <1>1, <2>3 DEF Players
    <3> QED BY <2>1, <3>1 DEF Keeps
  <2> QED BY <2>2, <2>3
<1> QED BY <1>1, <1>2 DEF SameEarnings, Players

LEMMA StillTick ==
  ASSUME IInv, \/ tick' = tick
               \/ \E at : tick' = [tick EXCEPT !.at = at]
               \/ \E k \in tick.list : tick' = [tick EXCEPT !.list = @ \ {k}]
  PROVE  Ticking(tick')
<1>1. Ticking(tick)
  BY DEF IInv, Typed
<1>2. CASE \E at : tick' = [tick EXCEPT !.at = at]
  <2>1. PICK at : tick' = [tick EXCEPT !.at = at]
    BY <1>2
  <2> QED BY <1>1, <2>1 DEF Ticking
<1>3. CASE \E k \in tick.list : tick' = [tick EXCEPT !.list = @ \ {k}]
  <2>1. PICK k \in tick.list : tick' = [tick EXCEPT !.list = @ \ {k}]
    BY <1>3
  <2> QED BY <1>1, <2>1 DEF Ticking
<1> QED BY <1>1, <1>2, <1>3

(* Nobody who has fallen is handed ants when only the living are.          *)
LEMMA StillHoldings ==
  ASSUME IInv, UNCHANGED <<workers, brutes, land, gifted>>
  PROVE  FallenGainNothing
BY DEF FallenGainNothing, IInv, Typed

LEMMA PlaceAntKeeps ==
  ASSUME IInv, NEW u \in Users, PlaceAnt(u)
  PROVE  IInv'
<1>1. /\ Live(u) /\ workers' = [workers EXCEPT ![u] = @ + 1]
      /\ player' = [player EXCEPT ![u].ready = @ - 1]
      /\ UNCHANGED <<tick, queen, peak, brutes, land, xpq, starters, unfolded, raised, skipped, gifted>>
  BY DEF PlaceAnt, Handler, Same, ghosts
<1>2. u \in Ids /\ Players(player) /\ Holdings
  BY Constants DEF IInv, Typed, Holdings
<1>3. SameEarnings
  <2>1. Playerly(player[u])
    BY <1>2 DEF Players
  <2>2. player' = [player EXCEPT ![u] = [@ EXCEPT !.ready = player[u].ready - 1,
                     !.credits = player[u].credits, !.guards = player[u].guards]]
    BY <1>1, <1>2, <2>1 DEF Playerly, PlayerFields
  <2> QED BY <1>2, <2>2, OnePlayer
<1>4. FallenGainNothing
  BY <1>1, <1>2 DEF FallenGainNothing, Holdings
<1>5. Holdings'
  BY <1>1, <1>2 DEF Holdings
<1> QED BY <1>1, <1>3, <1>4, <1>5, StillQueens, StillTick, QuietKeeps

LEMMA BuyKeeps ==
  ASSUME IInv, NEW u \in Users, NEW item \in Items, Buy(u, item)
  PROVE  IInv'
<1>1. /\ item # "worker" => Live(u)
      /\ player' = [player EXCEPT ![u].credits = @ - Price[item],
                                  ![u].ready = IF item = "worker" THEN @ + 1 ELSE @,
                                  ![u].guards = IF item = "defender" THEN @ + 1 ELSE @]
      /\ brutes' = IF item = "brute" THEN [brutes EXCEPT ![u] = @ + 1] ELSE brutes
      /\ queen' = IF item = "shield" THEN [queen EXCEPT ![u].shield = HpOf[queen[u].level]]
                  ELSE queen
      /\ land' = IF item = "relocate" THEN land \cup {u} ELSE land
      /\ UNCHANGED <<tick, peak, workers, xpq, starters, unfolded, raised, skipped, gifted>>
  BY DEF Buy, Handler, Same, ghosts
<1>2. u \in Ids /\ Players(player) /\ Queens(queen) /\ Holdings
  BY Constants DEF IInv, Typed, Holdings
<1>3. SameEarnings
  <2>1. Playerly(player[u])
    BY <1>2 DEF Players
  <2>2. PICK ready : ready = IF item = "worker" THEN player[u].ready + 1 ELSE player[u].ready
    OBVIOUS
  <2>3. PICK guards : guards = IF item = "defender" THEN player[u].guards + 1 ELSE player[u].guards
    OBVIOUS
  <2>4. PICK credits : credits = player[u].credits - Price[item]
    OBVIOUS
  <2>5. player' = [player EXCEPT ![u] =
          [@ EXCEPT !.ready = ready, !.credits = credits, !.guards = guards]]
    BY <1>1, <1>2, <2>1, <2>2, <2>3, <2>4 DEF Playerly, PlayerFields
  <2> QED BY <1>2, <2>5, OnePlayer
<1>4. SameLives
  <2>1. CASE item = "shield"
    <3>1. Queenly(queen[u]) /\ queen[u] # NoQueen
      BY <1>1, <1>2, <2>1 DEF Live, Queens
    <3>2. PICK q : q = [queen[u] EXCEPT !.shield = HpOf[queen[u].level]]
      OBVIOUS
    <3>3. queen' = [queen EXCEPT ![u] = q]
      BY <1>1, <2>1, <3>2
    <3>4. /\ Queenly(q) /\ q # NoQueen /\ q.dead = queen[u].dead /\ q.kills = queen[u].kills
          /\ q.level <= queen[u].level
      BY <3>1, <3>2, Constants DEF Queenly, QueenFields, NoQueen
    <3> QED BY <1>2, <3>1, <3>3, <3>4, OneQueen
  <2>2. CASE item # "shield"
    BY <1>1, <2>2, StillQueens
  <2> QED BY <2>1, <2>2
<1>5. FallenGainNothing
  BY <1>1, <1>2 DEF FallenGainNothing, Holdings
<1>6. Holdings'
  BY <1>1, <1>2 DEF Holdings
<1> QED BY <1>1, <1>3, <1>4, <1>5, <1>6, StillTick, QuietKeeps

(* The handlers that touch one player's pool or purse.                     *)
LEMMA PoolKeeps ==
  ASSUME IInv, NEW t \in Ids, DailyRefill(t) \/ GiveAnts(t) \/ GiveCredits(t)
  PROVE  IInv'
<1>1. UNCHANGED <<tick, queen, peak, workers, brutes, land, xpq, starters, unfolded, raised,
                  skipped, gifted>>
  BY DEF DailyRefill, GiveAnts, GiveCredits, Admin, Handler, Same, ghosts, ants
<1>2. \/ \E n : player' = [player EXCEPT ![t].ready = n]
      \/ \E n : player' = [player EXCEPT ![t].credits = n]
  <2>1. CASE DailyRefill(t)
    BY <2>1 DEF DailyRefill
  <2>2. CASE GiveAnts(t)
    BY <2>2 DEF GiveAnts
  <2>3. CASE GiveCredits(t)
    BY <2>3 DEF GiveCredits
  <2> QED BY <2>1, <2>2, <2>3
<1>3. Players(player) /\ Holdings /\ Playerly(player[t])
  BY DEF IInv, Typed, Holdings, Players
<1>4. SameEarnings
  <2>1. CASE \E n : player' = [player EXCEPT ![t].ready = n]
    <3>1. PICK n : player' = [player EXCEPT ![t].ready = n]
      BY <2>1
    <3>2. player' = [player EXCEPT ![t] = [@ EXCEPT !.ready = n,
                       !.credits = player[t].credits, !.guards = player[t].guards]]
      BY <1>3, <3>1 DEF Playerly, PlayerFields
    <3> QED BY <3>2, OnePlayer
  <2>2. CASE \E n : player' = [player EXCEPT ![t].credits = n]
    <3>1. PICK n : player' = [player EXCEPT ![t].credits = n]
      BY <2>2
    <3>2. player' = [player EXCEPT ![t] = [@ EXCEPT !.ready = player[t].ready,
                       !.credits = n, !.guards = player[t].guards]]
      BY <1>3, <3>1 DEF Playerly, PlayerFields
    <3> QED BY <3>2, OnePlayer
  <2> QED BY <1>2, <2>1, <2>2
<1>5. Holdings'
  BY <1>1, <1>3 DEF Holdings
<1> QED BY <1>1, <1>4, <1>5, StillQueens, StillTick, StillHoldings, QuietKeeps

LEMMA HealQueenKeeps ==
  ASSUME IInv, NEW t \in Ids, HealQueen(t)
  PROVE  IInv'
<1>1. /\ queen[t] # NoQueen /\ queen' = [queen EXCEPT ![t].hp = HpOf[queen[t].level]]
      /\ UNCHANGED <<tick, player, peak, workers, brutes, land, xpq, starters, unfolded, raised,
                     skipped, gifted>>
  BY DEF HealQueen, Admin, Handler, Same, ghosts, ants
<1>2. Queenly(queen[t]) /\ Holdings
  BY <1>1 DEF IInv, Typed, Holdings, Queens
<1>3. PICK q : q = [queen[t] EXCEPT !.hp = HpOf[queen[t].level]]
  OBVIOUS
<1>4. queen' = [queen EXCEPT ![t] = q]
  BY <1>1, <1>3
<1>5. /\ Queenly(q) /\ q # NoQueen /\ q.dead = queen[t].dead /\ q.kills = queen[t].kills
      /\ q.level <= queen[t].level
  BY <1>2, <1>3, Constants DEF Queenly, QueenFields, NoQueen
<1>6. SameLives
  BY <1>1, <1>4, <1>5, OneQueen
<1>7. Holdings'
  BY <1>1, <1>2 DEF Holdings
<1> QED BY <1>1, <1>6, <1>7, StillPlayers, StillTick, StillHoldings, QuietKeeps

LEMMA LevelDownKeeps ==
  ASSUME IInv, NEW t \in Ids, LevelDown(t)
  PROVE  IInv'
<1>1. /\ queen[t] # NoQueen /\ queen[t].level > 1 /\ queen' = [queen EXCEPT ![t] = Demoted(@)]
      /\ UNCHANGED <<tick, player, peak, workers, brutes, land, xpq, starters, unfolded, raised,
                     skipped, gifted>>
  BY DEF LevelDown, Admin, Handler, Same, ghosts, ants, Live
<1>2. Queenly(queen[t]) /\ Holdings
  BY <1>1 DEF IInv, Typed, Holdings, Queens
<1>3. PICK q : q = Demoted(queen[t])
  OBVIOUS
<1>4. queen' = [queen EXCEPT ![t] = q]
  BY <1>1, <1>3 DEF IInv, Typed, Queens
<1>5. /\ Queenly(q) /\ q # NoQueen /\ q.dead = queen[t].dead /\ q.kills = queen[t].kills
      /\ q.level <= queen[t].level
  <2>1. PICK level : level = queen[t].level - 1
    OBVIOUS
  <2>2. PICK xp : xp = Smaller(Larger(queen[t].xp, XpOf[level]), XpOf[queen[t].level] - 1)
    OBVIOUS
  <2>3. PICK hp : hp = Smaller(queen[t].hp, HpOf[level])
    OBVIOUS
  <2>4. level \in 1 .. Cap - 1 /\ level \in Levels /\ level + 1 = queen[t].level
        /\ queen[t].level \in Levels /\ queen[t].level \in Nat /\ queen[t].xp \in Nat
    BY <1>1, <1>2, <2>1, Constants DEF Queenly
  <2>5. XpOf[level] \in Nat /\ XpOf[queen[t].level] \in Nat /\ XpOf[level] < XpOf[queen[t].level]
    BY <2>4, ColonyAssumption
  <2>6. xp \in Nat
    BY <2>2, <2>4, <2>5 DEF Smaller, Larger
  <2>7. q = [queen[t] EXCEPT !.level = level, !.hp = hp, !.xp = xp]
    BY <1>2, <1>3, <2>1, <2>2, <2>3 DEF Demoted
  <2>8. level <= queen[t].level
    BY <2>1, <2>4
  <2>9. q.level = level /\ q.xp = xp /\ q.dead = queen[t].dead /\ q.kills = queen[t].kills
        /\ q.attacker = queen[t].attacker /\ DOMAIN q = QueenFields
    BY <1>2, <2>7 DEF Queenly, QueenFields
  <2>10. q # NoQueen
    BY <2>9 DEF QueenFields, NoQueen
  <2> QED BY <1>2, <2>4, <2>6, <2>8, <2>9, <2>10 DEF Queenly
<1>6. SameLives
  BY <1>1, <1>4, <1>5, OneQueen
<1>7. Holdings'
  BY <1>1, <1>2 DEF Holdings
<1> QED BY <1>1, <1>6, <1>7, StillPlayers, StillTick, StillHoldings, QuietKeeps

LEMMA GiftKeeps ==
  ASSUME IInv, NEW t \in Ids, Gift(t)
  PROVE  IInv'
<1>1. /\ gifted' = IF Live(t) THEN gifted ELSE gifted \cup {t}
      /\ \/ workers' = [workers EXCEPT ![t] = @ + 1] /\ land' = land
         \/ land' = land \cup {t} /\ workers' = workers
      /\ UNCHANGED <<tick, queen, player, peak, brutes, xpq, starters, unfolded, raised, skipped>>
  BY DEF Gift, Admin, Handler, Same
<1>2. Holdings
  BY DEF IInv, Typed, Holdings
<1>3. Holdings' /\ gifted \subseteq gifted'
  BY <1>1, <1>2 DEF Holdings
<1>4. FallenGainNothing
  <2> SUFFICES ASSUME NEW u \in Ids, u \notin gifted', ~Live(u)
               PROVE  /\ u \in land' => u \in land
                      /\ workers'[u] <= workers[u] /\ brutes'[u] <= brutes[u]
    BY DEF FallenGainNothing
  <2>1. u # t
    BY <1>1
  <2> QED BY <1>1, <1>2, <2>1 DEF Holdings
<1> QED BY <1>1, <1>3, <1>4, StillQueens, StillPlayers, StillTick, QuietKeeps

-----------------------------------------------------------------------------
(* The phases of the tick but for the kills and the flush.                 *)

(* A queen wounded, healed or shielded.                                    *)
Alike(q, r) ==
  Queenly(r) /\ r # NoQueen /\ r.dead = q.dead /\ r.kills = q.kills /\ r.level = q.level

LEMMA AlikeQueens ==
  ASSUME IInv, queen' = [u \in Ids |-> queen'[u]],
         \A u \in Ids : \/ queen'[u] = queen[u]
                        \/ queen[u] # NoQueen /\ Alike(queen[u], queen'[u])
  PROVE  SameLives
<1>1. Queens(queen)
  BY DEF IInv, Typed
<1>2. ASSUME NEW u \in Ids
      PROVE  LivesOn(queen, u) /\ (queen'[u] # NoQueen => Queenly(queen'[u]))
  <2>1. queen[u] # NoQueen => Queenly(queen[u]) /\ queen[u].level \in Nat
    BY <1>1, Constants DEF Queens, Queenly
  <2>2. CASE queen'[u] = queen[u]
    BY <2>1, <2>2 DEF LivesOn
  <2>3. CASE queen[u] # NoQueen /\ Alike(queen[u], queen'[u])
    BY <2>1, <2>3 DEF LivesOn, Alike
  <2> QED BY <2>2, <2>3
<1> QED BY <1>2 DEF SameLives, Queens

LEMMA AlikeWounds ==
  ASSUME NEW q, Queenly(q), NEW hp, NEW shield, NEW attacker \in Ids \cup {Nobody}, NEW r,
         r = [q EXCEPT !.hp = hp, !.shield = shield, !.attacker = attacker]
  PROVE  Alike(q, r)
<1>1. /\ DOMAIN r = QueenFields /\ r.dead = q.dead /\ r.kills = q.kills /\ r.level = q.level
      /\ r.xp = q.xp /\ r.attacker = attacker
  BY DEF Queenly, QueenFields
<1>2. r # NoQueen
  BY <1>1 DEF QueenFields, NoQueen
<1> QED BY <1>1, <1>2 DEF Alike, Queenly

LEMMA DedupKeeps ==
  ASSUME IInv, Dedup
  PROVE  IInv'
<1>1. /\ \/ workers' = workers /\ brutes' = brutes
         \/ \E u \in Ids :
              \/ workers[u] > 0 /\ workers' = [workers EXCEPT ![u] = @ - 1] /\ brutes' = brutes
              \/ brutes[u] > 0 /\ brutes' = [brutes EXCEPT ![u] = @ - 1] /\ workers' = workers
      /\ \E at : tick' = [tick EXCEPT !.at = at]
      /\ UNCHANGED <<queen, player, peak, land, xpq, starters, unfolded, raised, skipped, gifted>>
  BY DEF Dedup, InTick, Same, ants, ghosts
<1>2. Holdings
  BY DEF IInv, Typed, Holdings
<1>3. Holdings' /\ FallenGainNothing
  BY <1>1, <1>2 DEF Holdings, FallenGainNothing
<1> QED BY <1>1, <1>3, StillQueens, StillPlayers, StillTick, QuietKeeps

LEMMA FightKeeps ==
  ASSUME IInv, Fight
  PROVE  IInv'
<1>1. /\ \E at : tick' = [tick EXCEPT !.at = at]
      /\ UNCHANGED <<player, peak, workers, brutes, land, starters, unfolded, raised, skipped, gifted>>
  BY DEF Fight, InTick, Same, ants, ghosts
<1>2. Holdings /\ Queens(queen)
  BY DEF IInv, Typed, Holdings
<1>3. PICK target \in [Ids -> {u \in Ids : Live(u)} \cup {Nobody}], brute \in [Ids -> BOOLEAN] :
       /\ LET biters(v) == {a \in Ids \ {v} : target[a] = v}
              damage(v) == SumFunctionOnSet([a \in Ids |-> Bite(a, brute[a])], biters(v))
          IN  \E last \in [Ids -> Ids \cup {Nobody}] :
                /\ \A v \in Ids : IF biters(v) = {} THEN last[v] = Nobody ELSE last[v] \in biters(v)
                /\ queen' = [v \in Ids |->
                     LET hurt == IF biters(v) = {} THEN queen[v]
                                 ELSE Wounded(queen[v], damage(v), last[v])
                     IN  IF target[v] = v
                         THEN [hurt EXCEPT !.hp = Smaller(@ + Bite(v, FALSE), HpOf[hurt.level])]
                         ELSE hurt]
       /\ xpq' = [a \in Ids |-> IF target[a] # Nobody THEN xpq[a] + 1 ELSE xpq[a]]
  BY DEF Fight
<1> DEFINE biters(v) == {a \in Ids \ {v} : target[a] = v}
           damage(v) == SumFunctionOnSet([a \in Ids |-> Bite(a, brute[a])], biters(v))
<1>4. PICK last \in [Ids -> Ids \cup {Nobody}] :
        queen' = [v \in Ids |->
          LET hurt == IF biters(v) = {} THEN queen[v]
                      ELSE Wounded(queen[v], damage(v), last[v])
          IN  IF target[v] = v
              THEN [hurt EXCEPT !.hp = Smaller(@ + Bite(v, FALSE), HpOf[hurt.level])]
              ELSE hurt]
  BY <1>3
<1>5. ASSUME NEW v \in Ids
      PROVE  \/ queen'[v] = queen[v]
             \/ queen[v] # NoQueen /\ Alike(queen[v], queen'[v])
  <2>1. PICK hurt : hurt = IF biters(v) = {} THEN queen[v]
                           ELSE Wounded(queen[v], damage(v), last[v])
    OBVIOUS
  <2>2. queen'[v] = IF target[v] = v
                    THEN [hurt EXCEPT !.hp = Smaller(@ + Bite(v, FALSE), HpOf[hurt.level])]
                    ELSE hurt
    BY <1>4, <2>1
  <2>3. CASE Live(v)
    <3>1. Queenly(queen[v]) /\ queen[v] # NoQueen
      BY <1>2, <2>3 DEF Live, Queens
    <3>2. Alike(queen[v], hurt)
      <4>1. CASE biters(v) = {}
        BY <2>1, <3>1, <4>1 DEF Alike
      <4>2. CASE biters(v) # {}
        <5>1. hurt = Wounded(queen[v], damage(v), last[v])
          BY <2>1, <4>2
        <5> HIDE DEF damage
        <5>2. PICK absorbed : absorbed = Smaller(damage(v), queen[v].shield)
          OBVIOUS
        <5>3. PICK shield : shield = queen[v].shield - absorbed
          OBVIOUS
        <5>4. PICK hp : hp = Larger(queen[v].hp - (damage(v) - absorbed), 0)
          OBVIOUS
        <5>5. hurt = [queen[v] EXCEPT !.hp = hp, !.shield = shield, !.attacker = last[v]]
          BY <3>1, <5>1, <5>2, <5>3, <5>4 DEF Wounded, Queenly, QueenFields
        <5> QED BY <1>4, <3>1, <5>5, AlikeWounds
      <4> QED BY <4>1, <4>2
    <3>3. CASE target[v] = v
      <4>1. PICK hp : hp = Smaller(hurt.hp + Bite(v, FALSE), HpOf[hurt.level])
        OBVIOUS
      <4>2. queen'[v] = [hurt EXCEPT !.hp = hp]
        BY <2>2, <3>3, <4>1
      <4>3. queen'[v] = [hurt EXCEPT !.hp = hp, !.shield = hurt.shield, !.attacker = hurt.attacker]
        BY <3>2, <4>2 DEF Alike, Queenly, QueenFields
      <4>4. Alike(hurt, queen'[v])
        <5>1. Queenly(hurt) /\ hurt.attacker \in Ids \cup {Nobody}
          BY <3>2 DEF Alike, Queenly
        <5>2. PICK r : r = queen'[v]
          OBVIOUS
        <5>3. r = [hurt EXCEPT !.hp = hp, !.shield = hurt.shield, !.attacker = hurt.attacker]
          BY <4>3, <5>2
        <5>4. Alike(hurt, r)
          BY <5>1, <5>3, AlikeWounds
        <5> QED BY <5>2, <5>4
      <4> QED BY <3>1, <3>2, <4>4 DEF Alike
    <3>4. CASE target[v] # v
      BY <2>2, <3>1, <3>2, <3>4
    <3> QED BY <3>3, <3>4
  <2>4. CASE ~Live(v)
    <3>1. \A a \in Ids : target[a] # v
      BY <1>3, <2>4, Constants
    <3>2. biters(v) = {}
      BY <3>1
    <3> QED BY <2>1, <2>2, <3>1, <3>2
  <2> QED BY <2>3, <2>4
<1>6. SameLives
  <2>1. queen' = [u \in Ids |-> queen'[u]]
    BY <1>4
  <2> QED BY <1>5, <2>1, AlikeQueens
<1>7. Holdings'
  BY <1>1, <1>2, <1>3 DEF Holdings
<1> QED BY <1>1, <1>6, <1>7, StillPlayers, StillTick, StillHoldings, QuietKeeps

LEMMA ClashKeeps ==
  ASSUME IInv, Clash
  PROVE  IInv'
<1>1. /\ \E at : tick' = [tick EXCEPT !.at = at]
      /\ land' = land \cup {u \in Ids : Fielded(u) > 0}
      /\ \/ UNCHANGED <<workers, brutes, xpq>>
         \/ \E u \in land' : xpq' = [xpq EXCEPT ![u] = @ + 1] /\ UNCHANGED <<workers, brutes>>
         \/ \E dom \in land', u \in Ids :
              /\ u # dom
              /\ \/ workers[u] > 0 /\ workers' = [workers EXCEPT ![u] = @ - 1, ![dom] = @ + 1]
                    /\ UNCHANGED brutes
                 \/ brutes[u] > 0 /\ brutes' = [brutes EXCEPT ![u] = @ - 1, ![dom] = @ + 1]
                    /\ UNCHANGED workers
              /\ xpq' = [xpq EXCEPT ![dom] = @ + 1]
      /\ UNCHANGED <<queen, player, peak, starters, unfolded, raised, skipped, gifted>>
  BY DEF Clash, InTick, Same, ants, ghosts
<1>2. Holdings
  BY DEF IInv, Typed, Holdings
<1>3. land' \subseteq Ids
  BY <1>1, <1>2 DEF Holdings
<1>4. ASSUME NEW u \in Ids, u \notin gifted', ~Live(u)
      PROVE  u \notin land' /\ workers[u] = 0 /\ brutes[u] = 0
  BY <1>1, <1>4 DEF IInv, FallenBare, Fielded
<1>5. Holdings' /\ FallenGainNothing
  <2>1. CASE UNCHANGED <<workers, brutes>> /\ (xpq' = xpq \/ \E u \in land' : xpq' = [xpq EXCEPT ![u] = @ + 1])
    BY <1>2, <1>3, <1>4, <2>1 DEF Holdings, FallenGainNothing
  <2>2. CASE \E dom \in land', u \in Ids :
               /\ u # dom
               /\ \/ workers[u] > 0 /\ workers' = [workers EXCEPT ![u] = @ - 1, ![dom] = @ + 1]
                     /\ UNCHANGED brutes
                  \/ brutes[u] > 0 /\ brutes' = [brutes EXCEPT ![u] = @ - 1, ![dom] = @ + 1]
                     /\ UNCHANGED workers
               /\ xpq' = [xpq EXCEPT ![dom] = @ + 1]
    <3>1. PICK dom \in land', u \in Ids :
               /\ u # dom
               /\ \/ workers[u] > 0 /\ workers' = [workers EXCEPT ![u] = @ - 1, ![dom] = @ + 1]
                     /\ UNCHANGED brutes
                  \/ brutes[u] > 0 /\ brutes' = [brutes EXCEPT ![u] = @ - 1, ![dom] = @ + 1]
                     /\ UNCHANGED workers
               /\ xpq' = [xpq EXCEPT ![dom] = @ + 1]
      BY <2>2
    <3>2. dom \in Ids
      BY <1>3
    <3>3. Holdings'
      BY <1>2, <1>3, <3>1, <3>2 DEF Holdings
    <3>4. FallenGainNothing
      <4> SUFFICES ASSUME NEW v \in Ids, v \notin gifted', ~Live(v)
                   PROVE  v \notin land' /\ workers'[v] <= workers[v] /\ brutes'[v] <= brutes[v]
        BY DEF FallenGainNothing
      <4>1. v \notin land' /\ workers[v] = 0 /\ brutes[v] = 0
        BY <1>4
      <4>2. v # dom
        BY <4>1
      <4>3. workers'[v] <= workers[v] /\ brutes'[v] <= brutes[v]
        BY <1>2, <3>1, <3>2, <4>1, <4>2 DEF Holdings
      <4> QED BY <4>1, <4>3
    <3> QED BY <3>3, <3>4
  <2> QED BY <1>1, <2>1, <2>2
<1>6. gifted \subseteq gifted'
  BY <1>1
<1> QED BY <1>1, <1>5, <1>6, StillQueens, StillPlayers, StillTick, QuietKeeps

LEMMA PoolEarns ==
  ASSUME IInv, NEW u \in Ids, \E n : player' = [player EXCEPT ![u].ready = n]
  PROVE  SameEarnings
<1>1. Players(player) /\ Playerly(player[u])
  BY DEF IInv, Typed, Players
<1>2. PICK n : player' = [player EXCEPT ![u].ready = n]
  OBVIOUS
<1>3. player' = [player EXCEPT ![u] = [@ EXCEPT !.ready = n,
                   !.credits = player[u].credits, !.guards = player[u].guards]]
  BY <1>1, <1>2 DEF Playerly, PlayerFields
<1> QED BY <1>3, OnePlayer

LEMMA ReturnedEarns ==
  ASSUME IInv, player' = player \/ \E u \in Ids : player' = Returned(u)
  PROVE  SameEarnings
<1>1. player' = player \/ \E u \in Ids : player' = [player EXCEPT ![u].ready = @ + 1]
  BY DEF Returned
<1>2. CASE \E u \in Ids : player' = [player EXCEPT ![u].ready = @ + 1]
  <2>1. PICK u \in Ids : player' = [player EXCEPT ![u].ready = @ + 1]
    BY <1>2
  <2>2. PICK n : n = player[u].ready + 1
    OBVIOUS
  <2>3. player' = [player EXCEPT ![u].ready = n]
    BY <2>1, <2>2
  <2> QED BY <2>3, PoolEarns
<1> QED BY <1>1, <1>2, StillPlayers

LEMMA CaptureKeeps ==
  ASSUME IInv, Capture
  PROVE  IInv'
<1>1. /\ \E at : tick' = [tick EXCEPT !.at = at]
      /\ \/ UNCHANGED <<player, workers>>
         \/ \E u \in Ids :
              workers[u] > 0 /\ workers' = [workers EXCEPT ![u] = @ - 1] /\ player' = Returned(u)
      /\ UNCHANGED <<queen, peak, brutes, land, xpq, starters, unfolded, raised, skipped, gifted>>
  BY DEF Capture, InTick, Same, ants, ghosts
<1>2. Holdings
  BY DEF IInv, Typed, Holdings
<1>3. Holdings' /\ FallenGainNothing
  BY <1>1, <1>2 DEF Holdings, FallenGainNothing
<1>4. SameEarnings
  <2>1. player' = player \/ \E u \in Ids : player' = Returned(u)
    BY <1>1
  <2> QED BY <2>1, ReturnedEarns
<1> QED BY <1>1, <1>3, <1>4, StillQueens, StillTick, QuietKeeps

LEMMA ExpireKeeps ==
  ASSUME IInv, Expire
  PROVE  IInv'
<1>1. /\ \E at : tick' = [tick EXCEPT !.at = at]
      /\ \/ UNCHANGED <<player, workers, brutes>>
         \/ \E u \in Ids :
              /\ \/ workers[u] > 0 /\ workers' = [workers EXCEPT ![u] = @ - 1] /\ brutes' = brutes
                 \/ brutes[u] > 0 /\ brutes' = [brutes EXCEPT ![u] = @ - 1] /\ workers' = workers
              /\ player' = Returned(u)
      /\ UNCHANGED <<queen, peak, land, xpq, starters, unfolded, raised, skipped, gifted>>
  BY DEF Expire, InTick, Same, ants, ghosts
<1>2. Holdings
  BY DEF IInv, Typed, Holdings
<1>3. Holdings' /\ FallenGainNothing
  BY <1>1, <1>2 DEF Holdings, FallenGainNothing
<1>4. SameEarnings
  <2>1. player' = player \/ \E u \in Ids : player' = Returned(u)
    BY <1>1
  <2> QED BY <2>1, ReturnedEarns
<1> QED BY <1>1, <1>3, <1>4, StillQueens, StillTick, QuietKeeps

LEMMA UpkeepKeeps ==
  ASSUME IInv, Upkeep
  PROVE  IInv'
<1>1. /\ \E at : tick' = [tick EXCEPT !.at = at]
      /\ \E regen, expired \in BOOLEAN :
           queen' = [u \in Ids |->
             IF queen[u] = NoQueen THEN NoQueen
             ELSE [queen[u] EXCEPT
                     !.hp = IF regen /\ ~queen[u].dead THEN Smaller(@ + 1, HpOf[queen[u].level]) ELSE @,
                     !.shield = IF expired THEN 0 ELSE @]]
      /\ \/ UNCHANGED <<player, workers>>
         \/ \E u \in Users :
              /\ Live(u)
              /\ \/ player' = [player EXCEPT ![u].guards = 0] /\ workers' = workers
                 \/ /\ player' = [player EXCEPT ![u].guards = @ - 1]
                    /\ workers' = [workers EXCEPT ![u] = @ + 1]
      /\ UNCHANGED <<peak, brutes, land, xpq, starters, unfolded, raised, skipped, gifted>>
  BY DEF Upkeep, InTick, Same, ants, ghosts
<1>2. Holdings /\ Queens(queen) /\ Players(player) /\ Users \subseteq Ids
  BY Constants DEF IInv, Typed, Holdings
<1>3. SameLives
  <2>1. PICK regen \in BOOLEAN, expired \in BOOLEAN :
          queen' = [u \in Ids |->
            IF queen[u] = NoQueen THEN NoQueen
            ELSE [queen[u] EXCEPT
                    !.hp = IF regen /\ ~queen[u].dead THEN Smaller(@ + 1, HpOf[queen[u].level]) ELSE @,
                    !.shield = IF expired THEN 0 ELSE @]]
    BY <1>1
  <2>2. ASSUME NEW u \in Ids, queen[u] # NoQueen
        PROVE  Alike(queen[u], queen'[u])
    <3>1. Queenly(queen[u]) /\ queen[u].attacker \in Ids \cup {Nobody}
      BY <1>2, <2>2 DEF Queens, Queenly
    <3>2. PICK hp : hp = IF regen /\ ~queen[u].dead
                         THEN Smaller(queen[u].hp + 1, HpOf[queen[u].level]) ELSE queen[u].hp
      OBVIOUS
    <3>3. PICK shield : shield = IF expired THEN 0 ELSE queen[u].shield
      OBVIOUS
    <3>4. PICK r : r = queen'[u]
      OBVIOUS
    <3>5. r = [queen[u] EXCEPT !.hp = hp, !.shield = shield]
      BY <2>1, <2>2, <3>2, <3>3, <3>4
    <3>6. r = [queen[u] EXCEPT !.hp = hp, !.shield = shield, !.attacker = queen[u].attacker]
      BY <3>1, <3>5 DEF Queenly, QueenFields
    <3>7. Alike(queen[u], r)
      BY <3>1, <3>6, AlikeWounds
    <3> QED BY <3>4, <3>7
  <2>3. \A u \in Ids : queen[u] = NoQueen => queen'[u] = queen[u]
    BY <2>1
  <2>4. queen' = [u \in Ids |-> queen'[u]]
    BY <2>1
  <2> QED BY <2>2, <2>3, <2>4, AlikeQueens
<1>4. SameEarnings
  <2>1. CASE player' = player
    BY <2>1, StillPlayers
  <2>2. CASE \E u \in Users : \E n : player' = [player EXCEPT ![u].guards = n]
    <3>0. PICK u \in Users : \E n : player' = [player EXCEPT ![u].guards = n]
      BY <2>2
    <3>1. PICK n : player' = [player EXCEPT ![u].guards = n]
      BY <3>0
    <3>2. u \in Ids /\ Playerly(player[u])
      BY <1>2 DEF Players
    <3>3. player' = [player EXCEPT ![u] = [@ EXCEPT !.ready = player[u].ready,
                       !.credits = player[u].credits, !.guards = n]]
      BY <1>2, <3>1, <3>2 DEF Playerly, PlayerFields
    <3> QED BY <3>2, <3>3, OnePlayer
  <2>3. player' = player \/ \E u \in Users : \E n : player' = [player EXCEPT ![u].guards = n]
    BY <1>1
  <2> QED BY <2>1, <2>2, <2>3
<1>5. Holdings' /\ FallenGainNothing
  <2>0. /\ UNCHANGED <<brutes, land, xpq, gifted>>
        /\ \/ workers' = workers
           \/ \E u \in Users : Live(u) /\ workers' = [workers EXCEPT ![u] = @ + 1]
    BY <1>1
  <2>1. CASE workers' = workers
    BY <1>2, <2>0, <2>1 DEF Holdings, FallenGainNothing
  <2>2. CASE \E u \in Users : Live(u) /\ workers' = [workers EXCEPT ![u] = @ + 1]
    <3>1. PICK u \in Users : Live(u) /\ workers' = [workers EXCEPT ![u] = @ + 1]
      BY <2>2
    <3>2. Holdings'
      BY <1>2, <2>0, <3>1 DEF Holdings
    <3>3. \A v \in Ids : ~Live(v) => workers'[v] = workers[v]
      BY <1>2, <3>1 DEF Holdings
    <3> QED BY <1>2, <2>0, <3>2, <3>3 DEF Holdings, FallenGainNothing
  <2> QED BY <2>0, <2>1, <2>2
<1> QED BY <1>1, <1>3, <1>4, <1>5, StillTick, QuietKeeps

(* The kills found by the two scans are of queens.                         *)
LEMMA ScanKeeps ==
  ASSUME IInv, Meet \/ Deaths
  PROVE  IInv'
<1>1. UNCHANGED <<queen, player, peak, workers, brutes, land, xpq, starters, unfolded, raised,
                  skipped, gifted>>
  BY DEF Meet, Deaths, Same, ants, ghosts
<1>2. Ticking(tick')
  <2>1. CASE Meet
    <3>1. PICK index, touching :
            tick' = [at |-> "collide",
                     list |-> {k \in [turn : Range(index), loser : {u \in Ids : Live(u)},
                                      winner : {u \in Ids : Live(u)}] :
                                 /\ {k.loser, k.winner} \in touching
                                 /\ Loses(k.loser, k.winner, index)
                                 /\ k.turn = Smaller(index[k.loser], index[k.winner])}]
      BY <2>1 DEF Meet
    <3>2. tick'.list \subseteq [turn : Range(index), loser : {u \in Ids : Live(u)},
                                winner : {u \in Ids : Live(u)}]
      BY <3>1
    <3> HIDE DEF Range
    <3>3. \A k \in tick'.list : k.loser \in Ids /\ k.winner \in Ids
      BY <3>2
    <3> QED BY <3>1, <3>3 DEF Ticking
  <2>2. CASE Deaths
    <3>1. tick' = [at |-> "deaths",
                   list |-> {[turn |-> 0, loser |-> u, winner |-> queen[u].attacker] :
                               u \in {v \in Ids : Live(v) /\ queen[v].hp <= 0}}]
      BY <2>2 DEF Deaths
    <3>2. \A u \in Ids : Live(u) => queen[u].attacker \in Ids \cup {Nobody}
      BY DEF IInv, Typed, Queens, Queenly, Live
    <3> QED BY <3>1, <3>2 DEF Ticking
  <2> QED BY <2>1, <2>2
<1>3. Holdings'
  BY <1>1 DEF IInv, Typed, Holdings
<1> QED BY <1>1, <1>2, <1>3, StillQueens, StillPlayers, StillHoldings, QuietKeeps

-----------------------------------------------------------------------------
(* Promotions and level-up.                                                *)

LEMMA PromoteKeeps ==
  ASSUME IInv, NEW t \in Ids, Live(t), NEW q, Queenly(q), q # NoQueen, ~q.dead,
         q.kills = queen[t].kills, Promote(t, q), tick' = tick
  PROVE  IInv'
<1>0. PICK S, level : S = {t} \cap Users /\ level = [u \in S |-> q.level]
  OBVIOUS
<1>1. /\ queen' = [queen EXCEPT ![t] = q] /\ Unlock(S, level)
      /\ \E ready, credits : player' = [player EXCEPT ![t].ready = ready, ![t].credits = credits]
      /\ UNCHANGED <<workers, brutes, land, unfolded, raised, gifted, xpq>>
  BY <1>0 DEF Promote, Same, ants
<1>2. /\ Typed /\ Queens(queen) /\ Players(player) /\ xpq \in [Ids -> Nat] /\ Playerly(player[t])
      /\ queen[t] # NoQueen /\ ~queen[t].dead
  BY DEF IInv, Typed, Players, Live
<1>3. /\ S \in SUBSET Users /\ \A u \in S : level[u] \in Nat /\ level[u] = q.level
      /\ q.level \in Nat /\ \A u \in Users : u \in S <=> u = t
  BY <1>0, Constants DEF Queenly
<1>4. /\ peak' \in [Users -> Nat] /\ starters' \in [Users -> Nat] /\ skipped' = skipped \ S
      /\ \A u \in Users : peak'[u] >= peak[u] /\ starters'[u] = starters[u] + Pays(u)
      /\ \A u \in Users : u \in S => level[u] <= peak'[u]
  BY <1>1, <1>2, <1>3, UnlockPays
<1>5. SameEarnings
  <2>1. PICK ready, credits :
          player' = [player EXCEPT ![t].ready = ready, ![t].credits = credits]
    BY <1>1
  <2>2. player' = [player EXCEPT ![t] =
          [@ EXCEPT !.ready = ready, !.credits = credits, !.guards = player[t].guards]]
    BY <1>2, <2>1 DEF Playerly, PlayerFields
  <2> QED BY <2>2, OnePlayer
<1>6. Queens(queen')
  BY <1>1, <1>2 DEF Queens
<1>7. ASSUME NEW u \in Ids
      PROVE  /\ queen'[u] = NoQueen <=> queen[u] = NoQueen
             /\ queen[u] # NoQueen => queen'[u].dead = queen[u].dead
             /\ queen[u] # NoQueen => queen'[u].kills = queen[u].kills
             /\ u # t => queen'[u] = queen[u]
             /\ u = t => queen'[u] = q
  <2>1. CASE u = t
    <3>1. queen'[u] = q
      BY <1>1, <1>2, <2>1 DEF Queens
    <3>2. q.dead = FALSE /\ queen[t].dead = FALSE
      BY <1>2 DEF Queenly, Queens
    <3> QED BY <1>2, <2>1, <3>1, <3>2
  <2>2. CASE u # t
    <3>1. queen'[u] = queen[u]
      BY <1>1, <1>2, <2>2 DEF Queens
    <3> QED BY <2>2, <3>1
  <2> QED BY <2>1, <2>2
<1>8. ASSUME NEW u \in Users, Gains(queen, u)
      PROVE  \/ queen'[u].level = queen[u].level /\ (u \in skipped => u \in skipped')
             \/ queen'[u].level <= peak'[u]
  <2>1. u \in Ids
    BY Constants
  <2>2. CASE u = t
    BY <1>3, <1>4, <1>7, <2>1, <2>2
  <2>3. CASE u # t
    BY <1>3, <1>4, <1>7, <2>1, <2>3
  <2> QED BY <2>2, <2>3
<1>9. Flushed(queen, player)
  BY <1>1, <1>2, <1>4, <1>5, <1>6, <1>7, <1>8 DEF Flushed, SameEarnings
<1>10. Ticking(tick')
  BY StillTick
<1> QED BY <1>1, <1>9, <1>10, FlushedKeeps

LEMMA SetLevelKeeps ==
  ASSUME IInv, NEW t \in Ids, NEW level \in Levels, SetLevel(t, level)
  PROVE  IInv'
<1>1. PICK q : q = [queen[t] EXCEPT !.level = level, !.xp = XpOf[level], !.hp = Smaller(@, HpOf[level])]
  OBVIOUS
<1>2. Live(t) /\ Promote(t, q) /\ tick' = tick
  BY <1>1 DEF SetLevel, Admin, Handler
<1>3. Queenly(queen[t]) /\ ~queen[t].dead
  BY <1>2 DEF Live, IInv, Typed, Queens
<1>4. XpOf[level] \in Nat
  BY ColonyAssumption
<1>5. /\ DOMAIN q = QueenFields /\ q.dead = queen[t].dead /\ q.kills = queen[t].kills
      /\ q.attacker = queen[t].attacker /\ q.level = level /\ q.xp = XpOf[level]
  BY <1>1, <1>3 DEF Queenly, QueenFields
<1>6. Queenly(q)
  BY <1>3, <1>4, <1>5 DEF Queenly
<1>7. q # NoQueen
  BY <1>5 DEF NoQueen, QueenFields
<1> QED BY <1>2, <1>3, <1>5, <1>6, <1>7, PromoteKeeps

LEMMA GiveXpKeeps ==
  ASSUME IInv, NEW t \in Ids, GiveXp(t)
  PROVE  IInv'
<1>1. PICK level : level = Larger(queen[t].level, LevelFor(queen[t].xp + 1))
  OBVIOUS
<1>2. PICK q : q = [queen[t] EXCEPT !.xp = @ + 1, !.level = level,
                                    !.hp = IF level > queen[t].level THEN HpOf[level] ELSE @]
  OBVIOUS
<1>3. Live(t) /\ Promote(t, q) /\ tick' = tick
  BY <1>1, <1>2 DEF GiveXp, Admin, Handler
<1>4. Queenly(queen[t]) /\ ~queen[t].dead
  BY <1>3 DEF Live, IInv, Typed, Queens
<1>5. level \in Levels /\ queen[t].xp + 1 \in Nat
  <2>1. queen[t].xp + 1 \in Nat /\ queen[t].level \in Levels
    BY <1>4 DEF Queenly
  <2>2. LevelFor(queen[t].xp + 1) \in Levels
    BY <2>1, LevelForType
  <2> QED BY <1>1, <2>1, <2>2 DEF Larger
<1>6. /\ DOMAIN q = QueenFields /\ q.dead = queen[t].dead /\ q.kills = queen[t].kills
      /\ q.attacker = queen[t].attacker /\ q.level = level /\ q.xp = queen[t].xp + 1
  BY <1>2, <1>4 DEF Queenly, QueenFields
<1>7. Queenly(q)
  BY <1>4, <1>5, <1>6 DEF Queenly
<1>8. q # NoQueen
  BY <1>6 DEF NoQueen, QueenFields
<1> QED BY <1>3, <1>4, <1>6, <1>7, <1>8, PromoteKeeps

LEMMA LevelUpKeeps ==
  ASSUME IInv, NEW t \in Ids, LevelUp(t)
  PROVE  IInv'
<1>1. PICK level, hp : /\ level = queen[t].level + 1
                       /\ hp = Smaller(queen[t].hp + (HpOf[level] - HpOf[level - 1]), HpOf[level])
  OBVIOUS
<1>2. PICK q : q = [queen[t] EXCEPT !.level = level, !.xp = XpOf[level], !.hp = hp]
  OBVIOUS
<1>3. Queens(queen) /\ Players(player) /\ Playerly(player[t])
  BY DEF IInv, Typed, Players
<1>4. Live(t) /\ queen[t].level < Cap
  BY DEF LevelUp
<1>5. Queenly(queen[t]) /\ queen[t] # NoQueen /\ ~queen[t].dead
  BY <1>3, <1>4 DEF Live, Queens
<1>6. /\ queen' = [queen EXCEPT ![t] = q]
      /\ player' = [player EXCEPT ![t].ready = @ + LevelGrant]
      /\ skipped' = IF t \in Users /\ queen'[t].level > peak[t] THEN skipped \cup {t} ELSE skipped
      /\ UNCHANGED <<tick, peak, workers, brutes, land, xpq, starters, unfolded, raised, gifted>>
  <2>1. queen' = [queen EXCEPT ![t].level = level, ![t].xp = XpOf[level], ![t].hp = hp]
    BY <1>1 DEF LevelUp
  <2>2. queen' = [queen EXCEPT ![t] = q]
    BY <1>2, <1>3, <1>5, <2>1 DEF Queenly, QueenFields
  <2> QED BY <2>2 DEF LevelUp, Admin, Handler, Same, ants
<1>7. level \in Levels /\ XpOf[level] \in Nat
  <2>1. queen[t].level \in Levels
    BY <1>5 DEF Queenly
  <2>2. level \in Levels
    BY <1>1, <1>4, <2>1, Constants
  <2> QED BY <2>2, ColonyAssumption
<1>8. /\ DOMAIN q = QueenFields /\ q.dead = queen[t].dead /\ q.kills = queen[t].kills
      /\ q.attacker = queen[t].attacker /\ q.level = level /\ q.xp = XpOf[level]
  BY <1>2, <1>5 DEF Queenly, QueenFields
<1>9. Queenly(q) /\ q # NoQueen
  <2>1. q # NoQueen
    BY <1>8 DEF NoQueen, QueenFields
  <2> QED BY <1>5, <1>7, <1>8, <2>1 DEF Queenly
<1>10. Queens(queen') /\ queen'[t] = q /\ \A u \in Ids : u # t => queen'[u] = queen[u]
  BY <1>3, <1>6, <1>9 DEF Queens
<1>11. SameEarnings
  <2>1. \E n : player' = [player EXCEPT ![t].ready = n]
    <3>1. PICK n : n = player[t].ready + LevelGrant
      OBVIOUS
    <3>2. player' = [player EXCEPT ![t].ready = n]
      BY <1>6, <3>1
    <3> QED BY <3>2
  <2> QED BY <2>1, PoolEarns
<1>12. \A u \in Users : peak'[u] >= peak[u] /\ starters'[u] = starters[u] + Pays(u)
  <2> SUFFICES ASSUME NEW u \in Users
               PROVE  peak'[u] >= peak[u] /\ starters'[u] = starters[u] + Pays(u)
    OBVIOUS
  <2>1. peak'[u] = peak[u] /\ peak[u] \in Nat /\ starters'[u] = starters[u] /\ starters[u] \in Nat
    BY <1>6 DEF IInv, Typed
  <2>2. Pays(u) = 0
    BY <2>1, Constants DEF Pays
  <2> QED BY <2>1, <2>2
<1>13. ASSUME NEW u \in Users, Gains(queen, u)
       PROVE  \/ queen'[u].level = queen[u].level /\ (u \in skipped => u \in skipped')
              \/ queen'[u].level <= peak'[u]
              \/ u \in skipped'
  <2>1. u \in Ids /\ peak'[u] = peak[u] /\ peak[u] \in Nat
    BY <1>6, Constants DEF IInv, Typed
  <2>2. CASE u = t
    <3>1. queen'[t].level \in Nat
      BY <1>7, <1>8, <1>10, Constants
    <3> QED BY <1>6, <2>1, <2>2, <3>1
  <2>3. CASE u # t
    BY <1>6, <1>10, <2>1, <2>3
  <2> QED BY <2>2, <2>3
<1>14. \A u \in Ids : /\ queen'[u] = NoQueen <=> queen[u] = NoQueen
                      /\ queen[u] # NoQueen => queen'[u].dead = queen[u].dead
                      /\ queen[u] # NoQueen => queen'[u].kills = queen[u].kills
  BY <1>5, <1>8, <1>9, <1>10
<1>15. peak' \in [Users -> Nat] /\ starters' \in [Users -> Nat] /\ xpq' \in [Ids -> Nat]
  BY <1>6 DEF IInv, Typed
<1>16. Flushed(queen, player)
  BY <1>10, <1>11, <1>12, <1>13, <1>14, <1>15 DEF Flushed, SameEarnings
<1>17. Ticking(tick')
  BY <1>6, StillTick
<1> QED BY <1>6, <1>16, <1>17, FlushedKeeps

-----------------------------------------------------------------------------
(* Queens come and go.                                                     *)

LEMMA NewQueenly ==
  Queenly(NewQueen) /\ NewQueen # NoQueen /\ ~NewQueen.dead /\ NewQueen.kills = 0
    /\ NewQueen.level = 1
BY Constants DEF NewQueen, NoQueen, Queenly, QueenFields

LEMMA PlaceQueenKeeps ==
  ASSUME IInv, NEW t \in Users, PlaceQueen(t)
  PROVE  IInv'
<1>1. /\ ~Live(t) /\ queen' = [queen EXCEPT ![t] = NewQueen]
      /\ land' = land \cup {t} /\ gifted' = gifted \ {t}
      /\ UNCHANGED <<tick, player, peak, workers, brutes, xpq, starters, unfolded, raised, skipped>>
  BY DEF PlaceQueen, Handler, Same, ants
<1>2. /\ t \in Ids /\ Queens(queen) /\ KillsFolded /\ StarterOnce /\ RaisedPast /\ Covered
      /\ FallenBare /\ Users \subseteq Ids
  BY Constants DEF IInv, Typed
<1>3. queen'[t] = NewQueen /\ \A u \in Ids : u # t => queen'[u] = queen[u]
  BY <1>1, <1>2 DEF Queens
<1>4. Live(t)' /\ \A u \in Ids : u # t => (Live(u)' <=> Live(u))
  BY <1>2, <1>3, NewQueenly DEF Live
<1>5. Typed'
  <2>1. Queens(queen')
    BY <1>1, <1>2, <1>3, NewQueenly DEF Queens
  <2> QED BY <1>1, <1>2, <2>1 DEF IInv, Typed
<1>6. KillsFolded'
  <2> SUFFICES ASSUME NEW u \in Users
               PROVE  player[u].rivals = player[u].lifetime
                        + (IF Live(u)' THEN queen'[u].kills ELSE 0) + unfolded[u]
    BY <1>1 DEF KillsFolded
  <2>1. player[u].rivals = player[u].lifetime + (IF Live(u) THEN queen[u].kills ELSE 0) + unfolded[u]
    BY <1>2 DEF KillsFolded
  <2>2. CASE u = t
    <3>1. (IF Live(u)' THEN queen'[u].kills ELSE 0) = 0
      BY <1>3, <1>4, <2>2, NewQueenly
    <3>2. (IF Live(u) THEN queen[u].kills ELSE 0) = 0
      BY <1>1, <2>2
    <3> QED BY <2>1, <3>1, <3>2
  <2>3. CASE u # t
    <3>1. (IF Live(u)' THEN queen'[u].kills ELSE 0) = (IF Live(u) THEN queen[u].kills ELSE 0)
      BY <1>2, <1>3, <1>4, <2>3
    <3> QED BY <2>1, <3>1
  <2> QED BY <2>2, <2>3
<1>7. StarterOnce' /\ RaisedPast'
  BY <1>1, <1>2 DEF StarterOnce, RaisedPast, Shop
<1>8. Covered'
  <2> SUFFICES ASSUME NEW u \in Users, u \notin skipped, Live(u)'
               PROVE  queen'[u].level <= Larger(peak[u], 1)
    BY <1>1 DEF Covered
  <2>1. peak[u] \in Nat /\ u \in Ids
    BY <1>2 DEF IInv, Typed
  <2>2. CASE u = t
    BY <1>3, <2>1, <2>2, NewQueenly DEF Larger
  <2>3. CASE u # t
    BY <1>2, <1>3, <1>4, <2>1, <2>3 DEF Covered
  <2> QED BY <2>2, <2>3
<1>9. FallenBare'
  <2> SUFFICES ASSUME NEW u \in Ids, u \notin gifted', ~Live(u)'
               PROVE  u \notin land' /\ workers'[u] = 0 /\ brutes'[u] = 0
    BY DEF FallenBare
  <2>1. u # t /\ u \notin gifted /\ ~Live(u)
    BY <1>1, <1>4
  <2> QED BY <1>1, <1>2, <2>1 DEF FallenBare
<1> QED BY <1>5, <1>6, <1>7, <1>8, <1>9 DEF IInv

LEMMA SpawnNpcKeeps ==
  ASSUME IInv, NEW n \in Npcs, SpawnNpc(n)
  PROVE  IInv'
<1>1. /\ queen' = [queen EXCEPT ![n] = NewQueen]
      /\ player' = [player EXCEPT ![n] = [ready |-> 0, credits |-> 0, lifetime |-> 0,
                                          rivals |-> 0, guards |-> 0]]
      /\ workers' = [workers EXCEPT ![n] = 1] /\ land' = land \cup {n}
      /\ UNCHANGED <<tick, peak, brutes, xpq, starters, unfolded, raised, skipped, gifted>>
  BY DEF SpawnNpc, Admin, Handler, Same, ghosts
<1>2. /\ n \in Ids /\ n \notin Users /\ Queens(queen) /\ Players(player) /\ KillsFolded
      /\ StarterOnce /\ RaisedPast /\ Covered /\ FallenBare /\ Users \subseteq Ids /\ Holdings
  BY Constants, ColonyAssumption DEF IInv, Typed, Ids, Holdings
<1>3. queen'[n] = NewQueen /\ \A u \in Ids : u # n => queen'[u] = queen[u]
  BY <1>1, <1>2 DEF Queens
<1>4. /\ player'[n] = [ready |-> 0, credits |-> 0, lifetime |-> 0, rivals |-> 0, guards |-> 0]
      /\ \A u \in Ids : u # n => player'[u] = player[u]
  BY <1>1, <1>2 DEF Players
<1>5. Live(n)' /\ \A u \in Ids : u # n => (Live(u)' <=> Live(u))
  BY <1>2, <1>3, NewQueenly DEF Live
<1>6. Typed'
  <2>1. Queens(queen')
    BY <1>1, <1>2, <1>3, NewQueenly DEF Queens
  <2>2. Playerly(player'[n])
    BY <1>4 DEF Playerly, PlayerFields
  <2>3. Players(player')
    BY <1>1, <1>2, <1>4, <2>2 DEF Players
  <2>4. Holdings'
    BY <1>1, <1>2 DEF Holdings
  <2> QED BY <1>1, <2>1, <2>3, <2>4 DEF IInv, Typed, Holdings
<1>7. \A u \in Users : /\ u \in Ids /\ queen'[u] = queen[u] /\ player'[u] = player[u]
                       /\ Live(u)' <=> Live(u)
  BY <1>2, <1>3, <1>4, <1>5
<1>8. KillsFolded'
  <2> SUFFICES ASSUME NEW u \in Users
               PROVE  player'[u].rivals = player'[u].lifetime
                        + (IF Live(u)' THEN queen'[u].kills ELSE 0) + unfolded'[u]
    BY DEF KillsFolded
  <2>1. player[u].rivals = player[u].lifetime + (IF Live(u) THEN queen[u].kills ELSE 0) + unfolded[u]
    BY <1>2 DEF KillsFolded
  <2>2. (IF Live(u)' THEN queen'[u].kills ELSE 0) = (IF Live(u) THEN queen[u].kills ELSE 0)
    BY <1>7
  <2> QED BY <1>1, <1>7, <2>1, <2>2
<1>9. StarterOnce' /\ RaisedPast'
  BY <1>1, <1>2 DEF StarterOnce, RaisedPast, Shop
<1>10. Covered'
  BY <1>1, <1>2, <1>7 DEF Covered
<1>11. FallenBare'
  <2> SUFFICES ASSUME NEW u \in Ids, u \notin gifted', ~Live(u)'
               PROVE  u \notin land' /\ workers'[u] = 0 /\ brutes'[u] = 0
    BY DEF FallenBare
  <2>1. u # n /\ u \notin gifted /\ ~Live(u)
    BY <1>1, <1>5
  <2> QED BY <1>1, <1>2, <2>1 DEF FallenBare, Holdings
<1> QED BY <1>6, <1>8, <1>9, <1>10, <1>11 DEF IInv

LEMMA SeasonWipeKeeps ==
  ASSUME IInv, SeasonWipe
  PROVE  IInv'
<1>1. /\ queen' = [u \in Ids |-> NoQueen]
      /\ unfolded' = [u \in Users |-> unfolded[u] + IF Live(u) THEN queen[u].kills ELSE 0]
      /\ player' = [u \in Ids |->
           IF u \in Users THEN [player[u] EXCEPT !.ready = DailyAnts] ELSE player[u]]
      /\ workers' = [u \in Ids |-> 0] /\ brutes' = [u \in Ids |-> 0] /\ land' = {}
      /\ UNCHANGED <<tick, peak, xpq, starters, raised, skipped>>
  BY DEF SeasonWipe, Handler, Same
<1>2. /\ Queens(queen) /\ Players(player) /\ KillsFolded /\ StarterOnce /\ RaisedPast
      /\ unfolded \in [Users -> Nat] /\ Users \subseteq Ids
  BY Constants DEF IInv, Typed
<1>3. \A u \in Ids : queen'[u] = NoQueen /\ ~Live(u)'
  BY <1>1 DEF Live
<1>4. SameEarnings
  <2>1. ASSUME NEW u \in Ids
        PROVE  Playerly(player'[u]) /\ Keeps(player, u)
    <3>1. Playerly(player[u])
      BY <1>2 DEF Players
    <3>2. CASE u \in Users
      <4>1. player'[u] = [player[u] EXCEPT !.ready = DailyAnts]
        BY <1>1, <3>2
      <4> QED BY <3>1, <4>1 DEF Playerly, PlayerFields, Keeps
    <3>3. CASE u \notin Users
      <4>1. player'[u] = player[u]
        BY <1>1, <3>3
      <4> QED BY <3>1, <4>1 DEF Keeps
    <3> QED BY <3>2, <3>3
  <2>2. player' = [u \in Ids |-> player'[u]]
    BY <1>1
  <2> QED BY <2>1, <2>2 DEF SameEarnings, Players
<1>5. ASSUME NEW u \in Users
      PROVE  /\ unfolded'[u] \in Nat
             /\ player'[u].rivals = player'[u].lifetime
                  + (IF Live(u)' THEN queen'[u].kills ELSE 0) + unfolded'[u]
  <2>1. player[u].rivals = player[u].lifetime + (IF Live(u) THEN queen[u].kills ELSE 0) + unfolded[u]
    BY <1>2 DEF KillsFolded
  <2>2. player'[u].rivals = player[u].rivals /\ player'[u].lifetime = player[u].lifetime
    BY <1>2, <1>4 DEF SameEarnings, Keeps
  <2>3. PICK kills : kills = IF Live(u) THEN queen[u].kills ELSE 0
    OBVIOUS
  <2>4. kills \in Nat /\ unfolded[u] \in Nat /\ player[u].lifetime \in Nat
    BY <1>2, <2>3 DEF Live, Queens, Queenly, Players, Playerly
  <2>5. unfolded'[u] = unfolded[u] + kills
    BY <1>1, <2>3
  <2>6. (IF Live(u)' THEN queen'[u].kills ELSE 0) = 0
    BY <1>2, <1>3
  <2>7. player[u].rivals = player[u].lifetime + kills + unfolded[u]
    BY <2>1, <2>3
  <2> QED BY <2>2, <2>4, <2>5, <2>6, <2>7
<1>6. KillsFolded'
  BY <1>5 DEF KillsFolded
<1>7. StarterOnce' /\ RaisedPast'
  BY <1>1, <1>2 DEF StarterOnce, RaisedPast, Shop
<1>8. Covered'
  BY <1>2, <1>3 DEF Covered
<1>9. FallenBare'
  BY <1>1 DEF FallenBare
<1>10. Typed'
  <2>1. Queens(queen')
    BY <1>1, <1>3 DEF Queens
  <2>2. unfolded' \in [Users -> Nat]
    BY <1>1, <1>5
  <2>3. Holdings'
    BY <1>1 DEF IInv, Typed, Holdings
  <2> QED BY <1>1, <1>4, <2>1, <2>2, <2>3 DEF IInv, Typed, SameEarnings, Holdings
<1> QED BY <1>6, <1>7, <1>8, <1>9, <1>10 DEF IInv

(* The silent raise of the peak: it is past the gate, unpaid, and in       *)
(* raised, or the gate is still ahead.                                     *)
LEMMA LoginBackfillKeeps ==
  ASSUME IInv, NEW t \in Users, LoginBackfill(t)
  PROVE  IInv'
<1>1. /\ queen[t] # NoQueen /\ queen[t].level > peak[t]
      /\ peak' = [peak EXCEPT ![t] = queen[t].level]
      /\ raised' = IF peak[t] < Shop /\ Shop <= queen[t].level THEN raised \cup {t} ELSE raised
      /\ skipped' = skipped \ {t}
      /\ UNCHANGED <<tick, queen, player, workers, brutes, land, xpq, starters, unfolded, gifted>>
  BY DEF LoginBackfill, Handler, Same, ants, StarterDue
<1>2. /\ peak \in [Users -> Nat] /\ starters \in [Users -> Nat] /\ raised \subseteq Users
      /\ Users \subseteq Ids /\ StarterOnce /\ RaisedPast /\ Covered /\ Queens(queen)
      /\ Shop \in Nat
  BY Constants DEF IInv, Typed
<1>3. queen[t].level \in Nat
  BY <1>1, <1>2, Constants DEF Queens, Queenly
<1>4. peak' \in [Users -> Nat] /\ peak'[t] = queen[t].level /\ \A u \in Users : u # t => peak'[u] = peak[u]
  BY <1>1, <1>2, <1>3
<1>5. StarterOnce'
  <2> SUFFICES ASSUME NEW u \in Users
               PROVE  starters[u] = IF peak'[u] >= Shop /\ u \notin raised' THEN 1 ELSE 0
    BY <1>1 DEF StarterOnce, Shop
  <2>1. starters[u] = IF peak[u] >= Shop /\ u \notin raised THEN 1 ELSE 0
    BY <1>2 DEF StarterOnce
  <2>2. CASE u # t
    <3>1. peak'[u] = peak[u] /\ (u \in raised' <=> u \in raised)
      BY <1>1, <1>4, <2>2
    <3> QED BY <2>1, <3>1
  <2>3. CASE u = t
    <3>1. CASE peak[t] < Shop /\ Shop <= queen[t].level
      <4>1. ~(peak[t] >= Shop) /\ t \in raised'
        BY <1>1, <1>2, <3>1
      <4> QED BY <2>1, <2>3, <4>1
    <3>2. CASE ~(peak[t] < Shop)
      <4>1. peak[t] >= Shop /\ peak'[t] >= Shop /\ raised' = raised
        BY <1>1, <1>2, <1>3, <1>4, <3>2
      <4> QED BY <2>1, <2>3, <4>1
    <3>3. CASE ~(Shop <= queen[t].level)
      <4>1. ~(peak[t] >= Shop) /\ ~(peak'[t] >= Shop)
        BY <1>1, <1>2, <1>3, <1>4, <3>3
      <4> QED BY <2>1, <2>3, <4>1
    <3> QED BY <3>1, <3>2, <3>3
  <2> QED BY <2>2, <2>3
<1>6. RaisedPast'
  <2> SUFFICES ASSUME NEW u \in raised'
               PROVE  peak'[u] >= Shop
    BY DEF RaisedPast, Shop
  <2>1. CASE u = t /\ peak[t] < Shop /\ Shop <= queen[t].level
    BY <1>2, <1>3, <1>4, <2>1
  <2>2. CASE u \in raised
    <3>1. u \in Users /\ peak[u] >= Shop /\ peak[u] \in Nat
      BY <1>2, <2>2 DEF RaisedPast
    <3> QED BY <1>1, <1>2, <1>3, <1>4, <3>1
  <2> QED BY <1>1, <2>1, <2>2
<1>7. Covered'
  <2> SUFFICES ASSUME NEW u \in Users, u \notin skipped', Live(u)'
               PROVE  queen[u].level <= Larger(peak'[u], 1)
    BY <1>1 DEF Covered
  <2>1. Live(u)
    BY <1>1 DEF Live
  <2>2. CASE u = t
    BY <1>3, <1>4, <2>2 DEF Larger
  <2>3. CASE u # t
    BY <1>1, <1>2, <1>4, <2>1, <2>3 DEF Covered
  <2> QED BY <2>2, <2>3
<1>8. KillsFolded' /\ FallenBare'
  BY <1>1 DEF IInv, KillsFolded, FallenBare, Live
<1>9. Typed'
  <2>1. raised' \subseteq Users
    BY <1>1, <1>2
  <2> QED BY <1>1, <1>4, <2>1 DEF IInv, Typed
<1> QED BY <1>5, <1>6, <1>7, <1>8, <1>9 DEF IInv

LEMMA DeleteQueenKeeps ==
  ASSUME IInv, NEW t \in Ids, DeleteQueen(t)
  PROVE  IInv'
<1>1. KillQueen(t, Nobody) /\ raised' = raised /\ tick' = tick
  BY DEF DeleteQueen, Admin, Handler, Same
<1>2. Ticking(tick')
  BY <1>1, StillTick
<1> QED BY <1>1, <1>2, KillKeeps

LEMMA KillNextKeeps ==
  ASSUME IInv, KillNext
  PROVE  IInv'
<1>1. PICK k \in tick.list : /\ KillQueen(k.loser, k.winner)
                             /\ tick' = [tick EXCEPT !.list = @ \ {k}]
  BY DEF KillNext
<1>2. k.loser \in Ids /\ k.winner \in Ids \cup {Nobody}
  BY DEF IInv, Typed, Ticking
<1>3. Ticking(tick') /\ raised' = raised
  BY <1>1, StillTick DEF KillNext, Same
<1> QED BY <1>1, <1>2, <1>3, KillKeeps

-----------------------------------------------------------------------------
(* The invariant and the theorems.                                         *)

LEMMA InitInv == Init => IInv
<1> SUFFICES ASSUME Init PROVE IInv
  OBVIOUS
<1>1. PICK start \in [Users -> Starts], stock \in [Users -> Stock], field \in [Users -> Field] :
        /\ queen = [u \in Ids |->
             IF u \in Users /\ start[u] # 0
             THEN [NewQueen EXCEPT !.level = start[u], !.xp = XpOf[start[u]], !.hp = HpOf[start[u]]]
             ELSE NoQueen]
        /\ peak = start
        /\ land = {u \in Users : start[u] # 0}
        /\ starters = [u \in Users |-> IF start[u] >= Shop THEN 1 ELSE 0]
        /\ player = [u \in Ids |->
             [ready |-> IF u \in Users THEN stock[u] ELSE 0,
              credits |-> IF u \in Users THEN stock[u] ELSE 0,
              lifetime |-> 0, rivals |-> 0, guards |-> 0]]
        /\ brutes = [u \in Ids |-> IF u \in Users THEN Smaller(field[u], start[u]) ELSE 0]
  BY DEF Init
<1>2. /\ workers = [u \in Ids |-> 0] /\ xpq = workers /\ tick = Rest
      /\ unfolded = [u \in Users |-> 0] /\ raised = {} /\ skipped = {} /\ gifted = {}
  BY DEF Init
<1>3. /\ Users \subseteq Ids /\ Shop \in Nat
      /\ \A u \in Users : start[u] \in Nat /\ field[u] \in Nat
      /\ \A u \in Users : start[u] # 0 => start[u] \in Levels /\ XpOf[start[u]] \in Nat
  <2>1. Starts \subseteq Levels \cup {0} /\ Field \subseteq Nat /\ \A l \in Levels : XpOf[l] \in Nat
    BY ColonyAssumption
  <2>2. \A u \in Users : start[u] \in Starts /\ field[u] \in Field
    OBVIOUS
  <2>3. \A u \in Users : start[u] # 0 => start[u] \in Levels
    BY <2>1, <2>2
  <2>4. ASSUME NEW u \in Users
        PROVE  start[u] \in Nat /\ field[u] \in Nat
    <3>1. field[u] \in Nat
      BY <2>1, <2>2
    <3>2. CASE start[u] = 0
      BY <3>1, <3>2
    <3>3. CASE start[u] # 0
      <4>1. start[u] \in Levels
        BY <2>3, <3>3
      <4> QED BY <3>1, <4>1, Constants
    <3> QED BY <3>2, <3>3
  <2> QED BY <2>1, <2>3, <2>4, Constants
<1>4. ASSUME NEW u \in Users, start[u] # 0
      PROVE  /\ Queenly(queen[u]) /\ queen[u] # NoQueen /\ ~queen[u].dead
             /\ queen[u].kills = 0 /\ queen[u].level = start[u]
  <2>1. queen[u] = [NewQueen EXCEPT !.level = start[u], !.xp = XpOf[start[u]], !.hp = HpOf[start[u]]]
    BY <1>1, <1>3, <1>4
  <2>2. start[u] \in Levels /\ XpOf[start[u]] \in Nat
    BY <1>3, <1>4
  <2>3. /\ DOMAIN queen[u] = QueenFields /\ queen[u].dead = FALSE /\ queen[u].kills = 0
        /\ queen[u].level = start[u] /\ queen[u].xp = XpOf[start[u]] /\ queen[u].attacker = Nobody
    BY <2>1 DEF NewQueen, QueenFields
  <2>4. queen[u] # NoQueen
    BY <2>3 DEF NoQueen, QueenFields
  <2>5. Queenly(queen[u])
    <3>1. queen[u].dead \in BOOLEAN
      BY <2>3
    <3>2. queen[u].level \in Levels
      BY <2>2, <2>3, Zenon
    <3>3. queen[u].xp \in Nat
      BY <2>2, <2>3, Zenon
    <3>4. queen[u].kills \in Nat /\ queen[u].attacker \in Ids \cup {Nobody}
      BY <2>3
    <3> QED BY <2>3, <3>1, <3>2, <3>3, <3>4 DEF Queenly
  <2>6. ~queen[u].dead
    BY <2>3
  <2> QED BY <2>3, <2>4, <2>5, <2>6
<1>5. \A u \in Ids : ~(u \in Users /\ start[u] # 0) => queen[u] = NoQueen
  BY <1>1
<1>6. Queens(queen)
  <2>1. queen = [u \in Ids |-> queen[u]]
    BY <1>1
  <2> QED BY <1>4, <1>5, <2>1 DEF Queens
<1>7. Players(player) /\ \A u \in Ids : player[u].lifetime = 0 /\ player[u].rivals = 0
  <2>1. ASSUME NEW u \in Ids
        PROVE  Playerly(player[u]) /\ player[u].lifetime = 0 /\ player[u].rivals = 0
    <3>1. PICK ready, credits :
            player[u] = [ready |-> ready, credits |-> credits, lifetime |-> 0, rivals |-> 0,
                         guards |-> 0]
      BY <1>1
    <3> QED BY <3>1 DEF Playerly, PlayerFields
  <2>2. player = [u \in Ids |-> player[u]]
    BY <1>1
  <2> QED BY <2>1, <2>2 DEF Players
<1>8. brutes \in [Ids -> Nat] /\ \A u \in Users : start[u] = 0 => brutes[u] = 0
  <2>1. \A u \in Users : /\ Smaller(field[u], start[u]) \in Nat
                         /\ start[u] = 0 => Smaller(field[u], start[u]) = 0
    BY <1>3 DEF Smaller
  <2>2. brutes = [u \in Ids |-> IF u \in Users THEN Smaller(field[u], start[u]) ELSE 0]
    BY <1>1
  <2> HIDE DEF Smaller
  <2> QED BY <1>3, <2>1, <2>2
<1>9. Typed
  <2>1. Ticking(tick)
    BY <1>2 DEF Ticking, Rest
  <2>2. /\ peak \in [Users -> Nat] /\ starters \in [Users -> Nat] /\ unfolded \in [Users -> Nat]
        /\ workers \in [Ids -> Nat] /\ xpq \in [Ids -> Nat]
        /\ land \subseteq Ids /\ raised \subseteq Users
    BY <1>1, <1>2, <1>3
  <2> QED BY <1>6, <1>7, <1>8, <2>1, <2>2 DEF Typed
<1>10. KillsFolded
  <2> SUFFICES ASSUME NEW u \in Users
               PROVE  player[u].rivals =
                        player[u].lifetime + (IF Live(u) THEN queen[u].kills ELSE 0) + unfolded[u]
    BY DEF KillsFolded
  <2>1. (IF Live(u) THEN queen[u].kills ELSE 0) = 0
    BY <1>3, <1>4, <1>5 DEF Live
  <2> QED BY <1>2, <1>3, <1>7, <2>1
<1>11. StarterOnce /\ RaisedPast
  BY <1>1, <1>2 DEF StarterOnce, RaisedPast
<1>12. Covered
  <2> SUFFICES ASSUME NEW u \in Users, Live(u)
               PROVE  queen[u].level <= Larger(peak[u], 1)
    BY DEF Covered
  <2>1. start[u] # 0
    BY <1>3, <1>5 DEF Live
  <2>2. queen[u].level = start[u] /\ peak[u] = start[u] /\ start[u] \in Nat
    BY <1>1, <1>3, <1>4, <2>1
  <2> QED BY <2>2 DEF Larger
<1>13. FallenBare
  <2> SUFFICES ASSUME NEW u \in Ids, ~Live(u)
               PROVE  u \notin land /\ workers[u] = 0 /\ brutes[u] = 0
    BY DEF FallenBare
  <2>1. u \in Users => start[u] = 0
    BY <1>4 DEF Live
  <2> QED BY <1>1, <1>2, <1>8, <2>1
<1> QED BY <1>9, <1>10, <1>11, <1>12, <1>13 DEF IInv

LEMMA StutterInv == IInv /\ UNCHANGED vars => IInv'
<1> SUFFICES ASSUME IInv, UNCHANGED vars PROVE IInv'
  OBVIOUS
<1>1. UNCHANGED <<queen, player, peak, workers, brutes, land, xpq, tick, starters, unfolded,
                  raised, skipped, gifted>>
  BY DEF vars
<1> QED BY <1>1 DEF IInv, Typed, KillsFolded, StarterOnce, RaisedPast, Covered, FallenBare, Live

LEMMA NextInv == IInv /\ [Next]_vars => IInv'
<1> SUFFICES ASSUME IInv, [Next]_vars PROVE IInv'
  OBVIOUS
<1>0. Users \subseteq Ids
  BY Constants
<1>1. ASSUME NEW u \in Users, PlaceQueen(u) PROVE IInv'
  BY <1>1, PlaceQueenKeeps
<1>2. ASSUME NEW u \in Users, PlaceAnt(u) PROVE IInv'
  BY <1>2, PlaceAntKeeps
<1>3. ASSUME NEW u \in Users, LoginBackfill(u) PROVE IInv'
  BY <1>3, LoginBackfillKeeps
<1>4. ASSUME NEW u \in Users, DailyRefill(u) PROVE IInv'
  BY <1>0, <1>4, PoolKeeps
<1>5. ASSUME NEW u \in Users, NEW item \in Items, Buy(u, item) PROVE IInv'
  BY <1>5, BuyKeeps
<1>6. CASE SeasonWipe
  BY <1>6, SeasonWipeKeeps
<1>7. ASSUME NEW t \in Ids, GiveAnts(t) \/ GiveCredits(t) PROVE IInv'
  BY <1>7, PoolKeeps
<1>8. ASSUME NEW t \in Ids, HealQueen(t) PROVE IInv'
  BY <1>8, HealQueenKeeps
<1>9. ASSUME NEW t \in Ids, LevelUp(t) PROVE IInv'
  BY <1>9, LevelUpKeeps
<1>10. ASSUME NEW t \in Ids, LevelDown(t) PROVE IInv'
  BY <1>10, LevelDownKeeps
<1>11. ASSUME NEW t \in Ids, GiveXp(t) PROVE IInv'
  BY <1>11, GiveXpKeeps
<1>12. ASSUME NEW t \in Ids, DeleteQueen(t) PROVE IInv'
  BY <1>12, DeleteQueenKeeps
<1>13. ASSUME NEW t \in Ids, Gift(t) PROVE IInv'
  BY <1>13, GiftKeeps
<1>14. ASSUME NEW t \in Ids, NEW level \in Levels, SetLevel(t, level) PROVE IInv'
  BY <1>14, SetLevelKeeps
<1>15. ASSUME NEW n \in Npcs, SpawnNpc(n) PROVE IInv'
  BY <1>15, SpawnNpcKeeps
<1>16. CASE Dedup
  BY <1>16, DedupKeeps
<1>17. CASE Fight
  BY <1>17, FightKeeps
<1>18. CASE Clash
  BY <1>18, ClashKeeps
<1>19. CASE Capture
  BY <1>19, CaptureKeeps
<1>20. CASE Expire
  BY <1>20, ExpireKeeps
<1>21. CASE Upkeep
  BY <1>21, UpkeepKeeps
<1>22. CASE Meet \/ Deaths
  BY <1>22, ScanKeeps
<1>23. CASE KillNext
  BY <1>23, KillNextKeeps
<1>24. CASE EndTick
  BY <1>24, EndTickKeeps
<1>25. CASE UNCHANGED vars
  BY <1>25, StutterInv
<1> QED
  BY <1>1, <1>2, <1>3, <1>4, <1>5, <1>6, <1>7, <1>8, <1>9, <1>10, <1>11, <1>12, <1>13, <1>14,
     <1>15, <1>16, <1>17, <1>18, <1>19, <1>20, <1>21, <1>22, <1>23, <1>24, <1>25 DEF Next

(* Every step of the handlers, the admin's panel and the tick keeps the    *)
(* invariant.                                                              *)
THEOREM Invariance == Spec => []IInv
<1>1. Init => IInv
  BY InitInv
<1>2. IInv /\ [Next]_vars => IInv'
  BY NextInv
<1> QED BY <1>1, <1>2, PTL DEF Spec

(* However queens fall, in whichever order, together or twice in a tick's  *)
(* list, the kills a player's rivalries count are in its account or with   *)
(* its live queen.                                                         *)
THEOREM KillsAddUp == Spec => []KillsFolded
<1>1. IInv => KillsFolded
  BY DEF IInv
<1> QED BY <1>1, Invariance, PTL

(* However a queen rises, the starter credit is granted once and the peak  *)
(* goes with her, but by the paths that are known to skip it.              *)
THEOREM UnlocksFollow == Spec => []UnlocksInStep
<1>1. IInv => UnlocksInStep
  BY DEF IInv, UnlocksInStep, Covered, PeakCovers
<1> QED BY <1>1, Invariance, PTL

(* A fallen player has no ants and owns no tile, whatever the tick was     *)
(* doing when its queen fell.                                              *)
THEOREM FallenAreBare == Spec => []FallenHoldNothing
<1>1. IInv => FallenHoldNothing
  BY DEF IInv, FallenBare, FallenHoldNothing, Fielded
<1> QED BY <1>1, Invariance, PTL

-----------------------------------------------------------------------------
(* Induction, over sets instead of formulas. *)

(* A set of naturals has a least element.                                  *)
LEMMA LeastNat ==
  ASSUME NEW T \in SUBSET Nat, T # {}
  PROVE  \E n \in T : \A m \in T : n <= m
<1>1. PICK n \in T : \A m \in T : <<m, n>> \notin OpToRel(<, Nat)
  BY NatLessThanWellFounded, WFMin
<1>2. \A m \in T : ~(m < n)
  BY <1>1 DEF OpToRel
<1> QED BY <1>2

(* What holds at 0 and goes from each number to the next holds up to n.    *)
LEMMA UpTo ==
  ASSUME NEW n \in Nat, NEW P, 0 \in P, \A k \in 0 .. n - 1 : k \in P => k + 1 \in P
  PROVE  0 .. n \subseteq P
<1> DEFINE Bad == (0 .. n) \ P
<1> SUFFICES ASSUME Bad # {} PROVE FALSE
  OBVIOUS
<1>0. Bad \in SUBSET Nat
  OBVIOUS
<1>1. PICK k \in Bad : \A m \in Bad : k <= m
  <2> HIDE DEF Bad
  <2> QED BY <1>0, LeastNat
<1>2. k # 0 /\ k - 1 \in 0 .. n /\ k - 1 \notin Bad
  BY <1>1
<1> QED BY <1>1, <1>2

(* What holds of the empty set, and of a set when it does without one of   *)
(* its elements, holds of every subset.                                    *)
LEMMA EverySubset ==
  ASSUME NEW S, IsFiniteSet(S), NEW P, {} \in P,
         \A s \in SUBSET S : s # {} => \E x \in s : s \ {x} \in P => s \in P
  PROVE  SUBSET S \subseteq P
<1> DEFINE Q == {n \in Nat : \A s \in SUBSET S : Cardinality(s) = n => s \in P}
<1>0. \A s \in SUBSET S : IsFiniteSet(s) /\ Cardinality(s) \in Nat /\ (Cardinality(s) = 0 <=> s = {})
  BY FS_Subset, FS_CardinalityType, FS_EmptySet
<1>1. 0 \in Q
  BY <1>0
<1>2. ASSUME NEW k \in Nat, k \in Q PROVE k + 1 \in Q
  <2> SUFFICES ASSUME NEW s \in SUBSET S, Cardinality(s) = k + 1 PROVE s \in P
    OBVIOUS
  <2>1. s # {}
    BY <1>0
  <2>2. PICK x \in s : s \ {x} \in P => s \in P
    BY <2>1
  <2>3. s \ {x} \in SUBSET S /\ Cardinality(s \ {x}) = k
    <3>1. IsFiniteSet(s) /\ Cardinality(s) \in Nat
      BY <1>0
    <3>2. Cardinality(s \ {x}) = Cardinality(s) - 1
      BY <2>1, <3>1, FS_RemoveElement
    <3> QED BY <3>2
  <2> QED BY <1>2, <2>2, <2>3
<1>3. Cardinality(S) \in Nat /\ 0 .. Cardinality(S) \subseteq Q
  BY <1>0, <1>1, <1>2, UpTo
<1>4. \A s \in SUBSET S : Cardinality(s) \in 0 .. Cardinality(S)
  BY <1>0, FS_Subset
<1> QED BY <1>3, <1>4

(* A recursion that takes a set apart, element by element.                 *)
Unfolds(h, S, base, step, pick) ==
  \A s \in SUBSET S : h[s] = IF s = {} THEN base ELSE step[s][h[s \ {pick[s]}]]

(* It has a solution when the set is finite and steps stay within X.       *)
LEMMA Recursion ==
  ASSUME NEW S, IsFiniteSet(S), NEW X, NEW base \in X,
         NEW step \in [SUBSET S -> [X -> X]], NEW pick \in [(SUBSET S) \ {{}} -> S],
         \A s \in (SUBSET S) \ {{}} : pick[s] \in s
  PROVE  \E h \in [SUBSET S -> X] : Unfolds(h, S, base, step, pick)
<1> DEFINE D(n) == {s \in SUBSET S : Cardinality(s) <= n}
           Good(n, h) == /\ h \in [D(n) -> X]
                         /\ \A s \in D(n) : h[s] = IF s = {} THEN base ELSE step[s][h[s \ {pick[s]}]]
           Done == {n \in Nat : \E h : Good(n, h)}
<1>0. \A s \in SUBSET S : IsFiniteSet(s) /\ Cardinality(s) \in Nat /\ (Cardinality(s) = 0 <=> s = {})
  BY FS_Subset, FS_CardinalityType, FS_EmptySet
<1>1. \A s \in SUBSET S : s # {} => /\ s \ {pick[s]} \in SUBSET S
                                    /\ Cardinality(s \ {pick[s]}) = Cardinality(s) - 1
  BY <1>0, FS_RemoveElement
<1>2. 0 \in Done
  <2>1. D(0) = {{}}
    BY <1>0
  <2>2. Good(0, [s \in D(0) |-> base])
    BY <2>1
  <2> QED BY <2>2
<1>3. ASSUME NEW n \in Nat, n \in Done PROVE n + 1 \in Done
  <2>1. PICK g : Good(n, g)
    BY <1>3
  <2> DEFINE h == [s \in D(n + 1) |-> IF s = {} THEN base ELSE step[s][g[s \ {pick[s]}]]]
  <2>2. \A s \in D(n + 1) : s # {} => s \ {pick[s]} \in D(n)
    BY <1>0, <1>1
  <2>3. h \in [D(n + 1) -> X]
    BY <2>1, <2>2
  <2>4. ASSUME NEW s \in D(n) PROVE s \in D(n + 1) /\ h[s] = g[s]
    <3>1. s \in D(n + 1)
      BY <1>0
    <3>2. g[s] = IF s = {} THEN base ELSE step[s][g[s \ {pick[s]}]]
      BY <2>1
    <3> QED BY <3>1, <3>2
  <2>5. Good(n + 1, h)
    BY <2>2, <2>3, <2>4
  <2> HIDE DEF Good, h
  <2> QED BY <2>5
<1>4. PICK h : Good(Cardinality(S), h)
  <2> HIDE DEF Done
  <2>1. Cardinality(S) \in Done
    BY <1>0, <1>2, <1>3, UpTo
  <2> QED BY <2>1 DEF Done
<1>5. D(Cardinality(S)) = SUBSET S
  BY FS_Subset, <1>0
<1> QED BY <1>4, <1>5 DEF Unfolds


-----------------------------------------------------------------------------
(* Sums over finite sets. *)

(* The recursion SumFunctionOnSet makes, taking any element first.         *)
Any(s) == CHOOSE x \in s : TRUE

Sums(f, S) ==
  CHOOSE iter : iter = [s \in SUBSET S |-> IF s = {} THEN 0 ELSE f[Any(s)] + iter[s \ {Any(s)}]]

LEMMA SumIsLast ==
  ASSUME NEW f, NEW S
  PROVE  SumFunctionOnSet(f, S) = Sums(f, S)[S]
BY DEF SumFunctionOnSet, FoldFunctionOnSet, MapThenFoldSet, Sums, Any

(* g sums f over every subset of S.                                        *)
SumsUp(g, f, S) ==
  /\ g \in [SUBSET S -> Nat] /\ g[{}] = 0
  /\ \A s \in SUBSET S : s # {} => g[s] = f[Any(s)] + g[s \ {Any(s)}]

Numbers(f, S) == \A x \in S : f[x] \in Nat

LEMMA SumsNat ==
  ASSUME NEW S, IsFiniteSet(S), NEW f, Numbers(f, S), NEW g, g[{}] = 0,
         \A s \in SUBSET S : s # {} => g[s] = f[Any(s)] + g[s \ {Any(s)}]
  PROVE  \A s \in SUBSET S : g[s] \in Nat
<1> DEFINE P == {s \in SUBSET S : g[s] \in Nat}
<1>1. {} \in P
  OBVIOUS
<1>2. ASSUME NEW s \in SUBSET S, s # {}, s \ {Any(s)} \in P PROVE Any(s) \in s /\ s \in P
  <2>1. Any(s) \in s /\ f[Any(s)] \in Nat
    BY <1>2 DEF Any, Numbers
  <2>2. g[s \ {Any(s)}] \in Nat /\ g[s] = f[Any(s)] + g[s \ {Any(s)}]
    BY <1>2
  <2> QED BY <2>1, <2>2
<1>3. \A s \in SUBSET S : s # {} => \E x \in s : s \ {x} \in P => s \in P
  <2> SUFFICES ASSUME NEW s \in SUBSET S, s # {} PROVE \E x \in s : s \ {x} \in P => s \in P
    OBVIOUS
  <2>1. Any(s) \in s
    BY DEF Any
  <2> HIDE DEF P
  <2> QED BY <1>2, <2>1
<1>4. IsFiniteSet(S)
  OBVIOUS
<1>5. SUBSET S \subseteq P
  <2> HIDE DEF P
  <2> QED BY <1>1, <1>3, <1>4, EverySubset
<1> QED BY <1>5

(* The recursion with numbers in X's place.                                *)
LEMMA NatRecursion ==
  ASSUME NEW S, IsFiniteSet(S), NEW step \in [SUBSET S -> [Nat -> Nat]],
         NEW pick \in [(SUBSET S) \ {{}} -> S], \A s \in (SUBSET S) \ {{}} : pick[s] \in s
  PROVE  \E h \in [SUBSET S -> Nat] : Unfolds(h, S, 0, step, pick)
<1>1. PICK X, base : X = Nat /\ base = 0
  OBVIOUS
<1>2. step \in [SUBSET S -> [X -> X]] /\ base \in X
  BY <1>1
<1>3. \E h \in [SUBSET S -> X] : Unfolds(h, S, base, step, pick)
  BY <1>2, Recursion
<1> QED BY <1>1, <1>3

LEMMA SumsUnfold ==
  ASSUME NEW S, IsFiniteSet(S), NEW f, Numbers(f, S)
  PROVE  SumsUp(Sums(f, S), f, S)
<1> DEFINE Solves(g) == g = [s \in SUBSET S |-> IF s = {} THEN 0 ELSE f[Any(s)] + g[s \ {Any(s)}]]
           pick == [s \in (SUBSET S) \ {{}} |-> Any(s)]
           step == [s \in SUBSET S |-> [n \in Nat |-> IF s = {} THEN 0 ELSE f[Any(s)] + n]]
<1>1. \A s \in SUBSET S : s # {} => Any(s) \in s /\ f[Any(s)] \in Nat
  BY DEF Any, Numbers
<1>2. /\ step \in [SUBSET S -> [Nat -> Nat]] /\ pick \in [(SUBSET S) \ {{}} -> S] /\ 0 \in Nat
      /\ \A s \in (SUBSET S) \ {{}} : pick[s] \in s
  BY <1>1
<1>3. PICK h \in [SUBSET S -> Nat] : Unfolds(h, S, 0, step, pick)
  <2> HIDE DEF Solves, step, pick
  <2> QED BY <1>2, NatRecursion
<1>4. \A s \in SUBSET S : h[s] = IF s = {} THEN 0 ELSE f[Any(s)] + h[s \ {Any(s)}]
  <2> SUFFICES ASSUME NEW s \in SUBSET S, s # {} PROVE h[s] = f[Any(s)] + h[s \ {Any(s)}]
    BY <1>3 DEF Unfolds
  <2>1. h[s] = step[s][h[s \ {pick[s]}]] /\ pick[s] = Any(s) /\ h[s \ {Any(s)}] \in Nat
    BY <1>3 DEF Unfolds
  <2> QED BY <2>1
<1>5. Solves(h)
  BY <1>4
<1>6. Solves(Sums(f, S))
  BY <1>5 DEF Sums
<1> DEFINE G == Sums(f, S)
<1>7. /\ G[{}] = 0 /\ \A s \in SUBSET S : s # {} => G[s] = f[Any(s)] + G[s \ {Any(s)}]
      /\ G = [s \in SUBSET S |-> G[s]]
  BY <1>6
<1> HIDE DEF G
<1>10. \A s \in SUBSET S : G[s] \in Nat
  BY <1>7, SumsNat
<1>11. SumsUp(G, f, S)
  BY <1>7, <1>10 DEF SumsUp
<1> QED BY <1>11 DEF G

(* Whichever element is taken out.                                         *)
LEMMA SumsTakeOut ==
  ASSUME NEW S, IsFiniteSet(S), NEW f, Numbers(f, S), NEW s \in SUBSET S, NEW x \in s
  PROVE  Sums(f, S)[s] = f[x] + Sums(f, S)[s \ {x}]
<1> DEFINE g == Sums(f, S)
           Q == {n \in Nat : \A t \in SUBSET S : Cardinality(t) = n => \A y \in t : g[t] = f[y] + g[t \ {y}]}
<1>0. \A t \in SUBSET S : IsFiniteSet(t) /\ Cardinality(t) \in Nat /\ (Cardinality(t) = 0 <=> t = {})
  BY FS_Subset, FS_CardinalityType, FS_EmptySet
<1>1. g \in [SUBSET S -> Nat] /\ \A t \in SUBSET S : t # {} => g[t] = f[Any(t)] + g[t \ {Any(t)}]
  BY SumsUnfold DEF SumsUp
<1> HIDE DEF g
<1>2. 0 \in Q
  BY <1>0
<1>3. ASSUME NEW n \in Nat, n \in Q PROVE n + 1 \in Q
  <2> SUFFICES ASSUME NEW t \in SUBSET S, Cardinality(t) = n + 1, NEW y \in t
               PROVE  g[t] = f[y] + g[t \ {y}]
    OBVIOUS
  <2> DEFINE a == Any(t)
  <2>1. a \in t /\ g[t] = f[a] + g[t \ {a}]
    <3>1. a \in t
      BY DEF Any
    <3> QED BY <1>1, <3>1
  <2>2. CASE y = a
    BY <2>1, <2>2
  <2>3. CASE y # a
    <3> HIDE DEF a
    <3>1. \A z \in t : t \ {z} \in SUBSET S /\ Cardinality(t \ {z}) = n
      <4>1. IsFiniteSet(t) /\ Cardinality(t) = n + 1
        BY <1>0
      <4>2. \A z \in t : Cardinality(t \ {z}) = Cardinality(t) - 1
        BY <4>1, FS_RemoveElement
      <4> QED BY <4>1, <4>2
    <3>2. g[t \ {a}] = f[y] + g[(t \ {a}) \ {y}]
      BY <1>3, <2>1, <2>3, <3>1
    <3>3. g[t \ {y}] = f[a] + g[(t \ {y}) \ {a}]
      BY <1>3, <2>1, <2>3, <3>1
    <3>4. (t \ {a}) \ {y} = (t \ {y}) \ {a} /\ (t \ {a}) \ {y} \in SUBSET S
      OBVIOUS
    <3>5. g[(t \ {a}) \ {y}] \in Nat
      BY <1>1, <3>4
    <3>6. f[a] \in Nat /\ f[y] \in Nat
      BY <2>1 DEF Numbers
    <3>7. g[(t \ {a}) \ {y}] = g[(t \ {y}) \ {a}]
      BY <3>4
    <3> QED BY <2>1, <3>2, <3>3, <3>5, <3>6, <3>7
  <2> QED BY <2>2, <2>3
<1>4. 0 .. Cardinality(s) \subseteq Q
  <2> HIDE DEF Q
  <2> QED BY <1>0, <1>2, <1>3, UpTo
<1>5. Cardinality(s) \in Q
  <2> HIDE DEF Q
  <2> QED BY <1>0, <1>4
<1> QED BY <1>5 DEF g

(* Functions that agree on a set have the same sum there.                  *)
LEMMA SumsAgree ==
  ASSUME NEW S, IsFiniteSet(S), NEW f, NEW g, Numbers(f, S), Numbers(g, S),
         NEW t \in SUBSET S, \A x \in t : f[x] = g[x]
  PROVE  Sums(f, S)[t] = Sums(g, S)[t]
<1> DEFINE F == Sums(f, S)
           G == Sums(g, S)
           P == {s \in SUBSET t : F[s] = G[s]}
<1>1. /\ F[{}] = 0 /\ \A s \in SUBSET S : s # {} => F[s] = f[Any(s)] + F[s \ {Any(s)}]
      /\ G[{}] = 0 /\ \A s \in SUBSET S : s # {} => G[s] = g[Any(s)] + G[s \ {Any(s)}]
  <2>1. SumsUp(F, f, S) /\ SumsUp(G, g, S)
    BY SumsUnfold
  <2> HIDE DEF F, G
  <2> QED BY <2>1 DEF SumsUp
<1> HIDE DEF F, G
<1>2. {} \in P
  BY <1>1
<1>3. ASSUME NEW s \in SUBSET t, s # {}, s \ {Any(s)} \in P PROVE s \in P
  <2>1. Any(s) \in s
    BY <1>3 DEF Any
  <2>2. f[Any(s)] = g[Any(s)] /\ s \in SUBSET S /\ F[s \ {Any(s)}] = G[s \ {Any(s)}]
    BY <1>3, <2>1
  <2> QED BY <1>1, <1>3, <2>2
<1>4. SUBSET t \subseteq P
  <2>1. \A s \in SUBSET t : s # {} => \E x \in s : s \ {x} \in P => s \in P
    <3>1. \A s \in SUBSET t : s # {} => Any(s) \in s
      BY DEF Any
    <3> HIDE DEF P
    <3> QED BY <1>3, <3>1
  <2>2. IsFiniteSet(t)
    BY FS_Subset
  <2> HIDE DEF P
  <2> QED BY <1>2, <2>1, <2>2, EverySubset
<1> QED BY <1>4 DEF F, G

(* A sum is a number; where one value changes, it changes by as much.      *)
LEMMA SumNat ==
  ASSUME NEW S, IsFiniteSet(S), NEW f \in [S -> Nat]
  PROVE  SumFunction(f) \in Nat /\ \A t \in SUBSET S : SumFunctionOnSet(f, t) \in Nat
<1>1. ASSUME NEW t \in SUBSET S PROVE SumFunctionOnSet(f, t) \in Nat
  <2>1. IsFiniteSet(t) /\ Numbers(f, t)
    BY FS_Subset DEF Numbers
  <2>2. SumsUp(Sums(f, t), f, t)
    BY <2>1, SumsUnfold
  <2>3. Sums(f, t)[t] \in Nat
    BY <2>2 DEF SumsUp
  <2>4. SumFunctionOnSet(f, t) = Sums(f, t)[t]
    BY SumIsLast
  <2> QED BY <2>3, <2>4
<1> QED BY <1>1 DEF SumFunction

LEMMA SumChanges ==
  ASSUME NEW S, IsFiniteSet(S), NEW f \in [S -> Nat], NEW g \in [S -> Nat], NEW x \in S,
         \A y \in S \ {x} : f[y] = g[y]
  PROVE  SumFunction(g) = SumFunction(f) + (g[x] - f[x])
<1>0. Numbers(f, S) /\ Numbers(g, S) /\ S \in SUBSET S /\ S \ {x} \in SUBSET S
  BY DEF Numbers
<1>1. Sums(f, S)[S] = f[x] + Sums(f, S)[S \ {x}] /\ Sums(g, S)[S] = g[x] + Sums(g, S)[S \ {x}]
  <2>1. Sums(f, S)[S] = f[x] + Sums(f, S)[S \ {x}]
    BY <1>0, SumsTakeOut
  <2>2. Sums(g, S)[S] = g[x] + Sums(g, S)[S \ {x}]
    BY <1>0, SumsTakeOut
  <2> QED BY <2>1, <2>2
<1>2. Sums(f, S)[S \ {x}] = Sums(g, S)[S \ {x}]
  BY <1>0, SumsAgree
<1>3. Sums(f, S)[S \ {x}] \in Nat
  <2>1. SumsUp(Sums(f, S), f, S)
    BY <1>0, SumsUnfold
  <2> QED BY <1>0, <2>1 DEF SumsUp
<1>4. SumFunction(f) = Sums(f, S)[S] /\ SumFunction(g) = Sums(g, S)[S]
  BY SumIsLast DEF SumFunction
<1> QED BY <1>1, <1>2, <1>3, <1>4

-----------------------------------------------------------------------------
(* What xp, level, hp and shield have to do with each other. *)

LEMMA LevelReached ==
  ASSUME NEW xp \in Nat
  PROVE  /\ LevelFor(xp) \in Levels /\ XpOf[LevelFor(xp)] <= xp
         /\ \A m \in Levels : XpOf[m] <= xp => m <= LevelFor(xp)
<1> DEFINE left == {Cap - l : l \in {l \in Levels : XpOf[l] <= xp}}
<1>1. left \in SUBSET Nat /\ left # {}
  BY Constants, ColonyAssumption
<1>2. PICK n \in left : \A m \in left : n <= m
  <2> HIDE DEF left
  <2> QED BY <1>1, LeastNat
<1>3. PICK l \in Levels : XpOf[l] <= xp /\ n = Cap - l
  OBVIOUS
<1>4. ASSUME NEW m \in Levels, XpOf[m] <= xp PROVE m <= l
  <2>1. n <= Cap - m
    BY <1>2, <1>4
  <2> QED BY <1>3, <2>1, Constants
<1>5. \E k \in Levels : XpOf[k] <= xp /\ \A m \in Levels : XpOf[m] <= xp => m <= k
  BY <1>3, <1>4
<1> HIDE DEF left
<1> QED BY <1>5 DEF LevelFor

LEMMA Rising ==
  ASSUME NEW l \in Levels, NEW m \in Levels, l < m
  PROVE  XpOf[l] < XpOf[m] /\ HpOf[l] <= HpOf[m]
<1> DEFINE P == {n \in Nat : l + n <= Cap => /\ n = 0 \/ XpOf[l] < XpOf[l + n]
                                             /\ HpOf[l] <= HpOf[l + n]}
<1>0. /\ Levels = 1 .. Cap /\ Cap \in Nat /\ XpOf \in [Levels -> Nat] /\ HpOf \in [Levels -> Nat]
      /\ \A k \in 1 .. Cap - 1 : XpOf[k] < XpOf[k + 1] /\ HpOf[k] <= HpOf[k + 1]
  BY ColonyAssumption
<1>1. l \in Nat /\ m \in Nat /\ l >= 1 /\ m <= Cap
  BY <1>0
<1>2. 0 \in P
  BY <1>0, <1>1
<1>3. ASSUME NEW n \in Nat, n \in P PROVE n + 1 \in P
  <2> SUFFICES ASSUME l + (n + 1) <= Cap
               PROVE  XpOf[l] < XpOf[l + (n + 1)] /\ HpOf[l] <= HpOf[l + (n + 1)]
    OBVIOUS
  <2>1. l + n \in 1 .. Cap - 1 /\ l + n \in Levels /\ l + (n + 1) \in Levels /\ l + (n + 1) = (l + n) + 1
    BY <1>0, <1>1
  <2>2. XpOf[l + n] < XpOf[(l + n) + 1] /\ HpOf[l + n] <= HpOf[(l + n) + 1]
    BY <1>0, <2>1
  <2>3. l + n <= Cap
    BY <1>0, <2>1
  <2>4. (n = 0 \/ XpOf[l] < XpOf[l + n]) /\ HpOf[l] <= HpOf[l + n]
    BY <1>3, <2>3
  <2>5. /\ XpOf[l] \in Nat /\ XpOf[l + n] \in Nat /\ XpOf[(l + n) + 1] \in Nat
        /\ HpOf[l] \in Nat /\ HpOf[l + n] \in Nat /\ HpOf[(l + n) + 1] \in Nat
    BY <1>0, <2>1
  <2>6. n = 0 => l + n = l
    BY <1>1
  <2> QED BY <2>1, <2>2, <2>4, <2>5, <2>6
<1>4. m - l \in Nat /\ 0 .. m - l \subseteq P
  <2> HIDE DEF P
  <2>1. m - l \in Nat
    BY <1>1
  <2> QED BY <1>2, <1>3, <2>1, UpTo
<1>5. m - l \in P
  <2> HIDE DEF P
  <2> QED BY <1>4
<1>6. l + (m - l) = m
  BY <1>1
<1> QED BY <1>0, <1>1, <1>5, <1>6

LEMMA LevelIs ==
  ASSUME NEW xp \in Nat, NEW l \in Levels, XpOf[l] <= xp, l < Cap => xp < XpOf[l + 1]
  PROVE  LevelFor(xp) = l
<1>1. PICK m : m = LevelFor(xp)
  OBVIOUS
<1>2. m \in Levels /\ XpOf[m] <= xp /\ l <= m
  BY <1>1, LevelReached
<1>3. XpOf \in [Levels -> Nat]
  BY ColonyAssumption
<1>4. CASE l < m
  <2>1. l < Cap /\ l + 1 \in Levels
    BY <1>2, <1>4, Constants
  <2>2. l + 1 = m \/ l + 1 < m
    BY <1>2, <1>4, Constants
  <2>3. XpOf[l + 1] <= XpOf[m]
    <3>1. CASE l + 1 = m
      BY <1>2, <1>3, <3>1
    <3>2. CASE l + 1 < m
      <4>1. XpOf[l + 1] < XpOf[m]
        BY <1>2, <2>1, <3>2, Rising
      <4> QED BY <1>2, <1>3, <2>1, <4>1
    <3> QED BY <2>2, <3>1, <3>2
  <2>4. XpOf[l + 1] \in Nat /\ XpOf[m] \in Nat
    BY <1>2, <1>3, <2>1
  <2> QED BY <1>2, <2>1, <2>3, <2>4
<1> QED BY <1>1, <1>2, <1>4, Constants

LEMMA LevelGrows ==
  ASSUME NEW xp \in Nat, NEW more \in Nat, xp <= more
  PROVE  LevelFor(xp) <= LevelFor(more)
<1>1. LevelFor(xp) \in Levels /\ XpOf[LevelFor(xp)] <= xp
  BY LevelReached
<1>2. XpOf[LevelFor(xp)] \in Nat
  BY <1>1, ColonyAssumption
<1>3. XpOf[LevelFor(xp)] <= more
  BY <1>1, <1>2
<1> QED BY <1>1, <1>3, LevelReached

LEMMA LevelFloor ==
  ASSUME NEW l \in Levels
  PROVE  LevelFor(XpOf[l]) = l
<1>1. XpOf[l] \in Nat
  BY ColonyAssumption
<1>2. ASSUME l < Cap PROVE XpOf[l] < XpOf[l + 1]
  BY <1>2, Constants, ColonyAssumption
<1> QED BY <1>1, <1>2, LevelIs

LEMMA HpRises ==
  ASSUME NEW l \in Levels, NEW m \in Levels, l <= m
  PROVE  /\ HpOf[l] \in Nat \ {0} /\ HpOf[m] \in Nat \ {0} /\ HpOf[l] <= HpOf[m]
         /\ HpOf[m] <= HpOf[Cap] /\ HpOf[Cap] \in Nat
<1>1. \A k \in Levels : HpOf[k] \in Nat \ {0} /\ k <= Cap
  BY Constants, ColonyAssumption
<1>2. l = m \/ l < m
  BY Constants
<1>3. Cap \in Levels
  BY Constants
<1>4. m = Cap \/ m < Cap
  BY <1>1, Constants
<1>5. HpOf[l] <= HpOf[m]
  BY <1>1, <1>2, Rising
<1>6. HpOf[m] <= HpOf[Cap]
  BY <1>1, <1>3, <1>4, Rising
<1> QED BY <1>1, <1>3, <1>5, <1>6

LEMMA HpBounds ==
  ASSUME NEW l \in Levels
  PROVE  HpOf[l] \in Nat \ {0} /\ HpOf[l] <= HpOf[Cap] /\ HpOf[Cap] \in Nat
<1>1. l <= l
  BY Constants
<1> QED BY <1>1, HpRises

(* A queen whose level is the one her xp reaches, and whose hp and shield  *)
(* are no more than levels give.                                           *)
SoundQueen(q) ==
  /\ q \in Queen
  /\ q.hp <= HpOf[q.level] /\ q.shield <= HpOf[Cap] /\ q.level = LevelFor(q.xp)

LEMMA SoundNew == SoundQueen(NewQueen) /\ NewQueen.hp > 0 /\ ~NewQueen.dead /\ NewQueen # NoQueen
<1>1. 1 \in Levels /\ XpOf[1] = 0
  BY Constants, ColonyAssumption
<1>2. LevelFor(0) = 1
  BY <1>1, LevelFloor
<1>3. HpOf[1] \in Nat \ {0} /\ HpOf[Cap] \in Nat
  BY <1>1, HpRises
<1>4. NewQueen \in Queen
  BY <1>1, <1>3 DEF NewQueen, Queen
<1> QED BY <1>2, <1>3, <1>4 DEF SoundQueen, NewQueen, NoQueen

(* Given in fields, for queens that differ in some of them.                *)
LEMMA SoundFields ==
  ASSUME NEW dead \in BOOLEAN, NEW level \in Levels, NEW hp \in 0 .. HpOf[level], NEW xp \in Nat,
         NEW kills \in Nat, NEW shield \in 0 .. HpOf[Cap], NEW attacker \in Ids \cup {Nobody},
         LevelFor(xp) = level,
         NEW q, q = [dead |-> dead, hp |-> hp, level |-> level, xp |-> xp, kills |-> kills,
                     shield |-> shield, attacker |-> attacker]
  PROVE  SoundQueen(q)
<1>1. HpOf[level] \in Nat /\ HpOf[Cap] \in Nat
  BY HpRises, Constants
<1>2. hp \in Nat /\ hp <= HpOf[level] /\ shield \in Nat /\ shield <= HpOf[Cap]
  BY <1>1
<1>3. q \in Queen
  BY <1>2, Zenon DEF Queen
<1> QED BY <1>2, <1>3 DEF SoundQueen

LEMMA Sound ==
  ASSUME NEW q, SoundQueen(q)
  PROVE  /\ q = [dead |-> q.dead, hp |-> q.hp, level |-> q.level, xp |-> q.xp, kills |-> q.kills,
                 shield |-> q.shield, attacker |-> q.attacker]
         /\ q.dead \in BOOLEAN /\ q.level \in Levels /\ q.hp \in 0 .. HpOf[q.level] /\ q.xp \in Nat
         /\ q.kills \in Nat /\ q.shield \in 0 .. HpOf[Cap] /\ q.attacker \in Ids \cup {Nobody}
         /\ LevelFor(q.xp) = q.level /\ q # NoQueen
         /\ HpOf[q.level] \in Nat \ {0} /\ HpOf[Cap] \in Nat
<1>1. q \in Queen
  BY DEF SoundQueen
<1>2. /\ q = [dead |-> q.dead, hp |-> q.hp, level |-> q.level, xp |-> q.xp, kills |-> q.kills,
              shield |-> q.shield, attacker |-> q.attacker]
      /\ q.dead \in BOOLEAN /\ q.level \in Levels /\ q.hp \in Nat /\ q.xp \in Nat
      /\ q.kills \in Nat /\ q.shield \in Nat /\ q.attacker \in Ids \cup {Nobody}
  BY <1>1 DEF Queen
<1>3. HpOf[q.level] \in Nat \ {0} /\ HpOf[Cap] \in Nat
  BY <1>2, HpRises, Constants
<1>4. q # NoQueen
  BY <1>2 DEF NoQueen
<1>5. q.hp \in 0 .. HpOf[q.level] /\ q.shield \in 0 .. HpOf[Cap]
  BY <1>2, <1>3 DEF SoundQueen
<1> QED BY <1>2, <1>3, <1>4, <1>5 DEF SoundQueen

LEMMA GrownSound ==
  ASSUME NEW q, SoundQueen(q), NEW amount \in Nat
  PROVE  /\ SoundQueen(Grown(q, amount))
         /\ Grown(q, amount).dead = q.dead /\ Grown(q, amount).hp >= q.hp
         /\ Grown(q, amount).level >= q.level
<1>1. PICK xp : xp = q.xp + amount
  OBVIOUS
<1>2. PICK level : level = Larger(q.level, LevelFor(xp))
  OBVIOUS
<1>3. PICK hp : hp = Smaller(q.hp + (HpOf[level] - HpOf[q.level]), HpOf[level])
  OBVIOUS
<1>0. /\ q = [dead |-> q.dead, hp |-> q.hp, level |-> q.level, xp |-> q.xp, kills |-> q.kills,
              shield |-> q.shield, attacker |-> q.attacker]
      /\ q.dead \in BOOLEAN /\ q.level \in Levels /\ q.hp \in 0 .. HpOf[q.level] /\ q.xp \in Nat
      /\ q.kills \in Nat /\ q.shield \in 0 .. HpOf[Cap] /\ q.attacker \in Ids \cup {Nobody}
      /\ LevelFor(q.xp) = q.level /\ HpOf[q.level] \in Nat
  BY Sound
<1>4. xp \in Nat /\ xp >= q.xp
  BY <1>0, <1>1
<1>5. level = LevelFor(xp) /\ level \in Levels /\ q.level <= level
  <2>1. LevelFor(xp) \in Levels /\ q.level <= LevelFor(xp)
    <3>1. LevelFor(q.xp) <= LevelFor(xp)
      BY <1>0, <1>4, LevelGrows
    <3> QED BY <1>0, <1>4, <3>1, LevelReached
  <2> QED BY <1>0, <1>2, <2>1, Constants DEF Larger
<1>6. hp \in 0 .. HpOf[level] /\ hp >= q.hp
  <2>1. HpOf[level] \in Nat /\ HpOf[q.level] <= HpOf[level]
    BY <1>0, <1>5, HpRises
  <2> QED BY <1>0, <1>3, <2>1 DEF Smaller
<1>7. Grown(q, amount) = [dead |-> q.dead, hp |-> hp, level |-> level, xp |-> xp, kills |-> q.kills,
                          shield |-> q.shield, attacker |-> q.attacker]
  <2>1. Grown(q, amount) = [q EXCEPT !.xp = xp, !.level = level, !.hp = hp]
    BY <1>1, <1>2, <1>3 DEF Grown
  <2> QED BY <1>0, <2>1
<1>8. SoundQueen(Grown(q, amount))
  BY <1>0, <1>4, <1>5, <1>6, <1>7, SoundFields
<1> QED BY <1>5, <1>6, <1>7, <1>8

-----------------------------------------------------------------------------
(* What types, health and pools need. *)

SoundQueens(qs) ==
  qs = [u \in Ids |-> qs[u]] /\ \A u \in Ids : qs[u] = NoQueen \/ SoundQueen(qs[u])

Purse == [ready : Nat, credits : Nat, lifetime : Nat, rivals : Nat, guards : Nat]

(* An NPC's queen goes when it falls, so no NPC is ever given what the     *)
(* fallen may have.                                                        *)
NpcsWhole == \A n \in Npcs : n \notin gifted /\ (queen[n] # NoQueen => ~queen[n].dead)

Books ==
  /\ peak \in [Users -> 0 .. Cap] /\ counts \in [Ids -> Nat]
  /\ skipped \subseteq Users /\ gifted \subseteq Ids
  /\ ops \in 0 .. MaxOps /\ ticks \in 0 .. MaxTicks

Ticks ==
  /\ tick.at \in {"idle", "fight", "clash", "capture", "expire", "upkeep",
                  "meet", "collide", "deaths"}
  /\ tick.at # "idle" => ticks < MaxTicks
  /\ \A k \in tick.list : k.turn \in Nat

(* Between ticks every live queen has hp; once the last phase has scanned  *)
(* for those without, each of them is down for a kill.                     *)
Spent(q) == q # NoQueen /\ ~q.dead /\ q.hp <= 0

Healthy ==
  /\ tick.at = "idle" => \A u \in Ids : ~Spent(queen[u])
  /\ tick.at = "deaths" => \A u \in Ids : Spent(queen[u]) => \E k \in tick.list : k.loser = u

JInv == IInv /\ SoundQueens(queen) /\ player \in [Ids -> Purse] /\ NpcsWhole /\ Books /\ Ticks /\ Healthy

-----------------------------------------------------------------------------
(* Queens stay sound. *)

(* What may become of u's queen in a step other than a fight: she may be   *)
(* q if q is sound, and has no hp only if u's queen had none.              *)
Fares(q, u) ==
  /\ q = NoQueen \/ SoundQueen(q)
  /\ u \in Npcs /\ q # NoQueen => ~q.dead
  /\ Spent(q) => Spent(queen[u])

Fare(qs) == qs = [u \in Ids |-> qs[u]] /\ \A u \in Ids : Fares(qs[u], u)

LEMMA SameFares ==
  ASSUME JInv
  PROVE  Fare(queen)
BY ColonyAssumption DEF JInv, SoundQueens, NpcsWhole, Fare, Fares, Ids

LEMMA StillFare ==
  ASSUME JInv, queen' = queen
  PROVE  Fare(queen')
BY SameFares

LEMMA OneFares ==
  ASSUME JInv, NEW t \in Ids, NEW q, queen' = [queen EXCEPT ![t] = q], Fares(q, t)
  PROVE  Fare(queen')
<1>1. queen = [u \in Ids |-> queen[u]] /\ \A u \in Ids : Fares(queen[u], u)
  BY SameFares DEF Fare
<1>2. queen' = [u \in Ids |-> IF u = t THEN q ELSE queen[u]]
  BY <1>1
<1>3. ASSUME NEW u \in Ids PROVE Fares(queen'[u], u)
  <2>1. CASE u = t
    BY <1>2, <2>1
  <2>2. CASE u # t
    BY <1>1, <1>2, <2>2
  <2> QED BY <2>1, <2>2
<1>4. queen' = [u \in Ids |-> queen'[u]]
  BY <1>2
<1> QED BY <1>3, <1>4 DEF Fare

(* u's queen with another level, hp, xp or shield.                         *)
LEMMA TendedFares ==
  ASSUME JInv, NEW t \in Ids, queen[t] # NoQueen, NEW q \in Queen, q.dead = queen[t].dead,
         q.level = LevelFor(q.xp), q.hp <= HpOf[q.level], q.shield <= HpOf[Cap]
  PROVE  /\ SoundQueen(q) /\ q # NoQueen /\ (t \in Npcs => ~q.dead)
         /\ (q.hp > 0 \/ q.hp = queen[t].hp) => Fares(q, t)
<1>1. t \in Npcs => ~queen[t].dead
  BY DEF JInv, NpcsWhole
<1>2. SoundQueen(q)
  BY DEF SoundQueen
<1>3. q # NoQueen /\ q.hp \in Nat
  BY <1>2, Sound DEF Queen
<1>4. ASSUME q.hp > 0 \/ q.hp = queen[t].hp PROVE Spent(q) => Spent(queen[t])
  <2>1. q.hp <= 0 => ~(q.hp > 0)
    BY <1>3
  <2> QED BY <1>4, <2>1, Zenon DEF Spent
<1> QED BY <1>1, <1>2, <1>3, <1>4 DEF Fares

LEMMA NewFares ==
  ASSUME NEW u \in Ids
  PROVE  Fares(NewQueen, u)
<1>1. SoundQueen(NewQueen) /\ NewQueen.hp > 0 /\ ~NewQueen.dead /\ NewQueen.hp \in Nat
  BY SoundNew, Sound DEF SoundQueen, Queen
<1>2. ~(NewQueen.hp <= 0)
  BY <1>1
<1> QED BY <1>1, <1>2 DEF Fares, Spent

(* t's queen, as she is.                                                   *)
LEMMA OfQueen ==
  ASSUME JInv, NEW t \in Ids, queen[t] # NoQueen
  PROVE  /\ queen[t] \in Queen /\ queen[t].level \in Levels /\ queen[t].hp \in Nat
         /\ queen[t].xp \in Nat /\ queen[t].kills \in Nat /\ queen[t].shield \in Nat
         /\ queen[t].hp <= HpOf[queen[t].level] /\ queen[t].shield <= HpOf[Cap]
         /\ queen[t].level = LevelFor(queen[t].xp)
         /\ HpOf[queen[t].level] \in Nat \ {0} /\ HpOf[Cap] \in Nat
         /\ HpOf[queen[t].level] <= HpOf[Cap] /\ SoundQueen(queen[t])
<1>1. SoundQueen(queen[t])
  BY DEF JInv, SoundQueens
<1>2. queen[t] \in Queen /\ queen[t].level \in Levels
  BY <1>1 DEF SoundQueen, Queen
<1> QED BY <1>1, <1>2, HpBounds DEF SoundQueen, Queen

LEMMA BuyFares ==
  ASSUME JInv, NEW t \in Users, NEW item \in Items, Buy(t, item)
  PROVE  Fare(queen')
<1>0. t \in Ids
  BY Constants
<1>1. CASE item = "shield"
  <2>1. queen[t] # NoQueen
    BY <1>1 DEF Buy, Live
  <2>2. PICK p : p = queen[t]
    OBVIOUS
  <2>3. PICK q : q = [p EXCEPT !.shield = HpOf[p.level]]
    OBVIOUS
  <2>4. queen' = [queen EXCEPT ![t] = q]
    BY <1>1, <2>2, <2>3 DEF Buy
  <2>5. /\ p \in Queen /\ p.level = LevelFor(p.xp) /\ p.hp <= HpOf[p.level]
        /\ HpOf[p.level] \in Nat /\ HpOf[p.level] <= HpOf[Cap]
    BY <1>0, <2>1, <2>2, OfQueen
  <2>6. /\ q \in Queen /\ q.dead = p.dead /\ q.level = p.level /\ q.xp = p.xp /\ q.hp = p.hp
        /\ q.shield = HpOf[p.level]
    BY <2>3, <2>5 DEF Queen
  <2>7. Fares(q, t)
    BY <1>0, <2>1, <2>2, <2>5, <2>6, TendedFares
  <2> QED BY <1>0, <2>4, <2>7, OneFares
<1>2. CASE item # "shield"
  BY <1>2, StillFare DEF Buy
<1> QED BY <1>1, <1>2

LEMMA HealQueenFares ==
  ASSUME JInv, NEW t \in Ids, HealQueen(t)
  PROVE  Fare(queen')
<1>1. PICK p : p = queen[t]
  OBVIOUS
<1>2. PICK q : q = [p EXCEPT !.hp = HpOf[p.level]]
  OBVIOUS
<1>3. queen' = [queen EXCEPT ![t] = q] /\ queen[t] # NoQueen
  BY <1>1, <1>2 DEF HealQueen
<1>4. /\ p \in Queen /\ p.level = LevelFor(p.xp) /\ p.shield <= HpOf[Cap]
      /\ HpOf[p.level] \in Nat \ {0}
  BY <1>1, <1>3, OfQueen
<1>5. /\ q \in Queen /\ q.dead = p.dead /\ q.level = p.level /\ q.xp = p.xp
      /\ q.hp = HpOf[p.level] /\ q.shield = p.shield
  BY <1>2, <1>4 DEF Queen
<1>6. q.hp > 0 /\ q.hp <= HpOf[q.level]
  BY <1>4, <1>5
<1>7. Fares(q, t)
  BY <1>1, <1>3, <1>4, <1>5, <1>6, TendedFares
<1> QED BY <1>3, <1>7, OneFares

(* A queen at another level, its xp one that reaches it.                   *)
Levelled(p, level, xp, hp) == [p EXCEPT !.level = level, !.xp = xp, !.hp = hp]

LEMMA LevelledFares ==
  ASSUME JInv, NEW t \in Ids, queen[t] # NoQueen, NEW level \in Levels, NEW xp \in Nat,
         LevelFor(xp) = level, NEW hp \in Nat, hp <= HpOf[level],
         hp > 0 \/ hp = queen[t].hp
  PROVE  Fares(Levelled(queen[t], level, xp, hp), t)
<1>1. PICK q : q = Levelled(queen[t], level, xp, hp)
  OBVIOUS
<1>2. queen[t] \in Queen /\ queen[t].shield <= HpOf[Cap]
  BY OfQueen
<1>3. /\ q \in Queen /\ q.dead = queen[t].dead /\ q.level = level /\ q.xp = xp
      /\ q.hp = hp /\ q.shield = queen[t].shield
  BY <1>1, <1>2 DEF Queen, Levelled
<1>4. Fares(q, t)
  BY <1>2, <1>3, TendedFares
<1> QED BY <1>1, <1>4

LEMMA LevelUpFares ==
  ASSUME JInv, NEW t \in Ids, LevelUp(t)
  PROVE  Fare(queen')
<1>1. PICK p : p = queen[t]
  OBVIOUS
<1>2. PICK level : level = p.level + 1
  OBVIOUS
<1>3. PICK hp : hp = Smaller(p.hp + (HpOf[level] - HpOf[level - 1]), HpOf[level])
  OBVIOUS
<1>4. PICK q : q = Levelled(p, level, XpOf[level], hp)
  OBVIOUS
<1>5. queen' = [queen EXCEPT ![t] = q] /\ queen[t] # NoQueen /\ p.level < Cap
  BY <1>1, <1>2, <1>3, <1>4 DEF LevelUp, Live, Levelled
<1>6. /\ p.level \in Levels /\ p.hp \in Nat /\ p.hp <= HpOf[p.level] /\ HpOf[p.level] \in Nat \ {0}
  BY <1>1, <1>5, OfQueen
<1>7. level \in Levels /\ level - 1 = p.level /\ XpOf[level] \in Nat
  <2>1. level \in Levels /\ level - 1 = p.level
    BY <1>2, <1>5, <1>6, Constants
  <2> QED BY <2>1, ColonyAssumption
<1>8. HpOf[level] \in Nat \ {0} /\ HpOf[p.level] <= HpOf[level]
  <2>1. p.level <= level
    BY <1>2, <1>6, Constants
  <2> QED BY <1>6, <1>7, <2>1, HpRises
<1>9. hp \in Nat /\ hp <= HpOf[level] /\ (hp > 0 \/ hp = p.hp)
  BY <1>3, <1>6, <1>7, <1>8 DEF Smaller
<1>10. LevelFor(XpOf[level]) = level
  BY <1>7, LevelFloor
<1>11. Fares(q, t)
  BY <1>1, <1>4, <1>5, <1>7, <1>9, <1>10, LevelledFares
<1> QED BY <1>5, <1>11, OneFares

LEMMA LevelDownFares ==
  ASSUME JInv, NEW t \in Ids, LevelDown(t)
  PROVE  Fare(queen')
<1>1. PICK p : p = queen[t]
  OBVIOUS
<1>2. PICK level : level = p.level - 1
  OBVIOUS
<1>3. PICK hp : hp = Smaller(p.hp, HpOf[level])
  OBVIOUS
<1>4. PICK xp : xp = Smaller(Larger(p.xp, XpOf[level]), XpOf[p.level] - 1)
  OBVIOUS
<1>5. PICK q : q = Levelled(p, level, xp, hp)
  OBVIOUS
<1>6. queen[t] # NoQueen /\ p.level > 1
  BY <1>1 DEF LevelDown, Live
<1>7. /\ p \in Queen /\ p.level \in Levels /\ p.hp \in Nat /\ p.xp \in Nat
  BY <1>1, <1>6, OfQueen
<1>8. queen' = [queen EXCEPT ![t] = q]
  <2>1. Demoted(p) = [p EXCEPT !.level = level, !.hp = hp, !.xp = xp]
    BY <1>2, <1>3, <1>4 DEF Demoted
  <2>2. PICK d : d = Demoted(p)
    OBVIOUS
  <2>3. d = q
    <3>1. d = [p EXCEPT !.level = level, !.hp = hp, !.xp = xp]
      BY <2>1, <2>2
    <3> QED BY <1>5, <1>7, <3>1 DEF Queen, Levelled
  <2>4. queen' = [queen EXCEPT ![t] = Demoted(queen[t])]
    BY DEF LevelDown
  <2> QED BY <1>1, <2>2, <2>3, <2>4
<1>9. level \in Levels /\ level + 1 = p.level /\ XpOf[level] \in Nat /\ XpOf[p.level] \in Nat
  <2>1. level \in Levels /\ level + 1 = p.level
    BY <1>2, <1>6, <1>7, Constants
  <2> QED BY <1>7, <2>1, ColonyAssumption
<1>10. XpOf[level] < XpOf[p.level]
  BY <1>7, <1>9, Constants, Rising
<1>11. xp \in Nat /\ XpOf[level] <= xp /\ xp < XpOf[level + 1]
  BY <1>4, <1>7, <1>9, <1>10 DEF Smaller, Larger
<1>12. LevelFor(xp) = level
  BY <1>9, <1>11, LevelIs
<1>13. hp \in Nat /\ hp <= HpOf[level] /\ (hp > 0 \/ hp = p.hp)
  <2>1. HpOf[level] \in Nat \ {0}
    BY <1>9, HpBounds
  <2> QED BY <1>3, <1>7, <2>1 DEF Smaller
<1>14. Fares(q, t)
  BY <1>1, <1>5, <1>6, <1>9, <1>11, <1>12, <1>13, LevelledFares
<1> QED BY <1>8, <1>14, OneFares

LEMMA SetLevelFares ==
  ASSUME JInv, NEW t \in Ids, NEW level \in Levels, SetLevel(t, level)
  PROVE  Fare(queen')
<1>1. PICK p : p = queen[t]
  OBVIOUS
<1>2. PICK hp : hp = Smaller(p.hp, HpOf[level])
  OBVIOUS
<1>3. PICK q : q = Levelled(p, level, XpOf[level], hp)
  OBVIOUS
<1>4. queen[t] # NoQueen /\ queen' = [queen EXCEPT ![t] = q]
  BY <1>1, <1>2, <1>3 DEF SetLevel, Live, Promote, Levelled
<1>5. p.hp \in Nat /\ HpOf[level] \in Nat \ {0} /\ XpOf[level] \in Nat
  BY <1>1, <1>4, OfQueen, HpBounds, ColonyAssumption
<1>6. hp \in Nat /\ hp <= HpOf[level] /\ (hp > 0 \/ hp = p.hp)
  BY <1>2, <1>5 DEF Smaller
<1>7. Fares(q, t)
  BY <1>1, <1>3, <1>4, <1>5, <1>6, LevelFloor, LevelledFares
<1> QED BY <1>4, <1>7, OneFares

LEMMA GiveXpFares ==
  ASSUME JInv, NEW t \in Ids, GiveXp(t)
  PROVE  Fare(queen')
<1>1. PICK p : p = queen[t]
  OBVIOUS
<1>2. PICK xp : xp = p.xp + 1
  OBVIOUS
<1>3. PICK level : level = Larger(p.level, LevelFor(xp))
  OBVIOUS
<1>4. PICK hp : hp = IF level > p.level THEN HpOf[level] ELSE p.hp
  OBVIOUS
<1>5. PICK q : q = Levelled(p, level, xp, hp)
  OBVIOUS
<1>6. queen[t] # NoQueen
  BY DEF GiveXp, Live
<1>7. /\ p \in Queen /\ p.level \in Levels /\ p.hp \in Nat /\ p.xp \in Nat
      /\ p.level = LevelFor(p.xp) /\ p.hp <= HpOf[p.level]
  BY <1>1, <1>6, OfQueen
<1>8. queen' = [queen EXCEPT ![t] = q]
  <2>1. PICK d : d = [p EXCEPT !.xp = xp, !.level = level, !.hp = hp]
    OBVIOUS
  <2>2. d = [p EXCEPT !.xp = @ + 1, !.level = level, !.hp = IF level > p.level THEN HpOf[level] ELSE @]
    BY <1>2, <1>4, <2>1
  <2>3. queen' = [queen EXCEPT ![t] = d]
    BY <1>1, <1>2, <1>3, <2>2 DEF GiveXp, Promote
  <2>4. d = q
    BY <1>5, <1>7, <2>1 DEF Queen, Levelled
  <2> QED BY <2>3, <2>4
<1>9. xp \in Nat /\ level = LevelFor(xp) /\ level \in Levels /\ p.level <= level
  <2>1. xp \in Nat /\ p.xp <= xp
    BY <1>2, <1>7
  <2>2. LevelFor(xp) \in Levels /\ p.level <= LevelFor(xp)
    BY <1>7, <2>1, LevelReached, LevelGrows
  <2> QED BY <1>3, <1>7, <2>1, <2>2, Constants DEF Larger
<1>10. hp \in Nat /\ hp <= HpOf[level] /\ (hp > 0 \/ hp = p.hp)
  <2>1. HpOf[level] \in Nat \ {0}
    BY <1>9, HpBounds
  <2>2. CASE level > p.level
    BY <1>4, <2>1, <2>2
  <2>3. CASE ~(level > p.level)
    <3>1. level = p.level
      BY <1>7, <1>9, <2>3, Constants
    <3> QED BY <1>4, <1>7, <2>3, <3>1
  <2> QED BY <2>2, <2>3
<1>11. Fares(q, t)
  BY <1>1, <1>5, <1>6, <1>9, <1>10, LevelledFares
<1> QED BY <1>8, <1>11, OneFares

LEMMA Products == \A m, n \in Nat : m * n \in Nat
OBVIOUS

LEMMA FlushFares ==
  ASSUME JInv, NEW qs, NEW ps \in [Ids -> Purse], NEW due \in [Ids -> Nat], Fare(qs),
         Flush(qs, ps, due)
  PROVE  /\ Fare(queen') /\ player' \in [Ids -> Purse]
         /\ \A u \in Ids : ~Gains(qs, u) => queen'[u] = qs[u]
<1> DEFINE after == [u \in Ids |-> IF Gains(qs, u) THEN Grown(qs[u], due[u]) ELSE qs[u]]
           risen == {u \in Users : Gains(qs, u) /\ after[u].level > qs[u].level}
           level == [u \in Users |-> IF u \in risen THEN after[u].level ELSE 0]
           bonus == [u \in Users |-> LevelGrant * (after[u].level - qs[u].level)]
           grant == [u \in Users |-> StarterFor(u, risen, level)]
<1>1. after = [u \in Ids |-> IF Gains(qs, u) THEN Grown(qs[u], due[u]) ELSE qs[u]]
  OBVIOUS
<1>2. risen = {u \in Users : Gains(qs, u) /\ after[u].level > qs[u].level}
  OBVIOUS
<1>3. /\ queen' = after
      /\ player' = [u \in Ids |->
           IF u \in risen
           THEN [ps[u] EXCEPT !.ready = @ + LevelGrant * (after[u].level - qs[u].level),
                              !.credits = @ + StarterFor(u, risen, level)]
           ELSE ps[u]]
  BY DEF Flush, Gains
<1>4. \A u \in Users : /\ bonus[u] = LevelGrant * (after[u].level - qs[u].level)
                       /\ grant[u] = StarterFor(u, risen, level)
  OBVIOUS
<1>5. \A u \in Users : grant[u] \in Nat
  BY DEF StarterFor
<1> HIDE DEF after, risen, level, bonus, grant
<1>6. qs = [u \in Ids |-> qs[u]] /\ \A u \in Ids : Fares(qs[u], u)
  BY DEF Fare
<1>7. ASSUME NEW u \in Ids, Gains(qs, u)
      PROVE  /\ Fares(after[u], u) /\ after[u].level \in Nat /\ qs[u].level \in Nat
             /\ after[u].level >= qs[u].level
  <2>1. SoundQueen(qs[u]) /\ due[u] \in Nat /\ Fares(qs[u], u) /\ after[u] = Grown(qs[u], due[u])
    BY <1>1, <1>6, <1>7 DEF Fares, Gains
  <2>2. PICK g : g = Grown(qs[u], due[u])
    OBVIOUS
  <2>3. SoundQueen(g) /\ g.dead = qs[u].dead /\ g.hp >= qs[u].hp /\ g.level >= qs[u].level
    BY <2>1, <2>2, GrownSound
  <2>4. qs[u].hp \in Nat /\ g.hp \in Nat /\ g.level \in Nat /\ qs[u].level \in Nat /\ qs[u] # NoQueen
    BY <2>1, <2>3, Sound, Constants DEF SoundQueen, Queen
  <2>5. Spent(g) => Spent(qs[u])
    BY <2>3, <2>4 DEF Spent
  <2>6. Fares(g, u)
    BY <2>1, <2>3, <2>4, <2>5 DEF Fares
  <2> QED BY <2>1, <2>2, <2>3, <2>4, <2>6
<1>8. Fare(queen')
  <2>1. ASSUME NEW u \in Ids PROVE Fares(after[u], u)
    <3>1. CASE Gains(qs, u)
      BY <1>7, <3>1
    <3>2. CASE ~Gains(qs, u)
      BY <1>1, <1>6, <3>2
    <3> QED BY <3>1, <3>2
  <2>2. after = [u \in Ids |-> after[u]]
    BY <1>1
  <2> QED BY <1>3, <2>1, <2>2 DEF Fare
<1>9. ASSUME NEW u \in Ids PROVE player'[u] \in Purse
  <2>1. CASE u \in risen
    <3>1. u \in Users /\ Gains(qs, u)
      BY <1>2, <2>1
    <3>2. after[u].level - qs[u].level \in Nat /\ LevelGrant \in Nat
      BY <1>7, <3>1, ColonyAssumption
    <3>3. bonus[u] \in Nat /\ grant[u] \in Nat
      BY <1>4, <1>5, <3>1, <3>2, Products
    <3>4. player'[u] = [ps[u] EXCEPT !.ready = @ + bonus[u], !.credits = @ + grant[u]]
      BY <1>3, <1>4, <2>1, <3>1
    <3>5. PICK p : p = ps[u]
      OBVIOUS
    <3>6. PICK q : q = [p EXCEPT !.ready = p.ready + bonus[u], !.credits = p.credits + grant[u]]
      OBVIOUS
    <3>7. p \in Purse /\ p.ready + bonus[u] \in Nat /\ p.credits + grant[u] \in Nat
      BY <3>3, <3>5 DEF Purse
    <3>8. q \in Purse
      BY <3>6, <3>7 DEF Purse
    <3> QED BY <3>4, <3>5, <3>6, <3>8
  <2>2. CASE u \notin risen
    BY <1>3, <2>2
  <2> QED BY <2>1, <2>2
<1>10. player' \in [Ids -> Purse]
  BY <1>3, <1>9
<1> QED BY <1>1, <1>3, <1>8, <1>10

(* A fallen queen is gone or dead, and her killer's account is paid.       *)
LEMMA FelledFares ==
  ASSUME JInv, NEW l \in Ids, NEW k \in Ids \cup {Nobody}, Live(l)
  PROVE  /\ Fare(Felled(l, k)) /\ Paid(l, k) \in [Ids -> Purse]
         /\ ~Gains(Felled(l, k), l) /\ ~Spent(Felled(l, k)[l])
<1>1. PICK qs : qs = Felled(l, k)
  OBVIOUS
<1>2. PICK ps : ps = Paid(l, k)
  OBVIOUS
<1>3. /\ \A u \in Ids : Fares(queen[u], u)
      /\ player \in [Ids -> Purse] /\ Users \cap Npcs = {} /\ DailyAnts \in Nat
  BY SameFares, ColonyAssumption DEF Fare, JInv
<1>4. queen[l] # NoQueen /\ ~queen[l].dead
  BY DEF Live
<1>5. queen[l] \in Queen /\ queen[l].kills \in Nat /\ SoundQueen(queen[l])
  BY <1>4, OfQueen
<1>6. qs[l] = NoQueen \/ (l \notin Npcs /\ qs[l] = [queen[l] EXCEPT !.dead = TRUE])
  BY <1>1 DEF Felled
<1>7. qs[l] = NoQueen \/ (l \notin Npcs /\ SoundQueen(qs[l]) /\ qs[l].dead)
  <2>1. CASE qs[l] = [queen[l] EXCEPT !.dead = TRUE]
    <3>1. PICK q : q = qs[l]
      OBVIOUS
    <3>2. /\ q \in Queen /\ q.dead /\ q.level = queen[l].level /\ q.hp = queen[l].hp
          /\ q.shield = queen[l].shield /\ q.xp = queen[l].xp
      BY <1>5, <2>1, <3>1 DEF Queen
    <3>3. SoundQueen(q)
      BY <1>5, <3>2 DEF SoundQueen
    <3> QED BY <1>6, <3>1, <3>2, <3>3
  <2> QED BY <1>6, <2>1
<1>8. Fares(qs[l], l) /\ ~Spent(qs[l]) /\ ~Gains(qs, l)
  BY <1>7 DEF Fares, Spent, Gains
<1>9. ASSUME NEW u \in Ids, u # l PROVE Fares(qs[u], u)
  <2>1. CASE u = k /\ queen[k] # NoQueen
    <3>1. PICK q : q = [queen[u] EXCEPT !.kills = @ + 1]
      OBVIOUS
    <3>2. qs[u] = q
      BY <1>1, <1>9, <2>1, <3>1 DEF Felled
    <3>3. queen[u] \in Queen /\ SoundQueen(queen[u])
      BY <2>1, OfQueen
    <3>4. /\ q \in Queen /\ q.dead = queen[u].dead /\ q.level = queen[u].level /\ q.hp = queen[u].hp
          /\ q.shield = queen[u].shield /\ q.xp = queen[u].xp
      BY <3>1, <3>3 DEF Queen
    <3>5. /\ q.level = LevelFor(q.xp) /\ q.hp <= HpOf[q.level] /\ q.shield <= HpOf[Cap]
      BY <3>3, <3>4 DEF SoundQueen
    <3>6. Fares(q, u)
      BY <2>1, <3>4, <3>5, TendedFares
    <3> QED BY <3>2, <3>6
  <2>2. CASE ~(u = k /\ queen[k] # NoQueen)
    <3>1. qs[u] = queen[u]
      BY <1>1, <1>9, <2>2 DEF Felled
    <3> QED BY <1>3, <3>1
  <2> QED BY <2>1, <2>2
<1>10. Fare(qs)
  <2>1. qs = [u \in Ids |-> qs[u]]
    BY <1>1 DEF Felled
  <2> QED BY <1>8, <1>9, <2>1 DEF Fare
<1>11. ASSUME NEW u \in Ids PROVE ps[u] \in Purse
  <2>1. player[u] \in Purse
    BY <1>3
  <2>2. CASE u = l
    <3>1. PICK ready : ready = IF l \in Users THEN DailyAnts ELSE player[u].ready
      OBVIOUS
    <3>2. PICK p : p = player[u]
      OBVIOUS
    <3>3. PICK q : q = [p EXCEPT !.lifetime = p.lifetime + queen[l].kills, !.ready = ready]
      OBVIOUS
    <3>4. ps[u] = q
      BY <1>2, <2>2, <3>1, <3>2, <3>3 DEF Paid
    <3>5. ready \in Nat
      BY <1>3, <2>1, <2>2, <3>1 DEF Purse
    <3>7. p \in Purse /\ p.lifetime + queen[l].kills \in Nat
      BY <1>5, <2>1, <3>2 DEF Purse
    <3>6. q \in Purse
      BY <3>3, <3>5, <3>7 DEF Purse
    <3> QED BY <3>4, <3>6
  <2>3. CASE u # l
    <3>1. PICK p : p = player[u]
      OBVIOUS
    <3>2. PICK q : q = [p EXCEPT !.credits = p.credits + 1, !.rivals = p.rivals + 1]
      OBVIOUS
    <3>3. ps[u] = q \/ ps[u] = p
      BY <1>2, <2>3, <3>1, <3>2 DEF Paid
    <3>5. p \in Purse /\ p.credits + 1 \in Nat /\ p.rivals + 1 \in Nat
      BY <2>1, <3>1 DEF Purse
    <3>4. q \in Purse
      BY <3>2, <3>5 DEF Purse
    <3> QED BY <2>1, <3>1, <3>3, <3>4
  <2> QED BY <2>2, <2>3
<1>12. ps \in [Ids -> Purse]
  <2>1. ps = [u \in Ids |-> ps[u]]
    BY <1>2 DEF Paid
  <2> QED BY <1>11, <2>1
<1> QED BY <1>1, <1>2, <1>8, <1>10, <1>12

LEMMA KillFares ==
  ASSUME JInv, NEW l \in Ids, NEW k \in Ids \cup {Nobody}, KillQueen(l, k)
  PROVE  Fare(queen') /\ player' \in [Ids -> Purse] /\ ~Spent(queen'[l])
<1>1. CASE ~Live(l)
  <2>1. queen' = queen /\ player' = player
    BY <1>1 DEF KillQueen
  <2>2. ~Spent(queen[l])
    BY <1>1 DEF Live, Spent
  <2> QED BY <2>1, <2>2, SameFares DEF JInv
<1>2. CASE Live(l)
  <2>1. PICK qs : qs = Felled(l, k)
    OBVIOUS
  <2>2. PICK ps : ps = Paid(l, k)
    OBVIOUS
  <2>3. Fare(qs) /\ ps \in [Ids -> Purse] /\ ~Gains(qs, l) /\ ~Spent(qs[l])
    BY <1>2, <2>1, <2>2, FelledFares
  <2>4. CASE k = Nobody
    <3>1. queen' = qs /\ player' = ps
      BY <1>2, <2>1, <2>2, <2>4 DEF KillQueen
    <3> QED BY <2>3, <3>1
  <2>5. CASE k # Nobody
    <3>1. PICK due : due = [xpq EXCEPT ![k] = @ + KillXp]
      OBVIOUS
    <3>2. due \in [Ids -> Nat]
      BY <2>5, <3>1, Constants DEF JInv, IInv, Typed
    <3>3. Flush(qs, ps, due)
      BY <1>2, <2>1, <2>2, <2>5, <3>1 DEF KillQueen
    <3>4. /\ Fare(queen') /\ player' \in [Ids -> Purse]
          /\ \A u \in Ids : ~Gains(qs, u) => queen'[u] = qs[u]
      BY <2>3, <3>2, <3>3, FlushFares
    <3> QED BY <2>3, <3>4
  <2> QED BY <2>4, <2>5
<1> QED BY <1>1, <1>2

(* What a fight leaves of queens: sound, and no NPC's dead.                *)
Holds(q, u) == (q = NoQueen \/ SoundQueen(q)) /\ (u \in Npcs /\ q # NoQueen => ~q.dead)

Hold(qs) == qs = [u \in Ids |-> qs[u]] /\ \A u \in Ids : Holds(qs[u], u)

LEMMA FareHolds ==
  ASSUME NEW qs, Fare(qs)
  PROVE  Hold(qs)
BY DEF Fare, Fares, Hold, Holds

LEMMA PlaceQueenFares ==
  ASSUME JInv, NEW t \in Users, PlaceQueen(t)
  PROVE  Fare(queen')
<1>1. t \in Ids /\ queen' = [queen EXCEPT ![t] = NewQueen]
  BY Constants DEF PlaceQueen
<1> QED BY <1>1, NewFares, OneFares

LEMMA SpawnNpcFares ==
  ASSUME JInv, NEW n \in Npcs, SpawnNpc(n)
  PROVE  Fare(queen')
<1>1. n \in Ids /\ queen' = [queen EXCEPT ![n] = NewQueen]
  BY DEF SpawnNpc, Ids
<1> QED BY <1>1, NewFares, OneFares

LEMMA SeasonWipeFares ==
  ASSUME SeasonWipe
  PROVE  Fare(queen')
BY DEF SeasonWipe, Fare, Fares, Spent

LEMMA UpkeepFares ==
  ASSUME JInv, Upkeep
  PROVE  Fare(queen')
<1>1. PICK regen \in BOOLEAN, expired \in BOOLEAN :
        queen' = [u \in Ids |->
          IF queen[u] = NoQueen THEN NoQueen
          ELSE [queen[u] EXCEPT
                  !.hp = IF regen /\ ~queen[u].dead THEN Smaller(@ + 1, HpOf[queen[u].level]) ELSE @,
                  !.shield = IF expired THEN 0 ELSE @]]
  BY DEF Upkeep
<1>2. ASSUME NEW u \in Ids PROVE Fares(queen'[u], u)
  <2>1. CASE queen[u] = NoQueen
    BY <1>1, <2>1 DEF Fares, Spent
  <2>2. CASE queen[u] # NoQueen
    <3>1. PICK p : p = queen[u]
      OBVIOUS
    <3>2. PICK hp : hp = IF regen /\ ~p.dead THEN Smaller(p.hp + 1, HpOf[p.level]) ELSE p.hp
      OBVIOUS
    <3>3. PICK shield : shield = IF expired THEN 0 ELSE p.shield
      OBVIOUS
    <3>4. PICK q : q = [p EXCEPT !.hp = hp, !.shield = shield]
      OBVIOUS
    <3>5. queen'[u] = q
      BY <1>1, <2>2, <3>1, <3>2, <3>3, <3>4
    <3>6. /\ p \in Queen /\ p.hp \in Nat /\ p.shield \in Nat /\ p.hp <= HpOf[p.level]
          /\ p.shield <= HpOf[Cap] /\ p.level = LevelFor(p.xp)
          /\ HpOf[p.level] \in Nat \ {0} /\ HpOf[Cap] \in Nat
      BY <2>2, <3>1, OfQueen
    <3>7. hp \in Nat /\ hp <= HpOf[p.level] /\ (hp > 0 \/ hp = p.hp)
      BY <3>2, <3>6 DEF Smaller
    <3>8. shield \in Nat /\ shield <= HpOf[Cap]
      BY <3>3, <3>6
    <3>9. /\ q \in Queen /\ q.dead = p.dead /\ q.level = p.level /\ q.xp = p.xp /\ q.hp = hp
          /\ q.shield = shield
      BY <3>4, <3>6, <3>7, <3>8 DEF Queen
    <3>10. Fares(q, u)
      BY <2>2, <3>1, <3>6, <3>7, <3>8, <3>9, TendedFares
    <3> QED BY <3>5, <3>10
  <2> QED BY <2>1, <2>2
<1>3. queen' = [u \in Ids |-> queen'[u]]
  BY <1>1
<1> QED BY <1>2, <1>3 DEF Fare

(* Any damage leaves a queen her soundness.                                *)
LEMMA WoundedSound ==
  ASSUME NEW p, SoundQueen(p), NEW damage \in Nat, NEW attacker \in Ids
  PROVE  SoundQueen(Wounded(p, damage, attacker)) /\ Wounded(p, damage, attacker).dead = p.dead
<1>1. PICK absorbed : absorbed = Smaller(damage, p.shield)
  OBVIOUS
<1>2. PICK hp : hp = Larger(p.hp - (damage - absorbed), 0)
  OBVIOUS
<1>3. PICK shield : shield = p.shield - absorbed
  OBVIOUS
<1>4. PICK q : q = [p EXCEPT !.shield = shield, !.hp = hp, !.attacker = attacker]
  OBVIOUS
<1>5. /\ p \in Queen /\ p.level = LevelFor(p.xp) /\ p.hp \in Nat /\ p.shield \in Nat
      /\ p.hp <= HpOf[p.level] /\ p.shield <= HpOf[Cap]
      /\ HpOf[p.level] \in Nat /\ HpOf[Cap] \in Nat
  BY Sound DEF SoundQueen, Queen
<1>6. absorbed \in Nat /\ absorbed <= damage /\ absorbed <= p.shield
  BY <1>1, <1>5 DEF Smaller
<1>7. hp \in Nat /\ hp <= HpOf[p.level] /\ shield \in Nat /\ shield <= HpOf[Cap]
  BY <1>2, <1>3, <1>5, <1>6 DEF Larger
<1>8. /\ q \in Queen /\ q.dead = p.dead /\ q.level = p.level /\ q.xp = p.xp /\ q.hp = hp
      /\ q.shield = shield
  BY <1>4, <1>5, <1>7 DEF Queen
<1>9. Wounded(p, damage, attacker) = q
  BY <1>1, <1>2, <1>3, <1>4 DEF Wounded
<1>10. SoundQueen(q)
  BY <1>5, <1>7, <1>8 DEF SoundQueen
<1> QED BY <1>8, <1>9, <1>10

LEMMA HealedSound ==
  ASSUME NEW p, SoundQueen(p), NEW bite \in Nat
  PROVE  LET q == [p EXCEPT !.hp = Smaller(@ + bite, HpOf[p.level])]
         IN  SoundQueen(q) /\ q.dead = p.dead
<1>1. PICK hp : hp = Smaller(p.hp + bite, HpOf[p.level])
  OBVIOUS
<1>2. PICK q : q = [p EXCEPT !.hp = hp]
  OBVIOUS
<1>3. /\ p \in Queen /\ p.level = LevelFor(p.xp) /\ p.hp \in Nat /\ p.shield <= HpOf[Cap]
      /\ HpOf[p.level] \in Nat
  BY Sound DEF SoundQueen, Queen
<1>4. hp \in Nat /\ hp <= HpOf[p.level]
  BY <1>1, <1>3 DEF Smaller
<1>5. /\ q \in Queen /\ q.dead = p.dead /\ q.level = p.level /\ q.xp = p.xp /\ q.hp = hp
      /\ q.shield = p.shield
  BY <1>2, <1>3, <1>4 DEF Queen
<1>6. SoundQueen(q)
  BY <1>3, <1>4, <1>5 DEF SoundQueen
<1>7. q = [p EXCEPT !.hp = Smaller(p.hp + bite, HpOf[p.level])]
  BY <1>1, <1>2
<1> QED BY <1>5, <1>6, <1>7

LEMMA FiniteIds == IsFiniteSet(Ids)
BY ColonyAssumption, FS_Union DEF Ids

LEMMA BiteNat ==
  ASSUME JInv, NEW a \in Ids, NEW brute \in BOOLEAN
  PROVE  Bite(a, brute) \in Nat
<1>1. PICK level : level = IF queen[a] # NoQueen THEN queen[a].level ELSE 1
  OBVIOUS
<1>2. PICK mult : mult = IF brute THEN BruteMult ELSE 1
  OBVIOUS
<1>3. level \in Nat /\ mult \in Nat
  BY <1>1, <1>2, OfQueen, Constants, ColonyAssumption
<1>4. Bite(a, brute) = level * mult
  BY <1>1, <1>2 DEF Bite
<1> QED BY <1>3, <1>4, Products

LEMMA FightHolds ==
  ASSUME JInv, Fight
  PROVE  Hold(queen')
<1>1. PICK target \in [Ids -> {u \in Ids : Live(u)} \cup {Nobody}], brute \in [Ids -> BOOLEAN] :
       /\ LET biters(v) == {a \in Ids \ {v} : target[a] = v}
              damage(v) == SumFunctionOnSet([a \in Ids |-> Bite(a, brute[a])], biters(v))
          IN  \E last \in [Ids -> Ids \cup {Nobody}] :
                /\ \A v \in Ids : IF biters(v) = {} THEN last[v] = Nobody ELSE last[v] \in biters(v)
                /\ queen' = [v \in Ids |->
                     LET hurt == IF biters(v) = {} THEN queen[v]
                                 ELSE Wounded(queen[v], damage(v), last[v])
                     IN  IF target[v] = v
                         THEN [hurt EXCEPT !.hp = Smaller(@ + Bite(v, FALSE), HpOf[hurt.level])]
                         ELSE hurt]
       /\ xpq' = [a \in Ids |-> IF target[a] # Nobody THEN xpq[a] + 1 ELSE xpq[a]]
  BY DEF Fight
<1> DEFINE biters(v) == {a \in Ids \ {v} : target[a] = v}
           bite == [a \in Ids |-> Bite(a, brute[a])]
           damage(v) == SumFunctionOnSet(bite, biters(v))
<1>2. PICK last \in [Ids -> Ids \cup {Nobody}] :
        /\ \A v \in Ids : IF biters(v) = {} THEN last[v] = Nobody ELSE last[v] \in biters(v)
        /\ queen' = [v \in Ids |->
          LET hurt == IF biters(v) = {} THEN queen[v]
                      ELSE Wounded(queen[v], damage(v), last[v])
          IN  IF target[v] = v
              THEN [hurt EXCEPT !.hp = Smaller(@ + Bite(v, FALSE), HpOf[hurt.level])]
              ELSE hurt]
  BY <1>1
<1>3. \A v \in Ids : damage(v) \in Nat
  <2>1. bite \in [Ids -> Nat]
    BY BiteNat
  <2>2. IsFiniteSet(Ids) /\ \A v \in Ids : biters(v) \in SUBSET Ids
    BY FiniteIds
  <2> HIDE DEF bite, biters
  <2> QED BY <2>1, <2>2, SumNat
<1>4. queen = [u \in Ids |-> queen[u]] /\ \A u \in Ids : Holds(queen[u], u)
  BY SameFares, FareHolds DEF Hold
<1> HIDE DEF bite
<1>5. ASSUME NEW v \in Ids PROVE Holds(queen'[v], v)
  <2>1. PICK hurt : hurt = IF biters(v) = {} THEN queen[v]
                           ELSE Wounded(queen[v], damage(v), last[v])
    OBVIOUS
  <2>2. queen'[v] = IF target[v] = v
                    THEN [hurt EXCEPT !.hp = Smaller(@ + Bite(v, FALSE), HpOf[hurt.level])]
                    ELSE hurt
    BY <1>2, <2>1
  <2>3. CASE Live(v)
    <3>1. queen[v] # NoQueen /\ ~queen[v].dead
      BY <2>3 DEF Live
    <3>2. SoundQueen(queen[v])
      BY <1>4, <3>1 DEF Holds
    <3>3. SoundQueen(hurt) /\ ~hurt.dead
      <4>1. CASE biters(v) = {}
        BY <2>1, <3>1, <3>2, <4>1
      <4>2. CASE biters(v) # {}
        <5>1. last[v] \in Ids /\ damage(v) \in Nat
          BY <1>2, <1>3, <4>2
        <5>2. PICK d : d = damage(v)
          OBVIOUS
        <5>3. PICK r : r = Wounded(queen[v], d, last[v])
          OBVIOUS
        <5>4. SoundQueen(r) /\ r.dead = queen[v].dead
          BY <3>2, <5>1, <5>2, <5>3, WoundedSound
        <5>5. hurt = r
          BY <2>1, <4>2, <5>2, <5>3
        <5> QED BY <3>1, <5>4, <5>5
      <4> QED BY <4>1, <4>2
    <3>4. CASE target[v] = v
      <4>1. PICK bit : bit = Bite(v, FALSE)
        OBVIOUS
      <4>2. bit \in Nat
        BY <4>1, BiteNat
      <4>3. PICK q : q = [hurt EXCEPT !.hp = Smaller(@ + bit, HpOf[hurt.level])]
        OBVIOUS
      <4>4. SoundQueen(q) /\ q.dead = hurt.dead
        BY <3>3, <4>2, <4>3, HealedSound
      <4>5. queen'[v] = q
        BY <2>2, <3>4, <4>1, <4>3
      <4> QED BY <3>3, <4>4, <4>5 DEF Holds
    <3>5. CASE target[v] # v
      BY <2>2, <3>3, <3>5 DEF Holds
    <3> QED BY <3>4, <3>5
  <2>4. CASE ~Live(v)
    <3>1. \A a \in Ids : target[a] # v
      BY <1>1, <2>4, Constants
    <3>2. biters(v) = {}
      BY <3>1
    <3>3. queen'[v] = queen[v]
      BY <2>1, <2>2, <3>1, <3>2
    <3> QED BY <1>4, <3>3
  <2> QED BY <2>3, <2>4
<1>6. queen' = [v \in Ids |-> queen'[v]]
  BY <1>2
<1> QED BY <1>5, <1>6 DEF Hold

-----------------------------------------------------------------------------
(* Pools, credits and counts stay numbers. *)

Purses == player \in [Ids -> Purse]

LEMMA OnePurse ==
  ASSUME JInv, NEW t \in Ids, NEW q \in Purse, player' = [player EXCEPT ![t] = q]
  PROVE  Purses'
BY DEF JInv, Purses

LEMMA OfPurse ==
  ASSUME JInv, NEW t \in Ids
  PROVE  /\ player[t] \in Purse /\ player[t].ready \in Nat /\ player[t].credits \in Nat
         /\ player[t].lifetime \in Nat /\ player[t].rivals \in Nat /\ player[t].guards \in Nat
<1>1. player[t] \in Purse
  BY DEF JInv
<1> QED BY <1>1 DEF Purse

LEMMA SomePurse ==
  ASSUME JInv, NEW t \in Ids, NEW n \in Nat,
         \/ player' = [player EXCEPT ![t].ready = n]
         \/ player' = [player EXCEPT ![t].credits = n]
         \/ player' = [player EXCEPT ![t].guards = n]
  PROVE  Purses'
<1>1. PICK p : p = player[t]
  OBVIOUS
<1>2. p \in Purse
  BY <1>1, OfPurse
<1>3. CASE player' = [player EXCEPT ![t].ready = n]
  <2>1. PICK q : q = [p EXCEPT !.ready = n]
    OBVIOUS
  <2>2. q \in Purse
    BY <1>2, <2>1 DEF Purse
  <2> QED BY <1>1, <1>3, <2>1, <2>2, OnePurse
<1>4. CASE player' = [player EXCEPT ![t].credits = n]
  <2>1. PICK q : q = [p EXCEPT !.credits = n]
    OBVIOUS
  <2>2. q \in Purse
    BY <1>2, <2>1 DEF Purse
  <2> QED BY <1>1, <1>4, <2>1, <2>2, OnePurse
<1>5. CASE player' = [player EXCEPT ![t].guards = n]
  <2>1. PICK q : q = [p EXCEPT !.guards = n]
    OBVIOUS
  <2>2. q \in Purse
    BY <1>2, <2>1 DEF Purse
  <2> QED BY <1>1, <1>5, <2>1, <2>2, OnePurse
<1> QED BY <1>3, <1>4, <1>5

(* The steps that move ants to or from a pool, or credits.                 *)
LEMMA PoolPurses ==
  ASSUME JInv, NEW t \in Ids,
         PlaceAnt(t) \/ DailyRefill(t) \/ GiveAnts(t) \/ GiveCredits(t) \/ LevelUp(t)
  PROVE  Purses'
<1>0. /\ player[t].ready \in Nat /\ player[t].credits \in Nat
      /\ DailyAnts \in Nat /\ LevelGrant \in Nat
  BY OfPurse, ColonyAssumption
<1>1. CASE PlaceAnt(t)
  <2>1. PICK n : n = player[t].ready - 1
    OBVIOUS
  <2>2. player' = [player EXCEPT ![t].ready = n] /\ player[t].ready > 0
    BY <1>1, <2>1 DEF PlaceAnt
  <2>3. n \in Nat
    BY <1>0, <2>1, <2>2
  <2> QED BY <2>2, <2>3, SomePurse
<1>2. CASE DailyRefill(t)
  <2>1. PICK n : n = player[t].ready + DailyAnts
    OBVIOUS
  <2>2. player' = [player EXCEPT ![t].ready = n]
    BY <1>2, <2>1 DEF DailyRefill
  <2>3. n \in Nat
    BY <1>0, <2>1
  <2> QED BY <2>2, <2>3, SomePurse
<1>3. CASE GiveAnts(t)
  <2>1. PICK n \in {0, player[t].ready + 1} : player' = [player EXCEPT ![t].ready = n]
    BY <1>3 DEF GiveAnts
  <2>2. n \in Nat
    BY <1>0
  <2> QED BY <2>1, <2>2, SomePurse
<1>4. CASE GiveCredits(t)
  <2>1. PICK n \in {0, player[t].credits + 1} : player' = [player EXCEPT ![t].credits = n]
    BY <1>4 DEF GiveCredits
  <2>2. n \in Nat
    BY <1>0
  <2> QED BY <2>1, <2>2, SomePurse
<1>5. CASE LevelUp(t)
  <2>1. PICK n : n = player[t].ready + LevelGrant
    OBVIOUS
  <2>2. player' = [player EXCEPT ![t].ready = n]
    BY <1>5, <2>1 DEF LevelUp
  <2>3. n \in Nat
    BY <1>0, <2>1
  <2> QED BY <2>2, <2>3, SomePurse
<1> QED BY <1>1, <1>2, <1>3, <1>4, <1>5

LEMMA BuyPurses ==
  ASSUME JInv, NEW t \in Users, NEW item \in Items, Buy(t, item)
  PROVE  Purses'
<1>0. t \in Ids
  BY Constants
<1>1. PICK p : p = player[t]
  OBVIOUS
<1>2. PICK credits : credits = p.credits - Price[item]
  OBVIOUS
<1>3. PICK ready : ready = IF item = "worker" THEN p.ready + 1 ELSE p.ready
  OBVIOUS
<1>4. PICK guards : guards = IF item = "defender" THEN p.guards + 1 ELSE p.guards
  OBVIOUS
<1>5. PICK q : q = [p EXCEPT !.credits = credits, !.ready = ready, !.guards = guards]
  OBVIOUS
<1>6. p \in Purse /\ p.ready \in Nat /\ p.credits \in Nat /\ p.guards \in Nat
  BY <1>0, <1>1, OfPurse
<1>7. Price[item] \in Nat /\ p.credits >= Price[item]
  <2>1. Price \in [Items -> Nat]
    BY ColonyAssumption
  <2> QED BY <1>1, <2>1 DEF Buy, Affords
<1>8. credits \in Nat /\ ready \in Nat /\ guards \in Nat
  BY <1>2, <1>3, <1>4, <1>6, <1>7
<1>9. player' = [player EXCEPT ![t] = q]
  <2>1. player' = [player EXCEPT ![t].credits = @ - Price[item],
                                 ![t].ready = IF item = "worker" THEN @ + 1 ELSE @,
                                 ![t].guards = IF item = "defender" THEN @ + 1 ELSE @]
    BY DEF Buy
  <2>2. player = [u \in Ids |-> player[u]]
    BY DEF JInv
  <2> QED BY <1>0, <1>1, <1>2, <1>3, <1>4, <1>5, <1>6, <2>1, <2>2 DEF Purse
<1>10. q \in Purse
  BY <1>5, <1>6, <1>8 DEF Purse
<1> QED BY <1>0, <1>9, <1>10, OnePurse

LEMMA PromotePurses ==
  ASSUME JInv, NEW t \in Ids, NEW q, q.level \in Nat, queen[t] # NoQueen, Promote(t, q)
  PROVE  Purses'
<1>1. PICK p : p = player[t]
  OBVIOUS
<1>2. PICK bonus : bonus = LevelGrant * Larger(q.level - queen[t].level, 0)
  OBVIOUS
<1>3. PICK grant : grant \in {0, 1} /\
        player' = [player EXCEPT ![t].ready = @ + bonus, ![t].credits = @ + grant]
  <2>1. PICK grant : grant = StarterFor(t, {t} \cap Users, [u \in {t} \cap Users |-> q.level])
    OBVIOUS
  <2>2. grant \in {0, 1}
    BY <2>1 DEF StarterFor
  <2> QED BY <1>2, <2>1, <2>2 DEF Promote
<1>4. p \in Purse /\ p.ready \in Nat /\ p.credits \in Nat
  BY <1>1, OfPurse
<1>5. bonus \in Nat
  <2>1. PICK gap : gap = Larger(q.level - queen[t].level, 0)
    OBVIOUS
  <2>2. queen[t].level \in Nat
    BY OfQueen, Constants
  <2>3. gap \in Nat /\ LevelGrant \in Nat
    BY <2>1, <2>2, ColonyAssumption DEF Larger
  <2> QED BY <1>2, <2>1, <2>3, Products
<1>6. PICK ready, credits : ready = p.ready + bonus /\ credits = p.credits + grant
  OBVIOUS
<1>7. ready \in Nat /\ credits \in Nat
  BY <1>3, <1>4, <1>5, <1>6
<1>8. PICK r : r = [p EXCEPT !.ready = ready, !.credits = credits]
  OBVIOUS
<1>9. player' = [player EXCEPT ![t] = r]
  <2>1. player = [u \in Ids |-> player[u]]
    BY DEF JInv
  <2> QED BY <1>1, <1>3, <1>4, <1>6, <1>8, <2>1 DEF Purse
<1>10. r \in Purse
  BY <1>4, <1>7, <1>8 DEF Purse
<1> QED BY <1>9, <1>10, OnePurse

LEMMA SetLevelPurses ==
  ASSUME JInv, NEW t \in Ids, NEW level \in Levels, SetLevel(t, level)
  PROVE  Purses'
<1>1. PICK q : q = [queen[t] EXCEPT !.level = level, !.xp = XpOf[level],
                                    !.hp = Smaller(@, HpOf[level])]
  OBVIOUS
<1>2. queen[t] # NoQueen /\ Promote(t, q)
  BY <1>1 DEF SetLevel, Live
<1>3. q.level \in Nat
  <2>1. queen[t] \in Queen
    BY <1>2, OfQueen
  <2> QED BY <1>1, <2>1, Constants DEF Queen
<1> QED BY <1>2, <1>3, PromotePurses

LEMMA GiveXpPurses ==
  ASSUME JInv, NEW t \in Ids, GiveXp(t)
  PROVE  Purses'
<1>1. PICK level : level = Larger(queen[t].level, LevelFor(queen[t].xp + 1))
  OBVIOUS
<1>2. PICK q : q = [queen[t] EXCEPT !.xp = @ + 1, !.level = level,
                      !.hp = IF level > queen[t].level THEN HpOf[level] ELSE @]
  OBVIOUS
<1>3. queen[t] # NoQueen /\ Promote(t, q)
  BY <1>1, <1>2 DEF GiveXp, Live
<1>4. queen[t] \in Queen /\ queen[t].level \in Levels /\ queen[t].xp + 1 \in Nat
  BY <1>3, OfQueen
<1>5. level \in Nat
  <2>1. LevelFor(queen[t].xp + 1) \in Levels
    BY <1>4, LevelReached
  <2> QED BY <1>1, <1>4, <2>1, Constants DEF Larger
<1>6. q.level \in Nat
  BY <1>2, <1>4, <1>5 DEF Queen
<1> QED BY <1>3, <1>6, PromotePurses

LEMMA SeasonWipePurses ==
  ASSUME JInv, SeasonWipe
  PROVE  Purses'
<1>1. player' = [u \in Ids |-> IF u \in Users THEN [player[u] EXCEPT !.ready = DailyAnts] ELSE player[u]]
  BY DEF SeasonWipe
<1>2. ASSUME NEW u \in Ids PROVE player'[u] \in Purse
  <2>1. PICK p : p = player[u]
    OBVIOUS
  <2>2. PICK q : q = [p EXCEPT !.ready = DailyAnts]
    OBVIOUS
  <2>3. player'[u] = q \/ player'[u] = p
    BY <1>1, <2>1, <2>2
  <2>4. p \in Purse /\ DailyAnts \in Nat
    BY <2>1, OfPurse, ColonyAssumption
  <2>5. q \in Purse
    BY <2>2, <2>4 DEF Purse
  <2> QED BY <2>3, <2>4, <2>5
<1> QED BY <1>1, <1>2 DEF Purses

LEMMA SpawnNpcPurses ==
  ASSUME JInv, NEW n \in Npcs, SpawnNpc(n)
  PROVE  Purses'
<1>1. PICK q : q = [ready |-> 0, credits |-> 0, lifetime |-> 0, rivals |-> 0, guards |-> 0]
  OBVIOUS
<1>2. n \in Ids /\ player' = [player EXCEPT ![n] = q]
  BY <1>1 DEF SpawnNpc, Ids
<1>3. q \in Purse
  BY <1>1 DEF Purse
<1> QED BY <1>2, <1>3, OnePurse

LEMMA ReturnedPurses ==
  ASSUME JInv, NEW u \in Ids, player' = Returned(u)
  PROVE  Purses'
<1>1. PICK n : n = player[u].ready + 1
  OBVIOUS
<1>2. n \in Nat
  BY <1>1, OfPurse
<1>3. player' = [player EXCEPT ![u].ready = n] \/ player' = player
  BY <1>1 DEF Returned
<1> QED BY <1>2, <1>3, SomePurse DEF JInv, Purses

LEMMA UpkeepPurses ==
  ASSUME JInv, Upkeep
  PROVE  Purses'
<1>1. \/ player' = player
      \/ \E u \in Users : /\ player[u].guards > 0
                          /\ \/ player' = [player EXCEPT ![u].guards = 0]
                             \/ player' = [player EXCEPT ![u].guards = @ - 1]
  BY DEF Upkeep
<1>2. ASSUME NEW u \in Users, player[u].guards > 0,
             \/ player' = [player EXCEPT ![u].guards = 0]
             \/ player' = [player EXCEPT ![u].guards = @ - 1]
      PROVE  Purses'
  <2>1. u \in Ids
    BY Constants
  <2>2. PICK n : n \in {0, player[u].guards - 1} /\ player' = [player EXCEPT ![u].guards = n]
    BY <1>2
  <2>3. n \in Nat
    BY <1>2, <2>1, <2>2, OfPurse
  <2> QED BY <2>1, <2>2, <2>3, SomePurse
<1> QED BY <1>1, <1>2 DEF JInv, Purses

-----------------------------------------------------------------------------
(* The second half of the invariant. *)

JRest == SoundQueens(queen) /\ Purses /\ NpcsWhole /\ Books /\ Ticks /\ Healthy

LEMMA RestOf == JInv <=> IInv /\ JRest
BY DEF JInv, JRest, Purses

(* What a step must keep besides queens, pools and phases.                 *)
Booked == Books' /\ \A n \in Npcs : n \notin gifted'

LEMMA BookedBy ==
  ASSUME JInv, peak' \in [Users -> 0 .. Cap], counts' \in [Ids -> Nat], skipped' \subseteq Users,
         gifted' \subseteq gifted, ops' = ops \/ (ops < MaxOps /\ ops' = ops + 1),
         ticks' = ticks \/ (ticks < MaxTicks /\ ticks' = ticks + 1)
  PROVE  Booked
<1>1. Books /\ MaxOps \in Nat /\ MaxTicks \in Nat /\ \A n \in Npcs : n \notin gifted
  BY ColonyAssumption DEF JInv, NpcsWhole
<1>2. ops' \in 0 .. MaxOps
  BY <1>1 DEF Books
<1>3. ticks' \in 0 .. MaxTicks
  BY <1>1 DEF Books
<1>4. gifted' \subseteq Ids
  BY <1>1 DEF Books
<1> QED BY <1>1, <1>2, <1>3, <1>4 DEF Booked, Books

LEMMA QuietBooks ==
  ASSUME JInv, UNCHANGED <<peak, counts, skipped, gifted>>,
         ops' = ops \/ (ops < MaxOps /\ ops' = ops + 1), ticks' = ticks
  PROVE  Booked
<1>1. peak \in [Users -> 0 .. Cap] /\ counts \in [Ids -> Nat] /\ skipped \subseteq Users
  BY DEF JInv, Books
<1> QED BY <1>1, BookedBy

(* A handler runs between ticks, when every live queen has hp.             *)
LEMMA HandledKeeps ==
  ASSUME JInv, tick = Rest, tick' = tick, ticks' = ticks, Fare(queen'), Purses', Booked
  PROVE  JRest'
<1>1. SoundQueens(queen')
  BY DEF Fare, Fares, SoundQueens
<1>2. NpcsWhole'
  BY ColonyAssumption DEF Fare, Fares, NpcsWhole, Booked, Ids
<1>3. Ticks'
  BY DEF JInv, Ticks
<1>4. Healthy'
  <2>1. tick.at = "idle" /\ tick'.at = "idle"
    BY DEF Rest
  <2>2. \A u \in Ids : ~Spent(queen'[u])
    BY <2>1 DEF JInv, Healthy, Fare, Fares
  <2> QED BY <2>1, <2>2 DEF Healthy
<1> QED BY <1>1, <1>2, <1>3, <1>4 DEF JRest, Booked

(* From one phase to the next, up to the scans.                            *)
Phases == {"fight", "clash", "capture", "expire", "upkeep", "meet"}

LEMMA PhaseKeeps ==
  ASSUME JInv, NEW from, NEW to \in Phases, InTick(from, to), from # "idle" \/ ticks < MaxTicks,
         Hold(queen'), Purses', Booked
  PROVE  JRest'
<1>1. SoundQueens(queen')
  BY DEF Hold, Holds, SoundQueens
<1>2. NpcsWhole'
  BY ColonyAssumption DEF Hold, Holds, NpcsWhole, Booked, Ids
<1>3. tick'.at = to /\ tick'.list = tick.list /\ tick.at = from /\ ticks' = ticks
  BY DEF InTick, JInv, IInv, Typed, Ticking
<1>4. Ticks'
  BY <1>3 DEF JInv, Ticks, Phases
<1>5. Healthy'
  BY <1>3 DEF Healthy, Phases
<1> QED BY <1>1, <1>2, <1>4, <1>5 DEF JRest, Booked

LEMMA StillHold ==
  ASSUME JInv, queen' = queen
  PROVE  Hold(queen')
BY SameFares, FareHolds

LEMMA StillPurses ==
  ASSUME JInv, player' = player
  PROVE  Purses'
BY DEF JInv, Purses

(* The handlers that leave peaks and counts alone.                         *)
LEMMA PlainKeeps ==
  ASSUME JInv, NEW t \in Ids,
         PlaceAnt(t) \/ DailyRefill(t) \/ GiveAnts(t) \/ GiveCredits(t) \/ HealQueen(t) \/ LevelDown(t)
  PROVE  JRest'
<1>1. /\ tick = Rest /\ tick' = tick /\ ticks' = ticks /\ ops < MaxOps /\ ops' = ops + 1
      /\ UNCHANGED <<peak, counts, skipped, gifted>>
  BY DEF PlaceAnt, DailyRefill, GiveAnts, GiveCredits, HealQueen, LevelDown, Admin, Handler, Same, ghosts
<1>2. Booked
  BY <1>1, QuietBooks
<1>3. CASE PlaceAnt(t) \/ DailyRefill(t) \/ GiveAnts(t) \/ GiveCredits(t)
  <2>1. queen' = queen
    BY <1>3 DEF PlaceAnt, DailyRefill, GiveAnts, GiveCredits, Same
  <2>2. Purses' /\ Fare(queen')
    BY <1>3, <2>1, PoolPurses, StillFare
  <2> QED BY <1>1, <1>2, <2>2, HandledKeeps
<1>4. CASE HealQueen(t) \/ LevelDown(t)
  <2>1. player' = player
    BY <1>4 DEF HealQueen, LevelDown, Same
  <2>2. Purses' /\ Fare(queen')
    BY <1>4, <2>1, StillPurses, HealQueenFares, LevelDownFares
  <2> QED BY <1>1, <1>2, <2>2, HandledKeeps
<1> QED BY <1>3, <1>4

LEMMA PlaceQueenRest ==
  ASSUME JInv, NEW t \in Users, PlaceQueen(t)
  PROVE  JRest'
<1>1. /\ tick = Rest /\ tick' = tick /\ ticks' = ticks /\ ops < MaxOps /\ ops' = ops + 1
      /\ UNCHANGED <<player, peak, counts, skipped>> /\ gifted' \subseteq gifted
  BY DEF PlaceQueen, Handler, Same
<1>2. Booked
  BY <1>1, BookedBy DEF JInv, Books
<1>3. Purses' /\ Fare(queen')
  BY <1>1, StillPurses, PlaceQueenFares
<1> QED BY <1>1, <1>2, <1>3, HandledKeeps

LEMMA BuyRest ==
  ASSUME JInv, NEW t \in Users, NEW item \in Items, Buy(t, item)
  PROVE  JRest'
<1>1. /\ tick = Rest /\ tick' = tick /\ ticks' = ticks /\ ops < MaxOps /\ ops' = ops + 1
      /\ UNCHANGED <<peak, counts, skipped, gifted>>
  BY DEF Buy, Handler, Same, ghosts
<1>2. Booked
  BY <1>1, QuietBooks
<1> QED BY <1>1, <1>2, BuyFares, BuyPurses, HandledKeeps

LEMMA LoginBackfillRest ==
  ASSUME JInv, NEW t \in Users, LoginBackfill(t)
  PROVE  JRest'
<1>1. /\ tick = Rest /\ tick' = tick /\ ticks' = ticks /\ ops < MaxOps /\ ops' = ops + 1
      /\ UNCHANGED <<queen, player, counts, gifted>> /\ skipped' \subseteq skipped
      /\ peak' = [peak EXCEPT ![t] = queen[t].level] /\ queen[t] # NoQueen
  BY DEF LoginBackfill, Handler, Same
<1>2. queen[t].level \in 0 .. Cap
  BY <1>1, OfQueen, Constants
<1>3. peak' \in [Users -> 0 .. Cap] /\ counts' \in [Ids -> Nat] /\ skipped' \subseteq Users
  BY <1>1, <1>2 DEF JInv, Books
<1>4. Booked
  BY <1>1, <1>3, BookedBy
<1> QED BY <1>1, <1>4, StillFare, StillPurses, HandledKeeps

LEMMA SeasonWipeRest ==
  ASSUME JInv, SeasonWipe
  PROVE  JRest'
<1>1. /\ tick = Rest /\ tick' = tick /\ ticks' = ticks /\ ops < MaxOps /\ ops' = ops + 1
      /\ UNCHANGED <<peak, counts, skipped>> /\ gifted' = {}
  BY DEF SeasonWipe, Handler, Same
<1>2. Booked
  BY <1>1, BookedBy DEF JInv, Books
<1> QED BY <1>1, <1>2, SeasonWipeFares, SeasonWipePurses, HandledKeeps

LEMMA LevelUpRest ==
  ASSUME JInv, NEW t \in Ids, LevelUp(t)
  PROVE  JRest'
<1>1. /\ tick = Rest /\ tick' = tick /\ ticks' = ticks /\ ops < MaxOps /\ ops' = ops + 1
      /\ UNCHANGED <<peak, counts, gifted>>
      /\ skipped' = skipped \/ (t \in Users /\ skipped' = skipped \cup {t})
  BY DEF LevelUp, Admin, Handler, Same
<1>2. Booked
  BY <1>1, BookedBy DEF JInv, Books
<1>3. Purses'
  BY PoolPurses
<1> QED BY <1>1, <1>2, <1>3, LevelUpFares, HandledKeeps

(* A peak goes no higher than the queens it follows.                       *)
LEMMA PeaksBounded ==
  ASSUME JInv, Fare(queen'), NEW S \in SUBSET Users, NEW level,
         \A u \in S : queen'[u] # NoQueen /\ level[u] = queen'[u].level, Unlock(S, level)
  PROVE  peak' \in [Users -> 0 .. Cap] /\ skipped' \subseteq Users
<1>1. /\ peak' = [u \in Users |-> IF u \in S THEN Larger(peak[u], level[u]) ELSE peak[u]]
      /\ skipped' = skipped \ S
  BY DEF Unlock, Unlocked
<1>2. ASSUME NEW u \in Users PROVE peak'[u] \in 0 .. Cap
  <2>1. peak[u] \in 0 .. Cap
    BY DEF JInv, Books
  <2>2. CASE u \in S
    <3>1. SoundQueen(queen'[u])
      BY <2>2, Constants DEF Fare, Fares
    <3>2. level[u] \in Levels
      BY <2>2, <3>1 DEF SoundQueen, Queen
    <3> QED BY <1>1, <2>1, <2>2, <3>2, Constants DEF Larger
  <2>3. CASE u \notin S
    BY <1>1, <2>1, <2>3
  <2> QED BY <2>2, <2>3
<1> QED BY <1>1, <1>2 DEF JInv, Books

LEMMA PromoteBooks ==
  ASSUME JInv, NEW t \in Ids, NEW q, Promote(t, q), q # NoQueen, Fare(queen'),
         ops < MaxOps, ops' = ops + 1, ticks' = ticks
  PROVE  Booked
<1>1. PICK S, level : S = {t} \cap Users /\ level = [u \in S |-> q.level]
  OBVIOUS
<1>2. Unlock(S, level) /\ queen' = [queen EXCEPT ![t] = q] /\ UNCHANGED <<counts, gifted>>
  BY <1>1 DEF Promote, Same
<1>3. \A u \in S : queen'[u] # NoQueen /\ level[u] = queen'[u].level
  BY <1>1, <1>2 DEF JInv, SoundQueens
<1>4. peak' \in [Users -> 0 .. Cap] /\ skipped' \subseteq Users
  BY <1>1, <1>2, <1>3, PeaksBounded
<1> QED BY <1>2, <1>4, BookedBy DEF JInv, Books

LEMMA SetLevelRest ==
  ASSUME JInv, NEW t \in Ids, NEW level \in Levels, SetLevel(t, level)
  PROVE  JRest'
<1>1. PICK q : q = [queen[t] EXCEPT !.level = level, !.xp = XpOf[level],
                                    !.hp = Smaller(@, HpOf[level])]
  OBVIOUS
<1>2. /\ tick = Rest /\ tick' = tick /\ ticks' = ticks /\ ops < MaxOps /\ ops' = ops + 1
      /\ queen[t] # NoQueen /\ Promote(t, q)
  BY <1>1 DEF SetLevel, Live, Admin, Handler
<1>3. q # NoQueen
  <2>1. queen[t] \in Queen
    BY <1>2, OfQueen
  <2> QED BY <1>1, <2>1 DEF Queen, NoQueen
<1>4. Fare(queen')
  BY SetLevelFares
<1>5. Booked
  BY <1>2, <1>3, <1>4, PromoteBooks
<1> QED BY <1>2, <1>4, <1>5, SetLevelPurses, HandledKeeps

LEMMA GiveXpRest ==
  ASSUME JInv, NEW t \in Ids, GiveXp(t)
  PROVE  JRest'
<1>1. PICK level : level = Larger(queen[t].level, LevelFor(queen[t].xp + 1))
  OBVIOUS
<1>2. PICK q : q = [queen[t] EXCEPT !.xp = @ + 1, !.level = level,
                      !.hp = IF level > queen[t].level THEN HpOf[level] ELSE @]
  OBVIOUS
<1>3. /\ tick = Rest /\ tick' = tick /\ ticks' = ticks /\ ops < MaxOps /\ ops' = ops + 1
      /\ queen[t] # NoQueen /\ Promote(t, q)
  BY <1>1, <1>2 DEF GiveXp, Live, Admin, Handler
<1>4. q # NoQueen
  <2>1. queen[t] \in Queen
    BY <1>3, OfQueen
  <2> QED BY <1>2, <2>1 DEF Queen, NoQueen
<1>5. Fare(queen')
  BY GiveXpFares
<1>6. Booked
  BY <1>3, <1>4, <1>5, PromoteBooks
<1> QED BY <1>3, <1>5, <1>6, GiveXpPurses, HandledKeeps

LEMMA SpawnNpcRest ==
  ASSUME JInv, NEW n \in Npcs, SpawnNpc(n)
  PROVE  JRest'
<1>1. /\ tick = Rest /\ tick' = tick /\ ticks' = ticks /\ ops < MaxOps /\ ops' = ops + 1
      /\ UNCHANGED <<peak, counts, skipped, gifted>>
  BY DEF SpawnNpc, Admin, Handler, Same, ghosts
<1>2. Booked
  BY <1>1, QuietBooks
<1> QED BY <1>1, <1>2, SpawnNpcFares, SpawnNpcPurses, HandledKeeps

(* An NPC that is there is alive, so it is never gifted.                   *)
LEMMA GiftRest ==
  ASSUME JInv, NEW t \in Ids, Gift(t)
  PROVE  JRest'
<1>1. /\ tick = Rest /\ tick' = tick /\ ticks' = ticks /\ ops < MaxOps /\ ops' = ops + 1
      /\ UNCHANGED <<queen, player, peak, counts, skipped>>
      /\ Present(t) /\ gifted' = IF Live(t) THEN gifted ELSE gifted \cup {t}
  BY DEF Gift, Admin, Handler, Same
<1>2. Booked
  <2>1. Books'
    BY <1>1, ColonyAssumption DEF JInv, Books
  <2>2. \A n \in Npcs : n \notin gifted'
    BY <1>1, ColonyAssumption DEF JInv, NpcsWhole, Present, Live
  <2> QED BY <2>1, <2>2 DEF Booked
<1> QED BY <1>1, <1>2, StillFare, StillPurses, HandledKeeps

LEMMA FlushBooks ==
  ASSUME JInv, NEW qs, NEW ps, NEW due \in [Ids -> Nat], Fare(qs), Flush(qs, ps, due), Fare(queen')
  PROVE  peak' \in [Users -> 0 .. Cap] /\ skipped' \subseteq Users
<1> DEFINE after == [u \in Ids |-> IF Gains(qs, u) THEN Grown(qs[u], due[u]) ELSE qs[u]]
           risen == {u \in Users : Gains(qs, u) /\ after[u].level > qs[u].level}
           level == [u \in Users |-> IF u \in risen THEN after[u].level ELSE 0]
<1>1. queen' = after /\ Unlock(risen, level)
  BY DEF Flush, Gains
<1>2. risen \in SUBSET Users
  OBVIOUS
<1>3. ASSUME NEW u \in risen PROVE after[u] # NoQueen /\ level[u] = after[u].level
  <2>1. SoundQueen(qs[u]) /\ due[u] \in Nat
    BY Constants DEF Fare, Fares, Gains
  <2>2. SoundQueen(Grown(qs[u], due[u]))
    BY <2>1, GrownSound
  <2>3. after[u] = Grown(qs[u], due[u])
    BY Constants
  <2> QED BY <2>2, <2>3, Sound
<1> HIDE DEF after, risen, level
<1> QED BY <1>1, <1>2, <1>3, PeaksBounded

LEMMA KillBooks ==
  ASSUME JInv, NEW l \in Ids, NEW k \in Ids \cup {Nobody}, KillQueen(l, k)
  PROVE  /\ peak' \in [Users -> 0 .. Cap] /\ skipped' \subseteq Users /\ gifted' \subseteq gifted
<1>0. peak \in [Users -> 0 .. Cap] /\ skipped \subseteq Users
  BY DEF JInv, Books
<1>1. CASE ~Live(l)
  BY <1>0, <1>1 DEF KillQueen
<1>2. CASE Live(l)
  <2>1. gifted' = gifted \ {l}
    BY <1>2 DEF KillQueen
  <2>2. CASE k = Nobody
    <3>1. UNCHANGED <<peak, skipped>>
      BY <1>2, <2>2 DEF KillQueen
    <3> QED BY <1>0, <2>1, <3>1
  <2>3. CASE k # Nobody
    <3>1. PICK qs : qs = Felled(l, k)
      OBVIOUS
    <3>2. PICK ps : ps = Paid(l, k)
      OBVIOUS
    <3>3. PICK due : due = [xpq EXCEPT ![k] = @ + KillXp]
      OBVIOUS
    <3>4. due \in [Ids -> Nat]
      BY <2>3, <3>3, Constants DEF JInv, IInv, Typed
    <3>5. Flush(qs, ps, due)
      BY <1>2, <2>3, <3>1, <3>2, <3>3 DEF KillQueen
    <3>6. Fare(qs) /\ Fare(queen')
      BY <1>2, <3>1, FelledFares, KillFares
    <3>7. peak' \in [Users -> 0 .. Cap] /\ skipped' \subseteq Users
      BY <3>4, <3>5, <3>6, FlushBooks
    <3> QED BY <2>1, <3>7
  <2> QED BY <2>2, <2>3
<1> QED BY <1>1, <1>2

LEMMA DeleteQueenRest ==
  ASSUME JInv, NEW t \in Ids, DeleteQueen(t)
  PROVE  JRest'
<1>1. /\ tick = Rest /\ tick' = tick /\ ticks' = ticks /\ ops < MaxOps /\ ops' = ops + 1
      /\ KillQueen(t, Nobody) /\ counts' = counts
  BY DEF DeleteQueen, Admin, Handler, Same
<1>2. Fare(queen') /\ Purses'
  BY <1>1, KillFares DEF Purses
<1>3. peak' \in [Users -> 0 .. Cap] /\ skipped' \subseteq Users /\ gifted' \subseteq gifted
  BY <1>1, KillBooks
<1>4. Booked
  BY <1>1, <1>3, BookedBy DEF JInv, Books
<1> QED BY <1>1, <1>2, <1>4, HandledKeeps

-----------------------------------------------------------------------------
(* The phases of a tick. *)

LEMMA DedupRest ==
  ASSUME JInv, Dedup
  PROVE  JRest'
<1>1. /\ InTick("idle", "fight") /\ ticks < MaxTicks
      /\ UNCHANGED <<queen, player, peak, counts, skipped, gifted, ops, ticks>>
  BY DEF Dedup, InTick, Same, ghosts
<1>2. Booked
  BY <1>1, QuietBooks
<1>3. "fight" \in Phases
  BY DEF Phases
<1> QED BY <1>1, <1>2, <1>3, StillHold, StillPurses, PhaseKeeps

LEMMA FightRest ==
  ASSUME JInv, Fight
  PROVE  JRest'
<1>1. /\ InTick("fight", "clash")
      /\ UNCHANGED <<player, peak, counts, skipped, gifted, ops, ticks>>
  BY DEF Fight, InTick, Same, ghosts
<1>2. Booked
  BY <1>1, QuietBooks
<1>3. "clash" \in Phases /\ "fight" # "idle"
  BY DEF Phases
<1> QED BY <1>1, <1>2, <1>3, FightHolds, StillPurses, PhaseKeeps

LEMMA MovedRest ==
  ASSUME JInv, Clash \/ Capture \/ Expire
  PROVE  JRest'
<1>1. /\ queen' = queen /\ UNCHANGED <<peak, counts, skipped, gifted, ops, ticks>>
      /\ InTick("clash", "capture") \/ InTick("capture", "expire") \/ InTick("expire", "upkeep")
      /\ player' = player \/ \E u \in Ids : player' = Returned(u)
  BY DEF Clash, Capture, Expire, InTick, Same, ghosts
<1>2. Booked
  BY <1>1, QuietBooks
<1>3. Purses'
  BY <1>1, StillPurses, ReturnedPurses
<1>4. /\ "capture" \in Phases /\ "expire" \in Phases /\ "upkeep" \in Phases
      /\ "clash" # "idle" /\ "capture" # "idle" /\ "expire" # "idle"
  BY DEF Phases
<1> QED BY <1>1, <1>2, <1>3, <1>4, StillHold, PhaseKeeps

LEMMA UpkeepRest ==
  ASSUME JInv, Upkeep
  PROVE  JRest'
<1>1. /\ InTick("upkeep", "meet") /\ counts' = [u \in Ids |-> Fielded(u)]
      /\ UNCHANGED <<peak, skipped, gifted, ops, ticks>>
  BY DEF Upkeep, InTick, Same, ghosts
<1>2. counts' \in [Ids -> Nat]
  <2>1. workers \in [Ids -> Nat] /\ brutes \in [Ids -> Nat]
    BY DEF JInv, IInv, Typed
  <2>2. \A u \in Ids : Fielded(u) \in Nat
    BY <2>1 DEF Fielded
  <2> QED BY <1>1, <2>2
<1>3. Booked
  BY <1>1, <1>2, BookedBy DEF JInv, Books
<1>4. "meet" \in Phases /\ "upkeep" # "idle"
  BY DEF Phases
<1>5. Hold(queen')
  BY UpkeepFares, FareHolds
<1> QED BY <1>1, <1>3, <1>4, <1>5, UpkeepPurses, PhaseKeeps

LEMMA ScanRest ==
  ASSUME JInv, Meet \/ Deaths
  PROVE  JRest'
<1>1. /\ UNCHANGED <<queen, player, peak, counts, skipped, gifted, ops, ticks>>
  BY DEF Meet, Deaths, Same, ghosts
<1>2. Booked
  BY <1>1, QuietBooks
<1>3. SoundQueens(queen') /\ Purses' /\ NpcsWhole'
  BY <1>1 DEF JInv, NpcsWhole, Purses
<1>4. CASE Meet
  <2>1. tick.at = "meet"
    BY <1>4 DEF Meet
  <2> DEFINE live == {u \in Ids : Live(u)}
  <2>2. PICK index \in Injection(live, 1 .. Cardinality(live)),
               touching \in SUBSET {p \in SUBSET live : Cardinality(p) = 2} :
          tick' = [at |-> "collide",
                   list |-> {k \in [turn : Range(index), loser : live, winner : live] :
                               /\ {k.loser, k.winner} \in touching
                               /\ Loses(k.loser, k.winner, index)
                               /\ k.turn = Smaller(index[k.loser], index[k.winner])}]
    BY <1>4 DEF Meet
  <2>3. Range(index) \subseteq Nat
    <3>1. index \in [live -> 1 .. Cardinality(live)]
      BY DEF Injection, IsInjective
    <3>2. 1 .. Cardinality(live) \subseteq Nat
      OBVIOUS
    <3> QED BY <3>1, <3>2 DEF Range
  <2>4. \A k \in tick'.list : k.turn \in Range(index)
    BY <2>2
  <2>5. tick'.at = "collide" /\ \A k \in tick'.list : k.turn \in Nat
    BY <2>2, <2>3, <2>4
  <2> HIDE DEF live
  <2>6. Ticks'
    BY <1>1, <2>1, <2>5 DEF JInv, Ticks
  <2>7. Healthy'
    BY <2>5 DEF Healthy
  <2> QED BY <1>2, <1>3, <2>6, <2>7 DEF JRest, Booked
<1>5. CASE Deaths
  <2>1. /\ tick.at = "collide"
        /\ tick' = [at |-> "deaths",
              list |-> {[turn |-> 0, loser |-> u, winner |-> queen[u].attacker] :
                          u \in {v \in Ids : Live(v) /\ queen[v].hp <= 0}}]
    BY <1>5 DEF Deaths
  <2>2. tick'.at = "deaths" /\ \A k \in tick'.list : k.turn \in Nat
    BY <2>1
  <2>3. Ticks'
    BY <1>1, <2>1, <2>2 DEF JInv, Ticks
  <2>4. ASSUME NEW u \in Ids, Spent(queen[u]) PROVE \E k \in tick'.list : k.loser = u
    <3>1. Live(u) /\ queen[u].hp <= 0
      BY <2>4 DEF Live, Spent
    <3>2. PICK k : k = [turn |-> 0, loser |-> u, winner |-> queen[u].attacker]
      OBVIOUS
    <3>3. k \in tick'.list /\ k.loser = u
      BY <2>1, <3>1, <3>2
    <3> QED BY <3>3
  <2>5. Healthy'
    BY <1>1, <2>2, <2>4 DEF Healthy
  <2> QED BY <1>2, <1>3, <2>3, <2>5 DEF JRest, Booked
<1> QED BY <1>4, <1>5

(* Whoever is down for a kill is no longer alive after it.                 *)
LEMMA KillNextRest ==
  ASSUME JInv, KillNext
  PROVE  JRest'
<1>1. PICK k \in tick.list : /\ KillQueen(k.loser, k.winner)
                             /\ tick' = [tick EXCEPT !.list = @ \ {k}]
  BY DEF KillNext
<1>2. /\ UNCHANGED <<counts, ops, ticks>> /\ tick.at \in {"collide", "deaths"}
      /\ DOMAIN tick = {"at", "list"} /\ k.loser \in Ids /\ k.winner \in Ids \cup {Nobody}
  BY DEF KillNext, Same, JInv, IInv, Typed, Ticking
<1>3. tick'.at = tick.at /\ tick'.list = tick.list \ {k}
  BY <1>1, <1>2
<1>4. Fare(queen') /\ Purses' /\ ~Spent(queen'[k.loser])
  BY <1>1, <1>2, KillFares DEF Purses
<1>5. Booked
  <2>1. peak' \in [Users -> 0 .. Cap] /\ skipped' \subseteq Users /\ gifted' \subseteq gifted
    BY <1>1, <1>2, KillBooks
  <2> QED BY <1>2, <2>1, BookedBy DEF JInv, Books
<1>6. SoundQueens(queen')
  BY <1>4 DEF Fare, Fares, SoundQueens
<1>7. NpcsWhole'
  BY <1>4, <1>5, ColonyAssumption DEF Fare, Fares, NpcsWhole, Booked, Ids
<1>8. Ticks'
  BY <1>2, <1>3 DEF JInv, Ticks
<1>9. Healthy'
  <2> SUFFICES ASSUME tick.at = "deaths", NEW u \in Ids, Spent(queen'[u])
               PROVE  \E j \in tick'.list : j.loser = u
    BY <1>2, <1>3 DEF Healthy
  <2>1. Spent(queen[u]) /\ u # k.loser
    BY <1>4 DEF Fare, Fares
  <2>2. PICK j \in tick.list : j.loser = u
    BY <2>1 DEF JInv, Healthy
  <2> QED BY <1>3, <2>1, <2>2
<1> QED BY <1>4, <1>5, <1>6, <1>7, <1>8, <1>9 DEF JRest, Booked

LEMMA EndTickRest ==
  ASSUME JInv, EndTick
  PROVE  JRest'
<1>1. /\ tick.at = "deaths" /\ tick.list = {} /\ tick' = Rest /\ ticks' = ticks + 1
      /\ Flush(queen, player, xpq) /\ UNCHANGED <<counts, gifted, ops>>
  BY DEF EndTick, Same
<1>2. ticks < MaxTicks
  BY <1>1 DEF JInv, Ticks
<1>3. xpq \in [Ids -> Nat] /\ player \in [Ids -> Purse] /\ Fare(queen)
  BY SameFares DEF JInv, IInv, Typed
<1>4. Fare(queen') /\ Purses'
  BY <1>1, <1>3, FlushFares DEF Purses
<1>5. peak' \in [Users -> 0 .. Cap] /\ skipped' \subseteq Users
  BY <1>1, <1>3, <1>4, FlushBooks
<1>6. Booked
  BY <1>1, <1>2, <1>5, BookedBy DEF JInv, Books
<1>7. SoundQueens(queen')
  BY <1>4 DEF Fare, Fares, SoundQueens
<1>8. NpcsWhole'
  BY <1>4, <1>6, ColonyAssumption DEF Fare, Fares, NpcsWhole, Booked, Ids
<1>9. tick'.at = "idle" /\ tick'.list = {}
  BY <1>1 DEF Rest
<1>10. Ticks'
  BY <1>9 DEF Ticks
<1>11. Healthy'
  <2>1. \A u \in Ids : ~Spent(queen[u])
    BY <1>1 DEF JInv, Healthy
  <2> QED BY <1>4, <1>9, <2>1 DEF Healthy, Fare, Fares
<1> QED BY <1>4, <1>6, <1>7, <1>8, <1>10, <1>11 DEF JRest, Booked

-----------------------------------------------------------------------------
(* The strengthened invariant and its theorems. *)

LEMMA InitRest ==
  ASSUME Init
  PROVE  JRest
<1>0. IInv
  BY InitInv
<1>1. PICK start \in [Users -> Starts], stock \in [Users -> Stock], field \in [Users -> Field] :
        /\ queen = [u \in Ids |->
             IF u \in Users /\ start[u] # 0
             THEN [NewQueen EXCEPT !.level = start[u], !.xp = XpOf[start[u]], !.hp = HpOf[start[u]]]
             ELSE NoQueen]
        /\ peak = start
        /\ land = {u \in Users : start[u] # 0}
        /\ starters = [u \in Users |-> IF start[u] >= Shop THEN 1 ELSE 0]
        /\ player = [u \in Ids |->
             [ready |-> IF u \in Users THEN stock[u] ELSE 0,
              credits |-> IF u \in Users THEN stock[u] ELSE 0,
              lifetime |-> 0, rivals |-> 0, guards |-> 0]]
        /\ brutes = [u \in Ids |-> IF u \in Users THEN Smaller(field[u], start[u]) ELSE 0]
  BY DEF Init
<1>2. /\ counts = [u \in Ids |-> 0] /\ tick = Rest /\ skipped = {} /\ gifted = {}
      /\ ops = SumFunction(brutes) /\ ops <= MaxOps /\ ticks = 0
  BY DEF Init
<1>3. /\ Starts \subseteq Levels \cup {0} /\ Stock \subseteq Nat /\ XpOf \in [Levels -> Nat]
      /\ MaxOps \in Nat /\ MaxTicks \in Nat /\ Users \cap Npcs = {}
  BY ColonyAssumption
<1>4. ASSUME NEW u \in Users, start[u] # 0
      PROVE  LET q == [NewQueen EXCEPT !.level = start[u], !.xp = XpOf[start[u]], !.hp = HpOf[start[u]]]
             IN  SoundQueen(q) /\ ~Spent(q) /\ q # NoQueen /\ ~q.dead
  <2>1. PICK level : level = start[u]
    OBVIOUS
  <2>2. PICK q : q = [NewQueen EXCEPT !.level = level, !.xp = XpOf[level], !.hp = HpOf[level]]
    OBVIOUS
  <2>3. level \in Levels
    BY <1>3, <1>4, <2>1
  <2>4. XpOf[level] \in Nat /\ LevelFor(XpOf[level]) = level
    BY <1>3, <2>3, LevelFloor
  <2>5. HpOf[level] \in Nat \ {0}
    BY <2>3, HpBounds
  <2>6. NewQueen \in Queen /\ ~NewQueen.dead /\ NewQueen.shield <= HpOf[Cap]
    BY SoundNew DEF SoundQueen
  <2>7. /\ q \in Queen /\ q.dead = NewQueen.dead /\ q.level = level /\ q.xp = XpOf[level]
        /\ q.hp = HpOf[level] /\ q.shield = NewQueen.shield
    BY <2>2, <2>3, <2>4, <2>5, <2>6 DEF Queen
  <2>8. SoundQueen(q)
    BY <2>4, <2>5, <2>6, <2>7 DEF SoundQueen
  <2>9. ~Spent(q)
    BY <2>5, <2>7 DEF Spent
  <2>10. q # NoQueen
    BY <2>8, Sound
  <2> QED BY <2>1, <2>2, <2>6, <2>7, <2>8, <2>9, <2>10
<1>5. ASSUME NEW u \in Ids
      PROVE  /\ queen[u] = NoQueen \/ (SoundQueen(queen[u]) /\ ~queen[u].dead)
             /\ ~Spent(queen[u])
  <2>1. CASE u \in Users /\ start[u] # 0
    <3>1. PICK q : q = [NewQueen EXCEPT !.level = start[u], !.xp = XpOf[start[u]], !.hp = HpOf[start[u]]]
      OBVIOUS
    <3>2. SoundQueen(q) /\ ~Spent(q) /\ ~q.dead
      BY <1>4, <2>1, <3>1
    <3>3. queen[u] = q
      BY <1>1, <2>1, <3>1
    <3> QED BY <3>2, <3>3
  <2>2. CASE ~(u \in Users /\ start[u] # 0)
    <3>1. queen[u] = NoQueen
      BY <1>1, <2>2
    <3> QED BY <3>1 DEF Spent
  <2> QED BY <2>1, <2>2
<1>6. SoundQueens(queen)
  BY <1>1, <1>5 DEF SoundQueens
<1>7. Purses
  <2>1. ASSUME NEW u \in Ids PROVE player[u] \in Purse
    <3>1. PICK n : n = IF u \in Users THEN stock[u] ELSE 0
      OBVIOUS
    <3>2. player[u] = [ready |-> n, credits |-> n, lifetime |-> 0, rivals |-> 0, guards |-> 0]
      BY <1>1, <3>1
    <3>3. n \in Nat
      BY <1>3, <3>1
    <3> QED BY <3>2, <3>3 DEF Purse
  <2> QED BY <1>1, <2>1 DEF Purses
<1>8. NpcsWhole
  <2>1. Npcs \subseteq Ids
    BY DEF Ids
  <2> QED BY <1>2, <1>5, <2>1 DEF NpcsWhole
<1>9. Books
  <2>1. peak \in [Users -> 0 .. Cap]
    <3>1. Starts \subseteq 0 .. Cap
      BY <1>3, Constants
    <3> QED BY <1>1, <3>1
  <2>2. ops \in 0 .. MaxOps
    <3>1. brutes \in [Ids -> Nat] /\ IsFiniteSet(Ids)
      BY <1>0, FiniteIds DEF IInv, Typed
    <3>2. SumFunction(brutes) \in Nat
      BY <3>1, SumNat
    <3> QED BY <1>2, <1>3, <3>2
  <2> QED BY <1>2, <1>3, <2>1, <2>2 DEF Books
<1>10. Ticks
  BY <1>2 DEF Ticks, Rest
<1>11. Healthy
  BY <1>2, <1>5 DEF Healthy, Rest
<1> QED BY <1>6, <1>7, <1>8, <1>9, <1>10, <1>11 DEF JRest

LEMMA StutterRest == JInv /\ UNCHANGED vars => JRest'
<1> SUFFICES ASSUME JInv, UNCHANGED vars PROVE JRest'
  OBVIOUS
<1>1. UNCHANGED <<queen, player, peak, counts, tick, skipped, gifted, ops, ticks>>
  BY DEF vars
<1> QED BY <1>1 DEF JInv, JRest, Purses, NpcsWhole, Books, Ticks, Healthy

LEMMA NextRest == JInv /\ [Next]_vars => JRest'
<1> SUFFICES ASSUME JInv, [Next]_vars PROVE JRest'
  OBVIOUS
<1>0. Users \subseteq Ids /\ IInv
  BY Constants DEF JInv
<1>1. ASSUME NEW u \in Users, PlaceQueen(u) PROVE JRest'
  BY <1>1, PlaceQueenRest
<1>2. ASSUME NEW u \in Users, PlaceAnt(u) \/ DailyRefill(u) PROVE JRest'
  BY <1>0, <1>2, PlainKeeps
<1>3. ASSUME NEW u \in Users, LoginBackfill(u) PROVE JRest'
  BY <1>3, LoginBackfillRest
<1>4. ASSUME NEW u \in Users, NEW item \in Items, Buy(u, item) PROVE JRest'
  BY <1>4, BuyRest
<1>5. CASE SeasonWipe
  BY <1>5, SeasonWipeRest
<1>6. ASSUME NEW t \in Ids, GiveAnts(t) \/ GiveCredits(t) \/ HealQueen(t) \/ LevelDown(t) PROVE JRest'
  BY <1>6, PlainKeeps
<1>7. ASSUME NEW t \in Ids, LevelUp(t) PROVE JRest'
  BY <1>7, LevelUpRest
<1>8. ASSUME NEW t \in Ids, GiveXp(t) PROVE JRest'
  BY <1>8, GiveXpRest
<1>9. ASSUME NEW t \in Ids, DeleteQueen(t) PROVE JRest'
  BY <1>9, DeleteQueenRest
<1>10. ASSUME NEW t \in Ids, Gift(t) PROVE JRest'
  BY <1>10, GiftRest
<1>11. ASSUME NEW t \in Ids, NEW level \in Levels, SetLevel(t, level) PROVE JRest'
  BY <1>11, SetLevelRest
<1>12. ASSUME NEW n \in Npcs, SpawnNpc(n) PROVE JRest'
  BY <1>12, SpawnNpcRest
<1>13. CASE Dedup
  BY <1>13, DedupRest
<1>14. CASE Fight
  BY <1>14, FightRest
<1>15. CASE Clash \/ Capture \/ Expire
  BY <1>15, MovedRest
<1>16. CASE Upkeep
  BY <1>16, UpkeepRest
<1>17. CASE Meet \/ Deaths
  BY <1>17, ScanRest
<1>18. CASE KillNext
  BY <1>18, KillNextRest
<1>19. CASE EndTick
  BY <1>19, EndTickRest
<1>20. CASE UNCHANGED vars
  BY <1>20, StutterRest
<1> QED
  BY <1>1, <1>2, <1>3, <1>4, <1>5, <1>6, <1>7, <1>8, <1>9, <1>10, <1>11, <1>12, <1>13, <1>14,
     <1>15, <1>16, <1>17, <1>18, <1>19, <1>20 DEF Next

(* What typing and health need is kept by every step as well.              *)
THEOREM FullInvariance == Spec => []JInv
<1>1. Init => JInv
  BY InitInv, InitRest DEF JInv, JRest, Purses
<1>2. JInv /\ [Next]_vars => JInv'
  BY RestOf, NextRest, NextInv DEF JInv, JRest, Purses
<1> QED BY <1>1, <1>2, PTL DEF Spec

(* No message, purchase, grant or wound takes a pool, a purse, an army or  *)
(* a queen out of its bounds: no count goes below zero, no queen has more  *)
(* hp than her level or a shield above the highest.                        *)
THEOREM TypesHold == Spec => []TypeOK
<1>1. JInv => TypeOK
  <2> SUFFICES ASSUME JInv PROVE TypeOK
    OBVIOUS
  <2>1. queen \in [Ids -> Queen \cup {NoQueen}]
    <3>1. queen = [u \in Ids |-> queen[u]] /\ \A u \in Ids : queen[u] = NoQueen \/ SoundQueen(queen[u])
      BY DEF JInv, SoundQueens
    <3>2. \A u \in Ids : queen[u] \in Queen \cup {NoQueen}
      BY <3>1 DEF SoundQueen
    <3> QED BY <3>1, <3>2
  <2>2. \A u \in Ids : queen[u] # NoQueen =>
          queen[u].hp <= HpOf[queen[u].level] /\ queen[u].shield <= HpOf[Cap]
    BY DEF JInv, SoundQueens, SoundQueen
  <2>3. player \in [Ids -> [ready : Nat, credits : Nat, lifetime : Nat, rivals : Nat, guards : Nat]]
    BY DEF JInv, Purse
  <2>4. Books /\ Ticks /\ Typed
    BY DEF JInv, IInv
  <2> QED BY <2>1, <2>2, <2>3, <2>4 DEF TypeOK, Books, Ticks, Typed, Ticking
<1> QED BY <1>1, FullInvariance, PTL

(* Whichever way her xp, level and hp were changed, a live queen has hp    *)
(* between ticks, and the level her xp reaches.                            *)
THEOREM LiveAreSound == Spec => []LiveQueensSound
<1>1. JInv => LiveQueensSound
  <2> SUFFICES ASSUME JInv, tick = Rest, NEW u \in Ids, Live(u)
               PROVE  queen[u].hp > 0 /\ queen[u].level = LevelFor(queen[u].xp)
    BY DEF LiveQueensSound
  <2>1. queen[u] # NoQueen /\ ~queen[u].dead
    BY DEF Live
  <2>2. queen[u].level = LevelFor(queen[u].xp) /\ queen[u].hp \in Nat
    BY <2>1, OfQueen
  <2>3. tick.at = "idle"
    BY DEF Rest
  <2>4. ~Spent(queen[u])
    BY <2>3 DEF JInv, Healthy
  <2> QED BY <2>1, <2>2, <2>4 DEF Spent
<1> QED BY <1>1, FullInvariance, PTL

-----------------------------------------------------------------------------
(* No ant is lost. *)

LEMMA ArmyChanges ==
  ASSUME NEW f \in [Ids -> Nat], NEW g \in [Ids -> Nat], NEW u \in Ids,
         \A v \in Ids \ {u} : f[v] = g[v]
  PROVE  SumFunction(g) = SumFunction(f) + (g[u] - f[u])
<1>1. IsFiniteSet(Ids)
  BY FiniteIds
<1> QED BY <1>1, SumChanges, Zenon

LEMMA SumLoses ==
  ASSUME NEW f \in [Ids -> Nat], NEW u \in Ids, f[u] > 0, NEW g, g = [f EXCEPT ![u] = @ - 1]
  PROVE  g \in [Ids -> Nat] /\ SumFunction(g) = SumFunction(f) - 1
<1>1. g \in [Ids -> Nat] /\ g[u] = f[u] - 1 /\ \A v \in Ids \ {u} : f[v] = g[v]
  OBVIOUS
<1>2. IsFiniteSet(Ids) /\ SumFunction(f) \in Nat
  BY FiniteIds, SumNat
<1>3. SumFunction(g) = SumFunction(f) + (g[u] - f[u])
  BY <1>1, ArmyChanges, Zenon
<1>4. f[u] \in Nat
  OBVIOUS
<1> QED BY <1>1, <1>2, <1>3, <1>4

LEMMA SumGains ==
  ASSUME NEW f \in [Ids -> Nat], NEW u \in Ids, NEW g, g = [f EXCEPT ![u] = @ + 1]
  PROVE  g \in [Ids -> Nat] /\ SumFunction(g) = SumFunction(f) + 1
<1>1. g \in [Ids -> Nat] /\ g[u] = f[u] + 1 /\ \A v \in Ids \ {u} : f[v] = g[v]
  OBVIOUS
<1>2. IsFiniteSet(Ids) /\ SumFunction(f) \in Nat
  BY FiniteIds, SumNat
<1>3. SumFunction(g) = SumFunction(f) + (g[u] - f[u])
  BY <1>1, ArmyChanges, Zenon
<1>4. f[u] \in Nat
  OBVIOUS
<1> QED BY <1>1, <1>2, <1>3, <1>4

LEMMA SumMoves ==
  ASSUME NEW f \in [Ids -> Nat], NEW u \in Ids, NEW d \in Ids, u # d, f[u] > 0,
         NEW g, g = [f EXCEPT ![u] = @ - 1, ![d] = @ + 1]
  PROVE  SumFunction(g) = SumFunction(f)
<1>1. PICK m : m = [f EXCEPT ![u] = @ - 1]
  OBVIOUS
<1>2. m \in [Ids -> Nat] /\ SumFunction(m) = SumFunction(f) - 1
  BY <1>1, SumLoses
<1>3. g = [m EXCEPT ![d] = @ + 1]
  BY <1>1
<1>4. SumFunction(g) = SumFunction(m) + 1
  BY <1>2, <1>3, SumGains
<1>5. SumFunction(f) \in Nat
  BY FiniteIds, SumNat
<1> QED BY <1>2, <1>4, <1>5

(* Whoever has an ant on the field has a player to send it back to: an     *)
(* NPC without a queen has none.                                           *)
LEMMA ArmiesPresent ==
  ASSUME JInv, NEW u \in Ids, workers[u] > 0 \/ brutes[u] > 0
  PROVE  Present(u)
<1>1. CASE u \in Users
  BY <1>1 DEF Present
<1>2. CASE u \in Npcs
  <2>1. u \notin gifted
    BY <1>2 DEF JInv, NpcsWhole
  <2>2. Live(u)
    BY <2>1 DEF JInv, IInv, FallenBare
  <2> QED BY <2>2 DEF Present, Live
<1> QED BY <1>1, <1>2 DEF Ids

Ready == [u \in Ids |-> player[u].ready]

LEMMA ReturnedReady ==
  ASSUME JInv, NEW u \in Ids, Present(u), player' = Returned(u)
  PROVE  SumFunction(Ready') = SumFunction(Ready) + 1
<1>1. Ready \in [Ids -> Nat]
  BY OfPurse DEF Ready
<1>2. player' = [player EXCEPT ![u].ready = @ + 1]
  BY DEF Returned
<1>3. Ready' = [Ready EXCEPT ![u] = @ + 1]
  <2>1. player = [v \in Ids |-> player[v]]
    BY DEF JInv
  <2>2. ASSUME NEW v \in Ids PROVE player'[v].ready = IF v = u THEN player[v].ready + 1 ELSE player[v].ready
    <3>1. player[v] \in Purse
      BY OfPurse
    <3> QED BY <1>2, <2>1, <3>1 DEF Purse
  <2> QED BY <2>2 DEF Ready
<1> QED BY <1>1, <1>3, SumGains

(* An ant that changes hands in a clash, is captured under a brute or has  *)
(* lived its span is on the field or back in a pool: none is lost.         *)
THEOREM NoAntIsLost == Spec => WorkersReturn
<1>1. JInv /\ [Next]_vars => [tick.at \in {"clash", "capture", "expire"} => Total' = Total]_vars
  <2> SUFFICES ASSUME JInv, Next, tick.at \in {"clash", "capture", "expire"}
               PROVE  Total' = Total
    OBVIOUS
  <2>1. Clash \/ Capture \/ Expire
    <3>1. tick # Rest /\ tick.at \notin {"idle", "fight", "upkeep", "meet", "collide", "deaths"}
      BY DEF Rest
    <3>2. ~Handler
      BY <3>1 DEF Handler
    <3>3. \A u \in Users : ~PlaceQueen(u) /\ ~PlaceAnt(u) /\ ~LoginBackfill(u) /\ ~DailyRefill(u)
      BY <3>2 DEF PlaceQueen, PlaceAnt, LoginBackfill, DailyRefill
    <3>4. \A u \in Users, item \in Items : ~Buy(u, item)
      BY <3>2 DEF Buy
    <3>5. \A t \in Ids : ~GiveAnts(t) /\ ~GiveCredits(t) /\ ~HealQueen(t) /\ ~LevelUp(t) /\ ~LevelDown(t)
      BY <3>2 DEF GiveAnts, GiveCredits, HealQueen, LevelUp, LevelDown, Admin
    <3>6. \A t \in Ids : ~GiveXp(t) /\ ~DeleteQueen(t) /\ ~Gift(t)
      BY <3>2 DEF GiveXp, DeleteQueen, Gift, Admin
    <3>7. /\ \A t \in Ids, level \in Levels : ~SetLevel(t, level)
          /\ \A n \in Npcs : ~SpawnNpc(n)
      BY <3>2 DEF SetLevel, SpawnNpc, Admin
    <3>8. ~SeasonWipe /\ ~Dedup /\ ~Fight /\ ~Upkeep
      BY <3>1, <3>2 DEF SeasonWipe, Dedup, Fight, Upkeep, InTick
    <3>9. ~Meet /\ ~KillNext /\ ~Deaths /\ ~EndTick
      BY <3>1 DEF Meet, KillNext, Deaths, EndTick
    <3> QED BY <3>3, <3>4, <3>5, <3>6, <3>7, <3>8, <3>9 DEF Next
  <2>2. /\ workers \in [Ids -> Nat] /\ brutes \in [Ids -> Nat] /\ Ready \in [Ids -> Nat]
    BY OfPurse DEF JInv, IInv, Typed, Ready
  <2>3. /\ SumFunction(workers) \in Nat /\ SumFunction(brutes) \in Nat /\ SumFunction(Ready) \in Nat
    BY <2>2, FiniteIds, SumNat
  <2>4. /\ Total = SumFunction(workers) + SumFunction(brutes) + SumFunction(Ready)
        /\ Total' = SumFunction(workers') + SumFunction(brutes') + SumFunction(Ready')
    BY DEF Total, Ready
  <2>5. CASE Clash
    <3>1. /\ Ready' = Ready /\ land' \subseteq Ids
          /\ \/ UNCHANGED <<workers, brutes>>
             \/ \E dom \in land', u \in Ids :
                  /\ u # dom
                  /\ \/ workers[u] > 0 /\ workers' = [workers EXCEPT ![u] = @ - 1, ![dom] = @ + 1]
                        /\ brutes' = brutes
                     \/ brutes[u] > 0 /\ brutes' = [brutes EXCEPT ![u] = @ - 1, ![dom] = @ + 1]
                        /\ workers' = workers
      BY <2>5 DEF Clash, Same, Ready, ants, JInv, IInv, Typed
    <3>2. SumFunction(workers') = SumFunction(workers) /\ SumFunction(brutes') = SumFunction(brutes)
      BY <2>2, <3>1, SumMoves
    <3> QED BY <2>4, <3>1, <3>2
  <2>6. CASE Capture
    <3>1. \/ UNCHANGED <<player, workers, brutes>>
          \/ \E u \in Ids : /\ workers[u] > 0 /\ workers' = [workers EXCEPT ![u] = @ - 1]
                            /\ brutes' = brutes /\ player' = Returned(u)
      BY <2>6 DEF Capture, Same
    <3>2. CASE UNCHANGED <<player, workers, brutes>>
      BY <2>4, <3>2 DEF Ready
    <3>3. ASSUME NEW u \in Ids, workers[u] > 0, workers' = [workers EXCEPT ![u] = @ - 1],
                 brutes' = brutes, player' = Returned(u)
          PROVE  Total' = Total
      <4>1. SumFunction(workers') = SumFunction(workers) - 1
        BY <2>2, <3>3, SumLoses
      <4>2. SumFunction(Ready') = SumFunction(Ready) + 1
        BY <3>3, ArmiesPresent, ReturnedReady
      <4> QED BY <2>3, <2>4, <3>3, <4>1, <4>2
    <3> QED BY <3>1, <3>2, <3>3
  <2>7. CASE Expire
    <3>1. \/ UNCHANGED <<player, workers, brutes>>
          \/ \E u \in Ids :
               /\ player' = Returned(u)
               /\ \/ workers[u] > 0 /\ workers' = [workers EXCEPT ![u] = @ - 1] /\ brutes' = brutes
                  \/ brutes[u] > 0 /\ brutes' = [brutes EXCEPT ![u] = @ - 1] /\ workers' = workers
      BY <2>7 DEF Expire, Same, ants
    <3>2. CASE UNCHANGED <<player, workers, brutes>>
      BY <2>4, <3>2 DEF Ready
    <3>3. ASSUME NEW u \in Ids, player' = Returned(u),
                 \/ workers[u] > 0 /\ workers' = [workers EXCEPT ![u] = @ - 1] /\ brutes' = brutes
                 \/ brutes[u] > 0 /\ brutes' = [brutes EXCEPT ![u] = @ - 1] /\ workers' = workers
          PROVE  Total' = Total
      <4>1. SumFunction(Ready') = SumFunction(Ready) + 1
        BY <3>3, ArmiesPresent, ReturnedReady
      <4>2. CASE workers[u] > 0 /\ workers' = [workers EXCEPT ![u] = @ - 1] /\ brutes' = brutes
        <5>1. SumFunction(workers') = SumFunction(workers) - 1
          BY <2>2, <4>2, SumLoses
        <5> QED BY <2>3, <2>4, <4>1, <4>2, <5>1
      <4>3. CASE brutes[u] > 0 /\ brutes' = [brutes EXCEPT ![u] = @ - 1] /\ workers' = workers
        <5>1. SumFunction(brutes') = SumFunction(brutes) - 1
          BY <2>2, <4>3, SumLoses
        <5> QED BY <2>3, <2>4, <4>1, <4>3, <5>1
      <4> QED BY <3>3, <4>2, <4>3
    <3> QED BY <3>1, <3>2, <3>3
  <2> QED BY <2>1, <2>5, <2>6, <2>7
<1> QED BY <1>1, FullInvariance, PTL DEF Spec, WorkersReturn
===============================================================================
