-------------------------------- MODULE Colony --------------------------------
(***************************************************************************)
(* Queens, armies and what players earn: the part of tick_world that       *)
(* wounds, levels and kills queens and moves workers between the field and *)
(* the pools (simulation.rs), and the handlers that place, buy and grant   *)
(* (handlers.rs).                                                          *)
(*                                                                         *)
(* Where ants and queens stand is left out: which queen an ant bites, who  *)
(* is converted or captured and which queens touch is any choice the       *)
(* armies allow; Field has the geometry.  The tick is one atomic call; its *)
(* phases are steps of their own here, in the code's order, and no handler *)
(* runs while tick.at # "idle".                                            *)
(***************************************************************************)
EXTENDS Integers, FiniteSets, Functions

CONSTANTS
  Users, Npcs,  \* ids of account players; ids NPCs may take
  Nobody,       \* no attacker, no killer, no target
  XpOf,         \* level -> total xp that reaches it: total_xp_for_level
  HpOf,         \* level -> max_hp_for_level
  Gate,         \* shop item -> peak level that unlocks it
  Price,        \* shop item -> credits
  DailyAnts, LevelGrant, ArmyCap, KillXp, BruteMult,  \* cfg() and config.rs
  Gifts,        \* the commands of the admin's panel in play
  Starts,       \* level of the queen each user may have at boot; 0 for none
  Stock,        \* workers and credits a user may have at boot
  Field,        \* brutes such a queen's owner may have on the field at boot
  MaxOps, MaxTicks  \* bounds on the handled messages and on the ticks

Ids == Users \cup Npcs
Levels == DOMAIN XpOf
Cap == Cardinality(Levels)
Items == DOMAIN Gate

ASSUME ColonyAssumption ==
  /\ IsFiniteSet(Users) /\ IsFiniteSet(Npcs) /\ Users \cap Npcs = {} /\ Nobody \notin Ids
  /\ Cap \in Nat \ {0} /\ Levels = 1 .. Cap /\ XpOf \in [Levels -> Nat] /\ XpOf[1] = 0
  /\ \A l \in 1 .. Cap - 1 : XpOf[l] < XpOf[l + 1]
  /\ HpOf \in [Levels -> Nat \ {0}]
  /\ \A l \in 1 .. Cap - 1 : HpOf[l] <= HpOf[l + 1]
  /\ "defender" \in Items /\ Gate \in [Items -> Nat] /\ Price \in [Items -> Nat]
  /\ DailyAnts \in Nat /\ LevelGrant \in Nat /\ ArmyCap \in Nat /\ KillXp \in Nat /\ BruteMult \in Nat
  /\ Starts \subseteq Levels \cup {0} /\ Stock \subseteq Nat /\ Field \subseteq Nat
  /\ MaxOps \in Nat /\ MaxTicks \in Nat

VARIABLES
  queen,    \* world.queens
  player,   \* world.players: ready (ants_avail), credits, lifetime (kills), rivals, guards
  peak,     \* peak_level of each account
  workers, brutes,  \* ants on the field, by owner
  counts,   \* ant_counts
  land,     \* players that may own tiles
  xpq,      \* xp_queue, summed by player
  tick,     \* the phase a tick is in, and the kills it has still to carry out
  \* What the properties look back at.
  starters, \* starter credits each account was granted
  unfolded, \* kills credited while the killer had no live queen, or lost to a wipe
  raised,   \* accounts whose peak passed the shop gate without apply_peak_unlocks
  skipped,  \* accounts whose queen the admin's level-up took above their peak
  gifted,   \* players the admin gave ants or land while they had no live queen
  ops, ticks  \* bound counters

ants == <<workers, brutes>>
ghosts == <<starters, unfolded, raised, skipped, gifted>>
vars == <<queen, player, peak, workers, brutes, counts, land, xpq, tick,
          starters, unfolded, raised, skipped, gifted, ops, ticks>>

Smaller(a, b) == IF a < b THEN a ELSE b
Larger(a, b) == IF a > b THEN a ELSE b

(* No entry in world.queens: none of the records below. *)
NoQueen == [none |-> TRUE]

Live(u) == queen[u] # NoQueen /\ ~queen[u].dead
Present(u) == u \in Users \/ queen[u] # NoQueen  \* has an entry in world.players
Fielded(u) == workers[u] + brutes[u]

Shop == Gate["defender"]  \* GATE_SHOP
Rest == [at |-> "idle", list |-> {}]

NewQueen == [dead |-> FALSE, hp |-> HpOf[1], level |-> 1, xp |-> 0, kills |-> 0,
             shield |-> 0, attacker |-> Nobody]

(* level_for_xp *)
LevelFor(xp) == CHOOSE l \in Levels : XpOf[l] <= xp /\ \A m \in Levels : XpOf[m] <= xp => m <= l

Queen == [dead : BOOLEAN, hp : Nat, level : Levels, xp : Nat, kills : Nat,
          shield : Nat, attacker : Ids \cup {Nobody}]

TypeOK ==
  /\ queen \in [Ids -> Queen \cup {NoQueen}]
  /\ \A u \in Ids : queen[u] # NoQueen =>
       queen[u].hp <= HpOf[queen[u].level] /\ queen[u].shield <= HpOf[Cap]
  /\ player \in [Ids -> [ready : Nat, credits : Nat, lifetime : Nat, rivals : Nat, guards : Nat]]
  /\ peak \in [Users -> 0 .. Cap]
  /\ workers \in [Ids -> Nat] /\ brutes \in [Ids -> Nat] /\ counts \in [Ids -> Nat]
  /\ land \subseteq Ids
  /\ xpq \in [Ids -> Nat]
  /\ tick.at \in {"idle", "fight", "clash", "capture", "expire", "upkeep",
                  "meet", "collide", "deaths"}
  /\ \A k \in tick.list : k.turn \in Nat /\ k.loser \in Ids /\ k.winner \in Ids \cup {Nobody}
  /\ starters \in [Users -> Nat] /\ unfolded \in [Users -> Nat]
  /\ raised \subseteq Users /\ skipped \subseteq Users /\ gifted \subseteq Ids
  /\ ops \in 0 .. MaxOps /\ ticks \in 0 .. MaxTicks

(* A world that was saved at rest and restored: queens of any level at     *)
(* their xp floor, whose accounts have been granted what they reached, and *)
(* their brutes, not counted yet.                                          *)
Init ==
  /\ \E start \in [Users -> Starts], stock \in [Users -> Stock], field \in [Users -> Field] :
       /\ queen = [u \in Ids |->
            IF u \in Users /\ start[u] # 0
            THEN [NewQueen EXCEPT !.level = start[u], !.xp = XpOf[start[u]], !.hp = HpOf[start[u]]]
            ELSE NoQueen]
       /\ peak = start
       /\ land = {u \in Users : start[u] # 0}
       /\ starters = [u \in Users |-> IF start[u] >= Shop THEN 1 ELSE 0]
       /\ player = [u \in Ids |->
            [ready |-> IF u \in Users THEN stock[u] ELSE 0,
             credits |-> IF u \in Users THEN stock[u] ELSE 0,
             lifetime |-> 0, rivals |-> 0, guards |-> 0]]
       /\ brutes = [u \in Ids |-> IF u \in Users THEN Smaller(field[u], start[u]) ELSE 0]
  /\ workers = [u \in Ids |-> 0] /\ counts = workers /\ xpq = workers
  /\ tick = Rest
  /\ unfolded = [u \in Users |-> 0]
  /\ raised = {} /\ skipped = {} /\ gifted = {}
  /\ ops = SumFunction(brutes) /\ ops <= MaxOps  \* each stands for the message that placed it
  /\ ticks = 0

-----------------------------------------------------------------------------
(* Levels. *)

(* apply_peak_unlocks: the account's new peak, and whether the starter     *)
(* credit is due.  NPCs have no account.                                   *)
Unlocked(u, level) == Larger(peak[u], level)

(* Mutant: the credit goes to every queen that reaches the gate. *)
StarterEveryQueen(u, level) == level >= Shop

StarterDue(u, level) == peak[u] < Shop /\ Shop <= level

(* Unlocks for the users in S, each at the level given. *)
Unlock(S, level) ==
  /\ peak' = [u \in Users |-> IF u \in S THEN Unlocked(u, level[u]) ELSE peak[u]]
  /\ starters' = [u \in Users |->
       IF u \in S /\ StarterDue(u, level[u]) THEN starters[u] + 1 ELSE starters[u]]
  /\ skipped' = skipped \ S

StarterFor(u, S, level) == IF u \in S /\ StarterDue(u, level[u]) THEN 1 ELSE 0

(* One queen takes xp, and with a level the headroom it brings. *)
Grown(q, amount) ==
  LET xp    == q.xp + amount
      level == Larger(q.level, LevelFor(xp))
  IN  [q EXCEPT !.xp = xp, !.level = level,
                !.hp = Smaller(@ + (HpOf[level] - HpOf[q.level]), HpOf[level])]

(* flush_xp over the queens qs and players ps with the grants due: dead    *)
(* queens and NPCs get nothing.  A level pays LevelGrant workers.          *)
Flush(qs, ps, due) ==
  LET gains(u) == u \in Users /\ qs[u] # NoQueen /\ ~qs[u].dead
      after    == [u \in Ids |-> IF gains(u) THEN Grown(qs[u], due[u]) ELSE qs[u]]
      risen    == {u \in Users : gains(u) /\ after[u].level > qs[u].level}
      level    == [u \in Users |-> IF u \in risen THEN after[u].level ELSE 0]
  IN  /\ queen' = after
      /\ player' = [u \in Ids |->
           IF u \in risen
           THEN [ps[u] EXCEPT !.ready = @ + LevelGrant * (after[u].level - qs[u].level),
                              !.credits = @ + StarterFor(u, risen, level)]
           ELSE ps[u]]
      /\ Unlock(risen, level)
      /\ xpq' = [u \in Ids |-> 0]

-----------------------------------------------------------------------------
(* kill_queen: nothing for a queen that is not there or already dead.      *)

Felled(l, k) ==
  [u \in Ids |->
     IF u = l THEN IF l \in Npcs THEN NoQueen ELSE [queen[l] EXCEPT !.dead = TRUE]
     ELSE IF u = k /\ queen[k] # NoQueen THEN [queen[k] EXCEPT !.kills = @ + 1]
     ELSE queen[u]]

(* Mutant: the fallen queen's kills are not folded into the account. *)
PaidKeepsKills(l, k) ==
  [u \in Ids |->
     IF u = l THEN [player[l] EXCEPT !.ready = IF l \in Users THEN DailyAnts ELSE @]
     ELSE IF u = k /\ Present(k) THEN [player[k] EXCEPT !.credits = @ + 1, !.rivals = @ + 1]
     ELSE player[u]]

Paid(l, k) ==
  [u \in Ids |->
     IF u = l THEN [player[l] EXCEPT !.lifetime = @ + queen[l].kills,
                                     !.ready = IF l \in Users THEN DailyAnts ELSE @]
     ELSE IF u = k /\ Present(k) THEN [player[k] EXCEPT !.credits = @ + 1, !.rivals = @ + 1]
     ELSE player[u]]

(* Mutant: the ants of the fallen stay. *)
DisbandWorkersOnly(l) ==
  /\ workers' = [workers EXCEPT ![l] = 0]
  /\ brutes' = brutes

Disband(l) ==
  /\ workers' = [workers EXCEPT ![l] = 0]
  /\ brutes' = [brutes EXCEPT ![l] = 0]

KillQueen(l, k) ==
  IF ~Live(l)
  THEN UNCHANGED <<queen, player, peak, ants, land, xpq, starters, unfolded, skipped, gifted>>
  ELSE /\ IF k = Nobody
          THEN /\ queen' = Felled(l, k) /\ player' = Paid(l, k)
               /\ UNCHANGED <<peak, starters, skipped, xpq>>
          ELSE Flush(Felled(l, k), Paid(l, k),
                     [xpq EXCEPT ![k] = @ + KillXp])
       /\ unfolded' = [u \in Users |->
            IF u = k /\ ~Live(k) THEN unfolded[u] + 1 ELSE unfolded[u]]
       /\ land' = land \ {l}
       /\ Disband(l)
       /\ gifted' = gifted \ {l}

-----------------------------------------------------------------------------
(* The handlers, between ticks. *)

Handler ==
  /\ tick = Rest
  /\ ops < MaxOps /\ ops' = ops + 1
  /\ UNCHANGED <<tick, ticks>>

Same(S) == UNCHANGED S

(* place-queen; too_close_to_queen and the bounds decide whether it may. *)
PlaceQueen(u) ==
  /\ Handler
  /\ u \in Users /\ ~Live(u)
  /\ queen' = [queen EXCEPT ![u] = NewQueen]
  /\ land' = land \cup {u}
  /\ gifted' = gifted \ {u}
  /\ Same(<<player, peak, ants, counts, xpq, starters, unfolded, raised, skipped>>)

(* place-ant: the army is what ant_counts says. *)
PlaceAnt(u) ==
  /\ Handler
  /\ u \in Users /\ player[u].ready > 0 /\ counts[u] < ArmyCap /\ Live(u)
  /\ workers' = [workers EXCEPT ![u] = @ + 1]
  /\ player' = [player EXCEPT ![u].ready = @ - 1]
  /\ Same(<<queen, peak, brutes, counts, land, xpq, ghosts>>)

(* Mutant: a purchase is taken without a look at the purse. *)
AffordsAnything(u, item) == peak[u] >= Gate[item]

Affords(u, item) == peak[u] >= Gate[item] /\ player[u].credits >= Price[item]

(* shop-buy.  Every item but the worker needs a live queen, a brute also   *)
(* room in the army, a shield that none is up; an expired one is cleared   *)
(* by the tick and counts as up until then or not, as the clock has it.    *)
Buy(u, item) ==
  /\ Handler
  /\ u \in Users /\ Affords(u, item)
  /\ item # "worker" => Live(u)
  /\ item = "brute" => counts[u] < ArmyCap
  /\ player' = [player EXCEPT ![u].credits = @ - Price[item],
                              ![u].ready = IF item = "worker" THEN @ + 1 ELSE @,
                              ![u].guards = IF item = "defender" THEN @ + 1 ELSE @]
  /\ brutes' = IF item = "brute" THEN [brutes EXCEPT ![u] = @ + 1] ELSE brutes
  /\ queen' = IF item = "shield" THEN [queen EXCEPT ![u].shield = HpOf[queen[u].level]] ELSE queen
  /\ land' = IF item = "relocate" THEN land \cup {u} ELSE land
  /\ Same(<<peak, workers, counts, xpq, ghosts>>)

(* login: the silent backfill of the peak. *)
LoginBackfill(u) ==
  /\ Handler
  /\ queen[u] # NoQueen /\ queen[u].level > peak[u]
  /\ peak' = [peak EXCEPT ![u] = queen[u].level]
  /\ raised' = IF StarterDue(u, queen[u].level) THEN raised \cup {u} ELSE raised
  /\ skipped' = skipped \ {u}
  /\ Same(<<queen, player, ants, counts, land, xpq, starters, unfolded, gifted>>)

(* The daily refill of sim_loop. *)
DailyRefill(u) ==
  /\ Handler
  /\ player' = [player EXCEPT ![u].ready = @ + DailyAnts]
  /\ Same(<<queen, peak, ants, counts, land, xpq, ghosts>>)

(* wipe_world at the end of a season: armies, queens, NPCs and land go,    *)
(* ant_counts stays until the next tick.                                   *)
SeasonWipe ==
  /\ Handler
  /\ queen' = [u \in Ids |-> NoQueen]
  /\ unfolded' = [u \in Users |-> unfolded[u] + IF Live(u) THEN queen[u].kills ELSE 0]
  /\ player' = [u \in Ids |-> IF u \in Users THEN [player[u] EXCEPT !.ready = DailyAnts] ELSE player[u]]
  /\ workers' = [u \in Ids |-> 0] /\ brutes' = [u \in Ids |-> 0]
  /\ land' = {} /\ gifted' = {}
  /\ Same(<<peak, counts, xpq, starters, raised, skipped>>)

-----------------------------------------------------------------------------
(* The admin's panel. *)

Admin(command) == Handler /\ command \in Gifts

GiveAnts(t) ==
  /\ Admin("ants") /\ Present(t)
  /\ \E n \in {0, player[t].ready + 1} : player' = [player EXCEPT ![t].ready = n]
  /\ Same(<<queen, peak, ants, counts, land, xpq, ghosts>>)

GiveCredits(t) ==
  /\ Admin("credits") /\ Present(t)
  /\ \E n \in {0, player[t].credits + 1} : player' = [player EXCEPT ![t].credits = n]
  /\ Same(<<queen, peak, ants, counts, land, xpq, ghosts>>)

(* heal-queen and reset-hp: dead queens too. *)
HealQueen(t) ==
  /\ Admin("heal") /\ queen[t] # NoQueen
  /\ queen' = [queen EXCEPT ![t].hp = HpOf[queen[t].level]]
  /\ Same(<<player, peak, ants, counts, land, xpq, ghosts>>)

(* level-up: the queen and the workers, and not the account's unlocks.     *)
LevelUp(t) ==
  /\ Admin("level-up") /\ Live(t) /\ queen[t].level < Cap
  /\ LET level == queen[t].level + 1
     IN  /\ queen' = [queen EXCEPT ![t].level = level, ![t].xp = XpOf[level],
              ![t].hp = Smaller(@ + (HpOf[level] - HpOf[level - 1]), HpOf[level])]
         /\ player' = [player EXCEPT ![t].ready = @ + LevelGrant]
  /\ skipped' = IF t \in Users /\ queen'[t].level > peak[t] THEN skipped \cup {t} ELSE skipped
  /\ Same(<<peak, ants, counts, land, xpq, starters, unfolded, raised, gifted>>)

(* Mutant: the xp is left above the level. *)
DemotedKeepsXp(q) ==
  [q EXCEPT !.level = q.level - 1, !.hp = Smaller(@, HpOf[q.level - 1])]

Demoted(q) ==
  [q EXCEPT !.level = q.level - 1, !.hp = Smaller(@, HpOf[q.level - 1]),
            !.xp = Smaller(Larger(@, XpOf[q.level - 1]), XpOf[q.level] - 1)]

LevelDown(t) ==
  /\ Admin("level-down") /\ Live(t) /\ queen[t].level > 1
  /\ queen' = [queen EXCEPT ![t] = Demoted(@)]
  /\ Same(<<player, peak, ants, counts, land, xpq, ghosts>>)

(* admin-set-level and admin-give-xp end in apply_peak_unlocks.            *)
Promote(t, q) ==
  LET S == {t} \cap Users
      level == [u \in S |-> q.level]
  IN  /\ queen' = [queen EXCEPT ![t] = q]
      /\ player' = [player EXCEPT
            ![t].ready = @ + LevelGrant * Larger(q.level - queen[t].level, 0),
            ![t].credits = @ + StarterFor(t, S, level)]
      /\ Unlock(S, level)
      /\ Same(<<ants, counts, land, xpq, unfolded, raised, gifted>>)

SetLevel(t, level) ==
  /\ Admin("set-level") /\ Live(t)
  /\ Promote(t, [queen[t] EXCEPT !.level = level, !.xp = XpOf[level], !.hp = Smaller(@, HpOf[level])])

GiveXp(t) ==
  /\ Admin("xp") /\ Live(t)
  /\ LET level == Larger(queen[t].level, LevelFor(queen[t].xp + 1))
     IN  Promote(t, [queen[t] EXCEPT !.xp = @ + 1, !.level = level,
                                     !.hp = IF level > queen[t].level THEN HpOf[level] ELSE @])

(* spawn-npc and admin-spawn-at: a queen, its land and its ants. *)
SpawnNpc(n) ==
  /\ Admin("npc") /\ queen[n] = NoQueen
  /\ queen' = [queen EXCEPT ![n] = NewQueen]
  /\ player' = [player EXCEPT ![n] = [ready |-> 0, credits |-> 0, lifetime |-> 0, rivals |-> 0, guards |-> 0]]
  /\ workers' = [workers EXCEPT ![n] = 1]
  /\ land' = land \cup {n}
  /\ Same(<<peak, brutes, counts, xpq, ghosts>>)

(* delete-queen; kick and ban of an NPC. *)
DeleteQueen(t) ==
  /\ Admin("delete") /\ Live(t)
  /\ KillQueen(t, Nobody)
  /\ Same(<<counts, raised>>)

(* move-queen paints the body of a dead queen too; admin-place-ant asks    *)
(* for no queen.                                                           *)
Gift(t) ==
  /\ Admin("place") /\ Present(t)
  /\ gifted' = IF Live(t) THEN gifted ELSE gifted \cup {t}
  /\ \/ workers' = [workers EXCEPT ![t] = @ + 1] /\ UNCHANGED land
     \/ queen[t] # NoQueen /\ land' = land \cup {t} /\ UNCHANGED workers
  /\ Same(<<queen, player, peak, brutes, counts, xpq, starters, unfolded, raised, skipped>>)

-----------------------------------------------------------------------------
(* tick_world, phase by phase. *)

InTick(from, to) ==
  /\ tick.at = from
  /\ tick' = [tick EXCEPT !.at = to]
  /\ UNCHANGED <<ops, ticks>>

(* The dedup of every 64th tick drops one of two ants of an owner that     *)
(* stand and head alike.                                                   *)
Dedup ==
  /\ ticks < MaxTicks
  /\ InTick("idle", "fight")
  /\ \/ UNCHANGED ants
     \/ \E u \in Ids :
          /\ Fielded(u) > 1
          /\ \/ workers[u] > 0 /\ workers' = [workers EXCEPT ![u] = @ - 1] /\ UNCHANGED brutes
             \/ brutes[u] > 0 /\ brutes' = [brutes EXCEPT ![u] = @ - 1] /\ UNCHANGED workers
  /\ Same(<<queen, player, peak, counts, land, xpq, ghosts>>)

Bite(a, brute) ==
  (IF queen[a] # NoQueen THEN queen[a].level ELSE 1) * (IF brute THEN BruteMult ELSE 1)

(* Mutant: the shield absorbs and the queen is hurt all the same. *)
WoundedThrough(q, damage, attacker) ==
  LET absorbed == Smaller(damage, q.shield)
  IN  [q EXCEPT !.shield = @ - absorbed, !.hp = @ - damage, !.attacker = attacker]

Wounded(q, damage, attacker) ==
  LET absorbed == Smaller(damage, q.shield)
  IN  [q EXCEPT !.shield = @ - absorbed, !.hp = Larger(@ - (damage - absorbed), 0),
                !.attacker = attacker]

(* Phase 1, at most one ant of each player at a queen: a worker heals its  *)
(* own queen, any ant bites another's.  Damage comes before healing.       *)
Fight ==
  /\ InTick("fight", "clash")
  /\ \E target \in [Ids -> {u \in Ids : Live(u)} \cup {Nobody}], brute \in [Ids -> BOOLEAN] :
       /\ \A a \in Ids :
            /\ target[a] # Nobody => IF brute[a] THEN brutes[a] > 0 ELSE workers[a] > 0
            /\ brute[a] => target[a] \notin {Nobody, a}
       /\ LET biters(v) == {a \in Ids \ {v} : target[a] = v}
              damage(v) == SumFunctionOnSet([a \in Ids |-> Bite(a, brute[a])], biters(v))
          IN  \E last \in [Ids -> Ids \cup {Nobody}] :
                /\ \A v \in Ids : IF biters(v) = {} THEN last[v] = Nobody ELSE last[v] \in biters(v)
                /\ queen' = [v \in Ids |->
                     LET hurt == IF biters(v) = {} THEN queen[v]
                                 ELSE Wounded(queen[v], damage(v), last[v])
                     IN  IF target[v] = v
                         THEN [hurt EXCEPT !.hp = Smaller(@ + Bite(v, FALSE), HpOf[hurt.level])]
                         ELSE hurt]
       /\ xpq' = [a \in Ids |-> IF target[a] # Nobody THEN xpq[a] + 1 ELSE xpq[a]]
  /\ Same(<<player, peak, ants, counts, land, ghosts>>)

(* Phases 2 to 5: ants paint, a highway or a milestone pays its player,    *)
(* and where two owners meet the one who holds the ground around, who need *)
(* not be there, converts an ant.  At most one of these a tick.            *)
Clash ==
  /\ InTick("clash", "capture")
  /\ land' = land \cup {u \in Ids : Fielded(u) > 0}
  /\ \/ UNCHANGED <<ants, xpq>>
     \/ \E u \in land' : xpq' = [xpq EXCEPT ![u] = @ + 1] /\ UNCHANGED ants
     \/ \E dom \in land', u \in Ids :
          /\ u # dom /\ Fielded(u) > 0 /\ \E v \in Ids \ {u} : Fielded(v) > 0
          /\ \/ workers[u] > 0 /\ workers' = [workers EXCEPT ![u] = @ - 1, ![dom] = @ + 1]
                /\ UNCHANGED brutes
             \/ brutes[u] > 0 /\ brutes' = [brutes EXCEPT ![u] = @ - 1, ![dom] = @ + 1]
                /\ UNCHANGED workers
          /\ xpq' = [xpq EXCEPT ![dom] = @ + 1]
  /\ Same(<<queen, player, peak, counts, ghosts>>)

(* Mutant: a captured worker is gone. *)
ReturnedLost(u) == player

(* Sent back to the pool of its owner, if the owner is still there. *)
Returned(u) ==
  IF Present(u) THEN [player EXCEPT ![u].ready = @ + 1] ELSE player

(* Phase 5b: a worker under another player's brute. *)
Capture ==
  /\ InTick("capture", "expire")
  /\ \/ UNCHANGED <<player, workers>>
     \/ \E u \in Ids :
          /\ workers[u] > 0 /\ \E v \in Ids \ {u} : brutes[v] > 0
          /\ workers' = [workers EXCEPT ![u] = @ - 1]
          /\ player' = Returned(u)
  /\ Same(<<queen, peak, brutes, counts, land, xpq, ghosts>>)

(* Phase 6: an ant past its lifespan, a brute like a worker. *)
Expire ==
  /\ InTick("expire", "upkeep")
  /\ \/ UNCHANGED <<player, ants>>
     \/ \E u \in Ids :
          /\ \/ workers[u] > 0 /\ workers' = [workers EXCEPT ![u] = @ - 1] /\ UNCHANGED brutes
             \/ brutes[u] > 0 /\ brutes' = [brutes EXCEPT ![u] = @ - 1] /\ UNCHANGED workers
          /\ player' = Returned(u)
  /\ Same(<<queen, peak, counts, land, xpq, ghosts>>)

(* Phases 7, 8 and 8b: ant_counts; regen and the end of shields; then a    *)
(* defender of a user whose queen has an enemy ant near.                   *)
Upkeep ==
  /\ InTick("upkeep", "meet")
  /\ counts' = [u \in Ids |-> Fielded(u)]
  /\ \E regen, expired \in BOOLEAN :
       queen' = [u \in Ids |->
         IF queen[u] = NoQueen THEN NoQueen
         ELSE [queen[u] EXCEPT
                 !.hp = IF regen /\ ~queen[u].dead THEN Smaller(@ + 1, HpOf[queen[u].level]) ELSE @,
                 !.shield = IF expired THEN 0 ELSE @]]
  /\ \/ UNCHANGED <<player, workers>>
     \/ \E u \in Users :
          /\ Live(u) /\ player[u].guards > 0
          /\ \/ player' = [player EXCEPT ![u].guards = 0] /\ UNCHANGED workers
             \/ /\ \E v \in Ids \ {u} : Fielded(v) > 0
                /\ player' = [player EXCEPT ![u].guards = @ - 1]
                /\ workers' = [workers EXCEPT ![u] = @ + 1]
  /\ Same(<<peak, brutes, land, xpq, ghosts>>)

(* Of two queens that touch the lower level falls, then the lower hp, then *)
(* the one that comes later in the scan.                                   *)
Loses(a, b, index) ==
  \/ queen[a].level < queen[b].level
  \/ queen[a].level = queen[b].level /\ queen[a].hp < queen[b].hp
  \/ queen[a].level = queen[b].level /\ queen[a].hp = queen[b].hp /\ index[a] > index[b]

(* Phase 9, the scan: pairs in the order of their first queen, judged on   *)
(* the queens as they are before any of them falls.                        *)
Meet ==
  /\ tick.at = "meet"
  /\ LET live == {u \in Ids : Live(u)}
     IN  \E index \in Injection(live, 1 .. Cardinality(live)),
            touching \in SUBSET {p \in SUBSET live : Cardinality(p) = 2} :
           tick' = [at |-> "collide",
                    list |-> {k \in [turn : Range(index), loser : live, winner : live] :
                                /\ {k.loser, k.winner} \in touching
                                /\ Loses(k.loser, k.winner, index)
                                /\ k.turn = Smaller(index[k.loser], index[k.winner])}]
  /\ Same(<<queen, player, peak, ants, counts, land, xpq, ghosts, ops, ticks>>)

(* One kill of the list; the hp deaths have no order of their own. *)
KillNext ==
  /\ tick.at \in {"collide", "deaths"}
  /\ \E k \in tick.list :
       /\ \A other \in tick.list : k.turn <= other.turn
       /\ KillQueen(k.loser, k.winner)
       /\ tick' = [tick EXCEPT !.list = @ \ {k}]
  /\ Same(<<counts, raised, ops, ticks>>)

(* Phase 10, the scan: every queen whose hp is gone, and who did it. *)
Deaths ==
  /\ tick.at = "collide" /\ tick.list = {}
  /\ tick' = [at |-> "deaths",
              list |-> {[turn |-> 0, loser |-> u, winner |-> queen[u].attacker] :
                          u \in {v \in Ids : Live(v) /\ queen[v].hp <= 0}}]
  /\ Same(<<queen, player, peak, ants, counts, land, xpq, ghosts, ops, ticks>>)

(* Phase 11. *)
EndTick ==
  /\ tick.at = "deaths" /\ tick.list = {}
  /\ Flush(queen, player, xpq)
  /\ tick' = Rest
  /\ ticks' = ticks + 1
  /\ Same(<<ants, counts, land, unfolded, raised, gifted, ops>>)

Next ==
  \/ \E u \in Users : PlaceQueen(u) \/ PlaceAnt(u) \/ LoginBackfill(u) \/ DailyRefill(u)
  \/ \E u \in Users, item \in Items : Buy(u, item)
  \/ SeasonWipe
  \/ \E t \in Ids : \/ GiveAnts(t) \/ GiveCredits(t) \/ HealQueen(t) \/ LevelUp(t) \/ LevelDown(t)
                    \/ GiveXp(t) \/ DeleteQueen(t) \/ Gift(t)
  \/ \E t \in Ids, level \in Levels : SetLevel(t, level)
  \/ \E n \in Npcs : SpawnNpc(n)
  \/ Dedup \/ Fight \/ Clash \/ Capture \/ Expire \/ Upkeep
  \/ Meet \/ KillNext \/ Deaths \/ EndTick

Spec == Init /\ [][Next]_vars

-----------------------------------------------------------------------------
(* Between ticks a live queen has hp, and its level is the one its xp      *)
(* reaches, whichever way xp, level and hp were changed.                   *)
LiveQueensSound ==
  tick = Rest => \A u \in Ids : Live(u) =>
    queen[u].hp > 0 /\ queen[u].level = LevelFor(queen[u].xp)

(* "Fold the fallen queen's life into account-level lifetime stats": the   *)
(* kills a player's rivalries count are in its lifetime total or with its  *)
(* live queen, but for those credited to a player whose own queen had      *)
(* already fallen and those a season's end took.                           *)
KillsFolded ==
  \A u \in Users :
    player[u].rivals =
      player[u].lifetime + (IF Live(u) THEN queen[u].kills ELSE 0) + unfolded[u]

(* "granting the level-10 starter credit exactly once": an account has had *)
(* it when its peak has passed the gate, once, over any number of queens,  *)
(* unless a login raised the peak silently.                                *)
StarterOnce ==
  \A u \in Users :
    starters[u] = IF peak[u] >= Shop /\ u \notin raised THEN 1 ELSE 0

(* "so gates + popups behave identically however a player reaches a tier": *)
(* no living queen is above the peak that opens the shop's gates to its    *)
(* player, whichever way it rose, but for the admin's level-up, which      *)
(* skips apply_peak_unlocks.                                               *)
PeakCovers ==
  tick = Rest => \A u \in Users \ skipped : Live(u) => queen[u].level <= Larger(peak[u], 1)

UnlocksInStep == StarterOnce /\ PeakCovers

(* A fallen player holds neither land nor ants, so nothing of it can win   *)
(* ground, bite or be converted; the admin's gifts apart.                  *)
FallenHoldNothing ==
  tick = Rest => \A u \in Ids \ gifted : ~Live(u) => u \notin land /\ Fielded(u) = 0

Total == SumFunction(workers) + SumFunction(brutes)
           + SumFunction([u \in Ids |-> player[u].ready])

(* "Workers are never destroyed": clash, capture and expiry move ants      *)
(* between owners and pools and lose none.                                 *)
WorkersReturn ==
  [][tick.at \in {"clash", "capture", "expire"} => Total' = Total]_vars
=============================================================================
