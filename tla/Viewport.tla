------------------------------- MODULE Viewport -------------------------------
(***************************************************************************)
(* The cadence of the viewport thread (server.rs, viewport_loop): what the *)
(* read-lock phase of a cycle decides to send, from the sim's tick, its    *)
(* dirty_tick and the thread's own memory of what it sent last.            *)
(*                                                                         *)
(* The sim holds the write lock for a whole turn, so a cycle sees the      *)
(* world between two turns; how many turns fit between two cycles is up to *)
(* the load.  Lag bounds it.                                               *)
(***************************************************************************)
EXTENDS Integers

CONSTANTS
  TickRate,   \* cfg().tick_rate
  TileHz,     \* the 10 of tick_rate / 10
  AntHz,      \* cfg().ant_hz
  LbEvery,    \* ticks between two looks at the standings: 20
  LbSeconds,  \* heartbeat of the leaderboard: 5
  Standings,  \* values of lb_signature
  Unsent,     \* the u64::MAX that no signature has yet been sent
  Restored,   \* world.tick of the snapshots the server may boot from
  Lag,        \* bound on the ticks between two cycles
  MaxTicks,   \* bound on the ticks of a behaviour
  MaxWipes    \* bound on the wipes of a behaviour

ASSUME ViewportAssumption ==
  /\ {TickRate, TileHz, AntHz, LbEvery, LbSeconds, Lag} \subseteq Nat \ {0}
  /\ Unsent \notin Standings
  /\ Restored \subseteq Nat /\ \E b \in Restored : \A c \in Restored : c <= b
  /\ MaxTicks \in Nat /\ MaxWipes \in Nat

VARIABLES
  tick,       \* world.tick
  dirtyTick,  \* world.dirty_tick
  ants,       \* whether world.ants is nonempty
  simPaused,  \* world.paused
  standings,  \* lb_signature of the world
  last,       \* the last_* locals of viewport_loop
  \* What the properties look back at.
  owed,       \* tick of the oldest change no tile frame has shown; NoTick if none
  skipped,    \* whether a tick has since gone by that no cycle looked at
  age,        \* ticks since each kind of push was last sent
  behind,     \* ticks since the last cycle
  ticks, wipes  \* bound counters

vars == <<tick, dirtyTick, ants, simPaused, standings, last, owed, skipped, age, behind, ticks, wipes>>

NoTick == -1
Larger(a, b) == IF a > b THEN a ELSE b
SatSub(a, b) == Larger(a - b, 0)

tile_every == Larger(TickRate \div TileHz, 1)
ant_every == Larger(TickRate \div AntHz, 1)

TickBound == MaxTicks + (CHOOSE b \in Restored : \A c \in Restored : c <= b)
Reachable == 0 .. TickBound
Pushes == {"ants", "me", "stats", "lb", "standings"}

TypeOK ==
  /\ tick \in Reachable /\ dirtyTick \in Reachable
  /\ ants \in BOOLEAN /\ simPaused \in BOOLEAN
  /\ standings \in Standings
  /\ last \in [tick : Reachable \cup {NoTick}, tile : Reachable, ant : Reachable,
               me : Reachable, lb : Reachable, lbSent : Reachable, stats : Reachable,
               sig : Standings \cup {Unsent}]
  /\ owed \in Reachable \cup {NoTick}
  /\ skipped \in BOOLEAN
  /\ age \in [Pushes -> 0 .. MaxTicks]
  /\ behind \in 0 .. Lag
  /\ ticks \in 0 .. MaxTicks /\ wipes \in 0 .. MaxWipes

Init ==
  /\ tick \in Restored
  /\ dirtyTick = tick     \* restore(); 0 for a fresh world, whose tick is 0
  /\ ants \in BOOLEAN
  /\ simPaused = FALSE
  /\ standings \in Standings
  /\ last = [tick |-> NoTick, tile |-> 0, ant |-> 0, me |-> 0,
             lb |-> 0, lbSent |-> 0, stats |-> 0, sig |-> Unsent]
  /\ owed = NoTick /\ skipped = FALSE
  /\ age = [k \in Pushes |-> 0]
  /\ behind = 0
  /\ ticks = 0 /\ wipes = 0

-----------------------------------------------------------------------------
(* The sim thread.  One turn of sim_loop under the write lock: the drained *)
(* messages, tick_world unless paused, the end of a season.  A message may *)
(* pause or resume the sim, deploy ants or wipe the world; any of them     *)
(* marks the tick it is handled at, tick_world marks its own while there   *)
(* are ants or when a queen falls.  A wipe starts the tick over; neither   *)
(* dirty_tick nor the viewport thread hears of it.                         *)
Turn(msg, wipe, fallen) ==
  /\ behind < Lag /\ ticks < MaxTicks
  /\ wipe = "admin" => msg
  /\ wipe # "none" => wipes < MaxWipes
  /\ \E deployed \in BOOLEAN :
       /\ simPaused' \in BOOLEAN
       /\ ~msg => simPaused' = simPaused /\ deployed = ants
       /\ (simPaused' => ~fallen) /\ (wipe = "admin" => ~deployed)
       /\ LET drained == IF wipe = "admin" THEN 0 ELSE tick
              now     == IF simPaused' THEN drained ELSE drained + 1
              moved   == ~simPaused' /\ (deployed \/ fallen)
          IN  /\ tick' = IF wipe = "season" THEN 0 ELSE now
              /\ dirtyTick' = IF moved THEN now ELSE IF msg THEN drained ELSE dirtyTick
              /\ owed' = IF wipe = "season" THEN NoTick
                         ELSE IF owed # NoTick /\ wipe = "none" THEN owed
                         ELSE IF msg THEN drained ELSE IF moved THEN now ELSE NoTick
              /\ ants' \in BOOLEAN
              /\ (simPaused' => ants' = deployed) /\ (wipe = "season" => ~ants')
  /\ standings' \in Standings
  /\ LET step == IF simPaused' THEN 0 ELSE 1
     IN  /\ age' = [k \in Pushes |->
                      IF \/ k = "ants" /\ ~ants'
                         \/ k = "standings" /\ standings' = last.sig
                      THEN 0 ELSE age[k] + step]
         /\ behind' = behind + step
         /\ skipped' = (owed' # NoTick /\ (skipped \/ behind + step > 1))
         /\ ticks' = ticks + step
  /\ wipes' = IF wipe = "none" THEN wipes ELSE wipes + 1
  /\ UNCHANGED last

-----------------------------------------------------------------------------
(* The viewport thread, under its read lock. *)

(* Mutant: the rate limit counts from the last frame of any kind. *)
TilesSinceAnts ==
  SatSub(tick, last.ant) >= tile_every /\ dirtyTick + tile_every >= tick

include_tiles ==
  SatSub(tick, last.tile) >= tile_every /\ dirtyTick + tile_every >= tick

send_ants == ants /\ SatSub(tick, last.ant) >= ant_every

(* Mutant: `me` waits for a frame to ride on. *)
MeWithFrames == (include_tiles \/ send_ants) /\ SatSub(tick, last.me) >= TickRate

send_me == SatSub(tick, last.me) >= TickRate

lb_due == SatSub(tick, last.lb) >= LbEvery

(* Mutant: the heartbeat alone decides. *)
LbOnHeartbeat == lb_due /\ SatSub(tick, last.lbSent) >= TickRate * LbSeconds

send_lb ==
  lb_due /\ (standings # last.sig \/ SatSub(tick, last.lbSent) >= TickRate * LbSeconds)

send_stats == SatSub(tick, last.stats) >= TickRate

Sent(k) ==
  CASE k = "ants" -> send_ants \/ include_tiles
    [] k = "me" -> send_me
    [] k = "stats" -> send_stats
    [] OTHER -> send_lb

(* Mutant: the signature and the tick of the broadcast are swapped. *)
RememberSwapped ==
  last' = [tick   |-> tick,
           tile   |-> IF include_tiles THEN tick ELSE last.tile,
           ant    |-> IF Sent("ants") THEN tick ELSE last.ant,
           me     |-> IF send_me THEN tick ELSE last.me,
           lb     |-> IF lb_due THEN tick ELSE last.lb,
           sig    |-> IF send_lb THEN tick ELSE last.sig,
           lbSent |-> IF send_lb THEN standings ELSE last.lbSent,
           stats  |-> IF send_stats THEN tick ELSE last.stats]

Remember ==
  last' = [tick   |-> tick,
           tile   |-> IF include_tiles THEN tick ELSE last.tile,
           ant    |-> IF Sent("ants") THEN tick ELSE last.ant,
           me     |-> IF send_me THEN tick ELSE last.me,
           lb     |-> IF lb_due THEN tick ELSE last.lb,
           sig    |-> IF send_lb THEN standings ELSE last.sig,
           lbSent |-> IF send_lb THEN tick ELSE last.lbSent,
           stats  |-> IF send_stats THEN tick ELSE last.stats]

Cycle ==
  /\ tick # last.tick
  /\ Remember
  /\ owed' = IF include_tiles THEN NoTick ELSE owed
  /\ skipped' = (skipped /\ ~include_tiles)
  /\ age' = [k \in Pushes |-> IF Sent(k) THEN 0 ELSE age[k]]
  /\ behind' = 0
  /\ UNCHANGED <<tick, dirtyTick, ants, simPaused, standings, ticks, wipes>>

Next ==
  \/ \E msg, fallen \in BOOLEAN, wipe \in {"none", "admin", "season"} :
       Turn(msg, wipe, fallen)
  \/ Cycle

Spec == Init /\ [][Next]_vars

-----------------------------------------------------------------------------
Seen == behind = 0

(* "Any client message may mutate tiles - mark dirty so viewport is sent": *)
(* no change is passed over.  As long as the viewport thread has looked at *)
(* every tick since, a cycle tile_every ticks after a change or later has  *)
(* shown it; with a tick skipped it may be lost (README).                  *)
NoLostUpdate == owed # NoTick /\ ~skipped => last.tick < owed + tile_every

(* "ant frames whenever the tick advances, `me` ~1 Hz": after a cycle the  *)
(* last `me` and the last stats are less than a second of ticks old, and   *)
(* while there are ants so is the last ant frame, less than ant_every.     *)
CadenceKept ==
  Seen => /\ age["me"] < TickRate /\ age["stats"] < TickRate
          /\ age["ants"] < ant_every

(* "broadcast only when the standings actually change, plus a ~5 s         *)
(* heartbeat": after a cycle the standings have not differed from those    *)
(* last broadcast for longer than the time between two looks at them, and  *)
(* the last broadcast is no older than the heartbeat and one such time.    *)
LeaderboardFresh ==
  Seen => /\ age["standings"] < LbEvery
          /\ age["lb"] < TickRate * LbSeconds + LbEvery - 1
=============================================================================
