---------------------------- MODULE ViewportProofs ----------------------------
(***************************************************************************)
(* Proofs about the cadence of the viewport thread, for every tick rate,   *)
(* every frame rate and every lag.  While nothing is wiped the tick only   *)
(* grows, and the ages the properties speak of are differences of ticks.   *)
(***************************************************************************)
EXTENDS Viewport, TLAPS

-----------------------------------------------------------------------------
(* The inductive invariant. *)

(* What is remembered is never of a tick beyond those counted.             *)
Counted(t) == t + MaxTicks <= TickBound + ticks

Lasts == {"tile", "ant", "me", "lb", "lbSent", "stats"}

TicksCounted ==
  /\ Counted(tick) /\ Counted(dirtyTick) /\ Counted(owed)
  /\ \A k \in Pushes : age[k] <= ticks

Heartbeat == TickRate * LbSeconds

(* Without a wipe nothing remembered is of a later tick than the sim's.    *)
NoneLater ==
  /\ dirtyTick <= tick
  /\ \A f \in Lasts : last[f] <= tick
  /\ last.tick # NoTick => tick = last.tick + behind

(* The age of a push is at most the ticks since the thread last decided it.*)
AgesKnown ==
  /\ age["me"] <= tick - last.me /\ age["stats"] <= tick - last.stats
  /\ age["ants"] <= tick - last.ant
  /\ age["standings"] <= tick - last.lb
  /\ age["lb"] <= tick - last.lbSent
  /\ ~ants => age["ants"] = 0
  /\ standings = last.sig => age["standings"] = 0
  /\ last.lb < last.lbSent + Heartbeat

(* What the last cycle has found in time.                                  *)
LooksInTime == Seen => tick - last.lb < LbEvery \/ (age["standings"] = 0 /\ age["lb"] = 0)

(* A change still owed is marked, and no tile frame is younger; with every *)
(* tick seen the next cycle is at most a tick away.                        *)
OwedMarked ==
  owed # NoTick =>
    /\ last.tile <= owed /\ owed <= dirtyTick
    /\ last.tick = NoTick => tick <= owed + behind
    /\ ~skipped => /\ tick <= Larger(last.tick, owed) + 1
                   /\ last.tick < owed + tile_every

IInv == TypeOK /\ NoneLater /\ AgesKnown /\ LooksInTime /\ CadenceKept /\ OwedMarked

-----------------------------------------------------------------------------
(* Constants. *)

(* The rates are at least one tick; the boundaries of the ticks.           *)
LEMMA Rates ==
  /\ TickRate \in Nat \ {0} /\ LbEvery \in Nat \ {0} /\ Lag \in Nat \ {0}
  /\ Heartbeat \in Nat \ {0}
  /\ tile_every \in Nat \ {0} /\ ant_every \in Nat \ {0}
  /\ TickBound \in Nat /\ MaxTicks \in Nat /\ MaxWipes \in Nat
  /\ MaxTicks <= TickBound /\ \A t \in Restored : t \in Nat /\ t + MaxTicks <= TickBound
  /\ NoTick \in Int /\ \A t \in Nat : t # NoTick
  /\ Unsent \notin Standings
<1>1. /\ TickRate \in Nat \ {0} /\ LbEvery \in Nat \ {0} /\ Lag \in Nat \ {0}
      /\ LbSeconds \in Nat \ {0} /\ TileHz \in Nat \ {0} /\ AntHz \in Nat \ {0}
      /\ MaxTicks \in Nat /\ MaxWipes \in Nat /\ Unsent \notin Standings
  BY ViewportAssumption
<1>2. Heartbeat \in Nat \ {0}
  BY <1>1 DEF Heartbeat
<1>3. TickRate \div TileHz \in Int /\ TickRate \div AntHz \in Int
  BY <1>1
<1>4. tile_every \in Nat \ {0} /\ ant_every \in Nat \ {0}
  BY <1>3 DEF tile_every, ant_every, Larger
<1>5. PICK most \in Restored : \A c \in Restored : c <= most
  BY ViewportAssumption
<1> DEFINE top == CHOOSE b \in Restored : \A c \in Restored : c <= b
<1>6. top \in Restored /\ \A c \in Restored : c <= top
  BY <1>5
<1>7. top \in Nat /\ TickBound = MaxTicks + top
  BY <1>6, ViewportAssumption DEF TickBound
<1> HIDE DEF top
<1>8. TickBound \in Nat /\ MaxTicks <= TickBound
      /\ \A t \in Restored : t \in Nat /\ t + MaxTicks <= TickBound
  BY <1>1, <1>6, <1>7, ViewportAssumption
<1> QED BY <1>1, <1>2, <1>4, <1>8 DEF NoTick

-----------------------------------------------------------------------------
(* The steps, in terms of ticks. *)

(* A turn of the sim takes at most one tick.                               *)
LEMMA TurnSteps ==
  ASSUME TypeOK, NEW msg \in BOOLEAN, NEW fallen \in BOOLEAN,
         NEW wipe \in {"none", "admin", "season"}, Turn(msg, wipe, fallen)
  PROVE  \E step \in {0, 1} :
           /\ behind < Lag /\ ticks < MaxTicks
           /\ behind' = behind + step /\ ticks' = ticks + step /\ last' = last
           /\ ants' \in BOOLEAN /\ simPaused' \in BOOLEAN /\ standings' \in Standings
           /\ tick' \in {0, step, tick + step} /\ (wipe = "none" => tick' = tick + step)
           /\ wipes' = (IF wipe = "none" THEN wipes ELSE wipes + 1)
           /\ wipe # "none" => wipes < MaxWipes
           /\ age' = [k \in Pushes |->
                        IF \/ k = "ants" /\ ~ants'
                           \/ k = "standings" /\ standings' = last.sig
                        THEN 0 ELSE age[k] + step]
           /\ skipped' = (owed' # NoTick /\ (skipped \/ behind + step > 1))
           /\ dirtyTick' \in {0, dirtyTick, tick, step, tick + step}
           /\ owed' \in {0, step, owed, tick, tick + step, NoTick}
           /\ wipe = "none" => /\ dirtyTick' \in {dirtyTick, tick, tick + step}
                               /\ owed # NoTick => owed' = owed
                               /\ owed = NoTick => \/ owed' = NoTick
                                                   \/ /\ owed' \in {tick, tick + step}
                                                      /\ dirtyTick' \in {owed', tick + step}
<1> DEFINE step == IF simPaused' THEN 0 ELSE 1
<1>1. step \in {0, 1} /\ tick \in Nat /\ tick + 0 = tick /\ 0 + step = step /\ 0 + 1 = 1 /\ 0 + 0 = 0
  BY Rates DEF TypeOK, Reachable
<1>2. /\ behind < Lag /\ ticks < MaxTicks
      /\ behind' = behind + step /\ ticks' = ticks + step /\ last' = last
      /\ standings' \in Standings /\ (wipe # "none" => wipes < MaxWipes)
      /\ wipes' = (IF wipe = "none" THEN wipes ELSE wipes + 1)
      /\ age' = [k \in Pushes |->
                   IF \/ k = "ants" /\ ~ants'
                      \/ k = "standings" /\ standings' = last.sig
                   THEN 0 ELSE age[k] + step]
      /\ skipped' = (owed' # NoTick /\ (skipped \/ behind + step > 1))
  BY DEF Turn
<1> DEFINE drained == IF wipe = "admin" THEN 0 ELSE tick
           now     == IF simPaused' THEN drained ELSE drained + 1
<1>3. PICK deployed \in BOOLEAN :
        /\ simPaused' \in BOOLEAN /\ ants' \in BOOLEAN
        /\ tick' = IF wipe = "season" THEN 0 ELSE now
        /\ dirtyTick' = IF ~simPaused' /\ (deployed \/ fallen) THEN now
                        ELSE IF msg THEN drained ELSE dirtyTick
        /\ owed' = IF wipe = "season" THEN NoTick
                   ELSE IF owed # NoTick /\ wipe = "none" THEN owed
                   ELSE IF msg THEN drained
                   ELSE IF ~simPaused' /\ (deployed \/ fallen) THEN now ELSE NoTick
  BY DEF Turn
<1>4. drained \in {0, tick} /\ now = drained + step
  BY <1>1
<1>5. /\ now \in {step, tick + step} /\ (wipe = "none" => drained = tick /\ now = tick + step)
  BY <1>1, <1>4
<1> HIDE DEF step, drained, now
<1>6. tick' \in {0, step, tick + step} /\ (wipe = "none" => tick' = tick + step)
  BY <1>1, <1>3, <1>5
<1>7. /\ dirtyTick' \in {0, dirtyTick, tick, step, tick + step}
      /\ owed' \in {0, step, owed, tick, tick + step, NoTick}
  BY <1>1, <1>3, <1>4, <1>5
<1>8. ASSUME wipe = "none"
      PROVE  /\ dirtyTick' \in {dirtyTick, tick, tick + step}
             /\ owed # NoTick => owed' = owed
             /\ owed = NoTick => \/ owed' = NoTick
                                 \/ owed' \in {tick, tick + step} /\ dirtyTick' \in {owed', tick + step}
  BY <1>3, <1>5, <1>8
<1> QED BY <1>1, <1>2, <1>3, <1>6, <1>7, <1>8

(* A cycle looks at the tick and remembers what it has decided at it.      *)
LEMMA CycleRemembers ==
  ASSUME TypeOK, Cycle
  PROVE  /\ last' \in [tick : Reachable \cup {NoTick}, tile : Reachable, ant : Reachable,
                       me : Reachable, lb : Reachable, lbSent : Reachable, stats : Reachable,
                       sig : Standings \cup {Unsent}]
         /\ last'.tick = tick
         /\ last'.tile = IF include_tiles THEN tick ELSE last.tile
         /\ last'.ant = IF Sent("ants") THEN tick ELSE last.ant
         /\ last'.me = IF send_me THEN tick ELSE last.me
         /\ last'.lb = IF lb_due THEN tick ELSE last.lb
         /\ last'.sig = IF send_lb THEN standings ELSE last.sig
         /\ last'.lbSent = IF send_lb THEN tick ELSE last.lbSent
         /\ last'.stats = IF send_stats THEN tick ELSE last.stats
<1>1. last' = [tick   |-> tick,
               tile   |-> IF include_tiles THEN tick ELSE last.tile,
               ant    |-> IF Sent("ants") THEN tick ELSE last.ant,
               me     |-> IF send_me THEN tick ELSE last.me,
               lb     |-> IF lb_due THEN tick ELSE last.lb,
               sig    |-> IF send_lb THEN standings ELSE last.sig,
               lbSent |-> IF send_lb THEN tick ELSE last.lbSent,
               stats  |-> IF send_stats THEN tick ELSE last.stats]
  BY DEF Cycle, Remember
<1>2. /\ tick \in Reachable /\ standings \in Standings /\ last.tile \in Reachable
      /\ last.ant \in Reachable /\ last.me \in Reachable /\ last.lb \in Reachable
      /\ last.lbSent \in Reachable /\ last.stats \in Reachable
      /\ last.sig \in Standings \cup {Unsent}
  BY DEF TypeOK
<1> QED BY <1>1, <1>2

-----------------------------------------------------------------------------
(* Types, wipes or not. *)

(* At boot everything is of the restored tick.                             *)
LEMMA TypesInit == Init => TypeOK /\ TicksCounted
<1> SUFFICES ASSUME Init PROVE TypeOK /\ TicksCounted
  OBVIOUS
<1>1. /\ tick \in Nat /\ tick + MaxTicks <= TickBound /\ dirtyTick = tick /\ owed = -1
      /\ ants \in BOOLEAN /\ simPaused = FALSE /\ standings \in Standings
      /\ age = [k \in Pushes |-> 0] /\ behind = 0 /\ ticks = 0 /\ wipes = 0 /\ skipped = FALSE
  BY Rates DEF Init, NoTick
<1>2. /\ 0 \in Reachable /\ tick \in Reachable
      /\ behind \in 0 .. Lag /\ ticks \in 0 .. MaxTicks /\ wipes \in 0 .. MaxWipes
  BY <1>1, Rates DEF Reachable
<1>3. last \in [tick : Reachable \cup {NoTick}, tile : Reachable, ant : Reachable,
               me : Reachable, lb : Reachable, lbSent : Reachable, stats : Reachable,
               sig : Standings \cup {Unsent}]
  BY <1>2 DEF Init
<1>4. TicksCounted
  BY <1>1, Rates DEF TicksCounted, Counted
<1>5. age \in [Pushes -> 0 .. MaxTicks]
  BY <1>1, Rates
<1>6. owed \in Reachable \cup {NoTick}
  BY DEF Init
<1> QED BY <1>1, <1>2, <1>3, <1>4, <1>5, <1>6 DEF TypeOK

(* and every step keeps it within the ticks counted.                       *)
LEMMA TypesNext == TypeOK /\ TicksCounted /\ [Next]_vars => (TypeOK /\ TicksCounted)'
<1> SUFFICES ASSUME TypeOK, TicksCounted, [Next]_vars PROVE (TypeOK /\ TicksCounted)'
  OBVIOUS
<1>0. /\ tick \in Nat /\ dirtyTick \in Nat /\ ticks \in 0 .. MaxTicks /\ behind \in 0 .. Lag
      /\ owed \in Nat \cup {NoTick} /\ wipes \in 0 .. MaxWipes
      /\ age \in [Pushes -> 0 .. MaxTicks]
      /\ Counted(tick) /\ Counted(dirtyTick) /\ Counted(owed) /\ \A k \in Pushes : age[k] <= ticks
  BY DEF TypeOK, TicksCounted, Reachable
<1>1. CASE UNCHANGED vars
  BY <1>1 DEF vars, TypeOK, TicksCounted, Counted
<1>2. ASSUME NEW msg \in BOOLEAN, NEW fallen \in BOOLEAN,
             NEW wipe \in {"none", "admin", "season"}, Turn(msg, wipe, fallen)
      PROVE  (TypeOK /\ TicksCounted)'
  <2>1. PICK step \in {0, 1} :
           /\ behind < Lag /\ ticks < MaxTicks
           /\ behind' = behind + step /\ ticks' = ticks + step /\ last' = last
           /\ ants' \in BOOLEAN /\ simPaused' \in BOOLEAN /\ standings' \in Standings
           /\ tick' \in {0, step, tick + step}
           /\ wipes' = (IF wipe = "none" THEN wipes ELSE wipes + 1)
           /\ wipe # "none" => wipes < MaxWipes
           /\ age' = [k \in Pushes |->
                        IF \/ k = "ants" /\ ~ants'
                           \/ k = "standings" /\ standings' = last.sig
                        THEN 0 ELSE age[k] + step]
           /\ skipped' = (owed' # NoTick /\ (skipped \/ behind + step > 1))
           /\ dirtyTick' \in {0, dirtyTick, tick, step, tick + step}
           /\ owed' \in {0, step, owed, tick, tick + step, NoTick}
    BY <1>2, TurnSteps
  <2>2. \A t \in {0, step, tick, dirtyTick, tick + step} :
           t \in Nat /\ t + MaxTicks <= TickBound + ticks' /\ t \in Reachable
    BY <1>0, <2>1, Rates DEF Counted, Reachable
  <2>3. \A t \in {NoTick, owed} : t + MaxTicks <= TickBound + ticks' /\ t \in Reachable \cup {NoTick}
    BY <1>0, <2>1, Rates DEF Counted, Reachable, NoTick
  <2>4. Counted(tick)' /\ Counted(dirtyTick)' /\ Counted(owed)'
    BY <2>1, <2>2, <2>3 DEF Counted
  <2>5. tick' \in Reachable /\ dirtyTick' \in Reachable /\ owed' \in Reachable \cup {NoTick}
    BY <2>1, <2>2, <2>3
  <2>6. \A k \in Pushes : age'[k] \in 0 .. MaxTicks /\ age'[k] <= ticks'
    BY <1>0, <2>1, Rates
  <2>7. behind' \in 0 .. Lag /\ ticks' \in 0 .. MaxTicks /\ wipes' \in 0 .. MaxWipes
    BY <1>0, <2>1, Rates
  <2>8. age' \in [Pushes -> 0 .. MaxTicks] /\ skipped' \in BOOLEAN
    BY <2>1, <2>6
  <2> QED BY <2>1, <2>4, <2>5, <2>6, <2>7, <2>8 DEF TypeOK, TicksCounted
<1>3. CASE Cycle
  <2>1. /\ owed' \in {owed, NoTick} /\ skipped' \in BOOLEAN /\ behind' = 0
        /\ age' = [k \in Pushes |-> IF Sent(k) THEN 0 ELSE age[k]]
        /\ tick' = tick /\ dirtyTick' = dirtyTick /\ ants' = ants /\ simPaused' = simPaused
        /\ standings' = standings /\ ticks' = ticks /\ wipes' = wipes
    BY <1>3 DEF Cycle
  <2>2. \A k \in Pushes : age'[k] \in {0, age[k]}
    BY <2>1
  <2>3. age' \in [Pushes -> 0 .. MaxTicks] /\ \A k \in Pushes : age'[k] <= ticks
    BY <1>0, <2>1, <2>2, Rates
  <2>4. Counted(owed)'
    <3>1. owed + MaxTicks <= TickBound + ticks
      BY <1>0 DEF Counted
    <3>2. NoTick + MaxTicks <= TickBound + ticks
      BY <1>0, Rates DEF NoTick
    <3> QED BY <2>1, <3>1, <3>2 DEF Counted
  <2>5. behind' \in 0 .. Lag /\ owed' \in Reachable \cup {NoTick}
    BY <2>1, Rates DEF TypeOK
  <2> QED BY <1>0, <1>3, <2>1, <2>3, <2>4, <2>5, CycleRemembers DEF TypeOK, TicksCounted, Counted
<1> QED BY <1>1, <1>2, <1>3 DEF Next

-----------------------------------------------------------------------------
(* Without wipes. *)

(* Ticks remembered are subtracted without saturating.                     *)
LEMMA Elapsed ==
  ASSUME TypeOK, NoneLater
  PROVE  /\ tick \in Nat /\ dirtyTick \in Nat /\ last.tick \in Nat \cup {NoTick}
         /\ behind \in Nat /\ \A k \in Pushes : age[k] \in Nat
         /\ owed \in Nat \cup {NoTick}
         /\ last.tile \in Nat /\ last.ant \in Nat /\ last.me \in Nat /\ last.lb \in Nat
         /\ last.lbSent \in Nat /\ last.stats \in Nat
         /\ last.tile <= tick /\ last.ant <= tick /\ last.me <= tick /\ last.lb <= tick
         /\ last.lbSent <= tick /\ last.stats <= tick
         /\ SatSub(tick, last.tile) = tick - last.tile
         /\ SatSub(tick, last.ant) = tick - last.ant
         /\ SatSub(tick, last.me) = tick - last.me
         /\ SatSub(tick, last.lb) = tick - last.lb
         /\ SatSub(tick, last.lbSent) = tick - last.lbSent
         /\ SatSub(tick, last.stats) = tick - last.stats
<1>1. /\ tick \in Nat /\ dirtyTick \in Nat /\ last.tick \in Nat \cup {NoTick}
      /\ behind \in Nat /\ \A k \in Pushes : age[k] \in Nat
      /\ owed \in Nat \cup {NoTick}
      /\ last.tile \in Nat /\ last.ant \in Nat /\ last.me \in Nat /\ last.lb \in Nat
      /\ last.lbSent \in Nat /\ last.stats \in Nat
  BY Rates DEF TypeOK, Reachable
<1>2. /\ last.tile <= tick /\ last.ant <= tick /\ last.me <= tick /\ last.lb <= tick
      /\ last.lbSent <= tick /\ last.stats <= tick
  BY DEF NoneLater, Lasts
<1>3. \A a, b \in Nat : b <= a => SatSub(a, b) = a - b
  BY DEF SatSub, Larger
<1> QED BY <1>1, <1>2, <1>3

(* At boot.                                                                *)
LEMMA InitInv == Init => IInv
<1> SUFFICES ASSUME Init PROVE IInv
  OBVIOUS
<1>0. /\ TypeOK /\ tick \in Nat /\ dirtyTick = tick /\ owed = NoTick
      /\ last.tick = NoTick /\ last.tile = 0 /\ last.ant = 0 /\ last.me = 0 /\ last.lb = 0
      /\ last.lbSent = 0 /\ last.stats = 0 /\ last.sig = Unsent
      /\ standings \in Standings /\ \A k \in Pushes : age[k] = 0
  BY TypesInit, Rates DEF Init
<1>1. NoneLater
  BY <1>0 DEF NoneLater, Lasts
<1>2. AgesKnown
  BY <1>0, Rates DEF AgesKnown, Pushes
<1>3. LooksInTime /\ CadenceKept
  BY <1>0, Rates DEF LooksInTime, CadenceKept, Pushes
<1>4. OwedMarked
  BY <1>0 DEF OwedMarked
<1> QED BY <1>0, <1>1, <1>2, <1>3, <1>4 DEF IInv

(* A turn without a wipe.                                                  *)
LEMMA TurnInv ==
  ASSUME IInv, TypeOK', NEW msg \in BOOLEAN, NEW fallen \in BOOLEAN, Turn(msg, "none", fallen)
  PROVE  IInv'
<1>1. PICK step \in {0, 1} :
         /\ behind' = behind + step /\ last' = last
         /\ standings' \in Standings /\ tick' = tick + step
         /\ age' = [k \in Pushes |->
                      IF \/ k = "ants" /\ ~ants'
                         \/ k = "standings" /\ standings' = last.sig
                      THEN 0 ELSE age[k] + step]
         /\ skipped' = (owed' # NoTick /\ (skipped \/ behind + step > 1))
         /\ dirtyTick' \in {dirtyTick, tick, tick + step}
         /\ owed # NoTick => owed' = owed
         /\ owed = NoTick => \/ owed' = NoTick
                             \/ owed' \in {tick, tick + step} /\ dirtyTick' \in {owed', tick + step}
  BY TurnSteps DEF IInv
<1>2. /\ tick \in Nat /\ dirtyTick \in Nat /\ last.tick \in Nat \cup {NoTick}
      /\ behind \in Nat /\ owed \in Nat \cup {NoTick}
      /\ last.tile \in Nat /\ last.ant \in Nat /\ last.me \in Nat /\ last.lb \in Nat
      /\ last.lbSent \in Nat /\ last.stats \in Nat
      /\ last.tile <= tick /\ last.ant <= tick /\ last.me <= tick /\ last.lb <= tick
      /\ last.lbSent <= tick /\ last.stats <= tick
  BY Elapsed DEF IInv
<1>3. /\ age["me"] \in Nat /\ age["stats"] \in Nat /\ age["ants"] \in Nat
      /\ age["standings"] \in Nat /\ age["lb"] \in Nat
  BY Elapsed DEF IInv, Pushes
<1>4. /\ age'["me"] = age["me"] + step /\ age'["stats"] = age["stats"] + step
      /\ age'["lb"] = age["lb"] + step
      /\ age'["ants"] \in {0, age["ants"] + step} /\ (~ants' => age'["ants"] = 0)
      /\ age'["standings"] \in {0, age["standings"] + step}
      /\ standings' = last.sig => age'["standings"] = 0
  BY <1>1 DEF Pushes
<1>5. NoneLater'
  <2>1. NoneLater /\ dirtyTick <= tick /\ \A f \in Lasts : last[f] \in Nat
    BY <1>2 DEF IInv, NoneLater, Lasts
  <2>2. \A f \in Lasts : last[f] <= tick + step
    BY <1>2 DEF Lasts
  <2>3. dirtyTick' <= tick + step
    BY <1>1, <1>2, <2>1
  <2>4. last.tick # NoTick => tick + step = last.tick + (behind + step)
    BY <1>2, <2>1 DEF NoneLater
  <2> QED BY <1>1, <2>2, <2>3, <2>4 DEF NoneLater
<1>6. AgesKnown'
  <2>1. AgesKnown
    BY DEF IInv
  <2> QED BY <1>1, <1>2, <1>3, <1>4, <2>1, Rates DEF AgesKnown
<1>7. Seen' => Seen /\ step = 0
  BY <1>1, <1>2 DEF Seen
<1>8. LooksInTime'
  <2> SUFFICES ASSUME Seen'
               PROVE  tick' - last'.lb < LbEvery \/ (age'["standings"] = 0 /\ age'["lb"] = 0)
    BY DEF LooksInTime
  <2>1. LooksInTime /\ Seen /\ step = 0
    BY <1>7 DEF IInv
  <2>2. tick' = tick /\ last'.lb = last.lb /\ age'["standings"] \in {0, age["standings"]}
        /\ age'["lb"] = age["lb"]
    BY <1>1, <1>2, <1>3, <1>4, <2>1
  <2> QED BY <2>1, <2>2 DEF LooksInTime
<1>9. CadenceKept'
  <2> SUFFICES ASSUME Seen'
               PROVE  /\ age'["me"] < TickRate /\ age'["stats"] < TickRate
                      /\ age'["ants"] < ant_every
    BY DEF CadenceKept, ant_every
  <2>1. /\ age["me"] < TickRate /\ age["stats"] < TickRate /\ age["ants"] < ant_every /\ step = 0
    BY <1>7 DEF IInv, CadenceKept
  <2> QED BY <1>3, <1>4, <2>1, Rates
<1>10. OwedMarked'
  <2> SUFFICES ASSUME owed' # NoTick
               PROVE  /\ last.tile <= owed' /\ owed' <= dirtyTick'
                      /\ last.tick = NoTick => tick + step <= owed' + (behind + step)
                      /\ ~skipped' => /\ tick + step <= Larger(last.tick, owed') + 1
                                      /\ last.tick < owed' + tile_every
    BY <1>1 DEF OwedMarked, tile_every
  <2>0. /\ tile_every \in Nat \ {0} /\ NoTick = -1 /\ dirtyTick <= tick
        /\ last.tick # NoTick => tick = last.tick + behind
    BY Rates DEF NoTick, IInv, NoneLater
  <2>1. CASE owed # NoTick
    <3>1. /\ owed' = owed /\ owed \in Nat /\ last.tile <= owed /\ owed <= dirtyTick
          /\ last.tick = NoTick => tick <= owed + behind
          /\ ~skipped => tick <= Larger(last.tick, owed) + 1 /\ last.tick < owed + tile_every
      BY <1>1, <1>2, <2>1 DEF IInv, OwedMarked
    <3>2. owed' <= dirtyTick'
      BY <1>1, <1>2, <2>0, <3>1
    <3>3. last.tick = NoTick => tick + step <= owed' + (behind + step)
      BY <1>2, <3>1
    <3>4. ASSUME ~skipped'
          PROVE  tick + step <= Larger(last.tick, owed') + 1 /\ last.tick < owed' + tile_every
      <4>0. ~skipped /\ ~(behind + step > 1)
        BY <1>1, <3>4, Zenon
      <4>1. ~skipped /\ behind + step <= 1
        BY <1>2, <4>0
      <4>2. CASE step = 0
        BY <1>2, <3>1, <4>1, <4>2
      <4>3. CASE step = 1
        <5>1. behind = 0
          BY <1>2, <4>1, <4>3
        <5>2. tick <= last.tick \/ tick <= owed
          BY <1>2, <2>0, <3>1, <5>1
        <5> QED BY <1>2, <2>0, <3>1, <4>1, <4>3, <5>2 DEF Larger
      <4> QED BY <4>2, <4>3
    <3> QED BY <3>1, <3>2, <3>3, <3>4
  <2>2. CASE owed = NoTick
    <3>1. owed' \in {tick, tick + step} /\ dirtyTick' \in {owed', tick + step}
      BY <1>1, <2>2
    <3>2. owed' \in Nat /\ tick <= owed' /\ owed' <= tick + step /\ owed' <= dirtyTick'
      BY <1>2, <3>1
    <3>3. last.tick <= tick
      BY <1>2, <2>0
    <3>4. last.tick \in Int
      BY <1>2, <2>0
    <3>5. tick + step <= owed' + (behind + step) /\ tick + step <= owed' + 1
      <4>1. owed' \in Nat /\ tick <= owed' /\ tick \in Nat /\ behind \in Nat /\ step \in 0 .. 1
        BY <1>2, <3>2
      <4>2. \A o, t, b \in Nat, d \in 0 .. 1 : t <= o => t + d <= o + (b + d) /\ t + d <= o + 1
        OBVIOUS
      <4> QED BY <4>1, <4>2
    <3>6. last.tick < owed' + tile_every /\ last.tile <= owed'
      BY <1>2, <2>0, <3>2, <3>3, <3>4
    <3>7. tick + step <= Larger(last.tick, owed') + 1
      BY <1>2, <3>2, <3>4, <3>5 DEF Larger
    <3> QED BY <3>2, <3>5, <3>6, <3>7
  <2> QED BY <2>1, <2>2
<1> QED BY <1>5, <1>6, <1>8, <1>9, <1>10 DEF IInv

(* A cycle.                                                                *)
LEMMA CycleInv ==
  ASSUME IInv, TypeOK', Cycle
  PROVE  IInv'
<1>0. /\ tick \in Nat /\ dirtyTick \in Nat /\ last.tick \in Nat \cup {NoTick}
      /\ behind \in Nat /\ owed \in Nat \cup {NoTick}
      /\ last.tile \in Nat /\ last.ant \in Nat /\ last.me \in Nat /\ last.lb \in Nat
      /\ last.lbSent \in Nat /\ last.stats \in Nat
      /\ last.tile <= tick /\ last.ant <= tick /\ last.me <= tick /\ last.lb <= tick
      /\ last.lbSent <= tick /\ last.stats <= tick
      /\ age["me"] \in Nat /\ age["stats"] \in Nat /\ age["ants"] \in Nat
      /\ age["standings"] \in Nat /\ age["lb"] \in Nat
  BY Elapsed DEF IInv, Pushes
<1>1. /\ last'.tick = tick
      /\ last'.tile = IF include_tiles THEN tick ELSE last.tile
      /\ last'.ant = IF Sent("ants") THEN tick ELSE last.ant
      /\ last'.me = IF send_me THEN tick ELSE last.me
      /\ last'.lb = IF lb_due THEN tick ELSE last.lb
      /\ last'.sig = IF send_lb THEN standings ELSE last.sig
      /\ last'.lbSent = IF send_lb THEN tick ELSE last.lbSent
      /\ last'.stats = IF send_stats THEN tick ELSE last.stats
  BY CycleRemembers DEF IInv
<1>2. /\ tick' = tick /\ dirtyTick' = dirtyTick /\ ants' = ants /\ standings' = standings
      /\ behind' = 0 /\ owed' = IF include_tiles THEN NoTick ELSE owed
      /\ skipped' = (skipped /\ ~include_tiles)
  BY DEF Cycle
<1>3. /\ age'["me"] = IF send_me THEN 0 ELSE age["me"]
      /\ age'["stats"] = IF send_stats THEN 0 ELSE age["stats"]
      /\ age'["ants"] = IF Sent("ants") THEN 0 ELSE age["ants"]
      /\ age'["standings"] = IF send_lb THEN 0 ELSE age["standings"]
      /\ age'["lb"] = IF send_lb THEN 0 ELSE age["lb"]
  <2>1. age' = [k \in Pushes |-> IF Sent(k) THEN 0 ELSE age[k]]
    BY DEF Cycle
  <2>2. /\ Sent("me") = send_me /\ Sent("stats") = send_stats
        /\ Sent("standings") = send_lb /\ Sent("lb") = send_lb
    BY DEF Sent
  <2> QED BY <2>1, <2>2 DEF Pushes
<1>4. /\ ~send_me => tick - last.me < TickRate
      /\ ~send_stats => tick - last.stats < TickRate
      /\ ~Sent("ants") /\ ants => tick - last.ant < ant_every
      /\ ~lb_due => tick - last.lb < LbEvery
      /\ lb_due /\ ~send_lb => standings = last.sig /\ tick - last.lbSent < Heartbeat
      /\ send_lb => lb_due
      /\ ~include_tiles /\ dirtyTick + tile_every >= tick => tick - last.tile < tile_every
  <2>1. /\ SatSub(tick, last.tile) = tick - last.tile
        /\ SatSub(tick, last.ant) = tick - last.ant
        /\ SatSub(tick, last.me) = tick - last.me
        /\ SatSub(tick, last.lb) = tick - last.lb
        /\ SatSub(tick, last.lbSent) = tick - last.lbSent
        /\ SatSub(tick, last.stats) = tick - last.stats
    BY Elapsed DEF IInv
  <2>2. \A a, b \in Int : ~(a >= b) => a < b
    OBVIOUS
  <2>3. ~send_me => tick - last.me < TickRate
    BY <1>0, <2>1, <2>2, Rates DEF send_me
  <2>4. ~send_stats => tick - last.stats < TickRate
    BY <1>0, <2>1, <2>2, Rates DEF send_stats
  <2>5. ~Sent("ants") /\ ants => tick - last.ant < ant_every
    <3>1. ~Sent("ants") => ~send_ants
      BY DEF Sent
    <3> QED BY <1>0, <2>1, <2>2, <3>1, Rates DEF send_ants
  <2>6. ~lb_due => tick - last.lb < LbEvery
    BY <1>0, <2>1, <2>2, Rates DEF lb_due
  <2>7. lb_due /\ ~send_lb => standings = last.sig /\ tick - last.lbSent < Heartbeat
    BY <1>0, <2>1, <2>2, Rates DEF send_lb, Heartbeat
  <2>8. ~include_tiles /\ dirtyTick + tile_every >= tick => tick - last.tile < tile_every
    BY <1>0, <2>1, <2>2, Rates DEF include_tiles
  <2> QED BY <2>3, <2>4, <2>5, <2>6, <2>7, <2>8 DEF send_lb
<1>5. NoneLater'
  <2>1. /\ dirtyTick <= tick /\ tick = tick + 0 /\ tick <= tick
        /\ last'.tile <= tick /\ last'.ant <= tick /\ last'.me <= tick /\ last'.lb <= tick
        /\ last'.lbSent <= tick /\ last'.stats <= tick
    BY <1>0, <1>1 DEF IInv, NoneLater
  <2> QED BY <1>1, <1>2, <2>1 DEF NoneLater, Lasts
<1>6. AgesKnown'
  <2>0. AgesKnown
    BY DEF IInv
  <2>1. age'["me"] <= tick - last'.me /\ age'["stats"] <= tick - last'.stats
    BY <1>0, <1>1, <1>3, <2>0 DEF AgesKnown
  <2>2. age'["ants"] <= tick - last'.ant /\ (~ants => age'["ants"] = 0)
    BY <1>0, <1>1, <1>3, <2>0 DEF AgesKnown
  <2>3. age'["standings"] <= tick - last'.lb
    BY <1>0, <1>1, <1>3, <1>4, <2>0 DEF AgesKnown
  <2>4. age'["lb"] <= tick - last'.lbSent
    BY <1>0, <1>1, <1>3, <2>0 DEF AgesKnown
  <2>5. standings = last'.sig => age'["standings"] = 0
    BY <1>1, <1>3, <2>0 DEF AgesKnown
  <2>6. last'.lb < last'.lbSent + Heartbeat
    BY <1>0, <1>1, <1>4, <2>0, Rates DEF AgesKnown
  <2> QED BY <1>2, <2>1, <2>2, <2>3, <2>4, <2>5, <2>6 DEF AgesKnown, Heartbeat
<1>7. LooksInTime'
  <2>1. tick - last'.lb < LbEvery
    BY <1>0, <1>1, <1>4, Rates
  <2> QED BY <1>2, <2>1 DEF LooksInTime
<1>8. CadenceKept'
  <2>0. AgesKnown
    BY DEF IInv
  <2>1. age'["me"] < TickRate /\ age'["stats"] < TickRate
    BY <1>0, <1>3, <1>4, <2>0, Rates DEF AgesKnown
  <2>2. age'["ants"] < ant_every
    BY <1>0, <1>3, <1>4, <2>0, Rates DEF AgesKnown
  <2> QED BY <2>1, <2>2 DEF CadenceKept, ant_every
<1>9. OwedMarked'
  <2> SUFFICES ASSUME owed' # NoTick
               PROVE  /\ last'.tile <= owed' /\ owed' <= dirtyTick
                      /\ last'.tick # NoTick
                      /\ ~skipped' => /\ tick <= Larger(last'.tick, owed') + 1
                                      /\ last'.tick < owed' + tile_every
    BY <1>2 DEF OwedMarked, tile_every
  <2>1. /\ ~include_tiles /\ owed' = owed /\ owed \in Nat /\ last'.tile = last.tile
        /\ last.tile <= owed /\ owed <= dirtyTick
        /\ ~skipped => tick <= Larger(last.tick, owed) + 1 /\ last.tick < owed + tile_every
    BY <1>0, <1>1, <1>2 DEF IInv, OwedMarked
  <2>2. ~skipped' => ~skipped
    BY <1>2, <2>1, Zenon
  <2>3. tick <= Larger(tick, owed) + 1
    BY <1>0, <2>1 DEF Larger
  <2>4. ASSUME ~skipped PROVE tick < owed + tile_every
    <3>1. tick <= owed + tile_every
      <4>1. tick <= last.tick + 1 \/ tick <= owed + 1
        BY <1>0, <2>1, <2>4 DEF Larger
      <4>2. last.tick \in Int /\ tile_every \in Nat \ {0}
        BY <1>0, Rates
      <4> QED BY <1>0, <2>1, <2>4, <4>1, <4>2
    <3>2. tick # owed + tile_every
      BY <1>0, <1>4, <2>1, Rates
    <3> QED BY <1>0, <2>1, <3>1, <3>2, Rates
  <2>5. tick # NoTick
    BY <1>0, Rates
  <2> QED BY <1>1, <2>1, <2>2, <2>3, <2>4, <2>5
<1> QED BY <1>5, <1>6, <1>7, <1>8, <1>9 DEF IInv

-----------------------------------------------------------------------------
(* The results. *)

(* Ticks, marks and ages are bounded by the ticks counted.                 *)
THEOREM TypeCorrect == Spec => []TypeOK
<1>1. Spec => [](TypeOK /\ TicksCounted)
  BY TypesInit, TypesNext, PTL DEF Spec
<1> QED BY <1>1, PTL

(* Every step but a wipe preserves the inductive invariant.                *)
LEMMA NextInv ==
  ASSUME MaxWipes = 0
  PROVE  IInv /\ TypeOK' /\ [Next]_vars => IInv'
<1> SUFFICES ASSUME IInv, TypeOK', [Next]_vars PROVE IInv'
  OBVIOUS
<1>1. CASE UNCHANGED vars
  BY <1>1 DEF vars, IInv, NoneLater, AgesKnown, LooksInTime, CadenceKept, OwedMarked, Seen
<1>2. ASSUME NEW msg \in BOOLEAN, NEW fallen \in BOOLEAN,
             NEW wipe \in {"none", "admin", "season"}, Turn(msg, wipe, fallen)
      PROVE  IInv'
  <2>1. wipe = "none"
    BY <1>2 DEF Turn, IInv, TypeOK
  <2> QED BY <1>2, <2>1, TurnInv
<1>3. CASE Cycle
  BY <1>3, CycleInv
<1> QED BY <1>1, <1>2, <1>3 DEF Next

(* It holds throughout a server's life in which nothing is wiped.          *)
THEOREM Invariance ==
  ASSUME MaxWipes = 0
  PROVE  Spec => []IInv
<1> QED BY InitInv, NextInv, TypeCorrect, PTL DEF Spec

(* viewport_loop passes no change over: tile_every ticks after it a tile   *)
(* frame has shown it, if no tick went by unseen.                          *)
THEOREM UpdatesShown ==
  ASSUME MaxWipes = 0
  PROVE  Spec => []NoLostUpdate
<1>1. IInv => NoLostUpdate
  BY DEF IInv, OwedMarked, NoLostUpdate
<1> QED BY <1>1, Invariance, PTL

(* After every cycle of viewport_loop `me`, stats and ants are as fresh as *)
(* their rates promise.                                                    *)
THEOREM CadenceHolds ==
  ASSUME MaxWipes = 0
  PROVE  Spec => []CadenceKept
<1>1. IInv => CadenceKept
  BY DEF IInv
<1> QED BY <1>1, Invariance, PTL

(* The standings viewport_loop has broadcast are out of date for less than *)
(* one look's time, and the heartbeat is late by less than that.           *)
THEOREM LeaderboardHolds ==
  ASSUME MaxWipes = 0
  PROVE  Spec => []LeaderboardFresh
<1>1. IInv => LeaderboardFresh
  <2> SUFFICES ASSUME IInv, Seen
               PROVE  /\ age["standings"] < LbEvery
                      /\ age["lb"] < Heartbeat + LbEvery - 1
    BY DEF LeaderboardFresh, Heartbeat
  <2>0. /\ tick \in Nat /\ last.lb \in Nat /\ last.lbSent \in Nat
        /\ age["standings"] \in Nat /\ age["lb"] \in Nat
    BY Elapsed DEF IInv, Pushes
  <2>1. /\ age["standings"] <= tick - last.lb /\ age["lb"] <= tick - last.lbSent
        /\ last.lb < last.lbSent + Heartbeat
        /\ tick - last.lb < LbEvery \/ (age["standings"] = 0 /\ age["lb"] = 0)
    BY DEF IInv, AgesKnown, LooksInTime
  <2> QED BY <2>0, <2>1, Rates
<1> QED BY <1>1, Invariance, PTL
=============================================================================
