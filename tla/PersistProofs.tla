----------------------------- MODULE PersistProofs -----------------------------
(***************************************************************************)
(* Proofs about what survives a restart, for any number of names, detached *)
(* writers and restarts, on disks that may fail at every step.             *)
(***************************************************************************)
EXTENDS Persist, TLAPS

-----------------------------------------------------------------------------
(* The inductive invariant. *)

Mishaps == {"overlap", "failed", "torn", "unsaved", "split", "twice"}
None(these) == these \cap mishaps = {}

(* Who holds the lock decides how far the save under it has come.          *)
LockHeld ==
  /\ lock.at = "free" => lock.by = "none"
  /\ lock.at \in {"snapshot", "accounts"} => lock.by \in {"wipe", "shutdown"}
  /\ lock.at = "snapshot" <=> Busy("save")

(* One writer at a time, on the temp file it has made, and no detached one *)
(* beside a save under the lock.                                           *)
OneWriter ==
  None({"overlap"}) =>
    /\ \A v, w \in Writers : Busy(v) /\ Busy(w) => v = w
    /\ \A w \in Writers : writer[w].at = "fill" => writer[w].on = "tmp" /\ file["tmp"] = Torn
    /\ \A w \in Writers : writer[w].at = "rename" => file["tmp"] = writer[w].snap
    /\ lock.by \in {"wipe", "shutdown"} => \A w \in Autosavers : ~Busy(w)

(* What is saved, or about to be, is never older than what has been.       *)
Stamp(w) == w.stamp <= clock /\ (w.stamp = 0 => w = Fresh)

StampsAhead ==
  /\ world.stamp = 0 => world = Fresh
  /\ \A f \in {"live", "tmp"} : file[f] \in Worlds => Stamp(file[f])
  /\ \A w \in Writers : Busy(w) => writer[w].snap.stamp <= world.stamp
  /\ \A w \in Writers : Busy(w) /\ writer[w].snap.stamp = 0 => writer[w].snap = Fresh
  /\ None({"overlap"}) =>
       world.stamp >= kept /\ \A w \in Writers : Busy(w) => writer[w].snap.stamp >= kept

(* How far the shutdown has come. *)
ShutdownSaves ==
  None({"overlap", "failed"}) /\ lock.by = "shutdown" =>
    /\ lock.at = "snapshot" => writer["save"].snap = world
    /\ lock.at \in {"accounts", "users"} => file["live"] = world

(* The players of a world belong to accounts, *)
Filed(w, a) == w.players \subseteq Range(a.users)

(* those of the file to the accounts in theirs, or to those about to be    *)
(* saved there; a wipe saves the empty world first.                        *)
PlayersFiled ==
  None({"overlap", "torn", "failed"}) =>
    /\ Filed(world, auth)
    /\ \A w \in Writers : Busy(w) => Filed(writer[w].snap, auth)
    /\ usersFile = Torn <=> lock.at = "users"
    /\ IF lock.at = "users" THEN Filed(Loaded, auth) ELSE Filed(Loaded, LoadUsers)
    /\ lock.at = "free" \/ (lock.by = "shutdown" /\ lock.at # "users") =>
         LoadUsers.users = auth.users
    /\ lock.at = "snapshot" /\ lock.by = "wipe" => writer["save"].snap.players = {}
    /\ lock.at = "accounts" /\ lock.by = "wipe" => Loaded.players = {}

(* A starter credit was paid to an account that knows of it.               *)
Unshared(a, n) == \A m \in Names \ {n} : a.users[m] # a.users[n]

Paid(w, a) ==
  /\ w.paid \subseteq Range(a.users)
  /\ \A n \in Names : Unshared(a, n) /\ a.users[n] \in w.paid => n \in a.peaks

CreditsFiled ==
  None({"overlap", "torn", "failed", "split"}) =>
    /\ "twice" \notin mishaps
    /\ Paid(world, auth)
    /\ \A w \in Writers : Busy(w) => Paid(writer[w].snap, auth)
    /\ IF lock.at \in {"users", "accounts"} THEN Paid(Loaded, auth) ELSE Paid(Loaded, LoadUsers)
    /\ lock.at # "users" => \A w \in Autosavers : Busy(w) => Paid(writer[w].snap, LoadUsers)

IInv ==
  /\ TypeOK /\ LockHeld /\ OneWriter /\ StampsAhead /\ ShutdownSaves
  /\ NewestSave /\ AccountsDurable /\ IdsOwnUnlessLost /\ PlayersFiled /\ CreditsFiled

-----------------------------------------------------------------------------
(* Files, accounts and writers. *)

(* What load makes of the files is a world and accounts.                   *)
LEMMA FilesTyped ==
  ASSUME TypeOK
  PROVE  /\ Loaded \in Worlds /\ LoadUsers \in Accounts
         /\ Fresh \in Worlds /\ NoUsers \in Accounts
         /\ \A w \in Worlds : w # NoFile /\ w # Torn
         /\ \A a \in Accounts : a # NoFile /\ a # Torn
<1>1. FirstId \in Nat \ {0} /\ MaxIds \in Nat /\ MaxStamp \in Nat
  BY PersistAssumption
<1>2. Fresh \in Worlds
  BY <1>1 DEF Fresh, Worlds
<1>3. NoUsers \in Accounts
  BY DEF NoUsers, Accounts
<1>4. Loaded \in Worlds
  BY <1>2 DEF Loaded, TypeOK
<1>5. LoadUsers \in Accounts
  BY <1>3 DEF LoadUsers, TypeOK
<1> QED BY <1>2, <1>3, <1>4, <1>5, FilesAssumption

(* Mishaps are never forgotten.                                            *)
LEMMA Mended ==
  ASSUME NEW these, mishaps \subseteq mishaps', None(these)'
  PROVE  None(these)
  BY DEF None

(* Worlds stay filed while the accounts only grow.                         *)
LEMMA FiledGrows ==
  ASSUME NEW w \in Worlds, NEW a \in Accounts, NEW b \in Accounts, Grows(a, b)
  PROVE  /\ Filed(w, a) => Filed(w, b)
         /\ Paid(w, a) => Paid(w, b)
<1>0. /\ w.players \subseteq Ids /\ w.paid \subseteq Ids
      /\ a.users \in [Names -> Ids \cup {NoId}] /\ b.users \in [Names -> Ids \cup {NoId}]
      /\ NoId \notin Ids
  BY PersistAssumption DEF Worlds, Accounts, Ids, NoId
<1>1. \A i \in Ids : i \in Range(a.users) => i \in Range(b.users)
  <2> SUFFICES ASSUME NEW i \in Ids, NEW n \in Names, a.users[n] = i PROVE i \in Range(b.users)
    BY <1>0 DEF Range
  <2>1. b.users[n] = i
    BY <1>0 DEF Grows
  <2> QED BY <1>0, <2>1 DEF Range
<1>2. Filed(w, a) => Filed(w, b)
  BY <1>0, <1>1 DEF Filed
<1>3. ASSUME Paid(w, a) PROVE Paid(w, b)
  <2>1. w.paid \subseteq Range(b.users)
    BY <1>0, <1>1, <1>3 DEF Paid
  <2>2. ASSUME NEW n \in Names, Unshared(b, n), b.users[n] \in w.paid
        PROVE  n \in b.peaks
    <3>1. PICK m \in Names : a.users[m] = b.users[n]
      BY <1>0, <1>3, <2>2 DEF Paid, Range
    <3>2. b.users[m] = b.users[n]
      BY <1>0, <2>2, <3>1 DEF Grows
    <3>3. m = n
      BY <2>2, <3>2 DEF Unshared
    <3>4. Unshared(a, n)
      BY <1>0, <2>2, <3>1, <3>3 DEF Unshared, Grows
    <3> QED BY <1>3, <2>2, <3>1, <3>3, <3>4 DEF Paid, Grows
  <2> QED BY <2>1, <2>2 DEF Paid
<1> QED BY <1>2, <1>3

(* A writer's next step is one a writer can be at.                         *)
Runs == [at : {"off", "create", "fill", "rename"}, snap : Worlds,
         on : {"none", "tmp", "live", "unlinked"}]

(* One writer moves, the others stay.                                      *)
LEMMA WriterMoves ==
  ASSUME TypeOK, NEW w \in Writers, NEW r \in Runs, writer' = [writer EXCEPT ![w] = r]
  PROVE  /\ writer' \in [Writers -> Runs] /\ writer'[w] = r
         /\ \A v \in Writers \ {w} : writer'[v] = writer[v] /\ Busy(v)' = Busy(v)
  BY DEF TypeOK, Runs, Busy

-----------------------------------------------------------------------------
(* Initially. *)

(* The first boot: no files and no accounts.                               *)
LEMMA InitInv == Init => IInv
<1> SUFFICES ASSUME Init PROVE IInv
  OBVIOUS
<1>0. /\ auth = NoUsers /\ world = Fresh /\ lock = [at |-> "free", by |-> "none"]
      /\ file = [f \in {"live", "tmp"} |-> NoFile] /\ usersFile = NoFile
      /\ writer = [w \in Writers |-> Off] /\ clock = 0 /\ kept = 0 /\ wiped = 0
      /\ mishaps = {} /\ flushed = {} /\ restarts = 0
      /\ FirstId \in Nat \ {0} /\ MaxIds \in Nat /\ MaxStamp \in Nat /\ MaxRestarts \in Nat
  BY PersistAssumption DEF Init, Free
<1>1. Fresh \in Worlds /\ NoUsers \in Accounts
  BY <1>0 DEF Fresh, Worlds, NoUsers, Accounts
<1>2. Off \in [at : {"off", "create", "fill", "rename"}, snap : Worlds,
              on : {"none", "tmp", "live", "unlinked"}]
  BY <1>1 DEF Off
<1>3. TypeOK
  BY <1>0, <1>1, <1>2 DEF TypeOK, Fresh
<1>4. \A w \in Writers : ~Busy(w) /\ writer[w].at = "off"
  BY <1>0 DEF Busy, Off
<1>5. LockHeld
  BY <1>0, <1>4 DEF LockHeld, Writers
<1>6. OneWriter /\ StampsAhead
  BY <1>0, <1>4, FilesAssumption DEF OneWriter, StampsAhead, Fresh
<1>7. ShutdownSaves /\ NewestSave
  BY <1>0 DEF ShutdownSaves, NewestSave
<1>8. LoadUsers = NoUsers /\ Loaded = Fresh
  BY <1>0 DEF LoadUsers, Loaded
<1>9. AccountsDurable
  BY <1>0, <1>8 DEF AccountsDurable
<1>10. IdsOwnUnlessLost
  BY <1>0 DEF IdsOwnUnlessLost, IdsDistinct, IdOf, NoUsers, Fresh, NoId
<1>11. Filed(Fresh, NoUsers) /\ Paid(Fresh, NoUsers)
  BY DEF Filed, Paid, Fresh
<1>12. PlayersFiled
  BY <1>0, <1>4, <1>8, <1>11, FilesAssumption DEF PlayersFiled
<1>13. CreditsFiled
  BY <1>0, <1>4, <1>8, <1>11 DEF CreditsFiled, Writers
<1> QED BY <1>3, <1>5, <1>6, <1>7, <1>9, <1>10, <1>12, <1>13 DEF IInv

-----------------------------------------------------------------------------
(* Steps of the sim under a free lock: memory grows, and users.json may    *)
(* begin to be written.                                                    *)
LEMMA MemoryInv ==
  ASSUME IInv, lock = Free,
         file' = file, kept' = kept, writer' = writer, wiped' = wiped,
         restarts' = restarts, flushed' = flushed,
         auth' \in Accounts, Grows(auth, auth'),
         world' \in Worlds, clock' \in 0 .. MaxStamp,
         \/ clock' = clock /\ world' = world
         \/ clock' = clock + 1 /\ world'.stamp = clock',
         mishaps \subseteq mishaps', mishaps' \subseteq mishaps \cup {"twice"},
         \/ lock' = Free /\ usersFile' = usersFile /\ auth'.users = auth.users
         \/ lock' \in [at : {"users"}, by : {"account", "autosave"}] /\ usersFile' = Torn,
         IdsOwnUnlessLost',
         None({"overlap", "torn", "failed"}) => Filed(world', auth'),
         None({"overlap", "torn", "failed", "split"}) => "twice" \notin mishaps' /\ Paid(world', auth')
  PROVE  IInv'
<1>0. /\ TypeOK /\ lock.at = "free" /\ lock.by = "none"
      /\ Loaded \in Worlds /\ LoadUsers \in Accounts
      /\ \A w \in Worlds : w # NoFile /\ w # Torn
      /\ \A a \in Accounts : a # NoFile /\ a # Torn
  BY FilesTyped DEF IInv, Free
<1>1. /\ Loaded' = Loaded /\ \A these : None(these)' => None(these)
      /\ \A w \in Writers : Busy(w)' = Busy(w)
  BY DEF Loaded, None, Busy
<1>2. clock \in Nat /\ clock' \in Nat /\ clock <= clock' /\ kept <= clock /\ wiped <= clock
      /\ kept \in Nat /\ wiped \in Nat /\ world.stamp \in Nat /\ world.stamp <= clock
  BY <1>0, PersistAssumption DEF TypeOK, Worlds
<1>3. /\ lock' \in [at : {"free", "snapshot", "accounts", "users"},
                    by : {"none", "account", "autosave", "wipe", "shutdown"}]
      /\ lock'.at \in {"free", "users"} /\ lock'.by \notin {"wipe", "shutdown"}
      /\ lock'.at = "free" => /\ lock'.by = "none" /\ usersFile' = usersFile
                              /\ auth'.users = auth.users /\ LoadUsers' = LoadUsers
      /\ lock'.at = "users" => usersFile' = Torn
  BY <1>0 DEF Free, LoadUsers
<1>4. usersFile' \in {NoFile, Torn} \cup Accounts
  BY <1>0 DEF TypeOK
<1>5. kept' \in 0 .. clock' /\ wiped' \in 0 .. clock' /\ world'.stamp <= clock'
  BY <1>2
<1>6. TypeOK'
  BY <1>0, <1>3, <1>4, <1>5 DEF TypeOK
<1>7. LockHeld'
  BY <1>0, <1>1, <1>3 DEF IInv, LockHeld, Writers
<1>8. OneWriter'
  <2>1. OneWriter
    BY DEF IInv
  <2> QED BY <1>1, <1>3, <2>1 DEF OneWriter
<1>9. StampsAhead'
  <2>1. StampsAhead
    BY DEF IInv
  <2>2. world'.stamp = 0 => world' = world
    BY <1>2
  <2>3. world'.stamp \in Nat /\ world.stamp <= world'.stamp
    BY <1>2 DEF Worlds
  <2>4. world.stamp >= kept => world'.stamp >= kept
    BY <1>2, <2>3
  <2>5. \A w \in Writers : Busy(w)' => writer'[w].snap.stamp <= world'.stamp
    <3>1. \A w \in Writers : writer[w].snap.stamp \in Nat
      BY <1>0, PersistAssumption DEF TypeOK, Worlds
    <3> QED BY <1>1, <1>2, <2>1, <2>3, <3>1 DEF StampsAhead
  <2>6. \A w \in Worlds : Stamp(w) => Stamp(w)'
    BY <1>2, PersistAssumption DEF Stamp, Worlds
  <2> QED BY <1>1, <2>1, <2>2, <2>4, <2>5, <2>6 DEF StampsAhead
<1>10. ShutdownSaves'
  BY <1>3 DEF ShutdownSaves
<1>11. NewestSave'
  BY <1>1 DEF IInv, NewestSave, None
<1>12. AccountsDurable'
  BY <1>0, <1>1, <1>3 DEF IInv, AccountsDurable, Grows
<1>13. \A w \in Writers : writer[w].snap \in Worlds
  BY <1>0 DEF TypeOK
<1>14. auth \in Accounts
  BY <1>0 DEF TypeOK
<1>15. PlayersFiled'
  <2> SUFFICES ASSUME None({"overlap", "torn", "failed"})'
               PROVE  /\ Filed(world, auth)'
                      /\ \A w \in Writers : Busy(w)' => Filed(writer[w].snap, auth)'
                      /\ usersFile' = Torn <=> lock'.at = "users"
                      /\ IF lock'.at = "users" THEN Filed(Loaded, auth)' ELSE Filed(Loaded, LoadUsers)'
                      /\ lock'.at = "free" => LoadUsers'.users = auth'.users
    BY <1>3 DEF PlayersFiled
  <2>1. /\ \A w \in Writers : Busy(w) => Filed(writer[w].snap, auth)
        /\ usersFile # Torn /\ Filed(Loaded, LoadUsers) /\ LoadUsers.users = auth.users
    BY <1>0, <1>1 DEF IInv, PlayersFiled
  <2>2. Filed(world, auth)'
    BY <1>1 DEF Filed
  <2>3. \A w \in Writers : Busy(w)' => Filed(writer[w].snap, auth)'
    BY <1>1, <1>13, <1>14, <2>1, FiledGrows DEF Filed
  <2>4. Filed(Loaded, auth)'
    <3>1. Filed(Loaded, auth)
      BY <2>1 DEF Filed
    <3> QED BY <1>0, <1>1, <1>14, <3>1, FiledGrows DEF Filed
  <2>5. lock'.at = "free" => Filed(Loaded, LoadUsers)' /\ LoadUsers'.users = auth'.users
    BY <1>1, <1>3, <2>1 DEF Filed
  <2> QED BY <1>3, <2>1, <2>2, <2>3, <2>4, <2>5
<1>16. CreditsFiled'
  <2> SUFFICES ASSUME None({"overlap", "torn", "failed", "split"})'
               PROVE  /\ "twice" \notin mishaps'
                      /\ Paid(world, auth)'
                      /\ \A w \in Writers : Busy(w)' => Paid(writer[w].snap, auth)'
                      /\ IF lock'.at = "users" THEN Paid(Loaded, auth)' ELSE Paid(Loaded, LoadUsers)'
                      /\ lock'.at # "users" => \A w \in Autosavers :
                            Busy(w)' => Paid(writer[w].snap, LoadUsers)'
    BY <1>3 DEF CreditsFiled
  <2>1. None({"overlap", "torn", "failed", "split"}) /\ None({"overlap", "torn", "failed"})
    BY <1>1 DEF None
  <2>2. /\ \A w \in Writers : Busy(w) => Paid(writer[w].snap, auth)
        /\ Paid(Loaded, LoadUsers)
        /\ \A w \in Autosavers : Busy(w) => Paid(writer[w].snap, LoadUsers)
    BY <1>0, <2>1 DEF IInv, CreditsFiled
  <2>3. "twice" \notin mishaps' /\ Paid(world, auth)'
    BY <2>1 DEF Paid, Unshared
  <2>4. \A w \in Writers : Busy(w)' => Paid(writer[w].snap, auth)'
    BY <1>1, <1>13, <1>14, <2>2, FiledGrows DEF Paid, Unshared
  <2>5. Grows(LoadUsers, auth')
    <3>1. AccountsDurable
      BY DEF IInv
    <3>2. "failed" \notin mishaps
      BY <2>1 DEF None
    <3> QED BY <1>0, <3>1, <3>2 DEF AccountsDurable, Grows
  <2>6. Paid(Loaded, auth)'
    BY <1>0, <1>1, <2>2, <2>5, FiledGrows DEF Paid, Unshared
  <2>7. lock'.at = "free" => /\ Paid(Loaded, LoadUsers)'
                             /\ \A w \in Autosavers :
                                  Busy(w)' => Paid(writer[w].snap, LoadUsers)'
    BY <1>1, <1>3, <2>2 DEF Paid, Unshared, Writers
  <2> QED BY <1>3, <2>3, <2>4, <2>6, <2>7
<1> QED BY <1>6, <1>7, <1>8, <1>9, <1>10, <1>11, <1>12, <1>15, <1>16 DEF IInv

(* What the steps below start from.                                        *)
LEMMA MemoryFacts ==
  ASSUME IInv
  PROVE  /\ TypeOK /\ auth \in Accounts /\ world \in Worlds
         /\ clock \in 0 .. MaxStamp
         /\ FirstId \in Nat \ {0} /\ MaxIds \in Nat /\ MaxStamp \in Nat
         /\ Grows(auth, auth)
         /\ None({"overlap", "torn", "failed"}) => Filed(world, auth)
         /\ None({"overlap", "torn", "failed", "split"}) => "twice" \notin mishaps /\ Paid(world, auth)
         /\ IdsOwnUnlessLost
<1>1. Grows(auth, auth)
  BY DEF Grows
<1> QED BY <1>1, PersistAssumption DEF IInv, TypeOK, PlayersFiled, CreditsFiled

(* A fresh stamp on a world of the right kind.                             *)
LEMMA StampedWorld ==
  ASSUME NEW w \in Worlds, Stamped(w), clock \in 0 .. MaxStamp, MaxStamp \in Nat
  PROVE  /\ clock' = clock + 1 /\ clock' \in 0 .. MaxStamp
         /\ world' \in Worlds /\ world'.stamp = clock'
         /\ world'.nextId = w.nextId /\ world'.players = w.players /\ world'.paid = w.paid
  BY DEF Stamped, Worlds

(* A tick, or an NPC takes the next id.                                    *)
LEMMA PlayInv ==
  ASSUME IInv, NEW ids \in 0 .. 1, Play(ids)
  PROVE  IInv'
<1> DEFINE w == [world EXCEPT !.nextId = @ + ids]
<1>0. /\ world.nextId + ids <= FirstId + MaxIds /\ Stamped(w) /\ lock = Free
      /\ auth' = auth /\ lock' = lock /\ file' = file /\ usersFile' = usersFile /\ kept' = kept
      /\ writer' = writer /\ wiped' = wiped /\ mishaps' = mishaps
      /\ restarts' = restarts /\ flushed' = flushed
  BY DEF Play, disk
<1>1. world \in Worlds /\ clock \in 0 .. MaxStamp /\ MaxStamp \in Nat /\ FirstId \in Nat
      /\ MaxIds \in Nat /\ TypeOK
  BY MemoryFacts
<1>2. w \in Worlds /\ w.players = world.players /\ w.paid = world.paid /\ w.nextId = world.nextId + ids
  BY <1>0, <1>1 DEF Worlds
<1> HIDE DEF w
<1>3. /\ clock' = clock + 1 /\ clock' \in 0 .. MaxStamp
      /\ world' \in Worlds /\ world'.stamp = clock'
      /\ world'.nextId = world.nextId + ids /\ world'.players = world.players /\ world'.paid = world.paid
  BY <1>0, <1>1, <1>2, StampedWorld
<1>4. IdsOwnUnlessLost'
  <2>1. world.nextId \in Nat /\ auth.users \in [Names -> Nat]
    BY <1>1 DEF TypeOK, Worlds, Accounts, Ids, NoId
  <2> QED BY <1>0, <1>3, <2>1, MemoryFacts DEF IdsOwnUnlessLost, IdsDistinct, IdOf
<1> QED BY <1>0, <1>3, <1>4, MemoryFacts, MemoryInv DEF Filed, Paid

(* An account is registered under the next id, and saved.                  *)
LEMMA RegisterInv ==
  ASSUME IInv, NEW n \in Names, Register(n)
  PROVE  IInv'
<1> DEFINE i == world.nextId
           w == [world EXCEPT !.nextId = @ + 1, !.players = @ \cup {i}]
<1>0. /\ lock = Free /\ IdOf(n) = NoId /\ i \in Ids /\ Stamped(w)
      /\ auth' = [auth EXCEPT !.users[n] = i]
      /\ lock' = [at |-> "users", by |-> "account"] /\ usersFile' = Torn
      /\ file' = file /\ kept' = kept
      /\ writer' = writer /\ wiped' = wiped /\ mishaps' = mishaps
      /\ restarts' = restarts /\ flushed' = flushed
  BY DEF Register, BeginUsers
<1>1. world \in Worlds /\ clock \in 0 .. MaxStamp /\ MaxStamp \in Nat /\ FirstId \in Nat \ {0}
      /\ MaxIds \in Nat /\ TypeOK /\ auth \in Accounts
  BY MemoryFacts
<1>2. w \in Worlds /\ w.players = world.players \cup {i} /\ w.paid = world.paid /\ w.nextId = i + 1
  <2>1. i + 1 \in FirstId .. FirstId + MaxIds
    BY <1>0, <1>1 DEF Ids
  <2>2. world.players \cup {i} \subseteq Ids
    BY <1>0, <1>1 DEF Worlds
  <2> QED BY <1>1, <2>1, <2>2 DEF Worlds
<1>3. /\ auth' \in Accounts /\ auth'.peaks = auth.peaks /\ auth'.banned = auth.banned
      /\ auth.users \in [Names -> Ids \cup {NoId}] /\ auth'.users = [auth.users EXCEPT ![n] = i]
  BY <1>0, <1>1 DEF Accounts
<1> HIDE DEF w
<1>4. /\ clock' = clock + 1 /\ clock' \in 0 .. MaxStamp
      /\ world' \in Worlds /\ world'.stamp = clock'
      /\ world'.nextId = i + 1 /\ world'.players = world.players \cup {i} /\ world'.paid = world.paid
  BY <1>0, <1>1, <1>2, StampedWorld
<1>5. Grows(auth, auth')
  BY <1>0, <1>3 DEF Grows, IdOf
<1>6. IdsOwnUnlessLost'
  <2>1. i \in Nat /\ i # NoId /\ \A m \in Names : auth.users[m] \in Nat
    BY <1>0, <1>1, <1>3 DEF Ids, NoId
  <2>2. \A m \in Names : auth'.users[m] = IF m = n THEN i ELSE auth.users[m]
    BY <1>3
  <2> QED BY <1>0, <1>4, <2>1, <2>2, MemoryFacts DEF IdsOwnUnlessLost, IdsDistinct, IdOf
<1>7. None({"overlap", "torn", "failed"}) => Filed(world', auth')
  <2>1. Filed(world, auth) => Filed(world, auth')
    BY <1>1, <1>3, <1>5, FiledGrows
  <2>2. i \in Range(auth'.users)
    BY <1>3 DEF Range
  <2> QED BY <1>4, <2>1, <2>2, MemoryFacts DEF Filed
<1>8. None({"overlap", "torn", "failed", "split"}) => "twice" \notin mishaps' /\ Paid(world', auth')
  <2>1. Paid(world, auth) => Paid(world, auth')
    BY <1>1, <1>3, <1>5, FiledGrows
  <2> QED BY <1>0, <1>4, <2>1, MemoryFacts DEF Paid
<1>9. lock' \in [at : {"users"}, by : {"account", "autosave"}]
  BY <1>0
<1> QED BY <1>0, <1>3, <1>4, <1>5, <1>6, <1>7, <1>8, <1>9, MemoryInv

(* A login makes the player the snapshot did not hold, or files the peak   *)
(* reached meanwhile.                                                      *)
LEMMA LoginInv ==
  ASSUME IInv, NEW n \in Names, Login(n)
  PROVE  IInv'
<1>0. /\ lock = Free /\ IdOf(n) # NoId
      /\ file' = file /\ kept' = kept
      /\ writer' = writer /\ wiped' = wiped /\ mishaps' = mishaps
      /\ restarts' = restarts /\ flushed' = flushed
  BY DEF Login
<1>1. world \in Worlds /\ clock \in 0 .. MaxStamp /\ MaxStamp \in Nat /\ FirstId \in Nat \ {0}
      /\ MaxIds \in Nat /\ TypeOK /\ auth \in Accounts /\ auth.users \in [Names -> Ids \cup {NoId}]
  BY MemoryFacts DEF Accounts
<1>2. CASE IdOf(n) \notin world.players
  <2> DEFINE w == [world EXCEPT !.players = @ \cup {IdOf(n)}]
  <2>0. Stamped(w) /\ auth' = auth /\ lock' = lock /\ usersFile' = usersFile
    BY <1>2 DEF Login
  <2>1. IdOf(n) \in Ids /\ IdOf(n) \in Range(auth.users)
    BY <1>0, <1>1 DEF IdOf, Range
  <2>2. w \in Worlds /\ w.players = world.players \cup {IdOf(n)} /\ w.paid = world.paid
        /\ w.nextId = world.nextId
    BY <1>1, <2>1 DEF Worlds
  <2> HIDE DEF w
  <2>3. /\ clock' = clock + 1 /\ clock' \in 0 .. MaxStamp
        /\ world' \in Worlds /\ world'.stamp = clock' /\ world'.nextId = world.nextId
        /\ world'.players = world.players \cup {IdOf(n)} /\ world'.paid = world.paid
    BY <1>1, <2>0, <2>2, StampedWorld
  <2>4. IdsOwnUnlessLost'
    BY <1>0, <2>0, <2>3, MemoryFacts DEF IdsOwnUnlessLost, IdsDistinct, IdOf
  <2> QED BY <1>0, <2>0, <2>1, <2>3, <2>4, MemoryFacts, MemoryInv DEF Filed, Paid
<1>3. CASE IdOf(n) \in world.players
  <2>0. /\ Stamped(world) /\ auth' = [auth EXCEPT !.peaks = @ \cup {n}]
        /\ lock' = [at |-> "users", by |-> "account"] /\ usersFile' = Torn
    BY <1>3 DEF Login, BeginUsers
  <2>1. /\ auth' \in Accounts /\ auth'.users = auth.users
        /\ auth.peaks \subseteq auth'.peaks /\ auth'.banned = auth.banned
    BY <1>1, <2>0 DEF Accounts
  <2>2. /\ clock' = clock + 1 /\ clock' \in 0 .. MaxStamp
        /\ world' \in Worlds /\ world'.stamp = clock' /\ world'.nextId = world.nextId
        /\ world'.players = world.players /\ world'.paid = world.paid
    BY <1>1, <2>0, StampedWorld
  <2>3. Grows(auth, auth')
    BY <2>1 DEF Grows
  <2>4. IdsOwnUnlessLost'
    BY <1>0, <2>1, <2>2, MemoryFacts DEF IdsOwnUnlessLost, IdsDistinct, IdOf
  <2>5. lock' \in [at : {"users"}, by : {"account", "autosave"}]
    BY <2>0
  <2>6. /\ Filed(world, auth) => Filed(world', auth')
        /\ Paid(world, auth) => Paid(world', auth')
    BY <2>1, <2>2 DEF Filed, Paid, Unshared
  <2> QED BY <1>0, <2>0, <2>1, <2>2, <2>3, <2>4, <2>5, <2>6, MemoryFacts, MemoryInv
<1> QED BY <1>2, <1>3

(* The starter credit is paid and the peak noted.                          *)
LEMMA RiseInv ==
  ASSUME IInv, NEW n \in Names, Rise(n)
  PROVE  IInv'
<1> DEFINE w == [world EXCEPT !.paid = @ \cup {IdOf(n)}]
<1>0. /\ lock = Free /\ IdOf(n) \in world.players /\ Unshared(auth, n) /\ n \notin auth.peaks
      /\ auth' = [auth EXCEPT !.peaks = @ \cup {n}] /\ Stamped(w)
      /\ mishaps' = IF IdOf(n) \in world.paid THEN mishaps \cup {"twice"} ELSE mishaps
      /\ lock' = lock /\ file' = file /\ usersFile' = usersFile /\ kept' = kept
      /\ writer' = writer /\ wiped' = wiped /\ restarts' = restarts /\ flushed' = flushed
  BY DEF Rise, disk, Unshared, IdOf
<1>1. world \in Worlds /\ clock \in 0 .. MaxStamp /\ MaxStamp \in Nat
      /\ TypeOK /\ auth \in Accounts /\ auth.users \in [Names -> Ids \cup {NoId}]
  BY MemoryFacts DEF Accounts
<1>2. /\ w \in Worlds /\ w.players = world.players /\ w.paid = world.paid \cup {IdOf(n)}
      /\ w.nextId = world.nextId
  BY <1>0, <1>1 DEF Worlds
<1>3. /\ auth' \in Accounts /\ auth'.users = auth.users
      /\ auth'.peaks = auth.peaks \cup {n} /\ auth'.banned = auth.banned
  BY <1>0, <1>1 DEF Accounts
<1> HIDE DEF w
<1>4. /\ clock' = clock + 1 /\ clock' \in 0 .. MaxStamp
      /\ world' \in Worlds /\ world'.stamp = clock' /\ world'.nextId = world.nextId
      /\ world'.players = world.players /\ world'.paid = world.paid \cup {IdOf(n)}
  BY <1>0, <1>1, <1>2, StampedWorld
<1>5. Grows(auth, auth')
  BY <1>3 DEF Grows
<1>6. IdsOwnUnlessLost'
  BY <1>0, <1>3, <1>4, MemoryFacts DEF IdsOwnUnlessLost, IdsDistinct, IdOf
<1>7. Filed(world, auth) => Filed(world', auth')
  BY <1>3, <1>4 DEF Filed
<1>8. ASSUME Paid(world, auth), "twice" \notin mishaps
      PROVE  "twice" \notin mishaps' /\ Paid(world', auth')
  <2>1. IdOf(n) \notin world.paid
    BY <1>0, <1>8 DEF Paid, IdOf
  <2>2. world'.paid \subseteq Range(auth'.users)
    BY <1>1, <1>3, <1>4, <1>8 DEF Paid, Range, IdOf
  <2>3. ASSUME NEW k \in Names, Unshared(auth', k), auth'.users[k] \in world'.paid
        PROVE  k \in auth'.peaks
    <3>1. CASE k = n
      BY <1>3, <3>1
    <3>2. CASE k # n
      <4>1. auth.users[k] \in world.paid /\ Unshared(auth, k)
        BY <1>3, <1>4, <2>3, <3>2 DEF Unshared, IdOf
      <4> QED BY <1>3, <1>8, <4>1 DEF Paid
    <3> QED BY <3>1, <3>2
  <2> QED BY <1>0, <1>8, <2>1, <2>2, <2>3 DEF Paid
<1>9. mishaps \subseteq mishaps' /\ mishaps' \subseteq mishaps \cup {"twice"}
  BY <1>0
<1> QED BY <1>0, <1>3, <1>4, <1>5, <1>6, <1>7, <1>8, <1>9, MemoryFacts, MemoryInv

(* A ban is noted, and saved later.                                        *)
LEMMA BanInv ==
  ASSUME IInv, NEW n \in Names, Ban(n)
  PROVE  IInv'
<1>0. /\ lock = Free /\ auth' = [auth EXCEPT !.banned = @ \cup {n}] /\ Stamped(world)
      /\ lock' = lock /\ file' = file /\ usersFile' = usersFile /\ kept' = kept
      /\ writer' = writer /\ wiped' = wiped /\ mishaps' = mishaps
      /\ restarts' = restarts /\ flushed' = flushed
  BY DEF Ban, disk
<1>1. world \in Worlds /\ clock \in 0 .. MaxStamp /\ MaxStamp \in Nat /\ auth \in Accounts
  BY MemoryFacts
<1>2. /\ auth' \in Accounts /\ auth'.users = auth.users
      /\ auth'.peaks = auth.peaks /\ auth.banned \subseteq auth'.banned
  BY <1>0, <1>1 DEF Accounts
<1>3. /\ clock' = clock + 1 /\ clock' \in 0 .. MaxStamp
      /\ world' \in Worlds /\ world'.stamp = clock' /\ world'.nextId = world.nextId
      /\ world'.players = world.players /\ world'.paid = world.paid
  BY <1>0, <1>1, StampedWorld
<1>4. Grows(auth, auth')
  BY <1>2 DEF Grows
<1>5. IdsOwnUnlessLost'
  BY <1>0, <1>2, <1>3, MemoryFacts DEF IdsOwnUnlessLost, IdsDistinct, IdOf
<1>6. /\ Filed(world, auth) => Filed(world', auth')
      /\ Paid(world, auth) => Paid(world', auth')
  BY <1>2, <1>3 DEF Filed, Paid, Unshared
<1> QED BY <1>0, <1>2, <1>3, <1>4, <1>5, <1>6, MemoryFacts, MemoryInv

(* The accounts begin to be saved, on their own or ahead of an autosave.   *)
LEMMA BeginUsersInv ==
  ASSUME IInv, lock = Free, NEW by \in {"account", "autosave"}, BeginUsers(by),
         UNCHANGED <<mem, file, kept, writer, wiped, mishaps, restarts, flushed>>
  PROVE  IInv'
<1>1. /\ lock' \in [at : {"users"}, by : {"account", "autosave"}] /\ usersFile' = Torn
      /\ auth' = auth /\ world' = world /\ clock' = clock /\ file' = file /\ kept' = kept
      /\ writer' = writer /\ wiped' = wiped /\ mishaps' = mishaps
      /\ restarts' = restarts /\ flushed' = flushed
  BY DEF BeginUsers, mem
<1>2. IdsOwnUnlessLost'
  BY <1>1, MemoryFacts DEF IdsOwnUnlessLost, IdsDistinct, IdOf
<1> QED BY <1>1, <1>2, MemoryFacts, MemoryInv

-----------------------------------------------------------------------------
(* Saves under the lock. *)

(* A wipe or a shutdown takes the lock and starts to write what the world  *)
(* is now.                                                                 *)
LEMMA SaveStarts ==
  ASSUME IInv, lock = Free, NEW by \in {"wipe", "shutdown"},
         lock' = [at |-> "snapshot", by |-> by], StartWriter("save", world'),
         UNCHANGED <<disk, wiped, restarts, flushed>>,
         \/ by = "shutdown" /\ auth' = auth /\ world' = world /\ clock' = clock
         \/ by = "wipe" /\ auth' = NoUsers /\ Stamped(Fresh)
  PROVE  IInv'
<1> DEFINE r == [at |-> "create", snap |-> world', on |-> "none"]
<1>0. /\ TypeOK /\ lock.at = "free" /\ lock.by = "none" /\ "save" \in Writers
      /\ file' = file /\ usersFile' = usersFile /\ kept' = kept /\ wiped' = wiped
      /\ restarts' = restarts /\ flushed' = flushed /\ lock'.at = "snapshot" /\ lock'.by = by
      /\ ~Busy("save") /\ writer' = [writer EXCEPT !["save"] = r]
      /\ mishaps' = IF \E v \in Writers : Busy(v) THEN mishaps \cup {"overlap"} ELSE mishaps
      /\ FirstId \in Nat \ {0} /\ MaxIds \in Nat /\ MaxStamp \in Nat
      /\ clock \in 0 .. MaxStamp /\ world \in Worlds /\ auth \in Accounts
  BY MemoryFacts DEF IInv, Free, Writers, StartWriter, disk
<1>1. /\ Loaded' = Loaded /\ LoadUsers' = LoadUsers /\ Loaded \in Worlds /\ LoadUsers \in Accounts
      /\ Fresh \in Worlds /\ NoUsers \in Accounts
  BY <1>0, FilesTyped DEF Loaded, LoadUsers
<1>2. /\ world' \in Worlds /\ auth' \in Accounts /\ clock' \in 0 .. MaxStamp
      /\ clock <= clock' /\ world'.stamp <= clock'
      /\ by = "wipe" => /\ world'.stamp = clock + 1 /\ world'.players = {} /\ world'.paid = {}
                        /\ world'.nextId = FirstId /\ auth' = NoUsers
      /\ by = "shutdown" => auth' = auth /\ world' = world
  <2>1. CASE by = "shutdown"
    BY <1>0, <2>1 DEF TypeOK, Stamped
  <2>2. CASE by = "wipe"
    <3>1. Stamped(Fresh) /\ auth' = NoUsers
      BY <2>2
    <3>2. /\ clock' = clock + 1 /\ clock' \in 0 .. MaxStamp
          /\ world' \in Worlds /\ world'.stamp = clock'
          /\ world'.nextId = Fresh.nextId /\ world'.players = Fresh.players /\ world'.paid = Fresh.paid
      BY <1>0, <1>1, <3>1, StampedWorld
    <3> QED BY <1>0, <1>1, <2>2, <3>1, <3>2 DEF Fresh
  <2> QED BY <2>1, <2>2
<1>3. r \in Runs
  BY <1>2 DEF Runs
<1>4. /\ writer' \in [Writers -> Runs] /\ writer'["save"] = r
      /\ \A v \in Writers \ {"save"} : writer'[v] = writer[v] /\ Busy(v)' = Busy(v)
  BY <1>0, <1>3, WriterMoves
<1>5. Busy("save")'
  BY <1>4 DEF Busy
<1>6. /\ mishaps \subseteq mishaps' /\ mishaps' \subseteq mishaps \cup {"overlap"}
      /\ \A these : None(these)' => None(these)
      /\ \A these : None(these)' /\ "overlap" \in these =>
           mishaps' = mishaps /\ \A v \in Writers : Busy(v)' => v = "save"
  <2>1. mishaps \subseteq mishaps' /\ mishaps' \subseteq mishaps \cup {"overlap"}
    BY <1>0
  <2>2. \A these : None(these)' => None(these)
    BY <2>1 DEF None
  <2>3. ASSUME NEW these, None(these)', "overlap" \in these
        PROVE  mishaps' = mishaps /\ \A v \in Writers : Busy(v)' => v = "save"
    <3>1. "overlap" \notin mishaps'
      BY <2>3 DEF None
    <3>2. ~ \E v \in Writers : Busy(v)
      BY <1>0, <3>1
    <3> QED BY <1>0, <1>4, <3>2
  <2> QED BY <2>1, <2>2, <2>3
<1>7. TypeOK'
  <2>1. lock' \in [at : {"free", "snapshot", "accounts", "users"},
                   by : {"none", "account", "autosave", "wipe", "shutdown"}]
    OBVIOUS
  <2>2. kept' \in 0 .. clock' /\ wiped' \in 0 .. clock'
    BY <1>0, <1>2 DEF TypeOK
  <2> QED BY <1>0, <1>2, <1>4, <1>6, <2>1, <2>2 DEF TypeOK, Runs
<1>8. LockHeld'
  BY <1>0, <1>5 DEF LockHeld
<1>9. OneWriter'
  <2> SUFFICES ASSUME None({"overlap"})'
               PROVE  /\ \A v, w \in Writers : Busy(v)' /\ Busy(w)' => v = w
                      /\ \A w \in Writers : writer'[w].at = "fill" => writer'[w].on = "tmp" /\ file'["tmp"] = Torn
                      /\ \A w \in Writers : writer'[w].at = "rename" => file'["tmp"] = writer'[w].snap
                      /\ \A w \in Autosavers : ~Busy(w)'
    BY DEF OneWriter
  <2>1. \A v \in Writers : Busy(v)' => v = "save"
    BY <1>6
  <2>2. \A v \in Writers : writer'[v].at \in {"fill", "rename"} => Busy(v)'
    BY DEF Busy
  <2> QED BY <1>4, <2>1, <2>2, PersistAssumption DEF Writers
<1>10. StampsAhead'
  <2>1. /\ StampsAhead /\ kept \in Nat /\ kept <= clock /\ clock \in Nat
    BY <1>0 DEF IInv, TypeOK
  <2>2. world'.stamp = 0 => world' = Fresh
    BY <1>2, <2>1 DEF StampsAhead
  <2>3. \A w \in Writers : Busy(w)' /\ writer'[w].snap.stamp = 0 => writer'[w].snap = Fresh
    <3>1. writer'["save"].snap = world'
      BY <1>4
    <3> QED BY <1>4, <2>1, <2>2, <3>1 DEF StampsAhead
  <2>6. \A w \in Writers : Busy(w)' => writer'[w].snap.stamp <= world'.stamp
    <3>1. /\ world.stamp <= world'.stamp /\ world.stamp \in Nat /\ world'.stamp \in Nat
          /\ \A w \in Writers : writer[w].snap.stamp \in Nat
      BY <1>0, <1>2, <2>1 DEF TypeOK, Worlds
    <3>2. writer'["save"].snap = world'
      BY <1>4
    <3> QED BY <1>4, <2>1, <3>1, <3>2 DEF StampsAhead
  <2>4. None({"overlap"})' => world'.stamp >= kept
    BY <1>2, <1>6, <2>1 DEF StampsAhead
  <2>5. None({"overlap"})' => \A w \in Writers : Busy(w)' => writer'[w].snap.stamp >= kept
    <3>1. writer'["save"].snap = world'
      BY <1>4
    <3> QED BY <1>6, <2>4, <3>1
  <2>7. \A w \in Worlds : Stamp(w) => Stamp(w)'
    BY <1>0, <1>2, PersistAssumption DEF Stamp, Worlds
  <2> QED BY <1>0, <2>1, <2>2, <2>3, <2>4, <2>5, <2>6, <2>7 DEF StampsAhead
<1>11. ShutdownSaves'
  BY <1>0, <1>2, <1>4 DEF ShutdownSaves
<1>12. NewestSave'
  BY <1>0, <1>6 DEF IInv, NewestSave
<1>13. AccountsDurable'
  BY <1>0 DEF AccountsDurable
<1>14. IdsOwnUnlessLost'
  <2>1. by = "wipe" => auth'.users = [n \in Names |-> NoId]
    BY <1>2 DEF NoUsers
  <2> QED BY <1>0, <1>2, <1>6, <2>1 DEF IInv, IdsOwnUnlessLost, IdsDistinct, IdOf, NoId
<1>15. PlayersFiled'
  <2> SUFFICES ASSUME None({"overlap", "torn", "failed"})'
               PROVE  /\ Filed(world, auth)'
                      /\ \A w \in Writers : Busy(w)' => Filed(writer[w].snap, auth)'
                      /\ usersFile # Torn
                      /\ Filed(Loaded, LoadUsers)'
                      /\ by = "shutdown" => LoadUsers.users = auth'.users
                      /\ by = "wipe" => writer'["save"].snap.players = {}
    BY <1>0, <1>1 DEF PlayersFiled
  <2>1. /\ Filed(world, auth) /\ usersFile # Torn /\ Filed(Loaded, LoadUsers)
        /\ LoadUsers.users = auth.users
    BY <1>0, <1>6 DEF IInv, PlayersFiled
  <2>2. Filed(world, auth)'
    BY <1>2, <2>1 DEF Filed
  <2>3. \A w \in Writers : Busy(w)' => writer'[w].snap = world'
    BY <1>4, <1>6
  <2> QED BY <1>1, <1>2, <1>4, <2>1, <2>2, <2>3 DEF Filed
<1>16. CreditsFiled'
  <2> SUFFICES ASSUME None({"overlap", "torn", "failed", "split"})'
               PROVE  /\ "twice" \notin mishaps'
                      /\ Paid(world, auth)'
                      /\ \A w \in Writers : Busy(w)' => Paid(writer[w].snap, auth)'
                      /\ Paid(Loaded, LoadUsers)'
                      /\ \A w \in Autosavers : ~Busy(w)'
    BY <1>0 DEF CreditsFiled
  <2>1. "twice" \notin mishaps /\ Paid(world, auth) /\ Paid(Loaded, LoadUsers)
    BY <1>0, <1>6 DEF IInv, CreditsFiled
  <2>2. Paid(world, auth)'
    <3>1. CASE by = "shutdown"
      BY <1>2, <2>1, <3>1 DEF Paid, Unshared
    <3>2. CASE by = "wipe"
      BY <1>2, <3>2 DEF Paid
    <3> QED BY <3>1, <3>2
  <2>3. \A w \in Writers : Busy(w)' => writer'[w].snap = world'
    BY <1>4, <1>6
  <2>4. \A w \in Writers : Busy(w)' => Paid(writer[w].snap, auth)'
    BY <2>2, <2>3 DEF Paid, Unshared
  <2>5. Paid(Loaded, LoadUsers)'
    BY <1>1, <2>1 DEF Paid, Unshared
  <2> QED BY <1>6, <2>1, <2>2, <2>4, <2>5, PersistAssumption DEF Writers
<1> QED BY <1>7, <1>8, <1>9, <1>10, <1>11, <1>12, <1>13, <1>14, <1>15, <1>16 DEF IInv

(* The snapshot of a save is in place: the accounts begin to be written.   *)
LEMMA SaveAccountsInv ==
  ASSUME IInv, SaveAccounts
  PROVE  IInv'
<1>0. /\ TypeOK /\ lock.at = "accounts" /\ lock' = [at |-> "users", by |-> lock.by]
      /\ usersFile' = Torn /\ auth' = auth /\ world' = world /\ clock' = clock
      /\ file' = file /\ kept' = kept /\ writer' = writer /\ wiped' = wiped
      /\ mishaps' = mishaps /\ restarts' = restarts /\ flushed' = flushed
      /\ lock.by \in {"wipe", "shutdown"} /\ ~Busy("save")
  BY DEF IInv, SaveAccounts, BeginUsers, mem, LockHeld
<1>1. /\ Loaded' = Loaded /\ \A w \in Writers : Busy(w)' = Busy(w)
      /\ \A these : None(these)' = None(these) /\ lock'.at = "users" /\ lock'.by = lock.by
  BY <1>0 DEF Loaded, Busy, None
<1>2. TypeOK'
  <2>1. lock' \in [at : {"free", "snapshot", "accounts", "users"},
                   by : {"none", "account", "autosave", "wipe", "shutdown"}]
    BY <1>0
  <2> QED BY <1>0, <2>1 DEF TypeOK
<1>3. LockHeld' /\ AccountsDurable'
  BY <1>0, <1>1 DEF LockHeld, AccountsDurable, Busy
<1>4. OneWriter'
  <2>1. OneWriter
    BY DEF IInv
  <2> QED BY <1>0, <1>1, <2>1 DEF OneWriter, Writers
<1>5. StampsAhead' /\ NewestSave' /\ IdsOwnUnlessLost'
  BY <1>0, <1>1 DEF IInv, StampsAhead, Stamp, NewestSave, IdsOwnUnlessLost, IdsDistinct, IdOf
<1>6. ShutdownSaves'
  BY <1>0, <1>1 DEF IInv, ShutdownSaves
<1>7. PlayersFiled'
  <2> SUFFICES ASSUME None({"overlap", "torn", "failed"})
               PROVE  /\ Filed(world, auth)
                      /\ \A w \in Writers : Busy(w) => Filed(writer[w].snap, auth)
                      /\ Filed(Loaded, auth)
    BY <1>0, <1>1 DEF PlayersFiled, Filed
  <2>1. PlayersFiled
    BY DEF IInv
  <2>2. Filed(Loaded, auth)
    BY <1>0, <2>1 DEF PlayersFiled, Filed
  <2> QED BY <2>1, <2>2 DEF PlayersFiled
<1>8. CreditsFiled'
  <2>1. CreditsFiled
    BY DEF IInv
  <2> QED BY <1>0, <1>1, <2>1 DEF CreditsFiled, Paid, Unshared
<1> QED BY <1>2, <1>3, <1>4, <1>5, <1>6, <1>7, <1>8 DEF IInv

(* The accounts are written, or not; after an autosave's a detached writer *)
(* takes the world's bytes.                                                *)
LEMMA EndUsersInv ==
  ASSUME IInv, EndUsers
  PROVE  IInv'
<1>1. PICK fails \in Disks, w \in Writers :
        /\ usersFile' = IF fails THEN Torn ELSE auth
        /\ fails => "failed" \in mishaps'
        /\ \/ lock.by # "autosave" /\ writer' = writer /\ mishaps \subseteq mishaps'
              /\ mishaps' \subseteq mishaps \cup {"failed"}
           \/ /\ lock.by = "autosave" /\ w \in Autosavers /\ ~Busy(w)
              /\ writer' = [writer EXCEPT ![w] = [at |-> "create", snap |-> world, on |-> "none"]]
              /\ mishaps \subseteq mishaps' /\ mishaps' \subseteq mishaps \cup {"overlap", "failed"}
              /\ "overlap" \notin mishaps' => \A v \in Writers : ~Busy(v)
  <2>1. PICK fails \in Disks :
          /\ usersFile' = IF fails THEN Torn ELSE auth
          /\ IF lock.by = "autosave"
             THEN \E w \in Autosavers :
                    /\ ~Busy(w)
                    /\ writer' = [writer EXCEPT ![w] = [at |-> "create", snap |-> world, on |-> "none"]]
                    /\ mishaps' = mishaps \cup (IF \E v \in Writers : Busy(v) THEN {"overlap"} ELSE {})
                                          \cup (IF fails THEN {"failed"} ELSE {})
             ELSE /\ UNCHANGED writer
                  /\ mishaps' = IF fails THEN mishaps \cup {"failed"} ELSE mishaps
    BY DEF EndUsers
  <2>2. CASE lock.by = "autosave"
    BY <2>1, <2>2 DEF Writers
  <2>3. CASE lock.by # "autosave"
    <3>1. "save" \in Writers
      BY DEF Writers
    <3> QED BY <2>1, <2>3, <3>1
  <2> QED BY <2>2, <2>3
<1>0. /\ TypeOK /\ lock.at = "users" /\ auth' = auth /\ world' = world /\ clock' = clock
      /\ file' = file /\ kept' = kept /\ restarts' = restarts
      /\ wiped' = IF lock.by = "wipe" THEN world.stamp ELSE wiped
      /\ lock' = [at |-> "free", by |-> "none"]
      /\ flushed' \in {flushed, {[auth |-> auth, world |-> world]}}
      /\ ~Busy("save") /\ auth \in Accounts /\ world \in Worlds
      /\ clock \in 0 .. MaxStamp /\ MaxStamp \in Nat
      /\ \A a \in Accounts : a # NoFile /\ a # Torn
  BY MemoryFacts, FilesTyped DEF IInv, EndUsers, mem, LockHeld, Done, Free
<1>2. lock'.at = "free" /\ lock'.by = "none"
  BY <1>0
<1>3. /\ writer' \in [Writers -> Runs]
      /\ \A v \in Writers : \/ writer'[v] = writer[v] /\ Busy(v)' = Busy(v)
                            \/ /\ v \in Autosavers /\ lock.by = "autosave" /\ v = w
                               /\ writer'[v].at = "create" /\ writer'[v].snap = world
  <2> DEFINE r == [at |-> "create", snap |-> world, on |-> "none"]
  <2>1. CASE writer' = writer
    BY <1>0, <2>1 DEF TypeOK, Runs, Busy
  <2>2. CASE lock.by = "autosave" /\ w \in Autosavers /\ writer' = [writer EXCEPT ![w] = r]
    <3>1. r \in Runs
      BY <1>0 DEF Runs
    <3> HIDE DEF r
    <3>2. /\ writer' \in [Writers -> Runs] /\ writer'[w] = r
          /\ \A v \in Writers \ {w} : writer'[v] = writer[v] /\ Busy(v)' = Busy(v)
      BY <1>0, <2>2, <3>1, WriterMoves
    <3>3. r.at = "create" /\ r.snap = world
      BY DEF r
    <3> QED BY <2>2, <3>2, <3>3
  <2> QED BY <1>1, <2>1, <2>2
<1>4. /\ mishaps \subseteq mishaps' /\ mishaps' \subseteq mishaps \cup {"overlap", "failed"}
      /\ \A these : None(these)' => None(these)
      /\ \A these : None(these)' /\ "failed" \in these => usersFile' = auth /\ LoadUsers' = auth
      /\ \A these : None(these)' /\ "overlap" \in these /\ lock.by = "autosave" =>
           \A v \in Writers : ~Busy(v)
  <2>1. mishaps \subseteq mishaps' /\ mishaps' \subseteq mishaps \cup {"overlap", "failed"}
    BY <1>1
  <2>2. \A these : None(these)' => None(these)
    BY <2>1 DEF None
  <2>3. "failed" \notin mishaps' => usersFile' = auth /\ LoadUsers' = auth
    BY <1>0, <1>1 DEF LoadUsers
  <2>4. "overlap" \notin mishaps' /\ lock.by = "autosave" => \A v \in Writers : ~Busy(v)
    BY <1>1
  <2> QED BY <2>1, <2>2, <2>3, <2>4 DEF None
<1>5. TypeOK'
  <2>1. usersFile' \in {NoFile, Torn} \cup Accounts
    BY <1>0, <1>1
  <2>2. wiped' \in 0 .. clock
    BY <1>0 DEF TypeOK, Worlds
  <2>3. flushed' \subseteq [auth : Accounts, world : Worlds]
    BY <1>0 DEF TypeOK
  <2>4. lock' \in [at : {"free", "snapshot", "accounts", "users"},
                   by : {"none", "account", "autosave", "wipe", "shutdown"}]
    BY <1>0
  <2> QED BY <1>0, <1>3, <1>4, <2>1, <2>2, <2>3, <2>4 DEF TypeOK, Runs
<1>6. LockHeld'
  <2>1. ~Busy("save")'
    BY <1>0, <1>3, PersistAssumption DEF Writers
  <2> QED BY <1>2, <2>1 DEF LockHeld
<1>7. OneWriter'
  <2> SUFFICES ASSUME None({"overlap"})'
               PROVE  /\ \A v, u \in Writers : Busy(v)' /\ Busy(u)' => v = u
                      /\ \A v \in Writers : writer'[v].at = "fill" => writer'[v].on = "tmp" /\ file["tmp"] = Torn
                      /\ \A v \in Writers : writer'[v].at = "rename" => file["tmp"] = writer'[v].snap
    BY <1>0, <1>2 DEF OneWriter
  <2>1. OneWriter
    BY DEF IInv
  <2>2. CASE lock.by = "autosave"
    <3>1. \A v \in Writers : ~Busy(v)
      BY <1>4, <2>2
    <3>2. \A v \in Writers : Busy(v)' => v = w
      BY <1>3, <3>1
    <3>3. \A v \in Writers : writer'[v].at \notin {"fill", "rename"}
      BY <1>3, <3>1 DEF Busy
    <3> QED BY <3>2, <3>3
  <2>3. CASE lock.by # "autosave"
    <3>1. \A v \in Writers : writer'[v] = writer[v] /\ Busy(v)' = Busy(v)
      BY <1>3, <2>3
    <3> QED BY <1>4, <2>1, <3>1 DEF OneWriter
  <2> QED BY <2>2, <2>3
<1>8. StampsAhead'
  <2>1. StampsAhead
    BY DEF IInv
  <2>2. world.stamp <= world.stamp
    BY <1>0 DEF Worlds
  <2> QED BY <1>0, <1>3, <1>4, <2>1, <2>2 DEF StampsAhead, Stamp
<1>9. ShutdownSaves'
  BY <1>2 DEF ShutdownSaves
<1>10. NewestSave' /\ IdsOwnUnlessLost'
  BY <1>0, <1>4 DEF IInv, NewestSave, IdsOwnUnlessLost, IdsDistinct, IdOf
<1>11. AccountsDurable'
  <2>1. "failed" \notin mishaps' => LoadUsers' = auth
    BY <1>4 DEF None
  <2> QED BY <1>0, <2>1 DEF AccountsDurable
<1>12. Loaded' = Loaded
  BY <1>0 DEF Loaded
<1>13. PlayersFiled'
  <2> SUFFICES ASSUME None({"overlap", "torn", "failed"})'
               PROVE  /\ Filed(world, auth)
                      /\ \A v \in Writers : Busy(v)' => Filed(writer'[v].snap, auth)
                      /\ usersFile' # Torn
                      /\ Filed(Loaded, LoadUsers')
                      /\ LoadUsers'.users = auth.users
    BY <1>0, <1>2, <1>12 DEF PlayersFiled, Filed
  <2>1. /\ Filed(world, auth) /\ Filed(Loaded, auth)
        /\ \A v \in Writers : Busy(v) => Filed(writer[v].snap, auth)
    BY <1>0, <1>4 DEF IInv, PlayersFiled
  <2> QED BY <1>0, <1>3, <1>4, <2>1
<1>14. CreditsFiled'
  <2> SUFFICES ASSUME None({"overlap", "torn", "failed", "split"})'
               PROVE  /\ "twice" \notin mishaps'
                      /\ Paid(world, auth)
                      /\ \A v \in Writers : Busy(v)' => Paid(writer'[v].snap, auth)
                      /\ Paid(Loaded, LoadUsers')
                      /\ \A v \in Autosavers : Busy(v)' => Paid(writer'[v].snap, LoadUsers')
    BY <1>0, <1>2, <1>12 DEF CreditsFiled, Paid, Unshared
  <2>1. /\ Paid(world, auth) /\ Paid(Loaded, auth) /\ "twice" \notin mishaps
        /\ \A v \in Writers : Busy(v) => Paid(writer[v].snap, auth)
    BY <1>0, <1>4 DEF IInv, CreditsFiled
  <2>2. \A v \in Writers : Busy(v)' => Paid(writer'[v].snap, auth)
    BY <1>3, <2>1
  <2> QED BY <1>4, <2>1, <2>2 DEF Writers
<1> QED BY <1>5, <1>6, <1>7, <1>8, <1>9, <1>10, <1>11, <1>13, <1>14 DEF IInv

-----------------------------------------------------------------------------
(* write_snapshot_bytes. *)

(* The accounts and the lock are not concerned while the live file stays.  *)
LEMMA WriterStepInv ==
  ASSUME IInv, NEW w \in Writers, NEW r \in Runs, r.at # "off", r.snap = writer[w].snap, Busy(w),
         writer' = [writer EXCEPT ![w] = r],
         file' \in [{"live", "tmp"} -> {NoFile, Torn} \cup Worlds],
         \A f \in {"live", "tmp"} : file'[f] \in {file[f], Torn, r.snap},
         None({"overlap"}) => /\ file'["live"] = file["live"]
                              /\ r.at = "fill" => r.on = "tmp" /\ file'["tmp"] = Torn
                              /\ r.at = "rename" => file'["tmp"] = r.snap,
         UNCHANGED <<mem, usersFile, kept, lock, wiped, mishaps, restarts, flushed>>
  PROVE  IInv'
<1>0. /\ TypeOK /\ auth' = auth /\ world' = world /\ clock' = clock /\ usersFile' = usersFile
      /\ kept' = kept /\ lock' = lock /\ wiped' = wiped /\ mishaps' = mishaps
      /\ restarts' = restarts /\ flushed' = flushed
  BY DEF IInv, mem
<1>1. /\ writer' \in [Writers -> Runs] /\ writer'[w] = r
      /\ \A v \in Writers \ {w} : writer'[v] = writer[v] /\ Busy(v)' = Busy(v)
  BY <1>0, WriterMoves
<1>2. \A v \in Writers : Busy(v)' = Busy(v) /\ writer'[v].snap = writer[v].snap
  BY <1>1 DEF Busy
<1>3. /\ \A these : None(these)' = None(these)
      /\ LoadUsers' = LoadUsers
      /\ \A these : None(these) /\ "overlap" \in these => Loaded' = Loaded
  BY <1>0 DEF None, LoadUsers, Loaded
<1>4. TypeOK'
  BY <1>0, <1>1 DEF TypeOK, Runs
<1>5. LockHeld'
  BY <1>0, <1>2 DEF IInv, LockHeld, Writers
<1>6. OneWriter'
  <2> SUFFICES ASSUME None({"overlap"})
               PROVE  /\ \A v, u \in Writers : Busy(v)' /\ Busy(u)' => v = u
                      /\ \A v \in Writers : writer'[v].at = "fill" => writer'[v].on = "tmp" /\ file'["tmp"] = Torn
                      /\ \A v \in Writers : writer'[v].at = "rename" => file'["tmp"] = writer'[v].snap
                      /\ lock.by \in {"wipe", "shutdown"} => \A v \in Autosavers : ~Busy(v)'
    BY <1>0, <1>3 DEF OneWriter
  <2>1. OneWriter
    BY DEF IInv
  <2>2. \A v \in Writers : Busy(v) => v = w
    BY <2>1 DEF OneWriter
  <2>3. \A v \in Writers : writer'[v].at \in {"fill", "rename"} => v = w
    BY <1>2, <2>2 DEF Busy
  <2> QED BY <1>1, <1>2, <2>1, <2>2, <2>3 DEF OneWriter, Writers
<1>7. StampsAhead'
  <2>1. StampsAhead
    BY DEF IInv
  <2>2. Stamp(r.snap)
    <3>1. r.snap.stamp <= world.stamp /\ (r.snap.stamp = 0 => r.snap = Fresh)
      BY <2>1 DEF StampsAhead
    <3> QED BY <1>0, <3>1, PersistAssumption DEF Stamp, TypeOK, Worlds, Runs
  <2>3. \A f \in {"live", "tmp"} : file'[f] \in Worlds => Stamp(file'[f])
    BY <2>1, <2>2, FilesAssumption DEF StampsAhead
  <2> QED BY <1>0, <1>2, <1>3, <2>1, <2>3 DEF StampsAhead, Stamp
<1>8. ShutdownSaves'
  <2>1. ShutdownSaves /\ (None({"overlap", "failed"}) => None({"overlap"}))
    BY DEF IInv, None
  <2> QED BY <1>0, <1>2, <1>3, <2>1 DEF ShutdownSaves, Writers
<1>9. NewestSave' /\ AccountsDurable' /\ IdsOwnUnlessLost'
  BY <1>0, <1>3 DEF IInv, NewestSave, AccountsDurable, IdsOwnUnlessLost, IdsDistinct, IdOf, None
<1>10. PlayersFiled'
  <2>1. PlayersFiled /\ "save" \in Writers
    BY DEF IInv, Writers
  <2> QED BY <1>0, <1>2, <1>3, <2>1 DEF PlayersFiled, Filed
<1>11. CreditsFiled'
  <2>1. CreditsFiled
    BY DEF IInv
  <2> QED BY <1>0, <1>2, <1>3, <2>1 DEF CreditsFiled, Paid, Unshared, Writers
<1> QED BY <1>4, <1>5, <1>6, <1>7, <1>8, <1>9, <1>10, <1>11 DEF IInv

(* The temp file is made, or emptied.                                      *)
LEMMA CreateTmpInv ==
  ASSUME IInv, NEW w \in Writers, CreateTmp(w)
  PROVE  IInv'
<1> DEFINE r == [writer[w] EXCEPT !.at = "fill", !.on = "tmp"]
<1>1. writer[w] \in Runs /\ writer[w].at = "create"
      /\ file \in [{"live", "tmp"} -> {NoFile, Torn} \cup Worlds]
  BY DEF IInv, TypeOK, Runs, CreateTmp
<1>2. r \in Runs /\ r.at = "fill" /\ r.on = "tmp" /\ r.snap = writer[w].snap
  BY <1>1 DEF Runs
<1>3. writer' = [writer EXCEPT ![w] = r] /\ file' = [file EXCEPT !["tmp"] = Torn] /\ Busy(w)
  BY <1>1 DEF CreateTmp, Busy
<1>4. UNCHANGED <<mem, usersFile, kept, lock, wiped, mishaps, restarts, flushed>>
  BY DEF CreateTmp
<1>5. /\ file' \in [{"live", "tmp"} -> {NoFile, Torn} \cup Worlds] /\ file'["tmp"] = Torn
      /\ file'["live"] = file["live"]
      /\ \A f \in {"live", "tmp"} : file'[f] \in {file[f], Torn, r.snap}
  BY <1>1, <1>3
<1> HIDE DEF r
<1> QED BY <1>2, <1>3, <1>4, <1>5, WriterStepInv

(* The bytes are in the file: all of them, its own, unless it is shared.   *)
LEMMA FillInv ==
  ASSUME IInv, NEW w \in Writers, Fill(w)
  PROVE  IInv'
<1> DEFINE r == [writer[w] EXCEPT !.at = "rename"]
<1>1. writer[w] \in Runs /\ writer[w].at = "fill"
      /\ file \in [{"live", "tmp"} -> {NoFile, Torn} \cup Worlds]
  BY DEF IInv, TypeOK, Runs, Fill
<1>2. r \in Runs /\ r.at = "rename" /\ r.snap = writer[w].snap /\ r.snap \in Worlds
  BY <1>1 DEF Runs
<1>3. writer' = [writer EXCEPT ![w] = r] /\ Busy(w)
      /\ UNCHANGED <<mem, usersFile, kept, lock, wiped, mishaps, restarts, flushed>>
  BY <1>1 DEF Fill, Busy
<1>4. /\ file' \in [{"live", "tmp"} -> {NoFile, Torn} \cup Worlds]
      /\ \A f \in {"live", "tmp"} : file'[f] \in {file[f], Torn, r.snap}
  BY <1>1, <1>2 DEF Fill
<1>5. ASSUME None({"overlap"})
      PROVE  file'["live"] = file["live"] /\ file'["tmp"] = r.snap
  <2>1. /\ writer[w].on = "tmp" /\ file["tmp"] = Torn
        /\ \A v \in Writers \ {w} : ~Busy(v)
    BY <1>1, <1>3, <1>5 DEF IInv, OneWriter
  <2>2. ~Shared(w)
    BY <2>1 DEF Shared, Busy
  <2>3. file' = [file EXCEPT !["tmp"] = writer[w].snap]
    BY <2>1, <2>2 DEF Fill
  <2> QED BY <1>1, <1>2, <2>3
<1> HIDE DEF r
<1> QED BY <1>2, <1>3, <1>4, <1>5, WriterStepInv

(* The temp file goes into place: alone, a writer renames what it wrote.   *)
LEMMA RenameInv ==
  ASSUME IInv, NEW w \in Writers, Rename(w)
  PROVE  IInv'
<1> DEFINE s == writer[w].snap
<1>0. /\ TypeOK /\ writer[w].at = "rename" /\ Busy(w) /\ file["tmp"] # NoFile
      /\ s \in Worlds /\ s.stamp \in Nat /\ kept \in Nat /\ world.stamp \in Nat
      /\ auth' = auth /\ world' = world /\ clock' = clock /\ usersFile' = usersFile
      /\ kept' = (IF s.stamp > kept THEN s.stamp ELSE kept)
      /\ wiped' = wiped /\ mishaps' = mishaps /\ restarts' = restarts /\ flushed' = flushed
  BY PersistAssumption DEF IInv, TypeOK, Worlds, Rename, Busy, mem
<1>1. /\ file' \in [{"live", "tmp"} -> {NoFile, Torn} \cup Worlds]
      /\ file'["live"] = file["tmp"] /\ file'["tmp"] = NoFile
  BY <1>0 DEF Rename, TypeOK
<1>2. /\ writer' \in [Writers -> Runs] /\ ~Busy(w)'
      /\ \A v \in Writers \ {w} : /\ Busy(v)' = Busy(v) /\ writer'[v].at = writer[v].at
                                  /\ writer'[v].snap = writer[v].snap
  <2>1. \A v \in Writers : writer[v] \in Runs
    BY <1>0 DEF TypeOK, Runs
  <2>2. Off \in Runs /\ Off.at = "off"
    BY <1>0, FilesTyped DEF Off, Runs
  <2>3. \A v \in Writers \ {w} :
          /\ writer'[v] \in Runs /\ writer'[v].at = writer[v].at /\ writer'[v].snap = writer[v].snap
    BY <2>1 DEF Rename, Runs
  <2>4. writer'[w] = Off /\ writer' = [v \in Writers |-> writer'[v]]
    BY DEF Rename
  <2>5. \A v \in Writers : writer'[v] \in Runs
    BY <2>2, <2>3, <2>4
  <2> QED BY <2>2, <2>3, <2>4, <2>5 DEF Busy
<1>3. /\ w = "save" => /\ lock.at = "snapshot" /\ lock'.at = "accounts" /\ lock'.by = lock.by
                       /\ lock.by \in {"wipe", "shutdown"}
                       /\ lock' = [lock EXCEPT !.at = "accounts"]
      /\ w # "save" => lock' = lock /\ w \in Autosavers
  BY <1>0 DEF IInv, LockHeld, Rename, SaveContinues, TypeOK, Writers
<1>4. /\ \A these : None(these)' = None(these)
      /\ LoadUsers' = LoadUsers /\ "save" \in Writers /\ lock'.by = lock.by
      /\ \A a \in Worlds : a # NoFile /\ a # Torn
  BY <1>0, <1>3, FilesTyped DEF None, LoadUsers, Writers
<1>5. ASSUME NEW these, None(these), "overlap" \in these
      PROVE  /\ file'["live"] = s /\ Loaded' = s /\ kept' = s.stamp /\ s.stamp <= world.stamp
             /\ s.stamp = 0 => s = Fresh
             /\ \A v \in Writers : ~Busy(v)'
             /\ lock.by \in {"wipe", "shutdown"} => w = "save"
  <2>0. None({"overlap"})
    BY <1>5 DEF None
  <2>1. file["tmp"] = s /\ \A v \in Writers \ {w} : ~Busy(v)
    BY <1>0, <2>0 DEF IInv, OneWriter
  <2>2. s.stamp >= kept /\ s.stamp <= world.stamp /\ (s.stamp = 0 => s = Fresh)
    BY <1>0, <2>0 DEF IInv, StampsAhead
  <2>3. file'["live"] = s /\ Loaded' = s
    BY <1>0, <1>1, <1>4, <2>1 DEF Loaded
  <2>4. lock.by \in {"wipe", "shutdown"} => w = "save"
    BY <1>0, <1>3, <2>0 DEF IInv, OneWriter
  <2>5. kept' = s.stamp
    BY <1>0, <2>2
  <2> QED BY <1>2, <2>1, <2>2, <2>3, <2>4, <2>5
<1>6. TypeOK'
  <2>1. lock' \in [at : {"free", "snapshot", "accounts", "users"},
                   by : {"none", "account", "autosave", "wipe", "shutdown"}]
    BY <1>0, <1>3 DEF TypeOK
  <2>2. kept' \in 0 .. clock
    <3>1. s.stamp <= clock
      BY <1>0, PersistAssumption DEF IInv, StampsAhead, TypeOK
    <3> QED BY <1>0, <3>1 DEF TypeOK
  <2> QED BY <1>0, <1>1, <1>2, <2>1, <2>2 DEF TypeOK, Runs
<1>7. LockHeld'
  BY <1>2, <1>3, <1>4 DEF IInv, LockHeld
<1>8. OneWriter'
  <2> SUFFICES ASSUME None({"overlap"})
               PROVE  /\ \A v \in Writers : ~Busy(v)'
                      /\ \A v \in Writers : writer'[v].at \notin {"fill", "rename"}
    BY <1>4 DEF OneWriter, Writers
  <2>1. \A v \in Writers : ~Busy(v)'
    BY <1>5
  <2> QED BY <2>1 DEF Busy
<1>9. StampsAhead'
  <2>1. StampsAhead
    BY DEF IInv
  <2>2. \A f \in {"live", "tmp"} : file'[f] \in Worlds => Stamp(file'[f])
    BY <1>1, <2>1, FilesAssumption DEF StampsAhead
  <2> QED BY <1>0, <1>2, <1>4, <1>5, <2>1, <2>2 DEF StampsAhead, Stamp
<1>10. ShutdownSaves'
  <2> SUFFICES ASSUME None({"overlap", "failed"}), lock.by = "shutdown"
               PROVE  lock'.at = "accounts" /\ file'["live"] = world
    BY <1>0, <1>4 DEF ShutdownSaves
  <2>1. w = "save" /\ file'["live"] = s
    BY <1>5
  <2> QED BY <1>3, <2>1 DEF IInv, ShutdownSaves
<1>11. NewestSave'
  <2> SUFFICES ASSUME None({"overlap"})
               PROVE  IF kept' = 0 THEN file'["live"] \in {NoFile, Fresh}
                      ELSE file'["live"] \in Worlds /\ file'["live"].stamp = kept'
    BY <1>0 DEF NewestSave, None
  <2> QED BY <1>0, <1>5
<1>12. AccountsDurable' /\ IdsOwnUnlessLost'
  BY <1>0, <1>3, <1>4 DEF IInv, AccountsDurable, IdsOwnUnlessLost, IdsDistinct, IdOf
<1>13. PlayersFiled'
  <2> SUFFICES ASSUME None({"overlap", "torn", "failed"})
               PROVE  /\ Filed(world, auth)
                      /\ usersFile = Torn <=> lock'.at = "users"
                      /\ IF lock'.at = "users" THEN Filed(s, auth) ELSE Filed(s, LoadUsers)
                      /\ lock'.at = "free" \/ (lock'.by = "shutdown" /\ lock'.at # "users") =>
                           LoadUsers.users = auth.users
                      /\ lock'.at = "snapshot" => lock'.by # "wipe"
                      /\ lock'.at = "accounts" /\ lock'.by = "wipe" => s.players = {}
    BY <1>0, <1>4, <1>5 DEF PlayersFiled, Filed
  <2>1. /\ PlayersFiled /\ LockHeld /\ (lock.by \in {"wipe", "shutdown"} => w = "save")
    BY <1>5 DEF IInv
  <2>2. /\ Filed(world, auth) /\ Filed(s, auth) /\ (usersFile = Torn <=> lock.at = "users")
        /\ lock.at = "free" \/ (lock.by = "shutdown" /\ lock.at # "users") =>
             LoadUsers.users = auth.users
        /\ lock.at = "snapshot" /\ lock.by = "wipe" => writer["save"].snap.players = {}
    BY <1>0, <2>1 DEF PlayersFiled
  <2>3. CASE w = "save"
    BY <1>3, <2>2, <2>3 DEF Filed
  <2>4. CASE w # "save"
    <3>1. lock' = lock /\ lock.at \in {"free", "users"}
      BY <1>0, <1>3, <2>1, <2>4 DEF LockHeld, TypeOK
    <3> QED BY <2>2, <3>1 DEF Filed
  <2> QED BY <2>3, <2>4
<1>14. CreditsFiled'
  <2> SUFFICES ASSUME None({"overlap", "torn", "failed", "split"})
               PROVE  /\ "twice" \notin mishaps /\ Paid(world, auth)
                      /\ IF lock'.at \in {"users", "accounts"} THEN Paid(s, auth) ELSE Paid(s, LoadUsers)
    BY <1>0, <1>4, <1>5 DEF CreditsFiled, Paid, Unshared, Writers
  <2>1. /\ "twice" \notin mishaps /\ Paid(world, auth) /\ Paid(s, auth)
        /\ lock.at # "users" /\ w \in Autosavers => Paid(s, LoadUsers)
    BY <1>0 DEF IInv, CreditsFiled
  <2> QED BY <1>3, <2>1
<1> QED BY <1>6, <1>7, <1>8, <1>9, <1>10, <1>11, <1>12, <1>13, <1>14 DEF IInv

(* A run ends in an error, and the save it was for with it.                *)
LEMMA FailWriteInv ==
  ASSUME IInv, NEW w \in Writers, FailWrite(w)
  PROVE  IInv'
<1>0. /\ TypeOK /\ Busy(w) /\ writer' = [writer EXCEPT ![w] = Off]
      /\ mishaps' = mishaps \cup {"failed"}
      /\ auth' = auth /\ world' = world /\ clock' = clock /\ file' = file
      /\ usersFile' = usersFile /\ kept' = kept /\ wiped' = wiped /\ restarts' = restarts
      /\ flushed' \in {flushed, {[auth |-> auth, world |-> world]}}
  BY DEF IInv, FailWrite, Done, mem, disk
<1>1. Off \in Runs /\ Off.at = "off"
  BY <1>0, FilesTyped DEF Off, Runs
<1>2. /\ writer' \in [Writers -> Runs] /\ ~Busy(w)' /\ writer'[w].at = "off"
      /\ \A v \in Writers \ {w} : writer'[v] = writer[v] /\ Busy(v)' = Busy(v)
  BY <1>0, <1>1, WriterMoves DEF Busy
<1>3. /\ "failed" \in mishaps' /\ mishaps' \subseteq mishaps \cup {"failed"}
      /\ None({"overlap"})' => None({"overlap"})
      /\ \A these : "failed" \in these => ~None(these)'
  BY <1>0 DEF None
<1>4. /\ w # "save" => lock' = lock
      /\ w = "save" => lock' = [at |-> "free", by |-> "none"]
  BY DEF FailWrite, Done, Free
<1>5. TypeOK'
  <2>1. lock' \in [at : {"free", "snapshot", "accounts", "users"},
                   by : {"none", "account", "autosave", "wipe", "shutdown"}]
    BY <1>0, <1>4 DEF TypeOK
  <2>2. flushed' \subseteq [auth : Accounts, world : Worlds]
    BY <1>0 DEF TypeOK
  <2> QED BY <1>0, <1>2, <1>3, <2>1, <2>2 DEF TypeOK, Runs
<1>6. LockHeld'
  BY <1>2, <1>4 DEF IInv, LockHeld, Writers
<1>7. OneWriter'
  <2> SUFFICES ASSUME None({"overlap"})
               PROVE  /\ \A v \in Writers : ~Busy(v)'
                      /\ \A v \in Writers : writer'[v].at \notin {"fill", "rename"}
    BY <1>3 DEF OneWriter, Writers
  <2>1. \A v \in Writers \ {w} : ~Busy(v)
    BY <1>0 DEF IInv, OneWriter
  <2>2. \A v \in Writers : ~Busy(v)'
    BY <1>2, <2>1
  <2> QED BY <2>2 DEF Busy
<1>8. StampsAhead'
  <2>1. StampsAhead
    BY DEF IInv
  <2> QED BY <1>0, <1>2, <1>3, <2>1 DEF StampsAhead, Stamp
<1>9. ShutdownSaves' /\ PlayersFiled' /\ CreditsFiled'
  BY <1>3 DEF ShutdownSaves, PlayersFiled, CreditsFiled
<1>10. NewestSave' /\ AccountsDurable' /\ IdsOwnUnlessLost'
  BY <1>0, <1>3 DEF IInv, NewestSave, AccountsDurable, IdsOwnUnlessLost, IdsDistinct, IdOf
<1> QED BY <1>5, <1>6, <1>7, <1>8, <1>9, <1>10 DEF IInv

-----------------------------------------------------------------------------
(* The process ends at any step; the next one reads what is on disk.       *)
LEMMA BootInv ==
  ASSUME IInv, Boot
  PROVE  IInv'
<1>0. /\ TypeOK /\ restarts' = restarts + 1 /\ flushed' = {} /\ restarts < MaxRestarts /\ MaxRestarts \in Nat
      /\ auth' = LoadUsers /\ world' = Loaded
      /\ lock'.at = "free" /\ lock'.by = "none" /\ lock' = [at |-> "free", by |-> "none"]
      /\ writer' = [w \in Writers |-> Off]
      /\ file' = file /\ usersFile' = usersFile /\ kept' = kept /\ clock' = clock /\ wiped' = wiped
      /\ mishaps' = mishaps \cup (IF usersFile = Torn THEN {"torn"} ELSE {})
                            \cup (IF LoadUsers.users # auth.users \/ Loaded.nextId # world.nextId
                                  THEN {"unsaved"} ELSE {})
                            \cup (IF lock.at = "accounts" THEN {"split"} ELSE {})
  BY PersistAssumption DEF IInv, Boot, disk, Free
<1>1. /\ Loaded \in Worlds /\ LoadUsers \in Accounts /\ Fresh \in Worlds
      /\ Loaded' = Loaded /\ LoadUsers' = LoadUsers
      /\ \A a \in Worlds : a # NoFile /\ a # Torn
  BY <1>0, FilesTyped DEF Loaded, LoadUsers
<1>2. /\ \A w \in Writers : ~Busy(w)' /\ writer'[w].at = "off"
      /\ writer' \in [Writers -> Runs]
  BY <1>0, <1>1 DEF Off, Runs, Busy
<1>3. /\ mishaps \subseteq mishaps' /\ mishaps' \subseteq mishaps \cup {"torn", "unsaved", "split"}
      /\ \A these : None(these)' => None(these)
      /\ \A these : None(these)' /\ "torn" \in these => usersFile # Torn
      /\ \A these : None(these)' /\ "split" \in these => lock.at # "accounts"
      /\ "unsaved" \notin mishaps' => LoadUsers.users = auth.users /\ Loaded.nextId = world.nextId
      /\ "twice" \in mishaps' => "twice" \in mishaps
  <2>1. mishaps \subseteq mishaps' /\ mishaps' \subseteq mishaps \cup {"torn", "unsaved", "split"}
    BY <1>0
  <2>2. /\ usersFile = Torn => "torn" \in mishaps'
        /\ lock.at = "accounts" => "split" \in mishaps'
        /\ "unsaved" \notin mishaps' => LoadUsers.users = auth.users /\ Loaded.nextId = world.nextId
    BY <1>0
  <2> QED BY <2>1, <2>2 DEF None
<1>4. Stamp(Loaded) /\ (None({"overlap"}) => Loaded.stamp >= kept)
  <2>1. clock \in Nat /\ kept \in Nat /\ Fresh.stamp = 0
    BY <1>0, PersistAssumption DEF TypeOK, Fresh
  <2>2. Stamp(Loaded)
    BY <1>0, <2>1 DEF IInv, StampsAhead, Loaded, Stamp, TypeOK
  <2>3. ASSUME None({"overlap"}) PROVE Loaded.stamp >= kept
    <3>1. "overlap" \notin mishaps
      BY <2>3 DEF None
    <3>2. CASE kept = 0
      BY <1>1, <2>1, <3>2, PersistAssumption DEF Worlds
    <3>3. CASE kept # 0
      <4>1. file["live"] \in Worlds /\ file["live"].stamp = kept
        BY <3>1, <3>3 DEF IInv, NewestSave
      <4> QED BY <1>1, <2>1, <4>1 DEF Loaded
    <3> QED BY <3>2, <3>3
  <2> QED BY <2>2, <2>3
<1>5. TypeOK'
  <2>1. lock' \in [at : {"free", "snapshot", "accounts", "users"},
                   by : {"none", "account", "autosave", "wipe", "shutdown"}]
    BY <1>0
  <2>2. restarts' \in 0 .. MaxRestarts
    BY <1>0 DEF TypeOK
  <2> QED BY <1>0, <1>1, <1>2, <1>3, <1>4, <2>1, <2>2 DEF TypeOK, Runs, Stamp
<1>6. LockHeld' /\ OneWriter'
  BY <1>0, <1>2 DEF LockHeld, OneWriter, Writers
<1>7. StampsAhead'
  <2>1. StampsAhead
    BY DEF IInv
  <2> QED BY <1>0, <1>2, <1>3, <1>4, <2>1 DEF StampsAhead, Stamp
<1>8. ShutdownSaves' /\ AccountsDurable'
  BY <1>0, <1>1 DEF ShutdownSaves, AccountsDurable
<1>9. NewestSave' /\ IdsOwnUnlessLost'
  BY <1>0, <1>3 DEF IInv, NewestSave, IdsOwnUnlessLost, IdsDistinct, IdOf
<1>10. PlayersFiled'
  <2> SUFFICES ASSUME None({"overlap", "torn", "failed"})'
               PROVE  Filed(Loaded, LoadUsers) /\ usersFile # Torn
    BY <1>0, <1>1, <1>2 DEF PlayersFiled, Filed
  <2>1. PlayersFiled /\ None({"overlap", "torn", "failed"}) /\ usersFile # Torn
    BY <1>3 DEF IInv
  <2> QED BY <2>1 DEF PlayersFiled
<1>11. CreditsFiled'
  <2> SUFFICES ASSUME None({"overlap", "torn", "failed", "split"})'
               PROVE  "twice" \notin mishaps /\ Paid(Loaded, LoadUsers)
    BY <1>0, <1>1, <1>2, <1>3 DEF CreditsFiled, Paid, Unshared, Writers
  <2>1. /\ PlayersFiled /\ CreditsFiled /\ None({"overlap", "torn", "failed", "split"})
        /\ usersFile # Torn /\ lock.at # "accounts" /\ None({"overlap", "torn", "failed"})
    BY <1>3 DEF IInv, None
  <2>2. lock.at # "users"
    BY <2>1 DEF PlayersFiled
  <2> QED BY <2>1, <2>2 DEF CreditsFiled
<1> QED BY <1>5, <1>6, <1>7, <1>8, <1>9, <1>10, <1>11 DEF IInv

-----------------------------------------------------------------------------
(* Every step. *)

(* IInv is inductive.                                                      *)
LEMMA NextInv == IInv /\ [Next]_vars => IInv'
<1> SUFFICES ASSUME IInv, [Next]_vars PROVE IInv'
  OBVIOUS
<1>1. CASE UNCHANGED vars
  BY <1>1 DEF vars, IInv, TypeOK, LockHeld, OneWriter, StampsAhead, Stamp, ShutdownSaves, NewestSave,
              AccountsDurable, IdsOwnUnlessLost, IdsDistinct, IdOf, PlayersFiled, CreditsFiled,
              Filed, Paid, Unshared, Busy, None, LoadUsers, Loaded
<1>2. ASSUME NEW ids \in 0 .. 1, Play(ids) PROVE IInv'
  BY <1>2, PlayInv
<1>3. ASSUME NEW n \in Names, Register(n) \/ Login(n) \/ Rise(n) \/ Ban(n) PROVE IInv'
  BY <1>3, RegisterInv, LoginInv, RiseInv, BanInv
<1>4. CASE SaveUsers
  BY <1>4, BeginUsersInv DEF SaveUsers
<1>5. CASE Autosave
  BY <1>5, BeginUsersInv DEF Autosave
<1>6. CASE Wipe
  <2>1. /\ lock = Free /\ auth' = NoUsers /\ Stamped(Fresh) /\ StartWriter("save", world')
        /\ lock' = [at |-> "snapshot", by |-> "wipe"]
        /\ UNCHANGED <<disk, wiped, restarts, flushed>>
    BY <1>6 DEF Wipe
  <2> QED BY <2>1, SaveStarts
<1>7. CASE Shutdown
  <2>1. /\ lock = Free /\ lock' = [at |-> "snapshot", by |-> "shutdown"]
        /\ auth' = auth /\ world' = world /\ clock' = clock
        /\ UNCHANGED <<disk, wiped, restarts, flushed>>
    BY <1>7 DEF Shutdown, mem
  <2>2. StartWriter("save", world')
    BY <1>7, <2>1 DEF Shutdown, StartWriter
  <2> QED BY <2>1, <2>2, SaveStarts
<1>8. CASE SaveAccounts
  BY <1>8, SaveAccountsInv
<1>9. CASE EndUsers
  BY <1>9, EndUsersInv
<1>10. ASSUME NEW w \in Writers, CreateTmp(w) \/ Fill(w) \/ Rename(w) \/ FailWrite(w) PROVE IInv'
  BY <1>10, CreateTmpInv, FillInv, RenameInv, FailWriteInv
<1>11. CASE Exit \/ Crash
  BY <1>11, BootInv DEF Exit, Crash
<1> QED BY <1>1, <1>2, <1>3, <1>4, <1>5, <1>6, <1>7, <1>8, <1>9, <1>10, <1>11 DEF Next

-----------------------------------------------------------------------------
(* The results. *)

(* The inductive invariant holds throughout, whatever fails and whenever   *)
(* the process dies.                                                       *)
THEOREM Invariance == Spec => []IInv
<1> QED BY InitInv, NextInv, PTL DEF Spec

(* Memory, files and writers keep their types.                             *)
THEOREM TypeCorrect == Spec => []TypeOK
<1>1. IInv => TypeOK
  BY DEF IInv
<1> QED BY <1>1, Invariance, PTL

(* Without overlapping saves, a restart finds the newest finished save of  *)
(* write_snapshot_bytes, whole.                                            *)
THEOREM NewestSaveKept == Spec => []NewestSave
<1>1. IInv => NewestSave
  BY DEF IInv
<1> QED BY <1>1, Invariance, PTL

(* With the lock free and no failed write, users.json holds every account  *)
(* auth.rs has in memory.                                                  *)
THEOREM AccountsOnDisk == Spec => []AccountsDurable
<1>1. IInv => AccountsDurable
  BY DEF IInv
<1> QED BY <1>1, Invariance, PTL

(* Unless a process died ahead of its files, player ids are not shared and *)
(* next_player_id is beyond them all.                                      *)
THEOREM IdsOwn == Spec => []IdsOwnUnlessLost
<1>1. IInv => IdsOwnUnlessLost
  BY DEF IInv
<1> QED BY <1>1, Invariance, PTL

(* Wherever between world.snapshot and users.json the process dies, every  *)
(* player it loads belongs to an account.                                  *)
THEOREM PlayersBelong == Spec => []PlayersHaveAccounts
<1>1. IInv => PlayersHaveAccounts
  BY DEF IInv, PlayersFiled, PlayersHaveAccounts, None, Filed
<1> QED BY <1>1, Invariance, PTL

(* apply_peak_unlocks pays a player's starter credit once across restarts, *)
(* the named mishaps apart.                                                *)
THEOREM StarterPaidOnce == Spec => []StarterNotTwice
<1>1. IInv => StarterNotTwice
  BY DEF IInv, CreditsFiled, StarterNotTwice, None
<1> QED BY <1>1, Invariance, PTL

-----------------------------------------------------------------------------
(* After the shutdown's save, until the process is gone. *)

Later(a, b) == b = a \/ b.stamp > a.stamp

(* The sim goes on from what was saved: nothing it holds, and nothing a    *)
(* writer of it has or will put on disk, is from before.                   *)
FlushKept ==
  \A m \in flushed :
    /\ lock.by # "shutdown"
    /\ None({"overlap", "failed"}) =>
         /\ Later(m.world, world) /\ Later(m.world, Loaded)
         /\ \A w \in Writers : Busy(w) => Later(m.world, writer[w].snap)
         /\ lock.by = "wipe" => world.stamp > m.world.stamp
         /\ wiped > m.world.stamp \/ lock.by = "wipe" \/ Grows(m.auth, auth)
         /\ wiped > m.world.stamp \/ lock.at = "users" \/ Grows(m.auth, LoadUsers)

(* What a restart would load depends on the live file alone. *)
LEMMA LoadedSame ==
  ASSUME file'["live"] = file["live"]
  PROVE  Loaded' = Loaded
BY DEF Loaded

LEMMA GrowsOn ==
  ASSUME NEW a \in Accounts, NEW b \in Accounts, NEW c \in Accounts, Grows(a, b), Grows(b, c)
  PROVE  Grows(a, c)
<1>1. \A n \in Names : a.users[n] \in {NoId, c.users[n]}
  BY DEF Grows
<1>2. a.peaks \subseteq c.peaks /\ a.banned \subseteq c.banned
  BY DEF Grows
<1> QED BY <1>1, <1>2 DEF Grows

(* The stamps that are compared are numbers. *)
LEMMA FlushFacts ==
  ASSUME IInv
  PROVE  /\ TypeOK /\ LockHeld /\ clock \in Nat /\ wiped \in Nat
         /\ auth \in Accounts /\ LoadUsers \in Accounts /\ world \in Worlds /\ Loaded \in Worlds
         /\ world.stamp <= clock
         /\ \A w \in Worlds : w.stamp \in Nat
         /\ \A m \in flushed : m.auth \in Accounts /\ m.world \in Worlds
<1>1. TypeOK /\ LockHeld /\ Loaded \in Worlds /\ LoadUsers \in Accounts
  BY FilesTyped DEF IInv
<1>2. \A w \in Worlds : w.stamp \in Nat
  BY PersistAssumption DEF Worlds
<1> QED BY <1>1, <1>2, PersistAssumption DEF TypeOK

(* Steps of the sim under a free lock: later worlds, and accounts that     *)
(* grow, saved or not.                                                     *)
LEMMA MemoryFlush ==
  ASSUME IInv, FlushKept, lock = Free, mishaps \subseteq mishaps',
         auth' \in Accounts, Grows(auth, auth'),
         world' = world \/ world'.stamp = clock + 1,
         file' = file, writer' = writer, wiped' = wiped, flushed' = flushed,
         \/ lock' = lock /\ usersFile' = usersFile
         \/ lock'.at = "users" /\ lock'.by \in {"account", "autosave"}
  PROVE  FlushKept'
<1> SUFFICES ASSUME NEW m \in flushed
             PROVE  /\ lock'.by # "shutdown"
                    /\ None({"overlap", "failed"})' =>
                         /\ Later(m.world, world') /\ Later(m.world, Loaded')
                         /\ \A w \in Writers : Busy(w)' => Later(m.world, writer'[w].snap)
                         /\ lock'.by # "wipe"
                         /\ wiped > m.world.stamp \/ Grows(m.auth, auth')
                         /\ wiped > m.world.stamp \/ lock'.at = "users" \/ Grows(m.auth, LoadUsers')
  BY DEF FlushKept, Later, Grows
<1>1. lock.by = "none" /\ lock.at = "free" /\ lock'.by \notin {"wipe", "shutdown"}
  BY DEF Free
<1>2. ASSUME None({"overlap", "failed"})'
      PROVE  /\ Later(m.world, world') /\ Later(m.world, Loaded')
             /\ \A w \in Writers : Busy(w)' => Later(m.world, writer'[w].snap)
             /\ wiped > m.world.stamp \/ Grows(m.auth, auth')
             /\ wiped > m.world.stamp \/ lock'.at = "users" \/ Grows(m.auth, LoadUsers')
  <2>1. /\ Later(m.world, world) /\ Later(m.world, Loaded)
        /\ \A w \in Writers : Busy(w) => Later(m.world, writer[w].snap)
        /\ wiped > m.world.stamp \/ Grows(m.auth, auth)
        /\ wiped > m.world.stamp \/ Grows(m.auth, LoadUsers)
    BY <1>1, <1>2, Mended DEF FlushKept
  <2>2. Later(m.world, world')
    BY <2>1, FlushFacts DEF Later
  <2>3. wiped > m.world.stamp \/ Grows(m.auth, auth')
    BY <2>1, FlushFacts, GrowsOn
  <2>4. Loaded' = Loaded /\ (lock' = lock => LoadUsers' = LoadUsers)
    BY <1>1 DEF Loaded, LoadUsers
  <2> QED BY <2>1, <2>2, <2>3, <2>4 DEF Busy
<1> QED BY <1>1, <1>2

(* A peak or a ban is added. *)
LEMMA AccountsGrow ==
  ASSUME NEW a \in Accounts, NEW n \in Names, NEW b,
         \/ b = [a EXCEPT !.peaks = @ \cup {n}]
         \/ b = [a EXCEPT !.banned = @ \cup {n}]
  PROVE  b \in Accounts /\ Grows(a, b)
<1>1. CASE b = [a EXCEPT !.peaks = @ \cup {n}]
  <2>1. b \in Accounts /\ b.users = a.users /\ b.peaks = a.peaks \cup {n} /\ b.banned = a.banned
    BY <1>1 DEF Accounts
  <2> QED BY <2>1 DEF Grows
<1>2. CASE b = [a EXCEPT !.banned = @ \cup {n}]
  <2>1. b \in Accounts /\ b.users = a.users /\ b.peaks = a.peaks /\ b.banned = a.banned \cup {n}
    BY <1>2 DEF Accounts
  <2> QED BY <2>1 DEF Grows
<1> QED BY <1>1, <1>2

(* A registration, a login, a credit, a ban or a tick. *)
LEMMA SimFlush ==
  ASSUME IInv, FlushKept,
         \/ \E ids \in 0 .. 1 : Play(ids)
         \/ \E n \in Names : Register(n) \/ Login(n) \/ Rise(n) \/ Ban(n)
  PROVE  FlushKept'
<1> USE DEF Stamped, BeginUsers, disk
<1>0. auth \in Accounts /\ world \in Worlds /\ auth.users \in [Names -> Ids \cup {NoId}]
      /\ Grows(auth, auth)
  BY MemoryFacts DEF Accounts
<1>1. CASE \E ids \in 0 .. 1 : Play(ids)
  <2>1. world'.stamp = clock + 1
    BY <1>0, <1>1 DEF Play, Worlds
  <2> QED BY <1>0, <1>1, <2>1, MemoryFlush DEF Play
<1>2. ASSUME NEW n \in Names, Register(n) PROVE FlushKept'
  <2>1. world'.stamp = clock + 1
    BY <1>0, <1>2 DEF Register, Worlds
  <2>2. /\ auth' \in Accounts /\ auth'.peaks = auth.peaks /\ auth'.banned = auth.banned
        /\ auth'.users = [auth.users EXCEPT ![n] = world.nextId]
    BY <1>0, <1>2 DEF Register, Accounts
  <2>3. Grows(auth, auth')
    BY <1>0, <1>2, <2>2 DEF Grows, Register, IdOf
  <2> QED BY <1>2, <2>1, <2>2, <2>3, MemoryFlush DEF Register
<1>3. ASSUME NEW n \in Names, Login(n) PROVE FlushKept'
  <2>1. CASE IdOf(n) \notin world.players
    <3>1. world'.stamp = clock + 1 /\ auth' = auth /\ lock' = lock /\ usersFile' = usersFile
      BY <1>0, <1>3, <2>1 DEF Login, Worlds
    <3> QED BY <1>0, <1>3, <3>1, MemoryFlush DEF Login
  <2>2. CASE IdOf(n) \in world.players
    <3>0. /\ Stamped(world) /\ auth' = [auth EXCEPT !.peaks = @ \cup {n}]
          /\ lock' = [at |-> "users", by |-> "account"]
      BY <1>3, <2>2 DEF Login
    <3>1. world'.stamp = clock + 1 /\ lock'.at = "users" /\ lock'.by = "account"
      BY <1>0, <3>0 DEF Worlds
    <3>2. auth' \in Accounts /\ Grows(auth, auth')
      BY <1>0, <3>0, AccountsGrow
    <3> QED BY <1>3, <3>1, <3>2, MemoryFlush DEF Login
  <2> QED BY <2>1, <2>2
<1>4. ASSUME NEW n \in Names, Rise(n) \/ Ban(n) PROVE FlushKept'
  <2>1. world'.stamp = clock + 1
    BY <1>0, <1>4 DEF Rise, Ban, Worlds
  <2>2. auth' \in Accounts /\ Grows(auth, auth')
    <3>1. \/ auth' = [auth EXCEPT !.peaks = @ \cup {n}]
          \/ auth' = [auth EXCEPT !.banned = @ \cup {n}]
      BY <1>4 DEF Rise, Ban
    <3> QED BY <1>0, <3>1, AccountsGrow
  <2>3. mishaps \subseteq mishaps'
    BY <1>4 DEF Rise, Ban
  <2> QED BY <1>4, <2>1, <2>2, <2>3, MemoryFlush DEF Rise, Ban
<1> QED BY <1>1, <1>2, <1>3, <1>4

(* A wipe begins on a later world; a second shutdown does not.             *)
LEMMA SaveStartsFlush ==
  ASSUME IInv, FlushKept, Wipe \/ Shutdown
  PROVE  FlushKept'
<1>1. CASE Shutdown
  BY <1>1 DEF Shutdown, FlushKept
<1>2. CASE Wipe
  <2> DEFINE r == [at |-> "create", snap |-> world', on |-> "none"]
  <2>0. /\ lock.at = "free" /\ lock.by = "none" /\ lock'.at = "snapshot" /\ lock'.by = "wipe"
        /\ ~Busy("save") /\ writer' = [writer EXCEPT !["save"] = r]
        /\ file' = file /\ usersFile' = usersFile /\ wiped' = wiped /\ flushed' = flushed
        /\ mishaps \subseteq mishaps' /\ "save" \in Writers /\ world'.stamp = clock + 1
    BY <1>2 DEF Wipe, StartWriter, disk, Free, Stamped, Fresh, Writers
  <2>1. world' \in Worlds
    BY <1>2, MemoryFacts, FilesTyped, StampedWorld DEF Wipe
  <2>2. /\ writer'["save"] = r
        /\ \A v \in Writers \ {"save"} : writer'[v] = writer[v] /\ Busy(v)' = Busy(v)
    <3>1. r \in Runs
      BY <2>1 DEF Runs
    <3> HIDE DEF r
    <3> QED BY <2>0, <3>1, WriterMoves DEF IInv
  <2>3. Loaded' = Loaded /\ LoadUsers' = LoadUsers
    BY <2>0 DEF Loaded, LoadUsers
  <2> SUFFICES ASSUME NEW m \in flushed, None({"overlap", "failed"})'
               PROVE  /\ Later(m.world, Loaded) /\ world'.stamp > m.world.stamp
                      /\ \A w \in Writers : Busy(w)' => Later(m.world, writer'[w].snap)
                      /\ wiped > m.world.stamp \/ Grows(m.auth, LoadUsers)
    BY <2>0, <2>3 DEF FlushKept, Later, Grows
  <2>4. /\ Later(m.world, world) /\ Later(m.world, Loaded)
        /\ \A w \in Writers : Busy(w) => Later(m.world, writer[w].snap)
        /\ wiped > m.world.stamp \/ Grows(m.auth, LoadUsers)
    BY <2>0, Mended DEF FlushKept
  <2>5. world'.stamp > m.world.stamp
    BY <2>0, <2>4, FlushFacts DEF Later
  <2>6. \A w \in Writers : Busy(w)' => Later(m.world, writer'[w].snap)
    BY <2>2, <2>4, <2>5 DEF Later
  <2> QED BY <2>4, <2>5, <2>6
<1> QED BY <1>1, <1>2

(* The save of a wipe goes on to the accounts. *)
LEMMA SaveAccountsFlush ==
  ASSUME IInv, FlushKept, SaveAccounts
  PROVE  FlushKept'
<1>1. /\ lock'.at = "users" /\ lock'.by = lock.by /\ auth' = auth /\ world' = world
      /\ file' = file /\ writer' = writer /\ wiped' = wiped /\ mishaps' = mishaps /\ flushed' = flushed
  BY DEF SaveAccounts, BeginUsers, mem
<1>2. Loaded' = Loaded /\ \A w \in Writers : Busy(w)' = Busy(w)
  BY <1>1 DEF Loaded, Busy
<1> QED BY <1>1, <1>2 DEF FlushKept, Later, Grows, None

(* The shutdown's save is over, with all that was in memory on disk and no *)
(* writer left; or another is, of what came after.                         *)
LEMMA EndUsersFlush ==
  ASSUME IInv, FlushKept, EndUsers
  PROVE  FlushKept'
<1>0. /\ lock.at = "users" /\ lock'.at = "free" /\ lock'.by = "none" /\ ~Busy("save")
      /\ auth' = auth /\ world' = world /\ file' = file /\ mishaps \subseteq mishaps'
      /\ wiped' = (IF lock.by = "wipe" THEN world.stamp ELSE wiped)
      /\ flushed' = (IF lock.by = "shutdown" THEN {[auth |-> auth, world |-> world]} ELSE flushed)
      /\ Loaded' = Loaded
  BY DEF IInv, LockHeld, EndUsers, Done, Free, mem, Loaded
<1>1. "failed" \notin mishaps' => LoadUsers' = auth
  <2>1. \A a \in Accounts : a # NoFile /\ a # Torn
    BY FilesTyped DEF IInv
  <2>2. "failed" \notin mishaps' => usersFile' = auth
    BY DEF EndUsers
  <2> QED BY <2>1, <2>2, FlushFacts DEF LoadUsers
<1>2. \A w \in Writers : Busy(w)' =>
        \/ writer'[w] = writer[w] /\ Busy(w)
        \/ lock.by = "autosave" /\ writer'[w].snap = world
  <2> DEFINE r == [at |-> "create", snap |-> world, on |-> "none"]
  <2>1. CASE lock.by = "autosave"
    <3>1. PICK v \in Autosavers : writer' = [writer EXCEPT ![v] = r]
      BY <2>1 DEF EndUsers
    <3>2. \A w \in Writers : writer'[w] = IF w = v THEN r ELSE writer[w]
      BY <3>1, FlushFacts DEF TypeOK, Writers
    <3> QED BY <2>1, <3>2 DEF Busy
  <2>2. CASE lock.by # "autosave"
    BY <2>2 DEF EndUsers, Busy
  <2> QED BY <2>1, <2>2
<1> SUFFICES ASSUME NEW m \in flushed', None({"overlap", "failed"})'
             PROVE  /\ Later(m.world, world) /\ Later(m.world, Loaded)
                    /\ \A w \in Writers : Busy(w)' => Later(m.world, writer'[w].snap)
                    /\ wiped' > m.world.stamp \/ Grows(m.auth, auth)
  <2>1. None({"overlap", "failed"})' => LoadUsers' = auth
    BY <1>1 DEF None
  <2> QED BY <1>0, <2>1 DEF FlushKept, Later, Grows
<1>3. None({"overlap", "failed"}) /\ None({"overlap"})
  BY <1>0 DEF None
<1>4. CASE lock.by = "shutdown"
  <2>1. m.auth = auth /\ m.world = world
    BY <1>0, <1>4
  <2>2. Loaded = world
    BY <1>0, <1>3, <1>4, FilesTyped, FlushFacts DEF IInv, ShutdownSaves, Loaded
  <2>3. \A w \in Writers : ~Busy(w)'
    BY <1>0, <1>2, <1>3, <1>4 DEF IInv, OneWriter, Writers
  <2> QED BY <2>1, <2>2, <2>3 DEF Later, Grows
<1>5. CASE lock.by # "shutdown"
  <2>1. m \in flushed
    BY <1>0, <1>5
  <2>2. /\ Later(m.world, world) /\ Later(m.world, Loaded)
        /\ \A w \in Writers : Busy(w) => Later(m.world, writer[w].snap)
        /\ lock.by = "wipe" => world.stamp > m.world.stamp
        /\ wiped > m.world.stamp \/ lock.by = "wipe" \/ Grows(m.auth, auth)
    BY <1>3, <2>1 DEF FlushKept
  <2> QED BY <1>0, <1>2, <2>2
<1> QED BY <1>4, <1>5

(* A writer makes or fills the temp file; renamed, its copy is what the    *)
(* next process loads.                                                     *)
LEMMA WriterFlush ==
  ASSUME IInv, FlushKept, NEW w \in Writers, CreateTmp(w) \/ Fill(w) \/ Rename(w)
  PROVE  FlushKept'
<1>0. /\ auth' = auth /\ world' = world /\ usersFile' = usersFile /\ wiped' = wiped
      /\ mishaps' = mishaps /\ flushed' = flushed /\ LoadUsers' = LoadUsers /\ Busy(w)
      /\ lock'.by = lock.by /\ (lock.at = "users" => lock'.at = "users")
  <2>1. /\ lock'.by = lock.by /\ (lock.at = "users" => lock'.at = "users")
        /\ Busy(w)
    BY FlushFacts DEF CreateTmp, Fill, Rename, SaveContinues, TypeOK, LockHeld, Busy
  <2> QED BY <2>1 DEF CreateTmp, Fill, Rename, mem, LoadUsers
<1>1. \A v \in Writers : Busy(v)' => Busy(v) /\ writer'[v].snap = writer[v].snap
  <2>1. writer \in [Writers -> Runs]
    BY FlushFacts DEF TypeOK, Runs
  <2> QED BY <2>1 DEF CreateTmp, Fill, Rename, Busy, Off, Runs
<1>2. ASSUME None({"overlap", "failed"})
      PROVE  Loaded' = Loaded \/ Loaded' = writer[w].snap
  <2>0. None({"overlap"}) /\ "overlap" \notin mishaps /\ file \in [{"live", "tmp"} -> {NoFile, Torn} \cup Worlds]
    BY <1>2, FlushFacts DEF None, TypeOK
  <2>1. CASE CreateTmp(w)
    BY <2>0, <2>1, LoadedSame DEF CreateTmp
  <2>2. CASE Fill(w)
    <3>1. writer[w].on = "tmp"
      BY <2>0, <2>2 DEF Fill, IInv, OneWriter
    <3> QED BY <2>0, <2>2, <3>1, LoadedSame DEF Fill
  <2>3. CASE Rename(w)
    <3>1. file'["live"] = writer[w].snap /\ writer[w].snap \in Worlds
      BY <2>0, <2>3, FlushFacts DEF Rename, IInv, OneWriter, TypeOK
    <3> QED BY <3>1, FilesAssumption DEF Loaded
  <2> QED BY <2>1, <2>2, <2>3
<1>3. None({"overlap", "failed"})' = None({"overlap", "failed"})
  BY <1>0 DEF None
<1> QED BY <1>0, <1>1, <1>2, <1>3 DEF FlushKept, Later, Grows

(* A failed write is a mishap; the next process has nothing flushed.       *)
LEMMA FailFlush ==
  ASSUME IInv, FlushKept, NEW w \in Writers, FailWrite(w)
  PROVE  FlushKept'
<1>1. ~None({"overlap", "failed"})'
  BY DEF FailWrite, None
<1>2. \/ lock'.by # "shutdown"
      \/ flushed' = flushed /\ lock' = lock
  BY DEF FailWrite, Done, Free
<1> QED BY <1>1, <1>2 DEF FlushKept

LEMMA FlushInit == Init => FlushKept
BY DEF Init, FlushKept

LEMMA FlushNext == IInv /\ FlushKept /\ [Next]_vars => FlushKept'
<1> SUFFICES ASSUME IInv, FlushKept, [Next]_vars PROVE FlushKept'
  OBVIOUS
<1>1. CASE UNCHANGED vars
  BY <1>1 DEF vars, FlushKept, Later, Grows, None, Loaded, LoadUsers, Busy
<1>2. CASE \/ \E ids \in 0 .. 1 : Play(ids)
           \/ \E n \in Names : Register(n) \/ Login(n) \/ Rise(n) \/ Ban(n)
  BY <1>2, SimFlush
<1>3. CASE SaveUsers \/ Autosave
  <2>1. Grows(auth, auth) /\ auth \in Accounts
    BY MemoryFacts
  <2> QED BY <1>3, <2>1, MemoryFlush DEF SaveUsers, Autosave, BeginUsers, mem
<1>4. CASE Wipe \/ Shutdown
  BY <1>4, SaveStartsFlush
<1>5. CASE SaveAccounts \/ EndUsers
  BY <1>5, SaveAccountsFlush, EndUsersFlush
<1>6. ASSUME NEW w \in Writers, CreateTmp(w) \/ Fill(w) \/ Rename(w) \/ FailWrite(w) PROVE FlushKept'
  BY <1>6, WriterFlush, FailFlush
<1>7. CASE Exit \/ Crash
  BY <1>7 DEF Exit, Crash, Boot, FlushKept
<1> QED BY <1>1, <1>2, <1>3, <1>4, <1>5, <1>6, <1>7 DEF Next

(* The process that boots after a shutdown's save has the world that was   *)
(* saved or a later one and, unless a wipe came after it or the exit cut   *)
(* off auth.save, every account, peak and ban of that save, whatever the   *)
(* sim did between the release of the lock and process::exit.              *)
THEOREM ShutdownKeeps == Spec => ShutdownLosesNothing
<1>1. ASSUME FlushKept, [Next]_vars
      PROVE  [restarts' # restarts /\ {"overlap", "failed"} \cap mishaps = {} =>
                \A m \in flushed :
                  /\ world' = m.world \/ world'.stamp > m.world.stamp
                  /\ lock.at = "users" \/ wiped > m.world.stamp \/ Grows(m.auth, auth')]_vars
  <2> SUFFICES ASSUME Next, restarts' # restarts, None({"overlap", "failed"}), NEW m \in flushed
               PROVE  /\ Later(m.world, world')
                      /\ lock.at = "users" \/ wiped > m.world.stamp \/ Grows(m.auth, auth')
    BY <1>1 DEF None, Later
  <2>1. Boot
    BY DEF Next, Play, Register, Login, Rise, Ban, SaveUsers, Autosave, Wipe, Shutdown, SaveAccounts,
           EndUsers, CreateTmp, Fill, Rename, FailWrite, Exit, Crash
  <2>2. world' = Loaded /\ auth' = LoadUsers
    BY <2>1 DEF Boot
  <2> QED BY <1>1, <2>2 DEF FlushKept
<1>2. Spec => []FlushKept
  BY FlushInit, FlushNext, Invariance, PTL DEF Spec
<1> QED BY <1>1, <1>2, PTL DEF Spec, ShutdownLosesNothing

-----------------------------------------------------------------------------
(* The file as an archive: the state of Archive, read off the writers. *)

Saves == {writer[w].snap : w \in {v \in Writers : Busy(v)}}
Mixed == "overlap" \in mishaps

LEMMA SavesSame ==
  ASSUME \A w \in Writers : Busy(w)' = Busy(w) /\ writer'[w].snap = writer[w].snap
  PROVE  Saves' = Saves
<1>1. Saves' = {writer'[w].snap : w \in {v \in Writers : Busy(v)'}}
  BY DEF Saves
<1>2. {v \in Writers : Busy(v)'} = {v \in Writers : Busy(v)}
  OBVIOUS
<1> QED BY <1>1, <1>2 DEF Saves

(* A run that begins adds its copy, one that ends takes away its own.      *)
LEMMA SavesGrow ==
  ASSUME TypeOK, NEW w \in Writers, ~Busy(w), NEW r \in Runs, r.at # "off",
         writer' = [writer EXCEPT ![w] = r]
  PROVE  Saves' = Saves \cup {r.snap}
<1>1. /\ writer'[w] = r /\ Busy(w)'
      /\ \A v \in Writers \ {w} : writer'[v] = writer[v] /\ Busy(v)' = Busy(v)
  BY WriterMoves DEF Busy
<1>2. Saves' = {writer'[v].snap : v \in {v \in Writers : Busy(v)'}}
  BY DEF Saves
<1>3. {v \in Writers : Busy(v)'} = {v \in Writers : Busy(v)} \cup {w}
  BY <1>1
<1>4. \A v \in Writers : Busy(v) => writer'[v].snap = writer[v].snap
  BY <1>1
<1>5. Saves' = {writer[v].snap : v \in {v \in Writers : Busy(v)}} \cup {writer'[w].snap}
  BY <1>2, <1>3, <1>4
<1> QED BY <1>1, <1>5 DEF Saves

LEMMA SavesShrink ==
  ASSUME NEW w \in Writers, ~Busy(w)',
         \A v \in Writers \ {w} : writer'[v].snap = writer[v].snap /\ Busy(v)' = Busy(v)
  PROVE  /\ Saves' \subseteq Saves
         /\ Busy(w) /\ (\A v \in Writers : Busy(v) => v = w)
              => Saves = {writer[w].snap} /\ Saves' = {}
<1>1. Saves' = {writer'[v].snap : v \in {v \in Writers : Busy(v)'}}
  BY DEF Saves
<1>2. \A v \in Writers : Busy(v)' => Busy(v) /\ writer'[v].snap = writer[v].snap
  OBVIOUS
<1>3. Saves' \subseteq Saves
  BY <1>1, <1>2 DEF Saves
<1>4. ASSUME Busy(w), \A v \in Writers : Busy(v) => v = w
      PROVE  Saves = {writer[w].snap} /\ Saves' = {}
  <2>1. {v \in Writers : Busy(v)} = {w} /\ {v \in Writers : Busy(v)'} = {}
    BY <1>2, <1>4
  <2> QED BY <1>1, <2>1 DEF Saves
<1> QED BY <1>3, <1>4

LEMMA NoSaves ==
  Saves = {} <=> \A w \in Writers : ~Busy(w)
BY DEF Saves

(* The steps of the archive, over this module's names. *)
LEMMA ArchiveKept ==
  ASSUME world' = world, Loaded' = Loaded, Saves' = Saves, Mixed' <=> Mixed
  PROVE  UNCHANGED Archived!vars
<1>1. ("overlap" \in mishaps)' = ("overlap" \in mishaps)
  BY DEF Mixed
<1> QED BY <1>1 DEF Archived!vars, Saves

LEMMA ArchivePlays ==
  ASSUME world' \in Worlds, Loaded' = Loaded, Saves' = Saves, Mixed' <=> Mixed
  PROVE  Archived!Play
<1>1. ("overlap" \in mishaps)' = ("overlap" \in mishaps)
  BY DEF Mixed
<1> QED BY <1>1 DEF Archived!Play, Saves

LEMMA ArchiveCopies ==
  ASSUME world' \in Worlds, Loaded' = Loaded, Saves' = Saves \cup {world'},
         Mixed' <=> (Mixed \/ Saves # {})
  PROVE  Archived!Copy
<1>1. ("overlap" \in mishaps)' = ("overlap" \in mishaps \/ Saves # {})
  BY DEF Mixed
<1> QED BY <1>1 DEF Archived!Copy, Saves

LEMMA ArchiveCommits ==
  ASSUME NEW w, Saves = {w}, world' = world, Loaded' = w, Saves' = {}, Mixed' <=> Mixed
  PROVE  Archived!Next
<1>1. ("overlap" \in mishaps)' = ("overlap" \in mishaps)
  BY DEF Mixed
<1>2. w \in Saves /\ Saves' = Saves \ {w}
  OBVIOUS
<1>3. Archived!Commit(w)
  BY <1>1, <1>2 DEF Archived!Commit, Saves
<1> QED BY <1>2, <1>3 DEF Archived!Next, Saves

LEMMA ArchiveAbandons ==
  ASSUME NEW w, Saves = {w}, world' = world, Loaded' = Loaded, Saves' = {}, Mixed' <=> Mixed
  PROVE  Archived!Next
<1>1. ("overlap" \in mishaps)' = ("overlap" \in mishaps)
  BY DEF Mixed
<1>2. w \in Saves /\ Saves' = Saves \ {w}
  OBVIOUS
<1>3. Archived!Abandon(w)
  BY <1>1, <1>2 DEF Archived!Abandon, Saves
<1> QED BY <1>2, <1>3 DEF Archived!Next, Saves

LEMMA ArchiveSpoils ==
  ASSUME Mixed, Mixed', world' = world, Loaded' \in Worlds, Saves' \subseteq Saves
  PROVE  Archived!Spoil
<1>1. ("overlap" \in mishaps)' = ("overlap" \in mishaps)
  BY DEF Mixed
<1> QED BY <1>1 DEF Archived!Spoil, Saves, Mixed

LEMMA ArchiveRestarts ==
  ASSUME world' = Loaded, Loaded' = Loaded, Saves' = {}, Mixed' <=> Mixed
  PROVE  Archived!Restart
<1>1. ("overlap" \in mishaps)' = ("overlap" \in mishaps)
  BY DEF Mixed
<1> QED BY <1>1 DEF Archived!Restart, Saves

(* The sim changes the world and leaves the files to be. *)
LEMMA MemoryArchived ==
  ASSUME IInv', file' = file, writer' = writer, mishaps' \in {mishaps, mishaps \cup {"twice"}}
  PROVE  Archived!Play
<1>1. Saves' = Saves
  BY SavesSame DEF Busy
<1>2. world' \in Worlds /\ Loaded' = Loaded /\ (Mixed' <=> Mixed)
  BY LoadedSame DEF IInv, TypeOK, Mixed
<1> QED BY <1>1, <1>2, ArchivePlays

(* The accounts are no part of the archive. *)
LEMMA AccountsUnseen ==
  ASSUME SaveUsers \/ Autosave \/ SaveAccounts
  PROVE  UNCHANGED Archived!vars
<1>1. world' = world /\ file' = file /\ writer' = writer /\ mishaps' = mishaps
  BY DEF SaveUsers, Autosave, SaveAccounts, mem
<1>2. Saves' = Saves
  BY <1>1, SavesSame DEF Busy
<1> QED BY <1>1, <1>2, LoadedSame, ArchiveKept DEF Mixed

(* A save begins with the world in memory. *)
LEMMA StartArchived ==
  ASSUME IInv, world' \in Worlds, file' = file, NEW w \in Writers, ~Busy(w),
         writer' = [writer EXCEPT ![w] = [at |-> "create", snap |-> world', on |-> "none"]],
         Mixed' <=> (Mixed \/ \E v \in Writers : Busy(v))
  PROVE  Archived!Copy
<1> DEFINE r == [at |-> "create", snap |-> world', on |-> "none"]
<1>1. r \in Runs /\ r.at # "off" /\ r.snap = world' /\ writer' = [writer EXCEPT ![w] = r]
  BY DEF Runs
<1>2. TypeOK
  BY DEF IInv
<1> HIDE DEF r
<1>3. Saves' = Saves \cup {world'}
  BY <1>1, <1>2, SavesGrow
<1>4. Mixed' <=> (Mixed \/ Saves # {})
  BY NoSaves
<1> QED BY <1>3, <1>4, LoadedSame, ArchiveCopies

LEMMA SaveArchived ==
  ASSUME IInv, IInv', Wipe \/ Shutdown
  PROVE  Archived!Copy
<1>1. /\ ~Busy("save") /\ file' = file
      /\ writer' = [writer EXCEPT !["save"] = [at |-> "create", snap |-> world', on |-> "none"]]
      /\ mishaps' = IF \E v \in Writers : Busy(v) THEN mishaps \cup {"overlap"} ELSE mishaps
  BY DEF Wipe, Shutdown, StartWriter, disk, mem
<1>2. world' \in Worlds /\ "save" \in Writers
  BY DEF IInv, TypeOK, Writers
<1>3. Mixed' <=> (Mixed \/ \E v \in Writers : Busy(v))
  BY <1>1 DEF Mixed
<1> QED BY <1>1, <1>2, <1>3, StartArchived

LEMMA EndUsersArchived ==
  ASSUME IInv, IInv', EndUsers
  PROVE  Archived!Copy \/ UNCHANGED Archived!vars
<1>1. world' = world /\ file' = file /\ world' \in Worlds
  BY DEF EndUsers, mem, IInv, TypeOK
<1>2. CASE lock.by = "autosave"
  <2>1. PICK w \in Autosavers :
          /\ ~Busy(w)
          /\ writer' = [writer EXCEPT ![w] = [at |-> "create", snap |-> world, on |-> "none"]]
          /\ "overlap" \in mishaps' <=> "overlap" \in mishaps \/ \E v \in Writers : Busy(v)
    BY <1>2 DEF EndUsers
  <2>2. w \in Writers
    BY DEF Writers
  <2> QED BY <1>1, <2>1, <2>2, StartArchived DEF Mixed
<1>3. CASE lock.by # "autosave"
  <2>1. writer' = writer /\ mishaps' \in {mishaps, mishaps \cup {"failed"}}
    BY <1>3 DEF EndUsers
  <2>2. Saves' = Saves
    BY <2>1, SavesSame DEF Busy
  <2> QED BY <1>1, <2>1, <2>2, LoadedSame, ArchiveKept DEF Mixed
<1> QED BY <1>2, <1>3

(* What goes into the temp file is not to be seen, as long as the writers  *)
(* came one after the other.                                               *)
LEMMA TmpArchived ==
  ASSUME IInv, IInv', NEW w \in Writers, CreateTmp(w) \/ Fill(w)
  PROVE  Archived!Spoil \/ UNCHANGED Archived!vars
<1>1. /\ world' = world /\ mishaps' = mishaps
      /\ writer \in [Writers -> Runs] /\ file \in [{"live", "tmp"} -> {NoFile, Torn} \cup Worlds]
  BY DEF CreateTmp, Fill, mem, IInv, TypeOK, Runs
<1>2. Saves' = Saves
  <2>1. CASE CreateTmp(w)
    BY <1>1, <2>1, SavesSame DEF CreateTmp, Busy, Runs
  <2>2. CASE Fill(w)
    BY <1>1, <2>2, SavesSame DEF Fill, Busy, Runs
  <2> QED BY <2>1, <2>2
<1>3. CASE ~Mixed
  <2>1. CASE CreateTmp(w)
    <3>1. file'["live"] = file["live"]
      BY <1>1, <2>1 DEF CreateTmp
    <3> QED BY <1>1, <1>2, <3>1, LoadedSame, ArchiveKept DEF Mixed
  <2>2. CASE Fill(w)
    <3>1. writer[w].on = "tmp"
      BY <1>3, <2>2 DEF IInv, OneWriter, None, Mixed, Fill
    <3>2. file'["live"] = file["live"]
      BY <1>1, <2>2, <3>1 DEF Fill
    <3> QED BY <1>1, <1>2, <3>2, LoadedSame, ArchiveKept DEF Mixed
  <2> QED BY <2>1, <2>2
<1>4. CASE Mixed
  <2>1. Loaded' \in Worlds /\ Mixed'
    <3>1. Loaded' = IF file'["live"] \in {NoFile, Torn} THEN Fresh ELSE file'["live"]
      BY DEF Loaded
    <3>2. file' \in [{"live", "tmp"} -> {NoFile, Torn} \cup Worlds] /\ Fresh \in Worlds
      BY FilesTyped DEF IInv, TypeOK
    <3> QED BY <1>1, <1>4, <3>1, <3>2 DEF Mixed
  <2> QED BY <1>1, <1>2, <1>4, <2>1, ArchiveSpoils
<1> QED BY <1>3, <1>4

(* A rename commits the copy of the one writer there is. *)
LEMMA RenameArchived ==
  ASSUME IInv, IInv', NEW w \in Writers, Rename(w)
  PROVE  Archived!Next
<1>1. /\ world' = world /\ mishaps' = mishaps /\ writer[w].at = "rename"
      /\ file'["live"] = file["tmp"] /\ writer \in [Writers -> Runs]
  BY DEF Rename, mem, IInv, TypeOK, Runs
<1>2. /\ Busy(w) /\ ~Busy(w)'
      /\ \A v \in Writers \ {w} : writer'[v].snap = writer[v].snap /\ Busy(v)' = Busy(v)
  <2>1. writer'[w] = Off
    BY DEF Rename
  <2>2. \A v \in Writers \ {w} : writer'[v].snap = writer[v].snap /\ writer'[v].at = writer[v].at
    BY <1>1 DEF Rename, Runs
  <2> QED BY <1>1, <2>1, <2>2 DEF Busy, Off
<1>3. Loaded' = IF file["tmp"] \in {NoFile, Torn} THEN Fresh ELSE file["tmp"]
  BY <1>1 DEF Loaded
<1>4. CASE ~Mixed
  <2>1. /\ file["tmp"] = writer[w].snap /\ \A v \in Writers : Busy(v) => v = w
    BY <1>1, <1>2, <1>4 DEF IInv, OneWriter, None, Mixed
  <2>2. writer[w].snap \in Worlds
    BY <1>1 DEF Runs
  <2>3. Loaded' = writer[w].snap
    BY <1>3, <2>1, <2>2, FilesAssumption
  <2>4. Saves = {writer[w].snap} /\ Saves' = {}
    BY <1>2, <2>1, SavesShrink
  <2> QED BY <1>1, <2>3, <2>4, ArchiveCommits DEF Mixed
<1>5. CASE Mixed
  <2>1. Loaded' \in Worlds
    <3>1. file["tmp"] \in {NoFile, Torn} \cup Worlds /\ Fresh \in Worlds
      BY FilesTyped DEF IInv, TypeOK
    <3> QED BY <1>3, <3>1
  <2>2. Saves' \subseteq Saves
    BY <1>2, SavesShrink
  <2> QED BY <1>1, <1>5, <2>1, <2>2, ArchiveSpoils DEF Mixed, Archived!Next
<1> QED BY <1>4, <1>5

(* A failed write gives its copy up. *)
LEMMA FailArchived ==
  ASSUME IInv, NEW w \in Writers, FailWrite(w)
  PROVE  Archived!Next
<1>1. /\ world' = world /\ mishaps' = mishaps \cup {"failed"} /\ file' = file
      /\ Busy(w) /\ writer' = [writer EXCEPT ![w] = Off] /\ writer \in [Writers -> Runs]
  BY DEF FailWrite, mem, disk, IInv, TypeOK, Runs
<1>2. /\ ~Busy(w)'
      /\ \A v \in Writers \ {w} : writer'[v].snap = writer[v].snap /\ Busy(v)' = Busy(v)
  BY <1>1 DEF Busy, Off
<1>3. (Mixed' <=> Mixed) /\ Loaded' = Loaded
  BY <1>1, LoadedSame DEF Mixed
<1>4. CASE ~Mixed
  <2>1. \A v \in Writers : Busy(v) => v = w
    BY <1>1, <1>4 DEF IInv, OneWriter, None, Mixed
  <2>2. Saves = {writer[w].snap} /\ Saves' = {}
    BY <1>1, <1>2, <2>1, SavesShrink
  <2> QED BY <1>1, <1>3, <2>2, ArchiveAbandons
<1>5. CASE Mixed
  <2>1. Loaded \in Worlds /\ Saves' \subseteq Saves
    BY <1>2, FilesTyped, SavesShrink DEF IInv
  <2> QED BY <1>1, <1>3, <1>5, <2>1, ArchiveSpoils DEF Archived!Next
<1> QED BY <1>4, <1>5

(* The next process begins with what was committed. *)
LEMMA BootArchived ==
  ASSUME Boot
  PROVE  Archived!Restart
<1>1. /\ world' = Loaded /\ file' = file /\ writer' = [w \in Writers |-> Off]
      /\ "overlap" \in mishaps' <=> "overlap" \in mishaps
  BY DEF Boot, disk
<1>2. \A w \in Writers : ~Busy(w)'
  BY <1>1 DEF Busy, Off
<1>3. Saves' = {}
  BY <1>2 DEF Saves
<1> QED BY <1>1, <1>3, LoadedSame, ArchiveRestarts DEF Mixed

(* persist.rs keeps an archive of the world: until two saves overlap, a    *)
(* restart goes back to the whole of one copy, taken under the write lock  *)
(* after all that was committed before, whichever of the tick, a wipe, a   *)
(* shutdown or an autosave made it, whatever write_snapshot_bytes had      *)
(* reached when the process died and whatever the disk refused; after an   *)
(* overlap it still boots into a world.                                    *)
THEOREM Archiving == Spec => ImplementsArchive
<1>1. Init => Archived!Init
  <2> SUFFICES ASSUME Init PROVE Archived!Init
    OBVIOUS
  <2>1. /\ Loaded = Fresh /\ world = Fresh /\ ("overlap" \in mishaps) = FALSE
    BY DEF Init, Loaded
  <2>2. Saves = {}
    BY NoSaves DEF Init, Busy, Off
  <2> QED BY <2>1, <2>2 DEF Archived!Init, Saves
<1>2. IInv /\ IInv' /\ [Next]_vars => [Archived!Next]_(Archived!vars)
  <2> SUFFICES ASSUME IInv, IInv', [Next]_vars PROVE [Archived!Next]_(Archived!vars)
    OBVIOUS
  <2>1. CASE UNCHANGED vars
    <3>1. world' = world /\ file' = file /\ writer' = writer /\ mishaps' = mishaps
      BY <2>1 DEF vars
    <3>2. Saves' = Saves
      BY <3>1, SavesSame DEF Busy
    <3> QED BY <3>1, <3>2, LoadedSame, ArchiveKept DEF Mixed
  <2>2. ASSUME NEW ids \in 0 .. 1, Play(ids) PROVE Archived!Play
    BY <2>2, MemoryArchived DEF Play, disk
  <2>3. ASSUME NEW n \in Names, Register(n) \/ Login(n) \/ Rise(n) \/ Ban(n) PROVE Archived!Play
    <3>1. /\ file' = file /\ writer' = writer
          /\ mishaps' \in {mishaps, mishaps \cup {"twice"}}
      BY <2>3 DEF Register, Login, Rise, Ban, disk
    <3> QED BY <3>1, MemoryArchived
  <2>4. CASE SaveUsers \/ Autosave \/ SaveAccounts
    BY <2>4, AccountsUnseen
  <2>5. CASE Wipe \/ Shutdown
    BY <2>5, SaveArchived DEF Archived!Next
  <2>6. CASE EndUsers
    BY <2>6, EndUsersArchived DEF Archived!Next
  <2>7. ASSUME NEW w \in Writers, CreateTmp(w) \/ Fill(w) \/ Rename(w) \/ FailWrite(w)
        PROVE  [Archived!Next]_(Archived!vars)
    BY <2>7, TmpArchived, RenameArchived, FailArchived DEF Archived!Next
  <2>8. CASE Exit \/ Crash
    BY <2>8, BootArchived DEF Exit, Crash, Archived!Next
  <2> QED BY <2>1, <2>2, <2>3, <2>4, <2>5, <2>6, <2>7, <2>8 DEF Next, Archived!Next
<1> QED BY <1>1, <1>2, Invariance, PTL DEF Spec, ImplementsArchive, Archived!Spec
=============================================================================
