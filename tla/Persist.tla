------------------------------- MODULE Persist -------------------------------
(***************************************************************************)
(* What survives a restart: world.snapshot (persist.rs) and users.json     *)
(* (auth.rs), and who writes them.  The sim thread and the shutdown task   *)
(* save while they hold the world's write lock; the autosave only encodes  *)
(* under it and leaves the file to a detached thread, so several threads   *)
(* may be writing the same two paths (`world.snapshot` and its `.tmp`) at  *)
(* once.  The process may die between any two steps of any of them.        *)
(*                                                                         *)
(* The world is a stamp, fresh at every change, with the id counter, the   *)
(* players (NPCs apart) and the starter credits paid to them, which the    *)
(* accounts must agree with.  A file is what load would make of it.  The   *)
(* crash is the process's, never the machine's.                            *)
(***************************************************************************)
EXTENDS Integers, FiniteSets, Functions

CONSTANTS
  Names,        \* account names, the admin's excluded
  Autosavers,   \* the detached threads
  NoFile, Torn, \* a missing file; one load cannot read
  FirstId,      \* next_player_id of a fresh or wiped world
  Disks,        \* {FALSE}: writes succeed; {TRUE, FALSE}: they may fail
  MaxIds, MaxStamp, MaxBans, MaxRestarts  \* bounds

ASSUME PersistAssumption ==
  /\ FirstId \in Nat \ {0} /\ MaxIds \in Nat /\ MaxStamp \in Nat /\ MaxBans \in Nat /\ MaxRestarts \in Nat
  /\ FALSE \in Disks /\ Disks \subseteq BOOLEAN
  /\ "save" \notin Autosavers

VARIABLES
  auth,      \* [users, peaks, banned]: name -> player id; past the shop gate; banned
  world,     \* [stamp, nextId, players, paid]: what serialize_world encodes
  lock,      \* who holds the write lock in the middle of a save, and what it has still to do
  file,      \* the contents of world.snapshot and world.snapshot.tmp
  usersFile, \* the contents of users.json
  writer,    \* each run of write_snapshot_bytes: its step, its bytes, the file its handle is on
  \* What the properties look back at.
  clock,     \* the last stamp given out
  kept,      \* stamp of the newest save renamed into place
  wiped,     \* stamp of the last wipe whose save is done
  mishaps,   \* what has gone wrong: "overlap", "failed", "torn", "unsaved", "split", "twice"
  flushed,   \* the memory the shutdown has saved, if it has, until the process is gone
  restarts   \* bound counter

mem == <<auth, world, clock>>
disk == <<file, usersFile, kept>>
vars == <<auth, world, lock, file, usersFile, writer, clock, kept, wiped, mishaps, flushed, restarts>>

NoId == 0
Ids == FirstId .. FirstId + MaxIds - 1
NoUsers == [users |-> [n \in Names |-> NoId], peaks |-> {}, banned |-> {}]
Accounts == [users : [Names -> Ids \cup {NoId}], peaks : SUBSET Names, banned : SUBSET Names]
Worlds == [stamp : 0 .. MaxStamp, nextId : FirstId .. FirstId + MaxIds,
           players : SUBSET Ids, paid : SUBSET Ids]

(* A file that is missing or torn is neither.                              *)
ASSUME FilesAssumption ==
  NoFile # Torn /\ {NoFile, Torn} \cap (Accounts \cup Worlds) = {}

Fresh == [stamp |-> 0, nextId |-> FirstId, players |-> {}, paid |-> {}]
IdOf(n) == auth.users[n]
Writers == Autosavers \cup {"save"}
Off == [at |-> "off", snap |-> Fresh, on |-> "none"]
Free == [at |-> "free", by |-> "none"]

TypeOK ==
  /\ auth \in Accounts
  /\ world \in Worlds
  /\ lock \in [at : {"free", "snapshot", "accounts", "users"},
             by : {"none", "account", "autosave", "wipe", "shutdown"}]
  /\ file \in [{"live", "tmp"} -> {NoFile, Torn} \cup Worlds]
  /\ usersFile \in {NoFile, Torn} \cup Accounts
  /\ writer \in [Writers -> [at : {"off", "create", "fill", "rename"}, snap : Worlds,
                             on : {"none", "tmp", "live", "unlinked"}]]
  /\ clock \in 0 .. MaxStamp /\ world.stamp <= clock
  /\ kept \in 0 .. clock /\ wiped \in 0 .. clock
  /\ mishaps \subseteq {"overlap", "failed", "torn", "unsaved", "split", "twice"}
  /\ flushed \subseteq [auth : Accounts, world : Worlds]
  /\ restarts \in 0 .. MaxRestarts

(* First boot: no files. *)
Init ==
  /\ auth = NoUsers /\ world = Fresh
  /\ lock = Free
  /\ file = [f \in {"live", "tmp"} |-> NoFile]
  /\ usersFile = NoFile
  /\ writer = [w \in Writers |-> Off]
  /\ clock = 0 /\ kept = 0 /\ wiped = 0
  /\ mishaps = {} /\ flushed = {} /\ restarts = 0

-----------------------------------------------------------------------------
(* The sim, under the write lock. *)

Stamped(w) == clock < MaxStamp /\ clock' = clock + 1 /\ world' = [w EXCEPT !.stamp = clock + 1]

(* auth.save: fs::write truncates users.json, then fills it. *)
BeginUsers(by) ==
  /\ lock' = [at |-> "users", by |-> by]
  /\ usersFile' = Torn

Busy(w) == writer[w].at # "off"

(* A run of write_snapshot_bytes begins on what the world is now. *)
StartWriter(w, snap) ==
  /\ ~Busy(w)
  /\ writer' = [writer EXCEPT ![w] = [at |-> "create", snap |-> snap, on |-> "none"]]
  /\ mishaps' = IF \E v \in Writers : Busy(v) THEN mishaps \cup {"overlap"} ELSE mishaps

(* A tick, or a spawn_npc, which takes an id. *)
Play(ids) ==
  /\ lock = Free
  /\ world.nextId + ids <= FirstId + MaxIds
  /\ Stamped([world EXCEPT !.nextId = @ + ids])
  /\ UNCHANGED <<auth, lock, disk, writer, wiped, mishaps, restarts, flushed>>

(* Mutant: the account waits for the next autosave. *)
RegisterUnsaved(n) ==
  /\ lock = Free /\ IdOf(n) = NoId /\ world.nextId \in Ids
  /\ auth' = [auth EXCEPT !.users[n] = world.nextId]
  /\ Stamped([world EXCEPT !.nextId = @ + 1, !.players = @ \cup {world.nextId}])
  /\ UNCHANGED <<lock, disk, writer, wiped, mishaps, restarts, flushed>>

Register(n) ==
  /\ lock = Free /\ IdOf(n) = NoId /\ world.nextId \in Ids
  /\ auth' = [auth EXCEPT !.users[n] = world.nextId]
  /\ Stamped([world EXCEPT !.nextId = @ + 1, !.players = @ \cup {world.nextId}])
  /\ BeginUsers("account")
  /\ UNCHANGED <<file, kept, writer, wiped, mishaps, restarts, flushed>>

(* An account whose player the snapshot did not hold gets a new one; one   *)
(* whose queen the admin has taken past the gate since has its peak raised *)
(* without the credit, and saved.                                          *)
Login(n) ==
  /\ lock = Free /\ IdOf(n) # NoId /\ n \notin auth.banned
  /\ IF IdOf(n) \notin world.players
     THEN /\ Stamped([world EXCEPT !.players = @ \cup {IdOf(n)}])
          /\ UNCHANGED <<auth, lock, usersFile>>
     ELSE /\ n \notin auth.peaks
          /\ Stamped(world)
          /\ auth' = [auth EXCEPT !.peaks = @ \cup {n}]
          /\ BeginUsers("account")
  /\ UNCHANGED <<file, kept, writer, wiped, mishaps, restarts, flushed>>

(* flush_xp takes a queen to the shop gate or beyond: apply_peak_unlocks   *)
(* pays her account's starter credit, once, and saves nothing.  Accounts   *)
(* that share a player are left out.                                       *)
Rise(n) ==
  /\ lock = Free /\ IdOf(n) \in world.players
  /\ \A m \in Names \ {n} : IdOf(m) # IdOf(n)
  /\ n \notin auth.peaks
  /\ auth' = [auth EXCEPT !.peaks = @ \cup {n}]
  /\ Stamped([world EXCEPT !.paid = @ \cup {IdOf(n)}])
  /\ mishaps' = IF IdOf(n) \in world.paid THEN mishaps \cup {"twice"} ELSE mishaps
  /\ UNCHANGED <<lock, disk, writer, wiped, restarts, flushed>>

(* ban-player: by the player's name, whether or not it has an account.  The *)
(* stamp is that of the tick the message is drained in.                    *)
Ban(n) ==
  /\ lock = Free
  /\ IdOf(n) \in world.players \/ (IdOf(n) = NoId /\ world.players \ Range(auth.users) # {})
  /\ Cardinality(auth.banned) < MaxBans
  /\ auth' = [auth EXCEPT !.banned = @ \cup {n}]
  /\ Stamped(world)
  /\ UNCHANGED <<lock, disk, writer, wiped, mishaps, restarts, flushed>>

(* The accounts are saved for what is not modelled of them: set-color, and *)
(* a login that raises a peak elsewhere.                                   *)
SaveUsers ==
  /\ lock = Free
  /\ BeginUsers("account")
  /\ UNCHANGED <<mem, file, kept, writer, wiped, mishaps, restarts, flushed>>

(* Mutant: the accounts are left to the registrations. *)
AutosaveWorldOnly ==
  /\ lock = Free
  /\ \E w \in Autosavers : StartWriter(w, world)
  /\ UNCHANGED <<mem, disk, lock, wiped, restarts, flushed>>

(* The periodic autosave: encode and auth.save; the bytes go to a thread   *)
(* once the lock is free.                                                  *)
Autosave ==
  /\ lock = Free
  /\ \E w \in Autosavers : ~Busy(w)
  /\ BeginUsers("autosave")
  /\ UNCHANGED <<mem, file, kept, writer, wiped, mishaps, restarts, flushed>>

(* Mutant: the accounts are reset on disk ahead of the world. *)
WipeAccountsFirst ==
  /\ lock = Free
  /\ auth' = NoUsers /\ usersFile' = NoUsers
  /\ Stamped(Fresh)
  /\ lock' = [at |-> "snapshot", by |-> "wipe"]
  /\ StartWriter("save", world')
  /\ UNCHANGED <<file, kept, wiped, restarts, flushed>>

(* Mutant: the counter starts over and the accounts are kept. *)
WipeKeepsAccounts ==
  /\ lock = Free
  /\ Stamped(Fresh)
  /\ lock' = [at |-> "snapshot", by |-> "wipe"]
  /\ StartWriter("save", world')
  /\ UNCHANGED <<auth, disk, wiped, restarts, flushed>>

(* wipe_world_and_users, up to its persist::save. *)
Wipe ==
  /\ lock = Free
  /\ auth' = NoUsers
  /\ Stamped(Fresh)
  /\ lock' = [at |-> "snapshot", by |-> "wipe"]
  /\ StartWriter("save", world')
  /\ UNCHANGED <<disk, wiped, restarts, flushed>>

(* SIGTERM or Ctrl-C: the shutdown task takes the lock and saves, once.    *)
Shutdown ==
  /\ lock = Free /\ flushed = {}
  /\ lock' = [at |-> "snapshot", by |-> "shutdown"]
  /\ StartWriter("save", world)
  /\ UNCHANGED <<mem, disk, wiped, restarts, flushed>>

(* The holder of the lock drops it.  The shutdown's guard is gone before   *)
(* process::exit(0) is called, so the sim may go on in between.            *)
Done ==
  /\ lock' = Free
  /\ flushed' = IF lock.by = "shutdown" THEN {[auth |-> auth, world |-> world]} ELSE flushed

(* auth.save ends, its error ignored; the autosave's bytes get a thread.   *)
EndUsers ==
  /\ lock.at = "users"
  /\ \E fails \in Disks :
       /\ usersFile' = IF fails THEN Torn ELSE auth
       /\ IF lock.by = "autosave"
          THEN \E w \in Autosavers :
                 /\ ~Busy(w)
                 /\ writer' = [writer EXCEPT ![w] = [at |-> "create", snap |-> world, on |-> "none"]]
                 /\ mishaps' = mishaps \cup (IF \E v \in Writers : Busy(v) THEN {"overlap"} ELSE {})
                                       \cup (IF fails THEN {"failed"} ELSE {})
          ELSE /\ UNCHANGED writer
               /\ mishaps' = IF fails THEN mishaps \cup {"failed"} ELSE mishaps
  /\ wiped' = IF lock.by = "wipe" THEN world.stamp ELSE wiped
  /\ Done
  /\ UNCHANGED <<mem, file, kept, restarts>>

-----------------------------------------------------------------------------
(* write_snapshot_bytes, on whichever thread. *)

(* Mutant: the live file is written in place. *)
CreateTmpInPlace(w) ==
  /\ writer[w].at = "create"
  /\ file' = [file EXCEPT !["live"] = Torn]
  /\ writer' = [writer EXCEPT ![w].at = "fill", ![w].on = "live"]
  /\ UNCHANGED <<mem, usersFile, kept, lock, wiped, mishaps, restarts, flushed>>

(* File::create: makes the file, or truncates the one that is there.       *)
CreateTmp(w) ==
  /\ writer[w].at = "create"
  /\ file' = [file EXCEPT !["tmp"] = Torn]
  /\ writer' = [writer EXCEPT ![w].at = "fill", ![w].on = "tmp"]
  /\ UNCHANGED <<mem, usersFile, kept, lock, wiped, mishaps, restarts, flushed>>

(* Two handles on one file write over each other.                          *)
Shared(w) ==
  \/ file[writer[w].on] # Torn
  \/ \E v \in Writers \ {w} : writer[v].at = "fill" /\ writer[v].on = writer[w].on

(* Mutant: the world is encoded when its turn to be written comes. *)
FillLate(w) ==
  /\ writer[w].at = "fill"
  /\ IF writer[w].on = "unlinked" THEN UNCHANGED file
     ELSE \E bytes \in {world} \cup (IF Shared(w) THEN {Torn} ELSE {}) :
            file' = [file EXCEPT ![writer[w].on] = bytes]
  /\ writer' = [writer EXCEPT ![w].at = "rename"]
  /\ UNCHANGED <<mem, usersFile, kept, lock, wiped, mishaps, restarts, flushed>>

(* The bytes are written and flushed. *)
Fill(w) ==
  /\ writer[w].at = "fill"
  /\ IF writer[w].on = "unlinked" THEN UNCHANGED file
     ELSE \E bytes \in {writer[w].snap} \cup (IF Shared(w) THEN {Torn} ELSE {}) :
            file' = [file EXCEPT ![writer[w].on] = bytes]
  /\ writer' = [writer EXCEPT ![w].at = "rename"]
  /\ UNCHANGED <<mem, usersFile, kept, lock, wiped, mishaps, restarts, flushed>>

(* After the snapshot, persist::save goes on to the accounts. *)
SaveContinues(w) == lock' = IF w = "save" THEN [lock EXCEPT !.at = "accounts"] ELSE lock

SaveAccounts ==
  /\ lock.at = "accounts"
  /\ BeginUsers(lock.by)
  /\ UNCHANGED <<mem, file, kept, writer, wiped, mishaps, restarts, flushed>>

(* fs::rename: handles stay on the files they were opened on.              *)
Rename(w) ==
  /\ writer[w].at = "rename" /\ file["tmp"] # NoFile
  /\ file' = [live |-> file["tmp"], tmp |-> NoFile]
  /\ writer' = [v \in Writers |->
       IF v = w THEN Off
       ELSE [writer[v] EXCEPT !.on = CASE @ = "tmp" -> "live"
                                       [] @ = "live" -> "unlinked"
                                       [] OTHER -> @]]
  /\ kept' = IF writer[w].snap.stamp > kept THEN writer[w].snap.stamp ELSE kept
  /\ SaveContinues(w)
  /\ UNCHANGED <<mem, usersFile, wiped, mishaps, restarts, flushed>>

(* An error ends the run, and persist::save before the accounts: a full    *)
(* disk at any step, or a rename that finds its file renamed away.         *)
FailWrite(w) ==
  /\ Busy(w)
  /\ TRUE \in Disks \/ (writer[w].at = "rename" /\ file["tmp"] = NoFile)
  /\ writer' = [writer EXCEPT ![w] = Off]
  /\ mishaps' = mishaps \cup {"failed"}
  /\ IF w = "save" THEN Done ELSE UNCHANGED <<lock, flushed>>
  /\ UNCHANGED <<mem, disk, wiped, restarts>>

-----------------------------------------------------------------------------
(* main, at boot: Auth::load, then persist::load and restore. *)

(* Mutant: what cannot be parsed is taken as it is. *)
LoadUsersUnchecked ==
  IF usersFile = NoFile THEN NoUsers
  ELSE IF usersFile = Torn THEN [NoUsers EXCEPT !.users = Torn] ELSE usersFile

(* Mutant: the file is read as it was before it held the bans. *)
LoadUsersNoBans ==
  IF usersFile \in {NoFile, Torn} THEN NoUsers ELSE [usersFile EXCEPT !.banned = {}]

LoadUsers == IF usersFile \in {NoFile, Torn} THEN NoUsers ELSE usersFile

(* Mutant: the counter is not restored. *)
LoadedFreshIds ==
  IF file["live"] \in {NoFile, Torn} THEN Fresh ELSE [file["live"] EXCEPT !.nextId = FirstId]

Loaded == IF file["live"] \in {NoFile, Torn} THEN Fresh ELSE file["live"]

(* The process ends, its threads with it, and the next one boots. *)
Boot ==
  /\ restarts < MaxRestarts /\ restarts' = restarts + 1
  /\ auth' = LoadUsers
  /\ world' = Loaded
  /\ lock' = Free /\ flushed' = {}
  /\ writer' = [w \in Writers |-> Off]
  /\ mishaps' = mishaps \cup (IF usersFile = Torn THEN {"torn"} ELSE {})
                        \cup (IF LoadUsers.users # auth.users \/ Loaded.nextId # world.nextId
                              THEN {"unsaved"} ELSE {})
                        \cup (IF lock.at = "accounts" THEN {"split"} ELSE {})
  /\ UNCHANGED <<disk, clock, wiped>>

(* process::exit(0), at any time after the shutdown's save. *)
Exit == flushed # {} /\ Boot

Crash == Boot

Next ==
  \/ \E ids \in 0 .. 1 : Play(ids)
  \/ \E n \in Names : Register(n) \/ Login(n) \/ Rise(n) \/ Ban(n)
  \/ SaveUsers
  \/ Autosave
  \/ Wipe
  \/ Shutdown
  \/ SaveAccounts \/ EndUsers
  \/ \E w \in Writers : CreateTmp(w) \/ Fill(w) \/ Rename(w) \/ FailWrite(w)
  \/ Exit
  \/ Crash

Spec == Init /\ [][Next]_vars

-----------------------------------------------------------------------------
(* "Writes are atomic (temp file + rename) so a crash mid-write can't      *)
(* corrupt the live snapshot": as long as no two saves were ever in flight *)
(* together, what a restart finds is whole and is the newest save that     *)
(* finished, through crashes, failed writes and leftover temp files.       *)
NewestSave ==
  "overlap" \notin mishaps =>
    IF kept = 0 THEN file["live"] \in {NoFile, Fresh}
    ELSE file["live"] \in Worlds /\ file["live"].stamp = kept

(* Every registration is on disk before its answer is followed by anything *)
(* else: with no failed write, whenever the lock is free users.json reads  *)
(* back as the accounts in memory; of peaks and bans, which are saved with *)
(* the next registration, login or autosave, it may be behind, not ahead.  *)
AccountsDurable ==
  lock.at = "free" /\ "failed" \notin mishaps =>
    /\ LoadUsers.users = auth.users
    /\ LoadUsers.peaks \subseteq auth.peaks /\ LoadUsers.banned \subseteq auth.banned

(* A player belongs to an account, wherever between the two files the      *)
(* process died.  The exceptions are named: users.json torn by the crash,  *)
(* saves that overlapped, and a failed save (after a wipe it leaves the    *)
(* old world for the next accounts to be saved beside).                    *)
PlayersHaveAccounts ==
  {"overlap", "torn", "failed"} \cap mishaps = {} => world.players \subseteq Range(auth.users)

IdsDistinct == \A m, n \in Names : m # n /\ IdOf(m) # NoId => IdOf(m) # IdOf(n)

(* No two accounts share a player and the counter is ahead of every        *)
(* account, unless the process once died with a counter or with accounts   *)
(* that were not on disk.                                                  *)
IdsOwnUnlessLost ==
  "unsaved" \notin mishaps => IdsDistinct /\ \A n \in Names : IdOf(n) < world.nextId

(* An account keeps its player, its peak and its ban.                      *)
Grows(a, b) ==
  /\ \A n \in Names : a.users[n] \in {NoId, b.users[n]}
  /\ a.peaks \subseteq b.peaks /\ a.banned \subseteq b.banned

(* "flushes the latest state to disk before exit": whatever the sim still  *)
(* does between the shutdown's save and the exit, the next process has the *)
(* world that was saved or a later one, and every account, peak and ban of *)
(* that save, unless a wipe came after it or the exit cut off auth.save.   *)
ShutdownLosesNothing ==
  [][restarts' # restarts /\ {"overlap", "failed"} \cap mishaps = {} =>
       \A m \in flushed :
         /\ world' = m.world \/ world'.stamp > m.world.stamp
         /\ lock.at = "users" \/ wiped > m.world.stamp \/ Grows(m.auth, auth')]_vars

(* "granting the level-10 starter credit exactly once": the peak is in one *)
(* file and the credit in the other, so a crash may lose the credit; but   *)
(* it is not paid twice, since only a shutdown or a wipe that dies between *)
(* its two files leaves a world that is ahead of the accounts.             *)
StarterNotTwice ==
  "twice" \in mishaps => {"overlap", "torn", "failed", "split"} \cap mishaps # {}

(* The world's file is an archive: until two saves overlap a restart goes  *)
(* back to the whole of one copy, taken under the lock after all that was  *)
(* committed before, whatever a writer had reached when the process died.  *)
Archived == INSTANCE Archive WITH
  saved <- Loaded,
  copies <- {writer[w].snap : w \in {v \in Writers : Busy(v)}},
  mixed <- ("overlap" \in mishaps)

ImplementsArchive == Archived!Spec

(* "lifetime player ids (monotonic, never reused)": stated without the     *)
(* exception for a crash.                                                  *)
IdsNeverReused == IdsDistinct

(* "persisted immediately so a later restart can't reload pre-wipe state": *)
(* the file a restart would load is never from before the last wipe.       *)
WipeSticks ==
  lock = Free /\ file["live"] \in Worlds => file["live"].stamp >= wiped
=============================================================================
