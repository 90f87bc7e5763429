------------------------------- MODULE Session -------------------------------
(***************************************************************************)
(* Connections, accounts and players: the read half of every WebSocket     *)
(* task (server.rs), the command queue into the sim thread and the part of *)
(* its handlers that ties a player to a connection (handlers.rs, auth.rs). *)
(*                                                                         *)
(* A task never touches the world: it pushes commands and waits for the    *)
(* answer to a login.  So at every step several connections may hold the   *)
(* same player, each with the generation it was given, and commands of     *)
(* connections that are long gone may still be queued.                     *)
(***************************************************************************)
EXTENDS Integers, Sequences

CONSTANTS
  Sockets,    \* connections; each is used once
  Names,      \* account names, the admin's excluded
  NoSocket,   \* p.tx = None
  NoPlayer,   \* no entry in world.players
  FirstId,    \* next_player_id of a fresh or wiped world
  MaxAuths,   \* bound on the register and login messages sent
  MaxWipes,   \* bound on the admin wipes
  MaxQueue    \* bound on the queued commands (the channel is unbounded)

Ids == FirstId .. FirstId + MaxAuths - 1

(* What ties a player to its account and its connection.                   *)
Player == [name : Names, tx : Sockets \cup {NoSocket}, gen : 1 .. MaxAuths, away : BOOLEAN]

ASSUME SessionAssumption ==
  /\ NoSocket \notin Sockets
  /\ NoPlayer \notin Player
  /\ FirstId \in Nat \ {0}
  /\ MaxAuths \in Nat /\ MaxWipes \in Nat /\ MaxQueue \in Nat

VARIABLES
  sock,       \* the read loop of each connection: where it is, player_id, conn_gen
  reply,      \* the oneshot each login waits on
  hidden,     \* whether the tab behind the connection is in the background
  queue,      \* Cmd channel
  users,      \* account name -> player id, NoId when there is no such account
  banned,     \* names
  nextId,     \* next_player_id
  players,    \* world.players
  paused,     \* paused_views
  again,      \* ghost: connections that have logged in more than once
  auths, wipes  \* bound counters

vars == <<sock, reply, hidden, queue, users, banned, nextId, players, paused, again, auths, wipes>>

NoId == 0
Pending == [is |-> "pending"]
Refused == [is |-> "refused"]
Granted(id, gen) == [is |-> "granted", pid |-> id, gen |-> gen]

Commands ==
  [t : {"auth"}, s : Sockets, kind : {"register", "login"}, name : Names]
    \cup [t : {"message"}, pid : Ids, body : {"view-pause", "view-resume"}]
    \cup [t : {"disconnect"}, pid : Ids, gen : 0 .. MaxAuths]

TypeOK ==
  /\ sock \in [Sockets -> [at : {"open", "awaiting", "closed"},
                           pid : Ids \cup {NoId}, gen : 0 .. MaxAuths]]
  /\ reply \in [Sockets -> {Pending, Refused} \cup
                          [is : {"granted"}, pid : Ids, gen : 1 .. MaxAuths]]
  /\ hidden \in [Sockets -> BOOLEAN]
  /\ queue \in Seq(Commands) /\ Len(queue) <= MaxQueue
  /\ users \in [Names -> Ids \cup {NoId}]
  /\ banned \subseteq Names
  /\ nextId \in FirstId .. FirstId + MaxAuths
  /\ players \in [Ids -> {NoPlayer} \cup Player]
  /\ paused \subseteq Ids /\ again \subseteq Sockets
  /\ auths \in 0 .. MaxAuths
  /\ wipes \in 0 .. MaxWipes

(* A fresh world and its connections, accepted and not logged in.          *)
Init ==
  /\ sock = [s \in Sockets |-> [at |-> "open", pid |-> NoId, gen |-> 0]]
  /\ reply = [s \in Sockets |-> Pending]
  /\ hidden \in [Sockets -> BOOLEAN]
  /\ queue = <<>>
  /\ users = [n \in Names |-> NoId]
  /\ banned = {}
  /\ nextId = FirstId
  /\ players = [i \in Ids |-> NoPlayer]
  /\ paused = {} /\ again = {}
  /\ auths = 0
  /\ wipes = 0

World == <<users, banned, nextId, players, paused>>

Push(c) ==
  /\ Len(queue) < MaxQueue
  /\ queue' = Append(queue, c)

-----------------------------------------------------------------------------
(* The connection's read loop. *)

(* register or login, logged in already or not: push the command and wait  *)
(* for the sim's answer.                                                   *)
SendAuth(s, kind, n) ==
  /\ sock[s].at = "open"
  /\ auths < MaxAuths
  /\ Push([t |-> "auth", s |-> s, kind |-> kind, name |-> n])
  /\ sock' = [sock EXCEPT ![s].at = "awaiting"]
  /\ reply' = [reply EXCEPT ![s] = Pending]
  /\ again' = IF sock[s].pid # NoId THEN again \cup {s} ELSE again
  /\ auths' = auths + 1
  /\ UNCHANGED <<hidden, World, wipes>>

(* The answer arrives; a refusal leaves player_id and conn_gen as they were.*)
ReceiveReply(s) ==
  /\ sock[s].at = "awaiting" /\ reply[s] # Pending
  /\ sock' = [sock EXCEPT ![s] =
                IF reply[s] = Refused THEN [@ EXCEPT !.at = "open"]
                ELSE [at |-> "open", pid |-> reply[s].pid, gen |-> reply[s].gen]]
  /\ UNCHANGED <<reply, hidden, queue, World, again, auths, wipes>>

(* The tab is hidden or shown: the page reports it when it is logged in,   *)
(* and the read loop forwards it under the player id it holds.             *)
Toggle(s) ==
  /\ sock[s].at # "closed"
  /\ hidden' = [hidden EXCEPT ![s] = ~@]
  /\ IF sock[s].at = "open" /\ sock[s].pid # NoId
     THEN Push([t |-> "message", pid |-> sock[s].pid,
                body |-> IF hidden[s] THEN "view-resume" ELSE "view-pause"])
     ELSE UNCHANGED queue
  /\ UNCHANGED <<sock, reply, World, again, auths, wipes>>

(* Mutant: an exit of the read loop returns before the Disconnect is pushed.*)
CloseSilently(s) ==
  /\ sock[s].at = "open"
  /\ sock' = [sock EXCEPT ![s].at = "closed"]
  /\ UNCHANGED <<reply, hidden, queue, World, again, auths, wipes>>

(* The read loop ends: close frame, error or rate limit.                   *)
Close(s) ==
  /\ sock[s].at = "open"
  /\ sock' = [sock EXCEPT ![s].at = "closed"]
  /\ IF sock[s].pid # NoId
     THEN Push([t |-> "disconnect", pid |-> sock[s].pid, gen |-> sock[s].gen])
     ELSE UNCHANGED queue
  /\ UNCHANGED <<reply, hidden, World, again, auths, wipes>>

-----------------------------------------------------------------------------
(* The sim thread, one drained command at a time. *)

(* create_or_reconnect_player, with the channels sim_loop attaches after.  *)
Attached(id, n, s) ==
  IF players[id] # NoPlayer
  THEN [players[id] EXCEPT !.gen = @ + 1, !.tx = s, !.away = FALSE]
  ELSE [name |-> n, tx |-> s, gen |-> 1, away |-> FALSE]

(* Mutant: the connection is told the generation before its own.           *)
AcceptOldGen(c, id) ==
  LET p == Attached(id, c.name, c.s)
  IN  /\ players' = [players EXCEPT ![id] = p]
      /\ reply' = [reply EXCEPT ![c.s] = Granted(id, p.gen - 1)]

Accept(c, id) ==
  LET p == Attached(id, c.name, c.s)
  IN  /\ players' = [players EXCEPT ![id] = p]
      /\ reply' = [reply EXCEPT ![c.s] = Granted(id, p.gen)]

(* Mutant: a refused client is told so by text and its waiter forgotten.   *)
RefuseSilently(c) ==
  /\ reply' = reply
  /\ UNCHANGED players

Refuse(c) ==
  /\ reply' = [reply EXCEPT ![c.s] = Refused]
  /\ UNCHANGED players

(* Mutant: the id is taken and the counter not advanced. *)
RegisterSameId(c) ==
  IF users[c.name] # NoId
  THEN Refuse(c) /\ UNCHANGED <<users, nextId>>
  ELSE /\ users' = [users EXCEPT ![c.name] = nextId]
       /\ Accept(c, nextId)
       /\ UNCHANGED nextId

Register(c) ==
  IF users[c.name] # NoId
  THEN Refuse(c) /\ UNCHANGED <<users, nextId>>
  ELSE /\ nextId' = nextId + 1
       /\ users' = [users EXCEPT ![c.name] = nextId]
       /\ Accept(c, nextId)

(* A wrong password is refused like a name without an account.             *)
Login(c) ==
  /\ IF users[c.name] = NoId \/ c.name \in banned
     THEN Refuse(c)
     ELSE Accept(c, users[c.name])
  /\ UNCHANGED <<users, nextId>>

HandleAuth(c) ==
  /\ c.t = "auth"
  /\ IF c.kind = "register" THEN Register(c) ELSE Login(c)
  /\ UNCHANGED <<banned, paused>>

(* Dropped unless the player is there and somebody is attached to it.      *)
HandleMessage(c) ==
  /\ c.t = "message"
  /\ paused' = IF players[c.pid] = NoPlayer \/ players[c.pid].tx = NoSocket THEN paused
               ELSE IF c.body = "view-pause" THEN paused \cup {c.pid}
               ELSE paused \ {c.pid}
  /\ UNCHANGED <<reply, users, banned, nextId, players>>

(* Mutant: whoever hangs up, the player is detached. *)
DetachAlways(c) ==
  /\ c.t = "disconnect"
  /\ paused' = paused \ {c.pid}
  /\ players' = IF players[c.pid] # NoPlayer
                THEN [players EXCEPT ![c.pid].tx = NoSocket, ![c.pid].away = TRUE]
                ELSE players
  /\ UNCHANGED <<reply, users, banned, nextId>>

(* Mutant: only the goodbye that detaches ends the pause.                  *)
DetachKeepsPause(c) ==
  /\ c.t = "disconnect"
  /\ IF players[c.pid] # NoPlayer /\ players[c.pid].gen = c.gen
     THEN /\ players' = [players EXCEPT ![c.pid].tx = NoSocket, ![c.pid].away = TRUE]
          /\ paused' = paused \ {c.pid}
     ELSE UNCHANGED <<players, paused>>
  /\ UNCHANGED <<reply, users, banned, nextId>>

HandleDisconnect(c) ==
  /\ c.t = "disconnect"
  /\ paused' = paused \ {c.pid}
  /\ players' = IF players[c.pid] # NoPlayer /\ players[c.pid].gen = c.gen
                THEN [players EXCEPT ![c.pid].tx = NoSocket, ![c.pid].away = TRUE]
                ELSE players
  /\ UNCHANGED <<reply, users, banned, nextId>>

Handle ==
  /\ queue # <<>>
  /\ queue' = Tail(queue)
  /\ \/ HandleAuth(Head(queue))
     \/ HandleMessage(Head(queue))
     \/ HandleDisconnect(Head(queue))
  /\ UNCHANGED <<sock, hidden, again, auths, wipes>>

-----------------------------------------------------------------------------
(* The admin's commands.  The admin's own connection is left out: its      *)
(* commands are handled between any two of the others.                     *)

Ban(i) ==
  /\ players[i] # NoPlayer
  /\ banned' = banned \cup {players[i].name}
  /\ UNCHANGED <<sock, reply, hidden, queue, users, nextId, players, paused, again, auths, wipes>>

(* wipe_world_and_users: players, accounts and bans go, ids start over;    *)
(* the connections themselves and paused_views stay.                       *)
WipeUsers ==
  /\ wipes < MaxWipes
  /\ wipes' = wipes + 1
  /\ nextId' = FirstId
  /\ players' = [i \in Ids |-> NoPlayer]
  /\ users' = [n \in Names |-> NoId]
  /\ banned' = {}
  /\ UNCHANGED <<sock, reply, hidden, queue, paused, again, auths>>

Next ==
  \/ \E s \in Sockets, k \in {"register", "login"}, n \in Names : SendAuth(s, k, n)
  \/ \E s \in Sockets : ReceiveReply(s) \/ Toggle(s) \/ Close(s)
  \/ Handle
  \/ \E i \in Ids : Ban(i)
  \/ WipeUsers

(* The sim thread drains the channel on every turn of an endless loop and  *)
(* the runtime polls a task whose oneshot is ready; clients owe nothing.   *)
Spec ==
  /\ Init /\ [][Next]_vars
  /\ WF_vars(Handle)
  /\ \A s \in Sockets : WF_vars(ReceiveReply(s))

-----------------------------------------------------------------------------
AttachedTo(i, s) == players[i] # NoPlayer /\ players[i].tx = s

(* "Connection closed - only clears tx if conn_gen still matches": a       *)
(* player is detached by the end of the very connection it is attached to, *)
(* never by the late Disconnect of one it has replaced (server.rs:324),    *)
(* as long as no wipe has handed its id out again.                         *)
DetachedByItsOwn ==
  [][\A i \in Ids, s \in Sockets :
       (wipes = 0 /\ AttachedTo(i, s) /\ players'[i] # NoPlayer /\ players'[i].tx = NoSocket)
         => sock[s].at = "closed"]_vars

(* Once the queue is drained no player is attached to a connection that is *)
(* gone: its senders are dropped and the write task behind them can exit,  *)
(* as the end of handle_ws_connection promises.  A connection that has     *)
(* gone on to another account says goodbye for that account only and       *)
(* leaves the first player attached.                                       *)
NoOrphan ==
  queue = <<>> =>
    \A i \in Ids, s \in Sockets :
      AttachedTo(i, s) /\ sock[s].pid = i => sock[s].at # "closed"

(* Accounts have distinct ids and a player's account is the one filed      *)
(* under its name, through registrations, logins and wipes.                *)
AccountsMatchPlayers ==
  /\ \A m, n \in Names : users[m] = users[n] /\ users[m] # NoId => m = n
  /\ \A i \in Ids : players[i] # NoPlayer => users[players[i].name] = i

(* "don't leave a reconnecting player stuck paused" (server.rs): once the  *)
(* queue is drained, a player attached to a visible tab is paused only     *)
(* by a tab it has replaced and that is still open; the goodbye of that    *)
(* one, which no longer detaches, ends the pause, through wipes too.  A    *)
(* page that has logged in again is left out: a report of its that waits   *)
(* for the answer is not modelled.                                         *)
PauseEnds ==
  queue = <<>> /\ again = {} =>
    \A i \in paused, s \in Sockets :
      AttachedTo(i, s) /\ ~hidden[s] =>
        \E r \in Sockets \ {s} : sock[r].pid = i /\ sock[r].at # "closed"

(* A connection that waits for the answer to a login gets one: the read    *)
(* loop, which reads nothing meanwhile, is never stuck.                    *)
EveryAuthAnswered == \A s \in Sockets : sock[s].at = "awaiting" ~> sock[s].at = "open"
=============================================================================
