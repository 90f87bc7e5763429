----------------------------- MODULE SessionProofs -----------------------------
(***************************************************************************)
(* Proofs about connections and accounts, for any number of connections,   *)
(* names, logins and wipes: who a player is attached to, which account it  *)
(* belongs to, and that a pause ends.                                      *)
(***************************************************************************)
EXTENDS Session, FiniteSetTheorems, SequenceTheorems, TLAPS

-----------------------------------------------------------------------------
(* The inductive invariant. *)

(* The read loops there can be.                                            *)
Loops == [at : {"open", "awaiting", "closed"}, pid : Ids \cup {NoId}, gen : 0 .. MaxAuths]

(* The logins pushed and not answered yet.                                 *)
Waiting == {s \in Sockets : sock[s].at = "awaiting" /\ reply[s] = Pending}

(* Every login in the queue is one somebody waits for, and nobody waits    *)
(* for two.                                                                *)
LoginsAwaited ==
  /\ \A j \in 1 .. Len(queue) : queue[j].t = "auth" => queue[j].s \in Waiting
  /\ \A j, k \in 1 .. Len(queue) :
       queue[j].t = "auth" /\ queue[k].t = "auth" /\ queue[j].s = queue[k].s => j = k

(* No more ids and no more generations than logins handled.                *)
LoginsCounted ==
  /\ IsFiniteSet(Waiting)
  /\ nextId + Cardinality(Waiting) <= FirstId + auths
  /\ \A i \in Ids : players[i] # NoPlayer => players[i].gen + Cardinality(Waiting) <= auths

(* The ids of accounts are below the counter.                              *)
IdsTaken == \A n \in Names : users[n] # NoId => users[n] < nextId

(* A connection knows the generation of the player attached to it, or has  *)
(* it waiting in its reply.                                                *)
KnowsItsGen ==
  \A i \in Ids, s \in Sockets : AttachedTo(i, s) =>
    IF sock[s].at = "awaiting" /\ reply[s] \notin {Pending, Refused}
    THEN reply[s].pid = i => reply[s].gen = players[i].gen
    ELSE sock[s].pid = i => sock[s].gen = players[i].gen

(* The goodbye of a connection that closed under a player is on its way.   *)
GoodbyeQueued ==
  \A i \in Ids, s \in Sockets :
    AttachedTo(i, s) /\ sock[s].pid = i /\ sock[s].at = "closed" =>
      \E j \in 1 .. Len(queue) :
        queue[j] = [t |-> "disconnect", pid |-> i, gen |-> players[i].gen]

(* Until a wipe, whoever holds a player's current generation is the one it *)
(* is attached to.                                                         *)
HeldBy(i, g, s) ==
  /\ players[i] # NoPlayer /\ g <= players[i].gen
  /\ g = players[i].gen => players[i].tx \in {s, NoSocket}

GensHeld ==
  wipes = 0 =>
    /\ \A s \in Sockets : sock[s].pid # NoId => HeldBy(sock[s].pid, sock[s].gen, s)
    /\ \A s \in Sockets : reply[s] \notin {Pending, Refused} => HeldBy(reply[s].pid, reply[s].gen, s)

(* A goodbye of the current generation is that of the closed connection    *)
(* the player is attached to; until a wipe all queued ones are like that.  *)
Own(c) ==
  c.t = "disconnect" =>
    LET p == players[c.pid]
    IN  /\ p # NoPlayer /\ c.gen <= p.gen
        /\ p.tx # NoSocket /\ c.gen = p.gen => sock[p.tx].at = "closed"

GoodbyesOwn == wipes = 0 => \A j \in 1 .. Len(queue) : Own(queue[j])

IInv ==
  /\ TypeOK /\ AccountsMatchPlayers /\ LoginsAwaited /\ LoginsCounted /\ IdsTaken
  /\ KnowsItsGen /\ GoodbyeQueued /\ GensHeld /\ GoodbyesOwn

-----------------------------------------------------------------------------
(* The queue, and who waits. *)

(* A pushed command is the last of the queue.                              *)
LEMMA Pushed ==
  ASSUME queue \in Seq(Commands), NEW c \in Commands, Push(c)
  PROVE  /\ queue' \in Seq(Commands)
         /\ Len(queue') = Len(queue) + 1 /\ Len(queue') <= MaxQueue
         /\ \A j \in 1 .. Len(queue) : queue'[j] = queue[j]
         /\ queue'[Len(queue')] = c
<1>1. /\ queue' = Append(queue, c) /\ Len(queue) < MaxQueue
      /\ Len(queue) \in Nat /\ MaxQueue \in Nat
  BY SessionAssumption DEF Push
<1>2. Len(queue') = Len(queue) + 1
  BY <1>1
<1> QED BY <1>1, <1>2

(* A handled command was the first, the others move up.                    *)
LEMMA Popped ==
  ASSUME queue \in Seq(Commands), queue # <<>>, queue' = Tail(queue)
  PROVE  /\ queue' \in Seq(Commands) /\ Head(queue) \in Commands
         /\ Len(queue) \in Nat \ {0} /\ Head(queue) = queue[1]
         /\ Len(queue') = Len(queue) - 1
         /\ \A j \in 1 .. Len(queue') : queue'[j] = queue[j + 1]
  OBVIOUS

(* A command that no connection waits for changes nobody's wait.           *)
LEMMA SameWaiting ==
  ASSUME sock' = sock, reply' = reply
  PROVE  Waiting' = Waiting
  BY DEF Waiting

(* What is in the queue of commands.                                       *)
LEMMA CommandKinds ==
  ASSUME NEW c \in Commands
  PROVE  /\ c.t = "auth" => c.s \in Sockets /\ c.name \in Names
         /\ c.t = "message" => c.pid \in Ids
         /\ c.t = "disconnect" => c.pid \in Ids /\ c.gen \in 0 .. MaxAuths
  BY DEF Commands

(* A read loop that moves on keeps its player and generation.              *)
LEMMA MovedLoop ==
  ASSUME TypeOK, NEW s \in Sockets, NEW at \in {"open", "awaiting", "closed"}
  PROVE  /\ sock \in [Sockets -> Loops]
         /\ [sock[s] EXCEPT !.at = at] \in Loops
         /\ [sock EXCEPT ![s].at = at] \in [Sockets -> Loops]
<1>1. sock \in [Sockets -> Loops] /\ sock[s] \in Loops
  BY DEF TypeOK, Loops
<1>2. [sock[s] EXCEPT !.at = at] \in Loops
  BY <1>1 DEF Loops
<1> QED BY <1>1, <1>2

(* A command other than a login leaves the awaited ones as they are.       *)
LEMMA PushedOther ==
  ASSUME TypeOK, LoginsAwaited, NEW c \in Commands, c.t # "auth", Push(c), Waiting' = Waiting
  PROVE  LoginsAwaited'
<1>1. /\ Len(queue') = Len(queue) + 1 /\ Len(queue) \in Nat
      /\ \A j \in 1 .. Len(queue) : queue'[j] = queue[j]
      /\ queue'[Len(queue')] = c
  <2>1. queue \in Seq(Commands)
    BY DEF TypeOK
  <2> QED BY <2>1, Pushed
<1>2. \A j \in 1 .. Len(queue') : queue'[j].t = "auth" => j \in 1 .. Len(queue)
  BY <1>1
<1> QED BY <1>1, <1>2 DEF LoginsAwaited

(* Neither do the goodbyes on their way get lost.                          *)
LEMMA PushedGoodbyes ==
  ASSUME TypeOK, GoodbyeQueued, NEW c \in Commands, Push(c), players' = players,
         NEW i \in Ids, NEW s \in Sockets,
         AttachedTo(i, s), sock[s].pid = i, sock[s].at = "closed"
  PROVE  \E j \in 1 .. Len(queue') :
           queue'[j] = [t |-> "disconnect", pid |-> i, gen |-> players'[i].gen]
<1>1. /\ Len(queue') = Len(queue) + 1 /\ Len(queue) \in Nat
      /\ \A j \in 1 .. Len(queue) : queue'[j] = queue[j]
  BY Pushed DEF TypeOK
<1>2. PICK j \in 1 .. Len(queue) :
        queue[j] = [t |-> "disconnect", pid |-> i, gen |-> players[i].gen]
  BY DEF GoodbyeQueued
<1> QED BY <1>1, <1>2

(* Closed connections stay closed, so the queued goodbyes stay true.       *)
LEMMA OwnStays ==
  ASSUME TypeOK, NEW c \in Commands, Own(c), players' = players,
         \A s \in Sockets : sock[s].at = "closed" => sock'[s].at = "closed"
  PROVE  Own(c)'
<1> SUFFICES ASSUME c.t = "disconnect"
             PROVE  LET p == players[c.pid]
                    IN  /\ p # NoPlayer /\ c.gen <= p.gen
                        /\ p.tx # NoSocket /\ c.gen = p.gen => sock'[p.tx].at = "closed"
  BY DEF Own
<1>1. c.pid \in Ids
  BY CommandKinds
<1>2. players[c.pid] # NoPlayer /\ players[c.pid].tx # NoSocket => players[c.pid].tx \in Sockets
  BY <1>1 DEF TypeOK, Player
<1> QED BY <1>2 DEF Own

(* So do they when a command joins them that is as true.                   *)
LEMMA PushedOwn ==
  ASSUME TypeOK, GoodbyesOwn, NEW c \in Commands, Push(c), wipes = 0 => Own(c)',
         players' = players, wipes' = wipes,
         \A s \in Sockets : sock[s].at = "closed" => sock'[s].at = "closed"
  PROVE  GoodbyesOwn'
<1> SUFFICES ASSUME wipes = 0, NEW j \in 1 .. Len(queue'), NEW d, d = queue'[j]
             PROVE  Own(d)'
  BY DEF GoodbyesOwn, Own
<1>1. /\ queue \in Seq(Commands) /\ Len(queue') = Len(queue) + 1
      /\ \A k \in 1 .. Len(queue) : queue'[k] = queue[k]
      /\ queue'[Len(queue')] = c
  <2>1. queue \in Seq(Commands)
    BY DEF TypeOK
  <2> QED BY <2>1, Pushed
<1>2. d = c \/ (j \in 1 .. Len(queue) /\ d = queue[j])
  BY <1>1
<1>3. CASE d = c
  BY <1>3
<1>4. CASE j \in 1 .. Len(queue) /\ d = queue[j]
  <2>1. d \in Commands /\ Own(d)
    BY <1>1, <1>4 DEF GoodbyesOwn, Own
  <2> QED BY <2>1, OwnStays
<1> QED BY <1>2, <1>3, <1>4

-----------------------------------------------------------------------------
(* Initially. *)

(* The initial state: nobody is there.                                     *)
LEMMA InitInv == Init => IInv
<1> SUFFICES ASSUME Init PROVE IInv
  OBVIOUS
<1>0. FirstId \in Nat \ {0} /\ MaxAuths \in Nat /\ MaxWipes \in Nat /\ MaxQueue \in Nat
  BY SessionAssumption
<1>1. TypeOK
  BY <1>0 DEF Init, TypeOK, NoId, Pending, Refused
<1>2. Waiting = {}
  BY DEF Init, Waiting
<1>3. LoginsCounted
  BY <1>0, <1>2, FS_EmptySet DEF Init, LoginsCounted
<1>4. LoginsAwaited /\ GoodbyesOwn
  BY DEF Init, LoginsAwaited, GoodbyesOwn, Own
<1>5. AccountsMatchPlayers /\ IdsTaken /\ KnowsItsGen /\ GoodbyeQueued
  BY DEF Init, AccountsMatchPlayers, IdsTaken, KnowsItsGen, GoodbyeQueued, AttachedTo, Ids
<1>6. GensHeld
  BY DEF Init, GensHeld, NoId, Pending
<1> QED BY <1>1, <1>3, <1>4, <1>5, <1>6 DEF IInv

-----------------------------------------------------------------------------
(* The connections' own steps. *)

(* A login is pushed: its connection waits from now on.                    *)
LEMMA SendAuthInv ==
  ASSUME IInv, NEW s \in Sockets, NEW kind \in {"register", "login"}, NEW n \in Names,
         SendAuth(s, kind, n)
  PROVE  IInv'
<1> DEFINE c == [t |-> "auth", s |-> s, kind |-> kind, name |-> n]
<1>0. /\ TypeOK /\ c \in Commands /\ Push(c)
      /\ MaxAuths \in Nat /\ MaxQueue \in Nat /\ FirstId \in Nat
  BY SessionAssumption DEF IInv, SendAuth, Commands
<1>1. /\ queue' \in Seq(Commands)
      /\ Len(queue') = Len(queue) + 1 /\ Len(queue') <= MaxQueue
      /\ \A j \in 1 .. Len(queue) : queue'[j] = queue[j]
      /\ queue'[Len(queue')] = c /\ Len(queue) \in Nat
  BY <1>0, Pushed DEF TypeOK
<1>2. /\ sock[s].at = "open" /\ auths < MaxAuths /\ auths' = auths + 1
      /\ sock' = [sock EXCEPT ![s].at = "awaiting"]
      /\ reply' = [reply EXCEPT ![s] = Pending]
      /\ again' = IF sock[s].pid # NoId THEN again \cup {s} ELSE again
      /\ users' = users /\ banned' = banned /\ nextId' = nextId /\ players' = players
      /\ paused' = paused /\ hidden' = hidden /\ wipes' = wipes
  BY DEF SendAuth, World
<1>3. TypeOK'
  <2>1. sock' \in [Sockets -> Loops]
    BY <1>0, <1>2, MovedLoop
  <2>2. reply' \in [Sockets -> {Pending, Refused} \cup
                              [is : {"granted"}, pid : Ids, gen : 1 .. MaxAuths]]
    BY <1>0, <1>2 DEF TypeOK
  <2>3. again' \subseteq Sockets /\ auths' \in 0 .. MaxAuths
    BY <1>0, <1>2 DEF TypeOK
  <2> QED BY <1>0, <1>1, <1>2, <2>1, <2>2, <2>3 DEF TypeOK, Loops
<1>4. s \notin Waiting /\ Waiting' = Waiting \cup {s}
  BY <1>0, <1>2 DEF Waiting, TypeOK
<1>5. LoginsAwaited'
  <2>1. LoginsAwaited
    BY DEF IInv
  <2>0. /\ \A j \in 1 .. Len(queue) : queue'[j].t = "auth" => queue'[j].s \in Waiting
        /\ \A j, k \in 1 .. Len(queue) :
             queue'[j].t = "auth" /\ queue'[k].t = "auth" /\ queue'[j].s = queue'[k].s => j = k
    BY <1>1, <2>1 DEF LoginsAwaited
  <2>4. \A j \in 1 .. Len(queue') : j \in 1 .. Len(queue) \/ j = Len(queue')
    BY <1>1
  <2>5. queue'[Len(queue')].s = s
    BY <1>1
  <2>2. \A j \in 1 .. Len(queue') : queue'[j].t = "auth" => queue'[j].s \in Waiting'
    BY <1>4, <2>0, <2>4, <2>5
  <2>3. \A j, k \in 1 .. Len(queue') :
          queue'[j].t = "auth" /\ queue'[k].t = "auth" /\ queue'[j].s = queue'[k].s => j = k
    <3> SUFFICES ASSUME NEW j \in 1 .. Len(queue'), NEW k \in 1 .. Len(queue'),
                        queue'[j].t = "auth", queue'[k].t = "auth", queue'[j].s = queue'[k].s
                 PROVE  j = k
      OBVIOUS
    <3>1. j \in 1 .. Len(queue) => queue'[j].s # s
      BY <1>4, <2>0
    <3>2. k \in 1 .. Len(queue) => queue'[k].s # s
      BY <1>4, <2>0
    <3>3. CASE j \in 1 .. Len(queue) /\ k \in 1 .. Len(queue)
      BY <2>0, <3>3
    <3>4. CASE j = Len(queue') /\ k = Len(queue')
      BY <3>4
    <3> QED BY <2>4, <2>5, <3>1, <3>2, <3>3, <3>4
  <2> QED BY <2>2, <2>3 DEF LoginsAwaited
<1>6. LoginsCounted'
  <2>1. LoginsCounted
    BY DEF IInv
  <2>2. /\ IsFiniteSet(Waiting') /\ Cardinality(Waiting') = Cardinality(Waiting) + 1
        /\ Cardinality(Waiting) \in Nat
    <3>1. IsFiniteSet(Waiting)
      BY <2>1 DEF LoginsCounted
    <3>2. Cardinality(Waiting) \in Nat
      BY <3>1, FS_CardinalityType
    <3>3. /\ IsFiniteSet(Waiting \cup {s})
          /\ Cardinality(Waiting \cup {s}) = Cardinality(Waiting) + 1
      BY <1>4, <3>1, FS_AddElement
    <3> QED BY <1>4, <3>2, <3>3
  <2>3. /\ nextId \in Nat /\ auths \in Nat /\ FirstId \in Nat
        /\ \A i \in Ids : players[i] # NoPlayer => players[i].gen \in Nat
    BY <1>0 DEF TypeOK, Player
  <2>4. nextId' + Cardinality(Waiting') <= FirstId + auths'
    BY <1>2, <2>1, <2>2, <2>3 DEF LoginsCounted
  <2>5. ASSUME NEW i \in Ids, players[i] # NoPlayer
        PROVE  players[i].gen + Cardinality(Waiting') <= auths'
    <3>1. players[i].gen + Cardinality(Waiting) <= auths
      BY <2>1, <2>5 DEF LoginsCounted
    <3> QED BY <1>2, <2>2, <2>3, <2>5, <3>1
  <2> QED BY <1>2, <2>2, <2>4, <2>5 DEF LoginsCounted
<1>7. AccountsMatchPlayers' /\ IdsTaken'
  BY <1>2 DEF IInv, AccountsMatchPlayers, IdsTaken
<1>8. KnowsItsGen'
  <2> SUFFICES ASSUME NEW i \in Ids, NEW r \in Sockets, AttachedTo(i, r)'
               PROVE  (IF sock[r].at = "awaiting" /\ reply[r] \notin {Pending, Refused}
                       THEN reply[r].pid = i => reply[r].gen = players[i].gen
                       ELSE sock[r].pid = i => sock[r].gen = players[i].gen)'
    BY DEF KnowsItsGen
  <2>1. AttachedTo(i, r) /\ players' = players
    BY <1>2 DEF AttachedTo
  <2>2. IF sock[r].at = "awaiting" /\ reply[r] \notin {Pending, Refused}
        THEN reply[r].pid = i => reply[r].gen = players[i].gen
        ELSE sock[r].pid = i => sock[r].gen = players[i].gen
    BY <2>1 DEF IInv, KnowsItsGen
  <2>3. CASE r = s
    <3>1. reply'[s] = Pending /\ sock'[s].pid = sock[s].pid /\ sock'[s].gen = sock[s].gen
      BY <1>0, <1>2 DEF TypeOK
    <3> QED BY <1>2, <2>1, <2>2, <2>3, <3>1
  <2>4. CASE r # s
    <3>1. reply'[r] = reply[r] /\ sock'[r] = sock[r]
      BY <1>0, <1>2, <2>4 DEF TypeOK
    <3> QED BY <2>1, <2>2, <3>1
  <2> QED BY <2>3, <2>4
<1>9. GoodbyeQueued'
  <2> SUFFICES ASSUME NEW i \in Ids, NEW r \in Sockets, AttachedTo(i, r),
                      sock'[r].pid = i, sock'[r].at = "closed"
               PROVE  \E j \in 1 .. Len(queue') :
                        queue'[j] = [t |-> "disconnect", pid |-> i, gen |-> players'[i].gen]
    BY <1>2 DEF GoodbyeQueued, AttachedTo
  <2>1. sock[r].pid = i /\ sock[r].at = "closed"
    BY <1>0, <1>2 DEF TypeOK
  <2> QED BY <1>0, <1>2, <2>1, PushedGoodbyes DEF IInv
<1>10. GensHeld'
  BY <1>0, <1>2 DEF IInv, GensHeld, HeldBy, TypeOK
<1>11. GoodbyesOwn'
  <2>1. Own(c)'
    BY DEF Own
  <2>2. \A r \in Sockets : sock[r].at = "closed" => sock'[r].at = "closed"
    BY <1>0, <1>2 DEF TypeOK
  <2> QED BY <1>0, <1>2, <2>1, <2>2, PushedOwn DEF IInv
<1> QED BY <1>3, <1>5, <1>6, <1>7, <1>8, <1>9, <1>10, <1>11 DEF IInv

(* The answer is taken in: what it held the read loop now holds.           *)
LEMMA ReceiveReplyInv ==
  ASSUME IInv, NEW s \in Sockets, ReceiveReply(s)
  PROVE  IInv'
<1> DEFINE told == IF reply[s] = Refused THEN [sock[s] EXCEPT !.at = "open"]
                   ELSE [at |-> "open", pid |-> reply[s].pid, gen |-> reply[s].gen]
<1>0. /\ TypeOK /\ sock[s].at = "awaiting" /\ reply[s] # Pending
      /\ sock' = [sock EXCEPT ![s] = told]
      /\ reply' = reply /\ hidden' = hidden /\ queue' = queue /\ users' = users
      /\ banned' = banned /\ nextId' = nextId /\ players' = players /\ paused' = paused
      /\ again' = again /\ auths' = auths /\ wipes' = wipes
  BY DEF IInv, ReceiveReply, World
<1>1. reply[s] # Refused => /\ reply[s].pid \in Ids /\ reply[s].gen \in 1 .. MaxAuths
                            /\ told.pid = reply[s].pid /\ told.gen = reply[s].gen
  BY <1>0 DEF TypeOK
<1>2. reply[s] = Refused => told.pid = sock[s].pid /\ told.gen = sock[s].gen
  BY <1>0, MovedLoop DEF Loops
<1>3. told \in Loops /\ told.at = "open"
  <2>1. CASE reply[s] = Refused
    BY <1>0, <2>1, MovedLoop DEF Loops
  <2>2. CASE reply[s] # Refused
    BY <1>1, <2>2, SessionAssumption DEF Loops
  <2> QED BY <2>1, <2>2
<1>4. sock' \in [Sockets -> Loops] /\ sock \in [Sockets -> Loops]
  BY <1>0, <1>3, MovedLoop
<1>5. TypeOK'
  BY <1>0, <1>4 DEF TypeOK, Loops
<1>6. Waiting' = Waiting
  BY <1>0, <1>3, <1>4 DEF Waiting
<1>7. LoginsAwaited' /\ LoginsCounted' /\ AccountsMatchPlayers' /\ IdsTaken'
  BY <1>0, <1>6 DEF IInv, LoginsAwaited, LoginsCounted, AccountsMatchPlayers, IdsTaken
<1>8. KnowsItsGen'
  <2> SUFFICES ASSUME NEW i \in Ids, NEW r \in Sockets, AttachedTo(i, r)
               PROVE  IF sock'[r].at = "awaiting" /\ reply[r] \notin {Pending, Refused}
                      THEN reply[r].pid = i => reply[r].gen = players[i].gen
                      ELSE sock'[r].pid = i => sock'[r].gen = players[i].gen
    BY <1>0 DEF KnowsItsGen, AttachedTo
  <2>1. IF sock[r].at = "awaiting" /\ reply[r] \notin {Pending, Refused}
        THEN reply[r].pid = i => reply[r].gen = players[i].gen
        ELSE sock[r].pid = i => sock[r].gen = players[i].gen
    BY DEF IInv, KnowsItsGen
  <2>2. CASE r # s
    BY <1>0, <1>4, <2>1, <2>2
  <2>3. CASE r = s
    BY <1>0, <1>1, <1>2, <1>3, <1>4, <2>1, <2>3
  <2> QED BY <2>2, <2>3
<1>9. GoodbyeQueued'
  <2>1. \A r \in Sockets : sock'[r].at = "closed" => sock'[r] = sock[r]
    BY <1>0, <1>3, <1>4
  <2> QED BY <1>0, <2>1 DEF IInv, GoodbyeQueued, AttachedTo
<1>10. GensHeld'
  <2> SUFFICES ASSUME wipes = 0, NEW r \in Sockets, sock'[r].pid # NoId
               PROVE  HeldBy(sock'[r].pid, sock'[r].gen, r)
    BY <1>0 DEF IInv, GensHeld, HeldBy
  <2>1. CASE r = s /\ reply[s] # Refused
    BY <1>0, <1>1, <1>4, <2>1 DEF IInv, GensHeld
  <2>2. CASE r # s \/ reply[s] = Refused
    BY <1>0, <1>2, <1>4, <2>2 DEF IInv, GensHeld
  <2> QED BY <2>1, <2>2
<1>11. GoodbyesOwn'
  <2>1. \A r \in Sockets : sock[r].at = "closed" => sock'[r].at = "closed"
    BY <1>0, <1>4
  <2> SUFFICES ASSUME wipes = 0, NEW j \in 1 .. Len(queue), NEW d, d = queue[j]
               PROVE  Own(d)'
    BY <1>0 DEF GoodbyesOwn, Own
  <2>2. queue \in Seq(Commands)
    BY <1>0 DEF TypeOK
  <2>3. d \in Commands /\ Own(d)
    BY <2>2 DEF IInv, GoodbyesOwn, Own
  <2> QED BY <1>0, <2>1, <2>3, OwnStays
<1> QED BY <1>5, <1>7, <1>8, <1>9, <1>10, <1>11 DEF IInv

(* The tab is hidden or shown: at most a report joins the queue.           *)
LEMMA ToggleInv ==
  ASSUME IInv, NEW s \in Sockets, Toggle(s)
  PROVE  IInv'
<1>0. /\ TypeOK /\ sock' = sock /\ hidden' = [hidden EXCEPT ![s] = ~@]
      /\ reply' = reply /\ users' = users /\ banned' = banned /\ nextId' = nextId
      /\ players' = players /\ paused' = paused
      /\ again' = again /\ auths' = auths /\ wipes' = wipes
  BY DEF IInv, Toggle, World
<1>1. Waiting' = Waiting
  BY <1>0, SameWaiting
<1>2. LoginsCounted' /\ AccountsMatchPlayers' /\ IdsTaken' /\ KnowsItsGen' /\ GensHeld'
  BY <1>0, <1>1 DEF IInv, LoginsCounted, AccountsMatchPlayers, IdsTaken, KnowsItsGen,
                    AttachedTo, GensHeld, HeldBy
<1>3. CASE queue' = queue
  <2>1. TypeOK'
    BY <1>0, <1>3 DEF TypeOK
  <2>2. LoginsAwaited' /\ GoodbyeQueued' /\ GoodbyesOwn'
    BY <1>0, <1>1, <1>3 DEF IInv, LoginsAwaited, GoodbyeQueued, AttachedTo, GoodbyesOwn, Own
  <2> QED BY <1>2, <2>1, <2>2 DEF IInv
<1>4. CASE sock[s].pid # NoId /\ \E body \in {"view-pause", "view-resume"} :
             Push([t |-> "message", pid |-> sock[s].pid, body |-> body])
  <2>1. PICK body \in {"view-pause", "view-resume"} :
          Push([t |-> "message", pid |-> sock[s].pid, body |-> body])
    BY <1>4
  <2>2. sock[s].pid \in Ids
    BY <1>0, <1>4 DEF TypeOK
  <2>3. PICK c \in Commands : Push(c) /\ c.t = "message"
    BY <2>1, <2>2 DEF Commands
  <2>4. queue' \in Seq(Commands) /\ Len(queue') <= MaxQueue
    <3>1. queue \in Seq(Commands)
      BY <1>0 DEF TypeOK
    <3> QED BY <2>3, <3>1, Pushed
  <2>5. TypeOK'
    BY <1>0, <2>4 DEF TypeOK
  <2>6. LoginsAwaited'
    BY <1>0, <1>1, <2>3, PushedOther DEF IInv
  <2>7. GoodbyeQueued'
    BY <1>0, <2>3, PushedGoodbyes DEF IInv, GoodbyeQueued, AttachedTo
  <2>8. GoodbyesOwn'
    BY <1>0, <2>3, PushedOwn DEF IInv, Own
  <2> QED BY <1>2, <2>5, <2>6, <2>7, <2>8 DEF IInv
<1> QED BY <1>3, <1>4 DEF Toggle

(* The read loop ends: a logged-in one pushes its goodbye.                 *)
LEMMA CloseInv ==
  ASSUME IInv, NEW s \in Sockets, Close(s)
  PROVE  IInv'
<1>0. /\ TypeOK /\ sock[s].at = "open" /\ sock' = [sock EXCEPT ![s].at = "closed"]
      /\ hidden' = hidden /\ reply' = reply /\ users' = users /\ banned' = banned
      /\ nextId' = nextId /\ players' = players /\ paused' = paused
      /\ again' = again /\ auths' = auths /\ wipes' = wipes
  BY DEF IInv, Close, World
<1>1. /\ sock \in [Sockets -> Loops] /\ sock' \in [Sockets -> Loops]
      /\ \A r \in Sockets : /\ sock'[r].pid = sock[r].pid /\ sock'[r].gen = sock[r].gen
                             /\ r # s => sock'[r].at = sock[r].at
      /\ sock'[s].at = "closed"
  <2>1. sock \in [Sockets -> Loops] /\ sock' \in [Sockets -> Loops]
    BY <1>0, MovedLoop
  <2> QED BY <1>0, <2>1 DEF Loops
<1>2. Waiting' = Waiting
  BY <1>0, <1>1 DEF Waiting
<1>3. LoginsCounted' /\ AccountsMatchPlayers' /\ IdsTaken' /\ GensHeld'
  BY <1>0, <1>1, <1>2 DEF IInv, LoginsCounted, AccountsMatchPlayers, IdsTaken, GensHeld, HeldBy
<1>4. KnowsItsGen'
  BY <1>0, <1>1 DEF IInv, KnowsItsGen, AttachedTo
<1>5. \A r \in Sockets : sock[r].at = "closed" => sock'[r].at = "closed"
  BY <1>0, <1>1
<1>6. CASE sock[s].pid = NoId /\ queue' = queue
  <2>1. TypeOK'
    BY <1>0, <1>1, <1>6 DEF TypeOK, Loops
  <2>2. LoginsAwaited'
    BY <1>0, <1>2, <1>6 DEF IInv, LoginsAwaited
  <2>3. GoodbyeQueued'
    <3>1. \A i \in Ids : i # NoId
      BY SessionAssumption DEF Ids, NoId
    <3> QED BY <1>0, <1>1, <1>6, <3>1 DEF IInv, GoodbyeQueued, AttachedTo
  <2>4. GoodbyesOwn'
    <3> SUFFICES ASSUME wipes = 0, NEW j \in 1 .. Len(queue), NEW d, d = queue[j]
                 PROVE  Own(d)'
      BY <1>0, <1>6 DEF GoodbyesOwn, Own
    <3>1. queue \in Seq(Commands)
      BY <1>0 DEF TypeOK
    <3>2. d \in Commands /\ Own(d)
      BY <3>1 DEF IInv, GoodbyesOwn, Own
    <3> QED BY <1>0, <1>5, <3>2, OwnStays
  <2> QED BY <1>3, <1>4, <2>1, <2>2, <2>3, <2>4 DEF IInv
<1>7. CASE /\ sock[s].pid # NoId
           /\ Push([t |-> "disconnect", pid |-> sock[s].pid, gen |-> sock[s].gen])
  <2>1. sock[s].pid \in Ids /\ sock[s].gen \in 0 .. MaxAuths
    BY <1>1, <1>7 DEF Loops
  <2>2. PICK c \in Commands : Push(c) /\ c = [t |-> "disconnect", pid |-> sock[s].pid, gen |-> sock[s].gen]
    BY <1>7, <2>1 DEF Commands
  <2>3. /\ queue' \in Seq(Commands) /\ Len(queue') <= MaxQueue
        /\ Len(queue') \in 1 .. Len(queue') /\ queue'[Len(queue')] = c
    <3>1. queue \in Seq(Commands)
      BY <1>0 DEF TypeOK
    <3>2. /\ queue' \in Seq(Commands) /\ Len(queue') <= MaxQueue
          /\ Len(queue') = Len(queue) + 1 /\ queue'[Len(queue')] = c
      BY <2>2, <3>1, Pushed
    <3> QED BY <3>1, <3>2
  <2>4. TypeOK'
    BY <1>0, <1>1, <2>3 DEF TypeOK, Loops
  <2>5. LoginsAwaited'
    BY <1>0, <1>2, <2>2, PushedOther DEF IInv
  <2>6. GoodbyeQueued'
    <3> SUFFICES ASSUME NEW i \in Ids, NEW r \in Sockets, AttachedTo(i, r),
                        sock[r].pid = i, sock'[r].at = "closed"
                 PROVE  \E j \in 1 .. Len(queue') :
                          queue'[j] = [t |-> "disconnect", pid |-> i, gen |-> players'[i].gen]
      BY <1>0, <1>1 DEF GoodbyeQueued, AttachedTo
    <3>1. CASE r # s
      <4>1. sock[r].at = "closed"
        BY <1>0, <1>1, <3>1
      <4> QED BY <1>0, <2>2, <4>1, PushedGoodbyes DEF IInv
    <3>2. CASE r = s
      <4>1. sock[s].gen = players[i].gen
        BY <1>0, <3>2 DEF IInv, KnowsItsGen
      <4> QED BY <1>0, <2>2, <2>3, <3>2, <4>1
    <3> QED BY <3>1, <3>2
  <2>7. wipes = 0 => Own(c)'
    <3> SUFFICES ASSUME wipes = 0, NEW p, p = players[c.pid]
                 PROVE  /\ p # NoPlayer /\ c.gen <= p.gen
                        /\ p.tx # NoSocket /\ c.gen = p.gen => sock'[p.tx].at = "closed"
      BY <1>0 DEF Own
    <3>1. c.pid = sock[s].pid /\ c.gen = sock[s].gen
      BY <2>2
    <3>2. HeldBy(c.pid, c.gen, s)
      BY <1>7, <3>1 DEF IInv, GensHeld
    <3> QED BY <1>1, <3>2 DEF HeldBy
  <2>8. GoodbyesOwn'
    BY <1>0, <1>5, <2>2, <2>7, PushedOwn DEF IInv
  <2> QED BY <1>3, <1>4, <2>4, <2>5, <2>6, <2>8 DEF IInv
<1> QED BY <1>6, <1>7 DEF Close

-----------------------------------------------------------------------------
(* The sim thread's steps. *)

(* What stays of the awaited logins when the first command is taken.       *)
LEMMA PoppedAwaited ==
  ASSUME TypeOK, LoginsAwaited, queue # <<>>, queue' = Tail(queue),
         Waiting' = IF Head(queue).t = "auth" THEN Waiting \ {Head(queue).s} ELSE Waiting
  PROVE  LoginsAwaited'
<1>1. /\ Len(queue) \in Nat \ {0} /\ Head(queue) = queue[1] /\ Len(queue') = Len(queue) - 1
      /\ \A j \in 1 .. Len(queue') : queue'[j] = queue[j + 1]
  <2>1. queue \in Seq(Commands)
    BY DEF TypeOK
  <2> QED BY <2>1, Popped
<1>2. \A j \in 1 .. Len(queue') : queue'[j].t = "auth" => queue'[j].s \in Waiting'
  <2> SUFFICES ASSUME NEW j \in 1 .. Len(queue'), queue[j + 1].t = "auth"
               PROVE  queue[j + 1].s \in Waiting'
    BY <1>1
  <2>1. j + 1 \in 1 .. Len(queue) /\ 1 \in 1 .. Len(queue) /\ j + 1 # 1
    BY <1>1
  <2>2. queue[j + 1].s \in Waiting
    BY <2>1 DEF LoginsAwaited
  <2>3. queue[1].t = "auth" => queue[1].s # queue[j + 1].s
    BY <2>1 DEF LoginsAwaited
  <2> QED BY <1>1, <2>2, <2>3
<1>3. \A j, k \in 1 .. Len(queue') :
        queue'[j].t = "auth" /\ queue'[k].t = "auth" /\ queue'[j].s = queue'[k].s => j = k
  <2> SUFFICES ASSUME NEW j \in 1 .. Len(queue'), NEW k \in 1 .. Len(queue'),
                      queue[j + 1].t = "auth", queue[k + 1].t = "auth",
                      queue[j + 1].s = queue[k + 1].s
               PROVE  j = k
    BY <1>1
  <2>1. j + 1 \in 1 .. Len(queue) /\ k + 1 \in 1 .. Len(queue)
    BY <1>1
  <2>2. j + 1 = k + 1
    BY <2>1 DEF LoginsAwaited
  <2> QED BY <1>1, <2>2
<1> QED BY <1>2, <1>3 DEF LoginsAwaited

(* A goodbye that is not the command taken is still in the queue.          *)
LEMMA PoppedGoodbyes ==
  ASSUME TypeOK, GoodbyeQueued, queue # <<>>, queue' = Tail(queue),
         NEW i \in Ids, NEW s \in Sockets,
         AttachedTo(i, s), sock[s].pid = i, sock[s].at = "closed",
         Head(queue) # [t |-> "disconnect", pid |-> i, gen |-> players[i].gen]
  PROVE  \E j \in 1 .. Len(queue') :
           queue'[j] = [t |-> "disconnect", pid |-> i, gen |-> players[i].gen]
<1>1. /\ Len(queue) \in Nat \ {0} /\ Head(queue) = queue[1] /\ Len(queue') = Len(queue) - 1
      /\ \A j \in 1 .. Len(queue') : queue'[j] = queue[j + 1]
  <2>1. queue \in Seq(Commands)
    BY DEF TypeOK
  <2> QED BY <2>1, Popped
<1>2. PICK j \in 1 .. Len(queue) :
        queue[j] = [t |-> "disconnect", pid |-> i, gen |-> players[i].gen]
  BY DEF GoodbyeQueued
<1>3. j # 1 /\ j - 1 \in 1 .. Len(queue')
  BY <1>1, <1>2
<1>4. queue'[j - 1] = queue[j]
  BY <1>1, <1>3
<1> QED BY <1>2, <1>3, <1>4

(* The queue after the first command is taken is one of commands of before.*)
LEMMA PoppedTyped ==
  ASSUME TypeOK, queue # <<>>, queue' = Tail(queue)
  PROVE  /\ Head(queue) \in Commands
         /\ queue' \in Seq(Commands) /\ Len(queue') <= MaxQueue
         /\ 1 \in 1 .. Len(queue) /\ Head(queue) = queue[1]
         /\ \A j \in 1 .. Len(queue') :
              j + 1 \in 1 .. Len(queue) /\ queue'[j] = queue[j + 1] /\ queue'[j] \in Commands
<1>1. queue \in Seq(Commands) /\ Len(queue) <= MaxQueue /\ MaxQueue \in Nat
  BY SessionAssumption DEF TypeOK
<1>2. /\ queue' \in Seq(Commands) /\ Head(queue) \in Commands
      /\ Len(queue) \in Nat \ {0} /\ Head(queue) = queue[1] /\ Len(queue') = Len(queue) - 1
      /\ \A j \in 1 .. Len(queue') : queue'[j] = queue[j + 1]
  BY <1>1, Popped
<1> QED BY <1>1, <1>2

(* A report is handled: nothing but the pauses changes.                    *)
LEMMA MessageInv ==
  ASSUME IInv, queue # <<>>, queue' = Tail(queue), HandleMessage(Head(queue)),
         UNCHANGED <<sock, hidden, again, auths, wipes>>
  PROVE  IInv'
<1>0. /\ TypeOK /\ Head(queue).t = "message"
      /\ reply' = reply /\ users' = users /\ banned' = banned /\ nextId' = nextId
      /\ players' = players
      /\ paused' = paused \/ paused' = paused \cup {Head(queue).pid} \/ paused' = paused \ {Head(queue).pid}
  BY DEF IInv, HandleMessage
<1>1. Head(queue) \in Commands /\ Head(queue).pid \in Ids
  BY <1>0, PoppedTyped, CommandKinds
<1>2. Waiting' = Waiting
  BY <1>0, SameWaiting
<1>3. TypeOK'
  BY <1>0, <1>1, PoppedTyped DEF TypeOK
<1>4. LoginsAwaited'
  BY <1>0, <1>2, PoppedAwaited DEF IInv
<1>5. LoginsCounted' /\ AccountsMatchPlayers' /\ IdsTaken' /\ KnowsItsGen' /\ GensHeld'
  BY <1>0, <1>2 DEF IInv, LoginsCounted, AccountsMatchPlayers, IdsTaken, KnowsItsGen,
                    AttachedTo, GensHeld, HeldBy
<1>6. GoodbyeQueued'
  <2> SUFFICES ASSUME NEW i \in Ids, NEW s \in Sockets,
                      AttachedTo(i, s), sock[s].pid = i, sock[s].at = "closed"
               PROVE  \E j \in 1 .. Len(queue') :
                        queue'[j] = [t |-> "disconnect", pid |-> i, gen |-> players[i].gen]
    BY <1>0 DEF GoodbyeQueued, AttachedTo
  <2> QED BY <1>0, PoppedGoodbyes DEF IInv
<1>7. GoodbyesOwn'
  BY <1>0, PoppedTyped DEF IInv, GoodbyesOwn, Own
<1> QED BY <1>3, <1>4, <1>5, <1>6, <1>7 DEF IInv

(* A goodbye is handled: the player it was true of is detached.            *)
LEMMA DisconnectInv ==
  ASSUME IInv, queue # <<>>, queue' = Tail(queue), HandleDisconnect(Head(queue)),
         UNCHANGED <<sock, hidden, again, auths, wipes>>
  PROVE  IInv'
<1> DEFINE c == Head(queue)
<1>0. /\ TypeOK /\ c.t = "disconnect" /\ paused' = paused \ {c.pid}
      /\ reply' = reply /\ users' = users /\ banned' = banned /\ nextId' = nextId
  BY DEF IInv, HandleDisconnect
<1>1. c \in Commands /\ c.pid \in Ids
  BY <1>0, PoppedTyped, CommandKinds
<1>2. Waiting' = Waiting
  BY <1>0, SameWaiting
<1>3. LoginsAwaited'
  BY <1>0, <1>2, PoppedAwaited DEF IInv
<1>4. players' \in [Ids -> {NoPlayer} \cup Player] /\ players \in [Ids -> {NoPlayer} \cup Player]
  <2>1. players \in [Ids -> {NoPlayer} \cup Player]
    BY <1>0 DEF TypeOK
  <2>2. players[c.pid] # NoPlayer =>
          [players[c.pid] EXCEPT !.tx = NoSocket, !.away = TRUE] \in Player
    BY <1>1, <2>1 DEF Player, TypeOK
  <2>3. players' = players \/ /\ players[c.pid] # NoPlayer
                              /\ players' = [players EXCEPT ![c.pid] =
                                     [players[c.pid] EXCEPT !.tx = NoSocket, !.away = TRUE]]
    BY <2>1 DEF HandleDisconnect
  <2> QED BY <1>1, <2>1, <2>2, <2>3
<1>5. \A i \in Ids :
        \/ players'[i] = players[i] /\ (i = c.pid => players[i] = NoPlayer \/ players[i].gen # c.gen)
        \/ /\ players[i] # NoPlayer /\ players'[i] # NoPlayer /\ players'[i].tx = NoSocket
           /\ players'[i].gen = players[i].gen /\ players'[i].name = players[i].name
  <2>1. CASE players[c.pid] # NoPlayer /\ players[c.pid].gen = c.gen
    <3>1. players' = [players EXCEPT ![c.pid] =
                        [players[c.pid] EXCEPT !.tx = NoSocket, !.away = TRUE]]
      BY <1>4, <2>1 DEF HandleDisconnect
    <3>2. players[c.pid] \in Player /\ players'[c.pid] \in {NoPlayer} \cup Player
      BY <1>1, <1>4, <2>1
    <3>3. players'[c.pid] = [players[c.pid] EXCEPT !.tx = NoSocket, !.away = TRUE]
      BY <1>1, <1>4, <3>1
    <3>4. /\ players'[c.pid].tx = NoSocket /\ players'[c.pid].gen = players[c.pid].gen
          /\ players'[c.pid].name = players[c.pid].name
      BY <3>2, <3>3 DEF Player, TypeOK
    <3>5. players'[c.pid] # NoPlayer
      BY <3>2, <3>3, SessionAssumption DEF Player
    <3> HIDE DEF c
    <3> QED BY <1>1, <1>4, <2>1, <3>1, <3>4, <3>5
  <2>2. CASE ~(players[c.pid] # NoPlayer /\ players[c.pid].gen = c.gen)
    <3>1. players' = players
      BY <2>2 DEF HandleDisconnect
    <3> QED BY <2>2, <3>1
  <2> QED BY <2>1, <2>2
<1>6. TypeOK'
  BY <1>0, <1>4, PoppedTyped DEF TypeOK
<1>7. LoginsCounted' /\ AccountsMatchPlayers' /\ IdsTaken'
  BY <1>0, <1>2, <1>5 DEF IInv, LoginsCounted, AccountsMatchPlayers, IdsTaken
<1>8. \A i \in Ids, s \in Sockets :
        AttachedTo(i, s)' => AttachedTo(i, s) /\ players'[i] = players[i]
  BY <1>5, SessionAssumption DEF AttachedTo
<1>9. KnowsItsGen'
  BY <1>0, <1>8 DEF IInv, KnowsItsGen
<1>10. GoodbyeQueued'
  <2> SUFFICES ASSUME NEW i \in Ids, NEW s \in Sockets,
                      AttachedTo(i, s)', sock[s].pid = i, sock[s].at = "closed"
               PROVE  \E j \in 1 .. Len(queue') :
                        queue'[j] = [t |-> "disconnect", pid |-> i, gen |-> players'[i].gen]
    BY <1>0 DEF GoodbyeQueued
  <2>1. AttachedTo(i, s) /\ players'[i] = players[i]
    BY <1>8
  <2>2. c # [t |-> "disconnect", pid |-> i, gen |-> players[i].gen]
    BY <1>5, <2>1, SessionAssumption DEF AttachedTo
  <2> QED BY <1>0, <2>1, <2>2, PoppedGoodbyes DEF IInv
<1>11. GensHeld'
  <2> SUFFICES ASSUME wipes = 0, NEW i \in Ids, NEW g, NEW s \in Sockets, HeldBy(i, g, s)
               PROVE  HeldBy(i, g, s)'
    BY <1>0, <1>4 DEF IInv, GensHeld, TypeOK
  <2> QED BY <1>5 DEF HeldBy
<1>12. GoodbyesOwn'
  <2> SUFFICES ASSUME wipes = 0, NEW j \in 1 .. Len(queue'), queue'[j].t = "disconnect",
                      NEW p, p = players'[queue'[j].pid]
               PROVE  /\ p # NoPlayer /\ queue'[j].gen <= p.gen
                      /\ p.tx # NoSocket /\ queue'[j].gen = p.gen => sock[p.tx].at = "closed"
    BY <1>0 DEF GoodbyesOwn, Own
  <2>1. j + 1 \in 1 .. Len(queue) /\ queue'[j] = queue[j + 1] /\ queue'[j].pid \in Ids
    BY <1>0, PoppedTyped, CommandKinds
  <2>2. PICK q : q = players[queue'[j].pid]
    OBVIOUS
  <2>3. /\ q # NoPlayer /\ queue'[j].gen <= q.gen
        /\ q.tx # NoSocket /\ queue'[j].gen = q.gen => sock[q.tx].at = "closed"
    BY <2>1, <2>2 DEF IInv, GoodbyesOwn, Own
  <2> QED BY <1>5, <2>1, <2>2, <2>3
<1> QED BY <1>3, <1>6, <1>7, <1>9, <1>10, <1>11, <1>12 DEF IInv

(* A login is answered: its connection waits no more, and makes room for   *)
(* one id and one generation.                                              *)
LEMMA Answered ==
  ASSUME IInv, queue # <<>>, queue' = Tail(queue), Head(queue).t = "auth", sock' = sock,
         NEW r, r # Pending, reply' = [reply EXCEPT ![Head(queue).s] = r]
  PROVE  /\ Head(queue) \in Commands /\ Head(queue).s \in Sockets /\ Head(queue).name \in Names
         /\ sock[Head(queue).s].at = "awaiting"
         /\ LoginsAwaited'
         /\ IsFiniteSet(Waiting') /\ Cardinality(Waiting') \in Nat
         /\ Cardinality(Waiting) = Cardinality(Waiting') + 1
<1>1. /\ Head(queue) \in Commands /\ Head(queue).s \in Sockets /\ Head(queue).name \in Names
      /\ 1 \in 1 .. Len(queue) /\ Head(queue) = queue[1]
  BY PoppedTyped, CommandKinds DEF IInv
<1>2. Head(queue).s \in Waiting
  BY <1>1 DEF IInv, LoginsAwaited
<1>3. Waiting' = Waiting \ {Head(queue).s}
  BY <1>1 DEF IInv, TypeOK, Waiting
<1>4. LoginsAwaited'
  BY <1>3, PoppedAwaited DEF IInv
<1>5. IsFiniteSet(Waiting) /\ Cardinality(Waiting) \in Nat
  BY FS_CardinalityType DEF IInv, LoginsCounted
<1>6. /\ IsFiniteSet(Waiting') /\ Cardinality(Waiting') \in Nat
      /\ Cardinality(Waiting') = Cardinality(Waiting) - 1
  BY <1>2, <1>3, <1>5, FS_RemoveElement, FS_CardinalityType
<1> QED BY <1>1, <1>2, <1>4, <1>5, <1>6 DEF Waiting

(* A refusal changes nothing but the answer.                               *)
LEMMA RefuseInv ==
  ASSUME IInv, queue # <<>>, queue' = Tail(queue), Head(queue).t = "auth", Refuse(Head(queue)),
         UNCHANGED <<users, nextId, banned, paused, sock, hidden, again, auths, wipes>>
  PROVE  IInv'
<1> DEFINE c == Head(queue)
<1>0. /\ TypeOK /\ players' = players /\ reply' = [reply EXCEPT ![c.s] = Refused]
      /\ Refused # Pending
  BY DEF IInv, Refuse, Refused, Pending
<1>1. /\ c \in Commands /\ c.s \in Sockets /\ sock[c.s].at = "awaiting"
      /\ LoginsAwaited'
      /\ IsFiniteSet(Waiting') /\ Cardinality(Waiting') \in Nat
      /\ Cardinality(Waiting) = Cardinality(Waiting') + 1
  BY <1>0, Answered
<1>2. /\ \A s \in Sockets : reply'[s] # reply[s] => s = c.s /\ reply'[s] = Refused
      /\ c.s \in Waiting
  <2>1. c.s \in Waiting
    BY <1>0, PoppedTyped DEF IInv, LoginsAwaited
  <2> QED BY <1>0, <1>1, <2>1 DEF TypeOK
<1>3. TypeOK'
  BY <1>0, <1>1, PoppedTyped DEF TypeOK
<1>4. LoginsCounted'
  BY <1>0, <1>1, SessionAssumption DEF IInv, LoginsCounted, TypeOK, Player
<1>5. AccountsMatchPlayers' /\ IdsTaken'
  BY <1>0 DEF IInv, AccountsMatchPlayers, IdsTaken
<1>6. KnowsItsGen'
  BY <1>0, <1>2 DEF IInv, KnowsItsGen, AttachedTo, Waiting
<1>7. GoodbyeQueued'
  <2> SUFFICES ASSUME NEW i \in Ids, NEW s \in Sockets,
                      AttachedTo(i, s), sock[s].pid = i, sock[s].at = "closed"
               PROVE  \E j \in 1 .. Len(queue') :
                        queue'[j] = [t |-> "disconnect", pid |-> i, gen |-> players[i].gen]
    BY <1>0 DEF GoodbyeQueued, AttachedTo
  <2> QED BY <1>0, PoppedGoodbyes DEF IInv
<1>8. GensHeld'
  BY <1>0, <1>2 DEF IInv, GensHeld, HeldBy
<1>9. GoodbyesOwn'
  BY <1>0, PoppedTyped DEF IInv, GoodbyesOwn, Own
<1> QED BY <1>1, <1>3, <1>4, <1>5, <1>6, <1>7, <1>8, <1>9 DEF IInv

(* A player is attached to the connection that logged in, one generation   *)
(* on; the accounts are looked at by the two lemmas after this one.        *)
LEMMA AcceptKeeps ==
  ASSUME IInv, queue # <<>>, queue' = Tail(queue), Head(queue).t = "auth",
         NEW id \in Ids, Accept(Head(queue), id),
         UNCHANGED <<banned, paused, sock, hidden, again, auths, wipes>>
  PROVE  /\ players' \in [Ids -> {NoPlayer} \cup Player] /\ players'[id] # NoPlayer
         /\ \A i \in Ids : i # id => players'[i] = players[i]
         /\ players'[id].name = IF players[id] # NoPlayer THEN players[id].name ELSE Head(queue).name
         /\ reply' \in [Sockets -> {Pending, Refused} \cup
                                  [is : {"granted"}, pid : Ids, gen : 1 .. MaxAuths]]
         /\ \A i \in Ids : players'[i] # NoPlayer => players'[i].gen + Cardinality(Waiting') <= auths
         /\ KnowsItsGen' /\ GoodbyeQueued' /\ GensHeld' /\ GoodbyesOwn'
<1> DEFINE c == Head(queue)
           p == Attached(id, c.name, c.s)
           Held(i, g, s) == /\ players'[i] # NoPlayer /\ g <= players'[i].gen
                            /\ g = players'[i].gen => players'[i].tx \in {s, NoSocket}
<1>0. /\ TypeOK /\ players' = [players EXCEPT ![id] = p]
      /\ reply' = [reply EXCEPT ![c.s] = Granted(id, p.gen)]
      /\ Granted(id, p.gen) \notin {Pending, Refused}
  BY DEF IInv, Accept, Granted, Refused, Pending
<1>1. /\ c \in Commands /\ c.s \in Sockets /\ c.name \in Names /\ sock[c.s].at = "awaiting"
      /\ IsFiniteSet(Waiting') /\ Cardinality(Waiting') \in Nat
      /\ Cardinality(Waiting) = Cardinality(Waiting') + 1
  BY <1>0, Answered
<1>2. auths \in Nat /\ auths <= MaxAuths /\ MaxAuths \in Nat /\ nextId \in Nat /\ nextId >= FirstId
  BY <1>0, SessionAssumption DEF TypeOK
<1>3. /\ players \in [Ids -> {NoPlayer} \cup Player]
      /\ players[id] # NoPlayer => players[id] \in Player
      /\ \A i \in Ids : players[i] # NoPlayer => players[i].gen \in Nat \ {0}
  BY <1>0, <1>2 DEF TypeOK, Player
<1>4. /\ p \in [name : Names, tx : Sockets, gen : Nat, away : BOOLEAN]
      /\ p.tx = c.s
      /\ p.gen = IF players[id] # NoPlayer THEN players[id].gen + 1 ELSE 1
      /\ p.name = IF players[id] # NoPlayer THEN players[id].name ELSE c.name
  <2>1. CASE players[id] # NoPlayer
    <3>1. p = [players[id] EXCEPT !.gen = @ + 1, !.tx = c.s, !.away = FALSE]
      BY <2>1 DEF Attached
    <3>2. players[id] \in Player
      BY <1>3, <2>1
    <3> HIDE DEF p, c
    <3>3. /\ p.name = players[id].name /\ p.tx = c.s /\ p.gen = players[id].gen + 1
          /\ p = [name |-> p.name, tx |-> p.tx, gen |-> p.gen, away |-> FALSE]
      BY <3>1, <3>2 DEF Player
    <3>4. p.name \in Names /\ p.tx \in Sockets /\ p.gen \in Nat
      BY <1>1, <1>2, <3>2, <3>3 DEF Player
    <3>5. p \in [name : Names, tx : Sockets, gen : Nat, away : BOOLEAN]
      <4>1. PICK n \in Names, t \in Sockets, g \in Nat :
              p = [name |-> n, tx |-> t, gen |-> g, away |-> FALSE]
        BY <3>3, <3>4
      <4> QED BY <4>1
    <3> QED BY <2>1, <3>3, <3>5
  <2>2. CASE players[id] = NoPlayer
    <3>1. p = [name |-> c.name, tx |-> c.s, gen |-> 1, away |-> FALSE]
      BY <2>2 DEF Attached
    <3> HIDE DEF p, c
    <3> QED BY <1>1, <2>2, <3>1
  <2> QED BY <2>1, <2>2
<1>5. p.gen + Cardinality(Waiting') <= auths /\ p.gen \in 1 .. MaxAuths
  <2>1. /\ nextId + Cardinality(Waiting) <= FirstId + auths
        /\ players[id] # NoPlayer => players[id].gen + Cardinality(Waiting) <= auths
    BY DEF IInv, LoginsCounted
  <2>2. FirstId \in Nat
    BY SessionAssumption
  <2>3. /\ auths \in Nat /\ nextId \in Nat /\ MaxAuths \in Nat /\ auths <= MaxAuths
        /\ Cardinality(Waiting) \in Nat /\ Cardinality(Waiting') \in Nat
    BY <1>1, <1>2, <1>3
  <2> HIDE DEF p
  <2>4. CASE players[id] # NoPlayer
    <3>1. p.gen = players[id].gen + 1
      BY <1>4, <2>4
    <3>2. players[id].gen \in Nat \ {0} /\ players[id].gen + Cardinality(Waiting) <= auths
      BY <1>3, <2>1, <2>4
    <3> QED BY <1>1, <2>3, <3>1, <3>2
  <2>5. CASE players[id] = NoPlayer
    <3>1. p.gen = 1
      BY <1>4, <2>5
    <3> QED BY <1>1, <1>2, <2>1, <2>2, <2>3, <3>1
  <2> QED BY <2>4, <2>5
<1>6. p \in Player /\ p # NoPlayer
  <2> HIDE DEF p
  <2>1. p \in Player
    BY <1>4, <1>5 DEF Player
  <2> QED BY <2>1, SessionAssumption
<1> HIDE DEF p, c
<1>7. /\ players' \in [Ids -> {NoPlayer} \cup Player]
      /\ players'[id] = p /\ \A i \in Ids : i # id => players'[i] = players[i]
  BY <1>0, <1>3, <1>6
<1>8. /\ reply' \in [Sockets -> {Pending, Refused} \cup
                               [is : {"granted"}, pid : Ids, gen : 1 .. MaxAuths]]
      /\ reply'[c.s] = [is |-> "granted", pid |-> id, gen |-> p.gen]
      /\ \A s \in Sockets : s # c.s => reply'[s] = reply[s]
  <2>1. Granted(id, p.gen) \in [is : {"granted"}, pid : Ids, gen : 1 .. MaxAuths]
    BY <1>5 DEF Granted
  <2> QED BY <1>0, <1>1, <2>1 DEF TypeOK, Granted
<1>9. \A i \in Ids : players'[i] # NoPlayer => players'[i].gen + Cardinality(Waiting') <= auths
  <2> SUFFICES ASSUME NEW i \in Ids, i # id, players[i] # NoPlayer
               PROVE  players[i].gen + Cardinality(Waiting') <= auths
    BY <1>5, <1>7
  <2>1. players[i].gen + Cardinality(Waiting) <= auths
    BY DEF IInv, LoginsCounted
  <2> QED BY <1>1, <1>2, <1>3, <2>1
<1>10. KnowsItsGen'
  <2> SUFFICES ASSUME NEW i \in Ids, NEW s \in Sockets, AttachedTo(i, s)'
               PROVE  IF sock[s].at = "awaiting" /\ reply'[s] \notin {Pending, Refused}
                      THEN reply'[s].pid = i => reply'[s].gen = players'[i].gen
                      ELSE sock[s].pid = i => sock[s].gen = players'[i].gen
    BY DEF KnowsItsGen
  <2>1. CASE s = c.s
    BY <1>0, <1>1, <1>7, <1>8, <2>1
  <2>2. CASE s # c.s
    <3>1. i # id /\ AttachedTo(i, s)
      BY <1>4, <1>7, <2>2 DEF AttachedTo
    <3> QED BY <1>7, <1>8, <2>2, <3>1 DEF IInv, KnowsItsGen
  <2> QED BY <2>1, <2>2
<1>11. GoodbyeQueued'
  <2> SUFFICES ASSUME NEW i \in Ids, NEW s \in Sockets,
                      AttachedTo(i, s)', sock[s].pid = i, sock[s].at = "closed"
               PROVE  \E j \in 1 .. Len(queue') :
                        queue'[j] = [t |-> "disconnect", pid |-> i, gen |-> players'[i].gen]
    BY DEF GoodbyeQueued
  <2>1. s # c.s
    BY <1>1
  <2>2. i # id /\ AttachedTo(i, s) /\ players'[i] = players[i]
    BY <1>4, <1>7, <2>1 DEF AttachedTo
  <2> QED BY <1>0, <2>2, PoppedGoodbyes DEF IInv
<1>12. ASSUME NEW i \in Ids, NEW g \in Nat, NEW s \in Sockets, HeldBy(i, g, s)
       PROVE  Held(i, g, s)
  <2>1. CASE i # id
    BY <1>7, <1>12, <2>1 DEF HeldBy
  <2>2. CASE i = id
    <3>1. players[id] # NoPlayer /\ g <= players[id].gen /\ players[id].gen \in Nat
      BY <1>3, <1>12, <2>2 DEF HeldBy
    <3>2. g <= p.gen /\ g # p.gen
      BY <1>4, <1>12, <2>2, <3>1
    <3> QED BY <1>6, <1>7, <2>2, <3>2
  <2> QED BY <2>1, <2>2
<1>13. GensHeld'
  <2> SUFFICES ASSUME wipes = 0
               PROVE  /\ \A s \in Sockets : sock[s].pid # NoId => Held(sock[s].pid, sock[s].gen, s)
                      /\ \A s \in Sockets : reply'[s] \notin {Pending, Refused} =>
                                             Held(reply'[s].pid, reply'[s].gen, s)
    BY DEF GensHeld, HeldBy
  <2>1. ASSUME NEW s \in Sockets, sock[s].pid # NoId
        PROVE  Held(sock[s].pid, sock[s].gen, s)
    <3>1. sock[s].pid \in Ids /\ sock[s].gen \in Nat
      BY <1>0, <2>1, SessionAssumption DEF TypeOK
    <3>2. HeldBy(sock[s].pid, sock[s].gen, s)
      BY <2>1 DEF IInv, GensHeld
    <3> HIDE DEF Held
    <3> QED BY <1>12, <3>1, <3>2
  <2>2. ASSUME NEW s \in Sockets, s # c.s, reply[s] \notin {Pending, Refused}
        PROVE  Held(reply[s].pid, reply[s].gen, s)
    <3>1. reply[s].pid \in Ids /\ reply[s].gen \in Nat
      BY <1>0, <2>2, SessionAssumption DEF TypeOK
    <3>2. HeldBy(reply[s].pid, reply[s].gen, s)
      BY <2>2 DEF IInv, GensHeld
    <3> HIDE DEF Held
    <3> QED BY <1>12, <3>1, <3>2
  <2>3. Held(id, p.gen, c.s)
    BY <1>4, <1>5, <1>6, <1>7
  <2> HIDE DEF Held
  <2>4. ASSUME NEW s \in Sockets, reply'[s] \notin {Pending, Refused}
        PROVE  Held(reply'[s].pid, reply'[s].gen, s)
    <3>1. CASE s = c.s
      BY <1>8, <2>3, <3>1
    <3>2. CASE s # c.s
      BY <1>8, <2>2, <2>4, <3>2
    <3> QED BY <3>1, <3>2
  <2> QED BY <2>1, <2>4
<1>14. GoodbyesOwn'
  <2> SUFFICES ASSUME wipes = 0, NEW j \in 1 .. Len(queue'), NEW d, d = queue'[j],
                      d.t = "disconnect"
               PROVE  /\ players'[d.pid] # NoPlayer /\ d.gen <= players'[d.pid].gen
                      /\ players'[d.pid].tx # NoSocket /\ d.gen = players'[d.pid].gen =>
                           sock[players'[d.pid].tx].at = "closed"
    BY DEF GoodbyesOwn, Own
  <2>1. j + 1 \in 1 .. Len(queue) /\ d = queue[j + 1] /\ d.pid \in Ids /\ d.gen \in Nat
    BY <1>0, <1>2, PoppedTyped, CommandKinds
  <2>2. /\ players[d.pid] # NoPlayer /\ d.gen <= players[d.pid].gen
        /\ players[d.pid].tx # NoSocket /\ d.gen = players[d.pid].gen =>
             sock[players[d.pid].tx].at = "closed"
    BY <2>1 DEF IInv, GoodbyesOwn, Own
  <2>3. CASE d.pid # id
    BY <1>7, <2>1, <2>2, <2>3
  <2>4. CASE d.pid = id
    <3>1. d.gen <= p.gen /\ d.gen # p.gen
      BY <1>3, <1>4, <2>1, <2>2, <2>4
    <3> QED BY <1>6, <1>7, <2>4, <3>1
  <2> QED BY <2>3, <2>4
<1>15. players'[id].name = IF players[id] # NoPlayer THEN players[id].name ELSE Head(queue).name
  BY <1>4, <1>7 DEF c
<1> QED BY <1>6, <1>7, <1>8, <1>9, <1>10, <1>11, <1>13, <1>14, <1>15

(* A register: refused, or the account, its player and the next id.        *)
LEMMA RegisterInv ==
  ASSUME IInv, queue # <<>>, queue' = Tail(queue), Head(queue).t = "auth", Register(Head(queue)),
         UNCHANGED <<banned, paused, sock, hidden, again, auths, wipes>>
  PROVE  IInv'
<1> DEFINE c == Head(queue)
<1>1. CASE users[c.name] # NoId
  BY <1>1, RefuseInv DEF Register
<1>2. CASE users[c.name] = NoId
  <2>1. /\ TypeOK /\ nextId' = nextId + 1 /\ users' = [users EXCEPT ![c.name] = nextId]
        /\ Accept(c, nextId)
    BY <1>2 DEF IInv, Register
  <2>2. reply' = [reply EXCEPT ![c.s] = Granted(nextId, Attached(nextId, c.name, c.s).gen)]
    BY <2>1 DEF Accept
  <2>3. Granted(nextId, Attached(nextId, c.name, c.s).gen) # Pending
    BY DEF Granted, Pending
  <2>4. /\ c \in Commands /\ c.s \in Sockets /\ c.name \in Names /\ LoginsAwaited'
        /\ IsFiniteSet(Waiting') /\ Cardinality(Waiting') \in Nat
        /\ Cardinality(Waiting) = Cardinality(Waiting') + 1
    BY <2>2, <2>3, Answered
  <2>5. /\ FirstId \in Nat \ {0} /\ MaxAuths \in Nat /\ nextId \in FirstId .. FirstId + MaxAuths
        /\ auths \in 0 .. MaxAuths /\ nextId + Cardinality(Waiting) <= FirstId + auths
    BY <2>1, SessionAssumption DEF IInv, TypeOK, LoginsCounted
  <2>6. nextId \in Ids /\ nextId + 1 \in FirstId .. FirstId + MaxAuths /\ nextId # NoId
    BY <2>4, <2>5 DEF Ids, NoId
  <2>7. /\ players' \in [Ids -> {NoPlayer} \cup Player] /\ players'[nextId] # NoPlayer
        /\ \A i \in Ids : i # nextId => players'[i] = players[i]
        /\ players'[nextId].name = IF players[nextId] # NoPlayer THEN players[nextId].name ELSE c.name
        /\ reply' \in [Sockets -> {Pending, Refused} \cup
                                 [is : {"granted"}, pid : Ids, gen : 1 .. MaxAuths]]
        /\ \A i \in Ids : players'[i] # NoPlayer => players'[i].gen + Cardinality(Waiting') <= auths
        /\ KnowsItsGen' /\ GoodbyeQueued' /\ GensHeld' /\ GoodbyesOwn'
    BY <2>1, <2>6, AcceptKeeps
  <2> HIDE DEF c
  <2>8. TypeOK'
    BY <2>1, <2>4, <2>6, <2>7, PoppedTyped DEF TypeOK
  <2>9. LoginsCounted'
    BY <2>1, <2>4, <2>5, <2>7 DEF LoginsCounted
  <2>10. \A n \in Names : users[n] # NoId => users[n] < nextId
    BY DEF IInv, IdsTaken
  <2>11. \A i \in Ids : players[i] # NoPlayer => users[players[i].name] = i /\ players[i].name \in Names
    BY <2>1 DEF IInv, AccountsMatchPlayers, TypeOK, Player
  <2>12. \A n \in Names : users[n] \in Nat /\ users'[n] = IF n = c.name THEN nextId ELSE users[n]
    BY <2>1, <2>4, SessionAssumption DEF TypeOK, Ids, NoId
  <2>13. players[nextId] = NoPlayer
    BY <2>5, <2>6, <2>10, <2>11
  <2>14. IdsTaken'
    BY <2>1, <2>5, <2>10, <2>12 DEF IdsTaken
  <2>15. AccountsMatchPlayers'
    <3>1. \A m, n \in Names : users'[m] = users'[n] /\ users'[m] # NoId => m = n
      BY <2>5, <2>10, <2>12 DEF IInv, AccountsMatchPlayers
    <3>2. \A i \in Ids : players'[i] # NoPlayer => users'[players'[i].name] = i
      <4> SUFFICES ASSUME NEW i \in Ids, players'[i] # NoPlayer
                   PROVE  users'[players'[i].name] = i
        OBVIOUS
      <4>1. CASE i = nextId
        BY <2>4, <2>7, <2>12, <2>13, <4>1
      <4>2. CASE i # nextId
        <5>1. players'[i] = players[i]
          BY <2>7, <4>2
        <5>2. players[i].name \in Names /\ users[players[i].name] = i /\ i # NoId
          BY <2>11, <5>1, SessionAssumption DEF Ids, NoId
        <5> QED BY <1>2, <2>12, <5>1, <5>2 DEF c
      <4> QED BY <4>1, <4>2
    <3> QED BY <3>1, <3>2 DEF AccountsMatchPlayers
  <2> QED BY <2>4, <2>7, <2>8, <2>9, <2>14, <2>15 DEF IInv
<1> QED BY <1>1, <1>2

(* A login: refused, or the account's player is attached, made anew when   *)
(* it is not there.                                                        *)
LEMMA LoginInv ==
  ASSUME IInv, queue # <<>>, queue' = Tail(queue), Head(queue).t = "auth", Login(Head(queue)),
         UNCHANGED <<banned, paused, sock, hidden, again, auths, wipes>>
  PROVE  IInv'
<1> DEFINE c == Head(queue)
           id == users[c.name]
<1>1. CASE users[c.name] = NoId \/ c.name \in banned
  BY <1>1, RefuseInv DEF Login
<1>2. CASE ~(users[c.name] = NoId \/ c.name \in banned)
  <2>1. TypeOK /\ nextId' = nextId /\ users' = users /\ Accept(c, id)
    BY <1>2 DEF IInv, Login
  <2>2. reply' = [reply EXCEPT ![c.s] = Granted(id, Attached(id, c.name, c.s).gen)]
    BY <2>1 DEF Accept
  <2>3. Granted(id, Attached(id, c.name, c.s).gen) # Pending
    BY DEF Granted, Pending
  <2>4. /\ c \in Commands /\ c.s \in Sockets /\ c.name \in Names /\ LoginsAwaited'
        /\ IsFiniteSet(Waiting') /\ Cardinality(Waiting') \in Nat
        /\ Cardinality(Waiting) = Cardinality(Waiting') + 1
    BY <2>2, <2>3, Answered
  <2>5. /\ FirstId \in Nat \ {0} /\ MaxAuths \in Nat /\ nextId \in FirstId .. FirstId + MaxAuths
        /\ auths \in 0 .. MaxAuths /\ nextId + Cardinality(Waiting) <= FirstId + auths
    BY <2>1, SessionAssumption DEF IInv, TypeOK, LoginsCounted
  <2>6. id \in Ids
    BY <1>2, <2>1, <2>4 DEF TypeOK
  <2>7. /\ players' \in [Ids -> {NoPlayer} \cup Player] /\ players'[id] # NoPlayer
        /\ \A i \in Ids : i # id => players'[i] = players[i]
        /\ players'[id].name = IF players[id] # NoPlayer THEN players[id].name ELSE c.name
        /\ reply' \in [Sockets -> {Pending, Refused} \cup
                                 [is : {"granted"}, pid : Ids, gen : 1 .. MaxAuths]]
        /\ \A i \in Ids : players'[i] # NoPlayer => players'[i].gen + Cardinality(Waiting') <= auths
        /\ KnowsItsGen' /\ GoodbyeQueued' /\ GensHeld' /\ GoodbyesOwn'
    BY <2>1, <2>6, AcceptKeeps
  <2> HIDE DEF c
  <2>8. TypeOK'
    BY <2>1, <2>7, PoppedTyped DEF TypeOK
  <2>9. LoginsCounted'
    BY <2>1, <2>4, <2>5, <2>7 DEF LoginsCounted
  <2>10. IdsTaken'
    BY <2>1 DEF IInv, IdsTaken
  <2>11. AccountsMatchPlayers'
    <3>1. \A i \in Ids : players[i] # NoPlayer => users[players[i].name] = i
      BY DEF IInv, AccountsMatchPlayers
    <3>2. \A i \in Ids : players'[i] # NoPlayer => users[players'[i].name] = i
      BY <2>6, <2>7, <3>1
    <3> QED BY <2>1, <3>2 DEF IInv, AccountsMatchPlayers
  <2> QED BY <2>4, <2>7, <2>8, <2>9, <2>10, <2>11 DEF IInv
<1> QED BY <1>1, <1>2

(* A ban is only a name in the list.                                       *)
LEMMA BanInv ==
  ASSUME IInv, NEW i \in Ids, Ban(i)
  PROVE  IInv'
<1>0. /\ TypeOK /\ players[i] # NoPlayer /\ banned' = banned \cup {players[i].name}
      /\ sock' = sock /\ reply' = reply /\ hidden' = hidden /\ queue' = queue
      /\ users' = users /\ nextId' = nextId /\ players' = players /\ paused' = paused
      /\ again' = again /\ auths' = auths /\ wipes' = wipes
  BY DEF IInv, Ban
<1>1. TypeOK'
  BY <1>0 DEF TypeOK, Player
<1>2. Waiting' = Waiting
  BY <1>0, SameWaiting
<1> QED BY <1>0, <1>1, <1>2
        DEF IInv, AccountsMatchPlayers, LoginsAwaited, LoginsCounted, IdsTaken, KnowsItsGen,
            GoodbyeQueued, GensHeld, HeldBy, GoodbyesOwn, Own, AttachedTo

(* A wipe: no player, no account, and the ids start over.                  *)
LEMMA WipeUsersInv ==
  ASSUME IInv, WipeUsers
  PROVE  IInv'
<1>0. /\ TypeOK /\ wipes < MaxWipes /\ wipes' = wipes + 1 /\ nextId' = FirstId
      /\ players' = [i \in Ids |-> NoPlayer] /\ users' = [n \in Names |-> NoId] /\ banned' = {}
      /\ sock' = sock /\ reply' = reply /\ hidden' = hidden /\ queue' = queue
      /\ paused' = paused /\ again' = again /\ auths' = auths
      /\ FirstId \in Nat \ {0} /\ MaxAuths \in Nat /\ MaxWipes \in Nat
  BY SessionAssumption DEF IInv, WipeUsers
<1>1. TypeOK'
  BY <1>0 DEF TypeOK
<1>2. Waiting' = Waiting
  BY <1>0, SameWaiting
<1>3. LoginsCounted'
  <2>1. /\ IsFiniteSet(Waiting) /\ Cardinality(Waiting) \in Nat
        /\ nextId + Cardinality(Waiting) <= FirstId + auths
    BY FS_CardinalityType DEF IInv, LoginsCounted
  <2> QED BY <1>0, <1>2, <2>1 DEF LoginsCounted, TypeOK
<1>4. LoginsAwaited'
  BY <1>0, <1>2 DEF IInv, LoginsAwaited
<1>5. AccountsMatchPlayers' /\ IdsTaken' /\ KnowsItsGen' /\ GoodbyeQueued'
  BY <1>0 DEF AccountsMatchPlayers, IdsTaken, KnowsItsGen, GoodbyeQueued, AttachedTo
<1>6. wipes' # 0
  BY <1>0 DEF TypeOK
<1>7. GensHeld' /\ GoodbyesOwn'
  BY <1>6 DEF GensHeld, GoodbyesOwn, Own
<1> QED BY <1>1, <1>3, <1>4, <1>5, <1>7 DEF IInv

-----------------------------------------------------------------------------
(* The theorems. *)

(* Every step preserves the inductive invariant.                           *)
LEMMA NextInv == IInv /\ [Next]_vars => IInv'
<1> SUFFICES ASSUME IInv, [Next]_vars PROVE IInv'
  OBVIOUS
<1>1. CASE \E s \in Sockets, k \in {"register", "login"}, n \in Names : SendAuth(s, k, n)
  BY <1>1, SendAuthInv
<1>2. CASE \E s \in Sockets : ReceiveReply(s) \/ Toggle(s) \/ Close(s)
  BY <1>2, ReceiveReplyInv, ToggleInv, CloseInv
<1>3. CASE Handle
  <2>0. /\ queue # <<>> /\ queue' = Tail(queue)
        /\ UNCHANGED <<sock, hidden, again, auths, wipes>>
    BY <1>3 DEF Handle
  <2>1. CASE HandleAuth(Head(queue))
    BY <2>0, <2>1, RegisterInv, LoginInv DEF HandleAuth
  <2>2. CASE HandleMessage(Head(queue))
    BY <2>0, <2>2, MessageInv
  <2>3. CASE HandleDisconnect(Head(queue))
    BY <2>0, <2>3, DisconnectInv
  <2> QED BY <1>3, <2>1, <2>2, <2>3 DEF Handle
<1>4. CASE \E i \in Ids : Ban(i)
  BY <1>4, BanInv
<1>5. CASE WipeUsers
  BY <1>5, WipeUsersInv
<1>6. CASE UNCHANGED vars
  <2>1. Waiting' = Waiting
    BY <1>6 DEF vars, Waiting
  <2> QED BY <1>6, <2>1
          DEF vars, IInv, TypeOK, AccountsMatchPlayers, LoginsAwaited, LoginsCounted, IdsTaken,
              KnowsItsGen, GoodbyeQueued, GensHeld, HeldBy, GoodbyesOwn, Own, AttachedTo
<1> QED BY <1>1, <1>2, <1>3, <1>4, <1>5, <1>6 DEF Next

(* The inductive invariant holds in every behaviour of the specification.  *)
THEOREM Invariance == Spec => []IInv
<1>1. Init => IInv
  BY InitInv
<1>2. IInv /\ [Next]_vars => IInv'
  BY NextInv
<1> QED BY <1>1, <1>2, PTL DEF Spec

(* The state is well-typed: in particular the ids and the generations      *)
(* handed out by register, login and reconnect stay within the logins sent.*)
THEOREM TypeCorrect == Spec => []TypeOK
<1>1. IInv => TypeOK
  BY DEF IInv
<1> QED BY <1>1, Invariance, PTL

(* No two accounts share an id, and every player is filed under its        *)
(* account's name, whatever registers, logs in or is wiped.                *)
THEOREM AccountsTheirOwn == Spec => []AccountsMatchPlayers
<1>1. IInv => AccountsMatchPlayers
  BY DEF IInv
<1> QED BY <1>1, Invariance, PTL

(* With the queue drained, no player is left attached to a closed          *)
(* connection that was its own: the goodbye carries the generation that    *)
(* still matches.                                                          *)
THEOREM NobodyOrphaned == Spec => []NoOrphan
<1>1. IInv => NoOrphan
  <2> SUFFICES ASSUME IInv, queue = <<>>, NEW i \in Ids, NEW s \in Sockets,
                      AttachedTo(i, s), sock[s].pid = i, sock[s].at = "closed"
               PROVE  FALSE
    BY DEF NoOrphan
  <2>1. \E j \in 1 .. Len(queue) :
          queue[j] = [t |-> "disconnect", pid |-> i, gen |-> players[i].gen]
    BY DEF IInv, GoodbyeQueued
  <2> QED BY <2>1
<1> QED BY <1>1, Invariance, PTL

(* Until a wipe, only the goodbye of the very connection a player is       *)
(* attached to detaches it: a stale one carries an older generation.       *)
THEOREM DetachedByOwn == Spec => DetachedByItsOwn
<1> DEFINE Step == \A i \in Ids, s \in Sockets :
             (wipes = 0 /\ AttachedTo(i, s) /\ players'[i] # NoPlayer /\ players'[i].tx = NoSocket)
               => sock[s].at = "closed"
<1>1. IInv /\ [Next]_vars => [Step]_vars
  <2> SUFFICES ASSUME IInv, Next, wipes = 0, NEW i \in Ids, NEW s \in Sockets, AttachedTo(i, s),
                      players'[i] # NoPlayer, players'[i].tx = NoSocket
               PROVE  sock[s].at = "closed"
    OBVIOUS
  <2>0. TypeOK /\ players[i].tx = s /\ players[i] # NoPlayer /\ s # NoSocket
    BY SessionAssumption DEF IInv, AttachedTo
  <2>1. ASSUME players' = players PROVE FALSE
    BY <2>0, <2>1
  <2>2. ASSUME Handle PROVE sock[s].at = "closed"
    <3> DEFINE c == Head(queue)
    <3>0. /\ queue # <<>> /\ queue' = Tail(queue) /\ c \in Commands
          /\ UNCHANGED <<sock, hidden, again, auths, wipes>>
          /\ 1 \in 1 .. Len(queue) /\ c = queue[1]
      BY <2>0, <2>2, PoppedTyped DEF Handle
    <3>1. CASE HandleDisconnect(c)
      <4>1. c.t = "disconnect" /\ c.pid \in Ids
        BY <3>0, <3>1, CommandKinds DEF HandleDisconnect
      <4>2. players # players'
        BY <2>1
      <4>3. c.pid = i /\ players[i].gen = c.gen
        BY <2>0, <3>1, <4>1, <4>2 DEF HandleDisconnect, TypeOK
      <4> QED BY <2>0, <3>0, <4>1, <4>3 DEF IInv, GoodbyesOwn, Own
    <3>2. CASE HandleMessage(c)
      BY <2>1, <3>2 DEF HandleMessage
    <3>3. CASE HandleAuth(c)
      <4>1. c.s \in Sockets
        BY <3>0, <3>3, CommandKinds DEF HandleAuth
      <4>2. players' = players \/ \E id : Accept(c, id)
        BY <3>3 DEF HandleAuth, Register, Login, Refuse
      <4>3. PICK id : players' = [players EXCEPT ![id] = Attached(id, c.name, c.s)]
        BY <2>1, <4>2 DEF Accept
      <4>4. players \in [Ids -> {NoPlayer} \cup Player] /\ players[i] \in Player
        BY <2>0 DEF TypeOK
      <4>5. CASE id = i
        <5>1. players'[i] = [players[i] EXCEPT !.gen = @ + 1, !.tx = c.s, !.away = FALSE]
          BY <2>0, <4>3, <4>4, <4>5 DEF Attached
        <5>2. players'[i].tx = c.s
          BY <4>4, <5>1 DEF Player
        <5> QED BY <4>1, <5>2, SessionAssumption
      <4>6. CASE id # i
        BY <2>0, <4>3, <4>4, <4>6
      <4> QED BY <4>5, <4>6
    <3> QED BY <2>2, <3>1, <3>2, <3>3 DEF Handle
  <2>3. ASSUME WipeUsers PROVE FALSE
    BY <2>3 DEF WipeUsers
  <2> QED BY <2>1, <2>2, <2>3
          DEF Next, SendAuth, ReceiveReply, Toggle, Close, Ban, World
<1> QED BY <1>1, Invariance, PTL DEF Spec, DetachedByItsOwn

-----------------------------------------------------------------------------
(* Pauses. *)

(* A pause that is, or will be once the queue has come to it: at place 0   *)
(* the one in paused_views, at k the one that waits there.                 *)
PausedFrom(i, k) ==
  \/ k = 0 /\ i \in paused
  \/ k > 0 /\ queue[k] = [t |-> "message", pid |-> i, body |-> "view-pause"]

(* The goodbye or the resume that is queued behind it.                     *)
GoodbyeBehind(i, k) ==
  \E j \in 1 .. Len(queue) : j > k /\ queue[j].t = "disconnect" /\ queue[j].pid = i

ResumeBehind(i, k) ==
  \E j \in 1 .. Len(queue) :
    j > k /\ queue[j] = [t |-> "message", pid |-> i, body |-> "view-resume"]

OpenFor(i, r) == sock[r].pid = i /\ sock[r].at # "closed"

(* Whoever waits for an answer has no player yet.                          *)
FirstLogins == \A s \in Sockets : sock[s].at = "awaiting" => sock[s].pid = NoId

(* A pause has its connection still, or its goodbye behind it.             *)
PausesHeld ==
  \A i \in Ids, k \in 0 .. Len(queue) :
    PausedFrom(i, k) => (\E r \in Sockets : OpenFor(i, r)) \/ GoodbyeBehind(i, k)

(* The pause of a player attached to a visible tab is another one's, or    *)
(* its end is behind it.                                                   *)
Shows(i, s) == AttachedTo(i, s) /\ ~hidden[s] /\ OpenFor(i, s)

PausesShown ==
  \A i \in Ids, s \in Sockets, k \in 0 .. Len(queue) :
    PausedFrom(i, k) /\ Shows(i, s) =>
      \/ \E r \in Sockets \ {s} : OpenFor(i, r)
      \/ GoodbyeBehind(i, k) \/ ResumeBehind(i, k)

PauseInv == again = {} => FirstLogins /\ PausesHeld /\ PausesShown

(* What is behind a place stays there when a command is pushed.            *)
LEMMA PushedBehind ==
  ASSUME TypeOK, NEW c \in Commands, Push(c), paused' = paused
  PROVE  /\ Len(queue) \in Nat /\ Len(queue') = Len(queue) + 1 /\ queue'[Len(queue')] = c
         /\ \A i \in Ids, k \in 0 .. Len(queue) :
              /\ PausedFrom(i, k)' => PausedFrom(i, k)
              /\ GoodbyeBehind(i, k) => GoodbyeBehind(i, k)'
              /\ ResumeBehind(i, k) => ResumeBehind(i, k)'
         /\ \A i \in Ids, k \in 0 .. Len(queue') : PausedFrom(i, k)' =>
              \/ k \in 0 .. Len(queue)
              \/ k = Len(queue) + 1 /\ c = [t |-> "message", pid |-> i, body |-> "view-pause"]
<1>1. /\ Len(queue') = Len(queue) + 1 /\ Len(queue) \in Nat
      /\ \A j \in 1 .. Len(queue) : queue'[j] = queue[j]
      /\ queue'[Len(queue')] = c
  <2>1. queue \in Seq(Commands)
    BY DEF TypeOK
  <2> QED BY <2>1, Pushed
<1>2. ASSUME NEW i \in Ids, NEW k \in 0 .. Len(queue)
      PROVE  /\ PausedFrom(i, k)' => PausedFrom(i, k)
             /\ GoodbyeBehind(i, k) => GoodbyeBehind(i, k)'
             /\ ResumeBehind(i, k) => ResumeBehind(i, k)'
  <2>1. PausedFrom(i, k)' => PausedFrom(i, k)
    BY <1>1 DEF PausedFrom
  <2>2. GoodbyeBehind(i, k) => GoodbyeBehind(i, k)'
    BY <1>1 DEF GoodbyeBehind
  <2>3. ResumeBehind(i, k) => ResumeBehind(i, k)'
    BY <1>1 DEF ResumeBehind
  <2> QED BY <2>1, <2>2, <2>3
<1>3. ASSUME NEW i \in Ids, NEW k \in 0 .. Len(queue'), PausedFrom(i, k)', k \notin 0 .. Len(queue)
      PROVE  k = Len(queue) + 1 /\ c = [t |-> "message", pid |-> i, body |-> "view-pause"]
  <2>1. k = Len(queue') /\ k = Len(queue) + 1 /\ k # 0
    BY <1>1, <1>3
  <2>2. queue'[k] = [t |-> "message", pid |-> i, body |-> "view-pause"]
    BY <1>3, <2>1 DEF PausedFrom
  <2> QED BY <1>1, <2>1, <2>2
<1> QED BY <1>1, <1>2, <1>3

(* A step that pushes nothing.                                             *)
LEMMA SameBehind ==
  ASSUME queue' = queue, paused' = paused
  PROVE  \A i, k : /\ PausedFrom(i, k)' <=> PausedFrom(i, k)
                   /\ GoodbyeBehind(i, k)' <=> GoodbyeBehind(i, k)
                   /\ ResumeBehind(i, k)' <=> ResumeBehind(i, k)
BY DEF PausedFrom, GoodbyeBehind, ResumeBehind

LEMMA SendAuthPauses ==
  ASSUME IInv, PauseInv, again' = {}, NEW s \in Sockets, NEW kind \in {"register", "login"},
         NEW n \in Names, SendAuth(s, kind, n)
  PROVE  FirstLogins' /\ PausesHeld' /\ PausesShown'
<1> DEFINE c == [t |-> "auth", s |-> s, kind |-> kind, name |-> n]
<1>0. TypeOK /\ c \in Commands /\ Push(c)
  BY DEF IInv, SendAuth, Commands
<1>1. /\ sock[s].at = "open" /\ sock' = [sock EXCEPT ![s].at = "awaiting"]
      /\ players' = players /\ paused' = paused /\ hidden' = hidden
      /\ again = {} /\ sock[s].pid = NoId
  BY DEF SendAuth, World
<1>2. FirstLogins /\ PausesHeld /\ PausesShown
  BY <1>1 DEF PauseInv
<1>3. sock \in [Sockets -> Loops]
  BY <1>0, MovedLoop
<1>4. \A r \in Sockets : /\ sock'[r].pid = sock[r].pid
                         /\ sock'[r].at = "closed" <=> sock[r].at = "closed"
                         /\ sock'[r].at = "awaiting" => r = s \/ sock[r].at = "awaiting"
  BY <1>1, <1>3 DEF Loops
<1>5. FirstLogins'
  BY <1>1, <1>2, <1>4 DEF FirstLogins
<1>6. \A i \in Ids, r \in Sockets : (OpenFor(i, r)' <=> OpenFor(i, r)) /\ (Shows(i, r)' <=> Shows(i, r))
  BY <1>1, <1>4 DEF OpenFor, Shows, AttachedTo
<1>7. /\ Len(queue) \in Nat /\ Len(queue') = Len(queue) + 1
      /\ \A i \in Ids, k \in 0 .. Len(queue) :
           /\ PausedFrom(i, k)' => PausedFrom(i, k)
           /\ GoodbyeBehind(i, k) => GoodbyeBehind(i, k)'
           /\ ResumeBehind(i, k) => ResumeBehind(i, k)'
  BY <1>0, <1>1, PushedBehind
<1>8. \A i \in Ids, k \in 0 .. Len(queue') : PausedFrom(i, k)' => k \in 0 .. Len(queue)
  <2>1. \A i : c # [t |-> "message", pid |-> i, body |-> "view-pause"]
    OBVIOUS
  <2> QED BY <1>0, <1>1, <2>1, PushedBehind
<1>9. PausesHeld'
  BY <1>2, <1>6, <1>7, <1>8 DEF PausesHeld
<1>10. PausesShown'
  BY <1>2, <1>6, <1>7, <1>8 DEF PausesShown
<1> QED BY <1>5, <1>9, <1>10

(* A page that takes in its first answer takes over no pause that has not  *)
(* another connection or its goodbye.                                      *)
LEMMA ReceiveReplyPauses ==
  ASSUME IInv, PauseInv, again' = {}, NEW s \in Sockets, ReceiveReply(s)
  PROVE  FirstLogins' /\ PausesHeld' /\ PausesShown'
<1>1. /\ TypeOK /\ sock[s].at = "awaiting" /\ again = {}
      /\ queue' = queue /\ players' = players /\ paused' = paused /\ hidden' = hidden
      /\ sock' = [sock EXCEPT ![s] =
                   IF reply[s] = Refused THEN [@ EXCEPT !.at = "open"]
                   ELSE [at |-> "open", pid |-> reply[s].pid, gen |-> reply[s].gen]]
  BY DEF IInv, ReceiveReply, World
<1>2. FirstLogins /\ PausesHeld /\ PausesShown
  BY <1>1 DEF PauseInv
<1>3. sock \in [Sockets -> Loops]
  BY <1>1, MovedLoop
<1>4. sock[s].pid = NoId /\ \A r \in Sockets : r # s => sock'[r] = sock[r]
  BY <1>1, <1>2, <1>3 DEF FirstLogins
<1>5. sock'[s].at = "open"
  BY <1>1, <1>3 DEF Loops
<1>6. FirstLogins'
  BY <1>2, <1>4, <1>5 DEF FirstLogins
<1>7. NoId \notin Ids
  BY SessionAssumption DEF NoId, Ids
<1>8. \A i \in Ids, r \in Sockets : OpenFor(i, r) => r # s /\ OpenFor(i, r)'
  BY <1>4, <1>7 DEF OpenFor
<1>9. \A i, k : /\ PausedFrom(i, k)' <=> PausedFrom(i, k)
                /\ GoodbyeBehind(i, k)' <=> GoodbyeBehind(i, k)
                /\ ResumeBehind(i, k)' <=> ResumeBehind(i, k)
  BY <1>1, SameBehind
<1>10. PausesHeld'
  BY <1>1, <1>2, <1>8, <1>9 DEF PausesHeld
<1>11. PausesShown'
  <2> SUFFICES ASSUME NEW i \in Ids, NEW r \in Sockets, NEW k \in 0 .. Len(queue),
                      PausedFrom(i, k), Shows(i, r)'
               PROVE  \/ \E q \in Sockets \ {r} : OpenFor(i, q)'
                      \/ GoodbyeBehind(i, k) \/ ResumeBehind(i, k)
    BY <1>1, <1>9 DEF PausesShown
  <2>1. CASE r = s
    BY <1>2, <1>8, <2>1 DEF PausesHeld
  <2>2. CASE r # s
    <3>1. Shows(i, r)
      BY <1>1, <1>4, <2>2 DEF Shows, AttachedTo, OpenFor
    <3> QED BY <1>2, <1>8, <3>1 DEF PausesShown
  <2> QED BY <2>1, <2>2
<1> QED BY <1>6, <1>10, <1>11

(* A tab that is hidden pauses its player as long as it is open; one that  *)
(* is shown again has queued the end of its own pause.                     *)
LEMMA TogglePauses ==
  ASSUME IInv, PauseInv, again' = {}, NEW s \in Sockets, Toggle(s)
  PROVE  FirstLogins' /\ PausesHeld' /\ PausesShown'
<1>1. /\ TypeOK /\ sock' = sock /\ players' = players /\ paused' = paused /\ again = {}
      /\ hidden' = [hidden EXCEPT ![s] = ~@] /\ sock[s].at # "closed"
      /\ hidden \in [Sockets -> BOOLEAN]
  BY DEF IInv, Toggle, World, TypeOK
<1>2. FirstLogins /\ PausesHeld /\ PausesShown
  BY <1>1 DEF PauseInv
<1>3. FirstLogins'
  BY <1>1, <1>2 DEF FirstLogins
<1>4. \A i \in Ids, r \in Sockets : OpenFor(i, r)' <=> OpenFor(i, r)
  BY <1>1 DEF OpenFor
<1>5. \A i \in Ids, r \in Sockets : r # s => (Shows(i, r)' <=> Shows(i, r))
  BY <1>1, <1>4 DEF Shows, AttachedTo
<1>6. NoId \notin Ids
  BY SessionAssumption DEF NoId, Ids
<1>7. CASE ~(sock[s].at = "open" /\ sock[s].pid # NoId)
  <2>1. queue' = queue
    BY <1>7 DEF Toggle
  <2>2. sock[s].pid = NoId
    BY <1>1, <1>2, <1>7 DEF FirstLogins, TypeOK
  <2>3. \A i \in Ids : ~OpenFor(i, s)
    BY <1>6, <2>2 DEF OpenFor
  <2>4. \A i \in Ids, r \in Sockets : Shows(i, r)' => r # s /\ Shows(i, r)
    BY <1>4, <1>5, <2>3 DEF Shows
  <2>5. \A i, k : /\ PausedFrom(i, k)' <=> PausedFrom(i, k)
                  /\ GoodbyeBehind(i, k)' <=> GoodbyeBehind(i, k)
                  /\ ResumeBehind(i, k)' <=> ResumeBehind(i, k)
    BY <1>1, <2>1, SameBehind
  <2>6. PausesHeld'
    BY <1>2, <1>4, <2>1, <2>5 DEF PausesHeld
  <2>7. PausesShown'
    BY <1>2, <1>4, <2>1, <2>4, <2>5 DEF PausesShown
  <2> QED BY <1>3, <2>6, <2>7
<1>8. CASE sock[s].at = "open" /\ sock[s].pid # NoId
  <2>0. PICK p, body : p = sock[s].pid /\ body = IF hidden[s] THEN "view-resume" ELSE "view-pause"
    OBVIOUS
  <2>1. PICK c : c = [t |-> "message", pid |-> p, body |-> body]
    OBVIOUS
  <2>2. p \in Ids /\ c \in Commands /\ Push(c)
    <3>1. p \in Ids
      BY <1>1, <1>8, <2>0 DEF TypeOK
    <3>2. c \in Commands
      BY <2>0, <2>1, <3>1 DEF Commands
    <3> QED BY <1>8, <2>0, <2>1, <3>1, <3>2 DEF Toggle
  <2>3. /\ Len(queue) \in Nat /\ Len(queue') = Len(queue) + 1 /\ queue'[Len(queue')] = c
        /\ \A i \in Ids, k \in 0 .. Len(queue) :
             /\ PausedFrom(i, k)' => PausedFrom(i, k)
             /\ GoodbyeBehind(i, k) => GoodbyeBehind(i, k)'
             /\ ResumeBehind(i, k) => ResumeBehind(i, k)'
        /\ \A i \in Ids, k \in 0 .. Len(queue') : PausedFrom(i, k)' =>
             \/ k \in 0 .. Len(queue)
             \/ k = Len(queue) + 1 /\ c = [t |-> "message", pid |-> i, body |-> "view-pause"]
    BY <1>1, <2>2, PushedBehind
  <2>4. OpenFor(p, s)
    BY <1>1, <2>0 DEF OpenFor
  <2>5. ASSUME NEW i \in Ids, NEW k \in 0 .. Len(queue'), PausedFrom(i, k)'
        PROVE  \/ k \in 0 .. Len(queue) /\ PausedFrom(i, k)
               \/ i = p /\ ~hidden[s]
    <3>1. CASE k \in 0 .. Len(queue)
      BY <2>3, <2>5, <3>1
    <3>2. CASE c = [t |-> "message", pid |-> i, body |-> "view-pause"]
      <4>1. c.pid = i /\ c.body = "view-pause"
        BY <3>2
      <4> QED BY <2>0, <2>1, <4>1
    <3> QED BY <2>3, <2>5, <3>1, <3>2
  <2>6. PausesHeld'
    BY <1>2, <1>4, <2>3, <2>4, <2>5 DEF PausesHeld
  <2>7. PausesShown'
    <3> SUFFICES ASSUME NEW i \in Ids, NEW r \in Sockets, NEW k \in 0 .. Len(queue'),
                        PausedFrom(i, k)', Shows(i, r)'
                 PROVE  \/ \E q \in Sockets \ {r} : OpenFor(i, q)'
                        \/ GoodbyeBehind(i, k)' \/ ResumeBehind(i, k)'
      BY DEF PausesShown
    <3>1. CASE r # s
      <4>1. CASE k \in 0 .. Len(queue) /\ PausedFrom(i, k)
        BY <1>2, <1>4, <1>5, <2>3, <3>1, <4>1 DEF PausesShown
      <4>2. CASE i = p
        BY <1>4, <2>4, <3>1, <4>2
      <4> QED BY <2>5, <4>1, <4>2
    <3>2. CASE r = s
      <4>1. hidden[s] /\ i = p
        <5>1. ~hidden'[s] /\ sock[s].pid = i
          BY <1>1, <3>2 DEF Shows, OpenFor
        <5> QED BY <1>1, <2>0, <5>1
      <4>2. k \in 0 .. Len(queue)
        BY <2>5, <4>1
      <4>3. queue'[Len(queue')] = [t |-> "message", pid |-> i, body |-> "view-resume"]
        BY <2>0, <2>1, <2>3, <4>1
      <4>4. ResumeBehind(i, k)'
        BY <2>3, <4>2, <4>3 DEF ResumeBehind
      <4> QED BY <4>4
    <3> QED BY <3>1, <3>2
  <2> QED BY <1>3, <2>6, <2>7
<1> QED BY <1>7, <1>8

(* A connection that closes leaves its goodbye behind every pause.         *)
LEMMA ClosePauses ==
  ASSUME IInv, PauseInv, again' = {}, NEW s \in Sockets, Close(s)
  PROVE  FirstLogins' /\ PausesHeld' /\ PausesShown'
<1>1. /\ TypeOK /\ players' = players /\ paused' = paused /\ hidden' = hidden /\ again = {}
      /\ sock' = [sock EXCEPT ![s].at = "closed"] /\ sock[s].at = "open"
  BY DEF IInv, Close, World
<1>2. FirstLogins /\ PausesHeld /\ PausesShown
  BY <1>1 DEF PauseInv
<1>3. sock \in [Sockets -> Loops]
  BY <1>1, MovedLoop
<1>4. /\ \A r \in Sockets : r # s => sock'[r] = sock[r]
      /\ sock'[s].at = "closed" /\ sock'[s].pid = sock[s].pid
  BY <1>1, <1>3 DEF Loops
<1>5. FirstLogins'
  BY <1>2, <1>4 DEF FirstLogins
<1>6. NoId \notin Ids
  BY SessionAssumption DEF NoId, Ids
<1>7. \A i \in Ids, r \in Sockets : Shows(i, r)' => r # s /\ Shows(i, r)
  BY <1>1, <1>4 DEF Shows, AttachedTo, OpenFor
<1>8. \A i \in Ids, r \in Sockets : OpenFor(i, r) => OpenFor(i, r)' \/ (r = s /\ i = sock[s].pid)
  BY <1>4 DEF OpenFor
<1>9. CASE sock[s].pid = NoId
  <2>1. queue' = queue
    BY <1>9 DEF Close
  <2>2. \A i, k : /\ PausedFrom(i, k)' <=> PausedFrom(i, k)
                  /\ GoodbyeBehind(i, k)' <=> GoodbyeBehind(i, k)
                  /\ ResumeBehind(i, k)' <=> ResumeBehind(i, k)
    BY <1>1, <2>1, SameBehind
  <2>3. \A i \in Ids, r \in Sockets : OpenFor(i, r) => OpenFor(i, r)'
    BY <1>6, <1>8, <1>9
  <2>4. PausesHeld'
    BY <1>2, <2>1, <2>2, <2>3 DEF PausesHeld
  <2>5. PausesShown'
    BY <1>2, <1>7, <2>1, <2>2, <2>3 DEF PausesShown
  <2> QED BY <1>5, <2>4, <2>5
<1>10. CASE sock[s].pid # NoId
  <2>1. PICK c : c = [t |-> "disconnect", pid |-> sock[s].pid, gen |-> sock[s].gen]
    OBVIOUS
  <2>2. c \in Commands /\ Push(c)
    <3>1. sock[s] \in Loops
      BY <1>3
    <3>2. sock[s].pid \in Ids /\ sock[s].gen \in 0 .. MaxAuths
      BY <1>10, <3>1 DEF Loops
    <3> QED BY <1>10, <2>1, <3>2 DEF Close, Commands
  <2>3. /\ Len(queue) \in Nat /\ Len(queue') = Len(queue) + 1 /\ queue'[Len(queue')] = c
        /\ \A i \in Ids, k \in 0 .. Len(queue) :
             /\ PausedFrom(i, k)' => PausedFrom(i, k)
             /\ GoodbyeBehind(i, k) => GoodbyeBehind(i, k)'
             /\ ResumeBehind(i, k) => ResumeBehind(i, k)'
    BY <1>1, <2>2, PushedBehind
  <2>4. \A i \in Ids, k \in 0 .. Len(queue') : PausedFrom(i, k)' => k \in 0 .. Len(queue)
    <3>1. \A i : c # [t |-> "message", pid |-> i, body |-> "view-pause"]
      BY <2>1
    <3> QED BY <1>1, <2>2, <3>1, PushedBehind
  <2>5. \A k \in 0 .. Len(queue) : GoodbyeBehind(sock[s].pid, k)'
    <3>1. ASSUME NEW k \in 0 .. Len(queue)
          PROVE  \E j \in 1 .. Len(queue') :
                   j > k /\ queue'[j].t = "disconnect" /\ queue'[j].pid = sock[s].pid
      <4>1. Len(queue') \in 1 .. Len(queue') /\ Len(queue') > k
        BY <2>3
      <4>2. c.t = "disconnect" /\ c.pid = sock[s].pid
        BY <2>1
      <4> QED BY <2>3, <4>1, <4>2
    <3> QED BY <1>4, <3>1 DEF GoodbyeBehind
  <2>6. PausesHeld'
    <3> SUFFICES ASSUME NEW i \in Ids, NEW k \in 0 .. Len(queue), PausedFrom(i, k)'
                 PROVE  (\E r \in Sockets : OpenFor(i, r)') \/ GoodbyeBehind(i, k)'
      BY <2>4 DEF PausesHeld
    <3>1. (\E r \in Sockets : OpenFor(i, r)) \/ GoodbyeBehind(i, k)
      BY <1>2, <2>3 DEF PausesHeld
    <3>2. CASE \E r \in Sockets : OpenFor(i, r)
      <4>1. PICK r \in Sockets : OpenFor(i, r)
        BY <3>2
      <4>2. OpenFor(i, r)' \/ i = sock[s].pid
        BY <1>8, <4>1
      <4>3. ASSUME i = sock[s].pid PROVE GoodbyeBehind(i, k)'
        BY <1>4, <2>5, <4>3 DEF GoodbyeBehind
      <4> QED BY <4>2, <4>3
    <3>3. CASE GoodbyeBehind(i, k)
      BY <2>3, <3>3
    <3> QED BY <3>1, <3>2, <3>3
  <2>7. PausesShown'
    <3> SUFFICES ASSUME NEW i \in Ids, NEW r \in Sockets, NEW k \in 0 .. Len(queue),
                        PausedFrom(i, k)', Shows(i, r)'
                 PROVE  \/ \E q \in Sockets \ {r} : OpenFor(i, q)'
                        \/ GoodbyeBehind(i, k)' \/ ResumeBehind(i, k)'
      BY <2>4 DEF PausesShown
    <3>1. PausedFrom(i, k) /\ Shows(i, r)
      BY <1>7, <2>3
    <3>2. CASE \E q \in Sockets \ {r} : OpenFor(i, q)
      <4>1. PICK q \in Sockets \ {r} : OpenFor(i, q)
        BY <3>2
      <4>2. OpenFor(i, q)' \/ i = sock[s].pid
        BY <1>8, <4>1
      <4>3. ASSUME i = sock[s].pid PROVE GoodbyeBehind(i, k)'
        BY <1>4, <2>5, <4>3 DEF GoodbyeBehind
      <4> QED BY <4>2, <4>3
    <3>3. CASE GoodbyeBehind(i, k) \/ ResumeBehind(i, k)
      BY <2>3, <3>3
    <3> QED BY <1>2, <3>1, <3>2, <3>3 DEF PausesShown
  <2> QED BY <1>5, <2>6, <2>7
<1> QED BY <1>9, <1>10

(* When the first command is handled, what was behind a place stays behind *)
(* it, that command excepted.                                              *)
LEMMA PoppedBehind ==
  ASSUME TypeOK, queue # <<>>, queue' = Tail(queue)
  PROVE  \A i \in Ids, k \in 0 .. Len(queue') :
           /\ k > 0 /\ PausedFrom(i, k)' => PausedFrom(i, k + 1)
           /\ k + 1 \in 0 .. Len(queue)
           /\ GoodbyeBehind(i, k + 1) => GoodbyeBehind(i, k)'
           /\ ResumeBehind(i, k + 1) => ResumeBehind(i, k)'
<1>1. /\ Len(queue) \in Nat \ {0} /\ Len(queue') = Len(queue) - 1
      /\ \A j \in 1 .. Len(queue') : queue'[j] = queue[j + 1]
  BY Popped DEF TypeOK
<1> SUFFICES ASSUME NEW i \in Ids, NEW k \in 0 .. Len(queue')
             PROVE  /\ k > 0 /\ PausedFrom(i, k)' => PausedFrom(i, k + 1)
                    /\ k + 1 \in 0 .. Len(queue)
                    /\ GoodbyeBehind(i, k + 1) => GoodbyeBehind(i, k)'
                    /\ ResumeBehind(i, k + 1) => ResumeBehind(i, k)'
  OBVIOUS
<1>2. k > 0 /\ PausedFrom(i, k)' => PausedFrom(i, k + 1)
  BY <1>1 DEF PausedFrom
<1>3. \A j \in 1 .. Len(queue) : j > k + 1 => j - 1 \in 1 .. Len(queue') /\ queue'[j - 1] = queue[j] /\ j - 1 > k
  BY <1>1
<1>4. GoodbyeBehind(i, k + 1) => GoodbyeBehind(i, k)'
  BY <1>3 DEF GoodbyeBehind
<1>5. ResumeBehind(i, k + 1) => ResumeBehind(i, k)'
  BY <1>3 DEF ResumeBehind
<1> QED BY <1>1, <1>2, <1>4, <1>5

(* A handled command that shows no player and ends the pause of whoever    *)
(* its end was for.                                                        *)
LEMMA HandledPauses ==
  ASSUME TypeOK, FirstLogins, PausesHeld, PausesShown,
         queue # <<>>, queue' = Tail(queue), sock' = sock,
         \A i \in Ids, s \in Sockets : Shows(i, s)' => Shows(i, s),
         \A i \in Ids : i \in paused' =>
           \/ PausedFrom(i, 1)
           \/ /\ i \in paused
              /\ ~(queue[1].t = "disconnect" /\ queue[1].pid = i)
              /\ queue[1] = [t |-> "message", pid |-> i, body |-> "view-resume"]
                   => \A s \in Sockets : ~Shows(i, s)'
  PROVE  FirstLogins' /\ PausesHeld' /\ PausesShown'
<1>1. /\ Len(queue) \in Nat \ {0} /\ Len(queue') = Len(queue) - 1
      /\ \A j \in 1 .. Len(queue') : queue'[j] = queue[j + 1]
  BY Popped DEF TypeOK
<1>2. FirstLogins'
  BY DEF FirstLogins
<1>3. \A i \in Ids, r \in Sockets : OpenFor(i, r)' <=> OpenFor(i, r)
  BY DEF OpenFor
<1>4. \A j \in 1 .. Len(queue) : j # 1 => j - 1 \in 1 .. Len(queue') /\ queue'[j - 1] = queue[j] /\ j - 1 > 0
  BY <1>1
<1>5. ASSUME NEW i \in Ids, ~(queue[1].t = "disconnect" /\ queue[1].pid = i), GoodbyeBehind(i, 0)
      PROVE  GoodbyeBehind(i, 0)'
  BY <1>4, <1>5 DEF GoodbyeBehind
<1>6. ASSUME NEW i \in Ids, ResumeBehind(i, 0),
             queue[1] # [t |-> "message", pid |-> i, body |-> "view-resume"]
      PROVE  ResumeBehind(i, 0)'
  BY <1>4, <1>6 DEF ResumeBehind
<1>7. \A i \in Ids, k \in 0 .. Len(queue') :
        /\ k > 0 /\ PausedFrom(i, k)' => PausedFrom(i, k + 1)
        /\ k + 1 \in 0 .. Len(queue)
        /\ GoodbyeBehind(i, k + 1) => GoodbyeBehind(i, k)'
        /\ ResumeBehind(i, k + 1) => ResumeBehind(i, k)'
  BY PoppedBehind
<1>8. 0 \in 0 .. Len(queue) /\ 0 \in 0 .. Len(queue') /\ 0 + 1 = 1
  BY <1>1
(* The pause at a place was at the next one, or is the one there already.  *)
<1>9. ASSUME NEW i \in Ids, NEW k \in 0 .. Len(queue'), PausedFrom(i, k)'
      PROVE  \/ PausedFrom(i, k + 1)
             \/ /\ k = 0 /\ PausedFrom(i, 0)
                /\ ~(queue[1].t = "disconnect" /\ queue[1].pid = i)
                /\ queue[1] = [t |-> "message", pid |-> i, body |-> "view-resume"]
                     => \A s \in Sockets : ~Shows(i, s)'
  <2>1. CASE k > 0
    BY <1>7, <1>9, <2>1
  <2>2. CASE k = 0
    BY <1>8, <1>9, <2>2 DEF PausedFrom
  <2> QED BY <2>1, <2>2
<1>10. PausesHeld'
  <2> SUFFICES ASSUME NEW i \in Ids, NEW k \in 0 .. Len(queue'), PausedFrom(i, k)'
               PROVE  (\E r \in Sockets : OpenFor(i, r)) \/ GoodbyeBehind(i, k)'
    BY <1>3 DEF PausesHeld
  <2>1. CASE PausedFrom(i, k + 1)
    BY <1>7, <2>1 DEF PausesHeld
  <2>2. CASE ~PausedFrom(i, k + 1)
    BY <1>5, <1>8, <1>9, <2>2 DEF PausesHeld
  <2> QED BY <2>1, <2>2
<1>11. PausesShown'
  <2> SUFFICES ASSUME NEW i \in Ids, NEW s \in Sockets, NEW k \in 0 .. Len(queue'),
                      PausedFrom(i, k)', Shows(i, s)'
               PROVE  \/ \E r \in Sockets \ {s} : OpenFor(i, r)
                      \/ GoodbyeBehind(i, k)' \/ ResumeBehind(i, k)'
    BY <1>3 DEF PausesShown
  <2>0. Shows(i, s)
    OBVIOUS
  <2>1. CASE PausedFrom(i, k + 1)
    BY <1>7, <2>0, <2>1 DEF PausesShown
  <2>2. CASE ~PausedFrom(i, k + 1)
    BY <1>5, <1>6, <1>8, <1>9, <2>0, <2>2 DEF PausesShown
  <2> QED BY <2>1, <2>2
<1> QED BY <1>2, <1>10, <1>11

(* A message pauses or resumes, or is dropped: then nobody is attached.    *)
LEMMA MessagePauses ==
  ASSUME IInv, FirstLogins, PausesHeld, PausesShown,
         queue # <<>>, queue' = Tail(queue), UNCHANGED <<sock, hidden>>,
         HandleMessage(Head(queue))
  PROVE  FirstLogins' /\ PausesHeld' /\ PausesShown'
<1>1. PICK c \in Commands : c = Head(queue) /\ c = queue[1]
  BY Popped DEF IInv, TypeOK
<1>2. TypeOK /\ c.t = "message" /\ c.pid \in Ids /\ players' = players /\ hidden' = hidden /\ sock' = sock
  BY <1>1, CommandKinds DEF IInv, HandleMessage
<1>3. c = [t |-> "message", pid |-> c.pid, body |-> c.body]
  BY <1>2 DEF Commands
<1>4. paused' = IF players[c.pid] = NoPlayer \/ players[c.pid].tx = NoSocket THEN paused
                ELSE IF c.body = "view-pause" THEN paused \cup {c.pid}
                ELSE paused \ {c.pid}
  BY <1>1 DEF HandleMessage
<1>5. \A i \in Ids, s \in Sockets : Shows(i, s)' => Shows(i, s)
  BY <1>2 DEF Shows, AttachedTo, OpenFor
<1>6. ASSUME NEW i \in Ids, i \in paused', ~PausedFrom(i, 1)
      PROVE  /\ i \in paused
             /\ ~(queue[1].t = "disconnect" /\ queue[1].pid = i)
             /\ queue[1] = [t |-> "message", pid |-> i, body |-> "view-resume"]
                  => \A s \in Sockets : ~Shows(i, s)'
  <2>1. ~(i = c.pid /\ c.body = "view-pause")
    BY <1>1, <1>3, <1>6 DEF PausedFrom
  <2>2. i \in paused
    BY <1>4, <1>6, <2>1
  <2>3. ASSUME c = [t |-> "message", pid |-> i, body |-> "view-resume"], NEW s \in Sockets
        PROVE  ~AttachedTo(i, s)
    <3>1. c.pid = i /\ c.body # "view-pause"
      BY <2>3
    <3>2. players[i] = NoPlayer \/ players[i].tx = NoSocket
      BY <1>4, <1>6, <3>1
    <3> QED BY <3>2, SessionAssumption DEF AttachedTo
  <2> QED BY <1>1, <1>2, <1>5, <2>2, <2>3 DEF Shows
<1> QED BY <1>2, <1>5, <1>6, HandledPauses

(* A goodbye ends the pause, whoever says it.                              *)
LEMMA DisconnectPauses ==
  ASSUME IInv, FirstLogins, PausesHeld, PausesShown,
         queue # <<>>, queue' = Tail(queue), UNCHANGED <<sock, hidden>>,
         HandleDisconnect(Head(queue))
  PROVE  FirstLogins' /\ PausesHeld' /\ PausesShown'
<1>1. PICK c \in Commands : c = Head(queue) /\ c = queue[1]
  BY Popped DEF IInv, TypeOK
<1>2. /\ TypeOK /\ c.t = "disconnect" /\ c.pid \in Ids /\ hidden' = hidden /\ sock' = sock
      /\ paused' = paused \ {c.pid}
      /\ players' = IF players[c.pid] # NoPlayer /\ players[c.pid].gen = c.gen
                    THEN [players EXCEPT ![c.pid].tx = NoSocket, ![c.pid].away = TRUE]
                    ELSE players
  BY <1>1, CommandKinds DEF IInv, HandleDisconnect
<1>3. ASSUME NEW i \in Ids, NEW s \in Sockets, AttachedTo(i, s)'
      PROVE  AttachedTo(i, s)
  <2>1. players'[i] # NoPlayer /\ players'[i].tx = s
    BY <1>3 DEF AttachedTo
  <2>2. players' = players \/ (players[c.pid] # NoPlayer /\
          players' = [players EXCEPT ![c.pid].tx = NoSocket, ![c.pid].away = TRUE])
    BY <1>2
  <2>3. CASE players' = players
    BY <2>1, <2>3 DEF AttachedTo
  <2>4. CASE /\ players[c.pid] # NoPlayer
             /\ players' = [players EXCEPT ![c.pid].tx = NoSocket, ![c.pid].away = TRUE]
    <3>1. players \in [Ids -> {NoPlayer} \cup Player] /\ players[c.pid] \in Player
      BY <1>2, <2>4 DEF TypeOK
    <3>2. CASE i = c.pid
      <4>1. players'[i] = [players[i] EXCEPT !.tx = NoSocket, !.away = TRUE]
        BY <1>2, <2>4, <3>1, <3>2
      <4>2. players'[i].tx = NoSocket
        BY <3>1, <3>2, <4>1 DEF Player
      <4> QED BY <2>1, <4>2, SessionAssumption
    <3>3. CASE i # c.pid
      BY <1>2, <2>1, <2>4, <3>1, <3>3 DEF AttachedTo
    <3> QED BY <3>2, <3>3
  <2> QED BY <2>2, <2>3, <2>4
<1>4. \A i \in Ids, s \in Sockets : Shows(i, s)' => Shows(i, s)
  BY <1>2, <1>3 DEF Shows, OpenFor
<1>5. ASSUME NEW i \in Ids, i \in paused'
      PROVE  /\ i \in paused
             /\ ~(queue[1].t = "disconnect" /\ queue[1].pid = i)
             /\ queue[1] # [t |-> "message", pid |-> i, body |-> "view-resume"]
  BY <1>1, <1>2, <1>5
<1> QED BY <1>2, <1>4, <1>5, HandledPauses

(* A login that is answered attaches a page without a player.              *)
LEMMA AuthPauses ==
  ASSUME IInv, FirstLogins, PausesHeld, PausesShown,
         queue # <<>>, queue' = Tail(queue), UNCHANGED <<sock, hidden>>,
         HandleAuth(Head(queue))
  PROVE  FirstLogins' /\ PausesHeld' /\ PausesShown'
<1>1. PICK c \in Commands : c = Head(queue) /\ c = queue[1] /\ 1 \in 1 .. Len(queue)
  BY PoppedTyped DEF IInv
<1>2. /\ TypeOK /\ c.t = "auth" /\ c.s \in Sockets /\ hidden' = hidden /\ sock' = sock
      /\ paused' = paused
  BY <1>1, CommandKinds DEF IInv, HandleAuth
<1>3. sock[c.s].pid = NoId
  <2>1. c.s \in Waiting
    BY <1>1, <1>2 DEF IInv, LoginsAwaited
  <2> QED BY <1>2, <2>1 DEF Waiting, FirstLogins
<1>4. NoId \notin Ids
  BY SessionAssumption DEF NoId, Ids
<1>5. players' = players \/ \E id : players' = [players EXCEPT ![id] = Attached(id, c.name, c.s)]
  BY <1>1 DEF HandleAuth, Register, Login, Refuse, Accept
<1>6. ASSUME NEW i \in Ids, NEW s \in Sockets, Shows(i, s)'
      PROVE  Shows(i, s)
  <2>1. s # c.s /\ AttachedTo(i, s)'
    BY <1>2, <1>3, <1>4, <1>6 DEF Shows, OpenFor
  <2>2. players'[i] # NoPlayer /\ players'[i].tx = s
    BY <2>1 DEF AttachedTo
  <2>3. players'[i] = players[i]
    <3>1. CASE players' = players
      BY <3>1
    <3>2. ASSUME NEW id, players' = [players EXCEPT ![id] = Attached(id, c.name, c.s)]
          PROVE  players'[i] = players[i]
      <4>1. players \in [Ids -> {NoPlayer} \cup Player]
        BY <1>2 DEF TypeOK
      <4>2. CASE id = i
        <5>1. players'[i] = Attached(i, c.name, c.s)
          BY <3>2, <4>1, <4>2
        <5>2. Attached(i, c.name, c.s).tx = c.s
          BY <4>1 DEF Attached, Player
        <5> QED BY <2>1, <2>2, <5>1, <5>2
      <4> QED BY <3>2, <4>1, <4>2
    <3> QED BY <1>5, <3>1, <3>2
  <2> QED BY <1>2, <1>6, <2>2, <2>3 DEF Shows, AttachedTo, OpenFor
<1>7. /\ ~(queue[1].t = "disconnect")
      /\ \A i : queue[1] # [t |-> "message", pid |-> i, body |-> "view-resume"]
  BY <1>1, <1>2
<1> QED BY <1>2, <1>6, <1>7, HandledPauses

(* Every step keeps the pauses right as long as nobody logs in again.      *)
LEMMA NextPauses ==
  ASSUME IInv, PauseInv, [Next]_vars
  PROVE  PauseInv'
<1> SUFFICES ASSUME again' = {} PROVE FirstLogins' /\ PausesHeld' /\ PausesShown'
  BY DEF PauseInv
<1>0. again = {} /\ FirstLogins /\ PausesHeld /\ PausesShown
  BY DEF PauseInv, Next, SendAuth, ReceiveReply, Toggle, Close, Handle, Ban, WipeUsers, vars
<1>1. ASSUME NEW s \in Sockets, NEW k \in {"register", "login"}, NEW n \in Names, SendAuth(s, k, n)
      PROVE  FirstLogins' /\ PausesHeld' /\ PausesShown'
  BY <1>1, SendAuthPauses
<1>2. ASSUME NEW s \in Sockets, ReceiveReply(s)
      PROVE  FirstLogins' /\ PausesHeld' /\ PausesShown'
  BY <1>2, ReceiveReplyPauses
<1>3. ASSUME NEW s \in Sockets, Toggle(s)
      PROVE  FirstLogins' /\ PausesHeld' /\ PausesShown'
  BY <1>3, TogglePauses
<1>4. ASSUME NEW s \in Sockets, Close(s)
      PROVE  FirstLogins' /\ PausesHeld' /\ PausesShown'
  BY <1>4, ClosePauses
<1>5. ASSUME Handle
      PROVE  FirstLogins' /\ PausesHeld' /\ PausesShown'
  BY <1>0, <1>5, MessagePauses, DisconnectPauses, AuthPauses DEF Handle
<1>6. ASSUME UNCHANGED <<queue, paused, sock, hidden>>,
             \A i \in Ids, s \in Sockets : AttachedTo(i, s)' => AttachedTo(i, s)
      PROVE  FirstLogins' /\ PausesHeld' /\ PausesShown'
  <2>1. \A i, k : /\ PausedFrom(i, k)' <=> PausedFrom(i, k)
                  /\ GoodbyeBehind(i, k)' <=> GoodbyeBehind(i, k)
                  /\ ResumeBehind(i, k)' <=> ResumeBehind(i, k)
    BY <1>6, SameBehind
  <2>2. \A i \in Ids, s \in Sockets : (OpenFor(i, s)' <=> OpenFor(i, s)) /\ (Shows(i, s)' => Shows(i, s))
    BY <1>6 DEF OpenFor, Shows
  <2>3. FirstLogins'
    BY <1>0, <1>6 DEF FirstLogins
  <2>4. PausesHeld'
    BY <1>0, <1>6, <2>1, <2>2 DEF PausesHeld
  <2>5. PausesShown'
    BY <1>0, <1>6, <2>1, <2>2 DEF PausesShown
  <2> QED BY <2>3, <2>4, <2>5
<1>7. ASSUME NEW i \in Ids, Ban(i)
      PROVE  FirstLogins' /\ PausesHeld' /\ PausesShown'
  BY <1>6, <1>7 DEF Ban, AttachedTo
<1>8. ASSUME WipeUsers
      PROVE  FirstLogins' /\ PausesHeld' /\ PausesShown'
  BY <1>6, <1>8 DEF WipeUsers, AttachedTo
<1>9. ASSUME UNCHANGED vars
      PROVE  FirstLogins' /\ PausesHeld' /\ PausesShown'
  BY <1>6, <1>9 DEF vars, AttachedTo
<1> QED BY <1>1, <1>2, <1>3, <1>4, <1>5, <1>7, <1>8, <1>9 DEF Next

(* Every pause ends, for any number of connections, accounts, logins and   *)
(* wipes: a player whose tab is shown is paused, once the queue is empty,  *)
(* only by a tab it has replaced that is still open (view-pause and        *)
(* Disconnect in handle_cmd).                                              *)
THEOREM PausesEnd == Spec => []PauseEnds
<1>1. Init => PauseInv
  BY DEF Init, PauseInv, FirstLogins, PausesHeld, PausesShown, PausedFrom
<1>2. IInv /\ PauseInv => PauseEnds
  <2> SUFFICES ASSUME IInv, PauseInv, queue = <<>>, again = {},
                      NEW i \in paused, NEW s \in Sockets, AttachedTo(i, s), ~hidden[s]
               PROVE  \E r \in Sockets \ {s} : OpenFor(i, r)
    BY DEF PauseEnds, OpenFor
  <2>1. PausesHeld /\ PausesShown /\ i \in Ids
    BY DEF PauseInv, IInv, TypeOK
  <2>2. Len(queue) = 0 /\ 0 \in 0 .. Len(queue) /\ PausedFrom(i, 0)
    BY DEF PausedFrom
  <2>3. ~GoodbyeBehind(i, 0) /\ ~ResumeBehind(i, 0)
    BY <2>2 DEF GoodbyeBehind, ResumeBehind
  <2>4. PICK r \in Sockets : OpenFor(i, r)
    BY <2>1, <2>2, <2>3 DEF PausesHeld
  <2>5. CASE r = s
    BY <2>1, <2>2, <2>3, <2>4, <2>5 DEF PausesShown, Shows
  <2>6. CASE r # s
    BY <2>4, <2>6
  <2> QED BY <2>5, <2>6
<1>3. IInv /\ PauseInv /\ [Next]_vars => PauseInv'
  BY NextPauses
<1> QED BY <1>1, <1>2, <1>3, Invariance, PTL DEF Spec
===============================================================================
