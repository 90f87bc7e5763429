# A TLA+ model of HIVE / antarchy

HIVE is a multiplayer game server written in Rust. Players place a queen on a
tiled world and deploy ants that walk by Langton's rule and paint the ground;
one simulation thread advances the world at a fixed rate, and other threads show
it to browsers, copy it to a CDN and save it to disk. This directory holds TLA+
modules for the parts of it whose correctness depends on state kept over many
steps, TLC instances of them, and machine-checked proofs about eight of them.

Run a model with `tlc -config X.cfg MCModule.tla`, the proofs with
`tlapm XProofs.tla`. `PROJECT.json` lists runs, mutants, the map from
definitions to source lines, hazards, findings and theorems.

## 1. Inventory

All threads share one `World` under one `RwLock`. Connections never lock it:
they push commands on a queue that the simulation drains before each tick.

| Component | Where | State | Operations | What makes it correct |
|---|---|---|---|---|
| Tile store | `tile_map.rs` | `chunks` (absent, Uniform, Dense), `palette`, `id_to_idx`, `free_idx`, `counts`, `dirty_chunks` | `get`, `set`, `clear`, `clear_owner`, `compact_pass`, `drain_dirty_chunks`, `mark_all_dirty`, `restore_chunk_owners` | it behaves as a plain grid; no cell holds a recycled index; counts exact |
| Connections and sessions | `server.rs` (`handle_ws_connection`, drain in `sim_loop`), `handlers.rs` | per connection: `player_id`, `conn_gen`, pending reply; `players`, `auth.users`, `paused_views` | register, login, message, disconnect, pause/resume, ban, wipe | a late disconnect hurts nobody; nobody stays attached to a dead connection; each login is answered |
| Viewport pacing | `server.rs` (`viewport_loop`) | `last_*` ticks, leaderboard signature; `dirty_tick`, `tick` of the world | one cycle | cadences kept on the tick counter, no tile update lost |
| Keyframe/delta protocol | `network.rs` (`finish_view`), `server.rs`, `client.html` | server `PrevGrid`, watch slot, frames being decoded, client `clientGrid` | build, send, drop, decode, pause, pan | the page shows a grid the server had, never goes back |
| Snapshot writer | `server.rs` (`snapshot_writer_loop`), `snapshot.rs`, `world.rs` | `dirty_chunks`, `snapshot_retire`, `epoch`, objects in the sink | drain, retire, capture, upload | the sink converges to the world, old seasons are deleted |
| Persistence | `persist.rs`, `auth.rs`, `main.rs`, `server.rs` | `world.snapshot`, its temp file, `users.json`, the detached writer | autosave, wipe save, shutdown save, register, boot | boot finds the newest whole save; accounts survive; ids unique |
| Queens, armies, economy | `simulation.rs`, `handlers.rs`, `config.rs` | `queens`, `players`, `ants`, `ant_counts`, `xp_queue`, `peak_level` | place, buy, admin commands, the 11 phases of a tick, `kill_queen`, season wipe | kills, credits, levels, land and armies stay consistent |
| Ant movement and painting | `simulation.rs` phases 1-5b, 8b, 9, `world.rs` (`queen_map`) | `tiles`, `ants` in Vec order, `queen_map` and its dirty flag, `scratch_pairs` | dedup, sort, plan, nudge, paint, clash, capture, post defenders, collide | an ant does not step onto a queen; it is converted where it meets, caught where it stands, posted off its queen's body |
| Fog of war | `fog.rs`, `network.rs` | none kept | the two passes over a view's padded slice | equals the distance to the nearest own tile of the whole world |
| Placement | `handlers.rs` | none of its own | margins, `too_close_to_queen`, `validate_worker_placement` | guards of the queens' and ants' positions |
| Write-ahead log | `persist.rs` | log file | `append_wal` (called by its test only), `replay_wal` | not modelled, section 7 |
| View serialisation, regions, discovery, config, metrics, HTTP, browser UI | see `PROJECT.json` | none, or none that decides | pure functions, I/O, display | not modelled, section 7 |

Hard behaviours: five threads or tasks around one lock, with state read under it
and used after it (viewport, snapshot writer, detached save); a command queue
that outlives the connections and the accounts that filled it; a wipe that starts
ticks, ids and generations again while others remember the old ones; a
latest-wins channel and a client that decodes asynchronously; file operations a
crash may separate; long sequences of small updates to redundant state (counts,
indices, levels, peaks). `PROJECT.json` lists each hazard at its line.

## 2. Modules

| Module | Models | Built on |
|---|---|---|
| `TileGrid` | what the tile store promises: a function from cells to owners and a set of chunks touched since the last drain | |
| `TileMap` | `tile_map.rs` with palette indices, free list, counts, Uniform/Dense chunks | implements `TileGrid` |
| `Session` | connections, command queue, accounts, players, pauses | |
| `Viewport` | the cadence decisions against tick, skips and wipes | |
| `ViewDelta` | server and page halves of the frame protocol | |
| `Mirror` | what the snapshot writer promises to a reader of the sink: pictures of this season only, each taken after the last | |
| `SnapshotWriter` | the writer thread beside a world that is an instance of `TileGrid` | `TileGrid`; implements `Mirror` |
| `Archive` | what saving promises to the world: a restart goes back to the last copy committed, whole | |
| `Persist` | memory, two files, their writers, crash and boot | implements `Archive` |
| `Colony` | queens, armies and what players earn, without positions | |
| `Field` | where queens and ants stand, walk, paint and meet; the fog of a view | |
| `TileMapProofs`, `SessionProofs`, `ViewportProofs`, `ViewDeltaProofs`, `SnapshotWriterProofs`, `PersistProofs`, `ColonyProofs`, `FieldProofs` | inductive invariants and theorems, for every value of the constants | the module of that name |

`MC*` modules only give constants values that a `.cfg` cannot write, and the
symmetry sets. Definitions keep the names of the source where they can. A
definition whose comment starts with "Mutant" is a plausible bug in the
definition after it; no specification uses it.

**TileMap.** `chunks`, `palette`, `idToIdx`, `freeIdx`, `counts`, `dirty` are the fields of
the struct; a chunk is absent, `Uniform(i)` or `Dense(cells)`; one action for
each public operation. `Recycle` is the code in `dec_count` that frees the index
of an owner that lost its last tile, `FreeWith` the one in `idx_for` that hands
it out again. Indices wrap at `IdxSpace`, as `as Idx` does.

**Session.** A connection sends a command and, for a login, waits; `Handle` drains one
command and is the whole handler (`handle_message`, the reconnection in
`create_or_reconnect_player`, or `Cmd::Disconnect`). `Toggle` is the page telling
that its tab is hidden or shown. `Close` pushes the goodbye of the connection's
last `player_id`. `Ban` is the admin's, `WipeUsers` is `wipe_world_and_users`.
`again` notes a page that logs in a second time.

**Viewport.** `Turn` is one turn of `sim_loop`: messages, perhaps a wipe, and a tick that
may change tiles, ants and standings. `Cycle` is one pass of `viewport_loop` over
whichever tick it finds. `age` counts, in ticks that really passed, what the code
measures by subtraction.

**ViewDelta.** `prev` is the `PrevGrid`, `slot` the watch channel, `wire` the frames the
page is decoding in any order, `grid` its `clientGrid`. `run` numbers the grids
the server has started afresh. Frames and grids remember their run so that the
properties can speak of it; the page does not see it. A grid that took a delta of
another run is of the run `Mixed`. A page that loses its connection keeps its grid, which
`client.html:1980` clears at the next login: the model allows more than the code there.

**SnapshotWriter.** The phases A1, retire, A2 and B are actions of the writer with the
sim's actions between them, as the locks are taken and released. Read as a `Mirror`
(`MirrorsWorld`), `stored` is the current epoch of the sink and `taken` the pictures of
the writer that were captured for it, so a round for an epoch that is over is invisible
and a wipe, which starts an epoch, empties the mirror at once.

**Persist.** The lock's holder goes through the file operations of its save one at a
time; a detached writer does so without the lock, on the same temporary file.
Every file operation may fail (`FailWrite`), every step may be the last before
`Crash`; `Boot` loads what is there. A world in memory or in a file is a time
stamp, the id counter, the players and the starter credits paid; `users.json` holds
ids, peaks and bans. `mishaps` names what has gone wrong, for the exceptions of
the properties. `Rise` is a level-up that pays the starter credit, `Ban` the admin's;
`Rise` leaves out accounts that share a player. The shutdown's guard is a local of a block
that ends before `process::exit` (`main.rs:113-120`), so its save ends like any other, with
the lock free: `flushed` remembers what was saved, the sim and the detached writers may go
on, and `Exit` comes at any later step.
Read as an `Archive` (`ImplementsArchive`), `saved` is what a boot would load now and
`copies` the worlds that the writers at work were handed.

**Colony.** Positions are left out: which ant bites which queen, who is converted or
captured and which queens touch is any choice that the armies allow, at most one
of each per tick and player. A tick is one atomic call in the code; its phases are
steps of the model in the code's order, with no handler between them. Flags
`unlimited_credits` and `unlimited_ants`, discovery and the prestige counter are
left out.

**Field.** The complement of `Colony`: cells, headings, bodies and bubbles, with levels, hp
and pools left out. A handler places, moves, resizes or fells a queen, puts an
ant down, buys a defender, or ends the season; the tick is `Begin` (dedup, sort,
queen map), `Walk` (every ant planned from the same queen map, then nudged and
painted in the order of the Vec), `Clash` over the sorted pairs, `Capture`,
`Guard` and `Collide`. A cell's `Key` is `y * W + x`, also for a cell off the map,
as in the code. `TwoPass` makes both passes of `compute_fog_field_slice` over the
cells of the slice, in raster order and back; `FogExact` compares the result with the octile
distance. The lengths of a straight and a diagonal step are the constants `Unit`
and `Diagonal`, where the code has 1 and `SQRT_2`, and floats that round.

## 3. Runs and bounds

Passing:

- **tilemap**: two chunks of three cells, three owners for three indices and the
  reserved one. Every index is recycled while another owner holds cells of both
  chunks, chunks fill and split in every order. `ImplementsGrid` checks the
  refinement. All owners, cells and chunks are symmetric: the store compares them
  for equality only. No depth bound: the state space is complete.
- **session**: two connections, two names, three logins, one wipe, a queue of two.
  Enough for a reconnect while the old goodbye is queued, for a page that pauses
  and is replaced, and for commands from before a wipe to be handled after it.
- **viewport**: rates scaled down together (a second of 4 ticks, tile frames every
  2, a leaderboard look every 3, heartbeat 4); the thread may miss up to two
  ticks; boot at tick 0 or at a restored tick.
- **viewdelta**: two cells, so that one change makes a delta and two a keyframe;
  one owner, two geometries, four tile frames, two being decoded at once, one
  interruption. Four frames are what it takes for a delta of an earlier run to be
  applied to a grid of a later one.
- **snapshot**: two chunks that share a super-tile and one with its own, three
  changes, a wipe, a restart, calls that fail. `MirrorsWorld` checks the refinement.
- **persist**: two names, one detached writer, three changes of the world, one ban, disks
  that fail at any operation, and one restart, by a crash or a shutdown, between any two
  of them; no behaviour has more than two of the six kinds of mishap (`FewMishaps`), as
  each exception needs one of them only. The theorems hold for any number of restarts; one is what each property needs to be
  broken. `ImplementsArchive` checks the refinement: copies mix when the detached writer
  meets the save under the lock, so one writer is enough.
- **colony**: two users and an NPC, three levels, shop gates at 2 and 3, one
  tick with two messages before or after it, from worlds where a user has no queen
  or one of the highest level, with brutes in the field or not. An initial brute
  counts as one of the two messages.
- **field**: a map of 9 by 8 with two players whose queens are of size 2 or 3 and
  whose bubbles meet, two messages and three ticks, dedup and sort every 2 ticks
  and guards every tick, a collision bucket of 4, steps of length 5 and 7, one view of 2 by 2 whose margin
  passes the edge of the map. Queens and ants are put at a few places chosen so
  that they meet: beside a body, at the edge, on both sides of a bucket's border,
  and (`move-queen`) past the right edge.

Violations, each a statement of the repository that its code does not keep (see
`PROJECT.json` for the quotes):

- **viewport_wipe**: a wipe sets `tick` to 0, `viewport_loop` keeps its `last_*`
  ticks; `saturating_sub` is 0 until the counter has caught up, and nothing is sent.
- **viewdelta_resume**: the server forgets a paused client's grid and numbers its
  next keyframe 0; the page has kept its grid and ignores the "older" keyframe.
- **persist_ids**: accounts are saved at registration, the id counter with the next
  snapshot; a crash between the two makes two accounts share an id.
- **persist_wipe**: a slow detached autosave renames its file over the wipe's.

Every property of a passing run has a mutant under which TLC finds it violated.
`CHECK_DEADLOCK FALSE` stands in every run but tilemap's: the bounds on ticks,
messages and saves end the behaviours. The tile store can always take a step.

Exceptions are named in the properties and are what the code does:

- `NoLostUpdate` holds while the viewport thread misses no tick: a change whose
  `dirty_tick` left the window is not sent until something else changes.
- `DetachedByItsOwn` holds up to the first wipe: ids and generations start again,
  so a goodbye from before can match a new player.
- `NoOrphan` is about the last account of a connection: a second login on one
  socket leaves the first player attached. `PauseEnds` leaves such pages (`again`)
  out, and a pause by a tab that was replaced and is still open.
- `InStep` is about grids whose frames are all of the server's current run: the page
  tells frames by number and geometry only, so a delta still under way when its
  client is paused may be applied to a grid of the next run whose number happens
  to be its base. `FollowsFrames` likewise.
- `SinkAccounted` and `SinkCatchesUp` except super-tiles whose call failed (no retry)
  or that a wipe within the same second left (`stale`), and epochs that a restart
  left behind (`left`).
- `ImplementsArchive` promises a restart a committed copy until two saves overlap, and a
  world after that; `PlayersHaveAccounts` also needs no torn or failed save,
  `AccountsDurable` none that failed. `AccountsDurable` says that a torn file boots as no
  accounts, not that it cannot come about, and of bans only that users.json is not ahead.
- `ShutdownLosesNothing` excepts a save that failed or overlapped. Between the save and
  the exit the sim goes on: what it changes then may be lost, a wipe may take what was
  saved, and the exit may cut off an `auth.save` (`lock.at = "users"`).
- `IdsOwnUnlessLost` excepts a process that died with ids that were not on the disk.
- `StarterNotTwice` excepts one that died between the two files of a shutdown's or
  a wipe's save (`split`), where the code does pay twice.
- `UnlocksInStep` excepts accounts whose peak a login raised silently, as
  `backfill_peak_level` says it does (`raised`), and queens the admin's `level-up`
  took above their peak (`skipped`), which calls no `apply_peak_unlocks`.
- `KillsFolded` counts apart the kills credited to a queen that had already fallen.
- `GuardsOutside` excepts queens the admin's `move-queen` put where the margins of a
  placement leave no room for a post (`exiled`).

## 4. Fairness

Only `Session` and `SnapshotWriter` state liveness. `Session` assumes weak
fairness of `Handle` (the sim thread drains the queue in every turn of an endless
loop) and of `ReceiveReply` (the runtime polls a task whose oneshot is ready);
nothing is assumed of clients. `SnapshotWriter` assumes weak fairness of the
writer's steps (an endless loop whose sink calls return) and none of the sim's.
Everything else is safety.

## 5. Proofs

Each module of proofs defines an inductive invariant `IInv`, proves that it holds
initially and that each action preserves it (one lemma per action, joined in `NextInv`),
and derives the properties the runs check from it. `ColonyProofs` and `PersistProofs`
have a second one, `JInv` and `FlushKept`, on top of the first.

The library's induction theorems take a formula as parameter, which the provers cannot
instantiate. Where a proof needs induction over data (the folds of `Field`, the sums of
`Colony`) it is over sets instead: a set of naturals has a least element (`LeastNat`, from
the well-founded order), so a set that has 0 and with n has n + 1 has them all, and a
family of sets that has the empty one and every one which it has but for an element has
them all (`EverySubset`). From these the recursive functions of the community modules are
shown to exist (`Recursion`, `LeftRecursion`, `UpwardRecursion`), hence to satisfy the
equations that define them. `ColonyProofs` and `FieldProofs` each have the lemmas of these
that they need, as neither module reads the other.

### The tile store

`TileMapProofs` proves for every set of chunks, cells and owners and every index space,
from two assumptions of `TileMap`:

- `GeometryAssumption`: finitely many chunks and at least two and finitely many cells to a
  chunk (the code has 65 536), and markers that are no owner and no chunk.
- `CapacityAssumption`: at any time fewer owners hold land than there are indices. The
  code does not enforce it; its comment on `Idx` argues it from recycling.

The safety properties are not inductive: that a freed index is in no cell needs counts to
be exact, exact counts need every cell's index to resolve to one owner, and that needs
free and live indices to be disjoint and the two maps to be inverse. `IInv` conjoins
these: types, the books of indices (`idToIdx` inverse to the palette on the indices that
are live, free list disjoint and without repetition), each cell's index 0 or live, each
count the cardinality of its owner's cells, and chunks in a legal shape. One lemma per
chunk operation says which cell changes and how the occupied number follows; `GiveBack`
and `TakeIndex` treat the index books; one lemma per action preserves `IInv`; `NextInv`
joins them.

| Theorem | States |
|---|---|
| `Invariance` | `Spec => []IInv` |
| `TypeCorrect` | `[]TypeOK` |
| `IndicesConserved` | `[](IndexConservation /\ PaletteInverts)` |
| `RecyclingIsSafe` | `[]NoDanglingIndex` |
| `CountsAreExact` | `[]CountsExact` |
| `ChunksStayCanonical` | `[]ChunksCanonical` |
| `IndicesNeverWrap` | `[]IndexSpaceBounded` |
| `Refinement` | `Spec => ImplementsGrid`: each step maps to a step of `TileGrid` or a stutter |
| `IndexBooksBalance`, `CellBooksBalance` | `[]IndexBooks` and `[]CellBooks`, the two halves of the books |
| `AllBooksBalance` | `[]BooksBalance`, the conjunction the run checks |

### Connections and sessions

`SessionProofs`, for any connections, names, and numbers of logins and wipes.
`AccountsMatchPlayers` needs that the ids of accounts are below the counter (`IdsTaken`).
That ids and generations stay within the logins (`TypeCorrect`) needs every queued login
to be one somebody waits for, nobody for two (`LoginsAwaited`), and both counters bounded
by the logins handled (`LoginsCounted`). `NoOrphan` needs the reason a closed connection
does no harm once the queue is empty: its goodbye was queued with the player's generation
(`GoodbyeQueued`), which it knew (`KnowsItsGen`). `DetachedByItsOwn` needs that before a
wipe a player's current generation is held by no connection but its own (`GensHeld`), so
that a queued goodbye which carries it is that connection's (`GoodbyesOwn`).

`PauseEnds` speaks of an empty queue; the induction speaks of every queued `view-pause`
and of the pause in `paused_views` alike (`PausedFrom`, place 0). Each has a connection
that is still open under its player, or that player's goodbye behind it (`PausesHeld`);
and where the player's attached tab is shown, that connection is another one, or a
`view-resume` or a goodbye is behind it (`PausesShown`). Both need that a page which waits
for its first answer has no player yet (`FirstLogins`), so they hold as long as no page
has logged in again. A resume that is dropped does no harm: it is dropped only when nobody
is attached. With nothing queued the two give `PauseEnds`.

| Theorem | States |
|---|---|
| `Invariance`, `TypeCorrect` | `[]IInv`, `[]TypeOK` |
| `AccountsTheirOwn` | `[]AccountsMatchPlayers` |
| `NobodyOrphaned` | `[]NoOrphan` |
| `DetachedByOwn` | `DetachedByItsOwn`, an action property |
| `PausesEnd` | `[]PauseEnds` |

### Viewport pacing

`ViewportProofs`, for every tick rate, frame rate, heartbeat and lag. `TypeCorrect` holds
with wipes; the other theorems assume `MaxWipes = 0`, and the run **viewport_wipe** shows
that they need it. Without a wipe nothing remembered is of a later tick than the sim's
(`NoneLater`), so `saturating_sub` is subtraction and each `age` is a difference of ticks
(`AgesKnown`); a look at the standings comes in time (`LooksInTime`), and a change not yet
shown is marked by a `dirty_tick` the next cycle will see (`OwedMarked`).

| Theorem | States |
|---|---|
| `TypeCorrect` | `[]TypeOK` |
| `UpdatesShown` | `[]NoLostUpdate` |
| `CadenceHolds` | `[]CadenceKept` |
| `LeaderboardHolds` | `[]LeaderboardFresh` |

### The frame protocol

`ViewDeltaProofs`, for every grid, palette, geometry, keyframe interval and order of
delivery. The invariant says that there is a history, from numbers to grids, such that the
server's grid is its last, every keyframe of the run that is anywhere under way is one of
its grids and every delta a step between two, and a page that took frames of that run only
shows one of them (`Built`, `Tells`, `Shown`). The history is an existential in the
invariant: a cycle extends it at a number that nothing under way has yet (`Numbered`),
every other step leaves it. `Palette` is what both builders rest on: the sticky palette
gets every owner in sight an index and moves none.

| Theorem | States |
|---|---|
| `Invariance`, `TypeCorrect` | `[]IInv`, `[]TypeOK` |
| `ShowsWhatWasSent` | `[]InStep` |
| `Follow` | `FollowsFrames`, an action property |

### The snapshot writer

`SnapshotWriterProofs`, for any chunks, super-tiles, owners and epochs. `SinkAccounted` is
nearly inductive; it needs that epochs only grow and none to come has objects
(`EpochsPass`), what the writer holds in each phase (`HoldsByPhase`), that work it does
for an epoch that is over is queued for deletion (`LateWorkQueued`), and that what it
captured is still what the world shows or has been noted again (`CaptureFresh`).

`Mirroring` is the refinement of `Mirror`. The state of the mirror depends on which epoch
is current, so the proof turns on its change: nothing is stored under an epoch to come, so
a new one reads as empty (`NewEpochEmpty`), and pictures captured for the last are no
longer taken; a wipe within the second of the last keeps the epoch and is a change of the
ground like another. A capture reads all its super-tiles under one lock, so a round is of
one moment, and the writer takes no second one before the first is done. Put, delete and a
failed call are the mirror's delivery (`UploadMirrored`); draining, deleting old epochs and
uploads for them change nothing a reader sees (`RoundUnseen`).

| Theorem | States |
|---|---|
| `Invariance`, `TypeCorrect` | `[]IInv`, `[]TypeOK` |
| `NothingLost` | `[]SinkAccounted` |
| `Mirroring` | `Spec => MirrorsWorld`: each step maps to a step of `Mirror` or a stutter |

### Persistence

`PersistProofs`, for any names, detached writers, stamps and restarts, on disks that may
fail at any operation. The invariant says how far the save under the lock has come
(`LockHeld`, `ShutdownSaves`), that without an overlap one writer at a time is on the
temporary file and that file is its own (`OneWriter`), that stamps in memory are ahead of
those on disk (`StampsAhead`), and that the players and the credits of every world that
may still be loaded have their account and their peak in the file beside it, or will have
before the save ends (`PlayersFiled`, `CreditsFiled`).

`ShutdownKeeps` needs a second one, `FlushKept`, of the time between the shutdown's save
and the exit: the world in memory, the world a boot would load and the copy of every
writer at work are what was saved or later, and the accounts in memory and those a boot
would load have grown from the saved ones, unless a wipe has come or is under way or
users.json is being written. When the save ends this holds because both files are memory
(`ShutdownSaves`) and no detached writer is left (`OneWriter`); afterwards every change is
under a fresh stamp, only a wipe shrinks accounts, and users.json is only ever written
with those in memory.

`Archiving` is the refinement of `Archive`. Without an overlap `OneWriter` makes the rename
a commit: the temporary file is that writer's own, holds the whole of what it was handed,
and no other copy is under way. Creating and filling the temporary file, and everything
about `users.json`, do not touch what a boot would load. Once two saves have overlapped
only that remains which types and `FilesTyped` give: a boot finds a world, a fresh one if
the file is torn.

| Theorem | States |
|---|---|
| `Invariance`, `TypeCorrect` | `[]IInv`, `[]TypeOK` |
| `NewestSaveKept` | `[]NewestSave`: until saves overlap the live file is the newest that was finished (part of the invariant, no run checks it apart) |
| `AccountsOnDisk` | `[]AccountsDurable` |
| `IdsOwn` | `[]IdsOwnUnlessLost` |
| `PlayersBelong` | `[]PlayersHaveAccounts` |
| `StarterPaidOnce` | `[]StarterNotTwice` |
| `ShutdownKeeps` | `ShutdownLosesNothing`, an action property, by `FlushKept` |
| `Archiving` | `Spec => ImplementsArchive`: each step maps to a step of `Archive` or a stutter |

### Queens and economy

`ColonyProofs`, for any finite sets of users and NPCs, any rising table of levels, any
gates, prices and grants that are natural numbers. `KillsFolded`, `UnlocksInStep` and
`FallenHoldNothing` are not inductive as the run states them, two of which look at the
world between ticks only. `IInv` holds at every phase: no live queen is above the peak of
its player (`Covered`) and the fallen hold nothing (`FallenBare`) in the middle of a tick
as well; a peak that a login raised silently is past the gate (`RaisedPast`), so that no
later level pays for it again; and the kills a tick has listed are of queens (`Ticking`),
each of which may have fallen by an earlier one of the list. A step is one of four kinds:
it leaves lives and earnings alone (`QuietKeeps`), it grows queens together with their
accounts (`FlushedKeeps`), it fells one (`KillKeeps`), or it makes or unmakes one.

`JInv` adds what `LiveQueensSound` is about. At every phase a queen's level is the one its
xp reaches, hp does not exceed what that level allows nor shield what the highest does,
and only hp may be below zero (`SoundQueens`); that a live one has hp left is true between
ticks only, and in the last phase one without is listed for a kill (`Healthy`). A bite
takes the sum of what the armies bring, so pools and counts must be numbers throughout
(`Purses`, `Books`, `Ticks`), and an NPC's queen goes when it falls, so an NPC holds
nothing that the fallen may have (`NpcsWhole`). `NoAntIsLost` compares two sums over all
players, field and pool, before and after a step; `SumChanges` says how one changes with
one of its terms, and what the three phases of the property do is move ants between two of
them.

| Theorem | States |
|---|---|
| `Invariance`, `FullInvariance` | `[]IInv`, `[]JInv` |
| `TypesHold` | `[]TypeOK` |
| `KillsAddUp` | `[]KillsFolded` |
| `UnlocksFollow` | `[]UnlocksInStep` |
| `FallenAreBare` | `[]FallenHoldNothing` |
| `LiveAreSound` | `[]LiveQueensSound` |
| `NoAntIsLost` | `WorkersReturn`, an action property |

### The ground

`FieldProofs`, for every map, players, sizes, margins, cadences and views.
`FieldAssumption` asks of them what the code's constants have: the far margin is at least
the largest body, a collision bucket is wider than any two queens that touch are apart,
the fog's gradient ends within the padding, a diagonal step is at least one straight step
long and at most two.

Types apart, the invariant says that the queen map is exact unless it is known to be
dirty, and is never dirty within a tick (`MapKnown`); that the pairs of a clash are the
keys the ants stand on (`PairsFollow`); and that queens keep the margins unless the admin
moved them (`MarginsKept`). The other properties speak of one phase or one state each.
What ants and players do in turn is a fold; `LeftRecursion` gives it its values step by
step.

- `StepsAside`: within a tick the map has the key of every cell of every body, and a plan,
  nudged or not, leads to no key of the map.
- `ConvertsMet`: ants of the same pair stand on the same cell, as `Key` tells cells of the
  map apart.
- `CaughtAreTaken`: the holder of a cell is a brute over it, or nobody where none is.
- `GuardsStandOutside`: within the margins clamping to the map does not move a post.
- `TouchingFall`: two queens that touch are less than a bucket apart, hence in the same
  bucket or in adjacent ones and compared, and the lesser of them falls.
- `FogIsExact`: no pass takes a tile below its distance to the nearest own one
  (`Nearest`), and each leaves no tile farther than by way of a neighbour on the side it
  looks back to (`Settled`). The second keeps what the first has settled where it matters:
  a shortest way between two tiles can be walked as steps of the second pass followed by
  steps of the first (`WayUp`, six cases by direction). A tile outside the padded slice is
  farther than the gradient, so leaving it out changes no fog.

| Theorem | States |
|---|---|
| `Invariance`, `TypesHold` | `[]IInv`, `[]TypeOK` |
| `StepsAside` | `StepsOffBodies`, an action property |
| `ConvertsMet` | `ConvertedWhereMet`, an action property |
| `CaughtAreTaken` | `CaughtLeave`, an action property |
| `GuardsStandOutside` | `GuardsOutside`, an action property |
| `TouchingFall` | `TouchingResolved`, an action property |
| `FogIsExact` | `[]FogExact` |

### What only TLC checks

Liveness (`EveryAuthAnswered`, `SinkCatchesUp`): fairness is out of the prover's reach.
Every other property of a passing run is a theorem, for every value of the constants (for
`Viewport`'s three, all without a wipe). Assumptions are on constants and named in each
module; TLC evaluates them on the runs.

## 6. Observations that no run states

Connections and frames:

- A delta of an earlier run may be applied to a grid of the next one when the base
  numbers coincide (`Mixed` in `ViewDelta`): "needs an exact base + matching geometry"
  (`client.html:1862`) does not tell runs apart.
- `handlers.rs:135`, a tab that was replaced, is still open and is then hidden pauses the
  connection that replaced it, until its own goodbye.
- A wipe of users leaves `paused_views` as it was, under ids it hands out again.
- `handlers.rs:395`, kick and ban send an empty message; nothing on the server closes
  the connection.

Shutdown:

- `main.rs:119-120`, the lock is released before `process::exit`, and the sim thread may
  have been waiting for it: what a turn changes in between is lost, although `main.rs:107`
  has the latest state flushed before exit, and a registration or a change of colour in it
  may be cut off with users.json truncated, which the next boot reads as no accounts.

Economy:

- `handlers.rs:206`, the army cap reads `ant_counts`, rebuilt once a tick: messages
  drained together all pass it.
- `handlers.rs:276-299`, the admin's `level-up` does not call `apply_peak_unlocks`, as
  `simulation.rs:80-81` and `:91` say every level path does.
- The starter credit ("exactly once", `simulation.rs:88`) is lost by a crash after the peak
  was saved and before the snapshot, and paid twice by one between the two files
  of a shutdown.
- A ban is in memory until the accounts are next saved, while `auth.rs:30-31` says a
  restart restores moderation.
- The admin's `move-queen` also paints the body of a queen that is dead (`Colony`'s `Gift`).
- A config reset (`config.rs:385` on) broadcasts defaults of `ant_hz` and `ant_view_cap` that
  it never writes.

The ground:

- `simulation.rs:404`, the dedup of every 64th tick drops an ant that stands and heads like
  another of its owner, whatever their kinds, and returns it to no pool.
- `simulation.rs:549`, "brutes heal 10x via dmg_mult": a brute at its own queen records no hit
  (phase 1), so only workers heal. `ARCHITECTURE.md` says brutes deal 3x; the
  constant is 10.
- The nudge of a brute tests its corner only, and a brute repaints the tiles of a
  queen's body. Of two brutes of different owners that overlap, the later in the Vec
  has the cell.
- `move-queen` and `spawn-npc` have no margins: a body past the right edge has the keys of
  cells a row further on, and ants walk around a queen that is not there.
- The dominant owner of a clash may be one who is not among the pair that is resolved.
- `fog.rs` calls its distance Chebyshev; the transform is octile.
- `cap_ants_by_id` may drop a player's own ants, which its comment says are always kept.

## 7. Not modelled

LOD sampling, leaderboard and info messages, region lookup, level and price
tables, metrics and HTTP views are pure functions or displays; discovery and region
holders are statistics nothing decides by; rasterising, compression and S3 requests
are behind external actions; the browser's rendering and input keep no state
another part relies on. In the delta encoder, the index 0xFFFF of a palette that is full
(`network.rs:461`, `:600`) is left out; in the sink, a `delete_prefix` of which some deletes
fail and which still answers Ok (`snapshot.rs:260-283`). The write-ahead log is written by no running server:
`append_wal` is called by its test only, and `replay_wal` reads nothing unless
`HIVE_WAL` is set. Configuration is a lock around clamped parameters, which are
constants here. Power loss is not modelled: nothing calls fsync, `Crash` ends the
process only. Floating-point xp and hp are small naturals.

## 8. Plan

1. Done: `TileGrid`, `TileMap`, `Session`, `Viewport`, `ViewDelta`, `Mirror`,
   `SnapshotWriter`, `Archive`, `Persist`, `Colony`, `Field`; three refinements (of
   `TileGrid`, `Mirror` and `Archive`); proofs about the eight modules named in section 5.
2. `Field` and `Colony` composed, so that the choices of a fight are the outcomes of the
   ground, with `Field` shown to implement an abstraction of `Colony`'s phases.
