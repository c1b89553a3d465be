# The Answer Protocol: formal models

TLA+ models of the game server in `src/cmd/server` and of its two clients in
`src/cmd/cli` and `src/cmd/gui` (Go), checked with TLC and, where it says so, proved with
TLAPS. A definition is translated from the code; `PROJECT.json`
maps each one to its lines, lists the runs, and names for each property a bug in the
code (a *mutant*, defined just before the operator it replaces) that breaks it.

Contents: [the system](#the-system) - [the modules](#the-modules) - [runs](#runs-and-bounds)
- [fairness](#fairness) - [proofs](#proofs) - [findings](#where-code-and-documentation-disagree)
- [not modelled](#not-modelled) - [plan](#plan)

## The system

A TCP server runs a text game. Each connection has two goroutines: `handleClient` reads
commands and runs one handler at a time, and `writeLoop` writes what was put in the
connection's queue. All game state is in one `Server` under one mutex `s.mu`; a second
mutex `s.ioMu` is taken after it (or alone) for the two files `playerdata.json` and
`itemdata.json`, each replaced by a rename. There is no signal handler: every stop of
the server is a kill.

| component (source) | state | operations | talks to | what is hard | what makes it correct |
|---|---|---|---|---|---|
| Sessions and item ledger (`server.go`, `player_store.go`, `item_store.go`, `hardcore.go`) | `players`, `exiting`, `unsavedTakes`, `Item.RoomID`, inventories; two files; two mutexes | CONNECT, QUIT, disconnect, TAKE, DROP, death, start-up | every other component through `s.players`; files | CONNECT and QUIT leave `s.mu` while they use the files; two files are written one after the other; either write may fail, and so may the rollback; kills | a one-of-a-kind item is at one place, in memory and after a restart; each player is served by one connection; the files are never refused (as long as at most one CONNECT per name is in progress) |
| Groups (`group.go`) | `groups`, `groupByPlayer`, `Invited`, leader | GROUP CREATE, INVITE, JOIN, LEAVE, removal of a player | removal is called by session cleanup; combat asks for companions | players leave, disconnect and change leader while invitations are open | tables agree; invitations are open and can be used; orderly succession |
| Client connection (`client_conn.go`) | queue of 64 lines, `done`, the line in flight | `enqueueResponse`, `enqueueEvent`, `Write`, `waitResponse`, `writeLoop`, `Close` | everything that sends a line | goroutines of other connections meet here; overflow, write errors, close from any side | order without gaps; no answer to a reply that was not written; nobody waits forever |
| Combat (`combat.go`, `hazard.go`, `hardcore.go`, `defeat.go`) | target, stance, wounds of enemies (per player), flights | ATTACK, DEFEND, FLEE, hazards, death, shared victory | quests, ledger (death), groups (companions) | one player's blow changes other players' records, also while they are saved | fights are with living enemies; nobody passes one; a record being saved does not change |
| Quests, crew, endings (`quest.go`, `odyssey.go`, `endings.go`, `item_effects.go`) | quest status and progress, bonus HP, crew, endings, trophies | QUEST, TALK, TAKE and DROP consequences | combat, ledger | consequences that happen only when the response could be enqueued | rewards once, objectives met are counted, endings in order, crew never negative |
| Presence and broadcasts (`server.go`, `notify.go`, `flavor.go`, `chat.go`) | none of its own | ENTER, LEAVE, STATS, CHAT events | queue of each recipient | an event may overflow another player's queue | what a client hears agrees with who is in the room |
| Player state, regeneration (`player.go`) | HP, `MaxHPBonus`, `lastRegen` | `regenLocked` on every look | clock; items, blessings, rewards and counters change its numbers | no timer: what is due is settled late; rounding, clamps | HP does not depend on how often it is looked at; nobody is shown dead |
| State snapshot (`gui_state.go`) | none | STATE | reads all of the above | - | shows what is kept |
| World data (`world.go`, `room.go`) | rooms, items, NPCs, quests | load, `validate` | all | - | references resolve |
| Abuse monitor, logging (`logging.go`) | a sliding window for each connection (commands) and each address (connections) | `record`, `noteConnection` | accept loop, `handleClient` | window edges; lists filtered in place | a warning exactly when one is due |
| Start and accept loop (`main.go`), language (`locale.go`) | flags, listener; locale | accept, LANG | - | - | - |
| CLI client (`cmd/cli/main.go`) | list of pending requests, three channels | send, match, QUIT, end of input | server lines | a response names no command; events come at any time | it leaves on the answer to its own QUIT; it never hangs |
| GUI protocol and controller (`cmd/gui/protocol.go`, `main.go`) | pending requests, session, poller | connect, send, match, poll, disconnect | server lines; callbacks on the UI thread | goroutines and callbacks outlive their connection; full queues drop refreshes | every answer goes to its request; one poller, for the present session; the screen catches up |
| GUI presentation (the rest of `cmd/gui`) | widgets | drawing | - | - | - |

`PROJECT.json` lists the hazards line by line, with the properties that would catch them.

## The modules

| module | what it is |
|---|---|
| `ItemLedger` | sessions, items, both files and both mutexes |
| `UniqueItems` | abstract: what is promised about one-of-a-kind items |
| `Groups` | group tables and invitations |
| `Presence` | rooms and events on top of `Groups`: what one client knows of the others |
| `ClientConn` | one connection and its two goroutines |
| `EventChannel` | abstract: what a client can rely on about its lines |
| `Adventure` | the rules of the game, one critical section per command |
| `Vitals` | hit points and regeneration over time |
| `FloodTracker` | the sliding window of commands |
| `Timing` | both, driven by one clock, as `handleClient` does |
| `CliClient` | the terminal client |
| `GuiClient` | the graphical client |
| `MCItemLedger`, `MCAdventure`, `MCTiming` | item homes, symmetry, small worlds and effects for TLC |
| `Lists` | the loop that filters a list in place (`Selected`), for `FloodTracker` and `CliClient` |
| `PresenceProofs` (with `Groups`), `ItemLedgerProofs`, `ClientConnProofs`, `AdventureProofs`, `TimingProofs` (`Vitals` and `FloodTracker`), `CliClientProofs`, `GuiClientProofs` | theorems |
| `ListsProofs` | lemmas on lists, finite sets and numbers that several of them need |

### ItemLedger

The code's critical sections are its steps. `mu` and `ioMu` say which handler holds a
mutex *across* steps; a section that writes at most one file is one step, because a
rename is atomic. `pc` names where a handler is:

- CONNECT: `ConnectCheck` (name free, under `s.mu`), `ConnectLoad` (record read and, for
  a new player, written, under `s.ioMu`), `ConnectInstall` or `ConnectRefused` (name
  checked again), `ConnectAnnounce` (registered, response enqueued).
- DROP: `DropBegin`, `DropLockFiles`, then `DropWriteItems`, `DropWritePlayers`,
  `DropDone`; on errors `DropItemsFail`, `DropPlayersFail` with `DropRollback` or
  `DropRollbackFails`. `s.mu` is held throughout.
- Deaths: `DieBegin` or `DieKeepsAll`, `DieProtected`, and the same two writes. Who dies
  when is left open here: any command may end in a death. Whether companions protect the
  belongings is a choice, since Groups decides who is in a group.
- QUIT and disconnect: `SaveBegin` (snapshot, `exiting`), `SaveWrite` without `s.mu`,
  `SaveRemove`, or `SaveAbort` (QUIT goes on) and `Evict` (a lost connection: items of
  `unsaved` are put back in rooms). Whether it is a QUIT or a disconnect is whether the
  connection is in `gone`.
- `Crash` at any step, `Restart` (`NewServer`: locations, then ownership), and
  `RestartRefused` where `NewServer` would end in `fatal`.

Abstractions: an inventory is a set; a missing record in the file is a fresh one; a
response that cannot be enqueued puts the connection in `gone` (the handler returns
`true` and the connection ends); a player's fields other than inventory and room, the
reward-only items (a death keeps them) and messages are left out. A command that finds its
player missing or exiting changes nothing and is a stutter; a QUIT or a disconnect that does
goes the way of a failed save (`AfterError`). `OneSession` shows that neither happens.
`torn` is a history variable: items whose location file a failed rollback left wrong.

`UniqueItems` has one variable, the place of each item: a room or a player. `Place(i)` is
the refinement mapping: memory while the server runs, what a restart would find
otherwise. `KeepsPromise` says that the whole ledger, with its failures and restarts,
implements it: only TAKE from a room gives a player an item, and a failure only ever puts
one back in a room.

### Groups

`players`, `clients` and `serving` are the three ways to be in the game: installed by
`connectPlayer`, registered by `handleConnect`, and read from. `StopServing` is any end of
a session (QUIT, lost connection, full queue) and `Resume` a QUIT whose save failed;
`Remove` is `removePlayerLocked`. Names are numbers in string order, because the code
picks the smallest name as next leader. `told` records what the invitation events said.

### Presence

`Presence` extends `Groups`: each of its actions is one of Groups with the room changes
and the events of the same critical section, and it adds MOVE, respawns, LOOK and WHO. One
player, the `Observer`, is watched. `roster`, `total` and `mates` are what its client
believes from the answers and events it was sent: the PRESENCE lines, the STATS counts and
the GROUP lines. A client that was moved knows nobody in the new room until it looks
(`current`). A death in a hazard is two room changes in one section, each with its events.

The queue between the server and the client is not repeated here: `EventChannel`, which
`ClientConn` implements, says that what is accepted arrives in order, without a gap, as
long as the connection stands. So a belief is that of a client that has read what it was
sent. A connection whose queue overflows is cut; its beliefs do not matter.

Two sections have a gap between a change and its announcement: `connectPlayer` installs a
player whom others see when they look, but `handleConnect` announces it only after
registering its connection. `RosterAgrees` and `TotalAgrees` therefore leave room for the
players in between and for nobody else. A player who joins a group is not told who is in
it, so `MatesAgree` asks that nobody be taken for a member who is none.

### ClientConn

`out` is the channel, `writing` the line `writeLoop` has taken. `closed` (`client.done`)
and the closing of the socket are two steps. The handler waits in `send` (blocking
`Write`, for errors and greetings, outside `s.mu`) or is answered by `Respond`
(non-blocking, inside `s.mu`), then in `wait`, where `done` and the report compete
(`Abandoned`). Other goroutines enqueue `Event`s or overflow the queue at any time.
`EventChannel` is the promise; `DeliversInOrder` says that the connection implements it.

### Adventure

What commands do to a player's record. Hit points are not kept: a blow beats the enemy or
not, a counter kills or not, as dice and bonuses would have it. An enemy's wounds, which
are per player, become `beaten`. Companions are any players in the room who are not
exiting (who is in which group is Groups' matter), so every property holds for every
composition of groups. `RepliesFail` says whether a response may find the queue full; the
code then skips different things in different handlers, and the actions say which
(`Answered`, `Unanswered`). The world (`World`) is a constant; the module's assumptions
are what `World.validate` asks for, and that each NPC gives at most one quest, as in
`data/world.json`. Of several blocking enemies, FLEE deals with the one with the smallest
ID; here with any. Items are the renewable ones and trophies; the files are ItemLedger's:
a player comes back as it left. (An older record, after a failed save or a kill, was the
record of an earlier state, where the same properties of a record held.)

### Vitals, FloodTracker and Timing

No timer heals a player. `playerForUpdateLocked` calls `regenLocked`, which adds a point
for each whole interval since `lastRegen` and leaves the rest. `since` is the age of
`lastRegen`, so there is no absolute clock. `Becomes` is the look that each command
begins with; `Take`, `Drop`, `Ending`, `Reward`, `Fight` and `Die` then change the
numbers that the next look will use. A reward may also come from an ally's victory,
which does not look first. `ideal` is a history variable: the player as it would be if
`regenLocked` ran at every instant. `Reconnect` saves the record as it is and starts a
new interval, for the player and for its ideal: what was due at QUIT is lost.

`FloodTracker` keeps the ages of the commands in the list, and, as history, how many
commands really came at each age (`seen`) and when the last warning was given (`quiet`).
An age that no comparison can tell from a greater one stops growing. `Timing` composes
the two: `Serve` counts a command and then may look at the player, `Reopen` is a new
connection, and time passes for both at once.

### CliClient

`main` is where the main loop is: in its `select`, writing a line, or in the second
`select` after a QUIT. The reader strikes off the head of `pending` for every line that
is not an event, and fills three channels with room for one value without waiting. What
is typed is a QUIT or not. Of the server only what a client can tell is modelled, from
`handleClient` and `clientConn`: commands are answered in order, once;
a QUIT is granted or refused; a dialogue may say `bye`; events come at any time; it may
go away at any moment, and lines under way are then lost. `Line.to` is history.

### GuiClient

The UI thread runs callbacks in turn (`todo`, what `fyne.Do` was given): messages, the
result of a dial, ticks. Each connection has a record in `net`: `protocolClient`, the
lines under way, and the server's end. `readLoop`, `incoming` and `receive` are one
step (`Deliver`), because they keep the order and only delay; the matching with `pending`
is in the reader, as in the code. The reader of a connection that was closed may still
deliver what it has read, so messages of the first connection reach the UI thread in the
second (`LateMessage`). A poller is known by its number; `pollStop` is the present one.
A tick that wins against a closed channel by chance is left out: its callback returns at
once. All refreshing commands are LOOK, all commands whose answer makes the client look
again are ACT, and what there is to see is a `version`. `Change` is another player's
doing, announced (presence, combat) or not (TAKE, DROP). A connection ends by a granted
QUIT, by a write that fails (`WriteFails`), or because the server closes it or is killed
(`Break`); the server's side of both clients' modules is mapped to the lines of
`cmd/server` that answer, send events and close.

## Runs and bounds

| run | instance | shows | 
|---|---|---|
| `ledger` | 2 connections, 2 players, a unique item, a renewable and lethal one, 2 rooms | `ExistsOnce`, `RestartAccepted`, `FloorSurvives`, `TakesTracked`, `NothingComesBack` and the refinement of `UniqueItems`, over all interleavings of sessions (at most one CONNECT per name in progress), file errors, rollbacks, kills |
| `ledger_race` | 1 item, 1 room, racing CONNECTs, fairness | `OneSession`; every handler returns; every lost connection is removed |
| `ledger_stale_record` | racing CONNECTs for one name | violation, see below |
| `ledger_holder_lost` | one player | violation, see below |
| `groups` | 3 players, one of them observed, 2 groups, 2 rooms | tables, invitations, succession; what a client hears agrees with who is in its room, in its group and in the game |
| `client_conn` | queue of 2, 6 lines | order, answers, ends |
| `adventure_fight` | 2 players, 2 enemies in one room, a requirement, a quest, a room behind them | targets, rewards, gates, counted objectives, stillness of a record being saved |
| `adventure_voyage` | 1 player, every kind of hazard and person, crew of 3, 2 endings, queue may be full | order of endings, crew |
| `adventure_unanswered` | as `adventure_fight`, queue may be full | violation, see below |
| `timing` | a maximum of 6 points, a trophy, a curse that lowers the maximum below its floor and healing below nothing, windows of 2, idle for up to 5 | `LooksDoNotMatter`, `ShowsLivingPlayer`, `CountersHurt`, `WarnsWhenDue` |
| `cli` | 5 lines typed, 3 lines under way each way | `PendingInOrder`, `LeavesWhenTold`, `NeverHangs` |
| `gui` | 2 connections, a queue of 2, 1 line under way each way, 1 command, 2 versions | `AnswersMatch`, `PollsWhilePlaying`, `LeavesForReason`, `LostIsNoticed`, `ViewCatchesUp` |

Why these bounds are enough to be interesting: two connections are what a race for a name
or a mutex needs, and slots are reused, so histories are unbounded; one unique item
and a renewable one take both branches of every handler, and several unique items, which a
death or an eviction moves at once, are the theorems' matter; two rooms separate an item's home from where it was dropped. Nothing in the ledger is
counted, so its state space is complete for the instance. Three players are needed for a
leader, a successor and an outsider; `MaxGroups` bounds group identifiers, which the code
counts up forever: at the bound no group is created, the rest goes on; two groups are what
an invitation of one and a membership of another need. The observer of `groups` is the
middle one of three names, so it can succeed and be succeeded. `MaxLines` bounds
the lines of a connection and leaves room for one reply, so a handler is never stopped by
the bound; a queue of two overflows after the same steps as one of 64. In `ClientConn` and
`ledger_race` deadlock is not checked: a connection ends, and a server may stay down.
In `cli` and `gui`, too, it is not: a client ends, and a user may stop.
`timing` passes several intervals without a look (`MaxIdle`), which is where rounding
could go wrong, and its effects cross every clamp; `MaxBurst` commands exceed what a
window may hold. In `cli` three lines under way let an event, an answer and the answer to
a QUIT be mixed; in `gui` the queue fills when the writer waits for the network, so
refreshes are dropped, and the second connection begins with callbacks of the first.
Symmetry (players, connections, items) is used in runs without liveness properties. The
quest reward count and quest progress are unbounded naturals in the type; the properties
themselves keep them finite.

## Fairness

- `ItemLedger`: strong fairness on each handler's own steps (`Progress`). Go's
  `sync.Mutex` hands the lock over to a waiter that has waited for a millisecond, so a
  lock that is free again and again is obtained. Nothing is assumed about commands, kills
  or restarts: while the server is down nothing is promised.
- `ClientConn`: weak fairness on what a goroutine can do alone. `WriteLine` or
  `WriteFails` ends because each write has a deadline of ten seconds. Reading from a
  closed socket fails once the scanner's buffer is used up: strong fairness of
  `EndOfInput` on a closed socket. Nothing is assumed about the client.

- `CliClient`: the goroutines run, and the server answers commands it has room to answer.
  Its lines are written in turn, so events do not keep an answer back for good (strong
  fairness of `Answer`). A server that stays silent for ever is not excluded by the code,
  and then the client waits: the code has no timeout after QUIT.
- `GuiClient`: the UI thread, the writer, the reader and the ticker run, a write ends by its
  deadline and a dial within its timeout, and the server answers. Nothing is assumed about the user.

## Proofs

Thirty-seven theorems, each for every value of the constants: any players, connections,
rooms, items, groups, worlds, item effects, windows and queue capacities that the modules'
assumptions admit. Every invariant and every action property that a run checks is among
them.

*Groups* (`PresenceProofs`, first part). `Inv` is the type invariant with `GroupsAgree`,
`InvitesOpen` and `InvitesNameLeader`. It is not inductive: CREATE could reuse a group that
exists. `FreshIds` (identifiers above the counter are unused) closes it.
`JoinsByInvitation` and `LeaderSucceeds` follow for each step from the invariant.

*Presence* (`PresenceProofs`). `GroupsImplemented` shows that each step of `Presence` is a
step of `Groups` or leaves its variables alone, so the invariant of `Groups` holds here.
On top of it `CompanyInv` adds that the observer believes nothing while it is not
connected or has not looked; the proof has a case for each action and for whether the
player is the observer. `TotalInv` only needs that the players are finitely many and
that every registered player is an installed one.

*Connection* (`ClientConnProofs`). Lines are numbered as they are accepted. `Ahead` says
that, until the writer fails, what was accepted is what was written, the line being
written and the queue, in this order; `Reported` that a report of success has its line
among those written. `NoLineIsLost` states the first as one equation between sequences:
what was accepted is `sent`, `writing` and `out` put together, and after a failure `sent`
is still its beginning. `AnswersAreTrue` and the refinement `ChannelImplemented` follow,
too.

*Adventure* (`AdventureProofs`). `Good` is a property of one record: its fields have their
types, its fight is with an enemy that stands there, its rewards agree with its progress,
it is beyond no living enemy it has not fled from, its endings came in order. Every
operator on records keeps it (a lemma each), every command is made of those operators, and
companions' records change by the same ones; so `AdventureInv`, that all records are good,
is inductive. The heart is `MovedGood`: a step from outside a part of the map that only an
enemy's doors lead into starts in the enemy's room, where it would have been a blocker.
`SnapshotsStayTrue` needs the phases: a player being saved commands nothing and is nobody's
companion.

*Objectives* (`AdventureProofs`, last part). `MetIsCounted` does not hold of every world:
a quest for the trophy of an ending would be met by TALK, which does not look at quests,
and `validate` allows such a quest. `data/world.json` has none, which is the hypothesis
`NoQuestForTrophy`. Under it `OnlyLostAnswersForget` shows that the finding
`adventure_unanswered` is the only one of its kind: no step but a QUEST whose answer was
lost leaves an objective met and uncounted. Hence `ObjectivesCount`, with responses that
fit. Most commands meet nothing new (`NothingNew`); taking, winning and accepting credit
what they meet in the same step.

*Sessions* (`ItemLedgerProofs`). `SessionInv` adds to the type invariant: where each
handler is bound to a name and which set of players that makes (`Sessions`), who holds
which mutex at which step (`LocksHeld`), and that nothing runs while the server is down.
It needs no assumption on CONNECT: `SessionsCorrect` holds with racing connections, and so
does `LocksAreOrdered`, the part of `HandlersReturn` that is no liveness: who holds `s.mu`
finds `s.ioMu` free or its own, so no two handlers wait for each other, and a handler
between two commands holds neither.

*Items* (`ItemLedgerProofs`, second part). `LedgerInv` adds that a snapshot is the player's
state (`SnapshotsFresh`), that the record written is the one in the file
(`RecordsWritten`), that a DROP's item is in hand, that an item has one owner counting
files and memory (`Once`), and what `unsaved` lists (`Tracked`). Most steps are *calm*:
they leave items, inventories and records alone, and preserve every part by one frame
lemma; what remains is a lemma for each of install, take, the record writes, done, remove
and evict, and the server's own steps. `ItemsExistOnce`, `RestartsAccepted`,
`NothingReturns` and `TakesAreTracked` follow.

*Floors* (`ItemLedgerProofs`, third part). `FloorInv` adds what the location file says in
the middle of a DROP or a death, and that `undo` restores it (`Undoable`).

*Refinement* (`ItemLedgerProofs`, last part). `Located` gives each item the place the
mapping chooses; a calm step stutters; TAKE, DROP, death, evict, kill and restart are steps
of `UniqueItems`. The theorem is `PromiseKept`. The theorems on items, floors and
refinement hold under `~ConcurrentConnects`: at most one CONNECT per name in progress. The
assumption is needed: without it `ledger_stale_record` breaks `ExistsOnce`.

*Hit points* (`TimingProofs`, first part). `LooksDoNotMatter` compares a player that is
settled when somebody looks with its ideal. The step that matters is time: settling after
`t` and then after one instant more is settling after `t + 1`, which is arithmetic on
whole intervals and their rest, with the clamps at the maximum and at a rate of nothing.
Each command first settles both, which makes them equal, and then does the same to both.
`ShowsLivingPlayer` needs that the points kept are positive: the counter is reduced by
less than all of it, and whoever would reach nothing is respawned instead.

*Flood warnings* (`TimingProofs`, second part). `FloodInv` says that the list holds, for
each age within the window, as many commands as really came at that age (`seen`), and that
`lastWarn` is the age of the last warning (`quiet`).
The length of what the filter keeps is then the sum of `seen`: a sum over a set that grows
by an age at a time.

*CLI client* (`CliClientProofs`). The list of pending commands is three parts in order:
the answers under way, the commands under way, and the one being sent. Each step moves one
element from the end of a part to the beginning of another, adds one at an end, or takes
the first. Three things make `PendingInOrder` inductive: what holds when the connection no
longer stands (`AnswersFirst`: the answers still under way are those of the first pending
commands), what a line says of the server that wrote it (`LinesOK`: an answer that grants
a QUIT means that the session has ended), and `EndsWhenTold`, the same of the channel that
the reader fills.

*GUI client* (`GuiClientProofs`). The same argument for each connection, with one more
stage: answers that were read wait on the UI thread for their turn. What the UI thread is
still to hear, what is pending and what is in the writer's queue are one list, in which
CONNECT and QUIT occur at most once. Whether QUIT is in it is what decides whether a poller
should run; whether CONNECT is, whether the player may be in the game. `Dialing` says that
there is one dial at a time and no present session meanwhile, so callbacks of an earlier
connection find `ui.client` changed. `ResponsesMatch`, `PollingIsRight` and
`LeavesOnlyForReason` follow.

*Induction.* The library's induction theorems take an operator as parameter, which the
provers here cannot instantiate. `ListsProofs` states them for a set instead:
`NaturalsGrow` (a set of naturals that contains 0 and the successor of each of its members
is all of them) and `FiniteSetsGrow`. So what `Selected` keeps of any list, and what a sum
over any finite set is, is proved. `Selected` is written as a recursive function because
`SelectSeq` has no definition the provers know; item effects and counters are assumed to
be finitely many, since their sums and their maximum have no meaning otherwise.

Only model-checked: liveness (`HandlersReturn`, `GoneAreRemoved`, `RepliesEnd`,
`CloseCompletes`, `LinesArrive`, `NeverHangs`, `LostIsNoticed`, `ViewCatchesUp`), because
the prover does not do fairness or ENABLED.

The type invariant of `Adventure` is a theorem and checked in a run. Those of the other
modules are parts of the inductive invariants.

## Where code and documentation disagree

- **A stale record is installed** (`ledger_stale_record`, `server.go:84-114`). Two
  connections CONNECT as one name; the second has read the record, the first plays, takes
  or drops an item, and quits; then the second installs what it read. An item described as
  existing "once in the whole world" (README.md:100) is lost, or is in a room and in an
  inventory at once.
- **A restart takes an item from its holder** (`ledger_holder_lost`, `server.go:510`). TAKE
  changes memory only. README.md:100 says that who holds an item "is saved and survives a
  server restart"; that is true from the holder's next DROP, death or leave on. What does
  hold is `KeepsPromise`: the item is in a room again and with nobody else.
- **A quest already fulfilled may stay open** (`adventure_unanswered`, `quest.go:162`). If
  the response to QUEST finds the queue full, the quest is active but not completed, and a
  later QUEST does not look again. README.md:89 says it "completes immediately". With
  responses that always fit, `MetIsCounted` holds.

## Not modelled

- Reads: STATE, LOOK, STATUS, INVENTORY, MAP and the like change nothing but what
  `regenLocked` settles, which is `Vitals`' `Look`. What STATE shows is what the other
  modules keep.
- CHAT and the narration of fights: they go to the recipients that presence events go to,
  and no state depends on them. Texts, languages, hints, art and JSON layout.
- `noteConnection`: the same sliding window as `record`, with a list for each address.
  Those lists are never removed, which is noted under the hazards.
- Numbers of a blow: dice and damage are a choice in `Adventure`; what counters cost is in
  `Vitals`.
- World data: loading and `validate` are sequential checks of one file at start-up. What
  they guarantee is what `Adventure` assumes.
- Start-up flags, the listener and the accept loop: other modules take connections as
  given, and they may appear and fail at any time.
- In the GUI, the merging of the player's own fight narration and of death lines, and all
  drawing: nothing is sent because of them.

## Plan

Done, the most important behaviour first: `ItemLedger` and its abstract specification,
`Groups`, `ClientConn` and `Adventure`, `Presence` on `Groups`, `Vitals` and
`FloodTracker` composed in `Timing`, `CliClient` and `GuiClient`, each with its theorems:
every invariant and every action property that a run checks is proved.

Left, in this order:

1. **CliClient** and **GuiClient** on top of `ClientConn`: their server is modelled as
   what answers in order; `EventChannel` is that promise, and neither client's module
   uses it yet.
2. **Adventure** and **Groups** composed: companions that are members of one group. Today
   every set of companions is admitted, which covers that case.
3. **Vitals** and **Adventure** composed: one model in which a counter's points decide
   whether it kills. Today the choice in `Adventure` admits both.
