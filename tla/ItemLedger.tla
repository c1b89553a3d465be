------------------------------ MODULE ItemLedger ------------------------------
(***************************************************************************)
(* Who owns what: the server's players and items in memory, the two files  *)
(* they are saved in, and the connection handlers that change both.        *)
(*                                                                         *)
(* A handler goroutine serves one connection.  It takes s.mu for the state *)
(* in memory and s.ioMu for the files, in that order when it needs both.   *)
(* A handler that holds s.mu across file writes (DROP, a death) takes one  *)
(* step per write, so the process may be killed between two writes; a      *)
(* critical section that writes at most one file is one step, because the  *)
(* write is a rename.  A connection slot is used again once it is closed.  *)
(*                                                                         *)
(* Not here: what makes a player die or move where it does (combat,        *)
(* hazards, exits), and every field of a player but inventory and room.    *)
(***************************************************************************)
EXTENDS FiniteSets, Naturals

CONSTANTS
    Conns,              \* connection slots, one handler goroutine each
    Names,              \* player names
    Rooms,
    Start,              \* world.StartRoomID
    Unique,             \* obtainable items that are not renewable
    Renewable,          \* renewable items: every player may hold one
    Lethal,             \* items whose TAKE kills (the lotus, the cattle)
    Home,               \* where the world file puts each item (HomeRoomID)
    Nobody, NoName, NoItem, Nowhere,
    ConcurrentConnects  \* TRUE: two CONNECTs for one name may be in progress

Items == Unique \cup Renewable

ASSUME NoneAssumption ==
    /\ Nobody \notin Conns
    /\ NoName \notin Names
    /\ NoItem \notin Items
    /\ Nowhere \notin Rooms

ASSUME WorldAssumption ==
    /\ Start \in Rooms
    /\ Unique \cap Renewable = {}
    /\ Lethal \subseteq Items
    /\ Home \in [Items -> Rooms]
    /\ Names \cap Rooms = {}
    /\ ConcurrentConnects \in BOOLEAN

VARIABLES
    server,     \* "up", "down", or "refused": NewServer ended in fatal()
    pc,         \* where each handler is
    user,       \* the handler's name; the requested name while it connects
    gone,       \* connections whose command loop has ended
    snapInv,    \* the record a handler loaded, or the snapshot it will save
    snapRoom,
    dropping,   \* the item of the DROP that holds s.mu
    undo,       \* the locations to put back if the players file fails
    online,     \* DOMAIN s.players
    exiting,    \* players with exiting set
    inv,        \* Player.Inventory
    room,       \* Player.RoomID
    roomOf,     \* Item.RoomID, Nowhere for ""
    unsaved,    \* s.unsavedTakes
    savedInv,   \* playerdata.json; a player without record has a fresh one
    savedRoom,
    savedLoc,   \* itemdata.json; Nowhere for an item it does not list
    mu,         \* who holds s.mu across steps
    ioMu,       \* who holds s.ioMu across steps
    torn        \* history: items whose location file a failed rollback left wrong

locals == <<pc, user, gone, snapInv, snapRoom, dropping, undo>>
memory == <<online, exiting, inv, room, roomOf, unsaved>>
disk   == <<savedInv, savedRoom, savedLoc>>
locks  == <<mu, ioMu>>
vars   == <<server, locals, memory, disk, locks, torn>>

Steps == {"idle", "load", "install", "announce",
          "drop", "drop_items", "drop_players", "drop_rollback", "drop_done",
          "die", "die_items", "die_players", "die_rollback", "die_done",
          "save", "saved", "unsaved", "evict"}

NoTakes == [i \in Items |-> Nowhere]
NoUndo  == [i \in Items |-> Nowhere]

-------------------------------------------------------------------------------
(* What a player and a restart see.                                        *)

\* Mutant: a unique item is offered where it first lay, like a renewable one.
AvailableToMutant(n, i) ==
    /\ Home[i] = room[n]
    /\ i \notin inv[n]

\* Item.availableTo: in the player's room, and a renewable one not held yet.
AvailableTo(n, i) ==
    /\ roomOf[i] = room[n]
    /\ i \in Renewable => i \notin inv[n]

\* Where restoreItemLocations puts an item nobody's record holds.
SavedRoomOf(i) == IF savedLoc[i] = Nowhere THEN Home[i] ELSE savedLoc[i]

SavedOwners(i) == {n \in Names : i \in savedInv[n]}

\* Item.RoomID after NewServer: ownership wins over the location file.
RestoredRoomOf(i) ==
    IF i \in Unique /\ SavedOwners(i) # {} THEN Nowhere
    ELSE IF i \in Renewable THEN Home[i] ELSE SavedRoomOf(i)

\* restoreItemOwnership refuses a unique item in two saved inventories.
OwnedTwice == \E i \in Unique : \E m, n \in SavedOwners(i) : m # n

-------------------------------------------------------------------------------
(* Critical sections.                                                      *)

MuFree == mu = Nobody
IoFree == ioMu = Nobody

\* A handler that waits for a command of its client.
Waiting(c) == server = "up" /\ pc[c] = "idle" /\ c \notin gone

\* playerForUpdateLocked: the player is there and not being saved.
Updatable(n) == n \in online \ exiting

\* A command of a connected player that has entered its critical section.
Commands(c) == Waiting(c) /\ user[c] # NoName /\ MuFree /\ Updatable(user[c])

At(c, step) == server = "up" /\ pc[c] = step
Goto(c, step) == pc' = [pc EXCEPT ![c] = step]

\* The end of a handler: the response was enqueued, or the queue was full.
Reply(c) == Goto(c, "idle") /\ gone' \in {gone, gone \cup {c}}

Init ==
    /\ server = "up"
    /\ pc = [c \in Conns |-> "idle"]
    /\ user = [c \in Conns |-> NoName]
    /\ gone = {}
    /\ snapInv = [c \in Conns |-> {}]
    /\ snapRoom = [c \in Conns |-> Start]
    /\ dropping = NoItem
    /\ undo = NoUndo
    /\ online = {}
    /\ exiting = {}
    /\ inv = [n \in Names |-> {}]
    /\ room = [n \in Names |-> Start]
    /\ roomOf = Home
    /\ unsaved = [n \in Names |-> NoTakes]
    /\ savedInv = [n \in Names |-> {}]
    /\ savedRoom = [n \in Names |-> Start]
    /\ savedLoc = [i \in Items |-> Nowhere]
    /\ mu = Nobody
    /\ ioMu = Nobody
    /\ torn = {}

-------------------------------------------------------------------------------
(* CONNECT: connectPlayer's three critical sections, then handleConnect's. *)

\* Mutant: connectPlayer does not look into s.players.
NameFreeMutant(n) == TRUE

NameFree(n) == n \notin online

\* Is some handler between connectPlayer's first and last critical section?
Connecting(n) == \E c \in Conns : pc[c] \in {"load", "install"} /\ user[c] = n

ConnectCheck(c, n) ==
    /\ Waiting(c) /\ user[c] = NoName /\ MuFree
    /\ NameFree(n)
    /\ ConcurrentConnects \/ ~Connecting(n)
    /\ user' = [user EXCEPT ![c] = n]
    /\ Goto(c, "load")
    /\ UNCHANGED <<server, gone, snapInv, snapRoom, dropping, undo, memory,
                   disk, locks, torn>>

\* The record is read (or created empty: the same content) under ioMu only.
ConnectLoad(c) ==
    /\ At(c, "load") /\ IoFree
    /\ snapInv' = [snapInv EXCEPT ![c] = savedInv[user[c]]]
    /\ snapRoom' = [snapRoom EXCEPT ![c] = savedRoom[user[c]]]
    /\ Goto(c, "install")
    /\ UNCHANGED <<server, user, gone, dropping, undo, memory, disk, locks,
                   torn>>

\* The file cannot be read, or the new record cannot be written: ERR 500.
ConnectLoadFails(c) ==
    /\ At(c, "load") /\ IoFree
    /\ user' = [user EXCEPT ![c] = NoName]
    /\ Goto(c, "idle")
    /\ UNCHANGED <<server, gone, snapInv, snapRoom, dropping, undo, memory,
                   disk, locks, torn>>

ForgetSnapshot(c) ==
    /\ snapInv' = [snapInv EXCEPT ![c] = {}]
    /\ snapRoom' = [snapRoom EXCEPT ![c] = Start]

ConnectInstall(c) ==
    /\ At(c, "install") /\ MuFree
    /\ NameFree(user[c])
    /\ online' = online \cup {user[c]}
    /\ inv' = [inv EXCEPT ![user[c]] = snapInv[c]]
    /\ room' = [room EXCEPT ![user[c]] = snapRoom[c]]
    /\ ForgetSnapshot(c)
    /\ Goto(c, "announce")
    /\ UNCHANGED <<server, user, gone, dropping, undo, exiting, roomOf,
                   unsaved, disk, locks, torn>>

\* Another connection took the name meanwhile: ERR 201.
ConnectRefused(c) ==
    /\ At(c, "install") /\ MuFree
    /\ ~NameFree(user[c])
    /\ user' = [user EXCEPT ![c] = NoName]
    /\ ForgetSnapshot(c)
    /\ Goto(c, "idle")
    /\ UNCHANGED <<server, gone, dropping, undo, memory, disk, locks, torn>>

ConnectAnnounce(c) ==
    /\ At(c, "announce") /\ MuFree
    /\ Reply(c)
    /\ UNCHANGED <<server, user, snapInv, snapRoom, dropping, undo, memory,
                   disk, locks, torn>>

-------------------------------------------------------------------------------
(* MOVE, TAKE.                                                             *)

Move(c, r) ==
    /\ Commands(c)
    /\ r # room[user[c]]
    /\ room' = [room EXCEPT ![user[c]] = r]
    /\ UNCHANGED <<server, locals, online, exiting, inv, roomOf, unsaved,
                   disk, locks, torn>>

\* TAKE changes memory only; unsavedTakes notes where a unique item lay.
TakeItem(n, i) ==
    /\ inv' = [inv EXCEPT ![n] = @ \cup {i}]
    /\ IF i \in Unique
       THEN /\ unsaved' = [unsaved EXCEPT ![n][i] = room[n]]
            /\ roomOf' = [roomOf EXCEPT ![i] = Nowhere]
       ELSE UNCHANGED <<unsaved, roomOf>>

Take(c, i) ==
    /\ Commands(c)
    /\ AvailableTo(user[c], i)
    /\ TakeItem(user[c], i)
    /\ \/ /\ i \notin Lethal
          /\ Reply(c)
          /\ UNCHANGED mu
       \/ /\ i \in Lethal       \* the response was enqueued: the taker dies
          /\ Goto(c, "die")
          /\ mu' = c
          /\ UNCHANGED gone
       \/ /\ i \in Lethal       \* it was not: applyTakeConsequences is skipped
          /\ gone' = gone \cup {c}
          /\ UNCHANGED <<pc, mu>>
    /\ UNCHANGED <<server, user, snapInv, snapRoom, dropping, undo, online,
                   exiting, room, disk, ioMu, torn>>

-------------------------------------------------------------------------------
(* DROP holds s.mu to its end and s.ioMu around the file writes.           *)

DropBegin(c, i) ==
    /\ Commands(c)
    /\ i \in inv[user[c]]
    /\ i \in Unique => roomOf[i] = Nowhere
    /\ mu' = c
    /\ dropping' = i
    /\ Goto(c, "drop")
    /\ UNCHANGED <<server, user, gone, snapInv, snapRoom, undo, memory, disk,
                   ioMu, torn>>

DropLockFiles(c) ==
    /\ At(c, "drop") /\ IoFree
    /\ ioMu' = c
    /\ undo' = savedLoc
    /\ Goto(c, IF dropping \in Unique THEN "drop_items" ELSE "drop_players")
    /\ UNCHANGED <<server, user, gone, snapInv, snapRoom, dropping, memory,
                   disk, mu, torn>>

DropWriteItems(c) ==
    /\ At(c, "drop_items")
    /\ savedLoc' = [savedLoc EXCEPT ![dropping] = room[user[c]]]
    /\ Goto(c, "drop_players")
    /\ UNCHANGED <<server, user, gone, snapInv, snapRoom, dropping, undo,
                   memory, savedInv, savedRoom, locks, torn>>

\* Mutant: an early return forgets s.ioMu.Unlock().
DropGivesUpMutant(c) ==
    /\ mu' = Nobody
    /\ dropping' = NoItem
    /\ undo' = NoUndo
    /\ Goto(c, "idle")
    /\ UNCHANGED <<server, user, gone, snapInv, snapRoom, memory, ioMu>>

\* Back to the command loop with both locks released: ERR 500 STATE_ERROR.
DropGivesUp(c) ==
    /\ mu' = Nobody
    /\ ioMu' = Nobody
    /\ dropping' = NoItem
    /\ undo' = NoUndo
    /\ Goto(c, "idle")
    /\ UNCHANGED <<server, user, gone, snapInv, snapRoom, memory>>

DropItemsFail(c) ==
    /\ At(c, "drop_items")
    /\ DropGivesUp(c)
    /\ UNCHANGED <<disk, torn>>

DropSnapshot(n) == inv[n] \ {dropping}

DropWritePlayers(c) ==
    /\ At(c, "drop_players")
    /\ savedInv' = [savedInv EXCEPT ![user[c]] = DropSnapshot(user[c])]
    /\ savedRoom' = [savedRoom EXCEPT ![user[c]] = room[user[c]]]
    /\ ioMu' = Nobody
    /\ undo' = NoUndo
    /\ Goto(c, "drop_done")
    /\ UNCHANGED <<server, user, gone, snapInv, snapRoom, dropping, memory,
                   savedLoc, mu, torn>>

DropPlayersFail(c) ==
    /\ At(c, "drop_players")
    /\ IF dropping \in Unique
       THEN /\ Goto(c, "drop_rollback")
            /\ UNCHANGED <<server, user, gone, snapInv, snapRoom, dropping,
                           undo, memory, locks>>
       ELSE DropGivesUp(c)
    /\ UNCHANGED <<disk, torn>>

\* Mutant: the rollback deletes the entry even if there was one before.
UndoneLocMutant == [savedLoc EXCEPT ![dropping] = Nowhere]

UndoneLoc == undo

DropRollback(c) ==
    /\ At(c, "drop_rollback")
    /\ savedLoc' = UndoneLoc
    /\ DropGivesUp(c)
    /\ UNCHANGED <<savedInv, savedRoom, torn>>

\* The error of the rollback is only logged.
DropRollbackFails(c) ==
    /\ At(c, "drop_rollback")
    /\ torn' = torn \cup {dropping}
    /\ DropGivesUp(c)
    /\ UNCHANGED disk

\* Mutant: only the take of the dropped item is forgotten.
DropSettlesMutant(n) == unsaved' = [unsaved EXCEPT ![n][dropping] = Nowhere]

\* delete(s.unsavedTakes, name): the whole snapshot has just been saved.
DropSettles(n) == unsaved' = [unsaved EXCEPT ![n] = NoTakes]

DropDone(c) ==
    /\ At(c, "drop_done")
    /\ inv' = [inv EXCEPT ![user[c]] = DropSnapshot(user[c])]
    /\ roomOf' = IF dropping \in Unique
                 THEN [roomOf EXCEPT ![dropping] = room[user[c]]] ELSE roomOf
    /\ DropSettles(user[c])
    /\ torn' = torn \ {dropping}
    /\ mu' = Nobody
    /\ dropping' = NoItem
    /\ Reply(c)
    /\ UNCHANGED <<server, user, snapInv, snapRoom, undo, online, exiting,
                   room, disk, ioMu>>

-------------------------------------------------------------------------------
(* A death: applyDeathPenaltyLocked and the respawn, under s.mu.           *)

\* The unique items among the belongings that are lost.
LostUnique(n) == inv[n] \cap Unique

Respawn(n) == room' = [room EXCEPT ![n] = Start]

\* Combat, a hazard or a talk kills the player (see Take for the lotus).
DieBegin(c) ==
    /\ Commands(c)
    /\ mu' = c
    /\ Goto(c, "die")
    /\ UNCHANGED <<server, user, gone, snapInv, snapRoom, dropping, undo,
                   memory, disk, ioMu, torn>>

\* The handler ends without a change to belongings: nothing to lose, a group
\* member in the room, or files that cannot be read or written.
DieKeepsAll(c) ==
    /\ Respawn(user[c])
    /\ mu' = Nobody
    /\ ioMu' = Nobody
    /\ undo' = NoUndo
    /\ Reply(c)
    /\ UNCHANGED <<server, user, snapInv, snapRoom, dropping, online, exiting,
                   inv, roomOf, unsaved>>

\* Whether an ally stands in the room is the Groups module's business.
DieProtected(c) ==
    /\ At(c, "die")
    /\ DieKeepsAll(c)
    /\ UNCHANGED <<disk, torn>>

DieLockFiles(c) ==
    /\ At(c, "die") /\ IoFree
    /\ inv[user[c]] # {}
    /\ ioMu' = c
    /\ undo' = savedLoc
    /\ Goto(c, IF LostUnique(user[c]) = {} THEN "die_players" ELSE "die_items")
    /\ UNCHANGED <<server, user, gone, snapInv, snapRoom, dropping, memory,
                   disk, mu, torn>>

DieWriteItems(c) ==
    /\ At(c, "die_items")
    /\ savedLoc' = [i \in Items |->
                      IF i \in LostUnique(user[c]) THEN Home[i] ELSE savedLoc[i]]
    /\ Goto(c, "die_players")
    /\ UNCHANGED <<server, user, gone, snapInv, snapRoom, dropping, undo,
                   memory, savedInv, savedRoom, locks, torn>>

DieItemsFail(c) ==
    /\ At(c, "die_items")
    /\ DieKeepsAll(c)
    /\ UNCHANGED <<disk, torn>>

\* Mutant: the saved record keeps what the player lost.
SavedAfterDeathMutant(n) == savedInv[n]

\* The saved record loses what the player lost; its room stays as saved.
SavedAfterDeath(n) == savedInv[n] \ inv[n]

DieWritePlayers(c) ==
    /\ At(c, "die_players")
    /\ savedInv' = [savedInv EXCEPT ![user[c]] = SavedAfterDeath(user[c])]
    /\ Goto(c, "die_done")
    /\ UNCHANGED <<server, user, gone, snapInv, snapRoom, dropping, undo,
                   memory, savedRoom, savedLoc, locks, torn>>

DiePlayersFail(c) ==
    /\ At(c, "die_players")
    /\ IF LostUnique(user[c]) # {}
       THEN /\ Goto(c, "die_rollback")
            /\ UNCHANGED <<server, user, gone, snapInv, snapRoom, dropping,
                           undo, memory, locks>>
       ELSE DieKeepsAll(c)
    /\ UNCHANGED <<disk, torn>>

DieRollback(c) ==
    /\ At(c, "die_rollback")
    /\ savedLoc' = undo
    /\ DieKeepsAll(c)
    /\ UNCHANGED <<savedInv, savedRoom, torn>>

DieRollbackFails(c) ==
    /\ At(c, "die_rollback")
    /\ torn' = torn \cup LostUnique(user[c])
    /\ DieKeepsAll(c)
    /\ UNCHANGED disk

ReturnHome(n) ==
    /\ roomOf' = [i \in Items |-> IF i \in LostUnique(n) THEN Home[i] ELSE roomOf[i]]
    /\ unsaved' = [unsaved EXCEPT ![n] =
                     [i \in Items |-> IF i \in LostUnique(n) THEN Nowhere ELSE @[i]]]

DieDone(c) ==
    /\ At(c, "die_done")
    /\ ReturnHome(user[c])
    /\ inv' = [inv EXCEPT ![user[c]] = {}]
    /\ torn' = torn \ LostUnique(user[c])
    /\ Respawn(user[c])
    /\ mu' = Nobody
    /\ ioMu' = Nobody
    /\ undo' = NoUndo
    /\ Reply(c)
    /\ UNCHANGED <<server, user, snapInv, snapRoom, dropping, online, exiting,
                   disk>>

-------------------------------------------------------------------------------
(* QUIT and the end of a connection: saveAndRemovePlayer.                  *)

\* The socket fails or the client closes it: the command loop ends.
EndOfInput(c) ==
    /\ Waiting(c)
    /\ gone' = gone \cup {c}
    /\ UNCHANGED <<server, pc, user, snapInv, snapRoom, dropping, undo, memory,
                   disk, locks, torn>>

\* The slot of a closed connection can be used by a new one.
CloseSlot(c) == user' = [user EXCEPT ![c] = NoName] /\ gone' = gone \ {c}

Close(c) ==
    /\ At(c, "idle") /\ c \in gone /\ user[c] = NoName
    /\ CloseSlot(c)
    /\ UNCHANGED <<server, pc, snapInv, snapRoom, dropping, undo, memory,
                   disk, locks, torn>>

\* Mutant: a lost connection tries to save until it succeeds.
AfterErrorMutant(c) == "idle"

\* An error of saveAndRemovePlayer: a QUIT reports ERR 500, a lost connection
\* goes on to remove the player without saving.
AfterError(c) == IF c \in gone THEN "evict" ELSE "idle"

\* From QUIT, or from the deferred call once the command loop has ended.  The
\* player not there, or exiting already, is an error.
SaveBegin(c) ==
    /\ At(c, "idle") /\ user[c] # NoName /\ MuFree
    /\ IF Updatable(user[c])
       THEN /\ exiting' = exiting \cup {user[c]}
            /\ snapInv' = [snapInv EXCEPT ![c] = inv[user[c]]]
            /\ snapRoom' = [snapRoom EXCEPT ![c] = room[user[c]]]
            /\ Goto(c, "save")
       ELSE /\ Goto(c, AfterError(c))
            /\ UNCHANGED <<exiting, snapInv, snapRoom>>
    /\ UNCHANGED <<server, user, gone, dropping, undo, online, inv, room,
                   roomOf, unsaved, disk, locks, torn>>

SaveWrite(c) ==
    /\ At(c, "save") /\ IoFree
    /\ savedInv' = [savedInv EXCEPT ![user[c]] = snapInv[c]]
    /\ savedRoom' = [savedRoom EXCEPT ![user[c]] = snapRoom[c]]
    /\ ForgetSnapshot(c)
    /\ Goto(c, "saved")
    /\ UNCHANGED <<server, user, gone, dropping, undo, memory, savedLoc, locks,
                   torn>>

SaveWriteFails(c) ==
    /\ At(c, "save") /\ IoFree
    /\ ForgetSnapshot(c)
    /\ Goto(c, "unsaved")
    /\ UNCHANGED <<server, user, gone, dropping, undo, memory, disk, locks,
                   torn>>

\* removePlayerLocked on the player's own entries.
RemovePlayer(n) ==
    /\ online' = online \ {n}
    /\ exiting' = exiting \ {n}
    /\ inv' = [inv EXCEPT ![n] = {}]
    /\ room' = [room EXCEPT ![n] = Start]
    /\ unsaved' = [unsaved EXCEPT ![n] = NoTakes]

SaveRemove(c) ==
    /\ At(c, "saved") /\ MuFree
    /\ RemovePlayer(user[c])
    /\ CloseSlot(c)
    /\ Goto(c, "idle")
    /\ UNCHANGED <<server, snapInv, snapRoom, dropping, undo, roomOf, disk,
                   locks, torn>>

ClearExiting(n) == exiting' = exiting \ {n}

\* The player may act again.
SaveAbort(c) ==
    /\ At(c, "unsaved") /\ MuFree
    /\ ClearExiting(user[c])
    /\ Goto(c, AfterError(c))
    /\ UNCHANGED <<server, user, gone, snapInv, snapRoom, dropping, undo,
                   online, inv, room, roomOf, unsaved, disk, locks, torn>>

\* Mutant: nothing is put back.
RestorableMutant(n) == {}

\* The unsaved takes that removePlayerLocked(name, true) puts back.
Restorable(n) ==
    {i \in inv[n] \cap Unique : unsaved[n][i] # Nowhere /\ roomOf[i] = Nowhere}

Evict(c) ==
    /\ At(c, "evict") /\ MuFree
    /\ roomOf' = [i \in Items |-> IF i \in Restorable(user[c])
                                  THEN unsaved[user[c]][i] ELSE roomOf[i]]
    /\ RemovePlayer(user[c])
    /\ CloseSlot(c)
    /\ Goto(c, "idle")
    /\ UNCHANGED <<server, snapInv, snapRoom, dropping, undo, disk, locks, torn>>

-------------------------------------------------------------------------------
(* The process is killed, and started again by NewServer.                  *)

ResetLocals ==
    /\ pc' = [c \in Conns |-> "idle"]
    /\ user' = [c \in Conns |-> NoName]
    /\ gone' = {}
    /\ snapInv' = [c \in Conns |-> {}]
    /\ snapRoom' = [c \in Conns |-> Start]
    /\ dropping' = NoItem
    /\ undo' = NoUndo
    /\ mu' = Nobody
    /\ ioMu' = Nobody

ResetMemory ==
    /\ online' = {}
    /\ exiting' = {}
    /\ inv' = [n \in Names |-> {}]
    /\ room' = [n \in Names |-> Start]
    /\ roomOf' = Home
    /\ unsaved' = [n \in Names |-> NoTakes]

Crash ==
    /\ server = "up"
    /\ server' = "down"
    /\ ResetLocals
    /\ ResetMemory
    /\ torn' = {}
    /\ UNCHANGED disk

Restart ==
    /\ server = "down"
    /\ ~OwnedTwice
    /\ server' = "up"
    /\ roomOf' = [i \in Items |-> RestoredRoomOf(i)]
    /\ UNCHANGED <<locals, online, exiting, inv, room, unsaved, disk, locks, torn>>

RestartRefused ==
    /\ server = "down"
    /\ OwnedTwice
    /\ server' = "refused"
    /\ UNCHANGED <<locals, memory, disk, locks, torn>>

-------------------------------------------------------------------------------
Connect(c) ==
    \/ \E n \in Names : ConnectCheck(c, n)
    \/ ConnectLoad(c) \/ ConnectLoadFails(c)
    \/ ConnectInstall(c) \/ ConnectRefused(c) \/ ConnectAnnounce(c)

Drop(c) ==
    \/ \E i \in Items : DropBegin(c, i)
    \/ DropLockFiles(c)
    \/ DropWriteItems(c) \/ DropItemsFail(c)
    \/ DropWritePlayers(c) \/ DropPlayersFail(c)
    \/ DropRollback(c) \/ DropRollbackFails(c)
    \/ DropDone(c)

Die(c) ==
    \/ DieBegin(c) \/ DieProtected(c) \/ DieLockFiles(c)
    \/ DieWriteItems(c) \/ DieItemsFail(c)
    \/ DieWritePlayers(c) \/ DiePlayersFail(c)
    \/ DieRollback(c) \/ DieRollbackFails(c)
    \/ DieDone(c)

Leave(c) ==
    \/ EndOfInput(c) \/ Close(c)
    \/ SaveBegin(c) \/ SaveWrite(c) \/ SaveWriteFails(c)
    \/ SaveRemove(c) \/ SaveAbort(c) \/ Evict(c)

Handler(c) ==
    \/ Connect(c)
    \/ \E r \in Rooms : Move(c, r)
    \/ \E i \in Items : Take(c, i)
    \/ Drop(c) \/ Die(c) \/ Leave(c)

Next == (\E c \in Conns : Handler(c)) \/ Crash \/ Restart \/ RestartRefused

Spec == Init /\ [][Next]_vars

\* What a handler does on its own once a command began or its client left.
Progress(c) ==
    \/ ConnectLoad(c) \/ ConnectLoadFails(c)
    \/ ConnectInstall(c) \/ ConnectRefused(c) \/ ConnectAnnounce(c)
    \/ DropLockFiles(c)
    \/ DropWriteItems(c) \/ DropItemsFail(c)
    \/ DropWritePlayers(c) \/ DropPlayersFail(c)
    \/ DropRollback(c) \/ DropRollbackFails(c) \/ DropDone(c)
    \/ DieProtected(c) \/ DieLockFiles(c)
    \/ DieWriteItems(c) \/ DieItemsFail(c)
    \/ DieWritePlayers(c) \/ DiePlayersFail(c)
    \/ DieRollback(c) \/ DieRollbackFails(c) \/ DieDone(c)
    \/ Close(c) \/ (c \in gone /\ SaveBegin(c))
    \/ SaveWrite(c) \/ SaveWriteFails(c)
    \/ SaveRemove(c) \/ SaveAbort(c) \/ Evict(c)

\* sync.Mutex hands the lock to a waiter that starves, so a section that is
\* free again and again is entered: strong fairness, one handler at a time.
FairSpec == Spec /\ \A c \in Conns : SF_vars(Progress(c))

-------------------------------------------------------------------------------
(* Properties.                                                             *)

TypeOK ==
    /\ server \in {"up", "down", "refused"}
    /\ pc \in [Conns -> Steps]
    /\ user \in [Conns -> Names \cup {NoName}]
    /\ gone \subseteq Conns
    /\ snapInv \in [Conns -> SUBSET Items]
    /\ snapRoom \in [Conns -> Rooms]
    /\ dropping \in Items \cup {NoItem}
    /\ undo \in [Items -> Rooms \cup {Nowhere}]
    /\ online \subseteq Names
    /\ exiting \subseteq online
    /\ inv \in [Names -> SUBSET Items]
    /\ room \in [Names -> Rooms]
    /\ roomOf \in [Items -> Rooms \cup {Nowhere}]
    /\ unsaved \in [Names -> [Items -> Rooms \cup {Nowhere}]]
    /\ savedInv \in [Names -> SUBSET Items]
    /\ savedRoom \in [Names -> Rooms]
    /\ savedLoc \in [Items -> Rooms \cup {Nowhere}]
    /\ mu \in Conns \cup {Nobody}
    /\ ioMu \in Conns \cup {Nobody}
    /\ torn \subseteq Unique

\* The handlers that serve a connected player.
Bound(c) == user[c] # NoName /\ pc[c] \notin {"load", "install"}

\* Every connected player is served by exactly one connection, and is marked
\* as exiting exactly while that connection saves it: so a handler always
\* finds its own player, whatever other connections ask for the same name.
OneSession ==
    /\ \A c, d \in Conns : Bound(c) /\ Bound(d) /\ user[c] = user[d] => c = d
    /\ online = {user[c] : c \in {d \in Conns : Bound(d)}}
    /\ exiting = {user[c] : c \in {d \in Conns :
                                     pc[d] \in {"save", "saved", "unsaved"}}}

\* What a player holds: in memory while connected, in its record otherwise.
Belongings(n) == IF n \in online THEN inv[n] ELSE savedInv[n]

Holders(i) == {n \in Names : i \in Belongings(n)}

\* A one-of-a-kind item lies in one room and nobody holds it, or it lies in
\* none and exactly one player holds it (README: "exist once in the whole
\* world"), whatever CONNECT, TAKE, DROP, deaths and failed saves interleave.
ExistsOnce ==
    server = "up" =>
        \A i \in Unique :
            /\ roomOf[i] # Nowhere => Holders(i) = {}
            /\ roomOf[i] = Nowhere => \E n \in Names : Holders(i) = {n}

\* A restart never gives a player anything the player does not hold at the
\* moment the process is killed: no saved record lists an item that its player
\* has dropped, lost in a death, or put back by leaving unsaved.
NothingComesBack ==
    server = "up" => \A n \in Names : savedInv[n] \subseteq Belongings(n)

\* The files never name two owners of one item, so NewServer always starts.
RestartAccepted == server # "refused" /\ ~OwnedTwice

\* A one-of-a-kind item that lies in a room is found in that room after a
\* restart, unless the rollback of a failed DROP or death failed as well.
FloorSurvives ==
    server = "up" =>
        \A i \in Unique \ torn :
            roomOf[i] # Nowhere => RestoredRoomOf(i) = roomOf[i]

\* The players whose record or location file is being replaced right now.
Settling(n) ==
    \E c \in Conns : user[c] = n /\ pc[c] \in {"saved", "drop_done", "die_done"}

\* unsavedTakes lists exactly the one-of-a-kind items that a player holds and
\* its record does not, so a failed save at disconnect (Evict) puts back every
\* item that nobody would own any more, and no other.
TakesTracked ==
    server = "up" =>
        \A n \in online : ~Settling(n) =>
            {i \in Items : unsaved[n][i] # Nowhere} = LostUnique(n) \ savedInv[n]

\* Where an item is: in memory while the server runs, in the files otherwise.
Place(i) ==
    LET holders == IF server = "up" THEN Holders(i) ELSE SavedOwners(i)
        onFloor == IF server = "up" THEN roomOf[i] ELSE RestoredRoomOf(i)
    IN  IF onFloor # Nowhere THEN onFloor ELSE CHOOSE n \in Names : n \in holders

Promise == INSTANCE UniqueItems WITH
    Items <- Unique,
    Home <- [i \in Unique |-> Home[i]],
    place <- [i \in Unique |-> Place(i)]

\* The ledger implements the promise: no step of a handler, no failure and no
\* restart moves an item from one player to another or into two places.
KeepsPromise == Promise!Spec

\* What README.md says of a restart: "who holds it, is saved and survives".
HolderSurvives ==
    [][\A i \in Unique, n \in Names :
          server = "up" /\ server' = "down" /\ Place(i) = n => Place(i)' = n]_vars

\* A handler always comes back to its command loop: file errors, rollbacks and
\* waiting for s.mu and s.ioMu never leave it stuck.
HandlersReturn == \A c \in Conns : pc[c] # "idle" ~> pc[c] = "idle"

\* A lost connection is cleaned up: its player leaves the world even if saving
\* fails, and the name can be used again.
GoneAreRemoved == \A c \in Conns : c \in gone ~> c \notin gone
===============================================================================
