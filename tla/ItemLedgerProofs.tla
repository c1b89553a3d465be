--------------------------- MODULE ItemLedgerProofs ---------------------------
(***************************************************************************)
(* The sessions and locks of the ledger; on top of them, its safety; on    *)
(* top of that, that the floors survive a restart, and that the ledger     *)
(* implements UniqueItems.                                                 *)
(***************************************************************************)
EXTENDS ItemLedger, TLAPS

(***************************************************************************)
(* Sessions and locks, for any number of connections, players and items    *)
(* and for connections that may ask for one name at the same moment: every *)
(* connected player is served by one handler, and the two mutexes are held *)
(* exactly by the handlers whose step says so.                             *)
(***************************************************************************)

\* A process that does not run serves nobody and holds no lock.
Stopped ==
    server # "up" =>
        /\ \A c \in Conns : pc[c] = "idle" /\ user[c] = NoName
        /\ mu = Nobody /\ ioMu = Nobody

\* A handler in the middle of a command serves, or connects, somebody.
Named == \A c \in Conns : pc[c] # "idle" => user[c] # NoName

MuSteps == {"drop", "drop_items", "drop_players", "drop_rollback", "drop_done",
            "die", "die_items", "die_players", "die_rollback", "die_done"}

IoSteps == {"drop_items", "drop_players", "drop_rollback",
            "die_items", "die_players", "die_rollback", "die_done"}

\* s.mu and s.ioMu are held across steps by the one handler that is at such a
\* step; every way out of DROP and of a death releases both.
LocksHeld ==
    \A c \in Conns : /\ mu = c <=> pc[c] \in MuSteps
                     /\ ioMu = c <=> pc[c] \in IoSteps

\* Only a one-of-a-kind item is written to, or rolled back in, itemdata.json.
DropsUnique ==
    \A c \in Conns : pc[c] \in {"drop_items", "drop_rollback"} => dropping \in Unique

Saving == {"save", "saved", "unsaved"}

\* OneSession, name by name.
Sessions ==
    /\ \A c, d \in Conns : Bound(c) /\ Bound(d) /\ user[c] = user[d] => c = d
    /\ \A n \in Names : n \in online <=> \E c \in Conns : Bound(c) /\ user[c] = n
    /\ \A n \in Names : n \in exiting <=> \E c \in Conns : pc[c] \in Saving /\ user[c] = n

Control == Stopped /\ Named /\ LocksHeld /\ DropsUnique

SessionInv == TypeOK /\ Sessions /\ Control

USE NoneAssumption, WorldAssumption DEF Items, locals, memory, disk, locks

-------------------------------------------------------------------------------
(* Sessions.                                                               *)

\* Name by name or as sets of names, it is the same.
LEMMA SessionsOneSession == TypeOK /\ Named /\ Sessions => OneSession
<1> SUFFICES ASSUME TypeOK, Named, Sessions PROVE OneSession
  OBVIOUS
<1>1. online = {user[c] : c \in {d \in Conns : Bound(d)}}
  BY DEF TypeOK, Sessions, Bound
<1>2. exiting = {user[c] : c \in {d \in Conns : pc[d] \in Saving}}
  <2>1. \A c \in Conns : pc[c] \in Saving => user[c] \in Names
    BY DEF TypeOK, Named, Saving
  <2> QED BY <2>1 DEF TypeOK, Sessions
<1> QED BY <1>1, <1>2 DEF OneSession, Sessions, Saving

\* The first start satisfies the invariant.
LEMMA InitSessionInv == Init => SessionInv
BY DEF Init, SessionInv, Control, TypeOK, Sessions, Bound, Stopped, Named, LocksHeld,
       DropsUnique, NoTakes, NoUndo, Steps, MuSteps, IoSteps, Saving

\* A step of one handler that neither begins nor ends a session or a save.
LEMMA SameSessions ==
    ASSUME TypeOK, Sessions, NEW c \in Conns, NEW s,
           UNCHANGED <<user, online, exiting>>, Goto(c, s),
           pc[c] \notin Saving \cup {"load", "install"},
           s \notin Saving \cup {"load", "install"}
    PROVE  Sessions'
<1>1. \A d \in Conns : /\ pc[d]' \in Saving <=> pc[d] \in Saving
                       /\ Bound(d)' <=> Bound(d)
  BY DEF TypeOK, Goto, Bound
<1> QED BY <1>1 DEF Sessions

\* A step that leaves every session, and every save, with its handler.
LEMMA SameServing ==
    ASSUME Sessions, UNCHANGED <<online, exiting>>,
           \A d \in Conns : /\ Bound(d)' <=> Bound(d)
                            /\ pc[d]' \in Saving <=> pc[d] \in Saving
                            /\ Bound(d) \/ pc[d] \in Saving => user[d]' = user[d]
    PROVE  Sessions'
<1>1. \A n \in Names : n \in online' <=> \E d \in Conns : Bound(d)' /\ user[d]' = n
  BY DEF Sessions
<1>2. \A n \in Names :
        n \in exiting' <=> \E d \in Conns : pc[d]' \in Saving /\ user[d]' = n
  BY DEF Sessions
<1> QED BY <1>1, <1>2 DEF Sessions

\* A step that leaves every handler where it is.
LEMMA SessionsFrame ==
    ASSUME Sessions, UNCHANGED <<pc, user, online, exiting>> PROVE Sessions'
BY DEF Sessions, Bound

\* The beginning of a save that is not an error.
SaveGranted(c) ==
    /\ At(c, "idle") /\ user[c] \in online \ exiting /\ MuFree
    /\ exiting' = exiting \cup {user[c]}
    /\ snapInv' = [snapInv EXCEPT ![c] = inv[user[c]]]
    /\ snapRoom' = [snapRoom EXCEPT ![c] = room[user[c]]]
    /\ Goto(c, "save")
    /\ UNCHANGED <<server, user, gone, dropping, undo, online, inv, room, roomOf,
                   unsaved, disk, locks, torn>>

\* A handler that begins to save its player finds it, and is the only one to.
LEMMA SaveIsGranted ==
    ASSUME SessionInv, NEW c \in Conns, SaveBegin(c) PROVE SaveGranted(c)
<1>1. pc[c] = "idle" /\ user[c] \in Names /\ Bound(c)
  BY DEF SaveBegin, At, SessionInv, TypeOK, Bound
<1>2. user[c] \in online
  BY <1>1 DEF SessionInv, Sessions
<1>3. ASSUME NEW d \in Conns, pc[d] \in Saving, user[d] = user[c] PROVE FALSE
  BY <1>1, <1>3 DEF SessionInv, Sessions, Bound, Saving
<1>4. user[c] \notin exiting
  BY <1>1, <1>3 DEF SessionInv, Sessions
<1> QED BY <1>2, <1>4 DEF SaveBegin, SaveGranted, Updatable

-------------------------------------------------------------------------------
(* Types and locks, one action at a time.                                  *)

\* CONNECT keeps the types.
LEMMA ConnectTypeOK ==
    ASSUME SessionInv, NEW c \in Conns, Connect(c) PROVE TypeOK'
<1> USE DEF SessionInv, TypeOK, Steps,
           At, Goto, MuFree, IoFree, NameFree, ForgetSnapshot, Waiting, Reply
<1>0. pc[c] # "idle" => user[c] \in Names
  BY DEF Control, Named
<1>1. CASE \E n \in Names : ConnectCheck(c, n)
  BY <1>0, <1>1 DEF ConnectCheck
<1>2. CASE ConnectLoad(c)
  BY <1>0, <1>2 DEF ConnectLoad
<1>3. CASE ConnectLoadFails(c)
  BY <1>0, <1>3 DEF ConnectLoadFails
<1>4. CASE ConnectInstall(c)
  BY <1>0, <1>4 DEF ConnectInstall
<1>5. CASE ConnectRefused(c)
  BY <1>0, <1>5 DEF ConnectRefused
<1>6. CASE ConnectAnnounce(c)
  BY <1>0, <1>6 DEF ConnectAnnounce
<1> QED
  BY <1>1, <1>2, <1>3, <1>4, <1>5, <1>6 DEF Connect

\* CONNECT takes and releases the locks as its steps say.
LEMMA ConnectControl ==
    ASSUME SessionInv, NEW c \in Conns, Connect(c) PROVE Control'
<1> USE DEF SessionInv, TypeOK, Control, Stopped, Named, LocksHeld,
           DropsUnique, MuSteps, IoSteps, Steps,
           At, Goto, MuFree, IoFree, NameFree, ForgetSnapshot, Waiting, Reply
<1>0. pc[c] # "idle" => user[c] \in Names
  BY DEF Control, Named
<1>1. CASE \E n \in Names : ConnectCheck(c, n)
  BY <1>0, <1>1 DEF ConnectCheck
<1>2. CASE ConnectLoad(c)
  BY <1>0, <1>2 DEF ConnectLoad
<1>3. CASE ConnectLoadFails(c)
  BY <1>0, <1>3 DEF ConnectLoadFails
<1>4. CASE ConnectInstall(c)
  BY <1>0, <1>4 DEF ConnectInstall
<1>5. CASE ConnectRefused(c)
  BY <1>0, <1>5 DEF ConnectRefused
<1>6. CASE ConnectAnnounce(c)
  BY <1>0, <1>6 DEF ConnectAnnounce
<1> QED
  BY <1>1, <1>2, <1>3, <1>4, <1>5, <1>6 DEF Connect

\* DROP keeps the types.
LEMMA DropTypeOK ==
    ASSUME SessionInv, NEW c \in Conns, Drop(c) PROVE TypeOK'
<1> USE DEF SessionInv, TypeOK, Steps,
           At, Goto, MuFree, IoFree, DropGivesUp, DropSnapshot, UndoneLoc, DropSettles, NoTakes, NoUndo, Reply,
           Commands, Waiting, Updatable
<1>0. pc[c] # "idle" => user[c] \in Names
  BY DEF Control, Named
<1>1. CASE \E i \in Items : DropBegin(c, i)
  BY <1>0, <1>1 DEF DropBegin
<1>2. CASE DropLockFiles(c)
  BY <1>0, <1>2 DEF DropLockFiles
<1>3. CASE DropWriteItems(c)
  <2>1. room[user[c]] \in Rooms
    BY <1>0, <1>3 DEF DropWriteItems
  <2> QED BY <1>3, <2>1 DEF DropWriteItems
<1>4. CASE DropItemsFail(c)
  BY <1>0, <1>4 DEF DropItemsFail
<1>5. CASE DropWritePlayers(c)
  BY <1>0, <1>5 DEF DropWritePlayers
<1>6. CASE DropPlayersFail(c)
  <2>1. CASE dropping \in Unique
    <3>1. /\ pc[c] = "drop_players" /\ server = "up"
          /\ pc' = [pc EXCEPT ![c] = "drop_rollback"]
          /\ UNCHANGED <<server, user, gone, snapInv, snapRoom, dropping, undo>>
          /\ UNCHANGED <<memory, locks, disk, torn>>
      BY <1>6, <2>1 DEF DropPlayersFail
    <3> QED BY <1>0, <3>1
  <2>2. CASE dropping \notin Unique
    <3>1. At(c, "drop_players") /\ DropGivesUp(c) /\ UNCHANGED <<disk, torn>>
      BY <1>6, <2>2 DEF DropPlayersFail
    <3> QED BY <1>0, <3>1
  <2> QED BY <2>1, <2>2
<1>7. CASE DropRollback(c)
  BY <1>0, <1>7 DEF DropRollback
<1>8. CASE DropRollbackFails(c)
  <2>1. dropping \in Unique
    BY <1>8 DEF DropRollbackFails, Control, DropsUnique
  <2> QED BY <1>8, <2>1 DEF DropRollbackFails
<1>9. CASE DropDone(c)
  <2>1. user[c] \in Names /\ room[user[c]] \in Rooms
    BY <1>0, <1>9 DEF DropDone
  <2>2. /\ inv' \in [Names -> SUBSET Items]
        /\ roomOf' \in [Items -> Rooms \cup {Nowhere}]
        /\ unsaved' \in [Names -> [Items -> Rooms \cup {Nowhere}]]
    BY <1>9, <2>1 DEF DropDone
  <2> QED BY <1>9, <2>2 DEF DropDone
<1> QED
  BY <1>1, <1>2, <1>3, <1>4, <1>5, <1>6, <1>7, <1>8, <1>9 DEF Drop

\* DROP takes and releases the locks as its steps say.
LEMMA DropControl ==
    ASSUME SessionInv, NEW c \in Conns, Drop(c) PROVE Control'
<1> USE DEF SessionInv, TypeOK, Control, Stopped, Named, LocksHeld,
           DropsUnique, MuSteps, IoSteps, Steps,
           At, Goto, MuFree, IoFree, DropGivesUp, DropSnapshot, UndoneLoc, DropSettles, NoTakes, NoUndo, Reply,
           Commands, Waiting, Updatable
<1>0. pc[c] # "idle" => user[c] \in Names
  BY DEF Control, Named
<1>1. CASE \E i \in Items : DropBegin(c, i)
  BY <1>0, <1>1 DEF DropBegin
<1>2. CASE DropLockFiles(c)
  BY <1>0, <1>2 DEF DropLockFiles
<1>3. CASE DropWriteItems(c)
  BY <1>0, <1>3 DEF DropWriteItems
<1>4. CASE DropItemsFail(c)
  BY <1>0, <1>4 DEF DropItemsFail
<1>5. CASE DropWritePlayers(c)
  BY <1>0, <1>5 DEF DropWritePlayers
<1>6. CASE DropPlayersFail(c)
  <2>1. CASE dropping \in Unique
    <3>1. /\ pc[c] = "drop_players" /\ server = "up"
          /\ pc' = [pc EXCEPT ![c] = "drop_rollback"]
          /\ UNCHANGED <<server, user, dropping, mu, ioMu>>
      BY <1>6, <2>1 DEF DropPlayersFail
    <3>2. Stopped' /\ Named' /\ LocksHeld'
      BY <1>0, <3>1
    <3>3. DropsUnique'
      BY <2>1, <3>1
    <3> QED BY <3>2, <3>3
  <2>2. CASE dropping \notin Unique
    <3>1. At(c, "drop_players") /\ DropGivesUp(c) /\ UNCHANGED <<disk, torn>>
      BY <1>6, <2>2 DEF DropPlayersFail
    <3> QED BY <1>0, <3>1
  <2> QED BY <2>1, <2>2
<1>7. CASE DropRollback(c)
  BY <1>0, <1>7 DEF DropRollback
<1>8. CASE DropRollbackFails(c)
  BY <1>0, <1>8 DEF DropRollbackFails
<1>9. CASE DropDone(c)
  BY <1>0, <1>9 DEF DropDone
<1> QED
  BY <1>1, <1>2, <1>3, <1>4, <1>5, <1>6, <1>7, <1>8, <1>9 DEF Drop

\* A death keeps the types.
LEMMA DieTypeOK ==
    ASSUME SessionInv, NEW c \in Conns, Die(c) PROVE TypeOK'
<1> USE DEF SessionInv, TypeOK, Steps,
           At, Goto, MuFree, IoFree, DieKeepsAll, Respawn, LostUnique, SavedAfterDeath, NoUndo, Reply,
           Commands, Waiting, Updatable
<1>0. pc[c] # "idle" => user[c] \in Names
  BY DEF Control, Named
<1>1. CASE DieBegin(c)
  BY <1>0, <1>1 DEF DieBegin
<1>2. CASE DieProtected(c)
  BY <1>0, <1>2 DEF DieProtected
<1>3. CASE DieLockFiles(c)
  BY <1>0, <1>3 DEF DieLockFiles
<1>4. CASE DieWriteItems(c)
  BY <1>0, <1>4 DEF DieWriteItems
<1>5. CASE DieItemsFail(c)
  BY <1>0, <1>5 DEF DieItemsFail
<1>6. CASE DieWritePlayers(c)
  BY <1>0, <1>6 DEF DieWritePlayers
<1>7. CASE DiePlayersFail(c)
  <2>1. CASE LostUnique(user[c]) # {}
    <3>1. /\ pc[c] = "die_players" /\ server = "up"
          /\ pc' = [pc EXCEPT ![c] = "die_rollback"]
          /\ UNCHANGED <<server, user, gone, snapInv, snapRoom, dropping, undo>>
          /\ UNCHANGED <<memory, locks, disk, torn>>
      BY <1>7, <2>1 DEF DiePlayersFail
    <3> QED BY <1>0, <3>1
  <2>2. CASE LostUnique(user[c]) = {}
    <3>1. At(c, "die_players") /\ DieKeepsAll(c) /\ UNCHANGED <<disk, torn>>
      BY <1>7, <2>2 DEF DiePlayersFail
    <3> QED BY <1>0, <3>1
  <2> QED BY <2>1, <2>2
<1>8. CASE DieRollback(c)
  BY <1>0, <1>8 DEF DieRollback
<1>9. CASE DieRollbackFails(c)
  BY <1>0, <1>9 DEF DieRollbackFails
<1>10. CASE DieDone(c)
  <2>1. user[c] \in Names /\ unsaved[user[c]] \in [Items -> Rooms \cup {Nowhere}]
    BY <1>0, <1>10 DEF DieDone
  <2>2. roomOf' \in [Items -> Rooms \cup {Nowhere}]
    BY <1>10 DEF DieDone, ReturnHome
  <2>3. unsaved' \in [Names -> [Items -> Rooms \cup {Nowhere}]]
    BY <1>10, <2>1 DEF DieDone, ReturnHome
  <2> QED BY <1>10, <2>2, <2>3 DEF DieDone
<1> QED
  BY <1>1, <1>2, <1>3, <1>4, <1>5, <1>6, <1>7, <1>8, <1>9, <1>10 DEF Die

\* A death takes and releases the locks as its steps say.
LEMMA DieControl ==
    ASSUME SessionInv, NEW c \in Conns, Die(c) PROVE Control'
<1> USE DEF SessionInv, TypeOK, Control, Stopped, Named, LocksHeld,
           DropsUnique, MuSteps, IoSteps, Steps,
           At, Goto, MuFree, IoFree, DieKeepsAll, Respawn, LostUnique, SavedAfterDeath, NoUndo, Reply,
           Commands, Waiting, Updatable
<1>0. pc[c] # "idle" => user[c] \in Names
  BY DEF Control, Named
<1>1. CASE DieBegin(c)
  BY <1>0, <1>1 DEF DieBegin
<1>2. CASE DieProtected(c)
  BY <1>0, <1>2 DEF DieProtected
<1>3. CASE DieLockFiles(c)
  BY <1>0, <1>3 DEF DieLockFiles
<1>4. CASE DieWriteItems(c)
  BY <1>0, <1>4 DEF DieWriteItems
<1>5. CASE DieItemsFail(c)
  BY <1>0, <1>5 DEF DieItemsFail
<1>6. CASE DieWritePlayers(c)
  BY <1>0, <1>6 DEF DieWritePlayers
<1>7. CASE DiePlayersFail(c)
  <2>1. CASE LostUnique(user[c]) # {}
    BY <1>0, <1>7, <2>1 DEF DiePlayersFail
  <2>2. CASE LostUnique(user[c]) = {}
    <3>1. At(c, "die_players") /\ DieKeepsAll(c) /\ UNCHANGED <<disk, torn>>
      BY <1>7, <2>2 DEF DiePlayersFail
    <3> QED BY <1>0, <3>1
  <2> QED BY <2>1, <2>2
<1>8. CASE DieRollback(c)
  BY <1>0, <1>8 DEF DieRollback
<1>9. CASE DieRollbackFails(c)
  BY <1>0, <1>9 DEF DieRollbackFails
<1>10. CASE DieDone(c)
  BY <1>0, <1>10 DEF DieDone
<1> QED
  BY <1>1, <1>2, <1>3, <1>4, <1>5, <1>6, <1>7, <1>8, <1>9, <1>10 DEF Die

\* QUIT or a lost connection keeps the types.
LEMMA LeaveTypeOK ==
    ASSUME SessionInv, NEW c \in Conns, Leave(c) PROVE TypeOK'
<1> USE DEF SessionInv, TypeOK, Steps,
           At, Goto, MuFree, IoFree, CloseSlot, Updatable, ForgetSnapshot, RemovePlayer, ClearExiting,
           NoTakes, Waiting
<1>0. pc[c] # "idle" => user[c] \in Names
  BY DEF Control, Named
<1>1. CASE EndOfInput(c)
  BY <1>0, <1>1 DEF EndOfInput
<1>2. CASE Close(c)
  BY <1>0, <1>2 DEF Close
<1>3. CASE SaveBegin(c)
  <2>1. SaveGranted(c)
    BY <1>3, SaveIsGranted
  <2> QED BY <1>0, <2>1 DEF SaveGranted
<1>4. CASE SaveWrite(c)
  BY <1>0, <1>4 DEF SaveWrite
<1>5. CASE SaveWriteFails(c)
  BY <1>0, <1>5 DEF SaveWriteFails
<1>6. CASE SaveRemove(c)
  BY <1>0, <1>6 DEF SaveRemove
<1>7. CASE SaveAbort(c)
  BY <1>0, <1>7 DEF SaveAbort, AfterError
<1>8. CASE Evict(c)
  <2>1. user[c] \in Names /\ unsaved[user[c]] \in [Items -> Rooms \cup {Nowhere}]
    BY <1>0, <1>8 DEF Evict
  <2>2. roomOf' \in [Items -> Rooms \cup {Nowhere}]
    BY <1>8, <2>1 DEF Evict
  <2> QED BY <1>8, <2>1, <2>2 DEF Evict
<1> QED
  BY <1>1, <1>2, <1>3, <1>4, <1>5, <1>6, <1>7, <1>8 DEF Leave

\* QUIT or a lost connection takes and releases the locks as its steps say.
LEMMA LeaveControl ==
    ASSUME SessionInv, NEW c \in Conns, Leave(c) PROVE Control'
<1> USE DEF SessionInv, TypeOK, Control, Stopped, Named, LocksHeld,
           DropsUnique, MuSteps, IoSteps, Steps,
           At, Goto, MuFree, IoFree, CloseSlot, Updatable, ForgetSnapshot, RemovePlayer, ClearExiting,
           NoTakes, Waiting
<1>0. pc[c] # "idle" => user[c] \in Names
  BY DEF Control, Named
<1>1. CASE EndOfInput(c)
  BY <1>0, <1>1 DEF EndOfInput
<1>2. CASE Close(c)
  BY <1>0, <1>2 DEF Close
<1>3. CASE SaveBegin(c)
  <2>1. SaveGranted(c)
    BY <1>3, SaveIsGranted
  <2> QED BY <1>0, <2>1 DEF SaveGranted
<1>4. CASE SaveWrite(c)
  BY <1>0, <1>4 DEF SaveWrite
<1>5. CASE SaveWriteFails(c)
  BY <1>0, <1>5 DEF SaveWriteFails
<1>6. CASE SaveRemove(c)
  BY <1>0, <1>6 DEF SaveRemove
<1>7. CASE SaveAbort(c)
  BY <1>0, <1>7 DEF SaveAbort, AfterError
<1>8. CASE Evict(c)
  BY <1>0, <1>8 DEF Evict
<1> QED
  BY <1>1, <1>2, <1>3, <1>4, <1>5, <1>6, <1>7, <1>8 DEF Leave

-------------------------------------------------------------------------------
(* Who serves whom, one action at a time.                                  *)

\* The handler that serves a player ends the player's session.
LEMMA EndsSession ==
    ASSUME Sessions, NEW c \in Conns, Bound(c), user[c] \in Names,
           online' = online \ {user[c]}, exiting' = exiting \ {user[c]},
           \A d \in Conns : /\ Bound(d)' <=> Bound(d) /\ d # c
                            /\ pc[d]' \in Saving <=> pc[d] \in Saving /\ d # c
                            /\ d # c => user[d]' = user[d]
    PROVE  Sessions'
<1>1. \A d \in Conns : pc[d] \in Saving /\ user[d] \in Names => Bound(d)
  BY DEF Saving, Bound
<1>2. \A d \in Conns : Bound(d) /\ user[d] = user[c] => d = c
  BY DEF Sessions
<1>3. \A n \in Names :
        n \in online' <=> \E d \in Conns : Bound(d)' /\ user[d]' = n
  BY <1>2 DEF Sessions
<1>4. \A n \in Names :
        n \in exiting' <=> \E d \in Conns : pc[d]' \in Saving /\ user[d]' = n
  BY <1>1, <1>2 DEF Sessions
<1> QED BY <1>3, <1>4 DEF Sessions

\* The save of a player has failed: the player is served as before.
LEMMA EndsSave ==
    ASSUME Sessions, NEW c \in Conns, Bound(c), user[c] \in Names,
           UNCHANGED <<user, online>>, exiting' = exiting \ {user[c]},
           \A d \in Conns : /\ Bound(d)' <=> Bound(d)
                            /\ pc[d]' \in Saving <=> pc[d] \in Saving /\ d # c
    PROVE  Sessions'
<1>1. \A d \in Conns : pc[d] \in Saving /\ user[d] \in Names => Bound(d)
  BY DEF Saving, Bound
<1>2. \A d \in Conns : Bound(d) /\ user[d] = user[c] => d = c
  BY DEF Sessions
<1>3. \A n \in Names :
        n \in exiting' <=> \E d \in Conns : pc[d]' \in Saving /\ user[d]' = n
  BY <1>1, <1>2 DEF Sessions
<1> QED BY <1>3 DEF Sessions

\* CONNECT leaves one handler to each connected player.
LEMMA ConnectSessions ==
    ASSUME SessionInv, NEW c \in Conns, Connect(c) PROVE Sessions'
<1> USE DEF SessionInv, TypeOK, At, Goto, Bound, Saving
<1>1. CASE \E n \in Names : ConnectCheck(c, n)
  BY <1>1 DEF ConnectCheck, Waiting, Sessions
<1>2. CASE ConnectLoad(c)
  <2>1. \A d \in Conns : /\ Bound(d)' <=> Bound(d)
                         /\ pc[d]' \in Saving <=> pc[d] \in Saving
    BY <1>2 DEF ConnectLoad
  <2> QED BY <1>2, <2>1 DEF ConnectLoad, Sessions
<1>3. CASE ConnectLoadFails(c)
  <2>1. /\ \A d \in Conns : /\ Bound(d)' <=> Bound(d)
                            /\ pc[d]' \in Saving <=> pc[d] \in Saving
                            /\ Bound(d) \/ pc[d] \in Saving => user[d]' = user[d]
        /\ UNCHANGED <<online, exiting>>
    BY <1>3 DEF ConnectLoadFails
  <2> QED BY <2>1, SameServing
<1>4. CASE ConnectInstall(c)
  <2>1. user[c] \in Names \ online /\ online' = online \cup {user[c]}
    BY <1>4 DEF ConnectInstall, NameFree, Control, Named
  <2>2. \A d \in Conns : Bound(d)' <=> Bound(d) \/ d = c
    BY <1>4, <2>1 DEF ConnectInstall
  <2> QED BY <1>4, <2>1, <2>2 DEF ConnectInstall, Sessions
<1>5. CASE ConnectRefused(c)
  <2>1. /\ \A d \in Conns : /\ Bound(d)' <=> Bound(d)
                            /\ pc[d]' \in Saving <=> pc[d] \in Saving
                            /\ Bound(d) \/ pc[d] \in Saving => user[d]' = user[d]
        /\ UNCHANGED <<online, exiting>>
    BY <1>5 DEF ConnectRefused
  <2> QED BY <2>1, SameServing
<1>6. CASE ConnectAnnounce(c)
  BY <1>6, SameSessions DEF ConnectAnnounce, Reply
<1> QED
  BY <1>1, <1>2, <1>3, <1>4, <1>5, <1>6 DEF Connect

\* MOVE and TAKE do not touch sessions.
LEMMA CommandSessions ==
    ASSUME SessionInv, NEW c \in Conns,
           (\E r \in Rooms : Move(c, r)) \/ (\E i \in Items : Take(c, i))
    PROVE  Sessions'
<1>1. CASE \E r \in Rooms : Move(c, r)
  BY <1>1, SessionsFrame DEF SessionInv, Move
<1>2. CASE \E i \in Items : Take(c, i)
  <2>1. pc[c] = "idle" /\ UNCHANGED <<user, online, exiting>>
    BY <1>2 DEF Take, Commands, Waiting
  <2>2. UNCHANGED pc \/ Goto(c, "die") \/ Goto(c, "idle")
    BY <1>2 DEF Take, Reply
  <2> QED BY <2>1, <2>2, SessionsFrame, SameSessions DEF SessionInv, Saving
<1> QED BY <1>1, <1>2

\* DROP leaves one handler to each connected player.
LEMMA DropSessions ==
    ASSUME SessionInv, NEW c \in Conns, Drop(c) PROVE Sessions'
<1>1. UNCHANGED <<user, online, exiting>>
  BY DEF Drop, DropBegin, DropLockFiles, DropWriteItems, DropItemsFail,
         DropWritePlayers, DropPlayersFail, DropRollback, DropRollbackFails,
         DropDone, DropGivesUp
<1>2. pc[c] \notin Saving \cup {"load", "install"}
  BY DEF Drop, DropBegin, DropLockFiles, DropWriteItems, DropItemsFail,
         DropWritePlayers, DropPlayersFail, DropRollback, DropRollbackFails,
         DropDone, Commands, Waiting, At, Saving
<1>3. \E s \in MuSteps \cup {"idle"} : Goto(c, s)
  BY DEF Drop, DropBegin, DropLockFiles, DropWriteItems, DropItemsFail,
         DropWritePlayers, DropPlayersFail, DropRollback, DropRollbackFails,
         DropDone, DropGivesUp, Reply, MuSteps
<1> QED BY <1>1, <1>2, <1>3, SameSessions DEF SessionInv, MuSteps, Saving

\* A death leaves one handler to each connected player.
LEMMA DieSessions ==
    ASSUME SessionInv, NEW c \in Conns, Die(c) PROVE Sessions'
<1>1. UNCHANGED <<user, online, exiting>>
  BY DEF Die, DieBegin, DieProtected, DieLockFiles, DieWriteItems,
         DieItemsFail, DieWritePlayers, DiePlayersFail, DieRollback,
         DieRollbackFails, DieDone, DieKeepsAll
<1>2. pc[c] \notin Saving \cup {"load", "install"}
  BY DEF Die, DieBegin, DieProtected, DieLockFiles, DieWriteItems,
         DieItemsFail, DieWritePlayers, DiePlayersFail, DieRollback,
         DieRollbackFails, DieDone, Commands, Waiting, At, Saving
<1>3. \E s \in MuSteps \cup {"idle"} : Goto(c, s)
  BY DEF Die, DieBegin, DieProtected, DieLockFiles, DieWriteItems,
         DieItemsFail, DieWritePlayers, DiePlayersFail, DieRollback,
         DieRollbackFails, DieDone, DieKeepsAll, Reply, MuSteps
<1> QED BY <1>1, <1>2, <1>3, SameSessions DEF SessionInv, MuSteps, Saving

\* QUIT or a lost connection leaves one handler to each connected player.
LEMMA LeaveSessions ==
    ASSUME SessionInv, NEW c \in Conns, Leave(c) PROVE Sessions'
<1> USE DEF SessionInv, TypeOK, At, Goto, Bound, Saving
<1>0. pc[c] # "idle" => user[c] \in Names
  BY DEF Control, Named
<1>1. CASE EndOfInput(c)
  BY <1>1, SessionsFrame DEF EndOfInput
<1>2. CASE Close(c)
  BY <1>2 DEF Close, CloseSlot, Sessions
<1>3. CASE SaveBegin(c)
  <2>1. SaveGranted(c)
    BY <1>3, SaveIsGranted
  <2> QED BY <2>1 DEF SaveGranted, Sessions
<1>4. CASE SaveWrite(c)
  BY <1>4 DEF SaveWrite, Sessions
<1>5. CASE SaveWriteFails(c)
  BY <1>5 DEF SaveWriteFails, Sessions
<1>6. CASE SaveRemove(c)
  <2>1. /\ user[c] \in Names /\ Bound(c)
        /\ online' = online \ {user[c]} /\ exiting' = exiting \ {user[c]}
    BY <1>0, <1>6 DEF SaveRemove, RemovePlayer, CloseSlot
  <2>2. \A d \in Conns : /\ Bound(d)' <=> Bound(d) /\ d # c
                         /\ pc[d]' \in Saving <=> pc[d] \in Saving /\ d # c
                         /\ d # c => user[d]' = user[d]
    BY <1>6 DEF SaveRemove, RemovePlayer, CloseSlot
  <2> QED BY <2>1, <2>2, EndsSession
<1>7. CASE SaveAbort(c)
  <2>1. /\ user[c] \in Names /\ Bound(c)
        /\ exiting' = exiting \ {user[c]} /\ UNCHANGED <<user, online>>
    BY <1>0, <1>7 DEF SaveAbort, ClearExiting
  <2>2. \A d \in Conns : /\ Bound(d)' <=> Bound(d)
                         /\ pc[d]' \in Saving <=> pc[d] \in Saving /\ d # c
    BY <1>7 DEF SaveAbort, AfterError
  <2> QED BY <2>1, <2>2, EndsSave
<1>8. CASE Evict(c)
  <2>1. /\ user[c] \in Names /\ Bound(c)
        /\ online' = online \ {user[c]} /\ exiting' = exiting \ {user[c]}
    BY <1>0, <1>8 DEF Evict, RemovePlayer, CloseSlot
  <2>2. \A d \in Conns : /\ Bound(d)' <=> Bound(d) /\ d # c
                         /\ pc[d]' \in Saving <=> pc[d] \in Saving /\ d # c
                         /\ d # c => user[d]' = user[d]
    BY <1>8 DEF Evict, RemovePlayer, CloseSlot
  <2> QED BY <2>1, <2>2, EndsSession
<1> QED
  BY <1>1, <1>2, <1>3, <1>4, <1>5, <1>6, <1>7, <1>8 DEF Leave

-------------------------------------------------------------------------------
(* Every step keeps the invariant.                                         *)

\* MOVE and TAKE keep types and locks.
LEMMA CommandTypeOK ==
    ASSUME SessionInv, NEW c \in Conns,
           (\E r \in Rooms : Move(c, r)) \/ (\E i \in Items : Take(c, i))
    PROVE  TypeOK' /\ Control'
<1> USE DEF SessionInv, TypeOK, Control, Stopped, Named, LocksHeld, DropsUnique,
           Steps, MuSteps, IoSteps, Commands, Waiting, MuFree, Updatable, Goto,
           Reply
<1>1. CASE \E r \in Rooms : Move(c, r)
  BY <1>1 DEF Move
<1>2. ASSUME NEW i \in Items, Take(c, i) PROVE TypeOK' /\ Control'
  <2>1. user[c] \in Names /\ room[user[c]] \in Rooms
    BY <1>2 DEF Take
  <2>2. /\ inv' \in [Names -> SUBSET Items]
        /\ roomOf' \in [Items -> Rooms \cup {Nowhere}]
        /\ unsaved' \in [Names -> [Items -> Rooms \cup {Nowhere}]]
    <3>1. inv' = [inv EXCEPT ![user[c]] = @ \cup {i}]
      BY <1>2 DEF Take, TakeItem
    <3>2. CASE i \in Unique
      <4>1. /\ unsaved' = [unsaved EXCEPT ![user[c]][i] = room[user[c]]]
            /\ roomOf' = [roomOf EXCEPT ![i] = Nowhere]
        BY <1>2, <3>2 DEF Take, TakeItem
      <4>2. unsaved' \in [Names -> [Items -> Rooms \cup {Nowhere}]]
        BY <2>1, <4>1
      <4> QED BY <2>1, <3>1, <4>1, <4>2
    <3>3. CASE i \notin Unique
      BY <1>2, <2>1, <3>1, <3>3 DEF Take, TakeItem
    <3> QED BY <3>2, <3>3
  <2>3. TypeOK'
    <3>1. /\ pc' \in [Conns -> Steps] /\ gone' \subseteq Conns
          /\ mu' \in Conns \cup {Nobody}
      BY <1>2 DEF Take
    <3>2. UNCHANGED <<server, user, snapInv, snapRoom, dropping, undo, online,
                      exiting, room, disk, ioMu, torn>>
      BY <1>2 DEF Take
    <3> QED BY <2>2, <3>1, <3>2
  <2>4. Control'
    BY <1>2 DEF Take
  <2> QED BY <2>3, <2>4
<1> QED BY <1>1, <1>2

\* A kill and a restart leave no session and no lock.
LEMMA ServerSession ==
    ASSUME SessionInv, Crash \/ Restart \/ RestartRefused PROVE SessionInv'
<1> USE DEF SessionInv, TypeOK, Steps, Control, Stopped, Named, LocksHeld,
           DropsUnique, MuSteps, IoSteps, Bound, Saving
<1>1. CASE Crash
  BY <1>1 DEF Crash, ResetLocals, ResetMemory, NoTakes, NoUndo, Sessions
<1>2. CASE Restart
  <2>1. \A i \in Items : RestoredRoomOf(i) \in Rooms \cup {Nowhere}
    BY DEF RestoredRoomOf, SavedRoomOf
  <2>2. TypeOK'
    BY <1>2, <2>1 DEF Restart
  <2>3. Sessions'
    BY <1>2, SessionsFrame DEF Restart
  <2>4. Control'
    BY <1>2 DEF Restart
  <2> QED BY <2>2, <2>3, <2>4
<1>3. CASE RestartRefused
  BY <1>3, SessionsFrame DEF RestartRefused
<1> QED BY <1>1, <1>2, <1>3

\* The invariant is inductive.
LEMMA NextSession == SessionInv /\ [Next]_vars => SessionInv'
<1> SUFFICES ASSUME SessionInv, [Next]_vars PROVE SessionInv'
  OBVIOUS
<1>1. ASSUME NEW c \in Conns, Handler(c) PROVE SessionInv'
  <2>1. CASE Connect(c)
    BY <2>1, ConnectTypeOK, ConnectControl, ConnectSessions DEF SessionInv
  <2>2. CASE (\E r \in Rooms : Move(c, r)) \/ (\E i \in Items : Take(c, i))
    BY <2>2, CommandTypeOK, CommandSessions DEF SessionInv
  <2>3. CASE Drop(c)
    BY <2>3, DropTypeOK, DropControl, DropSessions DEF SessionInv
  <2>4. CASE Die(c)
    BY <2>4, DieTypeOK, DieControl, DieSessions DEF SessionInv
  <2>5. CASE Leave(c)
    BY <2>5, LeaveTypeOK, LeaveControl, LeaveSessions DEF SessionInv
  <2> QED BY <1>1, <2>1, <2>2, <2>3, <2>4, <2>5 DEF Handler
<1>2. CASE Crash \/ Restart \/ RestartRefused
  BY <1>2, ServerSession
<1>3. CASE UNCHANGED vars
  BY <1>3, SessionsFrame
     DEF vars, SessionInv, TypeOK, Control, Stopped, Named, LocksHeld, DropsUnique
<1> QED BY <1>1, <1>2, <1>3 DEF Next

\* In every reachable state, for every number of connections and players:
\* state has its type and one handler serves each connected player.
THEOREM SessionsCorrect == Spec => [](TypeOK /\ OneSession)
<1>1. Spec => []SessionInv
  BY InitSessionInv, NextSession, PTL DEF Spec
<1>2. SessionInv => TypeOK /\ OneSession
  BY SessionsOneSession DEF SessionInv, Control
<1> QED BY <1>1, <1>2, PTL

\* No two handlers wait for each other's mutex, and none keeps one: a handler
\* that holds s.ioMu across steps holds s.mu as well, one that holds s.mu finds
\* s.ioMu free or its own, and a handler between two commands, after whatever
\* error, holds neither.
THEOREM LocksAreOrdered ==
    Spec => [](\A c \in Conns :
                  /\ ioMu = c => mu = c
                  /\ mu = c => ioMu \in {c, Nobody}
                  /\ pc[c] = "idle" => mu # c /\ ioMu # c)
<1>1. Spec => []SessionInv
  BY InitSessionInv, NextSession, PTL DEF Spec
<1>2. SessionInv => \A c \in Conns : /\ ioMu = c => mu = c
                                     /\ mu = c => ioMu \in {c, Nobody}
                                     /\ pc[c] = "idle" => mu # c /\ ioMu # c
  <2>1. IoSteps \subseteq MuSteps /\ "idle" \notin MuSteps
    BY DEF IoSteps, MuSteps
  <2> QED BY <2>1 DEF SessionInv, Control, LocksHeld, TypeOK
<1> QED BY <1>1, <1>2, PTL

-------------------------------------------------------------------------------
(***************************************************************************)
(* The ledger's safety for any number of connections, players, items and   *)
(* rooms, as long as two CONNECTs for one name are never in progress at    *)
(* the same moment.  (With two the claim is false: see ItemLedgerStale.)   *)
(***************************************************************************)

\* No two handlers have, or ask for, the same name.
OneUser ==
    \A c, d \in Conns : user[c] = user[d] /\ user[c] # NoName => c = d

\* What memory says of players who are not connected.
Offline ==
    \A n \in Names \ online : inv[n] = {} /\ unsaved[n] = NoTakes

\* What a handler keeps from an earlier critical section is still true.
SnapshotsFresh ==
    \A c \in Conns :
        /\ pc[c] = "install" => snapInv[c] = savedInv[user[c]]
        /\ pc[c] = "save" => snapInv[c] = inv[user[c]]

\* A record that has been written says what memory is about to say.
RecordsWritten ==
    \A c \in Conns :
        /\ pc[c] = "saved" => savedInv[user[c]] = inv[user[c]]
        /\ pc[c] = "drop_done" => savedInv[user[c]] = DropSnapshot(user[c])
        /\ pc[c] = "die_done" => savedInv[user[c]] = {}

DropSteps == {"drop", "drop_items", "drop_players", "drop_rollback", "drop_done"}

\* The item of a DROP stays in the player's hands until its last step.
DropHeld ==
    \A c \in Conns : pc[c] \in DropSteps =>
        /\ dropping \in inv[user[c]]
        /\ dropping \in Unique => roomOf[dropping] = Nowhere

\* ExistsOnce, item by item.
Once ==
    server = "up" =>
        \A i \in Unique :
            /\ \A n \in Names : i \in Belongings(n) => roomOf[i] = Nowhere
            /\ \A m, n \in Names : i \in Belongings(m) /\ i \in Belongings(n) => m = n
            /\ roomOf[i] = Nowhere => \E n \in Names : i \in Belongings(n)

\* Only takes of items the player still holds are unsaved.
TakesHeld ==
    \A n \in Names, i \in Items : unsaved[n][i] # Nowhere => i \in LostUnique(n)

\* TakesTracked, item by item.
Tracked ==
    \A n \in online : ~Settling(n) =>
        \A i \in LostUnique(n) : unsaved[n][i] # Nowhere <=> i \notin savedInv[n]

LedgerInv ==
    /\ ~ConcurrentConnects
    /\ SessionInv
    /\ OneUser
    /\ Offline
    /\ SnapshotsFresh
    /\ RecordsWritten
    /\ DropHeld
    /\ Once
    /\ TakesHeld
    /\ Tracked
    /\ NothingComesBack
    /\ RestartAccepted


-------------------------------------------------------------------------------
(* Who is where.                                                           *)

\* A handler outside its command loop has a name.
LEMMA UserIsName ==
    ASSUME LedgerInv, NEW c \in Conns, pc[c] # "idle" PROVE user[c] \in Names
BY DEF LedgerInv, SessionInv, TypeOK, Control, Named

\* Two handlers outside their command loops have different names.
LEMMA OtherUser ==
    ASSUME LedgerInv, NEW c \in Conns, NEW d \in Conns, d # c, user[c] # NoName
    PROVE  user[d] # user[c]
BY DEF LedgerInv, OneUser

\* At most one handler is inside a critical section that holds s.mu.
LEMMA HoldsMu ==
    ASSUME LedgerInv, NEW c \in Conns PROVE pc[c] \in MuSteps <=> mu = c
BY DEF LedgerInv, SessionInv, Control, LocksHeld

-------------------------------------------------------------------------------
(* Steps that leave every item where it is.                                *)

Settles == {"saved", "drop_done", "die_done"}

\* What one handler's step must leave alone for the others' sake.
OthersAlone(c) ==
    /\ \A d \in Conns \ {c} : UNCHANGED <<pc[d], user[d], snapInv[d]>>
    /\ mu \in {Nobody, c} \/ UNCHANGED <<dropping, roomOf>>
    /\ \A n \in Names \ {user[c]} :
          /\ UNCHANGED <<inv[n], unsaved[n], savedInv[n]>>
          /\ n \in online' <=> n \in online

Kept ==
    UNCHANGED <<server, online, inv, roomOf, unsaved, savedInv>>

\* A step that moves no item and writes no record.
Calm(c) ==
    /\ Kept
    /\ OthersAlone(c)
    /\ pc[c] \notin Settles /\ pc'[c] \notin Settles
    /\ pc'[c] = "install" => snapInv'[c] = savedInv[user'[c]]
    /\ pc'[c] = "save" => snapInv'[c] = inv[user'[c]]
    /\ pc'[c] \in DropSteps =>
          /\ dropping' \in inv[user'[c]]
          /\ dropping' \in Unique => roomOf[dropping'] = Nowhere

\* What the invariant says of the other handlers stays true.
LEMMA OthersKept ==
    ASSUME LedgerInv, NEW c \in Conns, OthersAlone(c), user[c] \in Names \/ Kept,
           NEW d \in Conns, d # c
    PROVE  /\ pc'[d] = "install" => snapInv'[d] = savedInv'[user'[d]]
           /\ pc'[d] = "save" => snapInv'[d] = inv'[user'[d]]
           /\ pc'[d] = "saved" => savedInv'[user'[d]] = inv'[user'[d]]
           /\ pc'[d] = "drop_done" => savedInv'[user'[d]] = inv'[user'[d]] \ {dropping'}
           /\ pc'[d] = "die_done" => savedInv'[user'[d]] = {}
           /\ pc'[d] \in DropSteps =>
                 /\ dropping' \in inv'[user'[d]]
                 /\ dropping' \in Unique => roomOf'[dropping'] = Nowhere
<1>1. UNCHANGED <<pc[d], user[d], snapInv[d]>>
  BY DEF OthersAlone
<1>2. ASSUME pc[d] # "idle"
      PROVE  UNCHANGED <<inv[user[d]], unsaved[user[d]], savedInv[user[d]]>>
  BY <1>2, UserIsName, OtherUser DEF OthersAlone, Kept
<1>3. ASSUME pc[d] \in DropSteps PROVE UNCHANGED <<dropping, roomOf>>
  BY <1>3, HoldsMu DEF OthersAlone, DropSteps, MuSteps
<1>4. /\ pc[d] = "install" => snapInv[d] = savedInv[user[d]]
      /\ pc[d] = "save" => snapInv[d] = inv[user[d]]
  BY DEF LedgerInv, SnapshotsFresh
<1>5. /\ pc[d] = "saved" => savedInv[user[d]] = inv[user[d]]
      /\ pc[d] = "drop_done" => savedInv[user[d]] = inv[user[d]] \ {dropping}
      /\ pc[d] = "die_done" => savedInv[user[d]] = {}
  BY DEF LedgerInv, RecordsWritten, DropSnapshot
<1>6. pc[d] \in DropSteps =>
         /\ dropping \in inv[user[d]]
         /\ dropping \in Unique => roomOf[dropping] = Nowhere
  BY DEF LedgerInv, DropHeld
<1> QED BY <1>1, <1>2, <1>3, <1>4, <1>5, <1>6 DEF DropSteps

\* Facts about where items are do not depend on what handlers do meanwhile.
LEMMA KeptKeeps ==
    ASSUME LedgerInv, Kept
    PROVE  Offline' /\ Once' /\ TakesHeld' /\ NothingComesBack' /\ RestartAccepted'
<1> USE DEF LedgerInv, Kept
<1>1. Offline'
  BY DEF Offline
<1>2. \A n \in Names : Belongings(n)' = Belongings(n)
  BY DEF Belongings
<1>3. Once'
  BY <1>2 DEF Once
<1>4. TakesHeld'
  BY DEF TakesHeld, LostUnique
<1>5. NothingComesBack'
  BY <1>2 DEF NothingComesBack
<1>6. RestartAccepted'
  BY DEF RestartAccepted, OwnedTwice, SavedOwners
<1> QED BY <1>1, <1>3, <1>4, <1>5, <1>6

\* A calm step keeps the whole invariant.
LEMMA CalmKeeps ==
    ASSUME LedgerInv, NEW c \in Conns, Calm(c)
    PROVE  /\ Offline' /\ SnapshotsFresh' /\ RecordsWritten' /\ DropHeld'
           /\ Once' /\ TakesHeld' /\ Tracked' /\ NothingComesBack'
           /\ RestartAccepted'
<1>1. Kept /\ OthersAlone(c)
  BY DEF Calm
<1>2. SnapshotsFresh'
  BY <1>1, OthersKept DEF SnapshotsFresh, Calm, Kept
<1>3. RecordsWritten'
  BY <1>1, OthersKept DEF RecordsWritten, DropSnapshot, Calm, Settles
<1>4. DropHeld'
  BY <1>1, OthersKept DEF DropHeld, Calm, Kept
<1>5. \A n \in Names : Settling(n) => Settling(n)'
  BY <1>1 DEF Settling, OthersAlone, Calm, Settles
<1>6. Tracked'
  BY <1>1, <1>5 DEF LedgerInv, Tracked, Kept, LostUnique, SessionInv, TypeOK
<1> QED BY <1>1, <1>2, <1>3, <1>4, <1>6, KeptKeeps

-------------------------------------------------------------------------------
(* Which steps are calm.                                                   *)

ConnectCalm(c) ==
    \/ \E n \in Names : ConnectCheck(c, n)
    \/ ConnectLoad(c) \/ ConnectLoadFails(c)
    \/ ConnectRefused(c) \/ ConnectAnnounce(c)

DropCalm(c) ==
    \/ \E i \in Items : DropBegin(c, i)
    \/ DropLockFiles(c) \/ DropWriteItems(c) \/ DropItemsFail(c)
    \/ DropPlayersFail(c) \/ DropRollback(c) \/ DropRollbackFails(c)

DieCalm(c) ==
    \/ DieBegin(c) \/ DieProtected(c) \/ DieLockFiles(c)
    \/ DieWriteItems(c) \/ DieItemsFail(c) \/ DiePlayersFail(c)
    \/ DieRollback(c) \/ DieRollbackFails(c)

LeaveCalm(c) ==
    EndOfInput(c) \/ Close(c) \/ SaveBegin(c) \/ SaveWriteFails(c) \/ SaveAbort(c)

\* CONNECT up to the moment the record is installed.
LEMMA ConnectIsCalm ==
    ASSUME LedgerInv, NEW c \in Conns, ConnectCalm(c) PROVE Calm(c)
<1> USE DEF LedgerInv, SessionInv, TypeOK, Calm, Kept, OthersAlone, Settles,
           DropSteps, At, Goto
<1>1. CASE \E n \in Names : ConnectCheck(c, n)
  BY <1>1 DEF ConnectCheck, Waiting
<1>2. CASE ConnectLoad(c)
  BY <1>2 DEF ConnectLoad
<1>3. CASE ConnectLoadFails(c)
  BY <1>3 DEF ConnectLoadFails
<1>4. CASE ConnectRefused(c)
  BY <1>4 DEF ConnectRefused, ForgetSnapshot
<1>5. CASE ConnectAnnounce(c)
  BY <1>5 DEF ConnectAnnounce, Reply
<1> QED BY <1>1, <1>2, <1>3, <1>4, <1>5 DEF ConnectCalm

\* DROP up to the moment the record is written, and its ways to give up.
LEMMA DropIsCalm ==
    ASSUME LedgerInv, NEW c \in Conns, DropCalm(c) PROVE Calm(c)
<1> USE DEF SessionInv, TypeOK, Calm, Kept, OthersAlone, Settles,
           DropSteps, At, Goto
<1>0. /\ pc[c] \in MuSteps <=> mu = c
      /\ pc[c] \in DropSteps => dropping \in inv[user[c]]
      /\ pc[c] \in DropSteps /\ dropping \in Unique => roomOf[dropping] = Nowhere
  BY HoldsMu DEF LedgerInv, DropHeld
<1>1. CASE \E i \in Items : DropBegin(c, i)
  BY <1>1 DEF LedgerInv, DropBegin, Commands, Waiting, MuFree
<1>2. CASE DropLockFiles(c)
  BY <1>0, <1>2 DEF LedgerInv, DropLockFiles
<1>3. CASE DropWriteItems(c)
  BY <1>0, <1>3 DEF LedgerInv, DropWriteItems
<1>4. CASE DropItemsFail(c)
  BY <1>0, <1>4 DEF LedgerInv, DropItemsFail, DropGivesUp, MuSteps
<1>5. CASE DropPlayersFail(c)
  <2>1. CASE dropping \in Unique
    BY <1>0, <1>5, <2>1 DEF LedgerInv, DropPlayersFail
  <2>2. CASE dropping \notin Unique
    BY <1>0, <1>5, <2>2 DEF LedgerInv, DropPlayersFail, DropGivesUp, MuSteps
  <2> QED BY <2>1, <2>2
<1>6. CASE DropRollback(c)
  BY <1>0, <1>6 DEF LedgerInv, DropRollback, DropGivesUp, MuSteps
<1>7. CASE DropRollbackFails(c)
  BY <1>0, <1>7 DEF LedgerInv, DropRollbackFails, DropGivesUp, MuSteps
<1> QED BY <1>1, <1>2, <1>3, <1>4, <1>5, <1>6, <1>7 DEF DropCalm

\* A death up to the moment the record is written, and one that costs nothing.
LEMMA DieIsCalm ==
    ASSUME LedgerInv, NEW c \in Conns, DieCalm(c) PROVE Calm(c)
<1> USE DEF SessionInv, TypeOK, Calm, Kept, OthersAlone, Settles,
           DropSteps, At, Goto
<1>1. CASE DieBegin(c)
  BY <1>1 DEF LedgerInv, DieBegin, Commands, Waiting
<1>2. CASE DieProtected(c)
  BY <1>2 DEF LedgerInv, DieProtected, DieKeepsAll, Reply
<1>3. CASE DieLockFiles(c)
  BY <1>3 DEF LedgerInv, DieLockFiles
<1>4. CASE DieWriteItems(c)
  BY <1>4 DEF LedgerInv, DieWriteItems
<1>5. CASE DieItemsFail(c)
  BY <1>5 DEF LedgerInv, DieItemsFail, DieKeepsAll, Reply
<1>6. CASE DiePlayersFail(c)
  <2>1. CASE LostUnique(user[c]) # {}
    BY <1>6, <2>1 DEF LedgerInv, DiePlayersFail
  <2>2. CASE LostUnique(user[c]) = {}
    BY <1>6, <2>2 DEF LedgerInv, DiePlayersFail, DieKeepsAll, Reply
  <2> QED BY <2>1, <2>2
<1>7. CASE DieRollback(c)
  BY <1>7 DEF LedgerInv, DieRollback, DieKeepsAll, Reply
<1>8. CASE DieRollbackFails(c)
  BY <1>8 DEF LedgerInv, DieRollbackFails, DieKeepsAll, Reply
<1> QED
  BY <1>1, <1>2, <1>3, <1>4, <1>5, <1>6, <1>7, <1>8 DEF DieCalm

\* Leaving up to the moment the record is written, and a save that fails.
LEMMA LeaveIsCalm ==
    ASSUME LedgerInv, NEW c \in Conns, LeaveCalm(c) PROVE Calm(c)
<1> USE DEF LedgerInv, SessionInv, TypeOK, Calm, Kept, OthersAlone, Settles,
           DropSteps, At, Goto
<1>1. CASE EndOfInput(c)
  BY <1>1 DEF EndOfInput, Waiting
<1>2. CASE Close(c)
  BY <1>2 DEF Close, CloseSlot
<1>3. CASE SaveBegin(c)
  <2>1. SaveGranted(c)
    BY <1>3, SaveIsGranted
  <2> QED BY <2>1 DEF SaveGranted
<1>4. CASE SaveWriteFails(c)
  BY <1>4 DEF SaveWriteFails, ForgetSnapshot
<1>5. CASE SaveAbort(c)
  BY <1>5 DEF SaveAbort, AfterError
<1> QED BY <1>1, <1>2, <1>3, <1>4, <1>5 DEF LeaveCalm

\* MOVE.
LEMMA MoveIsCalm ==
    ASSUME LedgerInv, NEW c \in Conns, NEW r \in Rooms, Move(c, r) PROVE Calm(c)
BY DEF Move, Commands, Waiting, Calm, Kept, OthersAlone, Settles, DropSteps

-------------------------------------------------------------------------------
(* Steps that move items or write records.                                 *)

\* The part of the invariant that speaks of items, players and records.
Data ==
    /\ Offline /\ SnapshotsFresh /\ RecordsWritten /\ DropHeld
    /\ Once /\ TakesHeld /\ Tracked /\ NothingComesBack /\ RestartAccepted

\* A handler's own share of SnapshotsFresh, RecordsWritten and DropHeld.
Own(c) ==
    /\ pc[c] = "install" => snapInv[c] = savedInv[user[c]]
    /\ pc[c] = "save" => snapInv[c] = inv[user[c]]
    /\ pc[c] = "saved" => savedInv[user[c]] = inv[user[c]]
    /\ pc[c] = "drop_done" => savedInv[user[c]] = inv[user[c]] \ {dropping}
    /\ pc[c] = "die_done" => savedInv[user[c]] = {}
    /\ pc[c] \in DropSteps =>
          /\ dropping \in inv[user[c]]
          /\ dropping \in Unique => roomOf[dropping] = Nowhere

\* With the others' shares it is those three invariants.
LEMMA OwnSuffices ==
    ASSUME LedgerInv, NEW c \in Conns, OthersAlone(c), user[c] \in Names, Own(c)'
    PROVE  SnapshotsFresh' /\ RecordsWritten' /\ DropHeld'
<1>1. SnapshotsFresh'
  BY OthersKept DEF SnapshotsFresh, Own
<1>2. RecordsWritten'
  BY OthersKept DEF RecordsWritten, DropSnapshot, Own
<1>3. DropHeld'
  BY OthersKept DEF DropHeld, Own
<1> QED BY <1>1, <1>2, <1>3

\* A handler serves only its own player.
LEMMA SettlingIsOwn ==
    ASSUME LedgerInv, NEW c \in Conns, user[c] \in Names, OthersAlone(c),
           NEW n \in Names, n # user[c], user'[c] \in {user[c], NoName}
    PROVE  Settling(n)' <=> Settling(n)
<1>1. \A d \in Conns \ {c} : pc'[d] = pc[d] /\ user'[d] = user[d]
  BY DEF OthersAlone
<1>2. user[c] # n /\ user'[c] # n
  OBVIOUS
<1> QED BY <1>1, <1>2 DEF Settling

\* The installed record is the saved one: nothing moves.
LEMMA InstallKeeps ==
    ASSUME LedgerInv, NEW c \in Conns, ConnectInstall(c) PROVE Data'
<1> DEFINE u == user[c]
<1> USE DEF LedgerInv, SessionInv, TypeOK
<1>1. /\ u \in Names /\ u \notin online /\ online' = online \cup {u}
      /\ pc' = [pc EXCEPT ![c] = "announce"]
      /\ inv' = [inv EXCEPT ![u] = savedInv[u]]
      /\ unsaved[u] = NoTakes
      /\ server = "up"
      /\ mu = Nobody
      /\ UNCHANGED <<server, user, roomOf, unsaved, savedInv, dropping>>
  BY UserIsName DEF ConnectInstall, At, Goto, NameFree, MuFree, disk, SnapshotsFresh, Offline
<1>2. OthersAlone(c) /\ Own(c)'
  BY <1>1 DEF OthersAlone, Own, DropSteps, ConnectInstall, ForgetSnapshot
<1>3. \A n \in Names : Belongings(n)' = Belongings(n)
  BY <1>1 DEF Belongings
<1>4. Offline'
  BY <1>1 DEF Offline
<1>5. Once' /\ NothingComesBack' /\ RestartAccepted'
  BY <1>1, <1>3 DEF Once, NothingComesBack, RestartAccepted, OwnedTwice, SavedOwners
<1>6. TakesHeld'
  BY <1>1 DEF TakesHeld, LostUnique, NoTakes
<1>7. Tracked'
  <2> SUFFICES ASSUME NEW n \in online', ~Settling(n)', NEW j \in LostUnique(n)'
               PROVE  unsaved'[n][j] # Nowhere <=> j \notin savedInv'[n]
    BY DEF Tracked
  <2>1. n \in Names /\ j \in Items
    BY <1>1 DEF LostUnique
  <2>2. CASE n = u
    BY <1>1, <2>1, <2>2 DEF LostUnique, NoTakes
  <2>3. CASE n # u
    <3>1. n \in online /\ j \in LostUnique(n) /\ ~Settling(n)
      BY <1>1, <1>2, <2>1, <2>3, SettlingIsOwn DEF LostUnique
    <3> QED BY <1>1, <3>1 DEF Tracked
  <2> QED BY <2>2, <2>3
<1> QED BY <1>1, <1>2, <1>4, <1>5, <1>6, <1>7, OwnSuffices DEF Data

\* TAKE: the item leaves the floor for the taker's inventory.
LEMMA TakeKeeps ==
    ASSUME LedgerInv, NEW c \in Conns, NEW i \in Items, Take(c, i) PROVE Data'
<1> DEFINE u == user[c]
<1> USE DEF LedgerInv, SessionInv, TypeOK
<1>1. /\ u \in Names /\ u \in online /\ room[u] # Nowhere
      /\ server = "up" /\ mu = Nobody /\ pc[c] = "idle" /\ roomOf[i] # Nowhere
      /\ inv' = [inv EXCEPT ![u] = @ \cup {i}]
      /\ UNCHANGED <<server, user, snapInv, online, savedInv, dropping>>
      /\ \A d \in Conns \ {c} : pc'[d] = pc[d]
      /\ pc'[c] \in {"idle", "die"}
  BY DEF Take, TakeItem, Commands, Waiting, MuFree, Updatable, AvailableTo, Reply, Goto, disk
<1>2. CASE i \in Unique
  <2>1. /\ roomOf' = [roomOf EXCEPT ![i] = Nowhere]
        /\ unsaved' = [unsaved EXCEPT ![u][i] = room[u]]
    BY <1>2 DEF Take, TakeItem
  <2>2. OthersAlone(c) /\ Own(c)'
    BY <1>1, <2>1 DEF OthersAlone, Own, DropSteps
  <2>3. \A n \in Names : i \notin Belongings(n)
    BY <1>1, <1>2 DEF Once
  <2>4. \A n \in Names : Belongings(n)' = IF n = u THEN Belongings(n) \cup {i} ELSE Belongings(n)
    BY <1>1 DEF Belongings
  <2>5. Offline'
    BY <1>1, <2>1 DEF Offline
  <2>6. Once'
    <3> SUFFICES ASSUME NEW j \in Unique
                 PROVE  /\ \A n \in Names : j \in Belongings(n)' => roomOf'[j] = Nowhere
                        /\ \A m, n \in Names : j \in Belongings(m)' /\ j \in Belongings(n)' => m = n
                        /\ roomOf'[j] = Nowhere => \E n \in Names : j \in Belongings(n)'
      BY DEF Once
    <3>1. CASE j = i
      BY <1>1, <2>1, <2>3, <2>4, <3>1
    <3>2. CASE j # i
      <4>1. \A n \in Names : j \in Belongings(n)' <=> j \in Belongings(n)
        BY <2>4, <3>2
      <4>2. roomOf'[j] = roomOf[j]
        BY <2>1, <3>2
      <4> QED BY <1>1, <4>1, <4>2 DEF Once
    <3> QED BY <3>1, <3>2
  <2>7. NothingComesBack' /\ RestartAccepted'
    BY <1>1, <2>4 DEF NothingComesBack, RestartAccepted, OwnedTwice, SavedOwners
  <2>8. TakesHeld'
    BY <1>1, <1>2, <2>1 DEF TakesHeld, LostUnique
  <2>9. Tracked'
    <3> SUFFICES ASSUME NEW n \in online, ~Settling(n)', NEW j \in LostUnique(n)'
                 PROVE  unsaved'[n][j] # Nowhere <=> j \notin savedInv[n]
      BY <1>1 DEF Tracked
    <3>1. n \in Names /\ ~Settling(n)
      BY <1>1 DEF Settling
    <3>2. CASE n = u /\ j = i
      BY <1>1, <2>1, <2>3, <3>2 DEF NothingComesBack
    <3>3. CASE ~(n = u /\ j = i)
      BY <1>1, <2>1, <3>1, <3>3 DEF Tracked, LostUnique
    <3> QED BY <3>2, <3>3
  <2> QED BY <1>1, <2>2, <2>5, <2>6, <2>7, <2>8, <2>9, OwnSuffices DEF Data
<1>3. CASE i \notin Unique
  <2>1. UNCHANGED <<roomOf, unsaved>>
    BY <1>3 DEF Take, TakeItem
  <2>2. OthersAlone(c) /\ Own(c)'
    BY <1>1, <2>1 DEF OthersAlone, Own, DropSteps
  <2>3. \A n \in Names : /\ Belongings(n)' \cap Unique = Belongings(n) \cap Unique
                         /\ Belongings(n) \subseteq Belongings(n)'
                         /\ LostUnique(n)' = LostUnique(n)
    BY <1>1, <1>3 DEF Belongings, LostUnique
  <2>4. Offline'
    BY <1>1, <2>1 DEF Offline
  <2>5. Once'
    BY <1>1, <2>1, <2>3 DEF Once
  <2>6. NothingComesBack' /\ RestartAccepted'
    BY <1>1, <2>3 DEF NothingComesBack, RestartAccepted, OwnedTwice, SavedOwners
  <2>7. TakesHeld'
    BY <2>1, <2>3 DEF TakesHeld
  <2>8. Tracked'
    <3>1. \A n \in Names : Settling(n) => Settling(n)'
      BY <1>1 DEF Settling
    <3> QED BY <1>1, <2>1, <2>3, <3>1 DEF Tracked
  <2> QED BY <1>1, <2>2, <2>4, <2>5, <2>6, <2>7, <2>8, OwnSuffices DEF Data
<1> QED BY <1>2, <1>3

\* A record is replaced by one that lists nothing but what the player holds.
LEMMA RecordKeeps ==
    ASSUME LedgerInv, NEW c \in Conns, user[c] \in online, server = "up",
           NEW S, S \subseteq inv[user[c]],
           savedInv' = [savedInv EXCEPT ![user[c]] = S],
           UNCHANGED <<server, user, online, inv, roomOf, unsaved>>,
           OthersAlone(c), Own(c)', pc'[c] \in Settles
    PROVE  Data'
<1> DEFINE u == user[c]
<1> USE DEF LedgerInv, SessionInv, TypeOK
<1>1. \A n \in Names : Belongings(n)' = Belongings(n)
  BY DEF Belongings
<1>2. Offline' /\ TakesHeld'
  BY DEF Offline, TakesHeld, LostUnique
<1>3. Once'
  BY <1>1 DEF Once
<1>4. NothingComesBack'
  BY <1>1 DEF NothingComesBack, Belongings
<1>5. RestartAccepted'
  <2>1. \A n \in Names : savedInv'[n] \subseteq Belongings(n)
    BY <1>4, <1>1 DEF NothingComesBack
  <2> QED BY <2>1 DEF RestartAccepted, OwnedTwice, SavedOwners, Once
<1>6. Tracked'
  <2> SUFFICES ASSUME NEW n \in online', ~Settling(n)', NEW j \in LostUnique(n)'
               PROVE  unsaved'[n][j] # Nowhere <=> j \notin savedInv'[n]
    BY DEF Tracked
  <2>1. n # u
    BY DEF Settling, Settles
  <2>2. n \in online /\ j \in LostUnique(n) /\ ~Settling(n)
    BY <2>1, SettlingIsOwn DEF LostUnique
  <2> QED BY <2>1, <2>2 DEF Tracked
<1> QED BY <1>2, <1>3, <1>4, <1>5, <1>6, OwnSuffices DEF Data

\* A handler that is past connectPlayer serves a connected player.
LEMMA ServesOnline ==
    ASSUME LedgerInv, NEW c \in Conns, pc[c] \notin {"idle", "load", "install"}
    PROVE  user[c] \in online
BY UserIsName DEF LedgerInv, SessionInv, Sessions, Bound

\* DROP saves the player's record without the item.
LEMMA DropWriteKeeps ==
    ASSUME LedgerInv, NEW c \in Conns, DropWritePlayers(c) PROVE Data'
<1> DEFINE u == user[c]
<1> USE DEF LedgerInv, SessionInv, TypeOK
<1>1. /\ u \in online /\ server = "up" /\ mu = c
      /\ dropping \in inv[u] /\ (dropping \in Unique => roomOf[dropping] = Nowhere)
      /\ savedInv' = [savedInv EXCEPT ![u] = inv[u] \ {dropping}]
      /\ pc' = [pc EXCEPT ![c] = "drop_done"]
      /\ UNCHANGED <<server, user, snapInv, online, inv, roomOf, unsaved, dropping>>
  BY ServesOnline, HoldsMu
     DEF DropWritePlayers, DropSnapshot, At, Goto, DropHeld, DropSteps, MuSteps
<1>2. OthersAlone(c) /\ Own(c)' /\ pc'[c] \in Settles
  BY <1>1 DEF OthersAlone, Own, DropSteps, Settles
<1>3. inv[u] \ {dropping} \subseteq inv[u]
  OBVIOUS
<1> QED BY <1>1, <1>2, <1>3, RecordKeeps

\* A death saves the player's record without belongings.
LEMMA DieWriteKeeps ==
    ASSUME LedgerInv, NEW c \in Conns, DieWritePlayers(c) PROVE Data'
<1> DEFINE u == user[c]
<1> USE DEF LedgerInv, SessionInv, TypeOK
<1>1. /\ u \in online /\ server = "up" /\ mu = c
      /\ savedInv' = [savedInv EXCEPT ![u] = savedInv[u] \ inv[u]]
      /\ pc' = [pc EXCEPT ![c] = "die_done"]
      /\ UNCHANGED <<server, user, snapInv, online, inv, roomOf, unsaved, dropping>>
  BY ServesOnline, HoldsMu DEF DieWritePlayers, SavedAfterDeath, At, Goto, MuSteps
<1>2. savedInv[u] \ inv[u] = {}
  BY <1>1 DEF NothingComesBack, Belongings
<1>3. OthersAlone(c) /\ Own(c)' /\ pc'[c] \in Settles
  BY <1>1, <1>2 DEF OthersAlone, Own, DropSteps, Settles
<1> QED BY <1>1, <1>2, <1>3, RecordKeeps

\* QUIT or a lost connection saves what the player holds.
LEMMA SaveWriteKeeps ==
    ASSUME LedgerInv, NEW c \in Conns, SaveWrite(c) PROVE Data'
<1> DEFINE u == user[c]
<1> USE DEF LedgerInv, SessionInv, TypeOK
<1>1. /\ u \in online /\ server = "up"
      /\ savedInv' = [savedInv EXCEPT ![u] = inv[u]]
      /\ pc' = [pc EXCEPT ![c] = "saved"]
      /\ \A d \in Conns \ {c} : UNCHANGED snapInv[d]
      /\ UNCHANGED <<server, user, online, inv, roomOf, unsaved, dropping>>
  <2>1. pc[c] = "save" /\ server = "up" /\ pc' = [pc EXCEPT ![c] = "saved"]
    BY DEF SaveWrite, At, Goto
  <2>2. u \in online
    BY <2>1, ServesOnline
  <2>3. snapInv[c] = inv[u]
    BY <2>1 DEF SnapshotsFresh
  <2>4. /\ savedInv' = [savedInv EXCEPT ![u] = inv[u]]
        /\ \A d \in Conns \ {c} : UNCHANGED snapInv[d]
        /\ UNCHANGED <<server, user, online, inv, roomOf, unsaved, dropping>>
    BY <2>3 DEF SaveWrite, ForgetSnapshot
  <2> QED BY <2>1, <2>2, <2>4
<1>2. OthersAlone(c) /\ Own(c)' /\ pc'[c] \in Settles
  BY <1>1 DEF OthersAlone, Own, DropSteps, Settles
<1>3. inv[u] \subseteq inv[u]
  OBVIOUS
<1> QED BY <1>1, <1>2, <1>3, RecordKeeps

\* The end of a DROP: the item lies in the player's room, as saved.
LEMMA DropDoneKeeps ==
    ASSUME LedgerInv, NEW c \in Conns, DropDone(c) PROVE Data'
<1> DEFINE u == user[c]
<1> USE DEF LedgerInv, SessionInv, TypeOK
<1>1. /\ u \in online /\ server = "up" /\ mu = c /\ room[u] # Nowhere
      /\ dropping \in inv[u] /\ (dropping \in Unique => roomOf[dropping] = Nowhere)
      /\ savedInv[u] = inv[u] \ {dropping}
      /\ inv' = [inv EXCEPT ![u] = inv[u] \ {dropping}]
      /\ unsaved' = [unsaved EXCEPT ![u] = NoTakes]
      /\ roomOf' = IF dropping \in Unique
                   THEN [roomOf EXCEPT ![dropping] = room[u]] ELSE roomOf
      /\ pc' = [pc EXCEPT ![c] = "idle"]
      /\ UNCHANGED <<server, user, snapInv, online, savedInv>>
  <2>1. /\ At(c, "drop_done")
        /\ user[c] \in online
    BY ServesOnline DEF DropDone, At
  <2>2. mu = c /\ savedInv[u] = inv[u] \ {dropping}
    BY <2>1, HoldsMu DEF At, RecordsWritten, DropSnapshot, MuSteps
  <2>3. dropping \in inv[u] /\ (dropping \in Unique => roomOf[dropping] = Nowhere)
    BY <2>1 DEF At, DropHeld, DropSteps
  <2>4. room[u] \in Rooms
    BY <2>1
  <2> QED BY <2>1, <2>2, <2>3, <2>4 DEF DropDone, DropSnapshot, DropSettles, At, Goto, Reply
<1>2. OthersAlone(c) /\ Own(c)'
  BY <1>1 DEF OthersAlone, Own, DropSteps
<1>3. \A n \in Names :
        Belongings(n)' = IF n = u THEN Belongings(n) \ {dropping} ELSE Belongings(n)
  BY <1>1 DEF Belongings
<1>4. u \in Names /\ dropping \in Belongings(u)
  BY <1>1 DEF Belongings
<1>5. Offline'
  BY <1>1 DEF Offline
<1>6. Once'
  <2> SUFFICES ASSUME NEW j \in Unique
               PROVE  /\ \A n \in Names : j \in Belongings(n)' => roomOf'[j] = Nowhere
                      /\ \A m, n \in Names : j \in Belongings(m)' /\ j \in Belongings(n)' => m = n
                      /\ roomOf'[j] = Nowhere => \E n \in Names : j \in Belongings(n)'
    BY DEF Once
  <2>1. CASE j = dropping
    <3>1. roomOf'[j] = room[u] /\ room[u] # Nowhere
      BY <1>1, <2>1
    <3>2. \A n \in Names : j \notin Belongings(n)'
      BY <1>1, <1>3, <1>4, <2>1 DEF Once
    <3> QED BY <3>1, <3>2
  <2>2. CASE j # dropping
    <3>1. \A n \in Names : j \in Belongings(n)' <=> j \in Belongings(n)
      BY <1>3, <2>2
    <3>2. roomOf'[j] = roomOf[j]
      BY <1>1, <2>2
    <3> QED BY <1>1, <3>1, <3>2 DEF Once
  <2> QED BY <2>1, <2>2
<1>7. NothingComesBack'
  BY <1>1, <1>3 DEF NothingComesBack, Belongings
<1>8. RestartAccepted'
  BY <1>1 DEF RestartAccepted, OwnedTwice, SavedOwners
<1>9. TakesHeld'
  BY <1>1 DEF TakesHeld, LostUnique, NoTakes
<1>10. Tracked'
  <2> SUFFICES ASSUME NEW n \in online', ~Settling(n)', NEW j \in LostUnique(n)'
               PROVE  unsaved'[n][j] # Nowhere <=> j \notin savedInv'[n]
    BY DEF Tracked
  <2>1. CASE n = u
    BY <1>1, <2>1 DEF LostUnique, NoTakes
  <2>2. CASE n # u
    <3>1. n \in online /\ j \in LostUnique(n) /\ ~Settling(n)
      BY <1>1, <1>2, <2>2, SettlingIsOwn DEF LostUnique
    <3> QED BY <1>1, <2>2, <3>1 DEF Tracked
  <2> QED BY <2>1, <2>2
<1> QED BY <1>2, <1>4, <1>5, <1>6, <1>7, <1>8, <1>9, <1>10, OwnSuffices DEF Data

\* The end of a death: the belongings are home, as saved.
LEMMA DieDoneKeeps ==
    ASSUME LedgerInv, NEW c \in Conns, DieDone(c) PROVE Data'
<1> DEFINE u == user[c]
<1> USE DEF LedgerInv, SessionInv, TypeOK
<1>1. /\ u \in online /\ u \in Names /\ server = "up" /\ mu = c
      /\ savedInv[u] = {}
      /\ inv' = [inv EXCEPT ![u] = {}]
      /\ unsaved' = [unsaved EXCEPT ![u] =
                       [i \in Items |-> IF i \in LostUnique(u) THEN Nowhere ELSE @[i]]]
      /\ roomOf' = [i \in Items |-> IF i \in LostUnique(u) THEN Home[i] ELSE roomOf[i]]
      /\ pc' = [pc EXCEPT ![c] = "idle"]
      /\ UNCHANGED <<server, user, snapInv, online, savedInv, dropping>>
  BY ServesOnline, HoldsMu
     DEF DieDone, ReturnHome, At, Goto, Reply, RecordsWritten, MuSteps
<1>2. OthersAlone(c) /\ Own(c)'
  BY <1>1 DEF OthersAlone, Own, DropSteps
<1>3. \A n \in Names : Belongings(n)' = IF n = u THEN {} ELSE Belongings(n)
  BY <1>1 DEF Belongings
<1>4. Belongings(u) \cap Unique = LostUnique(u)
  BY <1>1 DEF Belongings, LostUnique
<1>5. Offline'
  BY <1>1 DEF Offline
<1>6. Once'
  <2> SUFFICES ASSUME NEW j \in Unique
               PROVE  /\ \A n \in Names : j \in Belongings(n)' => roomOf'[j] = Nowhere
                      /\ \A m, n \in Names : j \in Belongings(m)' /\ j \in Belongings(n)' => m = n
                      /\ roomOf'[j] = Nowhere => \E n \in Names : j \in Belongings(n)'
    BY DEF Once
  <2>1. CASE j \in LostUnique(u)
    <3>1. roomOf'[j] = Home[j] /\ Home[j] # Nowhere
      BY <1>1, <2>1
    <3>2. j \in Unique /\ j \in Belongings(u)
      BY <1>4, <2>1 DEF LostUnique
    <3>3. \A n \in Names : j \in Belongings(n) => n = u
      BY <1>1, <3>2 DEF Once
    <3>4. \A n \in Names : j \notin Belongings(n)'
      BY <1>3, <3>3
    <3> QED BY <3>1, <3>4
  <2>2. CASE j \notin LostUnique(u)
    <3>1. \A n \in Names : j \in Belongings(n)' <=> j \in Belongings(n)
      BY <1>3, <1>4, <2>2
    <3>2. roomOf'[j] = roomOf[j]
      BY <1>1, <2>2
    <3> QED BY <1>1, <3>1, <3>2 DEF Once
  <2> QED BY <2>1, <2>2
<1>7. NothingComesBack'
  BY <1>1, <1>3 DEF NothingComesBack
<1>8. RestartAccepted'
  BY <1>1 DEF RestartAccepted, OwnedTwice, SavedOwners
<1>9. TakesHeld'
  <2> SUFFICES ASSUME NEW n \in Names, NEW j \in Items, unsaved'[n][j] # Nowhere
               PROVE  j \in LostUnique(n)'
    BY DEF TakesHeld
  <2>1. CASE n = u
    BY <1>1, <2>1 DEF TakesHeld
  <2>2. CASE n # u
    BY <1>1, <2>2 DEF TakesHeld, LostUnique
  <2> QED BY <2>1, <2>2
<1>10. Tracked'
  <2> SUFFICES ASSUME NEW n \in online', ~Settling(n)', NEW j \in LostUnique(n)'
               PROVE  unsaved'[n][j] # Nowhere <=> j \notin savedInv'[n]
    BY DEF Tracked
  <2>1. n # u
    BY <1>1 DEF LostUnique
  <2>2. n \in online /\ j \in LostUnique(n) /\ ~Settling(n)
    BY <1>1, <1>2, <2>1, SettlingIsOwn DEF LostUnique
  <2> QED BY <1>1, <2>1, <2>2 DEF Tracked
<1> QED BY <1>1, <1>2, <1>5, <1>6, <1>7, <1>8, <1>9, <1>10, OwnSuffices DEF Data

\* A saved player leaves: the record is what the player held.
LEMMA RemoveKeeps ==
    ASSUME LedgerInv, NEW c \in Conns, SaveRemove(c) PROVE Data'
<1> DEFINE u == user[c]
<1> USE DEF LedgerInv, SessionInv, TypeOK
<1>1. /\ u \in online /\ u \in Names /\ server = "up" /\ mu = Nobody
      /\ savedInv[u] = inv[u]
      /\ online' = online \ {u}
      /\ inv' = [inv EXCEPT ![u] = {}]
      /\ unsaved' = [unsaved EXCEPT ![u] = NoTakes]
      /\ user' = [user EXCEPT ![c] = NoName]
      /\ pc' = [pc EXCEPT ![c] = "idle"]
      /\ UNCHANGED <<server, snapInv, roomOf, savedInv, dropping>>
  BY ServesOnline
     DEF SaveRemove, RemovePlayer, CloseSlot, At, Goto, MuFree, RecordsWritten
<1>2. OthersAlone(c) /\ Own(c)'
  BY <1>1 DEF OthersAlone, Own, DropSteps
<1>3. \A n \in Names : Belongings(n)' = Belongings(n)
  BY <1>1 DEF Belongings
<1>4. Offline'
  BY <1>1 DEF Offline
<1>5. Once' /\ NothingComesBack' /\ RestartAccepted'
  BY <1>1, <1>3 DEF Once, NothingComesBack, RestartAccepted, OwnedTwice, SavedOwners
<1>6. TakesHeld'
  BY <1>1 DEF TakesHeld, LostUnique, NoTakes
<1>7. Tracked'
  <2> SUFFICES ASSUME NEW n \in online', ~Settling(n)', NEW j \in LostUnique(n)'
               PROVE  unsaved'[n][j] # Nowhere <=> j \notin savedInv'[n]
    BY DEF Tracked
  <2>1. n \in Names /\ n \in online /\ n # u
    BY <1>1
  <2>2. j \in LostUnique(n) /\ ~Settling(n)
    <3>1. u # NoName /\ user'[c] = NoName
      BY <1>1
    <3>2. ~Settling(n)
      BY <1>1, <1>2, <2>1, <3>1, SettlingIsOwn
    <3> QED BY <1>1, <2>1, <3>2 DEF LostUnique
  <2> QED BY <1>1, <2>1, <2>2 DEF Tracked
<1> QED BY <1>1, <1>2, <1>4, <1>5, <1>6, <1>7, OwnSuffices DEF Data

\* A player who could not be saved leaves: what no record lists is put back.
LEMMA EvictKeeps ==
    ASSUME LedgerInv, NEW c \in Conns, Evict(c) PROVE Data'
<1> DEFINE u == user[c]
<1> USE DEF LedgerInv, SessionInv, TypeOK
<1>1. /\ u \in online /\ u \in Names /\ server = "up" /\ mu = Nobody
      /\ online' = online \ {u}
      /\ inv' = [inv EXCEPT ![u] = {}]
      /\ unsaved' = [unsaved EXCEPT ![u] = NoTakes]
      /\ roomOf' = [i \in Items |-> IF i \in Restorable(u) THEN unsaved[u][i] ELSE roomOf[i]]
      /\ user' = [user EXCEPT ![c] = NoName]
      /\ pc[c] = "evict" /\ pc' = [pc EXCEPT ![c] = "idle"]
      /\ UNCHANGED <<server, snapInv, savedInv, dropping>>
  BY ServesOnline DEF Evict, RemovePlayer, CloseSlot, At, Goto, MuFree
<1>2. OthersAlone(c) /\ Own(c)'
  BY <1>1 DEF OthersAlone, Own, DropSteps
<1>3. ~Settling(u)
  BY <1>1, OtherUser DEF Settling
<1>4. \A j \in LostUnique(u) : unsaved[u][j] # Nowhere <=> j \notin savedInv[u]
  BY <1>1, <1>3 DEF Tracked
<1>5. \A j \in LostUnique(u) : roomOf[j] = Nowhere
  BY <1>1 DEF Once, Belongings, LostUnique
<1>6. \A j \in Unique : j \in Restorable(u) <=> j \in inv[u] \ savedInv[u]
  BY <1>4, <1>5 DEF Restorable, LostUnique
<1>7. \A n \in Names : Belongings(n)' = IF n = u THEN savedInv[u] ELSE Belongings(n)
  BY <1>1 DEF Belongings
<1>8. savedInv[u] \subseteq inv[u] /\ Belongings(u) = inv[u]
  BY <1>1 DEF NothingComesBack, Belongings
<1>9. Offline'
  BY <1>1 DEF Offline
<1>10. Once'
  <2> SUFFICES ASSUME NEW j \in Unique
               PROVE  /\ \A n \in Names : j \in Belongings(n)' => roomOf'[j] = Nowhere
                      /\ \A m, n \in Names : j \in Belongings(m)' /\ j \in Belongings(n)' => m = n
                      /\ roomOf'[j] = Nowhere => \E n \in Names : j \in Belongings(n)'
    BY DEF Once
  <2>1. CASE j \in Restorable(u)
    <3>1. roomOf'[j] # Nowhere
      BY <1>1, <2>1 DEF Restorable
    <3>2. \A n \in Names : j \notin Belongings(n)'
      BY <1>1, <1>6, <1>7, <1>8, <2>1 DEF Once
    <3> QED BY <3>1, <3>2
  <2>2. CASE j \notin Restorable(u)
    <3>1. \A n \in Names : j \in Belongings(n)' <=> j \in Belongings(n)
      BY <1>6, <1>7, <1>8, <2>2
    <3>2. roomOf'[j] = roomOf[j]
      BY <1>1, <2>2
    <3> QED BY <1>1, <3>1, <3>2 DEF Once
  <2> QED BY <2>1, <2>2
<1>11. NothingComesBack'
  BY <1>1, <1>7 DEF NothingComesBack
<1>12. RestartAccepted'
  BY <1>1 DEF RestartAccepted, OwnedTwice, SavedOwners
<1>13. TakesHeld'
  BY <1>1 DEF TakesHeld, LostUnique, NoTakes
<1>14. Tracked'
  <2> SUFFICES ASSUME NEW n \in online', ~Settling(n)', NEW j \in LostUnique(n)'
               PROVE  unsaved'[n][j] # Nowhere <=> j \notin savedInv'[n]
    BY DEF Tracked
  <2>1. n \in Names /\ n \in online /\ n # u
    BY <1>1
  <2>2. j \in LostUnique(n) /\ ~Settling(n)
    BY <1>1, <1>2, <2>1, SettlingIsOwn DEF LostUnique
  <2> QED BY <1>1, <2>1, <2>2 DEF Tracked
<1> QED BY <1>1, <1>2, <1>9, <1>10, <1>11, <1>12, <1>13, <1>14, OwnSuffices DEF Data

-------------------------------------------------------------------------------
(* The process stops and starts.                                           *)

\* A kill leaves the records, a restart gives everybody what they list.
LEMMA ServerKeeps ==
    ASSUME LedgerInv, Crash \/ Restart \/ RestartRefused PROVE OneUser' /\ Data'
<1> USE DEF LedgerInv, SessionInv, TypeOK
<1>1. CASE Crash
  <2>1. /\ server' = "down" /\ UNCHANGED savedInv /\ online' = {}
        /\ inv' = [n \in Names |-> {}] /\ unsaved' = [n \in Names |-> NoTakes]
        /\ \A c \in Conns : pc'[c] = "idle" /\ user'[c] = NoName
    BY <1>1 DEF Crash, ResetLocals, ResetMemory
  <2>2. OneUser' /\ SnapshotsFresh' /\ RecordsWritten' /\ DropHeld'
    BY <2>1 DEF OneUser, SnapshotsFresh, RecordsWritten, DropHeld, DropSteps
  <2>3. Offline' /\ TakesHeld' /\ Tracked'
    BY <2>1 DEF Offline, TakesHeld, Tracked, NoTakes
  <2>4. Once' /\ NothingComesBack' /\ RestartAccepted'
    BY <2>1 DEF Once, NothingComesBack, RestartAccepted, OwnedTwice, SavedOwners
  <2> QED BY <2>2, <2>3, <2>4 DEF Data
<1>2. CASE Restart
  <2>1. /\ server = "down" /\ server' = "up"
        /\ roomOf' = [i \in Items |-> RestoredRoomOf(i)]
        /\ UNCHANGED <<pc, user, snapInv, online, inv, unsaved, savedInv, dropping>>
    BY <1>2 DEF Restart
  <2>2. online = {} /\ \A c \in Conns : pc[c] = "idle"
    BY <2>1 DEF Control, Stopped, Sessions, Bound
  <2>3. OneUser' /\ SnapshotsFresh' /\ RecordsWritten' /\ DropHeld'
    BY <2>1, <2>2 DEF OneUser, SnapshotsFresh, RecordsWritten, DropHeld, DropSteps
  <2>4. Offline' /\ TakesHeld' /\ Tracked'
    BY <2>1, <2>2 DEF Offline, TakesHeld, Tracked, LostUnique
  <2>5. NothingComesBack' /\ RestartAccepted'
    BY <2>1, <2>2
       DEF NothingComesBack, RestartAccepted, Belongings, OwnedTwice, SavedOwners
  <2>6. Once'
    <3> SUFFICES ASSUME NEW i \in Unique
                 PROVE  /\ \A n \in Names : i \in savedInv[n] => roomOf'[i] = Nowhere
                        /\ \A m, n \in Names : i \in savedInv[m] /\ i \in savedInv[n] => m = n
                        /\ roomOf'[i] = Nowhere => \E n \in Names : i \in savedInv[n]
      BY <2>1, <2>2 DEF Once, Belongings
    <3>1. \A m, n \in Names : i \in savedInv[m] /\ i \in savedInv[n] => m = n
      BY DEF RestartAccepted, OwnedTwice, SavedOwners
    <3>2. roomOf'[i] = Nowhere <=> SavedOwners(i) # {}
      BY <2>1 DEF RestoredRoomOf, SavedRoomOf
    <3> QED BY <3>1, <3>2 DEF SavedOwners
  <2> QED BY <2>3, <2>4, <2>5, <2>6 DEF Data
<1>3. CASE RestartRefused
  BY <1>3 DEF RestartRefused, RestartAccepted
<1> QED BY <1>1, <1>2, <1>3

-------------------------------------------------------------------------------
(* The invariant is inductive.                                             *)

\* Only a CONNECT gives a handler a name, and the name is nobody else's.
LEMMA StepOneUser ==
    ASSUME LedgerInv, NEW c \in Conns, Handler(c) PROVE OneUser'
<1> USE DEF LedgerInv, SessionInv, TypeOK
<1>1. ASSUME NEW n \in Names, ConnectCheck(c, n) PROVE OneUser'
  <2>1. n \notin online /\ ~Connecting(n) /\ user' = [user EXCEPT ![c] = n]
    BY <1>1 DEF ConnectCheck, NameFree
  <2>2. \A d \in Conns : user[d] # n
    BY <2>1 DEF Connecting, Sessions, Bound
  <2> QED BY <2>1, <2>2 DEF OneUser
<1>2. CASE user' = user \/ user' = [user EXCEPT ![c] = NoName]
  BY <1>2 DEF OneUser
<1>3. CASE ConnectLoad(c) \/ ConnectLoadFails(c) \/ ConnectInstall(c)
           \/ ConnectRefused(c) \/ ConnectAnnounce(c)
  BY <1>2, <1>3 DEF ConnectLoad, ConnectLoadFails, ConnectInstall, ConnectRefused,
         ConnectAnnounce
<1>4. CASE (\E r \in Rooms : Move(c, r)) \/ (\E i \in Items : Take(c, i))
  BY <1>2, <1>4 DEF Move, Take
<1>5. CASE Drop(c)
  BY <1>2, <1>5 DEF Drop, DropBegin, DropLockFiles, DropWriteItems, DropItemsFail,
         DropWritePlayers, DropPlayersFail, DropRollback, DropRollbackFails,
         DropDone, DropGivesUp
<1>6. CASE Die(c)
  BY <1>2, <1>6 DEF Die, DieBegin, DieProtected, DieLockFiles, DieWriteItems,
         DieItemsFail, DieWritePlayers, DiePlayersFail, DieRollback,
         DieRollbackFails, DieDone, DieKeepsAll
<1>7. CASE Leave(c)
  BY <1>2, <1>7 DEF Leave, EndOfInput, Close, SaveBegin, SaveWrite, SaveWriteFails,
         SaveRemove, SaveAbort, Evict, CloseSlot
<1> QED BY <1>1, <1>3, <1>4, <1>5, <1>6, <1>7 DEF Handler, Connect

\* Every step of a handler keeps what is said of items and records.
LEMMA HandlerKeeps ==
    ASSUME LedgerInv, NEW c \in Conns, Handler(c) PROVE Data'
<1>0. ASSUME Calm(c) PROVE Data'
  BY <1>0, CalmKeeps DEF Data
<1>1. CASE Connect(c)
  BY <1>0, <1>1, ConnectIsCalm, InstallKeeps DEF Connect, ConnectCalm
<1>2. CASE \E r \in Rooms : Move(c, r)
  BY <1>0, <1>2, MoveIsCalm
<1>3. CASE \E i \in Items : Take(c, i)
  BY <1>3, TakeKeeps
<1>4. CASE Drop(c)
  BY <1>0, <1>4, DropIsCalm, DropWriteKeeps, DropDoneKeeps DEF Drop, DropCalm
<1>5. CASE Die(c)
  BY <1>0, <1>5, DieIsCalm, DieWriteKeeps, DieDoneKeeps DEF Die, DieCalm
<1>6. CASE Leave(c)
  BY <1>0, <1>6, LeaveIsCalm, SaveWriteKeeps, RemoveKeeps, EvictKeeps
     DEF Leave, LeaveCalm
<1> QED BY <1>1, <1>2, <1>3, <1>4, <1>5, <1>6 DEF Handler

\* So does a step that changes nothing.
LEMMA StutterKeeps ==
    ASSUME LedgerInv, UNCHANGED vars PROVE OneUser' /\ Data'
<1> USE DEF LedgerInv, vars
<1>1. Offline' /\ Once' /\ TakesHeld' /\ NothingComesBack' /\ RestartAccepted'
  BY KeptKeeps DEF Kept
<1>2. OneUser' /\ SnapshotsFresh' /\ RecordsWritten' /\ DropHeld'
  BY DEF OneUser, SnapshotsFresh, RecordsWritten, DropHeld, DropSnapshot
<1>3. Tracked'
  BY DEF Tracked, Settling, LostUnique
<1> QED BY <1>1, <1>2, <1>3 DEF Data

\* The first start satisfies the invariant.
LEMMA InitLedger == Init /\ ~ConcurrentConnects => LedgerInv
<1> SUFFICES ASSUME Init, ~ConcurrentConnects PROVE LedgerInv
  OBVIOUS
<1> USE DEF Init
<1>1. SessionInv
  BY InitSessionInv
<1>2. OneUser /\ SnapshotsFresh /\ RecordsWritten /\ DropHeld
  BY DEF OneUser, SnapshotsFresh, RecordsWritten, DropHeld, DropSteps
<1>3. Offline /\ TakesHeld /\ Tracked
  BY DEF Offline, TakesHeld, Tracked, NoTakes
<1>4. Once /\ NothingComesBack /\ RestartAccepted
  BY DEF Once, NothingComesBack, Belongings, RestartAccepted, OwnedTwice, SavedOwners
<1> QED BY <1>1, <1>2, <1>3, <1>4 DEF LedgerInv

\* The invariant is inductive.
LEMMA NextLedger == LedgerInv /\ [Next]_vars => LedgerInv'
<1> SUFFICES ASSUME LedgerInv, [Next]_vars PROVE LedgerInv'
  OBVIOUS
<1>1. SessionInv'
  BY NextSession DEF LedgerInv
<1>2. ASSUME NEW c \in Conns, Handler(c) PROVE OneUser' /\ Data'
  BY <1>2, StepOneUser, HandlerKeeps
<1>3. ASSUME Crash \/ Restart \/ RestartRefused PROVE OneUser' /\ Data'
  BY <1>3, ServerKeeps
<1>4. ASSUME UNCHANGED vars PROVE OneUser' /\ Data'
  BY <1>4, StutterKeeps
<1>5. OneUser' /\ Data'
  BY <1>2, <1>3, <1>4 DEF Next
<1> QED BY <1>1, <1>5 DEF LedgerInv, Data

\* It holds in every reachable state.
LEMMA LedgerInvariant == Spec /\ ~ConcurrentConnects => []LedgerInv
BY InitLedger, NextLedger, PTL DEF Spec

\* Item by item or as sets of holders, it is the same.
LEMMA OnceExists == LedgerInv => ExistsOnce
<1> SUFFICES ASSUME LedgerInv, server = "up", NEW i \in Unique
             PROVE  /\ roomOf[i] # Nowhere => Holders(i) = {}
                    /\ roomOf[i] = Nowhere => \E n \in Names : Holders(i) = {n}
  BY DEF ExistsOnce
<1>1. roomOf[i] # Nowhere => Holders(i) = {}
  BY DEF LedgerInv, Once, Holders
<1>2. ASSUME roomOf[i] = Nowhere PROVE \E n \in Names : Holders(i) = {n}
  <2>1. PICK n \in Names : i \in Belongings(n)
    BY <1>2 DEF LedgerInv, Once
  <2>2. Holders(i) = {n}
    BY <2>1 DEF LedgerInv, Once, Holders
  <2> QED BY <2>2
<1> QED BY <1>1, <1>2

\* Item by item or as sets of takes, it is the same.
LEMMA TrackedTakes == LedgerInv => TakesTracked
<1> SUFFICES ASSUME LedgerInv, NEW n \in online, ~Settling(n)
             PROVE  {i \in Items : unsaved[n][i] # Nowhere} = LostUnique(n) \ savedInv[n]
  BY DEF TakesTracked
<1>1. n \in Names /\ LostUnique(n) \subseteq Items
  BY DEF LedgerInv, SessionInv, TypeOK, LostUnique
<1>2. \A i \in Items : unsaved[n][i] # Nowhere => i \in LostUnique(n)
  BY <1>1 DEF LedgerInv, TakesHeld
<1>3. \A i \in LostUnique(n) : unsaved[n][i] # Nowhere <=> i \notin savedInv[n]
  BY DEF LedgerInv, Tracked
<1> QED BY <1>1, <1>2, <1>3

\* Every one-of-a-kind item is at exactly one place, for any number of
\* connections, players and items, and any failures and kills.
THEOREM ItemsExistOnce == Spec /\ ~ConcurrentConnects => []ExistsOnce
BY LedgerInvariant, OnceExists, PTL

\* NewServer never refuses the files that a kill left behind.
THEOREM RestartsAccepted == Spec /\ ~ConcurrentConnects => []RestartAccepted
<1>1. LedgerInv => RestartAccepted
  BY DEF LedgerInv
<1> QED BY <1>1, LedgerInvariant, PTL

\* A restart gives no player anything the player had given away.
THEOREM NothingReturns == Spec /\ ~ConcurrentConnects => []NothingComesBack
<1>1. LedgerInv => NothingComesBack
  BY DEF LedgerInv
<1> QED BY <1>1, LedgerInvariant, PTL

\* A disconnect that cannot save puts back exactly what no record lists.
THEOREM TakesAreTracked == Spec /\ ~ConcurrentConnects => []TakesTracked
BY LedgerInvariant, TrackedTakes, PTL

-------------------------------------------------------------------------------

(***************************************************************************)
(* What lies in a room survives a restart: for any number of players and   *)
(* items, the location file agrees with the rooms in memory, except for    *)
(* the items whose location a failed rollback left wrong.                  *)
(***************************************************************************)

\* The location of an item that a rollback would write, or that is written.
SettledRoomOf(i) ==
    LET loc == IF ioMu = Nobody THEN savedLoc[i] ELSE undo[i]
    IN  IF loc = Nowhere THEN Home[i] ELSE loc

\* Between the writes of a DROP or a death only its own entries differ.
Undoable ==
    \A c \in Conns :
        /\ pc[c] \in {"drop_items", "die_items"} => undo = savedLoc
        /\ pc[c] \in {"drop_players", "drop_rollback"} =>
              \A i \in Items : i = dropping \/ undo[i] = savedLoc[i]
        /\ pc[c] \in {"drop_players", "drop_rollback", "drop_done"} /\ dropping \in Unique =>
              savedLoc[dropping] = room[user[c]]
        /\ pc[c] \in {"die_players", "die_rollback", "die_done"} =>
              \A i \in Items : IF i \in LostUnique(user[c])
                               THEN savedLoc[i] = Home[i] ELSE undo[i] = savedLoc[i]

\* An unsaved take remembers the room where the files have the item.
TakesLocated ==
    \A n \in Names, i \in Unique \ torn :
        unsaved[n][i] # Nowhere =>
            \/ SettledRoomOf(i) = unsaved[n][i]
            \/ \E c \in Conns : pc[c] = "drop_done" /\ dropping = i /\ user[c] = n

\* An item in a room is where the location file has it.
FloorLocated ==
    server = "up" =>
        \A i \in Unique \ torn : roomOf[i] # Nowhere => SavedRoomOf(i) = roomOf[i]

FloorInv == LedgerInv /\ Undoable /\ TakesLocated /\ FloorLocated



-------------------------------------------------------------------------------
(* Steps between the writes of a DROP or a death.                          *)

\* While one handler is between two writes, no other holds s.mu.
LEMMA SoleHolder ==
    ASSUME FloorInv, NEW c \in Conns, pc[c] \in MuSteps
    PROVE  /\ mu = c
           /\ \A d \in Conns \ {c} : pc[d] \notin MuSteps
           /\ ioMu = IF pc[c] \in IoSteps THEN c ELSE Nobody
<1>1. mu = c /\ \A d \in Conns \ {c} : pc[d] \notin MuSteps
  BY HoldsMu DEF FloorInv
<1>2. \A d \in Conns : ioMu = d <=> pc[d] \in IoSteps
  BY DEF FloorInv, LedgerInv, SessionInv, Control, LocksHeld
<1>3. ioMu \in Conns \cup {Nobody}
  BY DEF FloorInv, LedgerInv, SessionInv, TypeOK
<1> QED BY <1>1, <1>2, <1>3 DEF MuSteps, IoSteps

\* The item of an unsaved take is in the taker's hands.
LEMMA TakesInHand ==
    ASSUME FloorInv, server = "up", NEW n \in Names, NEW i \in Unique,
           unsaved[n][i] # Nowhere
    PROVE  /\ i \in inv[n] /\ n \in online /\ roomOf[i] = Nowhere
           /\ \A m \in online : i \in inv[m] => m = n
<1> USE DEF FloorInv, LedgerInv
<1>1. i \in inv[n]
  BY DEF TakesHeld, LostUnique
<1>2. n \in online
  BY <1>1 DEF Offline
<1>3. online \subseteq Names
  BY DEF SessionInv, TypeOK
<1> QED BY <1>1, <1>2, <1>3 DEF Once, Belongings

\* A step that moves no item keeps the files in agreement with the rooms if it
\* keeps the settled locations.
LEMMA MidStep ==
    ASSUME FloorInv, NEW c \in Conns, pc[c] \in MuSteps \ {"drop_done"},
           server = "up",
           UNCHANGED <<server, user, roomOf, unsaved>>,
           torn \subseteq torn',
           \A i \in Unique \ torn' :
              \/ SettledRoomOf(i)' = SettledRoomOf(i)
              \/ pc'[c] = "drop_done" /\ dropping' = i /\ i \in inv[user[c]],
           \A i \in Unique \ torn' : roomOf[i] # Nowhere => savedLoc'[i] = savedLoc[i]
    PROVE  TakesLocated' /\ FloorLocated'
<1>1. FloorLocated'
  BY DEF FloorInv, FloorLocated, SavedRoomOf
<1>2. ASSUME NEW n \in Names, NEW i \in Unique \ torn', unsaved[n][i] # Nowhere
      PROVE  \/ SettledRoomOf(i)' = unsaved[n][i]
             \/ \E d \in Conns : pc'[d] = "drop_done" /\ dropping' = i /\ user[d] = n
  <2>1. SettledRoomOf(i) = unsaved[n][i]
    BY <1>2, SoleHolder DEF FloorInv, TakesLocated, MuSteps
  <2>2. CASE SettledRoomOf(i)' = SettledRoomOf(i)
    BY <2>1, <2>2
  <2>3. CASE pc'[c] = "drop_done" /\ dropping' = i /\ i \in inv[user[c]]
    <3>1. user[c] \in online
      BY ServesOnline DEF FloorInv, MuSteps
    <3>2. user[c] = n
      BY <1>2, <2>3, <3>1, TakesInHand
    <3> QED BY <2>3, <3>2
  <2> QED BY <2>2, <2>3
<1> QED BY <1>1, <1>2 DEF TakesLocated

\* A handler's own share of Undoable.
OwnUndo(c) ==
    /\ pc[c] \in {"drop_items", "die_items"} => undo = savedLoc
    /\ pc[c] \in {"drop_players", "drop_rollback"} =>
          \A i \in Items : i = dropping \/ undo[i] = savedLoc[i]
    /\ pc[c] \in {"drop_players", "drop_rollback", "drop_done"} /\ dropping \in Unique =>
          savedLoc[dropping] = room[user[c]]
    /\ pc[c] \in {"die_players", "die_rollback", "die_done"} =>
          \A i \in Items : IF i \in LostUnique(user[c])
                           THEN savedLoc[i] = Home[i] ELSE undo[i] = savedLoc[i]

\* While one handler holds s.mu, Undoable speaks of that handler only.
LEMMA OwnUndoSuffices ==
    ASSUME FloorInv, NEW c \in Conns, mu \in {Nobody, c},
           \A d \in Conns \ {c} : pc'[d] = pc[d], OwnUndo(c)'
    PROVE  Undoable'
<1>1. \A d \in Conns \ {c} : pc[d] \notin MuSteps
  BY HoldsMu DEF FloorInv
<1> QED BY <1>1 DEF Undoable, OwnUndo, MuSteps

Floor == Undoable /\ TakesLocated /\ FloorLocated

\* What a DROP between its first and its last step knows.
LEMMA DropKnows ==
    ASSUME FloorInv, NEW c \in Conns, pc[c] \in DropSteps
    PROVE  /\ user[c] \in Names /\ room[user[c]] \in Rooms
           /\ dropping \in inv[user[c]] /\ dropping \in Items
           /\ dropping \in Unique => roomOf[dropping] = Nowhere
<1> USE DEF FloorInv, LedgerInv, SessionInv, TypeOK
<1>1. user[c] \in Names
  BY UserIsName DEF DropSteps
<1> QED BY <1>1 DEF DropHeld

\* DROP, from the first read of the location file to the last rollback.
LEMMA DropMidKeeps ==
    ASSUME FloorInv, NEW c \in Conns,
           \/ DropLockFiles(c) \/ DropWriteItems(c) \/ DropItemsFail(c)
           \/ DropWritePlayers(c) \/ DropPlayersFail(c)
           \/ DropRollback(c) \/ DropRollbackFails(c)
    PROVE  Floor'
<1> USE DEF FloorInv, LedgerInv, SessionInv, TypeOK
<1>0. /\ pc[c] \in DropSteps \ {"drop_done"} /\ pc[c] \in MuSteps /\ server = "up"
      /\ UNCHANGED <<server, user, roomOf, unsaved, room, inv>>
      /\ \A d \in Conns \ {c} : pc'[d] = pc[d]
  BY DEF DropLockFiles, DropWriteItems, DropItemsFail, DropWritePlayers,
         DropPlayersFail, DropRollback, DropRollbackFails, DropGivesUp,
         At, Goto, DropSteps, MuSteps
<1>1. /\ mu = c /\ ioMu = (IF pc[c] \in IoSteps THEN c ELSE Nobody) /\ c # Nobody
  BY <1>0, SoleHolder
<1>2. /\ room[user[c]] \in Rooms
      /\ dropping \in inv[user[c]] /\ dropping \in Items
      /\ dropping \in Unique => roomOf[dropping] = Nowhere
  BY <1>0, DropKnows
<1>3. OwnUndo(c)
  BY DEF Undoable, OwnUndo
<1>4. CASE DropLockFiles(c)
  <2>1. /\ pc[c] = "drop" /\ ioMu = Nobody /\ ioMu' = c /\ undo' = savedLoc
        /\ UNCHANGED <<savedLoc, torn>>
        /\ pc'[c] = IF dropping \in Unique THEN "drop_items" ELSE "drop_players"
        /\ dropping' = dropping
    BY <1>1, <1>4 DEF DropLockFiles, At, Goto, IoFree
  <2>2. \A i \in Items : SettledRoomOf(i)' = SettledRoomOf(i)
    BY <1>1, <2>1 DEF SettledRoomOf
  <2>3. OwnUndo(c)'
    BY <2>1 DEF OwnUndo
  <2> QED BY <1>0, <1>1, <2>1, <2>2, <2>3, MidStep, OwnUndoSuffices DEF Floor
<1>5. CASE DropWriteItems(c)
  <2>1. /\ pc[c] = "drop_items" /\ ioMu = c /\ UNCHANGED <<ioMu, undo, torn, dropping>>
        /\ savedLoc' = [savedLoc EXCEPT ![dropping] = room[user[c]]]
        /\ pc'[c] = "drop_players"
    BY <1>1, <1>5 DEF DropWriteItems, At, Goto, IoSteps
  <2>2. \A i \in Items : SettledRoomOf(i)' = SettledRoomOf(i)
    BY <1>1, <2>1 DEF SettledRoomOf
  <2>3. OwnUndo(c)'
    BY <1>0, <1>2, <1>3, <2>1 DEF OwnUndo
  <2>4. \A i \in Unique : roomOf[i] # Nowhere => savedLoc'[i] = savedLoc[i]
    BY <1>2, <2>1
  <2> QED BY <1>0, <1>1, <2>1, <2>2, <2>3, <2>4, MidStep, OwnUndoSuffices DEF Floor
<1>6. ASSUME DropGivesUp(c), torn \subseteq torn',
             \A i \in Unique \ torn' : savedLoc'[i] = IF ioMu = Nobody THEN savedLoc[i] ELSE undo[i],
             \A i \in Unique : roomOf[i] # Nowhere => savedLoc'[i] = savedLoc[i]
      PROVE  Floor'
  <2>1. ioMu' = Nobody /\ pc'[c] = "idle"
    BY <1>6 DEF DropGivesUp, Goto
  <2>2. \A i \in Unique \ torn' : SettledRoomOf(i)' = SettledRoomOf(i)
    BY <1>6, <2>1 DEF SettledRoomOf
  <2>3. OwnUndo(c)'
    BY <2>1 DEF OwnUndo
  <2> QED BY <1>0, <1>1, <1>6, <2>2, <2>3, MidStep, OwnUndoSuffices DEF Floor
<1>7. CASE DropItemsFail(c)
  <2>1. DropGivesUp(c) /\ UNCHANGED <<savedLoc, torn>> /\ ioMu = c /\ undo = savedLoc
    BY <1>1, <1>3, <1>7 DEF DropItemsFail, At, IoSteps, OwnUndo
  <2> QED BY <1>1, <1>6, <2>1
<1>8. CASE DropWritePlayers(c)
  <2>1. /\ pc[c] = "drop_players" /\ ioMu = c /\ ioMu' = Nobody
        /\ UNCHANGED <<savedLoc, torn, dropping>> /\ pc'[c] = "drop_done"
    BY <1>1, <1>8 DEF DropWritePlayers, At, Goto, IoSteps
  <2>2. \A i \in Unique : i # dropping => SettledRoomOf(i)' = SettledRoomOf(i)
    BY <1>1, <1>3, <2>1 DEF SettledRoomOf, OwnUndo
  <2>3. OwnUndo(c)'
    BY <1>0, <1>3, <2>1 DEF OwnUndo
  <2>4. \A i \in Unique \ torn' :
          \/ SettledRoomOf(i)' = SettledRoomOf(i)
          \/ pc'[c] = "drop_done" /\ dropping' = i /\ i \in inv[user[c]]
    BY <1>2, <2>1, <2>2
  <2>5. TakesLocated' /\ FloorLocated'
    BY <1>0, <2>1, <2>4, MidStep
  <2> QED BY <1>0, <1>1, <2>3, <2>5, OwnUndoSuffices DEF Floor
<1>9. CASE DropPlayersFail(c)
  <2>1. /\ pc[c] = "drop_players" /\ ioMu = c /\ UNCHANGED <<savedLoc, torn>>
    BY <1>1, <1>9 DEF DropPlayersFail, At, IoSteps
  <2>2. CASE dropping \in Unique
    <3>1. UNCHANGED <<ioMu, undo, dropping>> /\ pc'[c] = "drop_rollback"
      BY <1>9, <2>1, <2>2 DEF DropPlayersFail, Goto
    <3>2. \A i \in Unique : SettledRoomOf(i)' = SettledRoomOf(i)
      BY <2>1, <3>1 DEF SettledRoomOf
    <3>3. OwnUndo(c)'
      BY <1>0, <1>3, <2>1, <3>1 DEF OwnUndo
    <3> QED BY <1>0, <1>1, <2>1, <3>1, <3>2, <3>3, MidStep, OwnUndoSuffices DEF Floor
  <2>3. CASE dropping \notin Unique
    <3>1. DropGivesUp(c)
      BY <1>9, <2>3 DEF DropPlayersFail
    <3>2. \A i \in Unique : undo[i] = savedLoc[i]
      BY <1>3, <2>1, <2>3 DEF OwnUndo
    <3> QED BY <1>1, <1>6, <2>1, <3>1, <3>2
  <2> QED BY <2>2, <2>3
<1>10. CASE DropRollback(c)
  <2>1. /\ DropGivesUp(c) /\ savedLoc' = undo /\ UNCHANGED torn
        /\ pc[c] = "drop_rollback" /\ ioMu = c /\ dropping \in Unique
    BY <1>1, <1>10 DEF DropRollback, UndoneLoc, At, IoSteps, Control, DropsUnique
  <2>2. \A i \in Unique : roomOf[i] # Nowhere => savedLoc'[i] = savedLoc[i]
    BY <1>2, <1>3, <2>1 DEF OwnUndo
  <2> QED BY <1>1, <1>6, <2>1, <2>2
<1>11. CASE DropRollbackFails(c)
  <2>1. /\ DropGivesUp(c) /\ UNCHANGED savedLoc /\ torn' = torn \cup {dropping}
        /\ pc[c] = "drop_rollback" /\ ioMu = c
    BY <1>1, <1>11 DEF DropRollbackFails, At, IoSteps
  <2>2. \A i \in Unique \ torn' : undo[i] = savedLoc[i]
    BY <1>3, <2>1 DEF OwnUndo
  <2> QED BY <1>1, <1>6, <2>1, <2>2
<1> QED BY <1>4, <1>5, <1>7, <1>8, <1>9, <1>10, <1>11

\* A death, from the first read of the location file to the last rollback.
LEMMA DieMidKeeps ==
    ASSUME FloorInv, NEW c \in Conns,
           \/ DieProtected(c) \/ DieLockFiles(c) \/ DieWriteItems(c)
           \/ DieItemsFail(c) \/ DieWritePlayers(c) \/ DiePlayersFail(c)
           \/ DieRollback(c) \/ DieRollbackFails(c)
    PROVE  Floor'
<1> DEFINE u == user[c]
<1> USE DEF FloorInv, LedgerInv, SessionInv, TypeOK
<1>0. /\ pc[c] \in MuSteps \ DropSteps /\ pc[c] # "drop_done" /\ server = "up"
      /\ UNCHANGED <<server, user, roomOf, unsaved, inv, dropping>>
      /\ \A d \in Conns \ {c} : pc'[d] = pc[d]
  BY DEF DieProtected, DieLockFiles, DieWriteItems, DieItemsFail, DieWritePlayers,
         DiePlayersFail, DieRollback, DieRollbackFails, DieKeepsAll, Reply,
         At, Goto, DropSteps, MuSteps
<1>1. /\ mu = c /\ ioMu = (IF pc[c] \in IoSteps THEN c ELSE Nobody) /\ c # Nobody
  BY <1>0, SoleHolder
<1>2. /\ u \in Names /\ u \in online /\ LostUnique(u)' = LostUnique(u)
      /\ \A i \in LostUnique(u) : i \in Unique /\ roomOf[i] = Nowhere
  BY <1>0, UserIsName, ServesOnline DEF MuSteps, Once, Belongings, LostUnique
<1>3. OwnUndo(c)
  BY DEF Undoable, OwnUndo
<1>4. CASE DieLockFiles(c)
  <2>1. /\ pc[c] = "die" /\ ioMu = Nobody /\ ioMu' = c /\ undo' = savedLoc
        /\ UNCHANGED <<savedLoc, torn>>
        /\ pc'[c] = IF LostUnique(u) = {} THEN "die_players" ELSE "die_items"
    BY <1>1, <1>4 DEF DieLockFiles, At, Goto, IoFree
  <2>2. \A i \in Items : SettledRoomOf(i)' = SettledRoomOf(i)
    BY <1>1, <2>1 DEF SettledRoomOf
  <2>3. OwnUndo(c)'
    BY <1>0, <1>2, <2>1 DEF OwnUndo
  <2>4. TakesLocated' /\ FloorLocated'
    BY <1>0, <2>1, <2>2, MidStep
  <2> QED BY <1>0, <1>1, <2>3, <2>4, OwnUndoSuffices DEF Floor
<1>5. CASE DieWriteItems(c)
  <2>1. /\ pc[c] = "die_items" /\ ioMu = c /\ UNCHANGED <<ioMu, undo, torn>>
        /\ savedLoc' = [i \in Items |-> IF i \in LostUnique(u) THEN Home[i] ELSE savedLoc[i]]
        /\ pc'[c] = "die_players"
    BY <1>1, <1>5 DEF DieWriteItems, At, Goto, IoSteps
  <2>2. \A i \in Items : SettledRoomOf(i)' = SettledRoomOf(i)
    BY <1>1, <2>1 DEF SettledRoomOf
  <2>3. OwnUndo(c)'
    BY <1>0, <1>2, <1>3, <2>1 DEF OwnUndo
  <2>4. \A i \in Unique : roomOf[i] # Nowhere => savedLoc'[i] = savedLoc[i]
    BY <1>2, <2>1
  <2>5. TakesLocated' /\ FloorLocated'
    BY <1>0, <2>1, <2>2, <2>4, MidStep
  <2> QED BY <1>0, <1>1, <2>3, <2>5, OwnUndoSuffices DEF Floor
<1>6. ASSUME DieKeepsAll(c), torn \subseteq torn',
             \A i \in Unique \ torn' : savedLoc'[i] = IF ioMu = Nobody THEN savedLoc[i] ELSE undo[i],
             \A i \in Unique : roomOf[i] # Nowhere => savedLoc'[i] = savedLoc[i]
      PROVE  Floor'
  <2>1. ioMu' = Nobody /\ pc'[c] = "idle"
    BY <1>6 DEF DieKeepsAll, Reply, Goto
  <2>2. \A i \in Unique \ torn' : SettledRoomOf(i)' = SettledRoomOf(i)
    BY <1>6, <2>1 DEF SettledRoomOf
  <2>3. OwnUndo(c)'
    BY <2>1 DEF OwnUndo
  <2>4. TakesLocated' /\ FloorLocated'
    BY <1>0, <1>6, <2>2, MidStep
  <2> QED BY <1>0, <1>1, <2>3, <2>4, OwnUndoSuffices DEF Floor
<1>7. CASE DieProtected(c)
  <2>1. DieKeepsAll(c) /\ UNCHANGED <<savedLoc, torn>> /\ ioMu = Nobody
    BY <1>1, <1>7 DEF DieProtected, At, IoSteps
  <2> QED BY <1>6, <2>1
<1>8. CASE DieItemsFail(c)
  <2>1. DieKeepsAll(c) /\ UNCHANGED <<savedLoc, torn>> /\ ioMu = c /\ undo = savedLoc
    BY <1>1, <1>3, <1>8 DEF DieItemsFail, At, IoSteps, OwnUndo
  <2> QED BY <1>1, <1>6, <2>1
<1>9. CASE DieWritePlayers(c)
  <2>1. /\ pc[c] = "die_players" /\ UNCHANGED <<ioMu, undo, savedLoc, torn>>
        /\ pc'[c] = "die_done"
    BY <1>1, <1>9 DEF DieWritePlayers, At, Goto
  <2>2. \A i \in Unique : SettledRoomOf(i)' = SettledRoomOf(i)
    BY <2>1 DEF SettledRoomOf
  <2>3. OwnUndo(c)'
    BY <1>0, <1>2, <1>3, <2>1 DEF OwnUndo
  <2>4. TakesLocated' /\ FloorLocated'
    BY <1>0, <2>1, <2>2, MidStep
  <2> QED BY <1>0, <1>1, <2>3, <2>4, OwnUndoSuffices DEF Floor
<1>10. CASE DiePlayersFail(c)
  <2>1. /\ pc[c] = "die_players" /\ ioMu = c /\ UNCHANGED <<savedLoc, torn>>
    BY <1>1, <1>10 DEF DiePlayersFail, At, IoSteps
  <2>2. CASE LostUnique(u) # {}
    <3>1. UNCHANGED <<ioMu, undo>> /\ pc'[c] = "die_rollback"
      BY <1>10, <2>1, <2>2 DEF DiePlayersFail, Goto
    <3>2. \A i \in Unique : SettledRoomOf(i)' = SettledRoomOf(i)
      BY <2>1, <3>1 DEF SettledRoomOf
    <3>3. OwnUndo(c)'
      BY <1>0, <1>2, <1>3, <2>1, <3>1 DEF OwnUndo
    <3>4. TakesLocated' /\ FloorLocated'
      BY <1>0, <2>1, <3>2, MidStep
    <3> QED BY <1>0, <1>1, <3>3, <3>4, OwnUndoSuffices DEF Floor
  <2>3. CASE LostUnique(u) = {}
    <3>1. DieKeepsAll(c)
      BY <1>10, <2>3 DEF DiePlayersFail
    <3>2. \A i \in Unique : undo[i] = savedLoc[i]
      BY <1>3, <2>1, <2>3 DEF OwnUndo
    <3> QED BY <1>1, <1>6, <2>1, <3>1, <3>2
  <2> QED BY <2>2, <2>3
<1>11. CASE DieRollback(c)
  <2>1. /\ DieKeepsAll(c) /\ savedLoc' = undo /\ UNCHANGED torn
        /\ pc[c] = "die_rollback" /\ ioMu = c
    BY <1>1, <1>11 DEF DieRollback, At, IoSteps
  <2>2. \A i \in Unique : roomOf[i] # Nowhere => savedLoc'[i] = savedLoc[i]
    BY <1>2, <1>3, <2>1 DEF OwnUndo
  <2> QED BY <1>1, <1>6, <2>1, <2>2
<1>12. CASE DieRollbackFails(c)
  <2>1. /\ DieKeepsAll(c) /\ UNCHANGED savedLoc /\ torn' = torn \cup LostUnique(u)
        /\ pc[c] = "die_rollback" /\ ioMu = c
    BY <1>1, <1>12 DEF DieRollbackFails, At, IoSteps
  <2>2. \A i \in Unique \ torn' : undo[i] = savedLoc[i]
    BY <1>3, <2>1 DEF OwnUndo
  <2> QED BY <1>1, <1>6, <2>1, <2>2
<1> QED BY <1>4, <1>5, <1>7, <1>8, <1>9, <1>10, <1>11, <1>12

-------------------------------------------------------------------------------
(* Steps outside DROP and death.                                           *)

\* A step that neither writes locations nor moves an item from or to a room.
FloorCalm(c) ==
    /\ UNCHANGED <<server, roomOf, savedLoc, torn, undo, ioMu>>
    /\ \A n \in Names, i \in Items : unsaved'[n][i] \in {unsaved[n][i], Nowhere}
    /\ \A d \in Conns \ {c} : UNCHANGED <<pc[d], user[d]>>
    /\ pc[c] \notin MuSteps /\ pc'[c] \notin MuSteps \ {"drop", "die"}
    /\ mu = Nobody \/ UNCHANGED <<dropping, room, inv>>

\* A step away from items and locations keeps the agreement.
LEMMA FloorCalmKeeps ==
    ASSUME FloorInv, NEW c \in Conns, FloorCalm(c) PROVE Floor'
<1> USE DEF FloorInv, FloorCalm
<1>1. \A d \in Conns : pc[d] \in MuSteps => d # c /\ mu = d /\ d # Nobody
  BY HoldsMu
<1>2. \A d \in Conns : pc'[d] \in MuSteps \ {"drop", "die"} =>
         pc'[d] = pc[d] /\ user'[d] = user[d] /\ UNCHANGED <<dropping, room, inv>>
  BY <1>1
<1>3. Undoable'
  BY <1>2 DEF Undoable, MuSteps, LostUnique
<1>4. FloorLocated'
  BY DEF FloorLocated, SavedRoomOf
<1>5. \A i \in Items : SettledRoomOf(i)' = SettledRoomOf(i)
  BY DEF SettledRoomOf
<1>6. ASSUME NEW n \in Names, NEW i \in Unique \ torn', unsaved'[n][i] # Nowhere
      PROVE  \/ SettledRoomOf(i)' = unsaved'[n][i]
             \/ \E d \in Conns : pc'[d] = "drop_done" /\ dropping' = i /\ user'[d] = n
  <2>1. unsaved'[n][i] = unsaved[n][i] /\ unsaved[n][i] # Nowhere
    BY <1>6
  <2>2. CASE SettledRoomOf(i) = unsaved[n][i]
    BY <1>5, <2>1, <2>2
  <2>3. ASSUME NEW d \in Conns, pc[d] = "drop_done", dropping = i, user[d] = n
        PROVE  pc'[d] = "drop_done" /\ dropping' = i /\ user'[d] = n
    BY <1>1, <2>3 DEF MuSteps
  <2> QED BY <2>1, <2>2, <2>3 DEF TakesLocated
<1> QED BY <1>3, <1>4, <1>6 DEF Floor, TakesLocated

\* Everything but DROP, death, TAKE and a failed leave is calm.
LEMMA OutsideKeeps ==
    ASSUME FloorInv, NEW c \in Conns,
           \/ Connect(c) \/ \E r \in Rooms : Move(c, r)
           \/ \E i \in Items : DropBegin(c, i)
           \/ DieBegin(c) \/ LeaveCalm(c) \/ SaveWrite(c) \/ SaveRemove(c)
    PROVE  Floor'
<1> USE DEF FloorInv, LedgerInv, SessionInv, TypeOK, FloorCalm, At, Goto, MuFree,
           MuSteps
<1>1. CASE \E n \in Names : ConnectCheck(c, n)
  <2>1. FloorCalm(c)
    BY <1>1 DEF ConnectCheck, Waiting
  <2> QED BY <2>1, FloorCalmKeeps
<1>2. CASE ConnectLoad(c) \/ ConnectLoadFails(c)
  <2>1. FloorCalm(c)
    BY <1>2 DEF ConnectLoad, ConnectLoadFails
  <2> QED BY <2>1, FloorCalmKeeps
<1>3. CASE ConnectInstall(c) \/ ConnectRefused(c) \/ ConnectAnnounce(c)
  <2>1. FloorCalm(c)
    BY <1>3 DEF ConnectInstall, ConnectRefused, ConnectAnnounce, Reply
  <2> QED BY <2>1, FloorCalmKeeps
<1>4. CASE \E r \in Rooms : Move(c, r)
  <2>1. FloorCalm(c)
    BY <1>4 DEF Move, Commands, Waiting
  <2> QED BY <2>1, FloorCalmKeeps
<1>5. CASE (\E i \in Items : DropBegin(c, i)) \/ DieBegin(c)
  <2>1. FloorCalm(c)
    BY <1>5 DEF DropBegin, DieBegin, Commands, Waiting
  <2> QED BY <2>1, FloorCalmKeeps
<1>6. CASE LeaveCalm(c)
  <2>1. FloorCalm(c)
    BY <1>6 DEF LeaveCalm, EndOfInput, Close, SaveBegin, SaveWriteFails, SaveAbort,
                AfterError, CloseSlot, Waiting
  <2> QED BY <2>1, FloorCalmKeeps
<1>7. CASE SaveWrite(c)
  <2>1. FloorCalm(c)
    BY <1>7 DEF SaveWrite
  <2> QED BY <2>1, FloorCalmKeeps
<1>8. CASE SaveRemove(c)
  <2>1. unsaved' = [unsaved EXCEPT ![user[c]] = NoTakes]
    BY <1>8 DEF SaveRemove, RemovePlayer
  <2>2. \A n \in Names, i \in Items : unsaved'[n][i] \in {unsaved[n][i], Nowhere}
    BY <2>1 DEF NoTakes
  <2>3. FloorCalm(c)
    BY <1>8, <2>2 DEF SaveRemove, RemovePlayer, CloseSlot
  <2> QED BY <2>3, FloorCalmKeeps
<1> QED
  BY <1>1, <1>2, <1>3, <1>4, <1>5, <1>6, <1>7, <1>8 DEF Connect

\* Nobody holds s.ioMu when nobody holds s.mu.
LEMMA IoNeedsMu ==
    ASSUME FloorInv, mu = Nobody
    PROVE  ioMu = Nobody /\ \A d \in Conns : pc[d] \notin MuSteps
<1>1. \A d \in Conns : pc[d] \notin MuSteps /\ ioMu # d
  BY DEF FloorInv, LedgerInv, SessionInv, Control, LocksHeld, MuSteps, IoSteps
<1> QED BY <1>1 DEF FloorInv, LedgerInv, SessionInv, TypeOK

\* TAKE: the room that is remembered is the one in the files.
LEMMA TakeKeepsFloor ==
    ASSUME FloorInv, NEW c \in Conns, NEW i \in Items, Take(c, i) PROVE Floor'
<1> DEFINE u == user[c]
<1> USE DEF FloorInv, LedgerInv, SessionInv, TypeOK
<1>1. /\ u \in Names /\ roomOf[i] = room[u] /\ room[u] # Nowhere
      /\ server = "up" /\ mu = Nobody
      /\ \A d \in Conns : d # c => pc'[d] = pc[d]
      /\ pc'[c] \in {"idle", "die"}
      /\ UNCHANGED <<server, user, savedLoc, torn, undo, ioMu, dropping>>
  BY DEF Take, Commands, Waiting, Updatable, MuFree, AvailableTo, Reply, Goto
<1>2. ioMu = Nobody /\ \A d \in Conns : pc'[d] \notin MuSteps \ {"die"}
  BY <1>1, IoNeedsMu DEF MuSteps
<1>3. Undoable'
  BY <1>2 DEF Undoable, MuSteps
<1>4. \A j \in Items : SettledRoomOf(j)' = SettledRoomOf(j) /\ SettledRoomOf(j) = SavedRoomOf(j)
  BY <1>1, <1>2 DEF SettledRoomOf, SavedRoomOf
<1>5. \A n \in Names, j \in Unique \ torn :
         unsaved[n][j] # Nowhere => SettledRoomOf(j) = unsaved[n][j]
  <2>1. \A d \in Conns : pc[d] # "drop_done"
    BY <1>1, IoNeedsMu DEF MuSteps
  <2> QED BY <2>1 DEF TakesLocated
<1>6. CASE i \in Unique
  <2>1. /\ unsaved' = [unsaved EXCEPT ![u][i] = room[u]]
        /\ roomOf' = [roomOf EXCEPT ![i] = Nowhere]
    BY <1>6 DEF Take, TakeItem
  <2>2. FloorLocated'
    BY <1>1, <2>1 DEF FloorLocated, SavedRoomOf
  <2>3. i \notin torn => SettledRoomOf(i) = room[u]
    BY <1>1, <1>4, <1>6 DEF FloorLocated
  <2>4. ASSUME NEW n \in Names, NEW j \in Unique \ torn', unsaved'[n][j] # Nowhere
        PROVE  SettledRoomOf(j)' = unsaved'[n][j]
    <3>1. CASE n = u /\ j = i
      BY <1>1, <1>4, <2>1, <2>3, <3>1
    <3>2. CASE ~(n = u /\ j = i)
      <4>1. unsaved'[n][j] = unsaved[n][j]
        BY <2>1, <3>2
      <4> QED BY <1>1, <1>4, <1>5, <2>4, <4>1
    <3> QED BY <3>1, <3>2
  <2> QED BY <1>3, <2>2, <2>4 DEF Floor, TakesLocated
<1>7. CASE i \notin Unique
  <2>1. UNCHANGED <<unsaved, roomOf>>
    BY <1>7 DEF Take, TakeItem
  <2>2. FloorLocated'
    BY <1>1, <2>1 DEF FloorLocated, SavedRoomOf
  <2>3. TakesLocated'
    BY <1>1, <1>4, <1>5, <2>1 DEF TakesLocated
  <2> QED BY <1>3, <2>2, <2>3 DEF Floor
<1> QED BY <1>6, <1>7

\* The end of a DROP: the item lies where the file says.
LEMMA DropDoneKeepsFloor ==
    ASSUME FloorInv, NEW c \in Conns, DropDone(c) PROVE Floor'
<1> DEFINE u == user[c]
<1> USE DEF FloorInv, LedgerInv, SessionInv, TypeOK
<1>1. /\ pc[c] = "drop_done" /\ pc'[c] = "idle" /\ server = "up"
      /\ \A d \in Conns : d # c => pc'[d] = pc[d]
      /\ roomOf' = IF dropping \in Unique
                   THEN [roomOf EXCEPT ![dropping] = room[u]] ELSE roomOf
      /\ unsaved' = [unsaved EXCEPT ![u] = NoTakes]
      /\ torn' = torn \ {dropping}
      /\ UNCHANGED <<server, user, savedLoc, undo, ioMu>>
  BY DEF DropDone, DropSettles, Reply, At, Goto
<1>2. /\ u \in Names /\ u \in online /\ dropping \in inv[u]
      /\ dropping \in Unique => savedLoc[dropping] = room[u]
      /\ room[u] # Nowhere
  <2>1. u \in Names /\ room[u] \in Rooms /\ dropping \in inv[u]
    BY <1>1, DropKnows DEF DropSteps
  <2>2. u \in online
    BY <1>1, ServesOnline
  <2>3. dropping \in Unique => savedLoc[dropping] = room[u]
    BY <1>1 DEF Undoable
  <2> QED BY <2>1, <2>2, <2>3
<1>3. ioMu = Nobody /\ \A d \in Conns : d # c => pc[d] \notin MuSteps
  BY <1>1, SoleHolder DEF MuSteps, IoSteps
<1>4. Undoable'
  BY <1>1, <1>3 DEF Undoable, MuSteps
<1>5. FloorLocated'
  BY <1>1, <1>2 DEF FloorLocated, SavedRoomOf
<1>6. \A i \in Items : SettledRoomOf(i)' = SettledRoomOf(i)
  BY <1>1 DEF SettledRoomOf
<1>7. ASSUME NEW n \in Names, NEW i \in Unique \ torn', unsaved'[n][i] # Nowhere
      PROVE  SettledRoomOf(i)' = unsaved'[n][i]
  <2>1. n # u /\ unsaved'[n][i] = unsaved[n][i]
    BY <1>1, <1>2, <1>7 DEF NoTakes
  <2>2. i # dropping
    <3>1. \A m \in online : i \in inv[m] => m = n
      BY <1>1, <1>7, <2>1, TakesInHand
    <3> QED BY <1>2, <2>1, <3>1
  <2>3. i \notin torn /\ ~\E d \in Conns : pc[d] = "drop_done" /\ dropping = i /\ user[d] = n
    BY <1>1, <2>2
  <2> QED BY <1>6, <1>7, <2>1, <2>3 DEF TakesLocated
<1> QED BY <1>4, <1>5, <1>7 DEF Floor, TakesLocated

\* The end of a death: the lost items lie at home, as the file says.
LEMMA DieDoneKeepsFloor ==
    ASSUME FloorInv, NEW c \in Conns, DieDone(c) PROVE Floor'
<1> DEFINE u == user[c]
<1> USE DEF FloorInv, LedgerInv, SessionInv, TypeOK
<1>1. /\ pc[c] = "die_done" /\ pc'[c] = "idle" /\ server = "up"
      /\ \A d \in Conns : d # c => pc'[d] = pc[d]
      /\ roomOf' = [i \in Items |-> IF i \in LostUnique(u) THEN Home[i] ELSE roomOf[i]]
      /\ unsaved' = [unsaved EXCEPT ![u] =
                       [i \in Items |-> IF i \in LostUnique(u) THEN Nowhere ELSE @[i]]]
      /\ torn' = torn \ LostUnique(u)
      /\ ioMu' = Nobody
      /\ UNCHANGED <<server, user, savedLoc>>
  BY DEF DieDone, ReturnHome, Reply, At, Goto
<1>2. /\ u \in Names /\ u \in online
      /\ \A i \in Items : IF i \in LostUnique(u)
                          THEN savedLoc[i] = Home[i] ELSE undo[i] = savedLoc[i]
  BY <1>1, UserIsName, ServesOnline DEF Undoable
<1>3. ioMu = c /\ c # Nobody /\ \A d \in Conns : d # c => pc[d] \notin MuSteps
  BY <1>1, SoleHolder DEF MuSteps, IoSteps
<1>4. Undoable'
  BY <1>1, <1>3 DEF Undoable, MuSteps
<1>5. FloorLocated'
  <2> SUFFICES ASSUME NEW i \in Unique \ torn', roomOf'[i] # Nowhere
               PROVE  SavedRoomOf(i)' = roomOf'[i]
    BY DEF FloorLocated
  <2>1. CASE i \in LostUnique(u)
    BY <1>1, <1>2, <2>1 DEF SavedRoomOf
  <2>2. CASE i \notin LostUnique(u)
    <3>1. SavedRoomOf(i) = roomOf[i] /\ roomOf'[i] = roomOf[i]
      BY <1>1, <2>2 DEF FloorLocated
    <3> QED BY <1>1, <3>1 DEF SavedRoomOf
  <2> QED BY <2>1, <2>2
<1>6. ASSUME NEW n \in Names, NEW i \in Unique \ torn', unsaved'[n][i] # Nowhere
      PROVE  SettledRoomOf(i)' = unsaved'[n][i]
  <2>1. /\ unsaved'[n][i] = unsaved[n][i]
        /\ ~(n = u /\ i \in LostUnique(u))
    BY <1>1, <1>6
  <2>2. i \in inv[n] /\ \A m \in online : i \in inv[m] => m = n
    BY <1>1, <1>6, <2>1, TakesInHand
  <2>3. i \notin LostUnique(u)
    BY <1>2, <2>1, <2>2 DEF LostUnique
  <2>4. i \notin torn /\ \A d \in Conns : pc[d] # "drop_done"
    BY <1>1, <1>3, <1>6, <2>3 DEF MuSteps
  <2>5. SettledRoomOf(i) = unsaved[n][i]
    BY <1>6, <2>1, <2>4 DEF TakesLocated
  <2> QED BY <1>1, <1>2, <1>3, <2>1, <2>3, <2>5 DEF SettledRoomOf
<1> QED BY <1>4, <1>5, <1>6 DEF Floor, TakesLocated

\* A leave that cannot save: an item put back lies where the file says.
LEMMA EvictKeepsFloor ==
    ASSUME FloorInv, NEW c \in Conns, Evict(c) PROVE Floor'
<1> DEFINE u == user[c]
<1> USE DEF FloorInv, LedgerInv, SessionInv, TypeOK
<1>1. /\ server = "up" /\ mu = Nobody /\ pc[c] = "evict" /\ pc'[c] = "idle"
      /\ \A d \in Conns : d # c => pc'[d] = pc[d]
      /\ unsaved' = [unsaved EXCEPT ![u] = NoTakes]
      /\ roomOf' = [i \in Items |-> IF i \in Restorable(u) THEN unsaved[u][i] ELSE roomOf[i]]
      /\ UNCHANGED <<server, savedLoc, torn, undo, ioMu>>
  BY DEF Evict, RemovePlayer, CloseSlot, At, Goto, MuFree
<1>2. u \in Names
  BY <1>1, UserIsName
<1>3. ioMu = Nobody /\ \A d \in Conns : pc[d] \notin MuSteps /\ pc'[d] \notin MuSteps
  BY <1>1, IoNeedsMu DEF MuSteps
<1>4. \A n \in Names, i \in Unique \ torn :
         unsaved[n][i] # Nowhere => SettledRoomOf(i) = unsaved[n][i]
  BY <1>3 DEF TakesLocated, MuSteps
<1>5. Undoable'
  BY <1>3 DEF Undoable, MuSteps
<1>6. \A i \in Items : /\ SettledRoomOf(i)' = SettledRoomOf(i)
                       /\ SavedRoomOf(i)' = SavedRoomOf(i)
                       /\ SettledRoomOf(i) = SavedRoomOf(i)
  BY <1>1, <1>3 DEF SettledRoomOf, SavedRoomOf
<1>7. FloorLocated'
  <2> SUFFICES ASSUME NEW i \in Unique \ torn, roomOf'[i] # Nowhere
               PROVE  SavedRoomOf(i) = roomOf'[i]
    BY <1>1, <1>6 DEF FloorLocated
  <2>1. CASE i \in Restorable(u)
    BY <1>1, <1>2, <1>4, <1>6, <2>1 DEF Restorable
  <2>2. CASE i \notin Restorable(u)
    BY <1>1, <2>2 DEF FloorLocated
  <2> QED BY <2>1, <2>2
<1>8. TakesLocated'
  BY <1>1, <1>4, <1>6 DEF TakesLocated, NoTakes
<1> QED BY <1>5, <1>7, <1>8 DEF Floor

\* A restart reads the rooms from the file.
LEMMA ServerKeepsFloor ==
    ASSUME FloorInv, Crash \/ Restart \/ RestartRefused PROVE Floor'
<1> USE DEF FloorInv, LedgerInv, SessionInv, TypeOK
<1>1. CASE Crash
  <2>1. /\ server' = "down" /\ \A c \in Conns : pc'[c] = "idle"
        /\ unsaved' = [n \in Names |-> NoTakes]
    BY <1>1 DEF Crash, ResetLocals, ResetMemory
  <2> QED BY <2>1 DEF Floor, Undoable, TakesLocated, FloorLocated, NoTakes
<1>2. CASE Restart
  <2>1. /\ server = "down" /\ roomOf' = [i \in Items |-> RestoredRoomOf(i)]
        /\ UNCHANGED <<pc, unsaved, savedLoc>>
    BY <1>2 DEF Restart
  <2>2. online = {} /\ \A c \in Conns : pc[c] = "idle"
    BY <2>1 DEF Control, Stopped, Sessions, Bound
  <2>3. FloorLocated'
    BY <2>1 DEF FloorLocated, RestoredRoomOf, SavedRoomOf
  <2>4. Undoable' /\ TakesLocated'
    BY <2>1, <2>2 DEF Undoable, TakesLocated, Offline, NoTakes
  <2> QED BY <2>3, <2>4 DEF Floor
<1>3. CASE RestartRefused
  BY <1>3 DEF RestartRefused, RestartAccepted
<1> QED BY <1>1, <1>2, <1>3

-------------------------------------------------------------------------------
(* The invariant is inductive.                                             *)

\* At the first start every item lies where the world file puts it.
LEMMA InitFloor == Init /\ ~ConcurrentConnects => FloorInv
<1> SUFFICES ASSUME Init, ~ConcurrentConnects PROVE FloorInv
  OBVIOUS
<1>1. LedgerInv
  BY InitLedger
<1>2. Undoable /\ TakesLocated /\ FloorLocated
  BY DEF Init, Undoable, TakesLocated, FloorLocated, SavedRoomOf, NoTakes
<1> QED BY <1>1, <1>2 DEF FloorInv

\* The invariant is inductive.
LEMMA NextFloor == FloorInv /\ [Next]_vars => FloorInv'
<1> SUFFICES ASSUME FloorInv, [Next]_vars PROVE FloorInv'
  OBVIOUS
<1>1. LedgerInv'
  BY NextLedger DEF FloorInv
<1>2. ASSUME NEW c \in Conns, Handler(c) PROVE Floor'
  <2>1. CASE Connect(c) \/ \E r \in Rooms : Move(c, r)
    BY <2>1, OutsideKeeps
  <2>2. CASE \E i \in Items : Take(c, i)
    BY <2>2, TakeKeepsFloor
  <2>3. CASE Drop(c)
    BY <2>3, OutsideKeeps, DropMidKeeps, DropDoneKeepsFloor DEF Drop
  <2>4. CASE Die(c)
    BY <2>4, OutsideKeeps, DieMidKeeps, DieDoneKeepsFloor DEF Die
  <2>5. CASE Leave(c)
    BY <2>5, OutsideKeeps, EvictKeepsFloor DEF Leave, LeaveCalm
  <2> QED BY <1>2, <2>1, <2>2, <2>3, <2>4, <2>5 DEF Handler
<1>3. ASSUME Crash \/ Restart \/ RestartRefused PROVE Floor'
  BY <1>3, ServerKeepsFloor
<1>4. ASSUME UNCHANGED vars PROVE Floor'
  BY <1>4 DEF vars, FloorInv, Floor, Undoable, TakesLocated, FloorLocated,
              SettledRoomOf, SavedRoomOf, LostUnique
<1>5. Floor'
  BY <1>2, <1>3, <1>4 DEF Next
<1> QED BY <1>1, <1>5 DEF FloorInv, Floor

\* The location file and the rooms agree on the items that lie on the floor.
LEMMA FloorAgrees == FloorInv => FloorSurvives
<1> SUFFICES ASSUME FloorInv, server = "up", NEW i \in Unique \ torn, roomOf[i] # Nowhere
             PROVE  RestoredRoomOf(i) = roomOf[i]
  BY DEF FloorSurvives
<1>1. SavedOwners(i) = {}
  BY DEF FloorInv, LedgerInv, Once, NothingComesBack, SavedOwners
<1> QED BY <1>1 DEF FloorInv, FloorLocated, RestoredRoomOf

\* What lies in a room is found there after a kill at any moment.
THEOREM FloorsSurvive == Spec /\ ~ConcurrentConnects => []FloorSurvives
<1>1. Spec /\ ~ConcurrentConnects => []FloorInv
  BY InitFloor, NextFloor, PTL DEF Spec
<1> QED BY <1>1, FloorAgrees, PTL

-------------------------------------------------------------------------------
(***************************************************************************)
(* The ledger implements UniqueItems, for any number of connections,       *)
(* players, items and rooms: memory and files together keep every          *)
(* one-of-a-kind item at one place, and only TAKE moves one to a player.   *)
(***************************************************************************)


\* The value of UniqueItems' place.
places == [i \in Unique |-> Place(i)]

\* What decides the place of an item: its holder, or else its room.
LocatedAt(i) ==
    /\ Place(i) \in Names \cup Rooms
    /\ \A n \in Names : Place(i) = n <=> i \in Belongings(n)
    /\ server = "up" => \A r \in Rooms : Place(i) = r <=> roomOf[i] = r

Located == \A i \in Unique : LocatedAt(i)

\* A process that does not run has nobody in the game.
LEMMA NobodyPlays == ASSUME LedgerInv, server # "up" PROVE online = {}
BY DEF LedgerInv, SessionInv, TypeOK, Sessions, Control, Stopped, Bound

\* The invariant decides every place.
LEMMA InvLocated == LedgerInv => Located
<1> SUFFICES ASSUME LedgerInv, NEW i \in Unique PROVE LocatedAt(i)
  BY DEF Located
<1> USE DEF LedgerInv, SessionInv, TypeOK
<1>1. CASE server = "up"
  <2>1. CASE roomOf[i] # Nowhere
    <3>1. Place(i) = roomOf[i] /\ roomOf[i] \in Rooms
      BY <1>1, <2>1 DEF Place
    <3>2. \A n \in Names : i \notin Belongings(n)
      BY <1>1, <2>1 DEF Once
    <3> QED BY <1>1, <3>1, <3>2 DEF LocatedAt
  <2>2. CASE roomOf[i] = Nowhere
    <3>1. PICK n \in Names : i \in Belongings(n)
      BY <1>1, <2>2 DEF Once
    <3>2. \A m \in Names : i \in Belongings(m) <=> m = n
      BY <1>1, <3>1 DEF Once
    <3>3. Holders(i) = {n}
      BY <3>2 DEF Holders
    <3>4. Place(i) = n
      BY <1>1, <2>2, <3>3 DEF Place
    <3> QED BY <1>1, <2>2, <3>2, <3>4 DEF LocatedAt
  <2> QED BY <2>1, <2>2
<1>2. CASE server # "up"
  <2>1. \A n \in Names : Belongings(n) = savedInv[n]
    BY <1>2, NobodyPlays DEF Belongings
  <2>2. CASE SavedOwners(i) = {}
    <3>1. Place(i) = SavedRoomOf(i) /\ SavedRoomOf(i) \in Rooms
      BY <1>2, <2>2 DEF Place, RestoredRoomOf, SavedRoomOf
    <3>2. \A n \in Names : i \notin Belongings(n)
      BY <2>1, <2>2 DEF SavedOwners
    <3> QED BY <1>2, <3>1, <3>2 DEF LocatedAt
  <2>3. CASE SavedOwners(i) # {}
    <3>1. PICK n \in Names : i \in savedInv[n]
      BY <2>3 DEF SavedOwners
    <3>2. SavedOwners(i) = {n}
      BY <3>1 DEF RestartAccepted, OwnedTwice, SavedOwners
    <3>3. Place(i) = n
      BY <1>2, <2>3, <3>2 DEF Place, RestoredRoomOf
    <3>4. \A m \in Names : i \in Belongings(m) <=> m = n
      BY <2>1, <3>2 DEF SavedOwners
    <3> QED BY <1>2, <3>3, <3>4 DEF LocatedAt
  <2> QED BY <2>2, <2>3
<1> QED BY <1>1, <1>2

\* So it does after a step.
LEMMA InvLocatedNext == LedgerInv' => Located'
BY InvLocated, PTL

Here == LedgerInv /\ LedgerInv' /\ Located /\ Located' /\ server = "up"

\* A step that changes neither belongings nor rooms moves nothing.
LEMMA Unmoved ==
    ASSUME Here, server' = "up", NEW i \in Unique, roomOf'[i] = roomOf[i],
           \A n \in Names : i \in Belongings(n)' <=> i \in Belongings(n)
    PROVE  Place(i)' = Place(i)
BY DEF Here, Located, LocatedAt

\* The steps between the moments at which items move.
LEMMA CalmPlaces ==
    ASSUME Here, NEW c \in Conns, Calm(c) PROVE places' = places
<1>1. \A i \in Unique : Place(i)' = Place(i)
  BY Unmoved DEF Calm, Kept, Belongings, Here
<1> QED BY <1>1 DEF places

\* The record of a player who is in the game decides nothing.
LEMMA WritePlaces ==
    ASSUME Here, NEW c \in Conns,
           DropWritePlayers(c) \/ DieWritePlayers(c) \/ SaveWrite(c)
    PROVE  places' = places
<1>1. user[c] \in online
  BY ServesOnline DEF Here, DropWritePlayers, DieWritePlayers, SaveWrite, At
<1>2. /\ UNCHANGED <<server, online, inv, roomOf>>
      /\ \A n \in Names : n # user[c] => savedInv'[n] = savedInv[n]
  BY DEF DropWritePlayers, DieWritePlayers, SaveWrite, Here, LedgerInv,
         SessionInv, TypeOK
<1>3. \A n \in Names : Belongings(n)' = Belongings(n)
  BY <1>1, <1>2 DEF Belongings
<1>4. \A i \in Unique : Place(i)' = Place(i)
  BY <1>2, <1>3, Unmoved DEF Here
<1> QED BY <1>4 DEF places

\* Where a session begins and ends, memory and the record say the same.
LEMMA SessionPlaces ==
    ASSUME Here, NEW c \in Conns, ConnectInstall(c) \/ SaveRemove(c)
    PROVE  places' = places
<1> DEFINE u == user[c]
<1>1. \A n \in Names : Belongings(n)' = Belongings(n)
  <2>1. CASE ConnectInstall(c)
    <3>1. /\ u \in Names /\ u \notin online /\ snapInv[c] = savedInv[u]
          /\ inv' = [inv EXCEPT ![u] = snapInv[c]] /\ online' = online \cup {u}
          /\ savedInv' = savedInv
      BY <2>1, UserIsName
         DEF ConnectInstall, At, NameFree, Here, LedgerInv, SnapshotsFresh
    <3> QED BY <3>1 DEF Belongings, Here, LedgerInv, SessionInv, TypeOK
  <2>2. CASE SaveRemove(c)
    <3>1. /\ u \in online /\ savedInv[u] = inv[u]
          /\ inv' = [inv EXCEPT ![u] = {}] /\ online' = online \ {u}
          /\ savedInv' = savedInv
      BY <2>2, ServesOnline
         DEF SaveRemove, RemovePlayer, At, Here, LedgerInv, RecordsWritten
    <3> QED BY <3>1 DEF Belongings, Here, LedgerInv, SessionInv, TypeOK
  <2> QED BY <2>1, <2>2
<1>2. UNCHANGED <<server, roomOf>>
  BY DEF ConnectInstall, SaveRemove
<1>3. \A i \in Unique : Place(i)' = Place(i)
  BY <1>1, <1>2, Unmoved DEF Here
<1> QED BY <1>3 DEF places

-------------------------------------------------------------------------------
(* The steps that move items.                                              *)

\* One item moves.
LEMMA OneMoves ==
    ASSUME NEW i \in Unique, NEW p, Place(i)' = p,
           \A j \in Unique : j # i => Place(j)' = Place(j)
    PROVE  places' = [places EXCEPT ![i] = p]
<1>1. places' = [j \in Unique |-> IF j = i THEN p ELSE Place(j)]
  <2>1. \A j \in Unique : Place(j)' = IF j = i THEN p ELSE Place(j)
    OBVIOUS
  <2> QED BY <2>1 DEF places
<1>2. [places EXCEPT ![i] = p] = [j \in Unique |-> IF j = i THEN p ELSE Place(j)]
  BY DEF places
<1> QED BY <1>1, <1>2

\* TAKE moves the item from its room to the taker.
LEMMA TakePlaces ==
    ASSUME Here, NEW c \in Conns, NEW i \in Items, Take(c, i)
    PROVE  places' = places \/ \E n \in Names, j \in Unique : Promise!Take(n, j)
<1> DEFINE u == user[c]
<1> USE DEF LedgerInv, SessionInv, TypeOK
<1>a. LedgerInv /\ Located /\ Located' /\ server = "up"
  BY DEF Here
<1>1. /\ u \in Names /\ u \in online /\ roomOf[i] \in Rooms
      /\ inv' = [inv EXCEPT ![u] = @ \cup {i}]
      /\ UNCHANGED <<server, online, savedInv>>
      /\ roomOf' = IF i \in Unique THEN [roomOf EXCEPT ![i] = Nowhere] ELSE roomOf
  BY <1>a DEF Take, TakeItem, Commands, Waiting, Updatable, AvailableTo, disk
<1>2. \A n \in Names, j \in Unique :
         j \in Belongings(n)' <=> j \in Belongings(n) \/ (j = i /\ n = u)
  BY <1>a, <1>1 DEF Belongings
<1>3. \A j \in Unique : j # i => Place(j)' = Place(j)
  BY <1>a, <1>1, <1>2, Unmoved
<1>4. CASE i \in Unique
  <2>1. Place(i) = roomOf[i]
    BY <1>a, <1>1, <1>4 DEF Located, LocatedAt
  <2>2. Place(i)' = u
    BY <1>a, <1>1, <1>2, <1>4 DEF Located, LocatedAt
  <2>3. places[i] \in Rooms
    BY <1>1, <1>4, <2>1 DEF places
  <2>4. places' = [places EXCEPT ![i] = u]
    BY <1>a, <1>3, <1>4, <2>2, OneMoves
  <2>5. Promise!Take(u, i)
    BY <2>3, <2>4 DEF Promise!Take, places
  <2> QED BY <1>1, <1>4, <2>5
<1>5. CASE i \notin Unique
  BY <1>3, <1>5 DEF places
<1> QED BY <1>4, <1>5

\* The last step of DROP moves the item to the player's room.
LEMMA DropPlaces ==
    ASSUME Here, NEW c \in Conns, DropDone(c)
    PROVE  places' = places
           \/ \E n \in Names, j \in Unique, r \in Rooms : Promise!Drop(n, j, r)
<1> SUFFICES ASSUME NEW u, u = user[c], NEW i, i = dropping, NEW r, r = room[u]
             PROVE  places' = places
                    \/ \E n \in Names, j \in Unique, q \in Rooms : Promise!Drop(n, j, q)
  OBVIOUS
<1> USE DEF LedgerInv, SessionInv, TypeOK
<1>a. LedgerInv /\ Located /\ Located' /\ server = "up"
  BY DEF Here
<1>0. pc[c] = "drop_done"
  BY DEF DropDone, At
<1>1. u \in Names /\ u \in online /\ r \in Rooms /\ i \in inv[u]
  BY <1>a, <1>0, UserIsName, ServesOnline DEF DropHeld, DropSteps
<1>2. /\ inv' = [inv EXCEPT ![u] = inv[u] \ {i}]
      /\ UNCHANGED <<server, online, savedInv>>
      /\ roomOf' = IF i \in Unique THEN [roomOf EXCEPT ![i] = r] ELSE roomOf
  BY <1>a DEF DropDone, DropSnapshot, disk
<1>3. \A n \in Names, j \in Unique :
         j \in Belongings(n)' <=> j \in Belongings(n) /\ ~(j = i /\ n = u)
  BY <1>a, <1>1, <1>2 DEF Belongings
<1>4. \A j \in Unique : j # i => Place(j)' = Place(j)
  BY <1>a, <1>2, <1>3, Unmoved
<1>5. CASE i \in Unique
  <2>1. Place(i) = u
    BY <1>a, <1>1, <1>5 DEF Located, LocatedAt, Belongings
  <2>2. Place(i)' = r
    <3>1. roomOf'[i] = r /\ server' = "up"
      BY <1>a, <1>2, <1>5
    <3>2. LocatedAt(i)'
      BY <1>a, <1>5 DEF Located
    <3> QED BY <1>a, <1>1, <3>1, <3>2 DEF LocatedAt
  <2>3. i \in Promise!HeldBy(u)
    BY <1>5, <2>1 DEF Promise!HeldBy
  <2>4. places' = [places EXCEPT ![i] = r]
    BY <1>a, <1>4, <1>5, <2>2, OneMoves
  <2>5. Promise!Drop(u, i, r)
    BY <2>3, <2>4 DEF Promise!Drop, places
  <2> QED BY <1>1, <1>5, <2>5
<1>6. CASE i \notin Unique
  BY <1>4, <1>6 DEF places
<1> QED BY <1>5, <1>6

\* The last step of a death moves every item of the player home.
LEMMA DiePlaces ==
    ASSUME Here, NEW c \in Conns, DieDone(c)
    PROVE  \E n \in Names : Promise!Lose(n)
<1> SUFFICES ASSUME NEW u, u = user[c] PROVE \E n \in Names : Promise!Lose(n)
  OBVIOUS
<1> USE DEF LedgerInv, SessionInv, TypeOK
<1>a. LedgerInv /\ Located /\ Located' /\ server = "up"
  BY DEF Here
<1>0. pc[c] = "die_done"
  BY DEF DieDone, At
<1>1. u \in Names /\ u \in online
  BY <1>a, <1>0, UserIsName, ServesOnline
<1>2. /\ inv' = [inv EXCEPT ![u] = {}]
      /\ UNCHANGED <<server, online, savedInv>>
      /\ roomOf' = [i \in Items |-> IF i \in LostUnique(u) THEN Home[i] ELSE roomOf[i]]
  BY <1>a DEF DieDone, ReturnHome, disk
<1>3. \A n \in Names : Belongings(n)' = IF n = u THEN {} ELSE Belongings(n)
  BY <1>a, <1>1, <1>2 DEF Belongings
<1>4. \A i \in Unique : i \in LostUnique(u) <=> Place(i) = u
  BY <1>a, <1>1 DEF Located, LocatedAt, LostUnique, Belongings
<1>5. ASSUME NEW i \in Unique, Place(i) = u PROVE Place(i)' = Home[i]
  <2>1. roomOf'[i] = Home[i] /\ server' = "up" /\ Home[i] \in Rooms
    BY <1>a, <1>2, <1>4, <1>5
  <2>2. LocatedAt(i)'
    BY <1>a DEF Located
  <2> QED BY <1>a, <2>1, <2>2 DEF LocatedAt
<1>6. ASSUME NEW i \in Unique, Place(i) # u PROVE Place(i)' = Place(i)
  <2>1. i \notin Belongings(u)
    BY <1>a, <1>1, <1>6 DEF Located, LocatedAt
  <2>2. \A n \in Names : i \in Belongings(n)' <=> i \in Belongings(n)
    BY <1>3, <2>1
  <2>3. roomOf'[i] = roomOf[i]
    BY <1>2, <1>4, <1>6
  <2> QED BY <1>a, <1>2, <2>2, <2>3, Unmoved
<1>7. places' = [i \in Unique |-> IF i \in Promise!HeldBy(u) THEN Home[i] ELSE places[i]]
  <2>1. \A i \in Unique : Place(i)' = IF i \in Promise!HeldBy(u) THEN Home[i] ELSE Place(i)
    BY <1>5, <1>6 DEF Promise!HeldBy
  <2> QED BY <2>1 DEF places
<1> QED BY <1>1, <1>7 DEF Promise!Lose, places

\* A player who could not be saved leaves: the unsaved takes return to rooms.
LEMMA EvictPlaces ==
    ASSUME Here, NEW c \in Conns, Evict(c)
    PROVE  \E n \in Names : Promise!Undo(n)
<1> SUFFICES ASSUME NEW u, u = user[c] PROVE \E n \in Names : Promise!Undo(n)
  OBVIOUS
<1> USE DEF LedgerInv, SessionInv, TypeOK
<1>a. LedgerInv /\ Located /\ Located' /\ server = "up"
  BY DEF Here
<1>0. pc[c] = "evict"
  BY DEF Evict, At
<1>1. u \in Names /\ u \in online
  BY <1>a, <1>0, UserIsName, ServesOnline
<1>2. /\ online' = online \ {u} /\ inv' = [inv EXCEPT ![u] = {}]
      /\ UNCHANGED <<server, savedInv>>
      /\ roomOf' = [i \in Items |-> IF i \in Restorable(u)
                                    THEN unsaved[u][i] ELSE roomOf[i]]
  BY <1>a DEF Evict, RemovePlayer, disk
<1>3. \A n \in Names : Belongings(n)' = IF n = u THEN savedInv[u] ELSE Belongings(n)
  BY <1>a, <1>1, <1>2 DEF Belongings
<1>4. \A i \in Unique : Place(i)' \in Names \cup Rooms
  BY <1>a DEF Located, LocatedAt
<1>5. ASSUME NEW i \in Unique
      PROVE  Place(i)' = Place(i) \/ (Place(i) = u /\ Place(i)' \in Rooms)
  <2>0. LocatedAt(i) /\ LocatedAt(i)'
    BY <1>a DEF Located
  <2>1. CASE i \in Restorable(u)
    <3>1. Place(i) = u
      BY <1>a, <1>1, <2>0, <2>1 DEF LocatedAt, Restorable, Belongings
    <3>2. roomOf'[i] \in Rooms /\ server' = "up"
      BY <1>a, <1>1, <1>2, <2>1 DEF Restorable
    <3>3. Place(i)' \in Rooms
      BY <1>a, <2>0, <3>2 DEF LocatedAt
    <3> QED BY <3>1, <3>3
  <2>2. CASE i \notin Restorable(u)
    <3>1. roomOf'[i] = roomOf[i]
      BY <1>2, <2>2
    <3>2. i \in Belongings(u)' <=> i \in Belongings(u)
      <4>1. ~Settling(u)
        BY <1>a, <1>0, <1>1, OtherUser DEF Settling
      <4>2. i \in inv[u] => i \in savedInv[u]
        BY <1>a, <1>1, <2>2, <4>1 DEF Tracked, Restorable, LostUnique, Once, Belongings
      <4>3. savedInv[u] \subseteq inv[u]
        BY <1>a, <1>1 DEF NothingComesBack, Belongings
      <4> QED BY <1>a, <1>1, <1>3, <4>2, <4>3 DEF Belongings
    <3>3. \A n \in Names : i \in Belongings(n)' <=> i \in Belongings(n)
      BY <1>3, <3>2
    <3> QED BY <1>a, <1>2, <3>1, <3>3, Unmoved
  <2> QED BY <2>1, <2>2
<1>6. \A i \in Unique : places'[i] = Place(i)' /\ places[i] = Place(i)
  BY DEF places
<1>7. places' \in [Unique -> Names \cup Rooms]
  BY <1>4 DEF places
<1>8. \A i \in Unique : places'[i] = places[i]
                        \/ (i \in Promise!HeldBy(u) /\ places'[i] \in Rooms)
  BY <1>5, <1>6 DEF Promise!HeldBy, places
<1> QED BY <1>1, <1>7, <1>8 DEF Promise!Undo, places

-------------------------------------------------------------------------------
(* The process stops and starts.                                           *)

\* A kill leaves every item with its holder or puts it in a room.
LEMMA CrashPlaces == ASSUME Here, Crash PROVE Promise!Forget
<1>a. LedgerInv /\ Located /\ Located'
  BY DEF Here
<1>1. server' = "down" /\ online' = {} /\ savedInv' = savedInv
  BY DEF Crash, ResetMemory
<1>2. ASSUME NEW i \in Unique
      PROVE  /\ Place(i)' \in Names \cup Rooms
             /\ Place(i)' = Place(i) \/ Place(i)' \in Rooms
  <2>1. LocatedAt(i) /\ LocatedAt(i)'
    BY <1>a DEF Located
  <2>2. \A n \in Names : i \in Belongings(n)' => i \in Belongings(n)
    BY <1>a, <1>1 DEF Belongings, Here, LedgerInv, NothingComesBack
  <2> QED BY <2>1, <2>2 DEF LocatedAt
<1>3. places' \in [Unique -> Names \cup Rooms]
  BY <1>2 DEF places
<1>4. \A i \in Unique : places'[i] = places[i] \/ places'[i] \in Rooms
  BY <1>2 DEF places
<1> QED BY <1>3, <1>4 DEF Promise!Forget, places

\* Where an item without an owner is found.
LEMMA FoundInRoom ==
    ASSUME LedgerInv, Located, server # "up", NEW i \in Unique, Place(i) \in Rooms
    PROVE  Place(i) = RestoredRoomOf(i)
<1>1. SavedOwners(i) = {}
  <2>1. \A n \in Names : i \notin Belongings(n)
    BY DEF Located, LocatedAt
  <2> QED BY <2>1, NobodyPlays DEF Belongings, SavedOwners
<1>2. RestoredRoomOf(i) # Nowhere
  BY <1>1 DEF RestoredRoomOf, SavedRoomOf
<1> QED BY <1>2 DEF Place

\* A restart finds every item where the files say.
LEMMA RestartPlaces ==
    ASSUME LedgerInv, Located, Located', Restart PROVE places' = places
<1>1. /\ server = "down" /\ server' = "up" /\ UNCHANGED <<online, savedInv, inv>>
      /\ roomOf' = [i \in Items |-> RestoredRoomOf(i)]
  BY DEF Restart
<1>2. \A n \in Names : Belongings(n)' = Belongings(n)
  BY <1>1 DEF Belongings
<1>3. ASSUME NEW i \in Unique PROVE Place(i)' = Place(i)
  <2>1. LocatedAt(i) /\ LocatedAt(i)'
    BY DEF Located
  <2>2. CASE Place(i) \in Names
    BY <1>2, <2>1, <2>2 DEF LocatedAt
  <2>3. CASE Place(i) \in Rooms
    <3>1. roomOf'[i] = Place(i)
      BY <1>1, <2>3, FoundInRoom
    <3> QED BY <1>1, <2>1, <2>3, <3>1 DEF LocatedAt
  <2> QED BY <2>1, <2>2, <2>3 DEF LocatedAt
<1> QED BY <1>3 DEF places

-------------------------------------------------------------------------------
(* Every step of the ledger is a step of the promise, or changes nothing.  *)

\* At the start every item is where the world file puts it.
LEMMA InitPlaces == ASSUME Init, LedgerInv PROVE Promise!Init
<1>1. \A i \in Unique : Place(i) = Home[i]
  <2>1. \A i \in Unique : roomOf[i] = Home[i] /\ Home[i] # Nowhere /\ server = "up"
    BY DEF Init
  <2> QED BY <2>1 DEF Place
<1> QED BY <1>1 DEF Promise!Init

\* Each step of the ledger is a step of the promise, or changes nothing.
LEMMA StepPlaces ==
    ASSUME LedgerInv, LedgerInv', [Next]_vars
    PROVE  Promise!Next \/ places' = places
<1>a. Located /\ Located'
  BY InvLocated, InvLocatedNext
<1>1. ASSUME NEW c \in Conns, Handler(c) PROVE Promise!Next \/ places' = places
  <2>1. Here
    <3>1. server = "up"
      BY <1>1 DEF Handler, Connect, ConnectCheck, ConnectLoad, ConnectLoadFails,
           ConnectInstall, ConnectRefused, ConnectAnnounce, Move, Take, Drop,
           DropBegin, DropLockFiles, DropWriteItems, DropItemsFail,
           DropWritePlayers, DropPlayersFail, DropRollback, DropRollbackFails,
           DropDone, Die, DieBegin, DieProtected, DieLockFiles, DieWriteItems,
           DieItemsFail, DieWritePlayers, DiePlayersFail, DieRollback,
           DieRollbackFails, DieDone, Leave, EndOfInput, Close, SaveBegin,
           SaveWrite, SaveWriteFails, SaveRemove, SaveAbort, Evict,
           Commands, Waiting, At
    <3> QED BY <1>a, <3>1 DEF Here
  <2>2. ASSUME Calm(c) PROVE places' = places
    BY <2>1, <2>2, CalmPlaces
  <2>3. CASE Connect(c)
    BY <2>1, <2>2, <2>3, ConnectIsCalm, SessionPlaces DEF Connect, ConnectCalm
  <2>4. CASE \E r \in Rooms : Move(c, r)
    BY <2>2, <2>4, MoveIsCalm
  <2>5. CASE \E i \in Items : Take(c, i)
    <3>1. PICK i \in Items : Take(c, i)
      BY <2>5
    <3> QED BY <2>1, <3>1, TakePlaces DEF Promise!Next
  <2>6. CASE Drop(c)
    <3>1. CASE DropDone(c)
      BY <2>1, <3>1, DropPlaces DEF Promise!Next
    <3>2. CASE ~DropDone(c)
      BY <2>1, <2>2, <2>6, <3>2, DropIsCalm, WritePlaces DEF Drop, DropCalm
    <3> QED BY <3>1, <3>2
  <2>7. CASE Die(c)
    <3>1. CASE DieDone(c)
      BY <2>1, <3>1, DiePlaces DEF Promise!Next
    <3>2. CASE ~DieDone(c)
      BY <2>1, <2>2, <2>7, <3>2, DieIsCalm, WritePlaces DEF Die, DieCalm
    <3> QED BY <3>1, <3>2
  <2>8. CASE Leave(c)
    <3>1. CASE Evict(c)
      BY <2>1, <3>1, EvictPlaces DEF Promise!Next
    <3>2. CASE ~Evict(c)
      BY <2>1, <2>2, <2>8, <3>2, LeaveIsCalm, WritePlaces, SessionPlaces
         DEF Leave, LeaveCalm
    <3> QED BY <3>1, <3>2
  <2> QED BY <1>1, <2>3, <2>4, <2>5, <2>6, <2>7, <2>8 DEF Handler
<1>2. CASE Crash
  <2>1. Here
    BY <1>2, <1>a DEF Crash, Here
  <2> QED BY <1>2, <2>1, CrashPlaces DEF Promise!Next
<1>3. CASE Restart
  BY <1>3, <1>a, RestartPlaces
<1>4. CASE RestartRefused
  BY <1>4 DEF RestartRefused, LedgerInv, RestartAccepted
<1>5. CASE UNCHANGED vars
  <2>1. \A i \in Unique : Place(i)' = Place(i)
    BY <1>5 DEF vars, Place, Holders, Belongings, SavedOwners, RestoredRoomOf,
                SavedRoomOf
  <2> QED BY <2>1 DEF places
<1> QED BY <1>1, <1>2, <1>3, <1>4, <1>5 DEF Next

\* With one CONNECT for a name at a time, the server keeps its promise: each
\* one-of-a-kind item is at one place, and only a TAKE gives a player one.
THEOREM PromiseKept == Spec /\ ~ConcurrentConnects => KeepsPromise
<1>1. Init /\ ~ConcurrentConnects => Promise!Init
  BY InitLedger, InitPlaces
<1>2. LedgerInv /\ LedgerInv' /\ [Next]_vars => [Promise!Next]_places
  BY StepPlaces
<1> QED BY <1>1, <1>2, LedgerInvariant, PTL DEF Spec, KeepsPromise, Promise!Spec, places
===============================================================================
