------------------------------ MODULE LobbyConc ------------------------------
(***************************************************************************)
(* The handlers of Lobby.tla as the goroutines run them.  Every connection *)
(* has a goroutine, every keep-alive timer that fires starts another one,  *)
(* and no lock spans a handler: Store and Manager lock each call on them,  *)
(* lobby.Service.Leave holds the room's own mutex, Join, MarkStarted and   *)
(* the checks of join_game take no lock at all.                            *)
(*                                                                         *)
(* A step is a stretch of a handler between two points where what another  *)
(* goroutine does can matter: one call on the Store or the Manager, or one *)
(* load or one store of a room field.  A read and the later write of       *)
(* PlayersCount, Row and CtlSum are separate steps, which gives an         *)
(* unsynchronised access every outcome of an interleaving of whole loads   *)
(* and stores.  (The Go runtime may also abort the process on a concurrent *)
(* write of room.Players; that outcome ends the behaviour.)                *)
(*                                                                         *)
(* Players are numbered by their connections, all past try_enter when the  *)
(* behaviour begins; a player that disconnects does not come back, since   *)
(* NextPlayerID gives a new connection a new id.                           *)
(***************************************************************************)
EXTENDS LobbyStore

CONSTANTS
    Timed,      \* bound: the players that ping and whose timer may fire
    Starters,   \* bound: the players that send start
    Creators,   \* bound: the players that send reg_new_room
    MaxRequests,    \* bound on requests and disconnects in one behaviour
    Free,       \* a mutex nobody holds
    NoRow,      \* a local variable without a row
    NoSum       \* a local variable without a control sum

Player == PlayerID \ {NoPlayer}

(* The goroutine of a player's connection and that of its fired timer.     *)
Goroutine == Player \X {"conn", "timer"}

ASSUME ConcAssumption ==
    /\ Timed \subseteq Player /\ Starters \subseteq Player
    /\ Creators \subseteq Player
    /\ MaxRequests \in Nat
    /\ Free \notin Goroutine
    /\ NoRow \notin RowType

VARIABLES
    rooms,          \* the Room objects
    lastRoomID,     \* Store.lastRoomID
    byID,           \* keys of Store.roomsByID
    byPID,          \* Store.roomsByPID
    bySum,          \* Store.roomsBySum: pairs of a control sum and a room
    players,        \* keys of Store.players
    armed,          \* players with a running time.Timer
    registered,     \* keys of Manager.byID
    lock,           \* holder of each room's mutex (Store.RoomMu)
    pc,             \* where each goroutine is
    loc,            \* local variables of each goroutine
    sent            \* number of requests so far (bound MaxRequests)

vars == <<rooms, lastRoomID, byID, byPID, bySum, players, armed, registered,
          lock, pc, loc, sent>>

(* Local variables.  room: the *Room that the running service call works   *)
(* on; target: the room join_game looked up; num, row, sum: a value read   *)
(* and not yet written back; old: Leave's oldCtl; closed: Leave's          *)
(* shouldDelete; ret: where Leave returns to.                              *)
NoLocals == [room |-> NoRoom, target |-> NoRoom, num |-> 0, row |-> NoRow,
             sum |-> NoSum, old |-> NoSum, closed |-> FALSE, ret |-> "idle"]

Init ==
    /\ rooms = InitStore.rooms
    /\ lastRoomID = 0
    /\ byID = {}
    /\ byPID = [p \in PlayerID |-> NoRoom]
    /\ bySum = {}
    /\ players = Player
    /\ armed = {}
    /\ registered = Player
    /\ lock = [r \in RoomID |-> Free]
    /\ pc = [g \in Goroutine |-> "idle"]
    /\ loc = [g \in Goroutine |-> NoLocals]
    /\ sent = 0

----------------------------------------------------------------------------
Id(g) == g[1]
Room(g) == rooms[loc[g].room]

At(g, where) == pc[g] = where
Goto(g, where) == pc' = [pc EXCEPT ![g] = where]

(* Write field values of the room that g works on.                         *)
SetRoom(g, room) == rooms' = [rooms EXCEPT ![loc[g].room] = room]
SetLoc(g, l) == loc' = [loc EXCEPT ![g] = l]

(* Store.UnindexRoomBySum and Store.IndexRoomBySum.                        *)
WithoutSum(s) == {e \in bySum : e[1] # s}
WithSum(s, r) == WithoutSum(s) \cup {<<s, r>>}

(* A handler calls leaveRoomByID and goes on at ret.                       *)
CallLeave(g, l, ret) ==
    /\ Goto(g, "leave_clear")
    /\ SetLoc(g, [l EXCEPT !.ret = ret])

(* Leave returns to its caller.                                            *)
Return(g) ==
    /\ Goto(g, loc[g].ret)
    /\ SetLoc(g, [NoLocals EXCEPT !.target = loc[g].target])

(* A handler is done.                                                      *)
Done(g) == Goto(g, "idle") /\ SetLoc(g, NoLocals)

UnchangedStore == UNCHANGED <<rooms, lastRoomID, byID, byPID, bySum, players>>
UnchangedManager == UNCHANGED <<armed, registered>>

----------------------------------------------------------------------------
(* leaveRoomByID and lobby.Service.Leave.                                  *)

(* Manager.ClearTimer: a timer that has fired is past stopping.            *)
LeaveClear(g) ==
    /\ At(g, "leave_clear")
    /\ armed' = armed \ {Id(g)}
    /\ Goto(g, "leave_find")
    /\ UnchangedStore /\ UNCHANGED <<registered, lock, loc>>

(* FindByHost, before the room's mutex is taken.                           *)
LeaveFind(g) ==
    LET r == byPID[Id(g)] IN
    /\ At(g, "leave_find")
    /\ IF r = NoRoom
       THEN Return(g)
       ELSE Goto(g, "leave_lock") /\ SetLoc(g, [loc[g] EXCEPT !.room = r])
    /\ UnchangedStore /\ UnchangedManager /\ UNCHANGED lock

(* MUTANT: the mutex is not waited for.                                    *)
LeaveLockUnguarded(g) ==
    /\ At(g, "leave_lock")
    /\ lock' = [lock EXCEPT ![loc[g].room] = g]
    /\ byPID' = [byPID EXCEPT ![Id(g)] = NoRoom]
    /\ SetLoc(g, [loc[g] EXCEPT !.old = Room(g).ctl, !.num = Room(g).count])
    /\ Goto(g, "leave_write")
    /\ UNCHANGED <<rooms, lastRoomID, byID, bySum, players>>
    /\ UnchangedManager

(* The mutex; then oldCtl, UnindexByHost and the load of PlayersCount.     *)
LeaveLock(g) ==
    /\ At(g, "leave_lock")
    /\ lock[loc[g].room] = Free
    /\ lock' = [lock EXCEPT ![loc[g].room] = g]
    /\ byPID' = [byPID EXCEPT ![Id(g)] = NoRoom]
    /\ SetLoc(g, [loc[g] EXCEPT !.old = Room(g).ctl, !.num = Room(g).count])
    /\ Goto(g, "leave_write")
    /\ UNCHANGED <<rooms, lastRoomID, byID, bySum, players>>
    /\ UnchangedManager

(* The store of PlayersCount, the player map, and (before the start) the   *)
(* copy of the row with its new column.                                    *)
LeaveWrite(g) ==
    LET room == Room(g)
        n == loc[g].num - 1
    IN  /\ At(g, "leave_write")
        /\ SetRoom(g, [room EXCEPT !.count = n,
                                   !.players = PlayersAfterLeave(room, Id(g))])
        /\ SetLoc(g, [loc[g] EXCEPT
                         !.row = IF room.started THEN NoRow
                                 ELSE SetPlayersColumn(room.row, n)])
        /\ Goto(g, "leave_row")
        /\ UNCHANGED <<lastRoomID, byID, byPID, bySum, players, lock>>
        /\ UnchangedManager

(* The row is written, the old sum unindexed and the new one computed.     *)
LeaveRow(g) ==
    LET row == IF loc[g].row = NoRow THEN Room(g).row ELSE loc[g].row IN
    /\ At(g, "leave_row")
    /\ SetRoom(g, [Room(g) EXCEPT !.row = row])
    /\ bySum' = WithoutSum(loc[g].old)
    /\ SetLoc(g, [loc[g] EXCEPT !.sum = ControlSum(row)])
    /\ Goto(g, "leave_sum")
    /\ UNCHANGED <<lastRoomID, byID, byPID, players, lock>>
    /\ UnchangedManager

(* CtlSum is written; shouldDelete; UnindexByID.                           *)
LeaveSum(g) ==
    LET room == Room(g)
        closed == ShouldDelete(room, Id(g), room.count)
    IN  /\ At(g, "leave_sum")
        /\ SetRoom(g, [room EXCEPT !.ctl = loc[g].sum])
        /\ byID' = IF closed THEN byID \ {loc[g].room} ELSE byID
        /\ SetLoc(g, [loc[g] EXCEPT !.closed = closed])
        /\ Goto(g, "leave_index")
        /\ UNCHANGED <<lastRoomID, byPID, bySum, players, lock>>
        /\ UnchangedManager

(* MUTANT: the room is not indexed again.                                  *)
LeaveIndexDropped(g) ==
    /\ At(g, "leave_index")
    /\ bySum' = WithoutSum(Room(g).ctl)
    /\ lock' = [lock EXCEPT ![loc[g].room] = Free]
    /\ Return(g)
    /\ UNCHANGED <<rooms, lastRoomID, byID, byPID, players>>
    /\ UnchangedManager

(* MUTANT: the path that closes a room returns with the mutex held.        *)
LeaveIndexLocked(g) ==
    /\ At(g, "leave_index")
    /\ bySum' = IF loc[g].closed THEN WithoutSum(Room(g).ctl)
                ELSE WithSum(Room(g).ctl, loc[g].room)
    /\ lock' = IF loc[g].closed THEN lock
               ELSE [lock EXCEPT ![loc[g].room] = Free]
    /\ Return(g)
    /\ UNCHANGED <<rooms, lastRoomID, byID, byPID, players>>
    /\ UnchangedManager

(* UnindexBySum or IndexBySum, under the CtlSum found now; the mutex is    *)
(* released.                                                               *)
LeaveIndex(g) ==
    /\ At(g, "leave_index")
    /\ bySum' = IF loc[g].closed THEN WithoutSum(Room(g).ctl)
                ELSE WithSum(Room(g).ctl, loc[g].room)
    /\ lock' = [lock EXCEPT ![loc[g].room] = Free]
    /\ Return(g)
    /\ UNCHANGED <<rooms, lastRoomID, byID, byPID, players>>
    /\ UnchangedManager

LeaveStep(g) ==
    \/ LeaveClear(g) \/ LeaveFind(g) \/ LeaveLock(g) \/ LeaveWrite(g)
    \/ LeaveRow(g) \/ LeaveSum(g) \/ LeaveIndex(g)

----------------------------------------------------------------------------
(* reg_new_room.                                                           *)

(* Requests that have been accepted and have no room id yet.               *)
Registering == {g \in Goroutine : pc[g] = "reg_id" \/ loc[g].ret = "reg_id"}

RegBegin(g) ==
    /\ At(g, "idle")
    /\ Id(g) \in Creators
    /\ lastRoomID + Cardinality(Registering) < MaxRoomID  \* bound MaxRoomID
    /\ CallLeave(g, NoLocals, "reg_id")
    /\ UnchangedStore /\ UnchangedManager /\ UNCHANGED lock

(* NextRoomID and IndexByID: from here join_game finds the room, which is  *)
(* in no other index yet.  (GetPlayer finds the caller's record: only its  *)
(* own OnDisconnect deletes it.)                                           *)
RegID(g, m) ==
    LET r == lastRoomID + 1 IN
    /\ At(g, "reg_id")
    /\ lastRoomID' = r
    /\ rooms' = [rooms EXCEPT ![r] = NewRoom(r, Id(g), m)]
    /\ byID' = byID \cup {r}
    /\ SetLoc(g, [loc[g] EXCEPT !.room = r])
    /\ Goto(g, "reg_host")
    /\ UNCHANGED <<byPID, bySum, players, lock>>
    /\ UnchangedManager

RegHost(g) ==
    /\ At(g, "reg_host")
    /\ byPID' = [byPID EXCEPT ![Id(g)] = loc[g].room]
    /\ Goto(g, "reg_sum")
    /\ UNCHANGED <<rooms, lastRoomID, byID, bySum, players, lock, loc>>
    /\ UnchangedManager

RegSum(g) ==
    /\ At(g, "reg_sum")
    /\ bySum' = WithSum(Room(g).ctl, loc[g].room)
    /\ Goto(g, "reg_arm")
    /\ UNCHANGED <<rooms, lastRoomID, byID, byPID, players, lock, loc>>
    /\ UnchangedManager

RegArm(g) ==
    /\ At(g, "reg_arm")
    /\ armed' = armed \cup {Id(g)}
    /\ Done(g)
    /\ UnchangedStore /\ UNCHANGED <<registered, lock>>

----------------------------------------------------------------------------
(* join_game.  The room is looked up and checked first; the answer to a    *)
(* request that fails a check changes nothing.                             *)
JoinBegin(g, r) ==
    /\ At(g, "idle")
    /\ r \in byID
    /\ ~ rooms[r].started
    /\ rooms[r].count < rooms[r].max
    /\ CallLeave(g, [NoLocals EXCEPT !.target = r], "join_load")
    /\ UnchangedStore /\ UnchangedManager /\ UNCHANGED lock

(* GetPlayer, the player map entry and the load of PlayersCount.           *)
JoinLoad(g) ==
    LET r == loc[g].target IN
    /\ At(g, "join_load")
    /\ IF Id(g) \in players
       THEN /\ rooms' = [rooms EXCEPT ![r].players = @ \cup {Id(g)}]
            /\ SetLoc(g, [NoLocals EXCEPT !.room = r, !.num = rooms[r].count])
            /\ Goto(g, "join_store")
       ELSE Done(g) /\ UNCHANGED rooms
    /\ UNCHANGED <<lastRoomID, byID, byPID, bySum, players, lock>>
    /\ UnchangedManager

(* The store of PlayersCount, UnindexBySum, and the copy of the row.       *)
JoinStoreCount(g) ==
    LET n == loc[g].num + 1 IN
    /\ At(g, "join_store")
    /\ SetRoom(g, [Room(g) EXCEPT !.count = n])
    /\ bySum' = WithoutSum(Room(g).ctl)
    /\ SetLoc(g, [loc[g] EXCEPT !.row = SetPlayersColumn(Room(g).row, n)])
    /\ Goto(g, "join_row")
    /\ UNCHANGED <<lastRoomID, byID, byPID, players, lock>>
    /\ UnchangedManager

JoinRow(g) ==
    /\ At(g, "join_row")
    /\ SetRoom(g, [Room(g) EXCEPT !.row = loc[g].row])
    /\ SetLoc(g, [loc[g] EXCEPT !.sum = ControlSum(loc[g].row)])
    /\ Goto(g, "join_sum")
    /\ UNCHANGED <<lastRoomID, byID, byPID, bySum, players, lock>>
    /\ UnchangedManager

(* CtlSum is written; IndexByHost.                                         *)
JoinSum(g) ==
    /\ At(g, "join_sum")
    /\ SetRoom(g, [Room(g) EXCEPT !.ctl = loc[g].sum])
    /\ byPID' = [byPID EXCEPT ![Id(g)] = loc[g].room]
    /\ Goto(g, "join_index")
    /\ UNCHANGED <<lastRoomID, byID, bySum, players, lock, loc>>
    /\ UnchangedManager

JoinIndex(g) ==
    /\ At(g, "join_index")
    /\ bySum' = WithSum(Room(g).ctl, loc[g].room)
    /\ Done(g)
    /\ UNCHANGED <<rooms, lastRoomID, byID, byPID, players, lock>>
    /\ UnchangedManager

----------------------------------------------------------------------------
(* start: the lookup, then MarkStarted and the timers of room.Players.     *)
StartBegin(g) ==
    LET r == byPID[Id(g)] IN
    /\ At(g, "idle")
    /\ Id(g) \in Starters
    /\ r # NoRoom
    /\ SetLoc(g, [NoLocals EXCEPT !.room = r])
    /\ Goto(g, "start_mark")
    /\ UnchangedStore /\ UnchangedManager /\ UNCHANGED lock

(* UnindexBySum, the flag, the marks written into the row in place.        *)
StartMark(g) ==
    LET row == StartedRow(Room(g).row) IN
    /\ At(g, "start_mark")
    /\ bySum' = WithoutSum(Room(g).ctl)
    /\ SetRoom(g, [Room(g) EXCEPT !.started = TRUE, !.row = row])
    /\ SetLoc(g, [loc[g] EXCEPT !.sum = ControlSum(row)])
    /\ Goto(g, "start_sum")
    /\ UNCHANGED <<lastRoomID, byID, byPID, players, lock>>
    /\ UnchangedManager

StartSum(g) ==
    /\ At(g, "start_sum")
    /\ SetRoom(g, [Room(g) EXCEPT !.ctl = loc[g].sum])
    /\ Goto(g, "start_index")
    /\ UNCHANGED <<lastRoomID, byID, byPID, bySum, players, lock, loc>>
    /\ UnchangedManager

StartIndex(g) ==
    /\ At(g, "start_index")
    /\ bySum' = WithSum(Room(g).ctl, loc[g].room)
    /\ Goto(g, "start_arm")
    /\ UNCHANGED <<rooms, lastRoomID, byID, byPID, players, lock, loc>>
    /\ UnchangedManager

StartArm(g) ==
    /\ At(g, "start_arm")
    /\ armed' = armed \cup Room(g).players
    /\ Done(g)
    /\ UnchangedStore /\ UNCHANGED <<registered, lock>>

----------------------------------------------------------------------------
(* The leave command, alive, and the end of a connection.                  *)
LeaveBegin(g) ==
    /\ At(g, "idle")
    /\ CallLeave(g, NoLocals, "idle")
    /\ UnchangedStore /\ UnchangedManager /\ UNCHANGED lock

(* A ping, and a stats report before it does anything else.                *)
Alive(g) ==
    /\ At(g, "idle")
    /\ Id(g) \in Timed        \* bound: no other timer ever fires
    /\ armed' = armed \cup {Id(g)}
    /\ UnchangedStore /\ UNCHANGED <<registered, lock, pc, loc>>

(* MUTANT: the player is deleted without leaving its room.                 *)
DisconnectBeginNoLeave(g) ==
    /\ At(g, "idle")
    /\ armed' = armed \ {Id(g)}
    /\ registered' = registered \ {Id(g)}
    /\ Goto(g, "disconnect_delete")
    /\ UnchangedStore /\ UNCHANGED <<lock, loc>>

(* OnDisconnect up to its call of leaveRoomByID.                           *)
DisconnectBegin(g) ==
    /\ At(g, "idle")
    /\ armed' = armed \ {Id(g)}
    /\ registered' = registered \ {Id(g)}
    /\ CallLeave(g, NoLocals, "disconnect_delete")
    /\ UnchangedStore /\ UNCHANGED lock

DisconnectDelete(g) ==
    /\ At(g, "disconnect_delete")
    /\ players' = players \ {Id(g)}
    /\ Goto(g, "closed")
    /\ UNCHANGED <<rooms, lastRoomID, byID, byPID, bySum, lock, loc>>
    /\ UnchangedManager

----------------------------------------------------------------------------
(* A timer fires and notAlive runs in a goroutine of its own.  One at a    *)
(* time per player: two firings lie a whole TTL apart.                     *)
Fire(g) ==
    /\ At(g, "idle")
    /\ Id(g) \in armed \cap Timed
    /\ armed' = armed \ {Id(g)}
    /\ CallLeave(g, NoLocals, "timer_unregister")
    /\ UnchangedStore /\ UNCHANGED <<registered, lock>>

TimerUnregister(g) ==
    /\ At(g, "timer_unregister")
    /\ registered' = registered \ {Id(g)}
    /\ Done(g)
    /\ UnchangedStore /\ UNCHANGED <<armed, lock>>

----------------------------------------------------------------------------
(* A request arrives at an idle connection, or the connection ends.        *)
Request(g) ==
    /\ sent < MaxRequests
    /\ sent' = sent + 1
    /\ \/ RegBegin(g)
       \/ \E r \in RoomID : JoinBegin(g, r)
       \/ LeaveBegin(g)
       \/ StartBegin(g)
       \/ Alive(g)
       \/ DisconnectBegin(g)

(* A running handler goes on.                                              *)
Step(g) ==
    \/ LeaveStep(g)
    \/ \E m \in Capacities : RegID(g, m)
    \/ RegHost(g) \/ RegSum(g) \/ RegArm(g)
    \/ JoinLoad(g) \/ JoinStoreCount(g) \/ JoinRow(g) \/ JoinSum(g)
    \/ JoinIndex(g)
    \/ StartMark(g) \/ StartSum(g) \/ StartIndex(g) \/ StartArm(g)
    \/ DisconnectDelete(g)
    \/ TimerUnregister(g)

(* Nothing runs and no request is to come: the server waits.               *)
Rest ==
    /\ \A g \in Goroutine : pc[g] \in {"idle", "closed"}
    /\ sent = MaxRequests \/ \A p \in Player : pc[<<p, "conn">>] = "closed"
    /\ UNCHANGED vars

Next ==
    \/ \E p \in Player : Request(<<p, "conn">>)
    \/ \E p \in Player : Fire(<<p, "timer">>) /\ UNCHANGED sent
    \/ \E g \in Goroutine : Step(g) /\ UNCHANGED sent
    \/ Rest

Spec == Init /\ [][Next]_vars

(* The Go scheduler runs every goroutine that can run, and sync.Mutex      *)
(* hands a contended lock to the longest waiter after a while, so that a   *)
(* goroutine that finds the mutex free again and again gets it.  Nothing   *)
(* is assumed of clients and timers.                                       *)
LiveSpec ==
    /\ Spec
    /\ \A g \in Goroutine : /\ WF_vars(Step(g) /\ UNCHANGED sent)
                            /\ SF_vars(LeaveLock(g) /\ UNCHANGED sent)

----------------------------------------------------------------------------
Idle(g) == pc[g] \in {"idle", "closed"}
Quiescent == \A g \in Goroutine : Idle(g)
Existing == 1 .. lastRoomID
InRoom(r) == {p \in Player : byPID[p] = r}

(* The per-room mutex does what the comment in Leave asks of it: no two    *)
(* goroutines, the timer and the connection of one player included, are    *)
(* between its Lock and Unlock for the same room.                          *)
InLeave(g) == pc[g] \in {"leave_write", "leave_row", "leave_sum", "leave_index"}
LeaveExclusive ==
    \A g, h \in Goroutine :
        InLeave(g) /\ InLeave(h) /\ loc[g].room = loc[h].room => g = h

(* Once OnDisconnect has returned, no entry of that player is left in      *)
(* roomsByPID or in the player map, whatever the player's timer callback   *)
(* and other connections were doing meanwhile: no late step puts one back. *)
NoEntryAfterDisconnect ==
    \A p \in Player : pc[<<p, "conn">>] = "closed" =>
        byPID[p] = NoRoom /\ p \notin players

(* A room that can be found by its id can be found by its current control  *)
(* sum once the handlers are done, although joins, leaves and starts of    *)
(* that room re-index it concurrently: GETTBL would otherwise make every   *)
(* client drop a room that is open, and never send it again.               *)
ListedRoomsResolve ==
    Quiescent => \A r \in byID : <<rooms[r].ctl, r>> \in bySum

(* Connections alone, without timer callbacks, keep room.Players and       *)
(* roomsByPID in agreement however their handlers interleave.              *)
PlayerMapCurrent ==
    Quiescent => \A r \in Existing :
        /\ InRoom(r) \subseteq rooms[r].players
        /\ ~ rooms[r].started => rooms[r].players = InRoom(r)

(* controller_alive_timer_test.go: the room of a host that disconnects     *)
(* before the start is deleted.                                            *)
DisconnectClosesRoom ==
    Quiescent => \A r \in byID :
        ~ rooms[r].started => pc[<<rooms[r].host, "conn">>] # "closed"

(* Every handler and every timer callback runs to its end: whoever waits   *)
(* for a room's mutex gets it, and whoever holds it gives it back.         *)
HandlersFinish == \A g \in Goroutine : ~ Idle(g) ~> Idle(g)

----------------------------------------------------------------------------
(* What the repository says and the code does not do.                      *)

(* registry.go: handlers are safe for concurrent invocation, the locking   *)
(* being done by the services: once they are done, PlayersCount is the     *)
(* number of players in the room.                                          *)
CountSurvivesConcurrency ==
    Quiescent => \A r \in byID : rooms[r].count = Cardinality(InRoom(r))
=============================================================================
