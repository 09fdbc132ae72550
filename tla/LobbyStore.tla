----------------------------- MODULE LobbyStore -----------------------------
(***************************************************************************)
(* The room registry: the maps of internal/adapter/rooms.Store together    *)
(* with the operations of internal/app/lobby.Service that read and write   *)
(* them.  A registry value is a record; every operation of the service is  *)
(* an operator from registry values to registry values, so that a handler  *)
(* that calls several of them in a row composes them.  The module has no   *)
(* variables: Lobby.tla holds the registry in one.                         *)
(*                                                                         *)
(* What is kept of a room: its host, capacity, player counter, player map  *)
(* (as the set of its keys), the started flag, the row shown to clients    *)
(* (its id, its "n/max" column and its started marks) and the stored       *)
(* control sum.  Titles, passwords, levels and time stamps are dropped: no *)
(* guard of these operations reads them.                                   *)
(***************************************************************************)
EXTENDS Integers, FiniteSets

CONSTANTS
    MaxPlayerID,    \* bound on the player ids handed out in one behaviour
    MaxRoomID,      \* bound on the room ids handed out in one behaviour
    Capacities,     \* the values maxPlayers (VE_MAX_PL + 2) takes
    Sums,           \* the control sums
    ControlSum(_)   \* row -> control sum (lobby.controlSum)

NoPlayer == 0                    \* PlayerID 0: a session that has not entered
NoRoom == 0                      \* a map without an entry for the key
PlayerID == 0 .. MaxPlayerID
RoomID == 1 .. MaxRoomID
Count == 0 .. MaxPlayerID + 1

(* The columns of lobby.Room.Row that change: setPlayersColumn writes the  *)
(* second, MarkStarted the third; the first makes rows of two rooms differ.*)
RowType == [id : RoomID, count : Count, started : BOOLEAN]

RoomType == [host : PlayerID, max : Capacities, count : Count,
             players : SUBSET PlayerID, started : BOOLEAN,
             row : RowType, ctl : Sums]

StoreType == [rooms : [RoomID -> RoomType],
              lastRoomID : 0 .. MaxRoomID,
              byID : SUBSET RoomID,
              byPID : [PlayerID -> RoomID \cup {NoRoom}],
              bySum : [Sums -> RoomID \cup {NoRoom}]]

ASSUME BoundsAssumption == MaxPlayerID \in Nat /\ MaxRoomID \in Nat
ASSUME CapacitiesAssumption == Capacities # {} /\ Capacities \subseteq Int

(* The registry is keyed by a 32-bit Adler-style sum as if distinct rows   *)
(* had distinct sums; this is the premise under which its checksum index   *)
(* is sound.  RoomRow.tla computes the sum: it tells the rows of one room  *)
(* apart, but rows of different rooms may share it.                        *)
ASSUME ControlSumAssumption ==
    /\ \A w \in RowType : ControlSum(w) \in Sums
    /\ \A w1, w2 \in RowType : ControlSum(w1) = ControlSum(w2) => w1 = w2

----------------------------------------------------------------------------
(* The players whose roomsByPID entry points at r.  (The map is called     *)
(* "by host" in the code, but Join enters every guest into it.)            *)
Members(st, r) == {p \in PlayerID : st.byPID[p] = r}

(* A room id that NextRoomID has handed out.                               *)
Allocated(st) == 1 .. st.lastRoomID

InitStore == [rooms |-> [r \in RoomID |->
                  LET w == [id |-> r, count |-> 0, started |-> FALSE]
                  IN  [host |-> NoPlayer, max |-> CHOOSE m \in Capacities : TRUE,
                       count |-> 0, players |-> {}, started |-> FALSE,
                       row |-> w, ctl |-> ControlSum(w)]],
              lastRoomID |-> 0,
              byID |-> {},
              byPID |-> [p \in PlayerID |-> NoRoom],
              bySum |-> [s \in Sums |-> NoRoom]]

----------------------------------------------------------------------------
(* MUTANT: a closed room is recognised by its counter alone.               *)
ShouldDeleteEmptyOnly(room, p, n) == n <= 0

(* leave.go: shouldDelete, for the counter value n after the decrement.    *)
ShouldDelete(room, p, n) ==
    IF room.started THEN n <= 0 ELSE room.host = p \/ n <= 0

(* MUTANT: the player map keeps those who left before the start.           *)
PlayersAfterLeaveKept(room, p) == room.players

(* leave.go: in a started room the player stays listed (flagged exited).   *)
PlayersAfterLeave(room, p) ==
    IF room.started THEN room.players ELSE room.players \ {p}

(* start.go: the in-place edit of Row[1] and of the last column.           *)
StartedRow(w) == [w EXCEPT !.started = TRUE]

(* setPlayersColumn: the "n/max" column.                                   *)
SetPlayersColumn(w, n) == [w EXCEPT !.count = n]

(* MUTANT: the entry of the old control sum is left behind.                *)
ReindexSumKeepOld(bySum, old, new, r) == [bySum EXCEPT ![new] = r]

(* UnindexBySum(old) and then IndexBySum under the new control sum, or,    *)
(* with r = NoRoom, UnindexBySum(new).                                     *)
ReindexSum(bySum, old, new, r) ==
    [[bySum EXCEPT ![old] = NoRoom] EXCEPT ![new] = r]

(* A room with a new row and the control sum of that row.                  *)
WithRow(room, w) == [room EXCEPT !.row = w, !.ctl = ControlSum(w)]

(* MUTANT: the counter is decremented twice.                               *)
RoomAfterLeaveTwice(room, p) ==
    LET n == room.count - 2
    IN  WithRow([room EXCEPT !.count = n], SetPlayersColumn(room.row, n))

(* What Leave makes of the room record.                                    *)
RoomAfterLeave(room, p) ==
    LET n == room.count - 1
        w == IF room.started THEN room.row ELSE SetPlayersColumn(room.row, n)
    IN  WithRow([room EXCEPT !.count = n,
                             !.players = PlayersAfterLeave(room, p)], w)

(* What Join makes of the room record.                                     *)
RoomAfterJoin(room, p) ==
    LET n == room.count + 1
    IN  WithRow([room EXCEPT !.count = n, !.players = @ \cup {p}],
                SetPlayersColumn(room.row, n))

(* What MarkStarted makes of the room record.                              *)
RoomAfterStart(room) ==
    WithRow([room EXCEPT !.started = TRUE], StartedRow(room.row))

(* What RegisterNew allocates.                                             *)
NewRoom(r, h, m) ==
    LET w == [id |-> r, count |-> 1, started |-> FALSE]
    IN  [host |-> h, max |-> m, count |-> 1, players |-> {h},
         started |-> FALSE, row |-> w, ctl |-> ControlSum(w)]

----------------------------------------------------------------------------
(* Service.Leave: a no-op for a player without an entry; otherwise the     *)
(* room is updated, re-indexed under its new sum, and taken out of both    *)
(* the id and the sum index when it closes.                                *)
LeaveStore(st, p) ==
    LET r == st.byPID[p] IN
    IF r = NoRoom THEN st
    ELSE LET room == st.rooms[r]
             new == RoomAfterLeave(room, p)
             closed == ShouldDelete(room, p, new.count)
         IN  [rooms |-> [st.rooms EXCEPT ![r] = new],
              lastRoomID |-> st.lastRoomID,
              byID |-> IF closed THEN st.byID \ {r} ELSE st.byID,
              byPID |-> [st.byPID EXCEPT ![p] = NoRoom],
              bySum |-> ReindexSum(st.bySum, room.ctl, new.ctl,
                                   IF closed THEN NoRoom ELSE r)]

(* Service.Join: r is the room the caller looked up, whether or not it is  *)
(* still in the id index by now.                                           *)
JoinStore(st, r, p) ==
    LET room == st.rooms[r]
        new == RoomAfterJoin(room, p)
    IN  [rooms |-> [st.rooms EXCEPT ![r] = new],
         lastRoomID |-> st.lastRoomID,
         byID |-> st.byID,
         byPID |-> [st.byPID EXCEPT ![p] = r],
         bySum |-> ReindexSum(st.bySum, room.ctl, new.ctl, r)]

(* Service.MarkStarted.                                                    *)
StartStore(st, r) ==
    LET room == st.rooms[r]
        new == RoomAfterStart(room)
    IN  [rooms |-> [st.rooms EXCEPT ![r] = new],
         lastRoomID |-> st.lastRoomID,
         byID |-> st.byID,
         byPID |-> st.byPID,
         bySum |-> ReindexSum(st.bySum, room.ctl, new.ctl, r)]

(* MUTANT: a room is numbered by the rooms open now.                       *)
NextRoomIDReused(st) == Cardinality(st.byID) + 1

(* Store.NextRoomID (its uint32 wrap is out of reach of MaxRoomID).        *)
NextRoomID(st) == st.lastRoomID + 1

(* Service.RegisterNew.                                                    *)
RegisterStore(st, h, m) ==
    LET r == NextRoomID(st)
        new == NewRoom(r, h, m)
    IN  [rooms |-> [st.rooms EXCEPT ![r] = new],
         lastRoomID |-> r,
         byID |-> st.byID \cup {r},
         byPID |-> [st.byPID EXCEPT ![h] = r],
         bySum |-> [st.bySum EXCEPT ![new.ctl] = r]]

----------------------------------------------------------------------------
(* The consistency of a registry value, in named parts.                    *)

(* Only ids handed out by NextRoomID occur in the maps.                    *)
IndexedAllocated(st) ==
    /\ st.byID \subseteq Allocated(st)
    /\ \A p \in PlayerID : st.byPID[p] # NoRoom => st.byPID[p] \in Allocated(st)
    /\ \A s \in Sums : st.bySum[s] # NoRoom => st.bySum[s] \in Allocated(st)

(* PlayersCount, incremented by Join and decremented by Leave, is the      *)
(* number of players whose entry points at the room.                       *)
CountIsMembers(st) ==
    \A r \in Allocated(st) : st.rooms[r].count = Cardinality(Members(st, r))

(* Before the start the player map is exactly the membership; afterwards   *)
(* it also keeps those who left.                                           *)
PlayersAreMembers(st) ==
    \A r \in Allocated(st) :
        /\ Members(st, r) \subseteq st.rooms[r].players
        /\ ~ st.rooms[r].started => st.rooms[r].players = Members(st, r)

(* A room that can be found by id has somebody in it, and its host as long *)
(* as the game has not started.                                            *)
ListedRoomsHosted(st) ==
    \A r \in st.byID :
        /\ Members(st, r) # {}
        /\ ~ st.rooms[r].started => st.rooms[r].host \in Members(st, r)

(* Row and CtlSum belong together, and rows of two rooms differ.           *)
RowsSummed(st) ==
    \A r \in RoomID : /\ st.rooms[r].row.id = r
                      /\ st.rooms[r].ctl = ControlSum(st.rooms[r].row)

(* The checksum index resolves every listed room under its current sum,    *)
(* holds no stale sum, and never leads to a room without members.          *)
SumIndexExact(st) ==
    /\ \A r \in st.byID : st.bySum[st.rooms[r].ctl] = r
    /\ \A s \in Sums : st.bySum[s] # NoRoom =>
          /\ st.rooms[st.bySum[s]].ctl = s
          /\ Members(st, st.bySum[s]) # {}

(* An open room never holds more players than it was created for (a room   *)
(* is created with its host whatever the requested capacity).              *)
WithinCapacity(st) ==
    \A r \in st.byID : \/ st.rooms[r].count <= st.rooms[r].max
                       \/ st.rooms[r].count = 1

StoreInv(st) ==
    /\ IndexedAllocated(st)
    /\ CountIsMembers(st)
    /\ PlayersAreMembers(st)
    /\ ListedRoomsHosted(st)
    /\ RowsSummed(st)
    /\ SumIndexExact(st)
    /\ WithinCapacity(st)
=============================================================================
