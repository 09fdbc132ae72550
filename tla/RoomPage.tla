------------------------------ MODULE RoomPage ------------------------------
(***************************************************************************)
(* Who the room dialog says is playing.  The dialog is built from player   *)
(* records that rooms and the store share by pointer: Leave sets ExitedAt  *)
(* on the record that the started room holds, try_enter replaces the       *)
(* store's record and not the room's, Join and RegisterNew take the        *)
(* store's.  The registry is that of LobbyStore; each player has one       *)
(* connection.                                                             *)
(***************************************************************************)
EXTENDS LobbyStore, Sequences, SequencesExt

CONSTANT MaxRecords     \* bound: times one player enters

VARIABLES
    store,      \* the registry
    record,     \* Store.players: the number of each player's record, 0 if none
    entered,    \* records made for each player so far
    roster,     \* Room.Players of each room: the record under each id, 0 if none
    times,      \* Room.PlayersTime of each room: ids in the order of the times
    exited      \* the records whose ExitedAt is set

pageVars == <<store, record, entered, roster, times, exited>>

Persons == PlayerID \ {NoPlayer}

PageInit ==
    /\ store = InitStore
    /\ record = [p \in PlayerID |-> 0]
    /\ entered = [p \in PlayerID |-> 0]
    /\ roster = [r \in RoomID |-> [p \in PlayerID |-> 0]]
    /\ times = [r \in RoomID |-> <<>>]
    /\ exited = {}

----------------------------------------------------------------------------
(* The map without the entry of p, if it has one.                          *)
Without(s, p) ==
    IF p \in Range(s) THEN RemoveAt(s, CHOOSE i \in DOMAIN s : s[i] = p) ELSE s

(* The maps and flags the dialog is built from, as one value.              *)
Pages == [roster |-> roster, times |-> times, exited |-> exited]

SetPages(pg) == roster' = pg.roster /\ times' = pg.times /\ exited' = pg.exited

(* MUTANT: the maps keep whoever leaves, and nobody is flagged.            *)
LeavePagesKept(st, pg, p) == pg

(* Service.Leave: flagged in a started room, removed from any other.       *)
LeavePages(st, pg, p) ==
    LET r == st.byPID[p] IN
    IF r = NoRoom THEN pg
    ELSE IF st.rooms[r].started
    THEN IF pg.roster[r][p] = 0 THEN pg
         ELSE [pg EXCEPT !.exited = @ \cup {<<p, pg.roster[r][p]>>}]
    ELSE [roster |-> [pg.roster EXCEPT ![r][p] = 0],
          times |-> [pg.times EXCEPT ![r] = Without(@, p)],
          exited |-> pg.exited]

(* MUTANT: the newcomer is put first.                                      *)
EnterRoomFirst(pg, r, p, n) ==
    [pg EXCEPT !.roster[r][p] = n, !.times[r] = <<p>> \o Without(@, p)]

(* Service.Join, and RegisterNew for its host: the record and the time.    *)
EnterRoom(pg, r, p, n) ==
    [roster |-> [pg.roster EXCEPT ![r][p] = n],
     times |-> [pg.times EXCEPT ![r] = Append(Without(@, p), p)],
     exited |-> pg.exited]

----------------------------------------------------------------------------
(* try_enter: the room is left, then the store gets a new record.          *)
Enter(p) ==
    /\ entered[p] < MaxRecords              \* bound MaxRecords
    /\ entered[p] = 0 \/ record[p] # 0      \* ids are not handed out twice
    /\ store' = LeaveStore(store, p)
    /\ SetPages(LeavePages(store, Pages, p))
    /\ entered' = [entered EXCEPT ![p] = @ + 1]
    /\ record' = [record EXCEPT ![p] = entered[p] + 1]

RegNewRoom(p, m) ==
    /\ record[p] # 0
    /\ store.lastRoomID < MaxRoomID         \* bound MaxRoomID
    /\ store' = RegisterStore(LeaveStore(store, p), p, m)
    /\ SetPages(EnterRoom(LeavePages(store, Pages, p),
                          NextRoomID(store), p, record[p]))
    /\ UNCHANGED <<record, entered>>

JoinGame(p, r) ==
    /\ record[p] # 0
    /\ r \in store.byID
    /\ ~ store.rooms[r].started
    /\ store.rooms[r].count < store.rooms[r].max
    /\ store' = JoinStore(LeaveStore(store, p), r, p)
    /\ SetPages(EnterRoom(LeavePages(store, Pages, p), r, p, record[p]))
    /\ UNCHANGED <<record, entered>>

(* The leave command, or the player's timer.                               *)
Leave(p) ==
    /\ record[p] # 0
    /\ store.byPID[p] # NoRoom
    /\ store' = LeaveStore(store, p)
    /\ SetPages(LeavePages(store, Pages, p))
    /\ UNCHANGED <<record, entered>>

Start(p) ==
    /\ record[p] # 0
    /\ store.byPID[p] # NoRoom
    /\ store' = StartStore(store, store.byPID[p])
    /\ UNCHANGED <<record, entered, roster, times, exited>>

(* OnDisconnect: the room is left and the record deleted.                  *)
Disconnect(p) ==
    /\ record[p] # 0
    /\ store' = LeaveStore(store, p)
    /\ SetPages(LeavePages(store, Pages, p))
    /\ record' = [record EXCEPT ![p] = 0]
    /\ UNCHANGED entered

PageNext ==
    \E p \in Persons :
        \/ Enter(p) \/ Leave(p) \/ Start(p) \/ Disconnect(p)
        \/ \E m \in Capacities : RegNewRoom(p, m)
        \/ \E r \in RoomID : JoinGame(p, r)

PageSpec == PageInit /\ [][PageNext]_pageVars

----------------------------------------------------------------------------
(* render.StartedPlayerNames: the ids that have a time, without those the  *)
(* room has no record of, split by ExitedAt; each half in the order of the *)
(* times.                                                                  *)
Flagged(r, p) == <<p, roster[r][p]>> \in exited

Shown(r) == {p \in Range(times[r]) : roster[r][p] # 0}

ActivePlayers(r) == {p \in Shown(r) : ~ Flagged(r, p)}

ExitedPlayers(r) == {p \in Shown(r) : Flagged(r, p)}

(* p is named before q if both are on the same list.                       *)
Before(s, p, q) ==
    \E i, j \in DOMAIN s : i < j /\ s[i] = p /\ s[j] = q

----------------------------------------------------------------------------
(* The dialog names everybody who is in the room, once.  Before the start  *)
(* it names nobody else; of a started game it also names those who were in *)
(* it, and none of these as playing still, whether they left, timed out,   *)
(* entered anew, dropped or went to another room.                          *)
PageNamesMembers ==
    \A r \in Allocated(store) :
        /\ Members(store, r) \subseteq Shown(r)
        /\ IsInjective(times[r])
        /\ IF store.rooms[r].started
           THEN ActivePlayers(r) \subseteq Members(store, r)
           ELSE Shown(r) = Members(store, r)

(* StartedPlayerNames: "ordered by join time".  Whoever joins is named     *)
(* last, a player who joins again the room it is in included; those who    *)
(* were there before and are there still keep their order.                 *)
NamedInJoinOrder ==
    [][\A r \in Allocated(store) : Members(store', r) # {} =>
          LET last == Last(times'[r])
              stayed == (Members(store, r) \cap Members(store', r)) \ {last}
          IN  /\ \A p, q \in stayed :
                     Before(times'[r], p, q) <=> Before(times[r], p, q)
              /\ Members(store', r) \ Members(store, r) \subseteq {last}]_pageVars

(* A player of a game that has ended is as anybody else in the next one:   *)
(* the dialog lists who is in a room as playing and not as exited.         *)
MembersShownActive ==
    \A r \in Allocated(store) :
        Members(store, r) \cap ExitedPlayers(r) = {}
=============================================================================
