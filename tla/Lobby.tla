-------------------------------- MODULE Lobby --------------------------------
(***************************************************************************)
(* The lobby of the game server as its clients drive it: connections that  *)
(* open, enter, create, join, start, leave, ping and drop; the keep-alive  *)
(* timers of connectivity.Manager; the room registry of LobbyStore; and    *)
(* the room table each client keeps from its GETTBL polls.                 *)
(*                                                                         *)
(* Every action is one whole handler: handlers run here one after another. *)
(* LobbyConc.tla has the same handlers cut at the points where another     *)
(* goroutine can run.                                                      *)
(***************************************************************************)
EXTENDS LobbyStore

CONSTANTS
    Conn,               \* connection slots of tcp.Server.handleConn
    NoConn,             \* no entry in Manager.byID
    Viewers,            \* bound: the connections that poll GETTBL
    Hangers,            \* bound: the connections that may fall silent
    DevFlags,           \* bound: what try_enter may set Session.Dev to
    ShowStartedRooms    \* config: list started games to everybody

ASSUME LobbyAssumption ==
    /\ NoConn \notin Conn
    /\ Viewers \subseteq Conn
    /\ Hangers \subseteq Conn
    /\ DevFlags \subseteq BOOLEAN
    /\ ShowStartedRooms \in BOOLEAN

VARIABLES
    open,           \* connections with a live handleConn loop
    hung,           \* open connections whose client sends nothing any more
    pid,            \* conn.Session.PlayerID (NoPlayer before try_enter)
    dev,            \* conn.Session.Dev
    lastPlayerID,   \* Store.lastPlayerID
    players,        \* keys of Store.players
    store,          \* rooms, and the maps that index them (LobbyStore)
    timers,         \* keys of Manager.timers: players with an armed timer
    connByID,       \* Manager.byID
    view            \* client side: the rows the client shows

vars == <<open, hung, pid, dev, lastPlayerID, players, store, timers,
          connByID, view>>

TypeOK ==
    /\ open \subseteq Conn
    /\ hung \subseteq open
    /\ pid \in [Conn -> PlayerID]
    /\ dev \in [Conn -> BOOLEAN]
    /\ lastPlayerID \in PlayerID
    /\ players \subseteq PlayerID
    /\ store \in StoreType
    /\ timers \subseteq PlayerID
    /\ connByID \in [PlayerID -> Conn \cup {NoConn}]
    /\ view \in [Conn -> SUBSET RowType]

Init ==
    /\ open = {}
    /\ hung = {}
    /\ pid = [c \in Conn |-> NoPlayer]
    /\ dev = [c \in Conn |-> FALSE]
    /\ lastPlayerID = 0
    /\ players = {}
    /\ store = InitStore
    /\ timers = {}
    /\ connByID = [p \in PlayerID |-> NoConn]
    /\ view = [c \in Conn |-> {}]

----------------------------------------------------------------------------
(* A client whose requests the server still receives.                      *)
Responsive(c) == c \in open \ hung

(* ... and that has a player id.                                           *)
Entered(c) == Responsive(c) /\ pid[c] # NoPlayer

(* The players behind the silent connections.                              *)
SilentPlayers == {pid[c] : c \in hung} \ {NoPlayer}

(* The player's present room, NoRoom if none.                              *)
RoomOf(p) == store.byPID[p]

(* Manager.ClearTimer.                                                     *)
ClearTimer(ts, p) == ts \ {p}

(* MUTANT: no timer is armed.                                              *)
ArmTimersNone(ts, ps) == ts

(* Manager.ArmTimer for each player of ps.                                 *)
ArmTimers(ts, ps) == ts \cup ps

----------------------------------------------------------------------------
(* A client connects: tconn.NewConnection, no session yet.                 *)
Connect(c) ==
    /\ c \notin open
    /\ open' = open \cup {c}
    /\ pid' = [pid EXCEPT ![c] = NoPlayer]
    /\ dev' = [dev EXCEPT ![c] = FALSE]
    /\ view' = [view EXCEPT ![c] = {}]
    /\ UNCHANGED <<hung, lastPlayerID, players, store, timers, connByID>>

(* The client falls silent without closing the socket (environment).       *)
Hang(c) ==
    /\ c \in Hangers
    /\ Responsive(c)
    /\ hung' = hung \cup {c}
    /\ UNCHANGED <<open, pid, dev, lastPlayerID, players, store, timers,
                   connByID, view>>

(* try_enter that ends in the enter dialog or the error page: only the     *)
(* developer flag of the session is set.                                   *)
TryEnterRefused(c, d) ==
    /\ Responsive(c)
    /\ dev' = [dev EXCEPT ![c] = d]
    /\ UNCHANGED <<open, hung, pid, lastPlayerID, players, store, timers,
                   connByID, view>>

(* successEnter: the id the session already has, or NextPlayerID.          *)
SessionID(c) == IF pid[c] # NoPlayer THEN pid[c] ELSE lastPlayerID + 1

(* try_enter that succeeds.  A second enter on the same connection keeps   *)
(* the id and leaves the room the player is in.                            *)
TryEnter(c, d) ==
    LET id == SessionID(c) IN
    /\ Responsive(c)
    /\ id \in PlayerID          \* bound MaxPlayerID
    /\ dev' = [dev EXCEPT ![c] = d]
    /\ IF pid[c] # NoPlayer
       THEN /\ timers' = ClearTimer(timers, pid[c])
            /\ store' = LeaveStore(store, pid[c])
       ELSE UNCHANGED <<timers, store>>
    /\ lastPlayerID' = IF id = lastPlayerID + 1 THEN id ELSE lastPlayerID
    /\ players' = players \cup {id}
    /\ pid' = [pid EXCEPT ![c] = id]
    /\ connByID' = [connByID EXCEPT ![id] = c]
    /\ UNCHANGED <<open, hung, view>>

(* reg_new_room with ASTATE set and a legal title; every other request is  *)
(* answered with a dialog and changes nothing.                             *)
RegNewRoom(c, m) ==
    LET p == pid[c]
        host == IF p \in players THEN p ELSE NoPlayer
    IN  /\ Entered(c)
        /\ store.lastRoomID < MaxRoomID     \* bound MaxRoomID
        /\ store' = RegisterStore(LeaveStore(store, p), host, m)
        /\ timers' = ArmTimers(ClearTimer(timers, p), {p})
        /\ UNCHANGED <<open, hung, pid, dev, lastPlayerID, players, connByID,
                       view>>

(* MUTANT: started rooms are joinable.                                     *)
JoinableStarted(r) ==
    r \in store.byID /\ store.rooms[r].count < store.rooms[r].max

(* join_game's checks: the room is known, not started, not full.           *)
Joinable(r) ==
    /\ r \in store.byID
    /\ ~ store.rooms[r].started
    /\ store.rooms[r].count < store.rooms[r].max

(* join_game past its checks: the player leaves the room it is in, which   *)
(* may be r itself, and is added to the looked-up room, which that leave   *)
(* may have closed.  No timer is armed.                                    *)
JoinGame(c, r) ==
    LET p == pid[c]
        left == LeaveStore(store, p)
    IN  /\ Entered(c)
        /\ Joinable(r)
        /\ store' = IF p \in players THEN JoinStore(left, r, p) ELSE left
        /\ timers' = ClearTimer(timers, p)
        /\ UNCHANGED <<open, hung, pid, dev, lastPlayerID, players, connByID,
                       view>>

(* The leave command.                                                      *)
Leave(c) ==
    /\ Entered(c)
    /\ timers' = ClearTimer(timers, pid[c])
    /\ store' = LeaveStore(store, pid[c])
    /\ UNCHANGED <<open, hung, pid, dev, lastPlayerID, players, connByID,
                   view>>

(* The start command: whoever has an entry in roomsByPID starts that room, *)
(* and every key of the room's player map gets an armed timer.             *)
Start(c) ==
    LET r == RoomOf(pid[c]) IN
    /\ Entered(c)
    /\ r # NoRoom
    /\ store' = StartStore(store, r)
    /\ timers' = ArmTimers(timers, store.rooms[r].players)
    /\ UNCHANGED <<open, hung, pid, dev, lastPlayerID, players, connByID,
                   view>>

(* alive, and stats, which refreshes the timer before anything else.       *)
Alive(c) ==
    /\ Entered(c)
    /\ timers' = ArmTimers(timers, {pid[c]})
    /\ UNCHANGED <<open, hung, pid, dev, lastPlayerID, players, store,
                   connByID, view>>

(* notAlive: the timer of p fires; p is taken out of its room and of the   *)
(* connection registry, but the socket stays open.                         *)
NotAlive(p) ==
    /\ p \in timers
    /\ timers' = ClearTimer(timers, p)
    /\ store' = LeaveStore(store, p)
    /\ connByID' = [connByID EXCEPT ![p] = NoConn]
    /\ UNCHANGED <<open, hung, pid, dev, lastPlayerID, players, view>>

(* MUTANT: the room of a dropped connection is left alone.                 *)
DisconnectStoreKept(st, p) == st

(* leaveRoomByID as OnDisconnect calls it.                                 *)
DisconnectStore(st, p) == LeaveStore(st, p)

(* The read loop ends and OnDisconnect runs; a connection that never       *)
(* entered has nothing to give back.                                       *)
Disconnect(c) ==
    LET p == pid[c] IN
    /\ c \in open
    /\ open' = open \ {c}
    /\ hung' = hung \ {c}
    /\ pid' = [pid EXCEPT ![c] = NoPlayer]
    /\ dev' = [dev EXCEPT ![c] = FALSE]
    /\ view' = [view EXCEPT ![c] = {}]
    /\ IF p # NoPlayer
       THEN /\ timers' = ClearTimer(timers, p)
            /\ connByID' = [connByID EXCEPT ![p] = NoConn]
            /\ store' = DisconnectStore(store, p)
            /\ players' = players \ {p}
       ELSE UNCHANGED <<timers, connByID, store, players>>
    /\ UNCHANGED lastPlayerID

----------------------------------------------------------------------------
(* GETTBL.  The client sends the sums of the rows it shows; LW_dtbl names  *)
(* the sums to drop, LW_tbl carries the rows it lacks.                     *)
HideStarted(c) == ~ dev[c] /\ ~ ShowStartedRooms

Hidden(c, r) == HideStarted(c) /\ store.rooms[r].started

(* The rooms a client should be shown.                                     *)
Visible(c) == {r \in store.byID : ~ Hidden(c, r)}

VisibleRows(c) == {store.rooms[r].row : r \in Visible(c)}

(* The sums the client sends: those of the rows it shows.                  *)
Requested(c) == {ControlSum(w) : w \in view[c]}

(* MUTANT: every requested sum is dropped.                                 *)
DtblAll(c) == Requested(c)

(* The sums LW_dtbl carries.                                               *)
Dtbl(c) == {s \in Requested(c) :
               store.bySum[s] = NoRoom \/ Hidden(c, store.bySum[s])}

(* The rows LW_tbl carries.                                                *)
Tbl(c) == {store.rooms[r].row :
              r \in {x \in Visible(c) : store.rooms[x].ctl \notin Requested(c)}}

(* The client (external) applies the answer.                               *)
ApplyTables(rows, dtbl, tbl) ==
    {w \in rows : ControlSum(w) \notin dtbl} \cup tbl

(* What the client shows after a poll.                                     *)
Polled(c) == ApplyTables(view[c], Dtbl(c), Tbl(c))

(* The client asks for the table of its own version (any other name gets   *)
(* no rows back).                                                          *)
GetTbl(c) ==
    /\ c \in Viewers
    /\ Responsive(c)
    /\ view' = [view EXCEPT ![c] = Polled(c)]
    /\ UNCHANGED <<open, hung, pid, dev, lastPlayerID, players, store, timers,
                   connByID>>

----------------------------------------------------------------------------
ConnNext(c) ==
    \/ Connect(c)
    \/ Hang(c)
    \/ \E d \in DevFlags : TryEnterRefused(c, d) \/ TryEnter(c, d)
    \/ \E m \in Capacities : RegNewRoom(c, m)
    \/ \E r \in RoomID : JoinGame(c, r)
    \/ Leave(c)
    \/ Start(c)
    \/ Alive(c)
    \/ GetTbl(c)
    \/ Disconnect(c)

Next == (\E c \in Conn : ConnNext(c)) \/ (\E p \in PlayerID : NotAlive(p))

Spec == Init /\ [][Next]_vars

(* An armed timer of a player whose client sends nothing fires: nobody     *)
(* re-arms it but a start, which only a member of the same room can send.  *)
FireSilent(p) == p \in SilentPlayers /\ NotAlive(p)

LiveSpec == Spec /\ \A p \in PlayerID : WF_vars(FireSilent(p))

----------------------------------------------------------------------------
(* Safety of the registry.                                                 *)

(* The "n/max" a client is shown and the capacity check of join_game rest  *)
(* on PlayersCount, which Join, Leave, the timer and the disconnect path   *)
(* each adjust: it is always the number of players in the room, closed     *)
(* rooms that still have guests included.                                  *)
PlayersCounted == CountIsMembers(store)

(* room.Players, which start walks to arm timers and stats looks players   *)
(* up in, agrees with the roomsByPID entries that Leave goes by.           *)
PlayerMapIsMembership == PlayersAreMembers(store)

(* A room that join_game can find is never empty, and until it has started *)
(* its host, whose address the joiners are given, is still in it.          *)
ListedRoomsLive == ListedRoomsHosted(store)

(* GETTBL resolves sums: each listed room is found under its current sum,  *)
(* no superseded sum still resolves, and no sum leads to an empty room.    *)
ChecksumIndexExact == SumIndexExact(store)

(* join_game checks the counter before the joiner leaves its own room, and *)
(* still no listed room ever exceeds its capacity.                         *)
RoomsWithinCapacity == WithinCapacity(store)

(* The five together: the registry as Join, Leave, MarkStarted and         *)
(* RegisterNew leave it, in whatever order the handlers call them.         *)
RegistrySound ==
    /\ PlayersCounted
    /\ PlayerMapIsMembership
    /\ ListedRoomsLive
    /\ ChecksumIndexExact
    /\ RoomsWithinCapacity

(* Whoever holds a roomsByPID entry has a live connection with that player *)
(* id and a player record: OnDisconnect leaves no membership behind, so    *)
(* that with no connection open no room is listed.                         *)
NoAbandonedMembership ==
    \A p \in PlayerID : RoomOf(p) # NoRoom =>
        /\ p \in players
        /\ \E c \in open : pid[c] = p

(* NextPlayerID and the id kept across a second try_enter never give two   *)
(* connections the same player, and every entered session has its record.  *)
PlayersAreSessions ==
    /\ \A c, d \in Conn : pid[c] # NoPlayer /\ pid[c] = pid[d] => c = d
    /\ players = {pid[c] : c \in open} \ {NoPlayer}

(* Manager.byID never points at a closed connection or at one that has     *)
(* another player id.                                                      *)
RegistrationsCurrent ==
    \A p \in PlayerID : connByID[p] # NoConn =>
        /\ p # NoPlayer
        /\ connByID[p] \in open
        /\ pid[connByID[p]] = p

(* The three together: connections, player records, registrations and      *)
(* memberships tell of the same players.                                   *)
SessionsSound ==
    /\ NoAbandonedMembership
    /\ PlayersAreSessions
    /\ RegistrationsCurrent

(* The timers of ts cover the rooms of st.                                 *)
TimersCover(st, ts) ==
    \A r \in st.byID :
        IF st.rooms[r].started THEN Members(st, r) \subseteq ts
        ELSE st.rooms[r].host \in ts

(* Keep-alive coverage: the host of an open room, and everybody in a       *)
(* started one, has an armed timer.  Leaving, re-entering and switching    *)
(* rooms clear timers, so this needs every clear to come with a leave.     *)
KeepAliveCovers == TimersCover(store, timers)

(* GETTBL, incremental as it is, leaves a polling client with the current  *)
(* row of every room it may see: a sum the client sends is skipped only    *)
(* when the row behind it is still the same.                               *)
GetTblComplete ==
    \A c \in Viewers : VisibleRows(c) \subseteq Polled(c)

(* The inductive invariant behind the properties above: the registry is    *)
(* consistent in every part, and the ids held by sessions are the ones     *)
(* NextPlayerID has issued to connections that are open.                   *)
IDsIssued ==
    \A c \in Conn : /\ c \notin open => pid[c] = NoPlayer
                    /\ pid[c] <= lastPlayerID

LobbyInv ==
    /\ TypeOK
    /\ StoreInv(store)
    /\ IDsIssued
    /\ NoAbandonedMembership
    /\ PlayersAreSessions
    /\ RegistrationsCurrent
    /\ KeepAliveCovers

----------------------------------------------------------------------------
(* What a step may never do.                                               *)

(* A closed room does not come back under its id (NextRoomID never reuses  *)
(* one), a started game does not return to the open state, and a room      *)
(* keeps its host.                                                         *)
RoomLifecycle ==
    [][\A r \in Allocated(store) :
          /\ r \notin store.byID => r \notin store'.byID
          /\ store.rooms[r].started => store'.rooms[r].started
          /\ store'.rooms[r].host = store.rooms[r].host]_vars

(* Nobody gets into a game that has started.                               *)
NoLateJoin ==
    [][\A r \in Allocated(store) : store.rooms[r].started =>
          Members(store', r) \subseteq Members(store, r)]_vars

(* The lobby keeps the promises of AbstractLobby: the counters, the player *)
(* map and the three indexes decide what the membership alone would.       *)
Abs == INSTANCE AbstractLobby WITH
    Players <- PlayerID,
    None <- NoRoom,
    where <- store.byPID,
    listed <- store.byID,
    started <- {r \in RoomID : store.rooms[r].started},
    host <- [r \in RoomID |-> store.rooms[r].host],
    cap <- [r \in RoomID |-> store.rooms[r].max],
    made <- store.lastRoomID

(* Every step of the lobby, whichever handler takes it, is a step of the   *)
(* abstract lobby or leaves it alone.                                      *)
KeepsPromises == Abs!Spec

----------------------------------------------------------------------------
(* What must eventually happen.                                            *)

(* A room whose host has gone silent before the start is closed or gets    *)
(* started by a guest: the host's timer was armed by reg_new_room.         *)
SilentHostReaped ==
    \A r \in RoomID :
        (/\ r \in store.byID
         /\ ~ store.rooms[r].started
         /\ store.rooms[r].host \in SilentPlayers)
        ~> (r \notin store.byID \/ store.rooms[r].started)

(* A started game whose players have all gone silent is closed: start      *)
(* armed a timer for each of them.                                         *)
SilentGameReaped ==
    \A r \in RoomID :
        (/\ r \in store.byID
         /\ store.rooms[r].started
         /\ Members(store, r) \subseteq SilentPlayers)
        ~> (r \notin store.byID)

(* No room outlives the silence of the players who keep it.                *)
SilentRoomsReaped == SilentHostReaped /\ SilentGameReaped

----------------------------------------------------------------------------
(* What the repository says and the code does not do.                      *)

(* gettbl.go: the LW_dtbl / LW_tbl pair describes the changes since the    *)
(* client's last view, so that a client that applies it shows only rooms   *)
(* that are open.                                                          *)
GetTblSound ==
    \A c \in Viewers : Polled(c) \subseteq VisibleRows(c)

(* commands/start.go: start "promotes the host's room"; a caller that does *)
(* not host any room is refused.                                           *)
OnlyHostStarts ==
    [][\A c \in Conn : Start(c) =>
          store.rooms[RoomOf(pid[c])].host = pid[c]]_vars

(* commands/alive.go: if the ping fails to arrive the timer fires and the  *)
(* player is removed from any room.                                        *)
SilentPlayerRemoved ==
    \A p \in PlayerID :
        (p \in SilentPlayers /\ RoomOf(p) # NoRoom)
        ~> (p \notin SilentPlayers \/ RoomOf(p) = NoRoom)

=============================================================================
