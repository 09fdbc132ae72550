------------------------------ MODULE LobbyProofs ------------------------------
(***************************************************************************)
(* LobbyInv is an inductive invariant of the lobby, for any number of      *)
(* connections, players and rooms; the safety properties the model checker *)
(* checks on small instances follow from it, and so does that the lobby    *)
(* implements AbstractLobby.                                               *)
(***************************************************************************)
EXTENDS Lobby, LobbyStoreProofs

(* Leaving and clearing the timer together keep the open rooms covered.    *)
LEMMA LeaveCovers ==
    ASSUME NEW st \in StoreType, StoreInv(st), NEW p \in PlayerID, NEW ts,
           TimersCover(st, ts)
    PROVE  TimersCover(LeaveStore(st, p), ts \ {p})
<1> DEFINE st2 == LeaveStore(st, p)
<1>1. /\ st2 \in StoreType
      /\ StoreInv(st2)
      /\ st2.byPID = [st.byPID EXCEPT ![p] = NoRoom]
      /\ st2.byID \subseteq st.byID
      /\ \A q \in RoomID : /\ st2.rooms[q].host = st.rooms[q].host
                           /\ st2.rooms[q].started = st.rooms[q].started
  BY LeavePreserves
<1> HIDE DEF st2
<1> SUFFICES ASSUME NEW q \in st2.byID
             PROVE  IF st2.rooms[q].started THEN Members(st2, q) \subseteq ts \ {p}
                    ELSE st2.rooms[q].host \in ts \ {p}
  BY DEF TimersCover, st2
<1>2. q \in RoomID /\ q # NoRoom /\ q \in st.byID
  BY <1>1, BoundsAssumption DEF StoreType, RoomID, NoRoom
<1>3. Members(st2, q) \subseteq Members(st, q) \ {p}
  BY <1>1, <1>2 DEF Members, StoreType
<1>4. ~ st2.rooms[q].started => st2.rooms[q].host \in Members(st2, q)
  BY <1>1 DEF StoreInv, ListedRoomsHosted
<1>5. CASE st2.rooms[q].started
  BY <1>1, <1>2, <1>3, <1>5 DEF TimersCover
<1>6. CASE ~ st2.rooms[q].started
  BY <1>1, <1>2, <1>3, <1>4, <1>6 DEF TimersCover
<1> QED
  BY <1>5, <1>6

(* What LobbyInv says about the registry of an entered connection.         *)
LEMMA EnteredFacts ==
    ASSUME LobbyInv, NEW c \in Conn, Entered(c)
    PROVE  /\ pid[c] \in PlayerID /\ pid[c] # NoPlayer
           /\ c \in open
           /\ pid[c] \in players
BY DEF LobbyInv, TypeOK, Entered, Responsive, PlayersAreSessions

(* Nobody has the player id 0 in a room.                                   *)
LEMMA NoPlayerNoRoom ==
    ASSUME LobbyInv
    PROVE  store.byPID[NoPlayer] = NoRoom
<1>1. NoPlayer \in PlayerID
  BY BoundsAssumption DEF NoPlayer, PlayerID
<1> QED
  BY <1>1 DEF LobbyInv, NoAbandonedMembership, PlayersAreSessions, RoomOf

(* The initial state.                                                      *)
LEMMA InitInv == Init => LobbyInv
<1> SUFFICES ASSUME Init PROVE LobbyInv
  OBVIOUS
<1>1. store \in StoreType /\ StoreInv(store)
  BY InitStoreOK DEF Init
<1>2. store.byID = {} /\ store.byPID = [p \in PlayerID |-> NoRoom]
  BY DEF Init, InitStore
<1>3. 0 \in PlayerID /\ NoPlayer = 0
  BY BoundsAssumption DEF PlayerID, NoPlayer
<1>4. TypeOK
  BY <1>1, <1>3, LobbyAssumption DEF Init, TypeOK
<1>5. IDsIssued /\ NoAbandonedMembership /\ RegistrationsCurrent
  BY <1>2, <1>3 DEF Init, IDsIssued, NoAbandonedMembership, RoomOf,
                    RegistrationsCurrent
<1>6. PlayersAreSessions
  BY DEF Init, PlayersAreSessions
<1>7. KeepAliveCovers
  BY <1>2 DEF KeepAliveCovers, TimersCover
<1> QED
  BY <1>1, <1>4, <1>5, <1>6, <1>7 DEF LobbyInv

----------------------------------------------------------------------------
(* The steps that leave the registry alone.                                *)

LEMMA ConnectInv ==
    ASSUME LobbyInv, NEW c \in Conn, Connect(c)
    PROVE  LobbyInv'
<1> USE DEF LobbyInv, Connect
<1>1. TypeOK'
  BY BoundsAssumption DEF TypeOK, PlayerID, NoPlayer
<1>2. StoreInv(store)' /\ KeepAliveCovers'
  BY DEF KeepAliveCovers
<1>3. pid' = pid
  BY DEF IDsIssued, TypeOK
<1>4. IDsIssued'
  BY <1>3 DEF IDsIssued
<1>5. NoAbandonedMembership'
  BY <1>3 DEF NoAbandonedMembership, RoomOf
<1>6. PlayersAreSessions'
  BY <1>3 DEF PlayersAreSessions, IDsIssued
<1>7. RegistrationsCurrent'
  BY <1>3 DEF RegistrationsCurrent
<1> QED
  BY <1>1, <1>2, <1>4, <1>5, <1>6, <1>7

(* Hanging, a refused try_enter and a poll touch only the environment, the *)
(* developer flag and the client's table.                                  *)
LEMMA EnvironmentInv ==
    ASSUME LobbyInv, NEW c \in Conn,
           \/ Hang(c)
           \/ \E d \in DevFlags : TryEnterRefused(c, d)
           \/ GetTbl(c)
    PROVE  LobbyInv'
<1>1. /\ UNCHANGED <<open, pid, lastPlayerID, players, store, timers, connByID>>
  BY DEF Hang, TryEnterRefused, GetTbl
<1>2. TypeOK'
  <2>1. CASE Hang(c)
    BY <2>1 DEF LobbyInv, TypeOK, Hang, Responsive
  <2>2. CASE \E d \in DevFlags : TryEnterRefused(c, d)
    BY <2>2, LobbyAssumption DEF LobbyInv, TypeOK, TryEnterRefused
  <2>3. CASE GetTbl(c)
    <3>1. Tbl(c) \subseteq RowType
      BY DEF LobbyInv, TypeOK, Tbl, Visible, StoreType, RoomType
    <3>2. Polled(c) \subseteq RowType
      BY <3>1 DEF Polled, ApplyTables, LobbyInv, TypeOK
    <3> QED
      BY <2>3, <3>2 DEF LobbyInv, TypeOK, GetTbl
  <2> QED BY <2>1, <2>2, <2>3
<1>3. /\ StoreInv(store)' /\ IDsIssued' /\ NoAbandonedMembership'
      /\ PlayersAreSessions' /\ RegistrationsCurrent' /\ KeepAliveCovers'
  BY <1>1 DEF LobbyInv, IDsIssued, NoAbandonedMembership, RoomOf,
              PlayersAreSessions, RegistrationsCurrent, KeepAliveCovers
<1> QED
  BY <1>2, <1>3 DEF LobbyInv

(* alive only arms one more timer.                                         *)
LEMMA AliveInv ==
    ASSUME LobbyInv, NEW c \in Conn, Alive(c)
    PROVE  LobbyInv'
<1>1. /\ UNCHANGED <<open, hung, pid, dev, lastPlayerID, players, store,
                     connByID, view>>
      /\ timers' = timers \cup {pid[c]}
  BY DEF Alive, ArmTimers
<1>2. TypeOK'
  BY <1>1 DEF LobbyInv, TypeOK
<1>3. /\ StoreInv(store)' /\ IDsIssued' /\ NoAbandonedMembership'
      /\ PlayersAreSessions' /\ RegistrationsCurrent'
  BY <1>1 DEF LobbyInv, IDsIssued, NoAbandonedMembership, RoomOf,
              PlayersAreSessions, RegistrationsCurrent
<1>4. KeepAliveCovers'
  BY <1>1 DEF LobbyInv, KeepAliveCovers, TimersCover
<1> QED
  BY <1>2, <1>3, <1>4 DEF LobbyInv

----------------------------------------------------------------------------
(* Leaving as the leave command and the fired timer do it.                 *)
LEMMA LeaveStepInv ==
    ASSUME LobbyInv, NEW p \in PlayerID,
           timers' = ClearTimer(timers, p),
           store' = LeaveStore(store, p),
           connByID' = connByID \/ connByID' = [connByID EXCEPT ![p] = NoConn],
           UNCHANGED <<open, hung, pid, dev, lastPlayerID, players, view>>
    PROVE  LobbyInv'
<1>1. /\ store' \in StoreType
      /\ StoreInv(store')
      /\ store'.byPID = [store.byPID EXCEPT ![p] = NoRoom]
  BY LeavePreserves DEF LobbyInv, TypeOK
<1>2. TypeOK'
  BY <1>1 DEF LobbyInv, TypeOK, ClearTimer
<1>3. IDsIssued' /\ PlayersAreSessions'
  BY DEF LobbyInv, IDsIssued, PlayersAreSessions
<1>4. NoAbandonedMembership'
  BY <1>1 DEF LobbyInv, TypeOK, StoreType, NoAbandonedMembership, RoomOf
<1>5. RegistrationsCurrent'
  BY DEF LobbyInv, TypeOK, RegistrationsCurrent
<1>6. KeepAliveCovers'
  BY LeaveCovers DEF LobbyInv, TypeOK, KeepAliveCovers, ClearTimer
<1> QED
  BY <1>1, <1>2, <1>3, <1>4, <1>5, <1>6 DEF LobbyInv

LEMMA LeaveInv ==
    ASSUME LobbyInv, NEW c \in Conn, Leave(c)
    PROVE  LobbyInv'
BY LeaveStepInv, EnteredFacts DEF Leave

LEMMA NotAliveInv ==
    ASSUME LobbyInv, NEW p \in PlayerID, NotAlive(p)
    PROVE  LobbyInv'
BY LeaveStepInv DEF NotAlive

(* start arms every member of the room it starts.                          *)
LEMMA StartInv ==
    ASSUME LobbyInv, NEW c \in Conn, Start(c)
    PROVE  LobbyInv'
<1> DEFINE p == pid[c]
           r == store.byPID[p]
<1>1. /\ p \in PlayerID /\ r # NoRoom
      /\ store' = StartStore(store, r)
      /\ timers' = timers \cup store.rooms[r].players
      /\ UNCHANGED <<open, hung, pid, dev, lastPlayerID, players, connByID, view>>
  BY EnteredFacts DEF Start, RoomOf, ArmTimers
<1>2. /\ store \in StoreType /\ StoreInv(store)
      /\ r \in Allocated(store) /\ r \in RoomID
      /\ p \in Members(store, r)
  BY <1>1 DEF LobbyInv, TypeOK, StoreType, StoreInv, IndexedAllocated, Members
<1>3. /\ store' \in StoreType
      /\ StoreInv(store')
      /\ store'.byPID = store.byPID
      /\ store'.byID = store.byID
      /\ store'.rooms[r].started
      /\ \A q \in RoomID : q # r => store'.rooms[q] = store.rooms[q]
  BY <1>1, <1>2, StartPreserves
<1>4. store.rooms[r].players \subseteq PlayerID
  BY <1>2 DEF StoreType, RoomType
<1>5. TypeOK'
  BY <1>1, <1>3, <1>4 DEF LobbyInv, TypeOK
<1>6. IDsIssued' /\ PlayersAreSessions' /\ RegistrationsCurrent'
  BY <1>1 DEF LobbyInv, IDsIssued, PlayersAreSessions, RegistrationsCurrent
<1>7. NoAbandonedMembership'
  BY <1>1, <1>3 DEF LobbyInv, NoAbandonedMembership, RoomOf
<1>8. KeepAliveCovers'
  <2> HIDE DEF r, p
  <2> SUFFICES ASSUME NEW q \in store.byID
               PROVE  IF store'.rooms[q].started
                      THEN Members(store', q) \subseteq timers'
                      ELSE store'.rooms[q].host \in timers'
    BY <1>3 DEF KeepAliveCovers, TimersCover
  <2>1. Members(store', q) = Members(store, q)
    BY <1>3 DEF Members
  <2>2. CASE q = r
    <3>1. Members(store, r) \subseteq store.rooms[r].players
      BY <1>2 DEF StoreInv, PlayersAreMembers
    <3> QED
      BY <1>1, <1>3, <2>1, <2>2, <3>1
  <2>3. CASE q # r
    <3>1. q \in RoomID
      BY <1>2 DEF StoreType
    <3>2. IF store.rooms[q].started THEN Members(store, q) \subseteq timers
          ELSE store.rooms[q].host \in timers
      BY DEF LobbyInv, KeepAliveCovers, TimersCover
    <3> QED
      BY <1>1, <1>3, <2>1, <2>3, <3>1, <3>2
  <2> QED BY <2>2, <2>3
<1> QED
  BY <1>3, <1>5, <1>6, <1>7, <1>8 DEF LobbyInv

(* reg_new_room leaves the old room, opens the new one and arms its host.  *)
LEMMA RegNewRoomInv ==
    ASSUME LobbyInv, NEW c \in Conn, NEW m \in Capacities, RegNewRoom(c, m)
    PROVE  LobbyInv'
<1> DEFINE p == pid[c]
           left == LeaveStore(store, p)
           r == left.lastRoomID + 1
<1>1. p \in PlayerID /\ p \in players /\ c \in open
  BY EnteredFacts DEF RegNewRoom
<1>2. /\ store' = RegisterStore(left, p, m)
      /\ timers' = (timers \ {p}) \cup {p}
      /\ store.lastRoomID < MaxRoomID
      /\ UNCHANGED <<open, hung, pid, dev, lastPlayerID, players, connByID, view>>
  BY <1>1 DEF RegNewRoom, ArmTimers, ClearTimer
<1>3. /\ left \in StoreType
      /\ StoreInv(left)
      /\ left.byPID = [store.byPID EXCEPT ![p] = NoRoom]
      /\ left.lastRoomID = store.lastRoomID
  BY <1>1, LeavePreserves DEF LobbyInv, TypeOK
<1>4. TimersCover(left, timers \ {p})
  BY <1>1, LeaveCovers DEF LobbyInv, TypeOK, KeepAliveCovers
<1>5. left.byPID[p] = NoRoom /\ store.byPID \in [PlayerID -> RoomID \cup {NoRoom}]
  BY <1>1, <1>3 DEF LobbyInv, TypeOK, StoreType
<1> HIDE DEF left, p
<1>6. /\ store' \in StoreType
      /\ StoreInv(store')
      /\ store'.byPID = [left.byPID EXCEPT ![p] = r]
      /\ store'.byID = left.byID \cup {r}
      /\ r \in RoomID
      /\ r \notin Allocated(left)
      /\ store'.rooms[r].host = p /\ ~ store'.rooms[r].started
      /\ \A q \in RoomID \ {r} : store'.rooms[q] = left.rooms[q]
  BY <1>1, <1>2, <1>3, <1>5, RegisterPreserves
<1> HIDE DEF r
<1>7. TypeOK'
  BY <1>1, <1>2, <1>6 DEF LobbyInv, TypeOK
<1>8. IDsIssued' /\ PlayersAreSessions' /\ RegistrationsCurrent'
  BY <1>2 DEF LobbyInv, IDsIssued, PlayersAreSessions, RegistrationsCurrent
<1>9. NoAbandonedMembership'
  <2>1. \A y \in PlayerID : y # p => store'.byPID[y] = store.byPID[y]
    BY <1>3, <1>5, <1>6
  <2>2. p = pid[c]
    BY DEF p
  <2> QED
    BY <1>1, <1>2, <2>1, <2>2 DEF LobbyInv, NoAbandonedMembership, RoomOf
<1>10. KeepAliveCovers'
  <2> SUFFICES ASSUME NEW q \in store'.byID
               PROVE  IF store'.rooms[q].started
                      THEN Members(store', q) \subseteq timers'
                      ELSE store'.rooms[q].host \in timers'
    BY DEF KeepAliveCovers, TimersCover
  <2>1. CASE q = r
    BY <1>2, <1>6, <2>1
  <2>2. CASE q # r
    <3>1. q \in left.byID /\ q \in RoomID
      BY <1>3, <1>6, <2>2 DEF StoreType
    <3>2. q # NoRoom
      BY <3>1, BoundsAssumption DEF RoomID, NoRoom
    <3>3. Members(store', q) = Members(left, q)
      <4>1. \A y \in PlayerID : store'.byPID[y] = q <=> left.byPID[y] = q
        BY <1>3, <1>5, <1>6, <2>2, <3>2
      <4> QED BY <4>1 DEF Members
    <3>4. IF left.rooms[q].started THEN Members(left, q) \subseteq timers \ {p}
          ELSE left.rooms[q].host \in timers \ {p}
      BY <1>4, <3>1 DEF TimersCover
    <3> QED
      BY <1>2, <1>6, <2>2, <3>1, <3>3, <3>4
  <2> QED BY <2>1, <2>2
<1> QED
  BY <1>6, <1>7, <1>8, <1>9, <1>10 DEF LobbyInv

(* join_game: the room is judged before the joiner leaves its own.         *)
LEMMA JoinGameInv ==
    ASSUME LobbyInv, NEW c \in Conn, NEW r \in RoomID, JoinGame(c, r)
    PROVE  LobbyInv'
<1> DEFINE p == pid[c]
           left == LeaveStore(store, p)
<1>1. p \in PlayerID /\ p \in players /\ c \in open
  BY EnteredFacts DEF JoinGame
<1>2. /\ store' = JoinStore(left, r, p)
      /\ timers' = timers \ {p}
      /\ r \in store.byID
      /\ ~ store.rooms[r].started
      /\ store.rooms[r].count < store.rooms[r].max
      /\ UNCHANGED <<open, hung, pid, dev, lastPlayerID, players, connByID, view>>
  BY <1>1 DEF JoinGame, Joinable, ClearTimer
<1>3. /\ left \in StoreType
      /\ StoreInv(left)
      /\ left.byPID = [store.byPID EXCEPT ![p] = NoRoom]
      /\ left.lastRoomID = store.lastRoomID
      /\ left.rooms[r].max = store.rooms[r].max
      /\ left.rooms[r].started = store.rooms[r].started
      /\ left.rooms[r].count <= store.rooms[r].count
  BY <1>1, LeavePreserves DEF LobbyInv, TypeOK
<1>4. TimersCover(left, timers \ {p})
  BY <1>1, LeaveCovers DEF LobbyInv, TypeOK, KeepAliveCovers
<1>5. left.byPID[p] = NoRoom /\ store.byPID \in [PlayerID -> RoomID \cup {NoRoom}]
  BY <1>1, <1>3 DEF LobbyInv, TypeOK, StoreType
<1>6. r \in Allocated(left) /\ r # NoRoom
  BY <1>2, <1>3, BoundsAssumption
     DEF LobbyInv, StoreInv, IndexedAllocated, Allocated, RoomID, NoRoom
<1>7. left.rooms[r].count < left.rooms[r].max
  <2>1. /\ left.rooms[r].count \in Count /\ store.rooms[r].count \in Count
        /\ store.rooms[r].max \in Capacities
    BY <1>3 DEF LobbyInv, TypeOK, StoreType, RoomType
  <2>2. left.rooms[r].count \in Int /\ store.rooms[r].count \in Int
    BY <2>1, BoundsAssumption DEF Count
  <2>3. store.rooms[r].max \in Int
    BY <2>1, CapacitiesAssumption, Zenon
  <2> HIDE DEF left
  <2> QED
    BY <1>2, <1>3, <2>2, <2>3
<1>8. ~ left.rooms[r].started
  BY <1>2, <1>3
<1> HIDE DEF left, p
<1>9. /\ store' \in StoreType
      /\ StoreInv(store')
      /\ store'.byPID = [left.byPID EXCEPT ![p] = r]
      /\ store'.byID = left.byID
      /\ \A q \in RoomID : /\ store'.rooms[q].host = left.rooms[q].host
                           /\ store'.rooms[q].started = left.rooms[q].started
  BY <1>1, <1>2, <1>3, <1>5, <1>6, <1>7, <1>8, JoinPreserves
<1>10. TypeOK'
  BY <1>2, <1>9 DEF LobbyInv, TypeOK
<1>11. IDsIssued' /\ PlayersAreSessions' /\ RegistrationsCurrent'
  BY <1>2 DEF LobbyInv, IDsIssued, PlayersAreSessions, RegistrationsCurrent
<1>12. NoAbandonedMembership'
  <2>1. \A y \in PlayerID : y # p => store'.byPID[y] = store.byPID[y]
    BY <1>3, <1>5, <1>9
  <2>2. p = pid[c]
    BY DEF p
  <2> QED
    BY <1>1, <1>2, <2>1, <2>2 DEF LobbyInv, NoAbandonedMembership, RoomOf
<1>13. KeepAliveCovers'
  <2> SUFFICES ASSUME NEW q \in left.byID
               PROVE  IF store'.rooms[q].started
                      THEN Members(store', q) \subseteq timers'
                      ELSE store'.rooms[q].host \in timers'
    BY <1>9 DEF KeepAliveCovers, TimersCover
  <2>1. q \in RoomID
    BY <1>3 DEF StoreType
  <2>2. IF left.rooms[q].started THEN Members(left, q) \subseteq timers \ {p}
        ELSE left.rooms[q].host \in timers \ {p}
    BY <1>4 DEF TimersCover
  <2>3. CASE left.rooms[q].started
    <3>1. q # r
      BY <1>8, <2>3
    <3>2. \A y \in PlayerID : store'.byPID[y] = q => left.byPID[y] = q
      BY <1>3, <1>5, <1>9, <3>1
    <3>3. Members(store', q) \subseteq Members(left, q)
      BY <3>2 DEF Members
    <3> QED
      BY <1>2, <1>9, <2>1, <2>2, <2>3, <3>3
  <2>4. CASE ~ left.rooms[q].started
    BY <1>2, <1>9, <2>1, <2>2, <2>4
  <2> QED BY <2>3, <2>4
<1> QED
  BY <1>9, <1>10, <1>11, <1>12, <1>13 DEF LobbyInv

(* A first try_enter draws a fresh id; a second one keeps the id and       *)
(* leaves the room.                                                        *)
LEMMA TryEnterInv ==
    ASSUME LobbyInv, NEW c \in Conn, NEW d \in DevFlags, TryEnter(c, d)
    PROVE  LobbyInv'
<1>1. c \in open /\ d \in BOOLEAN /\ pid[c] \in PlayerID
  BY LobbyAssumption DEF TryEnter, Responsive, LobbyInv, TypeOK
<1>2. UNCHANGED <<open, hung, view>> /\ dev' = [dev EXCEPT ![c] = d]
  BY DEF TryEnter
<1>3. CASE pid[c] # NoPlayer
  <2> DEFINE p == pid[c]
  <2>1. pid[c] <= lastPlayerID /\ pid[c] \in Int /\ lastPlayerID \in Int
    BY <1>1, BoundsAssumption DEF LobbyInv, IDsIssued, TypeOK, PlayerID
  <2>2. SessionID(c) = p /\ p # lastPlayerID + 1 /\ p \in players
    BY <1>1, <1>3, <2>1 DEF SessionID, LobbyInv, PlayersAreSessions
  <2>3. /\ timers' = timers \ {p}
        /\ store' = LeaveStore(store, p)
        /\ lastPlayerID' = lastPlayerID
        /\ players' = players
        /\ pid' = pid
        /\ connByID' = [connByID EXCEPT ![p] = c]
    BY <1>3, <2>2 DEF TryEnter, ClearTimer, LobbyInv, TypeOK
  <2>4. /\ store' \in StoreType
        /\ StoreInv(store')
        /\ store'.byPID = [store.byPID EXCEPT ![p] = NoRoom]
    BY <1>1, <2>3, LeavePreserves DEF LobbyInv, TypeOK
  <2>5. TypeOK'
    BY <1>1, <1>2, <2>3, <2>4 DEF LobbyInv, TypeOK
  <2>6. IDsIssued' /\ PlayersAreSessions'
    BY <1>2, <2>3 DEF LobbyInv, IDsIssued, PlayersAreSessions
  <2>7. NoAbandonedMembership'
    BY <1>1, <1>2, <2>3, <2>4
       DEF LobbyInv, TypeOK, StoreType, NoAbandonedMembership, RoomOf
  <2>8. RegistrationsCurrent'
    BY <1>1, <1>2, <1>3, <2>3 DEF LobbyInv, TypeOK, RegistrationsCurrent
  <2>9. KeepAliveCovers'
    BY <1>1, <2>3, LeaveCovers DEF LobbyInv, TypeOK, KeepAliveCovers
  <2> QED
    BY <2>4, <2>5, <2>6, <2>7, <2>8, <2>9 DEF LobbyInv
<1>4. CASE pid[c] = NoPlayer
  <2> DEFINE id == lastPlayerID + 1
  <2>1. /\ id \in PlayerID
        /\ timers' = timers /\ store' = store
        /\ lastPlayerID' = id
        /\ players' = players \cup {id}
        /\ pid' = [pid EXCEPT ![c] = id]
        /\ connByID' = [connByID EXCEPT ![id] = c]
    BY <1>4 DEF TryEnter, SessionID
  <2>2. /\ id # NoPlayer
        /\ \A x \in Conn : pid[x] \in Int /\ pid[x] <= lastPlayerID /\ pid[x] # id
        /\ lastPlayerID \in Int
    BY BoundsAssumption DEF LobbyInv, IDsIssued, TypeOK, PlayerID, NoPlayer
  <2>3. TypeOK'
    BY <1>1, <1>2, <2>1 DEF LobbyInv, TypeOK
  <2>4. \A x \in Conn : pid'[x] = IF x = c THEN id ELSE pid[x]
    BY <2>1 DEF LobbyInv, TypeOK
  <2>5. IDsIssued'
    BY <1>1, <1>2, <2>1, <2>2, <2>4 DEF LobbyInv, IDsIssued
  <2> HIDE DEF id
  <2>6. NoAbandonedMembership'
    <3> SUFFICES ASSUME NEW y \in PlayerID, store.byPID[y] # NoRoom
                 PROVE  y \in players' /\ \E x \in open : pid'[x] = y
      BY <1>2, <2>1 DEF NoAbandonedMembership, RoomOf
    <3>1. y \in players /\ y # NoPlayer
      BY DEF LobbyInv, NoAbandonedMembership, RoomOf, PlayersAreSessions
    <3>2. PICK x \in open : pid[x] = y
      BY DEF LobbyInv, NoAbandonedMembership, RoomOf
    <3>3. x # c /\ x \in Conn
      BY <1>4, <3>1, <3>2 DEF LobbyInv, TypeOK
    <3> QED
      BY <2>1, <2>4, <3>1, <3>2, <3>3
  <2>7. PlayersAreSessions'
    <3>1. \A x, y \in Conn : pid'[x] # NoPlayer /\ pid'[x] = pid'[y] => x = y
      BY <2>2, <2>4 DEF LobbyInv, PlayersAreSessions
    <3>2. players' = {pid'[x] : x \in open'} \ {NoPlayer}
      <4>1. players = {pid[x] : x \in open} \ {NoPlayer} /\ open \subseteq Conn
        BY DEF LobbyInv, PlayersAreSessions, TypeOK
      <4>2. ASSUME NEW z PROVE z \in players' <=> z \in {pid'[x] : x \in open} \ {NoPlayer}
        BY <1>1, <1>4, <2>1, <2>2, <2>4, <4>1
      <4> QED
        BY <1>2, <4>2
    <3> QED
      BY <3>1, <3>2 DEF PlayersAreSessions
  <2>8. RegistrationsCurrent'
    <3> SUFFICES ASSUME NEW y \in PlayerID, connByID'[y] # NoConn
                 PROVE  y # NoPlayer /\ connByID'[y] \in open /\ pid'[connByID'[y]] = y
      BY <1>2 DEF RegistrationsCurrent
    <3>1. CASE y = id
      BY <1>1, <2>1, <2>2, <2>4, <3>1 DEF LobbyInv, TypeOK
    <3>2. CASE y # id
      <4>1. connByID'[y] = connByID[y]
        BY <2>1, <3>2 DEF LobbyInv, TypeOK
      <4>2. /\ y # NoPlayer /\ connByID[y] \in open /\ pid[connByID[y]] = y
            /\ connByID[y] \in Conn
        BY <4>1 DEF LobbyInv, TypeOK, RegistrationsCurrent
      <4> QED
        BY <1>4, <2>4, <4>1, <4>2
    <3> QED BY <3>1, <3>2
  <2>9. KeepAliveCovers' /\ StoreInv(store)'
    BY <2>1 DEF LobbyInv, KeepAliveCovers
  <2> QED
    BY <2>3, <2>5, <2>6, <2>7, <2>8, <2>9 DEF LobbyInv
<1> QED BY <1>3, <1>4

(* OnDisconnect gives back everything the session held.                    *)
LEMMA DisconnectInv ==
    ASSUME LobbyInv, NEW c \in Conn, Disconnect(c)
    PROVE  LobbyInv'
<1> DEFINE p == pid[c]
<1>1. /\ c \in open /\ p \in PlayerID /\ NoPlayer \in PlayerID
      /\ open' = open \ {c} /\ hung' = hung \ {c}
      /\ pid' = [pid EXCEPT ![c] = NoPlayer]
      /\ dev' = [dev EXCEPT ![c] = FALSE]
      /\ view' = [view EXCEPT ![c] = {}]
      /\ lastPlayerID' = lastPlayerID
  BY BoundsAssumption DEF Disconnect, LobbyInv, TypeOK, PlayerID, NoPlayer
<1>2. \A x \in Conn : pid'[x] = IF x = c THEN NoPlayer ELSE pid[x]
  BY <1>1 DEF LobbyInv, TypeOK
<1>3. /\ players' = players \ {p}
      /\ store' = LeaveStore(store, p)
      /\ timers' = timers \ {p} \/ (p = NoPlayer /\ timers' = timers)
      /\ connByID' = [connByID EXCEPT ![p] = NoConn]
  <2>1. CASE p # NoPlayer
    BY <2>1 DEF Disconnect, DisconnectStore, ClearTimer
  <2>2. CASE p = NoPlayer
    <3>1. LeaveStore(store, NoPlayer) = store
      BY NoPlayerNoRoom DEF LeaveStore
    <3>2. NoPlayer \notin players
      BY DEF LobbyInv, PlayersAreSessions
    <3>3. connByID[NoPlayer] = NoConn
      BY <1>1 DEF LobbyInv, TypeOK, RegistrationsCurrent
    <3>4. connByID = [connByID EXCEPT ![NoPlayer] = NoConn]
      BY <1>1, <3>3 DEF LobbyInv, TypeOK
    <3> QED
      BY <2>2, <3>1, <3>2, <3>4 DEF Disconnect
  <2> QED BY <2>1, <2>2
<1>4. /\ store' \in StoreType
      /\ StoreInv(store')
      /\ store'.byPID = [store.byPID EXCEPT ![p] = NoRoom]
  BY <1>1, <1>3, LeavePreserves DEF LobbyInv, TypeOK
<1>5. KeepAliveCovers'
  <2>1. TimersCover(store', timers \ {p})
    BY <1>1, <1>3, LeaveCovers DEF LobbyInv, TypeOK, KeepAliveCovers
  <2>2. timers \ {p} \subseteq timers'
    BY <1>3
  <2> QED
    BY <2>1, <2>2 DEF KeepAliveCovers, TimersCover
<1>6. TypeOK'
  BY <1>1, <1>3, <1>4 DEF LobbyInv, TypeOK
<1>7. IDsIssued'
  BY <1>1, <1>2, BoundsAssumption
     DEF LobbyInv, IDsIssued, TypeOK, PlayerID, NoPlayer
<1> HIDE DEF p
<1>8. NoAbandonedMembership'
  <2> SUFFICES ASSUME NEW y \in PlayerID, store'.byPID[y] # NoRoom
               PROVE  y \in players' /\ \E x \in open' : pid'[x] = y
    BY DEF NoAbandonedMembership, RoomOf
  <2>1. y # p /\ store.byPID[y] # NoRoom
    BY <1>1, <1>4 DEF LobbyInv, TypeOK, StoreType
  <2>2. y \in players
    BY <2>1 DEF LobbyInv, NoAbandonedMembership, RoomOf
  <2>3. PICK x \in open : pid[x] = y
    BY <2>1 DEF LobbyInv, NoAbandonedMembership, RoomOf
  <2>4. x # c /\ x \in Conn
    BY <2>1, <2>3 DEF LobbyInv, TypeOK, p
  <2> QED
    BY <1>1, <1>2, <1>3, <2>1, <2>2, <2>3, <2>4
<1>9. PlayersAreSessions'
  <2>1. \A x, y \in Conn : pid'[x] # NoPlayer /\ pid'[x] = pid'[y] => x = y
    BY <1>2 DEF LobbyInv, PlayersAreSessions
  <2>2. /\ players = {pid[x] : x \in open} \ {NoPlayer} /\ open \subseteq Conn
        /\ \A x, y \in Conn : pid[x] # NoPlayer /\ pid[x] = pid[y] => x = y
    BY DEF LobbyInv, PlayersAreSessions, TypeOK
  <2>3. ASSUME NEW z
        PROVE  z \in players' <=> z \in {pid'[x] : x \in open'} \ {NoPlayer}
    BY <1>1, <1>2, <1>3, <2>2 DEF p
  <2>4. players' = {pid'[x] : x \in open'} \ {NoPlayer}
    BY <2>3
  <2> QED
    BY <2>1, <2>4 DEF PlayersAreSessions
<1>10. RegistrationsCurrent'
  <2> SUFFICES ASSUME NEW y \in PlayerID, connByID'[y] # NoConn
               PROVE  y # NoPlayer /\ connByID'[y] \in open' /\ pid'[connByID'[y]] = y
    BY DEF RegistrationsCurrent
  <2>1. y # p /\ connByID'[y] = connByID[y]
    BY <1>1, <1>3 DEF LobbyInv, TypeOK
  <2>2. /\ y # NoPlayer /\ connByID[y] \in open /\ pid[connByID[y]] = y
        /\ connByID[y] \in Conn
    BY <2>1 DEF LobbyInv, TypeOK, RegistrationsCurrent
  <2>3. connByID[y] # c
    BY <2>1, <2>2 DEF p
  <2> QED
    BY <1>1, <1>2, <2>1, <2>2, <2>3
<1> QED
  BY <1>4, <1>5, <1>6, <1>7, <1>8, <1>9, <1>10 DEF LobbyInv

----------------------------------------------------------------------------
(* Every step preserves the invariant.                                     *)
LEMMA NextInv == LobbyInv /\ [Next]_vars => LobbyInv'
<1> SUFFICES ASSUME LobbyInv, [Next]_vars PROVE LobbyInv'
  OBVIOUS
<1>1. CASE UNCHANGED vars
  BY <1>1 DEF vars, LobbyInv, TypeOK, IDsIssued, NoAbandonedMembership, RoomOf,
              PlayersAreSessions, RegistrationsCurrent, KeepAliveCovers
<1>2. ASSUME NEW p \in PlayerID, NotAlive(p) PROVE LobbyInv'
  BY <1>2, NotAliveInv
<1>3. ASSUME NEW c \in Conn, ConnNext(c) PROVE LobbyInv'
  <2>1. CASE Connect(c)
    BY <2>1, ConnectInv
  <2>2. CASE Hang(c) \/ GetTbl(c)
    BY <2>2, EnvironmentInv
  <2>3. ASSUME NEW d \in DevFlags, TryEnterRefused(c, d) PROVE LobbyInv'
    BY <2>3, EnvironmentInv
  <2>4. ASSUME NEW d \in DevFlags, TryEnter(c, d) PROVE LobbyInv'
    BY <2>4, TryEnterInv
  <2>5. ASSUME NEW m \in Capacities, RegNewRoom(c, m) PROVE LobbyInv'
    BY <2>5, RegNewRoomInv
  <2>6. ASSUME NEW r \in RoomID, JoinGame(c, r) PROVE LobbyInv'
    BY <2>6, JoinGameInv
  <2>7. CASE Leave(c)
    BY <2>7, LeaveInv
  <2>8. CASE Start(c)
    BY <2>8, StartInv
  <2>9. CASE Alive(c)
    BY <2>9, AliveInv
  <2>10. CASE Disconnect(c)
    BY <2>10, DisconnectInv
  <2> QED
    BY <1>3, <2>1, <2>2, <2>3, <2>4, <2>5, <2>6, <2>7, <2>8, <2>9, <2>10
       DEF ConnNext
<1> QED
  BY <1>1, <1>2, <1>3 DEF Next

(* LobbyInv holds in every state of every behaviour of the lobby.          *)
THEOREM LobbyInvariant == Spec => []LobbyInv
BY InitInv, NextInv, PTL DEF Spec

(* Type correctness: counters, maps and tables stay within their types; in *)
(* particular no PlayersCount ever becomes negative.                       *)
THEOREM TypeCorrect == Spec => []TypeOK
<1>1. LobbyInv => TypeOK
  BY DEF LobbyInv
<1> QED
  BY <1>1, LobbyInvariant, PTL

(* The counter, the player map, the host, the checksum index and the       *)
(* capacity of rooms: the registry as Join, Leave, MarkStarted and         *)
(* RegisterNew leave it.                                                   *)
THEOREM RegistryConsistent == Spec => []RegistrySound
<1>1. LobbyInv => RegistrySound
  BY DEF LobbyInv, StoreInv, RegistrySound, PlayersCounted, PlayerMapIsMembership,
         ListedRoomsLive, ChecksumIndexExact, RoomsWithinCapacity
<1> QED
  BY <1>1, LobbyInvariant, PTL

(* OnDisconnect and the timers leave no membership, player record or       *)
(* registration behind a closed connection.                                *)
THEOREM NothingAbandoned == Spec => []SessionsSound
<1>1. LobbyInv => SessionsSound
  BY DEF LobbyInv, SessionsSound
<1> QED
  BY <1>1, LobbyInvariant, PTL

(* Every open room's host and every player of a started game has an armed  *)
(* keep-alive timer.                                                       *)
THEOREM KeepAlive == Spec => []KeepAliveCovers
<1>1. LobbyInv => KeepAliveCovers
  BY DEF LobbyInv
<1> QED
  BY <1>1, LobbyInvariant, PTL

(* An incremental GETTBL poll gives the client the current row of every    *)
(* room it may see.                                                        *)
THEOREM TableComplete == Spec => []GetTblComplete
<1>1. LobbyInv => GetTblComplete
  <2> SUFFICES ASSUME LobbyInv, NEW c \in Viewers, NEW r \in Visible(c)
               PROVE  store.rooms[r].row \in Polled(c)
    BY DEF GetTblComplete, VisibleRows
  <2> DEFINE w == store.rooms[r].row
             s == store.rooms[r].ctl
  <2>1. /\ r \in store.byID /\ ~ Hidden(c, r) /\ r \in RoomID
        /\ w \in RowType /\ s \in Sums
        /\ view[c] \subseteq RowType
    BY LobbyAssumption DEF Visible, LobbyInv, TypeOK, StoreType, RoomType
  <2>2. s = ControlSum(w) /\ store.bySum[s] = r /\ r # NoRoom
    BY <2>1, BoundsAssumption
       DEF LobbyInv, StoreInv, RowsSummed, SumIndexExact, RoomID, NoRoom
  <2> HIDE DEF w, s
  <2>3. CASE s \in Requested(c)
    <3>1. PICK v \in view[c] : ControlSum(v) = s
      BY <2>3 DEF Requested
    <3>2. v = w
      BY <2>1, <2>2, <3>1, ControlSumAssumption
    <3>3. s \notin Dtbl(c)
      BY <2>1, <2>2 DEF Dtbl
    <3> QED
      BY <3>1, <3>2, <3>3 DEF Polled, ApplyTables, w
  <2>4. CASE s \notin Requested(c)
    <3>1. w \in Tbl(c)
      BY <2>1, <2>4 DEF Tbl, w, s
    <3> QED
      BY <3>1 DEF Polled, ApplyTables, w
  <2> QED
    BY <2>3, <2>4
<1> QED
  BY <1>1, LobbyInvariant, PTL

----------------------------------------------------------------------------
(* How a registry may evolve: no room is listed again, none returns from   *)
(* the started state, none changes its host, and nobody enters a started   *)
(* one.                                                                    *)
Evolves(st, st2) ==
    \A r \in Allocated(st) :
        /\ r \notin st.byID => r \notin st2.byID
        /\ st.rooms[r].started => st2.rooms[r].started
        /\ st2.rooms[r].host = st.rooms[r].host
        /\ st.rooms[r].started => Members(st2, r) \subseteq Members(st, r)

(* Registering a room is an evolution: it only adds a room with a new id.  *)
LEMMA RegisterEvolves ==
    ASSUME NEW st \in StoreType, StoreInv(st), NEW h \in PlayerID,
           st.byPID[h] = NoRoom, NEW m \in Capacities,
           st.lastRoomID < MaxRoomID
    PROVE  Evolves(st, RegisterStore(st, h, m))
<1> DEFINE st2 == RegisterStore(st, h, m)
           n == st.lastRoomID + 1
<1>1. /\ st2.byPID = [st.byPID EXCEPT ![h] = n]
      /\ st2.byID = st.byID \cup {n}
      /\ n \notin Allocated(st)
      /\ \A q \in RoomID \ {n} : st2.rooms[q] = st.rooms[q]
  BY RegisterPreserves
<1>2. Allocated(st) \subseteq RoomID
  BY BoundsAssumption DEF Allocated, StoreType, RoomID
<1> HIDE DEF st2, n
<1>3. ASSUME NEW r \in Allocated(st)
      PROVE  Members(st2, r) \subseteq Members(st, r)
  BY <1>1 DEF Members, StoreType
<1>4. Evolves(st, st2)
  BY <1>1, <1>2, <1>3 DEF Evolves
<1> QED
  BY <1>4 DEF st2

(* Leaving is an evolution.                                                *)
LEMMA LeaveEvolves ==
    ASSUME NEW st \in StoreType, StoreInv(st), NEW p \in PlayerID
    PROVE  Evolves(st, LeaveStore(st, p))
<1> DEFINE st2 == LeaveStore(st, p)
<1>1. /\ st2.byPID = [st.byPID EXCEPT ![p] = NoRoom]
      /\ st2.byID \subseteq st.byID
      /\ \A q \in RoomID : /\ st2.rooms[q].host = st.rooms[q].host
                           /\ st2.rooms[q].started = st.rooms[q].started
  BY LeavePreserves
<1>2. Allocated(st) \subseteq RoomID /\ NoRoom \notin RoomID
  BY BoundsAssumption DEF StoreType, Allocated, RoomID, NoRoom
<1> HIDE DEF st2
<1>3. ASSUME NEW r \in RoomID PROVE Members(st2, r) \subseteq Members(st, r)
  BY <1>1, <1>2 DEF Members, StoreType
<1> QED
  BY <1>1, <1>2, <1>3 DEF Evolves, st2

(* Every step of the lobby is an evolution of its registry.                *)
LEMMA StepEvolves ==
    ASSUME LobbyInv, [Next]_vars
    PROVE  Evolves(store, store')
<1>1. /\ store \in StoreType /\ StoreInv(store)
      /\ Allocated(store) \subseteq RoomID /\ NoRoom \notin RoomID
  BY BoundsAssumption
     DEF LobbyInv, TypeOK, StoreType, Allocated, RoomID, NoRoom
<1>2. ASSUME store' = store PROVE Evolves(store, store')
  BY <1>2 DEF Evolves
<1>3. ASSUME NEW p \in PlayerID, store' = LeaveStore(store, p)
      PROVE  Evolves(store, store')
  BY <1>1, <1>3, LeaveEvolves
<1>4. ASSUME NEW c \in Conn, Start(c) PROVE Evolves(store, store')
  <2> DEFINE r == store.byPID[pid[c]]
  <2>1. pid[c] \in PlayerID /\ r # NoRoom /\ store' = StartStore(store, r)
    BY <1>4, EnteredFacts DEF Start, RoomOf
  <2>2. r \in Allocated(store) /\ Members(store, r) # {}
    BY <1>1, <2>1 DEF StoreInv, IndexedAllocated, Members
  <2> HIDE DEF r
  <2>3. /\ store'.byPID = store.byPID
        /\ store'.byID = store.byID
        /\ store'.rooms[r].started
        /\ \A q \in RoomID : /\ store'.rooms[q].host = store.rooms[q].host
                             /\ q # r => store'.rooms[q] = store.rooms[q]
    BY <1>1, <2>1, <2>2, StartPreserves
  <2> QED
    BY <1>1, <2>3 DEF Evolves, Members
<1>5. ASSUME NEW c \in Conn, NEW m \in Capacities, RegNewRoom(c, m)
      PROVE  Evolves(store, store')
  <2> DEFINE p == pid[c]
             left == LeaveStore(store, p)
  <2>1. p \in PlayerID /\ p \in players
    BY <1>5, EnteredFacts DEF RegNewRoom
  <2>2. /\ store' = RegisterStore(left, p, m) /\ store.lastRoomID < MaxRoomID
    BY <1>5, <2>1 DEF RegNewRoom
  <2>3. /\ left \in StoreType /\ StoreInv(left)
        /\ left.byPID = [store.byPID EXCEPT ![p] = NoRoom]
        /\ left.lastRoomID = store.lastRoomID
    BY <1>1, <2>1, LeavePreserves
  <2>4. Evolves(store, left)
    BY <1>1, <2>1, LeaveEvolves
  <2>5. left.byPID[p] = NoRoom /\ Allocated(left) = Allocated(store)
    BY <1>1, <2>1, <2>3 DEF StoreType, Allocated
  <2> HIDE DEF left, p
  <2>6. Evolves(left, store')
    <3>1. m \in Capacities /\ left.lastRoomID < MaxRoomID
      BY <1>5, <2>2, <2>3
    <3> QED
      BY <3>1, <2>1, <2>2, <2>3, <2>5, RegisterEvolves
  <2> QED
    BY <2>4, <2>5, <2>6 DEF Evolves
<1>6. ASSUME NEW c \in Conn, NEW r \in RoomID, JoinGame(c, r)
      PROVE  Evolves(store, store')
  <2> DEFINE p == pid[c]
             left == LeaveStore(store, p)
  <2>1. p \in PlayerID /\ p \in players
    BY <1>6, EnteredFacts DEF JoinGame
  <2>2. /\ store' = JoinStore(left, r, p)
        /\ r \in store.byID /\ ~ store.rooms[r].started
    BY <1>6, <2>1 DEF JoinGame, Joinable
  <2>3. /\ left \in StoreType
        /\ left.byPID = [store.byPID EXCEPT ![p] = NoRoom]
        /\ left.rooms[r].started = store.rooms[r].started
        /\ left.lastRoomID = store.lastRoomID
    BY <1>1, <2>1, LeavePreserves
  <2>4. Evolves(store, left)
    BY <1>1, <2>1, LeaveEvolves
  <2> HIDE DEF left, p
  <2>5. /\ store'.byPID = [left.byPID EXCEPT ![p] = r]
        /\ store'.byID = left.byID
        /\ store'.rooms = [left.rooms EXCEPT ![r] = RoomAfterJoin(left.rooms[r], p)]
    BY <2>2 DEF JoinStore
  <2>6. /\ RoomAfterJoin(left.rooms[r], p).host = left.rooms[r].host
        /\ RoomAfterJoin(left.rooms[r], p).started = left.rooms[r].started
    <3>1. left.rooms[r] \in RoomType
      BY <2>3 DEF StoreType
    <3> QED
      BY <3>1 DEF RoomAfterJoin, WithRow, RoomType
  <2>7. \A q \in RoomID : /\ store'.rooms[q].host = left.rooms[q].host
                          /\ store'.rooms[q].started = left.rooms[q].started
    BY <2>3, <2>5, <2>6 DEF StoreType
  <2>8. ASSUME NEW q \in RoomID, q # r
        PROVE  Members(store', q) \subseteq Members(left, q)
    BY <2>3, <2>5, <2>8 DEF Members, StoreType
  <2> QED
    BY <1>1, <2>2, <2>4, <2>5, <2>7, <2>8 DEF Evolves
<1>7. ASSUME NEW c \in Conn, ConnNext(c) PROVE Evolves(store, store')
  <2>1. pid[c] \in PlayerID
    BY DEF LobbyInv, TypeOK
  <2>2. CASE \/ Connect(c) \/ Hang(c) \/ Alive(c) \/ GetTbl(c)
             \/ \E d \in DevFlags : TryEnterRefused(c, d)
    BY <1>2, <2>2 DEF Connect, Hang, Alive, GetTbl, TryEnterRefused
  <2>3. CASE Leave(c) \/ \E d \in DevFlags : TryEnter(c, d)
    BY <1>2, <1>3, <2>1, <2>3 DEF Leave, TryEnter
  <2>4. CASE Disconnect(c)
    BY <1>2, <1>3, <2>1, <2>4 DEF Disconnect, DisconnectStore
  <2> QED
    BY <1>4, <1>5, <1>6, <1>7, <2>2, <2>3, <2>4 DEF ConnNext
<1>8. ASSUME NEW p \in PlayerID, NotAlive(p) PROVE Evolves(store, store')
  BY <1>3, <1>8 DEF NotAlive
<1>9. CASE UNCHANGED vars
  BY <1>2, <1>9 DEF vars
<1> QED
  BY <1>7, <1>8, <1>9 DEF Next

(* No step lists a closed room again, takes a game back from the started   *)
(* state or changes the host of a room.                                    *)
THEOREM Lifecycle == Spec => RoomLifecycle
<1>1. LobbyInv /\ [Next]_vars =>
        [\A r \in Allocated(store) :
            /\ r \notin store.byID => r \notin store'.byID
            /\ store.rooms[r].started => store'.rooms[r].started
            /\ store'.rooms[r].host = store.rooms[r].host]_vars
  BY StepEvolves DEF Evolves
<1> QED
  BY <1>1, LobbyInvariant, PTL DEF Spec, RoomLifecycle

(* No step adds a player to a game that has started.                       *)
THEOREM LateJoin == Spec => NoLateJoin
<1>1. LobbyInv /\ [Next]_vars =>
        [\A r \in Allocated(store) : store.rooms[r].started =>
            Members(store', r) \subseteq Members(store, r)]_vars
  BY StepEvolves DEF Evolves
<1> QED
  BY <1>1, LobbyInvariant, PTL DEF Spec, NoLateJoin

----------------------------------------------------------------------------
(* The refinement.  LobbyInv supplies what the abstraction forgets: the    *)
(* counter that Leave and join_game decide by is the number of members.    *)

(* A counter that reaches zero is the departure of the last member.        *)
LEMMA LastOne ==
    ASSUME NEW S, IsFiniteSet(S), NEW p \in S
    PROVE  Cardinality(S) - 1 <= 0 <=> S = {p}
<1>1. /\ IsFiniteSet(S \ {p})
      /\ Cardinality(S \ {p}) = Cardinality(S) - 1
  BY FS_RemoveElement
<1>2. Cardinality(S \ {p}) \in Nat /\ Cardinality(S) \in Nat
  BY <1>1, FS_CardinalityType
<1>3. Cardinality(S \ {p}) = 0 <=> S \ {p} = {}
  BY <1>1, FS_EmptySet
<1>4. Cardinality(S) - 1 <= 0 <=> Cardinality(S \ {p}) = 0
  BY <1>1, <1>2
<1> QED
  BY <1>3, <1>4

(* The rooms listed after a leave, in terms of the membership.             *)
RemainingRooms(st, p) ==
    LET r == st.byPID[p] IN
    IF /\ r # NoRoom
       /\ \/ Members(st, r) = {p}
          \/ ~ st.rooms[r].started /\ st.rooms[r].host = p
    THEN st.byID \ {r} ELSE st.byID

(* Leave closes exactly the rooms the abstract lobby closes.               *)
LEMMA LeaveLists ==
    ASSUME NEW st \in StoreType, StoreInv(st), NEW p \in PlayerID
    PROVE  LeaveStore(st, p).byID = RemainingRooms(st, p)
<1> DEFINE r == st.byPID[p]
           room == st.rooms[r]
           new == RoomAfterLeave(room, p)
<1>1. CASE r = NoRoom
  BY <1>1 DEF LeaveStore, RemainingRooms
<1>2. CASE r # NoRoom
  <2>1. r \in Allocated(st) /\ room \in RoomType /\ p \in Members(st, r)
    BY <1>2 DEF StoreType, StoreInv, IndexedAllocated, Members
  <2>2. room.count = Cardinality(Members(st, r))
    BY <2>1 DEF StoreInv, CountIsMembers
  <2>3. IsFiniteSet(Members(st, r)) /\ room.count > 0
    BY <2>1, <2>2, MembersFinite
  <2>4. new.count = room.count - 1
    BY <2>1, <2>3, LeaveFields
  <2>5. new.count <= 0 <=> Members(st, r) = {p}
    BY <2>1, <2>2, <2>3, <2>4, LastOne
  <2>6. ShouldDelete(room, p, new.count)
            <=> \/ Members(st, r) = {p}
                \/ ~ room.started /\ room.host = p
    BY <2>1, <2>5 DEF ShouldDelete, RoomType
  <2>7. LeaveStore(st, p).byID
            = IF ShouldDelete(room, p, new.count) THEN st.byID \ {r} ELSE st.byID
    BY <1>2 DEF LeaveStore
  <2> QED
    BY <1>2, <2>6, <2>7 DEF RemainingRooms
<1> QED
  BY <1>1, <1>2

(* The part of a registry that the abstract lobby sees of a room.          *)
SameRooms(st, st2) ==
    \A q \in RoomID : /\ st2.rooms[q].host = st.rooms[q].host
                      /\ st2.rooms[q].max = st.rooms[q].max
                      /\ st2.rooms[q].started = st.rooms[q].started

LEMMA SameRoomsMapped ==
    ASSUME SameRooms(store, store')
    PROVE  /\ {r \in RoomID : store'.rooms[r].started}
                = {r \in RoomID : store.rooms[r].started}
           /\ [r \in RoomID |-> store'.rooms[r].host]
                = [r \in RoomID |-> store.rooms[r].host]
           /\ [r \in RoomID |-> store'.rooms[r].max]
                = [r \in RoomID |-> store.rooms[r].max]
BY DEF SameRooms

(* The abstract operators under the refinement mapping.                    *)
LEMMA MappedOperators ==
    ASSUME LobbyInv, NEW p \in PlayerID
    PROVE  /\ \A r : Abs!In(r) = Members(store, r)
           /\ Abs!Remaining(p) = RemainingRooms(store, p)
<1>1. \A r : Abs!In(r) = Members(store, r)
  BY DEF Abs!In, Members
<1>2. store.byPID[p] # NoRoom => store.byPID[p] \in RoomID
  BY DEF LobbyInv, TypeOK, StoreType
<1>3. Abs!Remaining(p) = RemainingRooms(store, p)
  BY <1>1, <1>2 DEF Abs!Remaining, Abs!Closes, RemainingRooms
<1> QED
  BY <1>1, <1>3

(* Steps that leave the registry alone.                                    *)
LEMMA StutterSteps ==
    ASSUME UNCHANGED store
    PROVE  UNCHANGED Abs!avars
BY DEF Abs!avars

(* leave, a timer that fires, a disconnect and a second try_enter.         *)
LEMMA LeaveSteps ==
    ASSUME LobbyInv, NEW p \in PlayerID, store' = LeaveStore(store, p)
    PROVE  [Abs!Next]_(Abs!avars)
<1>1. store \in StoreType /\ StoreInv(store)
  BY DEF LobbyInv, TypeOK
<1>2. CASE store.byPID[p] = NoRoom
  BY <1>2, StutterSteps DEF LeaveStore
<1>3. CASE store.byPID[p] # NoRoom
  <2>1. /\ store'.byPID = [store.byPID EXCEPT ![p] = NoRoom]
        /\ store'.lastRoomID = store.lastRoomID
        /\ SameRooms(store, store')
    BY <1>1, LeavePreserves DEF SameRooms
  <2>2. store'.byID = Abs!Remaining(p)
    BY <1>1, LeaveLists, MappedOperators
  <2>3. Abs!Leave(p)
    BY <1>3, <2>1, <2>2, SameRoomsMapped DEF Abs!Leave
  <2> QED
    BY <2>3 DEF Abs!Next
<1> QED
  BY <1>2, <1>3

(* join_game.                                                              *)
LEMMA JoinSteps ==
    ASSUME LobbyInv, NEW c \in Conn, NEW r \in RoomID, JoinGame(c, r)
    PROVE  [Abs!Next]_(Abs!avars)
<1> DEFINE p == pid[c]
           left == LeaveStore(store, p)
<1>1. /\ store \in StoreType /\ StoreInv(store)
      /\ p \in PlayerID /\ p \in players
      /\ store' = JoinStore(left, r, p)
  BY EnteredFacts DEF LobbyInv, TypeOK, JoinGame
<1>2. /\ r \in store.byID /\ ~ store.rooms[r].started
      /\ store.rooms[r].count < store.rooms[r].max
      /\ r \in Allocated(store)
  BY DEF JoinGame, Joinable, LobbyInv, StoreInv, IndexedAllocated
<1>3. /\ left \in StoreType
      /\ left.byPID = [store.byPID EXCEPT ![p] = NoRoom]
      /\ left.byID = RemainingRooms(store, p)
      /\ left.lastRoomID = store.lastRoomID
      /\ SameRooms(store, left)
  BY <1>1, LeavePreserves, LeaveLists DEF SameRooms
<1> HIDE DEF left
<1>4. /\ store'.byPID = [left.byPID EXCEPT ![p] = r]
      /\ store'.byID = left.byID
      /\ store'.lastRoomID = left.lastRoomID
      /\ store'.rooms = [left.rooms EXCEPT ![r] = RoomAfterJoin(left.rooms[r], p)]
  BY <1>1 DEF JoinStore
<1>5. /\ RoomAfterJoin(left.rooms[r], p).host = left.rooms[r].host
      /\ RoomAfterJoin(left.rooms[r], p).max = left.rooms[r].max
      /\ RoomAfterJoin(left.rooms[r], p).started = left.rooms[r].started
  BY <1>3 DEF RoomAfterJoin, WithRow, StoreType, RoomType
<1>6. SameRooms(store, store')
  BY <1>3, <1>4, <1>5 DEF SameRooms, StoreType
<1>7. store'.byPID = [store.byPID EXCEPT ![p] = r]
  BY <1>1, <1>3, <1>4 DEF StoreType
<1>8. store'.byID = Abs!Remaining(p)
  BY <1>1, <1>3, <1>4, MappedOperators
<1>9. Cardinality(Abs!In(r)) = store.rooms[r].count
  BY <1>1, <1>2, MappedOperators DEF StoreInv, CountIsMembers
<1>10. Abs!Cardinality(Abs!In(r)) = Cardinality(Abs!In(r))
  BY DEF Abs!Cardinality, Cardinality
<1>11. Abs!Join(p, r)
  BY <1>2, <1>3, <1>4, <1>6, <1>7, <1>8, <1>9, <1>10, SameRoomsMapped DEF Abs!Join
<1> QED
  BY <1>1, <1>11 DEF Abs!Next, Abs!Rooms, RoomID

(* reg_new_room.                                                           *)
LEMMA CreateSteps ==
    ASSUME LobbyInv, NEW c \in Conn, NEW m \in Capacities, RegNewRoom(c, m)
    PROVE  [Abs!Next]_(Abs!avars)
<1> DEFINE p == pid[c]
           left == LeaveStore(store, p)
           r == store.lastRoomID + 1
<1>1. /\ store \in StoreType /\ StoreInv(store)
      /\ p \in PlayerID /\ p \in players
      /\ store' = RegisterStore(left, p, m)
      /\ store.lastRoomID < MaxRoomID
  BY EnteredFacts DEF LobbyInv, TypeOK, RegNewRoom
<1>2. /\ left \in StoreType
      /\ left.byPID = [store.byPID EXCEPT ![p] = NoRoom]
      /\ left.byID = RemainingRooms(store, p)
      /\ left.lastRoomID = store.lastRoomID
      /\ SameRooms(store, left)
  BY <1>1, LeavePreserves, LeaveLists DEF SameRooms
<1> HIDE DEF left
<1>3. /\ store'.byPID = [left.byPID EXCEPT ![p] = r]
      /\ store'.byID = left.byID \cup {r}
      /\ store'.lastRoomID = r
      /\ store'.rooms = [left.rooms EXCEPT ![r] = NewRoom(r, p, m)]
  BY <1>1, <1>2 DEF RegisterStore, NextRoomID
<1>4. r \in RoomID
  BY <1>1, BoundsAssumption DEF StoreType, RoomID
<1>5. /\ NewRoom(r, p, m).host = p
      /\ NewRoom(r, p, m).max = m
      /\ NewRoom(r, p, m).started = FALSE
  BY DEF NewRoom
<1> HIDE DEF r
<1>6. /\ \A q \in RoomID \ {r} :
            /\ store'.rooms[q].host = store.rooms[q].host
            /\ store'.rooms[q].max = store.rooms[q].max
            /\ store'.rooms[q].started = store.rooms[q].started
      /\ store'.rooms[r].host = p
      /\ store'.rooms[r].max = m
      /\ store'.rooms[r].started = FALSE
  BY <1>2, <1>3, <1>4, <1>5 DEF SameRooms, StoreType
<1>7. /\ {q \in RoomID : store'.rooms[q].started}
            = {q \in RoomID : store.rooms[q].started} \ {r}
      /\ [q \in RoomID |-> store'.rooms[q].host]
            = [[q \in RoomID |-> store.rooms[q].host] EXCEPT ![r] = p]
      /\ [q \in RoomID |-> store'.rooms[q].max]
            = [[q \in RoomID |-> store.rooms[q].max] EXCEPT ![r] = m]
  BY <1>4, <1>6
<1>8. store'.byPID = [store.byPID EXCEPT ![p] = r]
  BY <1>1, <1>2, <1>3 DEF StoreType
<1>9. store'.byID = Abs!Remaining(p) \cup {r}
  BY <1>1, <1>2, <1>3, MappedOperators
<1>10. Abs!Create(p, m)
  BY <1>1, <1>3, <1>7, <1>8, <1>9 DEF Abs!Create, r
<1> QED
  BY <1>1, <1>10 DEF Abs!Next

(* start.                                                                  *)
LEMMA StartSteps ==
    ASSUME LobbyInv, NEW c \in Conn, Start(c)
    PROVE  [Abs!Next]_(Abs!avars)
<1> DEFINE p == pid[c]
           r == store.byPID[p]
<1>1. /\ store \in StoreType
      /\ p \in PlayerID /\ r # NoRoom /\ r \in RoomID
      /\ store' = StartStore(store, r)
  BY EnteredFacts DEF LobbyInv, TypeOK, Start, RoomOf, StoreType
<1>2. /\ store'.byPID = store.byPID
      /\ store'.byID = store.byID
      /\ store'.lastRoomID = store.lastRoomID
      /\ store'.rooms = [store.rooms EXCEPT ![r] = RoomAfterStart(store.rooms[r])]
  BY <1>1 DEF StartStore
<1> HIDE DEF r
<1>3. /\ RoomAfterStart(store.rooms[r]).host = store.rooms[r].host
      /\ RoomAfterStart(store.rooms[r]).max = store.rooms[r].max
      /\ RoomAfterStart(store.rooms[r]).started = TRUE
  BY <1>1 DEF RoomAfterStart, WithRow, StoreType, RoomType
<1>4. /\ \A q \in RoomID : /\ store'.rooms[q].host = store.rooms[q].host
                           /\ store'.rooms[q].max = store.rooms[q].max
      /\ \A q \in RoomID \ {r} : store'.rooms[q].started = store.rooms[q].started
      /\ store'.rooms[r].started = TRUE
  BY <1>1, <1>2, <1>3 DEF StoreType
<1>5. /\ {q \in RoomID : store'.rooms[q].started}
            = {q \in RoomID : store.rooms[q].started} \cup {r}
      /\ [q \in RoomID |-> store'.rooms[q].host]
            = [q \in RoomID |-> store.rooms[q].host]
      /\ [q \in RoomID |-> store'.rooms[q].max]
            = [q \in RoomID |-> store.rooms[q].max]
  BY <1>1, <1>4
<1>6. \E q \in PlayerID : Abs!Start(q)
  BY <1>1, <1>2, <1>5 DEF Abs!Start, r
<1> QED
  BY <1>6 DEF Abs!Next

(* Every step of the lobby is a step of the abstract lobby or none.        *)
LEMMA StepsMapped == LobbyInv /\ [Next]_vars => [Abs!Next]_(Abs!avars)
<1> SUFFICES ASSUME LobbyInv, [Next]_vars PROVE [Abs!Next]_(Abs!avars)
  OBVIOUS
<1>1. CASE UNCHANGED vars
  BY <1>1, StutterSteps DEF vars
<1>2. ASSUME NEW p \in PlayerID, NotAlive(p) PROVE [Abs!Next]_(Abs!avars)
  BY <1>2, LeaveSteps DEF NotAlive
<1>3. ASSUME NEW c \in Conn, ConnNext(c) PROVE [Abs!Next]_(Abs!avars)
  <2>1. pid[c] \in PlayerID
    BY <1>3 DEF LobbyInv, TypeOK
  <2>2. CASE Connect(c) \/ Hang(c) \/ GetTbl(c) \/ Alive(c)
    BY <2>2, StutterSteps DEF Connect, Hang, GetTbl, Alive
  <2>3. ASSUME NEW d \in DevFlags, TryEnterRefused(c, d) \/ TryEnter(c, d)
        PROVE  [Abs!Next]_(Abs!avars)
    <3>1. store' = store \/ store' = LeaveStore(store, pid[c])
      BY <2>3 DEF TryEnterRefused, TryEnter
    <3> QED
      BY <2>1, <3>1, StutterSteps, LeaveSteps
  <2>4. CASE Leave(c)
    BY <2>1, <2>4, LeaveSteps DEF Leave
  <2>5. CASE Disconnect(c)
    <3>1. store' = store \/ store' = LeaveStore(store, pid[c])
      BY <2>5 DEF Disconnect, DisconnectStore
    <3> QED
      BY <2>1, <3>1, StutterSteps, LeaveSteps
  <2>6. CASE Start(c)
    BY <2>6, StartSteps
  <2>7. ASSUME NEW m \in Capacities, RegNewRoom(c, m)
        PROVE  [Abs!Next]_(Abs!avars)
    BY <2>7, CreateSteps
  <2>8. ASSUME NEW r \in RoomID, JoinGame(c, r) PROVE [Abs!Next]_(Abs!avars)
    BY <2>8, JoinSteps
  <2> QED
    BY <1>3, <2>2, <2>3, <2>4, <2>5, <2>6, <2>7, <2>8 DEF ConnNext
<1> QED
  BY <1>1, <1>2, <1>3 DEF Next

LEMMA InitMapped == Init => Abs!Init
<1> SUFFICES ASSUME Init PROVE Abs!Init
  OBVIOUS
<1>1. store \in StoreType /\ store = InitStore
  BY InitStoreOK DEF Init
<1>2. /\ store.byPID = [p \in PlayerID |-> NoRoom]
      /\ store.byID = {} /\ store.lastRoomID = 0
      /\ \A r \in RoomID : store.rooms[r].started = FALSE
  BY <1>1 DEF InitStore
<1>3. \A r \in RoomID : /\ store.rooms[r].host \in PlayerID
                        /\ store.rooms[r].max \in Capacities
  BY <1>1 DEF StoreType, RoomType
<1> QED
  BY <1>2, <1>3 DEF Abs!Init, Abs!Rooms, RoomID

(* The lobby implements the abstract lobby: rooms open, fill, start and    *)
(* close for players exactly as the membership alone would have it.        *)
THEOREM LobbyImplementsAbstract == Spec => KeepsPromises
BY LobbyInvariant, InitMapped, StepsMapped, PTL DEF Spec, KeepsPromises, Abs!Spec
=============================================================================
