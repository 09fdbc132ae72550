--------------------------- MODULE LobbyConcProofs ---------------------------
(***************************************************************************)
(* The handlers of LobbyConc interleave step by step; this module proves,  *)
(* for any number of players, rooms and requests, what survives it.  Three *)
(* results hold whatever runs: the room mutex excludes, OnDisconnect       *)
(* leaves no entry behind, and an open room is found by its control sum.   *)
(* Two hold as long as no keep-alive timer fires: player map and entries   *)
(* agree, and the room of a host who disconnects is closed.                *)
(***************************************************************************)
EXTENDS LobbyConc, FiniteSetTheorems, TLAPS

(* Concurrent joins and leaves lose updates of PlayersCount, so that the   *)
(* counter and the row's column may be any integer.                        *)
AnyCount == Int
AnyRow == [id : RoomID, count : AnyCount, started : BOOLEAN]

AnySum == {ControlSum(w) : w \in AnyRow}

(* s is the control sum of some row of room r.                             *)
SumOf(s, r) == \E w \in AnyRow : w.id = r /\ s = ControlSum(w)

(* Rows of different rooms never share a control sum.                      *)
DistinctSums ==
    \A v, w \in AnyRow : ControlSum(v) = ControlSum(w) => v.id = w.id

----------------------------------------------------------------------------
(* Where the goroutines may be and what they know there.                   *)

BeforeLock == {"leave_clear", "leave_find", "leave_lock"}
UnderLock == {"leave_write", "leave_row", "leave_sum", "leave_index"}
LeavePC == BeforeLock \cup UnderLock

ConnPC ==
    LeavePC \cup {"idle", "reg_id", "reg_host", "reg_sum", "reg_arm",
                  "join_load", "join_store", "join_row", "join_sum",
                  "join_index", "start_mark", "start_sum", "start_index",
                  "start_arm", "disconnect_delete", "closed"}

TimerPC == LeavePC \cup {"idle", "timer_unregister"}

(* Points at which local variable room names the room worked on.           *)
HasRoom ==
    {"leave_lock", "reg_host", "reg_sum", "reg_arm", "join_store", "join_row",
     "join_sum", "join_index", "start_mark", "start_sum", "start_index",
     "start_arm"} \cup UnderLock

ConcRoom == [host : PlayerID, max : Capacities, count : AnyCount,
             players : SUBSET Player, started : BOOLEAN, row : AnyRow,
             ctl : AnySum]

(* The shared variables the proofs speak of.                               *)
SharedOK ==
    /\ rooms \in [RoomID -> ConcRoom]
    /\ \A r \in RoomID : rooms[r].row.id = r /\ SumOf(rooms[r].ctl, r)
    /\ lastRoomID \in 0 .. MaxRoomID
    /\ byID \subseteq Existing
    /\ byPID \in [PlayerID -> 0 .. lastRoomID]
    /\ lock \in [RoomID -> Goroutine \cup {Free}]

(* The locals of a goroutine fit the point it has reached.                 *)
LocalsOK(g) ==
    /\ pc[g] \in IF g[2] = "conn" THEN ConnPC ELSE TimerPC
    /\ loc[g].ret \in IF pc[g] \notin LeavePC THEN {"idle"}
                      ELSE IF g[2] = "timer" THEN {"timer_unregister"}
                      ELSE {"idle", "reg_id", "join_load", "disconnect_delete"}
    /\ pc[g] \in HasRoom => loc[g].room \in Existing
    /\ "join_load" \in {pc[g], loc[g].ret} => loc[g].target \in Existing
    /\ pc[g] \in {"leave_write", "join_store"} => loc[g].num \in AnyCount
    /\ pc[g] \in {"leave_write", "leave_row"} => SumOf(loc[g].old, loc[g].room)
    /\ pc[g] = "leave_row" =>
          loc[g].row = NoRow \/ (loc[g].row \in AnyRow /\ loc[g].row.id = loc[g].room)
    /\ pc[g] = "join_row" =>
          loc[g].row \in AnyRow /\ loc[g].row.id = loc[g].room
    /\ pc[g] \in {"leave_sum", "join_sum", "start_sum"} =>
          SumOf(loc[g].sum, loc[g].room)
    /\ pc[g] = "leave_index" => loc[g].closed \in BOOLEAN

(* Where Leave may return to.                                              *)
Returns == {"idle", "reg_id", "join_load", "disconnect_delete", "timer_unregister"}

LocType == [room : Nat, target : Nat, num : AnyCount, row : AnyRow \cup {NoRow},
            sum : AnySum \cup {NoSum}, old : AnySum \cup {NoSum},
            closed : BOOLEAN, ret : Returns]

(* The rooms that accepted requests will create still have ids.            *)
IDsLeft == lastRoomID + Cardinality(Registering) <= MaxRoomID

Control ==
    /\ SharedOK
    /\ pc \in [Goroutine -> ConnPC \cup TimerPC]
    /\ loc \in [Goroutine -> LocType]
    /\ \A g \in Goroutine : LocalsOK(g)
    /\ IDsLeft

----------------------------------------------------------------------------
(* The parts of the invariant that make the five properties inductive.     *)

(* Whoever is between Lock and Unlock of Leave holds the mutex of its room.*)
MutexHeld ==
    \A g \in Goroutine : pc[g] \in UnderLock => lock[loc[g].room] = g

(* OnDisconnect of p is past the point where Leave removes p's entry.      *)
Departed(p) ==
    LET g == <<p, "conn">> IN
    \/ pc[g] \in {"disconnect_delete", "closed"}
    \/ pc[g] \in UnderLock /\ loc[g].ret = "disconnect_delete"

EntriesGone ==
    \A p \in Player :
        /\ Departed(p) => byPID[p] = NoRoom
        /\ pc[<<p, "conn">>] = "closed" => p \notin players

(* A goroutine that will index the room under the sum it then has.         *)
WillIndex(g, r) ==
    /\ loc[g].room = r
    /\ pc[g] \in {"leave_sum", "leave_index", "join_row", "join_sum",
                  "join_index", "start_sum", "start_index", "reg_host", "reg_sum"}

SumsIndexed ==
    /\ \A r \in byID : \/ <<rooms[r].ctl, r>> \in bySum
                       \/ \E g \in Goroutine : WillIndex(g, r)
    /\ \A g \in Goroutine :
          pc[g] = "leave_index" /\ loc[g].closed => loc[g].room \notin byID

(* No timer goroutine runs.                                                *)
TimersIdle == \A p \in Player : pc[<<p, "timer">>] = "idle"

(* p's connection is between the leave of one room and the entry of the    *)
(* next, or was on its way out of a room when it removed its entry.        *)
Between ==
    {"reg_id", "reg_host", "join_load", "join_store", "join_row", "join_sum"}
    \cup UnderLock

OwnEntry ==
    \A p \in Player :
        LET g == <<p, "conn">> IN
        /\ pc[g] \in Between => byPID[p] = NoRoom
        /\ pc[g] = "leave_lock" => loc[g].room = byPID[p]

(* The room p counts as being in: its entry, or the one its handler puts   *)
(* it into or takes it out of at this moment.                              *)
Here(p) ==
    LET g == <<p, "conn">> IN
    IF pc[g] \in {"reg_host", "join_store", "join_row", "join_sum", "leave_write"}
    THEN loc[g].room ELSE byPID[p]

MapFollows ==
    \A p \in Player, r \in Existing :
        /\ Here(p) = r => p \in rooms[r].players
        /\ ~ rooms[r].started /\ p \in rooms[r].players => Here(p) = r

(* The host of an open room is in it, or about to be, or closing it.       *)
HostAt(h, r) ==
    LET g == <<h, "conn">> IN
    \/ byPID[h] = r
    \/ /\ pc[g] \in {"reg_host", "leave_write", "leave_row", "leave_sum"}
       /\ loc[g].room = r

HostPresent ==
    \A r \in byID : ~ rooms[r].started =>
        rooms[r].host \in Player /\ HostAt(rooms[r].host, r)

----------------------------------------------------------------------------
(* Facts about the constants and the operators.                            *)

LEMMA Ids ==
    /\ NoRoom = 0 /\ NoRoom \notin RoomID
    /\ Player \subseteq PlayerID
    /\ MaxRoomID \in Nat
    /\ \A r : r \in RoomID <=> r \in Int /\ 1 <= r /\ r <= MaxRoomID
BY BoundsAssumption DEF NoRoom, RoomID, Player

LEMMA GoroutinesFinite == IsFiniteSet(Goroutine)
<1>1. IsFiniteSet(PlayerID)
  BY FS_Interval, BoundsAssumption DEF PlayerID
<1>2. IsFiniteSet(Player)
  BY <1>1, FS_Subset DEF Player
<1>3. IsFiniteSet({"conn"}) /\ IsFiniteSet({"conn"} \cup {"timer"})
  BY FS_Singleton, FS_AddElement
<1>4. {"conn"} \cup {"timer"} = {"conn", "timer"}
  OBVIOUS
<1> QED
  BY <1>2, <1>3, <1>4, FS_Product DEF Goroutine

(* Goroutines by kind.                                                     *)
LEMMA Kinds ==
    /\ \A p \in Player : <<p, "conn">> \in Goroutine /\ <<p, "timer">> \in Goroutine
    /\ \A g \in Goroutine : /\ Id(g) \in Player
                            /\ g = <<Id(g), "conn">> \/ g = <<Id(g), "timer">>
                            /\ g[1] = Id(g) /\ g[2] \in {"conn", "timer"}
BY DEF Goroutine, Id

LEMMA SumOfRow ==
    ASSUME NEW w \in AnyRow
    PROVE  SumOf(ControlSum(w), w.id) /\ ControlSum(w) \in AnySum
BY DEF SumOf, AnySum

LEMMA SumOfIsSum ==
    ASSUME NEW s, NEW r, SumOf(s, r)
    PROVE  s \in AnySum
BY DEF SumOf, AnySum

LEMMA SumOfDistinct ==
    ASSUME DistinctSums, NEW s, NEW r, NEW q, SumOf(s, r), SumOf(s, q)
    PROVE  r = q
BY DEF SumOf, DistinctSums

(* The edits of a row keep its room.                                       *)
LEMMA RowEdits ==
    ASSUME NEW w \in AnyRow, NEW n \in Int
    PROVE  /\ SetPlayersColumn(w, n) \in AnyRow /\ SetPlayersColumn(w, n).id = w.id
           /\ StartedRow(w) \in AnyRow /\ StartedRow(w).id = w.id
BY DEF AnyRow, AnyCount, SetPlayersColumn, StartedRow

----------------------------------------------------------------------------
(* Control is inductive.                                                   *)

LEMMA InitControl == Init => Control
<1> SUFFICES ASSUME Init PROVE Control
  OBVIOUS
<1>1. rooms \in [RoomID -> ConcRoom]
      /\ \A r \in RoomID : rooms[r].row.id = r /\ SumOf(rooms[r].ctl, r)
  <2> SUFFICES ASSUME NEW r \in RoomID
               PROVE  /\ rooms[r] \in ConcRoom
                      /\ rooms[r].row.id = r /\ SumOf(rooms[r].ctl, r)
    BY DEF Init, InitStore
  <2> DEFINE w == [id |-> r, count |-> 0, started |-> FALSE]
  <2>1. w \in AnyRow /\ w.id = r
    BY DEF AnyRow, AnyCount
  <2>2. SumOf(ControlSum(w), r) /\ ControlSum(w) \in AnySum
    BY <2>1, SumOfRow
  <2>3. (CHOOSE m \in Capacities : TRUE) \in Capacities /\ NoPlayer \in PlayerID
    BY CapacitiesAssumption, BoundsAssumption DEF NoPlayer, PlayerID
  <2>4. rooms[r] = [host |-> NoPlayer, max |-> CHOOSE m \in Capacities : TRUE,
                    count |-> 0, players |-> {}, started |-> FALSE,
                    row |-> w, ctl |-> ControlSum(w)]
    BY DEF Init, InitStore
  <2> HIDE DEF w
  <2> QED
    BY <2>1, <2>2, <2>3, <2>4 DEF ConcRoom, AnyCount
<1>2. SharedOK
  BY <1>1, Ids DEF Init, SharedOK, Existing
<1>3. NoLocals \in LocType
  BY DEF NoLocals, LocType, AnyCount, NoRoom, Returns
<1>4. /\ pc \in [Goroutine -> ConnPC \cup TimerPC]
      /\ loc \in [Goroutine -> LocType]
  BY <1>3 DEF Init, ConnPC
<1>5. \A g \in Goroutine : LocalsOK(g)
  BY DEF Init, LocalsOK, NoLocals, ConnPC, TimerPC, LeavePC, BeforeLock, UnderLock,
         HasRoom
<1>6. IDsLeft
  <2>1. Registering = {}
    BY DEF Registering, Init, NoLocals
  <2> QED
    BY <2>1, FS_EmptySet, Ids DEF IDsLeft, Init
<1> QED
  BY <1>2, <1>4, <1>5, <1>6 DEF Control

(* A step of one goroutine keeps Control if it does for that goroutine.    *)
LEMMA ControlFrame ==
    ASSUME Control, NEW g \in Goroutine, SharedOK', LocalsOK(g)', IDsLeft',
           NEW there \in ConnPC \cup TimerPC, pc' = [pc EXCEPT ![g] = there],
           NEW l \in LocType, loc' = [loc EXCEPT ![g] = l],
           lastRoomID <= lastRoomID'
    PROVE  Control'
<1>1. /\ pc' \in [Goroutine -> ConnPC \cup TimerPC]
      /\ loc' \in [Goroutine -> LocType]
  BY DEF Control
<1>2. ASSUME NEW h \in Goroutine, h # g
      PROVE  LocalsOK(h)'
  <2>1. pc'[h] = pc[h] /\ loc'[h] = loc[h]
    BY <1>2 DEF Control
  <2>2. Existing \subseteq Existing'
    BY DEF Control, SharedOK, Existing
  <2> QED
    BY <2>1, <2>2, <1>2 DEF Control, LocalsOK
<1> QED
  BY <1>1, <1>2 DEF Control

(* A step that registers nothing new leaves the ids that are promised.     *)
LEMMA IDsFrame ==
    ASSUME Control, NEW g \in Goroutine, lastRoomID' = lastRoomID,
           NEW there \in ConnPC \cup TimerPC, pc' = [pc EXCEPT ![g] = there],
           NEW l \in LocType, loc' = [loc EXCEPT ![g] = l],
           "reg_id" \in {there, l.ret} => g \in Registering
    PROVE  IDsLeft'
<1>1. Registering' \subseteq Registering
  BY DEF Registering, Control
<1>2. IsFiniteSet(Registering)
  BY GoroutinesFinite, FS_Subset DEF Registering
<1>3. /\ Cardinality(Registering') <= Cardinality(Registering)
      /\ Cardinality(Registering) \in Nat /\ Cardinality(Registering') \in Nat
  BY <1>1, <1>2, FS_Subset, FS_CardinalityType
<1>4. lastRoomID \in Int /\ MaxRoomID \in Int
  BY Ids DEF Control, SharedOK
<1> QED
  BY <1>3, <1>4 DEF IDsLeft, Control

(* A write of the goroutine's room that keeps row and sum its own.         *)
LEMMA RoomFrame ==
    ASSUME Control, NEW r \in Existing, NEW room \in ConcRoom,
           room.row.id = r, SumOf(room.ctl, r),
           rooms' = [rooms EXCEPT ![r] = room],
           UNCHANGED <<lastRoomID, byPID, lock>>, byID' \subseteq byID
    PROVE  SharedOK'
<1>1. r \in RoomID
  BY Ids DEF Control, SharedOK, Existing
<1> QED
  BY <1>1 DEF Control, SharedOK, Existing

(* What the locals say at the points of Leave, and elsewhere.              *)
LEMMA PointsOf ==
    /\ ConnPC \cup TimerPC = ConnPC \cup {"timer_unregister"}
    /\ LeavePC \subseteq ConnPC /\ LeavePC \subseteq TimerPC
    /\ UnderLock \subseteq HasRoom /\ UnderLock \subseteq LeavePC
    /\ "idle" \notin LeavePC
BY DEF ConnPC, TimerPC, LeavePC, HasRoom, BeforeLock, UnderLock

(* The room record a goroutine works on.                                   *)
LEMMA RoomOf ==
    ASSUME Control, NEW g \in Goroutine, pc[g] \in HasRoom
    PROVE  /\ loc[g] \in LocType
           /\ loc[g].room \in Existing /\ loc[g].room \in RoomID
           /\ Room(g) \in ConcRoom
           /\ Room(g).row \in AnyRow
           /\ Room(g).row.id = loc[g].room /\ SumOf(Room(g).ctl, loc[g].room)
<1>1. loc[g].room \in Existing /\ LocalsOK(g) /\ loc[g] \in LocType
  BY DEF Control, LocalsOK
<1>2. loc[g].room \in RoomID
  BY <1>1, Ids DEF Control, SharedOK, Existing
<1> QED
  BY <1>1, <1>2 DEF Room, Control, SharedOK, ConcRoom

----------------------------------------------------------------------------
(* The beginnings of handlers.                                             *)

(* A goroutine calls leaveRoomByID.                                        *)
LEMMA CallControl ==
    ASSUME Control, NEW g \in Goroutine, pc[g] = "idle",
           UNCHANGED <<rooms, lastRoomID, byID, byPID, lock>>,
           NEW l \in LocType, NEW ret \in Returns, CallLeave(g, l, ret),
           ret \in IF g[2] = "timer" THEN {"timer_unregister"}
                   ELSE {"idle", "reg_id", "join_load", "disconnect_delete"},
           ret = "join_load" => l.target \in Existing,
           IDsLeft'
    PROVE  Control'
<1> DEFINE l2 == [l EXCEPT !.ret = ret]
<1>1. /\ l2 \in LocType /\ l2.ret = ret /\ l2.target = l.target
      /\ pc' = [pc EXCEPT ![g] = "leave_clear"] /\ loc' = [loc EXCEPT ![g] = l2]
  BY DEF CallLeave, Goto, SetLoc, LocType
<1> HIDE DEF l2
<1>2. "leave_clear" \in LeavePC /\ "leave_clear" \notin HasRoom
  BY DEF LeavePC, BeforeLock, HasRoom, UnderLock
<1>3. SharedOK'
  BY DEF Control, SharedOK, Existing
<1>4. pc'[g] = "leave_clear" /\ loc'[g] = l2
  BY <1>1 DEF Control
<1>5. LocalsOK(g)'
  BY <1>1, <1>2, <1>4, PointsOf, Kinds DEF LocalsOK, Existing
<1>6. lastRoomID <= lastRoomID'
  BY DEF Control, SharedOK
<1> QED
  BY <1>1, <1>2, <1>3, <1>5, <1>6, PointsOf, ControlFrame

(* The same, when no room is going to be created.                          *)
LEMMA IDsAtCall ==
    ASSUME Control, NEW g \in Goroutine, UNCHANGED lastRoomID,
           NEW l \in LocType, NEW ret \in Returns \ {"reg_id"}, CallLeave(g, l, ret)
    PROVE  IDsLeft'
<1> DEFINE l2 == [l EXCEPT !.ret = ret]
<1>1. /\ l2 \in LocType /\ l2.ret # "reg_id"
      /\ pc' = [pc EXCEPT ![g] = "leave_clear"] /\ loc' = [loc EXCEPT ![g] = l2]
  BY DEF LocType, CallLeave, Goto, SetLoc
<1> HIDE DEF l2
<1>2. "leave_clear" \in ConnPC \cup TimerPC
  BY DEF ConnPC, LeavePC, BeforeLock
<1> QED
  BY <1>1, <1>2, IDsFrame

(* Both frames, for a step that neither creates a room nor begins to.      *)
LEMMA StepControl ==
    ASSUME Control, NEW g \in Goroutine, SharedOK', LocalsOK(g)',
           UNCHANGED lastRoomID,
           NEW there \in ConnPC \cup TimerPC, pc' = [pc EXCEPT ![g] = there],
           NEW l \in LocType, loc' = [loc EXCEPT ![g] = l],
           "reg_id" \in {there, l.ret} => g \in Registering
    PROVE  Control'
<1>1. IDsLeft'
  BY IDsFrame
<1>2. lastRoomID <= lastRoomID'
  BY DEF Control, SharedOK
<1> QED
  BY <1>1, <1>2, ControlFrame

(* NoLocals, and what Return leaves of the locals.                         *)
LEMMA NoLocalsOK ==
    /\ NoLocals \in LocType /\ NoLocals.ret = "idle"
    /\ \A t \in Nat : /\ [NoLocals EXCEPT !.target = t] \in LocType
                      /\ [NoLocals EXCEPT !.target = t].ret = "idle"
                      /\ [NoLocals EXCEPT !.target = t].target = t
<1>1. NoLocals \in LocType /\ NoLocals.ret = "idle"
  BY DEF NoLocals, LocType, AnyCount, NoRoom, Returns
<1> QED
  BY <1>1 DEF LocType

(* A handler or a callback ends.                                           *)
LEMMA DoneControl ==
    ASSUME Control, SharedOK', UNCHANGED lastRoomID, NEW g \in Goroutine, Done(g)
    PROVE  Control'
<1>1. /\ pc' = [pc EXCEPT ![g] = "idle"] /\ loc' = [loc EXCEPT ![g] = NoLocals]
      /\ pc'[g] = "idle" /\ loc'[g] = NoLocals
  BY DEF Done, Goto, SetLoc, Control
<1>2. "idle" \in ConnPC /\ "idle" \in TimerPC /\ "idle" \notin HasRoom
  BY DEF ConnPC, TimerPC, HasRoom, UnderLock
<1>3. LocalsOK(g)'
  BY <1>1, <1>2, PointsOf, NoLocalsOK DEF LocalsOK
<1> QED
  BY <1>1, <1>2, <1>3, NoLocalsOK, StepControl

(* Leave returns to the handler that called it.                            *)
LEMMA ReturnControl ==
    ASSUME Control, SharedOK', UNCHANGED lastRoomID, NEW g \in Goroutine,
           pc[g] \in LeavePC, Return(g)
    PROVE  Control'
<1> DEFINE l == [NoLocals EXCEPT !.target = loc[g].target]
<1>1. /\ l \in LocType /\ l.ret = "idle" /\ l.target = loc[g].target
      /\ loc[g].ret \in Returns
  BY NoLocalsOK DEF Control, LocType
<1>2. /\ pc' = [pc EXCEPT ![g] = loc[g].ret] /\ loc' = [loc EXCEPT ![g] = l]
      /\ pc'[g] = loc[g].ret /\ loc'[g] = l
  BY DEF Return, Goto, SetLoc, Control
<1> HIDE DEF l
<1>3. /\ loc[g].ret \notin LeavePC /\ loc[g].ret \notin HasRoom
      /\ loc[g].ret \in IF g[2] = "conn" THEN ConnPC ELSE TimerPC
      /\ loc[g].ret \notin {"join_store", "join_row", "join_sum", "start_sum"}
      /\ loc[g].ret = "join_load" => loc[g].target \in Existing
      /\ "reg_id" \in {loc[g].ret, l.ret} => g \in Registering
  BY <1>1, Kinds DEF Control, LocalsOK, ConnPC, TimerPC, HasRoom, LeavePC, BeforeLock,
            UnderLock, Registering
<1>4. LocalsOK(g)'
  BY <1>1, <1>2, <1>3 DEF LocalsOK, Existing, LeavePC, UnderLock
<1> QED
  BY <1>1, <1>2, <1>3, <1>4, StepControl

(* What of the shared variables a step leaves alone.                       *)
LEMMA SharedFrame ==
    ASSUME Control, UNCHANGED <<rooms, lastRoomID, byID, byPID, lock>>
    PROVE  SharedOK'
BY DEF Control, SharedOK, Existing

(* A goroutine moves on and keeps its locals.                              *)
LEMMA MoveControl ==
    ASSUME Control, SharedOK', UNCHANGED <<lastRoomID, loc>>, NEW g \in Goroutine,
           NEW there \in ConnPC \cup TimerPC, Goto(g, there), there # "reg_id",
           pc'[g] = there => LocalsOK(g)'
    PROVE  Control'
<1>1. /\ pc' = [pc EXCEPT ![g] = there] /\ pc'[g] = there
      /\ loc' = [loc EXCEPT ![g] = loc[g]] /\ loc[g] \in LocType
  BY DEF Goto, Control
<1> QED
  BY <1>1, StepControl DEF Registering

----------------------------------------------------------------------------
(* The steps of Leave.                                                     *)

LEMMA LeaveClearControl ==
    ASSUME Control, NEW g \in Goroutine, LeaveClear(g)
    PROVE  Control'
<1>1. SharedOK'
  BY SharedFrame DEF LeaveClear, UnchangedStore
<1>2. /\ "leave_find" \in LeavePC /\ "leave_clear" \in LeavePC
      /\ "leave_find" \notin HasRoom
  BY DEF LeavePC, BeforeLock, HasRoom, UnderLock
<1>3. pc'[g] = "leave_find" => LocalsOK(g)'
  BY <1>2, PointsOf, Kinds DEF LeaveClear, UnchangedStore, At, Control, LocalsOK,
                               Existing
<1> QED
  BY <1>1, <1>2, <1>3, PointsOf, MoveControl DEF LeaveClear, UnchangedStore

LEMMA LeaveFindControl ==
    ASSUME Control, NEW g \in Goroutine, LeaveFind(g)
    PROVE  Control'
<1> DEFINE r == byPID[Id(g)]
           l == [loc[g] EXCEPT !.room = r]
<1>1. SharedOK' /\ UNCHANGED lastRoomID
  BY SharedFrame DEF LeaveFind, UnchangedStore
<1>2. /\ pc[g] = "leave_find" /\ pc[g] \in LeavePC /\ "leave_lock" \in LeavePC
  BY DEF LeaveFind, At, LeavePC, BeforeLock
<1>3. CASE r = NoRoom
  BY <1>1, <1>2, <1>3, ReturnControl DEF LeaveFind
<1>4. CASE r # NoRoom
  <2>1. r \in Existing /\ r \in Nat
    BY <1>4, Kinds, Ids DEF Control, SharedOK, Existing
  <2>2. /\ l \in LocType /\ l.room = r /\ l.ret = loc[g].ret /\ l.target = loc[g].target
    BY <2>1 DEF Control, LocType
  <2>3. /\ pc' = [pc EXCEPT ![g] = "leave_lock"] /\ loc' = [loc EXCEPT ![g] = l]
        /\ pc'[g] = "leave_lock" /\ loc'[g] = l
    BY <1>4 DEF LeaveFind, Goto, SetLoc, Control
  <2> HIDE DEF l, r
  <2>4. LocalsOK(g)'
    BY <1>1, <1>2, <2>1, <2>2, <2>3, PointsOf, Kinds DEF Control, LocalsOK, Existing
  <2>5. "reg_id" \in {"leave_lock", l.ret} => g \in Registering
    BY <2>2 DEF Registering
  <2> QED
    BY <1>1, <1>2, <2>2, <2>3, <2>4, <2>5, PointsOf, StepControl
<1> QED
  BY <1>3, <1>4

LEMMA LeaveLockControl ==
    ASSUME Control, NEW g \in Goroutine, LeaveLock(g)
    PROVE  Control'
<1> DEFINE l == [loc[g] EXCEPT !.old = Room(g).ctl, !.num = Room(g).count]
<1>1. /\ pc[g] = "leave_lock" /\ pc[g] \in LeavePC /\ pc[g] \in HasRoom
      /\ "leave_write" \in UnderLock
  BY DEF LeaveLock, At, LeavePC, BeforeLock, HasRoom, UnderLock
<1>2. /\ loc[g] \in LocType /\ loc[g].room \in RoomID /\ loc[g].room \in Existing
      /\ Room(g).ctl \in AnySum /\ Room(g).count \in AnyCount
      /\ SumOf(Room(g).ctl, loc[g].room)
  BY <1>1, RoomOf DEF ConcRoom
<1>3. SharedOK'
  <2>1. byPID' \in [PlayerID -> 0 .. lastRoomID]
    <3>1. 0 \in 0 .. lastRoomID /\ NoRoom = 0
      BY Ids DEF Control, SharedOK
    <3> QED
      BY <3>1 DEF LeaveLock, Control, SharedOK
  <2>2. lock' \in [RoomID -> Goroutine \cup {Free}]
    BY DEF LeaveLock, Control, SharedOK
  <2> QED
    BY <2>1, <2>2 DEF LeaveLock, Control, SharedOK, Existing
<1>4. /\ l \in LocType /\ l.room = loc[g].room /\ l.ret = loc[g].ret
      /\ l.target = loc[g].target /\ l.old = Room(g).ctl /\ l.num = Room(g).count
  BY <1>2 DEF LocType
<1>5. /\ pc' = [pc EXCEPT ![g] = "leave_write"] /\ loc' = [loc EXCEPT ![g] = l]
      /\ pc'[g] = "leave_write" /\ loc'[g] = l /\ lastRoomID' = lastRoomID
  BY DEF LeaveLock, Goto, SetLoc, Control
<1> HIDE DEF l
<1>6. LocalsOK(g)'
  BY <1>1, <1>2, <1>4, <1>5, PointsOf, Kinds DEF Control, LocalsOK, Existing
<1>7. "reg_id" \in {"leave_write", l.ret} => g \in Registering
  BY <1>4 DEF Registering
<1> QED
  BY <1>1, <1>3, <1>4, <1>5, <1>6, <1>7, PointsOf, StepControl

LEMMA LeaveWriteControl ==
    ASSUME Control, NEW g \in Goroutine, LeaveWrite(g)
    PROVE  Control'
<1> DEFINE n == loc[g].num - 1
           room == [Room(g) EXCEPT !.count = n,
                                   !.players = PlayersAfterLeave(Room(g), Id(g))]
           row == IF Room(g).started THEN NoRow ELSE SetPlayersColumn(Room(g).row, n)
           l == [loc[g] EXCEPT !.row = row]
<1>1. /\ pc[g] = "leave_write" /\ pc[g] \in UnderLock /\ pc[g] \in LeavePC
      /\ pc[g] \in HasRoom /\ "leave_row" \in UnderLock
  BY DEF LeaveWrite, At, LeavePC, BeforeLock, HasRoom, UnderLock
<1>2. /\ loc[g] \in LocType /\ loc[g].room \in RoomID /\ loc[g].room \in Existing
      /\ Room(g) \in ConcRoom /\ Room(g).row \in AnyRow
      /\ Room(g).row.id = loc[g].room /\ SumOf(Room(g).ctl, loc[g].room)
  BY <1>1, RoomOf
<1>3. n \in Int
  BY <1>1 DEF Control, LocalsOK, AnyCount
<1>4. row = NoRow \/ (row \in AnyRow /\ row.id = loc[g].room)
  BY <1>2, <1>3, RowEdits
<1>5. /\ room \in ConcRoom /\ room.row.id = loc[g].room /\ SumOf(room.ctl, loc[g].room)
  BY <1>2, <1>3 DEF ConcRoom, AnyCount, PlayersAfterLeave
<1>6. /\ rooms' = [rooms EXCEPT ![loc[g].room] = room]
      /\ UNCHANGED <<lastRoomID, byPID, byID, lock>>
  BY DEF LeaveWrite, SetRoom
<1>7. SharedOK'
  BY <1>2, <1>5, <1>6, RoomFrame
<1>8. /\ l \in LocType /\ l.room = loc[g].room /\ l.ret = loc[g].ret
      /\ l.target = loc[g].target /\ l.old = loc[g].old /\ l.row = row
  BY <1>2, <1>4 DEF LocType
<1>9. /\ pc' = [pc EXCEPT ![g] = "leave_row"] /\ loc' = [loc EXCEPT ![g] = l]
      /\ pc'[g] = "leave_row" /\ loc'[g] = l
  BY DEF LeaveWrite, Goto, SetLoc, Control
<1> HIDE DEF l, row, room, n
<1>10. LocalsOK(g)'
  BY <1>1, <1>2, <1>4, <1>6, <1>8, <1>9, PointsOf, Kinds DEF Control, LocalsOK, Existing
<1>11. "reg_id" \in {"leave_row", l.ret} => g \in Registering
  BY <1>8 DEF Registering
<1> QED
  BY <1>1, <1>6, <1>7, <1>8, <1>9, <1>10, <1>11, PointsOf, StepControl

LEMMA LeaveRowControl ==
    ASSUME Control, NEW g \in Goroutine, LeaveRow(g)
    PROVE  Control'
<1> DEFINE row == IF loc[g].row = NoRow THEN Room(g).row ELSE loc[g].row
           room == [Room(g) EXCEPT !.row = row]
           l == [loc[g] EXCEPT !.sum = ControlSum(row)]
<1>1. /\ pc[g] = "leave_row" /\ pc[g] \in UnderLock /\ pc[g] \in LeavePC
      /\ pc[g] \in HasRoom /\ "leave_sum" \in UnderLock
  BY DEF LeaveRow, At, LeavePC, BeforeLock, HasRoom, UnderLock
<1>2. /\ loc[g] \in LocType /\ loc[g].room \in RoomID /\ loc[g].room \in Existing
      /\ Room(g) \in ConcRoom /\ Room(g).row \in AnyRow
      /\ Room(g).row.id = loc[g].room /\ SumOf(Room(g).ctl, loc[g].room)
  BY <1>1, RoomOf
<1>3. row \in AnyRow /\ row.id = loc[g].room
  BY <1>1, <1>2 DEF Control, LocalsOK
<1>4. SumOf(ControlSum(row), loc[g].room) /\ ControlSum(row) \in AnySum
  BY <1>3, SumOfRow
<1>5. /\ rooms' = [rooms EXCEPT ![loc[g].room] = room]
      /\ UNCHANGED <<lastRoomID, byPID, byID, lock>>
      /\ pc' = [pc EXCEPT ![g] = "leave_sum"] /\ loc' = [loc EXCEPT ![g] = l]
      /\ pc'[g] = "leave_sum" /\ loc'[g] = l
  BY DEF LeaveRow, SetRoom, Goto, SetLoc, Control
<1> HIDE DEF row
<1>6. /\ room \in ConcRoom /\ room.row.id = loc[g].room /\ SumOf(room.ctl, loc[g].room)
  BY <1>2, <1>3 DEF ConcRoom
<1>7. SharedOK'
  BY <1>2, <1>5, <1>6, RoomFrame
<1>8. /\ l \in LocType /\ l.room = loc[g].room /\ l.ret = loc[g].ret
      /\ l.target = loc[g].target /\ l.sum = ControlSum(row)
  BY <1>2, <1>4 DEF LocType
<1> HIDE DEF l, room
<1>9. LocalsOK(g)'
  BY <1>1, <1>2, <1>4, <1>5, <1>8, PointsOf, Kinds DEF Control, LocalsOK, Existing
<1>10. "reg_id" \in {"leave_sum", l.ret} => g \in Registering
  BY <1>8 DEF Registering
<1> QED
  BY <1>1, <1>5, <1>7, <1>8, <1>9, <1>10, PointsOf, StepControl

LEMMA LeaveSumControl ==
    ASSUME Control, NEW g \in Goroutine, LeaveSum(g)
    PROVE  Control'
<1> DEFINE closed == ShouldDelete(Room(g), Id(g), Room(g).count)
           room == [Room(g) EXCEPT !.ctl = loc[g].sum]
           l == [loc[g] EXCEPT !.closed = closed]
<1>1. /\ pc[g] = "leave_sum" /\ pc[g] \in UnderLock /\ pc[g] \in LeavePC
      /\ pc[g] \in HasRoom /\ "leave_index" \in UnderLock
  BY DEF LeaveSum, At, LeavePC, BeforeLock, HasRoom, UnderLock
<1>2. /\ loc[g] \in LocType /\ loc[g].room \in RoomID /\ loc[g].room \in Existing
      /\ Room(g) \in ConcRoom /\ Room(g).row.id = loc[g].room
  BY <1>1, RoomOf
<1>3. SumOf(loc[g].sum, loc[g].room) /\ loc[g].sum \in AnySum
  BY <1>1, SumOfIsSum DEF Control, LocalsOK
<1>4. closed \in BOOLEAN
  <2>1. CASE Room(g).started
    <3>1. (Room(g).count <= 0) \in BOOLEAN
      BY <1>2 DEF ConcRoom, AnyCount
    <3> QED
      BY <2>1, <3>1, Zenon DEF ShouldDelete
  <2>2. CASE ~ Room(g).started
    BY <2>2, Zenon DEF ShouldDelete
  <2> QED
    BY <2>1, <2>2
<1>5. /\ rooms' = [rooms EXCEPT ![loc[g].room] = room]
      /\ UNCHANGED <<lastRoomID, byPID, lock>> /\ byID' \subseteq byID
      /\ pc' = [pc EXCEPT ![g] = "leave_index"] /\ loc' = [loc EXCEPT ![g] = l]
      /\ pc'[g] = "leave_index" /\ loc'[g] = l
  BY DEF LeaveSum, SetRoom, Goto, SetLoc, Control
<1> HIDE DEF closed
<1>6. /\ room \in ConcRoom /\ room.row.id = loc[g].room /\ SumOf(room.ctl, loc[g].room)
  BY <1>2, <1>3 DEF ConcRoom
<1>7. SharedOK'
  BY <1>2, <1>5, <1>6, RoomFrame
<1>8. /\ l \in LocType /\ l.room = loc[g].room /\ l.ret = loc[g].ret
      /\ l.target = loc[g].target /\ l.closed = closed
  BY <1>2, <1>4 DEF LocType
<1> HIDE DEF l, room
<1>9. LocalsOK(g)'
  BY <1>1, <1>2, <1>4, <1>5, <1>8, PointsOf, Kinds DEF Control, LocalsOK, Existing
<1>10. "reg_id" \in {"leave_index", l.ret} => g \in Registering
  BY <1>8 DEF Registering
<1> QED
  BY <1>1, <1>5, <1>7, <1>8, <1>9, <1>10, PointsOf, StepControl

LEMMA LeaveIndexControl ==
    ASSUME Control, NEW g \in Goroutine, LeaveIndex(g)
    PROVE  Control'
<1>1. pc[g] \in LeavePC
  BY DEF LeaveIndex, At, LeavePC, UnderLock
<1>2. SharedOK'
  BY DEF LeaveIndex, Control, SharedOK, Existing
<1> QED
  BY <1>1, <1>2, ReturnControl DEF LeaveIndex

----------------------------------------------------------------------------
(* The steps of reg_new_room.                                              *)

LEMMA RegBeginControl ==
    ASSUME Control, NEW g \in Goroutine, g[2] = "conn", RegBegin(g)
    PROVE  Control'
<1>1. /\ pc[g] = "idle" /\ CallLeave(g, NoLocals, "reg_id")
      /\ lastRoomID + Cardinality(Registering) < MaxRoomID
      /\ UNCHANGED <<rooms, lastRoomID, byID, byPID, lock>>
  BY DEF RegBegin, At, UnchangedStore
<1>2. NoLocals \in LocType /\ "reg_id" \in Returns
  BY NoLocalsOK DEF Returns
<1>3. IDsLeft'
  <2>1. Registering' \subseteq Registering \cup {g}
    BY <1>1 DEF Registering, CallLeave, Goto, SetLoc, Control
  <2>2. IsFiniteSet(Registering)
    BY GoroutinesFinite, FS_Subset DEF Registering
  <2>3. /\ IsFiniteSet(Registering \cup {g})
        /\ Cardinality(Registering \cup {g}) <= Cardinality(Registering) + 1
        /\ Cardinality(Registering) \in Nat
    <3>1. /\ IsFiniteSet(Registering \cup {g})
          /\ Cardinality(Registering \cup {g}) =
                IF g \in Registering THEN Cardinality(Registering)
                ELSE Cardinality(Registering) + 1
      BY <2>2, FS_AddElement
    <3>2. Cardinality(Registering) \in Nat
      BY <2>2, FS_CardinalityType
    <3> QED
      BY <3>1, <3>2
  <2>4. /\ Cardinality(Registering') <= Cardinality(Registering \cup {g})
        /\ Cardinality(Registering') \in Nat
        /\ Cardinality(Registering \cup {g}) \in Nat
    BY <2>1, <2>3, FS_Subset, FS_CardinalityType
  <2>5. lastRoomID \in Int /\ MaxRoomID \in Int
    BY Ids DEF Control, SharedOK
  <2> QED
    BY <1>1, <2>3, <2>4, <2>5 DEF IDsLeft
<1> QED
  BY <1>1, <1>2, <1>3, CallControl

LEMMA RegIDControl ==
    ASSUME Control, NEW g \in Goroutine, NEW m \in Capacities, RegID(g, m)
    PROVE  Control'
<1> DEFINE r == lastRoomID + 1
           l == [loc[g] EXCEPT !.room = r]
<1>1. /\ pc[g] = "reg_id" /\ g \in Registering /\ g[2] = "conn" /\ loc[g].ret = "idle"
      /\ loc[g] \in LocType /\ lastRoomID \in Nat
  BY Kinds DEF RegID, At, Registering, Control, LocalsOK, TimerPC, LeavePC, BeforeLock,
               UnderLock, SharedOK
<1>2. /\ IsFiniteSet(Registering) /\ IsFiniteSet(Registering \ {g})
      /\ Cardinality(Registering) \in Nat /\ Cardinality(Registering \ {g}) \in Nat
      /\ Cardinality(Registering \ {g}) = Cardinality(Registering) - 1
  BY <1>1, GoroutinesFinite, FS_Subset, FS_RemoveElement, FS_CardinalityType
     DEF Registering
<1>3. r \in RoomID /\ r \in Existing' /\ r \in Nat /\ lastRoomID <= lastRoomID'
  BY <1>1, <1>2, Ids DEF Control, IDsLeft, RegID, Existing
<1>4. NewRoom(r, Id(g), m) \in ConcRoom
      /\ NewRoom(r, Id(g), m).row.id = r /\ SumOf(NewRoom(r, Id(g), m).ctl, r)
  <2> DEFINE w == [id |-> r, count |-> 1, started |-> FALSE]
  <2>1. w \in AnyRow /\ w.id = r
    BY <1>3 DEF AnyRow, AnyCount
  <2>2. SumOf(ControlSum(w), r) /\ ControlSum(w) \in AnySum
    BY <2>1, SumOfRow
  <2>3. NewRoom(r, Id(g), m) =
            [host |-> Id(g), max |-> m, count |-> 1, players |-> {Id(g)},
             started |-> FALSE, row |-> w, ctl |-> ControlSum(w)]
    BY DEF NewRoom
  <2>4. Id(g) \in Player /\ Id(g) \in PlayerID
    BY Kinds, Ids
  <2> HIDE DEF w, r
  <2> QED
    BY <2>1, <2>2, <2>3, <2>4 DEF ConcRoom, AnyCount
<1>5. SharedOK'
  <2>1. rooms' = [rooms EXCEPT ![r] = NewRoom(r, Id(g), m)]
    BY DEF RegID
  <2>2. rooms' \in [RoomID -> ConcRoom]
        /\ \A q \in RoomID : rooms'[q].row.id = q /\ SumOf(rooms'[q].ctl, q)
    <3> HIDE DEF r
    <3> QED
      BY <1>3, <1>4, <2>1 DEF Control, SharedOK
  <2>3. lastRoomID' \in 0 .. MaxRoomID
    BY <1>1, <1>3, Ids DEF RegID
  <2>4. byID' \subseteq Existing'
    BY <1>1, <1>3 DEF RegID, Control, SharedOK, Existing
  <2>5. byPID' \in [PlayerID -> 0 .. lastRoomID']
    BY <1>1 DEF RegID, Control, SharedOK
  <2>6. lock' \in [RoomID -> Goroutine \cup {Free}]
    BY DEF RegID, Control, SharedOK
  <2> QED
    BY <2>2, <2>3, <2>4, <2>5, <2>6 DEF SharedOK
<1>6. /\ l \in LocType /\ l.room = r /\ l.ret = "idle"
  BY <1>1, <1>3 DEF LocType
<1>7. /\ pc' = [pc EXCEPT ![g] = "reg_host"] /\ loc' = [loc EXCEPT ![g] = l]
      /\ pc'[g] = "reg_host" /\ loc'[g] = l
  BY DEF RegID, Goto, SetLoc, Control
<1>8. "reg_host" \in ConnPC /\ "reg_host" \notin LeavePC
  BY DEF ConnPC, LeavePC, BeforeLock, UnderLock
<1> HIDE DEF l
<1>9. LocalsOK(g)'
  BY <1>1, <1>3, <1>6, <1>7, <1>8 DEF LocalsOK
<1>10. IDsLeft'
  <2>1. Registering' \subseteq Registering \ {g}
    BY <1>6, <1>7 DEF Registering, Control
  <2>2. /\ Cardinality(Registering') <= Cardinality(Registering \ {g})
        /\ Cardinality(Registering') \in Nat
    BY <2>1, <1>2, FS_Subset, FS_CardinalityType
  <2> QED
    BY <1>1, <1>2, <2>2, Ids DEF IDsLeft, Control, RegID
<1> QED
  BY <1>3, <1>5, <1>6, <1>7, <1>8, <1>9, <1>10, ControlFrame

LEMMA RegHostControl ==
    ASSUME Control, NEW g \in Goroutine, RegHost(g)
    PROVE  Control'
<1>1. /\ pc[g] = "reg_host" /\ pc[g] \in HasRoom /\ "reg_sum" \in HasRoom
      /\ "reg_sum" \in ConnPC /\ "reg_sum" \notin LeavePC /\ "reg_host" \notin TimerPC
      /\ "reg_host" \notin LeavePC
  BY DEF RegHost, At, ConnPC, HasRoom, LeavePC, BeforeLock, UnderLock, TimerPC
<1>2. loc[g].room \in Existing /\ g[2] = "conn" /\ loc[g].ret = "idle"
  BY <1>1, RoomOf, Kinds DEF Control, LocalsOK
<1>3. SharedOK'
  <2>1. byPID' \in [PlayerID -> 0 .. lastRoomID]
    <3>1. loc[g].room \in 0 .. lastRoomID
      BY <1>2 DEF Existing, Control, SharedOK
    <3> QED
      BY <3>1 DEF RegHost, Control, SharedOK
  <2> QED
    BY <2>1 DEF RegHost, Control, SharedOK, Existing
<1>4. pc'[g] = "reg_sum" => LocalsOK(g)'
  BY <1>1, <1>2 DEF LocalsOK, RegHost, Existing
<1> QED
  BY <1>1, <1>3, <1>4, MoveControl DEF RegHost

LEMMA RegSumControl ==
    ASSUME Control, NEW g \in Goroutine, RegSum(g)
    PROVE  Control'
<1>1. /\ pc[g] = "reg_sum" /\ pc[g] \in HasRoom /\ "reg_arm" \in HasRoom
      /\ "reg_arm" \in ConnPC /\ "reg_arm" \notin LeavePC /\ "reg_sum" \notin TimerPC
      /\ "reg_sum" \notin LeavePC
  BY DEF RegSum, At, ConnPC, HasRoom, LeavePC, BeforeLock, UnderLock, TimerPC
<1>2. loc[g].room \in Existing /\ g[2] = "conn" /\ loc[g].ret = "idle"
  BY <1>1, RoomOf, Kinds DEF Control, LocalsOK
<1>3. SharedOK'
  BY SharedFrame DEF RegSum
<1>4. pc'[g] = "reg_arm" => LocalsOK(g)'
  BY <1>1, <1>2 DEF LocalsOK, RegSum, Existing
<1> QED
  BY <1>1, <1>3, <1>4, MoveControl DEF RegSum

LEMMA RegArmControl ==
    ASSUME Control, NEW g \in Goroutine, RegArm(g)
    PROVE  Control'
BY SharedFrame, DoneControl DEF RegArm, UnchangedStore

----------------------------------------------------------------------------
(* The steps of join_game.                                                 *)

LEMMA JoinBeginControl ==
    ASSUME Control, NEW g \in Goroutine, g[2] = "conn", NEW r \in RoomID,
           JoinBegin(g, r)
    PROVE  Control'
<1> DEFINE l == [NoLocals EXCEPT !.target = r]
<1>1. /\ pc[g] = "idle" /\ CallLeave(g, l, "join_load") /\ r \in byID
      /\ UNCHANGED <<rooms, lastRoomID, byID, byPID, lock>>
  BY DEF JoinBegin, At, UnchangedStore
<1>2. l \in LocType /\ l.target = r /\ "join_load" \in Returns \ {"reg_id"}
  BY NoLocalsOK, Ids DEF Returns
<1>3. r \in Existing
  BY <1>1 DEF Control, SharedOK
<1> HIDE DEF l
<1>4. IDsLeft'
  BY <1>1, <1>2, IDsAtCall
<1> QED
  BY <1>1, <1>2, <1>3, <1>4, CallControl

LEMMA JoinLoadControl ==
    ASSUME Control, NEW g \in Goroutine, JoinLoad(g)
    PROVE  Control'
<1> DEFINE r == loc[g].target
           room == [rooms[r] EXCEPT !.players = @ \cup {Id(g)}]
           l == [NoLocals EXCEPT !.room = r, !.num = rooms[r].count]
<1>1. /\ pc[g] = "join_load" /\ "join_load" \notin TimerPC /\ "join_load" \notin LeavePC
      /\ "join_store" \in ConnPC /\ "join_store" \notin LeavePC
      /\ UNCHANGED <<lastRoomID, byID, byPID, lock>>
  BY DEF JoinLoad, At, ConnPC, LeavePC, BeforeLock, UnderLock, TimerPC
<1>2. r \in Existing /\ g[2] = "conn"
  BY <1>1, Kinds DEF Control, LocalsOK
<1>3. r \in RoomID /\ r \in Nat
  BY <1>2, Ids DEF Control, SharedOK, Existing
<1>4. /\ rooms[r] \in ConcRoom /\ rooms[r].row.id = r /\ SumOf(rooms[r].ctl, r)
  BY <1>3 DEF Control, SharedOK
<1>5. CASE Id(g) \in players
  <2>1. /\ rooms' = [rooms EXCEPT ![r] = room]
        /\ pc' = [pc EXCEPT ![g] = "join_store"] /\ loc' = [loc EXCEPT ![g] = l]
        /\ pc'[g] = "join_store" /\ loc'[g] = l
    BY <1>5 DEF JoinLoad, Goto, SetLoc, Control
  <2>2. /\ room \in ConcRoom /\ room.row.id = r /\ SumOf(room.ctl, r)
    BY <1>4, Kinds DEF ConcRoom
  <2>3. SharedOK'
    BY <1>1, <1>2, <2>1, <2>2, RoomFrame
  <2>4. l \in LocType /\ l.room = r /\ l.num \in AnyCount /\ l.ret = "idle"
    <3>1. rooms[r].count \in AnyCount
      BY <1>4 DEF ConcRoom
    <3> QED
      BY <1>3, <3>1, NoLocalsOK DEF LocType
  <2> HIDE DEF l, room, r
  <2>5. LocalsOK(g)'
    BY <1>1, <1>2, <2>1, <2>4 DEF LocalsOK, Existing
  <2> QED
    BY <1>1, <2>1, <2>3, <2>4, <2>5, StepControl
<1>6. CASE Id(g) \notin players
  BY <1>1, <1>6, SharedFrame, DoneControl DEF JoinLoad
<1> QED
  BY <1>5, <1>6

LEMMA JoinStoreCountControl ==
    ASSUME Control, NEW g \in Goroutine, JoinStoreCount(g)
    PROVE  Control'
<1> DEFINE n == loc[g].num + 1
           room == [Room(g) EXCEPT !.count = n]
           l == [loc[g] EXCEPT !.row = SetPlayersColumn(Room(g).row, n)]
<1>1. /\ pc[g] = "join_store" /\ pc[g] \in HasRoom /\ "join_store" \notin TimerPC
      /\ "join_store" \notin LeavePC /\ "join_row" \notin LeavePC
      /\ "join_row" \in ConnPC /\ "join_row" \in HasRoom
  BY DEF JoinStoreCount, At, ConnPC, LeavePC, BeforeLock, UnderLock, TimerPC, HasRoom
<1>2. /\ loc[g] \in LocType /\ loc[g].room \in RoomID /\ loc[g].room \in Existing
      /\ Room(g) \in ConcRoom /\ Room(g).row \in AnyRow
      /\ Room(g).row.id = loc[g].room /\ SumOf(Room(g).ctl, loc[g].room)
  BY <1>1, RoomOf
<1>3. n \in Int /\ g[2] = "conn" /\ loc[g].ret = "idle"
  BY <1>1, Kinds DEF Control, LocalsOK, AnyCount
<1>4. /\ rooms' = [rooms EXCEPT ![loc[g].room] = room]
      /\ UNCHANGED <<lastRoomID, byPID, byID, lock>>
      /\ pc' = [pc EXCEPT ![g] = "join_row"] /\ loc' = [loc EXCEPT ![g] = l]
      /\ pc'[g] = "join_row" /\ loc'[g] = l
  BY DEF JoinStoreCount, SetRoom, Goto, SetLoc, Control
<1>5. /\ room \in ConcRoom /\ room.row.id = loc[g].room /\ SumOf(room.ctl, loc[g].room)
  BY <1>2, <1>3 DEF ConcRoom, AnyCount
<1>6. SharedOK'
  BY <1>2, <1>4, <1>5, RoomFrame
<1>7. /\ l \in LocType /\ l.room = loc[g].room /\ l.ret = "idle"
      /\ l.row \in AnyRow /\ l.row.id = loc[g].room
  <2>1. /\ SetPlayersColumn(Room(g).row, n) \in AnyRow
        /\ SetPlayersColumn(Room(g).row, n).id = loc[g].room
    BY <1>2, <1>3, RowEdits
  <2> QED
    BY <1>2, <1>3, <2>1 DEF LocType
<1> HIDE DEF l, room, n
<1>8. LocalsOK(g)'
  BY <1>1, <1>2, <1>3, <1>4, <1>7 DEF LocalsOK, Existing
<1> QED
  BY <1>1, <1>4, <1>6, <1>7, <1>8, StepControl

LEMMA JoinRowControl ==
    ASSUME Control, NEW g \in Goroutine, JoinRow(g)
    PROVE  Control'
<1> DEFINE row == loc[g].row
           room == [Room(g) EXCEPT !.row = row]
           l == [loc[g] EXCEPT !.sum = ControlSum(row)]
<1>1. /\ pc[g] = "join_row" /\ pc[g] \in HasRoom /\ "join_row" \notin TimerPC
      /\ "join_row" \notin LeavePC /\ "join_sum" \notin LeavePC
      /\ "join_sum" \in ConnPC /\ "join_sum" \in HasRoom
  BY DEF JoinRow, At, ConnPC, LeavePC, BeforeLock, UnderLock, TimerPC, HasRoom
<1>2. /\ loc[g] \in LocType /\ loc[g].room \in RoomID /\ loc[g].room \in Existing
      /\ Room(g) \in ConcRoom /\ SumOf(Room(g).ctl, loc[g].room)
  BY <1>1, RoomOf
<1>3. row \in AnyRow /\ row.id = loc[g].room /\ g[2] = "conn" /\ loc[g].ret = "idle"
  BY <1>1, Kinds DEF Control, LocalsOK
<1>4. SumOf(ControlSum(row), loc[g].room) /\ ControlSum(row) \in AnySum
  BY <1>3, SumOfRow
<1>5. /\ rooms' = [rooms EXCEPT ![loc[g].room] = room]
      /\ UNCHANGED <<lastRoomID, byPID, byID, lock>>
      /\ pc' = [pc EXCEPT ![g] = "join_sum"] /\ loc' = [loc EXCEPT ![g] = l]
      /\ pc'[g] = "join_sum" /\ loc'[g] = l
  BY DEF JoinRow, SetRoom, Goto, SetLoc, Control
<1> HIDE DEF row
<1>6. /\ room \in ConcRoom /\ room.row.id = loc[g].room /\ SumOf(room.ctl, loc[g].room)
  BY <1>2, <1>3 DEF ConcRoom
<1>7. SharedOK'
  BY <1>2, <1>5, <1>6, RoomFrame
<1>8. /\ l \in LocType /\ l.room = loc[g].room /\ l.ret = "idle"
      /\ l.sum = ControlSum(row)
  BY <1>2, <1>3, <1>4 DEF LocType
<1> HIDE DEF l, room
<1>9. LocalsOK(g)'
  BY <1>1, <1>2, <1>3, <1>4, <1>5, <1>8 DEF LocalsOK, Existing
<1> QED
  BY <1>1, <1>5, <1>7, <1>8, <1>9, StepControl

(* JoinSum and StartSum write the sum that was computed.                   *)
LEMMA WriteSum ==
    ASSUME Control, NEW g \in Goroutine, pc[g] \in {"join_sum", "start_sum"},
           SetRoom(g, [Room(g) EXCEPT !.ctl = loc[g].sum]),
           UNCHANGED <<lastRoomID, byID, lock>>,
           byPID' \in [PlayerID -> 0 .. lastRoomID]
    PROVE  SharedOK'
<1> DEFINE room == [Room(g) EXCEPT !.ctl = loc[g].sum]
<1>1. pc[g] \in HasRoom
  BY DEF HasRoom
<1>2. /\ loc[g].room \in RoomID /\ Room(g) \in ConcRoom
      /\ Room(g).row.id = loc[g].room
  BY <1>1, RoomOf
<1>3. SumOf(loc[g].sum, loc[g].room) /\ loc[g].sum \in AnySum
  BY SumOfIsSum DEF Control, LocalsOK
<1>4. /\ room \in ConcRoom /\ room.row.id = loc[g].room /\ SumOf(room.ctl, loc[g].room)
  BY <1>2, <1>3 DEF ConcRoom
<1>5. rooms' = [rooms EXCEPT ![loc[g].room] = room]
  BY DEF SetRoom
<1> HIDE DEF room
<1> QED
  BY <1>2, <1>4, <1>5 DEF Control, SharedOK, Existing

LEMMA JoinSumControl ==
    ASSUME Control, NEW g \in Goroutine, JoinSum(g)
    PROVE  Control'
<1>1. /\ pc[g] = "join_sum" /\ pc[g] \in HasRoom /\ "join_sum" \notin TimerPC
      /\ "join_sum" \notin LeavePC /\ "join_index" \notin LeavePC
      /\ "join_index" \in ConnPC /\ "join_index" \in HasRoom
  BY DEF JoinSum, At, ConnPC, LeavePC, BeforeLock, UnderLock, TimerPC, HasRoom
<1>2. loc[g].room \in Existing /\ g[2] = "conn" /\ loc[g].ret = "idle"
  BY <1>1, Kinds, RoomOf DEF Control, LocalsOK
<1>3. byPID' \in [PlayerID -> 0 .. lastRoomID]
  <2>1. loc[g].room \in 0 .. lastRoomID
    BY <1>2 DEF Existing, Control, SharedOK
  <2> QED
    BY <2>1 DEF JoinSum, Control, SharedOK
<1>4. SharedOK'
  BY <1>1, <1>3, WriteSum DEF JoinSum
<1>5. pc'[g] = "join_index" => LocalsOK(g)'
  BY <1>1, <1>2 DEF LocalsOK, JoinSum, Existing
<1> QED
  BY <1>1, <1>4, <1>5, MoveControl DEF JoinSum

LEMMA JoinIndexControl ==
    ASSUME Control, NEW g \in Goroutine, JoinIndex(g)
    PROVE  Control'
BY SharedFrame, DoneControl DEF JoinIndex

----------------------------------------------------------------------------
(* The steps of start.                                                     *)

LEMMA StartBeginControl ==
    ASSUME Control, NEW g \in Goroutine, g[2] = "conn", StartBegin(g)
    PROVE  Control'
<1> DEFINE r == byPID[Id(g)]
           l == [NoLocals EXCEPT !.room = r]
<1>1. /\ pc[g] = "idle" /\ r # NoRoom /\ UNCHANGED <<rooms, lastRoomID, byID, byPID, lock>>
      /\ pc' = [pc EXCEPT ![g] = "start_mark"] /\ loc' = [loc EXCEPT ![g] = l]
      /\ pc'[g] = "start_mark" /\ loc'[g] = l
  BY DEF StartBegin, At, UnchangedStore, Goto, SetLoc, Control
<1>2. r \in Existing /\ r \in Nat
  <2>1. Id(g) \in PlayerID
    BY Kinds, Ids
  <2>2. r \in 0 .. lastRoomID /\ lastRoomID \in Nat /\ r # 0
    BY <1>1, <2>1, Ids DEF Control, SharedOK
  <2> HIDE DEF r
  <2> QED
    BY <2>2 DEF Existing
<1>3. l \in LocType /\ l.room = r /\ l.ret = "idle"
  BY <1>2, NoLocalsOK DEF LocType
<1>4. SharedOK'
  BY <1>1, SharedFrame
<1>5. "start_mark" \in ConnPC /\ "start_mark" \notin LeavePC
  BY DEF ConnPC, LeavePC, BeforeLock, UnderLock
<1> HIDE DEF l, r
<1>6. LocalsOK(g)'
  BY <1>1, <1>2, <1>3, <1>5 DEF LocalsOK, Existing
<1> QED
  BY <1>1, <1>3, <1>4, <1>5, <1>6, StepControl

LEMMA StartMarkControl ==
    ASSUME Control, NEW g \in Goroutine, StartMark(g)
    PROVE  Control'
<1> DEFINE row == StartedRow(Room(g).row)
           room == [Room(g) EXCEPT !.started = TRUE, !.row = row]
           l == [loc[g] EXCEPT !.sum = ControlSum(row)]
<1>1. /\ pc[g] = "start_mark" /\ pc[g] \in HasRoom /\ "start_mark" \notin TimerPC
      /\ "start_mark" \notin LeavePC /\ "start_sum" \notin LeavePC
      /\ "start_sum" \in ConnPC /\ "start_sum" \in HasRoom
  BY DEF StartMark, At, ConnPC, LeavePC, BeforeLock, UnderLock, TimerPC, HasRoom
<1>2. /\ loc[g] \in LocType /\ loc[g].room \in RoomID /\ loc[g].room \in Existing
      /\ Room(g) \in ConcRoom /\ SumOf(Room(g).ctl, loc[g].room)
      /\ Room(g).row \in AnyRow /\ Room(g).row.id = loc[g].room
  BY <1>1, RoomOf
<1>3. row \in AnyRow /\ row.id = loc[g].room /\ g[2] = "conn" /\ loc[g].ret = "idle"
  <2>1. 0 \in Int
    OBVIOUS
  <2>2. row \in AnyRow /\ row.id = Room(g).row.id
    BY <1>2, <2>1, RowEdits
  <2> HIDE DEF row
  <2> QED
    BY <1>1, <1>2, <2>2, Kinds DEF Control, LocalsOK
<1>4. SumOf(ControlSum(row), loc[g].room) /\ ControlSum(row) \in AnySum
  BY <1>3, SumOfRow
<1>5. /\ rooms' = [rooms EXCEPT ![loc[g].room] = room]
      /\ UNCHANGED <<lastRoomID, byPID, byID, lock>>
      /\ pc' = [pc EXCEPT ![g] = "start_sum"] /\ loc' = [loc EXCEPT ![g] = l]
      /\ pc'[g] = "start_sum" /\ loc'[g] = l
  BY DEF StartMark, SetRoom, Goto, SetLoc, Control
<1> HIDE DEF row
<1>6. /\ room \in ConcRoom /\ room.row.id = loc[g].room /\ SumOf(room.ctl, loc[g].room)
  BY <1>2, <1>3 DEF ConcRoom
<1>7. SharedOK'
  BY <1>2, <1>5, <1>6, RoomFrame
<1>8. /\ l \in LocType /\ l.room = loc[g].room /\ l.ret = "idle"
      /\ l.sum = ControlSum(row)
  BY <1>2, <1>3, <1>4 DEF LocType
<1> HIDE DEF l, room
<1>9. LocalsOK(g)'
  BY <1>1, <1>2, <1>3, <1>4, <1>5, <1>8 DEF LocalsOK, Existing
<1> QED
  BY <1>1, <1>5, <1>7, <1>8, <1>9, StepControl

LEMMA StartSumControl ==
    ASSUME Control, NEW g \in Goroutine, StartSum(g)
    PROVE  Control'
<1>1. /\ pc[g] = "start_sum" /\ pc[g] \in HasRoom /\ "start_sum" \notin TimerPC
      /\ "start_sum" \notin LeavePC /\ "start_index" \notin LeavePC
      /\ "start_index" \in ConnPC /\ "start_index" \in HasRoom
  BY DEF StartSum, At, ConnPC, LeavePC, BeforeLock, UnderLock, TimerPC, HasRoom
<1>2. loc[g].room \in Existing /\ g[2] = "conn" /\ loc[g].ret = "idle"
  BY <1>1, Kinds, RoomOf DEF Control, LocalsOK
<1>3. byPID' \in [PlayerID -> 0 .. lastRoomID]
  BY DEF StartSum, Control, SharedOK
<1>4. SharedOK'
  BY <1>1, <1>3, WriteSum DEF StartSum
<1>5. pc'[g] = "start_index" => LocalsOK(g)'
  BY <1>1, <1>2 DEF LocalsOK, StartSum, Existing
<1> QED
  BY <1>1, <1>4, <1>5, MoveControl DEF StartSum

LEMMA StartIndexControl ==
    ASSUME Control, NEW g \in Goroutine, StartIndex(g)
    PROVE  Control'
<1>1. /\ pc[g] = "start_index" /\ pc[g] \in HasRoom /\ "start_index" \notin TimerPC
      /\ "start_index" \notin LeavePC /\ "start_arm" \notin LeavePC
      /\ "start_arm" \in ConnPC /\ "start_arm" \in HasRoom
  BY DEF StartIndex, At, ConnPC, LeavePC, BeforeLock, UnderLock, TimerPC, HasRoom
<1>2. loc[g].room \in Existing /\ g[2] = "conn" /\ loc[g].ret = "idle"
  BY <1>1, Kinds, RoomOf DEF Control, LocalsOK
<1>3. SharedOK'
  BY SharedFrame DEF StartIndex
<1>4. pc'[g] = "start_arm" => LocalsOK(g)'
  BY <1>1, <1>2 DEF LocalsOK, StartIndex, Existing
<1> QED
  BY <1>1, <1>3, <1>4, MoveControl DEF StartIndex

LEMMA StartArmControl ==
    ASSUME Control, NEW g \in Goroutine, StartArm(g)
    PROVE  Control'
BY SharedFrame, DoneControl DEF StartArm, UnchangedStore

----------------------------------------------------------------------------
(* leave, alive, the end of a connection and the timer.                    *)

LEMMA LeaveBeginControl ==
    ASSUME Control, NEW g \in Goroutine, g[2] = "conn", LeaveBegin(g)
    PROVE  Control'
<1>1. "idle" \in Returns \ {"reg_id"}
  BY DEF Returns
<1> QED
  BY <1>1, NoLocalsOK, IDsAtCall, CallControl DEF LeaveBegin, At, UnchangedStore

LEMMA AliveControl ==
    ASSUME Control, NEW g \in Goroutine, Alive(g)
    PROVE  Control'
<1>1. UNCHANGED <<rooms, lastRoomID, byID, byPID, lock, pc, loc>>
  BY DEF Alive, UnchangedStore
<1>2. Registering' = Registering
  BY <1>1 DEF Registering
<1> QED
  BY <1>1, <1>2, SharedFrame DEF Control, LocalsOK, IDsLeft, Existing

LEMMA DisconnectBeginControl ==
    ASSUME Control, NEW g \in Goroutine, g[2] = "conn", DisconnectBegin(g)
    PROVE  Control'
<1>1. "disconnect_delete" \in Returns \ {"reg_id"}
  BY DEF Returns
<1> QED
  BY <1>1, NoLocalsOK, IDsAtCall, CallControl DEF DisconnectBegin, At, UnchangedStore

LEMMA DisconnectDeleteControl ==
    ASSUME Control, NEW g \in Goroutine, DisconnectDelete(g)
    PROVE  Control'
<1>1. /\ pc[g] = "disconnect_delete" /\ "disconnect_delete" \notin TimerPC
      /\ "disconnect_delete" \notin LeavePC /\ "closed" \notin LeavePC
      /\ "closed" \in ConnPC /\ "closed" \notin HasRoom
  BY DEF DisconnectDelete, At, ConnPC, LeavePC, BeforeLock, UnderLock, TimerPC, HasRoom
<1>2. g[2] = "conn" /\ loc[g].ret = "idle"
  BY <1>1, Kinds DEF Control, LocalsOK
<1>3. SharedOK'
  BY SharedFrame DEF DisconnectDelete
<1>4. pc'[g] = "closed" => LocalsOK(g)'
  BY <1>1, <1>2 DEF LocalsOK, DisconnectDelete, Existing
<1> QED
  BY <1>1, <1>3, <1>4, MoveControl DEF DisconnectDelete

LEMMA FireControl ==
    ASSUME Control, NEW g \in Goroutine, g[2] = "timer", Fire(g)
    PROVE  Control'
<1>1. "timer_unregister" \in Returns \ {"reg_id"}
  BY DEF Returns
<1> QED
  BY <1>1, NoLocalsOK, IDsAtCall, CallControl DEF Fire, At, UnchangedStore

LEMMA TimerUnregisterControl ==
    ASSUME Control, NEW g \in Goroutine, TimerUnregister(g)
    PROVE  Control'
BY SharedFrame, DoneControl DEF TimerUnregister, UnchangedStore

(* A step of goroutine g.                                                  *)
StepOf(g) ==
    \/ /\ g[2] = "conn"
       /\ \/ RegBegin(g) \/ LeaveBegin(g) \/ StartBegin(g) \/ Alive(g)
          \/ DisconnectBegin(g) \/ \E r \in RoomID : JoinBegin(g, r)
    \/ g[2] = "timer" /\ Fire(g)
    \/ Step(g)

LEMMA NextSteps ==
    ASSUME Next
    PROVE  UNCHANGED vars \/ \E g \in Goroutine : StepOf(g)
<1>1. ASSUME NEW p \in Player, Request(<<p, "conn">>)
      PROVE  \E g \in Goroutine : StepOf(g)
  <2> DEFINE g == <<p, "conn">>
  <2>1. g \in Goroutine /\ g[2] = "conn"
    BY Kinds
  <2>2. \/ RegBegin(g) \/ LeaveBegin(g) \/ StartBegin(g) \/ Alive(g)
        \/ DisconnectBegin(g) \/ \E r \in RoomID : JoinBegin(g, r)
    BY <1>1 DEF Request
  <2> HIDE DEF g
  <2> QED
    BY <2>1, <2>2 DEF StepOf
<1>2. ASSUME NEW p \in Player, Fire(<<p, "timer">>)
      PROVE  \E g \in Goroutine : StepOf(g)
  <2> DEFINE g == <<p, "timer">>
  <2>1. g \in Goroutine /\ g[2] = "timer" /\ Fire(g)
    BY <1>2, Kinds
  <2> HIDE DEF g
  <2> QED
    BY <2>1 DEF StepOf
<1>3. (\E g \in Goroutine : Step(g)) => \E g \in Goroutine : StepOf(g)
  BY DEF StepOf
<1> QED
  BY <1>1, <1>2, <1>3 DEF Next, Rest, StepOf

LEMMA StepKeepsControl ==
    ASSUME Control, NEW g \in Goroutine, Step(g)
    PROVE  Control'
BY LeaveClearControl, LeaveFindControl, LeaveLockControl, LeaveWriteControl,
   LeaveRowControl, LeaveSumControl, LeaveIndexControl, RegIDControl,
   RegHostControl, RegSumControl, RegArmControl, JoinLoadControl,
   JoinStoreCountControl, JoinRowControl, JoinSumControl, JoinIndexControl,
   StartMarkControl, StartSumControl, StartIndexControl, StartArmControl,
   DisconnectDeleteControl, TimerUnregisterControl DEF Step, LeaveStep

LEMMA ControlInductive ==
    ASSUME Control, [Next]_vars
    PROVE  Control'
<1>1. CASE UNCHANGED vars
  <2>1. Registering' = Registering
    BY <1>1 DEF vars, Registering
  <2> QED
    BY <1>1, <2>1 DEF vars, Control, SharedOK, LocalsOK, IDsLeft, Existing
<1>2. CASE Next
  BY <1>1, <1>2, NextSteps, StepKeepsControl, RegBeginControl, LeaveBeginControl,
     StartBeginControl, AliveControl, DisconnectBeginControl, JoinBeginControl,
     FireControl DEF StepOf
<1> QED
  BY <1>1, <1>2

(* Control, for any number of players, rooms and requests: handlers only   *)
(* ever work on rooms that exist, the row and the sum a handler carries    *)
(* from one step to the next are of the room it writes them to, and every  *)
(* request to create a room that was let in finds an id.                   *)
THEOREM ControlAlways == Spec => []Control
<1>1. Init => Control
  BY InitControl
<1>2. Control /\ [Next]_vars => Control'
  BY ControlInductive
<1> QED
  BY <1>1, <1>2, PTL DEF Spec

----------------------------------------------------------------------------
(* What a step of one goroutine leaves alone.                              *)
LEMMA OthersStay ==
    ASSUME Control, NEW g \in Goroutine, StepOf(g),
           NEW h \in Goroutine, h # g
    PROVE  pc'[h] = pc[h] /\ loc'[h] = loc[h]
<1>1. pc \in [Goroutine -> ConnPC \cup TimerPC] /\ loc \in [Goroutine -> LocType]
  BY DEF Control
<1>2. CASE LeaveStep(g)
  BY <1>1, <1>2 DEF LeaveStep, LeaveClear, LeaveFind, LeaveLock, LeaveWrite, LeaveRow,
     LeaveSum, LeaveIndex, Goto, SetLoc, Return
<1>3. CASE \/ \E m \in Capacities : RegID(g, m)
           \/ RegHost(g) \/ RegSum(g) \/ RegArm(g)
  BY <1>1, <1>3 DEF RegID, RegHost, RegSum, RegArm, Goto, SetLoc, Done
<1>4. CASE \/ JoinLoad(g) \/ JoinStoreCount(g) \/ JoinRow(g) \/ JoinSum(g)
           \/ JoinIndex(g)
  BY <1>1, <1>4 DEF JoinLoad, JoinStoreCount, JoinRow, JoinSum, JoinIndex, Goto, SetLoc,
     Done
<1>5. CASE \/ StartMark(g) \/ StartSum(g) \/ StartIndex(g) \/ StartArm(g)
           \/ DisconnectDelete(g) \/ TimerUnregister(g)
  BY <1>1, <1>5 DEF StartMark, StartSum, StartIndex, StartArm, DisconnectDelete,
     TimerUnregister, Goto, SetLoc, Done
<1>6. CASE \/ RegBegin(g) \/ LeaveBegin(g) \/ StartBegin(g) \/ Alive(g)
           \/ DisconnectBegin(g) \/ Fire(g) \/ \E r \in RoomID : JoinBegin(g, r)
  BY <1>1, <1>6 DEF RegBegin, LeaveBegin, StartBegin, Alive, DisconnectBegin, Fire,
     JoinBegin, CallLeave, Goto, SetLoc
<1> QED
  BY <1>2, <1>3, <1>4, <1>5, <1>6 DEF StepOf, Step

----------------------------------------------------------------------------
(* The mutex.  A step of g takes a free lock, gives its own back or leaves *)
(* all of them alone.                                                      *)
Locks(g) == LeaveLock(g) \/ LeaveIndex(g)

LEMMA LockKept ==
    ASSUME Control, NEW g \in Goroutine, StepOf(g), ~ Locks(g)
    PROVE  /\ lock' = lock
           /\ pc'[g] \in UnderLock => pc[g] \in UnderLock /\ loc'[g].room = loc[g].room
<1>1. pc \in [Goroutine -> ConnPC \cup TimerPC] /\ loc \in [Goroutine -> LocType]
  BY DEF Control
<1>2. CASE LeaveClear(g)
  BY <1>1, <1>2 DEF LeaveClear, Goto, UnderLock
<1>3. CASE LeaveFind(g)
  <2>1. loc[g].ret \in Returns
    BY <1>1 DEF LocType
  <2> QED
    BY <1>1, <1>3, <2>1 DEF LeaveFind, Goto, UnderLock, Return, Returns
<1>4. CASE LeaveWrite(g) \/ LeaveRow(g) \/ LeaveSum(g)
  <2>1. /\ lock' = lock /\ pc[g] \in UnderLock
        /\ \/ \E w : loc' = [loc EXCEPT ![g] = [loc[g] EXCEPT !.row = w]]
           \/ \E w : loc' = [loc EXCEPT ![g] = [loc[g] EXCEPT !.sum = w]]
           \/ \E w : loc' = [loc EXCEPT ![g] = [loc[g] EXCEPT !.closed = w]]
    BY <1>4 DEF LeaveWrite, LeaveRow, LeaveSum, UnderLock, At, SetLoc
  <2> QED
    BY <1>1, <2>1 DEF LocType
<1>5. CASE \/ \E m \in Capacities : RegID(g, m)
           \/ RegHost(g) \/ RegSum(g) \/ RegArm(g)
  BY <1>1, <1>5 DEF RegID, RegHost, RegSum, RegArm, Goto, Done, UnderLock
<1>6. CASE \/ JoinLoad(g) \/ JoinStoreCount(g) \/ JoinRow(g) \/ JoinSum(g)
           \/ JoinIndex(g)
  BY <1>1, <1>6 DEF JoinLoad, JoinStoreCount, JoinRow, JoinSum, JoinIndex, Goto,
     Done, UnderLock
<1>7. CASE \/ StartMark(g) \/ StartSum(g) \/ StartIndex(g) \/ StartArm(g)
           \/ DisconnectDelete(g) \/ TimerUnregister(g)
  BY <1>1, <1>7 DEF StartMark, StartSum, StartIndex, StartArm, DisconnectDelete,
     TimerUnregister, Goto, Done, UnderLock
<1>8. CASE \/ RegBegin(g) \/ LeaveBegin(g) \/ StartBegin(g) \/ Alive(g)
           \/ DisconnectBegin(g) \/ Fire(g) \/ \E r \in RoomID : JoinBegin(g, r)
  BY <1>1, <1>8 DEF RegBegin, LeaveBegin, StartBegin, Alive, DisconnectBegin, Fire,
     JoinBegin, CallLeave, Goto, UnderLock, At
<1> QED
  BY <1>2, <1>3, <1>4, <1>5, <1>6, <1>7, <1>8 DEF StepOf, Step, LeaveStep, Locks

LEMMA MutexStep ==
    ASSUME Control, MutexHeld, NEW g \in Goroutine, StepOf(g)
    PROVE  MutexHeld'
<1>1. /\ pc \in [Goroutine -> ConnPC \cup TimerPC] /\ loc \in [Goroutine -> LocType]
      /\ lock \in [RoomID -> Goroutine \cup {Free}] /\ Free \notin Goroutine
  BY ConcAssumption DEF Control, SharedOK
<1>2. \A h \in Goroutine : h # g => pc'[h] = pc[h] /\ loc'[h] = loc[h]
  BY OthersStay
<1>3. \A h \in Goroutine : pc[h] \in UnderLock => loc[h].room \in RoomID
  BY RoomOf, PointsOf
<1>4. CASE ~ Locks(g)
  BY <1>2, <1>4, LockKept DEF MutexHeld
<1>5. CASE LeaveLock(g)
  <2>1. loc[g].room \in RoomID
    BY <1>5, RoomOf DEF LeaveLock, At, HasRoom
  <2>2. loc'[g].room = loc[g].room /\ lock'[loc[g].room] = g
    BY <1>1, <1>5, <2>1 DEF LeaveLock, SetLoc, LocType
  <2>3. \A h \in Goroutine : h # g /\ pc[h] \in UnderLock =>
           loc[h].room # loc[g].room /\ lock'[loc[h].room] = lock[loc[h].room]
    BY <1>1, <1>3, <1>5, <2>1 DEF LeaveLock, MutexHeld
  <2> QED
    BY <1>2, <2>2, <2>3 DEF MutexHeld
<1>6. CASE LeaveIndex(g)
  <2>1. pc[g] \in UnderLock /\ pc'[g] \notin UnderLock
    <3>1. loc[g].ret \in Returns
      BY <1>1 DEF LocType
    <3> QED
      BY <1>1, <1>6, <3>1 DEF LeaveIndex, At, Return, Goto, UnderLock, Returns
  <2>2. \A h \in Goroutine : h # g /\ pc[h] \in UnderLock =>
           loc[h].room # loc[g].room /\ lock'[loc[h].room] = lock[loc[h].room]
    BY <1>1, <1>3, <1>6, <2>1 DEF LeaveIndex, MutexHeld
  <2> QED
    BY <1>2, <2>1, <2>2 DEF MutexHeld
<1> QED
  BY <1>4, <1>5, <1>6 DEF Locks

(* LeaveExclusive, for any number of players and rooms: between Lock and   *)
(* Unlock of a room's mutex there is never a second goroutine, although    *)
(* the mutex is looked up and taken only after FindByHost.                 *)
THEOREM LeaveExclusiveAlways == Spec => []LeaveExclusive
<1>1. Init => MutexHeld
  BY DEF Init, MutexHeld, UnderLock
<1>2. Control /\ MutexHeld /\ [Next]_vars => MutexHeld'
  <2>1. UNCHANGED vars /\ MutexHeld => MutexHeld'
    BY DEF vars, MutexHeld
  <2> QED
    BY <2>1, NextSteps, MutexStep
<1>3. MutexHeld => LeaveExclusive
  BY DEF MutexHeld, LeaveExclusive, InLeave, UnderLock
<1> QED
  BY <1>1, <1>2, <1>3, ControlAlways, PTL DEF Spec

----------------------------------------------------------------------------
(* The entries of roomsByPID and of the player map.                        *)
LEMMA EntriesKept ==
    ASSUME NEW g \in Goroutine, StepOf(g)
    PROVE  /\ byPID' = byPID \/ LeaveLock(g) \/ RegHost(g) \/ JoinSum(g)
           /\ players' = players \/ DisconnectDelete(g)
<1>2. CASE LeaveStep(g)
  BY <1>2 DEF LeaveStep, LeaveClear, LeaveFind, LeaveLock, LeaveWrite, LeaveRow,
     LeaveSum, LeaveIndex, UnchangedStore
<1>3. CASE \/ \E m \in Capacities : RegID(g, m)
           \/ RegHost(g) \/ RegSum(g) \/ RegArm(g)
  BY <1>3 DEF RegID, RegHost, RegSum, RegArm, UnchangedStore
<1>4. CASE \/ JoinLoad(g) \/ JoinStoreCount(g) \/ JoinRow(g) \/ JoinSum(g)
           \/ JoinIndex(g)
  BY <1>4 DEF JoinLoad, JoinStoreCount, JoinRow, JoinSum, JoinIndex
<1>5. CASE \/ StartMark(g) \/ StartSum(g) \/ StartIndex(g) \/ StartArm(g)
           \/ DisconnectDelete(g) \/ TimerUnregister(g)
  BY <1>5 DEF StartMark, StartSum, StartIndex, StartArm, DisconnectDelete,
     TimerUnregister, UnchangedStore
<1>6. CASE \/ RegBegin(g) \/ LeaveBegin(g) \/ StartBegin(g) \/ Alive(g)
           \/ DisconnectBegin(g) \/ Fire(g) \/ \E r \in RoomID : JoinBegin(g, r)
  BY <1>6 DEF RegBegin, LeaveBegin, StartBegin, Alive, DisconnectBegin, Fire,
     JoinBegin, UnchangedStore
<1> QED
  BY <1>2, <1>3, <1>4, <1>5, <1>6 DEF StepOf, Step

(* How a connection gets past the removal of its entry: it was there, or   *)
(* it finds no entry, or it removes the entry in this step.                *)
LEMMA Departing ==
    ASSUME Control, NEW p \in Player, StepOf(<<p, "conn">>), Departed(p)'
    PROVE  /\ Departed(p) \/ byPID[p] = NoRoom \/ LeaveLock(<<p, "conn">>)
           /\ ~ RegHost(<<p, "conn">>) /\ ~ JoinSum(<<p, "conn">>)
           /\ pc'[<<p, "conn">>] = "closed" =>
                 pc[<<p, "conn">>] = "closed" \/ DisconnectDelete(<<p, "conn">>)
<1> DEFINE g == <<p, "conn">>
<1>1. pc \in [Goroutine -> ConnPC \cup TimerPC] /\ loc \in [Goroutine -> LocType]
  BY DEF Control
<1>2. g \in Goroutine /\ Id(g) = p /\ StepOf(g) /\ LocalsOK(g) /\ g[2] = "conn"
  BY Kinds DEF Id, Control
<1>3. /\ Departed(p) <=> \/ pc[g] \in {"disconnect_delete", "closed"}
                         \/ pc[g] \in UnderLock /\ loc[g].ret = "disconnect_delete"
      /\ \/ pc'[g] \in {"disconnect_delete", "closed"}
         \/ pc'[g] \in UnderLock /\ loc'[g].ret = "disconnect_delete"
  BY DEF Departed
<1> HIDE DEF g
<1> SUFFICES /\ Departed(p) \/ byPID[p] = NoRoom \/ LeaveLock(g)
             /\ ~ RegHost(g) /\ ~ JoinSum(g)
             /\ pc'[g] = "closed" => pc[g] = "closed" \/ DisconnectDelete(g)
  BY DEF g
<1>4. loc[g].ret \in Returns /\ (pc[g] \notin LeavePC => loc[g].ret = "idle")
  BY <1>1, <1>2 DEF LocType, LocalsOK
<1>5. CASE LeaveClear(g)
  BY <1>1, <1>2, <1>3, <1>5 DEF LeaveClear, Goto, UnderLock
<1>6. CASE LeaveFind(g)
  BY <1>1, <1>2, <1>3, <1>4, <1>6 DEF LeaveFind, Goto, Return, UnderLock, At,
     RegHost, JoinSum, Returns
<1>7. CASE LeaveLock(g)
  BY <1>1, <1>2, <1>7 DEF LeaveLock, At, Goto, RegHost, JoinSum
<1>8. CASE LeaveWrite(g) \/ LeaveRow(g) \/ LeaveSum(g)
  <2>1. /\ pc[g] \in UnderLock /\ pc'[g] \in UnderLock
        /\ \/ \E w : loc' = [loc EXCEPT ![g] = [loc[g] EXCEPT !.row = w]]
           \/ \E w : loc' = [loc EXCEPT ![g] = [loc[g] EXCEPT !.sum = w]]
           \/ \E w : loc' = [loc EXCEPT ![g] = [loc[g] EXCEPT !.closed = w]]
    BY <1>1, <1>2, <1>8 DEF LeaveWrite, LeaveRow, LeaveSum, UnderLock, At, SetLoc, Goto
  <2>2. loc'[g].ret = loc[g].ret
    BY <1>1, <1>2, <2>1 DEF LocType
  <2> QED
    BY <1>3, <2>1, <2>2 DEF UnderLock, RegHost, JoinSum, At
<1>9. CASE LeaveIndex(g)
  <2>1. pc[g] = "leave_index" /\ pc'[g] = loc[g].ret
    BY <1>1, <1>2, <1>9 DEF LeaveIndex, At, Return, Goto
  <2> QED
    BY <1>3, <1>4, <2>1 DEF UnderLock, RegHost, JoinSum, At, Returns
<1>10. CASE \/ \E m \in Capacities : RegID(g, m)
            \/ RegHost(g) \/ RegSum(g) \/ RegArm(g)
  BY <1>1, <1>2, <1>3, <1>10 DEF RegID, RegHost, RegSum, RegArm, Goto, Done, UnderLock
<1>11. CASE \/ JoinLoad(g) \/ JoinStoreCount(g) \/ JoinRow(g) \/ JoinSum(g)
            \/ JoinIndex(g)
  BY <1>1, <1>2, <1>3, <1>11 DEF JoinLoad, JoinStoreCount, JoinRow, JoinSum, JoinIndex,
     Goto, Done, UnderLock
<1>12. CASE \/ StartMark(g) \/ StartSum(g) \/ StartIndex(g) \/ StartArm(g)
            \/ TimerUnregister(g)
  BY <1>1, <1>2, <1>3, <1>12 DEF StartMark, StartSum, StartIndex, StartArm,
     TimerUnregister, Goto, Done, UnderLock
<1>13. CASE DisconnectDelete(g)
  BY <1>1, <1>2, <1>3, <1>13 DEF DisconnectDelete, At, Goto, RegHost, JoinSum
<1>14. CASE Alive(g)
  BY <1>2, <1>3, <1>14 DEF Alive, At, UnderLock, RegHost, JoinSum
<1>15. CASE \/ RegBegin(g) \/ LeaveBegin(g) \/ StartBegin(g)
            \/ DisconnectBegin(g) \/ Fire(g) \/ \E r \in RoomID : JoinBegin(g, r)
  BY <1>1, <1>2, <1>3, <1>15 DEF RegBegin, LeaveBegin, StartBegin, DisconnectBegin, Fire,
     JoinBegin, CallLeave, Goto, UnderLock, At
<1> QED
  BY <1>2, <1>5, <1>6, <1>7, <1>8, <1>9, <1>10, <1>11, <1>12, <1>13, <1>14, <1>15
     DEF StepOf, Step, LeaveStep

LEMMA EntriesStep ==
    ASSUME Control, EntriesGone, NEW g \in Goroutine, StepOf(g)
    PROVE  EntriesGone'
<1> SUFFICES ASSUME NEW p \in Player
             PROVE  /\ Departed(p)' => byPID'[p] = NoRoom
                    /\ pc'[<<p, "conn">>] = "closed" => p \notin players'
  BY DEF EntriesGone
<1>1. /\ byPID \in [PlayerID -> 0 .. lastRoomID] /\ p \in PlayerID /\ Id(g) \in PlayerID
      /\ Departed(p) => byPID[p] = NoRoom
      /\ pc[<<p, "conn">>] = "closed" => p \notin players
      /\ <<p, "conn">> \in Goroutine
  BY Kinds, Ids DEF Control, SharedOK, EntriesGone
<1>2. players' \subseteq players
  BY EntriesKept DEF DisconnectDelete
<1>3. LeaveLock(g) /\ Id(g) = p => byPID'[p] = NoRoom
  BY <1>1 DEF LeaveLock
<1>4. Id(g) # p => byPID'[p] = byPID[p]
  BY <1>1, EntriesKept DEF LeaveLock, RegHost, JoinSum
<1>5. CASE g = <<p, "conn">>
  <2>1. Id(g) = p
    BY <1>5 DEF Id
  <2>2. pc'[g] = "closed" => Departed(p)'
    BY <1>5 DEF Departed
  <2>3. DisconnectDelete(g) => p \notin players'
    BY <2>1 DEF DisconnectDelete
  <2> QED
    BY <1>1, <1>2, <1>3, <1>5, <2>1, <2>2, <2>3, Departing, EntriesKept
<1>6. CASE g # <<p, "conn">>
  <2>1. pc'[<<p, "conn">>] = pc[<<p, "conn">>] /\ loc'[<<p, "conn">>] = loc[<<p, "conn">>]
    BY <1>1, <1>6, OthersStay
  <2>2. Departed(p)' <=> Departed(p)
    BY <2>1 DEF Departed
  <2>3. Id(g) = p => byPID'[p] = byPID[p] \/ LeaveLock(g)
    <3>1. Id(g) = p => g[2] = "timer"
      BY <1>6, Kinds
    <3>2. g[2] = "timer" => pc[g] \in TimerPC
      BY DEF Control, LocalsOK
    <3>3. "reg_host" \notin TimerPC /\ "join_sum" \notin TimerPC
      BY DEF TimerPC, LeavePC, BeforeLock, UnderLock
    <3> QED
      BY <3>1, <3>2, <3>3, EntriesKept DEF RegHost, JoinSum, At
  <2> QED
    BY <1>1, <1>2, <1>3, <1>4, <2>1, <2>2, <2>3
<1> QED
  BY <1>5, <1>6

(* NoEntryAfterDisconnect, for any number of players and timers: OnDis-    *)
(* connect leaves neither a roomsByPID entry nor a player record behind,   *)
(* and no step of the player's timer or of another connection makes one.   *)
THEOREM NoEntryAfterDisconnectAlways == Spec => []NoEntryAfterDisconnect
<1>1. Init => EntriesGone
  BY Kinds DEF Init, EntriesGone, Departed, UnderLock
<1>2. Control /\ EntriesGone /\ [Next]_vars => EntriesGone'
  <2>1. UNCHANGED vars /\ EntriesGone => EntriesGone'
    BY DEF vars, EntriesGone, Departed
  <2> QED
    BY <2>1, NextSteps, EntriesStep
<1>3. EntriesGone => NoEntryAfterDisconnect
  BY DEF EntriesGone, Departed, NoEntryAfterDisconnect
<1> QED
  BY <1>1, <1>2, <1>3, ControlAlways, PTL DEF Spec

----------------------------------------------------------------------------
(* The index by control sum.                                               *)
Indexing == {"leave_sum", "leave_index", "join_row", "join_sum", "join_index",
             "start_sum", "start_index", "reg_host", "reg_sum"}

(* Unindexing a sum of one room does not hide another one.                 *)
LEMMA OtherSumsStay ==
    ASSUME DistinctSums, NEW r, NEW q, r # q, NEW c, SumOf(c, r), NEW s, SumOf(s, q),
           <<c, r>> \in bySum
    PROVE  <<c, r>> \in WithoutSum(s) /\ <<c, r>> \in WithSum(s, q)
<1>1. c # s
  BY SumOfDistinct
<1> QED
  BY <1>1 DEF WithoutSum, WithSum

LEMMA ListedIDs ==
    ASSUME Control
    PROVE  Existing \subseteq RoomID /\ byID \subseteq RoomID
<1>1. ASSUME NEW r \in Existing
      PROVE  r \in RoomID
  BY Ids DEF Control, SharedOK, Existing
<1>2. byID \subseteq Existing
  BY DEF Control, SharedOK
<1> QED
  BY <1>1, <1>2

(* A step that touches no sum, at a point where nothing is to be indexed.  *)
LEMMA QuietSums ==
    ASSUME Control, SumsIndexed, NEW g \in Goroutine, StepOf(g),
           bySum' = bySum, byID' = byID,
           \A r \in RoomID : rooms'[r].ctl = rooms[r].ctl,
           pc[g] \notin Indexing, pc'[g] # "leave_index"
    PROVE  SumsIndexed'
<1>1. \A h \in Goroutine : h # g => pc'[h] = pc[h] /\ loc'[h] = loc[h]
  BY OthersStay
<1>2. \A r \in byID : r \in RoomID
  BY ListedIDs
<1>3. \A h \in Goroutine, r \in byID : WillIndex(h, r) => WillIndex(h, r)'
  BY <1>1 DEF WillIndex, Indexing
<1> QED
  BY <1>1, <1>2, <1>3 DEF SumsIndexed

(* A step of a goroutine that works on room q.                             *)
LEMMA BusySums ==
    ASSUME Control, SumsIndexed, NEW g \in Goroutine, StepOf(g), NEW q \in RoomID,
           pc[g] \in Indexing => loc[g].room = q,
           byID' \subseteq byID \/ (byID' = byID \cup {q} /\ q \notin Existing),
           \A r \in byID' \ {q} : /\ rooms'[r].ctl = rooms[r].ctl
                                  /\ <<rooms[r].ctl, r>> \in bySum =>
                                        <<rooms[r].ctl, r>> \in bySum',
           q \in byID' => \/ <<rooms'[q].ctl, q>> \in bySum'
                          \/ pc'[g] \in Indexing /\ loc'[g].room = q,
           pc'[g] = "leave_index" /\ loc'[g].closed => loc'[g].room \notin byID'
    PROVE  SumsIndexed'
<1>1. \A h \in Goroutine : h # g => pc'[h] = pc[h] /\ loc'[h] = loc[h]
  BY OthersStay
<1>2. ASSUME NEW r \in byID', r # q
      PROVE  \/ <<rooms'[r].ctl, r>> \in bySum'
             \/ \E h \in Goroutine : WillIndex(h, r)'
  <2>1. r \in byID
    BY <1>2
  <2>2. ~ WillIndex(g, r)
    BY <1>2 DEF WillIndex, Indexing
  <2>3. \A h \in Goroutine : WillIndex(h, r) => WillIndex(h, r)'
    BY <1>1, <2>2 DEF WillIndex
  <2> QED
    BY <1>2, <2>1, <2>3 DEF SumsIndexed
<1>3. q \in byID' => \/ <<rooms'[q].ctl, q>> \in bySum'
                     \/ \E h \in Goroutine : WillIndex(h, q)'
  BY DEF WillIndex, Indexing
<1>4. ASSUME NEW h \in Goroutine, h # g, pc'[h] = "leave_index", loc'[h].closed
      PROVE  loc'[h].room \notin byID'
  <2>1. pc[h] = "leave_index" /\ loc[h].closed /\ loc'[h].room = loc[h].room
    BY <1>1, <1>4
  <2>2. loc[h].room \in Existing
    BY <2>1 DEF Control, LocalsOK, HasRoom, UnderLock
  <2> QED
    BY <2>1, <2>2 DEF SumsIndexed
<1> QED
  BY <1>2, <1>3, <1>4 DEF SumsIndexed

LEMMA RoomSums ==
    ASSUME Control, NEW r \in RoomID
    PROVE  SumOf(rooms[r].ctl, r)
BY DEF Control, SharedOK

(* The common form of the steps that index or unindex the goroutine's room.*)
LEMMA OwnSums ==
    ASSUME Control, DistinctSums, SumsIndexed, NEW g \in Goroutine, StepOf(g),
           pc[g] \in HasRoom, NEW room,
           rooms' = [rooms EXCEPT ![loc[g].room] = room] \/ rooms' = rooms,
           NEW s, SumOf(s, loc[g].room),
           bySum' \in {bySum, WithoutSum(s), WithSum(s, loc[g].room)},
           byID' = byID \/ byID' = byID \ {loc[g].room},
           loc[g].room \in byID' =>
              \/ <<rooms'[loc[g].room].ctl, loc[g].room>> \in bySum'
              \/ pc'[g] \in Indexing /\ loc'[g].room = loc[g].room,
           pc'[g] = "leave_index" /\ loc'[g].closed => loc'[g].room \notin byID'
    PROVE  SumsIndexed'
<1> DEFINE q == loc[g].room
<1>1. q \in RoomID
  BY RoomOf
<1>2. \A r \in byID' \ {q} : r \in RoomID /\ r \in byID
  BY ListedIDs
<1>3. ASSUME NEW r \in byID' \ {q}
      PROVE  /\ rooms'[r].ctl = rooms[r].ctl
             /\ <<rooms[r].ctl, r>> \in bySum => <<rooms[r].ctl, r>> \in bySum'
  <2>1. SumOf(rooms[r].ctl, r)
    BY <1>2, RoomSums
  <2>2. rooms'[r] = rooms[r]
    BY <1>2 DEF Control, SharedOK
  <2> QED
    BY <2>1, <2>2, OtherSumsStay
<1>4. byID' \subseteq byID
  OBVIOUS
<1> HIDE DEF q
<1>5. /\ q \in byID' => \/ <<rooms'[q].ctl, q>> \in bySum'
                        \/ pc'[g] \in Indexing /\ loc'[g].room = q
      /\ pc[g] \in Indexing => loc[g].room = q
  BY DEF q
<1> QED
  BY <1>1, <1>3, <1>4, <1>5, BusySums

LEMMA SumAdded ==
    ASSUME NEW s, NEW r
    PROVE  <<s, r>> \in WithSum(s, r)
BY DEF WithSum

LEMMA LeaveSums ==
    ASSUME Control, DistinctSums, SumsIndexed, NEW g \in Goroutine, StepOf(g),
           LeaveStep(g)
    PROVE  SumsIndexed'
<1>1. pc \in [Goroutine -> ConnPC \cup TimerPC] /\ loc \in [Goroutine -> LocType]
  BY DEF Control
<1>2. loc[g].ret \in Returns /\ rooms \in [RoomID -> ConcRoom]
  BY <1>1 DEF LocType, Control, SharedOK
<1>3. CASE LeaveClear(g) \/ LeaveFind(g) \/ LeaveLock(g)
  <2>1. rooms' = rooms /\ bySum' = bySum /\ byID' = byID /\ pc[g] \notin Indexing
    BY <1>3 DEF LeaveClear, LeaveFind, LeaveLock, At, Indexing, UnchangedStore
  <2>2. pc'[g] # "leave_index"
    BY <1>1, <1>2, <1>3 DEF LeaveClear, LeaveFind, LeaveLock, Goto, Return, Returns
  <2> QED
    BY <2>1, <2>2, QuietSums
<1>4. CASE LeaveWrite(g)
  <2>1. loc[g].room \in RoomID /\ Room(g) \in ConcRoom
    BY <1>4, RoomOf DEF LeaveWrite, At, HasRoom, UnderLock
  <2>2. \A r \in RoomID : rooms'[r].ctl = rooms[r].ctl
    BY <1>2, <1>4, <2>1 DEF LeaveWrite, SetRoom, Room, ConcRoom
  <2>3. /\ bySum' = bySum /\ byID' = byID /\ pc[g] \notin Indexing
        /\ pc'[g] # "leave_index"
    BY <1>1, <1>4 DEF LeaveWrite, At, Goto, Indexing
  <2> QED
    BY <2>2, <2>3, QuietSums
<1>5. CASE LeaveRow(g)
  <2>1. pc[g] \in HasRoom /\ SumOf(loc[g].old, loc[g].room)
    BY <1>5 DEF LeaveRow, At, HasRoom, UnderLock, Control, LocalsOK
  <2>2. /\ bySum' = WithoutSum(loc[g].old) /\ byID' = byID
        /\ pc'[g] = "leave_sum" /\ loc'[g].room = loc[g].room
    BY <1>1, <1>5 DEF LeaveRow, Goto, SetLoc, LocType
  <2>3. \E room : rooms' = [rooms EXCEPT ![loc[g].room] = room]
    BY <1>5 DEF LeaveRow, SetRoom
  <2> QED
    BY <2>1, <2>2, <2>3, OwnSums DEF Indexing
<1>6. CASE LeaveSum(g)
  <2>1. /\ pc[g] \in HasRoom /\ SumOf(loc[g].sum, loc[g].room)
    BY <1>6 DEF LeaveSum, At, HasRoom, UnderLock, Control, LocalsOK
  <2>2. /\ bySum' = bySum
        /\ byID' = byID \/ byID' = byID \ {loc[g].room}
        /\ pc'[g] = "leave_index" /\ loc'[g].room = loc[g].room
        /\ loc'[g].closed => loc[g].room \notin byID'
    BY <1>1, <1>6 DEF LeaveSum, Goto, SetLoc, LocType
  <2>3. \E room : rooms' = [rooms EXCEPT ![loc[g].room] = room]
    BY <1>6 DEF LeaveSum, SetRoom
  <2> QED
    BY <2>1, <2>2, <2>3, OwnSums DEF Indexing
<1>7. CASE LeaveIndex(g)
  <2>1. pc[g] \in HasRoom /\ pc[g] = "leave_index" /\ SumOf(Room(g).ctl, loc[g].room)
    BY <1>7, RoomOf DEF LeaveIndex, At, HasRoom, UnderLock
  <2>2. /\ rooms' = rooms /\ byID' = byID /\ pc'[g] # "leave_index"
        /\ IF loc[g].closed THEN bySum' = WithoutSum(Room(g).ctl)
           ELSE bySum' = WithSum(Room(g).ctl, loc[g].room)
    BY <1>1, <1>2, <1>7 DEF LeaveIndex, Return, Goto, Returns
  <2>3. loc[g].room \in byID' => <<rooms'[loc[g].room].ctl, loc[g].room>> \in bySum'
    BY <2>1, <2>2, SumAdded DEF SumsIndexed, Room
  <2> QED
    BY <2>1, <2>2, <2>3, OwnSums
<1> QED
  BY <1>3, <1>4, <1>5, <1>6, <1>7 DEF LeaveStep

LEMMA RegSums ==
    ASSUME Control, DistinctSums, SumsIndexed, NEW g \in Goroutine, StepOf(g),
           \/ \E m \in Capacities : RegID(g, m)
           \/ RegHost(g) \/ RegSum(g) \/ RegArm(g)
    PROVE  SumsIndexed'
<1>1. pc \in [Goroutine -> ConnPC \cup TimerPC] /\ loc \in [Goroutine -> LocType]
  BY DEF Control
<1>2. ASSUME NEW m \in Capacities, RegID(g, m)
      PROVE  SumsIndexed'
  <2> DEFINE q == lastRoomID + 1
  <2>1. /\ lastRoomID' = q /\ lastRoomID \in Nat /\ lastRoomID' \in 0 .. MaxRoomID
    <3>1. Control'
      BY <1>2, RegIDControl
    <3>2. lastRoomID' = q
      BY <1>2 DEF RegID
    <3> HIDE DEF q
    <3> QED
      BY <3>1, <3>2, Ids DEF Control, SharedOK
  <2>2. q \in RoomID /\ q \notin Existing
    BY <2>1, Ids DEF Existing
  <2>3. /\ rooms' = [rooms EXCEPT ![q] = NewRoom(q, Id(g), m)]
        /\ byID' = byID \cup {q} /\ bySum' = bySum /\ pc[g] = "reg_id"
        /\ loc'[g].room = q /\ pc'[g] = "reg_host"
    BY <1>1, <1>2 DEF RegID, At, SetLoc, Goto, LocType
  <2> HIDE DEF q
  <2>4. \A r \in byID' \ {q} : rooms'[r] = rooms[r]
    BY <2>3, ListedIDs DEF Control, SharedOK
  <2> QED
    BY <2>2, <2>3, <2>4, BusySums, ZenonT(60) DEF Indexing
<1>3. CASE RegHost(g)
  <2>1. /\ pc[g] \in HasRoom /\ rooms' = rooms /\ bySum' = bySum /\ byID' = byID
        /\ pc'[g] = "reg_sum" /\ loc'[g].room = loc[g].room
    BY <1>1, <1>3 DEF RegHost, At, Goto, HasRoom
  <2> QED
    BY <2>1, RoomOf, OwnSums DEF Indexing
<1>4. CASE RegSum(g)
  <2>1. /\ pc[g] \in HasRoom /\ rooms' = rooms /\ byID' = byID
        /\ bySum' = WithSum(Room(g).ctl, loc[g].room) /\ pc'[g] # "leave_index"
    BY <1>1, <1>4 DEF RegSum, At, Goto, HasRoom
  <2>2. <<rooms'[loc[g].room].ctl, loc[g].room>> \in bySum'
    BY <2>1, SumAdded DEF Room
  <2> QED
    BY <2>1, <2>2, RoomOf, OwnSums
<1>5. CASE RegArm(g)
  BY <1>1, <1>5, QuietSums DEF RegArm, At, Done, Goto, Indexing, UnchangedStore
<1> QED
  BY <1>2, <1>3, <1>4, <1>5

LEMMA JoinSums ==
    ASSUME Control, DistinctSums, SumsIndexed, NEW g \in Goroutine, StepOf(g),
           \/ JoinLoad(g) \/ JoinStoreCount(g) \/ JoinRow(g) \/ JoinSum(g)
           \/ JoinIndex(g)
    PROVE  SumsIndexed'
<1>1. /\ pc \in [Goroutine -> ConnPC \cup TimerPC] /\ loc \in [Goroutine -> LocType]
      /\ rooms \in [RoomID -> ConcRoom]
  BY DEF Control, SharedOK
<1>2. CASE JoinLoad(g)
  <2>1. /\ bySum' = bySum /\ byID' = byID /\ pc[g] = "join_load"
        /\ pc'[g] \in {"join_store", "idle"}
    BY <1>1, <1>2 DEF JoinLoad, At, Goto, Done
  <2>2. \A r \in RoomID : rooms'[r].ctl = rooms[r].ctl
    BY <1>1, <1>2 DEF JoinLoad, ConcRoom
  <2> QED
    BY <2>1, <2>2, QuietSums DEF Indexing
<1>3. CASE JoinStoreCount(g)
  <2>1. /\ pc[g] \in HasRoom /\ bySum' = WithoutSum(Room(g).ctl) /\ byID' = byID
        /\ pc'[g] = "join_row" /\ loc'[g].room = loc[g].room
    BY <1>1, <1>3 DEF JoinStoreCount, At, Goto, SetLoc, HasRoom, LocType
  <2>2. \E room : rooms' = [rooms EXCEPT ![loc[g].room] = room]
    BY <1>3 DEF JoinStoreCount, SetRoom
  <2> QED
    BY <2>1, <2>2, RoomOf, OwnSums DEF Indexing
<1>4. CASE JoinRow(g)
  <2>1. /\ pc[g] \in HasRoom /\ bySum' = bySum /\ byID' = byID
        /\ pc'[g] = "join_sum" /\ loc'[g].room = loc[g].room
    BY <1>1, <1>4 DEF JoinRow, At, Goto, SetLoc, HasRoom, LocType
  <2>2. \E room : rooms' = [rooms EXCEPT ![loc[g].room] = room]
    BY <1>4 DEF JoinRow, SetRoom
  <2> QED
    BY <2>1, <2>2, RoomOf, OwnSums DEF Indexing
<1>5. CASE JoinSum(g)
  <2>1. /\ pc[g] \in HasRoom /\ bySum' = bySum /\ byID' = byID
        /\ pc'[g] = "join_index" /\ loc'[g].room = loc[g].room
    BY <1>1, <1>5 DEF JoinSum, At, Goto, HasRoom
  <2>2. \E room : rooms' = [rooms EXCEPT ![loc[g].room] = room]
    BY <1>5 DEF JoinSum, SetRoom
  <2> QED
    BY <2>1, <2>2, RoomOf, OwnSums DEF Indexing
<1>6. CASE JoinIndex(g)
  <2>1. /\ pc[g] \in HasRoom /\ rooms' = rooms /\ byID' = byID
        /\ bySum' = WithSum(Room(g).ctl, loc[g].room) /\ pc'[g] # "leave_index"
    BY <1>1, <1>6 DEF JoinIndex, At, Done, Goto, HasRoom
  <2>2. <<rooms'[loc[g].room].ctl, loc[g].room>> \in bySum'
    BY <2>1, SumAdded DEF Room
  <2> QED
    BY <2>1, <2>2, RoomOf, OwnSums
<1> QED
  BY <1>2, <1>3, <1>4, <1>5, <1>6

LEMMA StartSums ==
    ASSUME Control, DistinctSums, SumsIndexed, NEW g \in Goroutine, StepOf(g),
           StartMark(g) \/ StartSum(g) \/ StartIndex(g) \/ StartArm(g)
    PROVE  SumsIndexed'
<1>1. pc \in [Goroutine -> ConnPC \cup TimerPC] /\ loc \in [Goroutine -> LocType]
  BY DEF Control
<1>2. CASE StartMark(g)
  <2>1. /\ pc[g] \in HasRoom /\ bySum' = WithoutSum(Room(g).ctl) /\ byID' = byID
        /\ pc'[g] = "start_sum" /\ loc'[g].room = loc[g].room
    BY <1>1, <1>2 DEF StartMark, At, Goto, SetLoc, HasRoom, LocType
  <2>2. \E room : rooms' = [rooms EXCEPT ![loc[g].room] = room]
    BY <1>2 DEF StartMark, SetRoom
  <2> QED
    BY <2>1, <2>2, RoomOf, OwnSums DEF Indexing
<1>3. CASE StartSum(g)
  <2>1. /\ pc[g] \in HasRoom /\ bySum' = bySum /\ byID' = byID
        /\ pc'[g] = "start_index" /\ loc'[g].room = loc[g].room
    BY <1>1, <1>3 DEF StartSum, At, Goto, HasRoom
  <2>2. \E room : rooms' = [rooms EXCEPT ![loc[g].room] = room]
    BY <1>3 DEF StartSum, SetRoom
  <2> QED
    BY <2>1, <2>2, RoomOf, OwnSums DEF Indexing
<1>4. CASE StartIndex(g)
  <2>1. /\ pc[g] \in HasRoom /\ rooms' = rooms /\ byID' = byID
        /\ bySum' = WithSum(Room(g).ctl, loc[g].room) /\ pc'[g] # "leave_index"
    BY <1>1, <1>4 DEF StartIndex, At, Goto, HasRoom
  <2>2. <<rooms'[loc[g].room].ctl, loc[g].room>> \in bySum'
    BY <2>1, SumAdded DEF Room
  <2> QED
    BY <2>1, <2>2, RoomOf, OwnSums
<1>5. CASE StartArm(g)
  BY <1>1, <1>5, QuietSums DEF StartArm, At, Done, Goto, Indexing, UnchangedStore
<1> QED
  BY <1>2, <1>3, <1>4, <1>5

LEMMA SumsStep ==
    ASSUME Control, DistinctSums, SumsIndexed, NEW g \in Goroutine, StepOf(g)
    PROVE  SumsIndexed'
<1>1. pc \in [Goroutine -> ConnPC \cup TimerPC] /\ loc \in [Goroutine -> LocType]
  BY DEF Control
<1>2. CASE DisconnectDelete(g) \/ TimerUnregister(g)
  BY <1>1, <1>2, QuietSums DEF DisconnectDelete, TimerUnregister, At, Done, Goto,
     Indexing, UnchangedStore
<1>3. CASE \/ RegBegin(g) \/ LeaveBegin(g) \/ StartBegin(g) \/ Alive(g)
           \/ DisconnectBegin(g) \/ Fire(g) \/ \E r \in RoomID : JoinBegin(g, r)
  <2>1. /\ rooms' = rooms /\ bySum' = bySum /\ byID' = byID /\ pc[g] = "idle"
        /\ pc'[g] \in {"idle", "leave_clear", "start_mark"}
    BY <1>1, <1>3 DEF RegBegin, LeaveBegin, StartBegin, Alive, DisconnectBegin, Fire,
       JoinBegin, CallLeave, Goto, At, UnchangedStore
  <2> QED
    BY <2>1, QuietSums DEF Indexing
<1> QED
  BY <1>2, <1>3, LeaveSums, RegSums, JoinSums, StartSums DEF StepOf, Step

(* ListedRoomsResolve, for any number of players and rooms, with the       *)
(* timers running: whatever joins, leaves and starts of a room interleave, *)
(* an open room is found by its current control sum when they are done.    *)
(* The premise is that rows of different rooms never collide in            *)
(* controlSum; that is a 32 bit hash, so the code has it only in practice. *)
THEOREM ListedRoomsResolveAlways ==
    ASSUME DistinctSums
    PROVE  Spec => []ListedRoomsResolve
<1>1. Init => SumsIndexed
  BY DEF Init, SumsIndexed
<1>2. Control /\ SumsIndexed /\ [Next]_vars => SumsIndexed'
  <2>1. UNCHANGED vars /\ SumsIndexed => SumsIndexed'
    BY DEF vars, SumsIndexed, WillIndex
  <2> QED
    BY <2>1, NextSteps, SumsStep
<1>3. SumsIndexed => ListedRoomsResolve
  BY DEF SumsIndexed, WillIndex, ListedRoomsResolve, Quiescent, Idle
<1> QED
  BY <1>1, <1>2, <1>3, ControlAlways, PTL DEF Spec

----------------------------------------------------------------------------
(* Who is in which room, as long as no keep-alive timer fires.             *)
Membership == TimersIdle /\ OwnEntry /\ MapFollows /\ HostPresent

(* Without timers every step is one of a connection.                       *)
LEMMA ConnStep ==
    ASSUME Timed = {}, Control, TimersIdle, NEW g \in Goroutine, StepOf(g)
    PROVE  g[2] = "conn" /\ g = <<Id(g), "conn">> /\ TimersIdle'
<1>1. g[2] # "timer"
  <2> SUFFICES ASSUME g[2] = "timer" PROVE FALSE
    OBVIOUS
  <2>1. pc[g] = "idle"
    BY Kinds DEF TimersIdle
  <2>2. ~ Fire(g)
    BY DEF Fire
  <2>3. ~ LeaveStep(g)
    BY <2>1 DEF LeaveStep, LeaveClear, LeaveFind, LeaveLock, LeaveWrite, LeaveRow,
       LeaveSum, LeaveIndex, At
  <2>4. ~ Step(g)
    BY <2>1, <2>3 DEF Step, RegID, RegHost, RegSum, RegArm, JoinLoad, JoinStoreCount,
       JoinRow, JoinSum, JoinIndex, StartMark, StartSum, StartIndex, StartArm,
       DisconnectDelete, TimerUnregister, At
  <2> QED
    BY <2>2, <2>4 DEF StepOf
<1>2. g[2] = "conn" /\ g = <<Id(g), "conn">>
  BY <1>1, Kinds
<1>3. \A p \in Player : <<p, "timer">> \in Goroutine /\ <<p, "timer">> # g
  BY <1>2, Kinds
<1> QED
  BY <1>2, <1>3, OthersStay DEF TimersIdle

LEMMA OwnEntryStep ==
    ASSUME Control, NEW g \in Goroutine, StepOf(g), g[2] = "conn",
           pc[g] \in Between => byPID[Id(g)] = NoRoom
    PROVE  /\ pc'[g] \in Between => byPID'[Id(g)] = NoRoom
           /\ pc'[g] = "leave_lock" => loc'[g].room = byPID'[Id(g)]
<1>1. /\ pc \in [Goroutine -> ConnPC \cup TimerPC] /\ loc \in [Goroutine -> LocType]
      /\ byPID \in [PlayerID -> 0 .. lastRoomID] /\ Id(g) \in PlayerID
  BY Kinds, Ids DEF Control, SharedOK
<1>2. loc[g].ret \in Returns
  BY <1>1 DEF LocType
<1>3. CASE LeaveClear(g)
  BY <1>1, <1>3 DEF LeaveClear, Goto, Between, UnderLock
<1>4. CASE LeaveFind(g)
  BY <1>1, <1>2, <1>4 DEF LeaveFind, Goto, Return, SetLoc, LocType, Between, UnderLock,
     Returns, UnchangedStore
<1>5. CASE LeaveLock(g)
  BY <1>1, <1>5 DEF LeaveLock, Goto
<1>6. CASE LeaveWrite(g) \/ LeaveRow(g) \/ LeaveSum(g)
  BY <1>1, <1>6 DEF LeaveWrite, LeaveRow, LeaveSum, At, Goto, Between, UnderLock
<1>7. CASE LeaveIndex(g)
  BY <1>1, <1>2, <1>7 DEF LeaveIndex, At, Goto, Return, Between, UnderLock, Returns
<1>8. CASE \/ \E m \in Capacities : RegID(g, m)
           \/ RegHost(g) \/ RegSum(g) \/ RegArm(g)
  BY <1>1, <1>8 DEF RegID, RegHost, RegSum, RegArm, At, Goto, Done, Between, UnderLock
<1>9. CASE \/ JoinLoad(g) \/ JoinStoreCount(g) \/ JoinRow(g) \/ JoinSum(g)
           \/ JoinIndex(g)
  BY <1>1, <1>9 DEF JoinLoad, JoinStoreCount, JoinRow, JoinSum, JoinIndex, At, Goto,
     Done, Between, UnderLock
<1>10. CASE \/ StartMark(g) \/ StartSum(g) \/ StartIndex(g) \/ StartArm(g)
            \/ DisconnectDelete(g) \/ TimerUnregister(g)
  BY <1>1, <1>10 DEF StartMark, StartSum, StartIndex, StartArm, DisconnectDelete,
     TimerUnregister, Goto, Done, Between, UnderLock
<1>11. CASE \/ RegBegin(g) \/ LeaveBegin(g) \/ StartBegin(g) \/ Alive(g)
            \/ DisconnectBegin(g) \/ Fire(g) \/ \E r \in RoomID : JoinBegin(g, r)
  BY <1>1, <1>11 DEF RegBegin, LeaveBegin, StartBegin, Alive, DisconnectBegin, Fire,
     JoinBegin, CallLeave, Goto, At, Between, UnderLock
<1> QED
  BY <1>3, <1>4, <1>5, <1>6, <1>7, <1>8, <1>9, <1>10, <1>11
     DEF StepOf, Step, LeaveStep

(* What a step does to the rooms there are: nobody changes a host, nobody  *)
(* takes back a start, and two actions write the player map.               *)
LEMMA RoomEffect ==
    ASSUME Control, NEW g \in Goroutine, StepOf(g), NEW r \in Existing
    PROVE  /\ rooms'[r].host = rooms[r].host
           /\ rooms[r].started => rooms'[r].started
           /\ \/ rooms'[r].players = rooms[r].players
              \/ /\ LeaveWrite(g) /\ r = loc[g].room
                 /\ rooms'[r].players = PlayersAfterLeave(rooms[r], Id(g))
              \/ /\ JoinLoad(g) /\ r = loc[g].target
                 /\ rooms'[r].players = rooms[r].players \cup {Id(g)}
<1>1. /\ rooms \in [RoomID -> ConcRoom] /\ r \in RoomID /\ rooms[r] \in ConcRoom
      /\ rooms[loc[g].room] = Room(g)
  BY ListedIDs DEF Control, SharedOK, Room
<1>2. CASE rooms' = rooms
  BY <1>2
<1>3. CASE LeaveWrite(g)
  BY <1>1, <1>3 DEF LeaveWrite, SetRoom, Room, ConcRoom
<1>4. CASE LeaveRow(g) \/ LeaveSum(g)
  BY <1>1, <1>4 DEF LeaveRow, LeaveSum, SetRoom, Room, ConcRoom
<1>5. ASSUME NEW m \in Capacities, RegID(g, m)
      PROVE  rooms'[r] = rooms[r]
  <2>1. r # lastRoomID + 1
    BY DEF Existing, Control, SharedOK
  <2> QED
    BY <1>1, <1>5, <2>1 DEF RegID
<1>6. CASE JoinLoad(g)
  BY <1>1, <1>6 DEF JoinLoad, ConcRoom
<1>7. CASE JoinStoreCount(g) \/ JoinRow(g) \/ JoinSum(g)
  BY <1>1, <1>7 DEF JoinStoreCount, JoinRow, JoinSum, SetRoom, Room, ConcRoom
<1>8. CASE StartMark(g) \/ StartSum(g)
  <2>1. \/ \E w : rooms' = [rooms EXCEPT ![loc[g].room] =
                                [Room(g) EXCEPT !.started = TRUE, !.row = w]]
        \/ \E s : rooms' = [rooms EXCEPT ![loc[g].room] = [Room(g) EXCEPT !.ctl = s]]
    BY <1>8 DEF StartMark, StartSum, SetRoom
  <2>2. CASE r # loc[g].room
    BY <1>1, <2>1, <2>2
  <2>3. CASE r = loc[g].room
    <3>1. \/ \E w : rooms'[r] = [rooms[r] EXCEPT !.started = TRUE, !.row = w]
          \/ \E s : rooms'[r] = [rooms[r] EXCEPT !.ctl = s]
      BY <1>1, <2>1, <2>3
    <3>2. CASE \E w : rooms'[r] = [rooms[r] EXCEPT !.started = TRUE, !.row = w]
      BY <1>1, <3>2 DEF ConcRoom
    <3>3. CASE \E s : rooms'[r] = [rooms[r] EXCEPT !.ctl = s]
      BY <1>1, <3>3 DEF ConcRoom
    <3> QED
      BY <3>1, <3>2, <3>3
  <2> QED
    BY <2>2, <2>3
<1>9. CASE \/ LeaveClear(g) \/ LeaveFind(g) \/ LeaveLock(g) \/ LeaveIndex(g)
           \/ RegHost(g) \/ RegSum(g) \/ RegArm(g) \/ JoinIndex(g)
           \/ StartIndex(g) \/ StartArm(g) \/ DisconnectDelete(g) \/ TimerUnregister(g)
  BY <1>2, <1>9 DEF LeaveClear, LeaveFind, LeaveLock, LeaveIndex, RegHost, RegSum,
     RegArm, JoinIndex, StartIndex, StartArm, DisconnectDelete, TimerUnregister,
     UnchangedStore
<1>10. CASE \/ RegBegin(g) \/ LeaveBegin(g) \/ StartBegin(g) \/ Alive(g)
            \/ DisconnectBegin(g) \/ Fire(g) \/ \E q \in RoomID : JoinBegin(g, q)
  BY <1>2, <1>10 DEF RegBegin, LeaveBegin, StartBegin, Alive, DisconnectBegin, Fire,
     JoinBegin, UnchangedStore
<1> QED
  BY <1>3, <1>4, <1>5, <1>6, <1>7, <1>8, <1>9, <1>10 DEF StepOf, Step, LeaveStep

LEMMA HereKnown ==
    ASSUME Control, NEW p \in Player
    PROVE  Here(p) \in 0 .. lastRoomID
<1>1. <<p, "conn">> \in Goroutine /\ p \in PlayerID
  BY Kinds, Ids
<1>2. pc[<<p, "conn">>] \in HasRoom => loc[<<p, "conn">>].room \in Existing
  BY <1>1, RoomOf
<1>3. byPID[p] \in 0 .. lastRoomID /\ Existing \subseteq 0 .. lastRoomID
  BY <1>1 DEF Control, SharedOK, Existing
<1> QED
  BY <1>2, <1>3 DEF Here, HasRoom, UnderLock

(* How a player's own handler moves it from room to room.                  *)
LEMMA HereStep ==
    ASSUME Control, NEW p \in Player, StepOf(<<p, "conn">>),
           pc[<<p, "conn">>] \in Between => byPID[p] = NoRoom,
           pc[<<p, "conn">>] = "leave_lock" => loc[<<p, "conn">>].room = byPID[p]
    PROVE  LET g == <<p, "conn">> IN
           \/ /\ Here(p)' = Here(p) /\ ~ LeaveWrite(g)
              /\ JoinLoad(g) => rooms' = rooms
              /\ \A m \in Capacities : ~ RegID(g, m)
           \/ LeaveWrite(g) /\ Here(p) = loc[g].room /\ Here(p)' = NoRoom
           \/ /\ JoinLoad(g) /\ Here(p) = NoRoom /\ Here(p)' = loc[g].target
              /\ p \in rooms'[loc[g].target].players
           \/ /\ \E m \in Capacities : RegID(g, m)
              /\ Here(p) = NoRoom /\ Here(p)' = lastRoomID + 1
<1> DEFINE g == <<p, "conn">>
           Moving == {"reg_host", "join_store", "join_row", "join_sum", "leave_write"}
<1>1. /\ pc \in [Goroutine -> ConnPC \cup TimerPC] /\ loc \in [Goroutine -> LocType]
      /\ rooms \in [RoomID -> ConcRoom]
      /\ byPID \in [PlayerID -> 0 .. lastRoomID] /\ p \in PlayerID
  BY Ids DEF Control, SharedOK
<1>2. g \in Goroutine /\ Id(g) = p /\ g[2] = "conn"
  BY Kinds DEF Id
<1>3. /\ Here(p) = IF pc[g] \in Moving THEN loc[g].room ELSE byPID[p]
      /\ Here(p)' = IF pc'[g] \in Moving THEN loc'[g].room ELSE byPID'[p]
  BY DEF Here
<1>4. /\ StepOf(g)
      /\ pc[g] \in Between => byPID[p] = NoRoom
      /\ pc[g] = "leave_lock" => loc[g].room = byPID[p]
  OBVIOUS
<1> HIDE DEF g
<1> SUFFICES \/ /\ Here(p)' = Here(p) /\ ~ LeaveWrite(g)
                /\ JoinLoad(g) => rooms' = rooms
                /\ \A m \in Capacities : ~ RegID(g, m)
             \/ LeaveWrite(g) /\ Here(p) = loc[g].room /\ Here(p)' = NoRoom
             \/ /\ JoinLoad(g) /\ Here(p) = NoRoom /\ Here(p)' = loc[g].target
                /\ p \in rooms'[loc[g].target].players
             \/ /\ \E m \in Capacities : RegID(g, m)
                /\ Here(p) = NoRoom /\ Here(p)' = lastRoomID + 1
  BY DEF g
<1>5. loc[g].ret \in Returns
  BY <1>1, <1>2 DEF LocType
<1>6. CASE LeaveClear(g) \/ LeaveFind(g)
  <2>1. pc'[g] \notin Moving /\ pc[g] \notin Moving /\ byPID' = byPID
    BY <1>1, <1>2, <1>5, <1>6 DEF LeaveClear, LeaveFind, At, Goto, Return, Returns,
       UnchangedStore
  <2> QED
    BY <1>3, <1>6, <2>1 DEF LeaveClear, LeaveFind, LeaveWrite, JoinLoad, RegID, At
<1>7. CASE LeaveLock(g)
  <2>1. /\ pc[g] = "leave_lock" /\ pc'[g] = "leave_write"
        /\ loc'[g].room = loc[g].room
    BY <1>1, <1>2, <1>7 DEF LeaveLock, At, Goto, SetLoc, LocType
  <2> QED
    BY <1>3, <1>4, <2>1 DEF LeaveWrite, JoinLoad, RegID, At
<1>8. CASE LeaveWrite(g)
  <2>1. /\ pc[g] = "leave_write" /\ pc'[g] = "leave_row" /\ byPID' = byPID
    BY <1>1, <1>2, <1>8 DEF LeaveWrite, At, Goto
  <2> QED
    BY <1>3, <1>4, <1>8, <2>1 DEF Between, UnderLock
<1>9. CASE LeaveRow(g) \/ LeaveSum(g)
  <2>1. /\ pc[g] \in {"leave_row", "leave_sum"} /\ pc'[g] \in {"leave_sum", "leave_index"}
        /\ byPID' = byPID
    BY <1>1, <1>2, <1>9 DEF LeaveRow, LeaveSum, At, Goto
  <2> QED
    BY <1>3, <2>1 DEF LeaveWrite, JoinLoad, RegID, At
<1>10. CASE LeaveIndex(g)
  <2>1. /\ pc[g] = "leave_index" /\ pc'[g] \in Returns /\ byPID' = byPID
    BY <1>1, <1>2, <1>5, <1>10 DEF LeaveIndex, At, Goto, Return
  <2> QED
    BY <1>3, <2>1 DEF Returns, LeaveWrite, JoinLoad, RegID, At
<1>11. ASSUME NEW m \in Capacities, RegID(g, m)
       PROVE  Here(p) = NoRoom /\ Here(p)' = lastRoomID + 1
  <2>1. /\ pc[g] = "reg_id" /\ pc'[g] = "reg_host" /\ loc'[g].room = lastRoomID + 1
    BY <1>1, <1>2, <1>11 DEF RegID, At, Goto, SetLoc, LocType
  <2> QED
    BY <1>3, <1>4, <2>1 DEF Between
<1>12. CASE RegHost(g) \/ JoinSum(g)
  <2>1. /\ pc[g] \in {"reg_host", "join_sum"} /\ pc'[g] \in {"reg_sum", "join_index"}
        /\ byPID'[p] = loc[g].room
    BY <1>1, <1>2, <1>12 DEF RegHost, JoinSum, At, Goto
  <2> QED
    BY <1>3, <2>1 DEF LeaveWrite, JoinLoad, RegID, At
<1>13. CASE JoinLoad(g)
  <2>1. pc[g] = "join_load" /\ Here(p) = NoRoom /\ byPID' = byPID
    BY <1>3, <1>4, <1>13 DEF JoinLoad, At, Between
  <2>2. CASE p \in players
    <3>1. loc[g].target \in RoomID
      BY <1>2, <2>1, ListedIDs DEF Control, LocalsOK
    <3>2. /\ pc'[g] = "join_store" /\ loc'[g].room = loc[g].target
      <4>1. /\ pc' = [pc EXCEPT ![g] = "join_store"]
            /\ \E n : loc' = [loc EXCEPT ![g] =
                                 [NoLocals EXCEPT !.room = loc[g].target, !.num = n]]
        BY <1>2, <1>13, <2>2 DEF JoinLoad, Goto, SetLoc
      <4> QED
        BY <1>1, <1>2, <4>1 DEF NoLocals
    <3>3. p \in rooms'[loc[g].target].players
      BY <1>1, <1>2, <1>13, <2>2, <3>1 DEF JoinLoad, ConcRoom
    <3> QED
      BY <1>3, <1>13, <2>1, <3>2, <3>3
  <2>3. CASE p \notin players
    <3>1. pc'[g] = "idle" /\ rooms' = rooms
      BY <1>1, <1>2, <1>13, <2>3 DEF JoinLoad, Done, Goto
    <3> QED
      BY <1>3, <2>1, <3>1 DEF LeaveWrite, RegID, At
  <2> QED
    BY <2>2, <2>3
<1>14. CASE JoinStoreCount(g) \/ JoinRow(g)
  <2>1. /\ pc[g] \in {"join_store", "join_row"} /\ pc'[g] \in {"join_row", "join_sum"}
        /\ loc'[g].room = loc[g].room
    BY <1>1, <1>2, <1>14 DEF JoinStoreCount, JoinRow, At, Goto, SetLoc, LocType
  <2> QED
    BY <1>3, <2>1 DEF LeaveWrite, JoinLoad, RegID, At
<1>15. CASE \/ RegSum(g) \/ RegArm(g) \/ JoinIndex(g)
            \/ StartMark(g) \/ StartSum(g) \/ StartIndex(g) \/ StartArm(g)
            \/ DisconnectDelete(g) \/ TimerUnregister(g)
  <2>1. /\ pc[g] \notin Moving /\ pc[g] \notin {"reg_id", "join_load"}
        /\ pc'[g] \notin Moving /\ byPID' = byPID
    BY <1>1, <1>2, <1>15 DEF RegSum, RegArm, JoinIndex, StartMark, StartSum, StartIndex,
       StartArm, DisconnectDelete, TimerUnregister, At, Goto, Done, UnchangedStore
  <2> QED
    BY <1>3, <2>1 DEF LeaveWrite, JoinLoad, RegID, At
<1>16. CASE \/ RegBegin(g) \/ LeaveBegin(g) \/ StartBegin(g) \/ Alive(g)
            \/ DisconnectBegin(g) \/ Fire(g) \/ \E r \in RoomID : JoinBegin(g, r)
  <2>1. /\ pc[g] = "idle" /\ pc'[g] \notin Moving /\ byPID' = byPID
    BY <1>1, <1>2, <1>16 DEF RegBegin, LeaveBegin, StartBegin, Alive, DisconnectBegin,
       Fire, JoinBegin, CallLeave, Goto, At, UnchangedStore
  <2> QED
    BY <1>3, <2>1 DEF LeaveWrite, JoinLoad, RegID, At
<1> QED
  BY <1>4, <1>6, <1>7, <1>8, <1>9, <1>10, <1>11, <1>12, <1>13, <1>14, <1>15, <1>16
     DEF StepOf, Step, LeaveStep

(* A step of another connection leaves a player where it is.               *)
LEMMA HereOther ==
    ASSUME Control, NEW g \in Goroutine, StepOf(g), NEW p \in Player, Id(g) # p
    PROVE  /\ Here(p)' = Here(p) /\ byPID'[p] = byPID[p]
           /\ pc'[<<p, "conn">>] = pc[<<p, "conn">>]
           /\ loc'[<<p, "conn">>] = loc[<<p, "conn">>]
<1>1. pc'[<<p, "conn">>] = pc[<<p, "conn">>] /\ loc'[<<p, "conn">>] = loc[<<p, "conn">>]
  <2>1. <<p, "conn">> \in Goroutine /\ g # <<p, "conn">>
    BY Kinds DEF Id
  <2> QED
    BY <2>1, OthersStay
<1>2. byPID'[p] = byPID[p]
  <2>1. byPID \in [PlayerID -> 0 .. lastRoomID] /\ p \in PlayerID
    BY Ids DEF Control, SharedOK
  <2> QED
    BY <2>1, EntriesKept DEF LeaveLock, RegHost, JoinSum
<1> QED
  BY <1>1, <1>2 DEF Here

(* The room that RegID makes.                                              *)
LEMMA NewRoomOf ==
    ASSUME Control, NEW g \in Goroutine, StepOf(g), NEW r \in Existing', r \notin Existing
    PROVE  /\ r = lastRoomID + 1 /\ rooms'[r].host = Id(g) /\ rooms'[r].players = {Id(g)}
           /\ \E m \in Capacities : RegID(g, m)
<1>1. lastRoomID \in Nat
  BY Ids DEF Control, SharedOK
<1>2. lastRoomID' # lastRoomID
  BY DEF Existing
<1>3. \E m \in Capacities : RegID(g, m)
  BY <1>2 DEF StepOf, Step, LeaveStep, LeaveClear, LeaveFind, LeaveLock, LeaveWrite,
     LeaveRow, LeaveSum, LeaveIndex, RegHost, RegSum, RegArm, JoinLoad, JoinStoreCount,
     JoinRow, JoinSum, JoinIndex, StartMark, StartSum, StartIndex, StartArm,
     DisconnectDelete, TimerUnregister, RegBegin, LeaveBegin, StartBegin, Alive,
     DisconnectBegin, Fire, JoinBegin, UnchangedStore
<1>4. PICK m \in Capacities : RegID(g, m)
  BY <1>3
<1>5. /\ lastRoomID' = lastRoomID + 1
      /\ rooms' = [rooms EXCEPT ![lastRoomID + 1] = NewRoom(lastRoomID + 1, Id(g), m)]
  BY <1>4 DEF RegID
<1>6. r = lastRoomID + 1
  BY <1>1, <1>5 DEF Existing
<1>7. r \in RoomID
  <2>1. Control'
    BY <1>4, RegIDControl
  <2>2. lastRoomID' \in 0 .. MaxRoomID
    BY <2>1 DEF Control, SharedOK
  <2> QED
    BY <1>1, <1>5, <1>6, <2>2, Ids
<1>8. rooms'[r] = NewRoom(r, Id(g), m)
  BY <1>5, <1>6, <1>7 DEF Control, SharedOK
<1> QED
  BY <1>3, <1>6, <1>8 DEF NewRoom

LEMMA MapStep ==
    ASSUME Control, Membership, NEW g \in Goroutine, StepOf(g), g = <<Id(g), "conn">>
    PROVE  MapFollows'
<1> SUFFICES ASSUME NEW p \in Player, NEW r \in Existing'
             PROVE  /\ Here(p)' = r => p \in rooms'[r].players
                    /\ ~ rooms'[r].started /\ p \in rooms'[r].players => Here(p)' = r
  BY DEF MapFollows
<1>1. /\ Here(p) \in 0 .. lastRoomID /\ lastRoomID \in Nat /\ NoRoom = 0
      /\ NoRoom \notin Existing
  BY HereKnown, Ids DEF Control, SharedOK, Existing
<1>2. \A s \in Existing :
         /\ Here(p) = s => p \in rooms[s].players
         /\ ~ rooms[s].started /\ p \in rooms[s].players => Here(p) = s
  BY DEF Membership, MapFollows
<1>3. CASE Id(g) # p
  <2>1. Here(p)' = Here(p)
    BY <1>3, HereOther
  <2>2. CASE r \in Existing
    <3>1. rooms[r].started => rooms'[r].started
      BY <2>2, RoomEffect
    <3>2. rooms'[r].players \in {rooms[r].players, rooms[r].players \ {Id(g)},
                                rooms[r].players \cup {Id(g)}}
      BY <2>2, RoomEffect DEF PlayersAfterLeave
    <3>3. p \in rooms'[r].players <=> p \in rooms[r].players
      BY <1>3, <3>2
    <3> QED
      BY <1>2, <2>1, <2>2, <3>1, <3>3
  <2>3. CASE r \notin Existing
    <3>1. r = lastRoomID + 1 /\ p \notin rooms'[r].players
      BY <1>3, <2>3, NewRoomOf
    <3> QED
      BY <1>1, <2>1, <3>1
  <2> QED
    BY <2>2, <2>3
<1>4. CASE Id(g) = p
  <2>1. g = <<p, "conn">> /\ StepOf(<<p, "conn">>)
    BY <1>4
  <2>2. /\ pc[<<p, "conn">>] \in Between => byPID[p] = NoRoom
        /\ pc[<<p, "conn">>] = "leave_lock" => loc[<<p, "conn">>].room = byPID[p]
    BY DEF Membership, OwnEntry
  <2>3. \/ /\ Here(p)' = Here(p) /\ ~ LeaveWrite(g)
           /\ JoinLoad(g) => rooms' = rooms
           /\ \A m \in Capacities : ~ RegID(g, m)
        \/ LeaveWrite(g) /\ Here(p) = loc[g].room /\ Here(p)' = NoRoom
        \/ /\ JoinLoad(g) /\ Here(p) = NoRoom /\ Here(p)' = loc[g].target
           /\ p \in rooms'[loc[g].target].players
        \/ /\ \E m \in Capacities : RegID(g, m)
           /\ Here(p) = NoRoom /\ Here(p)' = lastRoomID + 1
    BY <2>1, <2>2, HereStep
  <2>4. CASE r \in Existing
    <3>1. rooms[r].started => rooms'[r].started
      BY <2>4, RoomEffect
    <3>2. \/ rooms'[r].players = rooms[r].players
          \/ /\ LeaveWrite(g) /\ r = loc[g].room
             /\ rooms'[r].players = PlayersAfterLeave(rooms[r], Id(g))
          \/ /\ JoinLoad(g) /\ r = loc[g].target
             /\ rooms'[r].players = rooms[r].players \cup {Id(g)}
      BY <2>4, RoomEffect
    <3>3. CASE /\ Here(p)' = Here(p) /\ ~ LeaveWrite(g)
               /\ JoinLoad(g) => rooms' = rooms
      BY <1>2, <2>4, <3>1, <3>2, <3>3
    <3>4. CASE LeaveWrite(g) /\ Here(p) = loc[g].room /\ Here(p)' = NoRoom
      <4>1. ~ JoinLoad(g)
        BY <3>4 DEF LeaveWrite, JoinLoad, At
      <4>3. r = loc[g].room /\ ~ rooms[r].started => p \notin rooms'[r].players
        <5>1. SUFFICES ASSUME r = loc[g].room, ~ rooms[r].started
                       PROVE  rooms'[r].players = rooms[r].players \ {p}
          OBVIOUS
        <5>2. rooms \in [RoomID -> ConcRoom] /\ r \in RoomID /\ rooms[r] \in ConcRoom
          BY <2>4, ListedIDs DEF Control, SharedOK
        <5> QED
          BY <1>4, <3>4, <5>1, <5>2 DEF LeaveWrite, SetRoom, Room, PlayersAfterLeave,
             ConcRoom
      <4>4. r # loc[g].room => rooms'[r].players = rooms[r].players
        BY <3>2, <4>1
      <4> QED
        BY <1>1, <1>2, <2>4, <3>1, <3>4, <4>3, <4>4
    <3>5. CASE /\ JoinLoad(g) /\ Here(p) = NoRoom /\ Here(p)' = loc[g].target
               /\ p \in rooms'[loc[g].target].players
      <4>1. ~ LeaveWrite(g)
        BY <3>5 DEF LeaveWrite, JoinLoad, At
      <4>2. r # loc[g].target => rooms'[r].players = rooms[r].players
        BY <3>2, <4>1
      <4> QED
        BY <1>1, <1>2, <2>4, <3>1, <3>5, <4>2
    <3>6. CASE /\ \E m \in Capacities : RegID(g, m)
               /\ Here(p) = NoRoom /\ Here(p)' = lastRoomID + 1
      <4>1. ~ LeaveWrite(g) /\ ~ JoinLoad(g)
        BY <3>6 DEF LeaveWrite, JoinLoad, RegID, At
      <4>2. r # lastRoomID + 1
        BY <1>1, <2>4 DEF Existing
      <4> QED
        BY <1>1, <1>2, <2>4, <3>1, <3>2, <3>6, <4>1, <4>2
    <3> QED
      BY <2>3, <3>3, <3>4, <3>5, <3>6
  <2>5. CASE r \notin Existing
    <3>1. /\ r = lastRoomID + 1 /\ rooms'[r].players = {p}
          /\ \E m \in Capacities : RegID(g, m)
      BY <1>4, <2>5, NewRoomOf
    <3>2. ~ LeaveWrite(g) /\ ~ JoinLoad(g)
      BY <3>1 DEF LeaveWrite, JoinLoad, RegID, At
    <3> QED
      BY <2>3, <3>1, <3>2
  <2> QED
    BY <2>4, <2>5
<1> QED
  BY <1>3, <1>4

LEMMA ListedKept ==
    ASSUME Control, NEW g \in Goroutine, StepOf(g), NEW r \in byID'
    PROVE  r \in byID \/ (r \notin Existing /\ r \in Existing')
<1>1. CASE byID' \subseteq byID
  BY <1>1
<1>2. ASSUME NEW m \in Capacities, RegID(g, m)
      PROVE  r \in byID \/ (r \notin Existing /\ r \in Existing')
  <2>1. lastRoomID \in Nat /\ byID' = byID \cup {lastRoomID + 1}
        /\ lastRoomID' = lastRoomID + 1
    BY <1>2, Ids DEF RegID, Control, SharedOK
  <2> QED
    BY <2>1 DEF Existing
<1>3. CASE LeaveSum(g)
  BY <1>3, <1>1 DEF LeaveSum
<1> QED
  BY <1>1, <1>2, <1>3 DEF StepOf, Step, LeaveStep, LeaveClear, LeaveFind, LeaveLock,
     LeaveWrite, LeaveRow, LeaveIndex, RegHost, RegSum, RegArm, JoinLoad, JoinStoreCount,
     JoinRow, JoinSum, JoinIndex, StartMark, StartSum, StartIndex, StartArm,
     DisconnectDelete, TimerUnregister, RegBegin, LeaveBegin, StartBegin, Alive,
     DisconnectBegin, Fire, JoinBegin, UnchangedStore

(* The steps of a host that is on its way into or out of its room.         *)
LEMMA HostMoves ==
    ASSUME Control, NEW g \in Goroutine, StepOf(g),
           pc[g] \in {"reg_host", "leave_write", "leave_row", "leave_sum"}
    PROVE  \/ RegHost(g)
           \/ /\ pc'[g] \in {"leave_row", "leave_sum"} /\ loc'[g].room = loc[g].room
           \/ LeaveSum(g)
<1>1. pc \in [Goroutine -> ConnPC \cup TimerPC] /\ loc \in [Goroutine -> LocType]
  BY DEF Control
<1>2. \/ RegHost(g) \/ LeaveWrite(g) \/ LeaveRow(g) \/ LeaveSum(g)
  BY DEF StepOf, Step, LeaveStep, LeaveClear, LeaveFind, LeaveLock,
     LeaveIndex, RegID, RegSum, RegArm, JoinLoad, JoinStoreCount,
     JoinRow, JoinSum, JoinIndex, StartMark, StartSum, StartIndex, StartArm,
     DisconnectDelete, TimerUnregister, RegBegin, LeaveBegin, StartBegin, Alive,
     DisconnectBegin, Fire, JoinBegin, At
<1>3. CASE LeaveWrite(g) \/ LeaveRow(g)
  BY <1>1, <1>3 DEF LeaveWrite, LeaveRow, Goto, SetLoc, LocType
<1> QED
  BY <1>2, <1>3

LEMMA HostStep ==
    ASSUME Control, Membership, NEW g \in Goroutine, StepOf(g), g = <<Id(g), "conn">>
    PROVE  HostPresent'
<1> SUFFICES ASSUME NEW r \in byID', ~ rooms'[r].started, NEW h, h = rooms'[r].host
             PROVE  h \in Player /\ HostAt(h, r)'
  <2>1. \A r \in byID' : ~ rooms'[r].started =>
           \E h : h = rooms'[r].host /\ h \in Player /\ HostAt(h, r)'
    OBVIOUS
  <2> QED
    BY <2>1 DEF HostPresent, HostAt
<1>1. /\ pc \in [Goroutine -> ConnPC \cup TimerPC] /\ loc \in [Goroutine -> LocType]
      /\ byPID \in [PlayerID -> 0 .. lastRoomID] /\ Id(g) \in Player /\ Id(g) \in PlayerID
      /\ NoRoom \notin Existing /\ byID \subseteq Existing
  BY Kinds, Ids DEF Control, SharedOK, Existing
<1>2. CASE r \notin byID
  <2>1. r \notin Existing /\ r \in Existing'
    BY <1>2, ListedKept
  <2>2. /\ r = lastRoomID + 1 /\ rooms'[r].host = Id(g)
        /\ \E m \in Capacities : RegID(g, m)
    BY <2>1, NewRoomOf
  <2>3. pc'[g] = "reg_host" /\ loc'[g].room = r
    BY <1>1, <2>2 DEF RegID, Goto, SetLoc, LocType
  <2> QED
    BY <1>1, <2>2, <2>3 DEF HostAt
<1>3. CASE r \in byID
  <2>1. r \in Existing /\ r # NoRoom
    BY <1>1, <1>3
  <2>2. rooms[r].host = h /\ ~ rooms[r].started
    BY <2>1, RoomEffect
  <2>3. h \in Player /\ HostAt(h, r)
    BY <1>3, <2>2 DEF Membership, HostPresent
  <2>4. CASE Id(g) # h
    BY <2>3, <2>4, HereOther DEF HostAt
  <2>5. CASE Id(g) = h
    <3>1. g = <<h, "conn">>
      BY <2>5
    <3>2. /\ pc[g] \in Between => byPID[h] = NoRoom
          /\ pc[g] = "leave_lock" => loc[g].room = byPID[h]
      BY <2>3, <3>1 DEF Membership, OwnEntry
    <3>3. CASE byPID[h] = r
      <4>1. ~ RegHost(g) /\ ~ JoinSum(g)
        BY <2>1, <3>2, <3>3 DEF RegHost, JoinSum, At, Between
      <4>2. CASE LeaveLock(g)
        <5>1. pc'[g] = "leave_write" /\ loc'[g].room = loc[g].room /\ loc[g].room = r
          BY <1>1, <3>2, <3>3, <4>2 DEF LeaveLock, At, Goto, SetLoc, LocType
        <5> QED
          BY <2>3, <3>1, <5>1 DEF HostAt
      <4> QED
        BY <2>3, <3>3, <4>1, <4>2, EntriesKept DEF HostAt
    <3>4. CASE /\ pc[g] \in {"reg_host", "leave_write", "leave_row", "leave_sum"}
               /\ loc[g].room = r
      <4>1. CASE RegHost(g)
        <5>1. byPID'[h] = r
          BY <1>1, <2>5, <3>4, <4>1 DEF RegHost
        <5> QED
          BY <2>3, <5>1 DEF HostAt
      <4>2. CASE pc'[g] \in {"leave_row", "leave_sum"} /\ loc'[g].room = loc[g].room
        BY <2>3, <3>1, <3>4, <4>2 DEF HostAt
      <4>3. CASE LeaveSum(g)
        <5>1. ShouldDelete(Room(g), Id(g), Room(g).count)
          BY <2>2, <2>5, <3>4 DEF ShouldDelete, Room
        <5>2. r \notin byID'
          BY <3>4, <4>3, <5>1 DEF LeaveSum
        <5> QED
          BY <5>2
      <4> QED
        BY <3>4, <4>1, <4>2, <4>3, HostMoves
    <3> QED
      BY <2>3, <3>1, <3>3, <3>4 DEF HostAt
  <2> QED
    BY <2>4, <2>5
<1> QED
  BY <1>2, <1>3

LEMMA MembershipStep ==
    ASSUME Timed = {}, Control, Membership, NEW g \in Goroutine, StepOf(g)
    PROVE  Membership'
<1>1. g[2] = "conn" /\ g = <<Id(g), "conn">> /\ TimersIdle'
  BY ConnStep DEF Membership
<1>2. OwnEntry'
  <2> SUFFICES ASSUME NEW p \in Player
               PROVE  /\ pc'[<<p, "conn">>] \in Between => byPID'[p] = NoRoom
                      /\ pc'[<<p, "conn">>] = "leave_lock" =>
                            loc'[<<p, "conn">>].room = byPID'[p]
    BY DEF OwnEntry
  <2>1. /\ pc[<<p, "conn">>] \in Between => byPID[p] = NoRoom
        /\ pc[<<p, "conn">>] = "leave_lock" => loc[<<p, "conn">>].room = byPID[p]
    BY DEF Membership, OwnEntry
  <2>2. CASE Id(g) # p
    BY <2>1, <2>2, HereOther
  <2>3. CASE Id(g) = p
    <3>1. g = <<p, "conn">>
      BY <1>1, <2>3
    <3> QED
      BY <1>1, <2>1, <2>3, <3>1, OwnEntryStep
  <2> QED
    BY <2>2, <2>3
<1> QED
  BY <1>1, <1>2, MapStep, HostStep DEF Membership

LEMMA MembershipAlways ==
    ASSUME Timed = {}
    PROVE  Spec => []Membership
<1>1. Init => Membership
  <2> SUFFICES ASSUME Init PROVE Membership
    OBVIOUS
  <2>1. TimersIdle /\ OwnEntry
    BY Kinds DEF Init, TimersIdle, OwnEntry, Between, UnderLock
  <2>2. Existing = {} /\ byID = {}
    BY DEF Init, Existing
  <2> QED
    BY <2>1, <2>2 DEF Membership, MapFollows, HostPresent
<1>2. Control /\ Membership /\ [Next]_vars => Membership'
  <2>1. UNCHANGED vars /\ Membership => Membership'
    BY DEF vars, Membership, TimersIdle, OwnEntry, MapFollows, HostPresent, HostAt, Here,
           Existing
  <2> QED
    BY <2>1, NextSteps, MembershipStep
<1> QED
  BY <1>1, <1>2, ControlAlways, PTL DEF Spec

(* PlayerMapCurrent, for any number of connections that interleave: as     *)
(* long as no keep-alive timer fires, room.Players and roomsByPID agree    *)
(* when the handlers are done, although Join writes them without a lock.   *)
THEOREM PlayerMapCurrentAlways ==
    ASSUME Timed = {}
    PROVE  Spec => []PlayerMapCurrent
<1>1. Control /\ Membership => PlayerMapCurrent
  <2> SUFFICES ASSUME Control, Membership, Quiescent, NEW r \in Existing
               PROVE  /\ InRoom(r) \subseteq rooms[r].players
                      /\ ~ rooms[r].started => rooms[r].players = InRoom(r)
    BY DEF PlayerMapCurrent
  <2>1. rooms[r].players \subseteq Player
    BY ListedIDs DEF Control, SharedOK, ConcRoom
  <2>2. \A p \in Player : Here(p) = byPID[p]
    BY Kinds DEF Quiescent, Idle, Here
  <2> QED
    BY <2>1, <2>2 DEF Membership, MapFollows, InRoom
<1> QED
  BY <1>1, ControlAlways, MembershipAlways, PTL

(* DisconnectClosesRoom, for any number of connections: a room whose host  *)
(* has disconnected before the start is never left open, whatever joins    *)
(* and leaves of its guests interleave with OnDisconnect.                  *)
THEOREM DisconnectClosesRoomAlways ==
    ASSUME Timed = {}
    PROVE  Spec => []DisconnectClosesRoom
<1>1. Control /\ Membership /\ NoEntryAfterDisconnect => DisconnectClosesRoom
  <2> SUFFICES ASSUME Control, Membership, NoEntryAfterDisconnect, Quiescent,
                      NEW r \in byID, ~ rooms[r].started
               PROVE  pc[<<rooms[r].host, "conn">>] # "closed"
    BY DEF DisconnectClosesRoom
  <2>1. r # NoRoom
    BY ListedIDs, Ids
  <2>2. rooms[r].host \in Player /\ byPID[rooms[r].host] = r
    BY Kinds DEF Membership, HostPresent, HostAt, Quiescent, Idle
  <2> QED
    BY <2>1, <2>2 DEF NoEntryAfterDisconnect
<1> QED
  BY <1>1, ControlAlways, MembershipAlways, NoEntryAfterDisconnectAlways, PTL
=============================================================================
