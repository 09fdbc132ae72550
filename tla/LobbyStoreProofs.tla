--------------------------- MODULE LobbyStoreProofs ---------------------------
(***************************************************************************)
(* Every operation of the lobby service preserves the consistency of the   *)
(* registry, for any number of players, rooms and connections and any      *)
(* control sum that does not collide.                                      *)
(***************************************************************************)
EXTENDS LobbyStore, FiniteSetTheorems, TLAPS

(* The memberships of a registry are finite and bounded by the player ids, *)
(* and a room that has a member has a positive count.                      *)
LEMMA MembersFinite ==
    ASSUME NEW st \in StoreType, NEW r
    PROVE  /\ IsFiniteSet(Members(st, r))
           /\ Cardinality(Members(st, r)) \in Count
           /\ Members(st, r) # {} <=> Cardinality(Members(st, r)) > 0
<1>1. IsFiniteSet(PlayerID) /\ Cardinality(PlayerID) = MaxPlayerID + 1
  BY FS_Interval, BoundsAssumption DEF PlayerID
<1>2. Members(st, r) \subseteq PlayerID
  BY DEF Members
<1>3. /\ IsFiniteSet(Members(st, r))
      /\ Cardinality(Members(st, r)) <= Cardinality(PlayerID)
  BY <1>1, <1>2, FS_Subset
<1>4. Cardinality(Members(st, r)) \in Nat
  BY <1>3, FS_CardinalityType
<1>5. Cardinality(Members(st, r)) = 0 <=> Members(st, r) = {}
  BY <1>3, FS_EmptySet
<1> QED
  BY <1>1, <1>3, <1>4, <1>5, BoundsAssumption DEF Count

(* What the edits of a room record produce.                                *)
LEMMA RowEdits ==
    ASSUME NEW w \in RowType, NEW n \in Count
    PROVE  /\ SetPlayersColumn(w, n) \in RowType
           /\ SetPlayersColumn(w, n).id = w.id
           /\ StartedRow(w) \in RowType
           /\ StartedRow(w).id = w.id
BY DEF SetPlayersColumn, StartedRow, RowType

LEMMA WithRowFields ==
    ASSUME NEW room \in RoomType, NEW w \in RowType
    PROVE  /\ WithRow(room, w) \in RoomType
           /\ WithRow(room, w).host = room.host
           /\ WithRow(room, w).max = room.max
           /\ WithRow(room, w).count = room.count
           /\ WithRow(room, w).players = room.players
           /\ WithRow(room, w).started = room.started
           /\ WithRow(room, w).row = w
           /\ WithRow(room, w).ctl = ControlSum(w)
BY ControlSumAssumption DEF WithRow, RoomType

LEMMA LeaveFields ==
    ASSUME NEW room \in RoomType, NEW p \in PlayerID, room.count > 0
    PROVE  LET new == RoomAfterLeave(room, p) IN
           /\ new \in RoomType
           /\ new.host = room.host
           /\ new.max = room.max
           /\ new.count = room.count - 1
           /\ new.players = IF room.started THEN room.players
                            ELSE room.players \ {p}
           /\ new.started = room.started
           /\ new.row.id = room.row.id
           /\ new.ctl = ControlSum(new.row)
<1> DEFINE n == room.count - 1
           w == IF room.started THEN room.row ELSE SetPlayersColumn(room.row, n)
           mid == [room EXCEPT !.count = n, !.players = PlayersAfterLeave(room, p)]
<1>1. n \in Count /\ room.row \in RowType
  BY BoundsAssumption DEF Count, RoomType
<1>2. w \in RowType /\ w.id = room.row.id
  BY <1>1, RowEdits
<1>3. /\ mid \in RoomType
      /\ mid.host = room.host /\ mid.max = room.max /\ mid.count = n
      /\ mid.players = IF room.started THEN room.players ELSE room.players \ {p}
      /\ mid.started = room.started
  BY <1>1 DEF RoomType, PlayersAfterLeave
<1>4. RoomAfterLeave(room, p) = WithRow(mid, w)
  BY DEF RoomAfterLeave
<1> HIDE DEF n, w, mid
<1>5. QED
  BY <1>2, <1>3, <1>4, WithRowFields DEF n

LEMMA JoinFields ==
    ASSUME NEW room \in RoomType, NEW p \in PlayerID, room.count + 1 \in Count
    PROVE  LET new == RoomAfterJoin(room, p) IN
           /\ new \in RoomType
           /\ new.host = room.host
           /\ new.max = room.max
           /\ new.count = room.count + 1
           /\ new.players = room.players \cup {p}
           /\ new.started = room.started
           /\ new.row.id = room.row.id
           /\ new.ctl = ControlSum(new.row)
<1> DEFINE n == room.count + 1
           w == SetPlayersColumn(room.row, n)
           mid == [room EXCEPT !.count = n, !.players = @ \cup {p}]
<1>1. n \in Count /\ room.row \in RowType
  BY DEF RoomType
<1>2. w \in RowType /\ w.id = room.row.id
  BY <1>1, RowEdits
<1>3. /\ mid \in RoomType
      /\ mid.host = room.host /\ mid.max = room.max /\ mid.count = n
      /\ mid.players = room.players \cup {p}
      /\ mid.started = room.started
  BY <1>1 DEF RoomType
<1>4. RoomAfterJoin(room, p) = WithRow(mid, w)
  BY DEF RoomAfterJoin
<1> HIDE DEF n, w, mid
<1>5. QED
  BY <1>2, <1>3, <1>4, WithRowFields DEF n

LEMMA StartFields ==
    ASSUME NEW room \in RoomType
    PROVE  LET new == RoomAfterStart(room) IN
           /\ new \in RoomType
           /\ new.host = room.host
           /\ new.max = room.max
           /\ new.count = room.count
           /\ new.players = room.players
           /\ new.started = TRUE
           /\ new.row.id = room.row.id
           /\ new.ctl = ControlSum(new.row)
<1> DEFINE w == StartedRow(room.row)
           mid == [room EXCEPT !.started = TRUE]
<1>2. w \in RowType /\ w.id = room.row.id
  BY RowEdits DEF RoomType, StartedRow, RowType
<1>3. /\ mid \in RoomType
      /\ mid.host = room.host /\ mid.max = room.max /\ mid.count = room.count
      /\ mid.players = room.players
      /\ mid.started = TRUE
  BY DEF RoomType
<1>4. RoomAfterStart(room) = WithRow(mid, w)
  BY DEF RoomAfterStart
<1> HIDE DEF w, mid
<1>5. QED
  BY <1>2, <1>3, <1>4, WithRowFields

----------------------------------------------------------------------------
(* The common shape of Leave, Join and MarkStarted: room r is replaced and *)
(* re-indexed under its new sum (x = r) or taken out of that index.        *)
Updated(st, r, new, ids, pids, x) ==
    [rooms |-> [st.rooms EXCEPT ![r] = new],
     lastRoomID |-> st.lastRoomID,
     byID |-> ids,
     byPID |-> pids,
     bySum |-> ReindexSum(st.bySum, st.rooms[r].ctl, new.ctl, x)]

(* The assumptions under which such an update is harmless to the indexes.  *)
UpdateOK(st, r, new, ids, pids, x) ==
    /\ r \in Allocated(st)
    /\ new \in RoomType
    /\ new.row.id = r
    /\ new.ctl = ControlSum(new.row)
    /\ ids \subseteq st.byID
    /\ pids \in [PlayerID -> RoomID \cup {NoRoom}]
    /\ \A p \in PlayerID : pids[p] # NoRoom => pids[p] \in Allocated(st)
    /\ \A q \in RoomID \ {r} : {p \in PlayerID : pids[p] = q} = Members(st, q)
    /\ x = r \/ (x = NoRoom /\ r \notin ids)
    /\ x = r => {p \in PlayerID : pids[p] = r} # {}

(* Such an update keeps the registry well typed, its ids allocated, its    *)
(* rows summed and its checksum index exact.                               *)
LEMMA UpdateIndexes ==
    ASSUME NEW st \in StoreType, StoreInv(st), NEW r, NEW new, NEW ids,
           NEW pids, NEW x, UpdateOK(st, r, new, ids, pids, x)
    PROVE  LET st2 == Updated(st, r, new, ids, pids, x) IN
           /\ st2 \in StoreType
           /\ IndexedAllocated(st2)
           /\ RowsSummed(st2)
           /\ SumIndexExact(st2)
<1> DEFINE st2 == Updated(st, r, new, ids, pids, x)
           old == st.rooms[r]
<1>1. r \in RoomID /\ r # NoRoom
  BY BoundsAssumption DEF UpdateOK, Allocated, StoreType, RoomID, NoRoom
<1>2. /\ old \in RoomType /\ old.ctl \in Sums /\ new.ctl \in Sums
      /\ new.row \in RowType
  BY <1>1 DEF StoreType, RoomType, UpdateOK
<1>3. /\ st2.rooms = [st.rooms EXCEPT ![r] = new]
      /\ st2.lastRoomID = st.lastRoomID
      /\ st2.byID = ids
      /\ st2.byPID = pids
      /\ st2.bySum = [[st.bySum EXCEPT ![old.ctl] = NoRoom] EXCEPT ![new.ctl] = x]
  BY DEF Updated, ReindexSum
<1>4. st2 \in StoreType
  <2>1. st2.bySum \in [Sums -> RoomID \cup {NoRoom}]
    BY <1>1, <1>2, <1>3 DEF StoreType, UpdateOK
  <2>2. st2.rooms \in [RoomID -> RoomType]
    BY <1>1, <1>3 DEF StoreType, UpdateOK
  <2>3. ids \in SUBSET RoomID
    BY DEF StoreType, UpdateOK
  <2> QED
    BY <1>3, <2>1, <2>2, <2>3 DEF StoreType, UpdateOK, Updated
<1>5. IndexedAllocated(st2)
  <2>1. \A s \in Sums : st2.bySum[s] # NoRoom => st2.bySum[s] \in Allocated(st)
    BY <1>1, <1>2, <1>3 DEF StoreType, UpdateOK, StoreInv, IndexedAllocated
  <2>2. Allocated(st2) = Allocated(st)
    BY <1>3 DEF Allocated
  <2> QED
    BY <1>3, <2>1, <2>2 DEF UpdateOK, StoreInv, IndexedAllocated
<1>6. RowsSummed(st2)
  BY <1>1, <1>3 DEF StoreType, UpdateOK, StoreInv, RowsSummed
<1>7. ASSUME NEW q \in RoomID, q # r
      PROVE  /\ st2.rooms[q] = st.rooms[q]
             /\ st.rooms[q].ctl # new.ctl /\ st.rooms[q].ctl # old.ctl
  <2>1. st2.rooms[q] = st.rooms[q]
    BY <1>1, <1>3, <1>7 DEF StoreType
  <2>2. /\ st.rooms[q].row \in RowType /\ old.row \in RowType
        /\ st.rooms[q].row.id = q /\ old.row.id = r
        /\ st.rooms[q].ctl = ControlSum(st.rooms[q].row)
        /\ old.ctl = ControlSum(old.row)
    BY <1>1 DEF StoreType, RoomType, StoreInv, RowsSummed
  <2> QED
    BY <1>2, <1>7, <2>1, <2>2, ControlSumAssumption DEF UpdateOK
<1>8. \A q \in ids : st2.bySum[st2.rooms[q].ctl] = q
  <2> SUFFICES ASSUME NEW q \in ids PROVE st2.bySum[st2.rooms[q].ctl] = q
    OBVIOUS
  <2>1. q \in RoomID /\ st.bySum[st.rooms[q].ctl] = q
    BY DEF UpdateOK, StoreType, StoreInv, SumIndexExact
  <2>2. CASE q = r
    BY <1>1, <1>2, <1>3, <2>2 DEF UpdateOK, StoreType
  <2>3. CASE q # r
    <3>1. st.rooms[q].ctl \in Sums
      BY <2>1 DEF StoreType, RoomType
    <3> QED
      BY <1>2, <1>3, <1>7, <2>1, <2>3, <3>1 DEF StoreType
  <2> QED BY <2>2, <2>3
<1>9. ASSUME NEW s \in Sums, st2.bySum[s] # NoRoom
      PROVE  /\ st2.rooms[st2.bySum[s]].ctl = s
             /\ Members(st2, st2.bySum[s]) # {}
  <2>1. CASE s = new.ctl
    <3>1. st2.bySum[s] = r /\ x = r
      BY <1>1, <1>2, <1>3, <1>9, <2>1 DEF UpdateOK, StoreType
    <3> QED
      BY <1>1, <1>3, <2>1, <3>1 DEF UpdateOK, Members, StoreType
  <2>2. CASE s # new.ctl
    <3>1. s # old.ctl /\ st2.bySum[s] = st.bySum[s]
      BY <1>2, <1>3, <1>9, <2>2 DEF StoreType
    <3>2. /\ st.bySum[s] \in RoomID
          /\ st.rooms[st.bySum[s]].ctl = s
          /\ Members(st, st.bySum[s]) # {}
      BY <1>9, <3>1 DEF StoreType, StoreInv, SumIndexExact
    <3>3. st.bySum[s] # r
      BY <3>1, <3>2
    <3>4. Members(st2, st.bySum[s]) = Members(st, st.bySum[s])
      BY <1>3, <3>2, <3>3 DEF UpdateOK, Members
    <3> QED
      BY <1>7, <3>1, <3>2, <3>3, <3>4
  <2> QED BY <2>1, <2>2
<1> HIDE DEF st2
<1>10. SumIndexExact(st2)
  BY <1>3, <1>8, <1>9 DEF SumIndexExact
<1> QED
  BY <1>4, <1>5, <1>6, <1>10 DEF st2

----------------------------------------------------------------------------
(* Service.Leave preserves the consistency of the registry.                *)
LEMMA LeavePreserves ==
    ASSUME NEW st \in StoreType, StoreInv(st), NEW p \in PlayerID
    PROVE  LET st2 == LeaveStore(st, p) IN
           /\ st2 \in StoreType
           /\ StoreInv(st2)
           /\ st2.byPID = [st.byPID EXCEPT ![p] = NoRoom]
           /\ st2.byID \subseteq st.byID
           /\ st2.lastRoomID = st.lastRoomID
           /\ \A q \in RoomID : /\ st2.rooms[q].host = st.rooms[q].host
                                /\ st2.rooms[q].max = st.rooms[q].max
                                /\ st2.rooms[q].started = st.rooms[q].started
                                /\ st2.rooms[q].count <= st.rooms[q].count
<1> DEFINE r == st.byPID[p]
<1>1. CASE r = NoRoom
  <2>1. LeaveStore(st, p) = st
    BY <1>1 DEF LeaveStore
  <2>2. st.byPID = [st.byPID EXCEPT ![p] = NoRoom]
    BY <1>1 DEF StoreType
  <2>3. \A q \in RoomID : st.rooms[q].count \in Int
    BY BoundsAssumption DEF StoreType, RoomType, Count
  <2> QED
    BY <2>1, <2>2, <2>3
<1>2. CASE r # NoRoom
  <2> DEFINE room == st.rooms[r]
             new == RoomAfterLeave(room, p)
             closed == ShouldDelete(room, p, new.count)
             ids == IF closed THEN st.byID \ {r} ELSE st.byID
             pids == [st.byPID EXCEPT ![p] = NoRoom]
             x == IF closed THEN NoRoom ELSE r
             st2 == Updated(st, r, new, ids, pids, x)
  <2>1. LeaveStore(st, p) = st2
    BY <1>2 DEF LeaveStore, Updated
  <2>2. r \in RoomID /\ r \in Allocated(st) /\ room \in RoomType
    BY <1>2 DEF StoreType, StoreInv, IndexedAllocated
  <2>3. p \in Members(st, r) /\ room.count = Cardinality(Members(st, r))
    BY <2>2 DEF Members, StoreInv, CountIsMembers
  <2>4. room.count > 0 /\ room.count \in Int
    BY <2>2, <2>3, MembersFinite DEF Count
  <2>5. /\ new \in RoomType
        /\ new.host = room.host
        /\ new.max = room.max
        /\ new.count = room.count - 1
        /\ new.players = IF room.started THEN room.players
                         ELSE room.players \ {p}
        /\ new.started = room.started
        /\ new.row.id = room.row.id
        /\ new.ctl = ControlSum(new.row)
    BY <2>2, <2>4, LeaveFields
  <2> HIDE DEF new
  <2>6. /\ st2.rooms = [st.rooms EXCEPT ![r] = new]
        /\ st2.lastRoomID = st.lastRoomID
        /\ st2.byID = ids
        /\ st2.byPID = pids
        /\ Allocated(st2) = Allocated(st)
    BY DEF Updated, Allocated
  <2>7. pids \in [PlayerID -> RoomID \cup {NoRoom}]
    BY DEF StoreType
  <2>8. Members(st2, r) = Members(st, r) \ {p}
    BY <1>2, <2>2, <2>6, <2>7 DEF Members, StoreType
  <2>9. \A q \in RoomID \ {r} : Members(st2, q) = Members(st, q)
    <3>1. ASSUME NEW q \in RoomID \ {r}, NEW y \in PlayerID
          PROVE  pids[y] = q <=> st.byPID[y] = q
      BY BoundsAssumption DEF StoreType, NoRoom, RoomID
    <3> HIDE DEF pids, st2
    <3>2. ASSUME NEW q \in RoomID \ {r}
          PROVE  {y \in PlayerID : pids[y] = q} = {y \in PlayerID : st.byPID[y] = q}
      BY <3>1
    <3> QED
      BY <2>6, <3>2 DEF Members
  <2>10. Cardinality(Members(st2, r)) = new.count
    BY <2>3, <2>5, <2>8, MembersFinite, FS_RemoveElement
  <2>10a. Members(st2, r) = {} <=> new.count = 0
    <3>1. IsFiniteSet(Members(st, r))
      BY MembersFinite
    <3>2. IsFiniteSet(Members(st2, r))
      BY <2>8, <3>1, FS_RemoveElement, ZenonT(60)
    <3>3. Members(st2, r) = {} <=> Cardinality(Members(st2, r)) = 0
      BY <3>2, FS_EmptySet
    <3> QED
      BY <2>10, <3>3
  <2>11. closed <=> (Members(st2, r) = {} \/ (~ room.started /\ room.host = p))
    <3>1. new.count \in Int /\ new.count >= 0
      BY <2>4, <2>5
    <3> HIDE DEF st2
    <3> QED
      BY <2>10a, <3>1 DEF ShouldDelete
  <2> HIDE DEF closed
  <2>12. UpdateOK(st, r, new, ids, pids, x)
    <3>1. new.row.id = r
      BY <2>2, <2>5 DEF StoreInv, RowsSummed
    <3>2. \A y \in PlayerID : pids[y] # NoRoom => pids[y] \in Allocated(st)
      BY DEF StoreType, StoreInv, IndexedAllocated
    <3>3. \A q \in RoomID \ {r} :
            {y \in PlayerID : pids[y] = q} = Members(st, q)
      BY <2>6, <2>9 DEF Members
    <3>4. x = r => {y \in PlayerID : pids[y] = r} # {}
      <4>1. {y \in PlayerID : pids[y] = r} = Members(st2, r)
        BY <2>6 DEF Members
      <4>2. x = r => ~ closed
        BY <1>2
      <4> HIDE DEF x, st2, pids
      <4> QED
        BY <2>11, <4>1, <4>2
    <3>5. x = r \/ (x = NoRoom /\ r \notin ids)
      OBVIOUS
    <3>6. ids \subseteq st.byID
      OBVIOUS
    <3> HIDE DEF pids, ids, x
    <3> QED
      BY <2>2, <2>5, <2>7, <3>1, <3>2, <3>3, <3>4, <3>5, <3>6 DEF UpdateOK
  <2>13. /\ st2 \in StoreType
         /\ IndexedAllocated(st2)
         /\ RowsSummed(st2)
         /\ SumIndexExact(st2)
    <3> HIDE DEF pids, ids, x
    <3> QED
      BY <2>12, UpdateIndexes
  <2>14. /\ st2.rooms[r] = new
         /\ \A q \in RoomID \ {r} : st2.rooms[q] = st.rooms[q]
    BY <2>2, <2>6 DEF StoreType
  <2>15. Allocated(st) \subseteq RoomID /\ st.byID \subseteq Allocated(st)
    BY BoundsAssumption DEF StoreType, Allocated, RoomID, StoreInv, IndexedAllocated
  <2> HIDE DEF st2
  <2>16. CountIsMembers(st2)
    BY <2>6, <2>9, <2>10, <2>14, <2>15 DEF StoreInv, CountIsMembers
  <2>17. PlayersAreMembers(st2)
    <3> SUFFICES ASSUME NEW q \in Allocated(st)
                 PROVE  /\ Members(st2, q) \subseteq st2.rooms[q].players
                        /\ ~ st2.rooms[q].started =>
                              st2.rooms[q].players = Members(st2, q)
      BY <2>6 DEF PlayersAreMembers
    <3>1. /\ Members(st, q) \subseteq st.rooms[q].players
          /\ ~ st.rooms[q].started => st.rooms[q].players = Members(st, q)
      BY DEF StoreInv, PlayersAreMembers
    <3>2. CASE q = r
      <4>1. st2.rooms[q] = new /\ Members(st2, q) = Members(st, r) \ {p}
        BY <2>8, <2>14, <3>2
      <4>2. CASE room.started
        BY <2>5, <3>1, <3>2, <4>1, <4>2
      <4>3. CASE ~ room.started
        BY <2>5, <3>1, <3>2, <4>1, <4>3
      <4> QED BY <4>2, <4>3
    <3>3. CASE q # r
      BY <2>9, <2>14, <2>15, <3>1, <3>3
    <3> QED BY <3>2, <3>3
  <2>18. ListedRoomsHosted(st2)
    <3> SUFFICES ASSUME NEW q \in st2.byID
                 PROVE  /\ Members(st2, q) # {}
                        /\ ~ st2.rooms[q].started => st2.rooms[q].host \in Members(st2, q)
      BY DEF ListedRoomsHosted
    <3>1. /\ q \in st.byID /\ q \in RoomID
          /\ q = r => ~ closed
      BY <2>6, <2>15
    <3>2. /\ Members(st, q) # {}
          /\ ~ st.rooms[q].started => st.rooms[q].host \in Members(st, q)
      BY <3>1 DEF StoreInv, ListedRoomsHosted
    <3>3. CASE q = r
      <4>1. /\ Members(st2, r) # {}
            /\ ~ room.started => room.host # p
        BY <2>11, <3>1, <3>3
      <4>2. ~ room.started => room.host \in Members(st, r) \ {p}
        BY <3>2, <3>3, <4>1
      <4> QED
        BY <2>5, <2>8, <2>14, <3>3, <4>1, <4>2
    <3>4. CASE q # r
      BY <2>9, <2>14, <3>1, <3>2, <3>4
    <3> QED BY <3>3, <3>4
  <2>19. WithinCapacity(st2)
    <3> SUFFICES ASSUME NEW q \in st2.byID
                 PROVE  \/ st2.rooms[q].count <= st2.rooms[q].max
                        \/ st2.rooms[q].count = 1
      BY DEF WithinCapacity
    <3>1. /\ q \in st.byID /\ q \in RoomID
          /\ q = r => ~ closed
      BY <2>6, <2>15
    <3>2. st.rooms[q].count <= st.rooms[q].max \/ st.rooms[q].count = 1
      BY <3>1 DEF StoreInv, WithinCapacity
    <3>3. CASE q = r
      <4>1. new.count # 0
        BY <2>11, <2>10a, <3>1, <3>3
      <4>2. room.max \in Int
        BY <2>2, CapacitiesAssumption DEF RoomType
      <4> QED
        BY <2>4, <2>5, <2>14, <3>2, <3>3, <4>1, <4>2
    <3>4. CASE q # r
      BY <2>14, <3>1, <3>2, <3>4
    <3> QED BY <3>3, <3>4
  <2>20. \A q \in RoomID : /\ st2.rooms[q].host = st.rooms[q].host
                           /\ st2.rooms[q].max = st.rooms[q].max
                           /\ st2.rooms[q].started = st.rooms[q].started
                           /\ st2.rooms[q].count <= st.rooms[q].count
    <3>1. \A q \in RoomID : st.rooms[q].count \in Int
      BY BoundsAssumption DEF StoreType, RoomType, Count
    <3> QED
      BY <2>4, <2>5, <2>14, <3>1
  <2> QED
    BY <2>1, <2>6, <2>13, <2>16, <2>17, <2>18, <2>19, <2>20 DEF StoreInv
<1> QED
  BY <1>1, <1>2

(* Service.Join preserves it for a player in no room, whether or not the   *)
(* room is still listed, as long as it has not started; a listed room must *)
(* have a free place.                                                      *)
LEMMA JoinPreserves ==
    ASSUME NEW st \in StoreType, StoreInv(st), NEW p \in PlayerID,
           st.byPID[p] = NoRoom, NEW r \in Allocated(st),
           ~ st.rooms[r].started,
           r \in st.byID => st.rooms[r].count < st.rooms[r].max
    PROVE  LET st2 == JoinStore(st, r, p) IN
           /\ st2 \in StoreType
           /\ StoreInv(st2)
           /\ st2.byPID = [st.byPID EXCEPT ![p] = r]
           /\ st2.byID = st.byID
           /\ st2.lastRoomID = st.lastRoomID
           /\ \A q \in RoomID : /\ st2.rooms[q].host = st.rooms[q].host
                                /\ st2.rooms[q].started = st.rooms[q].started
<1> DEFINE room == st.rooms[r]
           new == RoomAfterJoin(room, p)
           pids == [st.byPID EXCEPT ![p] = r]
           st2 == Updated(st, r, new, st.byID, pids, r)
<1>1. JoinStore(st, r, p) = st2
  BY DEF JoinStore, Updated
<1>2. /\ r \in RoomID /\ r # NoRoom /\ room \in RoomType
      /\ Allocated(st) \subseteq RoomID /\ st.byID \subseteq Allocated(st)
  BY BoundsAssumption
     DEF StoreType, Allocated, RoomID, NoRoom, StoreInv, IndexedAllocated
<1>3. pids \in [PlayerID -> RoomID \cup {NoRoom}]
  BY <1>2 DEF StoreType
<1>4. /\ st2.rooms = [st.rooms EXCEPT ![r] = new]
      /\ st2.lastRoomID = st.lastRoomID
      /\ st2.byID = st.byID
      /\ st2.byPID = pids
      /\ Allocated(st2) = Allocated(st)
  BY DEF Updated, Allocated
<1>5. {y \in PlayerID : pids[y] = r} = Members(st, r) \cup {p}
  BY DEF Members, StoreType
<1>6. ASSUME NEW q \in RoomID \ {r}
      PROVE  {y \in PlayerID : pids[y] = q} = Members(st, q)
  <2>1. ASSUME NEW y \in PlayerID PROVE pids[y] = q <=> st.byPID[y] = q
    BY BoundsAssumption DEF StoreType, NoRoom, RoomID
  <2> HIDE DEF pids
  <2> QED
    BY <2>1 DEF Members
<1>7. p \notin Members(st, r)
  BY <1>2 DEF Members
<1>8. Cardinality({y \in PlayerID : pids[y] = r}) = room.count + 1
  <2>1. IsFiniteSet(Members(st, r)) /\ room.count = Cardinality(Members(st, r))
    BY MembersFinite DEF StoreInv, CountIsMembers
  <2> HIDE DEF pids, room
  <2> QED
    BY <1>5, <1>7, <2>1, FS_AddElement
<1>9. room.count + 1 \in Count
  <2> DEFINE T == {y \in PlayerID : pids[y] = r}
  <2>1. IsFiniteSet(PlayerID) /\ Cardinality(PlayerID) = MaxPlayerID + 1
    BY FS_Interval, BoundsAssumption DEF PlayerID
  <2>2. Cardinality(T) <= Cardinality(PlayerID)
    BY <2>1, FS_Subset
  <2>3. room.count \in Nat
    BY <1>2, BoundsAssumption DEF RoomType, Count
  <2> HIDE DEF T, pids, room
  <2>4. Cardinality(T) = room.count + 1
    BY <1>8 DEF T
  <2> QED
    BY <2>1, <2>2, <2>3, <2>4, BoundsAssumption DEF Count
<1>10. /\ new \in RoomType
       /\ new.host = room.host
       /\ new.max = room.max
       /\ new.count = room.count + 1
       /\ new.players = room.players \cup {p}
       /\ new.started = room.started
       /\ new.row.id = room.row.id
       /\ new.ctl = ControlSum(new.row)
  BY <1>2, <1>9, JoinFields
<1> HIDE DEF new
<1>11. UpdateOK(st, r, new, st.byID, pids, r)
  <2>1. new.row.id = r
    BY <1>2, <1>10 DEF StoreInv, RowsSummed
  <2>2. \A y \in PlayerID : pids[y] # NoRoom => pids[y] \in Allocated(st)
    BY DEF StoreType, StoreInv, IndexedAllocated
  <2>3. {y \in PlayerID : pids[y] = r} # {}
    BY <1>5
  <2> HIDE DEF pids
  <2> QED
    BY <1>3, <1>6, <1>10, <2>1, <2>2, <2>3 DEF UpdateOK
<1> HIDE DEF pids
<1>12. /\ st2 \in StoreType
       /\ IndexedAllocated(st2)
       /\ RowsSummed(st2)
       /\ SumIndexExact(st2)
  BY <1>11, UpdateIndexes
<1>13. /\ st2.rooms[r] = new
       /\ \A q \in RoomID \ {r} : st2.rooms[q] = st.rooms[q]
  BY <1>2, <1>4 DEF StoreType
<1> HIDE DEF st2
<1>14. /\ Members(st2, r) = Members(st, r) \cup {p}
       /\ \A q \in RoomID \ {r} : Members(st2, q) = Members(st, q)
  BY <1>4, <1>5, <1>6 DEF Members
<1>15. CountIsMembers(st2)
  <2>1. Cardinality(Members(st2, r)) = new.count
    BY <1>4, <1>8, <1>10 DEF Members
  <2> QED
    BY <1>2, <1>4, <1>13, <1>14, <2>1 DEF StoreInv, CountIsMembers
<1>16. PlayersAreMembers(st2)
  <2> SUFFICES ASSUME NEW q \in Allocated(st)
               PROVE  /\ Members(st2, q) \subseteq st2.rooms[q].players
                      /\ ~ st2.rooms[q].started =>
                            st2.rooms[q].players = Members(st2, q)
    BY <1>4 DEF PlayersAreMembers
  <2>1. /\ Members(st, q) \subseteq st.rooms[q].players
        /\ ~ st.rooms[q].started => st.rooms[q].players = Members(st, q)
    BY DEF StoreInv, PlayersAreMembers
  <2>2. CASE q = r
    BY <1>10, <1>13, <1>14, <2>1, <2>2
  <2>3. CASE q # r
    BY <1>2, <1>13, <1>14, <2>1, <2>3
  <2> QED BY <2>2, <2>3
<1>17. ListedRoomsHosted(st2)
  <2> SUFFICES ASSUME NEW q \in st.byID
               PROVE  /\ Members(st2, q) # {}
                      /\ ~ st2.rooms[q].started =>
                            st2.rooms[q].host \in Members(st2, q)
    BY <1>4 DEF ListedRoomsHosted
  <2>1. /\ Members(st, q) # {}
        /\ ~ st.rooms[q].started => st.rooms[q].host \in Members(st, q)
    BY DEF StoreInv, ListedRoomsHosted
  <2>2. CASE q = r
    BY <1>10, <1>13, <1>14, <2>1, <2>2
  <2>3. CASE q # r
    BY <1>2, <1>13, <1>14, <2>1, <2>3
  <2> QED BY <2>2, <2>3
<1>18. WithinCapacity(st2)
  <2> SUFFICES ASSUME NEW q \in st.byID
               PROVE  \/ st2.rooms[q].count <= st2.rooms[q].max
                      \/ st2.rooms[q].count = 1
    BY <1>4 DEF WithinCapacity
  <2>1. CASE q = r
    <3>1. room.count < room.max
      BY <2>1
    <3>2. room.count \in Count /\ room.max \in Capacities
      BY <1>2 DEF RoomType
    <3>3. room.count \in Int /\ room.max \in Int
      <4>1. room.count \in Int
        BY <3>2, BoundsAssumption DEF Count
      <4>2. room.max \in Int
        BY <3>2, CapacitiesAssumption, Zenon
      <4> QED BY <4>1, <4>2
    <3> QED
      BY <1>10, <1>13, <2>1, <3>1, <3>3
  <2>2. CASE q # r
    BY <1>2, <1>13, <2>2 DEF StoreInv, WithinCapacity
  <2> QED BY <2>1, <2>2
<1>19. \A q \in RoomID : /\ st2.rooms[q].host = st.rooms[q].host
                         /\ st2.rooms[q].started = st.rooms[q].started
  BY <1>10, <1>13
<1> QED
  BY <1>1, <1>4, <1>12, <1>15, <1>16, <1>17, <1>18, <1>19 DEF StoreInv, pids

(* Service.MarkStarted preserves it for a room that has a member.          *)
LEMMA StartPreserves ==
    ASSUME NEW st \in StoreType, StoreInv(st), NEW r \in Allocated(st),
           Members(st, r) # {}
    PROVE  LET st2 == StartStore(st, r) IN
           /\ st2 \in StoreType
           /\ StoreInv(st2)
           /\ st2.byPID = st.byPID
           /\ st2.byID = st.byID
           /\ st2.lastRoomID = st.lastRoomID
           /\ st2.rooms[r].started
           /\ \A q \in RoomID : /\ st2.rooms[q].host = st.rooms[q].host
                                /\ q # r => st2.rooms[q] = st.rooms[q]
<1> DEFINE room == st.rooms[r]
           new == RoomAfterStart(room)
           st2 == Updated(st, r, new, st.byID, st.byPID, r)
<1>1. StartStore(st, r) = st2
  BY DEF StartStore, Updated
<1>2. /\ r \in RoomID /\ r # NoRoom /\ room \in RoomType
      /\ Allocated(st) \subseteq RoomID /\ st.byID \subseteq Allocated(st)
  BY BoundsAssumption
     DEF StoreType, Allocated, RoomID, NoRoom, StoreInv, IndexedAllocated
<1>3. /\ st2.rooms = [st.rooms EXCEPT ![r] = new]
      /\ st2.lastRoomID = st.lastRoomID
      /\ st2.byID = st.byID
      /\ st2.byPID = st.byPID
      /\ Allocated(st2) = Allocated(st)
  BY DEF Updated, Allocated
<1>4. /\ new \in RoomType
      /\ new.host = room.host
      /\ new.max = room.max
      /\ new.count = room.count
      /\ new.players = room.players
      /\ new.started = TRUE
      /\ new.row.id = room.row.id
      /\ new.ctl = ControlSum(new.row)
  BY <1>2, StartFields
<1> HIDE DEF new
<1>5. UpdateOK(st, r, new, st.byID, st.byPID, r)
  <2>1. new.row.id = r
    BY <1>2, <1>4 DEF StoreInv, RowsSummed
  <2> QED
    BY <1>4, <2>1 DEF UpdateOK, Members, StoreType, StoreInv, IndexedAllocated
<1>6. /\ st2 \in StoreType
      /\ IndexedAllocated(st2)
      /\ RowsSummed(st2)
      /\ SumIndexExact(st2)
  BY <1>5, UpdateIndexes
<1>7. /\ st2.rooms[r] = new
      /\ \A q \in RoomID \ {r} : st2.rooms[q] = st.rooms[q]
  BY <1>2, <1>3 DEF StoreType
<1> HIDE DEF st2
<1>8. \A q \in RoomID : Members(st2, q) = Members(st, q)
  BY <1>3 DEF Members
<1>9. CountIsMembers(st2)
  BY <1>2, <1>3, <1>4, <1>7, <1>8 DEF StoreInv, CountIsMembers
<1>10. PlayersAreMembers(st2)
  BY <1>2, <1>3, <1>4, <1>7, <1>8 DEF StoreInv, PlayersAreMembers
<1>11. ListedRoomsHosted(st2)
  BY <1>2, <1>3, <1>4, <1>7, <1>8 DEF StoreInv, ListedRoomsHosted
<1>12. WithinCapacity(st2)
  BY <1>2, <1>3, <1>4, <1>7 DEF StoreInv, WithinCapacity
<1> QED
  BY <1>1, <1>2, <1>3, <1>4, <1>6, <1>7, <1>9, <1>10, <1>11, <1>12 DEF StoreInv

(* The room NewRoom builds.                                                *)
LEMMA NewRoomFields ==
    ASSUME NEW r \in RoomID, NEW h \in PlayerID, NEW m \in Capacities
    PROVE  LET new == NewRoom(r, h, m) IN
           /\ new \in RoomType
           /\ new.host = h
           /\ new.count = 1
           /\ new.players = {h}
           /\ ~ new.started
           /\ new.row \in RowType
           /\ new.row.id = r
           /\ new.ctl = ControlSum(new.row)
<1> DEFINE w == [id |-> r, count |-> 1, started |-> FALSE]
<1>1. 1 \in Count
  BY BoundsAssumption DEF Count
<1>2. w \in RowType /\ w.id = r
  BY <1>1 DEF RowType
<1>3. ControlSum(w) \in Sums
  BY <1>2, ControlSumAssumption
<1>4. NewRoom(r, h, m) = [host |-> h, max |-> m, count |-> 1, players |-> {h},
                          started |-> FALSE, row |-> w, ctl |-> ControlSum(w)]
  BY DEF NewRoom
<1> HIDE DEF w
<1> QED
  BY <1>1, <1>2, <1>3, <1>4 DEF RoomType

(* Service.RegisterNew preserves it for a host in no room.                 *)
LEMMA RegisterPreserves ==
    ASSUME NEW st \in StoreType, StoreInv(st), NEW h \in PlayerID,
           st.byPID[h] = NoRoom, NEW m \in Capacities,
           st.lastRoomID < MaxRoomID
    PROVE  LET r == st.lastRoomID + 1
               st2 == RegisterStore(st, h, m) IN
           /\ st2 \in StoreType
           /\ StoreInv(st2)
           /\ st2.byPID = [st.byPID EXCEPT ![h] = r]
           /\ st2.byID = st.byID \cup {r}
           /\ st2.lastRoomID = r
           /\ r \in RoomID /\ r \notin Allocated(st)
           /\ st2.rooms[r].host = h /\ ~ st2.rooms[r].started
           /\ \A q \in RoomID \ {r} : st2.rooms[q] = st.rooms[q]
<1> DEFINE r == st.lastRoomID + 1
           new == NewRoom(r, h, m)
           st2 == RegisterStore(st, h, m)
<1>1. /\ r \in RoomID /\ r # NoRoom /\ r \notin Allocated(st)
      /\ Allocated(st) \subseteq RoomID
      /\ 1 .. r = Allocated(st) \cup {r}
      /\ r \in 0 .. MaxRoomID
  BY BoundsAssumption DEF StoreType, Allocated, RoomID, NoRoom
<1>2. /\ st2.rooms = [st.rooms EXCEPT ![r] = new]
      /\ st2.lastRoomID = r
      /\ st2.byID = st.byID \cup {r}
      /\ st2.byPID = [st.byPID EXCEPT ![h] = r]
      /\ st2.bySum = [st.bySum EXCEPT ![new.ctl] = r]
      /\ Allocated(st2) = 1 .. r
  BY DEF RegisterStore, Allocated, NextRoomID
<1>3. /\ new \in RoomType
      /\ new.host = h
      /\ new.count = 1
      /\ new.players = {h}
      /\ ~ new.started
      /\ new.row \in RowType
      /\ new.row.id = r
      /\ new.ctl = ControlSum(new.row)
  <2>1. r \in RoomID
    BY <1>1
  <2> HIDE DEF r
  <2> QED
    BY <2>1, NewRoomFields
<1>4. new.ctl \in Sums
  BY <1>3 DEF RoomType
<1>5. st2 \in StoreType
  <2>1. st2 = [rooms |-> st2.rooms, lastRoomID |-> st2.lastRoomID,
               byID |-> st2.byID, byPID |-> st2.byPID, bySum |-> st2.bySum]
    BY DEF RegisterStore
  <2> HIDE DEF st2, new, r
  <2>2. st2.rooms \in [RoomID -> RoomType]
    BY <1>1, <1>2, <1>3 DEF StoreType
  <2>3. st2.bySum \in [Sums -> RoomID \cup {NoRoom}]
    BY <1>1, <1>2, <1>4 DEF StoreType
  <2>4. st2.byPID \in [PlayerID -> RoomID \cup {NoRoom}]
    BY <1>1, <1>2 DEF StoreType
  <2>5. st2.byID \in SUBSET RoomID /\ st2.lastRoomID \in 0 .. MaxRoomID
    BY <1>1, <1>2 DEF StoreType
  <2> QED
    BY <2>1, <2>2, <2>3, <2>4, <2>5 DEF StoreType
<1> HIDE DEF st2, new, r
<1>6. /\ st2.rooms[r] = new
      /\ \A q \in RoomID \ {r} : st2.rooms[q] = st.rooms[q]
  BY <1>1, <1>2 DEF StoreType
<1>7. Members(st, r) = {}
  BY <1>1 DEF Members, StoreInv, IndexedAllocated
<1>8. Members(st2, r) = {h}
  <2>1. \A y \in PlayerID : st2.byPID[y] = r <=> y = h
    BY <1>1, <1>2, <1>7 DEF Members, StoreType
  <2> QED
    BY <2>1 DEF Members
<1>9. ASSUME NEW q \in RoomID \ {r}
      PROVE  Members(st2, q) = Members(st, q)
  <2>1. \A y \in PlayerID : st2.byPID[y] = q <=> st.byPID[y] = q
    BY <1>2, BoundsAssumption DEF StoreType, NoRoom, RoomID
  <2> QED
    BY <2>1 DEF Members
<1>10. /\ st.byID \subseteq Allocated(st) /\ r \notin st.byID
       /\ \A s \in Sums : st.bySum[s] # r
  BY <1>1 DEF StoreInv, IndexedAllocated
<1>11. IndexedAllocated(st2)
  BY <1>1, <1>2, <1>4, <1>10 DEF StoreType, StoreInv, IndexedAllocated
<1>12. CountIsMembers(st2)
  <2>1. Cardinality(Members(st2, r)) = 1
    BY <1>8, FS_Singleton
  <2> QED
    BY <1>1, <1>2, <1>3, <1>6, <1>9, <2>1 DEF StoreInv, CountIsMembers
<1>13. PlayersAreMembers(st2)
  <2> SUFFICES ASSUME NEW q \in Allocated(st) \cup {r}
               PROVE  /\ Members(st2, q) \subseteq st2.rooms[q].players
                      /\ ~ st2.rooms[q].started =>
                            st2.rooms[q].players = Members(st2, q)
    BY <1>1, <1>2 DEF PlayersAreMembers
  <2>1. CASE q = r
    BY <1>3, <1>6, <1>8, <2>1
  <2>2. CASE q # r
    BY <1>1, <1>6, <1>9, <2>2 DEF StoreInv, PlayersAreMembers
  <2> QED BY <2>1, <2>2
<1>14. ListedRoomsHosted(st2)
  BY <1>1, <1>2, <1>3, <1>6, <1>8, <1>9, <1>10 DEF StoreInv, ListedRoomsHosted
<1>15. RowsSummed(st2)
  BY <1>3, <1>6 DEF StoreInv, RowsSummed
<1>16. WithinCapacity(st2)
  BY <1>1, <1>2, <1>3, <1>6, <1>10 DEF StoreInv, WithinCapacity
<1>17. ASSUME NEW q \in RoomID \ {r}
       PROVE  st.rooms[q].ctl \in Sums /\ st.rooms[q].ctl # new.ctl
  <2>1. /\ st.rooms[q].row \in RowType /\ st.rooms[q].row.id = q
        /\ st.rooms[q].ctl = ControlSum(st.rooms[q].row)
        /\ st.rooms[q].ctl \in Sums
    BY DEF StoreType, RoomType, StoreInv, RowsSummed
  <2> QED
    BY <1>3, <2>1, ControlSumAssumption
<1>18. \A q \in st2.byID : st2.bySum[st2.rooms[q].ctl] = q
  <2>1. st2.bySum[new.ctl] = r
    BY <1>2, <1>4 DEF StoreType
  <2>2. ASSUME NEW q \in st.byID
        PROVE  st2.bySum[st.rooms[q].ctl] = q /\ q \in RoomID \ {r}
    BY <1>1, <1>2, <1>10, <1>17 DEF StoreType, StoreInv, SumIndexExact
  <2> QED
    BY <1>2, <1>6, <2>1, <2>2
<1>19. ASSUME NEW s \in Sums, st2.bySum[s] # NoRoom
       PROVE  /\ st2.rooms[st2.bySum[s]].ctl = s
              /\ Members(st2, st2.bySum[s]) # {}
  <2>1. CASE s = new.ctl
    <3>1. st2.bySum[s] = r
      BY <1>2, <1>4, <2>1 DEF StoreType
    <3> QED
      BY <1>6, <1>8, <2>1, <3>1
  <2>2. CASE s # new.ctl
    <3>1. st2.bySum[s] = st.bySum[s]
      BY <1>2, <2>2 DEF StoreType
    <3>2. /\ st.bySum[s] \in RoomID \ {r}
          /\ st.rooms[st.bySum[s]].ctl = s
          /\ Members(st, st.bySum[s]) # {}
      BY <1>10, <1>19, <3>1 DEF StoreType, StoreInv, SumIndexExact
    <3> QED
      BY <1>6, <1>9, <3>1, <3>2
  <2> QED BY <2>1, <2>2
<1>20. SumIndexExact(st2)
  BY <1>18, <1>19 DEF SumIndexExact
<1>21. StoreInv(st2)
  BY <1>11, <1>12, <1>13, <1>14, <1>15, <1>16, <1>20 DEF StoreInv
<1> QED
  BY <1>1, <1>2, <1>3, <1>5, <1>6, <1>21 DEF st2, r

(* The empty registry is consistent.                                       *)
LEMMA InitStoreOK == InitStore \in StoreType /\ StoreInv(InitStore)
<1> DEFINE w(r) == [id |-> r, count |-> 0, started |-> FALSE]
           rm(r) == [host |-> NoPlayer, max |-> CHOOSE m \in Capacities : TRUE,
                     count |-> 0, players |-> {}, started |-> FALSE,
                     row |-> w(r), ctl |-> ControlSum(w(r))]
<1>1. /\ InitStore.rooms = [r \in RoomID |-> rm(r)]
      /\ InitStore.lastRoomID = 0
      /\ InitStore.byID = {}
      /\ InitStore.byPID = [p \in PlayerID |-> NoRoom]
      /\ InitStore.bySum = [s \in Sums |-> NoRoom]
      /\ InitStore = [rooms |-> InitStore.rooms,
                      lastRoomID |-> InitStore.lastRoomID,
                      byID |-> InitStore.byID, byPID |-> InitStore.byPID,
                      bySum |-> InitStore.bySum]
  BY DEF InitStore
<1>2. 0 \in Count /\ NoPlayer \in PlayerID
  BY BoundsAssumption DEF Count, NoPlayer, PlayerID
<1>3. ASSUME NEW r \in RoomID
      PROVE  rm(r) \in RoomType /\ rm(r).row.id = r
             /\ rm(r).ctl = ControlSum(rm(r).row)
  <2>1. w(r) \in RowType /\ w(r).id = r
    BY <1>2 DEF RowType
  <2>2. ControlSum(w(r)) \in Sums
    BY <2>1, ControlSumAssumption
  <2>3. (CHOOSE m \in Capacities : TRUE) \in Capacities
    BY CapacitiesAssumption
  <2> HIDE DEF w
  <2> QED
    BY <1>2, <2>1, <2>2, <2>3 DEF RoomType
<1> HIDE DEF rm
<1>4. InitStore \in StoreType
  BY <1>1, <1>3, BoundsAssumption DEF StoreType
<1>5. Allocated(InitStore) = {}
  BY <1>1 DEF Allocated
<1>6. RowsSummed(InitStore)
  BY <1>1, <1>3 DEF RowsSummed
<1> QED
  BY <1>1, <1>4, <1>5, <1>6
     DEF StoreInv, IndexedAllocated, CountIsMembers, PlayersAreMembers,
         ListedRoomsHosted, SumIndexExact, WithinCapacity

=============================================================================
