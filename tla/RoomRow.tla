------------------------------- MODULE RoomRow -------------------------------
(***************************************************************************)
(* The row a room has in the clients' tables, byte by byte: the title that *)
(* reg_new_room accepts, the columns RegisterNew lays out for the two      *)
(* games, the edits of Join, Leave and MarkStarted, and the Adler-style    *)
(* control sum that stands for the row in GETTBL.  LobbyStore assumes that *)
(* the sum tells rows apart; here the sum is computed.                     *)
(*                                                                         *)
(* Rooms come one after another and a client polls now and then; rooms     *)
(* that open and close between two of RoomIDs are not followed.            *)
(***************************************************************************)
EXTENDS Integers, Sequences, SequencesExt

CONSTANTS
    RoomIDs,        \* bound: the rooms followed, ids of two digits at most
    MaxTitleLen,    \* lobby.MaxTitleLen (60 in the code), a natural number
    RawTitles,      \* bound: what VE_TITLE may hold, as bytes
    RowCapacities   \* bound: maxPlayers, at most 99 (Decimal)

VARIABLES
    id,         \* Room.ID of the room that is open, 0 before the first
    ac,         \* its host plays American Conquest: the row has VE_TYPE
    title,      \* Room.Title
    locked,     \* the room has a password
    max,        \* Room.MaxPlayers
    count,      \* Room.PlayersCount
    started,    \* Room.Started
    row,        \* Room.Row
    ctl,        \* Room.CtlSum
    heldRow,    \* client side: the row the client shows ...
    heldSum     \* ... and the sum it will name for it

rowVars == <<id, ac, title, locked, max, count, started, row, ctl, heldRow, heldSum>>

Byte == 0 .. 255

ASSUME RowAssumption ==
    /\ MaxTitleLen \in Nat /\ \A raw \in RawTitles : raw \in Seq(Byte)
    /\ RowCapacities \subseteq Int

Space == 32
Digit0 == 48

(* The columns no operation of the room reads: nick ("nick"), VE_TYPE, the *)
(* level label ("For all"), version and the host's address (127.0.0.1).    *)
Nick == <<110, 105, 99, 107>>
VEType == <<72>>
LevelLabel == <<70, 111, 114, 32, 97, 108, 108>>
Ver == <<50>>
HostAddrInt == <<49, 54, 55, 55, 55, 51, 52, 51>>

----------------------------------------------------------------------------
IsControl(b) == b < Space \/ b = 127

(* strings.TrimSpace, of the one space that is no control byte.            *)
TrimSpace(s) ==
    LET kept == {i \in DOMAIN s : s[i] # Space}
    IN  IF kept = {} THEN <<>>
        ELSE SubSeq(s, CHOOSE i \in kept : \A j \in kept : i <= j,
                       CHOOSE i \in kept : \A j \in kept : i >= j)

ValidateTitle(raw) ==
    TrimSpace(raw) # <<>> /\ \A i \in DOMAIN raw : ~ IsControl(raw[i])

(* MUTANT: trimmed first and cut afterwards.                               *)
NormalizeTitleTrimFirst(raw) ==
    LET t == TrimSpace(raw)
    IN  SubSeq(t, 1, IF Len(t) > MaxTitleLen THEN MaxTitleLen ELSE Len(t))

(* Cut first, trimmed afterwards.                                          *)
NormalizeTitle(raw) ==
    TrimSpace(SubSeq(raw, 1, IF Len(raw) > MaxTitleLen THEN MaxTitleLen
                             ELSE Len(raw)))

----------------------------------------------------------------------------
Decimal(n) ==
    IF n < 10 THEN <<Digit0 + n>> ELSE <<Digit0 + n \div 10, Digit0 + (n % 10)>>

(* "0%X" of 0xFFFFFFFF - n: the flag and eight hexadecimal digits, each    *)
(* the complement of n's.                                                  *)
FlagAndComplement(n) ==
    <<Digit0>> \o [k \in 1 .. 8 |->
        LET d == 15 - ((n \div 16^(8 - k)) % 16)
        IN  IF d < 10 THEN Digit0 + d ELSE 55 + d]

PlayersColumn(n, m) == Decimal(n) \o <<47>> \o Decimal(m)

LockMark(l) == IF l THEN <<35>> ELSE <<>>

(* Service.RegisterNew's row.                                              *)
NewRow(r, l, t, isAC, m) ==
    <<Decimal(r), LockMark(l), t, Nick>>
        \o (IF isAC THEN <<VEType>> ELSE <<>>)
        \o <<LevelLabel, PlayersColumn(1, m), Ver, HostAddrInt,
             FlagAndComplement(r)>>

(* setPlayersColumn: the fourth column from the right.                     *)
PutPlayersColumn(w, n, m) == [w EXCEPT ![Len(w) - 3] = PlayersColumn(n, m)]

(* MarkStarted's edits: the mark and the first byte of the last column.    *)
StartedMark == <<127, 48, 48, 49, 56>>

MarkedRow(w) == [w EXCEPT ![2] = StartedMark, ![Len(w)][1] = Digit0 + 1]

(* controlSum over the joined columns: v1 sums the bytes, v2 the values of *)
(* v1.  The pair stands for v2 << 16 | v1; rows are shorter than the 5552  *)
(* bytes after which the code reduces in between.                          *)
RowSum(w) ==
    LET column[i \in 0 .. Len(w)] ==
            IF i = 0 THEN <<0, 1>>
            ELSE LET byte[j \in 0 .. Len(w[i])] ==
                         IF j = 0 THEN column[i - 1]
                         ELSE LET v == byte[j - 1]
                              IN  <<v[1] + v[2] + w[i][j], v[2] + w[i][j]>>
                 IN  byte[Len(w[i])]
        sums == column[Len(w)]
    IN  <<sums[1] % 65521, sums[2] % 65521>>

----------------------------------------------------------------------------
RowInit ==
    /\ id = 0 /\ ac = FALSE /\ title = <<>> /\ locked = FALSE /\ max = 0
    /\ count = 0 /\ started = FALSE /\ row = <<>> /\ ctl = <<0, 0>>
    /\ heldRow = <<>> /\ heldSum = <<0, 0>>

(* MUTANT: the sum is taken before the edit.                               *)
KeepRowStale(w) == row' = w /\ ctl' = RowSum(IF row = <<>> THEN w ELSE row)

(* A new row, and its sum in the index.                                    *)
KeepRow(w) == row' = w /\ ctl' = RowSum(w)

(* reg_new_room: a later room, the former one closed.                      *)
RegNewRow(r, raw, l, isAC, m) ==
    /\ r > id
    /\ ValidateTitle(raw)
    /\ id' = r /\ ac' = isAC /\ locked' = l /\ max' = m
    /\ title' = NormalizeTitle(raw)
    /\ count' = 1 /\ started' = FALSE
    /\ KeepRow(NewRow(r, l, title', isAC, m))
    /\ UNCHANGED <<heldRow, heldSum>>

(* Join and, before the start, the Leave of a guest.                       *)
CountRow(n) ==
    /\ count' = n
    /\ KeepRow(PutPlayersColumn(row, n, max))
    /\ UNCHANGED <<id, ac, title, locked, max, started, heldRow, heldSum>>

JoinRow == id # 0 /\ ~ started /\ count < max /\ CountRow(count + 1)
LeaveRow == id # 0 /\ ~ started /\ count > 1 /\ CountRow(count - 1)

(* The leave of a started room counts but leaves the row.                  *)
LeaveStarted ==
    /\ started /\ count > 1
    /\ count' = count - 1
    /\ KeepRow(row)
    /\ UNCHANGED <<id, ac, title, locked, max, started, heldRow, heldSum>>

(* start, possibly once more.                                              *)
MarkStarted ==
    /\ id # 0
    /\ started' = TRUE
    /\ KeepRow(MarkedRow(row))
    /\ UNCHANGED <<id, ac, title, locked, max, count, heldRow, heldSum>>

(* GETTBL: the row is sent unless its sum is the one the client names.     *)
Poll ==
    /\ id # 0
    /\ heldRow = <<>> \/ heldSum # ctl
    /\ heldRow' = row /\ heldSum' = ctl
    /\ UNCHANGED <<id, ac, title, locked, max, count, started, row, ctl>>

RowNext ==
    \/ \E r \in RoomIDs, raw \in RawTitles, l, isAC \in BOOLEAN, m \in RowCapacities :
          RegNewRow(r, raw, l, isAC, m)
    \/ JoinRow \/ LeaveRow \/ LeaveStarted \/ MarkStarted \/ Poll

RowSpec == RowInit /\ [][RowNext]_rowVars

----------------------------------------------------------------------------
(* state.go: the sum is there "to detect concurrent edits to a room's row  *)
(* state".  A client that shows an earlier row of the room that is open,   *)
(* be it by a join, a leave or the start, always gets the present one.     *)
EditsDetected ==
    heldRow # <<>> /\ heldRow[1] = row[1] /\ heldSum = ctl => heldRow = row

(* gettbl.go: the answer describes the "changes since the client's last    *)
(* view of the room list".  The client names sums and the server compares  *)
(* sums, so this takes distinct sums for the rows of distinct rooms, even  *)
(* of rooms that differ in nothing but what the server writes: the id, the *)
(* players column and the capacity.                                        *)
RoomsDistinguished == heldRow # <<>> /\ heldSum = ctl => heldRow = row

(* The edits find their columns in both layouts: before the start the row  *)
(* is the one RegisterNew would build with the present number of players;  *)
(* after it, the one of the moment of the start with the marks set.        *)
RowCurrent ==
    LET shown(n) ==
            <<Decimal(id), IF started THEN StartedMark ELSE LockMark(locked),
              title, Nick>>
            \o (IF ac THEN <<VEType>> ELSE <<>>)
            \o <<LevelLabel, PlayersColumn(n, max), Ver, HostAddrInt,
                 <<Digit0 + (IF started THEN 1 ELSE 0)>>
                     \o Tail(FlagAndComplement(id))>>
    IN  id # 0 => \E n \in {count} \cup count .. max :
                      row = shown(n) /\ (~ started => n = count)

(* title.go: what is longer than the limit is cut "and then trimmed", so   *)
(* that a title has neither control bytes nor blanks around it and fits.   *)
TitleClean ==
    /\ Len(title) <= MaxTitleLen
    /\ TrimSpace(title) = title
    /\ \A i \in DOMAIN title : ~ IsControl(title[i])

(* What a client reads in a row is the room as it is.                      *)
RowSound == RowCurrent /\ TitleClean

----------------------------------------------------------------------------
(* What the repository says and the code does not do.                      *)

(* title.go: "A title is rejected when it is empty after trimming".        *)
TitleNotBlank == id # 0 => title # <<>>
=============================================================================
