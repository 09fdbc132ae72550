--------------------------- MODULE AbstractLobby ---------------------------
(***************************************************************************)
(* What the lobby promises its players, without counters, player maps,     *)
(* rows, control sums, timers and sessions: who is in which room, which    *)
(* rooms are listed, which games have started.  A player is in one room at *)
(* most; a room is numbered once; it takes players while it is listed, not *)
(* started and not full; before the start it closes with its host, and in  *)
(* any case with its last player.  Lobby.tla is shown to implement this.   *)
(***************************************************************************)
EXTENDS Integers, FiniteSets

CONSTANTS
    Players,        \* player ids
    MaxRoomID,      \* room ids are 1 .. MaxRoomID
    Capacities,     \* the sizes a room may be created with
    None            \* in no room

VARIABLES
    where,      \* the room each player is in
    listed,     \* the rooms that can be found
    started,    \* the games that have started
    host,       \* who created each room
    cap,        \* the size of each room
    made        \* how many rooms have been created

avars == <<where, listed, started, host, cap, made>>

Rooms == 1 .. MaxRoomID

In(r) == {p \in Players : where[p] = r}

Init ==
    /\ where = [p \in Players |-> None]
    /\ listed = {} /\ started = {} /\ made = 0
    /\ host \in [Rooms -> Players]
    /\ cap \in [Rooms -> Capacities]

(* The room p is in closes when p goes.                                    *)
Closes(p) ==
    \/ In(where[p]) = {p}
    \/ where[p] \notin started /\ host[where[p]] = p

(* The rooms listed once p has left the one it is in, if any.              *)
Remaining(p) ==
    IF where[p] # None /\ Closes(p) THEN listed \ {where[p]} ELSE listed

Leave(p) ==
    /\ where[p] # None
    /\ where' = [where EXCEPT ![p] = None]
    /\ listed' = Remaining(p)
    /\ UNCHANGED <<started, host, cap, made>>

Create(p, m) ==
    /\ made < MaxRoomID
    /\ made' = made + 1
    /\ where' = [where EXCEPT ![p] = made + 1]
    /\ listed' = Remaining(p) \cup {made + 1}
    /\ started' = started \ {made + 1}
    /\ host' = [host EXCEPT ![made + 1] = p]
    /\ cap' = [cap EXCEPT ![made + 1] = m]

(* The room may be the one p is in, and may close when p leaves it.        *)
Join(p, r) ==
    /\ r \in listed \ started
    /\ Cardinality(In(r)) < cap[r]
    /\ where' = [where EXCEPT ![p] = r]
    /\ listed' = Remaining(p)
    /\ UNCHANGED <<started, host, cap, made>>

Start(p) ==
    /\ where[p] # None
    /\ started' = started \cup {where[p]}
    /\ UNCHANGED <<where, listed, host, cap, made>>

Next ==
    \E p \in Players :
        \/ Leave(p) \/ Start(p)
        \/ \E m \in Capacities : Create(p, m)
        \/ \E r \in Rooms : Join(p, r)

Spec == Init /\ [][Next]_avars
=============================================================================
