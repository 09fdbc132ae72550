------------------------------ MODULE MCShown ------------------------------
(* What clients are shown of a room: its row in the table (RoomRow), the   *)
(* titles it may have (RoomRow with many titles), its dialog (RoomPage)    *)
(* and the endpoint of its host (HolePunch).  None of these reads the      *)
(* state of another: one part moves, the others stay.                      *)
EXTENDS HolePunch, RoomPage, RoomRow

VARIABLE part       \* the part that moves

(* A title that fits with blanks around it, and one that is cut.           *)
TwoTitles == {<<32, 66, 32>>, <<67, 68, 69, 70>>}

(* Titles of every shape up to the bound: letters, blanks, control bytes.  *)
Shapes == UNION {[1 .. n -> {7, 32, 65}] : n \in 0 .. 5}

Titles == INSTANCE RoomRow WITH
    RoomIDs <- {1}, RawTitles <- Shapes, RowCapacities <- {2}

(* An injective stand-in for controlSum on the rows of the instance.       *)
PageSum(w) == 2 * (5 * w.id + w.count) + (IF w.started THEN 1 ELSE 0)

PageSums == 0 .. 30

----------------------------------------------------------------------------
MCInit ==
    part \in {"row", "title", "page", "endpoint"} /\ RowInit /\ PageInit /\ Init

MCNext ==
    \/ part = "row" /\ RowNext /\ UNCHANGED <<part, pageVars, vars>>
    \/ part = "title" /\ Titles!RowNext /\ UNCHANGED <<part, pageVars, vars>>
    \/ part = "page" /\ PageNext /\ UNCHANGED <<part, rowVars, vars>>
    \/ part = "endpoint" /\ Next /\ UNCHANGED <<part, rowVars, pageVars>>

MCSpec == MCInit /\ [][MCNext]_<<part, rowVars, pageVars, vars>>
=============================================================================
