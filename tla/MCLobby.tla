------------------------------- MODULE MCLobby -------------------------------
(* Values of the constants of Lobby for the model checker.                 *)
EXTENDS Lobby, TLC

(* An injective stand-in for controlSum on the rows of the instance.       *)
MCControlSum(w) ==
    2 * ((MaxPlayerID + 2) * w.id + w.count) + (IF w.started THEN 1 ELSE 0)

MCSums == {MCControlSum(w) : w \in RowType}

(* Connections that neither poll nor hang only differ by name.             *)
MCSymmetry == Permutations(Conn \ (Viewers \cup Hangers))

=============================================================================
