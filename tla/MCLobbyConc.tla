----------------------------- MODULE MCLobbyConc -----------------------------
(* Values of the constants of LobbyConc for the model checker.             *)
EXTENDS LobbyConc

(* A row stands for its own control sum: no two rows share one.            *)
MCRowSum(w) == w

=============================================================================
