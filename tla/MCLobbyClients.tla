--------------------------- MODULE MCLobbyClients ---------------------------
(* Clients that poll the room list, and clients that fall silent.  The two *)
(* do not depend on each other (GETTBL reads the registry and changes the  *)
(* client's view alone): following one at a time, with developers only     *)
(* among those who poll, leaves room for more rooms.  No timer callback is *)
(* kept from firing by this.                                               *)
EXTENDS MCLobby

OneAtATime ==
    hung' # {} => \A c \in Conn : view'[c] = {} /\ ~ dev'[c]

=============================================================================
