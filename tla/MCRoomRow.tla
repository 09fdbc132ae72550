------------------------------ MODULE MCRoomRow ------------------------------
(* Values of the constants of RoomRow for two rooms of one title.          *)
EXTENDS RoomRow

(* "game", for every room.                                                 *)
MCOneTitle == {<<103, 97, 109, 101>>}
==============================================================================
