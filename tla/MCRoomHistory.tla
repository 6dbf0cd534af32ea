--------------------------- MODULE MCRoomHistory ---------------------------
(* Small instances of RoomHistory for TLC. *)
EXTENDS RoomHistory, TLC

Symmetry == Permutations(Room) \cup Permutations(Web)
=============================================================================
