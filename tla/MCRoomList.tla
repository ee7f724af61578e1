----------------------------- MODULE MCRoomList -----------------------------
(* Four rooms that come and go in a list of three entries. *)
EXTENDS RoomList, TLC

CONSTANTS g1, g2, g3, g4
MCGames == {g1, g2, g3, g4}
MCSymmetry == Permutations(MCGames)
=============================================================================
