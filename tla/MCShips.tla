------------------------------ MODULE MCShips ------------------------------
(* Ships of three and one squares, on the 4x4 board of the configuration. *)
EXTENDS Layouts, TLC

MCShipLength == 0 :> 3 @@ 1 :> 1
=============================================================================
