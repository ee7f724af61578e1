------------------------------ MODULE MCEditor ------------------------------
(* Ships of three, two and one squares on a board of 5x5. *)
EXTENDS Editor, TLC

MCShipLength == 0 :> 3 @@ 1 :> 2 @@ 2 :> 1
=============================================================================
