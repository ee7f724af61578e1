----------------------------- MODULE MCFraming -----------------------------
(* Requests a player makes in a game, and a list that a player asks for.    *)
EXTENDS Framing

MCRequests ==
  { <<"room_list_req">>, <<"room_join_req", "1">>, <<"game_prepared", "board">>,
    <<"game_fire_req", "1", "2">>, <<"room_leave_req">> }

MCNewline == <<LF>>
=============================================================================
