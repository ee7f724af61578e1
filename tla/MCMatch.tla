------------------------------ MODULE MCMatch ------------------------------
(* A board of 3x3 with a ship of two squares and one of one square, and the *)
(* layouts that two players try: accepted ones with the long ship across,   *)
(* down, and at the edge, and one for each reason to refuse.                *)
EXTENDS Match, TLC

MCShipLength == 0 :> 2 @@ 1 :> 1

\* Read as three rows.
Across  == << 0,  0, -1,
             -1, -1, -1,
             -1,  1, -1>>
Down    == <<-1, -1,  0,
              1, -1,  0,
             -1, -1, -1>>
Touches == << 0,  0, -1,
             -1, -1,  1,
             -1, -1, -1>>
Bent    == << 1, -1,  0,
             -1,  0, -1,
             -1, -1, -1>>
Single  == << 0, -1,  1,
             -1, -1, -1,
             -1, -1, -1>>
NoShip  == << 0,  0, -1,
             -1, -1, -1,
              2, -1,  1>>
Strange == << 0,  0, -1,
             -4, -1, -1,
             -1, -1,  1>>
Short   == << 0,  0, -1, -1>>

MCLayouts   == {Across, Down, Touches, Bent, Single, NoShip, Strange, Short}
MCIntSpan   == 64
\* The first and last row or column, a number that atoi takes for the one between
\* them, the first number beyond the board, and something that is no number.
MCShotArgs  == {0, MCIntSpan + 1, 2, SHIP_GAME_BOARD_SIZE, NotANumber}

\* The error of the last reply is read by no handler, and the boards of a game
\* that has ended are freed; error is looked at in the steps only.
MCView ==
  << state, count, winner, [p \in Player |-> Sunk(p)],
     IF winner = Undecided THEN <<board, ships>> ELSE <<>> >>
=============================================================================
