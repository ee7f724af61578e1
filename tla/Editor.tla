------------------------------- MODULE Editor -------------------------------
(***************************************************************************)
(* A player prepares the fleet (gameStatus PREPARING): the random placing  *)
(* of the ships, and what the mouse does on the left board, from           *)
(* model/game/GameBoard.java and GameModel.java.  The cursor of the canvas *)
(* is the hand exactly while a ship is picked up, and is left out.         *)
(***************************************************************************)
EXTENDS GameModel

VARIABLES
  model,      \* myBoard, boardShips, pickedUpShipId
  populated   \* the ships that populateMyShips has placed, in order

vars == <<model, populated>>

Ready == populated = AMOUNT_OF_SHIP

Init ==
  /\ model = [myBoard |-> Blank, boardShips |-> initializeShips,
              pickedUpShipId |-> NoShip]
  /\ populated = 0

\* The numbers that rand.nextInt(n) returns as coordinates; the range of x is the
\* shorter one for a vertical ship and that of y for another.
Random(n) == -1 .. (n - 2)

\* One round of populateMyShips, with the last try of its inner loop.  After a
\* reconnect in this state the ships keep old positions until they are placed
\* here; no code reads them in between.
populateMyShips ==
  /\ ~Ready
  /\ \E vertical \in BOOLEAN :
       LET m     == [model EXCEPT !.boardShips[populated].vertical = vertical]
           short == SHIP_GAME_BOARD_SIZE - ShipLength[populated]
       IN \E x \in Random(IF vertical THEN short ELSE SHIP_GAME_BOARD_SIZE),
             y \in Random(IF vertical THEN SHIP_GAME_BOARD_SIZE ELSE short) :
            /\ canPlaceShip(m, populated, <<x, y>>)
            /\ model' = placeShip(m, populated, <<x, y>>)
  /\ populated' = populated + 1

\* A drag that begins on a square picks its ship up.
dragEvent(p) ==
  /\ Ready /\ model.pickedUpShipId = NoShip
  /\ isdigit(model.myBoard[p])
  /\ model' = [model EXCEPT !.pickedUpShipId = model.myBoard[p]]
  /\ UNCHANGED populated

\* A click on a ship turns it while no ship is in hand.
ClickTurns(p) ==
  /\ Ready /\ model.pickedUpShipId = NoShip
  /\ isdigit(model.myBoard[p])
  /\ model' = turnShip(model, model.myBoard[p])
  /\ UNCHANGED populated

\* With a ship in hand, a click on that ship puts it back, and a click elsewhere
\* moves it there if it can.
ClickDrops(p) ==
  LET s == model.pickedUpShipId
  IN /\ Ready /\ s # NoShip
     /\ model' = IF p \in Line(model, s, model.boardShips[s].boardPosition)
                 THEN [model EXCEPT !.pickedUpShipId = NoShip]
                 ELSE relocatePickedUpShip(model, p)
     /\ UNCHANGED populated

Next ==
  \/ populateMyShips
  \/ \E p \in Cells : dragEvent(p) \/ ClickTurns(p) \/ ClickDrops(p)

Spec == Init /\ [][Next]_vars

-----------------------------------------------------------------------------
(* What must hold *)

\* Whenever the player presses Ready, even with a ship in hand, the server
\* accepts the layout: the rule of canPlaceShip and the one of cmd_game_prepared,
\* written in two languages, agree on every fleet that can be edited.
ReadyAccepted ==
  Ready =>
    /\ Complete(getMyBoardStringForm(model.myBoard))
    /\ \A player \in {1, 2} :
         Prepare(player, Blank, clean_client_ships,
                 getMyBoardStringForm(model.myBoard)).error = OK

\* The ships know where they are: the squares that show a ship are those that its
\* position and direction say, so that turning, dropping and putting back never
\* clear or keep squares of another one.
ShipsWhereTheyAre ==
  Ready =>
    \A s \in ShipNumbers :
      {c \in Cells : model.myBoard[c] = s}
        = Line(model, s, model.boardShips[s].boardPosition)
=============================================================================
