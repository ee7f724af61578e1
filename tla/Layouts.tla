------------------------------ MODULE Layouts ------------------------------
(***************************************************************************)
(* Every layout that a client can send in game_prepared, one character     *)
(* after the other, and what cmd_game_prepared and the marking of sunk     *)
(* ships on either side make of it: the code of Ships and GameModel        *)
(* compared with the rules of the game.                                    *)
(* The environment stops where the beginning is refused: the code does not *)
(* look at what follows.                                                   *)
(***************************************************************************)
EXTENDS GameModel

VARIABLE layout

Symbols == ShipNumbers \cup {AMOUNT_OF_SHIP, Empty, Unknown}

Filled(c) == [sq \in Cells |-> c]

\* The board of game_init, and boards that earlier refused layouts left behind.
SomeBoards == {Filled(c) : c \in ShipNumbers \cup {Empty}}

Read == ReadLayout(Filled(Empty), clean_client_ships, layout)

LayoutInit == layout = <<>>

LayoutNext ==
  /\ Len(layout) < GAME_BOARD_STRING_SIZE /\ Read.error = OK
  /\ \E c \in Symbols : layout' = Append(layout, c)

LayoutSpec == LayoutInit /\ [][LayoutNext]_layout

-----------------------------------------------------------------------------
\* The check made square by square, which looks at four of the eight neighbours
\* and at the length of one ship, refuses exactly the layouts in which a ship is
\* bent, interrupted or touches another one, and at the earliest square.
ReadsLawful == Read.error = OK <=> Lawful(layout)

\* cmd_game_prepared accepts exactly the complete fleets of the rules.
AcceptsFleets ==
  \A player \in {1, 2} :
    Prepare(player, Filled(Empty), clean_client_ships, layout).error = OK
      <=> Complete(layout)

\* What an earlier refused layout left on the board does not matter: the answer
\* and the accepted board and fleet are those of a first attempt.
ForgetsRefused ==
  LET fresh == Prepare(1, Filled(Empty), clean_client_ships, layout)
  IN \A board \in SomeBoards :
       LET again == Prepare(1, board, clean_client_ships, layout)
       IN /\ again.error = fresh.error /\ again.ships = fresh.ships
          /\ again.error = OK => again.board = fresh.board

\* Sinking a ship of an accepted fleet marks all the water around it and nothing
\* else: no square of a ship, its own or another one.
MarksWater ==
  LET p == Prepare(1, Filled(Empty), clean_client_ships, layout)
  IN p.error = OK =>
       \A s \in ShipNumbers, c \in Cells :
         mark_destroyed_ship(p.board, p.ships[s])[c] =
           IF p.board[c] = Empty /\ \E a \in ShipCells(layout, s) : Adjacent(a, c)
           THEN Miss ELSE p.board[c]

\* The client, which is told only where the last shot fell, marks what the server
\* marks from the ship's start, direction and length: whatever else has been hit,
\* whichever square of the ship was hit last, on its own board (which shows the
\* ships) and on that of the enemy (which does not).
ClientMarksAlike ==
  LET p == Prepare(1, Filled(Empty), clean_client_ships, layout)
      Fired(hits) == [c \in Cells |-> IF c \in hits THEN Hit ELSE p.board[c]]
      Enemy(board) == [c \in Cells |-> IF isdigit(board[c]) THEN Empty ELSE board[c]]
  IN p.error = OK =>
       \A s \in ShipNumbers :
         \A others \in SUBSET UNION {ShipCells(layout, t) : t \in ShipNumbers \ {s}} :
           LET board  == Fired(ShipCells(layout, s) \cup others)
               marked == mark_destroyed_ship(board, p.ships[s])
           IN \A last \in ShipCells(layout, s) :
                /\ markDestroyedShip(board, last) = marked
                /\ markDestroyedShip(Enemy(board), last) = Enemy(marked)
=============================================================================
