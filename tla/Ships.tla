------------------------------- MODULE Ships -------------------------------
(***************************************************************************)
(* The board and the fleet of one player, as pure operators: game/ship.c,  *)
(* mark_destroyed_ship and clean_client_ships of game/shipsGame.c, and the *)
(* part of cmd_game_prepared that reads a layout.  The C code holds it all *)
(* twice, for player1_board and player2_board; here the board is a         *)
(* parameter.                                                              *)
(*                                                                         *)
(* A character of a board is an integer: 0, 1, ... are the digits, and the *)
(* other characters are negative.                                          *)
(***************************************************************************)
EXTENDS Integers, FiniteSets, Sequences

CONSTANTS
  SHIP_GAME_BOARD_SIZE,
  AMOUNT_OF_SHIP,
  ShipLength             \* SHIP_0_L, SHIP_1_L, ... by ship number

ShipNumbers == 0 .. (AMOUNT_OF_SHIP - 1)
Coords      == 0 .. (SHIP_GAME_BOARD_SIZE - 1)
Cells       == Coords \X Coords        \* <<x, y>> is board[y][x]

ASSUME BoardAssumption ==
  /\ SHIP_GAME_BOARD_SIZE \in Nat \ {0} /\ AMOUNT_OF_SHIP \in Nat \ {0}
  /\ ShipLength \in [ShipNumbers -> Nat \ {0}]

\* The characters 'E', 'H', 'M' and any character with no meaning.
Empty == -1
Hit   == -2
Miss  == -3
Unknown == -4

isdigit(c) == c >= 0

GAME_BOARD_STRING_SIZE == SHIP_GAME_BOARD_SIZE * SHIP_GAME_BOARD_SIZE

\* The square that character i of a layout, counted from 0, stands for.
SquareAt(i) == <<i % SHIP_GAME_BOARD_SIZE, i \div SHIP_GAME_BOARD_SIZE>>

OK                       == 0
ERROR_FORMAT             == 2
ERROR_SHIP_PLACEMENT     == 10
ERROR_SHIP_NUMBER        == 11
ERROR_SHIPS_WRONG_LENGTH == 13

-----------------------------------------------------------------------------
(* struct ship *)

ship_init ==
  [startX |-> -1, startY |-> -1, vertical |-> FALSE, length |-> 0, health |-> 0]

clean_client_ships == [s \in ShipNumbers |-> ship_init]

\* Mutant: a square in line is enough, wherever it is.
PlaceWithGaps(ship, x, y) ==
  LET first == ship.startX = -1 \/ ship.startY = -1
      sx    == IF first THEN x ELSE ship.startX
      sy    == IF first THEN y ELSE ship.startY
      vert  == IF ship.length = 1 THEN sx = x ELSE ship.vertical
  IN [ ship |-> [startX |-> sx, startY |-> sy, vertical |-> vert,
                 length |-> ship.length + 1, health |-> ship.health + 1],
       alright |-> IF vert THEN sx = x ELSE sy = y ]

\* The ship with one more square, and whether the square continues it.  The
\* second square decides the direction.
ship_place(ship, x, y) ==
  LET first == ship.startX = -1 \/ ship.startY = -1
      sx    == IF first THEN x ELSE ship.startX
      sy    == IF first THEN y ELSE ship.startY
      vert  == IF ship.length = 1 THEN sx = x ELSE ship.vertical
  IN [ ship |-> [startX |-> sx, startY |-> sy, vertical |-> vert,
                 length |-> ship.length + 1, health |-> ship.health + 1],
       alright |-> IF vert THEN sx = x /\ sy + ship.length = y
                           ELSE sy = y /\ sx + ship.length = x ]

ship_hit(ship) == [ship EXCEPT !.health = @ - 1]
\* Mutant: off by one.
NeverDestroyed(ship) == ship.health < 0

ship_destroyed(ship) == ship.health <= 0

\* Mutant: off by one, the last square of the ship instead of those beyond it.
SurroundingsShort(ship) ==
  LET at(along, across) == IF ship.vertical
                           THEN <<ship.startX + across, ship.startY + along>>
                           ELSE <<ship.startX + along, ship.startY + across>>
  IN {at(k, d) : k \in 0 .. (ship.length - 1), d \in {-1, 1}}
       \cup {at(k, d) : k \in {-1, ship.length - 1}, d \in -1 .. 1}

\* The squares at the long sides of a ship and the three beyond either end.
Surroundings(ship) ==
  LET at(along, across) == IF ship.vertical
                           THEN <<ship.startX + across, ship.startY + along>>
                           ELSE <<ship.startX + along, ship.startY + across>>
  IN {at(k, d) : k \in 0 .. (ship.length - 1), d \in {-1, 1}}
       \cup {at(k, d) : k \in {-1, ship.length}, d \in -1 .. 1}

\* Mutant: marks beyond the edges of the board.
MarkUnbounded(board, ship) ==
  [c \in Cells \cup Surroundings(ship) |->
     IF c \in Surroundings(ship) THEN Miss ELSE board[c]]

mark_destroyed_ship(board, ship) ==
  [c \in Cells |-> IF c \in Surroundings(ship) THEN Miss ELSE board[c]]

-----------------------------------------------------------------------------
(* Reading the layout of game_prepared *)

\* Mutants: one corner is forgotten; all eight neighbours are looked at.
ThreeNeighbours(x, y) ==
  {<<x, y - 1>>, <<x - 1, y>>, <<x - 1, y - 1>>} \cap Cells

AllNeighbours(x, y) ==
  {<<x + dx, y + dy>> : dx \in -1 .. 1, dy \in -1 .. 1} \cap Cells

\* The squares around <<x, y>> that have been read before it.
ReadNeighbours(x, y) ==
  {<<x, y - 1>>, <<x - 1, y>>, <<x - 1, y - 1>>, <<x + 1, y - 1>>} \cap Cells

\* Mutant: only the digits are looked at.
DigitError(c) ==
  IF isdigit(c) /\ c \notin ShipNumbers THEN ERROR_SHIP_NUMBER ELSE OK

CharError(c) ==
  IF isdigit(c) /\ c \notin ShipNumbers THEN ERROR_SHIP_NUMBER
  ELSE IF ~isdigit(c) /\ c # Empty THEN ERROR_FORMAT
  ELSE OK

\* The error of one round of the loop, for the character c; p is what the rounds
\* before it left.
SquareError(p, c) ==
  LET sq == SquareAt(p.i)
  IN IF CharError(c) # OK THEN CharError(c)
     ELSE IF isdigit(c) /\ \E nb \in ReadNeighbours(sq[1], sq[2]) :
                             isdigit(p.board[nb]) /\ p.board[nb] # c
     THEN ERROR_SHIP_PLACEMENT
     ELSE IF isdigit(c) /\ ~ship_place(p.ships[c], sq[1], sq[2]).alright
     THEN ERROR_SHIP_PLACEMENT
     ELSE OK

\* One round.  A refused layout leaves the ships cleaned, and the board as far as
\* it was read.
PlaceSquare(p, c) ==
  LET sq == SquareAt(p.i)
      e  == SquareError(p, c)
  IN IF p.error # OK THEN p
     ELSE IF e # OK THEN [p EXCEPT !.error = e, !.ships = clean_client_ships]
     ELSE [p EXCEPT !.i = @ + 1, !.board[sq] = c,
                    !.ships = IF isdigit(c)
                              THEN [p.ships EXCEPT ![c] = ship_place(@, sq[1], sq[2]).ship]
                              ELSE @]

\* The loop over the characters of a layout (or of its beginning).
ReadLayout(board, ships, layout) ==
  LET read[k \in 0 .. Len(layout)] ==
        IF k = 0 THEN [i |-> 0, board |-> board, ships |-> ships, error |-> OK]
                 ELSE PlaceSquare(read[k - 1], layout[k])
  IN read[Len(layout)]

\* The two copies of the check report different errors.
LengthError(playerNum) ==
  IF playerNum = 1 THEN ERROR_SHIPS_WRONG_LENGTH ELSE ERROR_SHIP_PLACEMENT

\* Everything cmd_game_prepared does to the board and the ships of a player in
\* STATE_IN_GAME_PREPARING, and the error it reports.
Prepare(playerNum, board, ships, layout) ==
  LET p == ReadLayout(board, ships, layout)
  IN IF Len(layout) # GAME_BOARD_STRING_SIZE
     THEN [board |-> board, ships |-> ships, error |-> ERROR_FORMAT]
     ELSE IF p.error # OK
     THEN [board |-> p.board, ships |-> p.ships, error |-> p.error]
     ELSE IF \E s \in ShipNumbers : p.ships[s].length # ShipLength[s]
     THEN [board |-> p.board, ships |-> clean_client_ships,
           error |-> LengthError(playerNum)]
     ELSE [board |-> p.board, ships |-> p.ships, error |-> OK]

-----------------------------------------------------------------------------
(* The rules of the game, as a reference for the code *)

Adjacent(a, b) == a # b /\ a[1] - b[1] \in -1 .. 1 /\ a[2] - b[2] \in -1 .. 1

ShipCells(layout, s) ==
  {SquareAt(i) : i \in {j \in 0 .. (Len(layout) - 1) : layout[j + 1] = s}}

\* The squares form a row or a column without a gap.
IsLine(S) ==
  S = {} \/ \E c \in S :
              \/ S = {<<c[1] + k, c[2]>> : k \in 0 .. (Cardinality(S) - 1)}
              \/ S = {<<c[1], c[2] + k>> : k \in 0 .. (Cardinality(S) - 1)}

\* What is allowed of a layout, whatever follows it.
Lawful(layout) ==
  /\ \A i \in 1 .. Len(layout) : layout[i] \in ShipNumbers \cup {Empty}
  /\ \A s \in ShipNumbers : IsLine(ShipCells(layout, s))
  /\ \A s, t \in ShipNumbers : s # t =>
       \A a \in ShipCells(layout, s), b \in ShipCells(layout, t) : ~Adjacent(a, b)

Complete(layout) ==
  /\ Len(layout) = GAME_BOARD_STRING_SIZE
  /\ Lawful(layout)
  /\ \A s \in ShipNumbers : Cardinality(ShipCells(layout, s)) = ShipLength[s]
=============================================================================
