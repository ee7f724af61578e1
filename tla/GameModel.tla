----------------------------- MODULE GameModel -----------------------------
(***************************************************************************)
(* The client's boards (client/.../model/game/GameModel.java), as pure     *)
(* operators: placing, turning and moving the ships of one's own board,    *)
(* marking a sunk ship, and the conversions from and to the characters of  *)
(* the protocol.  A square of status SHIP is the number of its ship, EMPTY,*)
(* HIT and MISSED are Empty, Hit and Miss, and the Java code's coordinates *)
(* 1 .. MAX are the server's 0 .. SHIP_GAME_BOARD_SIZE - 1.                *)
(***************************************************************************)
EXTENDS Ships

Blank == [c \in Cells |-> Empty]       \* init_board

getNeighbors(c) == {d \in Cells : Adjacent(c, d)}

-----------------------------------------------------------------------------
(* Preparing the fleet: m is the part of a GameModel that the player edits, *)
(* myBoard, boardShips and pickedUpShipId.                                  *)

NotPlaced == <<>>        \* the boardPosition of a ship not placed yet
NoShip    == -1          \* pickedUpShipId = null

initializeShips ==
  [s \in ShipNumbers |-> [boardPosition |-> NotPlaced, vertical |-> FALSE]]

\* The squares of ship s if its first one were at.
Line(m, s, at) ==
  {IF m.boardShips[s].vertical THEN <<at[1], at[2] + k>> ELSE <<at[1] + k, at[2]>>
     : k \in 0 .. (ShipLength[s] - 1)}

\* Mutant: the neighbours of the first square only.
CanPlaceNearFirst(m, s, at) ==
  /\ Line(m, s, at) \subseteq Cells
  /\ \A c \in Line(m, s, at) : m.myBoard[c] = Empty
  /\ \A d \in getNeighbors(at) : m.myBoard[d] \in {Empty, m.pickedUpShipId}

\* Of a vertical ship only the first square is looked at itself; the others are
\* neighbours of it or of one another.  The ship in hand is no obstacle to itself
\* as a neighbour.
canPlaceShip(m, s, at) ==
  /\ Line(m, s, at) \subseteq Cells
  /\ \A c \in IF m.boardShips[s].vertical THEN {at} ELSE Line(m, s, at) :
       m.myBoard[c] = Empty
  /\ \A c \in Line(m, s, at) : \A d \in getNeighbors(c) :
       m.myBoard[d] \in {Empty} \cup ({m.pickedUpShipId} \ {NoShip})

placeShip(m, s, at) ==
  IF canPlaceShip(m, s, at)
  THEN [m EXCEPT !.boardShips[s].boardPosition = at,
                 !.myBoard = [c \in Cells |->
                                IF c \in Line(m, s, at) THEN s ELSE @[c]]]
  ELSE m

\* What stands on the squares of the ship is cleared, whatever it is.
removeShip(m, s) ==
  LET at == m.boardShips[s].boardPosition
  IN IF at \notin Cells \/ ~isdigit(m.myBoard[at]) THEN m
     ELSE [m EXCEPT !.myBoard = [c \in Cells |->
                                   IF c \in Line(m, s, at) THEN Empty ELSE @[c]]]

Turned(m, s) == [m EXCEPT !.boardShips[s].vertical = ~@]

\* Mutant: a ship that cannot be turned is put back in the new direction.
TurnForGood(m, s) ==
  LET at == m.boardShips[s].boardPosition
  IN IF removeShip(m, s) = m THEN m
     ELSE placeShip(Turned(removeShip(m, s), s), s, at)

\* A ship that finds no room in the other direction is put back.
turnShip(m, s) ==
  LET at      == m.boardShips[s].boardPosition
      removed == removeShip(m, s)
      turned  == Turned(removed, s)
  IN IF removed = m THEN m
     ELSE IF canPlaceShip(turned, s, at) THEN placeShip(turned, s, at)
     ELSE placeShip(removed, s, at)

relocatePickedUpShip(m, at) ==
  LET s == m.pickedUpShipId
  IN IF canPlaceShip(m, s, at)
     THEN [placeShip(removeShip(m, s), s, at) EXCEPT !.pickedUpShipId = NoShip]
     ELSE m

-----------------------------------------------------------------------------
(* Shots *)

\* Mutant: the direction of the ship is not looked for.
RunAcross(board, sq) ==
  {<<sq[1] + k, sq[2]>> : k \in
     {j \in (0 - sq[1]) .. (SHIP_GAME_BOARD_SIZE - 1 - sq[1]) :
        \A i \in IF j < 0 THEN j .. 0 ELSE 0 .. j :
          board[<<sq[1] + i, sq[2]>>] = Hit}}

\* The hits in one line with sq and without a gap: in a column if there is a hit
\* above or below sq, and otherwise in a row.
HitRun(board, sq) ==
  LET vertical == \E c \in Cells :
                    c[1] = sq[1] /\ c[2] - sq[2] \in {-1, 1} /\ board[c] = Hit
      at(k) == IF vertical THEN <<sq[1], sq[2] + k>> ELSE <<sq[1] + k, sq[2]>>
      far   == SHIP_GAME_BOARD_SIZE - 1
  IN {at(k) : k \in {j \in -far .. far :
        \A i \in IF j < 0 THEN j .. 0 ELSE 0 .. j :
          at(i) \in Cells /\ board[at(i)] = Hit}}

\* On being told that the shot at sq destroyed a ship; the client does not know
\* which one, and looks for its squares among the hits.
markDestroyedShip(board, sq) ==
  IF board[sq] # Hit THEN board
  ELSE [c \in Cells |->
          IF board[c] # Hit /\ \E h \in HitRun(board, sq) : c \in getNeighbors(h)
          THEN Miss ELSE board[c]]

\* hitEnemy or beingHit, and the marking.
Shot(board, sq, status, destroyed) ==
  LET shot == [board EXCEPT ![sq] = status]
  IN IF status = Hit /\ destroyed THEN markDestroyedShip(shot, sq) ELSE shot

-----------------------------------------------------------------------------
(* Conversions *)

getMyBoardStringForm(board) ==
  [i \in 1 .. GAME_BOARD_STRING_SIZE |-> board[SquareAt(i - 1)]]

\* A character without a meaning is an empty square.
convertStringToBoard(layout) ==
  [c \in Cells |->
     LET char == layout[c[2] * SHIP_GAME_BOARD_SIZE + c[1] + 1]
     IN IF char \in ShipNumbers \cup {Hit, Miss} THEN char ELSE Empty]
=============================================================================
