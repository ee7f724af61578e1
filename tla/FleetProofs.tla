----------------------------- MODULE FleetProofs -----------------------------
(***************************************************************************)
(* Theorems about layouts and about the fleet a player prepares, for every *)
(* size of the board and every fleet: cmd_game_prepared accepts exactly    *)
(* the lawful layouts (Layouts), and the client's editor makes no other    *)
(* (Editor).                                                               *)
(***************************************************************************)
EXTENDS Layouts, Editor, ShipsProofs

-----------------------------------------------------------------------------
(* Theorems about layouts *)

LayoutInv == layout \in Seq(Symbols) /\ Len(layout) \in 0 .. N * N

LEMMA LayoutLength == LayoutSpec => []LayoutInv
  <1>1. N * N \in Nat /\ GAME_BOARD_STRING_SIZE = N * N
    BY BoardAssumption DEF GAME_BOARD_STRING_SIZE, N
  <1>2. LayoutInit => LayoutInv
    BY <1>1 DEF LayoutInit, LayoutInv
  <1>3. LayoutInv /\ [LayoutNext]_layout => LayoutInv'
    <2> SUFFICES ASSUME LayoutInv, [LayoutNext]_layout PROVE LayoutInv'
      OBVIOUS
    <2>1. CASE UNCHANGED layout
      BY <2>1 DEF LayoutInv
    <2>2. CASE LayoutNext
      <3>1. PICK c \in Symbols : layout' = Append(layout, c)
        BY <2>2 DEF LayoutNext
      <3>2. layout \in Seq(Symbols) /\ Len(layout) < N * N /\ Len(layout) \in Nat
        BY <1>1, <2>2 DEF LayoutInv, LayoutNext
      <3>3. layout' \in Seq(Symbols) /\ Len(layout') = Len(layout) + 1
        BY <3>1, <3>2
      <3> QED
        BY <1>1, <3>2, <3>3 DEF LayoutInv
    <2> QED
      BY <2>1, <2>2
  <1> QED
    BY <1>2, <1>3, PTL DEF LayoutSpec

LEMMA BoardsFilled ==
  /\ Filled(Empty) \in Sketches
  /\ SomeBoards \subseteq Sketches
  BY DEF Filled, SomeBoards, Sketches

\* In every run the loop of cmd_game_prepared has found an error exactly when what
\* it has read breaks the rules: no bent, interrupted or touching ship passes the
\* four neighbours and the one length it looks at, and no lawful one is refused.
THEOREM LayoutsReadLawfully == LayoutSpec => []ReadsLawful
  <1>1. LayoutInv => ReadsLawful
    BY BoardsFilled, ReadsExactly DEF LayoutInv, ReadsLawful, Read
  <1> QED
    BY <1>1, LayoutLength, PTL

\* In every run cmd_game_prepared accepts the complete fleets of the rules and
\* nothing else, for either player.
THEOREM FleetsAccepted == LayoutSpec => []AcceptsFleets
  <1>1. LayoutInv => AcceptsFleets
    <2> SUFFICES ASSUME LayoutInv, NEW player \in {1, 2}
                 PROVE  Prepare(player, Filled(Empty), clean_client_ships, layout).error = OK
                          <=> Complete(layout)
      BY DEF AcceptsFleets
    <2>1. Len(layout) \in Nat
      BY BoardAssumption DEF LayoutInv, N
    <2> QED
      BY <2>1, BoardsFilled, PrepareExactly
  <1> QED
    BY <1>1, LayoutLength, PTL

\* In every run another attempt is answered like a first one, whatever refused
\* layouts have left on the board.
THEOREM RefusedForgotten == LayoutSpec => []ForgetsRefused
  <1>1. LayoutInv => ForgetsRefused
    <2> SUFFICES ASSUME LayoutInv, NEW board \in SomeBoards,
                        NEW fresh, fresh = Prepare(1, Filled(Empty), clean_client_ships, layout),
                        NEW again, again = Prepare(1, board, clean_client_ships, layout)
                 PROVE  /\ again.error = fresh.error /\ again.ships = fresh.ships
                        /\ again.error = OK => again.board = fresh.board
      BY DEF ForgetsRefused
    <2>1. Len(layout) \in Nat /\ board \in Sketches /\ Filled(Empty) \in Sketches
      BY BoardAssumption, BoardsFilled DEF LayoutInv, N
    <2> QED
      BY <2>1, PrepareAlike
  <1> QED
    BY <1>1, LayoutLength, PTL

\* In every run sinking a ship of an accepted fleet marks the water around it and
\* no square of a ship, at every edge of the board.
THEOREM WaterMarked == LayoutSpec => []MarksWater
  <1>1. LayoutInv => MarksWater
    <2> SUFFICES ASSUME LayoutInv,
                        NEW p, p = Prepare(1, Filled(Empty), clean_client_ships, layout),
                        p.error = OK, NEW s \in ShipNumbers, NEW c \in Cells
                 PROVE  mark_destroyed_ship(p.board, p.ships[s])[c] =
                          IF p.board[c] = Empty /\ \E a \in ShipCells(layout, s) : Adjacent(a, c)
                          THEN Miss ELSE p.board[c]
      BY DEF MarksWater
    <2>1. Len(layout) \in Nat
      BY BoardAssumption DEF LayoutInv, N
    <2>2. Placed(p.board, p.ships) /\ ShipCells(layout, s) = Squares(p.ships[s])
      BY <2>1, BoardsFilled, PrepareExactly
    <2>3. c \in Surroundings(p.ships[s]) <=>
            p.board[c] = Empty /\ \E a \in ShipCells(layout, s) : Adjacent(a, c)
      BY <2>2, ServerMarks
    <2> QED
      BY <2>3 DEF mark_destroyed_ship
  <1> QED
    BY <1>1, LayoutLength, PTL

\* Of an accepted fleet, with nothing but ships hit.
LEMMA PlacedMarks ==
  ASSUME NEW b, NEW f, Placed(b, f), NEW s \in ShipNumbers, NEW g,
         \A c \in Squares(f[s]) : g[c] = Hit,
         \A c \in Cells : g[c] = Hit => b[c] \in ShipNumbers,
         NEW last \in Squares(f[s])
  PROVE  markDestroyedShip(g, last) = mark_destroyed_ship(g, f[s])
  <1>1. /\ Floating(f[s]) /\ f[s].length # 0 /\ Squares(f[s]) \subseteq Cells
        /\ \A c \in Cells : c \in Squares(f[s]) <=> b[c] = s
    BY BoardAssumption DEF Placed, Floating
  <1>2. ASSUME NEW c \in Cells, NEW a \in Squares(f[s]), g[c] = Hit, Adjacent(c, a)
        PROVE  c \in Squares(f[s])
    <2>1. a \in Cells /\ b[a] = s /\ b[c] \in ShipNumbers
      BY <1>1, <1>2
    <2>2. isdigit(b[a]) /\ isdigit(b[c])
      BY <2>1, Characters
    <2>3. b[c] = b[a]
      BY <1>2, <2>1, <2>2 DEF Placed
    <2> QED
      BY <1>1, <2>1, <2>3
  <1> QED
    BY <1>1, <1>2, ClientMarks

\* In every run the client, which looks for the sunk ship among the hits, marks on
\* either of its boards what the server marks.
THEOREM ClientMarksLikeServer == LayoutSpec => []ClientMarksAlike
  <1>1. LayoutInv => ClientMarksAlike
    <2> DEFINE prepared == Prepare(1, Filled(Empty), clean_client_ships, layout)
               Fired(hits) == [c \in Cells |-> IF c \in hits THEN Hit ELSE prepared.board[c]]
               Enemy(b) == [c \in Cells |-> IF isdigit(b[c]) THEN Empty ELSE b[c]]
    <2> SUFFICES ASSUME LayoutInv, prepared.error = OK, NEW s \in ShipNumbers,
                        NEW others \in SUBSET UNION {ShipCells(layout, t) : t \in ShipNumbers \ {s}},
                        NEW last \in ShipCells(layout, s)
                 PROVE  LET board  == Fired(ShipCells(layout, s) \cup others)
                            marked == mark_destroyed_ship(board, prepared.ships[s])
                        IN /\ markDestroyedShip(board, last) = marked
                           /\ markDestroyedShip(Enemy(board), last) = Enemy(marked)
      BY Zenon DEF ClientMarksAlike
    <2> PICK p : p = prepared
      OBVIOUS
    <2> PICK hits : hits = ShipCells(layout, s) \cup others
      OBVIOUS
    <2> PICK board : board = [c \in Cells |-> IF c \in hits THEN Hit ELSE p.board[c]]
      OBVIOUS
    <2> PICK marked : marked = mark_destroyed_ship(board, p.ships[s])
      OBVIOUS
    <2> SUFFICES /\ markDestroyedShip(board, last) = marked
                 /\ markDestroyedShip(
                      [c \in Cells |-> IF isdigit(board[c]) THEN Empty ELSE board[c]], last)
                    = [c \in Cells |-> IF isdigit(marked[c]) THEN Empty ELSE marked[c]]
      OBVIOUS
    <2>1. Len(layout) \in Nat
      BY BoardAssumption DEF LayoutInv, N
    <2>2. /\ Placed(p.board, p.ships)
          /\ \A t \in ShipNumbers : ShipCells(layout, t) = Squares(p.ships[t])
      BY <2>1, BoardsFilled, PrepareExactly
    <2> PICK f : f = p.ships
      OBVIOUS
    <2>3. /\ last \in Squares(f[s]) /\ Placed(p.board, f)
          /\ \A c \in Squares(f[s]) : c \in Cells /\ board[c] = Hit
      BY <2>2 DEF Placed, Floating
    <2>4. ASSUME NEW c \in Cells, c \in hits
          PROVE  p.board[c] \in ShipNumbers
      <3>1. PICK t \in ShipNumbers : c \in Squares(f[t])
        BY <2>2, <2>4
      <3> QED
        BY <2>3, <3>1 DEF Placed
    <2>5. ASSUME NEW c \in Cells
          PROVE  /\ board[c] = Hit <=> c \in hits
                 /\ board[c] \in ShipNumbers \cup {Empty, Hit}
      <3>1. p.board[c] \in ShipNumbers \cup {Empty} /\ p.board[c] # Hit
        BY <2>2, Characters DEF Placed, Sketches, Empty, Hit
      <3> QED
        BY <3>1
    <2>6. markDestroyedShip(board, last) = marked
      <3>1. board \in [Cells -> {board[c] : c \in Cells}]
        OBVIOUS
      <3> QED
        BY <2>3, <2>4, <2>5, <3>1, PlacedMarks
    <2> PICK enemy : enemy = [c \in Cells |-> IF isdigit(board[c]) THEN Empty ELSE board[c]]
      OBVIOUS
    <2>7. \A c \in Cells : enemy[c] = Hit <=> board[c] = Hit
      BY <2>5, Characters DEF Empty, Hit
    <2>8. markDestroyedShip(enemy, last) = mark_destroyed_ship(enemy, f[s])
      <3>1. enemy \in [Cells -> {enemy[c] : c \in Cells}]
        OBVIOUS
      <3>2. \A c \in Squares(f[s]) : enemy[c] = Hit
        BY <2>3, <2>7
      <3>3. \A c \in Cells : enemy[c] = Hit => p.board[c] \in ShipNumbers
        BY <2>4, <2>5, <2>7
      <3> QED
        BY <2>3, <3>1, <3>2, <3>3, PlacedMarks
    <2>9. mark_destroyed_ship(enemy, f[s]) =
            [c \in Cells |-> IF isdigit(marked[c]) THEN Empty ELSE marked[c]]
      BY Characters DEF mark_destroyed_ship
    <2> QED
      BY <2>6, <2>8, <2>9
  <1> QED
    BY <1>1, LayoutLength, PTL

-----------------------------------------------------------------------------
(* Operations on the board that the player edits *)

\* No two ships touch.
Apart(b) ==
  \A c, d \in Cells : Adjacent(c, d) /\ isdigit(b[c]) /\ isdigit(b[d]) => b[c] = b[d]

\* The squares L and those next to them are water or the ship s itself.
Free(b, L, s) ==
  /\ L \subseteq Cells
  /\ \A c \in L : /\ b[c] \in {Empty, s}
                  /\ \A d \in Cells : Adjacent(c, d) => b[d] \in {Empty, s}

Put(b, L, x) == [c \in Cells |-> IF c \in L THEN x ELSE b[c]]

LEMMA AdjacentBack ==
  ASSUME NEW c \in Cells, NEW d \in Cells, Adjacent(c, d)
  PROVE  Adjacent(d, c)
  <1>1. c[1] \in Int /\ c[2] \in Int /\ d[1] \in Int /\ d[2] \in Int
    BY CellParts, BoardAssumption DEF Coords
  <1> QED
    BY <1>1 DEF Adjacent

\* A ship that is put where it is free.
LEMMA PutDoes ==
  ASSUME NEW b \in Sketches, Apart(b), NEW s \in ShipNumbers, OnBoard(b, s) = {},
         NEW L, Free(b, L, s), NEW n, n = Put(b, L, s)
  PROVE  /\ n \in Sketches /\ Apart(n) /\ OnBoard(n, s) = L
         /\ \A t \in ShipNumbers : t # s => OnBoard(n, t) = OnBoard(b, t)
  <1>1. /\ L \subseteq Cells
        /\ \A c \in L : b[c] = Empty /\ \A d \in Cells : Adjacent(c, d) => b[d] = Empty
    BY DEF Free, OnBoard
  <1>2. \A c \in Cells : n[c] = IF c \in L THEN s ELSE b[c]
    BY DEF Put
  <1>3. n \in Sketches
    BY DEF Put, Sketches
  <1>4. OnBoard(n, s) = L
    BY <1>1, <1>2 DEF OnBoard
  <1>5. ASSUME NEW t \in ShipNumbers, t # s
        PROVE  OnBoard(n, t) = OnBoard(b, t)
    BY <1>1, <1>2, <1>5, Characters DEF OnBoard
  <1>6. ASSUME NEW c \in Cells, NEW d \in Cells, Adjacent(c, d),
               isdigit(n[c]), isdigit(n[d])
        PROVE  n[c] = n[d]
    <2>1. CASE c \in L /\ d \in L
      BY <1>2, <2>1
    <2>2. CASE c \notin L /\ d \notin L
      BY <1>2, <1>6, <2>2 DEF Apart
    <2>3. CASE c \in L /\ d \notin L
      BY <1>1, <1>2, <1>6, <2>3, Characters
    <2>4. CASE c \notin L /\ d \in L
      BY <1>1, <1>2, <1>6, <2>4, AdjacentBack, Characters
    <2> QED
      BY <2>1, <2>2, <2>3, <2>4
  <1> QED
    BY <1>3, <1>4, <1>5, <1>6 DEF Apart

\* A ship that is taken off the board, and what was free for it stays free.
LEMMA TakeDoes ==
  ASSUME NEW b \in Sketches, Apart(b), NEW s \in ShipNumbers,
         NEW n, n = Put(b, OnBoard(b, s), Empty)
  PROVE  /\ n \in Sketches /\ Apart(n) /\ OnBoard(n, s) = {}
         /\ \A t \in ShipNumbers : t # s => OnBoard(n, t) = OnBoard(b, t)
         /\ Free(n, OnBoard(b, s), s)
         /\ \A L : Free(b, L, s) => Free(n, L, s)
  <1>1. \A c \in Cells : n[c] = IF b[c] = s THEN Empty ELSE b[c]
    BY DEF Put, OnBoard
  <1>2. n \in Sketches
    BY DEF Put, Sketches
  <1>3. OnBoard(n, s) = {}
    BY <1>1, Characters DEF OnBoard
  <1>4. ASSUME NEW t \in ShipNumbers, t # s
        PROVE  OnBoard(n, t) = OnBoard(b, t)
    BY <1>1, <1>4, Characters DEF OnBoard
  <1>5. Apart(n)
    BY <1>1, Characters DEF Apart
  <1>6. ASSUME NEW c \in OnBoard(b, s)
        PROVE  /\ c \in Cells /\ n[c] = Empty
               /\ \A d \in Cells : Adjacent(c, d) => n[d] = Empty
    <2>1. c \in Cells /\ b[c] = s /\ n[c] = Empty
      BY <1>1 DEF OnBoard
    <2>2. ASSUME NEW d \in Cells, Adjacent(c, d)
          PROVE  n[d] = Empty
      <3>1. CASE b[d] = Empty
        BY <1>1, <3>1, Characters
      <3>2. CASE b[d] # Empty
        <4>1. b[d] \in ShipNumbers
          BY <3>2 DEF Sketches
        <4>2. isdigit(b[c]) /\ isdigit(b[d])
          BY <2>1, <4>1, Characters
        <4>3. b[d] = s
          BY <2>1, <2>2, <4>2 DEF Apart
        <4> QED
          BY <1>1, <4>3
      <3> QED
        BY <3>1, <3>2
    <2> QED
      BY <2>1, <2>2
  <1>7. Free(n, OnBoard(b, s), s)
    BY <1>6 DEF Free
  <1>8. ASSUME NEW L, Free(b, L, s)
        PROVE  Free(n, L, s)
    BY <1>1, <1>8 DEF Free
  <1> QED
    BY <1>2, <1>3, <1>4, <1>5, <1>7, <1>8

-----------------------------------------------------------------------------
(* GameModel's operations on the model *)

ShipRecords == [boardPosition : Cells \cup {NotPlaced}, vertical : BOOLEAN]

Models ==
  [ myBoard : Sketches, boardShips : [ShipNumbers -> ShipRecords],
    pickedUpShipId : ShipNumbers \cup {NoShip} ]

\* The squares of ship s where it says it is.
Berth(m, s) == Line(m, s, m.boardShips[s].boardPosition)

\* The line of a ship that fits on the board is that of a ship of the server.
LEMMA LineFits ==
  ASSUME NEW m \in Models, NEW s \in ShipNumbers, NEW at, Line(m, s, at) \subseteq Cells,
         at \in Int \X Int
  PROVE  /\ at \in Line(m, s, at) /\ at \in Cells
         /\ IsLine(Line(m, s, at)) /\ Cardinality(Line(m, s, at)) = ShipLength[s]
  <1>1. /\ ShipLength[s] \in Nat \ {0} /\ at = <<at[1], at[2]>>
        /\ at[1] \in Int /\ at[2] \in Int /\ m.boardShips[s].vertical \in BOOLEAN
    BY BoardAssumption DEF Models, ShipRecords
  <1>2. at \in Line(m, s, at)
    <2>1. 0 \in 0 .. (ShipLength[s] - 1)
      BY <1>1
    <2>2. at = IF m.boardShips[s].vertical THEN <<at[1], at[2] + 0>> ELSE <<at[1] + 0, at[2]>>
      BY <1>1
    <2> QED
      BY <2>1, <2>2 DEF Line
  <1>3. at \in Cells /\ at[1] \in Coords /\ at[2] \in Coords
    BY <1>2, CellParts
  <1> PICK ship : ship = [startX |-> at[1], startY |-> at[2],
                          vertical |-> m.boardShips[s].vertical,
                          length |-> ShipLength[s], health |-> 0]
    OBVIOUS
  <1>4. Squares(ship) = Line(m, s, at)
    BY DEF Squares, SquareOf, Line
  <1>5. ship \in ShipRecord /\ ship.length # 0 /\ ship.length = ShipLength[s]
        /\ ship.startX \in Coords /\ ship.startY \in Coords
    BY <1>1, <1>3 DEF ShipRecord
  <1>6. Floating(ship)
    BY <1>4, <1>5 DEF Floating
  <1> QED
    BY <1>2, <1>3, <1>4, <1>5, <1>6, ShipIsLine, SquaresCount

\* What canPlaceShip looks at is enough: of a vertical ship each square but the
\* first is a neighbour of the one before it.
LEMMA CanPlaceIsFree ==
  ASSUME NEW m \in Models, NEW s \in ShipNumbers, NEW at \in Int \X Int,
         m.pickedUpShipId \in {NoShip, s}, canPlaceShip(m, s, at)
  PROVE  Free(m.myBoard, Line(m, s, at), s) /\ at \in Cells
  <1> PICK L : L = Line(m, s, at)
    OBVIOUS
  <1> PICK b : b = m.myBoard
    OBVIOUS
  <1>1. L \subseteq Cells /\ at \in L /\ at \in Cells
    BY LineFits DEF canPlaceShip
  <1>2. \A c \in L : \A d \in Cells : Adjacent(c, d) => b[d] \in {Empty, s}
    BY DEF canPlaceShip, getNeighbors
  <1>3. ASSUME NEW c \in L
        PROVE  b[c] \in {Empty, s}
    <2>1. CASE c = at \/ ~m.boardShips[s].vertical
      BY <2>1 DEF canPlaceShip
    <2>2. CASE c # at /\ m.boardShips[s].vertical
      <3>1. ShipLength[s] \in Nat /\ at[1] \in Int /\ at[2] \in Int /\ at = <<at[1], at[2]>>
        BY BoardAssumption
      <3>2. PICK k \in 0 .. (ShipLength[s] - 1) : c = <<at[1], at[2] + k>>
        BY <2>2 DEF Line
      <3>3. k # 0
        BY <2>2, <3>1, <3>2
      <3> PICK a : a = <<at[1], at[2] + (k - 1)>>
        OBVIOUS
      <3>4. k - 1 \in 0 .. (ShipLength[s] - 1)
        BY <3>1, <3>3
      <3>5. a \in L
        BY <2>2, <3>4 DEF Line
      <3>6. Adjacent(a, c)
        BY <3>1, <3>2 DEF Adjacent
      <3> QED
        BY <1>1, <1>2, <3>5, <3>6
    <2> QED
      BY <2>1, <2>2
  <1> QED
    BY <1>1, <1>2, <1>3 DEF Free

LEMMA FreeCanPlace ==
  ASSUME NEW m \in Models, NEW s \in ShipNumbers, NEW at, at \in Line(m, s, at),
         OnBoard(m.myBoard, s) = {}, Free(m.myBoard, Line(m, s, at), s)
  PROVE  canPlaceShip(m, s, at)
  <1>1. \A c \in Cells : m.myBoard[c] # s
    BY DEF OnBoard
  <1> QED
    BY <1>1 DEF Free, canPlaceShip, getNeighbors

\* The effects, field by field.
LEMMA PlaceShipDoes ==
  ASSUME NEW m \in Models, NEW s \in ShipNumbers, NEW at \in Cells, canPlaceShip(m, s, at),
         NEW n, n = placeShip(m, s, at)
  PROVE  /\ n = [myBoard |-> Put(m.myBoard, Line(m, s, at), s),
                 boardShips |-> n.boardShips, pickedUpShipId |-> m.pickedUpShipId]
         /\ n.boardShips \in [ShipNumbers -> ShipRecords]
         /\ n.boardShips[s] = [boardPosition |-> at, vertical |-> m.boardShips[s].vertical]
         /\ \A t \in ShipNumbers : t # s => n.boardShips[t] = m.boardShips[t]
  <1> PICK L : L = Line(m, s, at)
    OBVIOUS
  <1>1. PICK b, r, u : /\ m = [myBoard |-> b, boardShips |-> r, pickedUpShipId |-> u]
                       /\ r \in [ShipNumbers -> ShipRecords]
    BY DEF Models
  <1>2. PICK p, v : r[s] = [boardPosition |-> p, vertical |-> v] /\ v \in BOOLEAN
    BY <1>1 DEF ShipRecords
  <1>3. n = [m EXCEPT !.boardShips[s].boardPosition = at,
                      !.myBoard = [c \in Cells |-> IF c \in L THEN s ELSE @[c]]]
    BY DEF placeShip
  <1>4. n = [myBoard |-> [c \in Cells |-> IF c \in L THEN s ELSE b[c]],
             boardShips |-> [r EXCEPT ![s].boardPosition = at], pickedUpShipId |-> u]
    <2> PICK g : g = [c \in Cells |-> IF c \in L THEN s ELSE b[c]]
      OBVIOUS
    <2>1. g = [c \in Cells |-> IF c \in L THEN s ELSE m.myBoard[c]]
      BY <1>1
    <2>2. n = [m EXCEPT !.boardShips[s].boardPosition = at, !.myBoard = g]
      BY <1>3, <2>1
    <2>3. n = [myBoard |-> g, boardShips |-> [r EXCEPT ![s].boardPosition = at],
               pickedUpShipId |-> u]
      BY <1>1, <2>2
    <2> QED
      BY <2>3
  <1> PICK q : q = [r EXCEPT ![s].boardPosition = at]
    OBVIOUS
  <1>5. /\ q[s] = [boardPosition |-> at, vertical |-> v]
        /\ q \in [ShipNumbers -> ShipRecords]
        /\ \A t \in ShipNumbers : t # s => q[t] = r[t]
    BY <1>1, <1>2 DEF ShipRecords
  <1> QED
    BY <1>1, <1>2, <1>4, <1>5 DEF Put

LEMMA RemoveShipDoes ==
  ASSUME NEW m \in Models, NEW s \in ShipNumbers, m.boardShips[s].boardPosition \in Cells,
         isdigit(m.myBoard[m.boardShips[s].boardPosition]), NEW n, n = removeShip(m, s)
  PROVE  n = [myBoard |-> Put(m.myBoard, Berth(m, s), Empty),
              boardShips |-> m.boardShips, pickedUpShipId |-> m.pickedUpShipId]
  <1> PICK L : L = Berth(m, s)
    OBVIOUS
  <1>1. PICK b, r, u : m = [myBoard |-> b, boardShips |-> r, pickedUpShipId |-> u]
    BY DEF Models
  <1>2. n = [m EXCEPT !.myBoard = [c \in Cells |-> IF c \in L THEN Empty ELSE @[c]]]
    BY DEF removeShip, Berth
  <1> QED
    BY <1>1, <1>2 DEF Put

\* Only the direction of a ship differs: of a turned one, or of the one that comes.
LEMMA DirectionDoes ==
  ASSUME NEW m \in Models, NEW s \in ShipNumbers, NEW v \in BOOLEAN,
         NEW n, n = [m EXCEPT !.boardShips[s].vertical = v]
  PROVE  /\ n \in Models /\ n.myBoard = m.myBoard /\ n.pickedUpShipId = m.pickedUpShipId
         /\ n.boardShips[s].boardPosition = m.boardShips[s].boardPosition
         /\ \A t \in ShipNumbers : t # s => n.boardShips[t] = m.boardShips[t]
  <1>1. PICK b, r, u : /\ m = [myBoard |-> b, boardShips |-> r, pickedUpShipId |-> u]
                       /\ b \in Sketches /\ r \in [ShipNumbers -> ShipRecords]
                       /\ u \in ShipNumbers \cup {NoShip}
    BY DEF Models
  <1>2. PICK p, w : r[s] = [boardPosition |-> p, vertical |-> w] /\ p \in Cells \cup {NotPlaced}
    BY <1>1 DEF ShipRecords
  <1>3. n = [myBoard |-> b, boardShips |-> [r EXCEPT ![s].vertical = v], pickedUpShipId |-> u]
    BY <1>1
  <1> PICK q : q = [r EXCEPT ![s].vertical = v]
    OBVIOUS
  <1>4. /\ q[s] = [boardPosition |-> p, vertical |-> v]
        /\ q \in [ShipNumbers -> ShipRecords]
        /\ \A t \in ShipNumbers : t # s => q[t] = r[t]
    BY <1>1, <1>2 DEF ShipRecords
  <1> QED
    BY <1>1, <1>2, <1>3, <1>4 DEF Models

-----------------------------------------------------------------------------
(* The fleet being edited *)

\* The ships D are on the board, each where it says it is, and no others.
Edited(m, D) ==
  /\ m \in Models /\ Apart(m.myBoard)
  /\ \A s \in ShipNumbers :
       /\ s \in D => /\ m.boardShips[s].boardPosition \in Cells
                     /\ OnBoard(m.myBoard, s) = Berth(m, s)
       /\ s \notin D => OnBoard(m.myBoard, s) = {}

LEMMA BoardTuples == Cells \subseteq Int \X Int
  BY BoardAssumption DEF Cells, Coords

LEMMA PlaceEdited ==
  ASSUME NEW m, NEW D, Edited(m, D), NEW s \in ShipNumbers, s \notin D,
         NEW at \in Int \X Int, m.pickedUpShipId \in {NoShip, s},
         canPlaceShip(m, s, at), NEW n, n = placeShip(m, s, at)
  PROVE  Edited(n, D \cup {s}) /\ n.pickedUpShipId = m.pickedUpShipId
  <1>1. /\ m \in Models /\ m.myBoard \in Sketches /\ Apart(m.myBoard)
        /\ OnBoard(m.myBoard, s) = {} /\ m.pickedUpShipId \in ShipNumbers \cup {NoShip}
    BY DEF Edited, Models
  <1> PICK L : L = Line(m, s, at)
    OBVIOUS
  <1>2. Free(m.myBoard, L, s) /\ at \in Cells
    BY <1>1, CanPlaceIsFree
  <1>3. /\ n = [myBoard |-> Put(m.myBoard, L, s),
                boardShips |-> n.boardShips, pickedUpShipId |-> m.pickedUpShipId]
        /\ n.boardShips \in [ShipNumbers -> ShipRecords]
        /\ n.boardShips[s] = [boardPosition |-> at, vertical |-> m.boardShips[s].vertical]
        /\ \A t \in ShipNumbers : t # s => n.boardShips[t] = m.boardShips[t]
    BY <1>1, <1>2, PlaceShipDoes
  <1> PICK b : b = Put(m.myBoard, L, s)
    OBVIOUS
  <1>4. /\ b \in Sketches /\ Apart(b) /\ OnBoard(b, s) = L
        /\ \A t \in ShipNumbers : t # s => OnBoard(b, t) = OnBoard(m.myBoard, t)
    BY <1>1, <1>2, PutDoes
  <1>5. /\ n.myBoard = b /\ n.pickedUpShipId = m.pickedUpShipId
        /\ n = [myBoard |-> b, boardShips |-> n.boardShips, pickedUpShipId |-> m.pickedUpShipId]
    BY <1>3
  <1>6. n \in Models
    BY <1>1, <1>3, <1>4, <1>5 DEF Models
  <1>7. Berth(n, s) = L
    BY <1>3 DEF Berth, Line
  <1>8. ASSUME NEW t \in ShipNumbers, t # s
        PROVE  Berth(n, t) = Berth(m, t)
    BY <1>3, <1>8 DEF Berth, Line
  <1> QED
    BY <1>2, <1>3, <1>4, <1>5, <1>6, <1>7, <1>8 DEF Edited

LEMMA RemoveEdited ==
  ASSUME NEW m, NEW D, Edited(m, D), NEW s \in ShipNumbers, s \in D,
         NEW n, n = removeShip(m, s)
  PROVE  /\ Edited(n, D \ {s}) /\ n.pickedUpShipId = m.pickedUpShipId /\ n # m
         /\ n.boardShips = m.boardShips
         /\ n.myBoard = Put(m.myBoard, OnBoard(m.myBoard, s), Empty)
  <1>1. /\ m \in Models /\ m.myBoard \in Sketches /\ Apart(m.myBoard)
        /\ m.boardShips[s].boardPosition \in Cells
        /\ OnBoard(m.myBoard, s) = Berth(m, s)
    BY DEF Edited, Models
  <1> PICK at : at = m.boardShips[s].boardPosition
    OBVIOUS
  <1>2. at \in OnBoard(m.myBoard, s)
    <2>1. Line(m, s, at) \subseteq Cells
      BY <1>1 DEF Berth, OnBoard
    <2> QED
      BY <1>1, <2>1, LineFits, BoardTuples DEF Berth
  <1>3. m.myBoard[at] = s /\ isdigit(m.myBoard[at])
    BY <1>2, Characters DEF OnBoard
  <1>4. n = [myBoard |-> Put(m.myBoard, OnBoard(m.myBoard, s), Empty),
             boardShips |-> m.boardShips, pickedUpShipId |-> m.pickedUpShipId]
    BY <1>1, <1>3, RemoveShipDoes
  <1> PICK b : b = Put(m.myBoard, OnBoard(m.myBoard, s), Empty)
    OBVIOUS
  <1>5. /\ b \in Sketches /\ Apart(b) /\ OnBoard(b, s) = {}
        /\ \A t \in ShipNumbers : t # s => OnBoard(b, t) = OnBoard(m.myBoard, t)
    BY <1>1, TakeDoes
  <1>6. /\ n.myBoard = b /\ n.pickedUpShipId = m.pickedUpShipId /\ n.boardShips = m.boardShips
        /\ n = [myBoard |-> b, boardShips |-> m.boardShips, pickedUpShipId |-> m.pickedUpShipId]
    BY <1>4
  <1>7. n \in Models
    BY <1>1, <1>5, <1>6 DEF Models
  <1>8. \A t \in ShipNumbers : Berth(n, t) = Berth(m, t)
    BY <1>6 DEF Berth, Line
  <1>9. n # m
    BY <1>2, <1>5, <1>6
  <1>10. Edited(n, D \ {s})
    BY <1>5, <1>6, <1>7, <1>8 DEF Edited
  <1> QED
    BY <1>6, <1>9, <1>10

\* A ship that is not on the board may change its direction.
LEMMA DirectionEdited ==
  ASSUME NEW m, NEW D, Edited(m, D), NEW s \in ShipNumbers, s \notin D,
         NEW v \in BOOLEAN, NEW n, n = [m EXCEPT !.boardShips[s].vertical = v]
  PROVE  Edited(n, D) /\ n.pickedUpShipId = m.pickedUpShipId
  <1>1. /\ m \in Models /\ n \in Models /\ n.myBoard = m.myBoard
        /\ n.pickedUpShipId = m.pickedUpShipId
        /\ \A t \in ShipNumbers : t # s => n.boardShips[t] = m.boardShips[t]
    BY DirectionDoes DEF Edited
  <1>2. \A t \in ShipNumbers : t # s => Berth(n, t) = Berth(m, t)
    BY <1>1 DEF Berth, Line
  <1> QED
    BY <1>1, <1>2 DEF Edited

\* What is in the hand does not matter to the ships on the board.
LEMMA HandEdited ==
  ASSUME NEW m, NEW D, Edited(m, D), NEW h \in ShipNumbers \cup {NoShip},
         NEW n, n = [m EXCEPT !.pickedUpShipId = h]
  PROVE  Edited(n, D) /\ n.pickedUpShipId = h
  <1>1. PICK b, r, u : /\ m = [myBoard |-> b, boardShips |-> r, pickedUpShipId |-> u]
                       /\ b \in Sketches /\ r \in [ShipNumbers -> ShipRecords]
    BY DEF Edited, Models
  <1>2. n = [myBoard |-> b, boardShips |-> r, pickedUpShipId |-> h]
    BY <1>1
  <1>3. n \in Models /\ \A s \in ShipNumbers : Berth(n, s) = Berth(m, s)
    BY <1>1, <1>2 DEF Models, Berth, Line
  <1> QED
    BY <1>1, <1>2, <1>3 DEF Edited

\* A ship turns, or is put back as it was: it never vanishes.
LEMMA TurnEdited ==
  ASSUME NEW m, NEW D, Edited(m, D), NEW s \in ShipNumbers, s \in D,
         m.pickedUpShipId = NoShip, NEW n, n = turnShip(m, s)
  PROVE  Edited(n, D) /\ n.pickedUpShipId = NoShip
  <1> PICK at : at = m.boardShips[s].boardPosition
    OBVIOUS
  <1> PICK removed : removed = removeShip(m, s)
    OBVIOUS
  <1> PICK turned : turned = Turned(removed, s)
    OBVIOUS
  <1>1. /\ Edited(removed, D \ {s}) /\ removed.pickedUpShipId = NoShip /\ removed # m
        /\ removed.boardShips = m.boardShips
        /\ removed.myBoard = Put(m.myBoard, OnBoard(m.myBoard, s), Empty)
    BY RemoveEdited
  <1>2. at \in Cells /\ at \in Int \X Int
    BY BoardTuples DEF Edited
  <1>3. D = (D \ {s}) \cup {s} /\ s \notin D \ {s}
    OBVIOUS
  <1>4. n = IF canPlaceShip(turned, s, at) THEN placeShip(turned, s, at)
            ELSE placeShip(removed, s, at)
    BY <1>1 DEF turnShip
  <1>5. CASE canPlaceShip(turned, s, at)
    <2>1. turned = [removed EXCEPT !.boardShips[s].vertical = ~removed.boardShips[s].vertical]
      BY DEF Turned
    <2> PICK w : w = ~removed.boardShips[s].vertical
      OBVIOUS
    <2>2. w \in BOOLEAN
      OBVIOUS
    <2>3. Edited(turned, D \ {s}) /\ turned.pickedUpShipId = NoShip
      <3>1. turned = [removed EXCEPT !.boardShips[s].vertical = w]
        BY <2>1
      <3> PICK E : E = D \ {s}
        OBVIOUS
      <3>2. Edited(removed, E) /\ s \notin E
        BY <1>1
      <3>3. Edited(turned, E) /\ turned.pickedUpShipId = removed.pickedUpShipId
        BY ONLY <2>2, <3>1, <3>2, s \in ShipNumbers, DirectionEdited, SMTT(60)
      <3> QED
        BY <1>1, <3>3
    <2>4. n = placeShip(turned, s, at)
      BY <1>4, <1>5
    <2>5. Edited(n, (D \ {s}) \cup {s}) /\ n.pickedUpShipId = NoShip
      BY <1>2, <1>3, <1>5, <2>3, <2>4, PlaceEdited
    <2> QED
      BY <1>3, <2>5
  <1>6. CASE ~canPlaceShip(turned, s, at)
    <2>1. n = placeShip(removed, s, at)
      BY <1>4, <1>6
    <2>2. /\ m.myBoard \in Sketches /\ Apart(m.myBoard)
          /\ OnBoard(m.myBoard, s) = Berth(m, s)
      BY DEF Edited, Models
    <2>3. Line(removed, s, at) = OnBoard(m.myBoard, s)
      BY <1>1, <2>2 DEF Berth, Line
    <2>4. Free(removed.myBoard, Line(removed, s, at), s)
      BY <1>1, <2>2, <2>3, TakeDoes
    <2>5. removed \in Models /\ OnBoard(removed.myBoard, s) = {}
      BY <1>1, <1>3 DEF Edited
    <2>6. at \in Line(removed, s, at)
      <3>1. Line(removed, s, at) \subseteq Cells
        BY <2>3 DEF OnBoard
      <3> QED
        BY <1>2, <2>5, <3>1, LineFits
    <2>7. canPlaceShip(removed, s, at)
      BY <2>4, <2>5, <2>6, FreeCanPlace
    <2>8. Edited(n, (D \ {s}) \cup {s}) /\ n.pickedUpShipId = NoShip
      BY <1>1, <1>2, <1>3, <2>1, <2>7, PlaceEdited
    <2> QED
      BY <1>3, <2>8
  <1> QED
    BY <1>5, <1>6

\* A ship in hand is moved as a whole, or stays where it is.
LEMMA RelocateEdited ==
  ASSUME NEW m, NEW D, Edited(m, D), NEW s \in ShipNumbers, s \in D,
         m.pickedUpShipId = s, NEW at \in Cells, NEW n, n = relocatePickedUpShip(m, at)
  PROVE  Edited(n, D) /\ n.pickedUpShipId \in {NoShip, s}
  <1>1. at \in Int \X Int /\ m \in Models /\ m.myBoard \in Sketches /\ Apart(m.myBoard)
    BY BoardTuples DEF Edited, Models
  <1>2. CASE ~canPlaceShip(m, s, at)
    BY <1>2 DEF relocatePickedUpShip
  <1>3. CASE canPlaceShip(m, s, at)
    <2> PICK removed : removed = removeShip(m, s)
      OBVIOUS
    <2> PICK placed : placed = placeShip(removed, s, at)
      OBVIOUS
    <2>1. /\ Edited(removed, D \ {s}) /\ removed.pickedUpShipId = s
          /\ removed.boardShips = m.boardShips
          /\ removed.myBoard = Put(m.myBoard, OnBoard(m.myBoard, s), Empty)
      BY RemoveEdited
    <2>2. Free(m.myBoard, Line(m, s, at), s)
      BY <1>1, <1>3, CanPlaceIsFree
    <2>3. Line(removed, s, at) = Line(m, s, at)
      BY <2>1 DEF Line
    <2>4. Free(removed.myBoard, Line(removed, s, at), s)
      BY <1>1, <2>1, <2>2, <2>3, TakeDoes
    <2>5. D = (D \ {s}) \cup {s} /\ s \notin D \ {s}
      OBVIOUS
    <2>6. removed \in Models /\ OnBoard(removed.myBoard, s) = {}
      BY <2>1, <2>5 DEF Edited
    <2>7. at \in Line(removed, s, at)
      BY <1>1, <2>4, <2>6, LineFits DEF Free
    <2>8. canPlaceShip(removed, s, at)
      BY <2>4, <2>6, <2>7, FreeCanPlace
    <2>9. Edited(placed, (D \ {s}) \cup {s})
      BY <1>1, <2>1, <2>5, <2>8, PlaceEdited
    <2>10. n = [placed EXCEPT !.pickedUpShipId = NoShip]
      BY <1>3 DEF relocatePickedUpShip
    <2>11. Edited(placed, D)
      BY <2>5, <2>9
    <2>12. Edited(n, D) /\ n.pickedUpShipId = NoShip
      BY <2>10, <2>11, HandEdited
    <2> QED
      BY <2>12
  <1> QED
    BY <1>2, <1>3

-----------------------------------------------------------------------------
(* The editor *)

\* The ships that populateMyShips has placed so far are on the board, where they
\* say they are, without touching one another, and no hand holds one before all
\* of them are.  ShipsWhereTheyAre alone is not inductive: what a ship clears
\* when it is picked up depends on where all of them are, and what it may be
\* placed on depends on their distances.
EditorInv ==
  /\ populated \in 0 .. AMOUNT_OF_SHIP
  /\ Edited(model, 0 .. (populated - 1))
  /\ ~Ready => model.pickedUpShipId = NoShip

LEMMA EditorStarts == Init => EditorInv
  <1> SUFFICES ASSUME Init PROVE EditorInv
    OBVIOUS
  <1>1. AMOUNT_OF_SHIP \in Nat \ {0} /\ populated = 0 /\ 0 .. (0 - 1) = {}
    BY BoardAssumption DEF Init
  <1>2. model = [myBoard |-> Blank, boardShips |-> initializeShips,
                 pickedUpShipId |-> NoShip]
    BY DEF Init
  <1>3. Blank \in Sketches /\ \A c \in Cells : Blank[c] = Empty
    BY DEF Blank, Sketches
  <1>4. initializeShips \in [ShipNumbers -> ShipRecords]
    BY DEF initializeShips, ShipRecords
  <1>5. model \in Models
    BY <1>2, <1>3, <1>4 DEF Models
  <1>6. Apart(Blank) /\ \A s \in ShipNumbers : OnBoard(Blank, s) = {}
    BY <1>3, Characters DEF Apart, OnBoard
  <1>7. Edited(model, {})
    BY <1>2, <1>5, <1>6 DEF Edited
  <1> QED
    BY <1>1, <1>2, <1>7 DEF EditorInv

\* When all ships have been placed, each of them is on the board.
LEMMA ReadyEdited ==
  ASSUME EditorInv, Ready
  PROVE  populated = AMOUNT_OF_SHIP /\ 0 .. (populated - 1) = ShipNumbers
         /\ Edited(model, ShipNumbers)
  BY DEF EditorInv, Ready, ShipNumbers

\* The square of a ship shows its number, which is one that is on the board.
LEMMA SquareShows ==
  ASSUME EditorInv, NEW p \in Cells, isdigit(model.myBoard[p])
  PROVE  model.myBoard[p] \in ShipNumbers
  <1>1. model.myBoard \in Sketches
    BY DEF EditorInv, Edited, Models
  <1> QED
    BY <1>1, Characters DEF Sketches

LEMMA PopulateKeeps ==
  ASSUME EditorInv, populateMyShips
  PROVE  EditorInv'
  <1>1. /\ AMOUNT_OF_SHIP \in Nat /\ populated \in 0 .. (AMOUNT_OF_SHIP - 1)
        /\ populated \in Nat /\ populated' = populated + 1
    BY BoardAssumption DEF EditorInv, populateMyShips, Ready
  <1> PICK s, D : s = populated /\ D = 0 .. (populated - 1)
    OBVIOUS
  <1>2. /\ s \in ShipNumbers /\ s \notin D /\ D \cup {s} = 0 .. (populated' - 1)
        /\ populated' \in 0 .. AMOUNT_OF_SHIP
    BY <1>1 DEF ShipNumbers
  <1>3. Edited(model, D) /\ model.pickedUpShipId = NoShip
    BY DEF EditorInv, populateMyShips
  <1>4. PICK v, x, y, m :
          /\ v \in BOOLEAN /\ m = [model EXCEPT !.boardShips[s].vertical = v]
          /\ x \in Int /\ y \in Int
          /\ canPlaceShip(m, s, <<x, y>>) /\ model' = placeShip(m, s, <<x, y>>)
    <2>1. SHIP_GAME_BOARD_SIZE \in Int /\ ShipLength[s] \in Int
      BY <1>2, BoardAssumption
    <2>2. \A n \in Int : Random(n) \subseteq Int
      BY DEF Random
    <2>3. PICK v \in BOOLEAN : \E x, y :
            LET m     == [model EXCEPT !.boardShips[populated].vertical = v]
                short == SHIP_GAME_BOARD_SIZE - ShipLength[populated]
            IN /\ x \in Random(IF v THEN short ELSE SHIP_GAME_BOARD_SIZE)
               /\ y \in Random(IF v THEN SHIP_GAME_BOARD_SIZE ELSE short)
               /\ canPlaceShip(m, populated, <<x, y>>)
               /\ model' = placeShip(m, populated, <<x, y>>)
      BY Zenon DEF populateMyShips
    <2> PICK m : m = [model EXCEPT !.boardShips[s].vertical = v]
      OBVIOUS
    <2>4. \E x, y : /\ canPlaceShip(m, s, <<x, y>>) /\ model' = placeShip(m, s, <<x, y>>)
                     /\ x \in Int /\ y \in Int
      BY <2>1, <2>2, <2>3
    <2> QED
      BY <2>4
  <1>5. Edited(m, D) /\ m.pickedUpShipId = NoShip
    BY <1>2, <1>3, <1>4, DirectionEdited
  <1> PICK at : at = <<x, y>>
    OBVIOUS
  <1>6. at \in Int \X Int
    BY <1>4
  <1> PICK n : n = model'
    OBVIOUS
  <1>7. Edited(n, D \cup {s}) /\ n.pickedUpShipId = NoShip
    <2>1. canPlaceShip(m, s, at) /\ n = placeShip(m, s, at)
      BY <1>4
    <2> QED
      <3>1. s \in ShipNumbers /\ s \notin D /\ m.pickedUpShipId \in {NoShip, s}
        BY <1>2, <1>5
      <3>2. Edited(m, D)
        BY <1>5
      <3>3. Edited(n, D \cup {s}) /\ n.pickedUpShipId = m.pickedUpShipId
        BY ONLY <1>6, <2>1, <3>1, <3>2, PlaceEdited
      <3> QED
        BY <1>5, <3>3
  <1> PICK E : E = D \cup {s}
    OBVIOUS
  <1>8. Edited(n, E) /\ E = 0 .. (populated' - 1)
    BY <1>2, <1>7
  <1>9. Edited(model', 0 .. (populated' - 1)) /\ model'.pickedUpShipId = NoShip
    BY <1>7, <1>8
  <1> QED
    BY <1>2, <1>9 DEF EditorInv

\* A step with all ships on the board that leaves all of them there.
LEMMA EditKeeps ==
  ASSUME EditorInv, Ready, UNCHANGED populated, NEW n, n = model', Edited(n, ShipNumbers)
  PROVE  EditorInv'
  <1>1. populated = AMOUNT_OF_SHIP /\ 0 .. (populated - 1) = ShipNumbers
        /\ populated' = populated /\ populated \in 0 .. AMOUNT_OF_SHIP
    BY ReadyEdited DEF EditorInv
  <1>2. Edited(model', 0 .. (populated' - 1))
    BY <1>1
  <1>3. Ready'
    BY <1>1 DEF Ready
  <1> QED
    BY <1>1, <1>2, <1>3 DEF EditorInv

LEMMA DragKeeps ==
  ASSUME EditorInv, NEW p \in Cells, dragEvent(p)
  PROVE  EditorInv'
  <1> PICK s, n : s = model.myBoard[p] /\ n = model'
    OBVIOUS
  <1>1. Ready /\ UNCHANGED populated /\ n = [model EXCEPT !.pickedUpShipId = s]
    BY DEF dragEvent
  <1>2. s \in ShipNumbers
    BY SquareShows DEF dragEvent
  <1>3. Edited(n, ShipNumbers)
    BY <1>1, <1>2, ReadyEdited, HandEdited
  <1> QED
    BY <1>1, <1>3, EditKeeps

LEMMA TurnKeeps ==
  ASSUME EditorInv, NEW p \in Cells, ClickTurns(p)
  PROVE  EditorInv'
  <1> PICK s, n : s = model.myBoard[p] /\ n = model'
    OBVIOUS
  <1>1. Ready /\ UNCHANGED populated /\ n = turnShip(model, s)
        /\ model.pickedUpShipId = NoShip
    BY DEF ClickTurns
  <1>2. s \in ShipNumbers
    BY SquareShows DEF ClickTurns
  <1>3. Edited(n, ShipNumbers)
    BY <1>1, <1>2, ReadyEdited, TurnEdited
  <1> QED
    BY <1>1, <1>3, EditKeeps

LEMMA DropKeeps ==
  ASSUME EditorInv, NEW p \in Cells, ClickDrops(p)
  PROVE  EditorInv'
  <1> PICK s, n : s = model.pickedUpShipId /\ n = model'
    OBVIOUS
  <1>1. Ready /\ UNCHANGED populated /\ s # NoShip
        /\ \/ n = [model EXCEPT !.pickedUpShipId = NoShip]
           \/ n = relocatePickedUpShip(model, p)
    BY DEF ClickDrops
  <1>2. Edited(model, ShipNumbers) /\ s \in ShipNumbers
    BY <1>1, ReadyEdited DEF Edited, Models
  <1>3. Edited(n, ShipNumbers)
    BY <1>1, <1>2, HandEdited, RelocateEdited
  <1> QED
    BY <1>1, <1>3, EditKeeps

LEMMA EditorHolds == Spec => []EditorInv
  <1>1. ASSUME EditorInv, [Next]_vars
        PROVE  EditorInv'
    <2>1. CASE populateMyShips
      BY <1>1, <2>1, PopulateKeeps
    <2>2. ASSUME NEW p \in Cells, dragEvent(p)
          PROVE  EditorInv'
      BY <1>1, <2>2, DragKeeps
    <2>3. ASSUME NEW p \in Cells, ClickTurns(p)
          PROVE  EditorInv'
      BY <1>1, <2>3, TurnKeeps
    <2>4. ASSUME NEW p \in Cells, ClickDrops(p)
          PROVE  EditorInv'
      BY <1>1, <2>4, DropKeeps
    <2>5. CASE UNCHANGED vars
      <3>1. model' = model /\ populated' = populated
        BY <2>5 DEF vars
      <3> QED
        BY <1>1, <3>1 DEF EditorInv, Ready
    <2> QED
      BY <1>1, <2>1, <2>2, <2>3, <2>4, <2>5 DEF Next
  <1> QED
    BY <1>1, EditorStarts, PTL DEF Spec

\* A board with every ship in its place makes a complete layout.
LEMMA EditedComplete ==
  ASSUME NEW m, Edited(m, ShipNumbers), NEW lay, lay = getMyBoardStringForm(m.myBoard)
  PROVE  Complete(lay) /\ Len(lay) \in Nat
  <1>1. m \in Models /\ m.myBoard \in Sketches /\ Apart(m.myBoard)
    BY DEF Edited, Models
  <1>2. /\ Len(lay) = N * N /\ N * N \in Nat /\ N * N = GAME_BOARD_STRING_SIZE
        /\ \A i \in 1 .. N * N : lay[i] \in ShipNumbers \cup {Empty}
        /\ \A s \in ShipNumbers : ReadCells(lay, N * N, s) = OnBoard(m.myBoard, s)
    BY <1>1, WholeLayout DEF GAME_BOARD_STRING_SIZE, N
  <1>3. ASSUME NEW s \in ShipNumbers
        PROVE  /\ IsLine(OnBoard(m.myBoard, s))
               /\ Cardinality(OnBoard(m.myBoard, s)) = ShipLength[s]
    <2> PICK at : at = m.boardShips[s].boardPosition
      OBVIOUS
    <2>1. at \in Cells /\ at \in Int \X Int /\ OnBoard(m.myBoard, s) = Line(m, s, at)
      BY BoardTuples DEF Edited, Berth
    <2>2. Line(m, s, at) \subseteq Cells
      BY <2>1 DEF OnBoard
    <2>3. IsLine(Line(m, s, at)) /\ Cardinality(Line(m, s, at)) = ShipLength[s]
      BY <1>1, <2>1, <2>2, LineFits
    <2> QED
      BY <2>1, <2>3
  <1>4. ASSUME NEW s \in ShipNumbers, NEW t \in ShipNumbers, s # t,
               NEW a \in OnBoard(m.myBoard, s), NEW c \in OnBoard(m.myBoard, t)
        PROVE  ~Adjacent(a, c)
    BY <1>1, <1>4, Characters DEF Apart, OnBoard
  <1>5. ReadLawfully(lay, N * N)
    BY <1>2, <1>3, <1>4 DEF ReadLawfully
  <1>6. Lawful(lay)
    BY <1>2, <1>5, LawfulIs
  <1>7. \A s \in ShipNumbers : Cardinality(ShipCells(lay, s)) = ShipLength[s]
    BY <1>2, <1>3, LawfulIs
  <1> QED
    BY <1>2, <1>6, <1>7 DEF Complete

\* The ships know where they are: the squares that show a ship are those that its
\* position and direction say, whatever has been placed, turned, picked up and
\* dropped (GameBoard.java, GameModel.java).
THEOREM ShipsWhereTheySay == Spec => []ShipsWhereTheyAre
  <1>1. EditorInv => ShipsWhereTheyAre
    <2> SUFFICES ASSUME EditorInv, Ready, NEW s \in ShipNumbers
                 PROVE  OnBoard(model.myBoard, s) = Berth(model, s)
      BY DEF ShipsWhereTheyAre, OnBoard, Berth
    <2> QED
      BY ReadyEdited DEF Edited
  <1> QED
    BY <1>1, EditorHolds, PTL

\* Whenever all ships have been placed, even with one in hand, the board that the
\* client sends as game_prepared is a complete fleet, and the server accepts it
\* from either player: the rule of canPlaceShip (Java) and that of
\* cmd_game_prepared (C) agree.
THEOREM ReadyIsAccepted == Spec => []ReadyAccepted
  <1>1. EditorInv => ReadyAccepted
    <2> SUFFICES ASSUME EditorInv, Ready PROVE ReadyAccepted
      BY DEF ReadyAccepted
    <2> PICK lay : lay = getMyBoardStringForm(model.myBoard)
      OBVIOUS
    <2>1. Complete(lay) /\ Len(lay) \in Nat
      BY ReadyEdited, EditedComplete
    <2>2. Blank \in Sketches
      BY DEF Blank, Sketches
    <2>3. ASSUME NEW player \in {1, 2}
          PROVE  Prepare(player, Blank, clean_client_ships, lay).error = OK
      BY <2>1, <2>2, PrepareExactly
    <2> QED
      BY <2>1, <2>3 DEF ReadyAccepted
  <1> QED
    BY <1>1, EditorHolds, PTL
=============================================================================
