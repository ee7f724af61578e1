----------------------------- MODULE ShipsProofs -----------------------------
(***************************************************************************)
(* Lemmas about boards, ships and the reading of a layout, for every size  *)
(* of the board and every fleet.  A layout is read row by row; where the   *)
(* reading stands is the square that comes next, and the invariant of the  *)
(* loop relates the squares before it to the ships built so far.           *)
(***************************************************************************)
EXTENDS GameModel, FiniteSetTheorems, WellFoundedInduction, TLAPS

-----------------------------------------------------------------------------
(* Numbers and squares *)

\* The least-number principle.
LEMMA NatMin ==
  ASSUME NEW T \in SUBSET Nat, T # {}
  PROVE  \E x \in T : \A y \in T : ~(y < x)
  <1>1. \E x \in T : \A y \in T : ~(<<y, x>> \in OpToRel(<, Nat))
    BY Zenon, WFMin, NatLessThanWellFounded
  <1> QED
    BY Zenon, <1>1 DEF OpToRel

N == SHIP_GAME_BOARD_SIZE

LEMMA Division ==
  ASSUME NEW n \in Nat \ {0}, NEW i \in Nat
  PROVE  /\ i \div n \in Nat /\ i % n \in 0 .. (n - 1)
         /\ i = n * (i \div n) + (i % n)
  <1>1. i \div n \in Nat /\ i % n \in 0 .. (n - 1)
    OBVIOUS
  <1>2. i = n * (i \div n) + (i % n)
    BY Z3
  <1> QED
    BY <1>1, <1>2

\* Quotient and remainder are unique.
LEMMA DivisionUnique ==
  ASSUME NEW n \in Nat \ {0}, NEW q \in Nat, NEW r \in 0 .. (n - 1),
         NEW s \in Nat, NEW t \in 0 .. (n - 1), n * q + r = n * s + t
  PROVE  q = s /\ r = t
  <1>1. ASSUME NEW a \in Nat, NEW b \in Nat, NEW c \in 0 .. (n - 1), NEW d \in 0 .. (n - 1),
               n * a + c = n * b + d
        PROVE  ~(a < b)
    <2> SUFFICES ASSUME a + 1 <= b PROVE FALSE
      OBVIOUS
    <2>1. n * (a + 1) <= n * b
      OBVIOUS
    <2>2. n * (a + 1) = n * a + n
      OBVIOUS
    <2> PICK u, v : u = n * a /\ v = n * b
      OBVIOUS
    <2>3. u \in Int /\ v \in Int /\ u + n <= v /\ u + c = v + d
      BY <1>1, <2>1, <2>2
    <2> QED
      BY <2>3
  <1>2. ~(q < s) /\ ~(s < q)
    BY <1>1
  <1>3. q = s
    BY <1>2
  <1> PICK u : u = n * q
    OBVIOUS
  <1>4. u \in Int /\ u + r = u + t
    BY <1>3
  <1> QED
    BY <1>3, <1>4

LEMMA SquareIs ==
  ASSUME NEW i \in Nat
  PROVE  /\ SquareAt(i) = <<SquareAt(i)[1], SquareAt(i)[2]>>
         /\ SquareAt(i)[1] \in Coords /\ SquareAt(i)[2] \in Nat
         /\ i = N * SquareAt(i)[2] + SquareAt(i)[1]
  BY Division, BoardAssumption DEF SquareAt, Coords, N

LEMMA SquareOfIndex ==
  ASSUME NEW x \in Coords, NEW y \in Nat
  PROVE  N * y + x \in Nat /\ SquareAt(N * y + x) = <<x, y>>
  <1>1. N \in Nat \ {0} /\ x \in 0 .. (N - 1)
    BY BoardAssumption DEF Coords, N
  <1>2. N * y \in Nat
    BY <1>1
  <1>3. N * y + x \in Nat
    BY <1>1, <1>2
  <1> PICK i \in Nat : i = N * y + x
    BY <1>3
  <1>4. N * SquareAt(i)[2] + SquareAt(i)[1] = N * y + x
    BY SquareIs
  <1>5. SquareAt(i)[2] = y /\ SquareAt(i)[1] = x
    BY <1>1, <1>4, SquareIs, DivisionUnique DEF Coords, N
  <1> QED
    BY <1>3, <1>5, SquareIs

\* The squares in the order in which they are read.
LEMMA SquareOrder ==
  ASSUME NEW i \in Nat
  PROVE  /\ SquareAt(0) = <<0, 0>>
         /\ SquareAt(i + 1) = IF SquareAt(i)[1] + 1 < N
                              THEN <<SquareAt(i)[1] + 1, SquareAt(i)[2]>>
                              ELSE <<0, SquareAt(i)[2] + 1>>
         /\ i < N * N => SquareAt(i) \in Cells
         /\ SquareAt(N * N) = <<0, N>>
  <1>1. N \in Nat \ {0} /\ Coords = 0 .. (N - 1) /\ 0 \in Coords
    BY BoardAssumption DEF Coords, N
  <1>7. PICK x \in Coords, y \in Nat : SquareAt(i) = <<x, y>> /\ i = N * y + x
    BY SquareIs
  <1>8. SquareAt(i)[1] = x /\ SquareAt(i)[2] = y
    BY <1>7
  <1>2. SquareAt(0) = <<0, 0>>
    <2>1. N * 0 + 0 = 0
      BY <1>1
    <2> QED
      BY <1>1, <2>1, SquareOfIndex
  <1>3. SquareAt(N * N) = <<0, N>>
    <2>1. N * N + 0 = N * N
      BY <1>1
    <2> QED
      BY <1>1, <2>1, SquareOfIndex
  <1>4. ASSUME x + 1 < N
        PROVE  SquareAt(i + 1) = IF SquareAt(i)[1] + 1 < N
                          THEN <<SquareAt(i)[1] + 1, SquareAt(i)[2]>>
                          ELSE <<0, SquareAt(i)[2] + 1>>
    <2>1. x + 1 \in Coords /\ N * y + (x + 1) = i + 1
      BY <1>1, <1>4, <1>7
    <2>2. SquareAt(i + 1) = <<x + 1, y>>
      BY <2>1, SquareOfIndex
    <2> QED
      BY <1>4, <1>8, <2>2
  <1>5. ASSUME ~(x + 1 < N)
        PROVE  SquareAt(i + 1) = IF SquareAt(i)[1] + 1 < N
                          THEN <<SquareAt(i)[1] + 1, SquareAt(i)[2]>>
                          ELSE <<0, SquareAt(i)[2] + 1>>
    <2>1. x + 1 = N /\ y + 1 \in Nat
      BY <1>1, <1>5
    <2>2. N * (y + 1) + 0 = N * y + N
      BY <1>1
    <2>3. N * (y + 1) + 0 = i + 1
      <3> PICK u : u = N * y
        OBVIOUS
      <3>1. u \in Int /\ i = u + x /\ N * (y + 1) + 0 = u + N
        BY <1>1, <1>7, <2>2
      <3> QED
        BY <1>1, <2>1, <3>1
    <2>4. SquareAt(i + 1) = <<0, y + 1>>
      <3>1. SquareAt(N * (y + 1) + 0) = <<0, y + 1>>
        BY <1>1, <2>1, SquareOfIndex
      <3> QED
        BY Zenon, <2>3, <3>1
    <2> QED
      BY <1>5, <1>8, <2>4
  <1>6. ASSUME i < N * N
        PROVE  SquareAt(i) \in Cells
    <2>1. y < N
      <3> SUFFICES ASSUME N <= y PROVE FALSE
        BY <1>1
      <3>1. N * N <= N * y
        BY <1>1
      <3> PICK u, v : u = N * N /\ v = N * y
        OBVIOUS
      <3>2. u \in Int /\ v \in Int /\ u <= v /\ v + x < u /\ x >= 0
        BY <1>1, <1>6, <1>7, <3>1
      <3> QED
        BY <3>2, <1>1
    <2> QED
      BY <1>1, <1>7, <2>1 DEF Cells
  <1> QED
    BY <1>2, <1>3, <1>4, <1>5, <1>6

-----------------------------------------------------------------------------
(* Reading order *)

\* The square c is read before the square d.
Before(c, d) == c[2] < d[2] \/ (c[2] = d[2] /\ c[1] < d[1])

LEMMA CellParts ==
  ASSUME NEW c \in Cells
  PROVE  c = <<c[1], c[2]>> /\ c[1] \in Coords /\ c[2] \in Coords
  BY DEF Cells

\* After one more round the square that was next has been read, too.
LEMMA BeforeNext ==
  ASSUME NEW i \in Nat, SquareAt(i) \in Cells, NEW c \in Cells
  PROVE  /\ ~Before(SquareAt(i), SquareAt(i))
         /\ Before(c, SquareAt(i + 1)) <=> Before(c, SquareAt(i)) \/ c = SquareAt(i)
  <1>1. N \in Nat \ {0} /\ Coords = 0 .. (N - 1)
    BY BoardAssumption DEF Coords, N
  <1>2. PICK x \in Coords, y \in Coords : SquareAt(i) = <<x, y>>
    BY DEF Cells
  <1>3. PICK a \in Coords, b \in Coords : c = <<a, b>>
    BY DEF Cells
  <1>4. SquareAt(i + 1) = IF x + 1 < N THEN <<x + 1, y>> ELSE <<0, y + 1>>
    BY <1>2, SquareOrder
  <1>5. CASE x + 1 < N
    BY <1>1, <1>2, <1>3, <1>4, <1>5 DEF Before
  <1>6. CASE ~(x + 1 < N)
    BY <1>1, <1>2, <1>3, <1>4, <1>6 DEF Before
  <1> QED
    BY <1>5, <1>6

\* Nothing has been read at first, and in the end everything.
LEMMA BeforeEnds ==
  ASSUME NEW c \in Cells
  PROVE  ~Before(c, SquareAt(0)) /\ Before(c, SquareAt(N * N))
  <1>1. N \in Nat \ {0} /\ Coords = 0 .. (N - 1)
    BY BoardAssumption DEF Coords, N
  <1>2. SquareAt(0) = <<0, 0>> /\ SquareAt(N * N) = <<0, N>>
    BY SquareOrder
  <1> QED
    BY <1>1, <1>2, CellParts DEF Before

\* The neighbours that are read before a square.
LEMMA NeighboursBefore ==
  ASSUME NEW x \in Coords, NEW y \in Coords, NEW c \in Cells,
         Before(c, <<x, y>>), Adjacent(c, <<x, y>>) \/ Adjacent(<<x, y>>, c)
  PROVE  c \in ReadNeighbours(x, y)
  <1>1. N \in Nat \ {0} /\ Coords = 0 .. (N - 1)
    BY BoardAssumption DEF Coords, N
  <1>2. PICK a \in Coords, b \in Coords : c = <<a, b>>
    BY DEF Cells
  <1>3. a - x \in -1 .. 1 /\ b - y \in -1 .. 1 /\ (b < y \/ (b = y /\ a < x))
    BY <1>1, <1>2 DEF Adjacent, Before
  <1>4. \/ a = x /\ b = y - 1
        \/ a = x - 1 /\ b = y
        \/ a = x - 1 /\ b = y - 1
        \/ a = x + 1 /\ b = y - 1
    BY <1>1, <1>3
  <1> QED
    BY <1>2, <1>4 DEF ReadNeighbours

-----------------------------------------------------------------------------
(* A ship *)

ShipRecord ==
  [ startX : Coords \cup {-1}, startY : Coords \cup {-1}, vertical : BOOLEAN,
    length : Nat, health : Int ]

SquareOf(ship, k) ==
  IF ship.vertical THEN <<ship.startX, ship.startY + k>>
                   ELSE <<ship.startX + k, ship.startY>>

Squares(ship) == {SquareOf(ship, k) : k \in 0 .. (ship.length - 1)}

\* A ship without a square, or one on the board.
Floating(ship) ==
  /\ ship \in ShipRecord
  /\ ship.length = 0 => ship = ship_init
  /\ ship.length # 0 => ship.startX \in Coords /\ ship.startY \in Coords
  /\ Squares(ship) \subseteq Cells

LEMMA EmptyShip ==
  /\ Floating(ship_init) /\ Squares(ship_init) = {}
  /\ ship_init.length = 0 /\ ship_init.health = 0
  <1>1. ship_init \in ShipRecord
    BY DEF ship_init, ShipRecord
  <1>2. Squares(ship_init) = {}
    BY DEF ship_init, Squares
  <1> QED
    BY <1>1, <1>2 DEF Floating, ship_init

\* A square that ship_place accepts is one more square of the ship.
LEMMA PlaceGrows ==
  ASSUME NEW ship, Floating(ship), ship.health = ship.length,
         NEW x \in Coords, NEW y \in Coords, ship_place(ship, x, y).alright,
         NEW n, n = ship_place(ship, x, y).ship
  PROVE  /\ Floating(n) /\ n.health = n.length /\ n.length = ship.length + 1
         /\ Squares(n) = Squares(ship) \cup {<<x, y>>}
  <1>1. N \in Nat \ {0} /\ Coords = 0 .. (N - 1) /\ -1 \notin Coords
    BY BoardAssumption DEF Coords, N
  <1>2. /\ ship.length \in Nat /\ ship.health \in Nat /\ ship.vertical \in BOOLEAN
        /\ ship.startX \in Coords \cup {-1} /\ ship.startY \in Coords \cup {-1}
    BY DEF Floating, ShipRecord
  <1> DEFINE first == ship.startX = -1 \/ ship.startY = -1
             sx    == IF first THEN x ELSE ship.startX
             sy    == IF first THEN y ELSE ship.startY
             vert  == IF ship.length = 1 THEN sx = x ELSE ship.vertical
  <1>3. /\ n = [startX |-> sx, startY |-> sy, vertical |-> vert,
                length |-> ship.length + 1, health |-> ship.health + 1]
        /\ IF vert THEN sx = x /\ sy + ship.length = y
                   ELSE sy = y /\ sx + ship.length = x
    BY DEF ship_place
  <1>4. sx \in Coords /\ sy \in Coords /\ vert \in BOOLEAN
    BY <1>1, <1>2
  <1>5. ship.length # 0 => sx = ship.startX /\ sy = ship.startY
    BY <1>1 DEF Floating
  <1> HIDE DEF first, sx, sy, vert
  <1>6. /\ n.startX = sx /\ n.startY = sy /\ n.vertical = vert
        /\ n.length = ship.length + 1 /\ n.health = ship.health + 1
        /\ n \in ShipRecord
    BY <1>2, <1>3, <1>4 DEF ShipRecord
  <1>7. SquareOf(n, ship.length) = <<x, y>>
    BY <1>1, <1>2, <1>3, <1>4, <1>6 DEF SquareOf
  <1>8. ASSUME NEW k \in 0 .. (ship.length - 1)
        PROVE  SquareOf(n, k) = SquareOf(ship, k)
    <2>1. sx = ship.startX /\ sy = ship.startY
      BY <1>2, <1>5, <1>8
    <2>2. CASE ship.length = 1
      <3>1. k = 0
        BY <1>8, <2>2
      <3> QED
        BY <1>1, <1>4, <1>6, <2>1, <3>1 DEF SquareOf
    <2>3. CASE ship.length # 1
      BY <1>6, <2>1, <2>3 DEF SquareOf, vert
    <2> QED
      BY <2>2, <2>3
  <1>9. Squares(n) = Squares(ship) \cup {<<x, y>>}
    <2>1. ASSUME NEW k \in 0 .. (n.length - 1)
          PROVE  SquareOf(n, k) \in Squares(ship) \cup {<<x, y>>}
      <3>1. CASE k = ship.length
        BY <1>7, <3>1
      <3>2. CASE k # ship.length
        <4>1. k \in 0 .. (ship.length - 1)
          BY <1>2, <1>6, <3>2
        <4> QED
          BY <1>8, <4>1 DEF Squares
      <3> QED
        BY <3>1, <3>2
    <2>2. <<x, y>> \in Squares(n)
      <3>1. ship.length \in 0 .. (n.length - 1)
        BY <1>2, <1>6
      <3> QED
        BY <1>7, <3>1 DEF Squares
    <2>3. ASSUME NEW k \in 0 .. (ship.length - 1)
          PROVE  SquareOf(ship, k) \in Squares(n)
      <3>1. k \in 0 .. (n.length - 1)
        BY <1>2, <1>6
      <3> QED
        BY <1>8, <3>1 DEF Squares
    <2> QED
      BY <2>1, <2>2, <2>3 DEF Squares
  <1>10. Squares(n) \subseteq Cells
    BY <1>9 DEF Floating, Cells
  <1>11. n.length # 0
    BY <1>2, <1>6
  <1> QED
    BY <1>4, <1>6, <1>9, <1>10, <1>11 DEF Floating

\* A ship has as many squares as its length says, and fits on the board.
LEMMA SquaresCount ==
  ASSUME NEW ship, Floating(ship)
  PROVE  /\ IsFiniteSet(Squares(ship)) /\ Cardinality(Squares(ship)) = ship.length
         /\ ship.length \in 0 .. N
  <1>1. N \in Nat \ {0} /\ Coords = 0 .. (N - 1) /\ -1 \notin Coords
    BY BoardAssumption DEF Coords, N
  <1>2. /\ ship.length \in Nat /\ ship.vertical \in BOOLEAN
        /\ ship.startX \in Int /\ ship.startY \in Int
    BY <1>1 DEF Floating, ShipRecord
  <1> DEFINE f == [k \in 1 .. ship.length |-> SquareOf(ship, k - 1)]
  <1>3. f \in Bijection(1 .. ship.length, Squares(ship))
    <2>1. ASSUME NEW k \in 1 .. ship.length
          PROVE  f[k] \in Squares(ship)
      <3>1. k - 1 \in 0 .. (ship.length - 1)
        BY <1>2
      <3> QED
        BY <3>1 DEF Squares
    <2>2. ASSUME NEW j \in 1 .. ship.length, NEW k \in 1 .. ship.length, f[j] = f[k]
          PROVE  j = k
      BY <1>2, <2>2 DEF SquareOf
    <2>3. ASSUME NEW c \in Squares(ship)
          PROVE  \E k \in 1 .. ship.length : f[k] = c
      <3>1. PICK k \in 0 .. (ship.length - 1) : c = SquareOf(ship, k)
        BY <2>3 DEF Squares
      <3>2. k + 1 \in 1 .. ship.length /\ (k + 1) - 1 = k
        BY <1>2
      <3>3. f[k + 1] = c
        BY <3>1, <3>2
      <3> QED
        BY <3>2, <3>3
    <2>4. f \in [1 .. ship.length -> Squares(ship)]
      BY <2>1
    <2> HIDE DEF f
    <2> QED
      BY <2>2, <2>3, <2>4 DEF Bijection, Injection, Surjection, IsInjective
  <1>4. IsFiniteSet(Squares(ship)) /\ Cardinality(Squares(ship)) = ship.length
    <2>1. ExistsBijection(1 .. ship.length, Squares(ship))
      BY <1>3 DEF ExistsBijection
    <2> QED
      BY <1>2, <2>1, FS_CountingElements, FS_Interval, FS_Bijection
  <1>5. ship.length <= N
    <2>1. CASE ship.length = 0
      BY <1>1, <2>1
    <2>2. CASE ship.length # 0
      <3>1. ship.length - 1 \in 0 .. (ship.length - 1)
        BY <1>2, <2>2
      <3>2. SquareOf(ship, ship.length - 1) \in Cells
        BY <3>1 DEF Floating, Squares
      <3>3. ship.startX \in Coords /\ ship.startY \in Coords
        BY <2>2 DEF Floating
      <3>4. \/ ship.startY + (ship.length - 1) \in Coords
            \/ ship.startX + (ship.length - 1) \in Coords
        BY <3>2 DEF SquareOf, Cells
      <3> QED
        BY <1>1, <1>2, <3>3, <3>4
    <2> QED
      BY <2>1, <2>2
  <1> QED
    BY <1>2, <1>4, <1>5

-----------------------------------------------------------------------------
(* The loop over a layout *)

\* The board of a player who is preparing: what earlier attempts left on it.
Sketches == [Cells -> ShipNumbers \cup {Empty}]

FleetRecords == [ShipNumbers -> ShipRecord]

ReadErrors == {ERROR_FORMAT, ERROR_SHIP_PLACEMENT, ERROR_SHIP_NUMBER}

\* What the loop holds as long as it has found no error: each ship has the
\* squares read so far that show its number, and no two ships touch.
Reading(p) ==
  /\ p \in [i : Nat, board : Sketches, ships : FleetRecords, error : {OK}]
  /\ \A s \in ShipNumbers :
       /\ Floating(p.ships[s]) /\ p.ships[s].health = p.ships[s].length
       /\ \A c \in Cells : c \in Squares(p.ships[s]) <=>
                             Before(c, SquareAt(p.i)) /\ p.board[c] = s
  /\ \A a, b \in Cells :
       /\ Before(a, SquareAt(p.i)) /\ Before(b, SquareAt(p.i)) /\ Adjacent(a, b)
       /\ isdigit(p.board[a]) /\ isdigit(p.board[b])
       => p.board[a] = p.board[b]

\* What it leaves when it has found one.
Refused(p) ==
  /\ p.error \in ReadErrors /\ p.board \in Sketches
  /\ p.ships = clean_client_ships

LEMMA Characters ==
  /\ ShipNumbers \subseteq Nat /\ Empty \notin ShipNumbers
  /\ \A c \in ShipNumbers : isdigit(c)
  /\ ~isdigit(Empty) /\ ~isdigit(Hit) /\ ~isdigit(Miss)
  /\ OK \notin ReadErrors
  BY BoardAssumption DEF ShipNumbers, Empty, Hit, Miss, isdigit, OK, ReadErrors,
     ERROR_FORMAT, ERROR_SHIP_PLACEMENT, ERROR_SHIP_NUMBER

LEMMA CleanShips ==
  /\ clean_client_ships \in FleetRecords
  /\ \A s \in ShipNumbers : clean_client_ships[s] = ship_init
  BY EmptyShip DEF clean_client_ships, FleetRecords, Floating

\* A round that accepts its character.
LEMMA RoundAccepts ==
  ASSUME NEW p, Reading(p), p.i < N * N, NEW c, SquareError(p, c) = OK
  PROVE  Reading(PlaceSquare(p, c)) /\ PlaceSquare(p, c).i = p.i + 1
  <1>1. /\ p.i \in Nat /\ p.board \in Sketches /\ p.ships \in FleetRecords /\ p.error = OK
        /\ p \in [i : Nat, board : Sketches, ships : FleetRecords, error : {OK}]
    BY DEF Reading
  <1> PICK sq : sq = SquareAt(p.i)
    OBVIOUS
  <1>2. sq \in Cells /\ sq = <<sq[1], sq[2]>> /\ sq[1] \in Coords /\ sq[2] \in Coords
    BY <1>1, SquareOrder, CellParts
  <1>3. /\ CharError(c) = OK
        /\ isdigit(c) => \A nb \in ReadNeighbours(sq[1], sq[2]) :
                            ~(isdigit(p.board[nb]) /\ p.board[nb] # c)
        /\ isdigit(c) => ship_place(p.ships[c], sq[1], sq[2]).alright
    BY DEF SquareError, OK, ERROR_SHIP_PLACEMENT
  <1>4. c \in ShipNumbers \cup {Empty} /\ (isdigit(c) <=> c \in ShipNumbers)
    BY <1>3, Characters DEF CharError, OK, ERROR_SHIP_NUMBER, ERROR_FORMAT
  <1>5. /\ ~Before(sq, sq)
        /\ \A d \in Cells : Before(d, SquareAt(p.i + 1)) <=> Before(d, sq) \/ d = sq
    BY <1>1, <1>2, BeforeNext
  <1> DEFINE board == [p.board EXCEPT ![sq] = c]
             ships == IF isdigit(c)
                      THEN [p.ships EXCEPT
                              ![c] = ship_place(p.ships[c], sq[1], sq[2]).ship]
                      ELSE p.ships
  <1> PICK q : q = PlaceSquare(p, c)
    OBVIOUS
  <1>7. /\ board \in Sketches /\ board[sq] = c
        /\ \A d \in Cells : d # sq => board[d] = p.board[d]
    BY <1>1, <1>2, <1>4 DEF Sketches
  <1>6. q = [p EXCEPT !.i = @ + 1, !.board[sq] = c,
                      !.ships = IF isdigit(c)
                                THEN [p.ships EXCEPT
                                        ![c] = ship_place(@, sq[1], sq[2]).ship]
                                ELSE @]
    BY Zenon, <1>1 DEF PlaceSquare
  <1>8. q.i = p.i + 1 /\ q.board = board /\ q.ships = ships /\ q.error = OK
    BY <1>1, <1>6
  <1>9. ASSUME NEW a \in Cells, NEW b \in Cells,
               Before(a, sq) \/ a = sq, Before(b, sq) \/ b = sq, Adjacent(a, b),
               isdigit(board[a]), isdigit(board[b])
        PROVE  board[a] = board[b]
    <2>1. CASE a # sq /\ b # sq
      <3>1. Before(a, sq) /\ Before(b, sq)
        BY <1>9, <2>1
      <3> QED
        BY <1>7, <1>9, <2>1, <3>1 DEF Reading
    <2>2. CASE a = sq
      <3>1. b # sq /\ b \in ReadNeighbours(sq[1], sq[2])
        BY <1>2, <1>9, <2>2, NeighboursBefore DEF Adjacent
      <3> QED
        BY <1>3, <1>7, <1>9, <2>2, <3>1
    <2>3. CASE b = sq
      <3>1. a # sq /\ a \in ReadNeighbours(sq[1], sq[2])
        BY <1>2, <1>9, <2>3, NeighboursBefore DEF Adjacent
      <3> QED
        BY <1>3, <1>7, <1>9, <2>3, <3>1
    <2> QED
      BY <2>1, <2>2, <2>3
  <1>10. ASSUME NEW s \in ShipNumbers, s # c
         PROVE  ships[s] = p.ships[s] /\ ships \in [ShipNumbers -> {ships[t] : t \in ShipNumbers}]
    BY <1>1, <1>10 DEF FleetRecords
  <1>11. ASSUME NEW s \in ShipNumbers, s = c
         PROVE  /\ ships[s] = ship_place(p.ships[s], sq[1], sq[2]).ship
                /\ ships[s] \in ShipRecord /\ Floating(ships[s])
                /\ ships[s].health = ships[s].length
                /\ Squares(ships[s]) = Squares(p.ships[s]) \cup {sq}
    <2>1. ships[s] = ship_place(p.ships[s], sq[1], sq[2]).ship
      BY <1>1, <1>4, <1>11 DEF FleetRecords
    <2>2. Floating(p.ships[s]) /\ p.ships[s].health = p.ships[s].length
      BY DEF Reading
    <2>3. ship_place(p.ships[s], sq[1], sq[2]).alright
      BY <1>3, <1>4, <1>11
    <2> HIDE DEF ships
    <2>4. /\ Floating(ships[s]) /\ ships[s].health = ships[s].length
          /\ Squares(ships[s]) = Squares(p.ships[s]) \cup {<<sq[1], sq[2]>>}
      BY <1>2, <2>1, <2>2, <2>3, PlaceGrows
    <2> QED
      BY <1>2, <2>1, <2>4 DEF Floating
  <1>12. ships \in FleetRecords
    <2>1. CASE isdigit(c)
      <3>1. c \in ShipNumbers
        BY <1>4, <2>1
      <3>2. ships[c] \in ShipRecord
        BY <1>11, <3>1
      <3>3. ships = [p.ships EXCEPT ![c] = ships[c]]
        BY <1>1, <2>1, <3>1 DEF FleetRecords
      <3> HIDE DEF ships
      <3> QED
        BY <1>1, <3>2, <3>3 DEF FleetRecords
    <2>2. CASE ~isdigit(c)
      BY <1>1, <2>2
    <2> QED
      BY <2>1, <2>2
  <1>13. ASSUME NEW s \in ShipNumbers
         PROVE  /\ Floating(ships[s]) /\ ships[s].health = ships[s].length
                /\ \A d \in Cells : d \in Squares(ships[s]) <=>
                                      (Before(d, sq) \/ d = sq) /\ board[d] = s
    <2>0. /\ Floating(p.ships[s]) /\ p.ships[s].health = p.ships[s].length
          /\ \A d \in Cells : d \in Squares(p.ships[s]) <=>
                                Before(d, sq) /\ p.board[d] = s
      BY DEF Reading
    <2>1. CASE s = c
      <3>1. /\ Floating(ships[s]) /\ ships[s].health = ships[s].length
            /\ Squares(ships[s]) = Squares(p.ships[s]) \cup {sq}
        BY <1>11, <2>1
      <3>2. ASSUME NEW d \in Cells
            PROVE  d \in Squares(ships[s]) <=> (Before(d, sq) \/ d = sq) /\ board[d] = s
        <4>1. CASE d = sq
          BY <1>7, <2>1, <3>1, <4>1
        <4>2. CASE d # sq
          BY <1>7, <2>0, <3>1, <4>2
        <4> QED
          BY <4>1, <4>2
      <3> QED
        BY <3>1, <3>2
    <2>2. CASE s # c
      BY <1>2, <1>5, <1>7, <1>10, <2>0, <2>2
    <2> QED
      BY <2>1, <2>2
  <1> HIDE DEF board, ships
  <1>14. q \in [i : Nat, board : Sketches, ships : FleetRecords, error : {OK}]
    <2> DEFINE fleet == IF isdigit(c)
                        THEN [p.ships EXCEPT
                                ![c] = ship_place(@, sq[1], sq[2]).ship]
                        ELSE p.ships
    <2>1. q = [p EXCEPT !.i = @ + 1, !.board[sq] = c, !.ships = fleet]
      BY <1>6
    <2>2. q.ships = fleet /\ fleet = ships
      BY <1>1, <1>8, <2>1
    <2> PICK n \in Nat : n = p.i + 1
      BY <1>1
    <2> HIDE DEF fleet, board, ships
    <2>3. \A b, f : f = fleet /\ b = [p.board EXCEPT ![sq] = c] =>
             q = [p EXCEPT !.i = n, !.board = b, !.ships = f]
      BY <1>1, <2>1
    <2>4. q = [p EXCEPT !.i = n, !.board = board, !.ships = ships]
      BY <2>2, <2>3 DEF board
    <2> QED
      BY <1>1, <1>7, <1>12, <2>4
  <1>15. Reading(q)
    BY <1>5, <1>8, <1>9, <1>13, <1>14 DEF Reading
  <1> QED
    BY <1>8, <1>15

\* A round that does not.
LEMMA RoundRefuses ==
  ASSUME NEW p, Reading(p), NEW c, SquareError(p, c) # OK
  PROVE  Refused(PlaceSquare(p, c))
  <1>1. /\ p.board \in Sketches /\ p.error = OK
        /\ p \in [i : Nat, board : Sketches, ships : FleetRecords, error : {OK}]
    BY DEF Reading
  <1>2. SquareError(p, c) \in ReadErrors
    BY DEF SquareError, CharError, ReadErrors
  <1>3. PlaceSquare(p, c) = [p EXCEPT !.error = SquareError(p, c),
                                      !.ships = clean_client_ships]
    BY <1>1 DEF PlaceSquare
  <1> QED
    BY <1>1, <1>2, <1>3 DEF Refused

-----------------------------------------------------------------------------
(* A whole layout *)

Start(board, ships) == [i |-> 0, board |-> board, ships |-> ships, error |-> OK]

\* The function that ReadLayout is defined by.
IsRead(f, board, ships, layout) ==
  f = [k \in 0 .. Len(layout) |->
         IF k = 0 THEN Start(board, ships) ELSE PlaceSquare(f[k - 1], layout[k])]

LEMMA ReadIs ==
  ASSUME NEW board, NEW ships, NEW layout
  PROVE  ReadLayout(board, ships, layout) =
           (CHOOSE f : IsRead(f, board, ships, layout))[Len(layout)]
  BY DEF ReadLayout, IsRead, Start

\* There is such a function: what the loop computes is defined for every layout.
LEMMA ReadExists ==
  ASSUME NEW board, NEW ships, NEW layout, Len(layout) \in Nat
  PROVE  \E f : IsRead(f, board, ships, layout)
  <1> DEFINE Run(f, n) == /\ f[0] = Start(board, ships)
                          /\ \A k \in 1 .. n : f[k] = PlaceSquare(f[k - 1], layout[k])
             T == {n \in Nat : ~ \E f : Run(f, n)}
  <1>1. T = {}
    <2> SUFFICES ASSUME T # {} PROVE FALSE
      OBVIOUS
    <2>1. PICK n \in T : \A m \in T : ~(m < n)
      BY NatMin
    <2>2. CASE n = 0
      <3>1. Run([k \in {0} |-> Start(board, ships)], 0)
        OBVIOUS
      <3> QED
        BY <2>1, <2>2, <3>1
    <2>3. CASE n # 0
      <3>1. n - 1 \in Nat /\ n - 1 < n
        BY <2>1, <2>3
      <3>2. PICK f : Run(f, n - 1)
        BY <2>1, <3>1
      <3> DEFINE g == [k \in 0 .. n |->
                         IF k = n THEN PlaceSquare(f[n - 1], layout[n]) ELSE f[k]]
      <3>3. g[0] = Start(board, ships)
        BY <2>1, <2>3, <3>2
      <3>4. ASSUME NEW k \in 1 .. n
            PROVE  g[k] = PlaceSquare(g[k - 1], layout[k])
        <4>1. CASE k = n
          BY <2>1, <3>1, <4>1
        <4>2. CASE k # n
          <5>1. k \in 1 .. (n - 1) /\ k \in 0 .. n /\ k - 1 \in 0 .. n /\ k - 1 # n
            BY <2>1, <4>2
          <5> QED
            BY <3>2, <4>2, <5>1
        <4> QED
          BY <4>1, <4>2
      <3> HIDE DEF g
      <3>5. Run(g, n)
        BY <3>3, <3>4
      <3> QED
        BY <2>1, <3>5
    <2> QED
      BY <2>2, <2>3
  <1>2. PICK f : Run(f, Len(layout))
    BY <1>1
  <1> DEFINE g == [k \in 0 .. Len(layout) |-> f[k]]
  <1>3. \A k \in 0 .. Len(layout) :
          f[k] = IF k = 0 THEN Start(board, ships) ELSE PlaceSquare(f[k - 1], layout[k])
    BY <1>2
  <1>4. \A k \in 0 .. Len(layout) : k # 0 => k - 1 \in 0 .. Len(layout)
    OBVIOUS
  <1>5. IsRead(g, board, ships, layout)
    BY <1>3, <1>4 DEF IsRead
  <1> QED
    BY <1>5

\* The reading as a sequence of rounds, one for each character.
LEMMA ReadRounds ==
  ASSUME NEW board, NEW ships, NEW layout, Len(layout) \in Nat
  PROVE  \E f : /\ f[0] = Start(board, ships)
                /\ \A k \in 1 .. Len(layout) : f[k] = PlaceSquare(f[k - 1], layout[k])
                /\ ReadLayout(board, ships, layout) = f[Len(layout)]
  <1> PICK f : f = CHOOSE g : IsRead(g, board, ships, layout)
    OBVIOUS
  <1>1. IsRead(f, board, ships, layout)
    BY Zenon, ReadExists
  <1>5. \A k \in 0 .. Len(layout) :
          f[k] = IF k = 0 THEN Start(board, ships) ELSE PlaceSquare(f[k - 1], layout[k])
    BY <1>1 DEF IsRead
  <1>2. f[0] = Start(board, ships)
    BY <1>5
  <1>3. \A k \in 1 .. Len(layout) : f[k] = PlaceSquare(f[k - 1], layout[k])
    BY <1>5
  <1>4. ReadLayout(board, ships, layout) = f[Len(layout)]
    BY ReadIs
  <1> QED
    BY <1>2, <1>3, <1>4

LEMMA StartReads ==
  ASSUME NEW board \in Sketches
  PROVE  Reading(Start(board, clean_client_ships))
  <1> DEFINE p == Start(board, clean_client_ships)
  <1>1. /\ p \in [i : Nat, board : Sketches, ships : FleetRecords, error : {OK}]
        /\ p.i = 0 /\ p.ships = clean_client_ships
    BY CleanShips DEF Start
  <1> HIDE DEF p
  <1>2. \A c \in Cells : ~Before(c, SquareAt(p.i))
    BY <1>1, BeforeEnds
  <1>3. ASSUME NEW s \in ShipNumbers
        PROVE  /\ Floating(p.ships[s]) /\ p.ships[s].health = p.ships[s].length
               /\ Squares(p.ships[s]) = {}
    <2>1. p.ships[s] = ship_init
      BY <1>1, CleanShips
    <2> QED
      BY <2>1, EmptyShip
  <1>4. Reading(p)
    BY <1>1, <1>2, <1>3 DEF Reading
  <1> QED
    BY <1>4 DEF p

\* The invariant holds after every round.
LEMMA ReadResult ==
  ASSUME NEW board \in Sketches, NEW layout, Len(layout) \in 0 .. N * N,
         NEW p, p = ReadLayout(board, clean_client_ships, layout)
  PROVE  (Reading(p) /\ p.i = Len(layout)) \/ Refused(p)
  <1>1. N * N \in Nat /\ Len(layout) \in Nat /\ Len(layout) <= N * N
    BY BoardAssumption DEF N
  <1>2. PICK f : /\ f[0] = Start(board, clean_client_ships)
                 /\ \A k \in 1 .. Len(layout) : f[k] = PlaceSquare(f[k - 1], layout[k])
                 /\ p = f[Len(layout)]
    BY <1>1, ReadRounds
  <1> DEFINE Fine(k) == (Reading(f[k]) /\ f[k].i = k) \/ Refused(f[k])
             T == {k \in 0 .. Len(layout) : ~Fine(k)}
  <1>3. T = {}
    <2> SUFFICES ASSUME T # {} PROVE FALSE
      OBVIOUS
    <2>1. T \in SUBSET Nat
      BY <1>1
    <2>2. PICK k \in T : \A j \in T : ~(j < k)
      BY <2>1, NatMin
    <2>3. CASE k = 0
      BY <1>2, <2>2, <2>3, StartReads DEF Start
    <2>4. CASE k # 0
      <3>1. k - 1 \in 0 .. Len(layout) /\ k - 1 < k /\ k \in 1 .. Len(layout)
        BY <1>1, <2>2, <2>4
      <3>2. Fine(k - 1) /\ f[k] = PlaceSquare(f[k - 1], layout[k])
        BY <1>2, <2>2, <3>1
      <3>3. CASE Refused(f[k - 1])
        <4>1. f[k] = f[k - 1]
          BY <3>2, <3>3, Characters DEF Refused, PlaceSquare
        <4> QED
          BY <2>2, <3>3, <4>1
      <3>4. CASE Reading(f[k - 1]) /\ f[k - 1].i = k - 1
        <4>1. f[k - 1].i < N * N /\ (k - 1) + 1 = k
          BY <1>1, <3>1, <3>4
        <4>2. CASE SquareError(f[k - 1], layout[k]) = OK
          <5>1. Reading(f[k]) /\ f[k].i = k
            BY <3>2, <3>4, <4>1, <4>2, RoundAccepts
          <5> QED
            BY <2>2, <5>1
        <4>3. CASE SquareError(f[k - 1], layout[k]) # OK
          <5>1. Refused(f[k])
            BY <3>2, <3>4, <4>3, RoundRefuses
          <5> QED
            BY <2>2, <5>1
        <4> QED
          BY <4>2, <4>3
      <3> QED
        BY <3>2, <3>3, <3>4
    <2> QED
      BY <2>3, <2>4
  <1>4. Fine(Len(layout))
    BY <1>1, <1>3
  <1> QED
    BY <1>2, <1>4

-----------------------------------------------------------------------------
(* cmd_game_prepared *)

\* A complete fleet on its board.
Placed(board, ships) ==
  /\ board \in Sketches /\ ships \in FleetRecords
  /\ \A s \in ShipNumbers :
       /\ Floating(ships[s]) /\ ships[s].health = ships[s].length
       /\ ships[s].length = ShipLength[s]
       /\ \A c \in Cells : c \in Squares(ships[s]) <=> board[c] = s
  /\ \A a, b \in Cells :
       Adjacent(a, b) /\ isdigit(board[a]) /\ isdigit(board[b]) => board[a] = board[b]

PrepareErrors == ReadErrors \cup {ERROR_SHIPS_WRONG_LENGTH}

\* What cmd_game_prepared makes of a layout: a complete fleet, or a refusal that
\* leaves the player ready for another attempt.
LEMMA PrepareDoes ==
  ASSUME NEW player, NEW board \in Sketches, NEW layout, Len(layout) \in Nat,
         NEW r, r = Prepare(player, board, clean_client_ships, layout)
  PROVE  \/ r.error = OK /\ Placed(r.board, r.ships)
         \/ /\ r.error \in PrepareErrors
            /\ r.board \in Sketches /\ r.ships = clean_client_ships
  <1>1. GAME_BOARD_STRING_SIZE = N * N /\ N * N \in Nat
    BY BoardAssumption DEF GAME_BOARD_STRING_SIZE, N
  <1> PICK p : p = ReadLayout(board, clean_client_ships, layout)
    OBVIOUS
  <1>2. CASE Len(layout) # GAME_BOARD_STRING_SIZE
    BY <1>2 DEF Prepare, PrepareErrors, ReadErrors
  <1>3. CASE Len(layout) = GAME_BOARD_STRING_SIZE
    <2>1. (Reading(p) /\ p.i = Len(layout)) \/ Refused(p)
      BY <1>1, <1>3, ReadResult
    <2>2. CASE Refused(p)
      <3>1. p.error # OK
        BY <2>2, Characters DEF Refused
      <3> QED
        BY <1>3, <2>2, <3>1 DEF Prepare, Refused, PrepareErrors
    <2>3. CASE Reading(p) /\ p.i = Len(layout)
      <3>1. p.error = OK /\ p.board \in Sketches /\ p.ships \in FleetRecords
        BY <2>3 DEF Reading
      <3>2. \A c \in Cells : Before(c, SquareAt(p.i))
        BY <1>1, <1>3, <2>3, BeforeEnds
      <3>3. CASE \E s \in ShipNumbers : p.ships[s].length # ShipLength[s]
        BY <1>3, <3>1, <3>3 DEF Prepare, PrepareErrors, ReadErrors, LengthError
      <3>4. CASE \A s \in ShipNumbers : p.ships[s].length = ShipLength[s]
        <4>1. r = [board |-> p.board, ships |-> p.ships, error |-> OK]
          BY <1>3, <3>1, <3>4 DEF Prepare
        <4>2. Placed(p.board, p.ships)
          BY <2>3, <3>1, <3>2, <3>4 DEF Reading, Placed
        <4> QED
          BY <4>1, <4>2
      <3> QED
        BY <3>3, <3>4
    <2> QED
      BY <2>1, <2>2, <2>3
  <1> QED
    BY <1>2, <1>3

-----------------------------------------------------------------------------
(* A board under fire *)

\* The squares around a ship, by their neighbourhood.
LEMMA SurroundingsAre ==
  ASSUME NEW ship, Floating(ship), ship.length # 0, NEW c \in Cells
  PROVE  c \in Surroundings(ship) <=>
           c \notin Squares(ship) /\ \E a \in Squares(ship) : Adjacent(a, c)
  <1>1. N \in Nat \ {0} /\ Coords = 0 .. (N - 1) /\ -1 \notin Coords
    BY BoardAssumption DEF Coords, N
  <1>2. /\ ship.length \in Nat /\ ship.length # 0 /\ ship.vertical \in BOOLEAN
        /\ ship.startX \in Int /\ ship.startY \in Int
    BY <1>1 DEF Floating, ShipRecord
  <1> PICK l, sx, sy : l = ship.length /\ sx = ship.startX /\ sy = ship.startY
    OBVIOUS
  <1>3. PICK x \in Int, y \in Int : c = <<x, y>>
    BY <1>1 DEF Cells
  \* The distances of c along and across the ship.
  <1> DEFINE u == IF ship.vertical THEN y - sy ELSE x - sx
             v == IF ship.vertical THEN x - sx ELSE y - sy
  <1>4. u \in Int /\ v \in Int /\ l \in Nat /\ l # 0
    BY <1>2, <1>3
  <1>5. \A k \in Int, d \in Int :
          (IF ship.vertical THEN <<sx + d, sy + k>> ELSE <<sx + k, sy + d>>) = c
            <=> k = u /\ d = v
    BY <1>2, <1>3
  <1>6. c \in Surroundings(ship) <=>
          \/ u \in 0 .. (l - 1) /\ v \in {-1, 1}
          \/ u \in {-1, l} /\ v \in -1 .. 1
    <2> DEFINE at(k, d) == IF ship.vertical THEN <<sx + d, sy + k>>
                                            ELSE <<sx + k, sy + d>>
    <2>1. Surroundings(ship) =
            {at(k, d) : k \in 0 .. (l - 1), d \in {-1, 1}}
              \cup {at(k, d) : k \in {-1, l}, d \in -1 .. 1}
      BY DEF Surroundings
    <2>2. \A k \in Int, d \in Int : at(k, d) = c <=> k = u /\ d = v
      BY <1>5
    <2>3. /\ \A k \in 0 .. (l - 1) : k \in Int
          /\ \A k \in {-1, l} : k \in Int
          /\ \A d \in {-1, 1} : d \in Int
          /\ \A d \in -1 .. 1 : d \in Int
      BY <1>4
    <2> HIDE DEF at, u, v
    <2>4. ASSUME c \in Surroundings(ship)
          PROVE  \/ u \in 0 .. (l - 1) /\ v \in {-1, 1}
                 \/ u \in {-1, l} /\ v \in -1 .. 1
      <3>1. CASE \E k \in 0 .. (l - 1), d \in {-1, 1} : c = at(k, d)
        BY <2>2, <2>3, <3>1
      <3>2. CASE \E k \in {-1, l}, d \in -1 .. 1 : c = at(k, d)
        BY <2>2, <2>3, <3>2
      <3> QED
        BY <2>1, <2>4, <3>1, <3>2
    <2>5. c = at(u, v)
      BY <1>4, <2>2
    <2> QED
      BY <2>1, <2>4, <2>5
  <1>7. ASSUME NEW k \in 0 .. (l - 1)
        PROVE  /\ SquareOf(ship, k) = c <=> u = k /\ v = 0
               /\ Adjacent(SquareOf(ship, k), c) <=>
                    (u # k \/ v # 0) /\ k - u \in -1 .. 1 /\ v \in -1 .. 1
    <2>1. k \in Int
      BY <1>4
    <2>2. CASE ship.vertical
      <3>1. SquareOf(ship, k) = <<sx, sy + k>> /\ u = y - sy /\ v = x - sx
        BY <2>2 DEF SquareOf
      <3>2. SquareOf(ship, k) = c <=> u = k /\ v = 0
        <4>1. <<sx, sy + k>> = <<x, y>> <=> sx = x /\ sy + k = y
          OBVIOUS
        <4>2. sx \in Int /\ sy \in Int
          BY <1>2
        <4> HIDE DEF u, v
        <4>3. sx = x <=> v = 0
          BY <1>3, <3>1, <4>2
        <4>4. sy + k = y <=> u = k
          BY <1>3, <2>1, <3>1, <4>2
        <4> QED
          BY <1>3, <3>1, <4>1, <4>3, <4>4
      <3>3. Adjacent(SquareOf(ship, k), c) <=>
              <<sx, sy + k>> # c /\ sx - x \in -1 .. 1 /\ (sy + k) - y \in -1 .. 1
        BY <1>3, <3>1 DEF Adjacent
      <3>4. sx - x \in -1 .. 1 <=> v \in -1 .. 1
        BY <1>2, <1>3, <3>1
      <3>5. (sy + k) - y = k - u
        BY <1>2, <1>3, <2>1, <3>1
      <3> QED
        BY <3>1, <3>2, <3>3, <3>4, <3>5
    <2>3. CASE ~ship.vertical
      <3>1. SquareOf(ship, k) = <<sx + k, sy>> /\ u = x - sx /\ v = y - sy
        BY <2>3 DEF SquareOf
      <3> QED
        BY <1>2, <1>3, <2>1, <3>1 DEF Adjacent
    <2> QED
      BY <2>2, <2>3
  <1> HIDE DEF u, v
  <1>8. c \in Squares(ship) <=> u \in 0 .. (l - 1) /\ v = 0
    BY <1>7 DEF Squares
  <1>9. (\E a \in Squares(ship) : Adjacent(a, c)) <=>
          \E k \in 0 .. (l - 1) :
            (u # k \/ v # 0) /\ k - u \in -1 .. 1 /\ v \in -1 .. 1
    BY <1>7 DEF Squares
  <1>10. ASSUME NEW k \in 0 .. (l - 1), k - u \in -1 .. 1, v \in -1 .. 1,
                ~(u \in 0 .. (l - 1) /\ v = 0)
         PROVE  \/ u \in 0 .. (l - 1) /\ v \in {-1, 1}
                \/ u \in {-1, l} /\ v \in -1 .. 1
    BY <1>4, <1>10
  <1>11. ASSUME u \in 0 .. (l - 1), v \in {-1, 1}
         PROVE  /\ ~(u \in 0 .. (l - 1) /\ v = 0)
                /\ (u # u \/ v # 0) /\ u - u \in -1 .. 1 /\ v \in -1 .. 1
    BY <1>4, <1>11
  <1>12. ASSUME u \in {-1, l}, v \in -1 .. 1
         PROVE  /\ ~(u \in 0 .. (l - 1) /\ v = 0)
                /\ \E k \in 0 .. (l - 1) :
                     (u # k \/ v # 0) /\ k - u \in -1 .. 1 /\ v \in -1 .. 1
    <2>1. CASE u = -1
      <3>1. 0 \in 0 .. (l - 1) /\ u # 0 /\ 0 - u \in -1 .. 1
        BY <1>4, <2>1
      <3> QED
        BY <1>4, <1>12, <2>1, <3>1
    <2>2. CASE u = l
      <3>1. l - 1 \in 0 .. (l - 1) /\ u # l - 1 /\ (l - 1) - u \in -1 .. 1
        BY <1>4, <2>2
      <3> QED
        BY <1>4, <1>12, <2>2, <3>1
    <2> QED
      BY <1>12, <2>1, <2>2
  <1> QED
    BY <1>6, <1>8, <1>9, <1>10, <1>11, <1>12

Boards == [Cells -> ShipNumbers \cup {Empty, Hit, Miss}]

SunkOf(f) == {s \in ShipNumbers : f[s].health = 0}

\* Board and fleet of a player while the opponent fires at them.
Afloat(b, f) ==
  /\ b \in Boards /\ f \in FleetRecords
  /\ \A s \in ShipNumbers :
       /\ Floating(f[s]) /\ f[s].length = ShipLength[s]
       /\ \A c \in Squares(f[s]) : b[c] \in {s, Hit}
       /\ f[s].health = Cardinality({c \in Squares(f[s]) : b[c] = s})
  /\ \A c \in Cells : (\A s \in ShipNumbers : c \notin Squares(f[s])) =>
       b[c] \in {Empty, Miss}
  /\ \A s, t \in ShipNumbers : s # t =>
       \A a \in Squares(f[s]), c \in Squares(f[t]) : a # c /\ ~Adjacent(a, c)
  /\ \A s \in SunkOf(f), c \in Cells :
       c \notin Squares(f[s]) /\ (\E a \in Squares(f[s]) : Adjacent(a, c)) => b[c] = Miss

\* Some squares of a ship, as those that are not hit.
LEMMA SomeSquares ==
  ASSUME NEW ship, Floating(ship), NEW S \in SUBSET Squares(ship)
  PROVE  IsFiniteSet(S) /\ Cardinality(S) \in 0 .. ship.length
  <1>1. /\ IsFiniteSet(Squares(ship)) /\ Cardinality(Squares(ship)) = ship.length
        /\ ship.length \in Nat
    BY SquaresCount DEF Floating, ShipRecord
  <1>2. IsFiniteSet(S) /\ Cardinality(S) <= ship.length
    BY <1>1, FS_Subset
  <1>3. Cardinality(S) \in Nat
    BY <1>2, FS_CardinalityType
  <1> QED
    BY <1>1, <1>2, <1>3

LEMMA PlacedAfloat ==
  ASSUME NEW b, NEW f, Placed(b, f)
  PROVE  Afloat(b, f) /\ SunkOf(f) = {}
  <1>1. b \in Boards /\ f \in FleetRecords
    BY DEF Placed, Sketches, Boards
  <1>2. ASSUME NEW s \in ShipNumbers
        PROVE  /\ Floating(f[s]) /\ f[s].length = ShipLength[s] /\ f[s].health # 0
               /\ \A c \in Squares(f[s]) : c \in Cells /\ b[c] = s
               /\ f[s].health = Cardinality({c \in Squares(f[s]) : b[c] = s})
    <2>1. /\ Floating(f[s]) /\ f[s].length = ShipLength[s]
          /\ f[s].health = f[s].length
          /\ \A c \in Squares(f[s]) : c \in Cells /\ b[c] = s
      BY DEF Placed, Floating
    <2>2. {c \in Squares(f[s]) : b[c] = s} = Squares(f[s])
      BY <2>1
    <2>3. f[s].health = Cardinality(Squares(f[s]))
      BY <2>1, SquaresCount
    <2>4. f[s].health # 0
      BY <2>1, BoardAssumption
    <2> QED
      BY <2>1, <2>2, <2>3, <2>4
  <1>3. ASSUME NEW c \in Cells, \A s \in ShipNumbers : c \notin Squares(f[s])
        PROVE  b[c] = Empty
    BY <1>3 DEF Placed, Sketches
  <1>4. ASSUME NEW s \in ShipNumbers, NEW t \in ShipNumbers, s # t,
               NEW a \in Squares(f[s]), NEW c \in Squares(f[t])
        PROVE  a # c /\ ~Adjacent(a, c)
    <2>1. b[a] = s /\ b[c] = t /\ a \in Cells /\ c \in Cells
      BY <1>2
    <2>2. isdigit(b[a]) /\ isdigit(b[c])
      BY <2>1, Characters
    <2> QED
      BY <1>4, <2>1, <2>2 DEF Placed
  <1>5. SunkOf(f) = {}
    BY <1>2 DEF SunkOf
  <1> QED
    BY <1>1, <1>2, <1>3, <1>4, <1>5 DEF Afloat

LEMMA MissAfloat ==
  ASSUME NEW b, NEW f, Afloat(b, f), NEW sq \in Cells, b[sq] = Empty,
         NEW m, m = [b EXCEPT ![sq] = Miss]
  PROVE  Afloat(m, f)
  <1>1. /\ m \in Boards /\ m[sq] = Miss
        /\ \A c \in Cells : c # sq => m[c] = b[c]
    BY DEF Afloat, Boards
  <1>2. ASSUME NEW s \in ShipNumbers
        PROVE  /\ \A c \in Squares(f[s]) : m[c] = b[c]
               /\ {c \in Squares(f[s]) : m[c] = s} = {c \in Squares(f[s]) : b[c] = s}
    <2>1. \A c \in Squares(f[s]) : c \in Cells /\ b[c] \in {s, Hit}
      BY DEF Afloat, Floating
    <2>2. \A c \in Squares(f[s]) : c # sq
      BY <2>1, Characters DEF Empty, Hit
    <2> QED
      BY <1>1, <2>1, <2>2
  <1>3. \A c \in Cells : m[c] \in {b[c], Miss}
    BY <1>1
  <1> QED
    BY <1>1, <1>2, <1>3 DEF Afloat

\* The fleet after a shot at the ship s, and the board after one at its square sq.
ShotFleet(f, s) == [f EXCEPT ![s] = ship_hit(f[s])]

ShotBoard(b, f, s, sq) ==
  LET ship == ShotFleet(f, s)[s]
      hit  == [b EXCEPT ![sq] = Hit]
  IN IF ship_destroyed(ship) THEN mark_destroyed_ship(hit, ship) ELSE hit

LEMMA HitAfloat ==
  ASSUME NEW b, NEW f, Afloat(b, f), NEW sq \in Cells, NEW s \in ShipNumbers, b[sq] = s
  PROVE  LET n == ShotFleet(f, s)
             m == ShotBoard(b, f, s, sq)
         IN
         /\ Afloat(m, n) /\ s \notin SunkOf(f)
         /\ SunkOf(n) = IF ship_destroyed(n[s]) THEN SunkOf(f) \cup {s} ELSE SunkOf(f)
         /\ \A t \in ShipNumbers : Squares(n[t]) = Squares(f[t])
         /\ \A c \in Cells : m[c] \in {Hit, Miss} <=>
              \/ c = sq \/ b[c] \in {Hit, Miss}
              \/ /\ ship_destroyed(n[s]) /\ c \notin Squares(f[s])
                 /\ \E a \in Squares(f[s]) : Adjacent(a, c)
  <1> DEFINE n   == ShotFleet(f, s)
             hit == [b EXCEPT ![sq] = Hit]
             m   == ShotBoard(b, f, s, sq)
  <1>0. /\ n = [f EXCEPT ![s] = ship_hit(f[s])]
        /\ hit = [b EXCEPT ![sq] = Hit]
        /\ m = IF ship_destroyed(n[s]) THEN mark_destroyed_ship(hit, n[s]) ELSE hit
    BY DEF ShotFleet, ShotBoard
  <1> HIDE DEF n, hit, m
  <1>1. /\ hit \in Boards /\ hit[sq] = Hit
        /\ \A c \in Cells : c # sq => hit[c] = b[c]
    BY <1>0 DEF Afloat, Boards
  <1>2. f[s] \in ShipRecord /\ Floating(f[s])
    BY DEF Afloat, Floating
  <1>3. n[s] = [f[s] EXCEPT !.health = f[s].health - 1] /\ f[s].health \in Int
    BY <1>0, <1>2 DEF Afloat, FleetRecords, ship_hit, ShipRecord
  <1>4. /\ n[s].startX = f[s].startX /\ n[s].startY = f[s].startY
        /\ n[s].vertical = f[s].vertical /\ n[s].length = f[s].length
        /\ n[s].health = f[s].health - 1 /\ n[s] \in ShipRecord
    BY <1>2, <1>3 DEF ShipRecord
  <1>5. Squares(n[s]) = Squares(f[s]) /\ Surroundings(n[s]) = Surroundings(f[s])
    BY <1>4 DEF Squares, SquareOf, Surroundings
  <1>6. f[s].length # 0
    <2>1. f[s].length = ShipLength[s]
      BY DEF Afloat
    <2> QED
      BY <2>1, BoardAssumption
  <1>7. n \in FleetRecords /\ \A t \in ShipNumbers : t # s => n[t] = f[t]
    BY <1>0, <1>4 DEF Afloat, FleetRecords
  <1>8. Floating(n[s])
    BY <1>2, <1>4, <1>5, <1>6 DEF Floating
  <1>9. sq \in Squares(f[s])
    <2>1. ASSUME NEW t \in ShipNumbers, sq \in Squares(f[t])
          PROVE  t = s
      BY ZenonT(60), <2>1, Characters DEF Afloat, isdigit, Hit
    <2>2. s \notin {Empty, Miss}
      BY Characters DEF isdigit, Empty, Miss
    <2> QED
      BY <2>1, <2>2 DEF Afloat
  \* The marking stays off every ship.
  <1>10. ASSUME NEW t \in ShipNumbers, NEW c \in Squares(f[t])
         PROVE  c \in Cells /\ c \notin Surroundings(f[s])
    <2>1. c \in Cells
      BY DEF Afloat, Floating
    <2>2. CASE t = s
      BY <1>2, <1>6, <2>1, <2>2, SurroundingsAre
    <2>3. CASE t # s
      <3>1. \A a \in Squares(f[s]) : ~Adjacent(a, c)
        BY <2>3 DEF Afloat
      <3> QED
        BY <1>2, <1>6, <2>1, <3>1, SurroundingsAre
    <2> QED
      BY <2>1, <2>2, <2>3
  <1>11. /\ m \in Boards
         /\ \A c \in Cells : m[c] = IF ship_destroyed(n[s]) /\ c \in Surroundings(f[s])
                                    THEN Miss ELSE hit[c]
    BY <1>0, <1>1, <1>5 DEF mark_destroyed_ship, Boards
  <1>12. /\ m[sq] = Hit
         /\ \A t \in ShipNumbers : \A c \in Squares(f[t]) : c # sq => m[c] = b[c]
    BY <1>1, <1>9, <1>10, <1>11
  <1>13. \A c \in Cells : c # sq => m[c] \in {b[c], Miss}
    BY <1>1, <1>11
  <1> DEFINE I(g, t) == {c \in Squares(f[t]) : g[c] = t}
  <1>14. /\ n[s].health = Cardinality(I(m, s))
         /\ f[s].health \in Nat /\ f[s].health # 0
    <2>1. I(m, s) = I(b, s) \ {sq} /\ sq \in I(b, s)
      <3>1. s # Hit
        BY Characters DEF isdigit, Hit
      <3> QED
        BY <1>9, <1>12, <3>1
    <2>2. f[s].health = Cardinality(I(b, s))
      BY DEF Afloat
    <2>3. IsFiniteSet(I(b, s)) /\ Cardinality(I(b, s)) \in Nat
      <3>1. IsFiniteSet({c \in Squares(f[s]) : b[c] = s})
        <4>1. {c \in Squares(f[s]) : b[c] = s} \in SUBSET Squares(f[s])
          OBVIOUS
        <4> QED
          BY <1>2, <4>1, SomeSquares
      <3> QED
        BY <3>1, FS_CardinalityType
    <2> HIDE DEF I
    <2>4. Cardinality(I(m, s)) = Cardinality(I(b, s)) - 1
      <3>1. Cardinality(I(b, s) \ {sq}) = Cardinality(I(b, s)) - 1
        BY <2>1, <2>3, FS_RemoveElement
      <3> QED
        BY <2>1, <3>1
    <2>5. Cardinality(I(b, s)) # 0
      BY <2>1, <2>3, FS_EmptySet
    <2> QED
      BY <1>4, <2>2, <2>3, <2>4, <2>5
  <1>15. ship_destroyed(n[s]) <=> n[s].health = 0
    BY <1>4, <1>14 DEF ship_destroyed
  <1>16. s \notin SunkOf(f)
    BY <1>14 DEF SunkOf
  <1>17. SunkOf(n) = IF ship_destroyed(n[s]) THEN SunkOf(f) \cup {s} ELSE SunkOf(f)
    BY <1>7, <1>15, <1>16 DEF SunkOf
  <1>18. ASSUME NEW t \in ShipNumbers
         PROVE  /\ Floating(n[t]) /\ n[t].length = ShipLength[t]
                /\ Squares(n[t]) = Squares(f[t])
                /\ \A c \in Squares(f[t]) : m[c] \in {t, Hit}
                /\ n[t].health = Cardinality(I(m, t))
    <2>1. CASE t = s
      <3>1. \A c \in Squares(f[s]) : b[c] \in {s, Hit}
        BY DEF Afloat
      <3>2. f[s].length = ShipLength[s]
        BY DEF Afloat
      <3> QED
        BY <1>4, <1>5, <1>8, <1>12, <1>14, <2>1, <3>1, <3>2
    <2>2. CASE t # s
      <3>1. n[t] = f[t]
        BY <1>7, <2>2
      <3>2. sq \notin Squares(f[t])
        BY <1>9, <2>2 DEF Afloat
      <3>3. \A c \in Squares(f[t]) : m[c] = b[c]
        BY <1>12, <3>2
      <3>4. I(m, t) = I(b, t)
        BY <3>3
      <3>5. f[t].health = Cardinality(I(b, t))
        BY DEF Afloat
      <3> QED
        BY <3>1, <3>3, <3>4, <3>5 DEF Afloat
    <2> QED
      BY <2>1, <2>2
  <1>19. ASSUME NEW c \in Cells, \A t \in ShipNumbers : c \notin Squares(n[t])
         PROVE  m[c] \in {Empty, Miss}
    <2>0. \A t \in ShipNumbers : c \notin Squares(f[t])
      BY <1>18, <1>19
    <2>1. b[c] \in {Empty, Miss} /\ c # sq
      BY <1>9, <2>0 DEF Afloat
    <2> QED
      BY <1>13, <2>1
  <1>20. ASSUME NEW t \in ShipNumbers, NEW r \in ShipNumbers, t # r,
                NEW a \in Squares(n[t]), NEW c \in Squares(n[r])
         PROVE  a # c /\ ~Adjacent(a, c)
    BY <1>18, <1>20 DEF Afloat
  <1>21. ASSUME NEW t \in SunkOf(n), NEW c \in Cells,
                c \notin Squares(n[t]), \E a \in Squares(n[t]) : Adjacent(a, c)
         PROVE  m[c] = Miss
    <2>1. t \in ShipNumbers /\ Squares(n[t]) = Squares(f[t])
      BY <1>18 DEF SunkOf
    <2>2. CASE t = s
      <3>1. ship_destroyed(n[s])
        BY <1>15, <2>2 DEF SunkOf
      <3>2. c \in Surroundings(f[s])
        BY <1>2, <1>6, <1>21, <2>1, <2>2, SurroundingsAre
      <3> QED
        BY <1>11, <3>1, <3>2
    <2>3. CASE t # s
      <3>1. t \in SunkOf(f)
        BY <1>17, <2>3
      <3>2. b[c] = Miss
        BY <1>21, <2>1, <3>1 DEF Afloat
      <3>3. c # sq
        BY <3>2, Characters DEF isdigit, Miss
      <3> QED
        BY <1>13, <3>2, <3>3
    <2> QED
      BY <2>2, <2>3
  <1>22. ASSUME NEW t \in ShipNumbers
         PROVE  /\ Floating(n[t]) /\ n[t].length = ShipLength[t]
                /\ \A c \in Squares(n[t]) : m[c] \in {t, Hit}
                /\ n[t].health = Cardinality({c \in Squares(n[t]) : m[c] = t})
    BY <1>18
  <1>23. m \in Boards /\ n \in FleetRecords
    BY <1>7, <1>11
  <1>24. Afloat(m, n)
    <2>1. \A t \in ShipNumbers :
            /\ Floating(n[t]) /\ n[t].length = ShipLength[t]
            /\ \A c \in Squares(n[t]) : m[c] \in {t, Hit}
            /\ n[t].health = Cardinality({c \in Squares(n[t]) : m[c] = t})
      BY <1>22
    <2>2. \A c \in Cells : (\A t \in ShipNumbers : c \notin Squares(n[t])) =>
            m[c] \in {Empty, Miss}
      BY <1>19
    <2>3. \A t, r \in ShipNumbers : t # r =>
            \A a \in Squares(n[t]), c \in Squares(n[r]) : a # c /\ ~Adjacent(a, c)
      BY <1>20
    <2>4. \A t \in SunkOf(n), c \in Cells :
            c \notin Squares(n[t]) /\ (\E a \in Squares(n[t]) : Adjacent(a, c))
              => m[c] = Miss
      BY <1>21
    <2> QED
      BY Zenon, <1>23, <2>1, <2>2, <2>3, <2>4 DEF Afloat
  <1>25. \A t \in ShipNumbers : Squares(n[t]) = Squares(f[t])
    BY <1>18
  <1>26. ASSUME NEW c \in Cells
         PROVE  m[c] \in {Hit, Miss} <=>
                  \/ c = sq \/ b[c] \in {Hit, Miss}
                  \/ /\ ship_destroyed(n[s]) /\ c \notin Squares(f[s])
                     /\ \E a \in Squares(f[s]) : Adjacent(a, c)
    <2>1. c \in Surroundings(f[s]) <=>
            c \notin Squares(f[s]) /\ \E a \in Squares(f[s]) : Adjacent(a, c)
      BY <1>2, <1>6, SurroundingsAre
    <2>2. hit[c] \in {Hit, Miss} <=> c = sq \/ b[c] \in {Hit, Miss}
      BY <1>1
    <2> QED
      BY <1>11, <2>1, <2>2
  <1> QED
    BY <1>16, <1>17, <1>24, <1>25, <1>26 DEF n, m

LEMMA HitSinks ==
  ASSUME NEW b, NEW f, Afloat(b, f), NEW sq \in Cells, NEW s \in ShipNumbers, b[sq] = s
  PROVE  LET n == ShotFleet(f, s) IN
         /\ ship_destroyed(n[s]) => SunkOf(n) = SunkOf(f) \cup {s}
         /\ ~ship_destroyed(n[s]) => SunkOf(n) = SunkOf(f)
  BY HitAfloat

-----------------------------------------------------------------------------
(* The characters of a layout and their squares *)

\* An earlier character stands for a square that is read earlier.
LEMMA IndexOrder ==
  ASSUME NEW i \in Nat, NEW j \in Nat
  PROVE  Before(SquareAt(j), SquareAt(i)) <=> j < i
  <1>1. N \in Nat \ {0} /\ Coords = 0 .. (N - 1)
    BY BoardAssumption DEF Coords, N
  <1>2. PICK x \in Coords, y \in Nat : SquareAt(i) = <<x, y>> /\ i = N * y + x
    BY SquareIs
  <1>3. PICK a \in Coords, b \in Nat : SquareAt(j) = <<a, b>> /\ j = N * b + a
    BY SquareIs
  <1>4. Before(SquareAt(j), SquareAt(i)) <=> b < y \/ (b = y /\ a < x)
    BY <1>2, <1>3 DEF Before
  <1>5. ASSUME NEW p \in Nat, NEW q \in Nat, NEW u \in Coords, NEW v \in Coords, p < q
        PROVE  N * p + u < N * q + v
    <2>1. N * (p + 1) <= N * q
      BY <1>1, <1>5
    <2>2. N * (p + 1) = N * p + N
      BY <1>1
    <2> PICK s, t : s = N * p /\ t = N * q
      OBVIOUS
    <2>3. s \in Int /\ t \in Int /\ s + N <= t
      BY <1>1, <2>1, <2>2
    <2> QED
      BY <1>1, <2>3
  <1>6. CASE b < y
    BY <1>2, <1>3, <1>4, <1>5, <1>6
  <1>7. CASE y < b
    <2>1. i < j
      BY <1>2, <1>3, <1>5, <1>7
    <2> QED
      BY <1>4, <1>7, <2>1
  <1>8. CASE y = b
    <2> PICK s : s = N * y
      OBVIOUS
    <2>1. s \in Int /\ i = s + x /\ j = s + a
      BY <1>1, <1>2, <1>3, <1>8
    <2> QED
      BY <1>1, <1>4, <1>8, <2>1
  <1> QED
    BY <1>6, <1>7, <1>8

\* The squares before a character are those of the earlier characters.
LEMMA ReadSquares ==
  ASSUME NEW k \in 0 .. N * N
  PROVE  /\ \A j \in 0 .. (k - 1) : SquareAt(j) \in Cells /\ Before(SquareAt(j), SquareAt(k))
         /\ \A c \in Cells : Before(c, SquareAt(k)) => \E j \in 0 .. (k - 1) : c = SquareAt(j)
         /\ \A i, j \in 0 .. (k - 1) : SquareAt(i) = SquareAt(j) => i = j
  <1>1. N \in Nat \ {0} /\ Coords = 0 .. (N - 1) /\ N * N \in Nat
    BY BoardAssumption DEF Coords, N
  <1>2. ASSUME NEW j \in 0 .. (k - 1)
        PROVE  SquareAt(j) \in Cells /\ Before(SquareAt(j), SquareAt(k))
    <2>1. j \in Nat /\ j < k /\ k \in Nat /\ j < N * N
      BY <1>1
    <2> QED
      BY <2>1, IndexOrder, SquareOrder
  <1>3. ASSUME NEW c \in Cells, Before(c, SquareAt(k))
        PROVE  \E j \in 0 .. (k - 1) : c = SquareAt(j)
    <2>1. PICK x \in Coords, y \in Coords : c = <<x, y>>
      BY DEF Cells
    <2>2. y \in Nat
      BY <1>1
    <2> PICK j : j = N * y + x
      OBVIOUS
    <2>3. j \in Nat /\ SquareAt(j) = c
      BY <2>1, <2>2, SquareOfIndex
    <2>4. j < k
      BY <1>1, <1>3, <2>3, IndexOrder
    <2> QED
      BY <1>1, <2>3, <2>4
  <1>4. ASSUME NEW i \in 0 .. (k - 1), NEW j \in 0 .. (k - 1), SquareAt(i) = SquareAt(j)
        PROVE  i = j
    <2>1. i = N * SquareAt(i)[2] + SquareAt(i)[1] /\ j = N * SquareAt(j)[2] + SquareAt(j)[1]
      BY SquareIs
    <2> QED
      BY <1>4, <2>1
  <1> QED
    BY <1>2, <1>3, <1>4

\* The first k characters of a layout, as the rules see them.
ReadCells(lay, k, s) == {SquareAt(i) : i \in {j \in 0 .. (k - 1) : lay[j + 1] = s}}

ReadLawfully(lay, k) ==
  /\ \A i \in 1 .. k : lay[i] \in ShipNumbers \cup {Empty}
  /\ \A s \in ShipNumbers : IsLine(ReadCells(lay, k, s))
  /\ \A s, t \in ShipNumbers : s # t =>
       \A a \in ReadCells(lay, k, s), b \in ReadCells(lay, k, t) : ~Adjacent(a, b)

LEMMA LawfulIs ==
  ASSUME NEW lay
  PROVE  /\ Lawful(lay) <=> ReadLawfully(lay, Len(lay))
         /\ \A s \in ShipNumbers : ShipCells(lay, s) = ReadCells(lay, Len(lay), s)
  BY DEF Lawful, ReadLawfully, ShipCells, ReadCells

\* The board shows the first k characters.
Shows(board, lay, k) == \A j \in 0 .. (k - 1) : board[SquareAt(j)] = lay[j + 1]

LEMMA CellsShown ==
  ASSUME NEW board, NEW lay, NEW k \in 0 .. N * N, Shows(board, lay, k), NEW s
  PROVE  ReadCells(lay, k, s) = {c \in Cells : Before(c, SquareAt(k)) /\ board[c] = s}
  BY ReadSquares DEF Shows, ReadCells

-----------------------------------------------------------------------------
(* Lines *)

\* The square k steps from c, down or to the right.
StepFrom(c, down, k) == IF down THEN <<c[1], c[2] + k>> ELSE <<c[1] + k, c[2]>>

LEMMA BoardFinite ==
  /\ IsFiniteSet(Cells)
  /\ \A T \in SUBSET Cells : IsFiniteSet(T) /\ Cardinality(T) \in Nat
  <1>1. N \in Nat \ {0} /\ Coords = 0 .. (N - 1)
    BY BoardAssumption DEF Coords, N
  <1>2. IsFiniteSet(Coords)
    BY <1>1, FS_Interval
  <1>3. IsFiniteSet(Cells)
    BY <1>2, FS_Product DEF Cells
  <1> QED
    BY <1>3, FS_Subset, FS_CardinalityType

LEMMA LineIs ==
  ASSUME NEW T \in SUBSET Cells, IsLine(T), T # {}
  PROVE  \E c \in T, down \in BOOLEAN, n \in Nat :
           T = {StepFrom(c, down, k) : k \in 0 .. n}
  <1>1. Cardinality(T) \in Nat /\ Cardinality(T) # 0
    <2>1. IsFiniteSet(T) /\ Cardinality(T) \in Nat
      BY BoardFinite
    <2> QED
      BY <2>1, FS_EmptySet
  <1> PICK n \in Nat : n = Cardinality(T) - 1
    BY <1>1
  <1>2. PICK c \in T : \/ T = {<<c[1] + k, c[2]>> : k \in 0 .. n}
                       \/ T = {<<c[1], c[2] + k>> : k \in 0 .. n}
    BY DEF IsLine
  <1>3. CASE T = {<<c[1] + k, c[2]>> : k \in 0 .. n}
    <2>1. T = {StepFrom(c, FALSE, k) : k \in 0 .. n}
      BY <1>3 DEF StepFrom
    <2> QED
      BY <2>1
  <1>4. CASE T = {<<c[1], c[2] + k>> : k \in 0 .. n}
    <2>1. T = {StepFrom(c, TRUE, k) : k \in 0 .. n}
      BY <1>4 DEF StepFrom
    <2> QED
      BY <2>1
  <1> QED
    BY <1>2, <1>3, <1>4

\* The squares of a ship are a line.
LEMMA ShipIsLine ==
  ASSUME NEW ship, Floating(ship)
  PROVE  IsLine(Squares(ship))
  <1>1. Cardinality(Squares(ship)) = ship.length /\ ship.length \in Nat
    BY SquaresCount DEF Floating, ShipRecord
  <1>2. CASE ship.length = 0
    BY <1>2, EmptyShip DEF Floating, IsLine
  <1>3. CASE ship.length # 0
    <2> PICK c : c = <<ship.startX, ship.startY>>
      OBVIOUS
    <2>1. c[1] = ship.startX /\ c[2] = ship.startY
      OBVIOUS
    <2>2. ship.startX \in Int /\ ship.startY \in Int
      BY BoardAssumption DEF Floating, ShipRecord, Coords
    <2>3. SquareOf(ship, 0) = c /\ 0 \in 0 .. (ship.length - 1)
      BY <1>1, <1>3, <2>2 DEF SquareOf
    <2>4. c \in Squares(ship)
      BY <2>3 DEF Squares
    <2>5. CASE ship.vertical
      <3>1. Squares(ship) = {<<c[1], c[2] + k>> : k \in 0 .. (ship.length - 1)}
        BY <2>1, <2>5 DEF Squares, SquareOf
      <3> QED
        BY <1>1, <2>4, <3>1 DEF IsLine
    <2>6. CASE ~ship.vertical
      <3>1. Squares(ship) = {<<c[1] + k, c[2]>> : k \in 0 .. (ship.length - 1)}
        BY <2>1, <2>6 DEF Squares, SquareOf
      <3> QED
        BY <1>1, <2>4, <3>1 DEF IsLine
    <2> QED
      BY <2>5, <2>6
  <1> QED
    BY <1>2, <1>3

LEMMA AlrightIs ==
  ASSUME NEW ship, NEW x, NEW y
  PROVE  LET first == ship.startX = -1 \/ ship.startY = -1
             sx    == IF first THEN x ELSE ship.startX
             sy    == IF first THEN y ELSE ship.startY
             vert  == IF ship.length = 1 THEN sx = x ELSE ship.vertical
         IN ship_place(ship, x, y).alright <=>
              IF vert THEN sx = x /\ sy + ship.length = y
                      ELSE sy = y /\ sx + ship.length = x
  BY DEF ship_place

\* A square that is the next one of a line, of which the ship has what comes before
\* it, continues the ship.
LEMMA LineContinues ==
  ASSUME NEW ship, Floating(ship), NEW x \in Coords, NEW y \in Coords,
         NEW T \in SUBSET Cells, IsLine(T), <<x, y>> \in T, Squares(ship) \subseteq T,
         \A c \in T : Before(c, <<x, y>>) <=> c \in Squares(ship)
  PROVE  ship_place(ship, x, y).alright
  <1>1. N \in Nat \ {0} /\ Coords = 0 .. (N - 1) /\ -1 \notin Coords
    BY BoardAssumption DEF Coords, N
  <1>2. PICK c \in T, v \in BOOLEAN, n \in Nat : T = {StepFrom(c, v, k) : k \in 0 .. n}
    BY LineIs
  <1>3. PICK a \in Coords, b \in Coords : c = <<a, b>>
    BY DEF Cells
  <1>4. PICK m \in 0 .. n : <<x, y>> = StepFrom(c, v, m)
    BY <1>2
  <1> DEFINE At(k) == IF v THEN <<a, b + k>> ELSE <<a + k, b>>
  <1>5. T = {At(k) : k \in 0 .. n} /\ <<x, y>> = At(m) /\ c = At(0)
    BY <1>1, <1>2, <1>3, <1>4 DEF StepFrom
  <1>6. ASSUME NEW k \in 0 .. n
        PROVE  At(k) \in Squares(ship) <=> k < m
    <2>1. Before(At(k), At(m)) <=> k < m
      BY <1>1 DEF Before
    <2> QED
      BY <1>5, <2>1
  <1>7. /\ ship.length \in Nat /\ ship.vertical \in BOOLEAN
        /\ ship.startX \in Int /\ ship.startY \in Int
        /\ ship.length # 0 => ship.startX \in Coords /\ ship.startY \in Coords
    BY <1>1 DEF Floating, ShipRecord
  <1> PICK l, sx, sy : l = ship.length /\ sx = ship.startX /\ sy = ship.startY
    OBVIOUS
  <1>8. CASE l = 0
    <2>1. ship = ship_init
      BY <1>8 DEF Floating
    <2>2. ship.startX = -1 /\ ship.length = 0 /\ ship.vertical = FALSE
      BY <2>1 DEF ship_init
    <2>3. x + 0 = x
      BY <1>1
    <2> QED
      BY <2>2, <2>3, AlrightIs
  <1>9. CASE l # 0
    <2> DEFINE Sq(k) == IF ship.vertical THEN <<sx, sy + k>> ELSE <<sx + k, sy>>
    <2>1. Squares(ship) = {Sq(k) : k \in 0 .. (l - 1)}
      BY DEF Squares, SquareOf
    <2>2. 0 \in 0 .. (l - 1) /\ l - 1 \in 0 .. (l - 1)
      BY <1>7, <1>9
    <2>3. \A k \in 0 .. (l - 1) : \E j \in 0 .. n : Sq(k) = At(j) /\ j < m
      <3> TAKE k \in 0 .. (l - 1)
      <3>1. Sq(k) \in Squares(ship)
        BY <2>1
      <3>2. PICK j \in 0 .. n : Sq(k) = At(j)
        BY <1>5, <3>1
      <3> QED
        BY <1>6, <3>1, <3>2
    <2>4. m # 0 /\ 0 \in 0 .. n
      <3>1. \E j \in 0 .. n : j < m
        BY <2>2, <2>3
      <3> QED
        BY <3>1
    <2>5. PICK i \in 0 .. (l - 1) : At(0) = Sq(i)
      <3>1. At(0) \in Squares(ship)
        BY <1>6, <2>4
      <3> QED
        BY <2>1, <3>1
    <2>6. PICK j \in 0 .. n : Sq(0) = At(j) /\ j < m
      BY <2>2, <2>3
    <2>7. /\ sx \in Int /\ sy \in Int /\ a \in Int /\ b \in Int /\ x \in Int /\ y \in Int
          /\ l \in Nat /\ i \in Nat /\ j \in Nat /\ m \in Nat
          /\ sx \in Coords /\ sy \in Coords
      BY <1>1, <1>7, <1>9
    <2>8. CASE l = 1
      <3>1. i = 0 /\ sx = a /\ sy = b
        BY <2>5, <2>7, <2>8
      <3>2. m = 1
        <4> SUFFICES ASSUME 1 < m PROVE FALSE
          BY <2>4, <2>7
        <4>1. At(1) \in Squares(ship)
          BY <1>6
        <4>2. PICK k \in 0 .. (l - 1) : At(1) = Sq(k)
          BY <2>1, <4>1
        <4>3. k = 0
          BY <2>8, <4>2
        <4> QED
          BY <2>7, <3>1, <4>2, <4>3
      <3>3. <<x, y>> = IF v THEN <<a, b + 1>> ELSE <<a + 1, b>>
        BY <1>5, <3>2
      <3>4. IF v THEN x = a /\ y = b + 1 ELSE x = a + 1 /\ y = b
        BY <3>3
      <3>5. /\ ship.startX = a /\ ship.startY = b /\ ship.length = 1
            /\ a # -1 /\ b # -1
        BY <1>1, <2>7, <2>8, <3>1
      <3>6. (sx = x) <=> v
        BY <2>7, <3>4, <3>5
      <3> QED
        BY <2>7, <3>4, <3>5, <3>6, AlrightIs
    <2>9. CASE l # 1
      <3>1. 1 \in 0 .. (l - 1)
        BY <1>9, <2>7, <2>9
      <3>2. PICK h \in 0 .. n : Sq(1) = At(h) /\ h < m
        BY <2>3, <3>1
      <3>3. v = ship.vertical
        <4> SUFFICES ASSUME v # ship.vertical PROVE FALSE
          OBVIOUS
        <4>1. CASE v
          <5>1. <<sx + 0, sy>> = <<a, b + j>> /\ <<sx + 1, sy>> = <<a, b + h>>
            BY <1>7, <2>6, <3>2, <4>1
          <5> QED
            BY <2>7, <5>1
        <4>2. CASE ~v
          <5>1. <<sx, sy + 0>> = <<a + j, b>> /\ <<sx, sy + 1>> = <<a + h, b>>
            BY <1>7, <2>6, <3>2, <4>2
          <5> QED
            BY <2>7, <5>1
        <4> QED
          BY <4>1, <4>2
      <3>4. sx = a /\ sy = b
        BY <2>5, <2>6, <2>7, <3>3
      <3>5. ~(l < m)
        <4> SUFFICES ASSUME l < m PROVE FALSE
          OBVIOUS
        <4>1. At(l) \in Squares(ship)
          BY <1>6, <2>7
        <4>2. PICK k \in 0 .. (l - 1) : At(l) = Sq(k)
          BY <2>1, <4>1
        <4> QED
          BY <2>7, <3>3, <3>4, <4>2
      <3>6. l - 1 < m
        <4>1. PICK k \in 0 .. n : Sq(l - 1) = At(k) /\ k < m
          BY <2>2, <2>3
        <4>2. k = l - 1
          BY <2>7, <3>3, <3>4, <4>1
        <4> QED
          BY <4>1, <4>2
      <3>7. m = l
        BY <2>7, <3>5, <3>6
      <3>8. IF v THEN x = a /\ y = b + l ELSE x = a + l /\ y = b
        BY <1>5, <3>7
      <3> QED
        BY <1>1, <2>7, <2>9, <3>3, <3>4, <3>8 DEF ship_place
    <2> QED
      BY <2>8, <2>9
  <1> QED
    BY <1>8, <1>9

\* The neighbours that the code looks at have been read.
LEMMA NeighboursRead ==
  ASSUME NEW sq \in Cells, NEW nb \in ReadNeighbours(sq[1], sq[2])
  PROVE  nb \in Cells /\ Before(nb, sq) /\ Adjacent(nb, sq)
  <1>1. N \in Nat \ {0} /\ Coords = 0 .. (N - 1)
    BY BoardAssumption DEF Coords, N
  <1>2. PICK x \in Coords, y \in Coords : sq = <<x, y>>
    BY DEF Cells
  <1>3. nb \in Cells /\ \/ nb = <<x, y - 1>>
                        \/ nb = <<x - 1, y>>
                        \/ nb = <<x - 1, y - 1>>
                        \/ nb = <<x + 1, y - 1>>
    BY <1>2 DEF ReadNeighbours
  <1> PICK a \in Coords, b \in Coords : nb = <<a, b>>
    BY <1>3 DEF Cells
  <1>4. /\ a \in Int /\ b \in Int /\ nb = <<a, b>>
        /\ \/ b = y - 1 /\ a \in {x - 1, x, x + 1}
           \/ b = y /\ a = x - 1
    BY <1>1, <1>3
  <1>5. Before(nb, sq)
    <2>1. b < y \/ (b = y /\ a < x)
      BY <1>1, <1>4
    <2> QED
      BY <1>2, <1>4, <2>1 DEF Before
  <1>6. Adjacent(nb, sq)
    <2>1. a - x \in -1 .. 1 /\ b - y \in -1 .. 1 /\ (a # x \/ b # y)
      BY <1>1, <1>4
    <2> QED
      BY <1>2, <1>4, <2>1 DEF Adjacent
  <1> QED
    BY <1>3, <1>5, <1>6

-----------------------------------------------------------------------------
(* The check made square by square and the rules *)

\* While no error is found, each ship has the squares that the layout gives it,
\* and what has been read is lawful.
LEMMA ReadingLawful ==
  ASSUME NEW p, Reading(p), NEW k \in 0 .. N * N, p.i = k,
         NEW lay, Shows(p.board, lay, k)
  PROVE  /\ ReadLawfully(lay, k)
         /\ \A s \in ShipNumbers : ReadCells(lay, k, s) = Squares(p.ships[s])
  <1>1. N * N \in Nat /\ k \in Nat
    BY BoardAssumption DEF N
  <1>2. p.board \in Sketches
    BY DEF Reading
  <1>3. ASSUME NEW s \in ShipNumbers
        PROVE  ReadCells(lay, k, s) = Squares(p.ships[s]) /\ Floating(p.ships[s])
    <2>1. /\ Floating(p.ships[s])
          /\ \A c \in Cells : c \in Squares(p.ships[s]) <=>
                                Before(c, SquareAt(k)) /\ p.board[c] = s
      BY DEF Reading
    <2>2. Squares(p.ships[s]) \subseteq Cells
      BY <2>1 DEF Floating
    <2>3. ReadCells(lay, k, s) = {c \in Cells : Before(c, SquareAt(k)) /\ p.board[c] = s}
      BY CellsShown
    <2> QED
      BY <2>1, <2>2, <2>3
  <1>4. ASSUME NEW i \in 1 .. k
        PROVE  lay[i] \in ShipNumbers \cup {Empty}
    <2>1. i - 1 \in 0 .. (k - 1) /\ (i - 1) + 1 = i
      BY <1>1
    <2>2. SquareAt(i - 1) \in Cells /\ p.board[SquareAt(i - 1)] = lay[i]
      BY <2>1, ReadSquares DEF Shows
    <2> QED
      BY <1>2, <2>2 DEF Sketches
  <1>5. \A s \in ShipNumbers : IsLine(ReadCells(lay, k, s))
    BY <1>3, ShipIsLine
  <1>6. ASSUME NEW s \in ShipNumbers, NEW t \in ShipNumbers, s # t,
               NEW a \in ReadCells(lay, k, s), NEW b \in ReadCells(lay, k, t)
        PROVE  ~Adjacent(a, b)
    <2>1. /\ a \in Cells /\ Before(a, SquareAt(k)) /\ p.board[a] = s
          /\ b \in Cells /\ Before(b, SquareAt(k)) /\ p.board[b] = t
      BY CellsShown
    <2>2. isdigit(p.board[a]) /\ isdigit(p.board[b]) /\ p.board[a] # p.board[b]
      BY <1>6, <2>1, Characters
    <2> QED
      BY <2>1, <2>2 DEF Reading
  <1> QED
    BY <1>3, <1>4, <1>5, <1>6 DEF ReadLawfully

\* The board of the next round.
LEMMA RoundShows ==
  ASSUME NEW p, Reading(p), p.i < N * N, NEW lay, Shows(p.board, lay, p.i),
         NEW c, c = lay[p.i + 1], SquareError(p, c) = OK
  PROVE  Shows(PlaceSquare(p, c).board, lay, p.i + 1)
  <1>1. /\ p \in [i : Nat, board : Sketches, ships : FleetRecords, error : {OK}]
        /\ p.i \in Nat /\ p.board \in Sketches /\ N * N \in Nat /\ p.error = OK
    BY BoardAssumption DEF Reading, N
  <1>2. SquareAt(p.i) \in Cells
    BY <1>1, SquareOrder
  <1>3. PlaceSquare(p, c).board = [p.board EXCEPT ![SquareAt(p.i)] = c]
    <2>1. PlaceSquare(p, c) =
            [p EXCEPT !.i = @ + 1, !.board[SquareAt(p.i)] = c,
                      !.ships = IF isdigit(c)
                                THEN [p.ships EXCEPT
                                        ![c] = ship_place(@, SquareAt(p.i)[1],
                                                          SquareAt(p.i)[2]).ship]
                                ELSE @]
      BY Zenon, <1>1 DEF PlaceSquare
    <2> QED
      BY <1>1, <2>1
  <1> PICK b : b = PlaceSquare(p, c).board
    OBVIOUS
  <1>4. b[SquareAt(p.i)] = c /\ \A d \in Cells : d # SquareAt(p.i) => b[d] = p.board[d]
    BY <1>1, <1>2, <1>3 DEF Sketches
  <1>5. p.i + 1 \in 0 .. N * N
    BY <1>1
  <1>6. ASSUME NEW j \in 0 .. p.i
        PROVE  b[SquareAt(j)] = lay[j + 1]
    <2>1. j \in 0 .. ((p.i + 1) - 1) /\ p.i \in 0 .. ((p.i + 1) - 1)
      BY <1>1
    <2>2. SquareAt(j) \in Cells /\ (SquareAt(j) = SquareAt(p.i) => j = p.i)
      BY <1>5, <2>1, ReadSquares
    <2>3. CASE j = p.i
      BY <1>4, <2>3
    <2>4. CASE j # p.i
      <3>1. j \in 0 .. (p.i - 1)
        BY <1>1, <2>4
      <3> QED
        BY <1>4, <2>2, <2>4, <3>1 DEF Shows
    <2> QED
      BY <2>3, <2>4
  <1>7. (p.i + 1) - 1 = p.i
    BY <1>1
  <1> QED
    BY <1>6, <1>7 DEF Shows

\* The next character of a lawful layout is accepted, whatever follows it.
LEMMA LawfulAccepted ==
  ASSUME NEW p, Reading(p), NEW n \in 0 .. N * N, p.i < n,
         NEW lay, Shows(p.board, lay, p.i), ReadLawfully(lay, n),
         NEW c, c = lay[p.i + 1]
  PROVE  SquareError(p, c) = OK
  <1>1. /\ p.i \in Nat /\ p.board \in Sketches /\ N * N \in Nat
        /\ p.i < N * N /\ p.i \in 0 .. N * N /\ p.i \in 0 .. (n - 1) /\ p.i + 1 \in 1 .. n
    BY BoardAssumption DEF Reading, N
  <1> PICK sq : sq = SquareAt(p.i)
    OBVIOUS
  <1>2. sq \in Cells /\ sq = <<sq[1], sq[2]>> /\ sq[1] \in Coords /\ sq[2] \in Coords
    BY <1>1, SquareOrder, CellParts
  <1>3. c \in ShipNumbers \cup {Empty}
    BY <1>1 DEF ReadLawfully
  <1>4. CharError(c) = OK
    BY <1>3, Characters DEF CharError
  \* The squares read so far, among those of the whole layout.
  <1>5. ASSUME NEW s \in ShipNumbers, NEW d \in Cells, Before(d, sq)
        PROVE  d \in ReadCells(lay, n, s) <=> p.board[d] = s
    <2>1. PICK j \in 0 .. (p.i - 1) : d = SquareAt(j)
      BY <1>1, <1>5, ReadSquares
    <2>2. p.board[d] = lay[j + 1] /\ j \in 0 .. (n - 1)
      BY <1>1, <2>1 DEF Shows
    <2>3. \A i \in 0 .. (n - 1) : SquareAt(i) = d => i = j
      BY <2>1, <2>2, ReadSquares
    <2> QED
      BY <2>1, <2>2, <2>3 DEF ReadCells
  <1>6. CASE ~isdigit(c)
    BY <1>4, <1>6 DEF SquareError
  <1>7. CASE isdigit(c)
    <2>1. c \in ShipNumbers
      BY <1>3, <1>7, Characters
    <2>2. sq \in ReadCells(lay, n, c)
      BY <1>1 DEF ReadCells
    <2>3. ASSUME NEW nb \in ReadNeighbours(sq[1], sq[2]), isdigit(p.board[nb])
          PROVE  p.board[nb] = c
      <3>1. nb \in Cells /\ Before(nb, sq) /\ Adjacent(nb, sq)
        BY <1>2, NeighboursRead
      <3>2. p.board[nb] \in ShipNumbers
        BY <1>1, <2>3, <3>1, Characters DEF Sketches
      <3>3. nb \in ReadCells(lay, n, p.board[nb])
        BY <1>5, <3>1, <3>2
      <3> QED
        BY <2>1, <2>2, <3>1, <3>2, <3>3 DEF ReadLawfully
    <2>4. ship_place(p.ships[c], sq[1], sq[2]).alright
      <3> PICK ship : ship = p.ships[c]
        OBVIOUS
      <3> PICK T : T = ReadCells(lay, n, c)
        OBVIOUS
      <3>1. /\ Floating(ship)
            /\ \A d \in Cells : d \in Squares(ship) <=> Before(d, sq) /\ p.board[d] = c
        BY <2>1 DEF Reading
      <3>2. T \in SUBSET Cells
        BY ReadSquares DEF ReadCells
      <3>3. IsLine(T)
        BY <2>1 DEF ReadLawfully
      <3>4. Squares(ship) \subseteq T
        BY <1>5, <2>1, <3>1 DEF Floating
      <3>5. \A d \in T : Before(d, sq) <=> d \in Squares(ship)
        BY <1>5, <2>1, <3>1, <3>2
      <3>6. /\ <<sq[1], sq[2]>> \in T
            /\ \A d \in T : Before(d, <<sq[1], sq[2]>>) <=> d \in Squares(ship)
        BY <1>2, <2>2, <3>5
      <3>7. ship_place(ship, sq[1], sq[2]).alright
        BY <1>2, <3>1, <3>2, <3>3, <3>4, <3>6, LineContinues
      <3> QED
        BY <3>7
    <2> QED
      BY <1>4, <2>3, <2>4 DEF SquareError
  <1> QED
    BY <1>6, <1>7

\* The reading of a whole layout, whatever an earlier one left on the board.
LEMMA ReadsExactly ==
  ASSUME NEW board \in Sketches, NEW lay, Len(lay) \in 0 .. N * N,
         NEW p, p = ReadLayout(board, clean_client_ships, lay)
  PROVE  /\ p.error = OK <=> Lawful(lay)
         /\ p.error = OK =>
              Reading(p) /\ p.i = Len(lay) /\ Shows(p.board, lay, Len(lay))
  <1> PICK n \in 0 .. N * N : n = Len(lay)
    OBVIOUS
  <1>1. N * N \in Nat /\ n \in Nat /\ n <= N * N
    BY BoardAssumption DEF N
  <1>2. PICK f : /\ f[0] = Start(board, clean_client_ships)
                 /\ \A k \in 1 .. n : f[k] = PlaceSquare(f[k - 1], lay[k])
                 /\ p = f[n]
    BY <1>1, ReadRounds
  <1> DEFINE Goes(k)  == Reading(f[k]) /\ f[k].i = k /\ Shows(f[k].board, lay, k)
             Stops(k) == Refused(f[k]) /\ ~ReadLawfully(lay, n)
             T == {k \in 0 .. n : ~Goes(k) /\ ~Stops(k)}
  <1>3. T = {}
    <2> SUFFICES ASSUME T # {} PROVE FALSE
      OBVIOUS
    <2>1. T \in SUBSET Nat
      BY <1>1
    <2>2. PICK k \in T : \A j \in T : ~(j < k)
      BY <2>1, NatMin
    <2>3. CASE k = 0
      <3>1. Reading(f[0]) /\ f[0].i = 0
        BY <1>2, StartReads DEF Start
      <3>2. Shows(f[0].board, lay, 0)
        BY DEF Shows
      <3> QED
        BY <2>2, <2>3, <3>1, <3>2
    <2>4. CASE k # 0
      <3>1. k - 1 \in 0 .. n /\ k - 1 < k /\ k \in 1 .. n /\ k - 1 < n /\ (k - 1) + 1 = k
        BY <1>1, <2>2, <2>4
      <3>2. (Goes(k - 1) \/ Stops(k - 1)) /\ f[k] = PlaceSquare(f[k - 1], lay[k])
        BY <1>2, <2>2, <3>1
      <3>3. CASE Stops(k - 1)
        <4>1. f[k] = f[k - 1]
          BY <3>2, <3>3, Characters DEF Refused, PlaceSquare
        <4> QED
          BY <2>2, <3>3, <4>1
      <3>4. CASE Goes(k - 1)
        <4> PICK q, c : q = f[k - 1] /\ c = lay[k]
          OBVIOUS
        <4>1. /\ Reading(q) /\ q.i = k - 1 /\ Shows(q.board, lay, q.i)
              /\ q.i < N * N /\ q.i < n /\ c = lay[q.i + 1] /\ f[k] = PlaceSquare(q, c)
          BY <1>1, <3>1, <3>2, <3>4
        <4>2. CASE SquareError(q, c) = OK
          <5>1. Reading(f[k]) /\ f[k].i = k
            BY <3>1, <4>1, <4>2, RoundAccepts
          <5>2. Shows(f[k].board, lay, k)
            BY <3>1, <4>1, <4>2, RoundShows
          <5> QED
            BY <2>2, <5>1, <5>2
        <4>3. CASE SquareError(q, c) # OK
          <5>1. Refused(f[k])
            BY <4>1, <4>3, RoundRefuses
          <5>2. ~ReadLawfully(lay, n)
            BY <4>1, <4>3, LawfulAccepted
          <5> QED
            BY <2>2, <5>1, <5>2
        <4> QED
          BY <4>2, <4>3
      <3> QED
        BY <3>2, <3>3, <3>4
    <2> QED
      BY <2>3, <2>4
  <1>4. Goes(n) \/ Stops(n)
    BY <1>1, <1>3
  <1>5. CASE Goes(n)
    <2>1. p.error = OK
      BY <1>2, <1>5 DEF Reading
    <2>2. ReadLawfully(lay, n)
      BY <1>5, ReadingLawful
    <2> QED
      BY <1>2, <1>5, <2>1, <2>2, LawfulIs
  <1>6. CASE Stops(n)
    <2>1. p.error # OK
      BY <1>2, <1>6, Characters DEF Refused
    <2> QED
      BY <1>6, <2>1, LawfulIs
  <1> QED
    BY <1>4, <1>5, <1>6

\* An accepted layout: the squares of the ships, and what the board shows.
LEMMA AcceptedIs ==
  ASSUME NEW p, Reading(p), NEW lay, p.i = Len(lay), Len(lay) \in 0 .. N * N,
         Shows(p.board, lay, Len(lay)), NEW s \in ShipNumbers
  PROVE  /\ ShipCells(lay, s) = Squares(p.ships[s])
         /\ Cardinality(ShipCells(lay, s)) = p.ships[s].length
  <1>1. ShipCells(lay, s) = Squares(p.ships[s])
    BY LawfulIs, ReadingLawful
  <1>2. Floating(p.ships[s])
    BY DEF Reading
  <1> QED
    BY <1>1, <1>2, SquaresCount

\* The board shows the whole layout.
ShowsAll(board, lay) ==
  \A c \in Cells : \E j \in 0 .. (N * N - 1) : c = SquareAt(j) /\ board[c] = lay[j + 1]

\* cmd_game_prepared and the rules of the game, whatever is on the board.
LEMMA PrepareExactly ==
  ASSUME NEW player, NEW board \in Sketches, NEW lay, Len(lay) \in Nat,
         NEW r, r = Prepare(player, board, clean_client_ships, lay)
  PROVE  /\ r.error = OK <=> Complete(lay)
         /\ r.error = OK =>
              /\ Placed(r.board, r.ships) /\ ShowsAll(r.board, lay)
              /\ \A s \in ShipNumbers : ShipCells(lay, s) = Squares(r.ships[s])
  <1>1. GAME_BOARD_STRING_SIZE = N * N /\ N * N \in Nat
    BY BoardAssumption DEF GAME_BOARD_STRING_SIZE, N
  <1> PICK p : p = ReadLayout(board, clean_client_ships, lay)
    OBVIOUS
  <1>2. CASE Len(lay) # GAME_BOARD_STRING_SIZE
    BY <1>2 DEF Prepare, Complete, OK, ERROR_FORMAT
  <1>3. CASE Len(lay) = GAME_BOARD_STRING_SIZE
    <2>1. /\ p.error = OK <=> Lawful(lay)
          /\ p.error = OK =>
               Reading(p) /\ p.i = Len(lay) /\ Shows(p.board, lay, Len(lay))
      BY <1>1, <1>3, ReadsExactly
    <2>2. CASE p.error # OK
      BY <1>3, <2>1, <2>2 DEF Prepare, Complete
    <2>3. CASE p.error = OK
      <3>1. ASSUME NEW s \in ShipNumbers
            PROVE  /\ ShipCells(lay, s) = Squares(p.ships[s])
                   /\ Cardinality(ShipCells(lay, s)) = p.ships[s].length
        BY <1>1, <1>3, <2>1, <2>3, AcceptedIs
      <3>2. CASE \E s \in ShipNumbers : p.ships[s].length # ShipLength[s]
        <4>1. r.error # OK
          BY <1>3, <2>3, <3>2 DEF Prepare, LengthError, OK, ERROR_SHIP_PLACEMENT,
             ERROR_SHIPS_WRONG_LENGTH
        <4>2. ~Complete(lay)
          BY <3>1, <3>2 DEF Complete
        <4> QED
          BY <4>1, <4>2
      <3>3. CASE \A s \in ShipNumbers : p.ships[s].length = ShipLength[s]
        <4>1. r = [board |-> p.board, ships |-> p.ships, error |-> OK]
          BY <1>3, <2>3, <3>3 DEF Prepare
        <4>2. Complete(lay)
          BY <1>3, <2>1, <2>3, <3>1, <3>3 DEF Complete
        <4>3. Placed(r.board, r.ships)
          <5>1. OK \notin PrepareErrors
            BY Characters DEF PrepareErrors, OK, ERROR_SHIPS_WRONG_LENGTH
          <5>2. r.error = OK
            BY <4>1
          <5> QED
            BY <5>1, <5>2, PrepareDoes
        <4>4. ASSUME NEW c \in Cells
              PROVE  \E j \in 0 .. (N * N - 1) : c = SquareAt(j) /\ p.board[c] = lay[j + 1]
          <5>1. Before(c, SquareAt(N * N)) /\ N * N \in 0 .. N * N
            BY <1>1, BeforeEnds
          <5>2. PICK j \in 0 .. (N * N - 1) : c = SquareAt(j)
            BY <5>1, ReadSquares
          <5> QED
            BY <1>1, <1>3, <2>1, <2>3, <5>2 DEF Shows
        <4> QED
          BY <3>1, <4>1, <4>2, <4>3, <4>4 DEF ShowsAll
      <3> QED
        BY <3>2, <3>3
    <2> QED
      BY <2>2, <2>3
  <1> QED
    BY <1>2, <1>3

-----------------------------------------------------------------------------
(* What is left on a board does not matter *)

\* Two readings of the same characters that differ on squares not read yet.
Alike(p, q) ==
  /\ p.i = q.i /\ p.ships = q.ships /\ p.error = q.error
  /\ \A c \in Cells : Before(c, SquareAt(p.i)) => p.board[c] = q.board[c]

Progress(p) ==
  /\ p = [i |-> p.i, board |-> p.board, ships |-> p.ships, error |-> p.error]
  /\ p.i \in Nat /\ p.board \in [Cells -> {p.board[c] : c \in Cells}]

LEMMA RoundAlike ==
  ASSUME NEW p, NEW q, Progress(p), Progress(q), Alike(p, q), p.i < N * N, NEW c
  PROVE  /\ Progress(PlaceSquare(p, c)) /\ Progress(PlaceSquare(q, c))
         /\ Alike(PlaceSquare(p, c), PlaceSquare(q, c))
         /\ PlaceSquare(p, c).i <= p.i + 1
  <1>1. p.i \in Nat /\ N * N \in Nat /\ q.i = p.i /\ q.ships = p.ships /\ q.error = p.error
    BY BoardAssumption DEF Progress, Alike, N
  <1> PICK sq : sq = SquareAt(p.i)
    OBVIOUS
  <1>2. /\ sq \in Cells /\ ~Before(sq, sq)
        /\ \A d \in Cells : Before(d, SquareAt(p.i + 1)) <=> Before(d, sq) \/ d = sq
    BY <1>1, SquareOrder, BeforeNext
  <1>3. SquareError(q, c) = SquareError(p, c)
    <2>1. \A nb \in ReadNeighbours(sq[1], sq[2]) : p.board[nb] = q.board[nb]
      BY <1>2, NeighboursRead DEF Alike
    <2> QED
      BY <1>1, <2>1 DEF SquareError
  <1> PICK e : e = SquareError(p, c)
    OBVIOUS
  <1>4. CASE p.error # OK
    <2>1. PlaceSquare(p, c) = p /\ PlaceSquare(q, c) = q
      BY <1>1, <1>4 DEF PlaceSquare
    <2> QED
      BY <1>1, <2>1
  <1>5. CASE p.error = OK /\ e # OK
    <2>1. ASSUME NEW r \in {p, q}
          PROVE  PlaceSquare(r, c) = [i |-> r.i, board |-> r.board,
                                      ships |-> clean_client_ships, error |-> e]
      <3>1. PlaceSquare(r, c) = [r EXCEPT !.error = e, !.ships = clean_client_ships]
        BY <1>1, <1>3, <1>5 DEF PlaceSquare
      <3>2. r = [i |-> r.i, board |-> r.board, ships |-> r.ships, error |-> r.error]
        BY DEF Progress
      <3> PICK i, b, s, x : r = [i |-> i, board |-> b, ships |-> s, error |-> x]
        BY <3>2
      <3> QED
        BY <3>1
    <2> QED
      BY <1>1, <2>1 DEF Progress, Alike
  <1>6. CASE p.error = OK /\ e = OK
    <2> DEFINE fleet == IF isdigit(c)
                        THEN [p.ships EXCEPT ![c] = ship_place(@, sq[1], sq[2]).ship]
                        ELSE p.ships
    <2>1. ASSUME NEW r \in {p, q}
          PROVE  PlaceSquare(r, c) = [i |-> p.i + 1, board |-> [r.board EXCEPT ![sq] = c],
                                      ships |-> fleet, error |-> OK]
      <3>1. PlaceSquare(r, c) =
              [r EXCEPT !.i = @ + 1, !.board[sq] = c,
                        !.ships = IF isdigit(c)
                                  THEN [r.ships EXCEPT ![c] = ship_place(@, sq[1], sq[2]).ship]
                                  ELSE @]
        BY Zenon, <1>1, <1>3, <1>6 DEF PlaceSquare
      <3>2. r.ships = p.ships /\ r.i = p.i /\ r.error = OK
        BY <1>1, <1>6
      <3>3. PlaceSquare(r, c) = [r EXCEPT !.i = p.i + 1, !.board[sq] = c, !.ships = fleet]
        BY <3>1, <3>2
      <3> HIDE DEF fleet
      <3>4. r = [i |-> r.i, board |-> r.board, ships |-> r.ships, error |-> r.error]
        BY DEF Progress
      <3> PICK i, b, s, x : r = [i |-> i, board |-> b, ships |-> s, error |-> x]
        BY <3>4
      <3> QED
        BY <3>2, <3>3
    <2> HIDE DEF fleet
    <2>2. ASSUME NEW r \in {p, q}, NEW b, b = [r.board EXCEPT ![sq] = c]
          PROVE  /\ b \in [Cells -> {b[d] : d \in Cells}] /\ b[sq] = c
                 /\ \A d \in Cells : d # sq => b[d] = r.board[d]
      BY <1>2, <2>2 DEF Progress
    <2>3. ASSUME NEW r \in {p, q}
          PROVE  /\ Progress(PlaceSquare(r, c)) /\ PlaceSquare(r, c).i = p.i + 1
                 /\ PlaceSquare(r, c).ships = fleet /\ PlaceSquare(r, c).error = OK
                 /\ PlaceSquare(r, c).board[sq] = c
                 /\ \A d \in Cells : d # sq => PlaceSquare(r, c).board[d] = r.board[d]
      <3> PICK b : b = [r.board EXCEPT ![sq] = c]
        OBVIOUS
      <3>1. PlaceSquare(r, c) = [i |-> p.i + 1, board |-> b, ships |-> fleet, error |-> OK]
        BY <2>1
      <3>2. /\ b \in [Cells -> {b[d] : d \in Cells}] /\ b[sq] = c
            /\ \A d \in Cells : d # sq => b[d] = r.board[d]
        BY <2>2
      <3>3. p.i + 1 \in Nat
        BY <1>1
      <3> QED
        BY <3>1, <3>2, <3>3 DEF Progress
    <2>4. ASSUME NEW d \in Cells, Before(d, SquareAt(p.i + 1))
          PROVE  PlaceSquare(p, c).board[d] = PlaceSquare(q, c).board[d]
      BY <1>2, <2>3, <2>4 DEF Alike
    <2> QED
      BY <1>1, <2>3, <2>4 DEF Alike
  <1> QED
    BY <1>4, <1>5, <1>6

LEMMA ReadsAlike ==
  ASSUME NEW a \in Sketches, NEW b \in Sketches, NEW lay, Len(lay) \in 0 .. N * N,
         NEW p, p = ReadLayout(a, clean_client_ships, lay),
         NEW q, q = ReadLayout(b, clean_client_ships, lay)
  PROVE  p.ships = q.ships /\ p.error = q.error
  <1> PICK n \in 0 .. N * N : n = Len(lay)
    OBVIOUS
  <1>1. N * N \in Nat /\ n \in Nat /\ n <= N * N
    BY BoardAssumption DEF N
  <1>2. PICK f : /\ f[0] = Start(a, clean_client_ships)
                 /\ \A k \in 1 .. n : f[k] = PlaceSquare(f[k - 1], lay[k])
                 /\ p = f[n]
    BY <1>1, ReadRounds
  <1>3. PICK g : /\ g[0] = Start(b, clean_client_ships)
                 /\ \A k \in 1 .. n : g[k] = PlaceSquare(g[k - 1], lay[k])
                 /\ q = g[n]
    BY <1>1, ReadRounds
  <1> DEFINE Same(k) == /\ Progress(f[k]) /\ Progress(g[k]) /\ Alike(f[k], g[k])
                        /\ f[k].i <= k
             T == {k \in 0 .. n : ~Same(k)}
  <1>4. T = {}
    <2> SUFFICES ASSUME T # {} PROVE FALSE
      OBVIOUS
    <2>1. T \in SUBSET Nat
      BY <1>1
    <2>2. PICK k \in T : \A j \in T : ~(j < k)
      BY <2>1, NatMin
    <2>3. CASE k = 0
      <3>1. Progress(f[0]) /\ Progress(g[0]) /\ f[0].i = 0
        BY <1>2, <1>3 DEF Start, Progress, Sketches
      <3>2. Alike(f[0], g[0])
        BY <1>2, <1>3, BeforeEnds DEF Start, Alike
      <3> QED
        BY <2>2, <2>3, <3>1, <3>2
    <2>4. CASE k # 0
      <3>1. k - 1 \in 0 .. n /\ k - 1 < k /\ k \in 1 .. n
        BY <1>1, <2>2, <2>4
      <3>2. /\ Same(k - 1) /\ f[k] = PlaceSquare(f[k - 1], lay[k])
            /\ g[k] = PlaceSquare(g[k - 1], lay[k])
        BY <1>2, <1>3, <2>2, <3>1
      <3> PICK u, v, c : u = f[k - 1] /\ v = g[k - 1] /\ c = lay[k]
        OBVIOUS
      <3>3. Progress(u) /\ Progress(v) /\ Alike(u, v) /\ u.i <= k - 1 /\ u.i \in Nat
        BY <3>2 DEF Progress
      <3>4. u.i < N * N
        BY <1>1, <3>1, <3>3
      <3>5. /\ Progress(f[k]) /\ Progress(g[k]) /\ Alike(f[k], g[k]) /\ f[k].i <= u.i + 1
        BY <3>2, <3>3, <3>4, RoundAlike
      <3>6. f[k].i <= k
        BY <3>1, <3>3, <3>5 DEF Progress
      <3> QED
        BY <2>2, <3>5, <3>6
    <2> QED
      BY <2>3, <2>4
  <1>5. Same(n)
    BY <1>1, <1>4
  <1> QED
    BY <1>2, <1>3, <1>5 DEF Alike

\* The answer to a layout and the accepted board and fleet do not depend on what
\* refused layouts left behind.
LEMMA PrepareAlike ==
  ASSUME NEW player, NEW a \in Sketches, NEW b \in Sketches, NEW lay, Len(lay) \in Nat,
         NEW r, r = Prepare(player, a, clean_client_ships, lay),
         NEW t, t = Prepare(player, b, clean_client_ships, lay)
  PROVE  /\ r.error = t.error /\ r.ships = t.ships
         /\ r.error = OK => r.board = t.board
  <1>1. GAME_BOARD_STRING_SIZE = N * N /\ N * N \in Nat
    BY BoardAssumption DEF GAME_BOARD_STRING_SIZE, N
  <1> PICK p : p = ReadLayout(a, clean_client_ships, lay)
    OBVIOUS
  <1> PICK q : q = ReadLayout(b, clean_client_ships, lay)
    OBVIOUS
  <1>2. r.error = t.error /\ r.ships = t.ships
    <2>1. CASE Len(lay) # GAME_BOARD_STRING_SIZE
      BY <2>1 DEF Prepare
    <2>2. CASE Len(lay) = GAME_BOARD_STRING_SIZE
      <3>1. p.ships = q.ships /\ p.error = q.error
        BY <1>1, <2>2, ReadsAlike
      <3> QED
        BY <2>2, <3>1 DEF Prepare
    <2> QED
      BY <2>1, <2>2
  <1>3. ASSUME r.error = OK
        PROVE  r.board = t.board
    <2>1. t.error = OK
      BY <1>2, <1>3
    <2>2. r.board \in Sketches /\ t.board \in Sketches
      BY <1>3, <2>1, PrepareExactly DEF Placed
    <2>4. \A c \in Cells : \E j \in 0 .. (N * N - 1) : c = SquareAt(j) /\ r.board[c] = lay[j + 1]
      <3>1. ShowsAll(r.board, lay)
        BY <1>3, PrepareExactly
      <3> QED
        BY <3>1 DEF ShowsAll
    <2>5. \A c \in Cells : \E j \in 0 .. (N * N - 1) : c = SquareAt(j) /\ t.board[c] = lay[j + 1]
      <3>1. ShowsAll(t.board, lay)
        BY <2>1, PrepareExactly
      <3> QED
        BY <3>1 DEF ShowsAll
    <2>6. \A j, k \in 0 .. (N * N - 1) : SquareAt(j) = SquareAt(k) => j = k
      <3>1. N * N \in 0 .. N * N
        BY <1>1
      <3> QED
        BY <3>1, ReadSquares
    <2>3. ASSUME NEW c \in Cells
          PROVE  r.board[c] = t.board[c]
      <3>1. PICK j \in 0 .. (N * N - 1) : c = SquareAt(j) /\ r.board[c] = lay[j + 1]
        BY <2>4
      <3>2. PICK k \in 0 .. (N * N - 1) : c = SquareAt(k) /\ t.board[c] = lay[k + 1]
        BY <2>5
      <3>3. j = k
        BY <2>6, <3>1, <3>2
      <3> QED
        BY <3>1, <3>2, <3>3
    <2> QED
      BY <2>2, <2>3 DEF Sketches
  <1> QED
    BY <1>2, <1>3

OnBoard(b, s) == {c \in Cells : b[c] = s}

\* Reading a whole board: the squares that show a ship are those of its characters.
LEMMA WholeLayout ==
  ASSUME NEW b \in Sketches, NEW lay, lay = getMyBoardStringForm(b)
  PROVE  /\ Len(lay) = N * N /\ N * N \in Nat
         /\ \A i \in 1 .. N * N : lay[i] \in ShipNumbers \cup {Empty}
         /\ \A s \in ShipNumbers : ReadCells(lay, N * N, s) = OnBoard(b, s)
  <1>1. GAME_BOARD_STRING_SIZE = N * N /\ N * N \in Nat
    BY BoardAssumption DEF GAME_BOARD_STRING_SIZE, N
  <1> PICK k : k = N * N
    OBVIOUS
  <1>2. k \in Nat /\ k \in 0 .. N * N /\ lay = [i \in 1 .. k |-> b[SquareAt(i - 1)]]
    BY <1>1 DEF getMyBoardStringForm
  <1>3. Len(lay) = k
    BY <1>2
  <1>4. ASSUME NEW j \in 0 .. (k - 1)
        PROVE  b[SquareAt(j)] = lay[j + 1]
    <2>1. j + 1 \in 1 .. k /\ (j + 1) - 1 = j
      BY <1>2
    <2> QED
      BY <1>2, <2>1
  <1>5. Shows(b, lay, k)
    BY <1>4 DEF Shows
  <1>6. ASSUME NEW i \in 1 .. k
        PROVE  lay[i] \in ShipNumbers \cup {Empty}
    <2>1. i - 1 \in 0 .. (k - 1)
      BY <1>2
    <2>2. SquareAt(i - 1) \in Cells
      BY <1>2, <2>1, ReadSquares
    <2> QED
      BY <1>2, <2>2 DEF Sketches
  <1>7. ASSUME NEW s \in ShipNumbers
        PROVE  ReadCells(lay, k, s) = OnBoard(b, s)
    <2>1. ReadCells(lay, k, s) = {c \in Cells : Before(c, SquareAt(k)) /\ b[c] = s}
      BY <1>2, <1>5, CellsShown
    <2>2. \A c \in Cells : Before(c, SquareAt(k))
      BY BeforeEnds
    <2> QED
      BY <2>1, <2>2 DEF OnBoard
  <1> QED
    BY <1>1, <1>3, <1>6, <1>7

-----------------------------------------------------------------------------
(* Marking a sunk ship, on either side *)

\* The server marks from the ship's start, direction and length.
LEMMA ServerMarks ==
  ASSUME NEW b, NEW f, Placed(b, f), NEW s \in ShipNumbers, NEW c \in Cells
  PROVE  /\ c \in Surroundings(f[s]) <=>
              b[c] = Empty /\ \E a \in Squares(f[s]) : Adjacent(a, c)
         /\ \A t \in ShipNumbers : c \in Squares(f[t]) => c \notin Surroundings(f[s])
  <1>1. /\ Floating(f[s]) /\ f[s].length = ShipLength[s] /\ b \in Sketches
        /\ \A t \in ShipNumbers : c \in Squares(f[t]) <=> b[c] = t
    BY DEF Placed
  <1>2. f[s].length # 0
    BY <1>1, BoardAssumption
  <1>3. c \in Surroundings(f[s]) <=>
          c \notin Squares(f[s]) /\ \E a \in Squares(f[s]) : Adjacent(a, c)
    BY <1>1, <1>2, SurroundingsAre
  <1>4. b[c] \in ShipNumbers \cup {Empty}
    BY <1>1 DEF Sketches
  <1>5. ASSUME NEW a \in Squares(f[s]), Adjacent(a, c), b[c] \in ShipNumbers
        PROVE  b[c] = s
    <2>1. a \in Cells /\ b[a] = s
      BY DEF Placed, Floating
    <2>2. isdigit(b[a]) /\ isdigit(b[c])
      BY <1>5, <2>1, Characters
    <2> QED
      BY <1>5, <2>1, <2>2 DEF Placed
  <1>6. Empty \notin ShipNumbers
    BY Characters
  <1> QED
    BY <1>1, <1>3, <1>4, <1>5, <1>6

\* The client's line of hits through the square that was hit last is the ship,
\* when all of it has been hit, and no square next to it that is not its own.
LEMMA RunIsShip ==
  ASSUME NEW ship, Floating(ship), ship.length # 0, NEW g,
         \A c \in Squares(ship) : g[c] = Hit,
         \A c \in Cells, a \in Squares(ship) :
           g[c] = Hit /\ Adjacent(c, a) => c \in Squares(ship),
         NEW last \in Squares(ship)
  PROVE  HitRun(g, last) = Squares(ship)
  <1>1. N \in Nat \ {0} /\ Coords = 0 .. (N - 1)
    BY BoardAssumption DEF Coords, N
  <1>3. /\ ship.vertical \in BOOLEAN /\ ship.startX \in Int /\ ship.startY \in Int
        /\ ship.length \in Nat \ {0} /\ ship.length <= N
    BY <1>1, SquaresCount DEF Floating, ShipRecord
  <1> PICK l, sx, sy : l = ship.length /\ sx = ship.startX /\ sy = ship.startY
    OBVIOUS
  <1> DEFINE Sq(k) == IF ship.vertical THEN <<sx, sy + k>> ELSE <<sx + k, sy>>
  <1>4. Squares(ship) = {Sq(k) : k \in 0 .. (l - 1)} /\ Squares(ship) \subseteq Cells
    BY DEF Squares, SquareOf, Floating
  <1>5. PICK m \in 0 .. (l - 1) : last = Sq(m)
    BY <1>4
  <1>6. ASSUME NEW c \in Cells, NEW a \in Squares(ship), g[c] = Hit, Adjacent(c, a)
        PROVE  c \in Squares(ship)
    BY <1>6
  <1> DEFINE down  == ship.vertical /\ l # 1
             at(k) == IF down THEN <<last[1], last[2] + k>> ELSE <<last[1] + k, last[2]>>
  <1>7. (\E c \in Cells : c[1] = last[1] /\ c[2] - last[2] \in {-1, 1} /\ g[c] = Hit) <=> down
    <2>1. ASSUME NEW c \in Cells, c[1] = last[1], c[2] - last[2] \in {-1, 1}, g[c] = Hit
          PROVE  down
      <3>1. c[1] \in Int /\ c[2] \in Int /\ last[1] \in Int /\ last[2] \in Int
        BY <1>1, <1>4, CellParts
      <3>2. c # last /\ c[1] - last[1] \in -1 .. 1 /\ c[2] - last[2] \in -1 .. 1
        BY <2>1, <3>1
      <3>3. c \in Squares(ship)
        BY <1>6, <2>1, <3>2 DEF Adjacent
      <3>4. PICK k \in 0 .. (l - 1) : c = Sq(k)
        BY <1>4, <3>3
      <3>5. ship.vertical
        BY <1>3, <1>5, <2>1, <3>4
      <3>6. k # m
        BY <1>5, <3>2, <3>4
      <3> QED
        BY <1>3, <3>5, <3>6
    <2>2. ASSUME down
          PROVE  \E c \in Cells : c[1] = last[1] /\ c[2] - last[2] \in {-1, 1} /\ g[c] = Hit
      <3> PICK k : k = IF m = 0 THEN 1 ELSE m - 1
        OBVIOUS
      <3>1. k \in 0 .. (l - 1) /\ k - m \in {-1, 1}
        BY <1>3, <2>2
      <3>2. Sq(k) \in Squares(ship)
        BY <1>4, <3>1
      <3>3. Sq(k) \in Cells /\ g[Sq(k)] = Hit
        <4>1. \A c \in Squares(ship) : c \in Cells /\ g[c] = Hit
          BY <1>4
        <4> HIDE DEF Sq
        <4> QED
          BY <3>2, <4>1
      <3>4. Sq(k)[1] = last[1] /\ Sq(k)[2] - last[2] = k - m
        BY <1>3, <1>5, <2>2, <3>1
      <3> QED
        BY <3>1, <3>3, <3>4
    <2> QED
      BY <2>1, <2>2
  <1>8. last[1] \in Int /\ last[2] \in Int
    BY <1>1, <1>4, CellParts
  <1>9. ASSUME NEW k \in Int
        PROVE  /\ at(k) \in Squares(ship) <=> m + k \in 0 .. (l - 1)
               /\ m + k \in 0 .. (l - 1) => at(k) = Sq(m + k)
    <2>1. CASE down \/ ~ship.vertical
      <3>1. at(k) = Sq(m + k)
        BY <1>3, <1>5, <2>1
      <3>2. ASSUME NEW h \in 0 .. (l - 1), Sq(h) = Sq(m + k)
            PROVE  h = m + k
        BY <1>3, <3>2
      <3> HIDE DEF at, Sq
      <3> QED
        BY <1>4, <3>1, <3>2
    <2>2. CASE ~down /\ ship.vertical
      <3>1. l = 1 /\ m = 0 /\ 0 .. (l - 1) = {0}
        BY <2>2
      <3>2. Squares(ship) = {Sq(0)} /\ last = Sq(0) /\ Sq(0) = <<sx, sy>>
        BY <1>3, <1>4, <1>5, <2>2, <3>1
      <3>3. at(k) = <<sx + k, sy>> /\ m + k = k
        BY <2>2, <3>1, <3>2
      <3>4. <<sx + k, sy>> = <<sx, sy>> <=> k = 0
        BY <1>3
      <3> HIDE DEF at
      <3> QED
        BY <3>1, <3>2, <3>3, <3>4
    <2> QED
      BY <2>1, <2>2
  <1>10. ASSUME NEW k \in Int, NEW h \in Int, h - k \in {-1, 1}
         PROVE  Adjacent(at(h), at(k))
    BY <1>8, <1>10 DEF Adjacent
  <1> DEFINE far == SHIP_GAME_BOARD_SIZE - 1
             J   == {j \in -far .. far : \A i \in IF j < 0 THEN j .. 0 ELSE 0 .. j :
                       at(i) \in Cells /\ g[at(i)] = Hit}
  <1>11. HitRun(g, last) = {at(k) : k \in J}
    BY <1>7 DEF HitRun
  <1> HIDE DEF at, down
  <1>12. ASSUME NEW j \in J
         PROVE  at(j) \in Squares(ship)
    <2>1. j \in Int /\ m \in Int /\ 0 <= m /\ m < l
      BY <1>1, <1>3, <1>12 DEF N
    <2> SUFFICES ASSUME ~(m + j \in 0 .. (l - 1)) PROVE FALSE
      BY <1>9, <2>1
    <2> PICK i : i = IF j < 0 THEN -1 - m ELSE l - m
      OBVIOUS
    <2>2. i \in IF j < 0 THEN j .. 0 ELSE 0 .. j
      BY <1>3, <2>1
    <2> PICK k : k = IF j < 0 THEN i + 1 ELSE i - 1
      OBVIOUS
    <2>3. i \in Int /\ k \in Int /\ i - k \in {-1, 1} /\ m + k \in 0 .. (l - 1)
          /\ m + i \notin 0 .. (l - 1)
      BY <1>3, <2>1
    <2>4. at(i) \in Cells /\ g[at(i)] = Hit
      BY <1>12, <2>2
    <2>5. at(k) \in Squares(ship) /\ at(i) \notin Squares(ship)
      BY <1>9, <2>3
    <2> QED
      BY <1>6, <1>10, <2>3, <2>4, <2>5
  <1>13. ASSUME NEW k \in 0 .. (l - 1)
         PROVE  Sq(k) \in {at(j) : j \in J}
    <2> PICK j : j = k - m
      OBVIOUS
    <2>1. j \in Int /\ m + j = k /\ j \in -far .. far
      BY <1>1, <1>3 DEF N
    <2>2. ASSUME NEW i \in IF j < 0 THEN j .. 0 ELSE 0 .. j
          PROVE  at(i) \in Cells /\ g[at(i)] = Hit
      <3>1. i \in Int /\ m + i \in 0 .. (l - 1)
        BY <1>3, <2>1, <2>2
      <3>2. at(i) \in Squares(ship)
        BY <1>9, <3>1
      <3> QED
        BY <1>4, <3>2
    <2>3. at(j) = Sq(k)
      BY <1>9, <2>1
    <2>4. j \in J
      BY <2>1, <2>2
    <2> QED
      BY <2>3, <2>4
  <1> HIDE DEF J, Sq
  <1> QED
    BY <1>4, <1>11, <1>12, <1>13

\* So both sides mark the same squares.
LEMMA ClientMarks ==
  ASSUME NEW ship, Floating(ship), ship.length # 0, NEW g,
         \A c \in Squares(ship) : g[c] = Hit,
         \A c \in Cells, a \in Squares(ship) :
           g[c] = Hit /\ Adjacent(c, a) => c \in Squares(ship),
         NEW last \in Squares(ship)
  PROVE  markDestroyedShip(g, last) = mark_destroyed_ship(g, ship)
  <1>1. HitRun(g, last) = Squares(ship)
    BY RunIsShip
  <1>2. g[last] = Hit /\ Squares(ship) \subseteq Cells
    BY DEF Floating
  <1>3. ASSUME NEW c \in Cells, NEW a \in Cells
        PROVE  Adjacent(a, c) <=> Adjacent(c, a)
    BY <1>3, CellParts, BoardAssumption DEF Adjacent, Coords
  <1>4. ASSUME NEW c \in Cells
        PROVE  c \in Surroundings(ship) <=>
                 g[c] # Hit /\ \E h \in HitRun(g, last) : c \in getNeighbors(h)
    <2>1. (\E h \in HitRun(g, last) : c \in getNeighbors(h)) <=>
            \E a \in Squares(ship) : Adjacent(a, c)
      BY <1>1 DEF getNeighbors
    <2>2. c \in Surroundings(ship) <=>
            c \notin Squares(ship) /\ \E a \in Squares(ship) : Adjacent(a, c)
      BY SurroundingsAre
    <2>3. (\E a \in Squares(ship) : Adjacent(a, c)) => (g[c] = Hit <=> c \in Squares(ship))
      BY <1>2, <1>3
    <2> QED
      BY <2>1, <2>2, <2>3
  <1> QED
    BY <1>2, <1>4 DEF markDestroyedShip, mark_destroyed_ship

=============================================================================
