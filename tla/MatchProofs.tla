---------------------------- MODULE MatchProofs ----------------------------
(* What holds in every game, for every size of the board, every fleet and   *)
(* whatever the two players send, and that Match implements Duel.  Module   *)
(* ShipsProofs has what the operators on boards and ships do.               *)
EXTENDS Match, ShipsProofs

-----------------------------------------------------------------------------
(* The inductive invariant *)

\* What the state of a player says about the player's board and fleet, and the
\* opponent's count of sunk ships.
Side(st, b, f, k) ==
  /\ st = STATE_IN_GAME_PREPARING =>
       b \in Sketches /\ f = clean_client_ships /\ k = 0
  /\ st \in {STATE_IN_GAME, STATE_IN_GAME_PLAYING} =>
       Afloat(b, f) /\ k = Cardinality(SunkOf(f)) /\ k < AMOUNT_OF_SHIP

Sides == \A p \in Player : Side(state[p], board[p], ships[p], count[Opponent(p)])

\* The game ends for both players at once, only one of two prepared players is
\* on turn, and with two of them one is.
Phases ==
  /\ \A p \in Player : state[p] = STATE_IN_LOBBY <=> winner # Undecided
  /\ \A p \in Player : state[p] = STATE_IN_GAME_PLAYING =>
                         state[Opponent(p)] = STATE_IN_GAME
  /\ (\A p \in Player : Prepared(p)) =>
       \E p \in Player : state[p] = STATE_IN_GAME_PLAYING

MatchInv ==
  /\ TypeOK
  /\ Phases
  /\ Sides
  /\ error # ERROR_INTERNAL

-----------------------------------------------------------------------------
(* Boards and ships of the types of the C code *)

LEMMA Players ==
  /\ Player = {1, 2} /\ \A p \in Player : Opponent(p) \in Player
  /\ \A p \in Player : Opponent(p) # p /\ Opponent(Opponent(p)) = p
  /\ \A p, q \in Player : q # p => q = Opponent(p)
  BY DEF Player, Opponent

LEMMA CleanTyped == clean_client_ships \in [ShipNumbers -> ShipType]
  <1>1. ship_init \in ShipType
    BY BoardAssumption DEF ship_init, ShipType
  <1> QED
    BY <1>1 DEF clean_client_ships

\* No ship is longer than a row.
LEMMA AfloatTyped ==
  ASSUME NEW b, NEW f, Afloat(b, f)
  PROVE  b \in Boards /\ f \in [ShipNumbers -> ShipType]
  <1>1. b \in Boards /\ f \in FleetRecords
    BY DEF Afloat
  <1>2. ASSUME NEW s \in ShipNumbers
        PROVE  f[s] \in ShipType
    <2> PICK ship : ship = f[s]
      OBVIOUS
    <2>1. /\ Floating(ship) /\ ship.length = ShipLength[s]
          /\ ship.health = Cardinality({c \in Squares(ship) : b[c] = s})
      BY DEF Afloat
    <2>2. ship.length \in Nat \ {0} /\ ship \in ShipRecord
      BY <2>1, BoardAssumption DEF Floating
    <2>3. ship.health \in 0 .. ship.length
      <3>1. Cardinality({c \in Squares(ship) : b[c] = s}) \in 0 .. ship.length
        <4>1. {c \in Squares(ship) : b[c] = s} \in SUBSET Squares(ship)
          OBVIOUS
        <4> QED
          BY <2>1, <4>1, SomeSquares
      <3> QED
        BY <2>1, <3>1
    <2>4. ship.length <= N
      <3>1. N \in Nat /\ Coords = 0 .. (N - 1)
        BY BoardAssumption DEF N, Coords
      <3>2. ship.startX \in Coords /\ ship.startY \in Coords
        BY <2>1, <2>2 DEF Floating
      <3>3. SquareOf(ship, ship.length - 1) \in Cells
        <4>1. ship.length - 1 \in 0 .. (ship.length - 1)
          BY <2>2
        <4> QED
          BY <2>1, <4>1 DEF Floating, Squares
      <3>4. CASE ship.vertical
        <4>1. ship.startY + (ship.length - 1) \in Coords
          BY <3>3, <3>4 DEF SquareOf, Cells
        <4> QED
          BY <2>2, <3>1, <3>2, <4>1
      <3>5. CASE ~ship.vertical
        <4>1. ship.startX + (ship.length - 1) \in Coords
          BY <3>3, <3>5 DEF SquareOf, Cells
        <4> QED
          BY <2>2, <3>1, <3>2, <4>1
      <3> QED
        BY <3>4, <3>5
    <2>5. /\ ship.length \in 0 .. SHIP_GAME_BOARD_SIZE
          /\ ship.health \in 0 .. SHIP_GAME_BOARD_SIZE
      BY <2>2, <2>3, <2>4, BoardAssumption DEF N
    <2>6. ship \in ShipType
      BY <2>2, <2>5 DEF ShipRecord, ShipType
    <2> QED
      BY <2>6
  <1> QED
    BY <1>1, <1>2 DEF FleetRecords

LEMMA SketchTyped == Sketches \subseteq Boards
  BY DEF Sketches, Boards

-----------------------------------------------------------------------------
(* The states of the two players *)

LEMMA InitInv == Init => MatchInv
  <1> SUFFICES ASSUME Init PROVE MatchInv
    OBVIOUS
  <1>1. [c \in Cells |-> Empty] \in Sketches
    BY DEF Sketches
  <1>2. TypeOK
    BY <1>1, CleanTyped, SketchTyped, BoardAssumption DEF Init, TypeOK, Boards, Undecided
  <1>3. Phases
    BY DEF Init, Phases, Prepared, Player, Undecided, STATE_IN_LOBBY,
       STATE_IN_GAME_PREPARING, STATE_IN_GAME, STATE_IN_GAME_PLAYING
  <1>4. Sides
    BY <1>1, Players DEF Init, Sides, Side, STATE_IN_GAME_PREPARING,
       STATE_IN_GAME, STATE_IN_GAME_PLAYING
  <1>5. error # ERROR_INTERNAL
    BY DEF Init, OK, ERROR_INTERNAL
  <1> QED
    BY <1>2, <1>3, <1>4, <1>5 DEF MatchInv

\* game_end, whomever it names, keeps what it does not free.
LEMMA EndKeepsInv ==
  ASSUME MatchInv, NEW name \in Player \cup {NullName}, game_end(name),
         board' \in [Player -> Boards], ships' \in [Player -> [ShipNumbers -> ShipType]],
         count' \in [Player -> 0 .. AMOUNT_OF_SHIP], error' # ERROR_INTERNAL
  PROVE  MatchInv'
  <1>1. /\ winner' = name /\ name # Undecided
        /\ state' = [p \in Player |-> STATE_IN_LOBBY]
    BY DEF game_end, Player, NullName, Undecided
  <1>2. TypeOK'
    BY <1>1 DEF TypeOK, Boards
  <1>3. Phases'
    BY <1>1, Players DEF Phases, Prepared, STATE_IN_LOBBY, STATE_IN_GAME, STATE_IN_GAME_PLAYING
  <1>4. Sides'
    BY <1>1 DEF Sides, Side, STATE_IN_LOBBY, STATE_IN_GAME_PREPARING,
       STATE_IN_GAME, STATE_IN_GAME_PLAYING
  <1> QED
    BY <1>2, <1>3, <1>4 DEF MatchInv

LEMMA RefuseKeepsInv ==
  ASSUME MatchInv, NEW e, e # ERROR_INTERNAL, Refuse(e)
  PROVE  MatchInv'
  <1>1. UNCHANGED <<state, board, ships, count, winner>> /\ error' = e
    BY DEF Refuse
  <1>2. TypeOK' /\ Phases' /\ Sides'
    BY <1>1 DEF MatchInv, TypeOK, Phases, Prepared, Sides
  <1> QED
    BY <1>1, <1>2 DEF MatchInv

-----------------------------------------------------------------------------
(* cmd_game_prepared *)

\* The states after an accepted layout: the opponent's changes from waiting to
\* being on turn at most.
LEMMA StatesPrepared ==
  ASSUME MatchInv, NEW p \in Player, state[p] = STATE_IN_GAME_PREPARING,
         NEW ready, ready = StatesWhenPrepared(p)
  PROVE  LET o == Opponent(p) IN
         /\ ready \in [Player -> {STATE_IN_GAME_PREPARING, STATE_IN_GAME,
                                  STATE_IN_GAME_PLAYING}]
         /\ state[o] \in {STATE_IN_GAME_PREPARING, STATE_IN_GAME}
         /\ state[o] = STATE_IN_GAME_PREPARING =>
              ready[p] = STATE_IN_GAME /\ ready[o] = STATE_IN_GAME_PREPARING
         /\ state[o] = STATE_IN_GAME =>
              /\ ready[1] = STATE_IN_GAME_PLAYING
              /\ ready[2] = STATE_IN_GAME
  <1> USE DEF STATE_IN_LOBBY, STATE_IN_GAME_PREPARING, STATE_IN_GAME, STATE_IN_GAME_PLAYING
  <1> PICK o \in Player : o = Opponent(p)
    BY Players
  <1>1. /\ o # p /\ p = Opponent(o) /\ \A q \in Player : q = p \/ q = o
        /\ state \in [Player -> {STATE_IN_LOBBY, STATE_IN_GAME_PREPARING,
                           STATE_IN_GAME, STATE_IN_GAME_PLAYING}]
    BY Players DEF MatchInv, TypeOK
  <1>2. state[o] \in {STATE_IN_GAME_PREPARING, STATE_IN_GAME}
    BY <1>1 DEF MatchInv, Phases
  <1> PICK r : r = [state EXCEPT ![p] = STATE_IN_GAME]
    OBVIOUS
  <1>3. /\ r \in [Player -> {STATE_IN_LOBBY, STATE_IN_GAME_PREPARING,
                           STATE_IN_GAME, STATE_IN_GAME_PLAYING}]
        /\ r[p] = STATE_IN_GAME /\ r[o] = state[o]
    BY <1>1
  <1>4. ready = IF \A q \in Player : r[q] = STATE_IN_GAME
                THEN [r EXCEPT ![1] = STATE_IN_GAME_PLAYING] ELSE r
    BY DEF StatesWhenPrepared
  <1>5. CASE state[o] = STATE_IN_GAME_PREPARING
    <2>1. ready = r
      BY <1>3, <1>4, <1>5
    <2>2. ready \in [Player -> {STATE_IN_GAME_PREPARING, STATE_IN_GAME,
                                STATE_IN_GAME_PLAYING}]
      BY <1>1, <1>3, <1>5, <2>1
    <2> QED
      BY <1>3, <1>5, <2>1, <2>2
  <1>6. CASE state[o] = STATE_IN_GAME
    <2>1. ready = [r EXCEPT ![1] = STATE_IN_GAME_PLAYING]
      BY <1>1, <1>3, <1>4, <1>6
    <2>2. /\ \A q \in Player : r[q] = STATE_IN_GAME
          /\ 1 \in Player /\ 2 \in Player /\ 1 # 2
      BY <1>1, <1>3, <1>6 DEF Player
    <2>3. ready[1] = STATE_IN_GAME_PLAYING /\ ready[2] = STATE_IN_GAME
      BY <1>3, <2>1, <2>2
    <2>4. ready \in [Player -> {STATE_IN_GAME_PREPARING, STATE_IN_GAME,
                                STATE_IN_GAME_PLAYING}]
      <3>1. \A q \in Player : q = 1 \/ q = 2
        BY DEF Player
      <3>2. ready \in [Player -> {STATE_IN_LOBBY, STATE_IN_GAME_PREPARING,
                           STATE_IN_GAME, STATE_IN_GAME_PLAYING}]
        BY <1>3, <2>1
      <3> QED
        BY <2>3, <3>1, <3>2
    <2> QED
      BY <1>6, <2>3, <2>4
  <1> QED
    BY <1>2, <1>5, <1>6

\* A layout either becomes the fleet of a player who had none, or is refused.
LEMMA PrepareSteps ==
  ASSUME MatchInv, NEW p \in Player, NEW layout \in Seq(Int),
         state[p] = STATE_IN_GAME_PREPARING, cmd_game_prepared(p, layout)
  PROVE  /\ winner = Undecided /\ UNCHANGED <<count, winner>>
         /\ board[p] \in Sketches /\ ships[p] = clean_client_ships /\ count[Opponent(p)] = 0
         /\ board' = [board EXCEPT ![p] = board'[p]]
         /\ ships' = [ships EXCEPT ![p] = ships'[p]]
         /\ \/ /\ error' = OK /\ state' = StatesWhenPrepared(p)
               /\ Placed(board'[p], ships'[p])
            \/ /\ error' \in PrepareErrors /\ UNCHANGED state
               /\ board'[p] \in Sketches /\ ships'[p] = clean_client_ships
  <1>1. /\ board[p] \in Sketches /\ ships[p] = clean_client_ships
        /\ count[Opponent(p)] = 0
        /\ board \in [Player -> Boards]
        /\ ships \in [Player -> [ShipNumbers -> ShipType]]
    BY DEF MatchInv, TypeOK, Sides, Side, Boards
  <1>2. winner = Undecided
    BY DEF MatchInv, Phases, STATE_IN_GAME_PREPARING, STATE_IN_LOBBY
  <1>3. Len(layout) \in Nat
    OBVIOUS
  <1> PICK r : r = Prepare(p, board[p], ships[p], layout)
    OBVIOUS
  <1>4. /\ board' = [board EXCEPT ![p] = r.board]
        /\ ships' = [ships EXCEPT ![p] = r.ships]
        /\ error' = r.error
        /\ state' = IF r.error = OK THEN StatesWhenPrepared(p) ELSE state
        /\ UNCHANGED <<count, winner>>
    BY DEF cmd_game_prepared
  <1>5. board'[p] = r.board /\ ships'[p] = r.ships
    BY <1>1, <1>4
  <1>6. \/ r.error = OK /\ Placed(r.board, r.ships)
        \/ /\ r.error \in PrepareErrors
           /\ r.board \in Sketches /\ r.ships = clean_client_ships
    <2>1. r = Prepare(p, board[p], clean_client_ships, layout)
      BY <1>1
    <2> QED
      BY <1>1, <1>3, <2>1, PrepareDoes
  <1>7. OK \notin PrepareErrors
    BY Characters DEF PrepareErrors, OK, ERROR_SHIPS_WRONG_LENGTH
  <1> QED
    BY <1>1, <1>2, <1>4, <1>5, <1>6, <1>7

LEMMA SunkNone == Cardinality({}) = 0
  BY FS_EmptySet

LEMMA PrepareKeepsInv ==
  ASSUME MatchInv, NEW p \in Player, NEW layout \in Seq(Int), cmd_game_prepared(p, layout)
  PROVE  MatchInv'
  <1> PICK o \in Player : o = Opponent(p)
    BY Players
  <1>1. /\ o # p /\ p = Opponent(o) /\ \A q \in Player : q = p \/ q = o
    BY Players
  <1>2. CASE state[p] # STATE_IN_GAME_PREPARING
    BY <1>2, RefuseKeepsInv DEF cmd_game_prepared, ERROR_USER_STATE, ERROR_INTERNAL
  <1>3. CASE state[p] = STATE_IN_GAME_PREPARING
    <2>0. /\ TypeOK /\ Phases /\ Sides
          /\ board \in [Player -> Boards]
          /\ ships \in [Player -> [ShipNumbers -> ShipType]]
      BY DEF MatchInv, TypeOK, Boards
    <2>1. /\ winner = Undecided /\ UNCHANGED <<count, winner>>
          /\ board[p] \in Sketches /\ ships[p] = clean_client_ships /\ count[o] = 0
          /\ board' = [board EXCEPT ![p] = board'[p]]
          /\ ships' = [ships EXCEPT ![p] = ships'[p]]
      BY <1>3, PrepareSteps
    <2>2. board'[o] = board[o] /\ ships'[o] = ships[o]
      BY <1>1, <2>0, <2>1
    <2>3. Side(state[o], board[o], ships[o], count[p])
      BY <1>1, <2>0 DEF Sides
    <2>4. ASSUME board'[p] \in Boards, ships'[p] \in [ShipNumbers -> ShipType],
                 state' \in [Player -> {STATE_IN_LOBBY, STATE_IN_GAME_PREPARING,
                           STATE_IN_GAME, STATE_IN_GAME_PLAYING}]
          PROVE  TypeOK'
      <3>1. /\ board' \in [Player -> Boards]
            /\ ships' \in [Player -> [ShipNumbers -> ShipType]]
        BY <2>0, <2>1, <2>4
      <3> QED
        BY <2>0, <2>1, <2>4, <3>1 DEF TypeOK, Boards
    <2>5. CASE /\ error' = OK /\ state' = StatesWhenPrepared(p)
               /\ Placed(board'[p], ships'[p])
      <3>1. LET s == state' IN
            /\ s \in [Player -> {STATE_IN_GAME_PREPARING, STATE_IN_GAME,
                                 STATE_IN_GAME_PLAYING}]
            /\ state[o] \in {STATE_IN_GAME_PREPARING, STATE_IN_GAME}
            /\ state[o] = STATE_IN_GAME_PREPARING =>
                 s[p] = STATE_IN_GAME /\ s[o] = STATE_IN_GAME_PREPARING
            /\ state[o] = STATE_IN_GAME =>
                 s[1] = STATE_IN_GAME_PLAYING /\ s[2] = STATE_IN_GAME
        BY <1>3, <2>5, StatesPrepared
      <3>2. Afloat(board'[p], ships'[p]) /\ SunkOf(ships'[p]) = {}
        BY <2>5, PlacedAfloat
      <3>3. TypeOK'
        <4>1. state' \in [Player -> {STATE_IN_LOBBY, STATE_IN_GAME_PREPARING,
                           STATE_IN_GAME, STATE_IN_GAME_PLAYING}]
          BY <3>1
        <4> QED
          BY <2>4, <3>2, <4>1, AfloatTyped
      <3>4. /\ \A q \in Player : state'[q] # STATE_IN_LOBBY
            /\ state[o] = STATE_IN_GAME_PREPARING =>
                 state'[p] = STATE_IN_GAME /\ state'[o] = STATE_IN_GAME_PREPARING
            /\ state[o] = STATE_IN_GAME =>
                 /\ state'[p] \in {STATE_IN_GAME, STATE_IN_GAME_PLAYING}
                 /\ state'[o] \in {STATE_IN_GAME, STATE_IN_GAME_PLAYING}
        BY <3>1 DEF Player, STATE_IN_LOBBY, STATE_IN_GAME_PREPARING, STATE_IN_GAME,
           STATE_IN_GAME_PLAYING
      <3>5. Phases'
        <4>1. \A q \in Player : state'[q] = STATE_IN_LOBBY <=> winner' # Undecided
          BY <2>1, <3>4
        <4>2. CASE state[o] = STATE_IN_GAME_PREPARING
          BY <1>1, <3>4, <4>1, <4>2 DEF Phases, Prepared, STATE_IN_GAME_PREPARING,
             STATE_IN_GAME, STATE_IN_GAME_PLAYING
        <4>3. CASE state[o] = STATE_IN_GAME
          <5>1. state'[1] = STATE_IN_GAME_PLAYING /\ state'[2] = STATE_IN_GAME
            BY <3>1, <4>3
          <5> QED
            BY <4>1, <5>1 DEF Phases, Player, Opponent, STATE_IN_GAME, STATE_IN_GAME_PLAYING
        <4> QED
          BY <3>1, <4>2, <4>3
      <3>6. Side(state'[p], board'[p], ships'[p], count'[o])
        <4>1. state'[p] # STATE_IN_GAME_PREPARING
          BY <3>1, <3>4 DEF STATE_IN_GAME_PREPARING, STATE_IN_GAME, STATE_IN_GAME_PLAYING
        <4>2. count'[o] = 0 /\ 0 < AMOUNT_OF_SHIP
          BY <2>1, BoardAssumption
        <4> QED
          BY <3>2, <4>1, <4>2, SunkNone DEF Side
      <3>7. Side(state'[o], board'[o], ships'[o], count'[p])
        <4>1. CASE state[o] = STATE_IN_GAME_PREPARING
          BY <2>1, <2>2, <2>3, <3>4, <4>1
        <4>2. CASE state[o] = STATE_IN_GAME
          <5>1. /\ state'[o] # STATE_IN_GAME_PREPARING
                /\ Afloat(board[o], ships[o]) /\ count[p] = Cardinality(SunkOf(ships[o]))
                /\ count[p] < AMOUNT_OF_SHIP
            BY <2>3, <3>4, <4>2 DEF Side, STATE_IN_GAME_PREPARING, STATE_IN_GAME,
               STATE_IN_GAME_PLAYING
          <5> QED
            BY <2>1, <2>2, <5>1 DEF Side
        <4> QED
          BY <3>1, <4>1, <4>2
      <3>8. Sides'
        BY <1>1, <3>6, <3>7 DEF Sides
      <3> QED
        BY <2>5, <3>3, <3>5, <3>8 DEF MatchInv, OK, ERROR_INTERNAL
    <2>6. CASE /\ error' \in PrepareErrors /\ UNCHANGED state
               /\ board'[p] \in Sketches /\ ships'[p] = clean_client_ships
      <3>1. TypeOK'
        <4>1. state' \in [Player -> {STATE_IN_LOBBY, STATE_IN_GAME_PREPARING,
                           STATE_IN_GAME, STATE_IN_GAME_PLAYING}]
          BY <2>0, <2>6 DEF TypeOK
        <4> QED
          BY <2>4, <2>6, <4>1, CleanTyped, SketchTyped
      <3>2. Phases'
        BY <2>0, <2>1, <2>6 DEF Phases, Prepared
      <3>3. Side(state'[p], board'[p], ships'[p], count'[o])
        BY <1>3, <2>1, <2>6 DEF Side, STATE_IN_GAME_PREPARING, STATE_IN_GAME,
           STATE_IN_GAME_PLAYING
      <3>4. Side(state'[o], board'[o], ships'[o], count'[p])
        BY <2>1, <2>2, <2>3, <2>6
      <3>5. Sides'
        BY <1>1, <3>3, <3>4 DEF Sides
      <3>6. error' # ERROR_INTERNAL
        BY <2>6 DEF PrepareErrors, ReadErrors, ERROR_FORMAT, ERROR_SHIP_PLACEMENT,
           ERROR_SHIP_NUMBER, ERROR_SHIPS_WRONG_LENGTH, ERROR_INTERNAL
      <3> QED
        BY <3>1, <3>2, <3>5, <3>6 DEF MatchInv
    <2> QED
      BY <1>3, <2>5, <2>6, PrepareSteps
  <1> QED
    BY <1>2, <1>3

-----------------------------------------------------------------------------
(* cmd_game_fire *)

\* A shot is refused, or it hits a square of the opponent's board that is closed.
LEMMA FireSteps ==
  ASSUME MatchInv, NEW p \in Player, NEW x, NEW y, cmd_game_fire(p, x, y)
  PROVE  \/ \E e : e # ERROR_INTERNAL /\ Refuse(e)
         \/ /\ state[p] = STATE_IN_GAME_PLAYING /\ error' = OK
            /\ \E sq \in Cells :
                 \/ Target(p, sq) = Empty /\ FireMiss(p, sq)
                 \/ Target(p, sq) \in ShipNumbers /\ FireHit(p, sq)
  <1> PICK sq : sq = <<atoi(x), atoi(y)>>
    OBVIOUS
  <1>1. CASE FireError(p, x, y) = OK
    <2>1. /\ state[p] = STATE_IN_GAME_PLAYING /\ sq \in Cells
          /\ Target(p, sq) \notin {Hit, Miss}
      BY <1>1 DEF FireError, OK, ERROR_USER_STATE, ERROR_FORMAT,
         ERROR_OUT_OF_PLAY_FIELD, ERROR_ALREADY_HIT
    <2>2. Target(p, sq) \in ShipNumbers \cup {Empty, Hit, Miss}
      BY <2>1, Players DEF MatchInv, TypeOK, Target
    <2>3. /\ error' = OK
          /\ IF Target(p, sq) = Empty THEN FireMiss(p, sq) ELSE FireHit(p, sq)
      BY <1>1 DEF cmd_game_fire
    <2> QED
      BY <2>1, <2>2, <2>3
  <1>2. CASE FireError(p, x, y) # OK
    <2>1. Refuse(FireError(p, x, y))
      BY <1>2 DEF cmd_game_fire
    <2>2. FireError(p, x, y) # ERROR_INTERNAL
      <3>1. CASE /\ state[p] = STATE_IN_GAME_PLAYING /\ NotANumber \notin {x, y}
                 /\ sq \in Cells /\ Target(p, sq) \notin {Hit, Miss}
        <4>1. Target(p, sq) \in ShipNumbers \cup {Empty, Hit, Miss}
          BY <3>1, Players DEF MatchInv, TypeOK, Target
        <4>2. Target(p, sq) = Empty \/ isdigit(Target(p, sq))
          BY <3>1, <4>1, Characters
        <4> QED
          BY <3>1, <4>2 DEF FireError, OK, ERROR_INTERNAL
      <3>2. CASE ~(/\ state[p] = STATE_IN_GAME_PLAYING /\ NotANumber \notin {x, y}
                   /\ sq \in Cells /\ Target(p, sq) \notin {Hit, Miss})
        BY <3>2 DEF FireError, ERROR_USER_STATE, ERROR_FORMAT, ERROR_OUT_OF_PLAY_FIELD,
           ERROR_ALREADY_HIT, ERROR_INTERNAL
      <3> QED
        BY <3>1, <3>2
    <2> QED
      BY <2>1, <2>2
  <1> QED
    BY <1>1, <1>2

\* What is so before every shot.
LEMMA BeforeShot ==
  ASSUME MatchInv, NEW p \in Player, state[p] = STATE_IN_GAME_PLAYING,
         NEW o \in Player, o = Opponent(p)
  PROVE  /\ o # p /\ p = Opponent(o) /\ \A q \in Player : q = p \/ q = o
         /\ winner = Undecided /\ state[o] = STATE_IN_GAME
         /\ Afloat(board[o], ships[o]) /\ count[p] = Cardinality(SunkOf(ships[o]))
         /\ Afloat(board[p], ships[p]) /\ count[o] = Cardinality(SunkOf(ships[p]))
         /\ count[p] < AMOUNT_OF_SHIP /\ count[o] < AMOUNT_OF_SHIP
         /\ board \in [Player -> Boards]
         /\ ships \in [Player -> [ShipNumbers -> ShipType]]
         /\ count \in [Player -> 0 .. AMOUNT_OF_SHIP]
  <1>1. /\ o # p /\ p = Opponent(o) /\ \A q \in Player : q = p \/ q = o
    BY Players
  <1>2. winner = Undecided /\ state[o] = STATE_IN_GAME
    BY DEF MatchInv, Phases, STATE_IN_LOBBY, STATE_IN_GAME_PLAYING
  <1>3. /\ Side(state[o], board[o], ships[o], count[p])
        /\ Side(state[p], board[p], ships[p], count[o])
    BY <1>1 DEF MatchInv, Sides
  <1>4. /\ board \in [Player -> Boards]
        /\ ships \in [Player -> [ShipNumbers -> ShipType]]
        /\ count \in [Player -> 0 .. AMOUNT_OF_SHIP]
    BY DEF MatchInv, TypeOK, Boards
  <1> QED
    BY <1>1, <1>2, <1>3, <1>4 DEF Side

\* After a shot that does not end the game.
LEMMA PassKeepsInv ==
  ASSUME MatchInv, NEW p \in Player, state[p] = STATE_IN_GAME_PLAYING,
         NEW o \in Player, o = Opponent(p),
         PassTurn(p), winner' = winner, error' # ERROR_INTERNAL,
         board'[p] = board[p], ships'[p] = ships[p], count'[o] = count[o],
         board' \in [Player -> Boards], ships' \in [Player -> [ShipNumbers -> ShipType]],
         count' \in [Player -> 0 .. AMOUNT_OF_SHIP],
         Afloat(board'[o], ships'[o]), count'[p] = Cardinality(SunkOf(ships'[o])),
         count'[p] < AMOUNT_OF_SHIP
  PROVE  MatchInv'
  <1>1. /\ o # p /\ p = Opponent(o) /\ \A q \in Player : q = p \/ q = o
        /\ winner = Undecided
        /\ Afloat(board[p], ships[p]) /\ count[o] = Cardinality(SunkOf(ships[p]))
        /\ count[o] < AMOUNT_OF_SHIP
    BY BeforeShot
  <1>2. /\ state' \in [Player -> {STATE_IN_LOBBY, STATE_IN_GAME_PREPARING,
                           STATE_IN_GAME, STATE_IN_GAME_PLAYING}]
        /\ state'[p] = STATE_IN_GAME /\ state'[o] = STATE_IN_GAME_PLAYING
    BY <1>1 DEF MatchInv, TypeOK, PassTurn
  <1>3. TypeOK'
    BY <1>1, <1>2 DEF TypeOK, Boards
  <1>4. Phases'
    BY SMTT(30), <1>1, <1>2 DEF Phases, STATE_IN_LOBBY, STATE_IN_GAME, STATE_IN_GAME_PLAYING
  <1>5. Side(state'[p], board'[p], ships'[p], count'[o])
    BY <1>1, <1>2 DEF Side, STATE_IN_GAME, STATE_IN_GAME_PREPARING
  <1>6. Side(state'[o], board'[o], ships'[o], count'[p])
    BY <1>2 DEF Side, STATE_IN_GAME_PLAYING, STATE_IN_GAME_PREPARING
  <1>7. Sides'
    BY <1>1, <1>5, <1>6 DEF Sides
  <1> QED
    BY <1>3, <1>4, <1>7 DEF MatchInv

LEMMA MissKeepsInv ==
  ASSUME MatchInv, NEW p \in Player, state[p] = STATE_IN_GAME_PLAYING, error' = OK,
         NEW sq \in Cells, Target(p, sq) = Empty, FireMiss(p, sq)
  PROVE  MatchInv'
  <1> PICK o \in Player : o = Opponent(p)
    BY Players
  <1>1. /\ o # p /\ Afloat(board[o], ships[o])
        /\ count[p] = Cardinality(SunkOf(ships[o]))
        /\ count[p] < AMOUNT_OF_SHIP
        /\ board \in [Player -> Boards]
        /\ ships \in [Player -> [ShipNumbers -> ShipType]]
        /\ count \in [Player -> 0 .. AMOUNT_OF_SHIP]
    BY BeforeShot
  <1> PICK m : m = [board[o] EXCEPT ![sq] = Miss]
    OBVIOUS
  <1>2. /\ board' = [board EXCEPT ![o] = m] /\ PassTurn(p)
        /\ UNCHANGED <<ships, count, winner>>
    BY DEF FireMiss
  <1>3. Afloat(m, ships[o])
    BY <1>1, MissAfloat DEF Target
  <1>4. m \in Boards
    BY <1>3, AfloatTyped
  <1>5. board'[o] = m /\ board'[p] = board[p] /\ board' \in [Player -> Boards]
    BY <1>1, <1>2, <1>4
  <1> QED
    <2>1. /\ winner' = winner /\ error' # ERROR_INTERNAL
          /\ ships'[p] = ships[p] /\ count'[o] = count[o]
          /\ ships' \in [Player -> [ShipNumbers -> ShipType]]
          /\ count' \in [Player -> 0 .. AMOUNT_OF_SHIP]
          /\ count'[p] = Cardinality(SunkOf(ships'[o])) /\ count'[p] < AMOUNT_OF_SHIP
      BY <1>1, <1>2 DEF OK, ERROR_INTERNAL
    <2>2. Afloat(board'[o], ships'[o])
      BY <1>2, <1>3, <1>5
    <2> QED
      BY <1>2, <1>5, <2>1, <2>2, PassKeepsInv

\* The ships of a fleet that are sunk.
LEMMA SunkCount ==
  ASSUME NEW f
  PROVE  /\ IsFiniteSet(SunkOf(f)) /\ Cardinality(SunkOf(f)) \in 0 .. AMOUNT_OF_SHIP
         /\ Cardinality(SunkOf(f)) = AMOUNT_OF_SHIP <=> SunkOf(f) = ShipNumbers
         /\ \A s : s \notin SunkOf(f) =>
              Cardinality(SunkOf(f) \cup {s}) = Cardinality(SunkOf(f)) + 1
  <1>1. IsFiniteSet(ShipNumbers) /\ Cardinality(ShipNumbers) = AMOUNT_OF_SHIP
    BY FS_Interval, BoardAssumption DEF ShipNumbers
  <1>2. SunkOf(f) \in SUBSET ShipNumbers
    BY DEF SunkOf
  <1>3. /\ IsFiniteSet(SunkOf(f)) /\ Cardinality(SunkOf(f)) <= AMOUNT_OF_SHIP
        /\ Cardinality(SunkOf(f)) = AMOUNT_OF_SHIP <=> SunkOf(f) = ShipNumbers
    BY <1>1, <1>2, FS_Subset
  <1>4. Cardinality(SunkOf(f)) \in Nat
    BY <1>3, FS_CardinalityType
  <1>5. \A s : s \notin SunkOf(f) =>
          Cardinality(SunkOf(f) \cup {s}) = Cardinality(SunkOf(f)) + 1
    BY <1>3, FS_AddElement
  <1> QED
    BY <1>3, <1>4, <1>5, BoardAssumption

\* What a shot at a ship does.  Only the opponent's board and fleet change.
LEMMA HitSteps ==
  ASSUME MatchInv, NEW p \in Player, state[p] = STATE_IN_GAME_PLAYING,
         NEW o \in Player, o = Opponent(p),
         NEW sq \in Cells, Target(p, sq) \in ShipNumbers, FireHit(p, sq)
  PROVE  LET s == board[o][sq] IN
         /\ board'[p] = board[p] /\ board' \in [Player -> Boards]
         /\ ships'[p] = ships[p] /\ ships' \in [Player -> [ShipNumbers -> ShipType]]
         /\ count'[o] = count[o] /\ count' \in [Player -> 0 .. AMOUNT_OF_SHIP]
         /\ Afloat(board'[o], ships'[o]) /\ count'[p] = Cardinality(SunkOf(ships'[o]))
         /\ IF count'[p] = AMOUNT_OF_SHIP THEN game_end(p)
                                          ELSE PassTurn(p) /\ UNCHANGED winner
         /\ \A t \in ShipNumbers : Squares(ships'[o][t]) = Squares(ships[o][t])
         /\ SunkOf(ships'[o]) \in {SunkOf(ships[o]), SunkOf(ships[o]) \cup {s}}
         /\ \A c \in Cells : board'[o][c] \in {Hit, Miss} <=>
              \/ c = sq \/ board[o][c] \in {Hit, Miss}
              \/ /\ s \in SunkOf(ships'[o]) /\ c \notin Squares(ships[o][s])
                 /\ \E a \in Squares(ships[o][s]) : Adjacent(a, c)
  <1>1. /\ o # p /\ p = Opponent(o) /\ \A q \in Player : q = p \/ q = o
        /\ Afloat(board[o], ships[o]) /\ count[p] = Cardinality(SunkOf(ships[o]))
        /\ count[p] < AMOUNT_OF_SHIP /\ count[o] < AMOUNT_OF_SHIP
        /\ board \in [Player -> Boards]
        /\ ships \in [Player -> [ShipNumbers -> ShipType]]
        /\ count \in [Player -> 0 .. AMOUNT_OF_SHIP]
    BY BeforeShot
  <1> PICK b, f, s : b = board[o] /\ f = ships[o] /\ s = b[sq]
    OBVIOUS
  <1> PICK n, m : n = ShotFleet(f, s) /\ m = ShotBoard(b, f, s, sq)
    OBVIOUS
  <1>2. s \in ShipNumbers /\ s = Target(p, sq)
    BY DEF Target
  <1>3. f \in [ShipNumbers -> ShipType] /\ n[s] = ship_hit(f[s])
    BY <1>1, <1>2 DEF ShotFleet
  <1>4. /\ Afloat(m, n) /\ s \notin SunkOf(f)
        /\ SunkOf(n) = IF ship_destroyed(n[s]) THEN SunkOf(f) \cup {s} ELSE SunkOf(f)
        /\ \A t \in ShipNumbers : Squares(n[t]) = Squares(f[t])
        /\ \A c \in Cells : m[c] \in {Hit, Miss} <=>
              \/ c = sq \/ b[c] \in {Hit, Miss}
              \/ /\ ship_destroyed(n[s]) /\ c \notin Squares(f[s])
                 /\ \E a \in Squares(f[s]) : Adjacent(a, c)
    <2>1. Afloat(b, f) /\ b[sq] = s /\ s \in ShipNumbers
      BY <1>1, <1>2
    <2>2. Afloat(m, n) /\ s \notin SunkOf(f)
      BY <2>1, HitAfloat
    <2>3. SunkOf(n) = IF ship_destroyed(n[s]) THEN SunkOf(f) \cup {s} ELSE SunkOf(f)
      <3>1. ship_destroyed(n[s]) => SunkOf(n) = SunkOf(f) \cup {s}
        BY <2>1, HitSinks
      <3>2. ~ship_destroyed(n[s]) => SunkOf(n) = SunkOf(f)
        BY <2>1, HitSinks
      <3> QED
        BY <3>1, <3>2
    <2>4. \A t \in ShipNumbers : Squares(n[t]) = Squares(f[t])
      BY <2>1, HitAfloat
    <2>5. \A c \in Cells : m[c] \in {Hit, Miss} <=>
            \/ c = sq \/ b[c] \in {Hit, Miss}
            \/ /\ ship_destroyed(n[s]) /\ c \notin Squares(f[s])
               /\ \E a \in Squares(f[s]) : Adjacent(a, c)
      BY <2>1, HitAfloat
    <2> QED
      BY <2>2, <2>3, <2>4, <2>5
  <1>5. /\ ships' = [ships EXCEPT ![o] = n]
        /\ board' = [board EXCEPT ![o] = m]
        /\ count' = IF ship_destroyed(n[s]) THEN [count EXCEPT ![p] = count[p] + 1] ELSE count
        /\ IF \E q \in Player : count'[q] >= AMOUNT_OF_SHIP
           THEN game_end(p) ELSE PassTurn(p) /\ UNCHANGED winner
    <2>1. ships' = [ships EXCEPT ![o] = n]
      BY <1>2, <1>3 DEF FireHit, ShotFleet
    <2>2. CASE ship_destroyed(n[s])
      BY <1>2, <1>3, <2>1, <2>2 DEF FireHit, ShotBoard, ShotFleet
    <2>3. CASE ~ship_destroyed(n[s])
      BY <1>2, <1>3, <2>1, <2>3 DEF FireHit, ShotBoard, ShotFleet
    <2> QED
      BY <2>2, <2>3
  <1>6. m \in Boards /\ n \in [ShipNumbers -> ShipType]
    <2>1. Afloat(m, n)
      BY <1>4
    <2> QED
      BY <2>1, AfloatTyped
  <1>7. /\ board'[o] = m /\ board'[p] = board[p] /\ board' \in [Player -> Boards]
        /\ ships'[o] = n /\ ships'[p] = ships[p]
        /\ ships' \in [Player -> [ShipNumbers -> ShipType]]
    BY <1>1, <1>5, <1>6
  <1>8. /\ count'[o] = count[o] /\ count'[p] = Cardinality(SunkOf(n))
        /\ count'[p] \in 0 .. AMOUNT_OF_SHIP
        /\ count' \in [Player -> 0 .. AMOUNT_OF_SHIP]
    <2>1. Cardinality(SunkOf(n)) \in 0 .. AMOUNT_OF_SHIP
      BY SunkCount
    <2>2. CASE ship_destroyed(n[s])
      <3>1. Cardinality(SunkOf(n)) = count[p] + 1
        <4>1. s \notin SunkOf(f) /\ SunkOf(n) = SunkOf(f) \cup {s}
          BY <1>4, <2>2
        <4>2. count[p] = Cardinality(SunkOf(f))
          BY <1>1
        <4> QED
          BY <4>1, <4>2, SunkCount
      <3> QED
        BY <1>1, <1>5, <2>1, <2>2, <3>1
    <2>3. CASE ~ship_destroyed(n[s])
      BY <1>1, <1>4, <1>5, <2>1, <2>3
    <2> QED
      BY <2>2, <2>3
  <1>9. IF count'[p] = AMOUNT_OF_SHIP THEN game_end(p) ELSE PassTurn(p) /\ UNCHANGED winner
    <2>1. (\E q \in Player : count'[q] >= AMOUNT_OF_SHIP) <=> count'[p] = AMOUNT_OF_SHIP
      <3>1. count'[p] >= AMOUNT_OF_SHIP <=> count'[p] = AMOUNT_OF_SHIP
        BY <1>8, BoardAssumption
      <3>2. ~(count'[o] >= AMOUNT_OF_SHIP)
        BY <1>1, <1>8, BoardAssumption
      <3> QED
        BY <1>1, <3>1, <3>2
    <2> QED
      BY <1>5, <2>1
  <1>10. s \in SunkOf(n) <=> ship_destroyed(n[s])
    BY <1>4
  <1> QED
    BY <1>4, <1>7, <1>8, <1>9, <1>10

LEMMA HitKeepsInv ==
  ASSUME MatchInv, NEW p \in Player, state[p] = STATE_IN_GAME_PLAYING, error' = OK,
         NEW sq \in Cells, Target(p, sq) \in ShipNumbers, FireHit(p, sq)
  PROVE  MatchInv'
  <1> PICK o \in Player : o = Opponent(p)
    BY Players
  <1>1. /\ board'[p] = board[p] /\ board' \in [Player -> Boards]
        /\ ships'[p] = ships[p] /\ ships' \in [Player -> [ShipNumbers -> ShipType]]
        /\ count'[o] = count[o] /\ count' \in [Player -> 0 .. AMOUNT_OF_SHIP]
        /\ Afloat(board'[o], ships'[o]) /\ count'[p] = Cardinality(SunkOf(ships'[o]))
        /\ IF count'[p] = AMOUNT_OF_SHIP THEN game_end(p)
                                         ELSE PassTurn(p) /\ UNCHANGED winner
    BY HitSteps
  <1>2. error' # ERROR_INTERNAL
    BY DEF OK, ERROR_INTERNAL
  <1>3. CASE count'[p] = AMOUNT_OF_SHIP
    BY <1>1, <1>2, <1>3, EndKeepsInv
  <1>4. CASE count'[p] # AMOUNT_OF_SHIP
    <2>1. count'[p] < AMOUNT_OF_SHIP
      <3>1. count'[p] \in 0 .. AMOUNT_OF_SHIP
        BY <1>1
      <3> QED
        BY <1>4, <3>1, BoardAssumption
    <2> QED
      BY <1>1, <1>2, <1>4, <2>1, PassKeepsInv
  <1> QED
    BY <1>3, <1>4

-----------------------------------------------------------------------------
(* The invariant *)

\* A step with any layout and any numbers, of which Next has those that the
\* constants name and System those that its clients send.
Played ==
  \/ \E p \in Player : \/ \E layout \in Seq(Int) : cmd_game_prepared(p, layout)
                       \/ \E x, y : cmd_game_fire(p, x, y)
                       \/ Leave(p)
  \/ BothLost

LEMMA NextPlays == Next => Played
  BY MatchAssumption DEF Next, Played

LEMMA PlayedKeepsInv == MatchInv /\ (Played \/ UNCHANGED vars) => MatchInv'
  <1> SUFFICES ASSUME MatchInv, Played \/ UNCHANGED vars PROVE MatchInv'
    OBVIOUS
  <1>1. ASSUME NEW p \in Player, NEW layout \in Seq(Int), cmd_game_prepared(p, layout)
        PROVE  MatchInv'
    BY <1>1, PrepareKeepsInv
  <1>2. ASSUME NEW p \in Player, NEW x, NEW y, cmd_game_fire(p, x, y)
        PROVE  MatchInv'
    BY <1>2, FireSteps, RefuseKeepsInv, MissKeepsInv, HitKeepsInv
  <1>3. ASSUME NEW name \in Player \cup {NullName}, winner = Undecided, game_end(name),
               UNCHANGED <<board, ships, count, error>>
        PROVE  MatchInv'
    <2>1. /\ board' \in [Player -> Boards]
          /\ ships' \in [Player -> [ShipNumbers -> ShipType]]
          /\ count' \in [Player -> 0 .. AMOUNT_OF_SHIP] /\ error' # ERROR_INTERNAL
      BY <1>3 DEF MatchInv, TypeOK, Boards
    <2> QED
      BY <1>3, <2>1, EndKeepsInv
  <1>4. CASE UNCHANGED vars
    BY <1>4 DEF vars, MatchInv, TypeOK, Phases, Prepared, Sides
  <1>5. ASSUME NEW p \in Player, Leave(p)
        PROVE  MatchInv'
    BY <1>3, <1>5 DEF Leave
  <1>6. CASE BothLost
    BY <1>3, <1>6 DEF BothLost
  <1> QED
    BY <1>1, <1>2, <1>4, <1>5, <1>6 DEF Played

THEOREM MatchInvariant == Spec => []MatchInv
  <1>1. MatchInv /\ [Next]_vars => MatchInv'
    BY NextPlays, PlayedKeepsInv
  <1> QED
    BY <1>1, InitInv, PTL DEF Spec

\* Boards hold the characters that the clients can draw, ships fit in a row and
\* counts never exceed the fleet, whatever layouts and numbers players send.
THEOREM MatchTypeCorrect == Spec => []TypeOK
  <1>1. MatchInv => TypeOK
    BY DEF MatchInv
  <1> QED
    BY <1>1, MatchInvariant, PTL

LEMMA ShipSquaresAre ==
  ASSUME NEW p, NEW s
  PROVE  ShipSquares(p, s) = Squares(ships[p][s])
  BY DEF ShipSquares, Squares, SquareOf

\* A prepared player's board and fleet, from the invariant.
LEMMA PreparedAfloat ==
  ASSUME MatchInv, NEW p \in Player, Prepared(p)
  PROVE  /\ Afloat(board[p], ships[p])
         /\ count[Opponent(p)] = Cardinality(SunkOf(ships[p]))
         /\ count[Opponent(p)] < AMOUNT_OF_SHIP
         /\ Sunk(p) = SunkOf(ships[p])
  BY DEF MatchInv, Sides, Side, Prepared, Sunk, SunkOf

\* The board and the ships of a prepared player tell the same: however many
\* layouts were refused before, and whatever is shot at, each square of a ship
\* shows its number or a hit, and the ship's health counts the former
\* (cmd_game_prepared, cmd_game_fire, mark_destroyed_ship).
THEOREM FleetStaysOnBoard == Spec => []FleetOnBoard
  <1>1. MatchInv => FleetOnBoard
    <2> SUFFICES ASSUME MatchInv, NEW p \in Player, Prepared(p)
                 PROVE  /\ \A s \in ShipNumbers :
                             /\ ships[p][s].length = ShipLength[s]
                             /\ \A c \in ShipSquares(p, s) : board[p][c] \in {s, Hit}
                             /\ ships[p][s].health =
                                  Cardinality({c \in ShipSquares(p, s) : board[p][c] = s})
                        /\ \A c \in Cells \ UNION {ShipSquares(p, s) : s \in ShipNumbers} :
                             board[p][c] \in {Empty, Miss}
      BY DEF FleetOnBoard
    <2>1. Afloat(board[p], ships[p])
      BY PreparedAfloat
    <2>2. ASSUME NEW s \in ShipNumbers
          PROVE  /\ ships[p][s].length = ShipLength[s]
                 /\ \A c \in ShipSquares(p, s) : board[p][c] \in {s, Hit}
                 /\ ships[p][s].health =
                      Cardinality({c \in ShipSquares(p, s) : board[p][c] = s})
      <3>1. ShipSquares(p, s) = Squares(ships[p][s])
        BY ShipSquaresAre
      <3> QED
        BY <2>1, <3>1 DEF Afloat
    <2>3. ASSUME NEW c \in Cells \ UNION {ShipSquares(p, s) : s \in ShipNumbers}
          PROVE  board[p][c] \in {Empty, Miss}
      <3>1. \A s \in ShipNumbers : c \notin Squares(ships[p][s])
        BY <2>3, ShipSquaresAre
      <3> QED
        BY <2>1, <3>1 DEF Afloat
    <2> QED
      BY <2>2, <2>3
  <1> QED
    BY <1>1, MatchInvariant, PTL

\* All the water around a sunk ship is marked as a miss, on a board of any size
\* and for a ship at any edge (mark_destroyed_ship).
THEOREM SunkMarked == Spec => []SunkShipsMarked
  <1>1. MatchInv => SunkShipsMarked
    <2> SUFFICES ASSUME MatchInv, NEW p \in Player, Prepared(p),
                        NEW s \in Sunk(p), NEW c \in Cells, c \notin ShipSquares(p, s),
                        \E a \in ShipSquares(p, s) : Adjacent(a, c)
                 PROVE  board[p][c] = Miss
      BY DEF SunkShipsMarked
    <2>1. Afloat(board[p], ships[p]) /\ s \in SunkOf(ships[p])
      BY PreparedAfloat
    <2>2. ShipSquares(p, s) = Squares(ships[p][s])
      BY ShipSquaresAre
    <2> QED
      BY <2>1, <2>2 DEF Afloat
  <1> QED
    BY <1>1, MatchInvariant, PTL

\* A ship that is not sunk still shows its number.
LEMMA ShipShows ==
  ASSUME NEW b, NEW f, Afloat(b, f), NEW s \in ShipNumbers \ SunkOf(f)
  PROVE  \E c \in Squares(f[s]) : c \in Cells /\ b[c] = s
  <1> DEFINE S == {c \in Squares(f[s]) : b[c] = s}
  <1>1. Squares(f[s]) \subseteq Cells /\ f[s].health = Cardinality(S)
    BY DEF Afloat, Floating
  <1>2. f[s].health # 0
    BY DEF SunkOf
  <1>3. S # {}
    <2> SUFFICES ASSUME S = {} PROVE FALSE
      OBVIOUS
    <2>1. Cardinality(S) = 0
      BY SunkNone
    <2> QED
      BY <1>1, <1>2, <2>1
  <1> QED
    BY <1>1, <1>3

\* p1_count and p2_count are the sunk ships of the opponents, and a game that goes
\* on has a ship to fire at on both boards: the last hit ends it at once
\* (cmd_game_fire).
THEOREM FleetsStayAfloat == Spec => []FleetsFloat
  <1>1. MatchInv => FleetsFloat
    <2> SUFFICES ASSUME MatchInv, \A p \in Player : Prepared(p), NEW p \in Player
                 PROVE  /\ count[p] = Cardinality(Sunk(Opponent(p)))
                        /\ \E c \in Cells : isdigit(Target(p, c))
      BY DEF FleetsFloat
    <2> PICK o \in Player : o = Opponent(p)
      BY Players
    <2>1. Prepared(o) /\ Opponent(o) = p
      BY Players
    <2>2. /\ Afloat(board[o], ships[o]) /\ Sunk(o) = SunkOf(ships[o])
          /\ count[p] = Cardinality(SunkOf(ships[o])) /\ count[p] < AMOUNT_OF_SHIP
      BY <2>1, PreparedAfloat
    <2>3. PICK s \in ShipNumbers : s \notin SunkOf(ships[o])
      <3>1. Cardinality(SunkOf(ships[o])) # AMOUNT_OF_SHIP
        BY <2>2, BoardAssumption
      <3>2. SunkOf(ships[o]) # ShipNumbers
        BY <3>1, SunkCount
      <3> QED
        BY <3>2 DEF SunkOf
    <2>4. PICK c \in Cells : board[o][c] = s
      BY <2>2, <2>3, ShipShows
    <2>5. isdigit(Target(p, c))
      BY <2>4, Characters DEF Target
    <2> QED
      BY <2>2, <2>5
  <1> QED
    BY <1>1, MatchInvariant, PTL

\* cmd_game_fire never finds an unknown character: its last branch is dead code.
THEOREM InternalErrorImpossible == Spec => NoInternalError
  <1>1. MatchInv' => error' # ERROR_INTERNAL
    BY DEF MatchInv
  <1> QED
    BY <1>1, MatchInvariant, PTL DEF NoInternalError

-----------------------------------------------------------------------------
(* Match implements Duel: what the players see of boards and fleets *)

\* The squares of the ships of a fleet.
FleetOf(f) == [s \in ShipNumbers |-> Squares(f[s])]

OpenedOf(b) == {c \in Cells : b[c] \in {Hit, Miss}}

LEMMA OtherIs ==
  ASSUME NEW p \in Player
  PROVE  Game!Other(p) = Opponent(p)
  BY Players DEF Game!Other

LEMMA SquaresAre == Game!Squares = Cells
  BY DEF Game!Squares, Cells, Coords

LEMMA CleanFleet == FleetOf(clean_client_ships) = Game!NoFleet
  <1>1. \A s \in ShipNumbers : Squares(clean_client_ships[s]) = {}
    BY EmptyShip DEF clean_client_ships
  <1> QED
    BY <1>1 DEF FleetOf, Game!NoFleet

\* The squares of a ship on the board are part of a row or a column.
LEMMA ShipInLine ==
  ASSUME NEW ship, Floating(ship), ship.length # 0
  PROVE  Squares(ship) \in Game!Lines(ship.length)
  <1>1. <<ship.startX, ship.startY>> \in Cells
    BY DEF Floating, Cells
  <1> PICK c \in Cells : c = <<ship.startX, ship.startY>>
    BY <1>1
  <1>2. c[1] = ship.startX /\ c[2] = ship.startY
    OBVIOUS
  <1>3. CASE ship.vertical
    <2>1. Squares(ship) = {<<c[1], c[2] + k>> : k \in 0 .. ship.length - 1}
      BY <1>2, <1>3 DEF Squares, SquareOf
    <2> QED
      BY <2>1, SquaresAre DEF Game!Lines
  <1>4. CASE ~ship.vertical
    <2>1. Squares(ship) = {<<c[1] + k, c[2]>> : k \in 0 .. ship.length - 1}
      BY <1>2, <1>4 DEF Squares, SquareOf
    <2> QED
      BY <2>1, SquaresAre DEF Game!Lines
  <1> QED
    BY <1>3, <1>4

LEMMA NearIs ==
  ASSUME NEW a \in Cells, NEW c \in Cells
  PROVE  Game!Near(a, c) <=> a = c \/ Adjacent(a, c)
  <1>1. a[1] \in Int /\ a[2] \in Int
    BY BoardAssumption DEF Cells, Coords
  <1> QED
    BY <1>1 DEF Game!Near, Adjacent

LEMMA LawfulFleet ==
  ASSUME NEW b, NEW f, Afloat(b, f)
  PROVE  FleetOf(f) \in Game!LawfulFleets /\ FleetOf(f) # Game!NoFleet
  <1> PICK g : g = FleetOf(f)
    OBVIOUS
  <1>1. ASSUME NEW s \in ShipNumbers
        PROVE  /\ g[s] = Squares(f[s]) /\ g[s] \in Game!Lines(ShipLength[s])
               /\ g[s] \subseteq Cells
    <2>1. Floating(f[s]) /\ f[s].length = ShipLength[s] /\ f[s].length # 0
      BY BoardAssumption DEF Afloat
    <2>2. g[s] = Squares(f[s])
      BY DEF FleetOf
    <2>3. Squares(f[s]) \in Game!Lines(f[s].length)
      BY <2>1, ShipInLine
    <2> QED
      BY <2>1, <2>2, <2>3 DEF Floating
  <1>2. g \in [ShipNumbers -> UNION {Game!Lines(ShipLength[s]) : s \in ShipNumbers}]
    <2>1. g = [s \in ShipNumbers |-> g[s]]
      BY DEF FleetOf
    <2> QED
      BY <1>1, <2>1
  <1>3. ASSUME NEW s \in ShipNumbers, NEW t \in ShipNumbers, s # t,
               NEW a \in g[s], NEW c \in g[t]
        PROVE  ~Game!Near(a, c)
    <2>1. a \in Cells /\ c \in Cells /\ a \in Squares(f[s]) /\ c \in Squares(f[t])
      BY <1>1
    <2>2. a # c /\ ~Adjacent(a, c)
      BY <1>3, <2>1 DEF Afloat
    <2> QED
      BY <2>1, <2>2, NearIs
  <1>4. g # Game!NoFleet
    <2>1. 0 \in ShipNumbers
      BY BoardAssumption DEF ShipNumbers
    <2>2. SquareOf(f[0], 0) \in Squares(f[0])
      <3>1. f[0].length \in Nat \ {0}
        BY <2>1, BoardAssumption DEF Afloat
      <3>2. 0 \in 0 .. (f[0].length - 1)
        BY <3>1
      <3> QED
        BY <3>2 DEF Squares
    <2>3. g[0] # {}
      BY <1>1, <2>1, <2>2
    <2>4. Game!NoFleet[0] = {}
      BY <2>1 DEF Game!NoFleet
    <2> QED
      BY <2>3, <2>4
  <1>5. g \in Game!LawfulFleets
    BY <1>1, <1>2, <1>3, SquaresAre DEF Game!LawfulFleets
  <1> QED
    BY <1>4, <1>5

LEMMA NothingOpened ==
  ASSUME NEW b \in Sketches
  PROVE  OpenedOf(b) = {}
  <1>1. \A c \in Cells : b[c] \in ShipNumbers \cup {Empty}
    BY DEF Sketches
  <1>2. Hit \notin ShipNumbers \cup {Empty} /\ Miss \notin ShipNumbers \cup {Empty}
    BY Characters DEF Hit, Miss, Empty
  <1> QED
    BY <1>1, <1>2 DEF OpenedOf

\* A ship is sunk when all its squares are opened.
LEMMA SunkWhenOpened ==
  ASSUME NEW b, NEW f, Afloat(b, f), NEW s \in ShipNumbers
  PROVE  s \in SunkOf(f) <=> Squares(f[s]) \subseteq OpenedOf(b)
  <1>1. /\ Squares(f[s]) \subseteq Cells
        /\ \A c \in Squares(f[s]) : b[c] \in {s, Hit}
        /\ f[s].health = Cardinality({c \in Squares(f[s]) : b[c] = s})
    BY DEF Afloat, Floating
  <1>2. s \notin {Hit, Miss}
    BY Characters
  <1>3. ASSUME s \notin SunkOf(f)
        PROVE  ~(Squares(f[s]) \subseteq OpenedOf(b))
    <2>1. PICK c \in Squares(f[s]) : b[c] = s
      BY <1>3, ShipShows
    <2> QED
      BY <1>2, <2>1 DEF OpenedOf
  <1>4. ASSUME s \in SunkOf(f)
        PROVE  Squares(f[s]) \subseteq OpenedOf(b)
    <2> PICK S : S = {c \in Squares(f[s]) : b[c] = s}
      OBVIOUS
    <2>1. IsFiniteSet(S) /\ Cardinality(S) = 0
      <3>1. S \in SUBSET Squares(f[s]) /\ Floating(f[s])
        BY DEF Afloat
      <3>2. IsFiniteSet(S)
        BY <3>1, SomeSquares
      <3> QED
        BY <1>1, <1>4, <3>2 DEF SunkOf
    <2>2. S = {}
      BY <2>1, FS_EmptySet
    <2>3. \A c \in Squares(f[s]) : b[c] = Hit
      BY <1>1, <2>2
    <2> QED
      BY <1>1, <2>3 DEF OpenedOf
  <1> QED
    BY <1>3, <1>4

\* The ships of a fleet as sets of squares, and those that the shots opened.
ShipsOf(f)      == {FleetOf(f)[s] : s \in ShipNumbers}
SunkBy(f, shot) == {squares \in ShipsOf(f) : squares \subseteq shot}

\* What a shot at sq opens, when beside the square only the water around sunk
\* ships is marked, is what the rules of Duel open.
LEMMA ShotOpens ==
  ASSUME NEW b, NEW f, Afloat(b, f), NEW m, NEW n, Afloat(m, n),
         FleetOf(n) = FleetOf(f), NEW sq \in Cells,
         NEW shot, shot = OpenedOf(b) \cup {sq}, shot \subseteq OpenedOf(m),
         \A c \in OpenedOf(m) : c \in shot \/
           \E s \in SunkOf(n) : /\ c \notin Squares(f[s])
                                /\ \E a \in Squares(f[s]) : Adjacent(a, c)
  PROVE  /\ OpenedOf(m) = shot \cup UNION {Game!Around(s) : s \in SunkBy(f, shot)}
         /\ SunkBy(f, shot) = ShipsOf(f) <=> SunkOf(n) = ShipNumbers
  <1> DEFINE fleet == {FleetOf(f)[s] : s \in ShipNumbers}
             sunk  == {squares \in fleet : squares \subseteq shot}
  <1>0. fleet = ShipsOf(f) /\ sunk = SunkBy(f, shot)
    BY DEF ShipsOf, SunkBy
  <1>1. ASSUME NEW s \in ShipNumbers
        PROVE  /\ Squares(n[s]) = Squares(f[s]) /\ FleetOf(f)[s] = Squares(f[s])
               /\ Squares(f[s]) \subseteq Cells
    <2>1. FleetOf(n)[s] = Squares(n[s]) /\ FleetOf(f)[s] = Squares(f[s])
      BY DEF FleetOf
    <2> QED
      BY <2>1 DEF Afloat, Floating
  \* The marking is off the ships, so a ship is sunk when the shots opened it.
  <1>2. ASSUME NEW s \in ShipNumbers
        PROVE  s \in SunkOf(n) <=> Squares(f[s]) \subseteq shot
    <2>1. s \in SunkOf(n) <=> Squares(f[s]) \subseteq OpenedOf(m)
      BY <1>1, SunkWhenOpened
    <2>2. ASSUME NEW c \in Squares(f[s]), c \in OpenedOf(m)
          PROVE  c \in shot
      <3> SUFFICES ASSUME NEW t \in SunkOf(n), c \notin Squares(f[t]),
                          NEW a \in Squares(f[t]), Adjacent(a, c)
                   PROVE  FALSE
        BY <2>2
      <3>1. t \in ShipNumbers /\ t # s
        BY DEF SunkOf
      <3> QED
        BY <3>1 DEF Afloat
    <2> QED
      BY <2>1, <2>2
  <1>3. ASSUME NEW t \in SunkOf(n)
        PROVE  Game!Around(Squares(f[t])) \subseteq OpenedOf(m)
    <2>1. t \in ShipNumbers
      BY DEF SunkOf
    <2> SUFFICES ASSUME NEW c \in Cells, NEW a \in Squares(f[t]), Game!Near(a, c)
                 PROVE  c \in OpenedOf(m)
      BY SquaresAre DEF Game!Around
    <2>2. a \in Cells /\ (a = c \/ Adjacent(a, c))
      BY <1>1, <2>1, NearIs
    <2>3. CASE c \in Squares(f[t])
      BY <1>2, <2>1, <2>3
    <2>4. CASE c \notin Squares(f[t])
      <3>1. Squares(n[t]) = Squares(f[t]) /\ Adjacent(a, c)
        BY <1>1, <2>1, <2>2, <2>4
      <3>2. m[c] = Miss
        BY <2>4, <3>1 DEF Afloat
      <3> QED
        BY <3>2 DEF OpenedOf
    <2> QED
      BY <2>3, <2>4
  <1>4. ASSUME NEW t \in SunkOf(n), NEW c \in Cells, NEW a \in Squares(f[t]), Adjacent(a, c)
        PROVE  c \in Game!Around(Squares(f[t]))
    <2>1. a \in Cells
      BY <1>1 DEF SunkOf
    <2>2. Game!Near(a, c)
      BY <1>4, <2>1, NearIs
    <2> QED
      BY <2>2, SquaresAre DEF Game!Around
  <1>5. sunk = {Squares(f[s]) : s \in SunkOf(n)}
    <2>1. \A squares \in sunk : \E s \in SunkOf(n) : squares = Squares(f[s])
      BY <1>1, <1>2
    <2>2. \A s \in SunkOf(n) : s \in ShipNumbers
      BY DEF SunkOf
    <2>3. \A s \in SunkOf(n) : Squares(f[s]) \in sunk
      BY <1>1, <1>2, <2>2
    <2> QED
      BY <2>1, <2>3
  <1>6. sunk = fleet <=> SunkOf(n) = ShipNumbers
    <2>1. ASSUME sunk = fleet
          PROVE  SunkOf(n) = ShipNumbers
      <3>1. \A s \in ShipNumbers : Squares(f[s]) \in sunk
        BY <1>1, <2>1
      <3>2. \A s \in ShipNumbers : s \in SunkOf(n)
        BY <1>2, <3>1
      <3> QED
        BY <3>2 DEF SunkOf
    <2>2. ASSUME SunkOf(n) = ShipNumbers
          PROVE  sunk = fleet
      BY <1>1, <1>5, <2>2
    <2> QED
      BY <2>1, <2>2
  <1>7. OpenedOf(m) = shot \cup UNION {Game!Around(s) : s \in sunk}
    <2> HIDE DEF sunk, fleet
    <2>1. ASSUME NEW c \in OpenedOf(m), c \notin shot
          PROVE  \E s \in sunk : c \in Game!Around(s)
      <3>1. c \in Cells
        BY DEF OpenedOf
      <3>2. PICK t \in SunkOf(n) : \E a \in Squares(f[t]) : Adjacent(a, c)
        BY <2>1
      <3>3. c \in Game!Around(Squares(f[t]))
        BY <1>4, <3>1, <3>2
      <3> QED
        BY <1>5, <3>3
    <2>2. ASSUME NEW s \in sunk
          PROVE  Game!Around(s) \subseteq OpenedOf(m)
      BY <1>3, <1>5
    <2> QED
      BY <2>1, <2>2
  <1> HIDE DEF sunk, fleet
  <1> QED
    BY <1>0, <1>6, <1>7

-----------------------------------------------------------------------------
(* Every step is one of Duel, or is not seen *)

\* What the mapped variables are.
LEMMA Seen ==
  /\ FleetsSeen = [p \in Player |-> FleetOf(ships[p])]
  /\ FleetsSeen' = [p \in Player |-> FleetOf(ships'[p])]
  /\ OpenedSeen = [p \in Player |-> OpenedOf(board[p])]
  /\ OpenedSeen' = [p \in Player |-> OpenedOf(board'[p])]
  <1>1. \A p \in Player : [s \in ShipNumbers |-> ShipSquares(p, s)] = FleetOf(ships[p])
    BY DEF ShipSquares, FleetOf, Squares, SquareOf
  <1>2. \A p \in Player : [s \in ShipNumbers |-> ShipSquares(p, s)'] = FleetOf(ships'[p])
    BY DEF ShipSquares, FleetOf, Squares, SquareOf
  <1> QED
    BY <1>1, <1>2 DEF FleetsSeen, OpenedSeen, Opened, OpenedOf

LEMMA TurnSeen ==
  ASSUME NEW p \in Player
  PROVE  /\ state[p] = STATE_IN_GAME_PLAYING /\ state[Opponent(p)] # STATE_IN_GAME_PLAYING
              => OnTurn = p
         /\ state'[p] = STATE_IN_GAME_PLAYING /\ state'[Opponent(p)] # STATE_IN_GAME_PLAYING
              => OnTurn' = p
         /\ (\A q \in Player : state[q] # STATE_IN_GAME_PLAYING) => OnTurn = Undecided
         /\ (\A q \in Player : state'[q] # STATE_IN_GAME_PLAYING) => OnTurn' = Undecided
  BY Players DEF OnTurn

LEMMA InitDuel == Init => Game!DuelInit
  <1> SUFFICES ASSUME Init PROVE Game!DuelInit
    OBVIOUS
  <1>1. [c \in Cells |-> Empty] \in Sketches
    BY DEF Sketches
  <1>2. OpenedSeen = [p \in Player |-> {}]
    BY <1>1, Seen, NothingOpened DEF Init
  <1>3. FleetsSeen = [p \in Player |-> Game!NoFleet]
    BY Seen, CleanFleet DEF Init
  <1>4. OnTurn = Undecided
    BY TurnSeen, Players DEF Init, STATE_IN_GAME_PREPARING, STATE_IN_GAME_PLAYING
  <1>5. Over = FALSE /\ WinnerSeen = Undecided
    BY DEF Init, Over, WinnerSeen
  <1> QED
    BY <1>2, <1>3, <1>4, <1>5 DEF Game!DuelInit

LEMMA StutterDuel ==
  ASSUME UNCHANGED <<state, board, ships, winner>>
  PROVE  UNCHANGED Game!duelVars
  <1>1. UNCHANGED <<FleetsSeen, OpenedSeen>>
    BY Seen
  <1>2. UNCHANGED <<OnTurn, Over, WinnerSeen>>
    BY DEF OnTurn, Over, WinnerSeen
  <1> QED
    BY <1>1, <1>2 DEF Game!duelVars

\* A layout that is accepted places a fleet, and nothing is seen of one that is
\* refused.
LEMMA PrepareRefines ==
  ASSUME MatchInv, NEW p \in Player, NEW layout \in Seq(Int), cmd_game_prepared(p, layout)
  PROVE  Game!Place(p) \/ UNCHANGED Game!duelVars
  <1> PICK o \in Player : o = Opponent(p)
    BY Players
  <1>1. /\ o # p /\ p = Opponent(o) /\ \A q \in Player : q = p \/ q = o
        /\ Game!Other(p) = o
    BY Players, OtherIs
  <1>2. CASE state[p] # STATE_IN_GAME_PREPARING
    BY <1>2, StutterDuel DEF cmd_game_prepared, Refuse
  <1>3. CASE state[p] = STATE_IN_GAME_PREPARING
    <2>0. /\ board \in [Player -> Boards]
          /\ ships \in [Player -> [ShipNumbers -> ShipType]]
      BY DEF MatchInv, TypeOK, Boards
    <2>1. /\ winner = Undecided /\ winner' = winner
          /\ board[p] \in Sketches /\ ships[p] = clean_client_ships
          /\ board' = [board EXCEPT ![p] = board'[p]]
          /\ ships' = [ships EXCEPT ![p] = ships'[p]]
      BY <1>3, PrepareSteps
    <2>2. board'[o] = board[o] /\ ships'[o] = ships[o]
      BY <1>1, <2>0, <2>1
    <2>3. /\ FleetsSeen[p] = Game!NoFleet /\ FleetsSeen'[p] = FleetOf(ships'[p])
          /\ FleetsSeen[o] = FleetOf(ships[o]) /\ FleetsSeen'[o] = FleetsSeen[o]
      BY <2>1, <2>2, Seen, CleanFleet
    <2>4. OpenedOf(board[p]) = {}
      BY <2>1, NothingOpened
    <2>5. ASSUME OpenedOf(board'[p]) = {}
          PROVE  OpenedSeen' = OpenedSeen
      <3>1. \A q \in Player : OpenedOf(board'[q]) = OpenedOf(board[q])
        BY <1>1, <2>2, <2>4, <2>5
      <3> QED
        BY <3>1, Seen
    <2>6. UNCHANGED <<Over, WinnerSeen>>
      BY <2>1 DEF Over, WinnerSeen
    <2>7. CASE /\ error' = OK /\ state' = StatesWhenPrepared(p)
               /\ Placed(board'[p], ships'[p])
      <3>1. LET s == state' IN
            /\ state[o] \in {STATE_IN_GAME_PREPARING, STATE_IN_GAME}
            /\ state[o] = STATE_IN_GAME_PREPARING =>
                 s[p] = STATE_IN_GAME /\ s[o] = STATE_IN_GAME_PREPARING
            /\ state[o] = STATE_IN_GAME =>
                 s[1] = STATE_IN_GAME_PLAYING /\ s[2] = STATE_IN_GAME
        BY <1>3, <2>7, StatesPrepared
      <3>2. Afloat(board'[p], ships'[p]) /\ board'[p] \in Sketches
        BY <2>7, PlacedAfloat DEF Placed
      <3>3. OpenedSeen' = OpenedSeen
        BY <2>5, <3>2, NothingOpened
      <3>4. FleetsSeen'[p] \in Game!LawfulFleets
        BY <2>3, <3>2, LawfulFleet
      <3>5. FleetsSeen' = [FleetsSeen EXCEPT ![p] = FleetsSeen'[p]]
        <4>1. \A q \in Player : FleetsSeen'[q] = [FleetsSeen EXCEPT ![p] = FleetsSeen'[p]][q]
          BY <1>1, <2>3, Seen
        <4> QED
          BY <4>1, Seen
      <3>6. OnTurn = Undecided
        BY <1>1, <1>3, <3>1, TurnSeen DEF STATE_IN_GAME_PREPARING, STATE_IN_GAME,
           STATE_IN_GAME_PLAYING
      <3>7. OnTurn' = IF FleetsSeen[o] = Game!NoFleet THEN Undecided ELSE 1
        <4>1. CASE state[o] = STATE_IN_GAME_PREPARING
          <5>1. FleetsSeen[o] = Game!NoFleet
            <6>1. ships[o] = clean_client_ships
              BY <4>1 DEF MatchInv, Sides, Side
            <6> QED
              BY <2>3, <6>1, CleanFleet
          <5>2. OnTurn' = Undecided
            BY <1>1, <3>1, <4>1, TurnSeen DEF STATE_IN_GAME_PREPARING, STATE_IN_GAME,
               STATE_IN_GAME_PLAYING
          <5> QED
            BY <5>1, <5>2
        <4>2. CASE state[o] = STATE_IN_GAME
          <5>1. FleetsSeen[o] # Game!NoFleet
            <6>1. Afloat(board[o], ships[o])
              BY <4>2, PreparedAfloat DEF Prepared
            <6> QED
              BY <2>3, <6>1, LawfulFleet
          <5>2. OnTurn' = 1
            <6>1. 1 \in Player /\ Opponent(1) = 2
              BY DEF Player, Opponent
            <6>2. /\ state'[1] = STATE_IN_GAME_PLAYING
                  /\ state'[Opponent(1)] # STATE_IN_GAME_PLAYING
              BY <3>1, <4>2, <6>1 DEF STATE_IN_GAME, STATE_IN_GAME_PLAYING
            <6> QED
              BY <6>1, <6>2, TurnSeen
          <5> QED
            BY <5>1, <5>2
        <4> QED
          BY <3>1, <4>1, <4>2
      <3>8. ~Over
        BY <2>1 DEF Over
      <3>9. Game!Place(p)
        BY <1>1, <2>3, <2>6, <3>3, <3>4, <3>5, <3>6, <3>7, <3>8 DEF Game!Place
      <3> QED
        BY <3>9
    <2>8. CASE /\ error' \in PrepareErrors /\ UNCHANGED state
               /\ board'[p] \in Sketches /\ ships'[p] = clean_client_ships
      <3>1. OpenedSeen' = OpenedSeen
        BY <2>5, <2>8, NothingOpened
      <3>2. FleetsSeen' = FleetsSeen
        <4>1. \A q \in Player : FleetOf(ships'[q]) = FleetOf(ships[q])
          BY <1>1, <2>1, <2>2, <2>8
        <4> QED
          BY <4>1, Seen
      <3>3. OnTurn' = OnTurn
        BY <2>8 DEF OnTurn
      <3> QED
        BY <2>6, <3>1, <3>2, <3>3 DEF Game!duelVars
    <2> QED
      BY <1>3, <2>7, <2>8, PrepareSteps
  <1> QED
    BY <1>2, <1>3

\* The end of a game that is not decided by a shot.
LEMMA EndRefines ==
  ASSUME MatchInv, winner = Undecided, NEW name \in Player \cup {NullName},
         game_end(name), UNCHANGED <<board, ships>>
  PROVE  Game!Abandon
  <1>1. ~Over /\ Over' /\ WinnerSeen' \in Player \cup {Undecided}
    BY DEF Over, WinnerSeen, game_end, Player, Undecided, NullName
  <1>2. OnTurn' = Undecided
    BY TurnSeen, Players DEF game_end, STATE_IN_LOBBY, STATE_IN_GAME_PLAYING
  <1>3. UNCHANGED <<FleetsSeen, OpenedSeen>>
    BY Seen
  <1> QED
    BY <1>1, <1>2, <1>3 DEF Game!Abandon

\* A shot of p that opens what Duel says, as Fire of Duel has it.
LEMMA FireMaps ==
  ASSUME NEW p \in Player, NEW o \in Player, o = Opponent(p),
         NEW b, NEW f, NEW m, NEW n,
         b = board[o], f = ships[o], m = board'[o], n = ships'[o],
         board'[p] = board[p], ships'[p] = ships[p],
         Afloat(b, f), Afloat(m, n), FleetOf(n) = FleetOf(f),
         NEW sq \in Cells, sq \notin OpenedOf(b),
         OpenedOf(b) \cup {sq} \subseteq OpenedOf(m),
         \A c \in OpenedOf(m) : c \in OpenedOf(b) \cup {sq} \/
           \E s \in SunkOf(n) : /\ c \notin Squares(f[s])
                                /\ \E a \in Squares(f[s]) : Adjacent(a, c),
         OnTurn = p, OnTurn' # p,
         Over' <=> SunkOf(n) = ShipNumbers,
         IF Over' THEN OnTurn' = Undecided /\ WinnerSeen' = p
                  ELSE OnTurn' = o /\ UNCHANGED WinnerSeen
  PROVE  Game!Fire(p)
  <1>1. /\ o # p /\ \A q \in Player : q = p \/ q = o
        /\ Game!Other(p) = o
    BY Players, OtherIs
  <1> PICK shot : shot = OpenedOf(b) \cup {sq}
    OBVIOUS
  <1> PICK sunk : sunk = SunkBy(f, shot)
    OBVIOUS
  <1>2. /\ OpenedOf(m) = shot \cup UNION {Game!Around(s) : s \in sunk}
        /\ sunk = ShipsOf(f) <=> SunkOf(n) = ShipNumbers
    <2>1. shot \subseteq OpenedOf(m)
      OBVIOUS
    <2>2. \A c \in OpenedOf(m) : c \in shot \/
            \E s \in SunkOf(n) : /\ c \notin Squares(f[s])
                                 /\ \E a \in Squares(f[s]) : Adjacent(a, c)
      OBVIOUS
    <2>3. OpenedOf(m) = shot \cup UNION {Game!Around(s) : s \in SunkBy(f, shot)}
      BY <2>1, <2>2, ShotOpens
    <2>4. SunkBy(f, shot) = ShipsOf(f) <=> SunkOf(n) = ShipNumbers
      BY <2>1, <2>2, ShotOpens
    <2> QED
      BY <2>3, <2>4
  <1>3. /\ OpenedSeen[o] = OpenedOf(b) /\ OpenedSeen'[o] = OpenedOf(m)
        /\ OpenedSeen'[p] = OpenedSeen[p] /\ FleetsSeen[o] = FleetOf(f)
    BY Seen
  <1>4. OpenedSeen' = [OpenedSeen EXCEPT ![o] = OpenedOf(m)]
    <2>1. \A q \in Player : OpenedSeen'[q] = [OpenedSeen EXCEPT ![o] = OpenedOf(m)][q]
      BY <1>1, <1>3, Seen
    <2> QED
      BY <2>1, Seen
  <1>5. FleetsSeen' = FleetsSeen
    <2>1. \A q \in Player : FleetOf(ships'[q]) = FleetOf(ships[q])
      BY <1>1
    <2> QED
      BY <2>1, Seen
  <1>6. sq \in OpenedSeen'[o] \ OpenedSeen[o]
    BY <1>3
  \* The same in the words of Game!Fire.
  <1> DEFINE q     == Game!Other(p)
             shots == OpenedSeen[q] \cup {sq}
             fleet == {FleetsSeen[q][s] : s \in ShipNumbers}
             gone  == {squares \in fleet : squares \subseteq shots}
  <1>7. shots = shot
    BY <1>1, <1>3
  <1>8. fleet = ShipsOf(f)
    BY <1>1, <1>3 DEF ShipsOf
  <1>9. gone = sunk
    <2> HIDE DEF fleet, shots
    <2> QED
      BY <1>7, <1>8 DEF SunkBy
  <1> HIDE DEF gone, fleet, shots, q
  <1>10. q = o
    BY <1>1 DEF q
  <1>11. Over' = (gone = fleet)
    BY <1>2, <1>8, <1>9 DEF Over
  <1>12. OpenedSeen' = [OpenedSeen EXCEPT ![q] = shots \cup UNION {Game!Around(s) : s \in gone}]
    BY <1>2, <1>4, <1>7, <1>9, <1>10
  <1>13. IF Over' THEN OnTurn' = Undecided /\ WinnerSeen' = p
                  ELSE OnTurn' = q /\ UNCHANGED WinnerSeen
    BY <1>10
  <1>14. sq \in OpenedSeen'[q] \ OpenedSeen[q]
    BY <1>6, <1>10
  <1> QED
    <2>1. /\ OpenedSeen' = [OpenedSeen EXCEPT
                              ![q] = shots \cup UNION {Game!Around(s) : s \in gone}]
          /\ Over' = (gone = fleet)
          /\ IF Over' THEN OnTurn' = Undecided /\ WinnerSeen' = p
                      ELSE OnTurn' = q /\ UNCHANGED WinnerSeen
      BY <1>11, <1>12, <1>13
    <2>2. \E c \in OpenedSeen'[q] \ OpenedSeen[q] :
            LET known == OpenedSeen[q] \cup {c}
                lost == {squares \in fleet : squares \subseteq known}
            IN /\ OpenedSeen' = [OpenedSeen EXCEPT
                                   ![q] = known \cup UNION {Game!Around(s) : s \in lost}]
               /\ Over' = (lost = fleet)
               /\ IF Over' THEN OnTurn' = Undecided /\ WinnerSeen' = p
                           ELSE OnTurn' = q /\ UNCHANGED WinnerSeen
      <3> WITNESS sq \in OpenedSeen'[q] \ OpenedSeen[q]
      <3> QED
        BY Zenon, <2>1 DEF gone, shots
    <2>3. OnTurn = p /\ OnTurn' # p /\ FleetsSeen' = FleetsSeen
      BY <1>5
    <2> QED
      BY Zenon, <2>2, <2>3 DEF Game!Fire, fleet, q

LEMMA MissRefines ==
  ASSUME MatchInv, NEW p \in Player, state[p] = STATE_IN_GAME_PLAYING,
         NEW sq \in Cells, Target(p, sq) = Empty, FireMiss(p, sq)
  PROVE  Game!Fire(p)
  <1> PICK o \in Player : o = Opponent(p)
    BY Players
  <1>1. /\ o # p /\ p = Opponent(o) /\ \A q \in Player : q = p \/ q = o
        /\ winner = Undecided /\ state[o] = STATE_IN_GAME
        /\ Afloat(board[o], ships[o]) /\ count[p] = Cardinality(SunkOf(ships[o]))
        /\ count[p] < AMOUNT_OF_SHIP
        /\ board \in [Player -> Boards]
    BY BeforeShot
  <1> PICK b, f, m : b = board[o] /\ f = ships[o] /\ m = [b EXCEPT ![sq] = Miss]
    OBVIOUS
  <1>2. /\ board' = [board EXCEPT ![o] = m] /\ PassTurn(p)
        /\ UNCHANGED <<ships, count, winner>>
    BY DEF FireMiss
  <1>3. b[sq] = Empty /\ b \in Boards
    BY <1>1 DEF Target
  <1>4. Afloat(m, f)
    BY <1>1, <1>3, MissAfloat
  <1>5. board'[o] = m /\ board'[p] = board[p] /\ ships' = ships
    BY <1>1, <1>2
  <1>6. m[sq] = Miss /\ \A c \in Cells : c # sq => m[c] = b[c]
    BY <1>3 DEF Boards
  <1>7. sq \notin OpenedOf(b) /\ OpenedOf(m) = OpenedOf(b) \cup {sq}
    BY <1>3, <1>6 DEF OpenedOf, Empty, Hit, Miss
  <1>8. /\ state[p] = STATE_IN_GAME_PLAYING /\ state[o] # STATE_IN_GAME_PLAYING
        /\ state'[p] # STATE_IN_GAME_PLAYING /\ state'[o] = STATE_IN_GAME_PLAYING
    BY <1>1, <1>2 DEF PassTurn, MatchInv, TypeOK, STATE_IN_GAME, STATE_IN_GAME_PLAYING
  <1>9. OnTurn = p /\ OnTurn' = o
    BY <1>1, <1>8, TurnSeen
  <1>10. ~Over' /\ UNCHANGED WinnerSeen
    BY <1>1, <1>2 DEF Over, WinnerSeen
  <1>11. SunkOf(f) # ShipNumbers
    <2>1. count[p] = Cardinality(SunkOf(f)) /\ count[p] < AMOUNT_OF_SHIP
      BY <1>1
    <2>2. Cardinality(SunkOf(f)) # AMOUNT_OF_SHIP
      BY <2>1, BoardAssumption
    <2> QED
      BY <2>2, SunkCount
  <1>12. /\ board'[p] = board[p] /\ ships'[p] = ships[p] /\ ships'[o] = f /\ board'[o] = m
         /\ OpenedOf(b) \cup {sq} \subseteq OpenedOf(m)
         /\ Over' <=> SunkOf(f) = ShipNumbers
         /\ IF Over' THEN OnTurn' = Undecided /\ WinnerSeen' = p
                     ELSE OnTurn' = o /\ UNCHANGED WinnerSeen
         /\ OnTurn = p /\ OnTurn' # p /\ Afloat(b, f)
    BY <1>1, <1>5, <1>7, <1>9, <1>10, <1>11
  <1>13. \A c \in OpenedOf(m) : c \in OpenedOf(b) \cup {sq} \/
           \E s \in SunkOf(f) : /\ c \notin Squares(f[s])
                                /\ \E a \in Squares(f[s]) : Adjacent(a, c)
    BY <1>7
  <1> QED
    BY <1>4, <1>7, <1>12, <1>13, FireMaps

LEMMA HitRefines ==
  ASSUME MatchInv, NEW p \in Player, state[p] = STATE_IN_GAME_PLAYING,
         NEW sq \in Cells, Target(p, sq) \in ShipNumbers, FireHit(p, sq)
  PROVE  Game!Fire(p)
  <1> PICK o \in Player : o = Opponent(p)
    BY Players
  <1>1. /\ o # p /\ p = Opponent(o) /\ \A q \in Player : q = p \/ q = o
        /\ winner = Undecided /\ state[o] = STATE_IN_GAME
        /\ Afloat(board[o], ships[o])
    BY BeforeShot
  <1> PICK b, f, m, n : b = board[o] /\ f = ships[o] /\ m = board'[o] /\ n = ships'[o]
    OBVIOUS
  <1> PICK s : s = b[sq]
    OBVIOUS
  <1>2. s \in ShipNumbers
    BY DEF Target
  <1>3. /\ board'[p] = board[p] /\ ships'[p] = ships[p]
        /\ Afloat(m, n) /\ count'[p] = Cardinality(SunkOf(n))
    BY HitSteps
  <1>4. IF count'[p] = AMOUNT_OF_SHIP THEN game_end(p) ELSE PassTurn(p) /\ UNCHANGED winner
    BY HitSteps
  <1>5. \A t \in ShipNumbers : Squares(n[t]) = Squares(f[t])
    BY HitSteps
  <1>6. \A c \in Cells : m[c] \in {Hit, Miss} <=>
              \/ c = sq \/ b[c] \in {Hit, Miss}
              \/ /\ s \in SunkOf(n) /\ c \notin Squares(f[s])
                 /\ \E a \in Squares(f[s]) : Adjacent(a, c)
    BY HitSteps
  <1>7. FleetOf(n) = FleetOf(f)
    BY <1>5 DEF FleetOf
  <1>8. sq \notin OpenedOf(b)
    BY <1>2, Characters DEF OpenedOf
  <1>9. OpenedOf(b) \cup {sq} \subseteq OpenedOf(m)
    BY <1>6 DEF OpenedOf
  <1>10. \A c \in OpenedOf(m) : c \in OpenedOf(b) \cup {sq} \/
           \E t \in SunkOf(n) : /\ c \notin Squares(f[t])
                                /\ \E a \in Squares(f[t]) : Adjacent(a, c)
    BY <1>6 DEF OpenedOf
  <1>11. state[p] = STATE_IN_GAME_PLAYING /\ state[o] # STATE_IN_GAME_PLAYING
    BY <1>1 DEF STATE_IN_GAME, STATE_IN_GAME_PLAYING
  <1>12. OnTurn = p
    BY <1>1, <1>11, TurnSeen
  <1>13. count'[p] = AMOUNT_OF_SHIP <=> SunkOf(n) = ShipNumbers
    BY <1>3, SunkCount
  <1>14. p # Undecided /\ p # NullName
    BY DEF Player, Undecided, NullName
  <1>15. /\ Over' <=> SunkOf(n) = ShipNumbers
         /\ OnTurn' # p
         /\ IF Over' THEN OnTurn' = Undecided /\ WinnerSeen' = p
                     ELSE OnTurn' = o /\ UNCHANGED WinnerSeen
    <2>1. CASE count'[p] = AMOUNT_OF_SHIP
      <3>1. winner' = p /\ \A q \in Player : state'[q] # STATE_IN_GAME_PLAYING
        BY <1>4, <2>1 DEF game_end, STATE_IN_LOBBY, STATE_IN_GAME_PLAYING
      <3>2. OnTurn' = Undecided
        BY <3>1, TurnSeen
      <3>3. Over' /\ WinnerSeen' = p
        BY <1>14, <3>1 DEF Over, WinnerSeen
      <3> QED
        BY <1>13, <1>14, <2>1, <3>2, <3>3
    <2>2. CASE count'[p] # AMOUNT_OF_SHIP
      <3>1. PassTurn(p) /\ UNCHANGED winner
        BY <1>4, <2>2
      <3>2. state'[p] # STATE_IN_GAME_PLAYING /\ state'[o] = STATE_IN_GAME_PLAYING
        BY <1>1, <3>1 DEF PassTurn, MatchInv, TypeOK, STATE_IN_GAME, STATE_IN_GAME_PLAYING
      <3>3. OnTurn' = o
        BY <1>1, <3>2, TurnSeen
      <3>4. ~Over' /\ UNCHANGED WinnerSeen
        BY <1>1, <3>1 DEF Over, WinnerSeen
      <3> QED
        BY <1>1, <1>13, <2>2, <3>3, <3>4
    <2> QED
      BY <2>1, <2>2
  <1> QED
    BY <1>1, <1>3, <1>7, <1>8, <1>9, <1>10, <1>12, <1>15, FireMaps

LEMMA PlayedIsDuel ==
  MatchInv /\ (Played \/ UNCHANGED vars) => [Game!DuelNext]_(Game!duelVars)
  <1> SUFFICES ASSUME MatchInv, Played \/ UNCHANGED vars
               PROVE  Game!DuelNext \/ UNCHANGED Game!duelVars
    OBVIOUS
  <1>1. ASSUME NEW p \in Player, NEW layout \in Seq(Int), cmd_game_prepared(p, layout)
        PROVE  Game!DuelNext \/ UNCHANGED Game!duelVars
    BY <1>1, PrepareRefines DEF Game!DuelNext
  <1>2. ASSUME NEW p \in Player, NEW x, NEW y, cmd_game_fire(p, x, y)
        PROVE  Game!DuelNext \/ UNCHANGED Game!duelVars
    <2>1. ASSUME NEW e, Refuse(e)
          PROVE  UNCHANGED Game!duelVars
      BY <2>1, StutterDuel DEF Refuse
    <2>2. ASSUME state[p] = STATE_IN_GAME_PLAYING,
                 NEW sq \in Cells,
                 \/ Target(p, sq) = Empty /\ FireMiss(p, sq)
                 \/ Target(p, sq) \in ShipNumbers /\ FireHit(p, sq)
          PROVE  Game!DuelNext
      <3>1. Game!Fire(p)
        BY <2>2, MissRefines, HitRefines
      <3> QED
        BY <3>1 DEF Game!DuelNext
    <2> QED
      BY <1>2, <2>1, <2>2, FireSteps
  <1>3. ASSUME NEW p \in Player, Leave(p)
        PROVE  Game!DuelNext
    <2>1. winner = Undecided /\ game_end(p) /\ UNCHANGED <<board, ships>>
      BY <1>3 DEF Leave
    <2> QED
      BY <2>1, EndRefines DEF Game!DuelNext
  <1>4. CASE BothLost
    <2>1. winner = Undecided /\ game_end(NullName) /\ UNCHANGED <<board, ships>>
      BY <1>4 DEF BothLost
    <2> QED
      BY <2>1, EndRefines DEF Game!DuelNext
  <1>5. CASE UNCHANGED vars
    BY <1>5, StutterDuel DEF vars
  <1> QED
    BY <1>1, <1>2, <1>3, <1>4, <1>5 DEF Played

\* The game that the server plays is the one of the rules, for every board, fleet
\* and input: a fleet is accepted only if it is complete and nowhere two ships
\* touch, each shot opens what it should and passes the turn, and the hit that
\* sinks the last ship wins for the one who fired it.
THEOREM DuelImplemented == Spec => ImplementsDuel
  <1>1. MatchInv /\ [Next]_vars => [Game!DuelNext]_(Game!duelVars)
    BY NextPlays, PlayedIsDuel
  <1> QED
    BY <1>1, InitDuel, MatchInvariant, PTL DEF Spec, ImplementsDuel, Game!DuelSpec
=============================================================================
