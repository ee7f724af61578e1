------------------------------- MODULE Match -------------------------------
(***************************************************************************)
(* One game (struct game) from game_init to game_end: the two boards and   *)
(* fleets, the counts of sunk ships and the states of the two players.     *)
(* Requests of the two players arrive in any order and in any state; what  *)
(* sockets, sessions and rooms do is in module ShipsServer.                *)
(***************************************************************************)
EXTENDS Ships

CONSTANTS
  Layouts,       \* the layouts players send
  ShotArgs,      \* the numbers players send as coordinates, and NotANumber
  IntSpan        \* how many values an int has

NotANumber == -1

ASSUME MatchAssumption ==
  /\ Layouts \subseteq Seq(Int)
  /\ ShotArgs \subseteq Nat \cup {NotANumber}
  /\ IntSpan \in Nat /\ IntSpan > 2 * SHIP_GAME_BOARD_SIZE

VARIABLES
  state,         \* client->state of the two players
  board,         \* player1_board, player2_board
  ships,         \* player1Ships, player2Ships
  count,         \* p1_count, p2_count
  winner,        \* whom game_end names
  error          \* the error code of the last reply

vars == <<state, board, ships, count, winner, error>>

Player      == {1, 2}        \* client->playerNum
Opponent(p) == 3 - p
Undecided   == 0             \* before game_end
NullName    == 3             \* game_end(server, game, NULL)

STATE_IN_LOBBY          == 1
STATE_IN_GAME_PREPARING == 3
STATE_IN_GAME           == 4
STATE_IN_GAME_PLAYING   == 5

ERROR_USER_STATE        == 5
ERROR_INTERNAL          == 1
ERROR_OUT_OF_PLAY_FIELD == 8
ERROR_ALREADY_HIT       == 9

-----------------------------------------------------------------------------
\* game_init, when the second player has joined.
Init ==
  /\ state = [p \in Player |-> STATE_IN_GAME_PREPARING]
  /\ board = [p \in Player |-> [c \in Cells |-> Empty]]
  /\ ships = [p \in Player |-> clean_client_ships]
  /\ count = [p \in Player |-> 0]
  /\ winner = Undecided
  /\ error = OK

\* Mutants: the states stay; nobody is named.
EndStateless(name) == winner' = name /\ UNCHANGED state

EndForNobody(name) ==
  winner' = NullName /\ state' = [p \in Player |-> STATE_IN_LOBBY]

\* The struct is freed; nothing reads its boards afterwards.
game_end(name) ==
  /\ winner' = name
  /\ state' = [p \in Player |-> STATE_IN_LOBBY]

Refuse(e) == error' = e /\ UNCHANGED <<state, board, ships, count, winner>>

-----------------------------------------------------------------------------
(* game_prepared *)

\* The last one to be prepared lets player 1 begin.
StatesWhenPrepared(p) ==
  LET ready == [state EXCEPT ![p] = STATE_IN_GAME]
  IN IF \A q \in Player : ready[q] = STATE_IN_GAME
     THEN [ready EXCEPT ![1] = STATE_IN_GAME_PLAYING]
     ELSE ready

cmd_game_prepared(p, layout) ==
  IF state[p] # STATE_IN_GAME_PREPARING THEN Refuse(ERROR_USER_STATE)
  ELSE LET prepared == Prepare(p, board[p], ships[p], layout)
       IN /\ board' = [board EXCEPT ![p] = prepared.board]
          /\ ships' = [ships EXCEPT ![p] = prepared.ships]
          /\ error' = prepared.error
          /\ state' = IF prepared.error = OK THEN StatesWhenPrepared(p) ELSE state
          /\ UNCHANGED <<count, winner>>

-----------------------------------------------------------------------------
(* game_fire_req *)

\* atoi keeps the low bits of a number too large for an int.
atoi(v) ==
  IF v % IntSpan >= IntSpan \div 2 THEN (v % IntSpan) - IntSpan ELSE v % IntSpan

Target(p, sq) == board[Opponent(p)][sq]

FireError(p, x, y) ==
  LET sq == <<atoi(x), atoi(y)>>
  IN IF state[p] # STATE_IN_GAME_PLAYING THEN ERROR_USER_STATE
     ELSE IF NotANumber \in {x, y} THEN ERROR_FORMAT
     ELSE IF sq \notin Cells THEN ERROR_OUT_OF_PLAY_FIELD
     ELSE IF Target(p, sq) \in {Hit, Miss} THEN ERROR_ALREADY_HIT
     ELSE IF Target(p, sq) # Empty /\ ~isdigit(Target(p, sq)) THEN ERROR_INTERNAL
     ELSE OK

\* A shot passes the turn, whether it hits or not.
PassTurn(p) ==
  state' = [state EXCEPT ![p] = STATE_IN_GAME,
                         ![Opponent(p)] = STATE_IN_GAME_PLAYING]

FireMiss(p, sq) ==
  /\ board' = [board EXCEPT ![Opponent(p)][sq] = Miss]
  /\ PassTurn(p)
  /\ UNCHANGED <<ships, count, winner>>

FireHit(p, sq) ==
  LET o      == Opponent(p)
      ship   == ship_hit(ships[o][Target(p, sq)])
      marked == [board[o] EXCEPT ![sq] = Hit]
  IN /\ ships' = [ships EXCEPT ![o][Target(p, sq)] = ship]
     /\ IF ship_destroyed(ship)
        THEN /\ board' = [board EXCEPT ![o] = mark_destroyed_ship(marked, ship)]
             /\ count' = [count EXCEPT ![p] = @ + 1]
        ELSE /\ board' = [board EXCEPT ![o] = marked]
             /\ UNCHANGED count
     /\ IF \E q \in Player : count'[q] >= AMOUNT_OF_SHIP
        THEN game_end(p)
        ELSE PassTurn(p) /\ UNCHANGED winner

cmd_game_fire(p, x, y) ==
  LET sq == <<atoi(x), atoi(y)>>
  IN IF FireError(p, x, y) # OK THEN Refuse(FireError(p, x, y))
     ELSE /\ error' = OK
          /\ IF Target(p, sq) = Empty THEN FireMiss(p, sq) ELSE FireHit(p, sq)

-----------------------------------------------------------------------------
(* The ends that are not won: ShipsServer has when they happen *)

\* room_leave_req or logout_req of a player in the game.
Leave(p) ==
  /\ winner = Undecided
  /\ game_end(p)
  /\ UNCHANGED <<board, ships, count, error>>

\* The second player loses the connection, too (server_disconnect).
BothLost ==
  /\ winner = Undecided
  /\ game_end(NullName)
  /\ UNCHANGED <<board, ships, count, error>>

Next ==
  \/ \E p \in Player :
       \/ \E layout \in Layouts : cmd_game_prepared(p, layout)
       \/ \E x, y \in ShotArgs : cmd_game_fire(p, x, y)
       \/ Leave(p)
  \/ BothLost

Spec == Init /\ [][Next]_vars

-----------------------------------------------------------------------------
(* What must hold *)

ShipType ==
  [ startX : Coords \cup {-1}, startY : Coords \cup {-1}, vertical : BOOLEAN,
    length : 0 .. SHIP_GAME_BOARD_SIZE, health : 0 .. SHIP_GAME_BOARD_SIZE ]

\* Every field holds a value the C code can work with: the characters of a board
\* are the ones the client draws.
TypeOK ==
  /\ state \in [Player -> {STATE_IN_LOBBY, STATE_IN_GAME_PREPARING,
                           STATE_IN_GAME, STATE_IN_GAME_PLAYING}]
  /\ board \in [Player -> [Cells -> ShipNumbers \cup {Empty, Hit, Miss}]]
  /\ ships \in [Player -> [ShipNumbers -> ShipType]]
  /\ count \in [Player -> 0 .. AMOUNT_OF_SHIP]
  /\ winner \in Player \cup {Undecided, NullName}

Prepared(p) == state[p] \in {STATE_IN_GAME, STATE_IN_GAME_PLAYING}
Sunk(p)     == {s \in ShipNumbers : ships[p][s].health = 0}

\* The squares of a ship, from its struct.
ShipSquares(p, s) ==
  LET ship == ships[p][s]
  IN {IF ship.vertical THEN <<ship.startX, ship.startY + k>>
                       ELSE <<ship.startX + k, ship.startY>>
      : k \in 0 .. (ship.length - 1)}

\* Board and fleet of a prepared player agree: a ship's squares show its number
\* or a hit, its health is the number of squares not hit, and all else is water.
\* No retry, shot or marking ever loses a square of a ship.
FleetOnBoard ==
  \A p \in Player : Prepared(p) =>
    /\ \A s \in ShipNumbers :
         /\ ships[p][s].length = ShipLength[s]
         /\ \A c \in ShipSquares(p, s) : board[p][c] \in {s, Hit}
         /\ ships[p][s].health =
              Cardinality({c \in ShipSquares(p, s) : board[p][c] = s})
    /\ \A c \in Cells \ UNION {ShipSquares(p, s) : s \in ShipNumbers} :
         board[p][c] \in {Empty, Miss}

\* All the water around a sunk ship is marked, as the players' clients mark it
\* on being told that the ship was destroyed.
SunkShipsMarked ==
  \A p \in Player : Prepared(p) =>
    \A s \in Sunk(p), c \in Cells :
      c \notin ShipSquares(p, s) /\ (\E a \in ShipSquares(p, s) : Adjacent(a, c))
        => board[p][c] = Miss

\* The counts are the sunk ships of the opponent, and the game goes on exactly
\* as long as both fleets float: the player on turn always has a ship to fire at.
FleetsFloat ==
  (\A p \in Player : Prepared(p)) =>
    \A p \in Player : /\ count[p] = Cardinality(Sunk(Opponent(p)))
                      /\ \E c \in Cells : isdigit(Target(p, c))

\* The comment at the end of cmd_game_fire: the checks of cmd_game_prepared leave
\* no unknown value on a board.
NoInternalError == [][error' # ERROR_INTERNAL]_vars

Opened(p) == {c \in Cells : board[p][c] \in {Hit, Miss}}

\* The game that the two players see.
FleetsSeen  == [p \in Player |-> [s \in ShipNumbers |-> ShipSquares(p, s)]]
OpenedSeen  == [p \in Player |-> Opened(p)]
OnTurn      == IF \E p \in Player : state[p] = STATE_IN_GAME_PLAYING
               THEN CHOOSE p \in Player : state[p] = STATE_IN_GAME_PLAYING
               ELSE Undecided
Over        == winner # Undecided
WinnerSeen  == IF winner = NullName THEN Undecided ELSE winner

Game == INSTANCE Duel WITH
  Size <- SHIP_GAME_BOARD_SIZE, Ship <- ShipNumbers, Length <- ShipLength,
  First <- 1, Nobody <- Undecided,
  fleet <- FleetsSeen, opened <- OpenedSeen, turn <- OnTurn, over <- Over,
  winner <- WinnerSeen

\* Two boards of characters, a fleet built square by square and two counters
\* amount to the game of the rules: lawful fleets, one shot a turn at a square that
\* is still closed, water opened around a sunk ship, and the player who sinks the
\* last ship of a fleet wins, at that shot.
ImplementsDuel == Game!DuelSpec
=============================================================================
