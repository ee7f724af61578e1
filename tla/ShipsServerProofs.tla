------------------------- MODULE ShipsServerProofs -------------------------
(***************************************************************************)
(* Theorems about ShipsServer, for every number of players, sockets, names *)
(* and rooms: type correctness and sockets first, then who sits where,     *)
(* names, seats, rooms and turns.  The latter hold for clients that log in *)
(* once per connection (Relogin = FALSE), as the Java client does.         *)
(***************************************************************************)
EXTENDS ShipsServer, FiniteSetTheorems, TLAPS

USE DEF STATE_UNLOGGED, STATE_IN_LOBBY, STATE_IN_ROOM, STATE_IN_GAME_PREPARING,
        STATE_IN_GAME, STATE_IN_GAME_PLAYING,
        GAME_STATE_LOBBY, GAME_STATE_GAME, GAME_STATE_ERASED

\* Type correctness needs to know that the struct of an open socket exists,
\* belongs to no second socket and has a strike left.
SessionInv == SessionTypeOK /\ SocketsConsistent

-----------------------------------------------------------------------------
(* Updating a function *)

LEMMA ExceptType ==
  ASSUME NEW S, NEW T, NEW h \in [S -> T], NEW x, NEW v \in T
  PROVE  [h EXCEPT ![x] = v] \in [S -> T]
  OBVIOUS

LEMMA ExceptType2 ==
  ASSUME NEW S, NEW T, NEW h \in [S -> T], NEW x, NEW v \in T, NEW y, NEW w \in T
  PROVE  [h EXCEPT ![x] = v, ![y] = w] \in [S -> T]
  OBVIOUS

-----------------------------------------------------------------------------
(* Seats: what the helpers that move players do to the types. *)

RoomTypeOK ==
  /\ player1 \in [Games -> Clients \cup {NULL}]
  /\ player2 \in [Games -> Clients \cup {NULL}]
  /\ roomState \in [Games -> 0 .. 2]
  /\ roomId \in [Games -> Nat]
  /\ rooms \in [RoomIds -> Games \cup {NULL}]
  /\ s_curr_rooms \in Int

PlaceTypeOK ==
  /\ state \in [Clients -> 0 .. 5]
  /\ game \in [Clients -> Games \cup {NULL}]
  /\ told \in [Clients -> 0 .. 5]
  /\ toldOpp \in [Clients -> BOOLEAN]

LEMMA SeatTypeParts ==
  SeatTypeOK <=> RoomTypeOK /\ PlaceTypeOK /\ playerNum \in [Clients -> 0 .. 2]
  BY DEF SeatTypeOK, RoomTypeOK, PlaceTypeOK

LEMMA FreeRoomType ==
  ASSUME RoomTypeOK, NEW g, FreeRoom(g)
  PROVE  RoomTypeOK'
  <1>1. roomState' \in [Games -> 0 .. 2]
    <2>1. roomState' = [roomState EXCEPT ![g] = 2] /\ 2 \in 0 .. 2
      BY DEF FreeRoom
    <2> QED
      BY <2>1, ExceptType DEF RoomTypeOK
  <1>2. /\ player1' \in [Games -> Clients \cup {NULL}]
        /\ player2' \in [Games -> Clients \cup {NULL}]
    BY DEF RoomTypeOK, FreeRoom
  <1>3. roomId' \in [Games -> Nat]
    <2>1. roomId' = [roomId EXCEPT ![g] = 0] /\ 0 \in Nat
      BY DEF FreeRoom
    <2> QED
      BY <2>1, ExceptType DEF RoomTypeOK
  <1>4. /\ rooms' \in [RoomIds -> Games \cup {NULL}]
        /\ s_curr_rooms' \in Int
    BY DEF RoomTypeOK, FreeRoom
  <1> QED
    BY <1>1, <1>2, <1>3, <1>4 DEF RoomTypeOK

LEMMA GameEndType ==
  ASSUME RoomTypeOK, PlaceTypeOK, NEW g, game_end(g)
  PROVE  RoomTypeOK' /\ PlaceTypeOK'
  <1>1. PlaceTypeOK'
    <2>1. state' \in [Clients -> 0 .. 5] /\ told' \in [Clients -> 0 .. 5]
      BY DEF PlaceTypeOK, game_end
    <2>2. game' \in [Clients -> Games \cup {NULL}]
      BY DEF PlaceTypeOK, game_end
    <2>3. toldOpp' \in [Clients -> BOOLEAN]
      BY DEF PlaceTypeOK, game_end
    <2> QED
      BY <2>1, <2>2, <2>3 DEF PlaceTypeOK
  <1>2. FreeRoom(g)
    BY DEF game_end
  <1> QED
    BY <1>1, <1>2, FreeRoomType

LEMMA VacateSeatType ==
  ASSUME RoomTypeOK, PlaceTypeOK, NEW c \in Clients, VacateSeat(c)
  PROVE  RoomTypeOK' /\ PlaceTypeOK'
  <1> DEFINE g  == game[c]
             p1 == IF player1[g] = c THEN NULL ELSE player1[g]
             p2 == IF player2[g] = c THEN NULL ELSE player2[g]
  <1>1. PlaceTypeOK'
    <2>1. /\ game' = [game EXCEPT ![c] = NULL]
          /\ state' = [state EXCEPT ![c] = 1]
          /\ told' = [told EXCEPT ![c] = 1]
          /\ toldOpp' = [o \in Clients |->
                           IF o \in {c, p1, p2} THEN FALSE ELSE toldOpp[o]]
      BY DEF VacateSeat
    <2>2. state' \in [Clients -> 0 .. 5] /\ told' \in [Clients -> 0 .. 5]
      BY <2>1, ExceptType DEF PlaceTypeOK
    <2>3. game' \in [Clients -> Games \cup {NULL}]
      BY <2>1 DEF PlaceTypeOK
    <2>4. toldOpp' \in [Clients -> BOOLEAN]
      BY <2>1 DEF PlaceTypeOK
    <2> QED
      BY <2>2, <2>3, <2>4 DEF PlaceTypeOK
  <1>2. CASE p1 = NULL /\ p2 = NULL
    <2>1. FreeRoom(g)
      BY <1>2 DEF VacateSeat
    <2> QED
      BY <1>1, <2>1, FreeRoomType
  <1>3. CASE ~(p1 = NULL /\ p2 = NULL)
    <2>1. /\ player1' = [player1 EXCEPT ![g] = p1]
          /\ player2' = [player2 EXCEPT ![g] = p2]
          /\ UNCHANGED <<roomState, roomId, rooms, s_curr_rooms>>
      BY <1>3 DEF VacateSeat
    <2>2. /\ player1' \in [Games -> Clients \cup {NULL}]
          /\ player2' \in [Games -> Clients \cup {NULL}]
      BY <2>1 DEF RoomTypeOK
    <2> QED
      BY <1>1, <2>1, <2>2 DEF RoomTypeOK
  <1> QED
    BY <1>2, <1>3

LEMMA SeatOnDisconnectType ==
  ASSUME RoomTypeOK, PlaceTypeOK, NEW c \in Clients, SeatOnDisconnect(c)
  PROVE  RoomTypeOK' /\ PlaceTypeOK'
  <1>1. \/ VacateSeat(c)
        \/ game_end(game[c])
        \/ UNCHANGED <<state, game, roomVars, toldVars>>
        \/ /\ toldOpp' = [toldOpp EXCEPT ![Opponent(c)] = FALSE]
           /\ UNCHANGED <<state, game, roomVars, told>>
    BY DEF SeatOnDisconnect
  <1>2. CASE UNCHANGED <<state, game, roomVars, toldVars>>
    BY <1>2 DEF RoomTypeOK, PlaceTypeOK, roomVars, toldVars
  <1>3. CASE /\ toldOpp' = [toldOpp EXCEPT ![Opponent(c)] = FALSE]
             /\ UNCHANGED <<state, game, roomVars, told>>
    <2>1. toldOpp' \in [Clients -> BOOLEAN]
      BY <1>3, ExceptType DEF PlaceTypeOK
    <2> QED
      BY <1>3, <2>1 DEF RoomTypeOK, PlaceTypeOK, roomVars
  <1> QED
    BY <1>1, <1>2, <1>3, VacateSeatType, GameEndType

-----------------------------------------------------------------------------
(* Sessions: what the helpers that open and close sockets do to SessionInv. *)

\* The struct of an open socket.
LEMMA OwnerType ==
  ASSUME SessionInv, NEW f \in open
  PROVE  f \in Fds /\ clients[f] \in Clients
  BY DEF SessionInv, SessionTypeOK, SocketsConsistent

LEMMA HandledSession ==
  ASSUME SessionInv, NEW c \in Clients, Handled(c),
         UNCHANGED <<socketVars, fd, name, connected, players, s_curr_players>>
  PROVE  SessionInv'
  BY LimitAssumption
  DEF SessionInv, SessionTypeOK, SocketsConsistent, Handled, socketVars

LEMMA CloseSession ==
  ASSUME SessionInv, NEW f \in open, NEW k \in Int, close_connection(f, k)
  PROVE  /\ open' = open \ {f}
         /\ open' \in SUBSET Fds /\ hungup' \in SUBSET open'
         /\ s_curr_players' \in Int
  BY DEF SessionInv, SessionTypeOK, close_connection

LEMMA DisconnectSession ==
  ASSUME SessionInv, NEW f \in open, NEW k \in Int, server_disconnect(f, k),
         \/ UNCHANGED invalid_count
         \/ invalid_count' = [invalid_count EXCEPT ![clients[f]] = @ + 1]
  PROVE  SessionInv'
  <1> DEFINE c == clients[f]
  <1>1. f \in Fds /\ c \in Clients
    BY OwnerType
  <1>2. /\ connected' = [connected EXCEPT ![c] = FALSE]
        /\ fd' = [fd EXCEPT ![c] = NULL]
        /\ clients' = [clients EXCEPT ![f] = NULL]
        /\ UNCHANGED <<name, players>>
        /\ close_connection(f, k)
    BY DEF server_disconnect
  <1>3. /\ open' = open \ {f}
        /\ open' \in SUBSET Fds /\ hungup' \in SUBSET open'
        /\ s_curr_players' \in Int
    BY <1>2, CloseSession
  <1>4. invalid_count' \in [Clients -> 0 .. MaxInvalid]
    BY <1>1, LimitAssumption DEF SessionInv, SessionTypeOK, SocketsConsistent
  <1>5. SessionTypeOK'
    BY <1>1, <1>2, <1>3, <1>4 DEF SessionInv, SessionTypeOK
  <1>6. ASSUME NEW h \in open'
        PROVE  /\ clients'[h] # NULL
               /\ fd'[clients'[h]] = h
               /\ connected'[clients'[h]]
               /\ invalid_count'[clients'[h]] < MaxInvalid
    <2>1. h \in open /\ h # f /\ h \in Fds
      BY <1>3, <1>6 DEF SessionInv, SessionTypeOK
    <2>2. clients'[h] = clients[h] /\ clients[h] \in Clients /\ clients[h] # c
      BY <1>1, <1>2, <2>1, OwnerType DEF SessionInv, SessionTypeOK, SocketsConsistent
    <2> QED
      BY <1>1, <1>2, <2>1, <2>2 DEF SessionInv, SessionTypeOK, SocketsConsistent
  <1> QED
    BY <1>5, <1>6 DEF SessionInv, SocketsConsistent

LEMMA NewConnectionInv ==
  ASSUME SessionInv, SeatTypeOK, NEW f \in Fds, server_new_connection(f)
  PROVE  SessionInv' /\ SeatTypeOK'
  <1>1. PICK c \in Clients \ Reachable :
          /\ clients' = [clients EXCEPT ![f] = c]
          /\ fd' = [fd EXCEPT ![c] = f]
          /\ name' = [name EXCEPT ![c] = NULL]
          /\ state' = [state EXCEPT ![c] = STATE_UNLOGGED]
          /\ playerNum' = [playerNum EXCEPT ![c] = 0]
          /\ game' = [game EXCEPT ![c] = NULL]
          /\ connected' = [connected EXCEPT ![c] = TRUE]
          /\ invalid_count' = [invalid_count EXCEPT ![c] = 0]
          /\ told' = [told EXCEPT ![c] = STATE_UNLOGGED]
          /\ toldOpp' = [toldOpp EXCEPT ![c] = FALSE]
    BY DEF server_new_connection
  <1>2. /\ open' = open \cup {f} /\ f \notin open
        /\ UNCHANGED <<hungup, players, roomVars, s_curr_players>>
    BY DEF server_new_connection
  <1>3. SeatTypeOK'
    BY <1>1, <1>2 DEF SeatTypeOK, roomVars
  <1>4. SessionTypeOK'
    BY <1>1, <1>2, LimitAssumption DEF SessionInv, SessionTypeOK
  <1>5. ASSUME NEW h \in open'
        PROVE  /\ clients'[h] # NULL
               /\ fd'[clients'[h]] = h
               /\ connected'[clients'[h]]
               /\ invalid_count'[clients'[h]] < MaxInvalid
    <2>1. CASE h = f
      BY <1>1, <2>1, NullAssumption, LimitAssumption
      DEF SessionInv, SessionTypeOK
    <2>2. CASE h # f
      <3>1. h \in open /\ h \in Fds /\ clients[h] \in Clients
        BY <1>2, <1>5, <2>2, OwnerType
      <3>2. clients'[h] = clients[h] /\ clients[h] # c
        BY <1>1, <2>2, <3>1 DEF SessionInv, SessionTypeOK, Reachable
      <3> QED
        BY <1>1, <3>1, <3>2 DEF SessionInv, SessionTypeOK, SocketsConsistent
    <2> QED
      BY <2>1, <2>2
  <1> QED
    BY <1>3, <1>4, <1>5 DEF SessionInv, SocketsConsistent

LEMMA DisconnectInv ==
  ASSUME SessionInv, SeatTypeOK, NEW f \in open, NEW k \in Int,
         server_disconnect(f, k),
         \/ UNCHANGED invalid_count
         \/ invalid_count' = [invalid_count EXCEPT ![clients[f]] = @ + 1]
  PROVE  SessionInv' /\ SeatTypeOK'
  <1>1. SeatOnDisconnect(clients[f]) /\ UNCHANGED playerNum
    BY DEF server_disconnect
  <1>2. RoomTypeOK' /\ PlaceTypeOK'
    BY <1>1, OwnerType, SeatTypeParts, SeatOnDisconnectType
  <1>3. SeatTypeOK'
    BY <1>1, <1>2 DEF SeatTypeOK, RoomTypeOK, PlaceTypeOK
  <1> QED
    BY <1>3, DisconnectSession

LEMMA ReplyInv ==
  ASSUME SessionInv, SeatTypeOK, NEW c \in Clients, Reply(c)
  PROVE  SessionInv' /\ SeatTypeOK'
  <1>1. SessionInv'
    BY HandledSession DEF Reply
  <1>2. SeatTypeOK'
    BY DEF Reply, SeatTypeOK, roomVars, toldVars
  <1> QED
    BY <1>1, <1>2

-----------------------------------------------------------------------------
(* One lemma per request *)

\* What a successful login does to the struct c that owns the session.
LEMMA LoginOkType ==
  ASSUME SessionTypeOK, SeatTypeOK, NEW c \in Clients, NEW n \in Names,
         LoginOk(c, n), UNCHANGED <<playerNum, game, roomVars>>
  PROVE  /\ SeatTypeOK'
         /\ name' \in [Clients -> Names \cup {NULL}]
         /\ players' \in [Names -> Clients \cup {NULL}]
         /\ s_curr_players' \in Int
  <1>1. state' \in [Clients -> 0 .. 5]
    BY DEF LoginOk, SetName, SeatTypeOK
  <1>2. told' \in [Clients -> 0 .. 5]
    BY <1>1 DEF LoginOk, SeatTypeOK
  <1>3. toldOpp' \in [Clients -> BOOLEAN]
    <2>1. CASE ~InGame(state[c])
      BY <2>1 DEF LoginOk, SeatTypeOK
    <2>2. CASE InGame(state[c])
      BY <2>2 DEF LoginOk, SeatTypeOK, SessionTypeOK
    <2> QED
      BY <2>1, <2>2
  <1>4. SeatTypeOK'
    BY <1>1, <1>2, <1>3 DEF SeatTypeOK, roomVars
  <1>5. /\ name' \in [Clients -> Names \cup {NULL}]
        /\ players' \in [Names -> Clients \cup {NULL}]
        /\ s_curr_players' \in Int
    BY DEF LoginOk, SetName, SessionTypeOK
  <1> QED
    BY <1>4, <1>5

LEMMA LoginInv ==
  ASSUME SessionInv, SeatTypeOK, NEW f \in Fds,
         NEW n \in Names \cup {BadName, NoName}, cmd_login(f, n)
  PROVE  SessionInv' /\ SeatTypeOK'
  <1> DEFINE c == clients[f]
             logged == players[n]
  <1>1. f \in open /\ c \in Clients
    BY OwnerType DEF cmd_login
  <1>2. CASE LoginError(f, 0) \/ LoginError(f, 1)
    BY <1>1, <1>2, DisconnectInv DEF LoginError
  <1>3. CASE ~(LoginError(f, 0) \/ LoginError(f, 1))
    <2>1. n \in Names /\ logged \in Clients \cup {NULL}
      BY <1>3 DEF cmd_login, SessionInv, SessionTypeOK
    <2>2. CASE logged = NULL
      <3>1. /\ LoginOk(c, n) /\ Handled(c)
            /\ UNCHANGED <<socketVars, fd, playerNum, game, connected, roomVars>>
        BY <1>3, <2>2 DEF cmd_login
      <3>2. /\ SeatTypeOK' /\ s_curr_players' \in Int
            /\ name' \in [Clients -> Names \cup {NULL}]
            /\ players' \in [Names -> Clients \cup {NULL}]
        <4>1. SessionTypeOK /\ UNCHANGED <<playerNum, game, roomVars>>
          BY <3>1 DEF SessionInv
        <4>2. LoginOk(c, n) /\ c \in Clients /\ n \in Names
          BY <1>1, <2>1, <3>1
        <4> HIDE DEF c, logged
        <4> QED
          BY <4>1, <4>2, LoginOkType
      <3>3. SessionInv'
        <4>1. /\ invalid_count' = [invalid_count EXCEPT ![c] = 0]
              /\ UNCHANGED <<open, hungup, clients, fd, connected>>
          BY <3>1 DEF Handled, socketVars
        <4>2. invalid_count' \in [Clients -> 0 .. MaxInvalid]
          BY <1>1, <4>1, LimitAssumption DEF SessionInv, SessionTypeOK
        <4>3. SessionTypeOK'
          BY <3>2, <4>1, <4>2 DEF SessionInv, SessionTypeOK
        <4>4. SocketsConsistent'
          BY <4>1, LimitAssumption
          DEF SessionInv, SessionTypeOK, SocketsConsistent
        <4> QED
          BY <4>3, <4>4 DEF SessionInv
      <3> QED
        BY <3>2, <3>3
    <2>3. CASE logged # NULL
      <3>1. /\ clients' = [clients EXCEPT ![f] = logged]
            /\ fd' = [fd EXCEPT ![logged] = f, ![c] = NULL]
            /\ connected' = [connected EXCEPT ![logged] = TRUE, ![c] = FALSE]
            /\ LoginOk(logged, n) /\ Handled(logged)
            /\ UNCHANGED <<open, hungup, playerNum, game, roomVars>>
            /\ ~connected[logged]
        BY <1>3, <2>3 DEF cmd_login
      <3>2. logged \in Clients
        BY <2>1, <2>3
      <3>3. /\ SeatTypeOK' /\ s_curr_players' \in Int
            /\ name' \in [Clients -> Names \cup {NULL}]
            /\ players' \in [Names -> Clients \cup {NULL}]
        <4>1. SessionTypeOK /\ UNCHANGED <<playerNum, game, roomVars>>
          BY <3>1 DEF SessionInv
        <4>2. LoginOk(logged, n) /\ n \in Names
          BY <2>1, <3>1
        <4> HIDE DEF c, logged
        <4> QED
          BY <3>2, <4>1, <4>2, LoginOkType
      <3>4. invalid_count' = [invalid_count EXCEPT ![logged] = 0]
        BY <3>1 DEF Handled
      <3>5. SessionTypeOK'
        <4>1. invalid_count' \in [Clients -> 0 .. MaxInvalid]
          BY <3>2, <3>4, LimitAssumption DEF SessionInv, SessionTypeOK
        <4>2. /\ fd' \in [Clients -> Fds \cup {NULL}]
              /\ connected' \in [Clients -> BOOLEAN]
              /\ clients' \in [Fds -> Clients \cup {NULL}]
          BY <1>1, <3>1, <3>2 DEF SessionInv, SessionTypeOK
        <4> QED
          BY <3>1, <3>3, <4>1, <4>2 DEF SessionInv, SessionTypeOK
      <3>6. connected[c] /\ logged # c
        BY <1>1, <3>1 DEF SessionInv, SocketsConsistent
      <3>7. ASSUME NEW h \in open'
            PROVE  /\ clients'[h] # NULL
                   /\ fd'[clients'[h]] = h
                   /\ connected'[clients'[h]]
                   /\ invalid_count'[clients'[h]] < MaxInvalid
        <4>1. h \in open /\ h \in Fds
          BY <3>1, <3>7 DEF SessionInv, SessionTypeOK
        <4>2. CASE h = f
          <5>1. clients'[h] = logged /\ fd'[logged] = f
            BY <1>1, <3>1, <3>2, <3>6, <4>1, <4>2 DEF SessionInv, SessionTypeOK
          <5>2. connected'[logged] /\ invalid_count'[logged] = 0
            BY <1>1, <3>1, <3>2, <3>4, <3>6 DEF SessionInv, SessionTypeOK
          <5> QED
            BY <2>3, <4>2, <5>1, <5>2, LimitAssumption
        <4>3. CASE h # f
          <5>1. clients'[h] = clients[h] /\ clients[h] \in Clients
            BY <3>1, <4>1, <4>3, OwnerType DEF SessionInv, SessionTypeOK
          <5>2. clients[h] # c /\ clients[h] # logged
            BY <1>1, <3>1, <4>1, <4>3 DEF SessionInv, SocketsConsistent
          <5> QED
            BY <1>1, <3>1, <3>2, <3>4, <4>1, <5>1, <5>2
            DEF SessionInv, SessionTypeOK, SocketsConsistent
        <4> QED
          BY <4>2, <4>3
      <3> QED
        BY <3>3, <3>5, <3>7 DEF SessionInv, SocketsConsistent
    <2> QED
      BY <2>2, <2>3
  <1> QED
    BY <1>2, <1>3

LEMMA RoomCreateInv ==
  ASSUME SessionInv, SeatTypeOK, NEW f \in Fds, cmd_room_create(f)
  PROVE  SessionInv' /\ SeatTypeOK'
  <1> DEFINE c == clients[f]
  <1>1. f \in open /\ c \in Clients
    BY OwnerType DEF cmd_room_create
  <1>2. CASE Reply(c)
    BY <1>1, <1>2, ReplyInv
  <1>3. CASE ~Reply(c)
    <2>1. PICK g \in Games \ Live, i \in RoomIds \ {roomId[h] : h \in Live},
               first \in BOOLEAN :
            /\ player1' = [player1 EXCEPT ![g] = IF first THEN c ELSE NULL]
            /\ player2' = [player2 EXCEPT ![g] = IF first THEN NULL ELSE c]
            /\ game' = [game EXCEPT ![c] = g]
            /\ roomState' = [roomState EXCEPT ![g] = GAME_STATE_LOBBY]
            /\ s_curr_rooms' = s_curr_rooms + 1
            /\ roomId' = [roomId EXCEPT ![g] = i]
            /\ rooms' = [rooms EXCEPT ![i] = g]
            /\ state' = [state EXCEPT ![c] = STATE_IN_ROOM]
            /\ told' = [told EXCEPT ![c] = STATE_IN_ROOM]
            /\ Handled(c)
            /\ UNCHANGED <<socketVars, fd, name, playerNum, connected,
                           players, s_curr_players, toldOpp>>
      BY <1>3 DEF cmd_room_create
    <2>2. SessionInv'
      BY <1>1, <2>1, HandledSession
    <2>3. i \in Nat
      BY LimitAssumption DEF RoomIds
    <2>4. RoomTypeOK'
      BY <1>1, <2>1, <2>3 DEF SeatTypeOK, RoomTypeOK
    <2>5. PlaceTypeOK'
      BY <1>1, <2>1 DEF SeatTypeOK, PlaceTypeOK
    <2> QED
      BY <2>1, <2>2, <2>4, <2>5 DEF SeatTypeOK, RoomTypeOK, PlaceTypeOK
  <1> QED
    BY <1>2, <1>3

LEMMA RoomJoinInv ==
  ASSUME SessionInv, SeatTypeOK, NEW f \in Fds, NEW i \in RoomIds,
         cmd_room_join(f, i)
  PROVE  SessionInv' /\ SeatTypeOK'
  <1> DEFINE c == clients[f]
             g == rooms[i]
             opp == IF player1[g] = NULL THEN player2[g] ELSE player1[g]
  <1>1. f \in open /\ c \in Clients
    BY OwnerType DEF cmd_room_join
  <1>2. CASE Reply(c)
    BY <1>1, <1>2, ReplyInv
  <1>3. CASE ~Reply(c)
    <2>1. /\ IF player1[g] = NULL
             THEN player1' = [player1 EXCEPT ![g] = c] /\ UNCHANGED player2
             ELSE player2' = [player2 EXCEPT ![g] = c] /\ UNCHANGED player1
          /\ game' = [game EXCEPT ![c] = g]
          /\ toldOpp' = [toldOpp EXCEPT ![c] = TRUE, ![opp] = TRUE]
          /\ Handled(c)
          /\ UNCHANGED <<socketVars, fd, name, connected, players, roomId,
                         rooms, s_curr_rooms, s_curr_players>>
      BY <1>3 DEF cmd_room_join
    <2>2. SessionInv'
      BY <1>1, <2>1, HandledSession
    <2>3. /\ player1' \in [Games -> Clients \cup {NULL}]
          /\ player2' \in [Games -> Clients \cup {NULL}]
      BY <1>1, <2>1, ExceptType DEF SeatTypeOK
    <2>4. game' \in [Clients -> Games \cup {NULL}]
      BY <1>1, <2>1, ExceptType DEF SeatTypeOK
    <2>5. toldOpp' \in [Clients -> BOOLEAN]
      <3>1. toldOpp \in [Clients -> BOOLEAN] /\ TRUE \in BOOLEAN
        BY DEF SeatTypeOK
      <3> QED
        BY <2>1, <3>1, ExceptType2
    <2>6. /\ state' \in [Clients -> 0 .. 5] /\ told' \in [Clients -> 0 .. 5]
          /\ playerNum' \in [Clients -> 0 .. 2] /\ roomState' \in [Games -> 0 .. 2]
      <3> DEFINE u == player1'[g]
                 v == player2'[g]
      <3>1. CASE state[opp] = STATE_IN_ROOM
        <4>1. /\ state' = [state EXCEPT ![c] = 3, ![opp] = 3]
              /\ told' = [told EXCEPT ![c] = 3, ![opp] = 3]
              /\ playerNum' = [playerNum EXCEPT ![u] = 1, ![v] = 2]
              /\ roomState' = [roomState EXCEPT ![g] = 1]
          BY <1>3, <3>1 DEF cmd_room_join
        <4>2. 3 \in 0 .. 5 /\ 1 \in 0 .. 2 /\ 2 \in 0 .. 2
          OBVIOUS
        <4> HIDE DEF u, v, opp, g, c
        <4> QED
          BY <4>1, <4>2, ExceptType, ExceptType2 DEF SeatTypeOK
      <3>2. CASE state[opp] # STATE_IN_ROOM
        <4>1. /\ state' = [state EXCEPT ![c] = 2]
              /\ told' = [told EXCEPT ![c] = 2]
              /\ UNCHANGED <<playerNum, roomState>>
          BY <1>3, <3>2 DEF cmd_room_join
        <4> QED
          BY <1>1, <4>1 DEF SeatTypeOK
      <3> QED
        BY <3>1, <3>2
    <2> QED
      BY <2>1, <2>2, <2>3, <2>4, <2>5, <2>6 DEF SeatTypeOK
  <1> QED
    BY <1>2, <1>3

LEMMA RoomLeaveInv ==
  ASSUME SessionInv, SeatTypeOK, NEW f \in Fds, cmd_room_leave(f)
  PROVE  SessionInv' /\ SeatTypeOK'
  <1> DEFINE c == clients[f]
  <1>1. f \in open /\ c \in Clients
    BY OwnerType DEF cmd_room_leave
  <1>2. CASE Reply(c)
    BY <1>1, <1>2, ReplyInv
  <1>3. CASE ~Reply(c)
    <2>1. /\ game_end(game[c]) \/ VacateSeat(c)
          /\ Handled(c)
          /\ UNCHANGED <<socketVars, fd, name, playerNum, connected, players,
                         s_curr_players>>
      BY <1>3 DEF cmd_room_leave
    <2>2. RoomTypeOK' /\ PlaceTypeOK'
      BY <1>1, <2>1, SeatTypeParts, GameEndType, VacateSeatType
    <2> QED
      BY <1>1, <2>1, <2>2, HandledSession
      DEF SeatTypeOK, RoomTypeOK, PlaceTypeOK
  <1> QED
    BY <1>2, <1>3

LEMMA LogoutInv ==
  ASSUME SessionInv, SeatTypeOK, NEW f \in Fds, cmd_logout(f)
  PROVE  SessionInv' /\ SeatTypeOK'
  <1> DEFINE c == clients[f]
             g == game[c]
  <1>1. f \in open /\ c \in Clients
    BY OwnerType DEF cmd_logout
  <1>2. /\ players' = IF state[c] = STATE_UNLOGGED THEN players
                      ELSE [players EXCEPT ![name[c]] = NULL]
        /\ close_connection(f, 0)
        /\ Handled(c)
        /\ UNCHANGED <<clients, fd, name, playerNum, connected>>
    BY DEF cmd_logout, RemoveName
  <1>3. /\ open' = open \ {f}
        /\ open' \in SUBSET Fds /\ hungup' \in SUBSET open'
        /\ s_curr_players' \in Int
    BY <1>1, <1>2, CloseSession
  <1>4. players' \in [Names -> Clients \cup {NULL}]
    BY <1>2 DEF SessionInv, SessionTypeOK
  <1>5. SessionInv'
    BY <1>1, <1>2, <1>3, <1>4, LimitAssumption
    DEF SessionInv, SessionTypeOK, SocketsConsistent, Handled
  <1>6. RoomTypeOK' /\ PlaceTypeOK'
    <2>1. CASE state[c] = STATE_IN_ROOM
      <3>1. UNCHANGED <<state, toldVars>>
        BY <2>1 DEF cmd_logout
      <3>2. CASE NULL \in Seats(g)
        <4>1. FreeRoom(g) /\ game' = [game EXCEPT ![c] = NULL]
          BY <2>1, <3>2 DEF cmd_logout
        <4>2. RoomTypeOK'
          BY <4>1, SeatTypeParts, FreeRoomType
        <4> QED
          BY <1>1, <3>1, <4>1, <4>2 DEF SeatTypeOK, PlaceTypeOK, toldVars
      <3>3. CASE NULL \notin Seats(g)
        <4>1. /\ player1' = [player1 EXCEPT ![g] = IF @ = c THEN NULL ELSE @]
              /\ player2' = [player2 EXCEPT ![g] = IF @ = c THEN NULL ELSE @]
              /\ UNCHANGED <<roomState, roomId, rooms, s_curr_rooms, game>>
          BY <2>1, <3>3 DEF cmd_logout
        <4> QED
          BY <3>1, <4>1 DEF SeatTypeOK, RoomTypeOK, PlaceTypeOK, toldVars
      <3> QED
        BY <3>2, <3>3
    <2>2. CASE state[c] # STATE_IN_ROOM
      <3>1. game_end(g) \/ UNCHANGED <<state, game, roomVars, toldVars>>
        BY <2>2 DEF cmd_logout
      <3>2. CASE UNCHANGED <<state, game, roomVars, toldVars>>
        BY <3>2 DEF SeatTypeOK, RoomTypeOK, PlaceTypeOK, roomVars, toldVars
      <3> QED
        BY <3>1, <3>2, SeatTypeParts, GameEndType
    <2> QED
      BY <2>1, <2>2
  <1> QED
    BY <1>2, <1>5, <1>6 DEF SeatTypeOK, RoomTypeOK, PlaceTypeOK

LEMMA GamePreparedInv ==
  ASSUME SessionInv, SeatTypeOK, NEW f \in Fds, NEW accepted \in BOOLEAN,
         cmd_game_prepared(f, accepted)
  PROVE  SessionInv' /\ SeatTypeOK'
  <1> DEFINE c == clients[f]
             p1 == player1[game[c]]
             ready == [state EXCEPT ![c] = STATE_IN_GAME]
  <1>1. f \in open /\ c \in Clients
    BY OwnerType DEF cmd_game_prepared
  <1>2. CASE Reply(c)
    BY <1>1, <1>2, ReplyInv
  <1>3. CASE ~Reply(c)
    <2>1. /\ \/ /\ state' = [ready EXCEPT ![p1] = 5]
                /\ told' = [told EXCEPT ![c] = 4, ![p1] = 5]
             \/ /\ state' = ready
                /\ told' = [told EXCEPT ![c] = 4]
          /\ Handled(c)
          /\ UNCHANGED <<socketVars, fd, name, playerNum, game, connected,
                         players, roomVars, s_curr_players, toldOpp>>
      BY <1>3 DEF cmd_game_prepared
    <2>2. /\ ready \in [Clients -> 0 .. 5] /\ told \in [Clients -> 0 .. 5]
          /\ 4 \in 0 .. 5 /\ 5 \in 0 .. 5
      BY <1>1 DEF SeatTypeOK
    <2>3. state' \in [Clients -> 0 .. 5] /\ told' \in [Clients -> 0 .. 5]
      <3> HIDE DEF ready, p1, c
      <3> QED
        BY <2>1, <2>2, ExceptType, ExceptType2
    <2> QED
      BY <1>1, <2>1, <2>3, HandledSession DEF SeatTypeOK, roomVars
  <1> QED
    BY <1>2, <1>3

LEMMA GameFireInv ==
  ASSUME SessionInv, SeatTypeOK, NEW f \in Fds, NEW outcome,
         cmd_game_fire(f, outcome)
  PROVE  SessionInv' /\ SeatTypeOK'
  <1> DEFINE c == clients[f]
             g == game[c]
             target == IF playerNum[c] = 1 THEN player2[g] ELSE player1[g]
  <1>1. f \in open /\ c \in Clients
    BY OwnerType DEF cmd_game_fire
  <1>2. CASE Reply(c)
    BY <1>1, <1>2, ReplyInv
  <1>3. CASE ~Reply(c)
    <2>1. /\ Handled(c)
          /\ UNCHANGED <<socketVars, fd, name, playerNum, connected, players,
                         s_curr_players>>
      BY <1>3 DEF cmd_game_fire
    <2>2. SessionInv'
      BY <1>1, <2>1, HandledSession
    <2>3. RoomTypeOK' /\ PlaceTypeOK'
      <3>1. CASE outcome = "last_ship"
        <4>1. game_end(g)
          BY <1>3, <3>1 DEF cmd_game_fire
        <4> QED
          BY <4>1, SeatTypeParts, GameEndType
      <3>2. CASE outcome # "last_ship"
        <4>1. /\ state' = [state EXCEPT ![c] = 4, ![target] = 5]
              /\ told' = [told EXCEPT ![c] = 4, ![target] = 5]
              /\ UNCHANGED <<game, roomVars, toldOpp>>
          BY <1>3, <3>2 DEF cmd_game_fire, PassTurn
        <4>2. /\ state \in [Clients -> 0 .. 5] /\ told \in [Clients -> 0 .. 5]
              /\ 4 \in 0 .. 5 /\ 5 \in 0 .. 5
          BY DEF SeatTypeOK
        <4>3. state' \in [Clients -> 0 .. 5] /\ told' \in [Clients -> 0 .. 5]
          <5> HIDE DEF c, g, target
          <5> QED
            BY <4>1, <4>2, ExceptType2
        <4> QED
          BY <4>1, <4>3 DEF SeatTypeOK, RoomTypeOK, PlaceTypeOK, roomVars
      <3> QED
        BY <3>1, <3>2
    <2> QED
      BY <2>1, <2>2, <2>3 DEF SeatTypeOK, RoomTypeOK, PlaceTypeOK
  <1> QED
    BY <1>2, <1>3

LEMMA GameInfoInv ==
  ASSUME SessionInv, SeatTypeOK, NEW f \in Fds, cmd_game_info(f)
  PROVE  SessionInv' /\ SeatTypeOK'
  <1>1. f \in open /\ clients[f] \in Clients
    BY OwnerType DEF cmd_game_info
  <1>2. SessionInv'
    BY <1>1, HandledSession DEF cmd_game_info
  <1>3. SeatTypeOK'
    BY <1>1 DEF cmd_game_info, SeatTypeOK, roomVars
  <1> QED
    BY <1>2, <1>3

LEMMA UnknownCommandInv ==
  ASSUME SessionInv, SeatTypeOK, NEW f \in Fds, UnknownCommand(f)
  PROVE  SessionInv' /\ SeatTypeOK'
  <1> DEFINE c == clients[f]
  <1>1. f \in open /\ c \in Clients
    BY OwnerType DEF UnknownCommand
  <1>2. invalid_count' = [invalid_count EXCEPT ![c] = @ + 1]
    BY DEF UnknownCommand
  <1>3. CASE invalid_count[c] + 1 >= MaxInvalid
    <2>1. /\ server_disconnect(f, 0) /\ 0 \in Int
          /\ invalid_count' = [invalid_count EXCEPT ![clients[f]] = @ + 1]
      BY <1>3 DEF UnknownCommand
    <2> HIDE DEF c
    <2> QED
      BY <1>1, <2>1, DisconnectInv
  <1>4. CASE ~(invalid_count[c] + 1 >= MaxInvalid)
    <2>1. UNCHANGED <<socketVars, fd, name, state, playerNum, game, connected,
                      players, roomVars, s_curr_players, toldVars>>
      BY <1>4 DEF UnknownCommand
    <2>2. SeatTypeOK'
      BY <2>1 DEF SeatTypeOK, roomVars, toldVars
    <2>3. SessionInv'
      BY <1>1, <1>2, <1>4, <2>1, LimitAssumption
      DEF SessionInv, SessionTypeOK, SocketsConsistent, socketVars
    <2> QED
      BY <2>2, <2>3
  <1> QED
    BY <1>3, <1>4

-----------------------------------------------------------------------------
LEMMA InitInv == Init => SessionInv /\ SeatTypeOK
  BY NullAssumption, LimitAssumption
  DEF Init, SessionInv, SessionTypeOK, SeatTypeOK, SocketsConsistent, RoomIds

LEMMA StepInv ==
  ASSUME SessionInv, SeatTypeOK, [Next]_vars
  PROVE  SessionInv' /\ SeatTypeOK'
  <1>1. CASE UNCHANGED vars
    BY <1>1 DEF vars, socketVars, clientVars, roomVars, toldVars, SessionInv,
                SessionTypeOK, SeatTypeOK, SocketsConsistent
  <1>2. CASE Next
    <2> PICK f \in Fds :
          \/ server_new_connection(f)
          \/ Hangup(f)
          \/ ReadEof(f)
          \/ \E n \in Names \cup {BadName, NoName} : cmd_login(f, n)
          \/ cmd_room_create(f)
          \/ cmd_room_list(f)
          \/ \E i \in RoomIds : cmd_room_join(f, i)
          \/ cmd_room_leave(f)
          \/ cmd_logout(f)
          \/ \E accepted \in BOOLEAN : cmd_game_prepared(f, accepted)
          \/ \E outcome \in {"refused", "turn", "last_ship"} : cmd_game_fire(f, outcome)
          \/ cmd_game_info(f)
          \/ UnknownCommand(f)
      BY <1>2 DEF Next
    <2>1. CASE Hangup(f)
      BY <2>1 DEF Hangup, clientVars, roomVars, toldVars, SessionInv,
                  SessionTypeOK, SeatTypeOK, SocketsConsistent
    <2>2. CASE ReadEof(f)
      <3>1. f \in open
        BY <2>2 DEF ReadEof, SessionInv, SessionTypeOK
      <3> QED
        BY <2>2, <3>1, DisconnectInv DEF ReadEof
    <2>3. CASE cmd_room_list(f)
      BY <2>3, OwnerType, ReplyInv DEF cmd_room_list
    <2> QED
      BY <2>1, <2>2, <2>3, NewConnectionInv, LoginInv, RoomCreateInv,
         RoomJoinInv, RoomLeaveInv, LogoutInv, GamePreparedInv, GameFireInv,
         GameInfoInv, UnknownCommandInv
  <1> QED
    BY <1>1, <1>2

\* In every run every variable keeps its C type: whatever the order of requests,
\* no handler stores a pointer, counter or state the declarations do not allow.
THEOREM TypeCorrect == Spec => []TypeOK
  <1>1. SessionInv /\ SeatTypeOK => TypeOK
    BY DEF SessionInv, TypeOK
  <1> QED
    BY <1>1, InitInv, StepInv, PTL DEF Spec

\* In every run every open socket has a connected struct client of its own: the
\* handlers never run on a null, shared or disconnected struct.
THEOREM SocketsCorrect == Spec => []SocketsConsistent
  <1>1. SessionInv => SocketsConsistent
    BY DEF SessionInv
  <1> QED
    BY <1>1, InitInv, StepInv, PTL DEF Spec

-----------------------------------------------------------------------------
(* The inductive invariant: one part per room, name and socket. *)

\* a and b, in this order, play a game: who fires, and what each was told about
\* the presence of the other.
PairOK(a, b) ==
  /\ playerNum[a] = 1 /\ playerNum[b] = 2
  /\ \/ state[a] = STATE_IN_GAME_PREPARING
        /\ state[b] \in {STATE_IN_GAME_PREPARING, STATE_IN_GAME}
     \/ state[a] = STATE_IN_GAME
        /\ state[b] \in {STATE_IN_GAME_PREPARING, STATE_IN_GAME_PLAYING}
     \/ state[a] = STATE_IN_GAME_PLAYING /\ state[b] = STATE_IN_GAME
  /\ connected[a] => toldOpp[a] = connected[b]
  /\ connected[b] => toldOpp[b] = connected[a]

\* A room and its seats.
RoomOK(g) ==
  /\ player1[g] # player2[g]
  /\ \A c \in Seats(g) \ {NULL} : Registered(c) /\ game[c] = g
  /\ \E c \in Seats(g) \ {NULL} : connected[c]
  /\ IF roomState[g] = GAME_STATE_LOBBY
     THEN NULL \in Seats(g) /\ \A c \in Seats(g) \ {NULL} : state[c] = STATE_IN_ROOM
     ELSE NULL \notin Seats(g) /\ PairOK(player1[g], player2[g])

\* The struct under the name n.
PlayerOK(n) ==
  LET c == players[n]
  IN /\ name[c] = n
     /\ connected[c] <=> Online(c)
     /\ state[c] # STATE_UNLOGGED
     /\ IF state[c] = STATE_IN_LOBBY THEN game[c] = NULL
        ELSE game[c] \in Live /\ c \in Seats(game[c])

\* The struct of the open socket f.
SocketOK(f) ==
  LET c == clients[f]
  IN /\ told[c] = state[c]
     /\ IF state[c] = STATE_UNLOGGED THEN game[c] = NULL /\ ~Registered(c)
        ELSE name[c] \in Names /\ players[name[c]] = c

\* The rooms are counted, and their ids lead to them.
RoomsOK ==
  /\ IsFiniteSet(Live) /\ s_curr_rooms = Cardinality(Live)
  /\ s_curr_rooms <= MaxRooms
  /\ \A g \in Live : roomId[g] \in RoomIds /\ rooms[roomId[g]] = g

PlacesOK ==
  /\ \A g \in Live : RoomOK(g)
  /\ \A n \in Names : players[n] # NULL => PlayerOK(n)
  /\ \A f \in open : SocketOK(f)
  /\ RoomsOK

ServerInv == SessionInv /\ SeatTypeOK /\ PlacesOK

-----------------------------------------------------------------------------
(* What the invariant says of one struct *)

\* The struct of a logged in socket is registered under its name.
LEMMA LoggedIn ==
  ASSUME ServerInv, NEW f \in open, state[clients[f]] # STATE_UNLOGGED
  PROVE  /\ clients[f] \in Clients /\ Registered(clients[f])
         /\ connected[clients[f]] /\ Online(clients[f])
         /\ name[clients[f]] \in Names /\ players[name[clients[f]]] = clients[f]
  BY OwnerType
  DEF ServerInv, PlacesOK, SocketOK, Registered, Online, SessionInv, SocketsConsistent

\* A registered struct has the properties of its name.
LEMMA RegisteredPlayer ==
  ASSUME ServerInv, NEW c \in Clients, Registered(c)
  PROVE  /\ name[c] \in Names /\ players[name[c]] = c
         /\ connected[c] <=> Online(c)
         /\ state[c] # STATE_UNLOGGED
         /\ IF state[c] = STATE_IN_LOBBY THEN game[c] = NULL
            ELSE game[c] \in Live /\ game[c] \in Games /\ c \in Seats(game[c])
  <1>1. PICK n \in Names : players[n] = c
    BY DEF Registered
  <1>2. PlayerOK(n)
    BY <1>1, NullAssumption DEF ServerInv, PlacesOK
  <1> QED
    BY <1>1, <1>2 DEF PlayerOK, Live

\* A waiting player is alone in the room.
LEMMA Waiting ==
  ASSUME ServerInv, NEW c \in Clients, Registered(c), state[c] = STATE_IN_ROOM
  PROVE  /\ game[c] \in Live /\ game[c] \in Games
         /\ roomState[game[c]] = GAME_STATE_LOBBY
         /\ Seats(game[c]) = {c, NULL}
         /\ connected[c]
  <1>1. game[c] \in Live /\ game[c] \in Games /\ c \in Seats(game[c])
    BY RegisteredPlayer
  <1>2. RoomOK(game[c]) /\ c # NULL
    BY <1>1, NullAssumption DEF ServerInv, PlacesOK
  <1>3. roomState[game[c]] = GAME_STATE_LOBBY
    BY <1>1, <1>2 DEF RoomOK, PairOK, Seats
  <1>4. Seats(game[c]) = {c, NULL}
    BY <1>1, <1>2, <1>3 DEF RoomOK, Seats
  <1> QED
    BY <1>1, <1>2, <1>3, <1>4 DEF RoomOK

\* Two players of a game sit opposite each other.
LEMMA Opposite ==
  ASSUME ServerInv, NEW c \in Clients, Registered(c), InGame(state[c])
  PROVE  /\ game[c] \in Live /\ game[c] \in Games
         /\ roomState[game[c]] = GAME_STATE_GAME
         /\ Opponent(c) \in Clients /\ Opponent(c) # c
         /\ Seats(game[c]) = {c, Opponent(c)}
         /\ Registered(Opponent(c)) /\ InGame(state[Opponent(c)])
         /\ game[Opponent(c)] = game[c] /\ Opponent(Opponent(c)) = c
         /\ connected[c] \/ connected[Opponent(c)]
         /\ PairOK(player1[game[c]], player2[game[c]])
  <1> DEFINE g == game[c]
  <1>1. g \in Live /\ g \in Games /\ c \in Seats(g)
    BY RegisteredPlayer DEF InGame
  <1>2. RoomOK(g) /\ c # NULL
    BY <1>1, NullAssumption DEF ServerInv, PlacesOK
  <1>3. roomState[g] # GAME_STATE_LOBBY
    BY <1>1, <1>2 DEF RoomOK, InGame
  <1>4. roomState[g] = GAME_STATE_GAME
    BY <1>1, <1>3 DEF ServerInv, SeatTypeOK, Live
  <1>5. player1[g] \in Clients /\ player2[g] \in Clients /\ player1[g] # player2[g]
    BY <1>1, <1>2, <1>3 DEF RoomOK, Seats, ServerInv, SeatTypeOK
  <1>6. /\ Registered(player1[g]) /\ Registered(player2[g])
        /\ game[player1[g]] = g /\ game[player2[g]] = g
    BY <1>2, <1>3 DEF RoomOK, Seats
  <1>7. /\ PairOK(player1[g], player2[g])
        /\ connected[player1[g]] \/ connected[player2[g]]
    BY <1>2, <1>3 DEF RoomOK, Seats
  <1>8. InGame(state[player1[g]]) /\ InGame(state[player2[g]])
    BY <1>7 DEF PairOK, InGame
  <1>9. c = player1[g] \/ c = player2[g]
    BY <1>1 DEF Seats
  <1> QED
    BY <1>1, <1>4, <1>5, <1>6, <1>7, <1>8, <1>9 DEF Opponent, Seats

-----------------------------------------------------------------------------
(* What a step leaves alone stays in order *)

LEMMA RoomFrame ==
  ASSUME NEW g \in Games, RoomOK(g),
         player1'[g] = player1[g], player2'[g] = player2[g],
         roomState'[g] = roomState[g],
         \A c \in Seats(g) \ {NULL} :
           /\ Registered(c)'
           /\ state'[c] = state[c] /\ game'[c] = game[c]
           /\ connected'[c] = connected[c]
           /\ playerNum'[c] = playerNum[c] /\ toldOpp'[c] = toldOpp[c]
  PROVE  RoomOK(g)'
  BY DEF RoomOK, PairOK, Seats

\* What a room with a game needs.
LEMMA GameRoom ==
  ASSUME NEW g, NEW a, NEW b, player1'[g] = a, player2'[g] = b,
         a # b, a # NULL, b # NULL, roomState'[g] = GAME_STATE_GAME,
         Registered(a)', Registered(b)', game'[a] = g, game'[b] = g,
         connected'[a] \/ connected'[b],
         PairOK(a, b)'
  PROVE  RoomOK(g)'
  <1>1. Seats(g)' = {a, b} /\ \A x \in {a, b} : x # NULL
    BY DEF Seats
  <1>2. \A x \in {a, b} : Registered(x)' /\ game'[x] = g
    OBVIOUS
  <1>3. PairOK(player1[g], player2[g])'
    BY DEF PairOK
  <1> QED
    BY <1>1, <1>2, <1>3 DEF RoomOK

LEMMA PlayerFrame ==
  ASSUME NEW n \in Names, PlayerOK(n), players'[n] = players[n],
         name'[players[n]] = name[players[n]],
         state'[players[n]] = state[players[n]],
         game'[players[n]] = game[players[n]],
         connected'[players[n]] <=> Online(players[n])',
         game[players[n]] \in Live =>
           /\ game[players[n]] \in Live'
           /\ player1'[game[players[n]]] = player1[game[players[n]]]
           /\ player2'[game[players[n]]] = player2[game[players[n]]]
  PROVE  PlayerOK(n)'
  BY DEF PlayerOK, Seats

LEMMA SocketFrame ==
  ASSUME NEW f \in Fds, SocketOK(f), clients'[f] = clients[f],
         told'[clients[f]] = told[clients[f]],
         state'[clients[f]] = state[clients[f]],
         game'[clients[f]] = game[clients[f]],
         name'[clients[f]] = name[clients[f]],
         state[clients[f]] = STATE_UNLOGGED \/ players'[name[clients[f]]] = players[name[clients[f]]],
         Registered(clients[f])' => Registered(clients[f])
  PROVE  SocketOK(f)'
  BY DEF SocketOK

-----------------------------------------------------------------------------
(* Rooms that end *)

\* No struct sits in two rooms, and nobody sits in a room but who points at it.
LEMMA SeatedOnce ==
  ASSUME ServerInv, NEW g \in Live, NEW c \in Seats(g) \ {NULL}
  PROVE  c \in Clients /\ g \in Games /\ game[c] = g /\ Registered(c)
  BY DEF ServerInv, PlacesOK, RoomOK, SeatTypeOK, Live, Seats

LEMMA FreeRoomEffect ==
  ASSUME ServerInv, NEW g \in Live, FreeRoom(g)
  PROVE  /\ Live' = Live \ {g}
         /\ \A h \in Live' : /\ player1'[h] = player1[h] /\ player2'[h] = player2[h]
                             /\ roomState'[h] = roomState[h]
         /\ RoomsOK'
  <1>1. Live' = Live \ {g}
    BY DEF FreeRoom, Live, ServerInv, SeatTypeOK
  <1>2. \A h \in Live' : /\ player1'[h] = player1[h] /\ player2'[h] = player2[h]
                         /\ roomState'[h] = roomState[h] /\ roomId'[h] = roomId[h]
    BY <1>1 DEF FreeRoom, Live, ServerInv, SeatTypeOK
  <1>3. /\ IsFiniteSet(Live') /\ Cardinality(Live') = Cardinality(Live) - 1
        /\ Cardinality(Live) \in Nat
    BY <1>1, FS_RemoveElement, FS_CardinalityType DEF ServerInv, PlacesOK, RoomsOK
  <1>4. RoomsOK'
    BY <1>1, <1>2, <1>3, LimitAssumption
    DEF FreeRoom, ServerInv, PlacesOK, RoomsOK
  <1> QED
    BY <1>1, <1>2, <1>4

\* The player who leaves a waiting room ends it, like game_end.
LEMMA VacateEnds ==
  ASSUME ServerInv, NEW c \in Clients, Registered(c), state[c] = STATE_IN_ROOM,
         VacateSeat(c)
  PROVE  game_end(game[c])
  <1> DEFINE g == game[c]
             p1 == IF player1[g] = c THEN NULL ELSE player1[g]
             p2 == IF player2[g] = c THEN NULL ELSE player2[g]
  <1>1. Seats(g) = {c, NULL} /\ NULL \notin Clients
    BY Waiting, NullAssumption
  <1>2. p1 = NULL /\ p2 = NULL
    BY <1>1 DEF Seats
  <1>3. FreeRoom(g)
    BY <1>2 DEF VacateSeat
  <1>4. /\ game' = [game EXCEPT ![c] = NULL]
        /\ state' = [state EXCEPT ![c] = STATE_IN_LOBBY]
        /\ told' = [told EXCEPT ![c] = STATE_IN_LOBBY]
        /\ toldOpp' = [o \in Clients |->
                         IF o \in {c, p1, p2} THEN FALSE ELSE toldOpp[o]]
    BY DEF VacateSeat
  <1>5. \A x \in Clients : x \in Seats(g) <=> x = c
    BY <1>1
  <1>6. /\ state \in [Clients -> 0 .. 5] /\ told \in [Clients -> 0 .. 5]
        /\ game \in [Clients -> Games \cup {NULL}]
    BY DEF ServerInv, SeatTypeOK
  <1>7. /\ state' = [x \in Clients |-> IF x \in Seats(g) THEN STATE_IN_LOBBY ELSE state[x]]
        /\ told' = [x \in Clients |-> IF x \in Seats(g) THEN STATE_IN_LOBBY ELSE told[x]]
        /\ game' = [x \in Clients |-> IF x \in Seats(g) THEN NULL ELSE game[x]]
    BY <1>4, <1>5, <1>6
  <1>8. toldOpp' = [x \in Clients |-> IF x \in Seats(g) THEN FALSE ELSE toldOpp[x]]
    BY <1>1, <1>2, <1>4, <1>5
  <1> QED
    BY <1>3, <1>7, <1>8 DEF game_end

-----------------------------------------------------------------------------
(* Steps that change the session of one struct at most *)

\* c may lose its connection, or its name and its connection.
SessionOf(c) ==
  /\ UNCHANGED <<name, playerNum>>
  /\ open' \subseteq open
  /\ \A f \in open' : clients'[f] = clients[f]
  /\ \A n \in Names : players'[n] = players[n] \/ (players[n] = c /\ players'[n] = NULL)
  /\ \A x \in Clients :
       IF x = c
       THEN /\ Registered(x)' => Registered(x) /\ (connected'[x] <=> Online(x)')
            /\ Online(x)' => players' = players
       ELSE /\ connected'[x] = connected[x]
            /\ Registered(x)' <=> Registered(x)
            /\ Online(x)' <=> Online(x)

\* Who keeps the socket keeps the name.
LEMMA SessionSockets ==
  ASSUME ServerInv, NEW c \in Clients, SessionOf(c), NEW f \in open'
  PROVE  /\ f \in open /\ f \in Fds /\ clients'[f] = clients[f] /\ clients[f] \in Clients
         /\ Registered(clients[f])' => Registered(clients[f])
         /\ state[clients[f]] # STATE_UNLOGGED =>
              players'[name[clients[f]]] = players[name[clients[f]]]
  <1>1. f \in open /\ clients'[f] = clients[f]
    BY DEF SessionOf
  <1>2. f \in Fds /\ clients[f] \in Clients
    BY <1>1, OwnerType DEF ServerInv
  <1>3. Registered(clients[f])' => Registered(clients[f])
    BY <1>2 DEF SessionOf
  <1>4. ASSUME state[clients[f]] # STATE_UNLOGGED
        PROVE  players'[name[clients[f]]] = players[name[clients[f]]]
    <2>1. name[clients[f]] \in Names /\ players[name[clients[f]]] = clients[f]
      BY <1>1, <1>4, LoggedIn
    <2>2. Online(clients[f])'
      BY <1>1 DEF Online
    <2> QED
      BY <2>1, <2>2 DEF SessionOf
  <1> QED
    BY <1>1, <1>2, <1>3, <1>4

\* The game of c ends: everyone who sat in it is back in the lobby.
LEMMA GameEndPlaces ==
  ASSUME ServerInv, NEW c \in Clients, NEW g \in Live, c \in Seats(g),
         SessionOf(c), game_end(g)
  PROVE  PlacesOK'
  <1>1. FreeRoom(g) /\ g \in Games /\ NULL \notin Clients /\ NULL \notin Games
    BY NullAssumption DEF game_end, Live
  <1>2. /\ Live' = Live \ {g}
        /\ \A h \in Live' : /\ player1'[h] = player1[h] /\ player2'[h] = player2[h]
                            /\ roomState'[h] = roomState[h]
        /\ RoomsOK'
    BY <1>1, FreeRoomEffect
  <1>3. \A x \in Clients :
          /\ state'[x] = IF x \in Seats(g) THEN STATE_IN_LOBBY ELSE state[x]
          /\ told'[x] = IF x \in Seats(g) THEN STATE_IN_LOBBY ELSE told[x]
          /\ game'[x] = IF x \in Seats(g) THEN NULL ELSE game[x]
          /\ toldOpp'[x] = IF x \in Seats(g) THEN FALSE ELSE toldOpp[x]
    BY DEF game_end
  <1>4. ASSUME NEW h \in Live'
        PROVE  RoomOK(h)'
    <2>1. h \in Live /\ h # g /\ h \in Games /\ RoomOK(h)
      BY <1>2 DEF Live, ServerInv, PlacesOK
    <2>2. ASSUME NEW x \in Seats(h) \ {NULL}
          PROVE  x \in Clients /\ Registered(x) /\ x \notin Seats(g) /\ x # c
      BY <1>1, <2>1, SeatedOnce
    <2> QED
      BY <1>2, <1>3, <2>1, <2>2, RoomFrame DEF SessionOf
  <1>5. ASSUME NEW n \in Names, players'[n] # NULL
        PROVE  PlayerOK(n)'
    <2> DEFINE p == players[n]
    <2>1. players'[n] = p /\ p \in Clients /\ Registered(p) /\ Registered(p)'
      BY <1>5 DEF SessionOf, ServerInv, SessionInv, SessionTypeOK, Registered
    <2>2. PlayerOK(n)
      BY <2>1, <1>1 DEF ServerInv, PlacesOK
    <2>3. connected'[p] <=> Online(p)'
      BY <2>1, RegisteredPlayer DEF SessionOf
    <2>4. name'[p] = n
      BY <2>2 DEF PlayerOK, SessionOf
    <2>5. CASE p \in Seats(g)
      <3>1. state'[p] = STATE_IN_LOBBY
        BY <1>3, <2>1, <2>5
      <3>2. game'[p] = NULL
        BY <1>3, <2>1, <2>5
      <3> QED
        BY <3>1, <3>2, <2>1, <2>3, <2>4 DEF PlayerOK
    <2>6. CASE p \notin Seats(g)
      <3>1. state'[p] = state[p] /\ game'[p] = game[p]
        BY <1>3, <2>1, <2>6
      <3>2. game[p] # g
        BY <1>1, <2>1, <2>6, RegisteredPlayer
      <3>4. game[p] \in Live => /\ game[p] \in Live'
                                /\ player1'[game[p]] = player1[game[p]]
                                /\ player2'[game[p]] = player2[game[p]]
        BY <1>2, <3>2
      <3>3. name'[p] = name[p]
        BY DEF SessionOf
      <3> HIDE DEF p
      <3> QED
        BY <2>1, <2>2, <2>3, <3>1, <3>3, <3>4, PlayerFrame DEF p
    <2> QED
      BY <2>5, <2>6
  <1>6. ASSUME NEW f \in open'
        PROVE  SocketOK(f)'
    <2> DEFINE p == clients[f]
    <2>1. /\ f \in open /\ f \in Fds /\ clients'[f] = p /\ p \in Clients
          /\ Registered(p)' => Registered(p)
          /\ state[p] # STATE_UNLOGGED => players'[name[p]] = players[name[p]]
          /\ name' = name
      BY SessionSockets DEF SessionOf
    <2>2. SocketOK(f)
      BY <2>1 DEF ServerInv, PlacesOK
    <2>3. CASE p \in Seats(g)
      <3>1. Registered(p) /\ state[p] # STATE_UNLOGGED
        BY <1>1, <2>1, <2>3, SeatedOnce, RegisteredPlayer
      <3>2. state'[p] = STATE_IN_LOBBY /\ told'[p] = STATE_IN_LOBBY
        BY <1>3, <2>1, <2>3
      <3> QED
        BY <2>1, <2>2, <3>1, <3>2 DEF SocketOK
    <2>4. CASE p \notin Seats(g)
      BY <1>3, <2>1, <2>2, <2>4, SocketFrame
    <2> QED
      BY <2>3, <2>4
  <1> QED
    BY <1>2, <1>4, <1>5, <1>6 DEF PlacesOK

\* The rooms, places and states stay, whatever becomes of the connection of c.
LEMMA SessionPlaces ==
  ASSUME ServerInv, NEW c \in Clients, SessionOf(c),
         UNCHANGED <<state, game, roomVars, told>>,
         \A g \in Live : IF c \in Seats(g) THEN RoomOK(g)'
                         ELSE \A x \in Seats(g) \ {NULL} : toldOpp'[x] = toldOpp[x]
  PROVE  PlacesOK'
  <1>1. Live' = Live /\ RoomsOK'
    BY DEF roomVars, Live, ServerInv, PlacesOK, RoomsOK
  <1>2. ASSUME NEW h \in Live'
        PROVE  RoomOK(h)'
    <2>1. h \in Live /\ h \in Games /\ RoomOK(h)
      BY <1>1 DEF Live, ServerInv, PlacesOK
    <2>2. CASE c \notin Seats(h)
      <3>1. ASSUME NEW x \in Seats(h) \ {NULL}
            PROVE  /\ Registered(x)' /\ connected'[x] = connected[x]
                   /\ playerNum' = playerNum /\ toldOpp'[x] = toldOpp[x]
        BY <2>1, <2>2, <3>1, SeatedOnce DEF SessionOf
      <3> QED
        BY <2>1, <3>1, RoomFrame DEF roomVars, SessionOf
    <2> QED
      BY <2>1, <2>2
  <1>3. ASSUME NEW n \in Names, players'[n] # NULL
        PROVE  PlayerOK(n)'
    <2> DEFINE p == players[n]
    <2>1. players'[n] = p /\ p \in Clients /\ Registered(p) /\ Registered(p)'
      BY <1>3 DEF SessionOf, ServerInv, SessionInv, SessionTypeOK, Registered
    <2>2. PlayerOK(n)
      BY <2>1, NullAssumption DEF ServerInv, PlacesOK
    <2>3. connected'[p] <=> Online(p)'
      BY <2>1, RegisteredPlayer DEF SessionOf
    <2>4. name'[p] = name[p]
      BY DEF SessionOf
    <2> HIDE DEF p
    <2> QED
      BY <1>1, <2>1, <2>2, <2>3, <2>4, PlayerFrame DEF p, roomVars
  <1>4. ASSUME NEW f \in open'
        PROVE  SocketOK(f)'
    <2>1. f \in open /\ f \in Fds /\ SocketOK(f)
      BY SessionSockets DEF ServerInv, PlacesOK
    <2> QED
      BY <2>1, SessionSockets, SocketFrame DEF SessionOf
  <1> QED
    BY <1>1, <1>2, <1>3, <1>4 DEF PlacesOK

\* Closing the socket of c takes c, and nobody else, offline.
LEMMA ClosedSession ==
  ASSUME ServerInv, NEW f \in open, open' = open \ {f},
         \A h \in open' : clients'[h] = clients[h]
  PROVE  \A x \in Clients : Online(x)' <=> Online(x) /\ x # clients[f]
  BY OwnerType DEF ServerInv, SessionInv, SessionTypeOK, SocketsConsistent, Online

LEMMA DisconnectSessionOf ==
  ASSUME ServerInv, NEW f \in open, NEW k \in Int, server_disconnect(f, k),
         NEW c, c = clients[f]
  PROVE  /\ SessionOf(c) /\ c \in Clients
         /\ \A x \in Clients : /\ connected'[x] = (connected[x] /\ x # c)
                               /\ Registered(x)' <=> Registered(x)
  <1>1. /\ connected' = [connected EXCEPT ![c] = FALSE]
        /\ clients' = [clients EXCEPT ![f] = NULL]
        /\ open' = open \ {f}
        /\ UNCHANGED <<name, playerNum, players>>
    BY DEF server_disconnect, close_connection
  <1>2. c \in Clients /\ f \in Fds /\ open \subseteq Fds
    BY OwnerType DEF ServerInv, SessionInv, SessionTypeOK
  <1>3. \A h \in open' : clients'[h] = clients[h]
    BY <1>1, <1>2 DEF ServerInv, SessionInv, SessionTypeOK
  <1>4. \A x \in Clients : Online(x)' <=> Online(x) /\ x # c
    BY <1>1, <1>3, ClosedSession
  <1>5. \A x : Registered(x)' <=> Registered(x)
    BY <1>1 DEF Registered
  <1>6. \A x \in Clients : connected'[x] = (connected[x] /\ x # c)
    BY <1>1, <1>2 DEF ServerInv, SessionInv, SessionTypeOK
  <1>7. \A x \in Clients \ {c} : connected'[x] = connected[x]
    BY <1>1, <1>2 DEF ServerInv, SessionInv, SessionTypeOK
  <1>8. SessionOf(c)
    BY <1>1, <1>2, <1>3, <1>4, <1>5, <1>6, <1>7 DEF SessionOf
  <1> QED
    BY <1>2, <1>5, <1>6, <1>8

\* Whatever c was doing, server_disconnect leaves everything in order.
LEMMA DisconnectPlaces ==
  ASSUME ServerInv, NEW f \in open, NEW k \in Int, server_disconnect(f, k)
  PROVE  PlacesOK'
  <1> PICK c : c = clients[f]
    OBVIOUS
  <1>1. /\ c \in Clients /\ SessionOf(c) /\ SeatOnDisconnect(c)
        /\ playerNum' = playerNum
        /\ \A x \in Clients : /\ connected'[x] = (connected[x] /\ x # c)
                              /\ Registered(x)' <=> Registered(x)
    <2>1. SeatOnDisconnect(c)
      BY DEF server_disconnect
    <2>2. playerNum' = playerNum
      BY DEF server_disconnect
    <2> QED
      BY <2>1, <2>2, DisconnectSessionOf
  <1>2. CASE state[c] = STATE_IN_ROOM
    <2>1. Registered(c) /\ VacateSeat(c)
      BY <1>1, <1>2, LoggedIn DEF SeatOnDisconnect
    <2>2. game[c] \in Live /\ c \in Seats(game[c]) /\ game_end(game[c])
      BY <1>1, <1>2, <2>1, Waiting, VacateEnds
    <2> QED
      BY <1>1, <2>2, GameEndPlaces
  <1>3. CASE InGame(state[c])
    <2> PICK g, o : g = game[c] /\ o = Opponent(c)
      OBVIOUS
    <2>1. /\ Registered(c) /\ connected[c]
          /\ g \in Live /\ g \in Games /\ Seats(g) = {c, o}
          /\ roomState[g] = GAME_STATE_GAME
          /\ o \in Clients /\ o # c /\ Registered(o) /\ game[o] = g
          /\ PairOK(player1[g], player2[g])
      BY <1>1, <1>3, LoggedIn, Opposite DEF InGame
    <2>2. CASE ~connected[o]
      <3>1. game_end(g)
        BY <1>1, <1>3, <2>2 DEF SeatOnDisconnect, InGame
      <3> QED
        BY <1>1, <2>1, <3>1, GameEndPlaces
    <2>3. CASE connected[o]
      <3>1. /\ toldOpp' = [toldOpp EXCEPT ![o] = FALSE]
            /\ UNCHANGED <<state, game, roomVars, told>>
        BY <1>1, <1>3, <2>1, <2>3, NullAssumption DEF SeatOnDisconnect, InGame
      <3>2. toldOpp'[o] = FALSE /\ \A x \in Clients \ {o} : toldOpp'[x] = toldOpp[x]
        BY <2>1, <3>1 DEF ServerInv, SeatTypeOK
      <3>3. connected'[c] = FALSE /\ connected'[o]
        BY <1>1, <2>1, <2>3
      <3>4. RoomOK(g)
        BY <2>1 DEF ServerInv, PlacesOK
      <3>5. Registered(c)' /\ Registered(o)'
        BY <1>1, <2>1
      <3>6. RoomOK(g)'
        <4>1. /\ player1'[g] = player1[g] /\ player2'[g] = player2[g]
              /\ roomState'[g] = GAME_STATE_GAME
              /\ state'[c] = state[c] /\ state'[o] = state[o]
              /\ game'[c] = g /\ game'[o] = g
          BY <2>1, <3>1 DEF roomVars
        <4>2. \/ player1[g] = c /\ player2[g] = o
              \/ player1[g] = o /\ player2[g] = c
          BY <2>1 DEF Seats
        <4>3. toldOpp'[o] = connected'[c] /\ ~connected'[c] /\ connected'[o]
          BY <3>2, <3>3
        <4>4. \/ player1[g] = c /\ player2[g] = o /\ PairOK(c, o)'
              \/ player1[g] = o /\ player2[g] = c /\ PairOK(o, c)'
          <5>1. \/ player1[g] = c /\ player2[g] = o /\ PairOK(c, o)
                \/ player1[g] = o /\ player2[g] = c /\ PairOK(o, c)
            BY <2>1, <4>2
          <5>2. PairOK(c, o) => PairOK(c, o)'
            BY <1>1, <4>1, <4>3 DEF PairOK
          <5>3. PairOK(o, c) => PairOK(o, c)'
            BY <1>1, <4>1, <4>3 DEF PairOK
          <5> QED
            BY <5>1, <5>2, <5>3
        <4> QED
          BY <1>1, <2>1, <3>5, <4>1, <4>3, <4>4, GameRoom, NullAssumption
      <3>7. ASSUME NEW h \in Live
            PROVE  IF c \in Seats(h) THEN RoomOK(h)'
                   ELSE \A x \in Seats(h) \ {NULL} : toldOpp'[x] = toldOpp[x]
        <4>1. c \in Seats(h) => h = g
          BY <1>1, SeatedOnce, NullAssumption
        <4>2. o \in Seats(h) => h = g
          BY <2>1, SeatedOnce, NullAssumption
        <4>3. \A x \in Seats(h) \ {NULL} : x \in Clients
          BY SeatedOnce
        <4> QED
          BY <2>1, <3>2, <3>6, <4>1, <4>2, <4>3
      <3> QED
        BY <1>1, <3>1, <3>7, SessionPlaces
    <2> QED
      BY <2>2, <2>3
  <1>4. CASE state[c] # STATE_IN_ROOM /\ ~InGame(state[c])
    <2>1. UNCHANGED <<state, game, roomVars, toldVars>>
      BY <1>1, <1>4 DEF SeatOnDisconnect
    <2>2. state[c] \in {STATE_UNLOGGED, STATE_IN_LOBBY}
      BY <1>1, <1>4 DEF ServerInv, SeatTypeOK, InGame
    <2>3. game[c] = NULL
      BY <1>1, <2>2, LoggedIn, RegisteredPlayer DEF ServerInv, PlacesOK, SocketOK
    <2>4. \A g \in Live : c \notin Seats(g)
      BY <1>1, <2>3, SeatedOnce, NullAssumption DEF Live
    <2> QED
      BY <1>1, <2>1, <2>4, SessionPlaces DEF toldVars
  <1> QED
    BY <1>2, <1>3, <1>4

\* A step that leaves all sessions alone.
LEMMA SameSession ==
  ASSUME ServerInv, UNCHANGED <<socketVars, name, players, connected, playerNum>>,
         NEW c \in Clients
  PROVE  SessionOf(c)
  <1>1. Registered(c) => (connected[c] <=> Online(c))
    BY RegisteredPlayer
  <1>2. /\ \A x : Registered(x)' <=> Registered(x)
        /\ \A x : Online(x)' <=> Online(x)
    BY DEF Registered, Online, socketVars
  <1> QED
    BY <1>1, <1>2 DEF SessionOf, socketVars

LEMMA SamePlaces ==
  ASSUME ServerInv, UNCHANGED <<open, clients, name, players, connected, playerNum,
                                state, game, roomVars, told, toldOpp>>
  PROVE  PlacesOK'
  BY DEF roomVars, ServerInv, PlacesOK, RoomOK, PlayerOK, SocketOK,
         RoomsOK, PairOK, Live, Seats, Registered, Online

-----------------------------------------------------------------------------
(* One lemma per request *)

LEMMA RoomLeavePlaces ==
  ASSUME ServerInv, NEW f \in Fds, cmd_room_leave(f)
  PROVE  PlacesOK'
  <1> PICK c : c = clients[f]
    OBVIOUS
  <1>1. f \in open /\ c \in Clients
    BY OwnerType DEF cmd_room_leave, ServerInv
  <1>2. CASE InGame(state[c]) \/ state[c] = STATE_IN_ROOM
    <2>1. /\ IF InGame(state[c]) THEN game_end(game[c]) ELSE VacateSeat(c)
          /\ UNCHANGED <<socketVars, fd, name, playerNum, connected, players>>
      BY <1>2 DEF cmd_room_leave
    <2>2. Registered(c)
      BY <1>1, <1>2, LoggedIn DEF InGame
    <2>3. game[c] \in Live /\ c \in Seats(game[c]) /\ game_end(game[c])
      BY <1>1, <1>2, <2>1, <2>2, Opposite, Waiting, VacateEnds
    <2> QED
      BY <1>1, <2>1, <2>3, SameSession, GameEndPlaces
  <1>3. CASE ~(InGame(state[c]) \/ state[c] = STATE_IN_ROOM)
    BY <1>3, SamePlaces DEF cmd_room_leave, Reply, socketVars, toldVars
  <1> QED
    BY <1>2, <1>3

\* logout_req takes the name away with the connection.
LEMMA LogoutSessionOf ==
  ASSUME ServerInv, NEW f \in Fds, cmd_logout(f), NEW c, c = clients[f]
  PROVE  /\ f \in open /\ c \in Clients /\ SessionOf(c)
         /\ \A x \in {c} : ~Registered(x)' /\ ~Online(x)'
  <1>1. /\ f \in open
        /\ players' = IF state[c] = STATE_UNLOGGED THEN players
                      ELSE [players EXCEPT ![name[c]] = NULL]
        /\ open' = open \ {f}
        /\ UNCHANGED <<clients, name, playerNum, connected>>
    BY DEF cmd_logout, RemoveName, close_connection
  <1>2. c \in Clients /\ NULL \notin Clients
    BY <1>1, OwnerType, NullAssumption DEF ServerInv
  <1>3. \A x \in Clients : Online(x)' <=> Online(x) /\ x # c
    BY <1>1, ClosedSession
  <1>4. CASE state[c] = STATE_UNLOGGED
    <2>1. ~Registered(c)
      BY <1>1, <1>4 DEF ServerInv, PlacesOK, SocketOK
    <2>2. \A x : Registered(x)' <=> Registered(x)
      BY <1>1, <1>4 DEF Registered
    <2> QED
      BY <1>1, <1>2, <1>3, <1>4, <2>1, <2>2 DEF SessionOf
  <1>5. CASE state[c] # STATE_UNLOGGED
    <2>1. name[c] \in Names /\ players[name[c]] = c
      BY <1>1, <1>5, LoggedIn
    <2>2. \A n \in Names : players'[n] = IF n = name[c] THEN NULL ELSE players[n]
      BY <1>1, <1>5 DEF ServerInv, SessionInv, SessionTypeOK
    <2>3. \A n \in Names : players[n] = c => n = name[c]
      BY <1>2 DEF ServerInv, PlacesOK, PlayerOK
    <2>4. \A x \in {c} : ~Registered(x)'
      BY <1>2, <2>1, <2>2, <2>3 DEF Registered
    <2>5. \A x \in Clients \ {c} : Registered(x)' <=> Registered(x)
      BY <1>2, <2>1, <2>2, <2>3 DEF Registered
    <2> QED
      BY <1>1, <1>2, <1>3, <2>1, <2>2, <2>4, <2>5 DEF SessionOf
  <1> QED
    BY <1>4, <1>5

\* The room that the player waited in goes with the player, though the struct
\* keeps its state.
LEMMA LogoutRoomPlaces ==
  ASSUME ServerInv, NEW c \in Clients, NEW g \in Live, Seats(g) = {c, NULL},
         SessionOf(c), \A x \in {c} : ~Registered(x)' /\ ~Online(x)',
         FreeRoom(g), game' = [game EXCEPT ![c] = NULL],
         UNCHANGED <<state, toldVars>>
  PROVE  PlacesOK'
  <1>1. /\ Live' = Live \ {g}
        /\ \A h \in Live' : /\ player1'[h] = player1[h] /\ player2'[h] = player2[h]
                            /\ roomState'[h] = roomState[h]
        /\ RoomsOK'
    BY FreeRoomEffect
  <1>2. \A x \in Clients \ {c} : game'[x] = game[x]
    BY DEF ServerInv, SeatTypeOK
  <1>3. ASSUME NEW h \in Live'
        PROVE  RoomOK(h)'
    <2>1. h \in Live /\ h # g /\ h \in Games /\ RoomOK(h)
      BY <1>1 DEF Live, ServerInv, PlacesOK
    <2>2. ASSUME NEW x \in Seats(h) \ {NULL}
          PROVE  x \in Clients /\ Registered(x) /\ x # c
      <3>1. c # NULL => game[c] = g
        BY SeatedOnce
      <3> QED
        BY <2>1, <3>1, SeatedOnce
    <2> QED
      BY <1>1, <1>2, <2>1, <2>2, RoomFrame DEF SessionOf, toldVars
  <1>4. ASSUME NEW n \in Names, players'[n] # NULL
        PROVE  PlayerOK(n)'
    <2> DEFINE p == players[n]
    <2>1. players'[n] = p /\ p \in Clients /\ Registered(p) /\ Registered(p)' /\ p # c
      BY <1>4 DEF SessionOf, ServerInv, SessionInv, SessionTypeOK, Registered
    <2>2. PlayerOK(n)
      BY <2>1, NullAssumption DEF ServerInv, PlacesOK
    <2>3. connected'[p] <=> Online(p)'
      BY <2>1, RegisteredPlayer DEF SessionOf
    <2>4. game[p] # g
      BY <2>1, RegisteredPlayer, NullAssumption DEF Live
    <2>5. name'[p] = name[p] /\ state'[p] = state[p] /\ game'[p] = game[p]
      BY <1>2, <2>1 DEF SessionOf
    <2> HIDE DEF p
    <2> QED
      BY <1>1, <2>1, <2>2, <2>3, <2>4, <2>5, PlayerFrame DEF p
  <1>5. ASSUME NEW f \in open'
        PROVE  SocketOK(f)'
    <2>1. f \in open /\ f \in Fds /\ SocketOK(f) /\ clients[f] \in Clients
      BY SessionSockets DEF ServerInv, PlacesOK
    <2>2. clients[f] # c
      BY <1>5, SessionSockets DEF Online
    <2> QED
      BY <1>2, <2>1, <2>2, SessionSockets, SocketFrame DEF SessionOf, toldVars
  <1> QED
    BY <1>1, <1>3, <1>4, <1>5 DEF PlacesOK

LEMMA LogoutPlaces ==
  ASSUME ServerInv, NEW f \in Fds, cmd_logout(f)
  PROVE  PlacesOK'
  <1> PICK c, g : c = clients[f] /\ g = game[c]
    OBVIOUS
  <1>1. /\ f \in open /\ c \in Clients /\ SessionOf(c)
        /\ \A x \in {c} : ~Registered(x)' /\ ~Online(x)'
    BY LogoutSessionOf
  <1>2. CASE state[c] = STATE_IN_ROOM
    <2>1. g \in Live /\ Seats(g) = {c, NULL}
      BY <1>1, <1>2, LoggedIn, Waiting
    <2>2. /\ FreeRoom(g) /\ game' = [game EXCEPT ![c] = NULL]
          /\ UNCHANGED <<state, toldVars>>
      BY <1>2, <2>1 DEF cmd_logout
    <2> QED
      BY <1>1, <2>1, <2>2, LogoutRoomPlaces
  <1>3. CASE InGame(state[c])
    <2>1. g \in Live /\ c \in Seats(g)
      BY <1>1, <1>3, LoggedIn, Opposite DEF InGame
    <2>2. game_end(g)
      BY <1>3 DEF cmd_logout, InGame
    <2> QED
      BY <1>1, <2>1, <2>2, GameEndPlaces
  <1>4. CASE state[c] # STATE_IN_ROOM /\ ~InGame(state[c])
    <2>1. UNCHANGED <<state, game, roomVars, toldVars>>
      BY <1>4 DEF cmd_logout
    <2>2. g = NULL
      BY <1>1, <1>4, LoggedIn, RegisteredPlayer
      DEF ServerInv, PlacesOK, SocketOK, SeatTypeOK, InGame
    <2>3. \A h \in Live : c \notin Seats(h)
      BY <1>1, <2>2, SeatedOnce, NullAssumption DEF Live
    <2> QED
      BY <1>1, <2>1, <2>3, SessionPlaces DEF toldVars
  <1> QED
    BY <1>2, <1>3, <1>4

\* A fresh struct is one that nothing led to.
LEMMA NewConnectionPlaces ==
  ASSUME ServerInv, NEW f \in Fds, server_new_connection(f)
  PROVE  PlacesOK'
  <1>1. PICK c \in Clients \ Reachable :
          /\ clients' = [clients EXCEPT ![f] = c]
          /\ name' = [name EXCEPT ![c] = NULL]
          /\ state' = [state EXCEPT ![c] = STATE_UNLOGGED]
          /\ playerNum' = [playerNum EXCEPT ![c] = 0]
          /\ game' = [game EXCEPT ![c] = NULL]
          /\ connected' = [connected EXCEPT ![c] = TRUE]
          /\ told' = [told EXCEPT ![c] = STATE_UNLOGGED]
          /\ toldOpp' = [toldOpp EXCEPT ![c] = FALSE]
    BY DEF server_new_connection
  <1>2. /\ open' = open \cup {f} /\ f \notin open
        /\ UNCHANGED <<players, roomVars>>
    BY DEF server_new_connection
  <1>3. /\ \A n \in Names : players[n] # c
        /\ \A h \in open : clients[h] # c
        /\ \A g \in Live : c \notin Seats(g)
    BY <1>1 DEF Reachable
  <1>4. \A x \in Clients \ {c} :
          /\ name'[x] = name[x] /\ state'[x] = state[x] /\ game'[x] = game[x]
          /\ playerNum'[x] = playerNum[x] /\ connected'[x] = connected[x]
          /\ told'[x] = told[x] /\ toldOpp'[x] = toldOpp[x]
    BY <1>1
  <1>5. /\ clients'[f] = c /\ \A h \in open : clients'[h] = clients[h]
        /\ state'[c] = STATE_UNLOGGED /\ told'[c] = STATE_UNLOGGED /\ game'[c] = NULL
    BY <1>1, <1>2 DEF ServerInv, SessionInv, SessionTypeOK, SeatTypeOK
  <1>6. /\ \A x : Registered(x)' <=> Registered(x)
        /\ \A x \in Clients \ {c} : Online(x)' <=> Online(x)
    BY <1>1, <1>2, <1>5 DEF Registered, Online
  <1>7. Live' = Live /\ RoomsOK'
    BY <1>2 DEF roomVars, Live, ServerInv, PlacesOK, RoomsOK
  <1>8. ASSUME NEW g \in Live'
        PROVE  RoomOK(g)'
    <2>1. g \in Live /\ g \in Games /\ RoomOK(g)
      BY <1>7 DEF Live, ServerInv, PlacesOK
    <2>2. \A x \in Seats(g) \ {NULL} : x \in Clients \ {c} /\ Registered(x)
      BY <1>3, <2>1, SeatedOnce
    <2> QED
      BY <1>2, <1>4, <1>6, <2>1, <2>2, RoomFrame DEF roomVars
  <1>9. ASSUME NEW n \in Names, players'[n] # NULL
        PROVE  PlayerOK(n)'
    <2> PICK p : p = players[n]
      OBVIOUS
    <2>1. players'[n] = p /\ p \in Clients \ {c} /\ Registered(p) /\ PlayerOK(n)
      BY <1>2, <1>3, <1>9
      DEF ServerInv, PlacesOK, SessionInv, SessionTypeOK, Registered
    <2>2. connected'[p] <=> Online(p)'
      BY <1>4, <1>6, <2>1, RegisteredPlayer
    <2> QED
      BY <1>2, <1>4, <1>7, <2>1, <2>2, PlayerFrame DEF roomVars
  <1>10. ASSUME NEW h \in open'
         PROVE  SocketOK(h)'
    <2>1. CASE h = f
      <3>1. \A x \in {c} : ~Registered(x)'
        BY <1>3, <1>6 DEF Registered
      <3> QED
        BY <1>5, <2>1, <3>1 DEF SocketOK
    <2>2. CASE h # f
      <3>1. /\ h \in open /\ h \in Fds /\ SocketOK(h)
            /\ clients[h] \in Clients \ {c}
        BY <1>2, <1>3, <1>10, <2>2, OwnerType DEF ServerInv, PlacesOK
      <3> QED
        BY <1>2, <1>4, <1>5, <1>6, <3>1, SocketFrame
    <2> QED
      BY <2>1, <2>2
  <1> QED
    BY <1>7, <1>8, <1>9, <1>10 DEF PlacesOK

\* A first login registers the struct of the socket under the name.
LEMMA FirstLoginPlaces ==
  ASSUME ServerInv, NEW f \in open, NEW n \in Names, NEW c, c = clients[f],
         state[c] = STATE_UNLOGGED, players[n] = NULL, LoginOk(c, n),
         UNCHANGED <<socketVars, playerNum, game, connected, roomVars>>
  PROVE  PlacesOK'
  <1>1. /\ c \in Clients /\ f \in Fds /\ connected[c] /\ NULL \notin Clients
        /\ SocketOK(f)
    BY OwnerType, NullAssumption
    DEF ServerInv, SessionInv, SocketsConsistent, PlacesOK
  <1>2. ~Registered(c) /\ game[c] = NULL
    BY <1>1 DEF SocketOK
  <1>3. /\ name'[c] = n /\ state'[c] = STATE_IN_LOBBY /\ told'[c] = STATE_IN_LOBBY
        /\ players'[n] = c /\ toldOpp' = toldOpp
    BY <1>1 DEF LoginOk, SetName, InGame, ServerInv, SessionInv, SessionTypeOK, SeatTypeOK
  <1>4. \A x \in Clients \ {c} : /\ name'[x] = name[x] /\ state'[x] = state[x]
                                 /\ told'[x] = told[x]
    BY DEF LoginOk, SetName, ServerInv, SessionInv, SessionTypeOK, SeatTypeOK
  <1>5. \A m \in Names \ {n} : players'[m] = players[m]
    BY DEF LoginOk
  <1>6. \A x \in Clients \ {c} : Registered(x)' <=> Registered(x)
    BY <1>1, <1>3, <1>5 DEF Registered
  <1>7. \A x : Online(x)' <=> Online(x)
    BY DEF Online, socketVars
  <1>8. Live' = Live /\ RoomsOK'
    BY DEF roomVars, Live, ServerInv, PlacesOK, RoomsOK
  <1>9. ASSUME NEW g \in Live'
        PROVE  RoomOK(g)'
    <2>1. g \in Live /\ g \in Games /\ RoomOK(g)
      BY <1>8 DEF Live, ServerInv, PlacesOK
    <2>2. \A x \in Seats(g) \ {NULL} : x \in Clients \ {c} /\ Registered(x)
      BY <1>2, <2>1, SeatedOnce
    <2> QED
      BY <1>3, <1>4, <1>6, <2>1, <2>2, RoomFrame DEF roomVars
  <1>10. ASSUME NEW m \in Names, players'[m] # NULL
         PROVE  PlayerOK(m)'
    <2>1. CASE m = n
      <3>1. \A x \in {c} : Online(x)' /\ connected'[x]
        BY <1>1, <1>7 DEF Online
      <3> QED
        BY <1>2, <1>3, <2>1, <3>1 DEF PlayerOK
    <2>2. CASE m # n
      <3> PICK p : p = players[m]
        OBVIOUS
      <3>1. players'[m] = p /\ p \in Clients \ {c} /\ Registered(p) /\ PlayerOK(m)
        BY <1>2, <1>5, <1>10, <2>2
        DEF ServerInv, PlacesOK, SessionInv, SessionTypeOK, Registered
      <3>2. connected'[p] <=> Online(p)'
        BY <1>7, <3>1, RegisteredPlayer
      <3> QED
        BY <1>4, <1>8, <3>1, <3>2, PlayerFrame DEF roomVars
    <2> QED
      BY <2>1, <2>2
  <1>11. ASSUME NEW h \in open'
         PROVE  SocketOK(h)'
    <2>1. h \in open /\ clients'[h] = clients[h]
      BY DEF socketVars
    <2>2. CASE h = f
      BY <1>3, <2>1, <2>2 DEF SocketOK
    <2>3. CASE h # f
      <3>1. h \in Fds /\ SocketOK(h) /\ clients[h] \in Clients \ {c}
        BY <2>1, <2>3, OwnerType
        DEF ServerInv, PlacesOK, SessionInv, SocketsConsistent
      <3>2. state[clients[h]] = STATE_UNLOGGED \/ name[clients[h]] \in Names \ {n}
        BY <1>1, <2>1, <2>3, <3>1, LoggedIn
      <3> QED
        BY <1>4, <1>5, <1>6, <2>1, <3>1, <3>2, SocketFrame
    <2> QED
      BY <2>2, <2>3
  <1> QED
    BY <1>8, <1>9, <1>10, <1>11 DEF PlacesOK

\* A resumed session brings its struct to the new socket, and finds the opponent
\* still there: a game that both have lost is over.
LEMMA ResumePlaces ==
  ASSUME ServerInv, NEW f \in open, NEW n \in Names, NEW c, c = clients[f],
         state[c] = STATE_UNLOGGED, NEW l, l = players[n], l # NULL, ~connected[l],
         clients' = [clients EXCEPT ![f] = l],
         connected' = [connected EXCEPT ![l] = TRUE, ![c] = FALSE],
         LoginOk(l, n),
         UNCHANGED <<open, hungup, playerNum, game, roomVars>>
  PROVE  PlacesOK'
  <1>1. /\ c \in Clients /\ f \in Fds /\ connected[c] /\ SocketOK(f)
        /\ l \in Clients /\ l # c /\ Registered(l) /\ PlayerOK(n)
    BY OwnerType, NullAssumption
    DEF ServerInv, SessionInv, SessionTypeOK, SocketsConsistent, PlacesOK, Registered
  <1>2. ~Registered(c) /\ name[l] = n /\ ~Online(l) /\ state[l] # STATE_UNLOGGED
    BY <1>1 DEF SocketOK, PlayerOK
  <1>3. /\ UNCHANGED <<name, state, players>> /\ told'[l] = state[l]
        /\ \A x \in Clients \ {l} : told'[x] = told[x]
    BY <1>1, <1>2
    DEF LoginOk, SetName, ServerInv, SessionInv, SessionTypeOK, SeatTypeOK
  <1>4. /\ connected'[l] /\ ~connected'[c]
        /\ \A x \in Clients \ {c, l} : connected'[x] = connected[x]
    BY <1>1 DEF ServerInv, SessionInv, SessionTypeOK
  <1>5. clients'[f] = l /\ \A h \in open \ {f} : clients'[h] = clients[h]
    BY <1>1 DEF ServerInv, SessionInv, SessionTypeOK
  <1>6. /\ \A x : Registered(x)' <=> Registered(x)
        /\ \A x \in Clients \ {c, l} : Online(x)' <=> Online(x)
        /\ \A x \in {l} : Online(x)'
    BY <1>3, <1>5 DEF Registered, Online
  <1>7. Live' = Live /\ RoomsOK'
    BY DEF roomVars, Live, ServerInv, PlacesOK, RoomsOK
  <1>8. ASSUME NEW g \in Live'
        PROVE  RoomOK(g)'
    <2>1. g \in Live /\ g \in Games /\ RoomOK(g)
      BY <1>7 DEF Live, ServerInv, PlacesOK
    <2>2. \A x \in Seats(g) \ {NULL} : x \in Clients \ {c} /\ Registered(x) /\ game[x] = g
      BY <1>2, <2>1, SeatedOnce
    <2>3. CASE InGame(state[l])
      <3> PICK o : o = Opponent(l)
        OBVIOUS
      <3>1. /\ o \in Clients /\ o # l /\ Registered(o) /\ o # c /\ connected[o]
            /\ roomState[game[l]] = GAME_STATE_GAME
            /\ Seats(game[l]) = {l, o} /\ game[o] = game[l]
            /\ PairOK(player1[game[l]], player2[game[l]])
        BY <1>1, <1>2, <2>3, Opposite
      <3>2. /\ toldOpp'[l] = TRUE /\ toldOpp'[o] = TRUE
            /\ \A x \in Clients \ {l, o} : toldOpp'[x] = toldOpp[x]
        BY <1>1, <2>3, <3>1 DEF LoginOk, ServerInv, SeatTypeOK
      <3>3. CASE g = game[l]
        <4>1. \/ player1'[g] = l /\ player2'[g] = o /\ PairOK(l, o)
              \/ player1'[g] = o /\ player2'[g] = l /\ PairOK(o, l)
          BY <3>1, <3>3 DEF Seats, roomVars
        <4>2. connected'[l] = TRUE /\ connected'[o] = TRUE
          BY <1>1, <1>4, <3>1 DEF ServerInv, SessionInv, SessionTypeOK
        <4>3. /\ PairOK(l, o) => PairOK(l, o)'
              /\ PairOK(o, l) => PairOK(o, l)'
          BY <1>3, <3>2, <4>2 DEF PairOK
        <4>4. \A x \in {l, o} : /\ Registered(x)' /\ x # NULL /\ game'[x] = g
                                /\ x \in Clients
          BY <1>1, <1>6, <3>1, <3>3, NullAssumption
        <4>5. roomState'[g] = GAME_STATE_GAME
          BY <3>1, <3>3 DEF roomVars
        <4> QED
          BY <3>1, <4>1, <4>2, <4>3, <4>4, <4>5, GameRoom
      <3>4. CASE g # game[l]
        <4>1. \A x \in Seats(g) \ {NULL} : x \in Clients \ {c, l, o}
          BY <2>2, <3>1, <3>4
        <4> QED
          BY ZenonT(60), <1>3, <1>4, <1>6, <2>1, <2>2, <3>2, <4>1, RoomFrame DEF roomVars
      <3> QED
        BY <3>3, <3>4
    <2>4. CASE ~InGame(state[l])
      <3>1. state[l] = STATE_IN_LOBBY
        BY <1>1, <1>2, <2>4, Waiting DEF ServerInv, SeatTypeOK, InGame
      <3>2. \A x \in Seats(g) \ {NULL} : x \in Clients \ {c, l}
        BY <1>1, <2>1, <2>2, <3>1, RegisteredPlayer, NullAssumption
      <3>3. toldOpp' = toldOpp
        BY <2>4 DEF LoginOk
      <3> QED
        BY <1>3, <1>4, <1>6, <2>1, <2>2, <3>2, <3>3, RoomFrame DEF roomVars
    <2> QED
      BY <2>3, <2>4
  <1>9. ASSUME NEW m \in Names, players'[m] # NULL
        PROVE  PlayerOK(m)'
    <2> PICK p : p = players[m]
      OBVIOUS
    <2>1. p \in Clients \ {c} /\ Registered(p) /\ PlayerOK(m)
      BY <1>2, <1>3, <1>9
      DEF ServerInv, PlacesOK, SessionInv, SessionTypeOK, Registered
    <2>2. connected'[p] <=> Online(p)'
      <3>1. connected[p] <=> Online(p)
        BY <2>1, RegisteredPlayer
      <3>2. p # l => /\ connected'[p] = connected[p]
                     /\ Online(p)' <=> Online(p)
        BY <1>4, <1>6, <2>1
      <3>3. p = l => connected'[p] /\ Online(p)'
        BY <1>4, <1>6
      <3> QED
        BY <3>1, <3>2, <3>3
    <2> QED
      BY <1>3, <1>7, <2>1, <2>2, PlayerFrame DEF roomVars
  <1>10. ASSUME NEW h \in open'
         PROVE  SocketOK(h)'
    <2>1. CASE h = f
      BY <1>2, <1>3, <1>5, <2>1 DEF SocketOK
    <2>2. CASE h # f
      <3>1. h \in open /\ h \in Fds /\ SocketOK(h) /\ clients[h] \in Clients \ {c}
        BY <1>10, <2>2, OwnerType
        DEF ServerInv, PlacesOK, SessionInv, SocketsConsistent
      <3>2. clients[h] # l
        BY <1>2, <3>1 DEF Online
      <3> QED
        BY <1>3, <1>5, <1>6, <2>2, <3>1, <3>2, SocketFrame
    <2> QED
      BY <2>1, <2>2
  <1> QED
    BY <1>7, <1>8, <1>9, <1>10 DEF PlacesOK

LEMMA LoginPlaces ==
  ASSUME ServerInv, ~Relogin, NEW f \in Fds,
         NEW n \in Names \cup {BadName, NoName}, cmd_login(f, n)
  PROVE  PlacesOK'
  <1> PICK c, l : c = clients[f] /\ l = players[n]
    OBVIOUS
  <1>1. f \in open /\ state[c] = STATE_UNLOGGED
    BY DEF cmd_login
  <1>2. CASE LoginError(f, 0) \/ LoginError(f, 1)
    BY <1>1, <1>2, DisconnectPlaces DEF LoginError
  <1>3. CASE ~(LoginError(f, 0) \/ LoginError(f, 1))
    <2>1. n \in Names
      BY <1>3 DEF cmd_login
    <2>2. CASE l = NULL
      <3>1. /\ LoginOk(c, n)
            /\ UNCHANGED <<socketVars, playerNum, game, connected, roomVars>>
        BY <1>3, <2>2 DEF cmd_login
      <3> QED
        BY <1>1, <2>1, <2>2, <3>1, FirstLoginPlaces
    <2>3. CASE l # NULL
      <3>1. /\ clients' = [clients EXCEPT ![f] = l]
            /\ connected' = [connected EXCEPT ![l] = TRUE, ![c] = FALSE]
            /\ LoginOk(l, n)
            /\ UNCHANGED <<open, hungup, playerNum, game, roomVars>>
            /\ ~connected[l]
        BY <1>3, <2>3 DEF cmd_login
      <3> QED
        BY <1>1, <2>1, <2>3, <3>1, ResumePlaces
    <2> QED
      BY <2>2, <2>3
  <1> QED
    BY <1>2, <1>3

LEMMA RoomCreatePlaces ==
  ASSUME ServerInv, NEW f \in Fds, cmd_room_create(f)
  PROVE  PlacesOK'
  <1> PICK c : c = clients[f]
    OBVIOUS
  <1>1. f \in open /\ c \in Clients /\ NULL \notin Clients
    BY OwnerType, NullAssumption DEF cmd_room_create, ServerInv
  <1>2. CASE Reply(c)
    BY <1>2, SamePlaces DEF Reply, socketVars, toldVars
  <1>3. CASE ~Reply(c)
    <2>1. s_curr_rooms + 1 <= MaxRooms /\ state[c] = STATE_IN_LOBBY
      BY <1>3, LimitAssumption DEF cmd_room_create, ServerInv, SeatTypeOK
    <2>2. PICK g \in Games \ Live, i \in RoomIds \ {roomId[h] : h \in Live},
               first \in BOOLEAN :
            /\ player1' = [player1 EXCEPT ![g] = IF first THEN c ELSE NULL]
            /\ player2' = [player2 EXCEPT ![g] = IF first THEN NULL ELSE c]
            /\ game' = [game EXCEPT ![c] = g]
            /\ roomState' = [roomState EXCEPT ![g] = GAME_STATE_LOBBY]
            /\ s_curr_rooms' = s_curr_rooms + 1
            /\ roomId' = [roomId EXCEPT ![g] = i]
            /\ rooms' = [rooms EXCEPT ![i] = g]
            /\ state' = [state EXCEPT ![c] = STATE_IN_ROOM]
            /\ told' = [told EXCEPT ![c] = STATE_IN_ROOM]
            /\ UNCHANGED <<socketVars, name, playerNum, connected, players, toldOpp>>
      BY <1>3, <2>1 DEF cmd_room_create
    <2>3. Registered(c) /\ connected[c] /\ game[c] = NULL
      BY <1>1, <2>1, LoggedIn, RegisteredPlayer
    <2>4. /\ Live' = Live \cup {g}
          /\ {player1'[g], player2'[g]} = {c, NULL} /\ player1'[g] # player2'[g]
          /\ roomState'[g] = GAME_STATE_LOBBY /\ roomId'[g] = i /\ rooms'[i] = g
          /\ \A h \in Live : /\ player1'[h] = player1[h] /\ player2'[h] = player2[h]
                             /\ roomState'[h] = roomState[h] /\ roomId'[h] = roomId[h]
                             /\ rooms'[roomId[h]] = rooms[roomId[h]]
      BY <1>1, <2>2 DEF ServerInv, SeatTypeOK, Live
    <2>5. /\ state'[c] = STATE_IN_ROOM /\ told'[c] = STATE_IN_ROOM /\ game'[c] = g
          /\ \A x \in Clients \ {c} : /\ state'[x] = state[x] /\ told'[x] = told[x]
                                      /\ game'[x] = game[x]
      BY <1>1, <2>2 DEF ServerInv, SeatTypeOK
    <2>6. /\ \A x : Registered(x)' <=> Registered(x)
          /\ \A x : Online(x)' <=> Online(x)
      BY <2>2 DEF Registered, Online, socketVars
    <2>7. RoomsOK'
      <3>1. /\ IsFiniteSet(Live') /\ Cardinality(Live') = Cardinality(Live) + 1
            /\ Cardinality(Live) \in Nat
        BY <2>2, <2>4, FS_AddElement, FS_CardinalityType
        DEF ServerInv, PlacesOK, RoomsOK
      <3> QED
        BY <2>1, <2>2, <2>4, <3>1 DEF ServerInv, PlacesOK, RoomsOK
    <2>8. ASSUME NEW h \in Live'
          PROVE  RoomOK(h)'
      <3>1. CASE h = g
        <4>1. Seats(g)' = {c, NULL}
          BY <2>4 DEF Seats
        <4>2. \A x \in {c} : Registered(x)' /\ connected'[x]
          BY <2>2, <2>3, <2>6
        <4> QED
          BY <1>1, <2>4, <2>5, <3>1, <4>1, <4>2 DEF RoomOK
      <3>2. CASE h # g
        <4>1. h \in Live /\ h \in Games /\ RoomOK(h)
          BY <2>4, <3>2 DEF Live, ServerInv, PlacesOK
        <4>2. \A x \in Seats(h) \ {NULL} : x \in Clients \ {c} /\ Registered(x)
          BY <2>3, <4>1, SeatedOnce, NullAssumption
        <4> QED
          BY <2>2, <2>4, <2>5, <2>6, <4>1, <4>2, RoomFrame
      <3> QED
        BY <3>1, <3>2
    <2>9. ASSUME NEW n \in Names, players'[n] # NULL
          PROVE  PlayerOK(n)'
      <3> PICK p : p = players[n]
        OBVIOUS
      <3>1. /\ players'[n] = p /\ p \in Clients /\ Registered(p) /\ PlayerOK(n)
            /\ name' = name /\ connected' = connected
        BY <2>2, <2>9
        DEF ServerInv, PlacesOK, SessionInv, SessionTypeOK, Registered
      <3>2. connected'[p] <=> Online(p)'
        BY <2>6, <3>1, RegisteredPlayer
      <3>3. CASE p = c
        <4>1. g \in Live' /\ c \in Seats(g)'
          BY <2>4 DEF Seats
        <4> QED
          BY <2>5, <3>1, <3>2, <3>3, <4>1 DEF PlayerOK, Seats
      <3>4. CASE p # c
        BY <2>4, <2>5, <3>1, <3>2, <3>4, PlayerFrame
      <3> QED
        BY <3>3, <3>4
    <2>10. ASSUME NEW h \in open'
           PROVE  SocketOK(h)'
      <3>1. /\ h \in open /\ h \in Fds /\ SocketOK(h) /\ clients[h] \in Clients
            /\ clients' = clients /\ name' = name /\ players' = players
        BY <2>2, OwnerType DEF socketVars, ServerInv, PlacesOK
      <3>2. CASE clients[h] = c
        BY <2>1, <2>5, <3>1, <3>2 DEF SocketOK
      <3>3. CASE clients[h] # c
        BY <2>5, <2>6, <3>1, <3>3, SocketFrame
      <3> QED
        BY <3>2, <3>3
    <2> QED
      BY <2>7, <2>8, <2>9, <2>10 DEF PlacesOK
  <1> QED
    BY <1>2, <1>3

\* Whatever block the id leads to: a room in the list has one player, who waits
\* there, and the game begins.
LEMMA JoinStarts ==
  ASSUME ServerInv, NEW g \in Live, roomState[g] = GAME_STATE_LOBBY,
         NEW opp, opp = IF player1[g] = NULL THEN player2[g] ELSE player1[g]
  PROVE  /\ g \in Games /\ opp \in Clients /\ Registered(opp) /\ game[opp] = g
         /\ state[opp] = STATE_IN_ROOM /\ connected[opp]
         /\ Seats(g) = {opp, NULL} /\ player1[g] # player2[g]
  <1>1. RoomOK(g) /\ g \in Games
    BY DEF ServerInv, PlacesOK, Live
  <1>2. opp # NULL /\ Seats(g) = {opp, NULL} /\ player1[g] # player2[g]
    BY <1>1 DEF RoomOK, Seats
  <1> QED
    BY <1>1, <1>2, SeatedOnce DEF RoomOK

LEMMA RoomJoinPlaces ==
  ASSUME ServerInv, NEW f \in Fds, NEW i \in RoomIds, cmd_room_join(f, i)
  PROVE  PlacesOK'
  <1> PICK c, g : c = clients[f] /\ g = rooms[i]
    OBVIOUS
  <1> PICK opp : opp = IF player1[g] = NULL THEN player2[g] ELSE player1[g]
    OBVIOUS
  <1>1. f \in open /\ c \in Clients /\ NULL \notin Clients
    BY OwnerType, NullAssumption DEF cmd_room_join, ServerInv
  <1>2. CASE Reply(c)
    BY <1>2, SamePlaces DEF Reply, socketVars, toldVars
  <1>3. CASE ~Reply(c)
    <2>1. /\ state[c] = STATE_IN_LOBBY /\ g # NULL
          /\ roomState[g] = GAME_STATE_LOBBY
      BY <1>3 DEF cmd_room_join
    <2>2. g \in Live
      BY <2>1 DEF ServerInv, SeatTypeOK, Live
    <2>3. /\ g \in Games /\ opp \in Clients /\ Registered(opp) /\ game[opp] = g
          /\ state[opp] = STATE_IN_ROOM /\ connected[opp]
          /\ Seats(g) = {opp, NULL} /\ player1[g] # player2[g]
      BY <2>1, <2>2, JoinStarts
    <2>4. Registered(c) /\ connected[c] /\ game[c] = NULL /\ c # opp
      BY <1>1, <2>1, <2>3, LoggedIn, RegisteredPlayer
    <2>5. /\ IF player1[g] = NULL
             THEN player1' = [player1 EXCEPT ![g] = c] /\ UNCHANGED player2
             ELSE player2' = [player2 EXCEPT ![g] = c] /\ UNCHANGED player1
          /\ game' = [game EXCEPT ![c] = g]
          /\ toldOpp' = [toldOpp EXCEPT ![c] = TRUE, ![opp] = TRUE]
          /\ state' = [state EXCEPT ![c] = STATE_IN_GAME_PREPARING,
                                    ![opp] = STATE_IN_GAME_PREPARING]
          /\ told' = [told EXCEPT ![c] = STATE_IN_GAME_PREPARING,
                                  ![opp] = STATE_IN_GAME_PREPARING]
          /\ playerNum' = [playerNum EXCEPT ![player1'[g]] = 1, ![player2'[g]] = 2]
          /\ roomState' = [roomState EXCEPT ![g] = GAME_STATE_GAME]
          /\ UNCHANGED <<socketVars, name, connected, players, roomId, rooms,
                         s_curr_rooms>>
      BY <1>3, <2>3 DEF cmd_room_join
    <2>6. PICK a, b : a = player1'[g] /\ b = player2'[g]
      OBVIOUS
    <2>7. (a = c /\ b = opp) \/ (a = opp /\ b = c)
      <3>1. CASE player1[g] = NULL
        <4>1. player1' = [player1 EXCEPT ![g] = c] /\ player2' = player2
          BY <2>5, <3>1
        <4>2. player1'[g] = c
          BY <2>3, <4>1 DEF ServerInv, SeatTypeOK
        <4>3. player2'[g] = opp
          BY <3>1, <4>1
        <4> QED
          BY <2>6, <4>2, <4>3
      <3>2. CASE player1[g] # NULL
        <4>1. player2' = [player2 EXCEPT ![g] = c] /\ player1' = player1
          BY <2>5, <3>2
        <4> QED
          BY <2>3, <2>6, <3>2, <4>1 DEF ServerInv, SeatTypeOK
      <3> QED
        BY <3>1, <3>2
    <2>8. /\ Live' = Live /\ roomState'[g] = GAME_STATE_GAME
          /\ \A h \in Live \ {g} : /\ player1'[h] = player1[h]
                                   /\ player2'[h] = player2[h]
                                   /\ roomState'[h] = roomState[h]
      BY <2>1, <2>2, <2>5 DEF ServerInv, SeatTypeOK, Live
    <2>9. /\ \A x \in {c, opp} : /\ state'[x] = STATE_IN_GAME_PREPARING
                                 /\ told'[x] = STATE_IN_GAME_PREPARING
                                 /\ toldOpp'[x] = TRUE /\ game'[x] = g
          /\ \A x \in Clients \ {c, opp} :
               /\ state'[x] = state[x] /\ told'[x] = told[x]
               /\ toldOpp'[x] = toldOpp[x] /\ game'[x] = game[x]
      <3>1. /\ state \in [Clients -> 0 .. 5] /\ told \in [Clients -> 0 .. 5]
            /\ toldOpp \in [Clients -> BOOLEAN]
            /\ game \in [Clients -> Games \cup {NULL}]
        BY DEF ServerInv, SeatTypeOK
      <3>2. \A x \in {c, opp} : state'[x] = STATE_IN_GAME_PREPARING
                               /\ told'[x] = STATE_IN_GAME_PREPARING
        BY <1>1, <2>3, <2>5, <3>1
      <3>3. \A x \in {c, opp} : toldOpp'[x] = TRUE /\ game'[x] = g
        BY <1>1, <2>3, <2>5, <3>1
      <3>4. \A x \in Clients \ {c, opp} :
              /\ state'[x] = state[x] /\ told'[x] = told[x]
              /\ toldOpp'[x] = toldOpp[x] /\ game'[x] = game[x]
        BY <1>1, <2>3, <2>5, <3>1
      <3> QED
        BY <3>2, <3>3, <3>4
    <2>10. /\ playerNum'[a] = 1 /\ playerNum'[b] = 2
           /\ \A x \in Clients \ {c, opp} : playerNum'[x] = playerNum[x]
      BY <1>1, <2>3, <2>4, <2>5, <2>6, <2>7 DEF ServerInv, SeatTypeOK
    <2>11. /\ \A x : Registered(x)' <=> Registered(x)
           /\ \A x : Online(x)' <=> Online(x)
      BY <2>5 DEF Registered, Online, socketVars
    <2>12. RoomsOK'
      BY <2>5, <2>8 DEF ServerInv, PlacesOK, RoomsOK
    <2>13. ASSUME NEW h \in Live'
           PROVE  RoomOK(h)'
      <3>1. CASE h = g
        <4>1. connected'[a] = TRUE /\ connected'[b] = TRUE
          BY <1>1, <2>3, <2>4, <2>5, <2>7 DEF ServerInv, SessionInv, SessionTypeOK
        <4>2. PairOK(a, b)'
          BY ZenonT(60), <2>7, <2>9, <2>10, <4>1 DEF PairOK
        <4>3. Registered(a)' /\ Registered(b)'
          BY <2>3, <2>4, <2>7, <2>11
        <4> QED
          <5>1. a # b /\ a # NULL /\ b # NULL /\ game'[a] = g /\ game'[b] = g
            BY <1>1, <2>3, <2>4, <2>7, <2>9
          <5> QED
            BY <2>6, <2>8, <3>1, <4>1, <4>2, <4>3, <5>1, GameRoom
      <3>2. CASE h # g
        <4>1. h \in Live /\ h \in Games /\ RoomOK(h)
          BY <2>8 DEF Live, ServerInv, PlacesOK
        <4>2. \A x \in Seats(h) \ {NULL} : x \in Clients \ {c, opp} /\ Registered(x)
          BY <2>3, <2>4, <3>2, <4>1, SeatedOnce, NullAssumption
        <4>3. connected' = connected
          BY <2>5
        <4> QED
          BY <2>8, <2>9, <2>10, <2>11, <3>2, <4>1, <4>2, <4>3, RoomFrame
      <3> QED
        BY <3>1, <3>2
    <2>14. ASSUME NEW n \in Names, players'[n] # NULL
           PROVE  PlayerOK(n)'
      <3> PICK p : p = players[n]
        OBVIOUS
      <3>1. /\ players'[n] = p /\ p \in Clients /\ Registered(p) /\ PlayerOK(n)
            /\ name' = name /\ connected' = connected
        BY <2>5, <2>14
        DEF ServerInv, PlacesOK, SessionInv, SessionTypeOK, Registered
      <3>2. connected'[p] <=> Online(p)'
        BY <2>11, <3>1, RegisteredPlayer
      <3>3. CASE p \in {c, opp}
        <4>1. g \in Live' /\ {player1'[g], player2'[g]} = {c, opp}
          BY <2>2, <2>6, <2>7, <2>8
        <4> QED
          BY <2>9, <3>1, <3>2, <3>3, <4>1 DEF PlayerOK, Seats
      <3>4. CASE p \notin {c, opp}
        <4>1. game[p] # g
          BY <2>3, <3>1, <3>4, RegisteredPlayer, NullAssumption
        <4> QED
          BY <2>8, <2>9, <3>1, <3>2, <3>4, <4>1, PlayerFrame
      <3> QED
        BY <3>3, <3>4
    <2>15. ASSUME NEW h \in open'
           PROVE  SocketOK(h)'
      <3>1. /\ h \in open /\ h \in Fds /\ SocketOK(h) /\ clients[h] \in Clients
            /\ clients' = clients /\ name' = name /\ players' = players
        BY <2>5, OwnerType DEF socketVars, ServerInv, PlacesOK
      <3>2. CASE clients[h] \in {c, opp}
        BY <2>1, <2>3, <2>9, <3>1, <3>2 DEF SocketOK
      <3>3. CASE clients[h] \notin {c, opp}
        BY <2>9, <2>11, <3>1, <3>3, SocketFrame
      <3> QED
        BY <3>2, <3>3
    <2> QED
      BY <2>12, <2>13, <2>14, <2>15 DEF PlacesOK
  <1> QED
    BY <1>2, <1>3

\* The two players of a game change their states between them, and are told.
LEMMA PairPlaces ==
  ASSUME ServerInv, NEW g \in Live, NEW a, NEW b, player1[g] = a, player2[g] = b,
         roomState[g] = GAME_STATE_GAME,
         UNCHANGED <<socketVars, name, players, connected, playerNum, game, roomVars,
                     toldOpp>>,
         \A x \in Clients \ {a, b} : state'[x] = state[x] /\ told'[x] = told[x],
         \A x \in {a, b} : told'[x] = state'[x]
                           \/ (state'[x] = state[x] /\ told'[x] = told[x]),
         PairOK(a, b)'
  PROVE  PlacesOK'
  <1>1. /\ g \in Games /\ RoomOK(g) /\ a # b
        /\ \A x \in {a, b} : /\ x \in Clients /\ x # NULL
                             /\ Registered(x) /\ game[x] = g
        /\ connected[a] \/ connected[b]
    <2>1. g \in Games /\ RoomOK(g)
      BY DEF ServerInv, PlacesOK, Live
    <2>2. NULL \notin {a, b} /\ Seats(g) = {a, b}
      BY <2>1 DEF RoomOK, Seats
    <2> QED
      BY <2>1, <2>2, SeatedOnce DEF RoomOK
  <1>2. \A x \in {a, b} : state'[x] \notin {STATE_UNLOGGED, STATE_IN_LOBBY}
    BY DEF PairOK
  <1>3. /\ \A x : Registered(x)' <=> Registered(x)
        /\ \A x : Online(x)' <=> Online(x)
    BY DEF Registered, Online, socketVars
  <1>4. Live' = Live /\ RoomsOK'
    BY DEF roomVars, Live, ServerInv, PlacesOK, RoomsOK
  <1>5. ASSUME NEW h \in Live'
        PROVE  RoomOK(h)'
    <2>1. h \in Live /\ h \in Games /\ RoomOK(h)
      BY <1>4 DEF Live, ServerInv, PlacesOK
    <2>2. CASE h = g
      <3>1. Registered(a)' /\ Registered(b)'
        BY <1>1, <1>3
      <3> QED
        BY <1>1, <2>2, <3>1, GameRoom DEF roomVars
    <2>3. CASE h # g
      <3>1. \A x \in Seats(h) \ {NULL} : x \in Clients \ {a, b} /\ Registered(x)
        BY <1>1, <2>1, <2>3, SeatedOnce
      <3> QED
        BY <1>3, <2>1, <3>1, RoomFrame DEF roomVars
    <2> QED
      BY <2>2, <2>3
  <1>6. ASSUME NEW n \in Names, players'[n] # NULL
        PROVE  PlayerOK(n)'
    <2> PICK p : p = players[n]
      OBVIOUS
    <2>1. players'[n] = p /\ p \in Clients /\ Registered(p) /\ PlayerOK(n)
      BY <1>6 DEF ServerInv, PlacesOK, SessionInv, SessionTypeOK, Registered
    <2>2. connected'[p] <=> Online(p)'
      BY <1>3, <2>1, RegisteredPlayer
    <2>3. CASE p \in {a, b}
      <3>1. g \in Live' /\ {player1'[g], player2'[g]} = {a, b}
        BY <1>4 DEF roomVars
      <3> QED
        BY <1>1, <1>2, <2>1, <2>2, <2>3, <3>1 DEF PlayerOK, Seats
    <2>4. CASE p \notin {a, b}
      BY <1>4, <2>1, <2>2, <2>4, PlayerFrame DEF roomVars
    <2> QED
      BY <2>3, <2>4
  <1>7. ASSUME NEW h \in open'
        PROVE  SocketOK(h)'
    <2> PICK p : p = clients[h]
      OBVIOUS
    <2>1. /\ h \in open /\ h \in Fds /\ SocketOK(h) /\ p \in Clients
          /\ clients'[h] = p
      BY OwnerType DEF socketVars, ServerInv, PlacesOK
    <2>2. CASE p \in {a, b}
      <3>1. state[p] # STATE_UNLOGGED /\ told'[p] = state'[p]
        BY <1>1, <2>1, <2>2, RegisteredPlayer DEF SocketOK
      <3> QED
        BY <1>2, <2>1, <2>2, <3>1 DEF SocketOK
    <2>3. CASE p \notin {a, b}
      BY <1>3, <2>1, <2>3, SocketFrame
    <2> QED
      BY <2>2, <2>3
  <1> QED
    BY <1>4, <1>5, <1>6, <1>7 DEF PlacesOK

\* Who is prepared waits; the second one to be prepared lets player 1 begin.
LEMMA GamePreparedPlaces ==
  ASSUME ServerInv, NEW f \in Fds, NEW accepted \in BOOLEAN,
         cmd_game_prepared(f, accepted)
  PROVE  PlacesOK'
  <1> PICK c, g, o : c = clients[f] /\ g = game[c] /\ o = Opponent(c)
    OBVIOUS
  <1> PICK a, b : a = player1[g] /\ b = player2[g]
    OBVIOUS
  <1>1. f \in open /\ c \in Clients
    BY OwnerType DEF cmd_game_prepared, ServerInv
  <1>2. CASE Reply(c)
    BY <1>2, SamePlaces DEF Reply, socketVars, toldVars
  <1>3. CASE ~Reply(c)
    <2>1. state[c] = STATE_IN_GAME_PREPARING
      BY <1>3 DEF cmd_game_prepared
    <2>2. /\ g \in Live /\ roomState[g] = GAME_STATE_GAME /\ Seats(g) = {c, o}
          /\ o \in Clients /\ o # c /\ PairOK(a, b)
      BY <1>1, <2>1, LoggedIn, Opposite DEF InGame
    <2>3. (a = c /\ b = o) \/ (a = o /\ b = c)
      BY <2>2 DEF Seats
    <2> DEFINE ready == [state EXCEPT ![c] = STATE_IN_GAME]
    <2>4. /\ IF ready[a] = STATE_IN_GAME /\ ready[b] = STATE_IN_GAME
             THEN /\ state' = [ready EXCEPT ![a] = STATE_IN_GAME_PLAYING]
                  /\ told' = [told EXCEPT ![c] = STATE_IN_GAME,
                                          ![a] = STATE_IN_GAME_PLAYING]
             ELSE /\ state' = ready
                  /\ told' = [told EXCEPT ![c] = STATE_IN_GAME]
          /\ UNCHANGED <<socketVars, name, playerNum, game, connected, players,
                         roomVars, toldOpp>>
      BY <1>3 DEF cmd_game_prepared
    <2>5. /\ state \in [Clients -> 0 .. 5] /\ told \in [Clients -> 0 .. 5]
          /\ ready[c] = STATE_IN_GAME
          /\ \A x \in Clients \ {c} : ready[x] = state[x]
          /\ ready \in [Clients -> 0 .. 5]
      BY <1>1 DEF ServerInv, SeatTypeOK
    <2> HIDE DEF ready
    <2>6. CASE state[o] = STATE_IN_GAME
      <3>1. ready[a] = STATE_IN_GAME /\ ready[b] = STATE_IN_GAME
        BY <2>2, <2>3, <2>5, <2>6
      <3>2. /\ state' = [ready EXCEPT ![a] = STATE_IN_GAME_PLAYING]
            /\ told' = [told EXCEPT ![c] = STATE_IN_GAME, ![a] = STATE_IN_GAME_PLAYING]
        BY <2>4, <3>1
      <3>3. /\ state'[a] = STATE_IN_GAME_PLAYING /\ told'[a] = STATE_IN_GAME_PLAYING
            /\ state'[b] = STATE_IN_GAME
            /\ b = c => told'[b] = STATE_IN_GAME
            /\ b = o => told'[b] = told[b] /\ state'[b] = state[b]
        BY <1>1, <2>2, <2>3, <2>5, <2>6, <3>1, <3>2
      <3>4. \A x \in Clients \ {a, b} : state'[x] = state[x] /\ told'[x] = told[x]
        BY <2>3, <2>5, <3>2
      <3>5. PairOK(a, b)'
        BY <2>2, <2>4, <3>3 DEF PairOK
      <3>6. \A x \in {a, b} : told'[x] = state'[x]
                              \/ (state'[x] = state[x] /\ told'[x] = told[x])
        BY <2>3, <3>3
      <3> QED
        BY <2>2, <2>4, <3>4, <3>5, <3>6, PairPlaces
    <2>7. CASE state[o] # STATE_IN_GAME
      <3>1. state' = ready /\ told' = [told EXCEPT ![c] = STATE_IN_GAME]
        BY <2>2, <2>3, <2>4, <2>5, <2>7
      <3>2. /\ state'[c] = STATE_IN_GAME /\ told'[c] = STATE_IN_GAME
            /\ state'[o] = state[o] /\ told'[o] = told[o]
        BY <1>1, <2>2, <2>5, <3>1
      <3>3. \A x \in Clients \ {a, b} : state'[x] = state[x] /\ told'[x] = told[x]
        BY <2>3, <2>5, <3>1
      <3>4. state[o] = STATE_IN_GAME_PREPARING
        BY <2>1, <2>2, <2>3, <2>7 DEF PairOK
      <3>5. PairOK(a, b)'
        BY <2>2, <2>3, <2>4, <3>2, <3>4 DEF PairOK
      <3> QED
        BY <2>2, <2>3, <2>4, <3>2, <3>3, <3>5, PairPlaces
    <2> QED
      BY <2>6, <2>7
  <1> QED
    BY <1>2, <1>3

\* A shot that does not end the game hands the turn to the opponent: playerNum
\* leads to the other seat.
LEMMA GameFirePlaces ==
  ASSUME ServerInv, NEW f \in Fds, NEW outcome, cmd_game_fire(f, outcome)
  PROVE  PlacesOK'
  <1> PICK c, g, o : c = clients[f] /\ g = game[c] /\ o = Opponent(c)
    OBVIOUS
  <1> PICK a, b : a = player1[g] /\ b = player2[g]
    OBVIOUS
  <1>1. f \in open /\ c \in Clients
    BY OwnerType DEF cmd_game_fire, ServerInv
  <1>2. CASE Reply(c)
    BY <1>2, SamePlaces DEF Reply, socketVars, toldVars
  <1>3. CASE ~Reply(c)
    <2>1. /\ state[c] = STATE_IN_GAME_PLAYING
          /\ UNCHANGED <<socketVars, name, playerNum, connected, players>>
      BY <1>3 DEF cmd_game_fire
    <2>2. /\ g \in Live /\ roomState[g] = GAME_STATE_GAME /\ Seats(g) = {c, o}
          /\ o \in Clients /\ o # c /\ PairOK(a, b)
      BY <1>1, <2>1, LoggedIn, Opposite DEF InGame
    <2>3. CASE outcome = "last_ship"
      <3>1. game_end(g)
        BY <1>3, <2>3 DEF cmd_game_fire
      <3> QED
        BY <1>1, <2>1, <2>2, <3>1, SameSession, GameEndPlaces
    <2>4. CASE outcome # "last_ship"
      <3>1. (a = c /\ b = o) \/ (a = o /\ b = c)
        BY <2>2 DEF Seats
      <3>2. PassTurn(c, IF playerNum[c] = 1 THEN b ELSE a)
            /\ UNCHANGED <<game, roomVars, toldOpp>>
        BY <1>3, <2>4 DEF cmd_game_fire
      <3>3. (IF playerNum[c] = 1 THEN b ELSE a) = o /\ state[o] = STATE_IN_GAME
        BY <2>1, <2>2, <3>1 DEF PairOK
      <3>4. /\ state' = [state EXCEPT ![c] = STATE_IN_GAME, ![o] = STATE_IN_GAME_PLAYING]
            /\ told' = [told EXCEPT ![c] = STATE_IN_GAME, ![o] = STATE_IN_GAME_PLAYING]
        BY <3>2, <3>3 DEF PassTurn
      <3>5. /\ state'[c] = STATE_IN_GAME /\ told'[c] = STATE_IN_GAME
            /\ state'[o] = STATE_IN_GAME_PLAYING /\ told'[o] = STATE_IN_GAME_PLAYING
            /\ \A x \in Clients \ {a, b} : state'[x] = state[x] /\ told'[x] = told[x]
        BY <1>1, <2>2, <3>1, <3>4 DEF ServerInv, SeatTypeOK
      <3>6. PairOK(a, b)'
        BY <2>1, <2>2, <3>1, <3>2, <3>5 DEF PairOK
      <3> QED
        BY <2>1, <2>2, <3>1, <3>2, <3>5, <3>6, PairPlaces
    <2> QED
      BY <2>3, <2>4
  <1> QED
    BY <1>2, <1>3

LEMMA GameInfoPlaces ==
  ASSUME ServerInv, NEW f \in Fds, cmd_game_info(f)
  PROVE  PlacesOK'
  <1>1. /\ f \in open /\ told[clients[f]] = state[clients[f]]
        /\ told \in [Clients -> 0 .. 5] /\ clients[f] \in Clients
    BY OwnerType DEF cmd_game_info, ServerInv, PlacesOK, SocketOK, SeatTypeOK
  <1>2. told' = told
    BY <1>1 DEF cmd_game_info
  <1> QED
    BY <1>2, SamePlaces DEF cmd_game_info, socketVars

LEMMA UnknownCommandPlaces ==
  ASSUME ServerInv, NEW f \in Fds, UnknownCommand(f)
  PROVE  PlacesOK'
  <1>1. f \in open
    BY DEF UnknownCommand
  <1>2. CASE server_disconnect(f, 0)
    BY <1>1, <1>2, DisconnectPlaces
  <1>3. CASE ~server_disconnect(f, 0)
    BY <1>3, SamePlaces DEF UnknownCommand, socketVars, toldVars
  <1> QED
    BY <1>2, <1>3

-----------------------------------------------------------------------------
(* The invariant is inductive *)

LEMMA InitPlaces == Init => ServerInv
  <1> SUFFICES ASSUME Init PROVE PlacesOK
    BY InitInv DEF ServerInv
  <1>1. Live = {} /\ open = {} /\ s_curr_rooms = 0
    BY DEF Init, Live
  <1>2. RoomsOK
    BY <1>1, FS_EmptySet, LimitAssumption DEF RoomsOK
  <1> QED
    BY <1>1, <1>2 DEF Init, PlacesOK

LEMMA StepPlaces ==
  ASSUME ServerInv, ~Relogin, [Next]_vars
  PROVE  ServerInv'
  <1>1. SessionInv' /\ SeatTypeOK'
    BY StepInv DEF ServerInv
  <1>2. CASE UNCHANGED vars
    BY <1>1, <1>2, SamePlaces DEF vars, socketVars, clientVars, toldVars, ServerInv
  <1>3. CASE Next
    <2> PICK f \in Fds :
          \/ server_new_connection(f)
          \/ Hangup(f)
          \/ ReadEof(f)
          \/ \E n \in Names \cup {BadName, NoName} : cmd_login(f, n)
          \/ cmd_room_create(f)
          \/ cmd_room_list(f)
          \/ \E i \in RoomIds : cmd_room_join(f, i)
          \/ cmd_room_leave(f)
          \/ cmd_logout(f)
          \/ \E accepted \in BOOLEAN : cmd_game_prepared(f, accepted)
          \/ \E outcome \in {"refused", "turn", "last_ship"} : cmd_game_fire(f, outcome)
          \/ cmd_game_info(f)
          \/ UnknownCommand(f)
      BY <1>3 DEF Next
    <2>1. CASE Hangup(f)
      BY <1>1, <2>1, SamePlaces DEF Hangup, clientVars, toldVars, ServerInv
    <2>2. CASE ReadEof(f)
      <3>1. f \in open /\ server_disconnect(f, 0)
        BY <2>2 DEF ReadEof, ServerInv, SessionInv, SessionTypeOK
      <3> QED
        BY <1>1, <3>1, DisconnectPlaces DEF ServerInv
    <2>3. CASE cmd_room_list(f)
      BY <1>1, <2>3, SamePlaces
      DEF cmd_room_list, Reply, socketVars, toldVars, ServerInv
    <2>4. PlacesOK' => ServerInv'
      BY <1>1 DEF ServerInv
    <2> QED
      BY <2>1, <2>2, <2>3, <2>4, NewConnectionPlaces, LoginPlaces, RoomCreatePlaces,
         RoomJoinPlaces, RoomLeavePlaces, LogoutPlaces, GamePreparedPlaces,
         GameFirePlaces, GameInfoPlaces, UnknownCommandPlaces
  <1> QED
    BY <1>2, <1>3

LEMMA ServerInvariant ==
  ASSUME ~Relogin
  PROVE  Spec => []ServerInv
  <1>1. ServerInv /\ [Next]_vars => ServerInv'
    BY StepPlaces
  <1> QED
    BY <1>1, InitPlaces, PTL DEF Spec

-----------------------------------------------------------------------------
(* What follows from it *)

\* In every run a struct that never logged in is reachable from its socket only:
\* cmd_login may free it without leaving a name, or a seat of a room, dangling.
THEOREM UnloggedPrivate ==
  ASSUME ~Relogin
  PROVE  Spec => []UnloggedIsPrivate
  <1>1. ServerInv => UnloggedIsPrivate
    <2> SUFFICES ASSUME ServerInv, NEW f \in open, state[clients[f]] = STATE_UNLOGGED
                 PROVE  /\ ~Registered(clients[f])
                        /\ \A g \in Live : clients[f] \notin Seats(g)
      BY DEF UnloggedIsPrivate
    <2>1. ~Registered(clients[f])
      BY DEF ServerInv, PlacesOK, SocketOK
    <2>2. clients[f] # NULL
      BY OwnerType, NullAssumption DEF ServerInv
    <2> QED
      BY <2>1, <2>2, SeatedOnce
  <1> QED
    BY <1>1, ServerInvariant, PTL

\* In every run one name has one session: cmd_login, cmd_logout and
\* server_disconnect keep names, structs and sockets together.
THEOREM NamesCorrect ==
  ASSUME ~Relogin
  PROVE  Spec => []NamesConsistent
  <1>1. ServerInv => NamesConsistent
    <2> SUFFICES ASSUME ServerInv PROVE NamesConsistent
      OBVIOUS
    <2>1. \A n \in Names : players[n] # NULL =>
            /\ name[players[n]] = n
            /\ state[players[n]] # STATE_UNLOGGED
            /\ connected[players[n]] <=> Online(players[n])
      BY DEF ServerInv, PlacesOK, PlayerOK
    <2> QED
      BY <2>1, LoggedIn DEF NamesConsistent
  <1> QED
    BY <1>1, ServerInvariant, PTL

\* In every run seats and players point at each other: no handler leaves a seat
\* to a struct that is elsewhere, or a player with a pointer to a freed room.
THEOREM SeatsCorrect ==
  ASSUME ~Relogin
  PROVE  Spec => []SeatsConsistent
  <1>1. ServerInv => SeatsConsistent
    BY RegisteredPlayer, SeatedOnce DEF SeatsConsistent
  <1> QED
    BY <1>1, ServerInvariant, PTL

\* In every run the room that room_list_data offers has one player, who is there
\* and waits: cmd_room_join always finds somebody to start the game with.
THEOREM WaitingRoomsCorrect ==
  ASSUME ~Relogin
  PROVE  Spec => []WaitingRooms
  <1>1. ServerInv => WaitingRooms
    BY DEF WaitingRooms, ServerInv, PlacesOK, RoomOK
  <1> QED
    BY <1>1, ServerInvariant, PTL

\* In every run, once both players are prepared exactly one may fire, before that
\* none, and playerNum agrees with the seat.
THEOREM TurnCorrect ==
  ASSUME ~Relogin
  PROVE  Spec => []Turn
  <1>1. ServerInv => Turn
    <2> SUFFICES ASSUME ServerInv, NEW g \in Live, roomState[g] = GAME_STATE_GAME
                 PROVE
                   /\ player1[g] # player2[g] /\ NULL \notin Seats(g)
                   /\ \A c \in Seats(g) : InGame(state[c])
                   /\ playerNum[player1[g]] = 1 /\ playerNum[player2[g]] = 2
                   /\ Cardinality({c \in Seats(g) : state[c] = STATE_IN_GAME_PLAYING}) =
                        IF \E c \in Seats(g) : state[c] = STATE_IN_GAME_PREPARING
                        THEN 0 ELSE 1
      BY DEF Turn
    <2> PICK a, b : a = player1[g] /\ b = player2[g]
      OBVIOUS
    <2>1. RoomOK(g) /\ PairOK(a, b) /\ Seats(g) = {a, b}
      BY DEF ServerInv, PlacesOK, RoomOK, Seats
    <2>2. \A c \in Seats(g) : InGame(state[c])
      BY <2>1 DEF PairOK, InGame
    <2> DEFINE Firing == {c \in Seats(g) : state[c] = STATE_IN_GAME_PLAYING}
    <2>3. CASE \E c \in Seats(g) : state[c] = STATE_IN_GAME_PREPARING
      <3>1. Firing = {}
        BY <2>1, <2>3 DEF PairOK
      <3> QED
        BY <2>1, <2>2, <2>3, <3>1, FS_EmptySet DEF RoomOK, PairOK
    <2>4. CASE ~\E c \in Seats(g) : state[c] = STATE_IN_GAME_PREPARING
      <3>1. Firing = {a} \/ Firing = {b}
        BY <2>1, <2>4 DEF PairOK
      <3>2. Cardinality(Firing) = 1
        BY <3>1, FS_Singleton
      <3> QED
        BY <2>1, <2>2, <2>4, <3>2 DEF RoomOK, PairOK
    <2> QED
      BY <2>3, <2>4
  <1> QED
    BY <1>1, ServerInvariant, PTL

\* In every run a room has a player with an open socket: server_disconnect ends
\* the game of the second player who is lost, and no struct game leaks.
THEOREM NoRoomAbandoned ==
  ASSUME ~Relogin
  PROVE  Spec => []NoAbandonedRoom
  <1>1. ServerInv => NoAbandonedRoom
    <2> SUFFICES ASSUME ServerInv, NEW g \in Live
                 PROVE  \E c \in Seats(g) \ {NULL} : Online(c)
      BY DEF NoAbandonedRoom
    <2>1. PICK c \in Seats(g) \ {NULL} : connected[c]
      BY DEF ServerInv, PlacesOK, RoomOK
    <2> QED
      BY <2>1, SeatedOnce, RegisteredPlayer
  <1> QED
    BY <1>1, ServerInvariant, PTL

\* In every run s_curr_rooms is the number of rooms, within the limit, and the
\* id of a room leads to it and to no other.
THEOREM RoomsCountedCorrect ==
  ASSUME ~Relogin
  PROVE  Spec => []RoomsCounted
  <1>1. ServerInv => RoomsCounted
    BY DEF RoomsCounted, ServerInv, PlacesOK, RoomsOK
  <1> QED
    BY <1>1, ServerInvariant, PTL

\* In every run what the messages have told a client is the state the server has
\* it in and, in a game, whether its opponent is there.
THEOREM TruthTold ==
  ASSUME ~Relogin
  PROVE  Spec => []ToldTheTruth
  <1>1. ServerInv => ToldTheTruth
    <2> SUFFICES ASSUME ServerInv, NEW f \in open
                 PROVE  /\ told[clients[f]] = state[clients[f]]
                        /\ InGame(state[clients[f]]) =>
                             toldOpp[clients[f]] = connected[Opponent(clients[f])]
      BY DEF ToldTheTruth
    <2> PICK c, g, o : c = clients[f] /\ g = game[c] /\ o = Opponent(c)
      OBVIOUS
    <2>1. told[c] = state[c]
      BY DEF ServerInv, PlacesOK, SocketOK
    <2>2. ASSUME InGame(state[c])
          PROVE  toldOpp[c] = connected[o]
      <3>1. /\ c \in Clients /\ Registered(c) /\ connected[c]
        BY <2>2, LoggedIn DEF InGame
      <3>2. Seats(g) = {c, o} /\ PairOK(player1[g], player2[g]) /\ o # c
        BY <2>2, <3>1, Opposite
      <3>3. PairOK(c, o) \/ PairOK(o, c)
        BY <3>2 DEF Seats
      <3> QED
        BY <3>1, <3>3 DEF PairOK
    <2> QED
      BY <2>1, <2>2
  <1> QED
    BY <1>1, ServerInvariant, PTL

-----------------------------------------------------------------------------
(* The counter of players *)

\* The sockets whose player has logged in.
Logged == {f \in open : Registered(clients[f])}

PlayersCounted ==
  /\ IsFiniteSet(Logged)
  /\ s_curr_players \in Int /\ s_curr_players <= Cardinality(Logged)

LEMMA LoggedSockets ==
  ASSUME ServerInv
  PROVE  Logged = {f \in open : state[clients[f]] # STATE_UNLOGGED}
  BY LoggedIn DEF Logged, ServerInv, PlacesOK, SocketOK

\* Requests that neither open nor close a session.
LEMMA SameCount ==
  ASSUME PlayersCounted, UNCHANGED <<open, clients, players, s_curr_players>>
  PROVE  PlayersCounted'
  <1>1. Logged' = Logged
    BY DEF Logged, Registered
  <1> QED
    BY <1>1 DEF PlayersCounted

\* A login adds one to the counter and one to the players.
LEMMA LoginCount ==
  ASSUME PlayersCounted, NEW f, f \notin Logged, Logged' = Logged \cup {f},
         s_curr_players' = s_curr_players + 1
  PROVE  PlayersCounted'
  <1>1. /\ IsFiniteSet(Logged \cup {f})
        /\ Cardinality(Logged \cup {f}) = Cardinality(Logged) + 1
        /\ Cardinality(Logged) \in Nat
    BY FS_AddElement, FS_CardinalityType DEF PlayersCounted
  <1> QED
    BY <1>1 DEF PlayersCounted

\* A closed socket takes away one player at most, and close_connection subtracts
\* one always, unless login_err of a socket without a player makes up for it.
LEMMA CloseCount ==
  ASSUME PlayersCounted, NEW f, NEW k \in {0, 1}, k = 0 \/ f \notin Logged,
         Logged' = Logged \ {f}, s_curr_players' = s_curr_players + k - 1
  PROVE  PlayersCounted'
  <1>1. /\ IsFiniteSet(Logged \ {f})
        /\ Cardinality(Logged \ {f}) =
             IF f \in Logged THEN Cardinality(Logged) - 1 ELSE Cardinality(Logged)
        /\ Cardinality(Logged) \in Nat
    BY FS_RemoveElement, FS_CardinalityType DEF PlayersCounted
  <1> QED
    BY <1>1 DEF PlayersCounted

LEMMA DisconnectCount ==
  ASSUME ServerInv, PlayersCounted, NEW f \in open, NEW k \in {0, 1},
         k = 0 \/ state[clients[f]] = STATE_UNLOGGED, server_disconnect(f, k)
  PROVE  PlayersCounted'
  <1>1. /\ open' = open \ {f} /\ clients' = [clients EXCEPT ![f] = NULL]
        /\ players' = players /\ s_curr_players' = s_curr_players + k - 1
    BY DEF server_disconnect, close_connection
  <1>2. \A h \in open' : clients'[h] = clients[h]
    BY <1>1 DEF ServerInv, SessionInv, SessionTypeOK
  <1>3. Logged' = Logged \ {f}
    BY <1>1, <1>2 DEF Logged, Registered
  <1>4. k = 0 \/ f \notin Logged
    BY LoggedSockets
  <1> QED
    BY <1>1, <1>3, <1>4, CloseCount

LEMMA LogoutCount ==
  ASSUME ServerInv, PlayersCounted, NEW f \in Fds, cmd_logout(f)
  PROVE  PlayersCounted'
  <1> PICK c : c = clients[f]
    OBVIOUS
  <1>1. f \in open /\ c \in Clients /\ SessionOf(c)
        /\ \A x \in {c} : ~Registered(x)' /\ ~Online(x)'
    BY LogoutSessionOf
  <1>2. /\ open' = open \ {f} /\ clients' = clients
        /\ s_curr_players' = s_curr_players + 0 - 1
    BY DEF cmd_logout, close_connection
  <1>3. \A h \in open \ {f} : clients[h] \in Clients \ {c}
    BY <1>1, OwnerType DEF ServerInv, SessionInv, SessionTypeOK, SocketsConsistent
  <1>4. \A x \in Clients \ {c} : Registered(x)' <=> Registered(x)
    BY <1>1 DEF SessionOf
  <1>5. Logged' = Logged \ {f}
    BY <1>2, <1>3, <1>4 DEF Logged
  <1> QED
    BY <1>2, <1>5, CloseCount

LEMMA NewConnectionCount ==
  ASSUME ServerInv, PlayersCounted, NEW f \in Fds, server_new_connection(f)
  PROVE  PlayersCounted'
  <1>1. PICK c \in Clients \ Reachable : clients' = [clients EXCEPT ![f] = c]
    BY DEF server_new_connection
  <1>2. /\ open' = open \cup {f} /\ f \notin open
        /\ UNCHANGED <<players, s_curr_players>>
    BY DEF server_new_connection
  <1>3. ~Registered(c)
    BY <1>1 DEF Reachable, Registered
  <1>4. clients'[f] = c /\ \A h \in open : clients'[h] = clients[h]
    BY <1>1, <1>2 DEF ServerInv, SessionInv, SessionTypeOK
  <1>5. \A x : Registered(x)' <=> Registered(x)
    BY <1>2 DEF Registered
  <1>6. Logged' = Logged
    BY <1>2, <1>3, <1>4, <1>5 DEF Logged
  <1> QED
    BY <1>2, <1>6 DEF PlayersCounted

LEMMA LoginCounts ==
  ASSUME ServerInv, PlayersCounted, ~Relogin, NEW f \in Fds,
         NEW n \in Names \cup {BadName, NoName}, cmd_login(f, n)
  PROVE  PlayersCounted'
  <1> PICK c, l : c = clients[f] /\ l = players[n]
    OBVIOUS
  <1>1. f \in open /\ state[c] = STATE_UNLOGGED /\ c \in Clients
    BY OwnerType DEF cmd_login, ServerInv
  <1>2. CASE LoginError(f, 0) \/ LoginError(f, 1)
    BY <1>1, <1>2, DisconnectCount DEF LoginError
  <1>3. CASE ~(LoginError(f, 0) \/ LoginError(f, 1))
    <2>1. n \in Names
      BY <1>3 DEF cmd_login
    <2>2. f \notin Logged
      BY <1>1, LoggedSockets
    <2>3. /\ open' = open /\ s_curr_players' = s_curr_players + 1
          /\ IF l = NULL
             THEN clients' = clients /\ players' = [players EXCEPT ![n] = c]
             ELSE clients' = [clients EXCEPT ![f] = l]
                  /\ players' = [players EXCEPT ![n] = l]
      BY <1>3 DEF cmd_login, LoginOk, socketVars
    <2>4. players \in [Names -> Clients \cup {NULL}]
          /\ clients \in [Fds -> Clients \cup {NULL}]
      BY DEF ServerInv, SessionInv, SessionTypeOK
    <2>5. CASE l = NULL
      <3>1. /\ players'[n] = c /\ clients'[f] = c
            /\ \A m \in Names \ {n} : players'[m] = players[m]
        BY <2>1, <2>3, <2>4, <2>5
      <3>2. \A h \in open \ {f} : clients'[h] = clients[h] /\ clients[h] \in Clients \ {c}
        BY <1>1, <2>3, <2>5, OwnerType
        DEF ServerInv, SessionInv, SessionTypeOK, SocketsConsistent
      <3>3. \A x \in Clients \ {c} : Registered(x)' <=> Registered(x)
        BY <2>1, <2>5, <3>1, NullAssumption DEF Registered
      <3>4. \A x \in {c} : Registered(x)'
        BY <2>1, <3>1 DEF Registered
      <3>5. Logged' = Logged \cup {f}
        BY <1>1, <2>3, <3>1, <3>2, <3>3, <3>4 DEF Logged
      <3> QED
        BY <2>2, <2>3, <3>5, LoginCount
    <2>6. CASE l # NULL
      <3>1. f \in Fds /\ open \subseteq Fds
        BY <1>1 DEF ServerInv, SessionInv, SessionTypeOK
      <3>2. /\ \A m \in Names : players'[m] = players[m]
            /\ clients'[f] = l /\ \A h \in open \ {f} : clients'[h] = clients[h]
        <4>1. \A m \in Names : players'[m] = players[m]
          BY <2>1, <2>3, <2>4, <2>6
        <4>2. clients'[f] = l /\ \A h \in open \ {f} : clients'[h] = clients[h]
          BY <2>3, <2>4, <2>6, <3>1
        <4> QED
          BY <4>1, <4>2
      <3>3. \A x : Registered(x)' <=> Registered(x)
        BY <3>2 DEF Registered
      <3>4. Registered(l)
        BY <2>1 DEF Registered
      <3>5. Logged' = Logged \cup {f}
        BY <1>1, <2>3, <3>2, <3>3, <3>4 DEF Logged
      <3> QED
        BY <2>2, <2>3, <3>5, LoginCount
    <2> QED
      BY <2>5, <2>6
  <1> QED
    BY <1>2, <1>3

LEMMA StepCounted ==
  ASSUME ServerInv, PlayersCounted, ~Relogin, [Next]_vars
  PROVE  PlayersCounted'
  <1>1. CASE UNCHANGED vars
    BY <1>1, SameCount DEF vars, socketVars
  <1>2. CASE Next
    <2> PICK f \in Fds :
          \/ server_new_connection(f)
          \/ Hangup(f)
          \/ ReadEof(f)
          \/ \E n \in Names \cup {BadName, NoName} : cmd_login(f, n)
          \/ cmd_room_create(f)
          \/ cmd_room_list(f)
          \/ \E i \in RoomIds : cmd_room_join(f, i)
          \/ cmd_room_leave(f)
          \/ cmd_logout(f)
          \/ \E accepted \in BOOLEAN : cmd_game_prepared(f, accepted)
          \/ \E outcome \in {"refused", "turn", "last_ship"} : cmd_game_fire(f, outcome)
          \/ cmd_game_info(f)
          \/ UnknownCommand(f)
      BY <1>2 DEF Next
    <2>1. CASE ReadEof(f)
      <3>1. f \in open /\ server_disconnect(f, 0)
        BY <2>1 DEF ReadEof, ServerInv, SessionInv, SessionTypeOK
      <3> QED
        BY <3>1, DisconnectCount
    <2>2. CASE UnknownCommand(f)
      <3>1. CASE server_disconnect(f, 0)
        BY <2>2, <3>1, DisconnectCount DEF UnknownCommand
      <3>2. CASE ~server_disconnect(f, 0)
        BY <2>2, <3>2, SameCount DEF UnknownCommand, socketVars
      <3> QED
        BY <3>1, <3>2
    <2>3. CASE Hangup(f) \/ cmd_room_list(f) \/ cmd_game_info(f)
      BY <2>3, SameCount DEF Hangup, cmd_room_list, cmd_game_info, Reply, socketVars
    <2>4. CASE cmd_room_create(f)
      BY <2>4, SameCount DEF cmd_room_create, Reply, socketVars
    <2>5. CASE \E i \in RoomIds : cmd_room_join(f, i)
      BY <2>5, SameCount DEF cmd_room_join, Reply, socketVars
    <2>6. CASE cmd_room_leave(f)
      BY <2>6, SameCount DEF cmd_room_leave, Reply, socketVars
    <2>7. CASE \E accepted \in BOOLEAN : cmd_game_prepared(f, accepted)
      BY <2>7, SameCount DEF cmd_game_prepared, Reply, socketVars
    <2>8. CASE \E outcome \in {"refused", "turn", "last_ship"} : cmd_game_fire(f, outcome)
      BY <2>8, SameCount DEF cmd_game_fire, Reply, socketVars
    <2> QED
      BY <2>1, <2>2, <2>3, <2>4, <2>5, <2>6, <2>7, <2>8,
         NewConnectionCount, LoginCounts, LogoutCount
  <1> QED
    BY <1>1, <1>2

\* In every run s_curr_players is at most the number of players who are there:
\* cmd_login refuses nobody because of players that are gone.
THEOREM NoPhantoms ==
  ASSUME ~Relogin
  PROVE  Spec => []NoPhantomPlayers
  <1>1. Init => PlayersCounted
    <2> SUFFICES ASSUME Init PROVE PlayersCounted
      OBVIOUS
    <2>1. Logged = {} /\ s_curr_players = 0
      BY DEF Init, Logged
    <2> QED
      BY <2>1, FS_EmptySet DEF PlayersCounted
  <1>2. ServerInv /\ PlayersCounted /\ [Next]_vars => PlayersCounted'
    BY StepCounted
  <1>3. ServerInv /\ PlayersCounted => NoPhantomPlayers
    BY LoggedSockets DEF PlayersCounted, NoPhantomPlayers
  <1> QED
    BY <1>1, <1>2, <1>3, ServerInvariant, PTL DEF Spec
=============================================================================
