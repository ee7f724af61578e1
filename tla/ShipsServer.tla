---------------------------- MODULE ShipsServer ----------------------------
(***************************************************************************)
(* The game server of server/: one process, one thread, a select loop that *)
(* accepts sockets, reads one message at a time from a readable socket and *)
(* runs the handler of the message to completion (server_listen,           *)
(* process_message, the cmd_* handlers).  The interleaving that matters is *)
(* the order in which the sockets become readable: a player may hang up,   *)
(* log in again on another socket, or have requests still in flight while  *)
(* the opponent leaves, fires or hangs up.                                 *)
(*                                                                         *)
(* The state is the heap of the C program: client structs, which outlive   *)
(* their socket so that a player who lost the connection can resume, rooms *)
(* (struct game), the array of sockets, the table of names, the array of   *)
(* room pointers with its stale entries, and the two counters.  Boards are *)
(* abstracted to the outcome a request has; module Match has them.         *)
(***************************************************************************)
EXTENDS Integers, FiniteSets

CONSTANTS
  Clients,      \* addresses malloc can return for a struct client
  Fds,          \* socket numbers
  Names,        \* well-formed player names
  Games,        \* addresses malloc can return for a struct game
  NULL,         \* the null pointer; also "no socket" (-1) and "no name"
  MaxPlayers,   \* s_max_players
  MaxRooms,     \* s_max_rooms
  MaxInvalid,   \* MAX_INVALID_MESSAGES
  MaxLoss,      \* bound: s_curr_players is not driven below -MaxLoss
  Relogin       \* environment: may a logged in client send login_req again?

ASSUME NullAssumption ==
  NULL \notin Clients \cup Fds \cup Names \cup Games
ASSUME LimitAssumption ==
  /\ MaxPlayers \in Nat /\ MaxRooms \in Nat /\ MaxLoss \in Nat
  /\ MaxInvalid \in Nat \ {0}
  /\ Relogin \in BOOLEAN

VARIABLES
  \* server_listen
  open,           \* sockets in master_fd_set
  hungup,         \* open sockets whose peer has closed its end
  clients,        \* server->clients: socket -> struct client
  \* struct client
  fd, name, state, playerNum, game, connected, invalid_count,
  players,        \* server->players: name -> struct client
  \* struct game (p1_count, p2_count, boards and ships: module Match)
  player1, player2, roomState, roomId,
  rooms,          \* server->rooms->data: id -> struct game, entries go stale
  s_curr_players, s_curr_rooms,
  \* what the messages sent so far have told the client
  told, toldOpp

socketVars == <<open, hungup, clients>>
clientVars == <<fd, name, state, playerNum, game, connected, invalid_count>>
roomVars   == <<player1, player2, roomState, roomId, rooms, s_curr_rooms>>
toldVars   == <<told, toldOpp>>
vars == <<socketVars, clientVars, players, roomVars, s_curr_players, toldVars>>

-----------------------------------------------------------------------------
STATE_UNLOGGED          == 0
STATE_IN_LOBBY          == 1
STATE_IN_ROOM           == 2
STATE_IN_GAME_PREPARING == 3
STATE_IN_GAME           == 4
STATE_IN_GAME_PLAYING   == 5

GAME_STATE_LOBBY  == 0
GAME_STATE_GAME   == 1
GAME_STATE_ERASED == 2

BadName == "bad"      \* empty, too long, or with a character outside 0-9A-Za-z
NoName  == "none"     \* login_req without an argument

RoomIds == IF MaxRooms = 0 THEN {} ELSE 0 .. (MaxRooms - 1)

InGame(s) ==
  s \in {STATE_IN_GAME_PREPARING, STATE_IN_GAME, STATE_IN_GAME_PLAYING}

Seats(g) == {player1[g], player2[g]}

\* The other seat of c's game (server_disconnect, cmd_room_leave, cmd_login).
Opponent(c) ==
  IF player1[game[c]] = c THEN player2[game[c]] ELSE player1[game[c]]

\* Every free(game) is preceded by game->state = GAME_STATE_ERASED, and no
\* code writes a freed block: the erased blocks are the free ones.
Live == {g \in Games : roomState[g] # GAME_STATE_ERASED}

\* The addresses in use.  A struct that only the stale entry of a closed socket
\* leads to is leaked: nothing reads it again, and as an address never free it
\* is indistinguishable from a fresh one.
Reachable ==
  {players[n] : n \in Names} \cup {clients[f] : f \in open}
    \cup UNION {Seats(g) : g \in Live}

-----------------------------------------------------------------------------
Init ==
  /\ open = {} /\ hungup = {}
  /\ clients = [f \in Fds |-> NULL]
  /\ fd = [c \in Clients |-> NULL]
  /\ name = [c \in Clients |-> NULL]
  /\ state = [c \in Clients |-> STATE_UNLOGGED]
  /\ playerNum = [c \in Clients |-> 0]
  /\ game = [c \in Clients |-> NULL]
  /\ connected = [c \in Clients |-> FALSE]
  /\ invalid_count = [c \in Clients |-> 0]
  /\ players = [n \in Names |-> NULL]
  /\ player1 = [g \in Games |-> NULL]
  /\ player2 = [g \in Games |-> NULL]
  /\ roomState = [g \in Games |-> GAME_STATE_ERASED]
  /\ roomId = [g \in Games |-> 0]
  /\ rooms = [i \in RoomIds |-> NULL]
  /\ s_curr_players = 0 /\ s_curr_rooms = 0
  /\ told = [c \in Clients |-> STATE_UNLOGGED]
  /\ toldOpp = [c \in Clients |-> FALSE]

-----------------------------------------------------------------------------
(* Sockets *)

\* Mutant: the counter is left alone.
CloseUncounted(f, compensation) ==
  /\ open' = open \ {f}
  /\ hungup' = hungup \ {f}
  /\ s_curr_players' = s_curr_players + compensation

\* close_connection: the counter drops whether or not the socket was logged in.
close_connection(f, compensation) ==
  /\ open' = open \ {f}
  /\ hungup' = hungup \ {f}
  /\ s_curr_players' = s_curr_players + compensation - 1

\* Accept a socket: a fresh struct client.  The fields malloc leaves
\* uninitialised (name, playerNum, game) are read in no state below
\* STATE_IN_ROOM and are modelled as cleared.  The first conjunct is the bound.
server_new_connection(f) ==
  /\ s_curr_players - Cardinality(open) > 0 - MaxLoss
  /\ f \in Fds \ open
  /\ \E c \in Clients \ Reachable :
       /\ clients' = [clients EXCEPT ![f] = c]
       /\ fd' = [fd EXCEPT ![c] = f]
       /\ name' = [name EXCEPT ![c] = NULL]
       /\ state' = [state EXCEPT ![c] = STATE_UNLOGGED]
       /\ playerNum' = [playerNum EXCEPT ![c] = 0]
       /\ game' = [game EXCEPT ![c] = NULL]
       /\ connected' = [connected EXCEPT ![c] = TRUE]
       /\ invalid_count' = [invalid_count EXCEPT ![c] = 0]
       /\ told' = [told EXCEPT ![c] = STATE_UNLOGGED]
       /\ toldOpp' = [toldOpp EXCEPT ![c] = FALSE]
  /\ open' = open \cup {f}
  /\ UNCHANGED <<hungup, players, roomVars, s_curr_players>>

\* The peer closes its end or dies.  Requests it sent before are still read.
Hangup(f) ==
  /\ f \in open \ hungup
  /\ hungup' = hungup \cup {f}
  /\ UNCHANGED <<open, clients, clientVars, players, roomVars,
                 s_curr_players, toldVars>>

-----------------------------------------------------------------------------
(* Rooms *)

\* Mutant: the room is not counted out.
FreeUncounted(g) ==
  /\ roomState' = [roomState EXCEPT ![g] = GAME_STATE_ERASED]
  /\ player1' = [player1 EXCEPT ![g] = NULL]
  /\ player2' = [player2 EXCEPT ![g] = NULL]
  /\ roomId' = [roomId EXCEPT ![g] = 0]
  /\ UNCHANGED <<rooms, s_curr_rooms>>

\* free(room): the block keeps its state field, the only one read afterwards.
FreeRoom(g) ==
  /\ roomState' = [roomState EXCEPT ![g] = GAME_STATE_ERASED]
  /\ player1' = [player1 EXCEPT ![g] = NULL]
  /\ player2' = [player2 EXCEPT ![g] = NULL]
  /\ roomId' = [roomId EXCEPT ![g] = 0]
  /\ s_curr_rooms' = s_curr_rooms - 1
  /\ UNCHANGED rooms

\* Mutants: the players keep the pointer to the freed room; they are not told.
EndDangling(g) ==
  /\ state' = [c \in Clients |->
                 IF c \in Seats(g) THEN STATE_IN_LOBBY ELSE state[c]]
  /\ told' = [c \in Clients |->
                IF c \in Seats(g) THEN STATE_IN_LOBBY ELSE told[c]]
  /\ toldOpp' = [c \in Clients |-> IF c \in Seats(g) THEN FALSE ELSE toldOpp[c]]
  /\ UNCHANGED game
  /\ FreeRoom(g)

EndSilently(g) ==
  /\ state' = [c \in Clients |->
                 IF c \in Seats(g) THEN STATE_IN_LOBBY ELSE state[c]]
  /\ game' = [c \in Clients |-> IF c \in Seats(g) THEN NULL ELSE game[c]]
  /\ UNCHANGED toldVars
  /\ FreeRoom(g)

\* game_end: both players are told and go back to the lobby, the room is freed.
game_end(g) ==
  /\ state' = [c \in Clients |->
                 IF c \in Seats(g) THEN STATE_IN_LOBBY ELSE state[c]]
  /\ game' = [c \in Clients |-> IF c \in Seats(g) THEN NULL ELSE game[c]]
  /\ told' = [c \in Clients |->
                IF c \in Seats(g) THEN STATE_IN_LOBBY ELSE told[c]]
  /\ toldOpp' = [c \in Clients |-> IF c \in Seats(g) THEN FALSE ELSE toldOpp[c]]
  /\ FreeRoom(g)

\* The STATE_IN_ROOM branch of cmd_room_leave.
VacateSeat(c) ==
  LET g     == game[c]
      p1    == IF player1[g] = c THEN NULL ELSE player1[g]
      p2    == IF player2[g] = c THEN NULL ELSE player2[g]
  IN /\ IF p1 = NULL /\ p2 = NULL
        THEN FreeRoom(g)
        ELSE /\ player1' = [player1 EXCEPT ![g] = p1]
             /\ player2' = [player2 EXCEPT ![g] = p2]
             /\ UNCHANGED <<roomState, roomId, rooms, s_curr_rooms>>
     /\ game' = [game EXCEPT ![c] = NULL]
     /\ state' = [state EXCEPT ![c] = STATE_IN_LOBBY]
     /\ told' = [told EXCEPT ![c] = STATE_IN_LOBBY]
     /\ toldOpp' = [o \in Clients |->
                      IF o \in {c, p1, p2} THEN FALSE ELSE toldOpp[o]]

\* Mutants: a waiting player keeps the seat, a game is never ended, or it is
\* ended at the first loss.
KeepWaiting(c) ==
  IF ~InGame(state[c])
  THEN UNCHANGED <<state, game, roomVars, toldVars>>
  ELSE IF Opponent(c) # NULL /\ connected[Opponent(c)]
  THEN /\ toldOpp' = [toldOpp EXCEPT ![Opponent(c)] = FALSE]
       /\ UNCHANGED <<state, game, roomVars, told>>
  ELSE game_end(game[c])

KeepGame(c) ==
  IF state[c] = STATE_IN_ROOM
  THEN VacateSeat(c)
  ELSE UNCHANGED <<state, game, roomVars, toldVars>>

EndAtOnce(c) ==
  IF state[c] = STATE_IN_ROOM THEN VacateSeat(c)
  ELSE IF InGame(state[c]) THEN game_end(game[c])
  ELSE UNCHANGED <<state, game, roomVars, toldVars>>

\* What server_disconnect does to the seat of the client it disconnects: a
\* waiting player leaves the room, a player of a game keeps the seat as long
\* as the opponent is connected, and otherwise the game ends.
SeatOnDisconnect(c) ==
  IF state[c] = STATE_IN_ROOM
  THEN VacateSeat(c)
  ELSE IF ~InGame(state[c])
  THEN UNCHANGED <<state, game, roomVars, toldVars>>
  ELSE IF Opponent(c) # NULL /\ connected[Opponent(c)]
  THEN /\ toldOpp' = [toldOpp EXCEPT ![Opponent(c)] = FALSE]
       /\ UNCHANGED <<state, game, roomVars, told>>
  ELSE game_end(game[c])

server_disconnect(f, compensation) ==
  LET c == clients[f]
  IN /\ SeatOnDisconnect(c)
     /\ connected' = [connected EXCEPT ![c] = FALSE]
     /\ fd' = [fd EXCEPT ![c] = NULL]
     /\ clients' = [clients EXCEPT ![f] = NULL]
     /\ close_connection(f, compensation)
     /\ UNCHANGED <<name, playerNum, players>>

\* Mutant: only the sockets of logged in players are closed.
ReadEofOfPlayer(f) ==
  /\ f \in hungup /\ state[clients[f]] # STATE_UNLOGGED
  /\ server_disconnect(f, 0)
  /\ UNCHANGED invalid_count

\* select reports the socket readable with nothing to read: the peer is gone.
ReadEof(f) ==
  /\ f \in hungup
  /\ server_disconnect(f, 0)
  /\ UNCHANGED invalid_count

-----------------------------------------------------------------------------
(* Requests: f is a socket with a message to read *)

\* Mutant: the count is never cleared.
HandledUncleared(c) == UNCHANGED invalid_count

\* process_message: a known command clears the count of unknown ones.
Handled(c) == invalid_count' = [invalid_count EXCEPT ![c] = 0]

\* A reply (xxx_err, room_list_data, game_info_data) and no change of state.
Reply(c) ==
  /\ Handled(c)
  /\ UNCHANGED <<socketVars, fd, name, state, playerNum, game, connected,
                 players, roomVars, s_curr_players, toldVars>>

\* Mutant: the state stays unlogged.
SetNameOnly(c, n) == name' = [name EXCEPT ![c] = n] /\ UNCHANGED state

\* client_set_name returns without a value; as built, without optimisation, its
\* caller finds the pointer it wrote through last, which is not 0: a success.
SetName(c, n) ==
  /\ name' = [name EXCEPT ![c] = n]
  /\ state' = [state EXCEPT ![c] =
                 IF @ = STATE_UNLOGGED THEN STATE_IN_LOBBY ELSE @]

\* The end of a successful cmd_login: login_ok to c, and room_join_opp to a
\* connected opponent.  login_ok carries the state, and nothing the client is
\* sent then says that its opponent is away.
LoginOk(c, n) ==
  /\ SetName(c, n)
  /\ s_curr_players' = s_curr_players + 1
  /\ players' = [players EXCEPT ![n] = c]
  /\ told' = [told EXCEPT ![c] = state'[c]]
  /\ toldOpp' = IF ~InGame(state[c]) THEN toldOpp
                ELSE [o \in Clients |->
                        \/ o = c
                        \/ IF o = Opponent(c) THEN connected[o] \/ toldOpp[o]
                                              ELSE toldOpp[o]]

LoginError(f, compensation) ==
  /\ server_disconnect(f, compensation)
  /\ UNCHANGED invalid_count

cmd_login(f, n) ==
  LET c      == clients[f]
      logged == players[n]
  IN /\ f \in open
     /\ state[c] = STATE_UNLOGGED \/ Relogin
     /\ IF n = NoName THEN LoginError(f, 0)
        ELSE IF s_curr_players + 1 > MaxPlayers THEN LoginError(f, 1)
        ELSE IF n = BadName THEN LoginError(f, 0)
        ELSE IF logged = NULL
        THEN /\ LoginOk(c, n)
             /\ Handled(c)
             /\ UNCHANGED <<socketVars, fd, playerNum, game, connected,
                            roomVars>>
        ELSE IF connected[logged] THEN LoginError(f, 0)
        ELSE \* the struct of the lost connection moves to this socket and
             \* the one malloced for this socket is freed
             /\ clients' = [clients EXCEPT ![f] = logged]
             /\ fd' = [fd EXCEPT ![logged] = f, ![c] = NULL]
             /\ connected' = [connected EXCEPT ![logged] = TRUE, ![c] = FALSE]
             /\ LoginOk(logged, n)
             /\ Handled(logged)
             /\ UNCHANGED <<open, hungup, playerNum, game, roomVars>>

cmd_room_create(f) ==
  LET c == clients[f]
  IN /\ f \in open
     /\ IF s_curr_rooms + 1 > MaxRooms \/ state[c] # STATE_IN_LOBBY
        THEN Reply(c)
        ELSE \E g \in Games \ Live,
                i \in RoomIds \ {roomId[h] : h \in Live},
                first \in BOOLEAN :
               /\ player1' = [player1 EXCEPT ![g] = IF first THEN c ELSE NULL]
               /\ player2' = [player2 EXCEPT ![g] = IF first THEN NULL ELSE c]
               /\ game' = [game EXCEPT ![c] = g]
               /\ roomState' = [roomState EXCEPT ![g] = GAME_STATE_LOBBY]
               /\ s_curr_rooms' = s_curr_rooms + 1
               /\ roomId' = [roomId EXCEPT ![g] = i]
               /\ rooms' = [rooms EXCEPT ![i] = g]
               /\ state' = [state EXCEPT ![c] = STATE_IN_ROOM]
               /\ told' = [told EXCEPT ![c] = STATE_IN_ROOM]
               /\ Handled(c)
               /\ UNCHANGED <<socketVars, fd, name, playerNum, connected,
                              players, s_curr_players, toldOpp>>

\* The list is a reply: the rooms with one empty seat.
cmd_room_list(f) == f \in open /\ Reply(clients[f])

\* The room id comes from an older room_list_data: rooms[i] may be a block that
\* was freed since, or that malloc handed out again for another room.
cmd_room_join(f, i) ==
  LET c   == clients[f]
      g   == rooms[i]
      opp == IF player1[g] = NULL THEN player2[g] ELSE player1[g]
  IN /\ f \in open
     /\ IF \/ state[c] # STATE_IN_LOBBY
           \/ g = NULL
           \/ roomState[g] # GAME_STATE_LOBBY
           \/ NULL \notin Seats(g)
        THEN Reply(c)
        ELSE /\ IF player1[g] = NULL
                THEN player1' = [player1 EXCEPT ![g] = c] /\ UNCHANGED player2
                ELSE player2' = [player2 EXCEPT ![g] = c] /\ UNCHANGED player1
             /\ game' = [game EXCEPT ![c] = g]
             /\ toldOpp' = [toldOpp EXCEPT ![c] = TRUE, ![opp] = TRUE]
             /\ IF state[opp] = STATE_IN_ROOM
                THEN /\ state' = [state EXCEPT
                                    ![c] = STATE_IN_GAME_PREPARING,
                                    ![opp] = STATE_IN_GAME_PREPARING]
                     /\ told' = [told EXCEPT
                                   ![c] = STATE_IN_GAME_PREPARING,
                                   ![opp] = STATE_IN_GAME_PREPARING]
                     /\ playerNum' = [playerNum EXCEPT
                                        ![player1'[g]] = 1, ![player2'[g]] = 2]
                     /\ roomState' = [roomState EXCEPT ![g] = GAME_STATE_GAME]
                ELSE /\ state' = [state EXCEPT ![c] = STATE_IN_ROOM]
                     /\ told' = [told EXCEPT ![c] = STATE_IN_ROOM]
                     /\ UNCHANGED <<playerNum, roomState>>
             /\ Handled(c)
             /\ UNCHANGED <<socketVars, fd, name, connected, players, roomId,
                            rooms, s_curr_rooms, s_curr_players>>

\* Leaving a game ends it for both; there is no room_leave_ok then.
cmd_room_leave(f) ==
  LET c == clients[f]
  IN /\ f \in open
     /\ IF InGame(state[c]) \/ state[c] = STATE_IN_ROOM
        THEN /\ IF InGame(state[c]) THEN game_end(game[c]) ELSE VacateSeat(c)
             /\ Handled(c)
             /\ UNCHANGED <<socketVars, fd, name, playerNum, connected, players,
                            s_curr_players>>
        ELSE Reply(c)

\* Mutant: the name stays registered.
KeepName(c) == UNCHANGED players

\* ht_remove, unless the socket never logged in.
RemoveName(c) ==
  players' = IF state[c] = STATE_UNLOGGED THEN players
             ELSE [players EXCEPT ![name[c]] = NULL]

\* The struct keeps its fields, clients[f] keeps pointing to it.
cmd_logout(f) ==
  LET c == clients[f]
      g == game[c]
  IN /\ f \in open
     /\ IF state[c] = STATE_IN_ROOM
        THEN /\ IF NULL \in Seats(g)
                THEN FreeRoom(g) /\ game' = [game EXCEPT ![c] = NULL]
                ELSE /\ player1' = [player1 EXCEPT ![g] = IF @ = c THEN NULL ELSE @]
                     /\ player2' = [player2 EXCEPT ![g] = IF @ = c THEN NULL ELSE @]
                     /\ UNCHANGED <<roomState, roomId, rooms, s_curr_rooms, game>>
             /\ UNCHANGED <<state, toldVars>>
        ELSE IF InGame(state[c])
        THEN game_end(g)
        ELSE UNCHANGED <<state, game, roomVars, toldVars>>
     /\ RemoveName(c)
     /\ close_connection(f, 0)
     /\ Handled(c)
     /\ UNCHANGED <<clients, fd, name, playerNum, connected>>

\* accepted: the board passed the checks of cmd_game_prepared (module Ships).
cmd_game_prepared(f, accepted) ==
  LET c == clients[f]
      g == game[c]
      p1 == player1[g]
      p2 == player2[g]
      ready == [state EXCEPT ![c] = STATE_IN_GAME]
  IN /\ f \in open
     /\ IF state[c] # STATE_IN_GAME_PREPARING \/ ~accepted
        THEN Reply(c)
        ELSE /\ IF ready[p1] = STATE_IN_GAME /\ ready[p2] = STATE_IN_GAME
                THEN /\ state' = [ready EXCEPT ![p1] = STATE_IN_GAME_PLAYING]
                     /\ told' = [told EXCEPT ![c] = STATE_IN_GAME,
                                             ![p1] = STATE_IN_GAME_PLAYING]
                ELSE /\ state' = ready
                     /\ told' = [told EXCEPT ![c] = STATE_IN_GAME]
             /\ Handled(c)
             /\ UNCHANGED <<socketVars, fd, name, playerNum, game, connected,
                            players, roomVars, s_curr_players, toldOpp>>

\* Mutant: the player who fired stays on turn.
KeepTurn(c, target) ==
  /\ state' = [state EXCEPT ![target] = STATE_IN_GAME_PLAYING]
  /\ told' = [told EXCEPT ![target] = STATE_IN_GAME_PLAYING]

\* A shot hands the turn over; game_fire_ok and game_opp_fire say so.
PassTurn(c, target) ==
  /\ state' = [state EXCEPT ![c] = STATE_IN_GAME, ![target] = STATE_IN_GAME_PLAYING]
  /\ told' = [told EXCEPT ![c] = STATE_IN_GAME, ![target] = STATE_IN_GAME_PLAYING]

\* outcome: a refused shot, a miss or hit, or the hit that sinks the last ship.
cmd_game_fire(f, outcome) ==
  LET c == clients[f]
      g == game[c]
      target == IF playerNum[c] = 1 THEN player2[g] ELSE player1[g]
  IN /\ f \in open
     /\ IF state[c] # STATE_IN_GAME_PLAYING \/ outcome = "refused"
        THEN Reply(c)
        ELSE /\ IF outcome = "last_ship"
                THEN game_end(g)
                ELSE /\ PassTurn(c, target)
                     /\ UNCHANGED <<game, roomVars, toldOpp>>
             /\ Handled(c)
             /\ UNCHANGED <<socketVars, fd, name, playerNum, connected, players,
                            s_curr_players>>

\* The reply tells the client its state again: told must already agree.
cmd_game_info(f) ==
  LET c == clients[f]
  IN /\ f \in open
     /\ told' = IF InGame(state[c]) THEN [told EXCEPT ![c] = state[c]] ELSE told
     /\ Handled(c)
     /\ UNCHANGED <<socketVars, fd, name, state, playerNum, game, connected,
                    players, roomVars, s_curr_players, toldOpp>>

\* Mutant: nobody is ever thrown out.
UnknownTolerated(f) ==
  /\ f \in open
  /\ invalid_count' = [invalid_count EXCEPT ![clients[f]] = @ + 1]
  /\ UNCHANGED <<socketVars, fd, name, state, playerNum, game, connected,
                 players, roomVars, s_curr_players, toldVars>>

\* process_message on an unknown command, and the check of server_listen that
\* closes the connection after too many of them in a row.
UnknownCommand(f) ==
  LET c == clients[f]
  IN /\ f \in open
     /\ invalid_count' = [invalid_count EXCEPT ![c] = @ + 1]
     /\ IF invalid_count[c] + 1 >= MaxInvalid
        THEN server_disconnect(f, 0)
        ELSE UNCHANGED <<socketVars, fd, name, state, playerNum, game,
                         connected, players, roomVars, s_curr_players, toldVars>>

-----------------------------------------------------------------------------
Next ==
  \E f \in Fds :
    \/ server_new_connection(f)
    \/ Hangup(f)
    \/ ReadEof(f)
    \/ \E n \in Names \cup {BadName, NoName} : cmd_login(f, n)
    \/ cmd_room_create(f)
    \/ cmd_room_list(f)
    \/ \E i \in RoomIds : cmd_room_join(f, i)
    \/ cmd_room_leave(f)
    \/ cmd_logout(f)
    \/ \E accepted \in BOOLEAN : cmd_game_prepared(f, accepted)
    \/ \E outcome \in {"refused", "turn", "last_ship"} : cmd_game_fire(f, outcome)
    \/ cmd_game_info(f)
    \/ UnknownCommand(f)

Spec == Init /\ [][Next]_vars

\* The select loop serves every readable socket of a round, and a socket whose
\* peer is gone stays readable until it is closed.
FairSpec == Spec /\ \A f \in Fds : WF_vars(ReadEof(f))

-----------------------------------------------------------------------------
(* What must hold *)

\* The client structs that the table of names or an open socket refers to.
Registered(c) == \E n \in Names : players[n] = c
Online(c)     == \E f \in open : clients[f] = c

\* Every variable holds a value of its C type: first what sockets and sessions
\* are made of, then seats, rooms and what was told.
SessionTypeOK ==
  /\ open \in SUBSET Fds /\ hungup \in SUBSET open
  /\ clients \in [Fds -> Clients \cup {NULL}]
  /\ fd \in [Clients -> Fds \cup {NULL}]
  /\ name \in [Clients -> Names \cup {NULL}]
  /\ connected \in [Clients -> BOOLEAN]
  /\ invalid_count \in [Clients -> 0 .. MaxInvalid]
  /\ players \in [Names -> Clients \cup {NULL}]
  /\ s_curr_players \in Int

SeatTypeOK ==
  /\ state \in [Clients -> 0 .. 5]
  /\ playerNum \in [Clients -> 0 .. 2]
  /\ game \in [Clients -> Games \cup {NULL}]
  /\ player1 \in [Games -> Clients \cup {NULL}]
  /\ player2 \in [Games -> Clients \cup {NULL}]
  /\ roomState \in [Games -> 0 .. 2]
  /\ roomId \in [Games -> Nat]
  /\ rooms \in [RoomIds -> Games \cup {NULL}]
  /\ s_curr_rooms \in Int
  /\ told \in [Clients -> 0 .. 5]
  /\ toldOpp \in [Clients -> BOOLEAN]

TypeOK == SessionTypeOK /\ SeatTypeOK

\* An open socket has a connected struct of its own that points back to it and
\* has not used up its unknown commands: a player that was kicked and resumes
\* starts anew.
SocketsConsistent ==
  \A f \in open :
    /\ clients[f] # NULL
    /\ fd[clients[f]] = f
    /\ connected[clients[f]]
    /\ invalid_count[clients[f]] < MaxInvalid

\* A struct that was never logged in is reachable from its socket only:
\* cmd_login frees such a struct when its player resumes an older one.
UnloggedIsPrivate ==
  \A f \in open : state[clients[f]] = STATE_UNLOGGED =>
    /\ ~Registered(clients[f])
    /\ \A g \in Live : clients[f] \notin Seats(g)

\* One name, one session: the struct found under a name bears that name, it is
\* connected exactly when an open socket leads to it, and a logged in socket is
\* the session of its name.
NamesConsistent ==
  /\ \A n \in Names : players[n] # NULL =>
       /\ name[players[n]] = n
       /\ state[players[n]] # STATE_UNLOGGED
       /\ connected[players[n]] <=> Online(players[n])
  /\ \A f \in open : state[clients[f]] # STATE_UNLOGGED =>
       /\ name[clients[f]] \in Names
       /\ players[name[clients[f]]] = clients[f]

\* Seats and players point at each other: no seat is left to a struct that is
\* elsewhere or logged out, and no player points at a freed room.
SeatsConsistent ==
  /\ \A c \in Clients : Registered(c) =>
       IF state[c] \in {STATE_UNLOGGED, STATE_IN_LOBBY}
       THEN game[c] = NULL
       ELSE game[c] \in Live /\ c \in Seats(game[c])
  /\ \A g \in Live : \A c \in Seats(g) \ {NULL} :
       Registered(c) /\ game[c] = g

\* A room in the list waits for exactly one more player, and its player is
\* connected and waiting in it: joining it always starts a game.
WaitingRooms ==
  \A g \in Live : roomState[g] = GAME_STATE_LOBBY =>
    /\ NULL \in Seats(g)
    /\ \E c \in Seats(g) \ {NULL} : state[c] = STATE_IN_ROOM /\ connected[c]

\* The turn: once both players are prepared exactly one may fire, before that
\* none; playerNum, which picks the board that is fired at, agrees with the seat.
Turn ==
  \A g \in Live : roomState[g] = GAME_STATE_GAME =>
    /\ player1[g] # player2[g] /\ NULL \notin Seats(g)
    /\ \A c \in Seats(g) : InGame(state[c])
    /\ playerNum[player1[g]] = 1 /\ playerNum[player2[g]] = 2
    /\ Cardinality({c \in Seats(g) : state[c] = STATE_IN_GAME_PLAYING}) =
         IF \E c \in Seats(g) : state[c] = STATE_IN_GAME_PREPARING THEN 0 ELSE 1

\* A room never outlives the connections of all its players: server_disconnect
\* ends the game when the second one goes, and so no room leaks.
NoAbandonedRoom ==
  \A g \in Live : \E c \in Seats(g) \ {NULL} : Online(c)

\* s_curr_rooms counts the rooms, so the limit of cmd_room_create is exact, and
\* the id of a room leads to it.
RoomsCounted ==
  /\ s_curr_rooms = Cardinality(Live) /\ s_curr_rooms <= MaxRooms
  /\ \A g \in Live : roomId[g] \in RoomIds /\ rooms[roomId[g]] = g

\* The counter of players never exceeds the players: nobody is refused because
\* of players that are gone.  (It may fall short of them, see PlayerLimit.)
NoPhantomPlayers ==
  s_curr_players <= Cardinality({f \in open : state[clients[f]] # STATE_UNLOGGED})

\* What a client learns from its messages is where the server has it: told is
\* the state, and in a game a client believes its opponent present exactly when
\* it is.
ToldTheTruth ==
  \A f \in open :
    /\ told[clients[f]] = state[clients[f]]
    /\ InGame(state[clients[f]]) =>
         toldOpp[clients[f]] = connected[Opponent(clients[f])]

\* The sessions that people have, by name.
PhaseOf(s) ==
  CASE s = STATE_IN_ROOM           -> "room"
    [] s = STATE_IN_GAME_PREPARING -> "preparing"
    [] s = STATE_IN_GAME           -> "waiting"
    [] s = STATE_IN_GAME_PLAYING   -> "firing"
    [] OTHER                       -> "lobby"

Sessions == INSTANCE Lobby WITH
  Name <- Names, None <- NULL,
  session <- [n \in Names |-> IF players[n] = NULL THEN "none"
                              ELSE IF connected[players[n]] THEN "online" ELSE "away"],
  phase   <- [n \in Names |-> IF players[n] = NULL THEN "lobby"
                              ELSE PhaseOf(state[players[n]])],
  rival   <- [n \in Names |-> IF players[n] = NULL \/ ~InGame(state[players[n]])
                              THEN NULL ELSE name[Opponent(players[n])]]

\* Structs that are moved between sockets, leaked or allocated anew, rooms under
\* stale ids and two states changed at a time amount to the lobby that people
\* see: every step of the server changes their sessions as that lobby may, and a
\* request of one never touches a session outside its game.
ImplementsLobby == Sessions!LobbySpec

\* A socket whose peer is gone is eventually closed.
HangupNoticed == \A f \in Fds : f \in hungup ~> f \notin open

\* When every peer has gone for good, whatever requests they left unread, the
\* server closes their sockets and reaps every room, started or waiting.
AbandonedRoomsReaped ==
  <>[](open = hungup) => <>[](open = {} /\ Live = {} /\ s_curr_rooms = 0)

\* README.md offers a limit on the number of players, and the comment in
\* cmd_login explains the counter that enforces it.
PlayerLimit ==
  Cardinality({f \in open : state[clients[f]] # STATE_UNLOGGED}) <= MaxPlayers
=============================================================================
