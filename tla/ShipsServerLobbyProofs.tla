----------------------- MODULE ShipsServerLobbyProofs -----------------------
(***************************************************************************)
(* ShipsServer implements Lobby, for every number of players, sockets,     *)
(* names and rooms: every handler changes the sessions that people see as  *)
(* one step of the lobby does, or not at all.  As for the seats in module  *)
(* ShipsServerProofs, clients log in once per connection.                  *)
(***************************************************************************)
EXTENDS ShipsServerProofs

USE DEF STATE_UNLOGGED, STATE_IN_LOBBY, STATE_IN_ROOM, STATE_IN_GAME_PREPARING,
        STATE_IN_GAME, STATE_IN_GAME_PLAYING,
        GAME_STATE_LOBBY, GAME_STATE_GAME, GAME_STATE_ERASED

-----------------------------------------------------------------------------
(* The session, the phase and the rival of one name, as Sessions maps them. *)

Session(n) ==
  IF players[n] = NULL THEN "none"
  ELSE IF connected[players[n]] THEN "online" ELSE "away"

Phase(n) ==
  IF players[n] = NULL THEN "lobby" ELSE PhaseOf(state[players[n]])

Rival(n) ==
  IF players[n] = NULL \/ ~InGame(state[players[n]]) THEN NULL
  ELSE name[Opponent(players[n])]

SameSessions == \A m \in Names : Session(m)' = Session(m)

SamePhases == \A m \in Names : Phase(m)' = Phase(m) /\ Rival(m)' = Rival(m)

LEMMA StutterMaps ==
  ASSUME SameSessions, SamePhases
  PROVE  UNCHANGED Sessions!lobbyVars
  BY DEF SameSessions, SamePhases, Session, Phase, Rival, Sessions!lobbyVars

LEMMA InitMaps == Init => Sessions!LobbyInit
  BY DEF Init, Sessions!LobbyInit

\* n, and the rival of n if there is one, are back in the lobby.
BackToLobby(n) == \A m \in Names :
  IF m = n \/ (Rival(n) # NULL /\ m = Rival(n))
  THEN Phase(m)' = "lobby" /\ Rival(m)' = NULL
  ELSE Phase(m)' = Phase(m) /\ Rival(m)' = Rival(m)

SetSession(n, v) == \A m \in Names :
  Session(m)' = IF m = n THEN v ELSE Session(m)

LEMMA ToLobbyMaps ==
  ASSUME NEW n \in Names, BackToLobby(n)
  PROVE  Sessions!ToLobby(n)
  BY DEF BackToLobby, Session, Phase, Rival, Sessions!ToLobby, Sessions!Playing

LEMMA LeaveMaps ==
  ASSUME NEW n \in Names, BackToLobby(n), Session(n) = "online", Phase(n) # "lobby",
         SameSessions
  PROVE  Sessions!LobbyNext
  <1>1. Sessions!Leave(n)
    BY ToLobbyMaps DEF Session, Phase, SameSessions, Sessions!Leave
  <1> QED
    BY <1>1 DEF Sessions!LobbyNext

LEMMA EnterMaps ==
  ASSUME NEW n \in Names, Session(n) # "online", SetSession(n, "online"), SamePhases
  PROVE  Sessions!LobbyNext
  <1>1. Sessions!Enter(n)
    BY DEF Session, Phase, Rival, SetSession, SamePhases, Sessions!Enter
  <1> QED
    BY <1>1 DEF Sessions!LobbyNext

LEMMA LogoutMaps ==
  ASSUME NEW n \in Names, Session(n) = "online", SetSession(n, "none"), BackToLobby(n)
  PROVE  Sessions!LobbyNext
  <1>1. Sessions!Logout(n)
    BY ToLobbyMaps DEF Session, SetSession, Sessions!Logout
  <1> QED
    BY <1>1 DEF Sessions!LobbyNext

\* The game survives if its other player is still there.
LEMMA LoseMaps ==
  ASSUME NEW n \in Names, Session(n) = "online", SetSession(n, "away"),
         Rival(n) # NULL => Rival(n) \in Names,
         IF Rival(n) # NULL /\ Session(Rival(n)) = "online"
         THEN SamePhases ELSE BackToLobby(n)
  PROVE  Sessions!LobbyNext
  <1>1. CASE Rival(n) # NULL /\ Session(Rival(n)) = "online"
    <2>1. Sessions!Lose(n)
      BY <1>1 DEF Session, Phase, Rival, SetSession, SamePhases,
                  Sessions!Lose, Sessions!Playing
    <2> QED
      BY <2>1 DEF Sessions!LobbyNext
  <1>2. CASE ~(Rival(n) # NULL /\ Session(Rival(n)) = "online")
    <2>1. Sessions!ToLobby(n)
      BY <1>2, ToLobbyMaps
    <2>2. Sessions!Lose(n)
      BY <1>2, <2>1 DEF Session, Rival, SetSession, Sessions!Lose, Sessions!Playing
    <2> QED
      BY <2>2 DEF Sessions!LobbyNext
  <1> QED
    BY <1>1, <1>2

LEMMA OpenRoomMaps ==
  ASSUME NEW n \in Names, Session(n) = "online", Phase(n) = "lobby", SameSessions,
         \A m \in Names : /\ Phase(m)' = IF m = n THEN "room" ELSE Phase(m)
                          /\ Rival(m)' = Rival(m)
  PROVE  Sessions!LobbyNext
  <1>1. Sessions!OpenRoom(n)
    BY DEF Session, Phase, Rival, SameSessions, Sessions!OpenRoom
  <1> QED
    BY <1>1 DEF Sessions!LobbyNext

LEMMA JoinMaps ==
  ASSUME NEW n \in Names, NEW m \in Names \ {n}, SameSessions,
         Session(n) = "online", Phase(n) = "lobby",
         Session(m) = "online", Phase(m) = "room",
         \A k \in Names :
           /\ Phase(k)' = IF k \in {n, m} THEN "preparing" ELSE Phase(k)
           /\ Rival(k)' = IF k = n THEN m ELSE IF k = m THEN n ELSE Rival(k)
  PROVE  Sessions!LobbyNext
  <1>1. Sessions!Join(n, m)
    BY DEF Session, Phase, Rival, SameSessions, Sessions!Join
  <1> QED
    BY <1>1 DEF Sessions!LobbyNext

\* n is ready first, or second and then first fires.
LEMMA ReadyMaps ==
  ASSUME NEW n \in Names, SameSessions, Session(n) = "online", Phase(n) = "preparing",
         Rival(n) \in Names \ {n},
         \A m \in Names : Rival(m)' = Rival(m),
         IF Phase(Rival(n)) = "preparing"
         THEN \A m \in Names : Phase(m)' = IF m = n THEN "waiting" ELSE Phase(m)
         ELSE \E first \in {n, Rival(n)} : \A m \in Names :
                Phase(m)' = IF m = first THEN "firing"
                            ELSE IF m = n THEN "waiting" ELSE Phase(m)
  PROVE  Sessions!LobbyNext
  <1>1. CASE Phase(Rival(n)) = "preparing"
    <2>1. Sessions!Ready(n)
      BY <1>1 DEF Session, Phase, Rival, SameSessions, Sessions!Ready
    <2> QED
      BY <2>1 DEF Sessions!LobbyNext
  <1>2. CASE Phase(Rival(n)) # "preparing"
    <2>1. PICK first \in {n, Rival(n)} : \A m \in Names :
            Phase(m)' = IF m = first THEN "firing"
                        ELSE IF m = n THEN "waiting" ELSE Phase(m)
      BY <1>2
    <2>2. Sessions!Ready(n)
      BY <1>2, <2>1 DEF Session, Phase, Rival, SameSessions, Sessions!Ready
    <2> QED
      BY <2>2 DEF Sessions!LobbyNext
  <1> QED
    BY <1>1, <1>2

LEMMA FireMaps ==
  ASSUME NEW n \in Names, SameSessions, Session(n) = "online", Phase(n) = "firing",
         Rival(n) \in Names \ {n},
         \A m \in Names :
           /\ Phase(m)' = IF m = n THEN "waiting"
                          ELSE IF m = Rival(n) THEN "firing" ELSE Phase(m)
           /\ Rival(m)' = Rival(m)
  PROVE  Sessions!LobbyNext
  <1>1. Sessions!Fire(n)
    BY ZenonT(60) DEF Session, Phase, Rival, SameSessions, Sessions!Fire
  <1> QED
    BY <1>1 DEF Sessions!LobbyNext

-----------------------------------------------------------------------------
(* What the invariant says of a name and its rival *)

\* A registered struct, seen under its name.
LEMMA View ==
  ASSUME ServerInv, NEW c \in Clients, Registered(c), NEW n, n = name[c]
  PROVE  /\ n \in Names /\ players[n] = c /\ c # NULL
         /\ Session(n) = IF connected[c] THEN "online" ELSE "away"
         /\ Phase(n) = PhaseOf(state[c])
         /\ ~InGame(state[c]) => Rival(n) = NULL
  BY RegisteredPlayer, NullAssumption DEF Session, Phase, Rival

\* The rival is the player in the other seat.
LEMMA RivalView ==
  ASSUME ServerInv, NEW c \in Clients, Registered(c), InGame(state[c]),
         NEW n, n = name[c], NEW o, o = Opponent(c)
  PROVE  /\ o \in Clients /\ Registered(o) /\ o # c /\ InGame(state[o])
         /\ Rival(n) = name[o] /\ name[o] \in Names \ {n} /\ players[name[o]] = o
         /\ Rival(n) # NULL /\ Rival(name[o]) = n
  <1>1. /\ o \in Clients /\ Registered(o) /\ o # c /\ InGame(state[o])
        /\ Opponent(o) = c
    BY Opposite
  <1>2. n \in Names /\ players[n] = c /\ c # NULL
    BY View
  <1>3. name[o] \in Names /\ players[name[o]] = o /\ o # NULL
    BY <1>1, View
  <1> QED
    BY <1>1, <1>2, <1>3, NullAssumption DEF Rival

\* Whoever a name leads to.
LEMMA Named ==
  ASSUME ServerInv, NEW m \in Names, NEW p, p = players[m], p # NULL
  PROVE  p \in Clients /\ Registered(p) /\ name[p] = m
  BY DEF ServerInv, SessionInv, SessionTypeOK, PlacesOK, PlayerOK, Registered

\* A name whose struct, room and opponent keep what they have is seen as before.
LEMMA SamePhase ==
  ASSUME ServerInv, NEW m \in Names, NEW p, p = players[m], players'[m] = p,
         p # NULL => /\ state'[p] = state[p] /\ game'[p] = game[p]
                     /\ \A g \in Live : p \in Seats(g) =>
                          player1'[g] = player1[g] /\ player2'[g] = player2[g],
         \A x \in Clients : Registered(x) => name'[x] = name[x]
  PROVE  Phase(m)' = Phase(m) /\ Rival(m)' = Rival(m)
  <1>1. CASE p = NULL
    BY <1>1 DEF Phase, Rival
  <1>2. CASE p # NULL /\ ~InGame(state[p])
    BY <1>2 DEF Phase, Rival, InGame
  <1>3. CASE p # NULL /\ InGame(state[p])
    <2> PICK g, o : g = game[p] /\ o = Opponent(p)
      OBVIOUS
    <2>1. p \in Clients /\ Registered(p)
      BY <1>3, Named
    <2>2. g \in Live /\ p \in Seats(g) /\ o \in Clients /\ Registered(o)
      BY <1>3, <2>1, Opposite
    <2>3. /\ game'[p] = g /\ player1'[g] = player1[g] /\ player2'[g] = player2[g]
          /\ state'[p] = state[p] /\ name'[o] = name[o]
      BY <1>3, <2>2
    <2>4. o = IF player1[g] = p THEN player2[g] ELSE player1[g]
      BY DEF Opponent
    <2>5. Rival(m) = name[o]
      BY <1>3 DEF Rival
    <2>6. Rival(m)' = name'[o]
      BY <1>3, <2>3, <2>4 DEF Rival, InGame, Opponent
    <2>7. Phase(m)' = Phase(m)
      BY <1>3, <2>3 DEF Phase
    <2> QED
      BY <2>3, <2>5, <2>6, <2>7
  <1> QED
    BY <1>1, <1>2, <1>3

\* Steps that touch no seat and no state of a registered struct.
LEMMA SamePhasesOf ==
  ASSUME ServerInv, UNCHANGED <<players, state, game, name, player1, player2>>
  PROVE  SamePhases
  BY DEF SamePhases, Phase, Rival, Opponent

LEMMA SameSessionsOf ==
  ASSUME UNCHANGED <<players, connected>>
  PROVE  SameSessions
  BY DEF SameSessions, Session

\* When the room of c ends, c and the rival of c are in the lobby again.
LEMMA EndView ==
  ASSUME ServerInv, NEW c \in Clients, NEW g \in Live, c \in Seats(g),
         SessionOf(c), game_end(g), NEW n, n = name[c]
  PROVE  BackToLobby(n)
  <1>1. c # NULL /\ Registered(c) /\ game[c] = g /\ g \in Games /\ g # NULL
    BY SeatedOnce, NullAssumption DEF Live
  <1>2. /\ n \in Names /\ players[n] = c
        /\ state[c] = STATE_IN_ROOM \/ InGame(state[c])
    BY <1>1, View, RegisteredPlayer DEF InGame, ServerInv, SeatTypeOK
  <1>3. \A x \in Clients : IF x \in Seats(g)
          THEN state'[x] = STATE_IN_LOBBY
          ELSE state'[x] = state[x] /\ game'[x] = game[x]
    BY DEF game_end
  <1>4. \A h \in Live \ {g} : player1'[h] = player1[h] /\ player2'[h] = player2[h]
    BY DEF game_end, FreeRoom, Live, ServerInv, SeatTypeOK
  <1>5. /\ \A m \in Names : players'[m] = players[m] \/ (m = n /\ players'[m] = NULL)
        /\ name' = name
    BY <1>1, Named DEF SessionOf
  <1>6. \A m \in Names : Rival(n) # NULL /\ m = Rival(n) => players[m] \in Seats(g) \ {c, NULL}
    <2>1. CASE InGame(state[c])
      <3> PICK o : o = Opponent(c)
        OBVIOUS
      <3>1. Rival(n) = name[o] /\ players[name[o]] = o /\ o \in Clients /\ o # c
        BY <1>1, <2>1, RivalView
      <3>2. o \in Seats(g)
        BY <1>1, <2>1, Opposite
      <3> QED
        BY <3>1, <3>2, NullAssumption
    <2>2. CASE ~InGame(state[c])
      BY <1>1, <2>2, View
    <2> QED
      BY <2>1, <2>2
  <1>7. \A m \in Names : players[m] \in Seats(g) \ {c, NULL} => Rival(n) # NULL /\ m = Rival(n)
    <2>1. CASE InGame(state[c])
      <3> PICK o : o = Opponent(c)
        OBVIOUS
      <3>1. Rival(n) = name[o] /\ Rival(n) # NULL
        BY <1>1, <2>1, RivalView
      <3>2. Seats(g) = {c, o}
        BY <1>1, <2>1, Opposite
      <3> QED
        BY <3>1, <3>2, Named
    <2>2. CASE state[c] = STATE_IN_ROOM
      BY <1>1, <2>2, Waiting
    <2> QED
      BY <1>2, <2>1, <2>2
  <1>8. ASSUME NEW m \in Names
        PROVE  IF m = n \/ (Rival(n) # NULL /\ m = Rival(n))
               THEN Phase(m)' = "lobby" /\ Rival(m)' = NULL
               ELSE Phase(m)' = Phase(m) /\ Rival(m)' = Rival(m)
    <2> PICK p : p = players[m]
      OBVIOUS
    <2>1. CASE m = n \/ (Rival(n) # NULL /\ m = Rival(n))
      <3>1. p \in Seats(g) \ {NULL}
        BY <1>1, <1>2, <1>6, <2>1
      <3>2. p \in Clients
        BY <3>1, SeatedOnce
      <3>3. state'[p] = STATE_IN_LOBBY
        BY <1>3, <3>1, <3>2
      <3>4. players'[m] = p \/ players'[m] = NULL
        BY <1>5
      <3>5. Phase(m)' = "lobby"
        BY <3>3, <3>4 DEF Phase, PhaseOf
      <3>6. Rival(m)' = NULL
        BY <3>3, <3>4 DEF Rival, InGame
      <3> QED
        BY <2>1, <3>5, <3>6
    <2>2. CASE ~(m = n \/ (Rival(n) # NULL /\ m = Rival(n)))
      <3>1. p # c /\ (p = NULL \/ p \notin Seats(g))
        BY <1>1, <1>7, <2>2, Named
      <3>2. players'[m] = p
        BY <1>5, <2>2
      <3>3. ASSUME p # NULL
            PROVE  /\ state'[p] = state[p] /\ game'[p] = game[p]
                   /\ \A h \in Live : p \in Seats(h) =>
                        player1'[h] = player1[h] /\ player2'[h] = player2[h]
        BY <1>3, <1>4, <3>1, <3>3, Named
      <3>4. Phase(m)' = Phase(m) /\ Rival(m)' = Rival(m)
        BY <1>5, <3>2, <3>3, SamePhase
      <3> QED
        BY <2>2, <3>4
    <2> QED
      BY <2>1, <2>2
  <1> QED
    BY <1>8 DEF BackToLobby

-----------------------------------------------------------------------------
(* Connections *)

LEMMA StayInLobby ==
  ASSUME NEW n \in Names, Phase(n) = "lobby", Rival(n) = NULL, SamePhases
  PROVE  BackToLobby(n)
  BY DEF SamePhases, BackToLobby

\* Nobody sees a socket go that never logged in; otherwise its name loses the
\* connection.
LEMMA DisconnectRefines ==
  ASSUME ServerInv, NEW f \in open, NEW k \in Int, server_disconnect(f, k)
  PROVE  Sessions!LobbyNext \/ UNCHANGED Sessions!lobbyVars
  <1> PICK c, n : c = clients[f] /\ n = name[c]
    OBVIOUS
  <1>1. /\ c \in Clients /\ SessionOf(c) /\ SeatOnDisconnect(c)
        /\ UNCHANGED <<name, players>>
        /\ \A x \in Clients : connected'[x] = (connected[x] /\ x # c)
    <2>1. SeatOnDisconnect(c) /\ UNCHANGED <<name, players>>
      BY DEF server_disconnect
    <2> QED
      BY <2>1, DisconnectSessionOf
  <1>2. CASE state[c] = STATE_UNLOGGED
    <2>1. ~Registered(c)
      BY <1>2 DEF ServerInv, PlacesOK, SocketOK
    <2>2. SameSessions
      <3> SUFFICES ASSUME NEW m \in Names PROVE Session(m)' = Session(m)
        BY DEF SameSessions
      <3>1. players[m] # NULL => players[m] \in Clients \ {c}
        BY <2>1, Named
      <3> QED
        BY <1>1, <3>1 DEF Session
    <2>3. SamePhases
      <3>1. UNCHANGED <<state, game, roomVars>>
        BY <1>1, <1>2 DEF SeatOnDisconnect, InGame
      <3> QED
        BY <1>1, <3>1, SamePhasesOf DEF roomVars
    <2> QED
      BY <2>2, <2>3, StutterMaps
  <1>3. CASE state[c] # STATE_UNLOGGED
    <2>1. Registered(c) /\ connected[c]
      BY <1>3, LoggedIn
    <2>2. n \in Names /\ players[n] = c /\ c # NULL /\ Session(n) = "online"
      BY <1>1, <2>1, View
    <2>3. SetSession(n, "away")
      <3> SUFFICES ASSUME NEW m \in Names
                   PROVE  Session(m)' = IF m = n THEN "away" ELSE Session(m)
        BY DEF SetSession
      <3>1. players[m] # NULL => players[m] \in Clients /\ (players[m] = c => m = n)
        BY <1>1, Named
      <3> QED
        BY <1>1, <2>2, <3>1 DEF Session
    <2>4. CASE state[c] = STATE_IN_ROOM
      <3>1. VacateSeat(c)
        BY <1>1, <2>4 DEF SeatOnDisconnect
      <3>2. game[c] \in Live /\ c \in Seats(game[c]) /\ game_end(game[c])
        BY <1>1, <2>1, <2>4, <3>1, Waiting, VacateEnds
      <3>3. BackToLobby(n) /\ Rival(n) = NULL
        BY <1>1, <2>1, <2>4, <3>2, EndView, View DEF InGame
      <3> QED
        BY <2>2, <2>3, <3>3, LoseMaps
    <2>5. CASE InGame(state[c])
      <3> PICK o : o = Opponent(c)
        OBVIOUS
      <3>1. /\ Rival(n) = name[o] /\ name[o] \in Names /\ players[name[o]] = o
            /\ o \in Clients /\ Registered(o)
        BY <1>1, <2>1, <2>5, RivalView
      <3>2. (Session(Rival(n)) = "online") = connected[o] /\ Rival(n) # NULL /\ o # NULL
        BY <3>1, NullAssumption DEF Session, ServerInv, SessionInv, SessionTypeOK
      <3>3. CASE connected[o]
        <4>1. UNCHANGED <<state, game, roomVars, told>>
          BY <1>1, <2>5, <3>2, <3>3 DEF SeatOnDisconnect, InGame
        <4>2. SamePhases
          BY <1>1, <4>1, SamePhasesOf DEF roomVars
        <4> QED
          BY <2>2, <2>3, <3>1, <3>2, <3>3, <4>2, LoseMaps
      <3>4. CASE ~connected[o]
        <4>1. game[c] \in Live /\ c \in Seats(game[c])
          BY <1>1, <2>1, <2>5, Opposite
        <4>2. game_end(game[c])
          BY <1>1, <2>5, <3>4 DEF SeatOnDisconnect, InGame
        <4>3. BackToLobby(n)
          BY <1>1, <4>1, <4>2, EndView
        <4> QED
          BY <2>2, <2>3, <3>1, <3>2, <3>4, <4>3, LoseMaps
      <3> QED
        BY <3>3, <3>4
    <2>6. CASE state[c] = STATE_IN_LOBBY
      <3>1. UNCHANGED <<state, game, roomVars>>
        BY <1>1, <2>6 DEF SeatOnDisconnect, InGame
      <3>2. SamePhases
        BY <1>1, <3>1, SamePhasesOf DEF roomVars
      <3>3. Phase(n) = "lobby" /\ Rival(n) = NULL
        BY <1>1, <2>1, <2>6, View DEF InGame, PhaseOf
      <3>4. BackToLobby(n)
        BY <2>2, <3>2, <3>3, StayInLobby
      <3> QED
        BY <2>2, <2>3, <3>3, <3>4, LoseMaps
    <2> QED
      BY <1>1, <1>3, <2>4, <2>5, <2>6 DEF InGame, ServerInv, SeatTypeOK
  <1> QED
    BY <1>2, <1>3

\* A new connection has no name yet.
LEMMA NewConnectionRefines ==
  ASSUME ServerInv, NEW f \in Fds, server_new_connection(f)
  PROVE  UNCHANGED Sessions!lobbyVars
  <1>1. PICK c \in Clients \ Reachable :
          /\ name' = [name EXCEPT ![c] = NULL]
          /\ state' = [state EXCEPT ![c] = STATE_UNLOGGED]
          /\ game' = [game EXCEPT ![c] = NULL]
          /\ connected' = [connected EXCEPT ![c] = TRUE]
    BY DEF server_new_connection
  <1>2. UNCHANGED <<players, player1, player2>> /\ \A n \in Names : players[n] # c
    BY <1>1 DEF server_new_connection, roomVars, Reachable
  <1>3. \A x \in Clients \ {c} : /\ name'[x] = name[x] /\ state'[x] = state[x]
                                 /\ game'[x] = game[x] /\ connected'[x] = connected[x]
    BY <1>1
  <1>4. \A m \in Names : players[m] # NULL => players[m] \in Clients \ {c}
    BY <1>2, Named
  <1>5. SameSessions
    BY <1>2, <1>3, <1>4 DEF SameSessions, Session
  <1>6. \A x \in Clients : Registered(x) => name'[x] = name[x]
    BY <1>2, <1>3 DEF Registered
  <1>7. SamePhases
    <2> SUFFICES ASSUME NEW m \in Names
                 PROVE  Phase(m)' = Phase(m) /\ Rival(m)' = Rival(m)
      BY DEF SamePhases
    <2> QED
      BY <1>2, <1>3, <1>4, <1>6, SamePhase
  <1> QED
    BY <1>5, <1>7, StutterMaps

\* A first login enters the lobby.
LEMMA FirstLoginRefines ==
  ASSUME ServerInv, NEW f \in open, NEW n \in Names, NEW c, c = clients[f],
         state[c] = STATE_UNLOGGED, players[n] = NULL, LoginOk(c, n),
         UNCHANGED <<socketVars, playerNum, game, connected, roomVars>>
  PROVE  Sessions!LobbyNext
  <1>1. c \in Clients /\ c # NULL /\ connected[c] /\ ~Registered(c)
    BY OwnerType, NullAssumption
    DEF ServerInv, SessionInv, SocketsConsistent, PlacesOK, SocketOK
  <1>2. players'[n] = c /\ state'[c] = STATE_IN_LOBBY
    BY <1>1 DEF LoginOk, SetName, ServerInv, SessionInv, SessionTypeOK, SeatTypeOK
  <1>3. \A x \in Clients \ {c} : name'[x] = name[x] /\ state'[x] = state[x]
    BY DEF LoginOk, SetName, ServerInv, SessionInv, SessionTypeOK, SeatTypeOK
  <1>4. \A m \in Names \ {n} : players'[m] = players[m] /\ players[m] # c
    BY <1>1 DEF LoginOk, Registered
  <1>5. \A m \in Names : players[m] # NULL => players[m] \in Clients \ {c}
    BY <1>1, Named
  <1>6. \A x \in Clients : Registered(x) => name'[x] = name[x]
    BY <1>1, <1>3
  <1>7. Session(n) # "online" /\ SetSession(n, "online")
    <2>1. \A m \in Names : Session(m)' = IF m = n THEN "online" ELSE Session(m)
      BY <1>1, <1>2, <1>4 DEF Session
    <2> QED
      BY <2>1 DEF SetSession, Session
  <1>8. SamePhases
    <2> SUFFICES ASSUME NEW m \in Names
                 PROVE  Phase(m)' = Phase(m) /\ Rival(m)' = Rival(m)
      BY DEF SamePhases
    <2>1. CASE m = n
      BY <1>2, <2>1 DEF Phase, Rival, PhaseOf, InGame
    <2>2. CASE m # n
      BY <1>3, <1>4, <1>5, <1>6, <2>2, SamePhase DEF roomVars
    <2> QED
      BY <2>1, <2>2
  <1> QED
    BY <1>7, <1>8, EnterMaps

\* A login under a name whose connection was lost takes its session up where it
\* was.
LEMMA ResumeRefines ==
  ASSUME ServerInv, NEW f \in open, NEW n \in Names, NEW c, c = clients[f],
         state[c] = STATE_UNLOGGED, NEW l, l = players[n], l # NULL, ~connected[l],
         connected' = [connected EXCEPT ![l] = TRUE, ![c] = FALSE],
         LoginOk(l, n),
         UNCHANGED <<open, hungup, playerNum, game, roomVars>>
  PROVE  Sessions!LobbyNext
  <1>1. /\ c \in Clients /\ ~Registered(c)
        /\ l \in Clients /\ l # c /\ Registered(l) /\ name[l] = n
        /\ state[l] # STATE_UNLOGGED
    BY OwnerType, Named, RegisteredPlayer DEF ServerInv, PlacesOK, SocketOK
  <1>2. UNCHANGED <<name, state, players>>
    BY <1>1
    DEF LoginOk, SetName, ServerInv, SessionInv, SessionTypeOK, SeatTypeOK
  <1>3. connected'[l] /\ \A x \in Clients \ {c, l} : connected'[x] = connected[x]
    BY <1>1 DEF ServerInv, SessionInv, SessionTypeOK
  <1>4. \A m \in Names \ {n} : players[m] # NULL => players[m] \in Clients \ {c, l}
    BY <1>1, Named
  <1>5. Session(n) # "online" /\ SetSession(n, "online")
    <2>1. \A m \in Names : Session(m)' = IF m = n THEN "online" ELSE Session(m)
      BY <1>2, <1>3, <1>4 DEF Session
    <2> QED
      BY <2>1 DEF SetSession, Session
  <1>6. SamePhases
    BY <1>2, SamePhasesOf DEF roomVars
  <1> QED
    BY <1>5, <1>6, EnterMaps

LEMMA LoginRefines ==
  ASSUME ServerInv, ~Relogin, NEW f \in Fds,
         NEW n \in Names \cup {BadName, NoName}, cmd_login(f, n)
  PROVE  Sessions!LobbyNext \/ UNCHANGED Sessions!lobbyVars
  <1> PICK c, l : c = clients[f] /\ l = players[n]
    OBVIOUS
  <1>1. f \in open /\ state[c] = STATE_UNLOGGED
    BY DEF cmd_login
  <1>2. CASE LoginError(f, 0) \/ LoginError(f, 1)
    BY <1>1, <1>2, DisconnectRefines DEF LoginError
  <1>3. CASE ~(LoginError(f, 0) \/ LoginError(f, 1))
    <2>1. n \in Names
      BY <1>3 DEF cmd_login
    <2>2. CASE l = NULL
      <3>1. /\ LoginOk(c, n)
            /\ UNCHANGED <<socketVars, playerNum, game, connected, roomVars>>
        BY <1>3, <2>2 DEF cmd_login
      <3> QED
        BY <1>1, <2>1, <2>2, <3>1, FirstLoginRefines
    <2>3. CASE l # NULL
      <3>1. /\ connected' = [connected EXCEPT ![l] = TRUE, ![c] = FALSE]
            /\ LoginOk(l, n)
            /\ UNCHANGED <<open, hungup, playerNum, game, roomVars>>
            /\ ~connected[l]
        BY <1>3, <2>3 DEF cmd_login
      <3> QED
        BY <1>1, <2>1, <2>3, <3>1, ResumeRefines
    <2> QED
      BY <2>2, <2>3
  <1> QED
    BY <1>2, <1>3

\* logout_req ends the session, and the game or the room with it.
LEMMA LogoutRefines ==
  ASSUME ServerInv, NEW f \in Fds, cmd_logout(f)
  PROVE  Sessions!LobbyNext \/ UNCHANGED Sessions!lobbyVars
  <1> PICK c, n : c = clients[f] /\ n = name[c]
    OBVIOUS
  <1>1. /\ f \in open /\ c \in Clients /\ SessionOf(c)
        /\ UNCHANGED <<name, connected>>
    BY LogoutSessionOf DEF cmd_logout
  <1>2. CASE state[c] = STATE_UNLOGGED
    <2>1. UNCHANGED <<players, state, game, roomVars>>
      BY <1>2 DEF cmd_logout, RemoveName, InGame
    <2> QED
      BY <1>1, <2>1, SamePhasesOf, SameSessionsOf, StutterMaps DEF roomVars
  <1>3. CASE state[c] # STATE_UNLOGGED
    <2>1. Registered(c) /\ connected[c]
      BY <1>1, <1>3, LoggedIn
    <2>2. n \in Names /\ players[n] = c /\ c # NULL /\ Session(n) = "online"
      BY <1>1, <2>1, View
    <2>3. \A m \in Names : players'[m] = IF m = n THEN NULL ELSE players[m]
      BY <1>3, <2>2 DEF cmd_logout, RemoveName, ServerInv, SessionInv, SessionTypeOK
    <2>4. SetSession(n, "none")
      BY <1>1, <2>3 DEF SetSession, Session
    <2>5. BackToLobby(n)
      <3>1. CASE InGame(state[c])
        <4>1. game_end(game[c])
          BY <3>1 DEF cmd_logout, InGame
        <4>2. game[c] \in Live /\ c \in Seats(game[c])
          BY <1>1, <2>1, <3>1, Opposite
        <4> QED
          BY <1>1, <4>1, <4>2, EndView
      <3>2. CASE ~InGame(state[c])
        <4>1. \A x \in Clients \ {c} : game'[x] = game[x]
          BY <3>2 DEF cmd_logout, ServerInv, SeatTypeOK
        <4>2. state' = state
          BY <3>2 DEF cmd_logout
        <4>3. \A g \in Live : c \notin Seats(g) =>
                player1'[g] = player1[g] /\ player2'[g] = player2[g]
          <5>1. CASE state[c] = STATE_IN_ROOM
            <6>1. Seats(game[c]) = {c, NULL}
              BY <1>1, <2>1, <5>1, Waiting
            <6>2. FreeRoom(game[c])
              BY <3>2, <5>1, <6>1 DEF cmd_logout
            <6> QED
              BY <6>1, <6>2 DEF FreeRoom, Live, ServerInv, SeatTypeOK
          <5>2. CASE state[c] # STATE_IN_ROOM
            BY <3>2, <5>2 DEF cmd_logout, roomVars
          <5> QED
            BY <5>1, <5>2
        <4>4. \A m \in Names \ {n} : players[m] # NULL => players[m] \in Clients \ {c}
          BY <1>1, Named
        <4>5. \A g \in Live : c \in Seats(g) => \A x \in Clients \ {c} : x \notin Seats(g)
          <5> SUFFICES ASSUME NEW g \in Live, c \in Seats(g)
                       PROVE  \A x \in Clients \ {c} : x \notin Seats(g)
            OBVIOUS
          <5>1. game[c] = g /\ g # NULL
            BY <2>2, SeatedOnce, NullAssumption DEF Live
          <5>2. state[c] = STATE_IN_ROOM
            BY <1>1, <1>3, <2>1, <3>2, <5>1, RegisteredPlayer
            DEF InGame, ServerInv, SeatTypeOK
          <5> QED
            BY <1>1, <2>1, <5>1, <5>2, Waiting, NullAssumption
        <4>6. ASSUME NEW m \in Names, m # n
              PROVE  Phase(m)' = Phase(m) /\ Rival(m)' = Rival(m)
          <5> PICK p : p = players[m]
            OBVIOUS
          <5>1. p # NULL => /\ state'[p] = state[p] /\ game'[p] = game[p]
                            /\ \A g \in Live : p \in Seats(g) =>
                                 player1'[g] = player1[g] /\ player2'[g] = player2[g]
            BY <4>1, <4>2, <4>3, <4>4, <4>5, <4>6
          <5> QED
            BY <1>1, <2>3, <4>6, <5>1, SamePhase
        <4>7. Phase(n)' = "lobby" /\ Rival(n)' = NULL
          BY <2>2, <2>3 DEF Phase, Rival
        <4>8. Rival(n) = NULL
          BY <1>1, <2>1, <3>2, View
        <4> QED
          BY <4>6, <4>7, <4>8 DEF BackToLobby
      <3> QED
        BY <3>1, <3>2
    <2> QED
      BY <2>2, <2>4, <2>5, LogoutMaps
  <1> QED
    BY <1>2, <1>3

-----------------------------------------------------------------------------
(* Rooms and games *)

LEMMA RoomCreateRefines ==
  ASSUME ServerInv, NEW f \in Fds, cmd_room_create(f)
  PROVE  Sessions!LobbyNext \/ UNCHANGED Sessions!lobbyVars
  <1> PICK c, n : c = clients[f] /\ n = name[c]
    OBVIOUS
  <1>1. f \in open /\ c \in Clients
    BY OwnerType DEF cmd_room_create, ServerInv
  <1>2. CASE Reply(c)
    BY <1>2, SamePhasesOf, SameSessionsOf, StutterMaps DEF Reply, roomVars
  <1>3. CASE ~Reply(c)
    <2>1. state[c] = STATE_IN_LOBBY
      BY <1>3 DEF cmd_room_create
    <2>2. PICK g \in Games \ Live, first \in BOOLEAN :
            /\ player1' = [player1 EXCEPT ![g] = IF first THEN c ELSE NULL]
            /\ player2' = [player2 EXCEPT ![g] = IF first THEN NULL ELSE c]
            /\ game' = [game EXCEPT ![c] = g]
            /\ state' = [state EXCEPT ![c] = STATE_IN_ROOM]
            /\ UNCHANGED <<name, connected, players>>
      BY <1>3 DEF cmd_room_create
    <2>3. Registered(c) /\ connected[c]
      BY <1>1, <2>1, LoggedIn
    <2>4. /\ n \in Names /\ players[n] = c /\ c # NULL
          /\ Session(n) = "online" /\ Phase(n) = "lobby" /\ Rival(n) = NULL
      BY <1>1, <2>1, <2>3, View DEF PhaseOf, InGame
    <2>5. /\ state'[c] = STATE_IN_ROOM
          /\ \A x \in Clients \ {c} : state'[x] = state[x] /\ game'[x] = game[x]
          /\ \A h \in Live : player1'[h] = player1[h] /\ player2'[h] = player2[h]
      BY <1>1, <2>2 DEF ServerInv, SeatTypeOK, Live
    <2>6. \A m \in Names \ {n} : players[m] # NULL => players[m] \in Clients \ {c}
      BY <1>1, Named
    <2>7. ASSUME NEW m \in Names \ {n}
          PROVE  Phase(m)' = Phase(m) /\ Rival(m)' = Rival(m)
      BY <2>2, <2>5, <2>6, SamePhase
    <2>8. Phase(n)' = "room" /\ Rival(n)' = NULL
      BY <2>2, <2>4, <2>5 DEF Phase, Rival, PhaseOf, InGame
    <2>9. SameSessions
      BY <2>2, SameSessionsOf
    <2> QED
      BY <2>4, <2>7, <2>8, <2>9, OpenRoomMaps
  <1> QED
    BY <1>2, <1>3

\* Whatever room a stale id leads to, joining it starts a game with a player who
\* is there.
LEMMA RoomJoinRefines ==
  ASSUME ServerInv, NEW f \in Fds, NEW i \in RoomIds, cmd_room_join(f, i)
  PROVE  Sessions!LobbyNext \/ UNCHANGED Sessions!lobbyVars
  <1> PICK c, g : c = clients[f] /\ g = rooms[i]
    OBVIOUS
  <1> PICK opp : opp = IF player1[g] = NULL THEN player2[g] ELSE player1[g]
    OBVIOUS
  <1> PICK n, m : n = name[c] /\ m = name[opp]
    OBVIOUS
  <1>1. f \in open /\ c \in Clients /\ NULL \notin Clients
    BY OwnerType, NullAssumption DEF cmd_room_join, ServerInv
  <1>2. CASE Reply(c)
    BY <1>2, SamePhasesOf, SameSessionsOf, StutterMaps DEF Reply, roomVars
  <1>3. CASE ~Reply(c)
    <2>1. /\ state[c] = STATE_IN_LOBBY /\ g # NULL
          /\ roomState[g] = GAME_STATE_LOBBY
      BY <1>3 DEF cmd_room_join
    <2>2. g \in Live
      BY <2>1 DEF ServerInv, SeatTypeOK, Live
    <2>3. /\ g \in Games /\ opp \in Clients /\ Registered(opp) /\ game[opp] = g
          /\ state[opp] = STATE_IN_ROOM /\ connected[opp]
          /\ Seats(g) = {opp, NULL} /\ player1[g] # player2[g]
      BY <2>1, <2>2, JoinStarts
    <2>4. Registered(c) /\ connected[c] /\ c # opp
      BY <1>1, <2>1, <2>3, LoggedIn
    <2>5. /\ IF player1[g] = NULL
             THEN player1' = [player1 EXCEPT ![g] = c] /\ UNCHANGED player2
             ELSE player2' = [player2 EXCEPT ![g] = c] /\ UNCHANGED player1
          /\ game' = [game EXCEPT ![c] = g]
          /\ state' = [state EXCEPT ![c] = STATE_IN_GAME_PREPARING,
                                    ![opp] = STATE_IN_GAME_PREPARING]
          /\ UNCHANGED <<name, connected, players>>
      BY <1>3, <2>3 DEF cmd_room_join
    <2>6. \/ player1'[g] = c /\ player2'[g] = opp
          \/ player1'[g] = opp /\ player2'[g] = c
      <3>1. CASE player1[g] = NULL
        BY <2>3, <2>5, <3>1 DEF ServerInv, SeatTypeOK
      <3>2. CASE player1[g] # NULL
        BY <2>3, <2>5, <3>2 DEF Seats, ServerInv, SeatTypeOK
      <3> QED
        BY <3>1, <3>2
    <2>7. \A h \in Live \ {g} : player1'[h] = player1[h] /\ player2'[h] = player2[h]
      BY <2>5 DEF ServerInv, SeatTypeOK, Live
    <2>8. /\ \A x \in {c, opp} : state'[x] = STATE_IN_GAME_PREPARING /\ game'[x] = g
          /\ \A x \in Clients \ {c, opp} : state'[x] = state[x] /\ game'[x] = game[x]
      <3>1. state \in [Clients -> 0 .. 5] /\ game \in [Clients -> Games \cup {NULL}]
        BY DEF ServerInv, SeatTypeOK
      <3>2. \A x \in {c, opp} : state'[x] = STATE_IN_GAME_PREPARING
        BY <1>1, <2>3, <2>5, <3>1
      <3>3. \A x \in {c, opp} : game'[x] = g
        BY <1>1, <2>3, <2>5, <3>1
      <3>4. \A x \in Clients \ {c, opp} : state'[x] = state[x] /\ game'[x] = game[x]
        BY <1>1, <2>3, <2>5, <3>1
      <3> QED
        BY <3>2, <3>3, <3>4
    <2>9. /\ n \in Names /\ players[n] = c /\ Session(n) = "online"
          /\ Phase(n) = "lobby"
      BY <1>1, <2>1, <2>4, View DEF PhaseOf
    <2>10. /\ m \in Names /\ players[m] = opp /\ Session(m) = "online"
           /\ Phase(m) = "room"
      BY <2>3, View DEF PhaseOf
    <2>11. m # n
      BY <2>4, <2>9, <2>10
    <2>12. /\ Phase(n)' = "preparing" /\ Rival(n)' = m
           /\ Phase(m)' = "preparing" /\ Rival(m)' = n
      <3>1. /\ players'[n] = c /\ players'[m] = opp /\ c # NULL /\ opp # NULL
            /\ name'[c] = n /\ name'[opp] = m
        BY <1>1, <2>3, <2>5, <2>9, <2>10
      <3>2. Phase(n)' = "preparing" /\ Phase(m)' = "preparing"
        BY <2>8, <3>1 DEF Phase, PhaseOf
      <3>3. Rival(n)' = m
        BY <2>4, <2>6, <2>8, <3>1 DEF Rival, InGame, Opponent
      <3>4. Rival(m)' = n
        <4>1. game'[opp] = g /\ state'[opp] = STATE_IN_GAME_PREPARING
          BY <2>8
        <4>2. CASE player1'[g] = c /\ player2'[g] = opp
          BY <2>4, <3>1, <4>1, <4>2 DEF Rival, InGame, Opponent
        <4>3. CASE player1'[g] = opp /\ player2'[g] = c
          BY <2>4, <3>1, <4>1, <4>3 DEF Rival, InGame, Opponent
        <4> QED
          BY <2>6, <4>2, <4>3
      <3> QED
        BY <3>2, <3>3, <3>4
    <2>13. \A k \in Names \ {n, m} : players[k] # NULL =>
             /\ players[k] \in Clients \ {c, opp}
             /\ players[k] \notin Seats(g)
      BY <1>1, <2>3, Named
    <2>14. ASSUME NEW k \in Names \ {n, m}
           PROVE  Phase(k)' = Phase(k) /\ Rival(k)' = Rival(k)
      <3> PICK p : p = players[k]
        OBVIOUS
      <3>1. p # NULL => /\ state'[p] = state[p] /\ game'[p] = game[p]
                        /\ \A h \in Live : p \in Seats(h) =>
                             player1'[h] = player1[h] /\ player2'[h] = player2[h]
        BY <2>7, <2>8, <2>13
      <3> QED
        BY ZenonT(60), <2>5, <3>1, SamePhase
    <2>15. SameSessions
      BY <2>5, SameSessionsOf
    <2> QED
      BY SMTT(30), <2>9, <2>10, <2>11, <2>12, <2>14, <2>15, JoinMaps
  <1> QED
    BY <1>2, <1>3

LEMMA RoomLeaveRefines ==
  ASSUME ServerInv, NEW f \in Fds, cmd_room_leave(f)
  PROVE  Sessions!LobbyNext \/ UNCHANGED Sessions!lobbyVars
  <1> PICK c, n : c = clients[f] /\ n = name[c]
    OBVIOUS
  <1>1. f \in open /\ c \in Clients
    BY OwnerType DEF cmd_room_leave, ServerInv
  <1>2. CASE InGame(state[c]) \/ state[c] = STATE_IN_ROOM
    <2>1. /\ IF InGame(state[c]) THEN game_end(game[c]) ELSE VacateSeat(c)
          /\ UNCHANGED <<socketVars, fd, name, playerNum, connected, players>>
      BY <1>2 DEF cmd_room_leave
    <2>2. Registered(c) /\ connected[c]
      BY <1>1, <1>2, LoggedIn DEF InGame
    <2>3. game[c] \in Live /\ c \in Seats(game[c]) /\ game_end(game[c])
      BY <1>1, <1>2, <2>1, <2>2, Opposite, Waiting, VacateEnds
    <2>4. n \in Names /\ Session(n) = "online" /\ Phase(n) # "lobby"
      BY <1>1, <1>2, <2>2, View DEF PhaseOf, InGame
    <2>5. BackToLobby(n) /\ SameSessions
      BY <1>1, <2>1, <2>3, SameSession, EndView, SameSessionsOf
    <2> QED
      BY <2>4, <2>5, LeaveMaps
  <1>3. CASE ~(InGame(state[c]) \/ state[c] = STATE_IN_ROOM)
    BY <1>3, SamePhasesOf, SameSessionsOf, StutterMaps
    DEF cmd_room_leave, Reply, roomVars
  <1> QED
    BY <1>2, <1>3

\* The states of the players of one game change, and nothing else that is seen.
LEMMA PairView ==
  ASSUME ServerInv, NEW c \in Clients, NEW o, o = Opponent(c),
         NEW n, n = name[c], NEW r, r = name[o],
         UNCHANGED <<players, game, name, player1, player2>>,
         \A x \in Clients \ {c, o} : state'[x] = state[x],
         Registered(c), InGame(state[c]), InGame(state'[c]), InGame(state'[o])
  PROVE  /\ \A m \in Names : Rival(m)' = Rival(m)
         /\ \A m \in Names \ {n, r} : Phase(m)' = Phase(m)
         /\ Phase(n)' = PhaseOf(state'[c])
         /\ Phase(r)' = PhaseOf(state'[o])
  <1>1. /\ o \in Clients /\ Registered(o) /\ InGame(state[o])
        /\ r \in Names /\ players[r] = o
        /\ n \in Names /\ players[n] = c
        /\ c # NULL /\ o # NULL
    BY RivalView, View, NullAssumption
  <1>2. \A m \in Names : players[m] # NULL =>
          players[m] \in Clients /\ name[players[m]] = m
    BY Named
  <1>3. \A m \in Names \ {n, r} : Phase(m)' = Phase(m)
    BY <1>2 DEF Phase
  <1>4. /\ Phase(n)' = PhaseOf(state'[c])
        /\ Phase(r)' = PhaseOf(state'[o])
    BY <1>1 DEF Phase
  <1>5. ASSUME NEW m \in Names
        PROVE  Rival(m)' = Rival(m)
    <2> PICK p : p = players[m]
      OBVIOUS
    <2>1. p # NULL => (InGame(state'[p]) <=> InGame(state[p]))
      BY <1>1, <1>2
    <2>2. p # NULL => Opponent(p)' = Opponent(p) /\ name' = name
      BY DEF Opponent
    <2> QED
      BY <2>1, <2>2 DEF Rival, Opponent
  <1> QED
    BY <1>3, <1>4, <1>5

LEMMA GamePreparedRefines ==
  ASSUME ServerInv, NEW f \in Fds, NEW accepted \in BOOLEAN,
         cmd_game_prepared(f, accepted)
  PROVE  Sessions!LobbyNext \/ UNCHANGED Sessions!lobbyVars
  <1> PICK c, g, o : c = clients[f] /\ g = game[c] /\ o = Opponent(c)
    OBVIOUS
  <1> PICK n, r : n = name[c] /\ r = name[o]
    OBVIOUS
  <1> PICK a, b : a = player1[g] /\ b = player2[g]
    OBVIOUS
  <1>1. f \in open /\ c \in Clients
    BY OwnerType DEF cmd_game_prepared, ServerInv
  <1>2. CASE Reply(c)
    BY <1>2, SamePhasesOf, SameSessionsOf, StutterMaps DEF Reply, roomVars
  <1>3. CASE ~Reply(c)
    <2>1. state[c] = STATE_IN_GAME_PREPARING
      BY <1>3 DEF cmd_game_prepared
    <2>2. /\ Registered(c) /\ connected[c] /\ InGame(state[c])
          /\ Seats(g) = {c, o} /\ o \in Clients /\ o # c /\ PairOK(a, b)
      BY <1>1, <2>1, LoggedIn, Opposite DEF InGame
    <2>3. (a = c /\ b = o) \/ (a = o /\ b = c)
      BY <2>2 DEF Seats
    <2> DEFINE ready == [state EXCEPT ![c] = STATE_IN_GAME]
    <2>4. /\ IF ready[a] = STATE_IN_GAME /\ ready[b] = STATE_IN_GAME
             THEN state' = [ready EXCEPT ![a] = STATE_IN_GAME_PLAYING]
             ELSE state' = ready
          /\ UNCHANGED <<name, game, connected, players, player1, player2>>
      BY <1>3 DEF cmd_game_prepared, roomVars
    <2>5. /\ ready[c] = STATE_IN_GAME
          /\ \A x \in Clients \ {c} : ready[x] = state[x]
          /\ ready \in [Clients -> 0 .. 5]
      BY <1>1 DEF ServerInv, SeatTypeOK
    <2> HIDE DEF ready
    <2>6. /\ n \in Names /\ Session(n) = "online" /\ Phase(n) = "preparing"
          /\ Rival(n) = r /\ r \in Names \ {n}
          /\ Phase(r) = PhaseOf(state[o])
      BY <1>1, <2>1, <2>2, View, RivalView DEF PhaseOf
    <2>7. SameSessions
      BY <2>4, SameSessionsOf
    <2>8. CASE state[o] = STATE_IN_GAME
      <3>1. ready[a] = STATE_IN_GAME /\ ready[b] = STATE_IN_GAME
        BY <2>2, <2>3, <2>5, <2>8
      <3>2. state' = [ready EXCEPT ![a] = STATE_IN_GAME_PLAYING]
        BY <2>4, <3>1
      <3>3. /\ state'[a] = STATE_IN_GAME_PLAYING /\ state'[b] = STATE_IN_GAME
            /\ \A x \in Clients \ {c, o} : state'[x] = state[x]
        BY <1>1, <2>2, <2>3, <2>5, <3>1, <3>2
      <3>4. /\ \A m \in Names : Rival(m)' = Rival(m)
            /\ \A m \in Names \ {n, r} : Phase(m)' = Phase(m)
            /\ Phase(n)' = PhaseOf(state'[c])
            /\ Phase(r)' = PhaseOf(state'[o])
        BY <1>1, <2>2, <2>3, <2>4, <3>3, PairView DEF InGame
      <3>5. \E first \in {n, Rival(n)} : \A m \in Names :
              Phase(m)' = IF m = first THEN "firing"
                          ELSE IF m = n THEN "waiting" ELSE Phase(m)
        <4>1. CASE a = c /\ b = o
          <5>1. Phase(n)' = "firing" /\ Phase(r)' = "waiting"
            BY <3>3, <3>4, <4>1 DEF PhaseOf
          <5> QED
            BY <2>6, <2>8, <3>4, <5>1 DEF PhaseOf
        <4>2. CASE a = o /\ b = c
          <5>1. Phase(n)' = "waiting" /\ Phase(r)' = "firing"
            BY <3>3, <3>4, <4>2 DEF PhaseOf
          <5> QED
            BY <2>6, <3>4, <5>1
        <4> QED
          BY <2>3, <4>1, <4>2
      <3>6. Phase(Rival(n)) = "waiting"
        BY <2>6, <2>8 DEF PhaseOf
      <3> QED
        BY <2>6, <2>7, <3>4, <3>5, <3>6, ReadyMaps
    <2>9. CASE state[o] # STATE_IN_GAME
      <3>1. state' = ready
        BY <2>2, <2>3, <2>4, <2>5, <2>9
      <3>2. /\ state'[c] = STATE_IN_GAME /\ state'[o] = state[o]
            /\ \A x \in Clients \ {c, o} : state'[x] = state[x]
        BY <1>1, <2>2, <2>5, <3>1
      <3>3. state[o] = STATE_IN_GAME_PREPARING
        BY <2>1, <2>2, <2>3, <2>9 DEF PairOK
      <3>4. /\ \A m \in Names : Rival(m)' = Rival(m)
            /\ \A m \in Names \ {n, r} : Phase(m)' = Phase(m)
            /\ Phase(n)' = PhaseOf(state'[c])
            /\ Phase(r)' = PhaseOf(state'[o])
        BY <1>1, <2>2, <2>4, <3>2, <3>3, PairView DEF InGame
      <3>5. /\ Phase(Rival(n)) = "preparing"
            /\ \A m \in Names : Phase(m)' = IF m = n THEN "waiting" ELSE Phase(m)
        BY <2>6, <3>2, <3>3, <3>4 DEF PhaseOf
      <3> QED
        BY <2>6, <2>7, <3>4, <3>5, ReadyMaps
    <2> QED
      BY <2>8, <2>9
  <1> QED
    BY <1>2, <1>3

LEMMA GameFireRefines ==
  ASSUME ServerInv, NEW f \in Fds, NEW outcome, cmd_game_fire(f, outcome)
  PROVE  Sessions!LobbyNext \/ UNCHANGED Sessions!lobbyVars
  <1> PICK c, g, o : c = clients[f] /\ g = game[c] /\ o = Opponent(c)
    OBVIOUS
  <1> PICK n, r : n = name[c] /\ r = name[o]
    OBVIOUS
  <1> PICK a, b : a = player1[g] /\ b = player2[g]
    OBVIOUS
  <1>1. f \in open /\ c \in Clients
    BY OwnerType DEF cmd_game_fire, ServerInv
  <1>2. CASE Reply(c)
    BY <1>2, SamePhasesOf, SameSessionsOf, StutterMaps DEF Reply, roomVars
  <1>3. CASE ~Reply(c)
    <2>1. /\ state[c] = STATE_IN_GAME_PLAYING
          /\ UNCHANGED <<socketVars, name, playerNum, connected, players>>
      BY <1>3 DEF cmd_game_fire
    <2>2. /\ Registered(c) /\ connected[c] /\ InGame(state[c])
          /\ g \in Live /\ Seats(g) = {c, o}
          /\ o \in Clients /\ o # c /\ PairOK(a, b)
      BY <1>1, <2>1, LoggedIn, Opposite DEF InGame
    <2>3. /\ n \in Names /\ Session(n) = "online" /\ Phase(n) = "firing"
          /\ Rival(n) = r /\ r \in Names \ {n}
      BY <1>1, <2>1, <2>2, View, RivalView DEF PhaseOf
    <2>4. SameSessions
      BY <2>1, SameSessionsOf
    <2>5. CASE outcome = "last_ship"
      <3>1. game_end(g)
        BY <1>3, <2>5 DEF cmd_game_fire
      <3>2. BackToLobby(n)
        BY <1>1, <2>1, <2>2, <3>1, SameSession, EndView
      <3> QED
        BY <2>3, <2>4, <3>2, LeaveMaps
    <2>6. CASE outcome # "last_ship"
      <3>1. (a = c /\ b = o) \/ (a = o /\ b = c)
        BY <2>2 DEF Seats
      <3>2. PassTurn(c, IF playerNum[c] = 1 THEN b ELSE a)
            /\ UNCHANGED <<game, roomVars, toldOpp>>
        BY <1>3, <2>6 DEF cmd_game_fire
      <3>3. (IF playerNum[c] = 1 THEN b ELSE a) = o
        BY <2>2, <3>1 DEF PairOK
      <3>4. state' = [state EXCEPT ![c] = STATE_IN_GAME, ![o] = STATE_IN_GAME_PLAYING]
        BY <3>2, <3>3 DEF PassTurn
      <3>5. /\ state'[c] = STATE_IN_GAME /\ state'[o] = STATE_IN_GAME_PLAYING
            /\ \A x \in Clients \ {c, o} : state'[x] = state[x]
        BY <1>1, <2>2, <3>4 DEF ServerInv, SeatTypeOK
      <3>6. /\ \A m \in Names : Rival(m)' = Rival(m)
            /\ \A m \in Names \ {n, r} : Phase(m)' = Phase(m)
            /\ Phase(n)' = PhaseOf(state'[c])
            /\ Phase(r)' = PhaseOf(state'[o])
        BY <1>1, <2>1, <2>2, <3>2, <3>5, PairView DEF InGame, roomVars
      <3>7. \A m \in Names : Phase(m)' = IF m = n THEN "waiting"
              ELSE IF m = Rival(n) THEN "firing" ELSE Phase(m)
        BY <2>3, <3>5, <3>6 DEF PhaseOf
      <3> QED
        BY <2>3, <2>4, <3>6, <3>7, FireMaps
    <2> QED
      BY <2>5, <2>6
  <1> QED
    BY <1>2, <1>3

LEMMA UnknownCommandRefines ==
  ASSUME ServerInv, NEW f \in Fds, UnknownCommand(f)
  PROVE  Sessions!LobbyNext \/ UNCHANGED Sessions!lobbyVars
  <1>1. f \in open
    BY DEF UnknownCommand
  <1>2. CASE server_disconnect(f, 0)
    BY <1>1, <1>2, DisconnectRefines
  <1>3. CASE ~server_disconnect(f, 0)
    BY <1>3, SamePhasesOf, SameSessionsOf, StutterMaps DEF UnknownCommand, roomVars
  <1> QED
    BY <1>2, <1>3

-----------------------------------------------------------------------------
(* Every step is one of the lobby, or is not seen *)

LEMMA StepRefines ==
  ASSUME ServerInv, ~Relogin, [Next]_vars
  PROVE  Sessions!LobbyNext \/ UNCHANGED Sessions!lobbyVars
  <1>1. CASE UNCHANGED vars
    BY <1>1, SamePhasesOf, SameSessionsOf, StutterMaps
    DEF vars, clientVars, roomVars
  <1>2. CASE Next
    <2> PICK f \in Fds :
          \/ server_new_connection(f)
          \/ Hangup(f)
          \/ ReadEof(f)
          \/ \E n \in Names \cup {BadName, NoName} : cmd_login(f, n)
          \/ cmd_room_create(f)
          \/ cmd_room_list(f)
          \/ \E i \in RoomIds : cmd_room_join(f, i)
          \/ cmd_room_leave(f)
          \/ cmd_logout(f)
          \/ \E accepted \in BOOLEAN : cmd_game_prepared(f, accepted)
          \/ \E outcome \in {"refused", "turn", "last_ship"} : cmd_game_fire(f, outcome)
          \/ cmd_game_info(f)
          \/ UnknownCommand(f)
      BY <1>2 DEF Next
    <2>1. CASE Hangup(f) \/ cmd_room_list(f) \/ cmd_game_info(f)
      BY <2>1, SamePhasesOf, SameSessionsOf, StutterMaps
      DEF Hangup, cmd_room_list, cmd_game_info, Reply, clientVars, roomVars
    <2>2. CASE ReadEof(f)
      <3>1. f \in open /\ server_disconnect(f, 0)
        BY <2>2 DEF ReadEof, ServerInv, SessionInv, SessionTypeOK
      <3> QED
        BY <3>1, DisconnectRefines
    <2> QED
      BY <2>1, <2>2, NewConnectionRefines, LoginRefines, RoomCreateRefines,
         RoomJoinRefines, RoomLeaveRefines, LogoutRefines, GamePreparedRefines,
         GameFireRefines, UnknownCommandRefines
  <1> QED
    BY <1>1, <1>2

\* The server implements the lobby: what people see of it are sessions that are
\* entered, lost, taken up again and left, and games that both players of them
\* change together, whatever sockets, structs, rooms and ids are behind it.
THEOREM LobbyImplemented ==
  ASSUME ~Relogin
  PROVE  Spec => ImplementsLobby
  <1>1. ServerInv /\ [Next]_vars => [Sessions!LobbyNext]_(Sessions!lobbyVars)
    BY StepRefines
  <1>2. Init => Sessions!LobbyInit
    BY InitMaps
  <1> QED
    BY <1>1, <1>2, ServerInvariant, PTL DEF Spec, ImplementsLobby, Sessions!LobbySpec
=============================================================================
