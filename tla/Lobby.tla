------------------------------- MODULE Lobby -------------------------------
(***************************************************************************)
(* What the server promises the people who use it, without sockets,        *)
(* structs, tables and rooms: who has a session, what each of them is      *)
(* doing, and with whom.  A lost connection leaves a session behind that   *)
(* can be taken up again; a game is lost only if both of its players are.  *)
(* Module ShipsServer implements it.                                       *)
(***************************************************************************)
CONSTANTS
  Name,
  None         \* nobody

VARIABLES
  session,     \* "none", "online", or "away" after a lost connection
  phase,       \* "lobby", "room", or in a game "preparing", "waiting", "firing"
  rival        \* the other player of the game

lobbyVars == <<session, phase, rival>>

Playing(n) == rival[n] # None

LobbyInit ==
  /\ session = [n \in Name |-> "none"]
  /\ phase = [n \in Name |-> "lobby"]
  /\ rival = [n \in Name |-> None]

\* n leaves what it is in, and its rival with it.
ToLobby(n) ==
  LET leaving == {n} \cup (IF Playing(n) THEN {rival[n]} ELSE {})
  IN /\ phase' = [m \in Name |-> IF m \in leaving THEN "lobby" ELSE phase[m]]
     /\ rival' = [m \in Name |-> IF m \in leaving THEN None ELSE rival[m]]

\* A new session begins in the lobby, one taken up again where it was.
Enter(n) ==
  /\ session[n] # "online"
  /\ session' = [session EXCEPT ![n] = "online"]
  /\ UNCHANGED <<phase, rival>>

Logout(n) ==
  /\ session[n] = "online"
  /\ session' = [session EXCEPT ![n] = "none"]
  /\ ToLobby(n)

\* Only a game whose other player is still there survives.
Lose(n) ==
  /\ session[n] = "online"
  /\ session' = [session EXCEPT ![n] = "away"]
  /\ IF Playing(n) /\ session[rival[n]] = "online"
     THEN UNCHANGED <<phase, rival>>
     ELSE ToLobby(n)

OpenRoom(n) ==
  /\ session[n] = "online" /\ phase[n] = "lobby"
  /\ phase' = [phase EXCEPT ![n] = "room"]
  /\ UNCHANGED <<session, rival>>

\* Who waits in a room is there when somebody joins.
Join(n, m) ==
  /\ session[n] = "online" /\ phase[n] = "lobby"
  /\ session[m] = "online" /\ phase[m] = "room"
  /\ phase' = [phase EXCEPT ![n] = "preparing", ![m] = "preparing"]
  /\ rival' = [rival EXCEPT ![n] = m, ![m] = n]
  /\ UNCHANGED session

\* Also the end of a game, whoever ends it and how.
Leave(n) ==
  /\ session[n] = "online" /\ phase[n] # "lobby"
  /\ ToLobby(n)
  /\ UNCHANGED session

\* When both are ready one of them is to fire.
Ready(n) ==
  /\ session[n] = "online" /\ phase[n] = "preparing"
  /\ IF phase[rival[n]] = "preparing"
     THEN phase' = [phase EXCEPT ![n] = "waiting"]
     ELSE \E first \in {n, rival[n]} :
            phase' = [phase EXCEPT ![n] = "waiting", ![first] = "firing"]
  /\ UNCHANGED <<session, rival>>

Fire(n) ==
  /\ session[n] = "online" /\ phase[n] = "firing"
  /\ phase' = [phase EXCEPT ![n] = "waiting", ![rival[n]] = "firing"]
  /\ UNCHANGED <<session, rival>>

LobbyNext ==
  \E n \in Name :
    \/ Enter(n)
    \/ Logout(n)
    \/ Lose(n)
    \/ OpenRoom(n)
    \/ \E m \in Name \ {n} : Join(n, m)
    \/ Leave(n)
    \/ Ready(n)
    \/ Fire(n)

LobbySpec == LobbyInit /\ [][LobbyNext]_lobbyVars
=============================================================================
