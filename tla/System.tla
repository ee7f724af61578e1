------------------------------- MODULE System -------------------------------
(***************************************************************************)
(* One game played by two Java clients: the server's Match, two TCP        *)
(* connections that may break, and for each client the thread that reads   *)
(* messages (Receiver, MessageHandler) and the window thread, which runs   *)
(* what the reader hands it by Platform.runLater and the user's clicks.    *)
(* It begins when the second player has joined; what follows a game in the *)
(* lobby is left out, and so are messages that only raise an alert or are  *)
(* logged (room_leave_opp, room_join_opp, ..._err of such requests).       *)
(***************************************************************************)
EXTENDS Match, GameModel

CONSTANTS
  Fleets,       \* layouts that players prepare (module Editor has how)
  Clicks,       \* squares of the enemy's board that players click
  MaxRequests,  \* bound: requests of a client on their way
  MaxLosses,    \* bound: connections lost and clients that die
  Prompt,       \* is the window thread done with what it has been handed before
                \* the reader's next message (20 ms later) and the next click?
  Patient       \* does a user wait for the answer to Ready, and after a resume
                \* for the boards, before the next Ready or click?

ASSUME SystemAssumption ==
  /\ Clicks \subseteq Cells /\ Fleets # {}
  /\ MaxRequests \in Nat \ {0} /\ MaxLosses \in Nat
  /\ Prompt \in BOOLEAN /\ Patient \in BOOLEAN

VARIABLES
  connected,    \* client->connected, at the server
  up,           \* the connection works
  toServer,     \* what the server will read of it, in the end Eof
  toClient,     \* what the client will read of it, in the end Eof
  client,       \* the state of the Java program
  losses

matchVars == vars     \* of Match
netVars   == <<connected, up, toServer, toClient>>
sysVars   == <<matchVars, netVars, client, losses>>

InGame(p) ==
  state[p] \in {STATE_IN_GAME_PREPARING, STATE_IN_GAME, STATE_IN_GAME_PLAYING}

Eof == [type |-> "eof"]
Msg(type) == [type |-> type]

\* The gameStatus that game_info_data sets.
Status(s) ==
  CASE s = STATE_IN_GAME_PREPARING -> "PREPARING"
    [] s = STATE_IN_GAME_PLAYING   -> "PLAYING"
    [] OTHER                       -> "WAITING"

-----------------------------------------------------------------------------
(* A client.  model says whether there is a GameModel (gameModel # null), of *)
(* which gameStatus, myBoard and enemyBoard matter; window holds the actions *)
(* that Platform.runLater has queued.                                        *)

Started ==
  [scene |-> "CONNECT", model |-> FALSE, gameStatus |-> "null",
   myBoard |-> Blank, enemyBoard |-> Blank, window |-> <<>>,
   reader |-> "stopped"]

Show(scene)   == [do |-> "setScene", scene |-> scene]
Resume        == [do |-> "resume"]
SetStatus(s)  == [do |-> "setGameStatus", status |-> s]
FiredAt      == [do |-> "setWaiting"]      \* the rest of the click's handler
LeaveResult  == [do |-> "leaveResult"]

\* What the window thread has still to do, with one more action.
Later(c, action) == [c EXCEPT !.window = Append(@, action)]

\* room_join_ok and room_create_ok have been read; game_conn is on its way.
SysInit ==
  /\ Init
  /\ connected = [p \in Player |-> TRUE]
  /\ up = [p \in Player |-> TRUE]
  /\ toServer = [p \in Player |-> <<>>]
  /\ toClient = [p \in Player |-> <<Msg("game_conn")>>]
  /\ client = [p \in Player |-> [Started EXCEPT !.scene = "ROOM",
                                                !.model = TRUE,
                                                !.reader = "running"]]
  /\ losses = 0

-----------------------------------------------------------------------------
(* The server: one request read and handled, out[q] is sent to q *)

\* send to a connection that is gone has no effect.
SendAll(out) ==
  toClient' = [q \in Player |-> IF connected'[q] /\ up[q] THEN toClient[q] \o out[q]
                                ELSE toClient[q]]

Only(p, messages) == [q \in Player |-> IF q = p THEN messages ELSE <<>>]

Request(p, type) ==
  /\ toServer[p] # <<>> /\ Head(toServer[p]).type = type
  /\ toServer' = [toServer EXCEPT ![p] = Tail(@)]
  /\ UNCHANGED <<up, client, losses>>

\* The message of game_end, to both.
GameEnd == [q \in Player |-> <<Msg("game_end")>>]

ServeLogin(p) ==
  /\ Request(p, "login_req")
  /\ connected' = [connected EXCEPT ![p] = TRUE]
  /\ SendAll(Only(p, <<[type |-> "login_ok", state |-> state[p]]>>))
  /\ UNCHANGED matchVars

ServePrepared(p) ==
  /\ Request(p, "game_prepared")
  /\ cmd_game_prepared(p, Head(toServer[p]).layout)
  /\ UNCHANGED connected
  /\ LET reply == IF error' = OK THEN <<Msg("game_prepared_ok")>>
                  ELSE <<Msg("game_prepared_err")>>
         play  == IF \E q \in Player : state'[q] = STATE_IN_GAME_PLAYING
                     /\ state[q] # STATE_IN_GAME_PLAYING
                  THEN <<Msg("game_play")>> ELSE <<>>
     IN SendAll([q \in Player |-> (IF q = p THEN reply ELSE <<>>) \o
                                  (IF q = 1 THEN play ELSE <<>>)])

ServeFire(p) ==
  LET sq     == Head(toServer[p]).sq
      shot   == [sq |-> sq, status |-> IF Target(p, sq) = Empty THEN Miss ELSE Hit,
                 destroyed |-> count'[p] # count[p]]
      Fired(q) == [type |-> IF q = p THEN "game_fire_ok" ELSE "game_opp_fire",
                   shot |-> shot]
      end    == IF winner' # winner THEN <<Msg("game_end")>> ELSE <<>>
  IN /\ Request(p, "game_fire_req")
     /\ cmd_game_fire(p, sq[1], sq[2])
     /\ UNCHANGED connected
     /\ SendAll(IF error' = OK THEN [q \in Player |-> <<Fired(q)>> \o end]
                ELSE Only(p, <<Msg("game_fire_err")>>))

\* The squares with the opponent's ships are sent as empty ones.
Masked(b) == [c \in Cells |-> IF isdigit(b[c]) THEN Empty ELSE b[c]]

ServeInfo(p) ==
  /\ Request(p, "game_info_req")
  /\ UNCHANGED <<matchVars, connected>>
  /\ SendAll(IF InGame(p)
             THEN Only(p, <<[type |-> "game_info_data", state |-> state[p],
                             my |-> getMyBoardStringForm(board[p]),
                             enemy |-> getMyBoardStringForm(
                                         Masked(board[Opponent(p)]))]>>)
             ELSE Only(p, <<>>))

ServeLeave(p) ==
  /\ Request(p, "room_leave_req")
  /\ UNCHANGED connected
  /\ IF InGame(p) THEN Leave(p) /\ SendAll(GameEnd)
     ELSE SendAll(Only(p, <<>>)) /\ UNCHANGED matchVars

\* The game ends with the connection of the second player; nobody is there to be
\* told.  A socket that did not log in has no game.
server_disconnect(p) ==
  /\ connected' = [connected EXCEPT ![p] = FALSE]
  /\ IF connected[p] /\ InGame(p) /\ ~connected[Opponent(p)]
     THEN BothLost
     ELSE UNCHANGED matchVars
  /\ UNCHANGED toClient

ServeEof(p) == Request(p, "eof") /\ server_disconnect(p)

Serve(p) ==
  \/ ServeLogin(p)
  \/ ServePrepared(p)
  \/ ServeFire(p)
  \/ ServeInfo(p)
  \/ ServeLeave(p)
  \/ ServeEof(p)

-----------------------------------------------------------------------------
(* The reader: MessageHandler.processMessage, one message *)

Becomes(p, c) == client' = [client EXCEPT ![p] = c]

\* The next message is of this type.  (Messages to a client are handled by one
\* thread, in the order in which they were sent.)
Take(p, type) ==
  /\ client[p].reader = "running"
  /\ Prompt => client[p].window = <<>>
  /\ toClient[p] # <<>> /\ Head(toClient[p]).type = type
  /\ toClient' = [toClient EXCEPT ![p] = Tail(@)]
  /\ UNCHANGED <<matchVars, connected, up, toServer, losses>>

\* A null model or a controller of another scene is a RuntimeException, which
\* Receiver.run does not catch: the thread ends.
OrDies(p, works, c) ==
  Becomes(p, IF works THEN c ELSE [client[p] EXCEPT !.reader = "dead"])

\* Mutant: whoever logs in goes to the lobby.
LoginToLobby(p) ==
  /\ Take(p, "login_ok")
  /\ Becomes(p, Later(client[p], Show("LOBBY")))

\* The scene that login_ok leads to, or a game to resume.
ReadLoginOk(p) ==
  /\ Take(p, "login_ok")
  /\ LET s == Head(toClient[p]).state
     IN IF client[p].scene # "CONNECT" THEN UNCHANGED client
        ELSE Becomes(p, Later(client[p], IF s = STATE_IN_LOBBY THEN Show("LOBBY")
                                         ELSE Resume))

\* Mutant: the status is set, and the boards are not.
ReadStatusOnly(p) ==
  /\ Take(p, "game_info_data")
  /\ OrDies(p, client[p].model,
            Later(client[p], SetStatus(Status(Head(toClient[p]).state))))

\* The boards are replaced at once, the status by the window thread.
ReadInfo(p) ==
  LET m == Head(toClient[p])
  IN /\ Take(p, "game_info_data")
     /\ OrDies(p, client[p].model,
               Later([client[p] EXCEPT !.myBoard = convertStringToBoard(m.my),
                                       !.enemyBoard = convertStringToBoard(m.enemy)],
                     SetStatus(Status(m.state))))

\* A new game, with a fleet placed at random.
ReadConn(p) ==
  /\ Take(p, "game_conn")
  /\ IF client[p].scene \notin {"LOBBY", "ROOM"} THEN UNCHANGED client
     ELSE \E fleet \in Fleets :
            Becomes(p, Later([client[p] EXCEPT
                                !.myBoard = convertStringToBoard(fleet),
                                !.enemyBoard = Blank,
                                !.gameStatus = "PREPARING"], Show("GAME")))

ReadPreparedOk(p) ==
  /\ Take(p, "game_prepared_ok")
  /\ OrDies(p, client[p].scene = "GAME",
            [client[p] EXCEPT !.gameStatus = "WAITING"])

ReadPreparedErr(p) ==
  /\ Take(p, "game_prepared_err")
  /\ OrDies(p, client[p].scene = "GAME",
            Later([client[p] EXCEPT !.gameStatus = "PREPARING"], Show("GAME")))

ReadPlay(p) ==
  /\ Take(p, "game_play")
  /\ OrDies(p, client[p].model, [client[p] EXCEPT !.gameStatus = "PLAYING"])

ReadFireOk(p) ==
  LET s == Head(toClient[p]).shot
  IN /\ Take(p, "game_fire_ok")
     /\ OrDies(p, client[p].model,
               [client[p] EXCEPT
                  !.enemyBoard = Shot(@, s.sq, s.status, s.destroyed),
                  !.gameStatus = "WAITING"])

\* Mutant: the click that was refused has used up the turn.
ReadFireErrWaits(p) ==
  /\ Take(p, "game_fire_err")
  /\ OrDies(p, client[p].model, client[p])

ReadFireErr(p) ==
  /\ Take(p, "game_fire_err")
  /\ OrDies(p, client[p].model, [client[p] EXCEPT !.gameStatus = "PLAYING"])

\* Mutant: the turn is left as it was.
ReadOppFireOnly(p) ==
  LET s == Head(toClient[p]).shot
  IN /\ Take(p, "game_opp_fire")
     /\ OrDies(p, client[p].model,
               [client[p] EXCEPT
                  !.myBoard = Shot(@, s.sq, s.status, s.destroyed)])

ReadOppFire(p) ==
  LET s == Head(toClient[p]).shot
  IN /\ Take(p, "game_opp_fire")
     /\ OrDies(p, client[p].model,
               [client[p] EXCEPT
                  !.myBoard = Shot(@, s.sq, s.status, s.destroyed),
                  !.gameStatus = "PLAYING"])

ReadEnd(p) ==
  /\ Take(p, "game_end")
  /\ IF client[p].scene = "GAME"
     THEN Becomes(p, Later(client[p], Show("GAME_RESULT")))
     ELSE UNCHANGED client

\* readLine returns null or throws: the client closes its end.
ReadEof(p) ==
  /\ Take(p, "eof")
  /\ Becomes(p, [Later(client[p], Show("CONNECT")) EXCEPT !.reader = "stopped"])

Read(p) ==
  \/ ReadLoginOk(p)
  \/ ReadInfo(p)
  \/ ReadConn(p)
  \/ ReadPreparedOk(p)
  \/ ReadPreparedErr(p)
  \/ ReadPlay(p)
  \/ ReadFireOk(p)
  \/ ReadFireErr(p)
  \/ ReadOppFire(p)
  \/ ReadEnd(p)
  \/ ReadEof(p)

-----------------------------------------------------------------------------
(* The window thread: what has been handed to it, and the user *)

\* App.sendMessage; what is written to a broken connection is lost.
SendRequest(p, request) ==
  toServer' = [toServer EXCEPT ![p] = IF up[p] THEN Append(@, request) ELSE @]

\* The oldest action in the queue is run, and leaves the client as c.
Queued(p, do) == client[p].window # <<>> /\ Head(client[p].window).do = do

Run(p, c) ==
  /\ Becomes(p, [c EXCEPT !.window = Tail(@)])
  /\ UNCHANGED <<matchVars, connected, up, toClient, losses>>

RunSetScene(p) ==
  /\ Queued(p, "setScene")
  /\ Run(p, [client[p] EXCEPT !.scene = Head(client[p].window).scene])
  /\ UNCHANGED toServer

\* A new GameModel, of which game_info_data will replace the boards.
RunResume(p) ==
  /\ Queued(p, "resume")
  /\ \E fleet \in Fleets :
       Run(p, [client[p] EXCEPT
                 !.model = TRUE, !.gameStatus = "null",
                 !.myBoard = convertStringToBoard(fleet),
                 !.enemyBoard = Blank, !.scene = "GAME"])
  /\ SendRequest(p, Msg("game_info_req"))

\* A player who is still preparing gets a new fleet on the empty board.
RunSetStatus(p) ==
  /\ Queued(p, "setGameStatus")
  /\ LET s == Head(client[p].window).status
         c == IF client[p].model THEN [client[p] EXCEPT !.gameStatus = s]
              ELSE client[p]
     IN \E fleet \in Fleets :
          Run(p, [c EXCEPT !.myBoard =
                    IF s = "PREPARING" /\ c.scene = "GAME"
                    THEN convertStringToBoard(fleet) ELSE @])
  /\ UNCHANGED toServer

RunFiredAt(p) ==
  /\ Queued(p, "setWaiting")
  /\ Run(p, [client[p] EXCEPT !.gameStatus = "WAITING"])
  /\ UNCHANGED toServer

RunLeaveResult(p) ==
  /\ Queued(p, "leaveResult")
  /\ Run(p, [client[p] EXCEPT !.scene = "LOBBY", !.model = FALSE,
                              !.gameStatus = "null",
                              !.myBoard = Blank, !.enemyBoard = Blank])
  /\ UNCHANGED toServer

Window(p) ==
  \/ RunSetScene(p)
  \/ RunResume(p)
  \/ RunSetStatus(p)
  \/ RunFiredAt(p)
  \/ RunLeaveResult(p)

\* A click waits for the end of the handler of the last one.
Free(p) ==
  /\ Prompt => client[p].window = <<>>
  /\ client[p].window # <<>> => Head(client[p].window) # FiredAt

\* The user asks the server for something in the scene of the game.
Ask(p, request) ==
  /\ client[p].scene = "GAME" /\ Free(p)
  /\ Len(toServer[p]) < MaxRequests
  /\ SendRequest(p, request)
  /\ UNCHANGED <<matchVars, connected, up, toClient, losses>>

Unanswered(p) ==
  \/ \E i \in DOMAIN toServer[p] :
       toServer[p][i].type \in {"game_prepared", "game_info_req"}
  \/ \E i \in DOMAIN toClient[p] :
       toClient[p][i].type \in {"game_prepared_ok", "game_prepared_err",
                                "game_info_data"}

readyToPlay(p) ==
  /\ client[p].gameStatus = "PREPARING"
  /\ Patient => ~Unanswered(p)
  /\ Ask(p, [type |-> "game_prepared",
             layout |-> getMyBoardStringForm(client[p].myBoard)])
  /\ UNCHANGED client

\* handleCanvasClick: the request is sent first, the status changed after it.
handleRightCanvasClick(p, sq) ==
  /\ client[p].gameStatus = "PLAYING"
  /\ Patient => ~Unanswered(p)
  /\ Ask(p, [type |-> "game_fire_req", sq |-> sq])
  /\ Becomes(p, [client[p] EXCEPT !.window = <<FiredAt>> \o @])

handleLeave(p) == Ask(p, Msg("room_leave_req")) /\ UNCHANGED client

handleContinue(p) ==
  /\ client[p].scene = "GAME_RESULT" /\ client[p].window = <<>>
  /\ Becomes(p, Later(client[p], LeaveResult))
  /\ UNCHANGED <<matchVars, netVars, losses>>

\* A new connection, and login_req on its greeting.  An attempt before the server
\* has noticed that the old one is gone is refused, and changes nothing.
connect(p) ==
  /\ client[p].scene = "CONNECT" /\ client[p].window = <<>>
  /\ ~up[p] /\ toServer[p] = <<>> /\ client[p].reader = "stopped"
  /\ up' = [up EXCEPT ![p] = TRUE]
  /\ toServer' = [toServer EXCEPT ![p] = <<Msg("login_req")>>]
  /\ toClient' = [toClient EXCEPT ![p] = <<>>]
  /\ Becomes(p, [client[p] EXCEPT !.reader = "running"])
  /\ UNCHANGED <<matchVars, connected, losses>>

User(p) ==
  \/ readyToPlay(p)
  \/ \E sq \in Clicks : handleRightCanvasClick(p, sq)
  \/ handleLeave(p)
  \/ handleContinue(p)
  \/ connect(p)

-----------------------------------------------------------------------------
(* Failures *)

\* The messages on their way that still arrive, before the end.
Cut(messages) == {SubSeq(messages, 1, n) \o <<Eof>> : n \in 0 .. Len(messages)}

Loss(p) ==
  /\ losses < MaxLosses /\ up[p]
  /\ losses' = losses + 1
  /\ up' = [up EXCEPT ![p] = FALSE]
  /\ \E requests \in Cut(toServer[p]), messages \in Cut(toClient[p]) :
       /\ toServer' = [toServer EXCEPT ![p] = requests]
       /\ toClient' = [toClient EXCEPT ![p] = messages]
  /\ UNCHANGED <<matchVars, connected, client>>

\* The client's process ends, and is started again.
Crash(p) ==
  /\ losses < MaxLosses /\ client[p] # Started
  /\ losses' = losses + 1
  /\ up' = [up EXCEPT ![p] = FALSE]
  /\ \E requests \in IF up[p] THEN Cut(toServer[p]) ELSE {toServer[p]} :
       toServer' = [toServer EXCEPT ![p] = requests]
  /\ toClient' = [toClient EXCEPT ![p] = <<>>]
  /\ Becomes(p, Started)
  /\ UNCHANGED <<matchVars, connected>>

SysNext == \E p \in Player : Serve(p) \/ Read(p) \/ Window(p) \/ User(p)
                               \/ Loss(p) \/ Crash(p)

SysSpec == SysInit /\ [][SysNext]_sysVars

\* The next request, message or action is consumed.  Only Serve(p), Read(p) and
\* Window(p) do that, and one of their actions can whenever there is one.
Served(p) ==
  toServer[p] # <<>> /\ toServer' = [toServer EXCEPT ![p] = Tail(@)]

Received(p) ==
  /\ client[p].reader = "running" /\ (Prompt => client[p].window = <<>>)
  /\ toClient[p] # <<>> /\ toClient' = [toClient EXCEPT ![p] = Tail(@)]

\* select serves every readable socket of a round; a thread that can run does.
\* Users owe nothing: they may stop playing at any time.
SysFairSpec ==
  /\ SysSpec
  /\ \A p \in Player : /\ WF_toServer(Served(p))
                       /\ WF_toClient(Received(p))
                       /\ WF_client(Window(p))

-----------------------------------------------------------------------------
(* What must hold *)

\* The client has seen all there is to see.
Quiet(p) ==
  /\ up[p] /\ connected[p] /\ client[p].reader = "running"
  /\ toServer[p] = <<>> /\ toClient[p] = <<>> /\ client[p].window = <<>>

\* A client that has seen everything, possibly after losing its connection or its
\* process in the middle of a shot, shows the boards of the server: its own with
\* all shots at it, and of the enemy's exactly what has been opened.
BoardsAgree ==
  \A p \in Player : Quiet(p) /\ InGame(p) =>
    /\ Prepared(p) => client[p].myBoard = board[p]
    /\ client[p].enemyBoard = Masked(board[Opponent(p)])

\* It shows the scene of the game exactly while there is one, and lets its user
\* do what the server expects of this player: prepare, fire or wait.
TurnAgrees ==
  \A p \in Player : Quiet(p) =>
    /\ client[p].scene = "GAME" <=> InGame(p)
    /\ InGame(p) => client[p].gameStatus = Status(state[p])

\* The player on turn gets to know it: unless the connection or the reader is
\* lost, the client lets its user fire sooner or later.
TurnArrives ==
  \A p \in Player :
    state[p] = STATE_IN_GAME_PLAYING ~>
      \/ client[p].scene = "GAME" /\ client[p].gameStatus = "PLAYING"
      \/ state[p] # STATE_IN_GAME_PLAYING
      \/ ~up[p] \/ client[p].reader = "dead"

\* A connection that lasts is used: a client that has lost one and connects again
\* is back in the game, or in the lobby if the game is over.
ResumeArrives ==
  \A p \in Player :
    up[p] /\ ~connected[p] ~>
      \/ Quiet(p) /\ (client[p].scene = "GAME" <=> InGame(p))
      \/ ~up[p] \/ client[p].reader = "dead"

\* The documentation: the thread that receives messages runs for ever.
ReaderSurvives == \A p \in Player : client[p].reader # "dead"
=============================================================================
