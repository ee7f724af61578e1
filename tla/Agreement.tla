----------------------------- MODULE Agreement -----------------------------
(***************************************************************************)
(* What a Java client and the server have in common at every moment of a   *)
(* game (System), also while messages are on their way and the window has  *)
(* something to do: when the messages have been read and the window is     *)
(* done, the client will show what the server has now.                     *)
(***************************************************************************)
EXTENDS System

-----------------------------------------------------------------------------
(* What a client will show *)

\* The next action of the window is one of these.
Pending(c, do) == c.window # <<>> /\ c.window[1].do = do

\* The scene and the status once the window is done with its one action.
SceneOf(c) ==
  IF c.window = <<>> THEN c.scene
  ELSE CASE c.window[1].do = "setScene"    -> c.window[1].scene
         [] c.window[1].do = "resume"      -> "GAME"
         [] c.window[1].do = "leaveResult" -> "LOBBY"
         [] OTHER                          -> c.scene

StatusOf(c) ==
  IF c.window = <<>> THEN c.gameStatus
  ELSE CASE c.window[1].do = "setGameStatus" -> c.window[1].status
         [] c.window[1].do = "setWaiting"    -> "WAITING"
         [] OTHER                            -> c.gameStatus

View(c) == [scene |-> SceneOf(c), status |-> StatusOf(c),
            my |-> c.myBoard, enemy |-> c.enemyBoard]

\* What a message makes of a view, of a client in which nothing goes wrong.
After(v, m) ==
  [ scene  |-> CASE m.type = "game_conn" -> "GAME"
                 [] m.type = "login_ok"  -> IF m.state = STATE_IN_LOBBY THEN "LOBBY" ELSE "GAME"
                 [] OTHER                -> v.scene,
    status |-> CASE m.type \in {"game_conn", "game_prepared_err"}                 -> "PREPARING"
                 [] m.type \in {"game_prepared_ok", "game_fire_ok"}               -> "WAITING"
                 [] m.type \in {"game_play", "game_opp_fire", "game_fire_err"}    -> "PLAYING"
                 [] m.type = "game_info_data"                                     -> Status(m.state)
                 [] OTHER                                                         -> v.status,
    my     |-> CASE m.type = "game_opp_fire"  -> Shot(v.my, m.shot.sq, m.shot.status,
                                                      m.shot.destroyed)
                 [] m.type = "game_info_data" -> convertStringToBoard(m.my)
                 [] OTHER                     -> v.my,
    enemy  |-> CASE m.type = "game_fire_ok"   -> Shot(v.enemy, m.shot.sq, m.shot.status,
                                                      m.shot.destroyed)
                 [] m.type = "game_info_data" -> convertStringToBoard(m.enemy)
                 [] m.type = "game_conn"      -> Blank
                 [] OTHER                     -> v.enemy ]

\* What the messages that are on their way make of it; there are two at most.
Final(v, q) ==
  IF q = <<>> THEN v
  ELSE IF Len(q) = 1 THEN After(v, q[1])
  ELSE After(After(v, q[1]), q[2])

-----------------------------------------------------------------------------
(* The agreement.  Of one player, c is the client, r is what the server has  *)
(* not read of it yet and q what it has not read of the server; st and b are *)
(* the player's state and board at the server, and e is what the player may  *)
(* know of the opponent's board.                                             *)

Gaming == {STATE_IN_GAME_PREPARING, STATE_IN_GAME, STATE_IN_GAME_PLAYING}
Moves  == {"game_play", "game_opp_fire", "game_fire_ok", "game_fire_err"}
Passes == {"game_play", "game_opp_fire"}
Errs   == {"game_prepared_err", "game_fire_err"}
Orders == {"game_prepared", "game_fire_req", "game_info_req"}
Hellos == {"game_conn", "login_ok"}

Asked(r, type) == \E i \in DOMAIN r : r[i].type = type
Told(q, type)  == \E i \in DOMAIN q : q[i].type = type

\* The boards and the status are still to be asked for, or asked for.
InfoDue(c, r, q) ==
  Asked(r, "game_info_req") \/ Pending(c, "resume") \/ Told(q, "login_ok")

\* The first message after a login, or of a new game, and what follows a login.
Opening(c, r, q, st) ==
  /\ \A k \in DOMAIN q : q[k].type \in Hellos =>
       /\ k = 1 /\ r = <<>> /\ c.window = <<>>
       /\ c.scene = IF q[k].type = "game_conn" THEN "ROOM" ELSE "CONNECT"
  /\ Told(q, "login_ok") /\ Len(q) = 2 => q[2].type \in Passes
  /\ Pending(c, "resume") => r = <<>> /\ ~Told(q, "login_ok")
  /\ Asked(r, "game_info_req") => ~Pending(c, "resume") /\ ~Told(q, "login_ok")
  /\ Asked(r, "game_info_req") \/ Pending(c, "resume") =>
       \/ q = <<>>
       \/ Len(q) = 1 /\ q[1].type \in Passes /\ st = STATE_IN_GAME_PLAYING

\* What asks the server for something comes alone, and finds the player in the
\* state in which the user saw the game.
Ordered(c, r, q, st) ==
  /\ \A i, j \in DOMAIN r : r[i].type \in Orders /\ r[j].type \in Orders => i = j
  /\ \A i \in DOMAIN r : r[i].type = "game_prepared" =>
       /\ q = <<>> /\ c.window = <<>> /\ st = STATE_IN_GAME_PREPARING
       /\ r[i].layout = getMyBoardStringForm(c.myBoard)
  /\ Asked(r, "game_fire_req") =>
       q = <<>> /\ st = STATE_IN_GAME_PLAYING /\ StatusOf(c) = "WAITING"

\* A fleet is only replaced while the player has none at the server.
Sketching(c, q, st) ==
  /\ Pending(c, "setGameStatus") =>
       c.model /\ (c.window[1].status = "PREPARING" => st = STATE_IN_GAME_PREPARING)
  /\ \A k \in DOMAIN q :
       /\ q[k].type = "game_conn" => st = STATE_IN_GAME_PREPARING
       /\ q[k].type = "game_info_data" /\ q[k].state = STATE_IN_GAME_PREPARING
            => st = STATE_IN_GAME_PREPARING

\* A user who has the turn to gain from a message has not got it without that.
Waits(v, q) ==
  /\ Len(q) >= 1 /\ q[1].type \in Moves /\ ~(Len(q) = 2 /\ q[2].type = "game_info_data")
       => v.status = "WAITING"
  /\ Len(q) = 2 /\ q[2].type \in Moves => After(v, q[1]).status = "WAITING"

\* When all has been read, the client shows what the server has.
Faithful(c, r, q, st, b, e) ==
  /\ Waits(View(c), q)
  /\ ~Asked(r, "game_fire_req") => Final(View(c), q).status = Status(st)
  /\ Final(View(c), q).enemy = e
  /\ st # STATE_IN_GAME_PREPARING => Final(View(c), q).my = b

Playing(c, r, q, st, b, e) ==
  /\ ~Told(q, "game_end")
  /\ Len(q) <= 2 /\ (Len(q) = 2 => st = STATE_IN_GAME_PLAYING)
  /\ Opening(c, r, q, st)
  /\ Ordered(c, r, q, st)
  /\ Sketching(c, q, st)
  /\ Final(View(c), q).scene = "GAME"
  /\ ~InfoDue(c, r, q) => Faithful(c, r, q, st, b, e)

Ended(c, q) ==
  \/ \E i \in DOMAIN q : q[i].type = "game_end" /\ \A j \in DOMAIN q : j > i => q[j].type \in Errs
  \/ /\ SceneOf(c) # "GAME"
     /\ \A j \in DOMAIN q : q[j].type \in Errs \cup {"login_ok"}
     /\ \A j \in DOMAIN q : q[j].type = "login_ok" => q[j].state = STATE_IN_LOBBY

\* A connection, with u if it works and k if the server knows the player on it: what
\* it starts and ends with.
Lines(c, r, q, u, k) ==
  /\ ~u => \/ r = <<>> /\ ~k
           \/ /\ r # <<>> /\ r[Len(r)].type = "eof"
              /\ \A i \in DOMAIN r : r[i].type = "eof" => i = Len(r)
  /\ u => ~Told(q, "eof") /\ ~Asked(r, "eof")
  /\ u /\ k => ~Asked(r, "login_req")
  /\ u /\ ~k => /\ r = <<Msg("login_req")>> /\ q = <<>>
                /\ c.scene = "CONNECT" /\ c.window = <<>> /\ c.reader = "running"

InStep(c, r, q, st, b, e) ==
  /\ st \in Gaming => Playing(c, r, q, st, b, e)
  /\ st \notin Gaming => Ended(c, q)

Agrees(c, r, q, u, k, st, b, e) ==
  /\ Lines(c, r, q, u, k) /\ (c.window # <<>> => Len(c.window) = 1)
  /\ u /\ k /\ c.reader = "running" => InStep(c, r, q, st, b, e)

\* The players are in step with the server, each at every moment: of a client that
\* plays, the boards, the scene and the status are, with the messages still to be
\* read, those of the server; of one whose game has ended, what is to be read ends
\* the game.  (The handlers of cmd_login, cmd_game_prepared, cmd_game_fire and
\* cmd_game_info against those of MessageHandler and the two threads of the client.)
AllAgree ==
  \A p \in Player : Agrees(client[p], toServer[p], toClient[p], up[p], connected[p],
                           state[p], board[p], Masked(board[Opponent(p)]))
=============================================================================
