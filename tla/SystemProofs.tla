---------------------------- MODULE SystemProofs ----------------------------
(***************************************************************************)
(* Theorems about a game between two Java clients (System), for every size *)
(* of the board, every fleet, every choice of squares and any number of    *)
(* lost connections and restarted clients.                                 *)
(***************************************************************************)
EXTENDS Agreement, MatchProofs, SequenceTheorems

-----------------------------------------------------------------------------
(* Types *)

Scenes   == {"CONNECT", "LOBBY", "ROOM", "GAME", "GAME_RESULT"}
Statuses == {"null", "PREPARING", "PLAYING", "WAITING"}

Actions ==
  [do : {"setScene"}, scene : Scenes] \cup [do : {"setGameStatus"}, status : Statuses]
    \cup [do : {"resume", "setWaiting", "leaveResult"}]

Clients ==
  [ scene : Scenes, model : BOOLEAN, gameStatus : Statuses, myBoard : Boards,
    enemyBoard : Boards, window : Seq(Actions), reader : {"stopped", "running", "dead"} ]

States == {STATE_IN_LOBBY, STATE_IN_GAME_PREPARING, STATE_IN_GAME, STATE_IN_GAME_PLAYING}

Strings == {getMyBoardStringForm(b) : b \in Boards}

ShotData == [sq : Cells, status : {Hit, Miss}, destroyed : BOOLEAN]

Requests ==
  [type : {"login_req", "game_info_req", "room_leave_req", "eof"}]
    \cup [type : {"game_prepared"}, layout : Strings] \cup [type : {"game_fire_req"}, sq : Cells]

Replies ==
  [type : {"game_conn", "game_prepared_ok", "game_prepared_err", "game_play",
           "game_fire_err", "game_end", "eof"}]
    \cup [type : {"login_ok"}, state : States]
    \cup [type : {"game_info_data"}, state : States, my : Strings, enemy : Strings]
    \cup [type : {"game_fire_ok", "game_opp_fire"}, shot : ShotData]

LineTypeOK ==
  /\ connected \in [Player -> BOOLEAN] /\ up \in [Player -> BOOLEAN]
  /\ toServer \in [Player -> Seq(Requests)]
  /\ toClient \in [Player -> Seq(Replies)]

ClientTypeOK == client \in [Player -> Clients]

SysTypes == MatchInv /\ LineTypeOK /\ ClientTypeOK

-----------------------------------------------------------------------------
(* Queues *)

LEMMA QueueTail ==
  ASSUME NEW S, NEW q \in Seq(S), q # <<>>
  PROVE  /\ Head(q) = q[1] /\ q[1] \in S /\ Tail(q) \in Seq(S)
         /\ Len(q) \in Nat \ {0} /\ Len(Tail(q)) = Len(q) - 1
         /\ DOMAIN q = 1 .. Len(q) /\ DOMAIN Tail(q) = 1 .. (Len(q) - 1)
         /\ \A i \in 1 .. (Len(q) - 1) : Tail(q)[i] = q[i + 1]
  <1>1. Len(q) \in Nat \ {0} /\ DOMAIN q = 1 .. Len(q)
    BY EmptySeq, LenProperties
  <1>2. Tail(q) \in Seq(S) /\ Len(Tail(q)) = Len(q) - 1
        /\ \A i \in 1 .. Len(Tail(q)) : Tail(q)[i] = q[i + 1]
    BY HeadTailProperties
  <1>3. DOMAIN Tail(q) = 1 .. (Len(q) - 1)
    BY <1>2, LenProperties
  <1>4. Head(q) = q[1] /\ q[1] \in S
    BY <1>1, ElementOfSeq
  <1> QED
    BY <1>1, <1>2, <1>3, <1>4

LEMMA QueueAdd ==
  ASSUME NEW S, NEW q \in Seq(S), NEW m \in S
  PROVE  /\ q \o <<m>> = Append(q, m) /\ Append(q, m) \in Seq(S)
         /\ Len(q) \in Nat /\ DOMAIN q = 1 .. Len(q)
         /\ Append(q, m) # <<>> /\ Len(Append(q, m)) = Len(q) + 1
         /\ DOMAIN Append(q, m) = 1 .. (Len(q) + 1)
         /\ Append(q, m)[Len(q) + 1] = m
         /\ \A i \in 1 .. Len(q) : Append(q, m)[i] = q[i]
  <1>1. Len(q) \in Nat /\ DOMAIN q = 1 .. Len(q)
    BY LenProperties
  <1>2. /\ Append(q, m) \in Seq(S) /\ Len(Append(q, m)) = Len(q) + 1
        /\ Append(q, m)[Len(q) + 1] = m
        /\ \A i \in 1 .. Len(q) : Append(q, m)[i] = q[i]
    BY <1>1, AppendProperties
  <1>3. DOMAIN Append(q, m) = 1 .. (Len(q) + 1)
    BY <1>2, LenProperties
  <1>4. Append(q, m) # <<>>
    BY <1>1, <1>2, EmptySeq
  <1>5. q \o <<m>> = Append(q, m)
    BY AppendIsConcat
  <1> QED
    BY <1>1, <1>2, <1>3, <1>4, <1>5

LEMMA QueueEmpty ==
  ASSUME NEW S, NEW q \in Seq(S)
  PROVE  /\ q = <<>> <=> Len(q) = 0
         /\ Len(q) \in Nat /\ (q # <<>> <=> Len(q) >= 1)
  <1>1. q = <<>> <=> Len(q) = 0
    BY EmptySeq
  <1>2. Len(q) \in Nat
    BY LenProperties
  <1>3. Len(q) >= 1 <=> Len(q) # 0
    BY <1>2
  <1> QED
    BY <1>1, <1>2, <1>3

-----------------------------------------------------------------------------
(* Boards and their string forms *)

LEMMA CellIndex ==
  ASSUME NEW c \in Cells
  PROVE  /\ c[2] * SHIP_GAME_BOARD_SIZE + c[1] + 1 \in 1 .. N * N
         /\ SquareAt((c[2] * SHIP_GAME_BOARD_SIZE + c[1] + 1) - 1) = c
         /\ N * N \in Nat /\ N * N = GAME_BOARD_STRING_SIZE
  <1>1. /\ c = <<c[1], c[2]>> /\ c[1] \in 0 .. (N - 1) /\ c[2] \in 0 .. (N - 1)
        /\ c[1] \in Coords /\ c[2] \in Nat /\ N \in Nat \ {0}
    BY CellParts, BoardAssumption DEF Coords, N
  <1>2. N * c[2] + c[1] \in Nat /\ SquareAt(N * c[2] + c[1]) = c
    BY <1>1, SquareOfIndex
  <1>3. N * N = GAME_BOARD_STRING_SIZE
    BY DEF N, GAME_BOARD_STRING_SIZE
  <1> PICK i : i = N * c[2] + c[1]
    OBVIOUS
  <1>4. i = c[2] * SHIP_GAME_BOARD_SIZE + c[1] /\ i \in Nat
    BY <1>1, <1>2 DEF N
  <1>5. N * N \in Nat
    BY <1>1
  <1>6. i \in 0 .. (N * N - 1)
    <2>1. Before(c, SquareAt(N * N))
      BY BeforeEnds
    <2>2. SquareAt(i) = c
      BY <1>2
    <2>3. i < N * N
      BY <1>4, <1>5, <2>1, <2>2, IndexOrder
    <2> QED
      BY <1>4, <1>5, <2>3
  <1>7. c[2] * SHIP_GAME_BOARD_SIZE + c[1] + 1 = i + 1 /\ (i + 1) - 1 = i
    BY <1>4
  <1>8. i + 1 \in 1 .. N * N
    BY <1>5, <1>6
  <1> QED
    BY <1>2, <1>3, <1>5, <1>7, <1>8

\* What a board is sent as is read as the same board.
LEMMA RoundTrip ==
  ASSUME NEW b \in Boards
  PROVE  convertStringToBoard(getMyBoardStringForm(b)) = b
  <1>1. ASSUME NEW c \in Cells
        PROVE  LET char == getMyBoardStringForm(b)[c[2] * SHIP_GAME_BOARD_SIZE + c[1] + 1]
               IN (IF char \in ShipNumbers \cup {Hit, Miss} THEN char ELSE Empty) = b[c]
    <2> PICK i : i = c[2] * SHIP_GAME_BOARD_SIZE + c[1] + 1
      OBVIOUS
    <2>1. i \in 1 .. GAME_BOARD_STRING_SIZE /\ SquareAt(i - 1) = c
      BY CellIndex
    <2>2. getMyBoardStringForm(b)[i] = b[c]
      BY <2>1 DEF getMyBoardStringForm
    <2>3. b[c] \in ShipNumbers \cup {Empty, Hit, Miss}
      BY DEF Boards
    <2> QED
      BY <2>2, <2>3
  <1> QED
    BY <1>1 DEF convertStringToBoard, Boards

LEMMA ConvertTyped == \A lay : convertStringToBoard(lay) \in Boards
  BY DEF convertStringToBoard, Boards

LEMMA BlankTyped == Blank \in Boards /\ Blank \in Sketches
  BY DEF Blank, Boards, Sketches

LEMMA MaskTyped ==
  ASSUME NEW b \in Boards
  PROVE  Masked(b) \in Boards
  BY DEF Masked, Boards

LEMMA StringTyped ==
  ASSUME NEW b \in Boards, NEW lay, lay = getMyBoardStringForm(b)
  PROVE  lay \in Seq(Int) /\ Len(lay) = N * N /\ N * N \in Nat
  <1>1. GAME_BOARD_STRING_SIZE = N * N /\ N * N \in Nat /\ N \in Nat \ {0}
    BY BoardAssumption DEF GAME_BOARD_STRING_SIZE, N
  <1> PICK k : k = N * N
    OBVIOUS
  <1>2. k \in Nat /\ lay = [i \in 1 .. k |-> b[SquareAt(i - 1)]]
    BY <1>1 DEF getMyBoardStringForm
  <1>3. ASSUME NEW i \in 1 .. k
        PROVE  b[SquareAt(i - 1)] \in Int
    <2>1. i - 1 \in 0 .. (k - 1) /\ k \in 0 .. N * N
      BY <1>1, <1>2
    <2>2. SquareAt(i - 1) \in Cells
      BY <2>1, ReadSquares
    <2>3. b[SquareAt(i - 1)] \in ShipNumbers \cup {Empty, Hit, Miss}
      BY <2>2 DEF Boards
    <2> PICK ch : ch = b[SquareAt(i - 1)]
      OBVIOUS
    <2>4. ch \in ShipNumbers \/ ch = Empty \/ ch = Hit \/ ch = Miss
      BY <2>3
    <2>5. ch \in Int
      BY <2>4, BoardAssumption DEF ShipNumbers, Empty, Hit, Miss
    <2> QED
      BY <2>5
  <1>4. lay \in [1 .. k -> Int]
    BY <1>2, <1>3
  <1>5. lay \in Seq(Int)
    BY <1>2, <1>4, SeqDef
  <1> QED
    BY <1>1, <1>2, <1>4, <1>5

LEMMA ShotTyped ==
  ASSUME NEW b \in Boards, NEW sq \in Cells, NEW st \in {Hit, Miss}, NEW d \in BOOLEAN
  PROVE  Shot(b, sq, st, d) \in Boards
  <1> PICK g : g = [b EXCEPT ![sq] = st]
    OBVIOUS
  <1>1. g \in Boards
    BY DEF Boards
  <1>2. markDestroyedShip(g, sq) \in Boards
    BY <1>1 DEF markDestroyedShip, Boards
  <1>3. Shot(b, sq, st, d) = IF st = Hit /\ d THEN markDestroyedShip(g, sq) ELSE g
    BY DEF Shot
  <1> QED
    BY <1>1, <1>2, <1>3

-----------------------------------------------------------------------------
(* What one message, one action of the window and one click make of a client *)

Dead(c) == [c EXCEPT !.reader = "dead"]


Reads(c, m, d) ==
  \/ /\ m.type = "login_ok" /\ c.scene # "CONNECT" /\ d = c
  \/ /\ m.type = "login_ok" /\ c.scene = "CONNECT"
     /\ d = Later(c, IF m.state = STATE_IN_LOBBY THEN Show("LOBBY") ELSE Resume)
  \/ /\ m.type = "game_info_data" /\ c.model
     /\ d = Later([c EXCEPT !.myBoard = convertStringToBoard(m.my),
                            !.enemyBoard = convertStringToBoard(m.enemy)],
                  SetStatus(Status(m.state)))
  \/ /\ m.type = "game_conn" /\ c.scene \notin {"LOBBY", "ROOM"} /\ d = c
  \/ /\ m.type = "game_conn" /\ c.scene \in {"LOBBY", "ROOM"}
     /\ \E fleet \in Fleets :
          d = Later([c EXCEPT !.myBoard = convertStringToBoard(fleet),
                              !.enemyBoard = Blank,
                              !.gameStatus = "PREPARING"], Show("GAME"))
  \/ /\ m.type = "game_prepared_ok" /\ c.scene = "GAME"
     /\ d = [c EXCEPT !.gameStatus = "WAITING"]
  \/ /\ m.type = "game_prepared_err" /\ c.scene = "GAME"
     /\ d = Later([c EXCEPT !.gameStatus = "PREPARING"], Show("GAME"))
  \/ /\ m.type \in {"game_play", "game_fire_err"} /\ c.model
     /\ d = [c EXCEPT !.gameStatus = "PLAYING"]
  \/ /\ m.type = "game_fire_ok" /\ c.model
     /\ d = [c EXCEPT !.enemyBoard = Shot(c.enemyBoard, m.shot.sq, m.shot.status,
                                          m.shot.destroyed),
                      !.gameStatus = "WAITING"]
  \/ /\ m.type = "game_opp_fire" /\ c.model
     /\ d = [c EXCEPT !.myBoard = Shot(c.myBoard, m.shot.sq, m.shot.status,
                                       m.shot.destroyed),
                      !.gameStatus = "PLAYING"]
  \/ /\ m.type = "game_end" /\ c.scene = "GAME" /\ d = Later(c, Show("GAME_RESULT"))
  \/ /\ m.type = "game_end" /\ c.scene # "GAME" /\ d = c
  \/ /\ m.type = "eof"
     /\ d = [Later(c, Show("CONNECT")) EXCEPT !.reader = "stopped"]
  \/ d = Dead(c)

LEMMA ReadDoes ==
  ASSUME LineTypeOK, ClientTypeOK, NEW p \in Player, Read(p),
         NEW c, c = client[p], NEW q, q = toClient[p]
  PROVE  /\ c.reader = "running" /\ (Prompt => c.window = <<>>) /\ q # <<>>
         /\ toClient' = [toClient EXCEPT ![p] = Tail(q)]
         /\ \E d : Reads(c, q[1], d) /\ client' = [client EXCEPT ![p] = d]
         /\ UNCHANGED <<matchVars, connected, up, toServer, losses>>
  <1>1. q \in Seq(Replies) /\ (q # <<>> => Head(q) = q[1])
    BY QueueTail DEF LineTypeOK
  <1>2. ASSUME NEW type, Take(p, type)
        PROVE  /\ c.reader = "running" /\ (Prompt => c.window = <<>>) /\ q # <<>>
               /\ q[1].type = type /\ Head(toClient[p]) = q[1]
               /\ toClient' = [toClient EXCEPT ![p] = Tail(q)]
               /\ UNCHANGED <<matchVars, connected, up, toServer, losses>>
    BY <1>1, <1>2 DEF Take
  <1> PICK m : m = q[1]
    OBVIOUS
  <1> DEFINE Goal == \E d : Reads(c, m, d) /\ client' = [client EXCEPT ![p] = d]
  <1>3. client = [client EXCEPT ![p] = c]
    BY DEF ClientTypeOK
  <1>4. CASE ReadLoginOk(p)
    <2>1. Take(p, "login_ok")
      BY <1>4 DEF ReadLoginOk
    <2>2. m.type = "login_ok" /\ Head(toClient[p]) = m
      BY <1>2, <2>1
    <2>3. Goal
      BY <1>3, <1>4, <2>2 DEF ReadLoginOk, Reads, Becomes
    <2> QED
      BY <1>2, <2>1, <2>3
  <1>5. CASE ReadInfo(p)
    <2>1. Take(p, "game_info_data")
      BY <1>5 DEF ReadInfo
    <2>2. m.type = "game_info_data" /\ Head(toClient[p]) = m
      BY <1>2, <2>1
    <2>3. Goal
      BY <1>3, <1>5, <2>2 DEF ReadInfo, Reads, Becomes, OrDies, Dead
    <2> QED
      BY <1>2, <2>1, <2>3
  <1>6. CASE ReadConn(p)
    <2>1. Take(p, "game_conn")
      BY <1>6 DEF ReadConn
    <2>2. m.type = "game_conn"
      BY <1>2, <2>1
    <2>3. Goal
      BY <1>3, <1>6, <2>2 DEF ReadConn, Reads, Becomes
    <2> QED
      BY <1>2, <2>1, <2>3
  <1>7. CASE ReadPreparedOk(p)
    <2>1. Take(p, "game_prepared_ok")
      BY <1>7 DEF ReadPreparedOk
    <2>2. m.type = "game_prepared_ok"
      BY <1>2, <2>1
    <2>3. Goal
      BY <1>7, <2>2 DEF ReadPreparedOk, Reads, Becomes, OrDies, Dead
    <2> QED
      BY <1>2, <2>1, <2>3
  <1>8. CASE ReadPreparedErr(p)
    <2>1. Take(p, "game_prepared_err")
      BY <1>8 DEF ReadPreparedErr
    <2>2. m.type = "game_prepared_err"
      BY <1>2, <2>1
    <2>3. Goal
      BY <1>8, <2>2 DEF ReadPreparedErr, Reads, Becomes, OrDies, Dead
    <2> QED
      BY <1>2, <2>1, <2>3
  <1>9. CASE ReadPlay(p)
    <2>1. Take(p, "game_play")
      BY <1>9 DEF ReadPlay
    <2>2. m.type = "game_play"
      BY <1>2, <2>1
    <2>3. Goal
      BY <1>9, <2>2 DEF ReadPlay, Reads, Becomes, OrDies, Dead
    <2> QED
      BY <1>2, <2>1, <2>3
  <1>10. CASE ReadFireErr(p)
    <2>1. Take(p, "game_fire_err")
      BY <1>10 DEF ReadFireErr
    <2>2. m.type = "game_fire_err"
      BY <1>2, <2>1
    <2>3. Goal
      BY <1>10, <2>2 DEF ReadFireErr, Reads, Becomes, OrDies, Dead
    <2> QED
      BY <1>2, <2>1, <2>3
  <1>11. CASE ReadFireOk(p)
    <2>1. Take(p, "game_fire_ok")
      BY <1>11 DEF ReadFireOk
    <2>2. m.type = "game_fire_ok" /\ Head(toClient[p]) = m
      BY <1>2, <2>1
    <2>3. Goal
      BY <1>11, <2>2 DEF ReadFireOk, Reads, Becomes, OrDies, Dead
    <2> QED
      BY <1>2, <2>1, <2>3
  <1>12. CASE ReadOppFire(p)
    <2>1. Take(p, "game_opp_fire")
      BY <1>12 DEF ReadOppFire
    <2>2. m.type = "game_opp_fire" /\ Head(toClient[p]) = m
      BY <1>2, <2>1
    <2>3. Goal
      BY <1>12, <2>2 DEF ReadOppFire, Reads, Becomes, OrDies, Dead
    <2> QED
      BY <1>2, <2>1, <2>3
  <1>13. CASE ReadEnd(p)
    <2>1. Take(p, "game_end")
      BY <1>13 DEF ReadEnd
    <2>2. m.type = "game_end"
      BY <1>2, <2>1
    <2>3. Goal
      BY <1>3, <1>13, <2>2 DEF ReadEnd, Reads, Becomes
    <2> QED
      BY <1>2, <2>1, <2>3
  <1>14. CASE ReadEof(p)
    <2>1. Take(p, "eof")
      BY <1>14 DEF ReadEof
    <2>2. m.type = "eof"
      BY <1>2, <2>1
    <2>3. Goal
      BY <1>14, <2>2 DEF ReadEof, Reads, Becomes
    <2> QED
      BY <1>2, <2>1, <2>3
  <1> HIDE DEF Goal
  <1> QED
    BY <1>4, <1>5, <1>6, <1>7, <1>8, <1>9, <1>10, <1>11, <1>12, <1>13, <1>14 DEF Read

\* What the window thread and the user do without a word to the server.
Changes(c, d) ==
  \/ /\ Pending(c, "setScene")
     /\ d = [c EXCEPT !.scene = c.window[1].scene, !.window = Tail(c.window)]
  \/ /\ Pending(c, "setGameStatus")
     /\ \E fleet \in Fleets :
          d = [c EXCEPT !.gameStatus = IF c.model THEN c.window[1].status ELSE c.gameStatus,
                        !.myBoard = IF c.window[1].status = "PREPARING" /\ c.scene = "GAME"
                                    THEN convertStringToBoard(fleet) ELSE c.myBoard,
                        !.window = Tail(c.window)]
  \/ /\ Pending(c, "setWaiting")
     /\ d = [c EXCEPT !.gameStatus = "WAITING", !.window = Tail(c.window)]
  \/ /\ Pending(c, "leaveResult")
     /\ d = [c EXCEPT !.scene = "LOBBY", !.model = FALSE, !.gameStatus = "null",
                      !.myBoard = Blank, !.enemyBoard = Blank, !.window = Tail(c.window)]
  \/ /\ c.scene = "GAME_RESULT" /\ c.window = <<>> /\ d = Later(c, LeaveResult)

\* And what they do with one.
Sends(c, d, request) ==
  \/ /\ Pending(c, "resume") /\ request = Msg("game_info_req")
     /\ \E fleet \in Fleets :
          d = [c EXCEPT !.model = TRUE, !.gameStatus = "null",
                        !.myBoard = convertStringToBoard(fleet),
                        !.enemyBoard = Blank, !.scene = "GAME", !.window = Tail(c.window)]
  \/ /\ c.scene = "GAME" /\ (Prompt => c.window = <<>>) /\ d = c
     /\ c.gameStatus = "PREPARING"
     /\ request = [type |-> "game_prepared", layout |-> getMyBoardStringForm(c.myBoard)]
  \/ /\ c.scene = "GAME" /\ (Prompt => c.window = <<>>) /\ c.gameStatus = "PLAYING"
     /\ \E sq \in Clicks : request = [type |-> "game_fire_req", sq |-> sq]
     /\ d = [c EXCEPT !.window = <<FiredAt>> \o c.window]
  \/ /\ c.scene = "GAME" /\ (Prompt => c.window = <<>>) /\ d = c
     /\ request = Msg("room_leave_req")

\* What the window thread and a user who is connected do.
Acts(p) ==
  \/ Window(p) \/ readyToPlay(p) \/ (\E sq \in Clicks : handleRightCanvasClick(p, sq))
  \/ handleLeave(p) \/ handleContinue(p)

\* The client becomes d, and r is what the server has not read of it so far.
Acted(p, c, r, d) ==
  /\ client' = [client EXCEPT ![p] = d]
  /\ \/ Changes(c, d) /\ UNCHANGED toServer
     \/ \E request :
          /\ Sends(c, d, request)
          /\ request.type \in {"game_prepared", "game_fire_req"} => (Patient => ~Unanswered(p))
          /\ toServer' = [toServer EXCEPT ![p] = IF up[p] THEN Append(r, request) ELSE r]

LEMMA ActDoes ==
  ASSUME LineTypeOK, ClientTypeOK, NEW p \in Player,
         Acts(p), NEW c, c = client[p], NEW r, r = toServer[p]
  PROVE  /\ \E d : Acted(p, c, r, d)
         /\ UNCHANGED <<matchVars, connected, up, toClient, losses>>
  <1>1. c \in Clients /\ c.window \in Seq(Actions) /\ client = [client EXCEPT ![p] = c]
    BY DEF ClientTypeOK, Clients
  <1>2. c.window # <<>> => Head(c.window) = c.window[1]
    BY <1>1, QueueTail
  <1>3. ASSUME NEW do, Queued(p, do)
        PROVE  Pending(c, do) /\ Head(client[p].window) = c.window[1]
    BY <1>2, <1>3 DEF Queued, Pending
  <1>4. ASSUME NEW d0, Run(p, d0)
        PROVE  /\ client' = [client EXCEPT ![p] = [d0 EXCEPT !.window = Tail(@)]]
               /\ UNCHANGED <<matchVars, connected, up, toClient, losses>>
    BY <1>4 DEF Run, Becomes
  <1>5. ASSUME NEW request, SendRequest(p, request)
        PROVE  toServer' = [toServer EXCEPT ![p] = IF up[p] THEN Append(r, request) ELSE r]
    BY <1>5 DEF SendRequest
  <1>6. ASSUME NEW request, Ask(p, request)
        PROVE  /\ c.scene = "GAME" /\ (Prompt => c.window = <<>>)
               /\ toServer' = [toServer EXCEPT ![p] = IF up[p] THEN Append(r, request) ELSE r]
               /\ UNCHANGED <<matchVars, connected, up, toClient, losses>>
    BY <1>5, <1>6 DEF Ask, Free
  <1>7. CASE RunSetScene(p)
    <2>1. Pending(c, "setScene") /\ Head(client[p].window) = c.window[1] /\ UNCHANGED toServer
      BY <1>3, <1>7 DEF RunSetScene
    <2> PICK d0 : d0 = [c EXCEPT !.scene = c.window[1].scene]
      OBVIOUS
    <2>2. Run(p, d0)
      BY <1>7, <2>1 DEF RunSetScene
    <2>3. [d0 EXCEPT !.window = Tail(@)] =
            [c EXCEPT !.scene = c.window[1].scene, !.window = Tail(c.window)]
      BY <1>1 DEF Clients
    <2>4. Changes(c, [d0 EXCEPT !.window = Tail(@)])
      BY <2>1, <2>3 DEF Changes
    <2> QED
      BY <1>4, <2>1, <2>2, <2>4 DEF Acted
  <1>8. CASE RunResume(p)
    <2>1. Pending(c, "resume")
      BY <1>3, <1>8 DEF RunResume
    <2>2. PICK fleet \in Fleets :
            Run(p, [c EXCEPT !.model = TRUE, !.gameStatus = "null",
                             !.myBoard = convertStringToBoard(fleet),
                             !.enemyBoard = Blank, !.scene = "GAME"])
      BY <1>8 DEF RunResume
    <2> PICK d0 : d0 = [c EXCEPT !.model = TRUE, !.gameStatus = "null",
                                 !.myBoard = convertStringToBoard(fleet),
                                 !.enemyBoard = Blank, !.scene = "GAME"]
      OBVIOUS
    <2>3. [d0 EXCEPT !.window = Tail(@)] =
            [c EXCEPT !.model = TRUE, !.gameStatus = "null",
                      !.myBoard = convertStringToBoard(fleet),
                      !.enemyBoard = Blank, !.scene = "GAME", !.window = Tail(c.window)]
      BY <1>1 DEF Clients
    <2>4. Sends(c, [d0 EXCEPT !.window = Tail(@)], Msg("game_info_req"))
      BY <2>1, <2>3 DEF Sends
    <2>5. SendRequest(p, Msg("game_info_req")) /\ Msg("game_info_req").type = "game_info_req"
      BY <1>8 DEF RunResume, Msg
    <2> QED
      BY <1>4, <1>5, <2>2, <2>4, <2>5 DEF Acted
  <1>9. CASE RunSetStatus(p)
    <2>1. Pending(c, "setGameStatus") /\ Head(client[p].window) = c.window[1] /\ UNCHANGED toServer
      BY <1>3, <1>9 DEF RunSetStatus
    <2> PICK s : s = c.window[1].status
      OBVIOUS
    <2> PICK e : e = IF c.model THEN [c EXCEPT !.gameStatus = s] ELSE c
      OBVIOUS
    <2>2. PICK fleet \in Fleets :
            Run(p, [e EXCEPT !.myBoard = IF s = "PREPARING" /\ e.scene = "GAME"
                                         THEN convertStringToBoard(fleet) ELSE @])
      BY <1>9, <2>1 DEF RunSetStatus
    <2> PICK d0 : d0 = [e EXCEPT !.myBoard = IF s = "PREPARING" /\ e.scene = "GAME"
                                             THEN convertStringToBoard(fleet) ELSE @]
      OBVIOUS
    <2>3. [d0 EXCEPT !.window = Tail(@)] =
            [c EXCEPT !.gameStatus = IF c.model THEN c.window[1].status ELSE c.gameStatus,
                      !.myBoard = IF c.window[1].status = "PREPARING" /\ c.scene = "GAME"
                                  THEN convertStringToBoard(fleet) ELSE c.myBoard,
                      !.window = Tail(c.window)]
      BY <1>1 DEF Clients
    <2>4. Changes(c, [d0 EXCEPT !.window = Tail(@)])
      BY <2>1, <2>3 DEF Changes
    <2> QED
      BY <1>4, <2>1, <2>2, <2>4 DEF Acted
  <1>10. CASE RunFiredAt(p)
    <2>1. Pending(c, "setWaiting") /\ UNCHANGED toServer
      BY <1>3, <1>10 DEF RunFiredAt
    <2> PICK d0 : d0 = [c EXCEPT !.gameStatus = "WAITING"]
      OBVIOUS
    <2>2. Run(p, d0)
      BY <1>10 DEF RunFiredAt
    <2>3. [d0 EXCEPT !.window = Tail(@)] =
            [c EXCEPT !.gameStatus = "WAITING", !.window = Tail(c.window)]
      BY <1>1 DEF Clients
    <2>4. Changes(c, [d0 EXCEPT !.window = Tail(@)])
      BY <2>1, <2>3 DEF Changes
    <2> QED
      BY <1>4, <2>1, <2>2, <2>4 DEF Acted
  <1>11. CASE RunLeaveResult(p)
    <2>1. Pending(c, "leaveResult") /\ UNCHANGED toServer
      BY <1>3, <1>11 DEF RunLeaveResult
    <2> PICK d0 : d0 = [c EXCEPT !.scene = "LOBBY", !.model = FALSE, !.gameStatus = "null",
                                 !.myBoard = Blank, !.enemyBoard = Blank]
      OBVIOUS
    <2>2. Run(p, d0)
      BY <1>11 DEF RunLeaveResult
    <2>3. [d0 EXCEPT !.window = Tail(@)] =
            [c EXCEPT !.scene = "LOBBY", !.model = FALSE, !.gameStatus = "null",
                      !.myBoard = Blank, !.enemyBoard = Blank, !.window = Tail(c.window)]
      BY <1>1 DEF Clients
    <2>4. Changes(c, [d0 EXCEPT !.window = Tail(@)])
      BY <2>1, <2>3 DEF Changes
    <2> QED
      BY <1>4, <2>1, <2>2, <2>4 DEF Acted
  <1>12. CASE readyToPlay(p)
    <2> PICK request : request = [type |-> "game_prepared",
                                  layout |-> getMyBoardStringForm(c.myBoard)]
      OBVIOUS
    <2>1. /\ Ask(p, request) /\ c.gameStatus = "PREPARING" /\ UNCHANGED client
          /\ (Patient => ~Unanswered(p))
      BY <1>12 DEF readyToPlay
    <2>2. Sends(c, c, request)
      BY <1>6, <2>1 DEF Sends
    <2> QED
      BY <1>1, <1>6, <2>1, <2>2 DEF Acted
  <1>13. ASSUME NEW sq \in Clicks, handleRightCanvasClick(p, sq)
         PROVE  \E d, request :
                  /\ client' = [client EXCEPT ![p] = d] /\ Sends(c, d, request)
                  /\ Ask(p, request) /\ (Patient => ~Unanswered(p))
    <2> PICK request : request = [type |-> "game_fire_req", sq |-> sq]
      OBVIOUS
    <2> PICK d : d = [c EXCEPT !.window = <<FiredAt>> \o c.window]
      OBVIOUS
    <2>1. /\ Ask(p, request) /\ c.gameStatus = "PLAYING" /\ (Patient => ~Unanswered(p))
          /\ client' = [client EXCEPT ![p] = d]
      BY <1>13 DEF handleRightCanvasClick, Becomes
    <2>2. Sends(c, d, request)
      BY <1>6, <2>1 DEF Sends
    <2> QED
      BY <2>1, <2>2 DEF Acted
  <1>14. CASE handleLeave(p)
    <2>1. Ask(p, Msg("room_leave_req")) /\ UNCHANGED client
      BY <1>14 DEF handleLeave
    <2>2. Sends(c, c, Msg("room_leave_req")) /\ Msg("room_leave_req").type = "room_leave_req"
      BY <1>6, <2>1 DEF Sends, Msg
    <2> QED
      BY <1>1, <1>6, <2>1, <2>2 DEF Acted
  <1>15. CASE handleContinue(p)
    <2>1. /\ client' = [client EXCEPT ![p] = Later(c, LeaveResult)]
          /\ c.scene = "GAME_RESULT" /\ c.window = <<>>
          /\ UNCHANGED <<matchVars, netVars, losses>>
      BY <1>15 DEF handleContinue, Becomes
    <2>2. Changes(c, Later(c, LeaveResult))
      BY <2>1 DEF Changes
    <2> QED
      BY <2>1, <2>2 DEF netVars, Acted
  <1>16. CASE \E sq \in Clicks : handleRightCanvasClick(p, sq)
    BY <1>6, <1>13, <1>16 DEF Acted
  <1> QED
    BY <1>7, <1>8, <1>9, <1>10, <1>11, <1>12, <1>14, <1>15, <1>16 DEF Acts, Window

-----------------------------------------------------------------------------
(* They are all typed *)

LEMMA ReplyFields ==
  ASSUME NEW m \in Replies
  PROVE  /\ m.type \in {"login_ok", "game_info_data"} => m.state \in States
         /\ m.type = "game_info_data" => m.my \in Strings /\ m.enemy \in Strings
         /\ m.type \in {"game_fire_ok", "game_opp_fire"} => m.shot \in ShotData
         /\ m.type \in {"game_conn", "game_prepared_ok", "game_prepared_err", "game_play",
                        "game_fire_err", "game_end", "eof", "login_ok", "game_info_data",
                        "game_fire_ok", "game_opp_fire"}
  BY DEF Replies

LEMMA ActionsAre ==
  /\ \A s \in Scenes : Show(s) \in Actions
  /\ \A s \in States : SetStatus(Status(s)) \in Actions /\ Status(s) \in Statuses
  /\ Resume \in Actions /\ FiredAt \in Actions /\ LeaveResult \in Actions
  BY DEF Show, SetStatus, Resume, FiredAt, LeaveResult, Actions, Status, Statuses

LEMMA ActionFields ==
  ASSUME NEW a \in Actions
  PROVE  /\ a.do = "setScene" => a.scene \in Scenes
         /\ a.do = "setGameStatus" => a.status \in Statuses
         /\ a.do \in {"setScene", "setGameStatus", "resume", "setWaiting", "leaveResult"}
  BY DEF Actions

LEMMA LaterTyped ==
  ASSUME NEW c \in Clients, NEW action \in Actions
  PROVE  Later(c, action) \in Clients
  <1>1. Append(c.window, action) \in Seq(Actions)
    BY QueueAdd DEF Clients
  <1> QED
    BY <1>1 DEF Later, Clients

LEMMA ReadsTyped ==
  ASSUME NEW c \in Clients, NEW m \in Replies, NEW d, Reads(c, m, d)
  PROVE  d \in Clients
  <1>1. /\ \A s \in {"CONNECT", "LOBBY", "GAME", "GAME_RESULT"} : Show(s) \in Actions
        /\ Resume \in Actions
        /\ \A s \in States : SetStatus(Status(s)) \in Actions
    BY ActionsAre DEF Scenes
  <1>2. \A lay : convertStringToBoard(lay) \in Boards
    BY ConvertTyped
  <1>3. Blank \in Boards
    BY BlankTyped
  <1>4. ASSUME NEW s \in ShotData, NEW b \in Boards
        PROVE  Shot(b, s.sq, s.status, s.destroyed) \in Boards
    BY <1>4, ShotTyped DEF ShotData
  <1>5. CASE m.type = "login_ok"
    <2>1. d = c \/ d = Later(c, Show("LOBBY")) \/ d = Later(c, Resume) \/ d = Dead(c)
      BY <1>5 DEF Reads
    <2>2. Show("LOBBY") \in Actions /\ Resume \in Actions
      BY <1>1
    <2>3. Later(c, Show("LOBBY")) \in Clients /\ Later(c, Resume) \in Clients
      BY <2>2, LaterTyped
    <2>4. Dead(c) \in Clients
      BY DEF Clients, Dead
    <2> QED
      BY <2>1, <2>3, <2>4
  <1>6. CASE m.type = "game_info_data"
    <2> PICK c1 : c1 = [c EXCEPT !.myBoard = convertStringToBoard(m.my),
                                 !.enemyBoard = convertStringToBoard(m.enemy)]
      OBVIOUS
    <2>1. d = Later(c1, SetStatus(Status(m.state))) \/ d = Dead(c)
      BY <1>6 DEF Reads
    <2>2. c1 \in Clients
      BY <1>2 DEF Clients
    <2>3. SetStatus(Status(m.state)) \in Actions
      BY <1>1, <1>6, ReplyFields
    <2>4. Dead(c) \in Clients
      BY DEF Clients, Dead
    <2> QED
      BY <2>1, <2>2, <2>3, <2>4, LaterTyped
  <1>7. CASE m.type = "game_conn"
    <2>1. ASSUME NEW fleet
          PROVE  [c EXCEPT !.myBoard = convertStringToBoard(fleet), !.enemyBoard = Blank,
                           !.gameStatus = "PREPARING"] \in Clients
      BY <1>2, <1>3 DEF Clients, Statuses
    <2>2. \/ d = c \/ d = Dead(c)
          \/ \E fleet \in Fleets :
               d = Later([c EXCEPT !.myBoard = convertStringToBoard(fleet),
                                   !.enemyBoard = Blank,
                                   !.gameStatus = "PREPARING"], Show("GAME"))
      BY <1>7 DEF Reads
    <2>3. Dead(c) \in Clients
      BY DEF Clients, Dead
    <2> QED
      BY <1>1, <2>1, <2>2, <2>3, LaterTyped
  <1>8. CASE m.type \in {"game_prepared_ok", "game_prepared_err", "game_play", "game_fire_err"}
    <2> PICK c1 : c1 = [c EXCEPT !.gameStatus = "PREPARING"]
      OBVIOUS
    <2>1. \/ d = [c EXCEPT !.gameStatus = "WAITING"] \/ d = [c EXCEPT !.gameStatus = "PLAYING"]
          \/ d = Later(c1, Show("GAME")) \/ d = Dead(c)
      BY <1>8 DEF Reads
    <2>2. /\ [c EXCEPT !.gameStatus = "WAITING"] \in Clients
          /\ [c EXCEPT !.gameStatus = "PLAYING"] \in Clients
          /\ c1 \in Clients /\ Dead(c) \in Clients
      BY DEF Clients, Statuses, Dead
    <2> QED
      BY <1>1, <2>1, <2>2, LaterTyped
  <1>9. CASE m.type = "game_fire_ok"
    <2>1. m.shot \in ShotData
      BY <1>9, ReplyFields
    <2> PICK b : b = Shot(c.enemyBoard, m.shot.sq, m.shot.status, m.shot.destroyed)
      OBVIOUS
    <2>2. b \in Boards
      BY <1>4, <2>1 DEF Clients
    <2>3. d = [c EXCEPT !.enemyBoard = b, !.gameStatus = "WAITING"] \/ d = Dead(c)
      BY <1>9 DEF Reads
    <2> QED
      BY <2>2, <2>3 DEF Clients, Statuses, Dead
  <1>10. CASE m.type = "game_opp_fire"
    <2>1. m.shot \in ShotData
      BY <1>10, ReplyFields
    <2> PICK b : b = Shot(c.myBoard, m.shot.sq, m.shot.status, m.shot.destroyed)
      OBVIOUS
    <2>2. b \in Boards
      BY <1>4, <2>1 DEF Clients
    <2>3. d = [c EXCEPT !.myBoard = b, !.gameStatus = "PLAYING"] \/ d = Dead(c)
      BY <1>10 DEF Reads
    <2> QED
      BY <2>2, <2>3 DEF Clients, Statuses, Dead
  <1>11. CASE m.type = "game_end"
    <2>1. d = c \/ d = Later(c, Show("GAME_RESULT")) \/ d = Dead(c)
      BY <1>11 DEF Reads
    <2> QED
      <3>1. Later(c, Show("GAME_RESULT")) \in Clients
        BY <1>1, LaterTyped
      <3>2. Dead(c) \in Clients
        BY DEF Clients, Dead
      <3> QED
        BY <2>1, <3>1, <3>2
  <1>12. CASE m.type = "eof"
    <2> PICK c1 : c1 = Later(c, Show("CONNECT"))
      OBVIOUS
    <2>1. c1 \in Clients
      BY <1>1, LaterTyped
    <2>2. d = [c1 EXCEPT !.reader = "stopped"] \/ d = Dead(c)
      BY <1>12 DEF Reads
    <2> QED
      <3>1. Dead(c) \in Clients
        BY DEF Clients, Dead
      <3>2. [c1 EXCEPT !.reader = "stopped"] \in Clients
        BY <2>1 DEF Clients
      <3> QED
        BY <2>2, <3>1, <3>2
  <1> QED
    BY <1>5, <1>6, <1>7, <1>8, <1>9, <1>10, <1>11, <1>12, ReplyFields

LEMMA ChangesTyped ==
  ASSUME NEW c \in Clients, NEW d, Changes(c, d)
  PROVE  d \in Clients
  <1>1. c.window \in Seq(Actions)
    BY DEF Clients
  <1>2. c.window # <<>> => c.window[1] \in Actions /\ Tail(c.window) \in Seq(Actions)
    BY <1>1, QueueTail
  <1> PICK t : t = Tail(c.window)
    OBVIOUS
  <1>3. CASE /\ Pending(c, "setScene")
             /\ d = [c EXCEPT !.scene = c.window[1].scene, !.window = Tail(c.window)]
    <2>1. c.window[1].scene \in Scenes /\ t \in Seq(Actions)
      BY <1>2, <1>3, ActionFields DEF Pending
    <2> QED
      BY <1>3, <2>1 DEF Clients
  <1>4. ASSUME Pending(c, "setGameStatus"), NEW b \in Boards,
               d = [c EXCEPT !.gameStatus = IF c.model THEN c.window[1].status ELSE c.gameStatus,
                             !.myBoard = b, !.window = Tail(c.window)]
        PROVE  d \in Clients
    <2>1. c.window[1].status \in Statuses /\ t \in Seq(Actions)
      BY <1>2, <1>4, ActionFields DEF Pending
    <2> PICK s \in Statuses : s = IF c.model THEN c.window[1].status ELSE c.gameStatus
      BY <2>1 DEF Clients
    <2> QED
      BY <1>4, <2>1 DEF Clients
  <1>5. CASE /\ Pending(c, "setWaiting")
             /\ d = [c EXCEPT !.gameStatus = "WAITING", !.window = Tail(c.window)]
    BY <1>2, <1>5 DEF Pending, Clients, Statuses
  <1>6. CASE /\ Pending(c, "leaveResult")
             /\ d = [c EXCEPT !.scene = "LOBBY", !.model = FALSE, !.gameStatus = "null",
                              !.myBoard = Blank, !.enemyBoard = Blank, !.window = Tail(c.window)]
    BY <1>2, <1>6, BlankTyped DEF Pending, Clients, Statuses, Scenes
  <1>7. CASE d = Later(c, LeaveResult)
    BY <1>7, LaterTyped, ActionsAre
  <1>8. ASSUME Pending(c, "setGameStatus"), NEW fleet,
               d = [c EXCEPT !.gameStatus = IF c.model THEN c.window[1].status ELSE c.gameStatus,
                             !.myBoard = IF c.window[1].status = "PREPARING" /\ c.scene = "GAME"
                                         THEN convertStringToBoard(fleet) ELSE c.myBoard,
                             !.window = Tail(c.window)]
        PROVE  d \in Clients
    <2> PICK b : b = IF c.window[1].status = "PREPARING" /\ c.scene = "GAME"
                     THEN convertStringToBoard(fleet) ELSE c.myBoard
      OBVIOUS
    <2>1. b \in Boards
      BY ConvertTyped DEF Clients
    <2> QED
      BY <1>4, <1>8, <2>1
  <1> QED
    BY <1>3, <1>5, <1>6, <1>7, <1>8 DEF Changes

LEMMA SendsTyped ==
  ASSUME NEW c \in Clients, NEW d, NEW request, Sends(c, d, request)
  PROVE  /\ d \in Clients /\ request \in Requests
         /\ request.type \in {"game_info_req", "game_prepared", "game_fire_req",
                              "room_leave_req"}
  <1>1. c.window \in Seq(Actions) /\ c.myBoard \in Boards
    BY DEF Clients
  <1>2. /\ Msg("game_info_req") \in Requests /\ Msg("room_leave_req") \in Requests
        /\ Msg("game_info_req").type = "game_info_req"
        /\ Msg("room_leave_req").type = "room_leave_req"
    BY DEF Msg, Requests
  <1>3. ASSUME Pending(c, "resume"), NEW fleet,
               d = [c EXCEPT !.model = TRUE, !.gameStatus = "null",
                             !.myBoard = convertStringToBoard(fleet),
                             !.enemyBoard = Blank, !.scene = "GAME", !.window = Tail(c.window)]
        PROVE  d \in Clients
    <2>1. Tail(c.window) \in Seq(Actions)
      BY <1>1, <1>3, QueueTail DEF Pending
    <2>2. convertStringToBoard(fleet) \in Boards /\ Blank \in Boards
      BY ConvertTyped, BlankTyped
    <2> QED
      BY <1>3, <2>1, <2>2 DEF Clients, Scenes, Statuses
  <1>4. CASE /\ d = c
             /\ request = [type |-> "game_prepared", layout |-> getMyBoardStringForm(c.myBoard)]
    <2>1. getMyBoardStringForm(c.myBoard) \in Strings
      BY <1>1 DEF Strings
    <2> QED
      BY <1>4, <2>1 DEF Requests
  <1>5. ASSUME NEW sq \in Clicks, request = [type |-> "game_fire_req", sq |-> sq],
               d = [c EXCEPT !.window = <<FiredAt>> \o c.window]
        PROVE  d \in Clients /\ request \in Requests /\ request.type = "game_fire_req"
    <2>1. <<FiredAt>> \in Seq(Actions)
      BY ActionsAre
    <2>2. <<FiredAt>> \o c.window \in Seq(Actions)
      BY <1>1, <2>1, ConcatProperties
    <2>3. sq \in Cells
      BY SystemAssumption
    <2> QED
      BY <1>5, <2>2, <2>3 DEF Clients, Requests
  <1> QED
    BY <1>2, <1>3, <1>4, <1>5 DEF Sends

-----------------------------------------------------------------------------
(* The server's answers *)

LEMMA RequestFields ==
  ASSUME NEW m \in Requests
  PROVE  /\ m.type = "game_prepared" => m.layout \in Strings
         /\ m.type = "game_fire_req" => m.sq \in Cells
         /\ m.type \in {"login_req", "game_info_req", "room_leave_req", "eof", "game_prepared",
                        "game_fire_req"}
  BY DEF Requests

LEMMA StateTyped ==
  ASSUME MatchInv
  PROVE  state \in [Player -> States] /\ board \in [Player -> Boards]
  BY DEF MatchInv, TypeOK, States, Boards

LEMMA RequestDoes ==
  ASSUME LineTypeOK, NEW p \in Player, NEW type, Request(p, type), NEW r, r = toServer[p]
  PROVE  /\ r \in Seq(Requests) /\ r # <<>> /\ r[1] \in Requests /\ r[1].type = type
         /\ Head(toServer[p]) = r[1]
         /\ toServer' = [toServer EXCEPT ![p] = Tail(r)]
         /\ toServer' \in [Player -> Seq(Requests)]
         /\ UNCHANGED <<up, client, losses>>
  <1>1. r \in Seq(Requests) /\ r # <<>>
    BY DEF LineTypeOK, Request
  <1>2. Head(r) = r[1] /\ r[1] \in Requests /\ Tail(r) \in Seq(Requests)
    BY <1>1, QueueTail
  <1> QED
    BY <1>1, <1>2 DEF Request, LineTypeOK

LEMMA PlainReplies ==
  /\ \A type \in {"game_conn", "game_prepared_ok", "game_prepared_err", "game_play",
                  "game_fire_err", "game_end", "eof"} :
       Msg(type) \in Replies /\ <<Msg(type)>> \in Seq(Replies) /\ Msg(type).type = type
  /\ <<>> \in Seq(Replies)
  <1>1. ASSUME NEW type \in {"game_conn", "game_prepared_ok", "game_prepared_err", "game_play",
                             "game_fire_err", "game_end", "eof"}
        PROVE  Msg(type) \in Replies /\ Msg(type).type = type
    BY DEF Msg, Replies
  <1>2. \A m \in Replies : <<m>> \in Seq(Replies)
    OBVIOUS
  <1>3. <<>> \in Seq(Replies)
    OBVIOUS
  <1> QED
    BY <1>1, <1>2, <1>3

\* What is sent to a player of a connection that works is the last to arrive.
Sent(out) ==
  /\ out \in [Player -> Seq(Replies)]
  /\ \A q \in Player : toClient'[q] = IF connected'[q] /\ up[q] THEN toClient[q] \o out[q]
                                      ELSE toClient[q]

LEMMA SentTyped ==
  ASSUME LineTypeOK, connected' \in [Player -> BOOLEAN],
         NEW out \in [Player -> Seq(Replies)], SendAll(out)
  PROVE  Sent(out) /\ toClient' \in [Player -> Seq(Replies)]
  <1>1. toClient' = [q \in Player |-> IF connected'[q] /\ up[q] THEN toClient[q] \o out[q]
                                      ELSE toClient[q]]
    BY DEF SendAll
  <1>2. ASSUME NEW q \in Player
        PROVE  toClient[q] \in Seq(Replies) /\ toClient[q] \o out[q] \in Seq(Replies)
    BY ConcatProperties DEF LineTypeOK
  <1> QED
    BY <1>1, <1>2 DEF Sent

LEMMA OnlyTyped ==
  ASSUME NEW p \in Player, NEW out \in Seq(Replies)
  PROVE  /\ Only(p, out) \in [Player -> Seq(Replies)]
         /\ Only(p, out)[p] = out
         /\ \A q \in Player : q # p => Only(p, out)[q] = <<>>
  <1>1. <<>> \in Seq(Replies)
    OBVIOUS
  <1> QED
    BY <1>1 DEF Only

LEMMA LoginDoes ==
  ASSUME SysTypes, NEW p \in Player, ServeLogin(p)
  PROVE  /\ Request(p, "login_req") /\ UNCHANGED matchVars
         /\ connected' = [connected EXCEPT ![p] = TRUE]
         /\ Sent(Only(p, <<[type |-> "login_ok", state |-> state[p]]>>))
         /\ LineTypeOK'
  <1>1. Request(p, "login_req") /\ UNCHANGED matchVars /\ LineTypeOK
        /\ connected' = [connected EXCEPT ![p] = TRUE]
        /\ SendAll(Only(p, <<[type |-> "login_ok", state |-> state[p]]>>))
    BY DEF ServeLogin, SysTypes
  <1>2. connected' \in [Player -> BOOLEAN]
    BY <1>1 DEF LineTypeOK
  <1>3. state[p] \in States
    BY StateTyped DEF SysTypes
  <1>4. <<[type |-> "login_ok", state |-> state[p]]>> \in Seq(Replies)
    BY <1>3 DEF Replies
  <1>5. Only(p, <<[type |-> "login_ok", state |-> state[p]]>>) \in [Player -> Seq(Replies)]
    BY <1>4, OnlyTyped
  <1>6. /\ Sent(Only(p, <<[type |-> "login_ok", state |-> state[p]]>>))
        /\ toClient' \in [Player -> Seq(Replies)]
    BY <1>1, <1>2, <1>5, SentTyped
  <1>7. toServer' \in [Player -> Seq(Requests)] /\ UNCHANGED up
    BY <1>1, RequestDoes
  <1> QED
    BY <1>1, <1>2, <1>6, <1>7 DEF LineTypeOK

Play == IF \E q \in Player : /\ state'[q] = STATE_IN_GAME_PLAYING
                             /\ state[q] # STATE_IN_GAME_PLAYING
        THEN <<Msg("game_play")>> ELSE <<>>

LEMMA PreparedDoes ==
  ASSUME SysTypes, NEW p \in Player, ServePrepared(p), NEW r, r = toServer[p]
  PROVE  /\ Request(p, "game_prepared") /\ UNCHANGED connected
         /\ r[1].layout \in Seq(Int) /\ cmd_game_prepared(p, r[1].layout)
         /\ Sent([q \in Player |->
                    (IF q = p THEN IF error' = OK THEN <<Msg("game_prepared_ok")>>
                                   ELSE <<Msg("game_prepared_err")>>
                     ELSE <<>>) \o (IF q = 1 THEN Play ELSE <<>>)])
         /\ LineTypeOK'
  <1> PICK reply : reply = IF error' = OK THEN <<Msg("game_prepared_ok")>>
                           ELSE <<Msg("game_prepared_err")>>
    OBVIOUS
  <1> PICK out : out = [q \in Player |-> (IF q = p THEN reply ELSE <<>>)
                                           \o (IF q = 1 THEN Play ELSE <<>>)]
    OBVIOUS
  <1>1. /\ Request(p, "game_prepared") /\ UNCHANGED connected /\ LineTypeOK
        /\ cmd_game_prepared(p, Head(toServer[p]).layout) /\ SendAll(out)
    BY DEF ServePrepared, Play, SysTypes
  <1>2. /\ Head(toServer[p]) = r[1] /\ r[1] \in Requests /\ r[1].type = "game_prepared"
        /\ toServer' \in [Player -> Seq(Requests)] /\ UNCHANGED up
    BY <1>1, RequestDoes
  <1>3. r[1].layout \in Seq(Int)
    <2>1. r[1].layout \in Strings
      BY <1>2, RequestFields
    <2> QED
      BY <2>1, StringTyped DEF Strings
  <1>4. reply \in Seq(Replies) /\ Play \in Seq(Replies) /\ <<>> \in Seq(Replies)
    <2>1. <<Msg("game_prepared_ok")>> \in Seq(Replies)
      BY PlainReplies
    <2>2. <<Msg("game_prepared_err")>> \in Seq(Replies)
      BY PlainReplies
    <2>3. <<Msg("game_play")>> \in Seq(Replies) /\ <<>> \in Seq(Replies)
      BY PlainReplies
    <2> QED
      BY <2>1, <2>2, <2>3 DEF Play
  <1>5. out \in [Player -> Seq(Replies)]
    <2>1. ASSUME NEW q \in Player
          PROVE  (IF q = p THEN reply ELSE <<>>) \o (IF q = 1 THEN Play ELSE <<>>)
                   \in Seq(Replies)
      BY <1>4, ConcatProperties
    <2> QED
      BY <2>1
  <1>6. Sent(out) /\ toClient' \in [Player -> Seq(Replies)]
    BY <1>1, <1>5, SentTyped DEF LineTypeOK
  <1> QED
    BY <1>1, <1>2, <1>3, <1>6 DEF LineTypeOK

\* The result of a shot as both players are told.
ShotAt(p, sq) ==
  [sq |-> sq, status |-> IF Target(p, sq) = Empty THEN Miss ELSE Hit,
   destroyed |-> count'[p] # count[p]]

LEMMA FireDoes ==
  ASSUME SysTypes, NEW p \in Player, ServeFire(p), NEW r, r = toServer[p]
  PROVE  /\ Request(p, "game_fire_req") /\ UNCHANGED connected
         /\ r[1].sq \in Cells /\ cmd_game_fire(p, r[1].sq[1], r[1].sq[2])
         /\ Sent(IF error' = OK
                 THEN [q \in Player |->
                         <<[type |-> IF q = p THEN "game_fire_ok" ELSE "game_opp_fire",
                            shot |-> ShotAt(p, r[1].sq)]>>
                           \o (IF winner' # winner THEN <<Msg("game_end")>> ELSE <<>>)]
                 ELSE Only(p, <<Msg("game_fire_err")>>))
         /\ ShotAt(p, r[1].sq) \in ShotData
         /\ LineTypeOK'
  <1>1. /\ Request(p, "game_fire_req") /\ UNCHANGED connected /\ LineTypeOK
    BY DEF ServeFire, SysTypes
  <1>2. /\ Head(toServer[p]) = r[1] /\ r[1] \in Requests /\ r[1].type = "game_fire_req"
        /\ toServer' \in [Player -> Seq(Requests)] /\ UNCHANGED up
    BY <1>1, RequestDoes
  <1>3. r[1].sq \in Cells
    BY <1>2, RequestFields
  <1> PICK shot : shot = ShotAt(p, r[1].sq)
    OBVIOUS
  <1>4. shot \in ShotData
    BY <1>3 DEF ShotAt, ShotData
  <1> PICK end : end = IF winner' # winner THEN <<Msg("game_end")>> ELSE <<>>
    OBVIOUS
  <1> PICK out : out = IF error' = OK
                 THEN [q \in Player |->
                         <<[type |-> IF q = p THEN "game_fire_ok" ELSE "game_opp_fire",
                            shot |-> shot]>> \o end]
                 ELSE Only(p, <<Msg("game_fire_err")>>)
    OBVIOUS
  <1>5. SendAll(out) /\ cmd_game_fire(p, r[1].sq[1], r[1].sq[2])
    BY <1>2 DEF ServeFire, ShotAt
  <1>6. end \in Seq(Replies) /\ <<Msg("game_fire_err")>> \in Seq(Replies)
    <2>1. <<Msg("game_end")>> \in Seq(Replies) /\ <<>> \in Seq(Replies)
      BY PlainReplies
    <2>2. <<Msg("game_fire_err")>> \in Seq(Replies)
      BY PlainReplies
    <2> QED
      BY <2>1, <2>2
  <1>7. out \in [Player -> Seq(Replies)]
    <2>1. ASSUME NEW q \in Player
          PROVE  <<[type |-> IF q = p THEN "game_fire_ok" ELSE "game_opp_fire",
                    shot |-> shot]>> \o end \in Seq(Replies)
      <3>1. <<[type |-> IF q = p THEN "game_fire_ok" ELSE "game_opp_fire",
               shot |-> shot]>> \in Seq(Replies)
        BY <1>4 DEF Replies
      <3> QED
        BY <1>6, <3>1, ConcatProperties
    <2>2. CASE error' = OK
      BY <2>1, <2>2
    <2>3. CASE error' # OK
      BY <1>6, <2>3, OnlyTyped
    <2> QED
      BY <2>2, <2>3
  <1>8. Sent(out) /\ toClient' \in [Player -> Seq(Replies)]
    BY <1>1, <1>5, <1>7, SentTyped DEF LineTypeOK
  <1> QED
    BY <1>1, <1>2, <1>3, <1>4, <1>5, <1>8 DEF LineTypeOK

\* The answer to game_info_req.
Info(p) ==
  [type |-> "game_info_data", state |-> state[p], my |-> getMyBoardStringForm(board[p]),
   enemy |-> getMyBoardStringForm(Masked(board[Opponent(p)]))]

LEMMA InfoDoes ==
  ASSUME SysTypes, NEW p \in Player, ServeInfo(p)
  PROVE  /\ Request(p, "game_info_req") /\ UNCHANGED <<matchVars, connected>>
         /\ Sent(Only(p, IF InGame(p) THEN <<Info(p)>> ELSE <<>>))
         /\ LineTypeOK'
  <1>1. /\ Request(p, "game_info_req") /\ UNCHANGED <<matchVars, connected>> /\ LineTypeOK
    BY DEF ServeInfo, SysTypes
  <1>2. /\ toServer' \in [Player -> Seq(Requests)] /\ UNCHANGED up
    BY <1>1, RequestDoes
  <1>3. state[p] \in States /\ board[p] \in Boards /\ Masked(board[Opponent(p)]) \in Boards
    BY StateTyped, MaskTyped, Players DEF SysTypes
  <1>4. Info(p) \in Replies
    <2>1. /\ getMyBoardStringForm(board[p]) \in Strings
          /\ getMyBoardStringForm(Masked(board[Opponent(p)])) \in Strings
      BY <1>3 DEF Strings
    <2> QED
      BY <1>3, <2>1 DEF Info, Replies
  <1> PICK m : m = Info(p)
    OBVIOUS
  <1>5. <<m>> \in Seq(Replies) /\ <<>> \in Seq(Replies)
    BY <1>4
  <1> PICK out : out = Only(p, IF InGame(p) THEN <<m>> ELSE <<>>)
    OBVIOUS
  <1>6. SendAll(out)
    BY DEF ServeInfo, Info
  <1>7. out \in [Player -> Seq(Replies)]
    BY <1>5, OnlyTyped
  <1>8. Sent(out) /\ toClient' \in [Player -> Seq(Replies)]
    BY <1>1, <1>6, <1>7, SentTyped DEF LineTypeOK
  <1> QED
    BY <1>1, <1>2, <1>8 DEF LineTypeOK

LEMMA LeaveDoes ==
  ASSUME SysTypes, NEW p \in Player, ServeLeave(p)
  PROVE  /\ Request(p, "room_leave_req") /\ UNCHANGED connected
         /\ \/ InGame(p) /\ Leave(p) /\ Sent(GameEnd)
            \/ ~InGame(p) /\ UNCHANGED matchVars /\ Sent(Only(p, <<>>))
         /\ LineTypeOK'
  <1>1. /\ Request(p, "room_leave_req") /\ UNCHANGED connected /\ LineTypeOK
    BY DEF ServeLeave, SysTypes
  <1>2. /\ toServer' \in [Player -> Seq(Requests)] /\ UNCHANGED up
    BY <1>1, RequestDoes
  <1>3. GameEnd \in [Player -> Seq(Replies)]
    <2>1. <<Msg("game_end")>> \in Seq(Replies)
      BY PlainReplies
    <2> QED
      BY <2>1 DEF GameEnd
  <1>4. Only(p, <<>>) \in [Player -> Seq(Replies)]
    <2>1. <<>> \in Seq(Replies)
      OBVIOUS
    <2> QED
      BY <2>1, OnlyTyped
  <1>5. \/ InGame(p) /\ Leave(p) /\ SendAll(GameEnd)
        \/ ~InGame(p) /\ UNCHANGED matchVars /\ SendAll(Only(p, <<>>))
    BY DEF ServeLeave
  <1>6. connected' \in [Player -> BOOLEAN]
    BY <1>1 DEF LineTypeOK
  <1>7. SendAll(GameEnd) => Sent(GameEnd) /\ toClient' \in [Player -> Seq(Replies)]
    BY <1>1, <1>3, <1>6, SentTyped
  <1>8. SendAll(Only(p, <<>>)) => Sent(Only(p, <<>>)) /\ toClient' \in [Player -> Seq(Replies)]
    BY <1>1, <1>4, <1>6, SentTyped
  <1> QED
    BY <1>1, <1>2, <1>5, <1>6, <1>7, <1>8 DEF LineTypeOK

LEMMA EofDoes ==
  ASSUME SysTypes, NEW p \in Player, ServeEof(p)
  PROVE  /\ Request(p, "eof") /\ connected' = [connected EXCEPT ![p] = FALSE]
         /\ UNCHANGED toClient
         /\ \/ /\ connected[p] /\ InGame(p) /\ ~connected[Opponent(p)] /\ BothLost
            \/ /\ ~(connected[p] /\ InGame(p) /\ ~connected[Opponent(p)])
               /\ UNCHANGED matchVars
         /\ LineTypeOK'
  <1>1. /\ Request(p, "eof") /\ server_disconnect(p) /\ LineTypeOK
    BY DEF ServeEof, SysTypes
  <1>2. /\ toServer' \in [Player -> Seq(Requests)] /\ UNCHANGED up
    BY <1>1, RequestDoes
  <1>3. connected' = [connected EXCEPT ![p] = FALSE] /\ UNCHANGED toClient
    BY <1>1 DEF server_disconnect
  <1>4. connected' \in [Player -> BOOLEAN]
    BY <1>1, <1>3 DEF LineTypeOK
  <1> QED
    BY <1>1, <1>2, <1>3, <1>4 DEF LineTypeOK, server_disconnect

-----------------------------------------------------------------------------
(* The types, and the rules of the game *)

LEMMA CutDoes ==
  ASSUME NEW S, NEW q \in Seq(S), Eof \in S, NEW m \in Cut(q)
  PROVE  /\ m \in Seq(S) /\ m # <<>> /\ Len(m) \in Nat \ {0} /\ DOMAIN m = 1 .. Len(m)
         /\ m[Len(m)] = Eof /\ Len(m) - 1 <= Len(q)
         /\ \A i \in 1 .. (Len(m) - 1) : m[i] = q[i]
  <1>1. PICK n \in 0 .. Len(q) : m = SubSeq(q, 1, n) \o <<Eof>>
    BY DEF Cut
  <1> PICK s : s = SubSeq(q, 1, n)
    OBVIOUS
  <1>2. s \in Seq(S) /\ Len(s) = n /\ \A i \in 1 .. n : s[i] = q[i]
    <2>1. 1 \in 1 .. Len(q) + 1 /\ n \in 0 .. Len(q) /\ Len(q) \in Nat
      BY LenProperties
    <2>2. \A i \in 1 .. n : i \in 1 .. Len(q) /\ q[i] \in S
      BY <2>1, ElementOfSeq
    <2>3. s \in Seq(S)
      BY <2>1, <2>2, SubSeqProperties
    <2>4. Len(s) = n /\ \A i \in 1 .. n : s[i] = q[1 + i - 1]
      BY <2>1, SubSeqProperties
    <2> QED
      BY <2>1, <2>3, <2>4
  <1>3. m = Append(s, Eof)
    BY <1>1, <1>2, AppendIsConcat
  <1> QED
    BY <1>1, <1>2, <1>3, QueueAdd

LEMMA ServePlays ==
  ASSUME SysTypes, NEW p \in Player, Serve(p)
  PROVE  /\ Played \/ UNCHANGED vars
         /\ LineTypeOK' /\ UNCHANGED <<up, client, losses>>
  <1>1. ASSUME NEW type, Request(p, type)
        PROVE  UNCHANGED <<up, client, losses>>
    BY <1>1 DEF Request
  <1>2. CASE ServeLogin(p)
    BY <1>1, <1>2, LoginDoes DEF matchVars
  <1>3. CASE ServePrepared(p)
    <2> PICK r : r = toServer[p]
      OBVIOUS
    <2>1. /\ Request(p, "game_prepared") /\ LineTypeOK'
          /\ r[1].layout \in Seq(Int) /\ cmd_game_prepared(p, r[1].layout)
      BY <1>3, PreparedDoes
    <2> QED
      BY <1>1, <2>1 DEF Played
  <1>4. CASE ServeFire(p)
    <2> PICK r : r = toServer[p]
      OBVIOUS
    <2>1. /\ Request(p, "game_fire_req") /\ LineTypeOK'
          /\ cmd_game_fire(p, r[1].sq[1], r[1].sq[2])
      BY <1>4, FireDoes
    <2> QED
      BY <1>1, <2>1 DEF Played
  <1>5. CASE ServeInfo(p)
    BY <1>1, <1>5, InfoDoes DEF matchVars
  <1>6. CASE ServeLeave(p)
    BY <1>1, <1>6, LeaveDoes DEF matchVars, Played
  <1>7. CASE ServeEof(p)
    BY <1>1, <1>7, EofDoes DEF matchVars, Played
  <1> QED
    BY <1>2, <1>3, <1>4, <1>5, <1>6, <1>7 DEF Serve

LEMMA ConnectDoes ==
  ASSUME LineTypeOK, ClientTypeOK, NEW p \in Player, connect(p), NEW c, c = client[p]
  PROVE  /\ c.scene = "CONNECT" /\ c.window = <<>> /\ c.reader = "stopped"
         /\ ~up[p] /\ toServer[p] = <<>>
         /\ up' = [up EXCEPT ![p] = TRUE]
         /\ toServer' = [toServer EXCEPT ![p] = <<Msg("login_req")>>]
         /\ toClient' = [toClient EXCEPT ![p] = <<>>]
         /\ client' = [client EXCEPT ![p] = [c EXCEPT !.reader = "running"]]
         /\ UNCHANGED <<matchVars, connected, losses>>
         /\ LineTypeOK' /\ ClientTypeOK'
  <1>1. /\ c.scene = "CONNECT" /\ c.window = <<>> /\ c.reader = "stopped"
        /\ ~up[p] /\ toServer[p] = <<>>
        /\ up' = [up EXCEPT ![p] = TRUE]
        /\ toServer' = [toServer EXCEPT ![p] = <<Msg("login_req")>>]
        /\ toClient' = [toClient EXCEPT ![p] = <<>>]
        /\ client' = [client EXCEPT ![p] = [c EXCEPT !.reader = "running"]]
        /\ UNCHANGED <<matchVars, connected, losses>>
    BY DEF connect, Becomes
  <1>2. Msg("login_req") \in Requests
    BY DEF Msg, Requests
  <1>3. <<Msg("login_req")>> \in Seq(Requests) /\ <<>> \in Seq(Replies)
    BY <1>2
  <1>4. LineTypeOK'
    BY <1>1, <1>3 DEF LineTypeOK
  <1>5. ClientTypeOK'
    <2>1. c \in Clients
      BY DEF ClientTypeOK
    <2>2. [c EXCEPT !.reader = "running"] \in Clients
      BY <2>1 DEF Clients
    <2> QED
      BY <1>1, <2>2 DEF ClientTypeOK
  <1> QED
    BY <1>1, <1>4, <1>5

LEMMA EofTyped == Eof \in Requests /\ Eof \in Replies /\ Eof.type = "eof"
  BY DEF Eof, Requests, Replies

LEMMA StartedTyped == Started \in Clients
  <1>1. <<>> \in Seq(Actions)
    OBVIOUS
  <1> QED
    BY <1>1, BlankTyped DEF Started, Clients, Scenes, Statuses

LEMMA LossDoes ==
  ASSUME LineTypeOK, NEW p \in Player, Loss(p)
  PROVE  /\ up[p] /\ up' = [up EXCEPT ![p] = FALSE] /\ UNCHANGED <<matchVars, connected, client>>
         /\ \E m \in Cut(toServer[p]) : toServer' = [toServer EXCEPT ![p] = m]
         /\ \E m : toClient' = [toClient EXCEPT ![p] = m]
         /\ LineTypeOK'
  <1>1. /\ up[p] /\ up' = [up EXCEPT ![p] = FALSE] /\ UNCHANGED <<matchVars, connected, client>>
    BY DEF Loss
  <1>2. PICK m \in Cut(toServer[p]), k \in Cut(toClient[p]) :
          /\ toServer' = [toServer EXCEPT ![p] = m]
          /\ toClient' = [toClient EXCEPT ![p] = k]
    BY DEF Loss
  <1>3. m \in Seq(Requests)
    BY EofTyped, CutDoes DEF LineTypeOK
  <1>4. k \in Seq(Replies)
    BY EofTyped, CutDoes DEF LineTypeOK
  <1>5. LineTypeOK'
    BY <1>1, <1>2, <1>3, <1>4 DEF LineTypeOK
  <1> QED
    BY <1>1, <1>2, <1>5

LEMMA CrashDoes ==
  ASSUME LineTypeOK, ClientTypeOK, NEW p \in Player, Crash(p)
  PROVE  /\ up' = [up EXCEPT ![p] = FALSE] /\ UNCHANGED <<matchVars, connected>>
         /\ client' = [client EXCEPT ![p] = Started]
         /\ \/ up[p] /\ \E m \in Cut(toServer[p]) : toServer' = [toServer EXCEPT ![p] = m]
            \/ ~up[p] /\ UNCHANGED toServer
         /\ toClient' = [toClient EXCEPT ![p] = <<>>]
         /\ LineTypeOK' /\ ClientTypeOK'
  <1>1. /\ up' = [up EXCEPT ![p] = FALSE] /\ UNCHANGED <<matchVars, connected>>
        /\ client' = [client EXCEPT ![p] = Started]
        /\ toClient' = [toClient EXCEPT ![p] = <<>>]
    BY DEF Crash, Becomes
  <1>2. PICK m : /\ m \in IF up[p] THEN Cut(toServer[p]) ELSE {toServer[p]}
                 /\ toServer' = [toServer EXCEPT ![p] = m]
    BY DEF Crash
  <1>3. \/ up[p] /\ \E k \in Cut(toServer[p]) : toServer' = [toServer EXCEPT ![p] = k]
        \/ ~up[p] /\ UNCHANGED toServer
    BY <1>2 DEF LineTypeOK
  <1>4. m \in Seq(Requests)
    <2>1. CASE up[p]
      <3>1. m \in Cut(toServer[p])
        BY <1>2, <2>1
      <3> QED
        BY <3>1, EofTyped, CutDoes DEF LineTypeOK
    <2>2. CASE ~up[p]
      BY <1>2, <2>2 DEF LineTypeOK
    <2> QED
      BY <2>1, <2>2
  <1>5. <<>> \in Seq(Replies)
    OBVIOUS
  <1>6. LineTypeOK'
    BY <1>1, <1>2, <1>4, <1>5 DEF LineTypeOK
  <1>7. ClientTypeOK'
    BY <1>1, StartedTyped DEF ClientTypeOK
  <1> QED
    BY <1>1, <1>3, <1>6, <1>7

LEMMA ReadKeepsTypes ==
  ASSUME LineTypeOK, ClientTypeOK, NEW p \in Player, Read(p)
  PROVE  LineTypeOK' /\ ClientTypeOK' /\ UNCHANGED vars
  <1> PICK c, q : c = client[p] /\ q = toClient[p]
    OBVIOUS
  <1>1. /\ q # <<>> /\ toClient' = [toClient EXCEPT ![p] = Tail(q)]
        /\ UNCHANGED <<matchVars, connected, up, toServer>>
        /\ \E d : Reads(c, q[1], d) /\ client' = [client EXCEPT ![p] = d]
    BY ReadDoes
  <1>2. PICK d : Reads(c, q[1], d) /\ client' = [client EXCEPT ![p] = d]
    BY <1>1
  <1>3. c \in Clients /\ q \in Seq(Replies)
    BY DEF LineTypeOK, ClientTypeOK
  <1>4. q[1] \in Replies /\ Tail(q) \in Seq(Replies)
    BY <1>1, <1>3, QueueTail
  <1>5. d \in Clients
    BY <1>2, <1>3, <1>4, ReadsTyped
  <1>6. LineTypeOK'
    BY <1>1, <1>4 DEF LineTypeOK
  <1>7. ClientTypeOK'
    BY <1>2, <1>5 DEF ClientTypeOK
  <1> QED
    BY <1>1, <1>6, <1>7 DEF matchVars

LEMMA ActKeepsTypes ==
  ASSUME LineTypeOK, ClientTypeOK, NEW p \in Player, Acts(p)
  PROVE  LineTypeOK' /\ ClientTypeOK' /\ UNCHANGED vars
  <1> PICK c, r : c = client[p] /\ r = toServer[p]
    OBVIOUS
  <1>1. /\ \E d : Acted(p, c, r, d)
        /\ UNCHANGED <<matchVars, connected, up, toClient, losses>>
    BY ActDoes
  <1>2. c \in Clients /\ r \in Seq(Requests)
    BY DEF LineTypeOK, ClientTypeOK
  <1>3. PICK d : Acted(p, c, r, d)
    BY <1>1
  <1>4. CASE Changes(c, d) /\ UNCHANGED toServer
    <2>1. d \in Clients
      BY <1>2, <1>4, ChangesTyped
    <2> QED
      BY <1>1, <1>3, <1>4, <2>1 DEF Acted, LineTypeOK, ClientTypeOK, matchVars
  <1>5. ASSUME NEW request, Sends(c, d, request),
               toServer' = [toServer EXCEPT ![p] = IF up[p] THEN Append(r, request) ELSE r]
        PROVE  LineTypeOK' /\ ClientTypeOK' /\ UNCHANGED vars
    <2>1. d \in Clients /\ request \in Requests
      BY <1>2, <1>5, SendsTyped
    <2>2. Append(r, request) \in Seq(Requests)
      BY <1>2, <2>1, QueueAdd
    <2>3. LineTypeOK'
      BY <1>1, <1>2, <1>5, <2>2 DEF LineTypeOK
    <2> QED
      BY <1>1, <1>3, <2>1, <2>3 DEF Acted, ClientTypeOK, matchVars
  <1> QED
    BY <1>3, <1>4, <1>5 DEF Acted

LEMMA StepSplits ==
  SysNext => \E p \in Player : \/ Serve(p) \/ Read(p) \/ Acts(p) \/ connect(p)
                               \/ Loss(p) \/ Crash(p)
  BY DEF SysNext, User, Acts

LEMMA SysStepPlays ==
  ASSUME SysTypes, [SysNext]_sysVars
  PROVE  (Played \/ UNCHANGED vars) /\ LineTypeOK' /\ ClientTypeOK'
  <1>0. MatchInv /\ LineTypeOK /\ ClientTypeOK
    BY DEF SysTypes
  <1>1. ASSUME NEW p \in Player, Serve(p)
        PROVE  (Played \/ UNCHANGED vars) /\ LineTypeOK' /\ ClientTypeOK'
    BY <1>0, <1>1, ServePlays DEF ClientTypeOK
  <1>2. ASSUME NEW p \in Player, Read(p)
        PROVE  (Played \/ UNCHANGED vars) /\ LineTypeOK' /\ ClientTypeOK'
    BY <1>0, <1>2, ReadKeepsTypes
  <1>3. ASSUME NEW p \in Player, Acts(p)
        PROVE  (Played \/ UNCHANGED vars) /\ LineTypeOK' /\ ClientTypeOK'
    BY <1>0, <1>3, ActKeepsTypes
  <1>4. ASSUME NEW p \in Player, connect(p)
        PROVE  (Played \/ UNCHANGED vars) /\ LineTypeOK' /\ ClientTypeOK'
    BY <1>0, <1>4, ConnectDoes DEF matchVars
  <1>5. ASSUME NEW p \in Player, Loss(p)
        PROVE  (Played \/ UNCHANGED vars) /\ LineTypeOK' /\ ClientTypeOK'
    BY <1>0, <1>5, LossDoes DEF matchVars, ClientTypeOK
  <1>6. ASSUME NEW p \in Player, Crash(p)
        PROVE  (Played \/ UNCHANGED vars) /\ LineTypeOK' /\ ClientTypeOK'
    BY <1>0, <1>6, CrashDoes DEF matchVars
  <1>7. CASE UNCHANGED sysVars
    BY <1>0, <1>7 DEF sysVars, netVars, matchVars, LineTypeOK, ClientTypeOK
  <1> QED
    BY <1>1, <1>2, <1>3, <1>4, <1>5, <1>6, <1>7, StepSplits

LEMMA SysInitTypes == SysInit => SysTypes
  <1> SUFFICES ASSUME SysInit PROVE SysTypes
    OBVIOUS
  <1>1. MatchInv
    BY InitInv DEF SysInit
  <1>2. LineTypeOK
    <2>1. <<Msg("game_conn")>> \in Seq(Replies)
      BY PlainReplies
    <2>2. <<>> \in Seq(Requests)
      OBVIOUS
    <2> QED
      BY <2>1, <2>2 DEF SysInit, LineTypeOK
  <1>3. ClientTypeOK
    <2>1. [Started EXCEPT !.scene = "ROOM", !.model = TRUE, !.reader = "running"] \in Clients
      BY StartedTyped DEF Clients, Scenes
    <2> QED
      BY <2>1 DEF SysInit, ClientTypeOK
  <1> QED
    BY <1>1, <1>2, <1>3 DEF SysTypes

LEMMA SysStepTypes == SysTypes /\ [SysNext]_sysVars => SysTypes'
  BY SysStepPlays, PlayedKeepsInv DEF SysTypes

\* Whatever is lost on the way and whenever a client dies, what the server and the
\* clients read is a message of the protocol with arguments in range, and the
\* clients' boards hold characters that they can draw.
THEOREM SystemTypes == SysSpec => []SysTypes
  BY SysInitTypes, SysStepTypes, PTL DEF SysSpec

\* Two clients, of which each may lose its connection and die at any time, play the
\* game of the rules: what they send in whatever state never brings the server
\* to make a move that the rules do not know.
THEOREM SystemPlaysDuel == SysSpec => ImplementsDuel
  <1>1. SysInit => Game!DuelInit
    BY InitDuel DEF SysInit
  <1>2. SysTypes /\ [SysNext]_sysVars => [Game!DuelNext]_(Game!duelVars)
    BY SysStepPlays, PlayedIsDuel DEF SysTypes
  <1> QED
    BY <1>1, <1>2, SystemTypes, PTL DEF SysSpec, ImplementsDuel, Game!DuelSpec

-----------------------------------------------------------------------------
(* What a client will show *)

LEMMA FinalTail ==
  ASSUME NEW v, NEW q \in Seq(Replies), q # <<>>, Len(q) <= 2
  PROVE  Final(v, q) = Final(After(v, q[1]), Tail(q))
  <1> PICK n, t : n = Len(q) /\ t = Tail(q)
    OBVIOUS
  <1>0. /\ n \in Nat \ {0} /\ t \in Seq(Replies) /\ Len(t) = n - 1
        /\ \A i \in 1 .. (n - 1) : t[i] = q[i + 1]
    BY QueueTail
  <1>1. n \in {1, 2}
    BY <1>0
  <1>2. CASE n = 1
    <2>0. Len(t) = 0
      BY <1>0, <1>2
    <2>1. Tail(q) = <<>>
      BY <1>0, <2>0, QueueEmpty
    <2> QED
      BY <1>2, <2>1 DEF Final
  <1>3. CASE n = 2
    <2>0. Len(t) = 1 /\ t[1] = q[2]
      <3>1. 1 \in 1 .. (n - 1) /\ n - 1 = 1 /\ 1 + 1 = 2
        BY <1>3
      <3>2. t[1] = q[1 + 1]
        BY <1>0, <3>1
      <3> QED
        BY <1>0, <3>1, <3>2
    <2>1. Tail(q) # <<>> /\ Len(Tail(q)) = 1 /\ Tail(q)[1] = q[2]
      <3>1. t # <<>>
        <4>1. t \in Seq(Replies) /\ Len(t) = 1
          BY <1>0, <2>0
        <4> QED
          BY ONLY <4>1, QueueEmpty
      <3> QED
        BY <2>0, <3>1
    <2> QED
      BY <1>3, <2>1 DEF Final
  <1> QED
    BY <1>1, <1>2, <1>3

LEMMA FinalAdd ==
  ASSUME NEW v, NEW q \in Seq(Replies), Len(q) <= 1, NEW m \in Replies
  PROVE  Final(v, Append(q, m)) = After(Final(v, q), m)
  <1>0. /\ Len(q) \in Nat /\ Append(q, m) # <<>> /\ Len(Append(q, m)) = Len(q) + 1
        /\ Append(q, m)[Len(q) + 1] = m /\ \A i \in 1 .. Len(q) : Append(q, m)[i] = q[i]
    BY QueueAdd
  <1> PICK n : n = Len(q)
    OBVIOUS
  <1>1. Len(q) \in {0, 1} /\ Append(q, m) # <<>>
    <2>1. n \in Nat /\ n <= 1
      BY <1>0
    <2>2. n \in {0, 1}
      BY <2>1
    <2> QED
      BY <1>0, <2>2
  <1>2. CASE Len(q) = 0
    <2>1. q = <<>>
      BY <1>2, QueueEmpty
    <2>2. Len(Append(q, m)) = 1 /\ Append(q, m)[1] = m
      BY <1>0, <1>2
    <2> QED
      BY <1>1, <2>1, <2>2 DEF Final
  <1>3. CASE Len(q) = 1
    <2>1. q # <<>>
      BY <1>3, QueueEmpty
    <2>2. Len(Append(q, m)) = 2 /\ Append(q, m)[1] = q[1] /\ Append(q, m)[2] = m
      BY <1>0, <1>3
    <2> QED
      BY <1>1, <1>3, <2>1, <2>2 DEF Final
  <1> QED
    BY <1>1, <1>2, <1>3

\* Nothing that is shown depends on the player's own board but that board.
LEMMA AfterAlike ==
  ASSUME NEW v, NEW w, NEW m
  PROVE  /\ v.scene = w.scene => After(v, m).scene = After(w, m).scene
         /\ v.status = w.status => After(v, m).status = After(w, m).status
         /\ v.enemy = w.enemy => After(v, m).enemy = After(w, m).enemy
         /\ v.my = w.my => After(v, m).my = After(w, m).my
  BY DEF After

LEMMA FinalAlike ==
  ASSUME NEW v, NEW w, NEW q
  PROVE  /\ v.scene = w.scene => Final(v, q).scene = Final(w, q).scene
         /\ v.status = w.status => Final(v, q).status = Final(w, q).status
         /\ v.enemy = w.enemy => Final(v, q).enemy = Final(w, q).enemy
         /\ v.my = w.my => Final(v, q).my = Final(w, q).my
  BY AfterAlike DEF Final

LEMMA ViewIs ==
  ASSUME NEW c
  PROVE  /\ View(c).scene = SceneOf(c) /\ View(c).status = StatusOf(c)
         /\ View(c).my = c.myBoard /\ View(c).enemy = c.enemyBoard
  BY DEF View

LEMMA LaterDoes ==
  ASSUME NEW c \in Clients, c.window = <<>>, NEW action, NEW d, d = Later(c, action)
  PROVE  /\ d.window # <<>> /\ d.window[1] = action /\ Len(d.window) = 1
         /\ d.scene = c.scene /\ d.model = c.model /\ d.gameStatus = c.gameStatus
         /\ d.myBoard = c.myBoard /\ d.enemyBoard = c.enemyBoard /\ d.reader = c.reader
  <1>1. d = [c EXCEPT !.window = <<action>>]
    BY DEF Later
  <1> QED
    BY <1>1 DEF Clients

LEMMA StatusIs ==
  /\ Status(STATE_IN_GAME_PREPARING) = "PREPARING" /\ Status(STATE_IN_GAME) = "WAITING"
  /\ Status(STATE_IN_GAME_PLAYING) = "PLAYING"
  /\ \A s : Status(s) = "PREPARING" => s = STATE_IN_GAME_PREPARING
  /\ \A s : Status(s) = "PLAYING" => s = STATE_IN_GAME_PLAYING
  BY DEF Status, STATE_IN_GAME_PREPARING, STATE_IN_GAME, STATE_IN_GAME_PLAYING

\* A message that is read, and does not end the reader, has the effect it should
\* have; a new game has any fleet on the player's board.
LEMMA ReadsView ==
  ASSUME NEW c \in Clients, c.window = <<>>, NEW m \in Replies, NEW d, Reads(c, m, d),
         d.reader = "running", m.type # "eof", m.type # "game_end",
         m.type = "login_ok" => c.scene = "CONNECT",
         m.type = "game_conn" => c.scene = "ROOM"
  PROVE  /\ SceneOf(d) = After(View(c), m).scene /\ StatusOf(d) = After(View(c), m).status
         /\ d.enemyBoard = After(View(c), m).enemy
         /\ m.type # "game_conn" => d.myBoard = After(View(c), m).my
         /\ Pending(d, "resume") <=> m.type = "login_ok" /\ m.state # STATE_IN_LOBBY
         /\ Pending(d, "setGameStatus") => /\ m.type = "game_info_data" /\ d.model
                                           /\ d.window[1].status = Status(m.state)
  <1>1. d # Dead(c)
    BY DEF Dead, Clients
  <1>2. SceneOf(c) = c.scene /\ StatusOf(c) = c.gameStatus
    BY DEF SceneOf, StatusOf
  <1>3. Len(<<>>) = 0
    OBVIOUS
  <1>4. CASE m.type = "login_ok"
    <2> PICK a : a = IF m.state = STATE_IN_LOBBY THEN Show("LOBBY") ELSE Resume
      OBVIOUS
    <2>1. d = Later(c, a)
      BY <1>1, <1>4 DEF Reads
    <2>2. /\ d.window # <<>> /\ d.window[1] = a /\ Len(d.window) = 1
          /\ d.gameStatus = c.gameStatus
          /\ d.myBoard = c.myBoard /\ d.enemyBoard = c.enemyBoard
      BY <2>1, LaterDoes
    <2>3. CASE m.state = STATE_IN_LOBBY
      <3>1. a.do = "setScene" /\ a.scene = "LOBBY"
        BY <2>3 DEF Show
      <3> QED
        BY <1>2, <1>4, <2>2, <2>3, <3>1 DEF SceneOf, StatusOf, Pending, After, View
    <2>4. CASE m.state # STATE_IN_LOBBY
      <3>1. a.do = "resume"
        BY <2>4 DEF Resume
      <3> QED
        BY <1>2, <1>4, <2>2, <2>4, <3>1 DEF SceneOf, StatusOf, Pending, After, View
    <2> QED
      BY <2>3, <2>4
  <1>5. CASE m.type = "game_info_data"
    <2> PICK b, e : b = convertStringToBoard(m.my) /\ e = convertStringToBoard(m.enemy)
      OBVIOUS
    <2> PICK c1 : c1 = [c EXCEPT !.myBoard = b, !.enemyBoard = e]
      OBVIOUS
    <2>1. d = Later(c1, SetStatus(Status(m.state))) /\ c.model
      BY <1>1, <1>5 DEF Reads
    <2>2. b \in Boards /\ e \in Boards
      BY ConvertTyped
    <2>3. /\ c1 \in Clients /\ c1.window = <<>> /\ c1.scene = c.scene /\ c1.model = c.model
          /\ c1.myBoard = b /\ c1.enemyBoard = e
      BY <2>2 DEF Clients
    <2> PICK a : a = SetStatus(Status(m.state))
      OBVIOUS
    <2>4. /\ d.window # <<>> /\ d.window[1] = a /\ Len(d.window) = 1
          /\ d.scene = c1.scene /\ d.model = c1.model
          /\ d.myBoard = c1.myBoard /\ d.enemyBoard = c1.enemyBoard
      <3>1. d = Later(c1, a)
        BY <2>1
      <3> QED
        BY ONLY <2>3, <3>1, LaterDoes
    <2>5. a.do = "setGameStatus" /\ a.status = Status(m.state)
      BY DEF SetStatus
    <2>6. /\ SceneOf(d) = c.scene /\ StatusOf(d) = Status(m.state) /\ ~Pending(d, "resume")
          /\ d.model /\ d.window[1].status = Status(m.state)
      <3>1. SceneOf(d) = c.scene
        BY <2>3, <2>4, <2>5 DEF SceneOf
      <3>2. StatusOf(d) = Status(m.state)
        BY <2>4, <2>5 DEF StatusOf
      <3>3. ~Pending(d, "resume")
        BY <2>4, <2>5 DEF Pending
      <3>4. d.model /\ d.window[1].status = Status(m.state)
        BY <2>1, <2>3, <2>4, <2>5
      <3> QED
        BY Zenon, <3>1, <3>2, <3>3, <3>4
    <2>7. /\ After(View(c), m).scene = c.scene /\ After(View(c), m).status = Status(m.state)
          /\ After(View(c), m).my = b /\ After(View(c), m).enemy = e
      BY <1>2, <1>5 DEF After, View
    <2> QED
      BY <1>5, <2>3, <2>4, <2>6, <2>7
  <1>6. CASE m.type = "game_conn"
    <2>1. PICK fleet : d = Later([c EXCEPT !.myBoard = convertStringToBoard(fleet),
                                          !.enemyBoard = Blank,
                                          !.gameStatus = "PREPARING"], Show("GAME"))
      BY <1>1, <1>6 DEF Reads
    <2> PICK c1 : c1 = [c EXCEPT !.myBoard = convertStringToBoard(fleet),
                                 !.enemyBoard = Blank, !.gameStatus = "PREPARING"]
      OBVIOUS
    <2>2. convertStringToBoard(fleet) \in Boards /\ Blank \in Boards
      BY ConvertTyped, BlankTyped
    <2>3. c1 \in Clients /\ c1.window = <<>> /\ c1.gameStatus = "PREPARING"
          /\ c1.enemyBoard = Blank
      BY <2>2 DEF Clients, Statuses
    <2> PICK a : a = Show("GAME")
      OBVIOUS
    <2>4. /\ d.window # <<>> /\ d.window[1] = a /\ Len(d.window) = 1
          /\ d.gameStatus = c1.gameStatus /\ d.enemyBoard = c1.enemyBoard
      <3>1. d = Later(c1, a)
        BY <2>1
      <3> QED
        BY ONLY <2>3, <3>1, LaterDoes
    <2>5. /\ d.window[1].do = "setScene" /\ d.window[1].scene = "GAME"
          /\ d.gameStatus = "PREPARING" /\ d.enemyBoard = Blank
      BY <2>3, <2>4 DEF Show
    <2> QED
      BY <1>6, <2>4, <2>5 DEF SceneOf, StatusOf, Pending, After, View
  <1>7. CASE m.type = "game_prepared_ok"
    <2>1. d = [c EXCEPT !.gameStatus = "WAITING"]
      BY <1>1, <1>7 DEF Reads
    <2>2. /\ d.window = <<>> /\ d.scene = c.scene /\ d.gameStatus = "WAITING"
          /\ d.myBoard = c.myBoard /\ d.enemyBoard = c.enemyBoard
      BY <2>1 DEF Clients
    <2> QED
      BY <1>2, <1>3, <1>7, <2>2 DEF SceneOf, StatusOf, Pending, After, View
  <1>8. CASE m.type = "game_prepared_err"
    <2> PICK c1 : c1 = [c EXCEPT !.gameStatus = "PREPARING"]
      OBVIOUS
    <2>1. d = Later(c1, Show("GAME")) /\ c.scene = "GAME"
      BY <1>1, <1>8 DEF Reads
    <2>2. /\ c1 \in Clients /\ c1.window = <<>> /\ c1.gameStatus = "PREPARING"
          /\ c1.myBoard = c.myBoard /\ c1.enemyBoard = c.enemyBoard
      BY DEF Clients, Statuses
    <2> PICK a : a = Show("GAME")
      OBVIOUS
    <2>3. /\ d.window # <<>> /\ d.window[1] = a /\ Len(d.window) = 1
          /\ d.gameStatus = c1.gameStatus
          /\ d.myBoard = c1.myBoard /\ d.enemyBoard = c1.enemyBoard
      <3>1. d = Later(c1, a)
        BY <2>1
      <3> QED
        BY ONLY <2>2, <3>1, LaterDoes
    <2>4. a.do = "setScene" /\ a.scene = "GAME"
      BY DEF Show
    <2>5. /\ SceneOf(d) = "GAME" /\ StatusOf(d) = "PREPARING"
          /\ ~Pending(d, "resume") /\ ~Pending(d, "setGameStatus")
      BY <2>2, <2>3, <2>4 DEF SceneOf, StatusOf, Pending
    <2>6. /\ After(View(c), m).scene = "GAME" /\ After(View(c), m).status = "PREPARING"
          /\ After(View(c), m).my = c.myBoard /\ After(View(c), m).enemy = c.enemyBoard
      BY <1>2, <1>8, <2>1 DEF After, View
    <2> QED
      BY <1>8, <2>2, <2>3, <2>5, <2>6
  <1>9. CASE m.type \in {"game_play", "game_fire_err"}
    <2>1. d = [c EXCEPT !.gameStatus = "PLAYING"]
      BY <1>1, <1>9 DEF Reads
    <2>2. /\ d.window = <<>> /\ d.scene = c.scene /\ d.gameStatus = "PLAYING"
          /\ d.myBoard = c.myBoard /\ d.enemyBoard = c.enemyBoard
      BY <2>1 DEF Clients
    <2> QED
      BY <1>2, <1>3, <1>9, <2>2 DEF SceneOf, StatusOf, Pending, After, View
  <1>10. CASE m.type = "game_fire_ok"
    <2> PICK b : b = Shot(c.enemyBoard, m.shot.sq, m.shot.status, m.shot.destroyed)
      OBVIOUS
    <2>1. d = [c EXCEPT !.enemyBoard = b, !.gameStatus = "WAITING"]
      BY <1>1, <1>10 DEF Reads
    <2>2. /\ d.window = <<>> /\ d.scene = c.scene /\ d.gameStatus = "WAITING"
          /\ d.myBoard = c.myBoard /\ d.enemyBoard = b
      BY <2>1 DEF Clients
    <2> QED
      BY <1>2, <1>3, <1>10, <2>2 DEF SceneOf, StatusOf, Pending, After, View
  <1>11. CASE m.type = "game_opp_fire"
    <2> PICK b : b = Shot(c.myBoard, m.shot.sq, m.shot.status, m.shot.destroyed)
      OBVIOUS
    <2>1. d = [c EXCEPT !.myBoard = b, !.gameStatus = "PLAYING"]
      BY <1>1, <1>11 DEF Reads
    <2>2. /\ d.window = <<>> /\ d.scene = c.scene /\ d.gameStatus = "PLAYING"
          /\ d.myBoard = b /\ d.enemyBoard = c.enemyBoard
      BY <2>1 DEF Clients
    <2> QED
      BY <1>2, <1>3, <1>11, <2>2 DEF SceneOf, StatusOf, Pending, After, View
  <1>12. m.type \in {"login_ok", "game_info_data", "game_conn", "game_prepared_ok",
                     "game_prepared_err", "game_play", "game_fire_err", "game_fire_ok",
                     "game_opp_fire"}
    BY ReplyFields
  <1> QED
    BY <1>4, <1>5, <1>6, <1>7, <1>8, <1>9, <1>10, <1>11, <1>12

-----------------------------------------------------------------------------
(* The inductive invariant: the types, and under its hypotheses that the     *)
(* clients are in step with the server (Agreement).                          *)

\* As long as a player prepares no shot has been fired.
Unshot ==
  (\E p \in Player : state[p] = STATE_IN_GAME_PREPARING) => \A p \in Player : board[p] \in Sketches

SysInv == SysTypes /\ (Prompt /\ Patient => Unshot /\ AllAgree)

-----------------------------------------------------------------------------
(* The reader *)

LEMMA ReadPlaying ==
  ASSUME NEW c \in Clients, NEW r \in Seq(Requests), NEW q \in Seq(Replies), NEW st, NEW b, NEW e,
         c.window = <<>>, q # <<>>, ~Told(q, "eof"), Playing(c, r, q, st, b, e),
         NEW d, Reads(c, q[1], d), d.reader = "running",
         NEW t, t = Tail(q)
  PROVE  Playing(d, r, t, st, b, e)
  <1> PICK m, n : m = q[1] /\ n = Len(q)
    OBVIOUS
  <1>1. /\ m \in Replies /\ n \in Nat \ {0} /\ n <= 2 /\ DOMAIN q = 1 .. n /\ t \in Seq(Replies)
        /\ Len(t) = n - 1 /\ DOMAIN t = 1 .. (n - 1)
        /\ \A i \in 1 .. (n - 1) : t[i] = q[i + 1]
    <2>1. /\ m \in Replies /\ n \in Nat \ {0} /\ DOMAIN q = 1 .. n /\ t \in Seq(Replies)
          /\ Len(t) = n - 1 /\ DOMAIN t = 1 .. (n - 1)
          /\ \A i \in 1 .. (n - 1) : t[i] = q[i + 1]
      BY QueueTail
    <2>2. n <= 2
      BY DEF Playing
    <2> QED
      BY <2>1, <2>2
  <1>2. /\ 1 \in DOMAIN q /\ \A k \in DOMAIN t : k + 1 \in DOMAIN q /\ t[k] = q[k + 1] /\ k + 1 # 1
    BY <1>1
  <1>3. /\ m.type # "eof" /\ m.type # "game_end"
        /\ m.type = "login_ok" => c.scene = "CONNECT" /\ r = <<>>
        /\ m.type = "game_conn" => c.scene = "ROOM" /\ st = STATE_IN_GAME_PREPARING
        /\ \A k \in DOMAIN t : t[k].type \notin Hellos
    BY <1>2 DEF Playing, Opening, Sketching, Told, Hellos
  <1>4. /\ SceneOf(d) = After(View(c), m).scene /\ StatusOf(d) = After(View(c), m).status
        /\ d.enemyBoard = After(View(c), m).enemy
        /\ m.type # "game_conn" => d.myBoard = After(View(c), m).my
        /\ Pending(d, "resume") <=> m.type = "login_ok" /\ m.state # STATE_IN_LOBBY
        /\ Pending(d, "setGameStatus") => /\ m.type = "game_info_data" /\ d.model
                                          /\ d.window[1].status = Status(m.state)
    BY <1>1, <1>3, ReadsView
  <1>5. /\ Len(q) <= 2 /\ (Len(q) = 2 => st = STATE_IN_GAME_PLAYING) /\ ~Told(q, "game_end")
        /\ Opening(c, r, q, st) /\ Ordered(c, r, q, st) /\ Sketching(c, q, st)
        /\ Final(View(c), q).scene = "GAME"
        /\ ~InfoDue(c, r, q) => Faithful(c, r, q, st, b, e)
    BY DEF Playing
  <1> PICK v, w : v = After(View(c), m) /\ w = View(d)
    OBVIOUS
  <1>6. Final(View(c), q) = Final(v, t)
    BY <1>5, FinalTail
  <1>7. /\ w.scene = v.scene /\ w.status = v.status /\ w.enemy = v.enemy
        /\ m.type # "game_conn" => w.my = v.my
    BY <1>4, ViewIs
  <1>8. /\ Final(w, t).scene = Final(v, t).scene /\ Final(w, t).status = Final(v, t).status
        /\ Final(w, t).enemy = Final(v, t).enemy
        /\ m.type # "game_conn" => Final(w, t).my = Final(v, t).my
    BY <1>7, FinalAlike
  <1>9. t # <<>> => Len(t) = 1 /\ t[1] = q[2] /\ n = 2
    <2>1. t # <<>> => Len(t) >= 1
      BY <1>1, QueueEmpty
    <2> QED
      BY <1>1, <2>1
  <1>10. Final(w, t).scene = w.scene
    <2>1. CASE t = <<>>
      BY <2>1 DEF Final
    <2>2. CASE t # <<>>
      <3> PICK x : x = t[1]
        OBVIOUS
      <3>1. x.type \notin Hellos
        BY <1>1, <1>3, <1>9, <2>2
      <3>2. Final(w, t) = After(w, x)
        BY <1>9, <2>2 DEF Final
      <3>3. After(w, x).scene = w.scene
        BY <3>1 DEF After, Hellos
      <3> QED
        BY <3>2, <3>3
    <2> QED
      BY <2>1, <2>2
  <1>11. m.type = "login_ok" => m.state # STATE_IN_LOBBY
    BY <1>5, <1>6, <1>7, <1>8, <1>10 DEF After
  <1>12. InfoDue(c, r, q) => InfoDue(d, r, t)
    <2>1. ~Pending(c, "resume")
      BY DEF Pending
    <2>2. Told(q, "login_ok") => m.type = "login_ok"
      BY <1>5 DEF Opening, Told, Hellos
    <2>3. m.type = "login_ok" => Pending(d, "resume")
      BY <1>4, <1>11
    <2> QED
      BY <2>1, <2>2, <2>3 DEF InfoDue
  <1>13. ~Told(t, "game_end") /\ ~Told(t, "login_ok")
    BY <1>2, <1>3, <1>5 DEF Told, Hellos
  <1>14. Opening(d, r, t, st)
    <2>1. Pending(d, "resume") => m.type = "login_ok" /\ r = <<>>
      BY <1>3, <1>4
    <2>2. Pending(d, "resume") => t = <<>> \/ (/\ Len(t) = 1 /\ t[1].type \in Passes
                                               /\ st = STATE_IN_GAME_PLAYING)
      <3>1. ASSUME m.type = "login_ok", t # <<>>
            PROVE  Len(t) = 1 /\ t[1].type \in Passes /\ st = STATE_IN_GAME_PLAYING
        <4>1. Told(q, "login_ok")
          BY <1>2, <3>1 DEF Told
        <4>2. Len(q) = 2 /\ Len(t) = 1 /\ t[1] = q[2]
          BY <1>9, <3>1
        <4> QED
          BY <1>5, <4>1, <4>2 DEF Opening
      <3> QED
        BY <1>4, <3>1
    <2>3. Asked(r, "game_info_req") => r # <<>> /\ t = <<>>
      <3>1. Asked(r, "game_info_req") => r # <<>>
        BY DEF Asked
      <3>2. Asked(r, "game_info_req") => n = 1
        BY <1>5 DEF Opening
      <3> QED
        BY <1>9, <3>1, <3>2
    <2>4. \A k \in DOMAIN t : t[k].type \notin Hellos
      BY <1>3
    <2> QED
      BY <1>13, <2>1, <2>2, <2>3, <2>4 DEF Opening
  <1>15. Ordered(d, r, t, st)
    BY <1>5 DEF Ordered
  <1>16. Sketching(d, t, st)
    <2>1. Pending(d, "setGameStatus") =>
            d.model /\ (d.window[1].status = "PREPARING" => st = STATE_IN_GAME_PREPARING)
      <3>1. m.type = "game_info_data" /\ m.state = STATE_IN_GAME_PREPARING
              => st = STATE_IN_GAME_PREPARING
        BY <1>2, <1>5 DEF Sketching
      <3> QED
        BY <1>4, <3>1, StatusIs
    <2>2. \A k \in DOMAIN t :
            /\ t[k].type = "game_conn" => st = STATE_IN_GAME_PREPARING
            /\ t[k].type = "game_info_data" /\ t[k].state = STATE_IN_GAME_PREPARING
                 => st = STATE_IN_GAME_PREPARING
      BY <1>2, <1>5 DEF Sketching
    <2> QED
      BY <2>1, <2>2 DEF Sketching
  <1>17. ~InfoDue(d, r, t) => Faithful(d, r, t, st, b, e)
    <2> SUFFICES ASSUME ~InfoDue(d, r, t) PROVE Faithful(d, r, t, st, b, e)
      OBVIOUS
    <2>1. Faithful(c, r, q, st, b, e)
      BY <1>5, <1>12
    <2>2. Waits(w, t)
      <3>1. CASE t = <<>>
        <4>1. Len(t) = 0
          BY <1>1, <3>1, QueueEmpty
        <4> QED
          BY <4>1 DEF Waits
      <3>2. CASE t # <<>>
        <4>1. Len(t) = 1 /\ t[1] = q[2] /\ Len(q) = 2
          BY <1>9, <3>2
        <4>2. t[1].type \in Moves => v.status = "WAITING"
          BY <2>1, <4>1 DEF Faithful, Waits
        <4> QED
          BY <1>7, <4>1, <4>2 DEF Waits
      <3> QED
        BY <3>1, <3>2
    <2>3. ~Asked(r, "game_fire_req") => Final(w, t).status = Status(st)
      BY <1>6, <1>8, <2>1 DEF Faithful
    <2>4. Final(w, t).enemy = e
      BY <1>6, <1>8, <2>1 DEF Faithful
    <2>5. st # STATE_IN_GAME_PREPARING => Final(w, t).my = b
      BY <1>3, <1>6, <1>8, <2>1 DEF Faithful
    <2> QED
      BY <2>2, <2>3, <2>4, <2>5 DEF Faithful
  <1>18. Len(t) <= 2 /\ (Len(t) = 2 => st = STATE_IN_GAME_PLAYING)
    <2> PICK l : l = Len(t)
      OBVIOUS
    <2>1. l = n - 1 /\ n \in Nat /\ n <= 2
      BY <1>1
    <2>2. l <= 2 /\ l # 2
      BY ONLY <2>1
    <2> QED
      BY ONLY <2>2, l = Len(t)
  <1> QED
    BY <1>4, <1>5, <1>6, <1>8, <1>13, <1>14, <1>15, <1>16, <1>17, <1>18 DEF Playing

LEMMA ReadsWindow ==
  ASSUME NEW c \in Clients, NEW m, c.window = <<>>, NEW d, Reads(c, m, d)
  PROVE  d.window # <<>> => Len(d.window) = 1
  <1>1. ASSUME NEW f \in Clients, f.window = <<>>, NEW a,
               \/ d = Later(f, a) \/ d = [Later(f, a) EXCEPT !.reader = "stopped"]
        PROVE  Len(d.window) = 1
    <2> PICK w : w = <<a>>
      OBVIOUS
    <2>1. Append(f.window, a) = w /\ Len(w) = 1
      BY <1>1
    <2>2. \/ d = [f EXCEPT !.window = w]
          \/ d = [[f EXCEPT !.window = w] EXCEPT !.reader = "stopped"]
      BY <1>1, <2>1 DEF Later
    <2>3. d.window = w
      BY <2>2 DEF Clients
    <2> QED
      BY <2>1, <2>3
  <1>2. ASSUME NEW mine \in Boards, NEW enemy \in Boards, NEW s \in Statuses, NEW f,
               \/ f = [c EXCEPT !.myBoard = mine, !.enemyBoard = enemy]
               \/ f = [c EXCEPT !.myBoard = mine, !.enemyBoard = enemy, !.gameStatus = s]
               \/ f = [c EXCEPT !.gameStatus = s]
        PROVE  f \in Clients /\ f.window = <<>>
    BY <1>2 DEF Clients
  <1>3. /\ \A lay : convertStringToBoard(lay) \in Boards
        /\ Blank \in Boards /\ "PREPARING" \in Statuses
    BY ConvertTyped, BlankTyped DEF Statuses
  <1>4. CASE \/ d = c \/ d = Dead(c) \/ d = [c EXCEPT !.gameStatus = "WAITING"]
             \/ d = [c EXCEPT !.gameStatus = "PLAYING"]
             \/ \E x : d = [c EXCEPT !.enemyBoard = x, !.gameStatus = "WAITING"]
             \/ \E x : d = [c EXCEPT !.myBoard = x, !.gameStatus = "PLAYING"]
    BY <1>4 DEF Dead, Clients
  <1>5. CASE \E a : d = Later(c, a) \/ d = [Later(c, a) EXCEPT !.reader = "stopped"]
    BY <1>1, <1>5
  <1>6. ASSUME NEW lay, NEW x, NEW a,
               d = Later([c EXCEPT !.myBoard = convertStringToBoard(lay),
                                   !.enemyBoard = convertStringToBoard(x)], a)
        PROVE  Len(d.window) = 1
    <2> PICK f : f = [c EXCEPT !.myBoard = convertStringToBoard(lay),
                               !.enemyBoard = convertStringToBoard(x)]
      OBVIOUS
    <2>1. f \in Clients /\ f.window = <<>>
      BY <1>2, <1>3
    <2>2. d = Later(f, a)
      BY <1>6
    <2> QED
      BY <1>1, <2>1, <2>2
  <1>7. ASSUME NEW lay, NEW a,
               d = Later([c EXCEPT !.myBoard = convertStringToBoard(lay),
                                   !.enemyBoard = Blank, !.gameStatus = "PREPARING"], a)
        PROVE  Len(d.window) = 1
    <2> PICK f : f = [c EXCEPT !.myBoard = convertStringToBoard(lay),
                               !.enemyBoard = Blank, !.gameStatus = "PREPARING"]
      OBVIOUS
    <2>1. f \in Clients /\ f.window = <<>>
      BY <1>3 DEF Clients
    <2>2. d = Later(f, a)
      BY <1>7
    <2> QED
      BY <1>1, <2>1, <2>2
  <1>8. ASSUME NEW a, d = Later([c EXCEPT !.gameStatus = "PREPARING"], a)
        PROVE  Len(d.window) = 1
    <2> PICK f : f = [c EXCEPT !.gameStatus = "PREPARING"]
      OBVIOUS
    <2>1. f \in Clients /\ f.window = <<>>
      BY <1>3 DEF Clients
    <2>2. d = Later(f, a)
      BY <1>8
    <2> QED
      BY <1>1, <2>1, <2>2
  <1>9. CASE \E fleet : d = Later([c EXCEPT !.myBoard = convertStringToBoard(fleet),
                                          !.enemyBoard = Blank,
                                          !.gameStatus = "PREPARING"], Show("GAME"))
    BY <1>7, <1>9
  <1>10. CASE d = Later([c EXCEPT !.myBoard = convertStringToBoard(m.my),
                                  !.enemyBoard = convertStringToBoard(m.enemy)],
                        SetStatus(Status(m.state)))
    BY <1>6, <1>10
  <1>11. CASE d = Later([c EXCEPT !.gameStatus = "PREPARING"], Show("GAME"))
    BY <1>8, <1>11
  <1> QED
    BY <1>4, <1>5, <1>9, <1>10, <1>11 DEF Reads

LEMMA ReadEnded ==
  ASSUME NEW c \in Clients, NEW q \in Seq(Replies), c.window = <<>>, q # <<>>,
         ~Told(q, "eof"), Ended(c, q),
         NEW d, Reads(c, q[1], d), d.reader = "running", NEW t, t = Tail(q)
  PROVE  Ended(d, t)
  <1> PICK m, n : m = q[1] /\ n = Len(q)
    OBVIOUS
  <1>1. /\ m \in Replies /\ n \in Nat \ {0} /\ DOMAIN q = 1 .. n
        /\ DOMAIN t = 1 .. (n - 1) /\ \A i \in 1 .. (n - 1) : t[i] = q[i + 1]
    BY QueueTail
  <1>2. /\ 1 \in DOMAIN q
        /\ \A k \in DOMAIN t : k + 1 \in DOMAIN q /\ t[k] = q[k + 1] /\ k + 1 > 1
        /\ \A k \in DOMAIN q : k # 1 => k - 1 \in DOMAIN t /\ t[k - 1] = q[k] /\ k > 1
    BY <1>1
  <1>3. d # Dead(c) /\ m.type # "eof"
    BY <1>2 DEF Dead, Clients, Told
  <1>4. SceneOf(c) = c.scene
    BY DEF SceneOf
  <1>5. ASSUME NEW i \in DOMAIN q, i # 1, q[i].type = "game_end",
               \A j \in DOMAIN q : j > i => q[j].type \in Errs
        PROVE  Ended(d, t)
    <2>1. i - 1 \in DOMAIN t /\ t[i - 1] = q[i]
      BY <1>2, <1>5
    <2>2. ASSUME NEW j \in DOMAIN t, j > i - 1 PROVE t[j].type \in Errs
      <3>1. j + 1 \in DOMAIN q /\ t[j] = q[j + 1]
        BY <1>2
      <3>2. j + 1 > i
        BY <1>1, <1>5, <2>2
      <3> QED
        BY <1>5, <3>1, <3>2
    <2> QED
      BY <1>5, <2>1, <2>2 DEF Ended
  <1>6. ASSUME m.type = "game_end", \A j \in DOMAIN q : j > 1 => q[j].type \in Errs
        PROVE  Ended(d, t)
    <2>1. \A j \in DOMAIN t : t[j].type \in Errs
      BY <1>2, <1>6
    <2>2. CASE c.scene = "GAME"
      <3>1. d = Later(c, Show("GAME_RESULT"))
        BY <1>3, <1>6, <2>2 DEF Reads
      <3>2. d.window # <<>> /\ d.window[1] = Show("GAME_RESULT")
        BY ONLY <3>1, LaterDoes, c \in Clients, c.window = <<>>
      <3>3. SceneOf(d) = "GAME_RESULT"
        BY <3>2 DEF SceneOf, Show
      <3> QED
        BY <2>1, <3>3 DEF Ended, Errs
    <2>3. CASE c.scene # "GAME"
      <3>1. d = c
        BY <1>3, <1>6, <2>3 DEF Reads
      <3> QED
        BY <1>4, <2>1, <2>3, <3>1 DEF Ended, Errs
    <2> QED
      BY <2>2, <2>3
  <1>7. ASSUME c.scene # "GAME", \A j \in DOMAIN q : q[j].type \in Errs \cup {"login_ok"},
               \A j \in DOMAIN q : q[j].type = "login_ok" => q[j].state = STATE_IN_LOBBY
        PROVE  Ended(d, t)
    <2>1. /\ \A j \in DOMAIN t : t[j].type \in Errs \cup {"login_ok"}
          /\ \A j \in DOMAIN t : t[j].type = "login_ok" => t[j].state = STATE_IN_LOBBY
          /\ m.type \in Errs \cup {"login_ok"}
          /\ m.type = "login_ok" => m.state = STATE_IN_LOBBY
      BY <1>2, <1>7
    <2>2. m.type # "game_prepared_err"
      BY <1>3, <1>7 DEF Reads
    <2>3. CASE m.type = "game_fire_err"
      <3>1. d = [c EXCEPT !.gameStatus = "PLAYING"]
        BY <1>3, <2>3 DEF Reads
      <3>2. SceneOf(d) = c.scene
        BY <3>1 DEF SceneOf, Clients
      <3> QED
        BY <1>7, <2>1, <3>2 DEF Ended
    <2>4. CASE m.type = "login_ok"
      <3>1. d = c \/ d = Later(c, Show("LOBBY"))
        BY <1>3, <2>1, <2>4 DEF Reads
      <3>2. ASSUME d = Later(c, Show("LOBBY")) PROVE SceneOf(d) = "LOBBY"
        <4>1. d.window # <<>> /\ d.window[1] = Show("LOBBY")
          BY ONLY <3>2, LaterDoes, c \in Clients, c.window = <<>>
        <4> QED
          BY <4>1 DEF SceneOf, Show
      <3>3. SceneOf(d) # "GAME"
        BY <1>4, <1>7, <3>1, <3>2
      <3> QED
        BY <2>1, <3>3 DEF Ended
    <2> QED
      BY <2>1, <2>2, <2>3, <2>4 DEF Errs
  <1> QED
    BY <1>2, <1>4, <1>5, <1>6, <1>7 DEF Ended

LEMMA ReadAgrees ==
  ASSUME NEW c \in Clients, NEW r \in Seq(Requests), NEW q \in Seq(Replies), NEW st, NEW b, NEW e,
         NEW u, NEW k, c.reader = "running", c.window = <<>>, q # <<>>,
         Agrees(c, r, q, u, k, st, b, e),
         NEW d, Reads(c, q[1], d), NEW t, t = Tail(q)
  PROVE  Agrees(d, r, t, u, k, st, b, e)
  <1>1. \A i \in DOMAIN t : i + 1 \in DOMAIN q /\ t[i] = q[i + 1]
    BY QueueTail
  <1>2. Lines(c, r, q, u, k)
    BY DEF Agrees
  <1>3. Lines(d, r, t, u, k)
    <2>1. u => ~Told(t, "eof")
      BY <1>1, <1>2 DEF Lines, Told
    <2> QED
      BY <1>2, <2>1 DEF Lines
  <1>4. d.window # <<>> => Len(d.window) = 1
    BY ReadsWindow
  <1>5. ASSUME u, k, d.reader = "running" PROVE InStep(d, r, t, st, b, e)
    <2>1. InStep(c, r, q, st, b, e) /\ ~Told(q, "eof")
      BY <1>2, <1>5 DEF Agrees, Lines
    <2>2. CASE st \in Gaming
      BY <1>5, <2>1, <2>2, ReadPlaying DEF InStep
    <2>3. CASE st \notin Gaming
      BY <1>5, <2>1, <2>3, ReadEnded DEF InStep
    <2> QED
      BY <2>2, <2>3
  <1> QED
    BY <1>3, <1>4, <1>5 DEF Agrees

-----------------------------------------------------------------------------
(* The window and the user *)

\* What the window thread does has been in view before, but for a fleet that replaces
\* the one of a player who prepares.
LEMMA ChangesView ==
  ASSUME NEW c \in Clients, c.window # <<>> => Len(c.window) = 1, NEW d, Changes(c, d)
  PROVE  /\ ~Pending(c, "resume") /\ d.reader = c.reader
         /\ \/ /\ c.window # <<>> /\ d.window = <<>> /\ SceneOf(d) = SceneOf(c)
               /\ \/ SceneOf(c) = "LOBBY"
                  \/ /\ d.enemyBoard = c.enemyBoard
                     /\ (Pending(c, "setGameStatus") => c.model) => StatusOf(d) = StatusOf(c)
                     /\ \/ d.myBoard = c.myBoard
                        \/ Pending(c, "setGameStatus") /\ c.window[1].status = "PREPARING"
            \/ /\ c.window = <<>> /\ c.scene = "GAME_RESULT" /\ d.window # <<>>
               /\ SceneOf(d) = "LOBBY" /\ Len(d.window) = 1
  <1>1. c.window # <<>> => Tail(c.window) = <<>>
    <2>1. ASSUME c.window # <<>> PROVE Tail(c.window) = <<>>
      <3>1. c.window \in Seq(Actions) /\ Len(c.window) = 1
        BY <2>1 DEF Clients
      <3>2. Tail(c.window) \in Seq(Actions) /\ Len(Tail(c.window)) = 0
        BY <2>1, <3>1, QueueTail
      <3> QED
        BY ONLY <3>2, QueueEmpty
    <2> QED
      BY <2>1
  <1>2. CASE /\ Pending(c, "setScene")
             /\ d = [c EXCEPT !.scene = c.window[1].scene, !.window = Tail(c.window)]
    <2>1. c.window # <<>> /\ c.window[1].do = "setScene"
      BY <1>2 DEF Pending
    <2>2. /\ d.window = <<>> /\ d.scene = c.window[1].scene /\ d.gameStatus = c.gameStatus
          /\ d.myBoard = c.myBoard /\ d.enemyBoard = c.enemyBoard /\ d.reader = c.reader
      BY <1>1, <1>2, <2>1 DEF Clients
    <2> QED
      BY <2>1, <2>2 DEF SceneOf, StatusOf, Pending
  <1>3. ASSUME Pending(c, "setGameStatus"),
               NEW x,
               d = [c EXCEPT !.gameStatus = IF c.model THEN c.window[1].status ELSE c.gameStatus,
                             !.myBoard = x, !.window = Tail(c.window)],
               x = c.myBoard \/ c.window[1].status = "PREPARING"
        PROVE  /\ c.window # <<>> /\ d.window = <<>> /\ SceneOf(d) = SceneOf(c)
               /\ ~Pending(c, "resume") /\ d.reader = c.reader
               /\ d.enemyBoard = c.enemyBoard
               /\ c.model => StatusOf(d) = StatusOf(c)
               /\ \/ d.myBoard = c.myBoard
                  \/ Pending(c, "setGameStatus") /\ c.window[1].status = "PREPARING"
    <2>1. c.window # <<>> /\ c.window[1].do = "setGameStatus"
      BY <1>3 DEF Pending
    <2>2. /\ d.window = <<>> /\ d.scene = c.scene
          /\ c.model => d.gameStatus = c.window[1].status
          /\ d.myBoard = x /\ d.enemyBoard = c.enemyBoard /\ d.reader = c.reader
      BY <1>1, <1>3, <2>1 DEF Clients
    <2>3. SceneOf(d) = SceneOf(c) /\ (c.model => StatusOf(d) = StatusOf(c)) /\ ~Pending(c, "resume")
      BY <2>1, <2>2 DEF SceneOf, StatusOf, Pending
    <2> QED
      BY <1>3, <2>1, <2>2, <2>3
  <1>4. CASE /\ Pending(c, "setWaiting")
             /\ d = [c EXCEPT !.gameStatus = "WAITING", !.window = Tail(c.window)]
    <2>1. c.window # <<>> /\ c.window[1].do = "setWaiting"
      BY <1>4 DEF Pending
    <2>2. /\ d.window = <<>> /\ d.scene = c.scene /\ d.gameStatus = "WAITING"
          /\ d.myBoard = c.myBoard /\ d.enemyBoard = c.enemyBoard /\ d.reader = c.reader
      BY <1>1, <1>4, <2>1 DEF Clients
    <2> QED
      BY <2>1, <2>2 DEF SceneOf, StatusOf, Pending
  <1>5. CASE /\ Pending(c, "leaveResult")
             /\ d = [c EXCEPT !.scene = "LOBBY", !.model = FALSE, !.gameStatus = "null",
                              !.myBoard = Blank, !.enemyBoard = Blank, !.window = Tail(c.window)]
    <2>1. c.window # <<>> /\ c.window[1].do = "leaveResult"
      BY <1>5 DEF Pending
    <2>2. d.window = <<>> /\ d.scene = "LOBBY" /\ d.reader = c.reader
      BY <1>1, <1>5, <2>1 DEF Clients
    <2> QED
      BY <2>1, <2>2 DEF SceneOf, Pending
  <1>6. CASE c.scene = "GAME_RESULT" /\ c.window = <<>> /\ d = Later(c, LeaveResult)
    <2> PICK a : a = LeaveResult
      OBVIOUS
    <2>1. d.window # <<>> /\ d.window[1] = a /\ Len(d.window) = 1 /\ d.reader = c.reader
      BY <1>6, LaterDoes
    <2>2. a.do = "leaveResult"
      BY DEF LeaveResult
    <2> QED
      BY <1>6, <2>1, <2>2 DEF SceneOf, Pending
  <1>7. CASE /\ Pending(c, "setGameStatus")
             /\ \E fleet \in Fleets :
                  d = [c EXCEPT !.gameStatus = IF c.model THEN c.window[1].status ELSE c.gameStatus,
                                !.myBoard = IF c.window[1].status = "PREPARING" /\ c.scene = "GAME"
                                            THEN convertStringToBoard(fleet) ELSE c.myBoard,
                                !.window = Tail(c.window)]
    <2> PICK x : /\ d = [c EXCEPT !.gameStatus = IF c.model THEN c.window[1].status
                                                 ELSE c.gameStatus,
                                  !.myBoard = x, !.window = Tail(c.window)]
                 /\ x = c.myBoard \/ c.window[1].status = "PREPARING"
      BY <1>7
    <2> QED
      BY <1>3, <1>7
  <1> QED
    BY <1>2, <1>4, <1>5, <1>6, <1>7 DEF Changes

LEMMA FinalScene ==
  ASSUME NEW q \in Seq(Replies), Len(q) <= 2, \A i \in DOMAIN q : q[i].type \notin Hellos, NEW v
  PROVE  Final(v, q).scene = v.scene
  <1> PICK n : n = Len(q)
    OBVIOUS
  <1>1. n \in Nat /\ n <= 2 /\ DOMAIN q = 1 .. n /\ (q # <<>> => n # 0)
    BY QueueEmpty
  <1>2. \A w, m : m.type \notin Hellos => After(w, m).scene = w.scene
    BY DEF After, Hellos
  <1>3. CASE q = <<>>
    BY <1>3 DEF Final
  <1>4. CASE q # <<>> /\ n = 1
    <2>1. q[1].type \notin Hellos
      BY <1>1, <1>4
    <2> QED
      BY <1>2, <1>4, <2>1 DEF Final
  <1>5. CASE q # <<>> /\ n = 2
    <2>1. q[1].type \notin Hellos /\ q[2].type \notin Hellos
      BY <1>1, <1>5
    <2>2. Final(v, q) = After(After(v, q[1]), q[2])
      BY <1>5 DEF Final
    <2> QED
      BY <1>2, <2>1, <2>2
  <1> QED
    BY <1>1, <1>3, <1>4, <1>5

LEMMA ChangesAgrees ==
  ASSUME NEW c \in Clients, NEW r, NEW q \in Seq(Replies), NEW st, NEW b, NEW e,
         NEW u, NEW k, Agrees(c, r, q, u, k, st, b, e), NEW d, Changes(c, d)
  PROVE  Agrees(d, r, q, u, k, st, b, e)
  <1>1. Lines(c, r, q, u, k) /\ (c.window # <<>> => Len(c.window) = 1)
    BY DEF Agrees
  <1>2. /\ ~Pending(c, "resume") /\ d.reader = c.reader
        /\ \/ /\ c.window # <<>> /\ d.window = <<>> /\ SceneOf(d) = SceneOf(c)
              /\ \/ SceneOf(c) = "LOBBY"
                 \/ /\ d.enemyBoard = c.enemyBoard
                    /\ (Pending(c, "setGameStatus") => c.model) => StatusOf(d) = StatusOf(c)
                    /\ \/ d.myBoard = c.myBoard
                       \/ Pending(c, "setGameStatus") /\ c.window[1].status = "PREPARING"
           \/ /\ c.window = <<>> /\ c.scene = "GAME_RESULT" /\ d.window # <<>>
              /\ SceneOf(d) = "LOBBY" /\ Len(d.window) = 1
    BY <1>1, ChangesView
  <1>3. d.window # <<>> => Len(d.window) = 1
    BY <1>2
  <1>4. Lines(d, r, q, u, k)
    <2>1. ~(u /\ ~k)
      BY <1>1, <1>2 DEF Lines
    <2> QED
      BY <1>1, <2>1 DEF Lines
  <1>5. ASSUME st \notin Gaming, Ended(c, q) PROVE Ended(d, q)
    BY <1>2, <1>5 DEF Ended
  <1>6. ASSUME Playing(c, r, q, st, b, e) PROVE Playing(d, r, q, st, b, e)
    <2>1. /\ Len(q) <= 2 /\ (Len(q) = 2 => st = STATE_IN_GAME_PLAYING) /\ ~Told(q, "game_end")
          /\ Opening(c, r, q, st) /\ Ordered(c, r, q, st) /\ Sketching(c, q, st)
          /\ Final(View(c), q).scene = "GAME"
          /\ ~InfoDue(c, r, q) => Faithful(c, r, q, st, b, e)
      BY <1>6 DEF Playing
    <2>2. \A i \in DOMAIN q : q[i].type \notin Hellos
      <3>1. \A i \in DOMAIN q : q[i].type \in Hellos =>
              c.window = <<>> /\ c.scene \in {"ROOM", "CONNECT"}
        BY <2>1 DEF Opening
      <3> QED
        BY <1>2, <3>1
    <2>3. \A v : Final(v, q).scene = v.scene
      BY <2>1, <2>2, FinalScene
    <2>4. SceneOf(c) = "GAME"
      BY <2>1, <2>3, ViewIs
    <2>5. /\ c.window # <<>> /\ d.window = <<>> /\ SceneOf(d) = SceneOf(c)
          /\ d.enemyBoard = c.enemyBoard /\ StatusOf(d) = StatusOf(c)
          /\ st # STATE_IN_GAME_PREPARING => d.myBoard = c.myBoard
      <3>1. Pending(c, "setGameStatus") =>
              c.model /\ (c.window[1].status = "PREPARING" => st = STATE_IN_GAME_PREPARING)
        BY <2>1 DEF Sketching
      <3>2. c.window = <<>> => SceneOf(c) = c.scene
        BY DEF SceneOf
      <3>3. c.window # <<>> /\ d.window = <<>> /\ SceneOf(d) = SceneOf(c)
        BY <1>2, <2>4, <3>2
      <3>4. /\ d.enemyBoard = c.enemyBoard
            /\ (Pending(c, "setGameStatus") => c.model) => StatusOf(d) = StatusOf(c)
            /\ \/ d.myBoard = c.myBoard
               \/ Pending(c, "setGameStatus") /\ c.window[1].status = "PREPARING"
        BY <1>2, <2>4, <3>3
      <3> QED
        BY <3>1, <3>3, <3>4
    <2>6. ~Pending(d, "resume") /\ ~Pending(d, "setGameStatus")
      BY <2>5 DEF Pending
    <2>7. Opening(d, r, q, st)
      BY <2>1, <2>2, <2>6 DEF Opening
    <2>8. Ordered(d, r, q, st)
      <3>1. \A i \in DOMAIN r : r[i].type # "game_prepared"
        BY <2>1, <2>5 DEF Ordered
      <3> QED
        BY <2>1, <2>5, <3>1 DEF Ordered
    <2>9. Sketching(d, q, st)
      BY <2>1, <2>6 DEF Sketching
    <2>10. InfoDue(c, r, q) <=> InfoDue(d, r, q)
      BY <1>2, <2>6 DEF InfoDue
    <2> PICK v, w : v = View(c) /\ w = View(d)
      OBVIOUS
    <2>11. /\ v.scene = w.scene /\ v.status = w.status /\ v.enemy = w.enemy
           /\ st # STATE_IN_GAME_PREPARING => v.my = w.my
      BY <2>5, ViewIs
    <2>12. Final(w, q).scene = "GAME"
      BY <2>1, <2>11, FinalAlike
    <2>13. ASSUME ~InfoDue(d, r, q) PROVE Faithful(d, r, q, st, b, e)
      <3>1. Faithful(c, r, q, st, b, e)
        BY <2>1, <2>10, <2>13
      <3>2. Waits(w, q)
        <4>1. After(v, q[1]).status = After(w, q[1]).status
          BY <2>11, AfterAlike
        <4> QED
          BY <2>11, <3>1, <4>1 DEF Faithful, Waits
      <3>3. /\ Final(v, q).status = Final(w, q).status /\ Final(v, q).enemy = Final(w, q).enemy
            /\ st # STATE_IN_GAME_PREPARING => Final(v, q).my = Final(w, q).my
        BY <2>11, FinalAlike
      <3> QED
        BY <3>1, <3>2, <3>3 DEF Faithful
    <2> QED
      BY <2>1, <2>7, <2>8, <2>9, <2>12, <2>13 DEF Playing
  <1> QED
    BY <1>2, <1>3, <1>4, <1>5, <1>6 DEF Agrees, InStep

\* A request comes to those on their way.
Longer(r, request, s, n) ==
  /\ s \in Seq(Requests) /\ s # <<>> /\ n \in Nat
  /\ DOMAIN r = 1 .. n /\ DOMAIN s = 1 .. (n + 1) /\ s[n + 1] = request
  /\ \A i \in DOMAIN r : i \in DOMAIN s /\ s[i] = r[i]
  /\ \A i \in DOMAIN s : (i \in DOMAIN r /\ s[i] = r[i]) \/ (i = n + 1 /\ s[i] = request)
  /\ \A type : Asked(s, type) <=> Asked(r, type) \/ request.type = type

LEMMA AskedMore ==
  ASSUME NEW r \in Seq(Requests), NEW request \in Requests, NEW s, s = Append(r, request)
  PROVE  Longer(r, request, s, Len(r))
  <1> PICK n : n = Len(r)
    OBVIOUS
  <1>1. /\ s \in Seq(Requests) /\ s # <<>> /\ n \in Nat /\ DOMAIN r = 1 .. n
        /\ DOMAIN s = 1 .. (n + 1) /\ s[n + 1] = request /\ \A i \in 1 .. n : s[i] = r[i]
    BY QueueAdd
  <1>2. n + 1 \in DOMAIN s /\ \A i \in DOMAIN s : i \in DOMAIN r \/ i = n + 1
    BY <1>1
  <1>3. \A i \in DOMAIN r : i \in DOMAIN s /\ s[i] = r[i]
    BY <1>1
  <1>4. \A i \in DOMAIN s : (i \in DOMAIN r /\ s[i] = r[i]) \/ (i = n + 1 /\ s[i] = request)
    BY <1>1, <1>2, <1>3
  <1>5. \A type : Asked(s, type) <=> Asked(r, type) \/ request.type = type
    BY <1>1, <1>2, <1>3, <1>4 DEF Asked
  <1> QED
    BY <1>1, <1>3, <1>4, <1>5 DEF Longer

\* What a user who may press Ready or click at a square knows.
Idle(c, r, q, st, b, e) ==
  /\ q = <<>> /\ Status(st) = c.gameStatus /\ \A i \in DOMAIN r : r[i].type \notin Orders
  /\ c.enemyBoard = e /\ (st # STATE_IN_GAME_PREPARING => c.myBoard = b)
  /\ ~InfoDue(c, r, q)

\* While a user may press Ready or click at a square, nothing is on its way but what
\* leaves the game, and the server is in the state that the user sees.
LEMMA FreeToAct ==
  ASSUME NEW c \in Clients, NEW r, NEW q \in Seq(Replies), NEW st, NEW b, NEW e,
         Playing(c, r, q, st, b, e), c.scene = "GAME", c.window = <<>>, ~Told(q, "eof"),
         c.gameStatus \in {"PREPARING", "PLAYING"},
         \A i \in DOMAIN r : r[i].type \notin {"game_prepared", "game_info_req"},
         \A i \in DOMAIN q : q[i].type \notin {"game_prepared_ok", "game_prepared_err",
                                               "game_info_data"}
  PROVE  Idle(c, r, q, st, b, e)
  <1>1. /\ ~Told(q, "game_end") /\ Len(q) <= 2 /\ Opening(c, r, q, st) /\ Ordered(c, r, q, st)
        /\ ~InfoDue(c, r, q) => Faithful(c, r, q, st, b, e)
    BY DEF Playing
  <1>2. \A i \in DOMAIN q : q[i].type \notin Hellos
    BY <1>1 DEF Opening
  <1>3. ~InfoDue(c, r, q)
    BY <1>2 DEF InfoDue, Asked, Told, Pending, Hellos
  <1>4. \A i \in DOMAIN q : q[i] \in Replies
    OBVIOUS
  <1>5. \A i \in DOMAIN q : q[i].type \in Moves
    BY <1>1, <1>2, <1>4, ReplyFields DEF Told, Moves, Hellos
  <1>6. StatusOf(c) = c.gameStatus /\ View(c).status = StatusOf(c)
    BY DEF StatusOf, View
  <1>7. q = <<>>
    <2> PICK n : n = Len(q)
      OBVIOUS
    <2>1. n \in Nat /\ DOMAIN q = 1 .. n
      OBVIOUS
    <2>2. CASE n >= 1
      <3>1. q[1].type \in Moves
        BY <1>5, <2>1, <2>2
      <3>2. n = 2 => q[2].type # "game_info_data"
        <4>1. n = 2 => 2 \in DOMAIN q
          BY <2>1
        <4> QED
          BY <4>1
      <3>3. Waits(View(c), q)
        BY <1>1, <1>3 DEF Faithful
      <3>4. View(c).status = "WAITING"
        BY <2>2, <3>1, <3>2, <3>3 DEF Waits
      <3> QED
        BY <1>6, <3>4
    <2>3. CASE n = 0
      BY <2>3, QueueEmpty
    <2> QED
      BY <2>1, <2>2, <2>3
  <1>8. Final(View(c), q) = View(c)
    BY <1>7 DEF Final
  <1>9. ~Asked(r, "game_fire_req")
    BY <1>1, <1>6 DEF Ordered
  <1>10. Faithful(c, r, q, st, b, e)
    BY <1>1, <1>3
  <1>11. /\ View(c).status = Status(st) /\ View(c).enemy = e
         /\ st # STATE_IN_GAME_PREPARING => View(c).my = b
    BY <1>8, <1>9, <1>10 DEF Faithful
  <1>12. \A i \in DOMAIN r : r[i].type \notin Orders
    BY <1>9 DEF Orders, Asked
  <1> QED
    BY <1>3, <1>6, <1>7, <1>11, <1>12, ViewIs DEF Idle

LEMMA SendsPlaying ==
  ASSUME NEW c \in Clients, NEW r \in Seq(Requests), NEW q \in Seq(Replies),
         NEW st, NEW b, NEW e, Prompt, c.window # <<>> => Len(c.window) = 1,
         ~Told(q, "eof"), Playing(c, r, q, st, b, e),
         NEW d, NEW request \in Requests, Sends(c, d, request),
         request.type \in {"game_prepared", "game_fire_req"} =>
           /\ \A i \in DOMAIN r : r[i].type \notin {"game_prepared", "game_info_req"}
           /\ \A i \in DOMAIN q : q[i].type \notin {"game_prepared_ok", "game_prepared_err",
                                                    "game_info_data"},
         NEW s, s = Append(r, request)
  PROVE  Playing(d, s, q, st, b, e) /\ d.reader = c.reader /\ SceneOf(c) = "GAME"
         /\ (d.window # <<>> => Len(d.window) = 1)
  <1> PICK n : n = Len(r)
    OBVIOUS
  <1>0. Longer(r, request, s, n)
    BY AskedMore
  <1>1. /\ s \in Seq(Requests) /\ s # <<>> /\ DOMAIN s = 1 .. (n + 1) /\ n \in Nat
        /\ DOMAIN r = 1 .. n /\ s[n + 1] = request
        /\ \A i \in DOMAIN s : (i \in DOMAIN r /\ s[i] = r[i]) \/ (i = n + 1 /\ s[i] = request)
        /\ \A type : Asked(s, type) <=> Asked(r, type) \/ request.type = type
    BY <1>0 DEF Longer
  <1>2. /\ Len(q) <= 2 /\ (Len(q) = 2 => st = STATE_IN_GAME_PLAYING) /\ ~Told(q, "game_end")
        /\ Opening(c, r, q, st) /\ Ordered(c, r, q, st) /\ Sketching(c, q, st)
        /\ Final(View(c), q).scene = "GAME"
        /\ ~InfoDue(c, r, q) => Faithful(c, r, q, st, b, e)
    BY DEF Playing
  <1>3. CASE /\ Pending(c, "resume") /\ request = Msg("game_info_req")
             /\ \E fleet \in Fleets :
                  d = [c EXCEPT !.model = TRUE, !.gameStatus = "null",
                                !.myBoard = convertStringToBoard(fleet),
                                !.enemyBoard = Blank, !.scene = "GAME", !.window = Tail(c.window)]
    <2>1. c.window # <<>> /\ c.window[1].do = "resume" /\ request.type = "game_info_req"
      BY <1>3 DEF Pending, Msg
    <2>2. Tail(c.window) = <<>>
      <3>1. c.window \in Seq(Actions) /\ Len(c.window) = 1
        BY <2>1 DEF Clients
      <3>2. Tail(c.window) \in Seq(Actions) /\ Len(Tail(c.window)) = 0
        BY <2>1, <3>1, QueueTail
      <3> QED
        BY ONLY <3>2, QueueEmpty
    <2>3. d.scene = "GAME" /\ d.window = <<>> /\ d.reader = c.reader
      BY <1>3, <2>2 DEF Clients
    <2>4. SceneOf(c) = "GAME" /\ SceneOf(d) = "GAME" /\ ~Pending(d, "resume")
          /\ ~Pending(d, "setGameStatus")
      BY <2>1, <2>3 DEF SceneOf, Pending
    <2>5. /\ r = <<>> /\ ~Told(q, "login_ok")
          /\ \/ q = <<>>
             \/ Len(q) = 1 /\ q[1].type \in Passes /\ st = STATE_IN_GAME_PLAYING
      BY <1>2, <1>3 DEF Opening
    <2>6. \A i \in DOMAIN q : q[i].type \notin Hellos
      BY <1>2, <2>1 DEF Opening
    <2>7. Opening(d, s, q, st)
      BY <2>4, <2>5, <2>6 DEF Opening
    <2>8. Ordered(d, s, q, st)
      <3>1. n = 0
        BY <2>5
      <3>2. \A i \in DOMAIN s : i = 1 /\ s[i].type = "game_info_req"
        BY <1>1, <2>1, <3>1
      <3> QED
        BY <3>2 DEF Ordered, Asked
    <2>9. Sketching(d, q, st)
      BY <1>2, <2>4 DEF Sketching
    <2>10. Final(View(d), q).scene = "GAME"
      <3>1. Final(View(d), q).scene = View(d).scene
        BY <1>2, <2>6, FinalScene
      <3> QED
        BY <2>4, <3>1, ViewIs
    <2>11. InfoDue(d, s, q)
      BY <1>1, <2>1 DEF InfoDue
    <2> QED
      BY <1>2, <2>3, <2>4, <2>7, <2>8, <2>9, <2>10, <2>11 DEF Playing
  <1>4. ASSUME c.scene = "GAME", c.window = <<>>
        PROVE  /\ \A i \in DOMAIN q : q[i].type \notin Hellos
               /\ SceneOf(c) = "GAME" /\ StatusOf(c) = c.gameStatus
               /\ ~Pending(c, "resume") /\ ~Told(q, "login_ok")
    <2>1. \A i \in DOMAIN q : q[i].type \notin Hellos
      BY <1>2, <1>4 DEF Opening
    <2> QED
      BY <1>4, <2>1 DEF SceneOf, StatusOf, Pending, Told, Hellos
  <1>5. CASE /\ c.scene = "GAME" /\ (Prompt => c.window = <<>>) /\ d = c
             /\ c.gameStatus = "PREPARING"
             /\ request = [type |-> "game_prepared", layout |-> getMyBoardStringForm(c.myBoard)]
    <2>1. c.scene = "GAME" /\ c.window = <<>> /\ request.type = "game_prepared"
          /\ request.layout = getMyBoardStringForm(c.myBoard)
      BY <1>5
    <2>2. /\ q = <<>> /\ Status(st) = "PREPARING" /\ \A i \in DOMAIN r : r[i].type \notin Orders
          /\ ~InfoDue(c, r, q)
      <3>1. Idle(c, r, q, st, b, e)
        BY <1>5, <2>1, FreeToAct
      <3> QED
        BY <1>5, <3>1 DEF Idle
    <2>3. st = STATE_IN_GAME_PREPARING
      BY <2>2, StatusIs
    <2>4. Ordered(c, s, q, st)
      <3>1. \A i \in DOMAIN s : s[i].type \in Orders => i = n + 1 /\ s[i] = request
        BY <1>1, <2>2
      <3>2. ~Asked(s, "game_fire_req")
        BY <1>1, <2>1, <2>2 DEF Asked, Orders
      <3> QED
        BY <2>1, <2>2, <2>3, <3>1, <3>2 DEF Ordered, Orders
    <2>5. /\ Asked(s, "game_info_req") <=> Asked(r, "game_info_req")
          /\ Asked(s, "game_fire_req") <=> Asked(r, "game_fire_req")
      BY <1>1, <2>1
    <2>6. Opening(c, s, q, st)
      BY <1>2, <1>4, <2>1, <2>5 DEF Opening
    <2>7. InfoDue(c, s, q) <=> InfoDue(c, r, q)
      BY <2>5 DEF InfoDue
    <2>8. Faithful(c, r, q, st, b, e) => Faithful(c, s, q, st, b, e)
      BY <2>5 DEF Faithful
    <2> QED
      BY <1>2, <1>4, <1>5, <2>1, <2>4, <2>6, <2>7, <2>8 DEF Playing
  <1>6. CASE /\ c.scene = "GAME" /\ (Prompt => c.window = <<>>) /\ c.gameStatus = "PLAYING"
             /\ \E sq \in Clicks : request = [type |-> "game_fire_req", sq |-> sq]
             /\ d = [c EXCEPT !.window = <<FiredAt>> \o c.window]
    <2>1. c.scene = "GAME" /\ c.window = <<>> /\ request.type = "game_fire_req"
      BY <1>6
    <2>0. /\ c.gameStatus = "PLAYING"
          /\ \A i \in DOMAIN r : r[i].type \notin {"game_prepared", "game_info_req"}
          /\ \A i \in DOMAIN q : q[i].type \notin {"game_prepared_ok", "game_prepared_err",
                                                   "game_info_data"}
      BY <1>6, <2>1
    <2>2. /\ q = <<>> /\ Status(st) = "PLAYING" /\ \A i \in DOMAIN r : r[i].type \notin Orders
          /\ c.enemyBoard = e /\ (st # STATE_IN_GAME_PREPARING => c.myBoard = b)
      <3>1. c \in Clients /\ q \in Seq(Replies) /\ Playing(c, r, q, st, b, e) /\ ~Told(q, "eof")
            /\ c.gameStatus \in {"PREPARING", "PLAYING"}
        BY <2>0
      <3>2. Idle(c, r, q, st, b, e)
        BY ONLY <2>0, <2>1, <3>1, FreeToAct
      <3> QED
        BY <2>0, <3>2 DEF Idle
    <2>3. st = STATE_IN_GAME_PLAYING
      BY <2>2, StatusIs
    <2> PICK a : a = FiredAt
      OBVIOUS
    <2> PICK w : w = <<a>>
      OBVIOUS
    <2>4. a.do = "setWaiting" /\ w # <<>> /\ w[1] = a /\ Len(w) = 1 /\ <<a>> \o <<>> = w
      BY DEF FiredAt
    <2>5. d = [c EXCEPT !.window = w]
      BY <1>6, <2>1, <2>4
    <2>6. /\ d.window = w /\ d.scene = "GAME" /\ d.myBoard = c.myBoard
          /\ d.enemyBoard = c.enemyBoard /\ d.reader = c.reader
      BY <2>1, <2>5 DEF Clients
    <2>7. /\ SceneOf(d) = "GAME" /\ StatusOf(d) = "WAITING"
          /\ ~Pending(d, "resume") /\ ~Pending(d, "setGameStatus")
      BY <2>4, <2>6 DEF SceneOf, StatusOf, Pending
    <2>8. Len(q) = 0 /\ DOMAIN q = {}
      BY <2>2
    <2>9. ~Asked(s, "game_info_req") /\ Asked(s, "game_fire_req")
      BY <1>1, <2>1, <2>2 DEF Asked, Orders
    <2>10. Opening(d, s, q, st)
      BY <2>7, <2>8, <2>9 DEF Opening, Told
    <2>11. Ordered(d, s, q, st)
      <3>1. \A i \in DOMAIN s : s[i].type \in Orders => i = n + 1 /\ s[i] = request
        BY <1>1, <2>2
      <3> QED
        BY <2>1, <2>2, <2>3, <2>7, <3>1 DEF Ordered, Orders
    <2>12. Sketching(d, q, st)
      BY <2>7, <2>8 DEF Sketching
    <2>13. Final(View(d), q) = View(d)
      BY <2>2 DEF Final
    <2>14. Faithful(d, s, q, st, b, e)
      <3>1. Waits(View(d), q)
        BY <2>8 DEF Waits
      <3> QED
        BY <2>2, <2>6, <2>9, <2>13, <3>1, ViewIs DEF Faithful
    <2>15. Final(View(d), q).scene = "GAME"
      BY <2>7, <2>13, ViewIs
    <2>16. d.window # <<>> => Len(d.window) = 1
      BY <2>4, <2>6
    <2> QED
      BY <1>2, <1>4, <2>1, <2>6, <2>10, <2>11, <2>12, <2>14, <2>15, <2>16 DEF Playing
  <1>7. CASE /\ c.scene = "GAME" /\ (Prompt => c.window = <<>>) /\ d = c
             /\ request = Msg("room_leave_req")
    <2>1. c.scene = "GAME" /\ c.window = <<>> /\ request.type = "room_leave_req"
      BY <1>7 DEF Msg
    <2>2. Ordered(c, s, q, st)
      <3>1. \A i \in DOMAIN s : (i \in DOMAIN r /\ s[i] = r[i]) \/ s[i].type = "room_leave_req"
        BY <1>1, <2>1
      <3>2. Asked(s, "game_fire_req") => Asked(r, "game_fire_req")
        BY <1>1, <2>1
      <3>3. /\ \A i \in DOMAIN s : s[i].type \in Orders => i \in DOMAIN r /\ s[i] = r[i]
            /\ \A i \in DOMAIN s : s[i].type = "game_prepared" => i \in DOMAIN r /\ s[i] = r[i]
        BY <3>1 DEF Orders
      <3> QED
        BY <1>2, <3>2, <3>3 DEF Ordered
    <2>5. /\ Asked(s, "game_info_req") <=> Asked(r, "game_info_req")
          /\ Asked(s, "game_fire_req") <=> Asked(r, "game_fire_req")
      BY <1>1, <2>1
    <2>6. Opening(c, s, q, st)
      BY <1>2, <1>4, <2>1, <2>5 DEF Opening
    <2>7. InfoDue(c, s, q) <=> InfoDue(c, r, q)
      BY <2>5 DEF InfoDue
    <2>8. Faithful(c, r, q, st, b, e) => Faithful(c, s, q, st, b, e)
      BY <2>5 DEF Faithful
    <2> QED
      BY <1>2, <1>4, <1>7, <2>1, <2>2, <2>6, <2>7, <2>8 DEF Playing
  <1> QED
    BY <1>3, <1>5, <1>6, <1>7 DEF Sends

\* A user orders nothing who waits for an answer.
Timely(request, r, q) ==
  request.type \in {"game_prepared", "game_fire_req"} =>
    /\ \A i \in DOMAIN r : r[i].type \notin {"game_prepared", "game_info_req"}
    /\ \A i \in DOMAIN q : q[i].type \notin {"game_prepared_ok", "game_prepared_err",
                                             "game_info_data"}

LEMMA SendsAgrees ==
  ASSUME NEW c \in Clients, NEW r \in Seq(Requests), NEW q \in Seq(Replies),
         NEW st, NEW b, NEW e, NEW u \in BOOLEAN, NEW k \in BOOLEAN, Prompt, Agrees(c, r, q, u, k, st, b, e),
         NEW d, NEW request \in Requests, Sends(c, d, request),
         Timely(request, r, q),
         NEW s, s = IF u THEN Append(r, request) ELSE r
  PROVE  Agrees(d, s, q, u, k, st, b, e)
  <1> USE DEF Timely
  <1>1. Lines(c, r, q, u, k) /\ (c.window # <<>> => Len(c.window) = 1)
        /\ (u /\ k /\ c.reader = "running" => InStep(c, r, q, st, b, e))
    BY DEF Agrees
  <1>2. /\ d.window # <<>> => Len(d.window) = 1
        /\ d.reader = c.reader /\ SceneOf(c) = "GAME"
        /\ request.type \in {"game_prepared", "game_fire_req", "game_info_req", "room_leave_req"}
    <2>1. CASE Pending(c, "resume") /\ request = Msg("game_info_req") /\
               \E fleet \in Fleets :
                 d = [c EXCEPT !.model = TRUE, !.gameStatus = "null",
                               !.myBoard = convertStringToBoard(fleet),
                               !.enemyBoard = Blank, !.scene = "GAME", !.window = Tail(c.window)]
      <3>1. c.window # <<>> /\ c.window[1].do = "resume" /\ request.type = "game_info_req"
        BY <2>1 DEF Pending, Msg
      <3>2. Tail(c.window) = <<>>
        <4>1. c.window \in Seq(Actions) /\ Len(c.window) = 1
          BY <1>1, <3>1 DEF Clients
        <4>2. Tail(c.window) \in Seq(Actions) /\ Len(Tail(c.window)) = 0
          BY <3>1, <4>1, QueueTail
        <4> QED
          BY ONLY <4>2, QueueEmpty
      <3>3. d.window = <<>> /\ d.reader = c.reader
        BY <2>1, <3>2 DEF Clients
      <3> QED
        BY <3>1, <3>3 DEF SceneOf
    <2>2. CASE c.scene = "GAME" /\ (Prompt => c.window = <<>>) /\ d = c
               /\ request = [type |-> "game_prepared",
                             layout |-> getMyBoardStringForm(c.myBoard)]
      BY <2>2 DEF SceneOf
    <2>3. CASE c.scene = "GAME" /\ (Prompt => c.window = <<>>)
               /\ (\E sq \in Clicks : request = [type |-> "game_fire_req", sq |-> sq])
               /\ d = [c EXCEPT !.window = <<FiredAt>> \o c.window]
      <3> PICK w : w = <<FiredAt>>
        OBVIOUS
      <3>1. w \o <<>> = w /\ Len(w) = 1
        OBVIOUS
      <3>2. d = [c EXCEPT !.window = w]
        BY <2>3, <3>1
      <3>3. d.window = w /\ d.reader = c.reader
        BY <3>2 DEF Clients
      <3> QED
        BY <2>3, <3>1, <3>3 DEF SceneOf
    <2>4. CASE c.scene = "GAME" /\ (Prompt => c.window = <<>>) /\ d = c
               /\ request = Msg("room_leave_req")
      BY <2>4 DEF SceneOf, Msg
    <2> QED
      BY <2>1, <2>2, <2>3, <2>4 DEF Sends
  <1>3. CASE ~u
    BY <1>1, <1>2, <1>3 DEF Agrees, Lines
  <1>4. CASE u
    <2>0. s = Append(r, request)
      BY <1>4
    <2> PICK n : n = Len(r)
      OBVIOUS
    <2>1. Longer(r, request, s, n)
      BY <2>0, AskedMore
    <2>2. ~Asked(s, "eof") /\ ~Told(q, "eof") /\ k /\ ~Asked(s, "login_req")
      <3>1. k
        <4>1. ~k => c.scene = "CONNECT" /\ c.window = <<>>
          BY <1>1, <1>4 DEF Lines
        <4> QED
          BY <1>2, <4>1 DEF SceneOf
      <3>2. ~Asked(r, "eof") /\ ~Told(q, "eof") /\ ~Asked(r, "login_req")
        BY <1>1, <1>4, <3>1 DEF Lines
      <3>3. /\ Asked(s, "eof") <=> Asked(r, "eof")
            /\ Asked(s, "login_req") <=> Asked(r, "login_req")
        BY <1>2, <2>1 DEF Longer
      <3> QED
        BY <3>1, <3>2, <3>3
    <2>3. Lines(d, s, q, u, k)
      BY <1>4, <2>2 DEF Lines
    <2>4. ASSUME c.reader = "running", st \in Gaming PROVE Playing(d, s, q, st, b, e)
      <3>1. Playing(c, r, q, st, b, e)
        BY <1>1, <1>4, <2>2, <2>4 DEF InStep
      <3> QED
        BY <1>1, <2>0, <2>2, <3>1, SendsPlaying
    <2>5. ASSUME c.reader = "running", st \notin Gaming PROVE Ended(d, q)
      <3>1. Ended(c, q)
        BY <1>1, <1>4, <2>2, <2>5 DEF InStep
      <3> QED
        BY <1>2, <3>1 DEF Ended
    <2> QED
      BY <1>2, <2>3, <2>4, <2>5 DEF Agrees, InStep
  <1> QED
    BY <1>3, <1>4

\* What the invariant says of one player.
Row(p) == Agrees(client[p], toServer[p], toClient[p], up[p], connected[p],
                 state[p], board[p], Masked(board[Opponent(p)]))

\* What does not touch a player leaves the player's part of the invariant as it is.
LEMMA RowStays ==
  ASSUME NEW p \in Player, Row(p), client'[p] = client[p], toServer'[p] = toServer[p],
         toClient'[p] = toClient[p], up'[p] = up[p], connected'[p] = connected[p],
         state'[p] = state[p], board'[p] = board[p], board'[Opponent(p)] = board[Opponent(p)]
  PROVE  Row(p)'
  <1>1. Masked(board'[Opponent(p)]) = Masked(board[Opponent(p)])
    BY DEF Masked
  <1>2. Row(p)' = Agrees(client'[p], toServer'[p], toClient'[p], up'[p], connected'[p],
                         state'[p], board'[p], Masked(board'[Opponent(p)]))
    BY DEF Row, Opponent
  <1> QED
    BY <1>1, <1>2 DEF Row

LEMMA ReadRows ==
  ASSUME SysTypes, Prompt, \A p \in Player : Row(p), NEW p \in Player, Read(p)
  PROVE  \A o \in Player : Row(o)'
  <1> PICK c, q : c = client[p] /\ q = toClient[p]
    OBVIOUS
  <1>1. /\ c.reader = "running" /\ c.window = <<>> /\ q # <<>>
        /\ toClient' = [toClient EXCEPT ![p] = Tail(q)]
        /\ \E d : Reads(c, q[1], d) /\ client' = [client EXCEPT ![p] = d]
        /\ UNCHANGED <<matchVars, connected, up, toServer, losses>>
    BY ReadDoes DEF SysTypes
  <1>2. PICK d : Reads(c, q[1], d) /\ client' = [client EXCEPT ![p] = d]
    BY <1>1
  <1>3. /\ c \in Clients /\ q \in Seq(Replies) /\ toServer[p] \in Seq(Requests)
        /\ client \in [Player -> Clients] /\ toClient \in [Player -> Seq(Replies)]
    BY DEF SysTypes, LineTypeOK, ClientTypeOK
  <1>4. client'[p] = d /\ toClient'[p] = Tail(q)
        /\ \A o \in Player \ {p} : client'[o] = client[o] /\ toClient'[o] = toClient[o]
    BY <1>1, <1>2, <1>3
  <1>5. /\ \A o \in Player : /\ toServer'[o] = toServer[o] /\ up'[o] = up[o]
                             /\ connected'[o] = connected[o] /\ state'[o] = state[o]
        /\ board' = board
    BY <1>1 DEF matchVars, vars
  <1>6. Row(p)'
    <2>1. Agrees(c, toServer[p], q, up[p], connected[p], state[p], board[p],
                 Masked(board[Opponent(p)]))
      BY DEF Row
    <2>2. Agrees(d, toServer[p], Tail(q), up[p], connected[p], state[p], board[p],
                 Masked(board[Opponent(p)]))
      BY <1>1, <1>2, <1>3, <2>1, ReadAgrees
    <2>3. Row(p)' = Agrees(client'[p], toServer'[p], toClient'[p], up'[p], connected'[p],
                           state'[p], board'[p], Masked(board'[Opponent(p)]))
      BY DEF Row, Opponent
    <2>4. Masked(board'[Opponent(p)]) = Masked(board[Opponent(p)]) /\ board'[p] = board[p]
      BY <1>5
    <2> QED
      BY <1>4, <1>5, <2>2, <2>3, <2>4
  <1>7. ASSUME NEW o \in Player \ {p} PROVE Row(o)'
    <2>1. board'[o] = board[o] /\ board'[Opponent(o)] = board[Opponent(o)]
      BY <1>5
    <2> QED
      BY <1>4, <1>5, <2>1, RowStays
  <1> QED
    BY <1>6, <1>7

LEMMA ActRows ==
  ASSUME SysTypes, Prompt, Patient, \A p \in Player : Row(p), NEW p \in Player, Acts(p)
  PROVE  \A o \in Player : Row(o)'
  <1> PICK c, r, q : c = client[p] /\ r = toServer[p] /\ q = toClient[p]
    OBVIOUS
  <1>1. /\ \E d : Acted(p, c, r, d)
        /\ UNCHANGED <<matchVars, connected, up, toClient, losses>>
    BY ActDoes DEF SysTypes
  <1>2. PICK d : Acted(p, c, r, d)
    BY <1>1
  <1>3. /\ c \in Clients /\ q \in Seq(Replies) /\ r \in Seq(Requests)
        /\ client \in [Player -> Clients] /\ toServer \in [Player -> Seq(Requests)]
        /\ up[p] \in BOOLEAN /\ connected[p] \in BOOLEAN
    BY DEF SysTypes, LineTypeOK, ClientTypeOK
  <1>4. /\ client'[p] = d /\ \A o \in Player \ {p} : client'[o] = client[o]
    BY <1>2, <1>3 DEF Acted
  <1>5. /\ \A o \in Player : /\ toClient'[o] = toClient[o] /\ up'[o] = up[o]
                             /\ connected'[o] = connected[o] /\ state'[o] = state[o]
        /\ board' = board
    BY <1>1 DEF matchVars, vars
  <1> PICK s : s = toServer'[p]
    OBVIOUS
  <1>6. Agrees(c, r, q, up[p], connected[p], state[p], board[p], Masked(board[Opponent(p)]))
    BY DEF Row
  <1>7. /\ Agrees(d, s, q, up[p], connected[p], state[p], board[p], Masked(board[Opponent(p)]))
        /\ \A o \in Player \ {p} : toServer'[o] = toServer[o]
    <2>1. CASE Changes(c, d) /\ UNCHANGED toServer
      <3>1. s = r
        BY <2>1
      <3> QED
        BY <1>3, <1>6, <2>1, <3>1, ChangesAgrees
    <2>2. ASSUME NEW request, Sends(c, d, request),
                 request.type \in {"game_prepared", "game_fire_req"} => ~Unanswered(p),
                 toServer' = [toServer EXCEPT ![p] = IF up[p] THEN Append(r, request) ELSE r]
          PROVE  /\ Agrees(d, s, q, up[p], connected[p], state[p], board[p],
                           Masked(board[Opponent(p)]))
                 /\ \A o \in Player \ {p} : toServer'[o] = toServer[o]
      <3>1. request \in Requests
        BY <1>3, <2>2, SendsTyped
      <3>2. s = IF up[p] THEN Append(r, request) ELSE r
        BY <1>3, <2>2
      <3>3. Timely(request, r, q)
        BY <2>2 DEF Unanswered, Timely
      <3>4. Agrees(d, s, q, up[p], connected[p], state[p], board[p], Masked(board[Opponent(p)]))
        <4> PICK u, k, st, b, e : /\ u = up[p] /\ k = connected[p] /\ st = state[p]
                                  /\ b = board[p] /\ e = Masked(board[Opponent(p)])
          OBVIOUS
        <4>1. /\ Agrees(c, r, q, u, k, st, b, e) /\ u \in BOOLEAN /\ k \in BOOLEAN /\ Prompt
              /\ s = IF u THEN Append(r, request) ELSE r
              /\ c \in Clients /\ q \in Seq(Replies) /\ r \in Seq(Requests)
          BY <1>3, <1>6, <3>2
        <4>2. Agrees(d, s, q, u, k, st, b, e)
          <5>1. Agrees(c, r, q, u, k, st, b, e)
            BY <4>1
          <5>2. s = IF u THEN Append(r, request) ELSE r
            BY <4>1
          <5>3. c \in Clients /\ q \in Seq(Replies) /\ r \in Seq(Requests)
            BY <4>1
          <5>4. u \in BOOLEAN /\ k \in BOOLEAN /\ Prompt
            BY <4>1
          <5> QED
            BY ONLY <2>2, <3>1, <3>3, <5>1, <5>2, <5>3, <5>4, SendsAgrees
        <4> QED
          BY <4>2
      <3> QED
        BY <1>3, <2>2, <3>4
    <2> QED
      BY <1>2, <2>1, <2>2 DEF Acted
  <1>8. Row(p)'
    <2>3. Row(p)' = Agrees(client'[p], toServer'[p], toClient'[p], up'[p], connected'[p],
                           state'[p], board'[p], Masked(board'[Opponent(p)]))
      BY DEF Row, Opponent
    <2>4. Masked(board'[Opponent(p)]) = Masked(board[Opponent(p)]) /\ board'[p] = board[p]
      BY <1>5
    <2> QED
      BY <1>4, <1>5, <1>7, <2>3, <2>4
  <1>9. ASSUME NEW o \in Player \ {p} PROVE Row(o)'
    <2>1. board'[o] = board[o] /\ board'[Opponent(o)] = board[Opponent(o)]
      BY <1>5
    <2> QED
      BY <1>4, <1>5, <1>7, <2>1, RowStays
  <1> QED
    BY <1>8, <1>9

\* A connection that breaks: the server finds its end.
LEMMA CutLines ==
  ASSUME NEW c, NEW d, NEW r \in Seq(Requests), NEW q, NEW x, NEW k, Lines(c, r, q, TRUE, k),
         NEW m \in Cut(r)
  PROVE  Lines(d, m, x, FALSE, k)
  <1>1. /\ m \in Seq(Requests) /\ m # <<>> /\ Len(m) \in Nat \ {0} /\ DOMAIN m = 1 .. Len(m)
        /\ m[Len(m)] = Eof /\ Len(m) - 1 <= Len(r) /\ \A i \in 1 .. (Len(m) - 1) : m[i] = r[i]
    BY EofTyped, CutDoes
  <1>2. ~Asked(r, "eof")
    BY DEF Lines
  <1> PICK n, l : n = Len(m) /\ l = Len(r)
    OBVIOUS
  <1>3. l \in Nat /\ DOMAIN r = 1 .. l
    OBVIOUS
  <1>4. ASSUME NEW i \in DOMAIN m, i # n PROVE m[i].type # "eof"
    <2>1. i \in 1 .. (n - 1) /\ i \in DOMAIN r
      BY <1>1, <1>3, <1>4
    <2>2. m[i] = r[i]
      BY <1>1, <2>1
    <2> QED
      BY <1>2, <2>1, <2>2 DEF Asked
  <1>5. m[n].type = "eof"
    BY <1>1, EofTyped
  <1> QED
    BY <1>1, <1>4, <1>5 DEF Lines

LEMMA LineRows ==
  ASSUME SysTypes, \A p \in Player : Row(p), NEW p \in Player, connect(p) \/ Loss(p) \/ Crash(p)
  PROVE  \A o \in Player : Row(o)'
  <1> PICK c, r, q : c = client[p] /\ r = toServer[p] /\ q = toClient[p]
    OBVIOUS
  <1>0. LineTypeOK /\ ClientTypeOK /\ c \in Clients /\ r \in Seq(Requests)
    BY DEF SysTypes, LineTypeOK, ClientTypeOK
  <1>1. UNCHANGED <<matchVars, connected>>
    BY <1>0, ConnectDoes, LossDoes, CrashDoes
  <1>2. \A o \in Player \ {p} : /\ client'[o] = client[o] /\ toServer'[o] = toServer[o]
                                /\ toClient'[o] = toClient[o] /\ up'[o] = up[o]
    <2>1. CASE connect(p)
      BY <1>0, <2>1, ConnectDoes DEF LineTypeOK, ClientTypeOK
    <2>2. CASE Loss(p)
      <3>1. /\ up' = [up EXCEPT ![p] = FALSE] /\ UNCHANGED client
            /\ \E m \in Cut(toServer[p]) : toServer' = [toServer EXCEPT ![p] = m]
            /\ \E m : toClient' = [toClient EXCEPT ![p] = m]
        BY <1>0, <2>2, LossDoes
      <3> QED
        BY <1>0, <3>1 DEF LineTypeOK
    <2>3. CASE Crash(p)
      <3>1. /\ up' = [up EXCEPT ![p] = FALSE]
            /\ client' = [client EXCEPT ![p] = Started]
            /\ \/ up[p] /\ \E m \in Cut(toServer[p]) : toServer' = [toServer EXCEPT ![p] = m]
               \/ ~up[p] /\ UNCHANGED toServer
            /\ toClient' = [toClient EXCEPT ![p] = <<>>]
        BY <1>0, <2>3, CrashDoes
      <3> QED
        BY <1>0, <3>1 DEF LineTypeOK, ClientTypeOK
    <2> QED
      BY <2>1, <2>2, <2>3
  <1>3. /\ Lines(c, r, q, up[p], connected[p]) /\ (c.window # <<>> => Len(c.window) = 1)
        /\ up[p] \in BOOLEAN /\ connected[p] \in BOOLEAN /\ connected'[p] = connected[p]
    BY <1>0, <1>1 DEF Row, Agrees, LineTypeOK
  <1>4. Row(p)' = Agrees(client'[p], toServer'[p], toClient'[p], up'[p], connected'[p],
                         state'[p], board'[p], Masked(board'[Opponent(p)]))
    BY DEF Row, Opponent
  <1>5. Row(p)'
    <2> PICK d, s, t : d = client'[p] /\ s = toServer'[p] /\ t = toClient'[p]
      OBVIOUS
    <2>1. CASE connect(p)
      <3>1. /\ c.scene = "CONNECT" /\ c.window = <<>>
            /\ ~up[p] /\ r = <<>> /\ up'[p] = TRUE /\ s = <<Msg("login_req")>> /\ t = <<>>
            /\ d = [c EXCEPT !.reader = "running"]
        <4>1. /\ c.scene = "CONNECT" /\ c.window = <<>>
              /\ ~up[p] /\ r = <<>>
              /\ up' = [up EXCEPT ![p] = TRUE]
              /\ toServer' = [toServer EXCEPT ![p] = <<Msg("login_req")>>]
              /\ toClient' = [toClient EXCEPT ![p] = <<>>]
              /\ client' = [client EXCEPT ![p] = [c EXCEPT !.reader = "running"]]
          BY <1>0, <2>1, ConnectDoes
        <4> QED
          BY <1>0, <4>1 DEF LineTypeOK, ClientTypeOK
      <3>2. d.scene = "CONNECT" /\ d.window = <<>> /\ d.reader = "running"
        BY <1>0, <3>1 DEF Clients
      <3>3. ~connected[p]
        BY <1>3, <3>1 DEF Lines
      <3>4. DOMAIN t = {} /\ DOMAIN s = {1} /\ s[1].type = "login_req"
        BY <3>1 DEF Msg
      <3>5. Lines(d, s, t, TRUE, FALSE)
        BY <3>1, <3>2, <3>4 DEF Lines, Told, Asked
      <3> QED
        BY <1>3, <1>4, <3>1, <3>2, <3>3, <3>5 DEF Agrees
    <2>2. ASSUME d.window # <<>> => Len(d.window) = 1, Lines(d, s, t, FALSE, connected[p]),
                 up'[p] = FALSE
          PROVE  Row(p)'
      BY <1>3, <1>4, <2>2 DEF Agrees
    <2>3. CASE Loss(p)
      <3>1. /\ up[p] /\ up'[p] = FALSE /\ d = c
            /\ \E m \in Cut(r) : toServer' = [toServer EXCEPT ![p] = m]
        BY <1>0, <2>3, LossDoes DEF LineTypeOK
      <3>2. s \in Cut(r)
        BY <1>0, <3>1 DEF LineTypeOK
      <3>3. up[p] = TRUE
        BY <1>3, <3>1
      <3>4. Lines(d, s, t, FALSE, connected[p])
        BY <1>0, <1>3, <3>2, <3>3, CutLines
      <3> QED
        BY <1>3, <2>2, <3>1, <3>4
    <2>4. CASE Crash(p)
      <3>1. /\ up'[p] = FALSE /\ d = Started
            /\ \/ up[p] /\ \E m \in Cut(r) : toServer' = [toServer EXCEPT ![p] = m]
               \/ ~up[p] /\ UNCHANGED toServer
        BY <1>0, <2>4, CrashDoes DEF LineTypeOK, ClientTypeOK
      <3>2. up[p] => s \in Cut(r)
        BY <1>0, <3>1 DEF LineTypeOK
      <3>3. ~up[p] => s = r
        BY <3>1
      <3>4. up[p] = TRUE \/ up[p] = FALSE
        BY <1>3
      <3>5. up[p] => Lines(d, s, t, FALSE, connected[p])
        BY <1>0, <1>3, <3>2, <3>4, CutLines
      <3>6. ~up[p] => Lines(d, s, t, FALSE, connected[p])
        BY <1>3, <3>3 DEF Lines
      <3>7. d.window = <<>>
        BY <3>1 DEF Started
      <3> QED
        BY <2>2, <3>1, <3>5, <3>6, <3>7
    <2> QED
      BY <2>1, <2>3, <2>4
  <1>6. ASSUME NEW o \in Player \ {p} PROVE Row(o)'
    <2>1. /\ board'[o] = board[o] /\ board'[Opponent(o)] = board[Opponent(o)]
          /\ state'[o] = state[o] /\ connected'[o] = connected[o]
      BY <1>1 DEF matchVars, vars
    <2> QED
      BY <1>2, <2>1, RowStays
  <1> QED
    BY <1>5, <1>6

-----------------------------------------------------------------------------
(* What the players see of the boards *)

LEMMA SketchMasked ==
  ASSUME NEW b \in Sketches
  PROVE  b \in Boards /\ Masked(b) = Blank
  <1>1. ASSUME NEW c \in Cells
        PROVE  (IF isdigit(b[c]) THEN Empty ELSE b[c]) = Empty
    BY BoardAssumption DEF Sketches, ShipNumbers, isdigit, Empty
  <1> QED
    BY <1>1, SketchTyped DEF Masked, Blank

\* The board that is accepted is the one that its owner sees.
LEMMA AcceptedShown ==
  ASSUME NEW b \in Boards, NEW lay, lay = getMyBoardStringForm(b), NEW before \in Sketches,
         NEW player, NEW r, r = Prepare(player, before, clean_client_ships, lay), r.error = OK
  PROVE  r.board = b
  <1>1. lay \in Seq(Int)
    BY StringTyped
  <1> PICK l : l = Len(lay)
    OBVIOUS
  <1>2. l \in Nat
    BY <1>1
  <1>3. Placed(r.board, r.ships) /\ ShowsAll(r.board, lay)
    BY <1>2, PrepareExactly
  <1>4. ASSUME NEW c \in Cells PROVE r.board[c] = b[c]
    <2>1. PICK j \in 0 .. (N * N - 1) : c = SquareAt(j) /\ r.board[c] = lay[j + 1]
      BY <1>3 DEF ShowsAll
    <2>2. GAME_BOARD_STRING_SIZE = N * N /\ N * N \in Nat
      BY StringTyped DEF GAME_BOARD_STRING_SIZE, N
    <2> PICK k : k = N * N
      OBVIOUS
    <2>3. j + 1 \in 1 .. k /\ (j + 1) - 1 = j
      BY <2>1, <2>2
    <2>4. lay[j + 1] = b[SquareAt((j + 1) - 1)]
      BY <2>2, <2>3 DEF getMyBoardStringForm
    <2> QED
      BY <2>1, <2>3, <2>4
  <1> QED
    BY <1>3, <1>4 DEF Placed, Sketches, Boards

LEMMA CoordsKept ==
  ASSUME NEW sq \in Cells
  PROVE  /\ <<atoi(sq[1]), atoi(sq[2])>> = sq
         /\ NotANumber \notin {sq[1], sq[2]}
  <1>1. /\ sq = <<sq[1], sq[2]>> /\ sq[1] \in Coords /\ sq[2] \in Coords
    BY CellParts
  <1>2. ASSUME NEW v \in Coords PROVE atoi(v) = v /\ v # NotANumber
    <2> PICK m, n : m = IntSpan /\ n = SHIP_GAME_BOARD_SIZE
      OBVIOUS
    <2>1. m \in Nat /\ m > 2 * n /\ n \in Nat \ {0} /\ v \in 0 .. (n - 1)
      BY MatchAssumption, BoardAssumption DEF Coords
    <2>2. v % m = v
      BY <2>1
    <2>3. ~(v >= m \div 2)
      BY <2>1
    <2> QED
      BY <2>1, <2>2, <2>3 DEF atoi, NotANumber
  <1> QED
    BY <1>1, <1>2

\* A miss is drawn where the server has it, on the board and on what the opponent
\* may know of it.
LEMMA MissShown ==
  ASSUME NEW b \in Boards, NEW sq \in Cells, b[sq] = Empty, NEW sunk
  PROVE  /\ Shot(b, sq, Miss, sunk) = [b EXCEPT ![sq] = Miss]
         /\ Shot(Masked(b), sq, Miss, sunk) = Masked([b EXCEPT ![sq] = Miss])
  <1>1. Miss # Hit /\ ~isdigit(Miss)
    BY DEF Miss, Hit, isdigit
  <1>2. [Masked(b) EXCEPT ![sq] = Miss] = Masked([b EXCEPT ![sq] = Miss])
    BY <1>1 DEF Masked, Boards
  <1> QED
    BY <1>1, <1>2 DEF Shot

\* A hit, too; and what the client marks around a sunk ship, which it looks for
\* among the hits, is what the server marks.
LEMMA HitShown ==
  ASSUME NEW b, NEW f, Afloat(b, f), NEW sq \in Cells, NEW s \in ShipNumbers, b[sq] = s,
         NEW sunk \in BOOLEAN, sunk <=> ship_destroyed(ShotFleet(f, s)[s]),
         NEW m, m = ShotBoard(b, f, s, sq)
  PROVE  Shot(b, sq, Hit, sunk) = m /\ Shot(Masked(b), sq, Hit, sunk) = Masked(m)
  <1> PICK n, hit, ship : /\ n = ShotFleet(f, s) /\ hit = [b EXCEPT ![sq] = Hit]
                          /\ ship = ShotFleet(f, s)[s]
    OBVIOUS
  <1>1. /\ Afloat(m, n) /\ \A t \in ShipNumbers : Squares(n[t]) = Squares(f[t])
        /\ SunkOf(n) = IF ship_destroyed(n[s]) THEN SunkOf(f) \cup {s} ELSE SunkOf(f)
    BY HitAfloat
  <1>2. b \in Boards /\ hit \in Boards /\ m \in Boards /\ ship = n[s]
    BY <1>1 DEF Afloat, Boards
  <1>3. ~isdigit(Hit) /\ Empty # Hit /\ Miss # Hit /\ \A t \in ShipNumbers : t # Hit /\ t # Miss /\ t # Empty
    BY BoardAssumption DEF Hit, Miss, Empty, isdigit, ShipNumbers
  <1>4. /\ [Masked(b) EXCEPT ![sq] = Hit] = Masked(hit)
        /\ \A c \in Cells : Masked(hit)[c] = Hit <=> hit[c] = Hit
    <2>1. \A c \in Cells : Masked(hit)[c] = Hit <=> hit[c] = Hit
      BY <1>3 DEF Masked
    <2>2. [Masked(b) EXCEPT ![sq] = Hit] = Masked(hit)
      BY <1>2, <1>3 DEF Masked, Boards
    <2> QED
      BY <2>1, <2>2
  <1>5. CASE ~sunk
    <2>1. m = hit
      BY <1>5 DEF ShotBoard
    <2> QED
      BY <1>4, <1>5, <2>1 DEF Shot
  <1>6. CASE sunk
    <2>1. m = mark_destroyed_ship(hit, ship)
      BY <1>6 DEF ShotBoard
    <2>2. Floating(ship) /\ ship.length # 0 /\ Squares(ship) = Squares(f[s])
      <3>1. Floating(n[s]) /\ n[s].length = ShipLength[s]
        BY <1>1 DEF Afloat
      <3>2. ShipLength[s] \in Nat \ {0}
        BY BoardAssumption
      <3>3. Squares(n[s]) = Squares(f[s])
        BY <1>1
      <3> QED
        BY <1>2, <3>1, <3>2, <3>3
    <2>3. sq \in Squares(ship)
      <3>1. b[sq] \notin {Empty, Miss}
        BY <1>3
      <3>2. PICK t \in ShipNumbers : sq \in Squares(f[t])
        BY <3>1 DEF Afloat
      <3>3. b[sq] \in {t, Hit}
        BY <3>2 DEF Afloat
      <3>4. t = s
        BY <1>3, <3>3
      <3> QED
        BY <2>2, <3>2, <3>4
    <2>4. ASSUME NEW c \in Squares(ship) PROVE hit[c] = Hit
      <3>1. c \in Cells /\ m[c] \in {s, Hit}
        BY <1>1, <1>2, <2>2 DEF Afloat, Floating
      <3>2. m[c] # s
        <4>1. ship.health = 0
          BY <1>1, <1>2, <1>6 DEF SunkOf
        <4>2. ship.health = Cardinality({d \in Squares(ship) : m[d] = s})
          BY <1>1, <1>2 DEF Afloat
        <4> PICK T : T = {d \in Squares(ship) : m[d] = s}
          OBVIOUS
        <4>3. IsFiniteSet(T)
          BY <2>2, SomeSquares
        <4>4. T = {}
          BY <4>1, <4>2, <4>3, FS_EmptySet
        <4> QED
          BY <4>4
      <3>3. c \notin Surroundings(ship)
        BY <2>2, <3>1, SurroundingsAre
      <3> QED
        BY <2>1, <3>1, <3>2, <3>3 DEF mark_destroyed_ship
    <2>5. ASSUME NEW c \in Cells, NEW a \in Squares(ship), hit[c] = Hit, Adjacent(c, a)
          PROVE  c \in Squares(ship)
      <3>1. CASE c = sq
        BY <2>3, <3>1
      <3>2. CASE c # sq
        <4>1. b[c] = Hit
          BY <1>2, <2>5, <3>2 DEF Boards
        <4>2. PICK t \in ShipNumbers : c \in Squares(f[t])
          BY <1>3, <4>1 DEF Afloat
        <4>3. a \in Cells
          BY <2>2 DEF Floating
        <4>4. t = s
          BY <2>2, <2>5, <4>2 DEF Afloat
        <4> QED
          BY <2>2, <4>2, <4>4
      <3> QED
        BY <3>1, <3>2
    <2>6. markDestroyedShip(hit, sq) = mark_destroyed_ship(hit, ship)
      BY <2>2, <2>3, <2>4, <2>5, ClientMarks
    <2> PICK g : g = Masked(hit)
      OBVIOUS
    <2>7. markDestroyedShip(g, sq) = mark_destroyed_ship(g, ship)
      <3>1. \A c \in Squares(ship) : g[c] = Hit
        BY <1>4, <2>2, <2>4 DEF Floating
      <3>2. \A c \in Cells, a \in Squares(ship) :
              g[c] = Hit /\ Adjacent(c, a) => c \in Squares(ship)
        BY <1>4, <2>5
      <3> QED
        BY <2>2, <2>3, <3>1, <3>2, ClientMarks
    <2>8. mark_destroyed_ship(g, ship) = Masked(m)
      <3>1. ~isdigit(Miss)
        BY DEF Miss, isdigit
      <3> QED
        BY <2>1, <3>1 DEF Masked, mark_destroyed_ship
    <2>9. Shot(b, sq, Hit, sunk) = markDestroyedShip(hit, sq)
          /\ Shot(Masked(b), sq, Hit, sunk) = markDestroyedShip(g, sq)
      BY <1>4, <1>6 DEF Shot
    <2> QED
      BY <2>1, <2>6, <2>7, <2>8, <2>9
  <1> QED
    BY <1>5, <1>6

-----------------------------------------------------------------------------
(* What the server's messages make of the invariant *)

LEMMA ToldJoined ==
  ASSUME NEW q \in Seq(Replies), NEW x \in Seq(Replies), NEW type
  PROVE  Told(q \o x, type) <=> Told(q, type) \/ Told(x, type)
  <1> PICK n, l, j : n = Len(q) /\ l = Len(x) /\ j = q \o x
    OBVIOUS
  <1>1. n \in Nat /\ l \in Nat /\ DOMAIN q = 1 .. n /\ DOMAIN x = 1 .. l
    OBVIOUS
  <1>2. /\ j \in Seq(Replies) /\ Len(j) = n + l
        /\ \A i \in 1 .. (n + l) : j[i] = IF i <= n THEN q[i] ELSE x[i - n]
    BY ConcatProperties
  <1>3. DOMAIN j = 1 .. (n + l)
    BY <1>2
  <1>4. \A i \in DOMAIN q : i \in DOMAIN j /\ j[i] = q[i]
    BY <1>1, <1>2, <1>3
  <1>5. \A i \in DOMAIN x : n + i \in DOMAIN j /\ j[n + i] = x[i]
    <2>1. ASSUME NEW i \in DOMAIN x
          PROVE  n + i \in 1 .. (n + l) /\ ~(n + i <= n) /\ (n + i) - n = i
      BY <1>1
    <2> QED
      BY <1>2, <1>3, <2>1
  <1>6. ASSUME NEW i \in DOMAIN j
        PROVE  (i \in DOMAIN q /\ j[i] = q[i]) \/ (i - n \in DOMAIN x /\ j[i] = x[i - n])
    BY <1>1, <1>2, <1>3
  <1>7. Told(j, type) => Told(q, type) \/ Told(x, type)
    BY <1>6 DEF Told
  <1>8. Told(q, type) => Told(j, type)
    BY <1>4 DEF Told
  <1>9. Told(x, type) => Told(j, type)
    BY <1>5 DEF Told
  <1> QED
    BY <1>7, <1>8, <1>9

LEMMA Joins ==
  ASSUME NEW q \in Seq(Replies)
  PROVE  /\ q \o <<>> = q /\ <<>> \o q = q
         /\ \A m \in Replies : q \o <<m>> = Append(q, m)
  BY ConcatEmptySeq, AppendIsConcat

\* What the server answers to a player whose request it does not read.
LEMMA LinesAnswered ==
  ASSUME NEW c, NEW r, NEW q \in Seq(Replies), NEW u \in BOOLEAN, NEW k \in BOOLEAN,
         Lines(c, r, q, u, k),
         NEW x \in Seq(Replies), ~Told(x, "eof"), NEW t, t = IF k /\ u THEN q \o x ELSE q
  PROVE  Lines(c, r, t, u, k)
  <1>1. Told(q \o x, "eof") <=> Told(q, "eof") \/ Told(x, "eof")
    BY ToldJoined
  <1> QED
    BY <1>1 DEF Lines

\* And to one whose request it reads.
\* The first of r is read, which leaves s; of k it makes h.
Taken(r, s, k, h) ==
  /\ r # <<>> /\ s = Tail(r) /\ h \in BOOLEAN
  /\ h <=> r[1].type = "login_req" \/ (k /\ r[1].type # "eof")

LEMMA LinesServed ==
  ASSUME NEW c, NEW r \in Seq(Requests), NEW q \in Seq(Replies),
         NEW u \in BOOLEAN, NEW k \in BOOLEAN, Lines(c, r, q, u, k),
         NEW s, NEW h, Taken(r, s, k, h),
         NEW x \in Seq(Replies), ~Told(x, "eof"), NEW t, t = IF h /\ u THEN q \o x ELSE q
  PROVE  Lines(c, s, t, u, h)
  <1>0. /\ r # <<>> /\ s = Tail(r) /\ h \in BOOLEAN
        /\ h <=> r[1].type = "login_req" \/ (k /\ r[1].type # "eof")
    BY DEF Taken
  <1> USE <1>0
  <1> PICK n : n = Len(r)
    OBVIOUS
  <1>1. /\ n \in Nat \ {0} /\ DOMAIN r = 1 .. n /\ DOMAIN s = 1 .. (n - 1) /\ Len(s) = n - 1
        /\ s \in Seq(Requests) /\ \A i \in 1 .. (n - 1) : s[i] = r[i + 1]
    BY QueueTail
  <1>2. /\ 1 \in DOMAIN r
        /\ \A i \in DOMAIN s : i + 1 \in DOMAIN r /\ s[i] = r[i + 1] /\ i + 1 # 1
    BY <1>1
  <1>3. Told(q \o x, "eof") <=> Told(q, "eof") \/ Told(x, "eof")
    BY ToldJoined
  <1>4. CASE ~u
    <2>1. r[n].type = "eof" /\ \A i \in DOMAIN r : r[i].type = "eof" => i = n
      BY <1>4 DEF Lines
    <2>2. CASE n = 1
      <3>1. ~h
        BY <2>1, <2>2
      <3>2. s = <<>>
        <4>1. s \in Seq(Requests) /\ Len(s) = 0
          BY <1>1, <2>2
        <4> QED
          BY ONLY <4>1, QueueEmpty
      <3> QED
        BY <1>4, <3>1, <3>2 DEF Lines
    <2>3. CASE n # 1
      <3>1. n - 1 \in DOMAIN s /\ (n - 1) + 1 = n
        BY <1>1, <2>3
      <3>2. s[n - 1].type = "eof"
        BY <1>2, <2>1, <3>1
      <3>3. \A i \in DOMAIN s : s[i].type = "eof" => i = n - 1
        BY <1>1, <1>2, <2>1
      <3>4. s # <<>>
        <4>1. s = <<>> => DOMAIN s = {}
          OBVIOUS
        <4> QED
          BY <3>1, <4>1
      <3> QED
        BY <1>1, <1>4, <3>2, <3>3, <3>4 DEF Lines
    <2> QED
      BY <2>2, <2>3
  <1>5. CASE u
    <2>1. ~Asked(r, "eof") /\ ~Told(q, "eof")
      BY <1>5 DEF Lines
    <2>2. ~Asked(s, "eof") /\ ~Told(t, "eof") /\ r[1].type # "eof"
      BY <1>2, <1>3, <2>1 DEF Asked
    <2>3. CASE k
      <3>1. ~Asked(r, "login_req")
        BY <1>5, <2>3 DEF Lines
      <3>2. ~Asked(s, "login_req") /\ r[1].type # "login_req"
        BY <1>2, <3>1 DEF Asked
      <3> QED
        BY <1>5, <2>2, <2>3, <3>2 DEF Lines
    <2>4. CASE ~k
      <3>1. r = <<Msg("login_req")>>
        BY <1>5, <2>4 DEF Lines
      <3>2. n = 1 /\ r[1].type = "login_req"
        BY <3>1 DEF Msg
      <3>3. DOMAIN s = {} /\ h
        BY <1>1, <3>2
      <3> QED
        BY <1>5, <2>2, <3>3 DEF Lines, Asked
    <2> QED
      BY <2>3, <2>4
  <1> QED
    BY <1>4, <1>5

LEMMA EndedMore ==
  ASSUME NEW c, NEW q \in Seq(Replies), NEW m \in Replies, NEW t, t = Append(q, m),
         \/ m.type = "game_end"
         \/ m.type \in Errs /\ Ended(c, q)
  PROVE  Ended(c, t)
  <1> PICK n : n = Len(q)
    OBVIOUS
  <1>1. /\ n \in Nat /\ DOMAIN q = 1 .. n /\ DOMAIN t = 1 .. (n + 1)
        /\ t[n + 1] = m /\ \A i \in 1 .. n : t[i] = q[i]
    BY QueueAdd
  <1>2. /\ n + 1 \in DOMAIN t /\ \A i \in DOMAIN q : i \in DOMAIN t /\ t[i] = q[i]
        /\ \A i \in DOMAIN t : i # n + 1 => i \in DOMAIN q /\ t[i] = q[i]
        /\ \A i \in DOMAIN t : ~(i > n + 1)
    BY <1>1
  <1>3. CASE m.type = "game_end"
    BY <1>1, <1>2, <1>3 DEF Ended
  <1>4. ASSUME m.type \in Errs, NEW i \in DOMAIN q, q[i].type = "game_end",
               \A j \in DOMAIN q : j > i => q[j].type \in Errs
        PROVE  Ended(c, t)
    <2>1. i \in DOMAIN t /\ t[i].type = "game_end"
      BY <1>2, <1>4
    <2>2. \A j \in DOMAIN t : j > i => t[j].type \in Errs
      BY <1>1, <1>2, <1>4
    <2> QED
      BY <2>1, <2>2 DEF Ended
  <1>5. ASSUME m.type \in Errs, SceneOf(c) # "GAME",
               \A j \in DOMAIN q : q[j].type \in Errs \cup {"login_ok"},
               \A j \in DOMAIN q : q[j].type = "login_ok" => q[j].state = STATE_IN_LOBBY
        PROVE  Ended(c, t)
    <2>1. m.type # "login_ok"
      BY <1>5 DEF Errs
    <2>2. \A j \in DOMAIN t : t[j].type \in Errs \cup {"login_ok"}
      BY <1>1, <1>2, <1>5
    <2>3. \A j \in DOMAIN t : t[j].type = "login_ok" => t[j].state = STATE_IN_LOBBY
      BY <1>1, <1>2, <1>5, <2>1
    <2> QED
      BY <1>5, <2>2, <2>3 DEF Ended
  <1> QED
    BY <1>3, <1>4, <1>5 DEF Ended

\* A player who waits is told of the turn: by game_play, or with the opponent's shot.
LEMMA TurnPasses ==
  ASSUME NEW c \in Clients, NEW r, NEW q \in Seq(Replies), NEW b, NEW e,
         Playing(c, r, q, STATE_IN_GAME, b, e),
         NEW m \in Replies, m.type \in Passes, NEW t, t = Append(q, m),
         NEW x, x = After([View(c) EXCEPT !.my = b], m).my
  PROVE  Playing(c, r, t, STATE_IN_GAME_PLAYING, x, e)
  <1> PICK n, v, st, w : n = Len(q) /\ v = View(c) /\ st = STATE_IN_GAME /\ w = STATE_IN_GAME_PLAYING
    OBVIOUS
  <1>0. st # STATE_IN_GAME_PREPARING /\ st # w /\ w # STATE_IN_GAME_PREPARING
    BY DEF STATE_IN_GAME, STATE_IN_GAME_PREPARING, STATE_IN_GAME_PLAYING
  <1>1. /\ ~Told(q, "game_end") /\ Len(q) <= 2 /\ (Len(q) = 2 => st = w)
        /\ Opening(c, r, q, st) /\ Ordered(c, r, q, st) /\ Sketching(c, q, st)
        /\ Final(v, q).scene = "GAME"
        /\ ~InfoDue(c, r, q) => Faithful(c, r, q, st, b, e)
    BY DEF Playing
  <1>2. /\ n \in Nat /\ DOMAIN q = 1 .. n /\ DOMAIN t = 1 .. (n + 1) /\ t # <<>> /\ Len(t) = n + 1
        /\ t[n + 1] = m /\ \A i \in 1 .. n : t[i] = q[i]
    BY QueueAdd
  <1>3. n <= 1 /\ (q # <<>> => n = 1) /\ (n = 0 => q = <<>>)
    <2>1. n # 2 /\ n <= 2 /\ n \in Nat
      BY <1>0, <1>1, <1>2
    <2>2. q # <<>> => n # 0
      BY QueueEmpty
    <2>3. n = 0 => q = <<>>
      BY QueueEmpty
    <2> QED
      BY <2>1, <2>2, <2>3
  <1>4. /\ n + 1 \in DOMAIN t /\ \A i \in DOMAIN q : i \in DOMAIN t /\ t[i] = q[i]
        /\ \A i \in DOMAIN t : i # n + 1 => i \in DOMAIN q /\ t[i] = q[i]
    BY <1>2
  <1>5. m.type \notin Hellos /\ m.type # "game_end" /\ m.type # "game_info_data" /\ m.type \in Moves
    BY DEF Passes, Hellos, Moves
  <1>6. ~Told(t, "game_end") /\ (Told(t, "login_ok") <=> Told(q, "login_ok"))
    BY <1>1, <1>2, <1>4, <1>5 DEF Told, Hellos
  <1>7. Opening(c, r, t, w)
    <2>1. \A k \in DOMAIN t : t[k].type \in Hellos => k \in DOMAIN q /\ t[k] = q[k]
      BY <1>2, <1>4, <1>5
    <2>2. Len(t) = 2 => t[2] = m
      BY <1>2
    <2>3. Asked(r, "game_info_req") \/ Pending(c, "resume") =>
            Len(t) = 1 /\ t[1].type \in Passes
      <3>1. Asked(r, "game_info_req") \/ Pending(c, "resume") => q = <<>>
        BY <1>0, <1>1 DEF Opening
      <3>2. q = <<>> => n = 0
        OBVIOUS
      <3> QED
        BY <1>2, <3>1, <3>2
    <2> HIDE DEF Opening
    <2> QED
      BY <1>1, <1>6, <2>1, <2>2, <2>3 DEF Opening
  <1>8. Ordered(c, r, t, w) /\ ~Asked(r, "game_fire_req")
    BY <1>0, <1>1 DEF Ordered
  <1>9. Sketching(c, t, w)
    <2>1. ASSUME NEW k \in DOMAIN t
          PROVE  /\ t[k].type # "game_conn"
                 /\ ~(t[k].type = "game_info_data" /\ t[k].state = STATE_IN_GAME_PREPARING)
      BY <1>0, <1>1, <1>2, <1>4, <1>5 DEF Sketching, Hellos
    <2> QED
      BY <1>0, <1>1, <2>1 DEF Sketching
  <1> PICK z : z = Final(v, q)
    OBVIOUS
  <1>10. Final(v, t) = After(z, m)
    BY <1>2, <1>3, FinalAdd
  <1>11. /\ After(z, m).scene = z.scene /\ After(z, m).status = "PLAYING"
         /\ After(z, m).enemy = z.enemy
    BY DEF After, Passes
  <1>12. ASSUME ~InfoDue(c, r, t) PROVE Faithful(c, r, t, w, x, e)
    <2>1. Faithful(c, r, q, st, b, e)
      BY <1>1, <1>6, <1>12 DEF InfoDue
    <2>2. z.status = "WAITING" /\ z.enemy = e /\ z.my = b /\ Waits(v, q)
      BY <1>0, <1>8, <2>1, StatusIs DEF Faithful
    <2>3. After(z, m).my = x
      <3> PICK y : y = [View(c) EXCEPT !.my = b]
        OBVIOUS
      <3>1. y.my = b
        BY DEF View
      <3>2. After(z, m).my = After(y, m).my
        <4>1. z.my = y.my
          BY <2>2, <3>1
        <4> QED
          BY ONLY <4>1 DEF After
      <3> QED
        BY <3>2
    <2>4. Waits(v, t)
      <3>1. CASE n = 0
        <4>1. z = v /\ Len(t) = 1
          BY <1>2, <1>3, <3>1 DEF Final
        <4> QED
          BY <2>2, <4>1 DEF Waits
      <3>2. CASE n = 1
        <4>1. q # <<>> /\ Len(q) = 1 /\ Len(t) = 2 /\ t[1] = q[1] /\ t[2] = m
          <5>1. q # <<>>
            <6>1. q = <<>> => Len(q) = 0
              OBVIOUS
            <6> QED
              BY <3>2, <6>1
          <5> QED
            BY <1>2, <3>2, <5>1
        <4>2. z = After(v, q[1])
          BY <4>1 DEF Final
        <4>3. q[1].type \in Moves => v.status = "WAITING"
          BY <2>2, <4>1 DEF Waits
        <4> QED
          BY <2>2, <4>1, <4>2, <4>3 DEF Waits
      <3> QED
        BY <1>2, <1>3, <3>1, <3>2
    <2> QED
      BY <1>10, <1>11, <2>2, <2>3, <2>4, StatusIs DEF Faithful
  <1>13. Len(t) <= 2
    BY <1>2, <1>3
  <1> QED
    BY <1>1, <1>6, <1>7, <1>8, <1>9, <1>10, <1>11, <1>12, <1>13 DEF Playing

\* What the messages t must be to make of a client what the server has.
Answer(c, t, w, b, e) ==
  /\ t \in Seq(Replies) /\ Len(t) <= 2 /\ (Len(t) = 2 => w = STATE_IN_GAME_PLAYING)
  /\ \A i \in DOMAIN t : /\ t[i].type \notin Hellos /\ t[i].type # "game_end"
                         /\ t[i].type = "game_info_data" /\ t[i].state = STATE_IN_GAME_PREPARING
                              => w = STATE_IN_GAME_PREPARING
  /\ Pending(c, "setGameStatus") =>
       c.model /\ (c.window[1].status = "PREPARING" => w = STATE_IN_GAME_PREPARING)
  /\ Waits(View(c), t)
  /\ Final(View(c), t).status = Status(w) /\ Final(View(c), t).enemy = e
  /\ w # STATE_IN_GAME_PREPARING => Final(View(c), t).my = b

\* An order comes alone; when it is answered nothing is asked for any more.
LEMMA Answered ==
  ASSUME NEW c \in Clients, NEW r \in Seq(Requests), r # <<>>, r[1].type \in Orders,
         NEW q, NEW st, Ordered(c, r, q, st), Opening(c, r, q, st), SceneOf(c) = "GAME",
         NEW s, s = Tail(r), NEW t, NEW w, NEW b, NEW e, Answer(c, t, w, b, e)
  PROVE  Playing(c, s, t, w, b, e)
  <1>0. /\ t \in Seq(Replies) /\ Len(t) <= 2 /\ (Len(t) = 2 => w = STATE_IN_GAME_PLAYING)
        /\ \A i \in DOMAIN t : /\ t[i].type \notin Hellos /\ t[i].type # "game_end"
                               /\ t[i].type = "game_info_data" /\ t[i].state = STATE_IN_GAME_PREPARING
                                    => w = STATE_IN_GAME_PREPARING
        /\ Pending(c, "setGameStatus") =>
             c.model /\ (c.window[1].status = "PREPARING" => w = STATE_IN_GAME_PREPARING)
        /\ Waits(View(c), t)
        /\ Final(View(c), t).status = Status(w) /\ Final(View(c), t).enemy = e
        /\ w # STATE_IN_GAME_PREPARING => Final(View(c), t).my = b
    BY DEF Answer
  <1> PICK n : n = Len(r)
    OBVIOUS
  <1>1. /\ n \in Nat \ {0} /\ DOMAIN r = 1 .. n /\ DOMAIN s = 1 .. (n - 1)
        /\ \A i \in 1 .. (n - 1) : s[i] = r[i + 1]
    BY QueueTail
  <1>2. 1 \in DOMAIN r /\ \A i \in DOMAIN s : i + 1 \in DOMAIN r /\ i + 1 # 1 /\ s[i] = r[i + 1]
    BY <1>1
  <1>3. \A i \in DOMAIN s : s[i].type \notin Orders
    BY <1>2 DEF Ordered
  <1>4. /\ ~Asked(s, "game_info_req") /\ ~Asked(s, "game_fire_req")
        /\ \A i \in DOMAIN s : s[i].type # "game_prepared"
    BY <1>3 DEF Asked, Orders
  <1>5. ~Told(t, "login_ok") /\ ~Told(t, "game_end") /\ \A i \in DOMAIN t : t[i].type # "game_conn"
    BY <1>0 DEF Told, Hellos
  <1>6. ~Pending(c, "resume")
    BY DEF Opening
  <1>7. Opening(c, s, t, w)
    <2>1. \A i \in DOMAIN t : t[i].type \notin Hellos
      BY <1>0
    <2> QED
      BY <1>4, <1>5, <1>6, <2>1 DEF Opening
  <1>8. Ordered(c, s, t, w)
    BY <1>3, <1>4 DEF Ordered
  <1>9. Sketching(c, t, w)
    BY <1>0, <1>5 DEF Sketching
  <1>10. Final(View(c), t).scene = "GAME"
    <2>1. Final(View(c), t).scene = View(c).scene
      BY <1>0, FinalScene
    <2> QED
      BY <2>1, ViewIs
  <1>11. Faithful(c, s, t, w, b, e)
    BY <1>0 DEF Faithful
  <1> QED
    BY <1>0, <1>5, <1>7, <1>8, <1>9, <1>10, <1>11 DEF Playing

LEMMA LoginPlays ==
  ASSUME NEW c, c.window = <<>>, c.scene = "CONNECT", NEW st \in States, NEW b, NEW e,
         NEW m, m = [type |-> "login_ok", state |-> st], NEW t, t = <<m>>
  PROVE  InStep(c, <<>>, t, st, b, e)
  <1>1. /\ Len(t) = 1 /\ DOMAIN t = {1} /\ t # <<>> /\ t[1] = m
        /\ m.type = "login_ok" /\ m.state = st /\ DOMAIN <<>> = {}
    OBVIOUS
  <1>2. SceneOf(c) = "CONNECT" /\ ~Pending(c, "resume") /\ ~Pending(c, "setGameStatus")
    BY DEF SceneOf, Pending
  <1>3. CASE st \in Gaming
    <2>1. ~Asked(<<>>, "game_info_req") /\ ~Asked(<<>>, "game_fire_req")
      BY <1>1 DEF Asked
    <2>2. Opening(c, <<>>, t, st)
      BY <1>1, <1>2, <2>1 DEF Opening
    <2>3. Ordered(c, <<>>, t, st)
      BY <1>1, <2>1 DEF Ordered
    <2>4. Sketching(c, t, st)
      BY <1>1, <1>2 DEF Sketching
    <2>5. Final(View(c), t).scene = "GAME"
      <3>1. Final(View(c), t) = After(View(c), m)
        BY <1>1 DEF Final
      <3>2. st # STATE_IN_LOBBY
        BY <1>3 DEF Gaming, STATE_IN_LOBBY, STATE_IN_GAME, STATE_IN_GAME_PREPARING,
                    STATE_IN_GAME_PLAYING
      <3> QED
        BY <1>1, <3>1, <3>2 DEF After
    <2>6. Told(t, "login_ok") /\ ~Told(t, "game_end")
      BY <1>1 DEF Told
    <2> QED
      BY <1>1, <1>3, <2>2, <2>3, <2>4, <2>5, <2>6 DEF Playing, InfoDue, InStep
  <1>4. CASE st \notin Gaming
    <2>1. st = STATE_IN_LOBBY
      BY <1>4 DEF Gaming, States
    <2> QED
      BY <1>1, <1>2, <1>4, <2>1 DEF Ended, InStep
  <1> QED
    BY <1>3, <1>4

LEMMA InfoPlays ==
  ASSUME NEW c \in Clients, NEW r \in Seq(Requests), r # <<>>, r[1].type = "game_info_req",
         NEW q \in Seq(Replies), NEW st, NEW b \in Boards, NEW e \in Boards,
         Playing(c, r, q, st, b, e),
         NEW m \in Replies, m.type = "game_info_data", m.state = st,
         m.my = getMyBoardStringForm(b), m.enemy = getMyBoardStringForm(e),
         NEW s, s = Tail(r), NEW t, t = Append(q, m)
  PROVE  Playing(c, s, t, st, b, e)
  <1> PICK n, v, z : n = Len(q) /\ v = View(c) /\ z = Final(View(c), q)
    OBVIOUS
  <1>1. /\ Len(q) <= 2 /\ Opening(c, r, q, st) /\ Ordered(c, r, q, st) /\ Sketching(c, q, st)
        /\ z.scene = "GAME" /\ ~Told(q, "game_end")
    BY DEF Playing
  <1>2. Asked(r, "game_info_req")
    BY QueueTail DEF Asked
  <1>3. /\ ~Told(q, "login_ok")
        /\ \/ q = <<>>
           \/ Len(q) = 1 /\ q[1].type \in Passes /\ st = STATE_IN_GAME_PLAYING
    BY <1>1, <1>2 DEF Opening
  <1>4. /\ n \in Nat /\ DOMAIN q = 1 .. n /\ DOMAIN t = 1 .. (n + 1) /\ t # <<>> /\ Len(t) = n + 1
        /\ t \in Seq(Replies) /\ t[n + 1] = m /\ \A i \in 1 .. n : t[i] = q[i]
    BY QueueAdd
  <1>5. n = 0 \/ (n = 1 /\ q[1].type \in Passes /\ st = STATE_IN_GAME_PLAYING)
    <2>1. q = <<>> => Len(q) = 0
      OBVIOUS
    <2> QED
      BY <1>3, <2>1
  <1>6. \A i \in DOMAIN q : q[i].type \notin Hellos
    BY <1>1, <1>2 DEF Opening, Asked
  <1>7. SceneOf(c) = "GAME"
    <2>1. Final(View(c), q).scene = View(c).scene
      BY <1>1, <1>6, FinalScene
    <2> QED
      BY <1>1, <2>1, ViewIs
  <1>8. Final(v, t) = After(z, m)
    <2>1. Len(q) <= 1
      BY <1>4, <1>5
    <2> QED
      BY <2>1, FinalAdd
  <1>9. /\ Final(v, t).status = Status(st) /\ Final(v, t).my = b /\ Final(v, t).enemy = e
    BY <1>8, RoundTrip DEF After
  <1>10. Waits(v, t)
    <2>1. CASE n = 0
      <3>1. Len(t) = 1 /\ t[1].type = "game_info_data"
        BY <1>4, <2>1
      <3> QED
        BY <3>1 DEF Waits, Moves
    <2>2. CASE n = 1
      <3>1. Len(t) = 2 /\ t[2].type = "game_info_data"
        BY <1>4, <2>2
      <3> QED
        BY <3>1 DEF Waits, Moves
    <2> QED
      BY <1>5, <2>1, <2>2
  <1>11. ASSUME NEW i \in DOMAIN t
         PROVE  /\ t[i].type \notin Hellos /\ t[i].type # "game_end"
                /\ t[i].type = "game_info_data" /\ t[i].state = STATE_IN_GAME_PREPARING
                     => st = STATE_IN_GAME_PREPARING
    <2>1. CASE i = n + 1
      BY <1>4, <2>1 DEF Hellos
    <2>2. CASE i # n + 1
      <3>1. i \in DOMAIN q /\ t[i] = q[i]
        BY <1>4, <2>2
      <3> QED
        BY <1>1, <1>6, <3>1 DEF Sketching, Told
    <2> QED
      BY <2>1, <2>2
  <1>12. Len(t) <= 2 /\ (Len(t) = 2 => st = STATE_IN_GAME_PLAYING)
    <2>1. CASE n = 0
      BY <1>4, <2>1
    <2>2. CASE n = 1 /\ st = STATE_IN_GAME_PLAYING
      BY <1>4, <2>2
    <2> QED
      BY <1>5, <2>1, <2>2
  <1>13. Pending(c, "setGameStatus") =>
           c.model /\ (c.window[1].status = "PREPARING" => st = STATE_IN_GAME_PREPARING)
    BY <1>1 DEF Sketching
  <1>14. r[1].type \in Orders
    BY DEF Orders
  <1> QED
    <2>1. Answer(c, t, st, b, e)
      BY <1>4, <1>9, <1>10, <1>11, <1>12, <1>13 DEF Answer
    <2> QED
      BY <1>1, <1>7, <1>14, <2>1, Answered

-----------------------------------------------------------------------------
(* The server's step, as the player sees it who asked for it, and the other *)

\* What the invariant says of a player whose client reads what is sent to it.
Live(p) == up[p] /\ connected[p] /\ client[p].reader = "running"

Was(p) == InStep(client[p], toServer[p], toClient[p], state[p], board[p],
                 Masked(board[Opponent(p)]))

\* The same with the queues and the game as a step leaves them.
Now(p, r, q) ==
  InStep(client[p], r, q, state'[p], board'[p], Masked(board'[Opponent(p)]))

LEMMA ServedFacts ==
  ASSUME SysTypes, NEW p \in Player, Row(p), NEW type, Request(p, type)
  PROVE  LET r == toServer[p] IN
         /\ up[p] => type # "eof" /\ (type = "login_req" <=> ~connected[p])
         /\ up[p] /\ ~connected[p] => /\ Tail(r) = <<>> /\ toClient[p] = <<>>
                                      /\ client[p].scene = "CONNECT" /\ client[p].window = <<>>
         /\ Live(p) => Was(p)
         /\ r \in Seq(Requests) /\ r # <<>> /\ r[1] \in Requests /\ r[1].type = type
         /\ toClient[p] \in Seq(Replies) /\ client[p] \in Clients
         /\ toServer'[p] = Tail(r) /\ client' = client /\ up' = up
         /\ \A o \in Player \ {p} : toServer'[o] = toServer[o]
  <1> PICK r : r = toServer[p]
    OBVIOUS
  <1>1. /\ r \in Seq(Requests) /\ r # <<>> /\ r[1] \in Requests /\ r[1].type = type
        /\ toServer' = [toServer EXCEPT ![p] = Tail(r)] /\ UNCHANGED <<up, client, losses>>
    BY RequestDoes DEF SysTypes
  <1>2. toClient[p] \in Seq(Replies) /\ client[p] \in Clients /\ toServer \in [Player -> Seq(Requests)]
    BY DEF SysTypes, LineTypeOK, ClientTypeOK
  <1>3. Lines(client[p], r, toClient[p], up[p], connected[p]) /\ (Live(p) => Was(p))
    BY DEF Row, Agrees, Live, Was
  <1>4. Asked(r, type)
    BY <1>1, QueueTail DEF Asked
  <1>5. up[p] /\ ~connected[p] => /\ r = <<Msg("login_req")>> /\ toClient[p] = <<>>
                                  /\ client[p].scene = "CONNECT" /\ client[p].window = <<>>
    BY <1>3 DEF Lines
  <1>6. up[p] => type # "eof" /\ (connected[p] => type # "login_req")
    BY <1>3, <1>4 DEF Lines
  <1>7. r = <<Msg("login_req")>> => type = "login_req" /\ Tail(r) = <<>>
    BY <1>1 DEF Msg
  <1> QED
    BY <1>1, <1>2, <1>3, <1>5, <1>6, <1>7

LEMMA ServedRow ==
  ASSUME SysTypes, NEW p \in Player, Row(p), NEW type, Request(p, type),
         connected'[p] \in BOOLEAN,
         connected'[p] <=> type = "login_req" \/ (connected[p] /\ type # "eof"),
         NEW x \in Seq(Replies), ~Told(x, "eof"),
         toClient'[p] = IF connected'[p] /\ up[p] THEN toClient[p] \o x ELSE toClient[p],
         up[p] /\ client[p].reader = "running" => Now(p, Tail(toServer[p]), toClient[p] \o x)
  PROVE  Row(p)'
  <1> PICK c, r, q, u, k : /\ c = client[p] /\ r = toServer[p] /\ q = toClient[p]
                           /\ u = up[p] /\ k = connected[p]
    OBVIOUS
  <1> PICK h, s, t : h = connected'[p] /\ s = Tail(r) /\ t = toClient'[p]
    OBVIOUS
  <1>1. /\ r \in Seq(Requests) /\ r # <<>> /\ r[1].type = type /\ q \in Seq(Replies)
        /\ toServer'[p] = s /\ client' = client /\ up' = up
    <2>1. /\ r \in Seq(Requests) /\ r # <<>> /\ r[1].type = type /\ toClient[p] \in Seq(Replies)
          /\ toServer'[p] = Tail(r) /\ client' = client /\ up' = up
      BY ONLY SysTypes, p \in Player, Row(p), Request(p, type), r = toServer[p], ServedFacts
    <2> QED
      BY ONLY <2>1, s = Tail(r), q = toClient[p]
  <1>2. u \in BOOLEAN /\ k \in BOOLEAN
    BY DEF SysTypes, LineTypeOK
  <1>3. Lines(c, r, q, u, k) /\ (c.window # <<>> => Len(c.window) = 1)
    BY DEF Row, Agrees
  <1>4. h \in BOOLEAN /\ (h <=> r[1].type = "login_req" \/ (k /\ r[1].type # "eof"))
    BY <1>1
  <1>5. t = IF h /\ u THEN q \o x ELSE q
    OBVIOUS
  <1>6. Lines(c, s, t, u, h)
    <2>1. Lines(c, r, q, u, k)
      BY <1>3
    <2>2. Taken(r, s, k, h)
      BY <1>1, <1>4 DEF Taken
    <2> QED
      BY ONLY <1>1, <1>2, <2>1, <2>2, <1>5, LinesServed, x \in Seq(Replies), ~Told(x, "eof")
  <1>7. u /\ c.reader = "running" =>
          InStep(c, s, t, state'[p], board'[p], Masked(board'[Opponent(p)]))
    <2>1. up[p] => type # "eof" /\ (type = "login_req" <=> ~connected[p])
      BY ServedFacts
    <2>2. u => t = q \o x
      BY <2>1
    <2> QED
      BY <2>2 DEF Now
  <1>8. Row(p)' = Agrees(client'[p], toServer'[p], toClient'[p], up'[p], connected'[p],
                         state'[p], board'[p], Masked(board'[Opponent(p)]))
    BY DEF Row, Opponent
  <1> QED
    BY <1>1, <1>3, <1>6, <1>7, <1>8 DEF Agrees

LEMMA OtherRow ==
  ASSUME SysTypes, NEW o \in Player, Row(o), client' = client, up' = up,
         toServer'[o] = toServer[o], connected'[o] = connected[o],
         NEW x \in Seq(Replies), ~Told(x, "eof"),
         toClient'[o] = IF connected'[o] /\ up[o] THEN toClient[o] \o x ELSE toClient[o],
         Live(o) /\ Was(o) => Now(o, toServer[o], toClient[o] \o x)
  PROVE  Row(o)'
  <1> PICK c, r, q, u, k : /\ c = client[o] /\ r = toServer[o] /\ q = toClient[o]
                           /\ u = up[o] /\ k = connected[o]
    OBVIOUS
  <1> PICK t : t = toClient'[o]
    OBVIOUS
  <1>1. u \in BOOLEAN /\ k \in BOOLEAN /\ q \in Seq(Replies)
    BY DEF SysTypes, LineTypeOK
  <1>2. Lines(c, r, q, u, k) /\ (c.window # <<>> => Len(c.window) = 1) /\ (Live(o) => Was(o))
    BY DEF Row, Agrees, Live, Was
  <1>3. t = IF k /\ u THEN q \o x ELSE q
    OBVIOUS
  <1>4. Lines(c, r, t, u, k)
    BY ONLY <1>1, <1>2, <1>3, LinesAnswered, x \in Seq(Replies), ~Told(x, "eof")
  <1>5. u /\ k /\ c.reader = "running" =>
          InStep(c, r, t, state'[o], board'[o], Masked(board'[Opponent(o)]))
    BY <1>2, <1>3 DEF Now, Live
  <1>6. Row(o)' = Agrees(client'[o], toServer'[o], toClient'[o], up'[o], connected'[o],
                         state'[o], board'[o], Masked(board'[Opponent(o)]))
    BY DEF Row, Opponent
  <1> QED
    BY <1>2, <1>4, <1>5, <1>6 DEF Agrees

LEMMA NoEof ==
  /\ ~Told(<<>>, "eof")
  /\ \A m : m.type # "eof" => ~Told(<<m>>, "eof")
  BY DEF Told

LEMMA SentTo ==
  ASSUME NEW out, Sent(out), NEW q \in Player
  PROVE  /\ out[q] \in Seq(Replies)
         /\ toClient'[q] = IF connected'[q] /\ up[q] THEN toClient[q] \o out[q] ELSE toClient[q]
  BY DEF Sent

\* The game is as it was, and so is what is on its way.
LEMMA NowWas ==
  ASSUME NEW o \in Player, Was(o), state'[o] = state[o], board'[o] = board[o],
         board'[Opponent(o)] = board[Opponent(o)]
  PROVE  Now(o, toServer[o], toClient[o])
  <1>1. Masked(board'[Opponent(o)]) = Masked(board[Opponent(o)])
    BY DEF Masked
  <1> QED
    BY <1>1 DEF Now, Was

\* The other player, who is told nothing.
LEMMA NotTold ==
  ASSUME SysTypes, NEW o \in Player, Row(o), client' = client, up' = up,
         toServer'[o] = toServer[o], connected'[o] = connected[o],
         NEW out, Sent(out), out[o] = <<>>, state'[o] = state[o], board'[o] = board[o],
         board'[Opponent(o)] = board[Opponent(o)]
  PROVE  Row(o)'
  <1>1. toClient[o] \in Seq(Replies) /\ <<>> \in Seq(Replies)
    BY DEF SysTypes, LineTypeOK
  <1>2. toClient'[o] = toClient[o]
    <2>1. toClient'[o] = IF connected'[o] /\ up[o] THEN toClient[o] \o out[o] ELSE toClient[o]
      BY SentTo
    <2>2. toClient[o] \o <<>> = toClient[o]
      BY <1>1, Joins
    <2> QED
      BY <2>1, <2>2
  <1> QED
    BY <1>2, RowStays

LEMMA LoginRows ==
  ASSUME SysTypes, \A p \in Player : Row(p), NEW p \in Player, ServeLogin(p)
  PROVE  \A o \in Player : Row(o)'
  <1> PICK m, x : m = [type |-> "login_ok", state |-> state[p]] /\ x = <<m>>
    OBVIOUS
  <1> PICK out : out = Only(p, x)
    OBVIOUS
  <1>1. /\ Request(p, "login_req") /\ UNCHANGED matchVars
        /\ connected' = [connected EXCEPT ![p] = TRUE] /\ Sent(out)
    BY LoginDoes
  <1>2. /\ state[p] \in States /\ connected \in [Player -> BOOLEAN] /\ UNCHANGED <<state, board>>
    BY <1>1, StateTyped DEF SysTypes, LineTypeOK, matchVars, vars
  <1>3. x \in Seq(Replies) /\ ~Told(x, "eof")
    <2>1. m \in Replies /\ m.type # "eof"
      BY <1>2 DEF Replies
    <2> QED
      BY <2>1, NoEof
  <1>4. out[p] = x /\ \A q \in Player : q # p => out[q] = <<>>
    BY <1>3, OnlyTyped
  <1>5. /\ up[p] => (("login_req" = "login_req") <=> ~connected[p])
        /\ up[p] /\ ~connected[p] => /\ Tail(toServer[p]) = <<>> /\ toClient[p] = <<>>
                                     /\ client[p].scene = "CONNECT" /\ client[p].window = <<>>
        /\ client' = client /\ up' = up /\ \A o \in Player \ {p} : toServer'[o] = toServer[o]
    BY <1>1, ServedFacts
  <1>6. Row(p)'
    <2>1. ASSUME up[p] PROVE Now(p, Tail(toServer[p]), toClient[p] \o x)
      <3>1. /\ Tail(toServer[p]) = <<>> /\ toClient[p] \o x = x
            /\ client[p].scene = "CONNECT" /\ client[p].window = <<>>
        BY <1>3, <1>5, <2>1, Joins
      <3>2. InStep(client[p], <<>>, x, state[p], board'[p], Masked(board'[Opponent(p)]))
        BY <1>2, <3>1, LoginPlays
      <3> QED
        BY <1>2, <3>1, <3>2 DEF Now
    <2>2. connected'[p] = TRUE
      BY <1>1, <1>2
    <2>3. toClient'[p] = IF connected'[p] /\ up[p] THEN toClient[p] \o x ELSE toClient[p]
      BY <1>1, <1>4, SentTo
    <2> QED
      BY <1>1, <1>3, <2>1, <2>2, <2>3, ServedRow
  <1>7. ASSUME NEW o \in Player \ {p} PROVE Row(o)'
    <2>1. connected'[o] = connected[o] /\ out[o] = <<>>
      BY <1>1, <1>2, <1>4
    <2>2. board'[Opponent(o)] = board[Opponent(o)] /\ board'[o] = board[o] /\ state'[o] = state[o]
      BY <1>2
    <2> QED
      BY <1>1, <1>5, <2>1, <2>2, NotTold
  <1> QED
    BY <1>6, <1>7

\* Who loses the connection sees nothing of it; the other one either has none, or
\* sees the game go on.
LEMMA EofRows ==
  ASSUME SysTypes, \A p \in Player : Row(p), NEW p \in Player, ServeEof(p)
  PROVE  \A o \in Player : Row(o)'
  <1>1. /\ Request(p, "eof") /\ connected' = [connected EXCEPT ![p] = FALSE]
        /\ UNCHANGED toClient
        /\ ~connected[Opponent(p)] \/ UNCHANGED matchVars
    BY EofDoes
  <1>2. /\ connected \in [Player -> BOOLEAN] /\ <<>> \in Seq(Replies) /\ ~Told(<<>>, "eof")
        /\ \A o \in Player : toClient[o] \in Seq(Replies) /\ toClient[o] \o <<>> = toClient[o]
    BY NoEof, Joins DEF SysTypes, LineTypeOK
  <1>3. /\ ~up[p] /\ client' = client /\ up' = up
        /\ \A o \in Player \ {p} : toServer'[o] = toServer[o]
    BY <1>1, ServedFacts
  <1>4. Row(p)'
    <2>1. connected'[p] = FALSE
      BY <1>1, <1>2
    <2>2. toClient'[p] = toClient[p] \o <<>> /\ toClient'[p] = toClient[p]
      BY <1>1, <1>2
    <2> QED
      BY <1>1, <1>2, <1>3, <2>1, <2>2, ServedRow
  <1>5. ASSUME NEW o \in Player \ {p} PROVE Row(o)'
    <2>1. connected'[o] = connected[o] /\ o = Opponent(p)
      BY <1>1, <1>2, Players
    <2>2. toClient'[o] = toClient[o] \o <<>> /\ toClient'[o] = toClient[o]
      BY <1>1, <1>2
    <2>3. ASSUME Live(o), Was(o) PROVE Now(o, toServer[o], toClient[o] \o <<>>)
      <3>1. UNCHANGED <<state, board>>
        BY <1>1, <2>1, <2>3 DEF Live, matchVars, vars
      <3>2. board'[Opponent(o)] = board[Opponent(o)] /\ board'[o] = board[o] /\ state'[o] = state[o]
        BY <3>1
      <3>3. Now(o, toServer[o], toClient[o])
        BY <2>3, <3>2, NowWas
      <3> QED
        BY <1>2, <3>3
    <2> QED
      BY <1>2, <1>3, <2>1, <2>2, <2>3, OtherRow
  <1> QED
    BY <1>4, <1>5

LEMMA InfoRows ==
  ASSUME SysTypes, \A p \in Player : Row(p), NEW p \in Player, ServeInfo(p)
  PROVE  \A o \in Player : Row(o)'
  <1> PICK m, x, out : /\ m = Info(p) /\ x = (IF InGame(p) THEN <<m>> ELSE <<>>)
                       /\ out = Only(p, x)
    OBVIOUS
  <1>1. /\ Request(p, "game_info_req") /\ UNCHANGED <<matchVars, connected>> /\ Sent(out)
    BY InfoDoes
  <1>2. /\ state[p] \in States /\ board[p] \in Boards /\ Masked(board[Opponent(p)]) \in Boards
        /\ connected \in [Player -> BOOLEAN] /\ UNCHANGED <<state, board>>
    BY <1>1, StateTyped, MaskTyped, Players DEF SysTypes, LineTypeOK, matchVars, vars
  <1>3. /\ m.type = "game_info_data" /\ m.state = state[p]
        /\ m.my = getMyBoardStringForm(board[p])
        /\ m.enemy = getMyBoardStringForm(Masked(board[Opponent(p)]))
    BY DEF Info
  <1>4. m \in Replies
    <2>1. m.my \in Strings /\ m.enemy \in Strings
      BY <1>2, <1>3 DEF Strings
    <2> QED
      BY <1>2, <1>3, <2>1 DEF Info, Replies
  <1>5. x \in Seq(Replies) /\ ~Told(x, "eof")
    <2>1. <<m>> \in Seq(Replies) /\ <<>> \in Seq(Replies)
      BY <1>4
    <2> QED
      BY <1>3, <2>1, NoEof
  <1>6. out[p] = x /\ \A q \in Player : q # p => out[q] = <<>>
    <2>1. out = Only(p, x)
      OBVIOUS
    <2> QED
      BY ONLY <1>5, <2>1, OnlyTyped, p \in Player
  <1>7. /\ up[p] => connected[p]
        /\ Live(p) => Was(p)
        /\ toServer[p] \in Seq(Requests) /\ toServer[p] # <<>>
        /\ toServer[p][1].type = "game_info_req"
        /\ toClient[p] \in Seq(Replies) /\ client[p] \in Clients
        /\ client' = client /\ up' = up /\ \A o \in Player \ {p} : toServer'[o] = toServer[o]
    BY <1>1, ServedFacts
  <1>8. Row(p)'
    <2>1. ASSUME up[p], client[p].reader = "running"
          PROVE  Now(p, Tail(toServer[p]), toClient[p] \o x)
      <3>1. Was(p)
        BY <1>7, <2>1 DEF Live
      <3> PICK c, r, q, st, b, e : /\ c = client[p] /\ r = toServer[p] /\ q = toClient[p]
                                   /\ st = state[p] /\ b = board[p] /\ e = Masked(board[Opponent(p)])
        OBVIOUS
      <3>2. InStep(c, r, q, st, b, e)
        BY <3>1 DEF Was
      <3> PICK s, t : s = Tail(r) /\ t = q \o x
        OBVIOUS
      <3>3. CASE InGame(p)
        <4>1. st \in Gaming /\ x = <<m>>
          BY <3>3 DEF InGame, Gaming
        <4>2. Playing(c, r, q, st, b, e)
          BY <3>2, <4>1 DEF InStep
        <4>3. t = Append(q, m)
          <5>1. q \in Seq(Replies)
            BY <1>7
          <5>2. q \o <<m>> = Append(q, m)
            BY ONLY <1>4, <5>1, Joins
          <5> QED
            BY <4>1, <5>2
        <4>4. Playing(c, s, t, st, b, e)
          <5>1. /\ c \in Clients /\ r \in Seq(Requests) /\ r # <<>> /\ r[1].type = "game_info_req"
                /\ q \in Seq(Replies) /\ b \in Boards /\ e \in Boards
            BY <1>2, <1>7
          <5>2. /\ m \in Replies /\ m.type = "game_info_data" /\ m.state = st
                /\ m.my = getMyBoardStringForm(b) /\ m.enemy = getMyBoardStringForm(e)
            BY <1>3, <1>4
          <5>3. s = Tail(r) /\ t = Append(q, m)
            BY <4>3
          <5> QED
            BY ONLY <4>2, <5>1, <5>2, <5>3, InfoPlays
        <4>5. InStep(c, s, t, st, b, e)
          BY <4>1, <4>4 DEF InStep
        <4> QED
          BY <1>2, <4>5 DEF Now
      <3>4. CASE ~InGame(p)
        <4>1. st \notin Gaming /\ x = <<>>
          BY <3>4 DEF InGame, Gaming
        <4>2. t = q
          BY <1>7, <4>1, Joins
        <4>3. InStep(c, s, t, st, b, e)
          BY <3>2, <4>1, <4>2 DEF InStep
        <4> QED
          BY <1>2, <4>3 DEF Now
      <3> QED
        BY <3>3, <3>4
    <2>2. connected'[p] = connected[p] /\ connected[p] \in BOOLEAN
      BY <1>1, <1>2
    <2>3. toClient'[p] = IF connected'[p] /\ up[p] THEN toClient[p] \o x ELSE toClient[p]
      BY <1>1, <1>6, SentTo
    <2> QED
      BY <1>1, <1>5, <2>1, <2>2, <2>3, ServedRow
  <1>9. ASSUME NEW o \in Player \ {p} PROVE Row(o)'
    <2>1. connected'[o] = connected[o] /\ out[o] = <<>>
      BY <1>1, <1>6
    <2>2. board'[Opponent(o)] = board[Opponent(o)] /\ board'[o] = board[o] /\ state'[o] = state[o]
      BY <1>2
    <2> QED
      BY <1>1, <1>7, <2>1, <2>2, NotTold
  <1> QED
    BY <1>8, <1>9

\* The end of a game comes last, whatever is on its way.
LEMMA EndedNow ==
  ASSUME NEW o \in Player, toClient[o] \in Seq(Replies), state'[o] = STATE_IN_LOBBY,
         NEW r, NEW q \in Seq(Replies), NEW x, x = q \o <<Msg("game_end")>>
  PROVE  Now(o, r, x)
  <1> PICK m : m = Msg("game_end")
    OBVIOUS
  <1>1. m \in Replies /\ m.type = "game_end"
    BY PlainReplies
  <1>2. x = Append(q, m)
    BY <1>1, Joins
  <1>3. Ended(client[o], x)
    BY <1>1, <1>2, EndedMore
  <1>4. state'[o] \notin Gaming
    BY DEF Gaming, STATE_IN_LOBBY, STATE_IN_GAME_PREPARING, STATE_IN_GAME, STATE_IN_GAME_PLAYING
  <1> QED
    BY <1>3, <1>4 DEF Now, InStep

LEMMA LeaveRows ==
  ASSUME SysTypes, \A p \in Player : Row(p), NEW p \in Player, ServeLeave(p)
  PROVE  \A o \in Player : Row(o)'
  <1>1. /\ Request(p, "room_leave_req") /\ UNCHANGED connected
        /\ \/ InGame(p) /\ Leave(p) /\ Sent(GameEnd)
           \/ ~InGame(p) /\ UNCHANGED matchVars /\ Sent(Only(p, <<>>))
    BY LeaveDoes
  <1>2. /\ connected \in [Player -> BOOLEAN]
        /\ \A o \in Player : toClient[o] \in Seq(Replies)
    BY DEF SysTypes, LineTypeOK
  <1>3. /\ up[p] => connected[p]
        /\ Live(p) => Was(p)
        /\ toClient[p] \in Seq(Replies)
        /\ client' = client /\ up' = up /\ \A o \in Player \ {p} : toServer'[o] = toServer[o]
    BY <1>1, ServedFacts
  <1>4. \A o \in Player : connected'[o] = connected[o] /\ connected[o] \in BOOLEAN
    BY <1>1, <1>2
  <1>5. CASE InGame(p)
    <2> PICK x : x = <<Msg("game_end")>>
      OBVIOUS
    <2>1. x \in Seq(Replies) /\ ~Told(x, "eof")
      BY PlainReplies, NoEof
    <2>2. \A o \in Player : /\ state'[o] = STATE_IN_LOBBY /\ Sent(GameEnd)
                            /\ GameEnd[o] = x
      BY <1>1, <1>5 DEF Leave, game_end, GameEnd
    <2>3. \A o \in Player : toClient'[o] = IF connected'[o] /\ up[o] THEN toClient[o] \o x
                                           ELSE toClient[o]
      BY <2>2, SentTo
    <2>4. ASSUME NEW o \in Player, NEW r PROVE Now(o, r, toClient[o] \o x)
      BY <1>2, <2>2, EndedNow
    <2>5. Row(p)'
      BY <1>1, <1>4, <2>1, <2>3, <2>4, ServedRow
    <2>6. ASSUME NEW o \in Player \ {p} PROVE Row(o)'
      BY <1>3, <1>4, <2>1, <2>3, <2>4, OtherRow
    <2> QED
      BY <2>5, <2>6
  <1>6. CASE ~InGame(p)
    <2> PICK out : out = Only(p, <<>>)
      OBVIOUS
    <2>1. UNCHANGED <<state, board>> /\ Sent(out) /\ <<>> \in Seq(Replies) /\ ~Told(<<>>, "eof")
      BY <1>1, <1>6, NoEof DEF matchVars, vars
    <2>2. \A o \in Player : out[o] = <<>>
      BY DEF Only
    <2>3. ASSUME up[p], client[p].reader = "running"
          PROVE  Now(p, Tail(toServer[p]), toClient[p] \o <<>>)
      <3>1. Was(p)
        BY <1>3, <2>3 DEF Live
      <3>2. state[p] \notin Gaming /\ state'[p] = state[p]
        BY <1>6, <2>1 DEF InGame, Gaming
      <3>3. Ended(client[p], toClient[p])
        BY <3>1, <3>2 DEF Was, InStep
      <3>4. toClient[p] \o <<>> = toClient[p]
        BY <1>3, Joins
      <3> QED
        BY <3>2, <3>3, <3>4 DEF Now, InStep
    <2>4. toClient'[p] = IF connected'[p] /\ up[p] THEN toClient[p] \o <<>> ELSE toClient[p]
      BY <2>1, <2>2, SentTo
    <2>5. Row(p)'
      BY <1>1, <1>4, <2>1, <2>3, <2>4, ServedRow
    <2>6. ASSUME NEW o \in Player \ {p} PROVE Row(o)'
      <3>1. board'[Opponent(o)] = board[Opponent(o)] /\ board'[o] = board[o] /\ state'[o] = state[o]
        BY <2>1
      <3> QED
        BY <1>3, <1>4, <2>1, <2>2, <3>1, NotTold
    <2> QED
      BY <2>5, <2>6
  <1> QED
    BY <1>5, <1>6

\* Nothing else is on its way when the server reads Ready or a shot.
LEMMA OrderAlone ==
  ASSUME NEW c \in Clients, NEW r \in Seq(Requests), r # <<>>,
         r[1].type \in {"game_prepared", "game_fire_req"},
         NEW q, NEW st, NEW b, NEW e, Playing(c, r, q, st, b, e)
  PROVE  /\ q = <<>> /\ ~Pending(c, "resume") /\ SceneOf(c) = "GAME"
         /\ Opening(c, r, q, st) /\ Ordered(c, r, q, st) /\ Sketching(c, q, st)
         /\ c.enemyBoard = e /\ (st # STATE_IN_GAME_PREPARING => c.myBoard = b)
         /\ r[1].type = "game_prepared" =>
              /\ c.window = <<>> /\ st = STATE_IN_GAME_PREPARING
              /\ r[1].layout = getMyBoardStringForm(c.myBoard)
         /\ r[1].type = "game_fire_req" => st = STATE_IN_GAME_PLAYING /\ StatusOf(c) = "WAITING"
  <1>1. /\ Opening(c, r, q, st) /\ Ordered(c, r, q, st) /\ Sketching(c, q, st)
        /\ Final(View(c), q).scene = "GAME"
        /\ ~InfoDue(c, r, q) => Faithful(c, r, q, st, b, e)
    BY DEF Playing
  <1>2. 1 \in DOMAIN r
    BY QueueTail
  <1>3. r[1].type \in Orders /\ \A i \in DOMAIN r : r[i].type \in Orders => i = 1
    BY <1>1, <1>2 DEF Ordered, Orders
  <1>4. r[1].type = "game_prepared" =>
          /\ q = <<>> /\ c.window = <<>> /\ st = STATE_IN_GAME_PREPARING
          /\ r[1].layout = getMyBoardStringForm(c.myBoard)
    BY <1>1, <1>2 DEF Ordered
  <1>5. r[1].type = "game_fire_req" =>
          q = <<>> /\ st = STATE_IN_GAME_PLAYING /\ StatusOf(c) = "WAITING"
    <2>1. r[1].type = "game_fire_req" => Asked(r, "game_fire_req")
      BY <1>2 DEF Asked
    <2> QED
      BY <1>1, <2>1 DEF Ordered
  <1>6. q = <<>>
    BY <1>4, <1>5
  <1>7. ~Pending(c, "resume")
    BY <1>1 DEF Opening
  <1>8. ~Asked(r, "game_info_req") /\ ~Told(q, "login_ok")
    BY <1>3, <1>6 DEF Asked, Told, Orders
  <1>9. Faithful(c, r, q, st, b, e)
    BY <1>1, <1>7, <1>8 DEF InfoDue
  <1>10. Final(View(c), q) = View(c)
    BY <1>6 DEF Final
  <1>11. SceneOf(c) = "GAME" /\ c.enemyBoard = e /\ (st # STATE_IN_GAME_PREPARING => c.myBoard = b)
    BY <1>1, <1>9, <1>10, ViewIs DEF Faithful
  <1> QED
    BY <1>1, <1>4, <1>5, <1>6, <1>7, <1>11

\* Ready is answered; the last of the two players to be ready may let this one begin.
LEMMA PreparedPlays ==
  ASSUME NEW c \in Clients, NEW r \in Seq(Requests), r # <<>>, r[1].type = "game_prepared",
         NEW q, NEW st, NEW b, NEW e, Playing(c, r, q, st, b, e),
         NEW x, NEW w, NEW a,
         \/ x = <<Msg("game_prepared_err")>> /\ w = STATE_IN_GAME_PREPARING
         \/ x = <<Msg("game_prepared_ok")>> /\ w = STATE_IN_GAME /\ a = c.myBoard
         \/ /\ x = <<Msg("game_prepared_ok"), Msg("game_play")>>
            /\ w = STATE_IN_GAME_PLAYING /\ a = c.myBoard,
         NEW s, s = Tail(r)
  PROVE  Playing(c, s, x, w, a, e)
  <1> PICK v : v = View(c)
    OBVIOUS
  <1>1. /\ SceneOf(c) = "GAME" /\ c.window = <<>> /\ c.enemyBoard = e
        /\ Opening(c, r, q, st) /\ Ordered(c, r, q, st)
    BY OrderAlone
  <1>2. ~Pending(c, "setGameStatus")
    BY <1>1 DEF Pending
  <1>3. v.my = c.myBoard /\ v.enemy = e
    BY <1>1, ViewIs
  <1> PICK m, n, o : m = Msg("game_prepared_err") /\ n = Msg("game_prepared_ok") /\ o = Msg("game_play")
    OBVIOUS
  <1>4. /\ m.type = "game_prepared_err" /\ n.type = "game_prepared_ok" /\ o.type = "game_play"
        /\ m \in Replies /\ n \in Replies /\ o \in Replies
    BY PlainReplies
  <1>5. CASE x = <<m>> /\ w = STATE_IN_GAME_PREPARING
    <2>1. x \in Seq(Replies) /\ Len(x) = 1 /\ DOMAIN x = {1} /\ x[1] = m /\ x # <<>>
      BY <1>4, <1>5
    <2>2. Final(v, x) = After(v, m)
      BY <2>1 DEF Final
    <2>3. Final(v, x).status = Status(w) /\ Final(v, x).enemy = e
      BY <1>3, <1>4, <1>5, <2>2, StatusIs DEF After
    <2>4. Waits(v, x)
      BY <1>4, <2>1 DEF Waits, Moves
    <2>5. Answer(c, x, w, a, e)
      BY <1>2, <1>4, <1>5, <2>1, <2>3, <2>4 DEF Answer, Hellos
    <2> QED
      BY <1>1, <2>5, Answered DEF Orders
  <1>6. CASE x = <<n>> /\ w = STATE_IN_GAME /\ a = c.myBoard
    <2>1. x \in Seq(Replies) /\ Len(x) = 1 /\ DOMAIN x = {1} /\ x[1] = n /\ x # <<>>
      BY <1>4, <1>6
    <2>2. Final(v, x) = After(v, n)
      BY <2>1 DEF Final
    <2>3. Final(v, x).status = Status(w) /\ Final(v, x).enemy = e /\ Final(v, x).my = a
      BY <1>3, <1>4, <1>6, <2>2, StatusIs DEF After
    <2>4. Waits(v, x)
      BY <1>4, <2>1 DEF Waits, Moves
    <2>5. Answer(c, x, w, a, e)
      BY <1>2, <1>4, <1>6, <2>1, <2>3, <2>4 DEF Answer, Hellos
    <2> QED
      BY <1>1, <2>5, Answered DEF Orders
  <1>7. CASE x = <<n, o>> /\ w = STATE_IN_GAME_PLAYING /\ a = c.myBoard
    <2>1. x \in Seq(Replies) /\ Len(x) = 2 /\ DOMAIN x = {1, 2} /\ x[1] = n /\ x[2] = o /\ x # <<>>
      BY <1>4, <1>7
    <2>2. Final(v, x) = After(After(v, n), o)
      BY <2>1 DEF Final
    <2>3. After(v, n).status = "WAITING" /\ After(v, n).enemy = e /\ After(v, n).my = a
      BY <1>3, <1>4, <1>7 DEF After
    <2>4. Final(v, x).status = Status(w) /\ Final(v, x).enemy = e /\ Final(v, x).my = a
      BY <1>4, <1>7, <2>2, <2>3, StatusIs DEF After
    <2>5. Waits(v, x)
      BY <1>4, <2>1, <2>3 DEF Waits, Moves
    <2>6. Answer(c, x, w, a, e)
      BY <1>2, <1>4, <1>7, <2>1, <2>4, <2>5 DEF Answer, Hellos
    <2> QED
      BY <1>1, <2>6, Answered DEF Orders
  <1> QED
    BY <1>5, <1>6, <1>7

\* A shot is answered: with what it hit, or with the turn given back.
LEMMA FirePlays ==
  ASSUME NEW c \in Clients, NEW r \in Seq(Requests), r # <<>>, r[1].type = "game_fire_req",
         NEW q, NEW st, NEW b, NEW e, Playing(c, r, q, st, b, e),
         NEW m \in Replies, NEW x, x = <<m>>, NEW w, NEW f,
         \/ m.type = "game_fire_err" /\ w = STATE_IN_GAME_PLAYING /\ f = e
         \/ /\ m.type = "game_fire_ok" /\ w = STATE_IN_GAME
            /\ f = Shot(e, m.shot.sq, m.shot.status, m.shot.destroyed),
         NEW s, s = Tail(r)
  PROVE  Playing(c, s, x, w, b, f)
  <1> PICK v : v = View(c)
    OBVIOUS
  <1>0. STATE_IN_GAME_PLAYING # STATE_IN_GAME_PREPARING /\ STATE_IN_GAME # STATE_IN_GAME_PREPARING
    BY DEF STATE_IN_GAME, STATE_IN_GAME_PREPARING, STATE_IN_GAME_PLAYING
  <1>1. /\ SceneOf(c) = "GAME" /\ c.enemyBoard = e /\ StatusOf(c) = "WAITING" /\ c.myBoard = b
        /\ Opening(c, r, q, st) /\ Ordered(c, r, q, st) /\ Sketching(c, q, st)
        /\ st = STATE_IN_GAME_PLAYING
    BY <1>0, OrderAlone
  <1>2. Pending(c, "setGameStatus") => c.model /\ c.window[1].status # "PREPARING"
    BY <1>0, <1>1 DEF Sketching
  <1>3. v.my = b /\ v.enemy = e /\ v.status = "WAITING"
    BY <1>1, ViewIs
  <1>4. x \in Seq(Replies) /\ Len(x) = 1 /\ DOMAIN x = {1} /\ x[1] = m /\ x # <<>>
    OBVIOUS
  <1>5. Final(v, x) = After(v, m)
    BY <1>4 DEF Final
  <1>6. Final(v, x).status = Status(w)
    BY <1>5, StatusIs DEF After
  <1>7. Final(v, x).enemy = f /\ Final(v, x).my = b
    BY <1>3, <1>5 DEF After
  <1>8. Waits(v, x)
    BY <1>3, <1>4 DEF Waits
  <1>9. m.type \notin Hellos /\ m.type # "game_end" /\ m.type # "game_info_data"
    BY DEF Hellos
  <1>10. Answer(c, x, w, b, f)
    BY <1>2, <1>4, <1>6, <1>7, <1>8, <1>9 DEF Answer
  <1> QED
    BY <1>1, <1>10, Answered DEF Orders

-----------------------------------------------------------------------------
(* Ready *)

\* What a layout makes of the game, for what the two players see of it.
Laid(p, o, lay) ==
  /\ board'[o] = board[o] /\ Masked(board'[p]) = Masked(board[p])
  /\ state[p] = STATE_IN_GAME_PREPARING => board'[p] \in Sketches
  /\ \/ /\ error' # OK /\ UNCHANGED state
        /\ state[p] # STATE_IN_GAME_PREPARING => board'[p] = board[p]
     \/ /\ error' = OK /\ state[p] = STATE_IN_GAME_PREPARING
        /\ \A b \in Boards : lay = getMyBoardStringForm(b) => board'[p] = b
        /\ \/ /\ state[o] = STATE_IN_GAME_PREPARING
              /\ state'[o] = STATE_IN_GAME_PREPARING /\ state'[p] = STATE_IN_GAME
           \/ /\ state[o] = STATE_IN_GAME
              /\ state'[1] = STATE_IN_GAME_PLAYING /\ state'[2] = STATE_IN_GAME

LEMMA LaysOut ==
  ASSUME MatchInv, NEW p \in Player, NEW o \in Player, o = Opponent(p),
         NEW lay \in Seq(Int), cmd_game_prepared(p, lay)
  PROVE  Laid(p, o, lay)
  <1>1. CASE state[p] # STATE_IN_GAME_PREPARING
    <2>1. Refuse(ERROR_USER_STATE)
      BY <1>1 DEF cmd_game_prepared
    <2>2. error' # OK /\ UNCHANGED <<state, board>>
      BY <2>1 DEF Refuse, ERROR_USER_STATE, OK
    <2>3. Masked(board'[p]) = Masked(board[p])
      BY <2>2
    <2> QED
      BY <1>1, <2>2, <2>3 DEF Laid
  <1>2. CASE state[p] = STATE_IN_GAME_PREPARING
    <2>1. /\ board[p] \in Sketches /\ ships[p] = clean_client_ships
          /\ board' = [board EXCEPT ![p] = board'[p]]
          /\ \/ /\ error' = OK /\ state' = StatesWhenPrepared(p)
                /\ Placed(board'[p], ships'[p])
             \/ /\ error' \in PrepareErrors /\ UNCHANGED state
                /\ board'[p] \in Sketches
      BY <1>2, PrepareSteps
    <2>2. board \in [Player -> Boards] /\ o # p
      BY Players DEF MatchInv, TypeOK, Boards
    <2>3. board'[o] = board[o]
      BY <2>1, <2>2
    <2>4. board'[p] \in Sketches
      BY <2>1 DEF Placed
    <2>5. Masked(board'[p]) = Masked(board[p])
      <3>1. Masked(board'[p]) = Blank
        BY <2>4, SketchMasked
      <3>2. Masked(board[p]) = Blank
        BY <2>1, SketchMasked
      <3> QED
        BY <3>1, <3>2
    <2>6. CASE error' \in PrepareErrors /\ UNCHANGED state
      <3>1. error' # OK
        BY <2>6 DEF PrepareErrors, ReadErrors, OK, ERROR_FORMAT, ERROR_SHIP_PLACEMENT,
                    ERROR_SHIP_NUMBER, ERROR_SHIPS_WRONG_LENGTH
      <3> QED
        BY <1>2, <2>3, <2>4, <2>5, <2>6, <3>1 DEF Laid
    <2>7. CASE error' = OK /\ state' = StatesWhenPrepared(p)
      <3> PICK r : r = Prepare(p, board[p], ships[p], lay)
        OBVIOUS
      <3>1. board' = [board EXCEPT ![p] = r.board] /\ error' = r.error
        BY <1>2 DEF cmd_game_prepared
      <3>2. board'[p] = r.board /\ r.error = OK
        BY <2>2, <2>7, <3>1
      <3>3. ASSUME NEW b \in Boards, lay = getMyBoardStringForm(b) PROVE board'[p] = b
        <4>1. r = Prepare(p, board[p], clean_client_ships, lay)
          BY <2>1
        <4>2. r.board = b
          BY <2>1, <3>2, <3>3, <4>1, AcceptedShown
        <4> QED
          BY <3>2, <4>2
      <3> PICK ready : ready = StatesWhenPrepared(p)
        OBVIOUS
      <3>4. /\ state[o] \in {STATE_IN_GAME_PREPARING, STATE_IN_GAME}
            /\ state[o] = STATE_IN_GAME_PREPARING =>
                 ready[p] = STATE_IN_GAME /\ ready[o] = STATE_IN_GAME_PREPARING
            /\ state[o] = STATE_IN_GAME =>
                 ready[1] = STATE_IN_GAME_PLAYING /\ ready[2] = STATE_IN_GAME
        BY <1>2, StatesPrepared
      <3> QED
        BY <1>2, <2>3, <2>4, <2>5, <2>7, <3>3, <3>4 DEF Laid
    <2> QED
      BY <2>1, <2>6, <2>7
  <1> QED
    BY <1>1, <1>2

\* What is sent then: x to the player, y to the opponent.
ReadyTold(p, o, x, y) ==
  \/ /\ x = <<Msg("game_prepared_err")>> /\ y = <<>> /\ error' # OK /\ UNCHANGED state
  \/ /\ x = <<Msg("game_prepared_ok")>> /\ y = <<>> /\ error' = OK
     /\ state'[p] = STATE_IN_GAME /\ state'[o] = state[o]
  \/ /\ x = <<Msg("game_prepared_ok"), Msg("game_play")>> /\ y = <<>> /\ error' = OK
     /\ state'[p] = STATE_IN_GAME_PLAYING /\ state'[o] = state[o]
  \/ /\ x = <<Msg("game_prepared_ok")>> /\ y = <<Msg("game_play")>> /\ error' = OK
     /\ state'[p] = STATE_IN_GAME
     /\ state[o] = STATE_IN_GAME /\ state'[o] = STATE_IN_GAME_PLAYING

LEMMA PreparedTells ==
  ASSUME NEW p \in Player, NEW o \in Player, o = Opponent(p), NEW lay, Laid(p, o, lay),
         NEW x, x = (IF error' = OK THEN <<Msg("game_prepared_ok")>>
                     ELSE <<Msg("game_prepared_err")>>) \o (IF p = 1 THEN Play ELSE <<>>),
         NEW y, y = <<>> \o (IF o = 1 THEN Play ELSE <<>>)
  PROVE  ReadyTold(p, o, x, y)
  <1> PICK m, n, k : m = Msg("game_prepared_err") /\ n = Msg("game_prepared_ok") /\ k = Msg("game_play")
    OBVIOUS
  <1>1. o # p /\ p \in {1, 2} /\ o \in {1, 2} /\ \A q \in Player : q = p \/ q = o
    BY Players
  <1>2. m \in Replies /\ n \in Replies /\ k \in Replies
    BY PlainReplies
  <1>3. <<>> \o <<>> = <<>> /\ <<>> \o <<k>> = <<k>> /\ <<n>> \o <<k>> = <<n, k>>
        /\ <<n>> \o <<>> = <<n>> /\ <<m>> \o <<>> = <<m>>
    <2>1. <<>> \in Seq(Replies) /\ <<k>> \in Seq(Replies)
      BY <1>2
    <2>2. <<n>> \in Seq(Replies) /\ <<m>> \in Seq(Replies)
      BY <1>2
    <2>3. <<>> \o <<>> = <<>> /\ <<>> \o <<k>> = <<k>>
      BY <2>1, Joins
    <2>4. <<n>> \o <<>> = <<n>> /\ <<m>> \o <<>> = <<m>>
      BY <2>2, Joins
    <2>5. <<n>> \o <<k>> = Append(<<n>>, k)
      BY <1>2, <2>2, Joins
    <2>6. Append(<<n>>, k) = <<n, k>>
      <3> PICK w, z : w = <<n>> /\ z = Append(w, k)
        OBVIOUS
      <3>1. w \in Seq(Replies) /\ Len(w) = 1 /\ w[1] = n
        BY <2>2
      <3>2. z \in Seq(Replies) /\ Len(z) = 2 /\ z[1] = n /\ z[2] = k
        BY <1>2, <3>1, QueueAdd
      <3>3. z = <<n, k>>
        BY ONLY <1>2, <3>2
      <3> QED
        BY <3>3
    <2> QED
      BY <2>3, <2>4, <2>5, <2>6
  <1>4. CASE error' # OK /\ UNCHANGED state
    <2>1. Play = <<>>
      BY <1>4 DEF Play
    <2> QED
      BY <1>3, <1>4, <2>1 DEF ReadyTold
  <1>5. CASE /\ error' = OK /\ state[p] = STATE_IN_GAME_PREPARING
             /\ state[o] = STATE_IN_GAME_PREPARING
             /\ state'[o] = STATE_IN_GAME_PREPARING /\ state'[p] = STATE_IN_GAME
    <2>1. \A q \in Player : state'[q] # STATE_IN_GAME_PLAYING
      BY <1>1, <1>5 DEF STATE_IN_GAME, STATE_IN_GAME_PREPARING, STATE_IN_GAME_PLAYING
    <2>2. Play = <<>>
      BY <2>1 DEF Play
    <2> QED
      BY <1>3, <1>5, <2>2 DEF ReadyTold
  <1>6. CASE /\ error' = OK /\ state[p] = STATE_IN_GAME_PREPARING /\ state[o] = STATE_IN_GAME
             /\ state'[1] = STATE_IN_GAME_PLAYING /\ state'[2] = STATE_IN_GAME
    <2>1. state[1] # STATE_IN_GAME_PLAYING /\ 1 \in Player
      BY <1>1, <1>6, Players DEF STATE_IN_GAME, STATE_IN_GAME_PREPARING, STATE_IN_GAME_PLAYING
    <2>2. Play = <<k>>
      BY <1>6, <2>1 DEF Play
    <2>3. CASE p = 1
      <3>1. o = 2
        BY <1>1, <2>3
      <3>2. x = <<n, k>> /\ y = <<>>
        BY <1>3, <1>6, <2>2, <2>3, <3>1
      <3> QED
        BY <1>6, <2>3, <3>1, <3>2 DEF ReadyTold
    <2>4. CASE p # 1
      <3>1. p = 2 /\ o = 1
        BY <1>1, <2>4
      <3>2. x = <<n>> /\ y = <<k>>
        BY <1>3, <1>6, <2>2, <3>1
      <3> QED
        BY <1>6, <3>1, <3>2 DEF ReadyTold
    <2> QED
      BY <2>3, <2>4
  <1> QED
    BY <1>4, <1>5, <1>6 DEF Laid

\* What ReadyTold sends, and that it does not end a connection.
LEMMA TellsTyped ==
  ASSUME NEW p, NEW o, NEW x, NEW y, ReadyTold(p, o, x, y)
  PROVE  /\ x \in Seq(Replies) /\ ~Told(x, "eof")
         /\ y \in Seq(Replies) /\ ~Told(y, "eof")
  <1> PICK m, n, k : m = Msg("game_prepared_err") /\ n = Msg("game_prepared_ok") /\ k = Msg("game_play")
    OBVIOUS
  <1>1. /\ m \in Replies /\ n \in Replies /\ k \in Replies
        /\ m.type # "eof" /\ n.type # "eof" /\ k.type # "eof"
    BY PlainReplies
  <1>2. <<m>> \in Seq(Replies) /\ <<n>> \in Seq(Replies) /\ <<k>> \in Seq(Replies)
        /\ <<>> \in Seq(Replies)
    BY <1>1
  <1>3. <<n, k>> \in Seq(Replies) /\ ~Told(<<n, k>>, "eof")
    BY <1>1 DEF Told
  <1>4. ~Told(<<m>>, "eof") /\ ~Told(<<n>>, "eof") /\ ~Told(<<k>>, "eof") /\ ~Told(<<>>, "eof")
    BY <1>1, NoEof
  <1> QED
    BY <1>2, <1>3, <1>4 DEF ReadyTold

LEMMA PreparedRows ==
  ASSUME SysTypes, \A p \in Player : Row(p), NEW p \in Player, ServePrepared(p)
  PROVE  \A o \in Player : Row(o)'
  <1> PICK o, r, lay : o = Opponent(p) /\ r = toServer[p] /\ lay = r[1].layout
    OBVIOUS
  <1>0. STATE_IN_GAME_PREPARING \in Gaming /\ STATE_IN_GAME \in Gaming
        /\ STATE_IN_GAME_PLAYING \in Gaming
    BY DEF Gaming
  <1> PICK x : x = (IF error' = OK THEN <<Msg("game_prepared_ok")>>
                    ELSE <<Msg("game_prepared_err")>>) \o (IF p = 1 THEN Play ELSE <<>>)
    OBVIOUS
  <1> PICK y : y = <<>> \o (IF o = 1 THEN Play ELSE <<>>)
    OBVIOUS
  <1> PICK out : out = [q \in Player |->
                          (IF q = p THEN IF error' = OK THEN <<Msg("game_prepared_ok")>>
                                         ELSE <<Msg("game_prepared_err")>>
                           ELSE <<>>) \o (IF q = 1 THEN Play ELSE <<>>)]
    OBVIOUS
  <1>1. /\ Request(p, "game_prepared") /\ UNCHANGED connected
        /\ lay \in Seq(Int) /\ cmd_game_prepared(p, lay) /\ Sent(out)
    BY PreparedDoes
  <1>2. o \in Player /\ o # p /\ p = Opponent(o) /\ \A q \in Player : q = p \/ q = o
    BY Players
  <1>3. out[p] = x /\ out[o] = y
    BY <1>2
  <1>4. Laid(p, o, lay)
    BY <1>1, <1>2, LaysOut DEF SysTypes
  <1>5. ReadyTold(p, o, x, y)
    BY <1>2, <1>4, PreparedTells
  <1>6. x \in Seq(Replies) /\ ~Told(x, "eof") /\ y \in Seq(Replies) /\ ~Told(y, "eof")
    BY <1>5, TellsTyped
  <1>7. /\ up[p] => connected[p]
        /\ Live(p) => Was(p)
        /\ r \in Seq(Requests) /\ r # <<>> /\ r[1].type = "game_prepared"
        /\ toClient[p] \in Seq(Replies) /\ client[p] \in Clients
        /\ client' = client /\ up' = up /\ \A i \in Player \ {p} : toServer'[i] = toServer[i]
    BY <1>1, ServedFacts
  <1>8. /\ connected'[p] = connected[p] /\ connected[p] \in BOOLEAN
        /\ connected'[o] = connected[o] /\ toClient[o] \in Seq(Replies) /\ client[o] \in Clients
    BY <1>1, <1>2 DEF SysTypes, LineTypeOK, ClientTypeOK
  <1>9. /\ toClient'[p] = IF connected'[p] /\ up[p] THEN toClient[p] \o x ELSE toClient[p]
        /\ toClient'[o] = IF connected'[o] /\ up[o] THEN toClient[o] \o y ELSE toClient[o]
    <2>1. toClient'[p] = IF connected'[p] /\ up[p] THEN toClient[p] \o out[p] ELSE toClient[p]
      BY <1>1, SentTo
    <2>2. toClient'[o] = IF connected'[o] /\ up[o] THEN toClient[o] \o out[o] ELSE toClient[o]
      BY <1>1, <1>2, SentTo
    <2> QED
      BY ONLY <1>3, <2>1, <2>2
  <1>10. /\ board'[o] = board[o] /\ Masked(board'[p]) = Masked(board[p])
         /\ state[p] # STATE_IN_GAME_PREPARING => board'[p] = board[p] /\ error' # OK
         /\ error' = OK => \A b \in Boards : lay = getMyBoardStringForm(b) => board'[p] = b
         /\ error' # OK => UNCHANGED state
    BY <1>4 DEF Laid
  <1>11. Row(p)'
    <2> PICK c, q, st, b, e : /\ c = client[p] /\ q = toClient[p]
                              /\ st = state[p] /\ b = board[p] /\ e = Masked(board[o])
      OBVIOUS
    <2> PICK s, w, a : s = Tail(r) /\ w = state'[p] /\ a = board'[p]
      OBVIOUS
    <2>1. ASSUME up[p], c.reader = "running"
          PROVE  InStep(c, s, q \o x, w, a, e)
      <3>1. InStep(c, r, q, st, b, e)
        BY <1>7, <2>1 DEF Live, Was
      <3>2. CASE st \in Gaming
        <4>1. Playing(c, r, q, st, b, e)
          BY <3>1, <3>2 DEF InStep
        <4>2. /\ q = <<>> /\ st = STATE_IN_GAME_PREPARING
              /\ lay = getMyBoardStringForm(c.myBoard) /\ c.myBoard \in Boards
          <5>1. q = <<>> /\ st = STATE_IN_GAME_PREPARING
                /\ r[1].layout = getMyBoardStringForm(c.myBoard)
            BY <1>7, <4>1, OrderAlone
          <5>2. c.myBoard \in Boards
            BY <1>7 DEF Clients
          <5> QED
            BY <5>1, <5>2
        <4>3. error' = OK => a = c.myBoard
          BY <1>10, <4>2
        <4>4. \/ x = <<Msg("game_prepared_err")>> /\ w = STATE_IN_GAME_PREPARING
              \/ x = <<Msg("game_prepared_ok")>> /\ w = STATE_IN_GAME /\ a = c.myBoard
              \/ /\ x = <<Msg("game_prepared_ok"), Msg("game_play")>>
                 /\ w = STATE_IN_GAME_PLAYING /\ a = c.myBoard
          BY <1>5, <4>2, <4>3 DEF ReadyTold
        <4>5. Playing(c, s, x, w, a, e)
          <5>1. c \in Clients /\ r \in Seq(Requests) /\ r # <<>> /\ r[1].type = "game_prepared"
            BY <1>7
          <5>2. s = Tail(r)
            OBVIOUS
          <5> QED
            BY ONLY <4>1, <4>4, <5>1, <5>2, PreparedPlays
        <4>6. q \o x = x
          BY <1>6, <4>2, Joins
        <4>7. w \in Gaming
          BY <1>0, <4>4
        <4> QED
          BY <4>5, <4>6, <4>7 DEF InStep
      <3>3. CASE st \notin Gaming
        <4>1. Ended(c, q) /\ st # STATE_IN_GAME_PREPARING
          BY <1>0, <3>1, <3>3 DEF InStep
        <4>2. error' # OK /\ w = st
          BY <1>10, <4>1
        <4> PICK m : m = Msg("game_prepared_err")
          OBVIOUS
        <4>3. x = <<m>> /\ m \in Replies /\ m.type \in Errs
          <5>1. x = <<m>>
            BY <1>5, <4>2 DEF ReadyTold
          <5>2. m \in Replies /\ m.type = "game_prepared_err"
            BY PlainReplies
          <5> QED
            BY <5>1, <5>2 DEF Errs
        <4>4. q \o x = Append(q, m)
          <5>1. q \in Seq(Replies)
            BY <1>7
          <5>2. q \o <<m>> = Append(q, m)
            BY ONLY <4>3, <5>1, Joins
          <5> QED
            BY <4>3, <5>2
        <4>5. Ended(c, q \o x)
          BY <1>7, <4>1, <4>3, <4>4, EndedMore
        <4> QED
          BY <3>3, <4>2, <4>5 DEF InStep
      <3> QED
        BY <3>2, <3>3
    <2>2. ASSUME up[p], client[p].reader = "running"
          PROVE  Now(p, Tail(toServer[p]), toClient[p] \o x)
      <3>1. InStep(c, s, q \o x, w, a, e) /\ Masked(board'[Opponent(p)]) = e
        BY <1>10, <2>1, <2>2
      <3> QED
        BY <3>1 DEF Now
    <2> QED
      BY <1>1, <1>6, <1>8, <1>9, <2>2, ServedRow
  <1>12. Row(o)'
    <2> PICK c, z, q, b, e : /\ c = client[o] /\ z = toServer[o] /\ q = toClient[o]
                             /\ b = board[o] /\ e = Masked(board[p])
      OBVIOUS
    <2>1. ASSUME InStep(c, z, q, state[o], b, e)
          PROVE  InStep(c, z, q \o y, state'[o], b, e)
      <3>1. CASE y = <<>> /\ state'[o] = state[o]
        <4>1. q \o y = q
          BY <1>8, <3>1, Joins
        <4> QED
          BY <2>1, <3>1, <4>1
      <3>2. CASE /\ y = <<Msg("game_play")>> /\ state[o] = STATE_IN_GAME
                 /\ state'[o] = STATE_IN_GAME_PLAYING
        <4> PICK k, t : k = Msg("game_play") /\ t = q \o y
          OBVIOUS
        <4>1. k \in Replies /\ k.type = "game_play"
          BY PlainReplies
        <4>2. t = Append(q, k)
          <5>1. y = <<k>> /\ q \in Seq(Replies)
            BY <1>8, <3>2
          <5>2. q \o <<k>> = Append(q, k)
            BY <4>1, <5>1, Joins
          <5> QED
            BY <5>1, <5>2
        <4>3. Playing(c, z, q, STATE_IN_GAME, b, e)
          BY <1>0, <2>1, <3>2 DEF InStep
        <4> PICK a : a = After([View(c) EXCEPT !.my = b], k).my
          OBVIOUS
        <4>4. a = b
          BY <4>1 DEF After, View
        <4>5. Playing(c, z, t, STATE_IN_GAME_PLAYING, a, e)
          <5>1. c \in Clients /\ q \in Seq(Replies) /\ k.type \in Passes
            BY <1>8, <4>1 DEF Passes
          <5> QED
            BY <4>1, <4>2, <4>3, <5>1, TurnPasses
        <4> QED
          BY <1>0, <3>2, <4>4, <4>5 DEF InStep
      <3> QED
        BY <1>5, <3>1, <3>2 DEF ReadyTold
    <2>2. Live(o) /\ Was(o) => Now(o, toServer[o], toClient[o] \o y)
      <3>1. Masked(board'[Opponent(o)]) = e /\ board'[o] = b /\ e = Masked(board[Opponent(o)])
        BY <1>2, <1>10
      <3> QED
        BY <2>1, <3>1 DEF Was, Now
    <2>3. toServer'[o] = toServer[o]
      BY <1>2, <1>7
    <2> QED
      BY <1>2, <1>6, <1>7, <1>8, <1>9, <2>2, <2>3, OtherRow
  <1> QED
    BY <1>2, <1>11, <1>12

-----------------------------------------------------------------------------
(* A shot *)

\* What the shot k makes of the game, for what the two players see of it.
ShotTold(p, o, k) ==
  \/ error' # OK /\ UNCHANGED <<state, board>>
  \/ /\ error' = OK /\ state[p] = STATE_IN_GAME_PLAYING /\ state[o] = STATE_IN_GAME
     /\ board'[p] = board[p]
     /\ board'[o] = Shot(board[o], k.sq, k.status, k.destroyed)
     /\ Masked(board'[o]) = Shot(Masked(board[o]), k.sq, k.status, k.destroyed)
     /\ \/ winner' # winner /\ state'[p] = STATE_IN_LOBBY /\ state'[o] = STATE_IN_LOBBY
        \/ winner' = winner /\ state'[p] = STATE_IN_GAME /\ state'[o] = STATE_IN_GAME_PLAYING

LEMMA MissDoes ==
  ASSUME MatchInv, NEW p \in Player, NEW o \in Player, o = Opponent(p),
         state[p] = STATE_IN_GAME_PLAYING, error' = OK, NEW sq \in Cells,
         Target(p, sq) = Empty, FireMiss(p, sq), NEW k, k = ShotAt(p, sq)
  PROVE  ShotTold(p, o, k)
  <1>1. /\ o # p /\ state[o] = STATE_IN_GAME /\ board \in [Player -> Boards]
        /\ state \in [Player -> States] /\ board[o][sq] = Empty
    BY BeforeShot, StateTyped DEF Target
  <1>2. /\ board' = [board EXCEPT ![o][sq] = Miss] /\ UNCHANGED <<count, winner>>
        /\ state' = [state EXCEPT ![p] = STATE_IN_GAME, ![o] = STATE_IN_GAME_PLAYING]
    BY DEF FireMiss, PassTurn
  <1>3. k.sq = sq /\ k.status = Miss
    BY DEF ShotAt
  <1>4. board'[p] = board[p] /\ board'[o] = [board[o] EXCEPT ![sq] = Miss]
    BY <1>1, <1>2
  <1>5. state'[p] = STATE_IN_GAME /\ state'[o] = STATE_IN_GAME_PLAYING
    BY <1>1, <1>2
  <1> PICK b, sunk : b = board[o] /\ sunk = k.destroyed
    OBVIOUS
  <1>6. /\ Shot(b, sq, Miss, sunk) = [b EXCEPT ![sq] = Miss]
        /\ Shot(Masked(b), sq, Miss, sunk) = Masked([b EXCEPT ![sq] = Miss])
    BY <1>1, MissShown
  <1>7. Masked(board'[o]) = Shot(Masked(board[o]), k.sq, k.status, k.destroyed)
    BY <1>3, <1>4, <1>6
  <1> QED
    BY <1>1, <1>2, <1>3, <1>4, <1>5, <1>6, <1>7 DEF ShotTold

LEMMA HitDoes ==
  ASSUME MatchInv, NEW p \in Player, NEW o \in Player, o = Opponent(p),
         state[p] = STATE_IN_GAME_PLAYING, error' = OK, NEW sq \in Cells,
         Target(p, sq) \in ShipNumbers, FireHit(p, sq), NEW k, k = ShotAt(p, sq)
  PROVE  ShotTold(p, o, k)
  <1>1. /\ o # p /\ state[o] = STATE_IN_GAME /\ board \in [Player -> Boards]
        /\ Afloat(board[o], ships[o]) /\ winner = Undecided
        /\ state \in [Player -> States]
        /\ ships \in [Player -> [ShipNumbers -> ShipType]]
    BY BeforeShot, StateTyped
  <1> PICK b, f, s, n, m : /\ b = board[o] /\ f = ships[o] /\ s = b[sq]
                           /\ n = ShotFleet(f, s) /\ m = ShotBoard(b, f, s, sq)
    OBVIOUS
  <1>2. s \in ShipNumbers /\ s = Target(p, sq) /\ s # Empty
    BY BoardAssumption DEF Target, ShipNumbers, Empty
  <1>3. f \in [ShipNumbers -> ShipType] /\ n[s] = ship_hit(f[s])
    BY <1>1, <1>2 DEF ShotFleet
  <1>4. count \in [Player -> 0 .. AMOUNT_OF_SHIP]
    BY DEF MatchInv, TypeOK
  <1>5. /\ board' = [board EXCEPT ![o] = m]
        /\ count' = IF ship_destroyed(n[s]) THEN [count EXCEPT ![p] = count[p] + 1] ELSE count
    <2>1. CASE ship_destroyed(n[s])
      BY <1>2, <1>3, <2>1 DEF FireHit, ShotBoard, ShotFleet
    <2>2. CASE ~ship_destroyed(n[s])
      BY <1>2, <1>3, <2>2 DEF FireHit, ShotBoard, ShotFleet
    <2> QED
      BY <2>1, <2>2
  <1>6. k.sq = sq /\ k.status = Hit /\ k.destroyed \in BOOLEAN
        /\ (k.destroyed <=> count'[p] # count[p])
    BY <1>2 DEF ShotAt
  <1>7. count'[p] # count[p] <=> ship_destroyed(n[s])
    <2>1. count[p] \in Int /\ count[p] + 1 # count[p]
      BY <1>4, BoardAssumption
    <2>2. CASE ship_destroyed(n[s])
      BY <1>4, <1>5, <2>1, <2>2
    <2>3. CASE ~ship_destroyed(n[s])
      BY <1>5, <2>3
    <2> QED
      BY <2>2, <2>3
  <1>8. board'[p] = board[p] /\ board'[o] = m
    BY <1>1, <1>5
  <1> PICK sunk \in BOOLEAN : sunk = k.destroyed
    BY <1>6
  <1>9. Shot(b, sq, Hit, sunk) = m /\ Shot(Masked(b), sq, Hit, sunk) = Masked(m)
    <2>1. sunk <=> ship_destroyed(ShotFleet(f, s)[s])
      <3>1. sunk <=> ship_destroyed(n[s])
        BY <1>6, <1>7
      <3> QED
        BY <3>1
    <2>2. Afloat(b, f) /\ b[sq] = s
      BY <1>1
    <2> QED
      BY ONLY <1>2, <2>1, <2>2, HitShown, sq \in Cells, sunk \in BOOLEAN,
              m = ShotBoard(b, f, s, sq)
  <1>10. Masked(board'[o]) = Shot(Masked(board[o]), k.sq, k.status, k.destroyed)
    BY <1>6, <1>8, <1>9
  <1>11. IF count'[p] = AMOUNT_OF_SHIP THEN game_end(p) ELSE PassTurn(p) /\ UNCHANGED winner
    BY HitSteps
  <1>12. CASE game_end(p)
    <2>1. winner' # winner /\ state'[p] = STATE_IN_LOBBY /\ state'[o] = STATE_IN_LOBBY
      BY <1>1, <1>12, Players DEF game_end, Undecided
    <2> QED
      BY <1>1, <1>6, <1>8, <1>9, <1>10, <2>1 DEF ShotTold
  <1>13. CASE PassTurn(p) /\ UNCHANGED winner
    <2>1. state'[p] = STATE_IN_GAME /\ state'[o] = STATE_IN_GAME_PLAYING
      BY <1>1, <1>13 DEF PassTurn
    <2> QED
      BY <1>1, <1>6, <1>8, <1>9, <1>10, <1>13, <2>1 DEF ShotTold
  <1> QED
    BY <1>11, <1>12, <1>13

LEMMA FiresOut ==
  ASSUME MatchInv, NEW p \in Player, NEW o \in Player, o = Opponent(p),
         NEW sq \in Cells, cmd_game_fire(p, sq[1], sq[2]), NEW k, k = ShotAt(p, sq)
  PROVE  ShotTold(p, o, k)
  <1> PICK x, y : x = sq[1] /\ y = sq[2]
    OBVIOUS
  <1>1. sq = <<atoi(x), atoi(y)>>
    BY CoordsKept
  <1>2. CASE FireError(p, x, y) # OK
    <2>1. Refuse(FireError(p, x, y))
      BY <1>2 DEF cmd_game_fire
    <2> QED
      BY <1>2, <2>1 DEF Refuse, ShotTold
  <1>3. CASE FireError(p, x, y) = OK
    <2>1. state[p] = STATE_IN_GAME_PLAYING /\ Target(p, sq) \notin {Hit, Miss}
      BY <1>1, <1>3 DEF FireError, OK, ERROR_USER_STATE, ERROR_FORMAT,
         ERROR_OUT_OF_PLAY_FIELD, ERROR_ALREADY_HIT
    <2>2. Target(p, sq) \in ShipNumbers \cup {Empty, Hit, Miss}
      BY Players DEF MatchInv, TypeOK, Target
    <2>3. /\ error' = OK
          /\ IF Target(p, sq) = Empty THEN FireMiss(p, sq) ELSE FireHit(p, sq)
      BY <1>1, <1>3 DEF cmd_game_fire
    <2> QED
      BY <2>1, <2>2, <2>3, MissDoes, HitDoes
  <1> QED
    BY <1>2, <1>3

LEMMA Joined ==
  ASSUME NEW q \in Seq(Replies), NEW x \in Seq(Replies), NEW y \in Seq(Replies)
  PROVE  (q \o x) \o y = q \o (x \o y)
  BY ConcatAssociative

\* Of a shot that is not refused: what both are told, and what follows if it ends
\* the game.
FireTold(p, o, m, n, end) ==
  /\ m \in Replies /\ n \in Replies /\ end \in Seq(Replies)
  /\ \E out : Sent(out) /\ out[p] = <<m>> \o end /\ out[o] = <<n>> \o end

LEMMA FireTells ==
  ASSUME SysTypes, NEW p \in Player, NEW o \in Player, o = Opponent(p), ServeFire(p),
         NEW sq, sq = toServer[p][1].sq, error' = OK,
         NEW m, m = [type |-> "game_fire_ok", shot |-> ShotAt(p, sq)],
         NEW n, n = [type |-> "game_opp_fire", shot |-> ShotAt(p, sq)],
         NEW end, end = IF winner' # winner THEN <<Msg("game_end")>> ELSE <<>>
  PROVE  FireTold(p, o, m, n, end)
  <1> PICK k : k = ShotAt(p, sq)
    OBVIOUS
  <1> PICK r : r = toServer[p]
    OBVIOUS
  <1>1. /\ k \in ShotData
        /\ Sent([q \in Player |->
                   <<[type |-> IF q = p THEN "game_fire_ok" ELSE "game_opp_fire",
                      shot |-> k]>> \o end])
    <2>1. /\ ShotAt(p, r[1].sq) \in ShotData
          /\ Sent(IF error' = OK
                  THEN [q \in Player |->
                          <<[type |-> IF q = p THEN "game_fire_ok" ELSE "game_opp_fire",
                             shot |-> ShotAt(p, r[1].sq)]>>
                            \o (IF winner' # winner THEN <<Msg("game_end")>> ELSE <<>>)]
                  ELSE Only(p, <<Msg("game_fire_err")>>))
      BY FireDoes
    <2>2. k = ShotAt(p, r[1].sq)
      OBVIOUS
    <2> QED
      BY <2>1, <2>2
  <1>2. m \in Replies /\ n \in Replies
    BY <1>1 DEF Replies
  <1>3. end \in Seq(Replies)
    <2>1. <<Msg("game_end")>> \in Seq(Replies)
      BY PlainReplies
    <2>2. <<>> \in Seq(Replies)
      OBVIOUS
    <2> QED
      BY <2>1, <2>2
  <1> PICK out : out = [q \in Player |->
                          <<[type |-> IF q = p THEN "game_fire_ok" ELSE "game_opp_fire",
                             shot |-> k]>> \o end]
    OBVIOUS
  <1>4. out[p] = <<m>> \o end /\ out[o] = <<n>> \o end
    BY Players
  <1> QED
    BY <1>1, <1>2, <1>3, <1>4 DEF FireTold

LEMMA FireRows ==
  ASSUME SysTypes, \A p \in Player : Row(p), NEW p \in Player, ServeFire(p)
  PROVE  \A o \in Player : Row(o)'
  <1> PICK o, r, sq, k : /\ o = Opponent(p) /\ r = toServer[p] /\ sq = r[1].sq
                         /\ k = ShotAt(p, sq)
    OBVIOUS
  <1>0. STATE_IN_GAME_PREPARING \in Gaming /\ STATE_IN_GAME \in Gaming
        /\ STATE_IN_GAME_PLAYING \in Gaming
    BY DEF Gaming
  <1>1. /\ Request(p, "game_fire_req") /\ UNCHANGED connected
        /\ sq \in Cells /\ cmd_game_fire(p, sq[1], sq[2])
    BY FireDoes
  <1>2. o \in Player /\ o # p /\ p = Opponent(o) /\ \A q \in Player : q = p \/ q = o
    BY Players
  <1>3. ShotTold(p, o, k)
    BY <1>1, <1>2, FiresOut DEF SysTypes
  <1>4. /\ up[p] => connected[p]
        /\ Live(p) => Was(p)
        /\ r \in Seq(Requests) /\ r # <<>> /\ r[1].type = "game_fire_req"
        /\ toClient[p] \in Seq(Replies) /\ client[p] \in Clients
        /\ client' = client /\ up' = up /\ \A i \in Player \ {p} : toServer'[i] = toServer[i]
    BY <1>1, ServedFacts
  <1>5. /\ connected'[p] = connected[p] /\ connected[p] \in BOOLEAN
        /\ connected'[o] = connected[o] /\ toClient[o] \in Seq(Replies) /\ client[o] \in Clients
        /\ toServer'[o] = toServer[o]
    BY <1>1, <1>2, <1>4 DEF SysTypes, LineTypeOK, ClientTypeOK
  <1> PICK c, q, st, b, e : /\ c = client[p] /\ q = toClient[p]
                            /\ st = state[p] /\ b = board[p] /\ e = Masked(board[o])
    OBVIOUS
  <1> PICK d, z, t, a, f : /\ d = client[o] /\ z = toServer[o] /\ t = toClient[o]
                           /\ a = board[o] /\ f = Masked(board[p])
    OBVIOUS
  <1> PICK s : s = Tail(r)
    OBVIOUS
  <1>6. CASE error' # OK
    <2> PICK m, x : m = Msg("game_fire_err") /\ x = <<m>>
      OBVIOUS
    <2> PICK out : out = Only(p, x)
      OBVIOUS
    <2>1. UNCHANGED <<state, board>>
      BY <1>3, <1>6 DEF ShotTold
    <2>2. m \in Replies /\ m.type = "game_fire_err" /\ x \in Seq(Replies) /\ ~Told(x, "eof")
      <3>1. m \in Replies /\ m.type = "game_fire_err"
        BY PlainReplies
      <3> QED
        BY <3>1, NoEof
    <2>3. Sent(out)
      BY <1>6, FireDoes
    <2>4. out[p] = x /\ out[o] = <<>>
      <3>1. p \in Player /\ o \in Player /\ o # p /\ out = Only(p, x)
        BY <1>2
      <3> QED
        BY ONLY <3>1 DEF Only
    <2>5. ASSUME up[p], client[p].reader = "running"
          PROVE  Now(p, Tail(toServer[p]), toClient[p] \o x)
      <3>1. InStep(c, r, q, st, b, e)
        BY <1>4, <2>5 DEF Live, Was
      <3>2. q \o x = Append(q, m)
        BY <1>4, <2>2, Joins
      <3>3. CASE st \in Gaming
        <4>1. Playing(c, r, q, st, b, e)
          BY <3>1, <3>3 DEF InStep
        <4>2. c \in Clients /\ r \in Seq(Requests) /\ r # <<>> /\ r[1].type = "game_fire_req"
          BY <1>4
        <4>3. q = <<>> /\ st = STATE_IN_GAME_PLAYING
          BY <4>1, <4>2, OrderAlone
        <4>4. q \o x = x
          BY <2>2, <4>3, Joins
        <4>5. Playing(c, s, x, STATE_IN_GAME_PLAYING, b, e)
          BY <2>2, <4>1, <4>2, FirePlays
        <4>6. InStep(c, s, q \o x, st, b, e)
          BY <3>3, <4>3, <4>4, <4>5 DEF InStep
        <4> QED
          BY <2>1, <4>6 DEF Now
      <3>4. CASE st \notin Gaming
        <4>1. Ended(c, q)
          BY <3>1, <3>4 DEF InStep
        <4>2. Ended(c, q \o x)
          BY <1>4, <2>2, <3>2, <4>1, EndedMore DEF Errs
        <4>3. InStep(c, s, q \o x, st, b, e)
          BY <3>4, <4>2 DEF InStep
        <4> QED
          BY <2>1, <4>3 DEF Now
      <3> QED
        BY <3>3, <3>4
    <2>6. toClient'[p] = IF connected'[p] /\ up[p] THEN toClient[p] \o x ELSE toClient[p]
      BY <2>3, <2>4, SentTo
    <2>7. Row(p)'
      BY <1>1, <1>5, <2>2, <2>5, <2>6, ServedRow
    <2>8. board'[Opponent(o)] = board[Opponent(o)] /\ board'[o] = board[o] /\ state'[o] = state[o]
      BY <2>1
    <2>9. Row(o)'
      BY <1>2, <1>4, <1>5, <2>3, <2>4, <2>8, NotTold
    <2> QED
      BY <1>2, <2>7, <2>9
  <1>7. CASE error' = OK
    <2> PICK m, n : /\ m = [type |-> "game_fire_ok", shot |-> k]
                    /\ n = [type |-> "game_opp_fire", shot |-> k]
      OBVIOUS
    <2> PICK end : end = IF winner' # winner THEN <<Msg("game_end")>> ELSE <<>>
      OBVIOUS
    <2>1. /\ m \in Replies /\ n \in Replies /\ end \in Seq(Replies)
          /\ \E out : Sent(out) /\ out[p] = <<m>> \o end /\ out[o] = <<n>> \o end
      <3>1. m = [type |-> "game_fire_ok", shot |-> ShotAt(p, sq)]
        OBVIOUS
      <3>2. n = [type |-> "game_opp_fire", shot |-> ShotAt(p, sq)]
        OBVIOUS
      <3>3. sq = toServer[p][1].sq /\ o = Opponent(p)
        OBVIOUS
      <3>4. FireTold(p, o, m, n, end)
        BY ONLY <1>2, <1>7, <3>1, <3>2, <3>3, FireTells, SysTypes, p \in Player, ServeFire(p),
                end = IF winner' # winner THEN <<Msg("game_end")>> ELSE <<>>
      <3> QED
        BY <3>4 DEF FireTold
    <2>2. PICK out : Sent(out) /\ out[p] = <<m>> \o end /\ out[o] = <<n>> \o end
      BY <2>1
    <2> PICK x, y : x = <<m>> \o end /\ y = <<n>> \o end
      OBVIOUS
    <2>3. /\ toClient'[p] = IF connected'[p] /\ up[p] THEN toClient[p] \o x ELSE toClient[p]
          /\ toClient'[o] = IF connected'[o] /\ up[o] THEN toClient[o] \o y ELSE toClient[o]
      <3>1. toClient'[p] = IF connected'[p] /\ up[p] THEN toClient[p] \o out[p] ELSE toClient[p]
        BY <2>2, SentTo
      <3>2. toClient'[o] = IF connected'[o] /\ up[o] THEN toClient[o] \o out[o] ELSE toClient[o]
        BY <1>2, <2>2, SentTo
      <3> QED
        BY <2>2, <3>1, <3>2
    <2>4. <<m>> \in Seq(Replies) /\ <<n>> \in Seq(Replies)
      BY <2>1
    <2>5. /\ x \in Seq(Replies) /\ ~Told(x, "eof")
          /\ y \in Seq(Replies) /\ ~Told(y, "eof")
      <3>1. ~Told(<<m>>, "eof") /\ ~Told(<<n>>, "eof") /\ ~Told(end, "eof")
        <4>1. m.type # "eof" /\ n.type # "eof" /\ Msg("game_end").type # "eof"
          BY DEF Msg
        <4> QED
          BY <4>1, NoEof
      <3>2. x \in Seq(Replies) /\ y \in Seq(Replies)
        BY <2>1, <2>4, ConcatProperties
      <3> QED
        <4> PICK v, w : v = <<m>> /\ w = <<n>>
          OBVIOUS
        <4>1. v \in Seq(Replies) /\ w \in Seq(Replies) /\ end \in Seq(Replies)
          BY <2>1, <2>4
        <4>2. ~Told(v, "eof") /\ ~Told(w, "eof") /\ ~Told(end, "eof")
          BY <3>1
        <4>3. ~Told(v \o end, "eof") /\ ~Told(w \o end, "eof")
          BY ONLY <4>1, <4>2, ToldJoined
        <4> QED
          BY <3>2, <4>3
    <2>6. /\ state[p] = STATE_IN_GAME_PLAYING /\ state[o] = STATE_IN_GAME
          /\ Masked(board'[p]) = f /\ board'[p] = b
          /\ board'[o] = Shot(a, k.sq, k.status, k.destroyed)
          /\ Masked(board'[o]) = Shot(e, k.sq, k.status, k.destroyed)
          /\ \/ winner' # winner /\ state'[p] = STATE_IN_LOBBY /\ state'[o] = STATE_IN_LOBBY
             \/ winner' = winner /\ state'[p] = STATE_IN_GAME /\ state'[o] = STATE_IN_GAME_PLAYING
      BY <1>3, <1>7 DEF ShotTold
    <2>7. ASSUME up[p], client[p].reader = "running"
          PROVE  Now(p, Tail(toServer[p]), toClient[p] \o x)
      <3>1. CASE winner' # winner
        <4>1. end = <<Msg("game_end")>> /\ state'[p] = STATE_IN_LOBBY
          BY <2>6, <3>1
        <4>2. q \o <<m>> \in Seq(Replies) /\ q \o x = (q \o <<m>>) \o end
          <5> PICK w : w = <<m>>
            OBVIOUS
          <5>1. w \in Seq(Replies) /\ q \in Seq(Replies) /\ end \in Seq(Replies)
            BY <1>4, <2>1, <2>4
          <5>2. q \o w \in Seq(Replies)
            BY <5>1, ConcatProperties
          <5>3. (q \o w) \o end = q \o (w \o end)
            BY ONLY <5>1, Joined
          <5> QED
            BY <5>2, <5>3
        <4> QED
          BY <1>4, <4>1, <4>2, EndedNow
      <3>2. CASE winner' = winner
        <4>1. end = <<>> /\ state'[p] = STATE_IN_GAME
          BY <1>0, <2>6, <3>2
        <4>2. x = <<m>>
          BY <2>4, <4>1, Joins
        <4>3. InStep(c, r, q, st, b, e)
          BY <1>4, <2>7 DEF Live, Was
        <4>4. Playing(c, r, q, st, b, e)
          BY <1>0, <2>6, <4>3 DEF InStep
        <4>5. c \in Clients /\ r \in Seq(Requests) /\ r # <<>> /\ r[1].type = "game_fire_req"
          BY <1>4
        <4>6. q = <<>>
          BY <4>4, <4>5, OrderAlone
        <4>7. q \o x = x
          BY <2>5, <4>6, Joins
        <4> PICK g : g = Shot(e, m.shot.sq, m.shot.status, m.shot.destroyed)
          OBVIOUS
        <4>8. Playing(c, s, x, STATE_IN_GAME, b, g)
          <5>1. m \in Replies /\ m.type = "game_fire_ok"
            BY <2>1
          <5> QED
            BY ONLY <4>2, <4>4, <4>5, <5>1, FirePlays, s = Tail(r),
                    g = Shot(e, m.shot.sq, m.shot.status, m.shot.destroyed)
        <4>9. Masked(board'[o]) = g
          BY <2>6
        <4>10. InStep(c, s, q \o x, state'[p], b, g)
          BY <1>0, <4>1, <4>7, <4>8 DEF InStep
        <4> QED
          BY <2>6, <4>9, <4>10 DEF Now
      <3> QED
        BY <3>1, <3>2
    <2>8. Row(p)'
      BY <1>1, <1>5, <2>3, <2>5, <2>7, ServedRow
    <2>9. ASSUME Live(o), Was(o) PROVE Now(o, toServer[o], toClient[o] \o y)
      <3>1. CASE winner' # winner
        <4>1. end = <<Msg("game_end")>> /\ state'[o] = STATE_IN_LOBBY
          BY <2>6, <3>1
        <4>2. t \o <<n>> \in Seq(Replies) /\ t \o y = (t \o <<n>>) \o end
          <5> PICK w : w = <<n>>
            OBVIOUS
          <5>1. w \in Seq(Replies) /\ t \in Seq(Replies) /\ end \in Seq(Replies)
            BY <1>5, <2>1, <2>4
          <5>2. t \o w \in Seq(Replies)
            BY <5>1, ConcatProperties
          <5>3. (t \o w) \o end = t \o (w \o end)
            BY ONLY <5>1, Joined
          <5> QED
            BY <5>2, <5>3
        <4> QED
          BY <1>2, <1>5, <4>1, <4>2, EndedNow
      <3>2. CASE winner' = winner
        <4>1. end = <<>> /\ state'[o] = STATE_IN_GAME_PLAYING
          BY <2>6, <3>2
        <4>2. y = <<n>>
          BY <2>4, <4>1, Joins
        <4>3. InStep(d, z, t, state[o], a, f)
          BY <1>2, <2>9 DEF Was
        <4>4. Playing(d, z, t, STATE_IN_GAME, a, f)
          BY <1>0, <2>6, <4>3 DEF InStep
        <4>5. t \o y = Append(t, n)
          <5>1. t \o <<n>> = Append(t, n)
            BY <1>5, <2>1, Joins
          <5> QED
            BY <4>2, <5>1
        <4> PICK g : g = After([View(d) EXCEPT !.my = a], n).my
          OBVIOUS
        <4>6. g = Shot(a, k.sq, k.status, k.destroyed)
          BY DEF After, View
        <4>7. Playing(d, z, t \o y, STATE_IN_GAME_PLAYING, g, f)
          <5>1. n \in Replies /\ n.type \in Passes /\ d \in Clients /\ t \in Seq(Replies)
            BY <1>5, <2>1 DEF Passes
          <5> QED
            BY ONLY <4>4, <4>5, <5>1, TurnPasses,
                    g = After([View(d) EXCEPT !.my = a], n).my
        <4>8. InStep(d, z, t \o y, state'[o], board'[o], f)
          BY <1>0, <2>6, <4>1, <4>6, <4>7 DEF InStep
        <4>9. Masked(board'[Opponent(o)]) = f
          BY <1>2, <2>6
        <4> QED
          BY <4>8, <4>9 DEF Now
      <3> QED
        BY <3>1, <3>2
    <2>10. Row(o)'
      BY <1>2, <1>4, <1>5, <2>3, <2>5, <2>9, OtherRow
    <2> QED
      BY <1>2, <2>8, <2>10
  <1> QED
    BY <1>6, <1>7

-----------------------------------------------------------------------------
(* The inductive invariant holds *)

LEMMA ServeRows ==
  ASSUME SysTypes, \A p \in Player : Row(p), NEW p \in Player, Serve(p)
  PROVE  \A o \in Player : Row(o)'
  <1>1. CASE ServeLogin(p)
    BY <1>1, LoginRows
  <1>2. CASE ServePrepared(p)
    BY <1>2, PreparedRows
  <1>3. CASE ServeFire(p)
    BY <1>3, FireRows
  <1>4. CASE ServeInfo(p)
    BY <1>4, InfoRows
  <1>5. CASE ServeLeave(p)
    BY <1>5, LeaveRows
  <1>6. CASE ServeEof(p)
    BY <1>6, EofRows
  <1> QED
    BY <1>1, <1>2, <1>3, <1>4, <1>5, <1>6 DEF Serve

LEMMA StepKeepsRows ==
  ASSUME SysTypes, Prompt, Patient, \A p \in Player : Row(p), [SysNext]_sysVars
  PROVE  \A o \in Player : Row(o)'
  <1>1. CASE UNCHANGED sysVars
    <2>1. /\ client' = client /\ toServer' = toServer /\ toClient' = toClient /\ up' = up
          /\ connected' = connected /\ state' = state /\ board' = board
      BY <1>1 DEF sysVars, matchVars, vars, netVars
    <2>2. ASSUME NEW o \in Player PROVE Row(o)'
      BY <2>1, RowStays
    <2> QED
      BY <2>2
  <1>2. CASE SysNext
    <2>1. PICK p \in Player : \/ Serve(p) \/ Read(p) \/ Acts(p) \/ connect(p)
                              \/ Loss(p) \/ Crash(p)
      BY <1>2, StepSplits
    <2>2. CASE Serve(p)
      BY <2>2, ServeRows
    <2>3. CASE Read(p)
      BY <2>3, ReadRows
    <2>4. CASE Acts(p)
      BY <2>4, ActRows
    <2>5. CASE connect(p) \/ Loss(p) \/ Crash(p)
      BY <2>5, LineRows
    <2> QED
      BY <2>1, <2>2, <2>3, <2>4, <2>5
  <1> QED
    BY <1>1, <1>2

LEMMA PlayedUnshot ==
  ASSUME MatchInv, Unshot, Played \/ UNCHANGED vars
  PROVE  Unshot'
  <1> USE DEF STATE_IN_LOBBY, STATE_IN_GAME_PREPARING, STATE_IN_GAME, STATE_IN_GAME_PLAYING
  <1>1. (\A p \in Player : state'[p] # STATE_IN_GAME_PREPARING) => Unshot'
    BY DEF Unshot
  <1>2. UNCHANGED <<state, board>> => Unshot'
    BY DEF Unshot
  <1>3. ASSUME NEW p \in Player, NEW lay \in Seq(Int), cmd_game_prepared(p, lay)
        PROVE  Unshot'
    <2> PICK o : o = Opponent(p)
      OBVIOUS
    <2>1. o \in Player /\ \A q \in Player : q = p \/ q = o
      BY Players
    <2>2. CASE state[p] # STATE_IN_GAME_PREPARING
      <3>1. UNCHANGED <<state, board>>
        BY <1>3, <2>2 DEF cmd_game_prepared, Refuse
      <3> QED
        BY <1>2, <3>1
    <2>3. CASE state[p] = STATE_IN_GAME_PREPARING
      <3>1. Laid(p, o, lay)
        BY <1>3, <2>1, LaysOut
      <3>2. board'[p] \in Sketches /\ board'[o] = board[o]
        BY <2>3, <3>1 DEF Laid
      <3>3. board[o] \in Sketches
        BY <2>1, <2>3 DEF Unshot
      <3>4. \A q \in Player : board'[q] \in Sketches
        BY <2>1, <3>2, <3>3
      <3> QED
        BY <3>4 DEF Unshot
    <2> QED
      BY <2>2, <2>3
  <1>4. ASSUME \E p : game_end(p) PROVE Unshot'
    BY <1>1, <1>4 DEF game_end
  <1>5. ASSUME NEW p \in Player, state[p] = STATE_IN_GAME_PLAYING, PassTurn(p) PROVE Unshot'
    <2> PICK o : o = Opponent(p)
      OBVIOUS
    <2>1. o \in Player /\ \A q \in Player : q = p \/ q = o
      BY Players
    <2>2. state \in [Player -> States]
      BY StateTyped
    <2>3. state' = [state EXCEPT ![p] = STATE_IN_GAME, ![o] = STATE_IN_GAME_PLAYING]
      BY <1>5 DEF PassTurn
    <2>4. \A q \in Player : state'[q] # STATE_IN_GAME_PREPARING
      BY <2>1, <2>2, <2>3
    <2> QED
      BY <1>1, <2>4
  <1>6. ASSUME NEW p \in Player, NEW x, NEW y, cmd_game_fire(p, x, y)
        PROVE  Unshot'
    <2>1. \/ \E e : e # ERROR_INTERNAL /\ Refuse(e)
          \/ /\ state[p] = STATE_IN_GAME_PLAYING /\ error' = OK
             /\ \E sq \in Cells :
                  \/ Target(p, sq) = Empty /\ FireMiss(p, sq)
                  \/ Target(p, sq) \in ShipNumbers /\ FireHit(p, sq)
      BY <1>6, FireSteps
    <2>2. CASE \E e : Refuse(e)
      BY <1>2, <2>2 DEF Refuse
    <2>3. ASSUME state[p] = STATE_IN_GAME_PLAYING, NEW sq \in Cells, FireMiss(p, sq)
          PROVE  Unshot'
      BY <1>5, <2>3 DEF FireMiss
    <2>4. ASSUME state[p] = STATE_IN_GAME_PLAYING, NEW sq \in Cells,
                 Target(p, sq) \in ShipNumbers, FireHit(p, sq)
          PROVE  Unshot'
      <3> PICK o : o = Opponent(p)
        OBVIOUS
      <3>1. o \in Player
        BY Players
      <3>2. IF count'[p] = AMOUNT_OF_SHIP THEN game_end(p) ELSE PassTurn(p) /\ UNCHANGED winner
        BY <2>4, <3>1, HitSteps
      <3> QED
        BY <1>4, <1>5, <2>4, <3>2
    <2> QED
      BY <2>1, <2>2, <2>3, <2>4
  <1>7. ASSUME NEW p \in Player, Leave(p) PROVE Unshot'
    BY <1>4, <1>7 DEF Leave
  <1>8. CASE BothLost
    BY <1>4, <1>8 DEF BothLost
  <1>9. CASE UNCHANGED vars
    BY <1>2, <1>9 DEF vars
  <1> QED
    BY <1>3, <1>6, <1>7, <1>8, <1>9 DEF Played

\* A game begins: game_conn is on its way.
LEMMA StartAgrees ==
  ASSUME NEW c, c.scene = "ROOM", c.window = <<>>, c.reader = "running",
         NEW q, q = <<Msg("game_conn")>>, NEW b
  PROVE  Agrees(c, <<>>, q, TRUE, TRUE, STATE_IN_GAME_PREPARING, b, Blank)
  <1> PICK m, st : m = Msg("game_conn") /\ st = STATE_IN_GAME_PREPARING
    OBVIOUS
  <1>1. m.type = "game_conn" /\ Len(q) = 1 /\ DOMAIN q = {1} /\ q[1] = m /\ q # <<>>
        /\ DOMAIN <<>> = {}
    BY DEF Msg
  <1>2. ~Pending(c, "resume") /\ ~Pending(c, "setGameStatus")
    BY DEF Pending
  <1>3. \A type : ~Asked(<<>>, type)
    BY <1>1 DEF Asked
  <1>4. ~Told(q, "game_end") /\ ~Told(q, "login_ok") /\ ~Told(q, "eof")
    BY <1>1 DEF Told
  <1>5. Opening(c, <<>>, q, st)
    BY <1>1, <1>2, <1>3, <1>4 DEF Opening
  <1>6. Ordered(c, <<>>, q, st)
    BY <1>1, <1>3 DEF Ordered
  <1>7. Sketching(c, q, st)
    BY <1>1, <1>2 DEF Sketching
  <1>8. Final(View(c), q) = After(View(c), m)
    BY <1>1 DEF Final
  <1>9. /\ Final(View(c), q).scene = "GAME" /\ Final(View(c), q).enemy = Blank
        /\ Final(View(c), q).status = Status(st)
    BY <1>1, <1>8, StatusIs DEF After
  <1>10. Waits(View(c), q)
    BY <1>1 DEF Waits, Moves
  <1>11. Playing(c, <<>>, q, st, b, Blank)
    BY <1>1, <1>4, <1>5, <1>6, <1>7, <1>9, <1>10 DEF Playing, Faithful
  <1>12. InStep(c, <<>>, q, st, b, Blank)
    BY <1>11 DEF InStep, Gaming
  <1>13. Lines(c, <<>>, q, TRUE, TRUE)
    BY <1>3, <1>4 DEF Lines
  <1> QED
    BY <1>12, <1>13 DEF Agrees

LEMMA SysInitInv == SysInit => SysInv
  <1> SUFFICES ASSUME SysInit PROVE SysInv
    OBVIOUS
  <1>1. SysTypes
    BY SysInitTypes
  <1>2. /\ state = [p \in Player |-> STATE_IN_GAME_PREPARING]
        /\ board = [p \in Player |-> [c \in Cells |-> Empty]]
        /\ connected = [p \in Player |-> TRUE] /\ up = [p \in Player |-> TRUE]
        /\ toServer = [p \in Player |-> <<>>]
        /\ toClient = [p \in Player |-> <<Msg("game_conn")>>]
        /\ client = [p \in Player |-> [Started EXCEPT !.scene = "ROOM", !.model = TRUE,
                                                      !.reader = "running"]]
    BY DEF SysInit, Init
  <1>3. \A p \in Player : board[p] \in Sketches
    BY <1>2 DEF Sketches
  <1>4. ASSUME NEW p \in Player PROVE Row(p)
    <2> PICK c : c = client[p]
      OBVIOUS
    <2>1. c.scene = "ROOM" /\ c.window = <<>> /\ c.reader = "running"
      BY <1>2 DEF Started
    <2>2. Masked(board[Opponent(p)]) = Blank
      BY <1>3, Players, SketchMasked
    <2>3. Agrees(c, <<>>, <<Msg("game_conn")>>, TRUE, TRUE, STATE_IN_GAME_PREPARING,
                 board[p], Blank)
      BY <2>1, StartAgrees
    <2> QED
      BY <1>2, <2>2, <2>3 DEF Row
  <1> QED
    BY <1>1, <1>3, <1>4 DEF SysInv, Unshot, AllAgree, Row

LEMMA SysStepInv == SysInv /\ [SysNext]_sysVars => SysInv'
  <1> SUFFICES ASSUME SysInv, [SysNext]_sysVars PROVE SysInv'
    OBVIOUS
  <1>1. SysTypes /\ SysTypes'
    BY SysStepTypes DEF SysInv
  <1>2. ASSUME Prompt, Patient PROVE Unshot' /\ AllAgree'
    <2>1. Unshot /\ \A p \in Player : Row(p)
      BY <1>2 DEF SysInv, AllAgree, Row
    <2>2. Played \/ UNCHANGED vars
      BY <1>1, SysStepPlays
    <2>3. Unshot'
      BY <1>1, <2>1, <2>2, PlayedUnshot DEF SysTypes
    <2>4. \A o \in Player : Row(o)'
      BY <1>1, <1>2, <2>1, StepKeepsRows
    <2>5. AllAgree'
      BY <2>4 DEF AllAgree, Row
    <2> QED
      BY <2>3, <2>5
  <1> QED
    BY <1>1, <1>2 DEF SysInv

\* Of a client that has seen everything the rest is read off its row.
LEMMA QuietAgrees ==
  ASSUME NEW p \in Player, Row(p), Quiet(p)
  PROVE  /\ client[p].scene = "GAME" <=> InGame(p)
         /\ InGame(p) => /\ client[p].gameStatus = Status(state[p])
                         /\ Prepared(p) => client[p].myBoard = board[p]
                         /\ client[p].enemyBoard = Masked(board[Opponent(p)])
  <1> PICK c, st, b, e : /\ c = client[p] /\ st = state[p] /\ b = board[p]
                         /\ e = Masked(board[Opponent(p)])
    OBVIOUS
  <1>1. c.window = <<>> /\ InStep(c, <<>>, <<>>, st, b, e)
    BY DEF Row, Agrees, Quiet
  <1>2. /\ SceneOf(c) = c.scene /\ StatusOf(c) = c.gameStatus
        /\ Final(View(c), <<>>) = View(c)
    BY <1>1 DEF SceneOf, StatusOf, Final
  <1>3. InGame(p) <=> st \in Gaming
    BY DEF InGame, Gaming
  <1>4. CASE st \in Gaming
    <2>1. Playing(c, <<>>, <<>>, st, b, e)
      BY <1>1, <1>4 DEF InStep
    <2>2. \A type : ~Asked(<<>>, type) /\ ~Told(<<>>, type)
      BY DEF Asked, Told
    <2>3. ~InfoDue(c, <<>>, <<>>)
      BY <1>1, <2>2 DEF InfoDue, Pending
    <2>4. Faithful(c, <<>>, <<>>, st, b, e)
      BY <2>1, <2>3 DEF Playing
    <2>5. /\ c.gameStatus = Status(st) /\ c.enemyBoard = e
          /\ st # STATE_IN_GAME_PREPARING => c.myBoard = b
      BY <1>2, <2>2, <2>4, ViewIs DEF Faithful
    <2>6. c.scene = "GAME"
      BY <1>2, <2>1, ViewIs DEF Playing
    <2>7. Prepared(p) => st # STATE_IN_GAME_PREPARING
      BY DEF Prepared, STATE_IN_GAME, STATE_IN_GAME_PREPARING, STATE_IN_GAME_PLAYING
    <2> QED
      BY <1>3, <1>4, <2>5, <2>6, <2>7
  <1>5. CASE st \notin Gaming
    <2>1. Ended(c, <<>>)
      BY <1>1, <1>5 DEF InStep
    <2>2. c.scene # "GAME"
      BY <1>2, <2>1 DEF Ended
    <2> QED
      BY <1>3, <1>5, <2>2
  <1> QED
    BY <1>4, <1>5

\* The types; and, when the window thread keeps up and users wait for answers, the
\* row of each player: what is on its way to a client makes of it what the server
\* has, whatever connections are lost and clients restarted.
THEOREM SystemInvariant == SysSpec => []SysInv
  BY SysInitInv, SysStepInv, PTL DEF SysSpec

\* The clients are in step with the server at every moment, also while messages are
\* on their way, and after every loss of a connection and every restart of a client.
THEOREM ClientsInStep == SysSpec => [](Prompt /\ Patient => AllAgree)
  BY SystemInvariant, PTL DEF SysInv

\* A client that has read all that was sent to it, also one that has connected again
\* in the middle of a shot, shows its own board as the server has it, and of the
\* opponent's what has been opened and nothing else.
THEOREM ClientsShowTheBoards == SysSpec => [](Prompt /\ Patient => BoardsAgree)
  <1>1. SysInv => (Prompt /\ Patient => BoardsAgree)
    <2> SUFFICES ASSUME SysInv, Prompt, Patient PROVE BoardsAgree
      OBVIOUS
    <2>1. \A p \in Player : Row(p)
      BY DEF SysInv, AllAgree, Row
    <2> QED
      BY <2>1, QuietAgrees DEF BoardsAgree
  <1> QED
    BY <1>1, SystemInvariant, PTL

\* It is in the scene of the game exactly while the server has it in a game, and
\* lets its user do what the server expects: prepare, fire or wait.
THEOREM ClientsShowTheTurn == SysSpec => [](Prompt /\ Patient => TurnAgrees)
  <1>1. SysInv => (Prompt /\ Patient => TurnAgrees)
    <2> SUFFICES ASSUME SysInv, Prompt, Patient PROVE TurnAgrees
      OBVIOUS
    <2>1. \A p \in Player : Row(p)
      BY DEF SysInv, AllAgree, Row
    <2> QED
      BY <2>1, QuietAgrees DEF TurnAgrees
  <1> QED
    BY <1>1, SystemInvariant, PTL
=============================================================================
