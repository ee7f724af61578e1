------------------------------ MODULE MCSystem ------------------------------
(* A board of 3x3 with two ships of one square: a game that two hits end. *)
EXTENDS Agreement, TLC

MCShipLength == 0 :> 1 @@ 1 :> 1

Corners == << 0, -1, -1,
            -1, -1, -1,
            -1,  1, -1>>
MCFleets == {Corners}
MCClicks == {<<0, 0>>, <<1, 2>>}
MCNone   == {}

\* Without what nothing reads any more: the error of the last reply, and once the
\* game has ended the boards of both sides and what messages say of them.  (The
\* comparison makes TLC compute the functions that it has put off.)
MCView ==
  LET Name(message) == IF message.type = "login_ok" THEN message ELSE message.type
      Seen(queues)  == [p \in Player |-> [i \in DOMAIN queues[p] |-> Name(queues[p][i])]]
      Boardless(c)  == [c EXCEPT !.myBoard = Blank, !.enemyBoard = Blank]
  IN IF winner = Undecided
     THEN << state, board, ships, count, winner, netVars, client, losses >>
     ELSE << sysVars = sysVars, state, winner, connected, up, losses,
             Seen(toServer), Seen(toClient), [p \in Player |-> Boardless(client[p])] >>
=============================================================================
