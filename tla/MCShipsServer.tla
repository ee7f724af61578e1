--------------------------- MODULE MCShipsServer ---------------------------
(* Small instances of ShipsServer for TLC. *)
EXTENDS ShipsServer, TLC

CONSTANTS c1, c2, c3, c4, f1, f2, f3, ann, bob, cid, g1, g2

MCClients3 == {c1, c2, c3}
MCClients4 == {c1, c2, c3, c4}
MCFds2     == {f1, f2}
MCFds3     == {f1, f2, f3}
MCNames2   == {ann, bob}
MCNames3   == {ann, bob, cid}
MCGames1   == {g1}
MCGames2   == {g1, g2}

MCSymmetry == Permutations(Clients) \cup Permutations(Fds)
                \cup Permutations(Names) \cup Permutations(Games)
\* What the server can still read: nothing of a leaked struct, no playerNum
\* outside a game (game start sets it), no invalid_count of a lost connection
\* (login_req clears it), no entry of a closed socket (accept sets it).  TLC
\* merges states that differ in the rest only.
MCView ==
  << open, hungup, [f \in open |-> clients[f]], players, player1, player2,
     roomState, roomId, rooms, s_curr_players, s_curr_rooms,
     [c \in {d \in Clients : Registered(d) \/ Online(d)} |->
        << fd[c], name[c], state[c], game[c], connected[c], told[c], toldOpp[c],
           IF InGame(state[c]) THEN playerNum[c] ELSE 0,
           IF connected[c] THEN invalid_count[c] ELSE 0 >>] >>
=============================================================================
