------------------------------ MODULE RoomPool ------------------------------
(* What the list of rooms promises to the server: a room gets an id that no  *)
(* other room has, keeps it, and is found under it until it is destroyed.    *)
CONSTANTS Ids, Games, NULL

VARIABLE room     \* id -> the room listed under it

Init == room = [i \in Ids |-> NULL]

Listed(g) == \E i \in Ids : room[i] = g

Create(g) ==
  /\ ~Listed(g)
  /\ \E i \in Ids : room[i] = NULL /\ room' = [room EXCEPT ![i] = g]

Destroy(g) ==
  \E i \in Ids : room[i] = g /\ room' = [room EXCEPT ![i] = NULL]

Next == \E g \in Games : Create(g) \/ Destroy(g)

Spec == Init /\ [][Next]_room
=============================================================================
