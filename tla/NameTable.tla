----------------------------- MODULE NameTable -----------------------------
(* What the table of players promises to the server: under a name, the struct *)
(* that was put there last, until it is removed.                              *)
CONSTANTS Keys, Data, NULL

VARIABLE players     \* ShipsServer has the same function

Init == players = [k \in Keys |-> NULL]

Put(k, d) == players' = [players EXCEPT ![k] = d]
Remove(k) == players' = [players EXCEPT ![k] = NULL]

Next == \E k \in Keys : Remove(k) \/ \E d \in Data : Put(k, d)

Spec == Init /\ [][Next]_players
=============================================================================
