----------------------------- MODULE MCHashMap -----------------------------
(* Four names and two structs in a table of two chains: three of the names  *)
(* collide.                                                                 *)
EXTENDS HashMap, TLC

CONSTANTS ann, bob, cid, dan, c1, c2

MCKeys == {ann, bob, cid, dan}
MCData == {c1, c2}
MCHash == [k \in MCKeys |-> IF k = dan THEN 1 ELSE 0]
=============================================================================
