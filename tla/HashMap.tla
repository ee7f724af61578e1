------------------------------ MODULE HashMap ------------------------------
(***************************************************************************)
(* structures/hashmap.c as the server uses it: server->players, from the   *)
(* name of a player to its struct client.  cmd_login gets and puts,        *)
(* cmd_logout removes, and ht_destroy, when the server ends, walks through *)
(* the table with an iterator and removes every element it is given.       *)
(*                                                                         *)
(* A chain of elements is a sequence.  Which names collide is a parameter: *)
(* ht_calc_hash never looks at the first character and so lets many do.    *)
(***************************************************************************)
EXTENDS Integers, FiniteSets, SequencesExt

CONSTANTS
  Keys, Data,
  NULL,
  capacity,
  hash           \* ht_calc_hash(key) % capacity

Buckets == 0 .. (capacity - 1)

ASSUME HashAssumption ==
  /\ capacity \in Nat \ {0} /\ hash \in [Keys -> Buckets]
  /\ NULL \notin Keys \cup Data

VARIABLES
  table, e_num,
  it             \* the hash_elem_it of ht_clear; Idle before, Done after it

vars == <<table, e_num, it>>

Idle == [index |-> -1, elem |-> NULL]
Done == [index |-> capacity, elem |-> NULL]

-----------------------------------------------------------------------------
Init ==
  /\ table = [b \in Buckets |-> <<>>]
  /\ e_num = 0
  /\ it = Idle

\* The element that a walk along a chain finds first, 0 if there is none.
Find(chain, key) ==
  LET hits == {i \in DOMAIN chain : chain[i].key = key}
  IN IF hits = {} THEN 0 ELSE CHOOSE i \in hits : \A j \in hits : i <= j

ht_get(key) ==
  LET chain == table[hash[key]]
  IN IF Find(chain, key) = 0 THEN NULL ELSE chain[Find(chain, key)].data

\* Mutant: an element with the key is not looked for.
PutAlways(key, data) ==
  /\ table' = [table EXCEPT ![hash[key]] = <<[key |-> key, data |-> data]>> \o @]
  /\ e_num' = e_num + 1

ht_put(key, data) ==
  LET b == hash[key]
      i == Find(table[b], key)
  IN IF i # 0
     THEN table' = [table EXCEPT ![b][i].data = data] /\ UNCHANGED e_num
     ELSE /\ table' = [table EXCEPT ![b] = <<[key |-> key, data |-> data]>> \o @]
          /\ e_num' = e_num + 1

\* Mutant: the rest of the chain goes with the element.
RemoveRest(key) ==
  LET b == hash[key]
      i == Find(table[b], key)
  IN IF i = 0
     THEN UNCHANGED <<table, e_num>>
     ELSE table' = [table EXCEPT ![b] = SubSeq(@, 1, i - 1)] /\ e_num' = e_num - 1

ht_remove(key) ==
  LET b == hash[key]
      i == Find(table[b], key)
  IN IF i = 0
     THEN UNCHANGED <<table, e_num>>
     ELSE table' = [table EXCEPT ![b] = RemoveAt(@, i)] /\ e_num' = e_num - 1

-----------------------------------------------------------------------------
(* ht_clear: every round gets an element of the iterator and removes it *)

First(b)  == IF table[b] = <<>> THEN NULL ELSE table[b][1].key
After(b, key) ==
  LET i == Find(table[b], key)
  IN IF i = Len(table[b]) THEN NULL ELSE table[b][i + 1].key

\* Mutant: stops before the last chain.
StopEarly(b) == b < capacity - 2

\* ht_iterate goes to the next chain only while there is one.
HasNext(b) == b < capacity - 1

HT_ITERATOR ==
  /\ it = Idle
  /\ it' = [index |-> 0, elem |-> First(0)]
  /\ UNCHANGED <<table, e_num>>

\* ht_iterate at the end of a chain, and with an element to return.
NextChain ==
  /\ it \notin {Idle, Done} /\ it.elem = NULL
  /\ it' = IF HasNext(it.index)
           THEN [index |-> it.index + 1, elem |-> First(it.index + 1)]
           ELSE Done
  /\ UNCHANGED <<table, e_num>>

ClearElement ==
  /\ it.elem # NULL
  /\ it' = [it EXCEPT !.elem = After(it.index, it.elem)]
  /\ ht_remove(it.elem)

Login(key, data) == it = Idle /\ ht_put(key, data) /\ UNCHANGED it
Logout(key)      == it = Idle /\ ht_remove(key) /\ UNCHANGED it

Next ==
  \/ \E key \in Keys : Logout(key) \/ \E data \in Data : Login(key, data)
  \/ HT_ITERATOR \/ NextChain \/ ClearElement

Spec == Init /\ [][Next]_vars

-----------------------------------------------------------------------------
(* What must hold *)

\* A key has one element at most, in the chain its hash leads to: what cmd_logout
\* removes is all that a later login of the name could find.  e_num counts them.
KeysFound ==
  /\ \A b \in Buckets : \A i, j \in DOMAIN table[b] :
       /\ hash[table[b][i].key] = b
       /\ table[b][i].key = table[b][j].key => i = j
  /\ e_num = Cardinality({k \in Keys : ht_get(k) # NULL})

\* The iterator is advanced before its element is removed and freed: it never
\* points to a freed element, misses none, and leaves an empty table.
ClearEmpties ==
  /\ it.elem # NULL => \E i \in DOMAIN table[it.index] :
                         table[it.index][i].key = it.elem
  /\ it = Done => e_num = 0 /\ \A b \in Buckets : table[b] = <<>>

\* The chains together are the function from names to structs that cmd_login
\* and cmd_logout rely on, whichever names collide.
Names == INSTANCE NameTable WITH players <- [k \in Keys |-> ht_get(k)]

ImplementsNames == Names!Spec
=============================================================================
