--------------------------- MODULE RoomListProofs ---------------------------
(***************************************************************************)
(* Theorems about the list of rooms, for every capacity and every set of   *)
(* rooms.  The two lists threaded through next are named by the sequences  *)
(* of indices that a walk meets: induction along a list then amounts to    *)
(* arithmetic on positions.                                                *)
(***************************************************************************)
EXTENDS RoomList, FiniteSetTheorems, WellFoundedInduction, TLAPS

-----------------------------------------------------------------------------
(* The inductive invariant *)

\* From start, next leads through the m entries s[1], ..., s[m] and ends.
Chain(start, m, s) ==
  /\ \A i, j \in 1 .. m : s[i] = s[j] => i = j
  /\ start = IF m = 0 THEN None ELSE s[1]
  /\ \A i \in 1 .. m : next[s[i]] = IF i = m THEN None ELSE s[i + 1]

\* The rooms are the m entries s, the n entries t are free.
Lists(m, s, n, t) ==
  /\ Chain(first, m, s) /\ Chain(empty, n, t)
  /\ m + n = s_max_rooms /\ m <= size /\ s_curr_rooms = m
  /\ \A i \in 1 .. m, j \in 1 .. n : s[i] # t[j]
  /\ \A x \in Ids : (\E i \in 1 .. m : s[i] = x) \/ (\E j \in 1 .. n : t[j] = x)
  /\ \A i \in 1 .. m : data[s[i]] \in Games /\ id[data[s[i]]] = s[i]
  /\ \A g \in Games : id[g] # None =>
       data[id[g]] = g /\ \E i \in 1 .. m : s[i] = id[g]

ListTypeOK ==
  /\ size \in Nat
  /\ next \in [Ids -> Ids \cup {None}]
  /\ data \in [Ids -> Games \cup {NULL}]
  /\ id \in [Games -> Ids \cup {None}]

ListInv ==
  /\ ListTypeOK
  /\ \E m, n \in 0 .. s_max_rooms :
       \E s \in [1 .. m -> Ids], t \in [1 .. n -> Ids] : Lists(m, s, n, t)

-----------------------------------------------------------------------------
(* What a walk meets *)

LEMMA NatMin ==
  ASSUME NEW T \in SUBSET Nat, T # {}
  PROVE  \E x \in T : \A y \in T : ~(y < x)
  <1>1. \E x \in T : \A y \in T : ~(<<y, x>> \in OpToRel(<, Nat))
    BY Zenon, WFMin, NatLessThanWellFounded
  <1> QED
    BY Zenon, <1>1 DEF OpToRel

\* The function that Walk is defined by.
IsWalk(w, start) ==
  w = [k \in Ids |-> IF k = 0 THEN start
                     ELSE IF w[k - 1] = None THEN None ELSE next[w[k - 1]]]

LEMMA WalkIs ==
  ASSUME NEW start
  PROVE  Walk(start) = {(CHOOSE w : IsWalk(w, start))[k] : k \in Ids} \ {None}
  BY DEF Walk, IsWalk

\* A walk along a chain that fits into the array meets the entries of the chain.
LEMMA WalkChain ==
  ASSUME NEW m \in 0 .. s_max_rooms, NEW s \in [1 .. m -> Ids],
         NEW start, Chain(start, m, s)
  PROVE  Walk(start) = {s[i] : i \in 1 .. m}
  <1> DEFINE at == [k \in Ids |-> IF k < m THEN s[k + 1] ELSE None]
  <1>1. /\ Ids \subseteq Nat /\ None \notin Ids
        /\ \A k \in Ids : k # 0 => k - 1 \in Ids
        /\ \A k \in 1 .. m : k - 1 \in Ids
    BY RoomListAssumption DEF Ids, None
  <1>2. IsWalk(at, start)
    <2>1. ASSUME NEW k \in Ids
          PROVE  at[k] = IF k = 0 THEN start
                         ELSE IF at[k - 1] = None THEN None ELSE next[at[k - 1]]
      <3>1. CASE k = 0
        BY <1>1, <3>1 DEF Chain
      <3>2. CASE k # 0 /\ k < m
        <4>1. at[k - 1] = s[k] /\ s[k] \in Ids /\ k \in 1 .. m /\ k # m
          BY <1>1, <3>2
        <4>2. next[s[k]] = s[k + 1]
          BY <4>1 DEF Chain
        <4> QED
          BY <1>1, <3>2, <4>1, <4>2
      <3>3. CASE k # 0 /\ k = m
        <4>1. at[k - 1] = s[k] /\ s[k] \in Ids /\ k \in 1 .. m
          BY <1>1, <3>3
        <4>2. next[s[k]] = None
          BY <3>3, <4>1 DEF Chain
        <4> QED
          BY <1>1, <3>3, <4>1, <4>2
      <3>4. CASE k # 0 /\ k > m
        BY <1>1, <3>4
      <3> QED
        BY <1>1, <3>1, <3>2, <3>3, <3>4
    <2> QED
      BY <2>1 DEF IsWalk
  <1> DEFINE w == CHOOSE w : IsWalk(w, start)
  <1>3. IsWalk(w, start)
    BY Zenon, <1>2
  <1> HIDE DEF w, at
  <1>4. \A k \in Ids : w[k] = at[k]
    <2> DEFINE T == {k \in Ids : w[k] # at[k]}
    <2> SUFFICES ASSUME T # {} PROVE FALSE
      OBVIOUS
    <2>1. PICK k \in T : \A j \in T : ~(j < k)
      BY <1>1, NatMin
    <2>2. CASE k = 0
      BY <1>2, <1>3, <2>1, <2>2 DEF IsWalk
    <2>3. CASE k # 0
      <3>1. k \in Nat /\ k - 1 \in Ids /\ k - 1 < k
        BY <1>1, <2>1, <2>3
      <3>2. w[k - 1] = at[k - 1]
        BY <2>1, <3>1
      <3> QED
        BY <1>2, <1>3, <2>1, <2>3, <3>2 DEF IsWalk
    <2> QED
      BY <2>2, <2>3
  <1>5. Walk(start) = {at[k] : k \in Ids} \ {None}
    BY <1>4, WalkIs DEF w
  <1>6. {at[k] : k \in Ids} \ {None} = {s[i] : i \in 1 .. m}
    <2>1. ASSUME NEW k \in Ids, at[k] # None
          PROVE  at[k] \in {s[i] : i \in 1 .. m}
      BY <1>1, <2>1 DEF at
    <2>2. ASSUME NEW i \in 1 .. m
          PROVE  s[i] \in {at[k] : k \in Ids} \ {None}
      <3>1. i - 1 \in Ids /\ at[i - 1] = s[i] /\ s[i] \in Ids
        BY <1>1 DEF at
      <3> QED
        BY <1>1, <3>1
    <2> QED
      BY <2>1, <2>2
  <1> QED
    BY <1>5, <1>6

-----------------------------------------------------------------------------
(* What the invariant says *)

\* The four properties of the list.
LEMMA ListFacts ==
  ASSUME ListInv
  PROVE  ListsPartition /\ ListsTheRooms /\ NeverFull /\ SizeCovers
  <1>1. PICK m \in 0 .. s_max_rooms, n \in 0 .. s_max_rooms :
          \E s \in [1 .. m -> Ids], t \in [1 .. n -> Ids] : Lists(m, s, n, t)
    BY DEF ListInv
  <1>2. PICK s \in [1 .. m -> Ids], t \in [1 .. n -> Ids] : Lists(m, s, n, t)
    BY <1>1
  <1>3. /\ Walk(first) = {s[i] : i \in 1 .. m}
        /\ Walk(empty) = {t[i] : i \in 1 .. n}
    BY <1>2, WalkChain DEF Lists
  <1>4. ListsPartition
    BY <1>2, <1>3 DEF ListsPartition, Lists
  <1>5. ListsTheRooms
    <2>1. ASSUME NEW i \in 1 .. m
          PROVE  s[i] \in {id[g] : g \in Games} \ {None}
      <3>1. s[i] # None /\ data[s[i]] \in Games /\ id[data[s[i]]] = s[i]
        BY <1>2, RoomListAssumption DEF Lists, Ids, None
      <3> QED
        BY <3>1
    <2>2. ASSUME NEW g \in Games, id[g] # None
          PROVE  id[g] \in Walk(first) /\ data[id[g]] = g
      BY <1>2, <1>3, <2>2 DEF Lists
    <2> QED
      BY <1>3, <2>1, <2>2 DEF ListsTheRooms
  <1>6. NeverFull
    <2>1. s_curr_rooms < s_max_rooms => n # 0
      BY <1>2, RoomListAssumption DEF Lists
    <2>2. n # 0 => empty = t[1] /\ t[1] \in Ids
      BY <1>2 DEF Lists, Chain
    <2> QED
      BY <2>1, <2>2, RoomListAssumption DEF NeverFull, Ids, None
  <1>7. SizeCovers
    <2>1. s \in Bijection(1 .. m, Walk(first))
      BY <1>2, <1>3 DEF Lists, Chain, Bijection, Injection, Surjection, IsInjective
    <2>2. Cardinality(Walk(first)) = m
      BY <2>1, FS_CountingElements DEF ExistsBijection
    <2> QED
      BY <1>2, <2>2 DEF Lists, SizeCovers
  <1> QED
    BY <1>4, <1>5, <1>6, <1>7

-----------------------------------------------------------------------------
(* The invariant is inductive *)

LEMMA InitLists == Init => ListInv
  <1> SUFFICES ASSUME Init PROVE ListInv
    OBVIOUS
  <1>1. s_max_rooms \in Nat /\ s_max_rooms # 0 /\ None \notin Ids /\ 0 \in Ids
    BY RoomListAssumption DEF Ids, None
  <1>2. ListTypeOK
    BY <1>1, RoomListAssumption DEF Init, ListTypeOK, Ids
  <1> DEFINE s == [i \in 1 .. 0 |-> 0]
             t == [i \in 1 .. s_max_rooms |-> i - 1]
  <1>3. s \in [1 .. 0 -> Ids] /\ t \in [1 .. s_max_rooms -> Ids]
    BY <1>1 DEF Ids
  <1>4. Chain(empty, s_max_rooms, t)
    BY <1>1, <1>3 DEF Init, Chain, Ids
  <1>5. Chain(first, 0, s)
    BY DEF Init, Chain
  <1>6. \A x \in Ids : \E j \in 1 .. s_max_rooms : t[j] = x
    <2>1. \A x \in Ids : x + 1 \in 1 .. s_max_rooms /\ t[x + 1] = x
      BY <1>1 DEF Ids
    <2> QED
      BY <2>1
  <1>7. Lists(0, s, s_max_rooms, t)
    BY <1>1, <1>4, <1>5, <1>6 DEF Init, Lists
  <1> HIDE DEF s, t
  <1>8. 0 \in 0 .. s_max_rooms /\ s_max_rooms \in 0 .. s_max_rooms
    BY <1>1
  <1>9. \E ss \in [1 .. 0 -> Ids], tt \in [1 .. s_max_rooms -> Ids] :
          Lists(0, ss, s_max_rooms, tt)
    BY <1>3, <1>7
  <1> QED
    BY Zenon, <1>2, <1>8, <1>9 DEF ListInv

\* A room takes the first free entry and becomes the first of the rooms.
LEMMA CreateLists ==
  ASSUME ListInv, NEW g \in Games, room_create(g)
  PROVE  ListInv' /\ empty \in Ids /\ \A h \in Games : id[h] # empty
  <1>1. PICK m \in 0 .. s_max_rooms, n \in 0 .. s_max_rooms :
          \E s \in [1 .. m -> Ids], t \in [1 .. n -> Ids] : Lists(m, s, n, t)
    BY DEF ListInv
  <1>2. PICK s \in [1 .. m -> Ids], t \in [1 .. n -> Ids] : Lists(m, s, n, t)
    BY <1>1
  <1> PICK e : e = empty
    OBVIOUS
  <1>3. /\ id[g] = None /\ s_curr_rooms + 1 <= s_max_rooms
        /\ data' = [data EXCEPT ![e] = g]
        /\ next' = [next EXCEPT ![e] = first]
        /\ first' = e /\ empty' = next[e] /\ size' = size + 1
        /\ id' = [id EXCEPT ![g] = e]
        /\ s_curr_rooms' = s_curr_rooms + 1
    BY DEF room_create, arraylist_insert
  <1>4. s_max_rooms \in Nat /\ None \notin Ids /\ ListTypeOK
    BY RoomListAssumption DEF Ids, None, ListInv
  <1>5. n # 0 /\ m + 1 \in 0 .. s_max_rooms /\ n - 1 \in 0 .. s_max_rooms
    BY <1>2, <1>3, <1>4 DEF Lists
  <1>6. e = t[1] /\ e \in Ids /\ e # None /\ 1 \in 1 .. n
    BY <1>2, <1>4, <1>5 DEF Lists, Chain
  <1>7. first = IF m = 0 THEN None ELSE s[1]
    BY <1>2 DEF Lists, Chain
  <1> DEFINE ss == [i \in 1 .. (m + 1) |-> IF i = 1 THEN e ELSE s[i - 1]]
             tt == [j \in 1 .. (n - 1) |-> t[j + 1]]
  <1>8. ss \in [1 .. (m + 1) -> Ids] /\ tt \in [1 .. (n - 1) -> Ids]
    BY <1>4, <1>6
  <1>9. /\ \A i \in 1 .. m : s[i] # e
        /\ \A j \in 1 .. n : t[j] = e => j = 1
    BY <1>2, <1>6 DEF Lists, Chain
  <1>10. /\ next'[e] = first /\ data'[e] = g
         /\ \A x \in Ids \ {e} : next'[x] = next[x] /\ data'[x] = data[x]
         /\ id'[g] = e /\ \A h \in Games \ {g} : id'[h] = id[h]
    BY <1>3, <1>4, <1>6 DEF ListTypeOK
  <1>11. Chain(first, m + 1, ss)'
    <2>1. \A i, j \in 1 .. (m + 1) : ss[i] = ss[j] => i = j
      <3>1. \A i, j \in 1 .. m : s[i] = s[j] => i = j
        BY <1>2 DEF Lists, Chain
      <3> QED
        BY <1>4, <1>9, <3>1
    <2>2. first' = ss[1] /\ m + 1 # 0
      BY <1>3, <1>4
    <2>3. ASSUME NEW i \in 1 .. (m + 1)
          PROVE  next'[ss[i]] = IF i = m + 1 THEN None ELSE ss[i + 1]
      <3>1. CASE i = 1
        BY <1>4, <1>7, <1>10, <3>1
      <3>2. CASE i # 1
        <4>1. i - 1 \in 1 .. m /\ ss[i] = s[i - 1] /\ s[i - 1] \in Ids \ {e}
          BY <1>4, <1>9, <3>2
        <4>2. next[s[i - 1]] = IF i - 1 = m THEN None ELSE s[(i - 1) + 1]
          BY <1>2, <4>1 DEF Lists, Chain
        <4> QED
          BY <1>4, <1>10, <4>1, <4>2, <3>2
      <3> QED
        BY <3>1, <3>2
    <2> HIDE DEF ss
    <2> QED
      BY <2>1, <2>2, <2>3 DEF Chain
  <1>12. Chain(empty, n - 1, tt)'
    <2>1. \A i, j \in 1 .. (n - 1) : tt[i] = tt[j] => i = j
      <3>1. \A i, j \in 1 .. n : t[i] = t[j] => i = j
        BY <1>2 DEF Lists, Chain
      <3> QED
        BY <3>1
    <2>2. empty' = IF n - 1 = 0 THEN None ELSE tt[1]
      <3>1. next[t[1]] = IF 1 = n THEN None ELSE t[1 + 1]
        BY <1>2, <1>6 DEF Lists, Chain
      <3> QED
        BY <1>3, <1>5, <1>6, <3>1
    <2>3. ASSUME NEW i \in 1 .. (n - 1)
          PROVE  next'[tt[i]] = IF i = n - 1 THEN None ELSE tt[i + 1]
      <3>1. i + 1 \in 1 .. n /\ tt[i] = t[i + 1] /\ t[i + 1] \in Ids \ {e}
        BY <1>9
      <3>2. next[t[i + 1]] = IF i + 1 = n THEN None ELSE t[(i + 1) + 1]
        BY <1>2, <3>1 DEF Lists, Chain
      <3> QED
        BY <1>10, <3>1, <3>2
    <2> HIDE DEF tt
    <2> QED
      BY <2>1, <2>2, <2>3 DEF Chain
  <1>13. \A i \in 1 .. (m + 1), j \in 1 .. (n - 1) : ss[i] # tt[j]
    <2>1. \A i \in 1 .. m, j \in 1 .. n : s[i] # t[j]
      BY <1>2 DEF Lists
    <2> QED
      BY <1>4, <1>9, <2>1
  <1>14. ASSUME NEW x \in Ids
         PROVE  (\E i \in 1 .. (m + 1) : ss[i] = x) \/ (\E j \in 1 .. (n - 1) : tt[j] = x)
    <2>1. CASE \E i \in 1 .. m : s[i] = x
      <3>1. PICK i \in 1 .. m : s[i] = x
        BY <2>1
      <3>2. i + 1 \in 1 .. (m + 1) /\ ss[i + 1] = x
        BY <1>4, <3>1
      <3> QED
        BY <3>2
    <2>2. CASE \E j \in 1 .. n : t[j] = x
      <3>1. PICK j \in 1 .. n : t[j] = x
        BY <2>2
      <3>2. CASE j = 1
        <4>1. 1 \in 1 .. (m + 1) /\ ss[1] = x
          BY <1>4, <1>6, <3>1, <3>2
        <4> QED
          BY <4>1
      <3>3. CASE j # 1
        <4>1. j - 1 \in 1 .. (n - 1) /\ tt[j - 1] = x
          BY <3>1, <3>3
        <4> QED
          BY <4>1
      <3> QED
        BY <3>2, <3>3
    <2> QED
      BY <1>2, <2>1, <2>2 DEF Lists
  <1>15. \A h \in Games : id[h] # e
    BY <1>2, <1>6, <1>9 DEF Lists
  <1>16. ASSUME NEW i \in 1 .. (m + 1)
         PROVE  data'[ss[i]] \in Games /\ id'[data'[ss[i]]] = ss[i]
    <2>1. CASE i = 1
      BY <1>10, <2>1
    <2>2. CASE i # 1
      <3>1. i - 1 \in 1 .. m /\ ss[i] = s[i - 1] /\ s[i - 1] \in Ids \ {e}
        BY <1>4, <1>9, <2>2
      <3>2. data[s[i - 1]] \in Games /\ id[data[s[i - 1]]] = s[i - 1]
        BY <1>2, <3>1 DEF Lists
      <3>3. data[s[i - 1]] # g
        BY <1>3, <1>4, <3>1, <3>2
      <3> HIDE DEF ss
      <3> QED
        BY <1>10, <3>1, <3>2, <3>3
    <2> QED
      BY <2>1, <2>2
  <1>17. ASSUME NEW h \in Games, id'[h] # None
         PROVE  data'[id'[h]] = h /\ \E i \in 1 .. (m + 1) : ss[i] = id'[h]
    <2>1. CASE h = g
      <3>1. 1 \in 1 .. (m + 1) /\ ss[1] = e
        BY <1>4
      <3> QED
        BY <1>10, <2>1, <3>1
    <2>2. CASE h # g
      <3>1. PICK i \in 1 .. m : s[i] = id[h]
        BY <1>2, <1>10, <1>17, <2>2 DEF Lists
      <3>2. i + 1 \in 1 .. (m + 1) /\ ss[i + 1] = id[h]
        BY <1>4, <3>1
      <3>3. data[id[h]] = h /\ id[h] \in Ids \ {e}
        BY <1>2, <1>9, <1>10, <1>17, <2>2, <3>1 DEF Lists
      <3> HIDE DEF ss
      <3> QED
        BY <1>10, <2>2, <3>2, <3>3
    <2> QED
      BY <2>1, <2>2
  <1>18. (m + 1) + (n - 1) = s_max_rooms /\ m + 1 <= size' /\ s_curr_rooms' = m + 1
    BY <1>2, <1>3, <1>4 DEF Lists, ListTypeOK
  <1> HIDE DEF ss, tt
  <1>19. Lists(m + 1, ss, n - 1, tt)'
    BY <1>11, <1>12, <1>13, <1>14, <1>16, <1>17, <1>18 DEF Lists
  <1>20. ListTypeOK'
    <2>1. first \in Ids \cup {None}
      BY <1>7
    <2> QED
      BY <1>3, <1>4, <1>6, <2>1 DEF ListTypeOK
  <1> QED
    BY <1>5, <1>6, <1>8, <1>15, <1>19, <1>20 DEF ListInv

\* A room that ends gives its entry back, which becomes the first free one.
\* The list is cut at its place j: at its head first moves on and size stays,
\* behind it the entry before it is found on the walk and leads past it.
LEMMA DeleteLists ==
  ASSUME ListInv, NEW g \in Games, game_end(g)
  PROVE  ListInv'
  <1>1. PICK m \in 0 .. s_max_rooms, n \in 0 .. s_max_rooms :
          \E s \in [1 .. m -> Ids], t \in [1 .. n -> Ids] : Lists(m, s, n, t)
    BY DEF ListInv
  <1>2. PICK s \in [1 .. m -> Ids], t \in [1 .. n -> Ids] : Lists(m, s, n, t)
    BY <1>1
  <1> PICK x : x = id[g]
    OBVIOUS
  <1>3. /\ x # None /\ arraylist_delete_item(x)
        /\ id' = [id EXCEPT ![g] = None]
        /\ s_curr_rooms' = s_curr_rooms - 1
    BY DEF game_end
  <1>4. s_max_rooms \in Nat /\ None \notin Ids /\ ListTypeOK
    BY RoomListAssumption DEF Ids, None, ListInv
  <1>5. data[x] = g /\ \E i \in 1 .. m : s[i] = x
    BY <1>2, <1>3 DEF Lists
  <1>6. PICK j \in 1 .. m : s[j] = x
    BY <1>5
  <1>7. /\ x \in Ids /\ x # None /\ m # 0 /\ size # 0 /\ j \in Nat /\ 1 \in 1 .. m
        /\ m - 1 \in 0 .. s_max_rooms /\ n + 1 \in 0 .. s_max_rooms
    BY <1>2, <1>4, <1>6 DEF Lists, ListTypeOK
  <1>8. /\ \A i, k \in 1 .. m : s[i] = s[k] => i = k
        /\ first = s[1]
        /\ \A i \in 1 .. m : next[s[i]] = IF i = m THEN None ELSE s[i + 1]
    BY <1>2, <1>7 DEF Lists, Chain
  <1>9. /\ \A i, k \in 1 .. n : t[i] = t[k] => i = k
        /\ empty = IF n = 0 THEN None ELSE t[1]
        /\ \A i \in 1 .. n : next[t[i]] = IF i = n THEN None ELSE t[i + 1]
    BY <1>2 DEF Lists, Chain
  <1>10. \A i \in 1 .. m, k \in 1 .. n : s[i] # t[k]
    BY <1>2 DEF Lists
  <1>11. Walk(first) = {s[i] : i \in 1 .. m}
    BY <1>2, WalkChain DEF Lists
  <1> DEFINE ss == [i \in 1 .. (m - 1) |-> IF i < j THEN s[i] ELSE s[i + 1]]
             tt == [k \in 1 .. (n + 1) |-> IF k = 1 THEN x ELSE t[k - 1]]
  <1>12. ss \in [1 .. (m - 1) -> Ids] /\ tt \in [1 .. (n + 1) -> Ids]
    BY <1>7
  \* What the deletion does to the array.
  <1>13. /\ empty' = x /\ data' = data
         /\ next'[x] = empty
         /\ \A k \in 1 .. n : next'[t[k]] = next[t[k]]
         /\ next' \in [Ids -> Ids \cup {None}]
         /\ size' \in Nat /\ m - 1 <= size'
    <2>1. empty \in Ids \cup {None}
      BY <1>9
    <2>2. next[x] \in Ids \cup {None}
      BY <1>4, <1>7 DEF ListTypeOK
    <2>3. \A k \in 1 .. n : t[k] \in Ids /\ t[k] # x /\ t[k] \notin Walk(first)
      BY <1>6, <1>10, <1>11
    <2>4. CASE first = x
      <3>1. /\ next' = [next EXCEPT ![x] = empty]
            /\ empty' = x /\ data' = data /\ size' = size
        BY <1>3, <1>7, <2>4 DEF arraylist_delete_item
      <3>2. next' \in [Ids -> Ids \cup {None}]
        BY <1>4, <2>1, <3>1 DEF ListTypeOK
      <3>3. next'[x] = empty /\ \A k \in 1 .. n : next'[t[k]] = next[t[k]]
        BY <1>4, <1>7, <2>3, <3>1 DEF ListTypeOK
      <3>4. size' \in Nat /\ m - 1 <= size'
        BY <1>2, <1>4, <3>1 DEF Lists, ListTypeOK
      <3> QED
        BY <3>1, <3>2, <3>3, <3>4
    <2>5. CASE first # x
      <3>1. \E i \in Walk(first) : next[i] = x
        <4>1. j # 1
          BY <1>6, <1>8, <2>5
        <4>2. j - 1 \in 1 .. m /\ j - 1 # m /\ (j - 1) + 1 = j
          BY <1>6, <4>1
        <4>3. next[s[j - 1]] = x
          BY <1>6, <1>8, <4>2
        <4> QED
          BY <1>11, <4>2, <4>3
      <3>2. /\ next' = [i \in Ids |-> IF i = x THEN empty
                                      ELSE IF i \in Walk(first) /\ next[i] = x
                                      THEN next[x] ELSE next[i]]
            /\ empty' = x /\ data' = data /\ size' = size - 1
        BY <1>3, <1>7, <2>5, <3>1 DEF arraylist_delete_item
      <3>3. next' \in [Ids -> Ids \cup {None}]
        BY <1>4, <2>1, <2>2, <3>2 DEF ListTypeOK
      <3>4. next'[x] = empty /\ \A k \in 1 .. n : next'[t[k]] = next[t[k]]
        BY <1>7, <2>3, <3>2
      <3>5. size' \in Nat /\ m - 1 <= size'
        BY <1>2, <1>4, <1>7, <3>2 DEF Lists, ListTypeOK
      <3> QED
        BY <3>2, <3>3, <3>4, <3>5
    <2> QED
      BY <2>4, <2>5
  \* Along the rooms that are left, next skips x and is otherwise as before.
  <1>14. ASSUME NEW i \in 1 .. m, i # j
         PROVE  next'[s[i]] = IF i + 1 = j THEN next[x] ELSE next[s[i]]
    <2>1. s[i] \in Ids /\ s[i] # x /\ s[i] \in Walk(first)
      BY <1>6, <1>8, <1>11, <1>14
    <2>2. next[s[i]] = x <=> i + 1 = j
      <3>1. CASE i = m
        BY <1>4, <1>7, <1>8, <3>1
      <3>2. CASE i # m
        <4>1. i + 1 \in 1 .. m /\ next[s[i]] = s[i + 1]
          BY <1>8, <3>2
        <4> QED
          BY <1>6, <1>8, <4>1
      <3> QED
        BY <3>1, <3>2
    <2>3. CASE first = x
      <3>1. next' = [next EXCEPT ![x] = empty]
        BY <1>3, <1>7, <2>3 DEF arraylist_delete_item
      <3>2. j = 1
        <4>1. s[1] = s[j]
          BY <1>6, <1>8, <2>3
        <4> QED
          BY <1>6, <1>7, <1>8, <4>1
      <3> QED
        BY <1>4, <2>1, <3>1, <3>2 DEF ListTypeOK
    <2>4. CASE first # x
      <3>1. \/ next' = [y \in Ids |-> IF y = x THEN empty
                                      ELSE IF y \in Walk(first) /\ next[y] = x
                                      THEN next[x] ELSE next[y]]
            \/ next' = next /\ ~ \E y \in Walk(first) : next[y] = x
        BY <1>3, <1>7, <2>4 DEF arraylist_delete_item, list
      <3>2. CASE next' = next /\ ~ \E y \in Walk(first) : next[y] = x
        BY <2>1, <2>2, <3>2
      <3>3. CASE next' = [y \in Ids |-> IF y = x THEN empty
                                        ELSE IF y \in Walk(first) /\ next[y] = x
                                        THEN next[x] ELSE next[y]]
        BY <2>1, <2>2, <3>3
      <3> QED
        BY <3>1, <3>2, <3>3
    <2> QED
      BY <2>3, <2>4
  <1>15. first' = IF m - 1 = 0 THEN None ELSE ss[1]
    <2>1. CASE first = x
      <3>1. j = 1 /\ first' = next[x]
        <4>1. s[1] = s[j]
          BY <1>6, <1>8, <2>1
        <4>2. j = 1
          BY <1>6, <1>7, <1>8, <4>1
        <4> QED
          BY <1>3, <1>7, <2>1, <4>2 DEF arraylist_delete_item
      <3>2. next[x] = IF 1 = m THEN None ELSE s[1 + 1]
        BY <1>6, <1>8, <3>1
      <3> QED
        BY <1>7, <3>1, <3>2
    <2>2. CASE first # x
      <3>1. j # 1 /\ first' = first
        BY <1>3, <1>6, <1>7, <1>8, <2>2 DEF arraylist_delete_item, list
      <3>2. 1 \in 1 .. (m - 1) /\ 1 < j
        BY <1>6, <3>1
      <3> QED
        BY <1>8, <3>1, <3>2
    <2> QED
      BY <2>1, <2>2
  <1>16. Chain(first, m - 1, ss)'
    <2>1. ASSUME NEW i \in 1 .. (m - 1), NEW k \in 1 .. (m - 1), ss[i] = ss[k]
          PROVE  i = k
      <3> DEFINE At(h) == IF h < j THEN h ELSE h + 1
      <3>1. ss[i] = s[At(i)] /\ ss[k] = s[At(k)]
        OBVIOUS
      <3>2. At(i) \in 1 .. m /\ At(k) \in 1 .. m /\ (At(i) = At(k) => i = k)
        BY <1>6
      <3> HIDE DEF At, ss
      <3> QED
        BY <1>8, <2>1, <3>1, <3>2
    <2>2. ASSUME NEW i \in 1 .. (m - 1)
          PROVE  next'[ss[i]] = IF i = m - 1 THEN None ELSE ss[i + 1]
      <3>1. CASE i >= j
        <4>1. i + 1 \in 1 .. m /\ i + 1 # j /\ (i + 1) + 1 # j /\ ss[i] = s[i + 1]
          BY <1>6, <1>7, <3>1
        <4>2. next'[s[i + 1]] = next[s[i + 1]]
          BY <1>14, <4>1
        <4>3. next[s[i + 1]] = IF i + 1 = m THEN None ELSE s[(i + 1) + 1]
          BY <1>8, <4>1
        <4>4. CASE i = m - 1
          <5>1. i + 1 = m
            BY <1>6, <4>4
          <5> QED
            BY <4>1, <4>2, <4>3, <4>4, <5>1
        <4>5. CASE i # m - 1
          <5>1. i + 1 # m /\ i + 1 \in 1 .. (m - 1) /\ ~(i + 1 < j)
            BY <1>6, <3>1, <4>5
          <5>2. ss[i + 1] = s[(i + 1) + 1]
            BY <5>1
          <5> QED
            BY <4>1, <4>2, <4>3, <4>5, <5>1, <5>2
        <4> QED
          BY <4>4, <4>5
      <3>2. CASE i + 1 = j
        <4>1. i \in 1 .. m /\ i # j /\ ss[i] = s[i]
          BY <1>6, <1>7, <3>2
        <4>2. next'[s[i]] = next[x]
          BY <1>14, <3>2, <4>1
        <4>3. next[x] = IF j = m THEN None ELSE s[j + 1]
          BY <1>6, <1>8
        <4> QED
          BY <1>7, <3>2, <4>1, <4>2, <4>3
      <3>3. CASE i + 1 < j
        <4>1. i \in 1 .. m /\ i # j /\ i + 1 # j /\ i # m /\ i # m - 1 /\ ss[i] = s[i]
          BY <1>6, <1>7, <3>3
        <4>2. next'[s[i]] = next[s[i]] /\ next[s[i]] = s[i + 1]
          BY <1>8, <1>14, <4>1
        <4> QED
          BY <1>7, <3>3, <4>1, <4>2
      <3> QED
        BY <1>6, <1>7, <3>1, <3>2, <3>3
    <2> HIDE DEF ss
    <2> QED
      BY <1>15, <2>1, <2>2 DEF Chain
  <1>17. Chain(empty, n + 1, tt)'
    <2>1. \A i, k \in 1 .. (n + 1) : tt[i] = tt[k] => i = k
      <3>1. \A k \in 1 .. n : t[k] # x
        BY <1>6, <1>10
      <3> QED
        BY <1>9, <3>1
    <2>2. n + 1 # 0 /\ empty' = tt[1]
      BY <1>13
    <2>3. ASSUME NEW k \in 1 .. (n + 1)
          PROVE  next'[tt[k]] = IF k = n + 1 THEN None ELSE tt[k + 1]
      <3>1. CASE k = 1
        BY <1>9, <1>13, <3>1
      <3>2. CASE k # 1
        <4>1. k - 1 \in 1 .. n /\ tt[k] = t[k - 1]
          BY <3>2
        <4>2. next[t[k - 1]] = IF k - 1 = n THEN None ELSE t[(k - 1) + 1]
          BY <1>9, <4>1
        <4> QED
          BY <1>13, <3>2, <4>1, <4>2
      <3> QED
        BY <3>1, <3>2
    <2> HIDE DEF tt
    <2> QED
      BY <2>1, <2>2, <2>3 DEF Chain
  <1>18. ASSUME NEW i \in 1 .. (m - 1)
         PROVE  \E k \in 1 .. m : k # j /\ ss[i] = s[k]
    <2>1. CASE i < j
      <3>1. i \in 1 .. m /\ i # j /\ ss[i] = s[i]
        BY <1>6, <2>1
      <3> QED
        BY <3>1
    <2>2. CASE ~(i < j)
      <3>1. i + 1 \in 1 .. m /\ i + 1 # j /\ ss[i] = s[i + 1]
        BY <1>6, <2>2
      <3> QED
        BY <3>1
    <2> QED
      BY <2>1, <2>2
  <1>19. ASSUME NEW k \in 1 .. m, k # j
         PROVE  \E i \in 1 .. (m - 1) : ss[i] = s[k]
    <2>1. CASE k < j
      <3>1. k \in 1 .. (m - 1) /\ ss[k] = s[k]
        BY <1>6, <2>1
      <3> QED
        BY <3>1
    <2>2. CASE ~(k < j)
      <3>1. k - 1 \in 1 .. (m - 1) /\ ss[k - 1] = s[k]
        BY <1>6, <1>19, <2>2
      <3> QED
        BY <3>1
    <2> QED
      BY <2>1, <2>2
  <1>20. \A k \in 1 .. n : k + 1 \in 1 .. (n + 1) /\ tt[k + 1] = t[k]
    OBVIOUS
  <1>21. 1 \in 1 .. (n + 1) /\ tt[1] = x
    OBVIOUS
  <1>22. \A k \in 1 .. (n + 1) : tt[k] = x \/ \E l \in 1 .. n : tt[k] = t[l]
    <2>1. \A k \in 1 .. (n + 1) : k # 1 => k - 1 \in 1 .. n /\ tt[k] = t[k - 1]
      OBVIOUS
    <2> HIDE DEF tt
    <2> QED
      BY <1>21, <2>1
  <1>23. (m - 1) + (n + 1) = s_max_rooms /\ s_curr_rooms' = m - 1
    BY <1>2, <1>3, <1>4 DEF Lists
  <1> HIDE DEF ss, tt
  <1>24. \A i \in 1 .. (m - 1), k \in 1 .. (n + 1) : ss[i] # tt[k]
    BY <1>6, <1>8, <1>10, <1>18, <1>22
  <1>25. ASSUME NEW y \in Ids
         PROVE  (\E i \in 1 .. (m - 1) : ss[i] = y) \/ (\E k \in 1 .. (n + 1) : tt[k] = y)
    <2>1. CASE \E i \in 1 .. m : s[i] = y
      <3>1. PICK i \in 1 .. m : s[i] = y
        BY <2>1
      <3>2. CASE i = j
        BY <1>6, <1>21, <3>1, <3>2
      <3>3. CASE i # j
        BY <1>19, <3>1, <3>3
      <3> QED
        BY <3>2, <3>3
    <2>2. CASE \E k \in 1 .. n : t[k] = y
      BY <1>20, <2>2
    <2> QED
      BY <1>2, <2>1, <2>2 DEF Lists
  <1>26. /\ id'[g] = None
         /\ \A h \in Games \ {g} : id'[h] = id[h]
    BY <1>3, <1>4 DEF ListTypeOK
  <1>27. ASSUME NEW i \in 1 .. (m - 1)
         PROVE  data'[ss[i]] \in Games /\ id'[data'[ss[i]]] = ss[i]
    <2>1. PICK k \in 1 .. m : k # j /\ ss[i] = s[k]
      BY <1>18
    <2>2. data[s[k]] \in Games /\ id[data[s[k]]] = s[k] /\ s[k] # x
      BY <1>2, <1>6, <1>8, <2>1 DEF Lists
    <2>3. data[s[k]] # g
      BY <2>2
    <2> QED
      BY <1>13, <1>26, <2>1, <2>2, <2>3
  <1>28. ASSUME NEW h \in Games, id'[h] # None
         PROVE  data'[id'[h]] = h /\ \E i \in 1 .. (m - 1) : ss[i] = id'[h]
    <2>1. h # g /\ id'[h] = id[h]
      BY <1>26, <1>28
    <2>2. data[id[h]] = h /\ \E i \in 1 .. m : s[i] = id[h]
      BY <1>2, <1>28, <2>1 DEF Lists
    <2>3. PICK k \in 1 .. m : s[k] = id[h]
      BY <2>2
    <2>4. k # j
      BY <1>5, <1>6, <2>1, <2>2, <2>3
    <2> QED
      BY <1>13, <1>19, <2>1, <2>2, <2>3, <2>4
  <1>29. Lists(m - 1, ss, n + 1, tt)'
    BY <1>13, <1>16, <1>17, <1>23, <1>24, <1>25, <1>27, <1>28 DEF Lists
  <1>30. ListTypeOK'
    BY <1>3, <1>4, <1>13 DEF ListTypeOK
  <1>31. \E u \in [1 .. (m - 1) -> Ids], v \in [1 .. (n + 1) -> Ids] :
           Lists(m - 1, u, n + 1, v)'
    BY <1>12, <1>29
  <1> QED
    BY Zenon, <1>7, <1>30, <1>31 DEF ListInv

-----------------------------------------------------------------------------
(* Theorems *)

\* The indices along the two lists are those of the array, in every state.
THEOREM ListInvariant == Spec => []ListInv
  <1>1. ListInv /\ [Next]_vars => ListInv'
    <2> SUFFICES ASSUME ListInv, [Next]_vars PROVE ListInv'
      OBVIOUS
    <2>1. ASSUME NEW g \in Games, room_create(g) PROVE ListInv'
      BY <2>1, CreateLists
    <2>2. ASSUME NEW g \in Games, game_end(g) PROVE ListInv'
      BY <2>2, DeleteLists
    <2>3. CASE UNCHANGED vars
      <3>1. /\ size' = size /\ first' = first /\ empty' = empty /\ next' = next
            /\ data' = data /\ id' = id /\ s_curr_rooms' = s_curr_rooms
        BY <2>3 DEF vars, list
      <3>2. ASSUME NEW m, NEW n, NEW s, NEW t, Lists(m, s, n, t)
            PROVE  Lists(m, s, n, t)'
        BY <3>1, <3>2 DEF Lists, Chain
      <3>3. ListTypeOK'
        BY <3>1 DEF ListInv, ListTypeOK
      <3> QED
        BY <3>2, <3>3 DEF ListInv
    <2> QED
      BY <2>1, <2>2, <2>3 DEF Next
  <1> QED
    BY <1>1, InitLists, PTL DEF Spec

\* No insertion and no deletion of arraylist.c loses an index or links a free
\* entry into the rooms, whatever the order in which rooms come and go.
THEOREM ListsPartitioned == Spec => []ListsPartition
  BY ListInvariant, ListFacts, PTL

\* cmd_room_list meets exactly the rooms there are, each under its id.
THEOREM RoomsListed == Spec => []ListsTheRooms
  BY ListInvariant, ListFacts, PTL

\* The check of the limit in cmd_room_create is enough for arraylist_insert,
\* which itself never tests whether there is a free entry.
THEOREM InsertionFits == Spec => []NeverFull
  BY ListInvariant, ListFacts, PTL

\* Although the deletion of the first room is not counted, size never falls
\* below the number of rooms.
THEOREM SizeSuffices == Spec => []SizeCovers
  BY ListInvariant, ListFacts, PTL

-----------------------------------------------------------------------------
(* The list implements the pool of rooms *)

\* What the pool sees under an index.
Room(i) == IF i \in Walk(first) THEN data[i] ELSE NULL

\* Under an index the pool sees the room that has it as its id, if there is one.
LEMMA RoomIs ==
  ASSUME ListInv
  PROVE  \A i \in Ids : /\ Room(i) \in Games \cup {NULL}
                        /\ \A g \in Games : Room(i) = g <=> id[g] = i
  <1> SUFFICES ASSUME NEW i \in Ids
               PROVE  /\ Room(i) \in Games \cup {NULL}
                      /\ \A g \in Games : Room(i) = g <=> id[g] = i
    OBVIOUS
  <1>1. ListsTheRooms /\ ListTypeOK
    BY ListFacts DEF ListInv
  <1>2. i # None /\ NULL \notin Games
    BY RoomListAssumption DEF Ids, None
  <1>3. \A g \in Games : id[g] = i => Room(i) = g
    BY <1>1, <1>2 DEF ListsTheRooms, Room
  <1>4. ASSUME NEW g \in Games, Room(i) = g
        PROVE  id[g] = i
    <2>1. i \in Walk(first) /\ data[i] = g
      BY <1>2, <1>4 DEF Room
    <2>2. PICK h \in Games : id[h] = i
      BY <1>1, <2>1 DEF ListsTheRooms
    <2> QED
      BY <1>1, <1>2, <2>1, <2>2 DEF ListsTheRooms
  <1>5. Room(i) \in Games \cup {NULL}
    BY <1>1 DEF ListTypeOK, Room
  <1> QED
    BY <1>3, <1>4, <1>5

\* The same after a step.
LEMMA RoomIsNext ==
  ASSUME ListInv'
  PROVE  \A i \in Ids : /\ Room(i)' \in Games \cup {NULL}
                        /\ \A g \in Games : Room(i)' = g <=> id'[g] = i
  <1>1. (ListInv => \A i \in Ids : /\ Room(i) \in Games \cup {NULL}
                                   /\ \A g \in Games : Room(i) = g <=> id[g] = i)'
    BY RoomIs, PTL
  <1> QED
    BY <1>1

\* What Pool is an instance for.
Rooms == [i \in Ids |-> Room(i)]

LEMMA CreateRefines ==
  ASSUME ListInv, ListInv', NEW g \in Games, room_create(g)
  PROVE  Pool!Create(g)
  <1> PICK e : e = empty
    OBVIOUS
  <1>1. e \in Ids /\ e # None /\ \A h \in Games : id[h] # e
    BY CreateLists, RoomListAssumption DEF Ids, None
  <1>2. /\ id' = [id EXCEPT ![g] = e] /\ id[g] = None
        /\ id \in [Games -> Ids \cup {None}]
    BY DEF room_create, ListInv, ListTypeOK
  <1>3. NULL \notin Games /\ None \notin Ids
    BY RoomListAssumption DEF Ids, None
  <1>4. Room(e) = NULL
    BY <1>1, RoomIs
  <1>5. ASSUME NEW i \in Ids
        PROVE  Room(i)' = IF i = e THEN g ELSE Room(i)
    <2>1. \A h \in Games : id'[h] = i <=> IF i = e THEN h = g ELSE id[h] = i
      BY <1>1, <1>2, <1>3
    <2> QED
      BY <2>1, <1>3, RoomIs, RoomIsNext
  <1>6. Rooms' = [Rooms EXCEPT ![e] = g]
    BY <1>1, <1>5 DEF Rooms
  <1>7. ~ \E i \in Ids : Rooms[i] = g
    BY <1>2, <1>3, RoomIs DEF Rooms
  <1>8. Rooms[e] = NULL
    BY <1>1, <1>4 DEF Rooms
  <1> QED
    BY <1>1, <1>6, <1>7, <1>8 DEF Pool!Create, Pool!Listed, Rooms, Room

LEMMA DestroyRefines ==
  ASSUME ListInv, ListInv', NEW g \in Games, game_end(g)
  PROVE  Pool!Destroy(g)
  <1> PICK x : x = id[g]
    OBVIOUS
  <1>1. /\ id' = [id EXCEPT ![g] = None] /\ x # None
        /\ id \in [Games -> Ids \cup {None}] /\ x \in Ids
    BY DEF game_end, ListInv, ListTypeOK
  <1>2. NULL \notin Games /\ None \notin Ids
    BY RoomListAssumption DEF Ids, None
  <1>3. Room(x) = g
    BY <1>1, RoomIs
  <1>4. ASSUME NEW i \in Ids
        PROVE  Room(i)' = IF i = x THEN NULL ELSE Room(i)
    <2>1. \A h \in Games \ {g} : id'[h] = id[h]
      BY <1>1
    <2>2. id'[g] = None
      BY <1>1
    <2>3. CASE i = x
      <3>1. \A h \in Games : id'[h] # i
        BY <1>1, <1>2, <1>3, <2>1, <2>2, <2>3, RoomIs
      <3> QED
        BY <2>3, <3>1, RoomIsNext
    <2>4. CASE i # x
      <3>1. \A h \in Games : id'[h] = i <=> id[h] = i
        BY <1>1, <1>2, <2>1, <2>2, <2>4
      <3> QED
        BY <2>4, <3>1, <1>2, RoomIs, RoomIsNext
    <2> QED
      BY <2>3, <2>4
  <1>5. Rooms' = [Rooms EXCEPT ![x] = NULL]
    BY <1>1, <1>4 DEF Rooms
  <1>6. Rooms[x] = g
    BY <1>1, <1>3 DEF Rooms
  <1> QED
    BY <1>1, <1>5, <1>6 DEF Pool!Destroy, Rooms, Room

\* Whatever the order of the free entries, the list keeps what the server relies
\* on: a room gets an id that no other room has and is found under it until it
\* ends.
THEOREM PoolImplemented == Spec => ImplementsPool
  <1>1. Init => Pool!Init
    <2> SUFFICES ASSUME Init PROVE Pool!Init
      OBVIOUS
    <2>1. \A i \in Ids : Room(i) = NULL
      BY DEF Init, Room
    <2> QED
      BY <2>1 DEF Pool!Init, Room
  <1>2. ListInv /\ ListInv' /\ [Next]_vars => [Pool!Next]_(Rooms)
    <2> SUFFICES ASSUME ListInv, ListInv', [Next]_vars PROVE [Pool!Next]_(Rooms)
      OBVIOUS
    <2>1. ASSUME NEW g \in Games, room_create(g) PROVE Pool!Next
      BY <2>1, CreateRefines DEF Pool!Next
    <2>2. ASSUME NEW g \in Games, game_end(g) PROVE Pool!Next
      BY <2>2, DestroyRefines DEF Pool!Next
    <2>3. CASE UNCHANGED vars
      BY <2>3 DEF vars, list, Rooms, Room, Walk
    <2> QED
      BY <2>1, <2>2, <2>3 DEF Next
  <1> QED
    BY <1>1, <1>2, ListInvariant, PTL DEF Spec, ImplementsPool, Pool!Spec, Rooms, Room
=============================================================================
