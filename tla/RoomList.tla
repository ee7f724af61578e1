------------------------------ MODULE RoomList ------------------------------
(***************************************************************************)
(* structures/arraylist.c as the server uses it: two lists threaded        *)
(* through one array of indices, the rooms (from first) and the free       *)
(* entries (from empty).  room_create inserts a room and stores the index  *)
(* as its id, game_end (and the two other places that free a room) delete  *)
(* it by that id.                                                          *)
(*                                                                         *)
(* arraylist_double_capacity is left out: it copies both arrays to larger  *)
(* blocks, but leaves capacity as it was, so that neither arraylist_get    *)
(* nor, as NeverFull below shows, arraylist_insert uses the new entries.   *)
(***************************************************************************)
EXTENDS Integers, FiniteSets

CONSTANTS
  Games,
  NULL,
  s_max_rooms,     \* also the capacity the list is created with
  SizeBound        \* bound: no insertion once size has got there

ASSUME RoomListAssumption ==
  s_max_rooms \in Nat \ {0} /\ SizeBound \in Nat /\ NULL \notin Games

VARIABLES
  size, first, empty,
  next,            \* both lists
  data,
  id,              \* game->id of the rooms there are, otherwise None
  s_curr_rooms

list == <<size, first, empty, next, data>>
vars == <<list, id, s_curr_rooms>>

None == -1
Ids  == 0 .. (s_max_rooms - 1)

-----------------------------------------------------------------------------
\* arraylist_create.  The entries of data are fresh heap memory.
Init ==
  /\ size = 0 /\ first = None /\ empty = 0
  /\ next = [i \in Ids |-> IF i = s_max_rooms - 1 THEN None ELSE i + 1]
  /\ data = [i \in Ids |-> NULL]
  /\ id = [g \in Games |-> None]
  /\ s_curr_rooms = 0

\* The indices that a walk along next meets, as cmd_room_list walks from first.
Walk(start) ==
  LET w[k \in Ids] == IF k = 0 THEN start
                      ELSE IF w[k - 1] = None THEN None ELSE next[w[k - 1]]
  IN {w[k] : k \in Ids} \ {None}

\* Mutants: the new room does not lead on to the others; data keeps the pointer
\* of the room that had the entry before.
InsertUnlinked(g) ==
  /\ data' = [data EXCEPT ![empty] = g]
  /\ first' = empty
  /\ empty' = next[empty]
  /\ UNCHANGED next
  /\ size' = size + 1

InsertStale(g) ==
  /\ first' = empty
  /\ empty' = next[empty]
  /\ next' = [next EXCEPT ![empty] = first]
  /\ size' = size + 1
  /\ UNCHANGED data

arraylist_insert(g) ==
  /\ data' = [data EXCEPT ![empty] = g]
  /\ first' = empty
  /\ empty' = next[empty]
  /\ next' = [next EXCEPT ![empty] = first]
  /\ size' = size + 1

\* Mutant: the entry is not linked into the list of free ones.
DeleteLost(index) ==
  /\ IF first = index
     THEN first' = next[index] /\ UNCHANGED next
     ELSE /\ next' = [i \in Ids |-> IF next[i] = index THEN next[index] ELSE next[i]]
          /\ UNCHANGED first
  /\ UNCHANGED <<size, empty, data>>

\* Mutant: size is decremented twice.
DeleteTwice(index) ==
  /\ IF first = index
     THEN first' = next[index] /\ next' = [next EXCEPT ![index] = empty]
     ELSE /\ next' = [i \in Ids |-> IF i = index THEN empty
                                    ELSE IF next[i] = index THEN next[index]
                                    ELSE next[i]]
          /\ UNCHANGED first
  /\ empty' = index
  /\ size' = size - 2
  /\ UNCHANGED data

\* The first room is unlinked without counting it out, and data keeps the
\* pointer to the freed room.
arraylist_delete_item(index) ==
  IF size # 0 /\ first = index
  THEN /\ first' = next[index]
       /\ next' = [next EXCEPT ![index] = empty]
       /\ empty' = index
       /\ UNCHANGED <<size, data>>
  ELSE IF size # 0 /\ \E i \in Walk(first) : next[i] = index
  THEN /\ next' = [i \in Ids |-> IF i = index THEN empty
                                 ELSE IF i \in Walk(first) /\ next[i] = index
                                 THEN next[index]
                                 ELSE next[i]]
       /\ empty' = index
       /\ size' = size - 1
       /\ UNCHANGED <<first, data>>
  ELSE UNCHANGED list

\* cmd_room_create checks the limit, room_create does the rest.
room_create(g) ==
  /\ id[g] = None /\ size < SizeBound
  /\ s_curr_rooms + 1 <= s_max_rooms
  /\ arraylist_insert(g)
  /\ id' = [id EXCEPT ![g] = empty]
  /\ s_curr_rooms' = s_curr_rooms + 1

game_end(g) ==
  /\ id[g] # None
  /\ arraylist_delete_item(id[g])
  /\ id' = [id EXCEPT ![g] = None]
  /\ s_curr_rooms' = s_curr_rooms - 1

Next == \E g \in Games : room_create(g) \/ game_end(g)

Spec == Init /\ [][Next]_vars

-----------------------------------------------------------------------------
(* What must hold *)

\* Every index is in exactly one of the two lists: none is lost, and no walk of
\* cmd_room_list strays into the free entries.
ListsPartition ==
  /\ Walk(first) \cup Walk(empty) = Ids
  /\ Walk(first) \cap Walk(empty) = {}

\* The list holds the rooms there are, each under its id: cmd_room_list, which
\* follows the pointers of the list, meets no freed room.
ListsTheRooms ==
  /\ Walk(first) = {id[g] : g \in Games} \ {None}
  /\ \A g \in Games : id[g] # None => data[id[g]] = g

\* As long as the limit allows another room there is a free entry for it, so
\* that insertion never writes outside of the array.
NeverFull == s_curr_rooms < s_max_rooms => empty # None

\* size may be larger than the number of rooms, never smaller: the early return
\* of arraylist_delete_item on size 0 never leaves a room in the list.
SizeCovers == Cardinality(Walk(first)) <= size

\* The list keeps what RoomPool promises.
Pool == INSTANCE RoomPool
  WITH room <- [i \in Ids |-> IF i \in Walk(first) THEN data[i] ELSE NULL]

ImplementsPool == Pool!Spec
=============================================================================
