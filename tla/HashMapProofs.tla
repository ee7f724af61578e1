---------------------------- MODULE HashMapProofs ----------------------------
(***************************************************************************)
(* Theorems about the table of names, for every set of names, every        *)
(* capacity and every hash, however many names collide.  What an operation *)
(* does is proved of a single chain first, then of the table.              *)
(***************************************************************************)
EXTENDS HashMap, FiniteSetTheorems, SequenceTheorems, TLAPS

-----------------------------------------------------------------------------
(* A chain *)

Elements == [key : Keys, data : Data]

\* Its names are different and lead to the bucket b.
GoodChain(c, b) ==
  /\ c \in Seq(Elements)
  /\ \A i, j \in 1 .. Len(c) :
       hash[c[i].key] = b /\ (c[i].key = c[j].key => i = j)

\* What ht_get returns from a chain.
Lookup(c, key) == IF Find(c, key) = 0 THEN NULL ELSE c[Find(c, key)].data

LEMMA FindIs ==
  ASSUME NEW c, NEW b, GoodChain(c, b), NEW key
  PROVE  /\ \A i \in 1 .. Len(c) : c[i].key = key => Find(c, key) = i
         /\ (\A i \in 1 .. Len(c) : c[i].key # key) => Find(c, key) = 0
         /\ Find(c, key) # 0 =>
              Find(c, key) \in 1 .. Len(c) /\ c[Find(c, key)].key = key
  <1>1. DOMAIN c = 1 .. Len(c) /\ Len(c) \in Nat
    BY LenProperties DEF GoodChain
  <1>2. ASSUME NEW i \in 1 .. Len(c), c[i].key = key
        PROVE  Find(c, key) = i
    <2>1. {j \in DOMAIN c : c[j].key = key} = {i}
      BY <1>1, <1>2 DEF GoodChain
    <2> QED
      BY <2>1 DEF Find
  <1>3. ASSUME \A i \in 1 .. Len(c) : c[i].key # key
        PROVE  Find(c, key) = 0
    BY <1>1, <1>3 DEF Find
  <1> QED
    BY <1>2, <1>3

LEMMA LookupIs ==
  ASSUME NEW c, NEW b, GoodChain(c, b), NEW key
  PROVE  /\ \A i \in 1 .. Len(c) : c[i].key = key =>
              Lookup(c, key) = c[i].data /\ Lookup(c, key) # NULL
         /\ (\A i \in 1 .. Len(c) : c[i].key # key) => Lookup(c, key) = NULL
         /\ Find(c, key) = 0 <=> Lookup(c, key) = NULL
  <1>1. ASSUME NEW i \in 1 .. Len(c)
        PROVE  c[i].data # NULL /\ i # 0
    <2>1. c[i] \in Elements
      BY ElementOfSeq DEF GoodChain
    <2> QED
      BY <2>1, HashAssumption DEF Elements
  <1> QED
    BY <1>1, FindIs DEF Lookup

\* The three ways in which a chain changes.
LEMMA OverwriteChain ==
  ASSUME NEW c, NEW b, GoodChain(c, b),
         NEW i \in 1 .. Len(c), NEW data \in Data, NEW n, n = [c EXCEPT ![i].data = data]
  PROVE  /\ GoodChain(n, b)
         /\ \A k : Lookup(n, k) = IF k = c[i].key THEN data ELSE Lookup(c, k)
  <1>1. c[i] \in Elements /\ Len(c) \in Nat /\ c \in [1 .. Len(c) -> Elements]
    BY ElementOfSeq, LenProperties DEF GoodChain
  <1>2. [c[i] EXCEPT !.data = data] \in Elements
    BY <1>1 DEF Elements
  <1>3. n = [c EXCEPT ![i] = [c[i] EXCEPT !.data = data]]
    BY <1>1
  <1>4. /\ n \in Seq(Elements) /\ Len(n) = Len(c)
        /\ n[i] = [c[i] EXCEPT !.data = data]
        /\ \A j \in 1 .. Len(c) : j # i => n[j] = c[j]
    BY <1>2, <1>3, ExceptSeq DEF GoodChain
  <1>5. n[i].key = c[i].key /\ n[i].data = data
    BY <1>1, <1>4 DEF Elements
  <1>6. \A j \in 1 .. Len(c) : n[j].key = c[j].key
    BY <1>4, <1>5
  <1>7. GoodChain(n, b)
    BY <1>4, <1>6 DEF GoodChain
  <1>8. ASSUME NEW k
        PROVE  Lookup(n, k) = IF k = c[i].key THEN data ELSE Lookup(c, k)
    <2> DEFINE Is(d) == /\ \A j \in 1 .. Len(d) : d[j].key = k => Lookup(d, k) = d[j].data
                        /\ (\A j \in 1 .. Len(d) : d[j].key # k) => Lookup(d, k) = NULL
    <2>0. Is(c) /\ Is(n)
      BY <1>7, LookupIs
    <2>1. CASE \E j \in 1 .. Len(c) : c[j].key = k
      <3>1. PICK j \in 1 .. Len(c) : c[j].key = k
        BY <2>1
      <3>2. Lookup(c, k) = c[j].data /\ Lookup(n, k) = n[j].data
        BY <1>4, <1>6, <2>0, <3>1
      <3>3. k = c[i].key <=> i = j
        BY <3>1 DEF GoodChain
      <3> QED
        BY <1>4, <1>5, <3>2, <3>3
    <2>2. CASE ~ \E j \in 1 .. Len(c) : c[j].key = k
      BY <1>4, <1>6, <2>0, <2>2
    <2> QED
      BY <2>1, <2>2
  <1> QED
    BY <1>7, <1>8

LEMMA InsertChain ==
  ASSUME NEW c, NEW b, GoodChain(c, b),
         NEW key \in Keys, NEW data \in Data, hash[key] = b, Find(c, key) = 0
  PROVE  LET n == <<[key |-> key, data |-> data]>> \o c
         IN  /\ GoodChain(n, b)
             /\ \A k : Lookup(n, k) = IF k = key THEN data ELSE Lookup(c, k)
  <1> PICK n : n = <<[key |-> key, data |-> data]>> \o c
    OBVIOUS
  <1> DEFINE e == [key |-> key, data |-> data]
  <1>1. e \in Elements /\ Len(c) \in Nat /\ c \in Seq(Elements)
    BY LenProperties DEF GoodChain, Elements
  <1>2. e.key = key /\ e.data = data
    OBVIOUS
  <1> HIDE DEF e
  <1>3. <<e>> \in Seq(Elements) /\ Len(<<e>>) = 1 /\ <<e>>[1] = e
    BY <1>1
  <1>4. /\ n \in Seq(Elements) /\ Len(n) = Len(c) + 1
        /\ n[1] = e
        /\ \A j \in 1 .. Len(c) : n[j + 1] = c[j]
    BY <1>1, <1>3, ConcatProperties DEF e
  <1>5. \A j \in 1 .. Len(c) : c[j].key # key
    <2>1. \A j \in 1 .. Len(c) : j # 0
      OBVIOUS
    <2> QED
      BY <2>1, FindIs
  <1>6. \A i \in 1 .. Len(n) : i = 1 \/ (i - 1 \in 1 .. Len(c) /\ n[i] = c[i - 1])
    <2>1. ASSUME NEW i \in 1 .. Len(n), i # 1
          PROVE  i - 1 \in 1 .. Len(c) /\ n[i] = c[i - 1]
      <3>1. i - 1 \in 1 .. Len(c) /\ (i - 1) + 1 = i
        BY <1>1, <1>4, <2>1
      <3> QED
        BY <1>4, <3>1
    <2> QED
      BY <2>1
  <1>7. GoodChain(n, b)
    <2>1. ASSUME NEW i \in 1 .. Len(n)
          PROVE  hash[n[i].key] = b
      BY <1>2, <1>4, <1>6 DEF GoodChain
    <2>2. ASSUME NEW i \in 1 .. Len(n), NEW j \in 1 .. Len(n), n[i].key = n[j].key
          PROVE  i = j
      <3>1. CASE i = 1 \/ j = 1
        BY <1>2, <1>4, <1>5, <1>6, <2>2, <3>1
      <3>2. CASE i # 1 /\ j # 1
        <4>1. i - 1 = j - 1
          BY SMTT(30), <1>6, <2>2, <3>2 DEF GoodChain
        <4> QED
          BY <1>1, <1>4, <4>1
      <3> QED
        BY <3>1, <3>2
    <2> QED
      BY <1>4, <2>1, <2>2 DEF GoodChain
  <1>8. ASSUME NEW k
        PROVE  Lookup(n, k) = IF k = key THEN data ELSE Lookup(c, k)
    <2> DEFINE Is(d) == /\ \A j \in 1 .. Len(d) : d[j].key = k => Lookup(d, k) = d[j].data
                        /\ (\A j \in 1 .. Len(d) : d[j].key # k) => Lookup(d, k) = NULL
    <2>0. Is(c) /\ Is(n)
      BY <1>7, LookupIs
    <2>4. 1 \in 1 .. Len(n) /\ \A j \in 1 .. Len(c) : j + 1 \in 1 .. Len(n)
      BY <1>1, <1>4
    <2>1. CASE k = key
      BY <1>2, <1>4, <2>0, <2>1, <2>4
    <2>2. CASE k # key /\ \E j \in 1 .. Len(c) : c[j].key = k
      <3>1. PICK j \in 1 .. Len(c) : c[j].key = k
        BY <2>2
      <3>2. Lookup(c, k) = c[j].data /\ Lookup(n, k) = n[j + 1].data
        BY <1>4, <2>0, <2>4, <3>1
      <3> QED
        BY <1>4, <2>2, <3>2
    <2>3. CASE k # key /\ ~ \E j \in 1 .. Len(c) : c[j].key = k
      <3>1. \A i \in 1 .. Len(n) : n[i].key # k
        BY <1>2, <1>4, <1>6, <2>3
      <3> QED
        BY <2>0, <2>3, <3>1
    <2> QED
      BY <2>1, <2>2, <2>3
  <1> QED
    BY <1>7, <1>8

LEMMA RemoveChain ==
  ASSUME NEW c, NEW b, GoodChain(c, b), NEW i \in 1 .. Len(c), NEW n, n = RemoveAt(c, i)
  PROVE  /\ GoodChain(n, b)
         /\ \A k : Lookup(n, k) = IF k = c[i].key THEN NULL ELSE Lookup(c, k)
         /\ Len(n) = Len(c) - 1
         /\ \A j \in 1 .. Len(n) : n[j] = IF j < i THEN c[j] ELSE c[j + 1]
  <1>1. Len(c) \in Nat /\ c \in Seq(Elements) /\ \A j \in 1 .. Len(c) : c[j] \in Elements
    BY ElementOfSeq, LenProperties DEF GoodChain
  <1> DEFINE l == SubSeq(c, 1, i - 1)
             r == SubSeq(c, i + 1, Len(c))
  <1>2. l \in Seq(Elements) /\ Len(l) = i - 1 /\ \A j \in 1 .. (i - 1) : l[j] = c[j]
    <2>1. \A j \in 1 .. (i - 1) : c[j] \in Elements
      BY <1>1
    <2>2. /\ l \in Seq(Elements)
          /\ Len(l) = IF 1 <= i - 1 THEN (i - 1) - 1 + 1 ELSE 0
          /\ \A j \in 1 .. ((i - 1) - 1 + 1) : l[j] = c[1 + j - 1]
      BY <1>1, <2>1, SubSeqProperties
    <2> HIDE DEF l
    <2> QED
      BY <1>1, <2>2
  <1>3. /\ r \in Seq(Elements) /\ Len(r) = Len(c) - i
        /\ \A j \in 1 .. (Len(c) - i) : r[j] = c[i + j]
    <2>1. \A j \in (i + 1) .. Len(c) : c[j] \in Elements
      BY <1>1
    <2>2. /\ r \in Seq(Elements)
          /\ Len(r) = IF i + 1 <= Len(c) THEN Len(c) - (i + 1) + 1 ELSE 0
          /\ \A j \in 1 .. (Len(c) - (i + 1) + 1) : r[j] = c[(i + 1) + j - 1]
      BY <1>1, <2>1, SubSeqProperties
    <2> HIDE DEF r
    <2> QED
      BY <1>1, <2>2
  <1>4. n = l \o r
    BY DEF RemoveAt
  <1> HIDE DEF l, r
  <1>5. /\ n \in Seq(Elements) /\ Len(n) = Len(c) - 1
        /\ \A j \in 1 .. Len(n) : n[j] = IF j <= Len(l) THEN l[j] ELSE r[j - Len(l)]
    <2>1. /\ n \in Seq(Elements) /\ Len(n) = Len(l) + Len(r)
          /\ \A j \in 1 .. (Len(l) + Len(r)) :
               n[j] = IF j <= Len(l) THEN l[j] ELSE r[j - Len(l)]
      <3>1. /\ l \o r \in Seq(Elements) /\ Len(l \o r) = Len(l) + Len(r)
            /\ \A j \in 1 .. Len(l) + Len(r) :
                 (l \o r)[j] = IF j <= Len(l) THEN l[j] ELSE r[j - Len(l)]
        BY Zenon, <1>2, <1>3, ConcatProperties
      <3> QED
        BY <1>4, <3>1
    <2>2. Len(l) + Len(r) = Len(c) - 1
      BY <1>1, <1>2, <1>3
    <2> QED
      BY <2>1, <2>2
  <1>6. ASSUME NEW j \in 1 .. Len(n)
        PROVE  n[j] = IF j < i THEN c[j] ELSE c[j + 1]
    <2>1. CASE j < i
      BY <1>1, <1>2, <1>5, <2>1
    <2>2. CASE ~(j < i)
      <3>1. j - (i - 1) \in 1 .. (Len(c) - i) /\ i + (j - (i - 1)) = j + 1
        BY <1>1, <1>5, <2>2
      <3>2. n[j] = r[j - (i - 1)]
        BY <1>1, <1>2, <1>5, <2>2
      <3> QED
        BY <1>3, <2>2, <3>1, <3>2
    <2> QED
      BY <2>1, <2>2
  \* Where the entry at j of the new chain was before.
  <1> DEFINE was(j) == IF j < i THEN j ELSE j + 1
  <1>7. \A j \in 1 .. Len(n) : was(j) \in 1 .. Len(c) /\ was(j) # i /\ n[j] = c[was(j)]
    BY <1>1, <1>5, <1>6
  <1>8. \A j, k \in 1 .. Len(n) : was(j) = was(k) => j = k
    BY <1>1, <1>5
  <1>9. ASSUME NEW k \in 1 .. Len(c), k # i
        PROVE  \E j \in 1 .. Len(n) : n[j] = c[k]
    <2>1. CASE k < i
      <3>1. k \in 1 .. Len(n) /\ n[k] = c[k]
        BY <1>1, <1>5, <1>6, <2>1
      <3> QED
        BY <3>1
    <2>2. CASE ~(k < i)
      <3>1. k - 1 \in 1 .. Len(n) /\ ~(k - 1 < i) /\ (k - 1) + 1 = k
        BY <1>1, <1>5, <1>9, <2>2
      <3> QED
        BY <1>6, <3>1
    <2> QED
      BY <2>1, <2>2
  <1> HIDE DEF was
  <1>10. GoodChain(n, b)
    <2>1. ASSUME NEW j \in 1 .. Len(n)
          PROVE  hash[n[j].key] = b
      BY <1>7 DEF GoodChain
    <2>2. ASSUME NEW j \in 1 .. Len(n), NEW k \in 1 .. Len(n), n[j].key = n[k].key
          PROVE  j = k
      <3>1. was(j) = was(k)
        BY <1>7, <2>2 DEF GoodChain
      <3> QED
        BY <1>8, <3>1
    <2> QED
      BY <1>5, <2>1, <2>2 DEF GoodChain
  <1>11. ASSUME NEW k
         PROVE  Lookup(n, k) = IF k = c[i].key THEN NULL ELSE Lookup(c, k)
    <2>1. CASE k = c[i].key
      <3>1. \A j \in 1 .. Len(n) : n[j].key # k
        BY <1>7, <2>1 DEF GoodChain
      <3> QED
        BY <1>10, <2>1, <3>1, LookupIs
    <2>2. CASE k # c[i].key /\ \E j \in 1 .. Len(c) : c[j].key = k
      <3>1. PICK j \in 1 .. Len(c) : c[j].key = k
        BY <2>2
      <3>2. PICK m \in 1 .. Len(n) : n[m] = c[j]
        BY <1>9, <2>2, <3>1
      <3>3. Lookup(c, k) = c[j].data /\ Lookup(n, k) = n[m].data
        BY <1>10, <3>1, <3>2, LookupIs
      <3> QED
        BY <2>2, <3>2, <3>3
    <2>3. CASE k # c[i].key /\ ~ \E j \in 1 .. Len(c) : c[j].key = k
      <3>1. \A j \in 1 .. Len(n) : n[j].key # k
        BY <1>7, <2>3
      <3> QED
        BY <1>10, <2>3, <3>1, LookupIs
    <2> QED
      BY <2>1, <2>2, <2>3
  <1> QED
    BY <1>5, <1>6, <1>10, <1>11

-----------------------------------------------------------------------------
(* The table *)

HashTypeOK ==
  /\ table \in [Buckets -> Seq(Elements)]
  /\ it \in [index : Int, elem : Keys \cup {NULL}]

GoodChains == \A b \in Buckets : GoodChain(table[b], b)

Present == {k \in Keys : ht_get(k) # NULL}

Counted == IsFiniteSet(Present) /\ e_num = Cardinality(Present)

\* The iterator points to the first element of its chain, and what it has
\* passed is empty.
Iterating ==
  /\ it \notin {Idle, Done} => it.index \in Buckets
  /\ it.elem # NULL =>
       table[it.index] # <<>> /\ it.elem = table[it.index][1].key
  /\ it \notin {Idle, Done} /\ it.elem = NULL => table[it.index] = <<>>
  /\ \A b \in Buckets : b < it.index => table[b] = <<>>

HashInv == HashTypeOK /\ GoodChains /\ Counted /\ Iterating

LEMMA GetIs ==
  ASSUME NEW k
  PROVE  ht_get(k) = Lookup(table[hash[k]], k) /\ ht_get(k)' = Lookup(table'[hash[k]], k)
  BY DEF ht_get, Lookup, Find

\* A new chain in one bucket changes what ht_get returns for its names only.
LEMMA ChainChanges ==
  ASSUME HashTypeOK, GoodChains, NEW b \in Buckets, NEW n, GoodChain(n, b),
         table' = [table EXCEPT ![b] = n]
  PROVE  /\ table' \in [Buckets -> Seq(Elements)]
         /\ GoodChains'
         /\ \A k \in Keys :
              ht_get(k)' = IF hash[k] = b THEN Lookup(n, k) ELSE ht_get(k)
  <1>1. n \in Seq(Elements)
    BY DEF GoodChain
  <1>2. table'[b] = n /\ \A c \in Buckets : c # b => table'[c] = table[c]
    BY DEF HashTypeOK
  <1>3. table' \in [Buckets -> Seq(Elements)]
    BY <1>1 DEF HashTypeOK
  <1>4. GoodChains'
    <2>1. ASSUME NEW c \in Buckets
          PROVE  GoodChain(table'[c], c)
      BY <1>2 DEF GoodChains
    <2> QED
      BY <2>1 DEF GoodChains, GoodChain
  <1>5. ASSUME NEW k \in Keys
        PROVE  ht_get(k)' = IF hash[k] = b THEN Lookup(n, k) ELSE ht_get(k)
    BY <1>2, GetIs, HashAssumption
  <1> QED
    BY <1>3, <1>4, <1>5

\* What ht_put does: the name is found with its data, no other changes.
LEMMA PutDoes ==
  ASSUME HashTypeOK, GoodChains, Counted,
         NEW key \in Keys, NEW data \in Data, ht_put(key, data)
  PROVE  /\ table' \in [Buckets -> Seq(Elements)]
         /\ GoodChains'
         /\ Counted'
         /\ \A k \in Keys : ht_get(k)' = IF k = key THEN data ELSE ht_get(k)
  <1> DEFINE b == hash[key]
             c == table[b]
             i == Find(c, key)
  <1>1. b \in Buckets /\ GoodChain(c, b) /\ data # NULL
    BY HashAssumption DEF GoodChains
  <1>2. ht_get(key) = Lookup(c, key) /\ (i = 0 <=> ht_get(key) = NULL)
    BY <1>1, GetIs, LookupIs
  <1>3. CASE i # 0
    <2>1. i \in 1 .. Len(c) /\ c[i].key = key
      BY <1>1, <1>3, FindIs
    <2> DEFINE n == [c EXCEPT ![i].data = data]
    <2>2. table' = [table EXCEPT ![b] = n] /\ e_num' = e_num
      BY <1>1, <1>3 DEF ht_put, HashTypeOK
    <2>3. /\ GoodChain(n, b)
          /\ \A k : Lookup(n, k) = IF k = c[i].key THEN data ELSE Lookup(c, k)
      BY <1>1, <2>1, OverwriteChain
    <2> HIDE DEF n
    <2>4. /\ table' \in [Buckets -> Seq(Elements)] /\ GoodChains'
          /\ \A k \in Keys :
               ht_get(k)' = IF hash[k] = b THEN Lookup(n, k) ELSE ht_get(k)
      BY <1>1, <2>2, <2>3, ChainChanges
    <2>5. \A k \in Keys : ht_get(k)' = IF k = key THEN data ELSE ht_get(k)
      BY <2>1, <2>3, <2>4, GetIs
    <2>6. Present' = Present
      BY <1>1, <1>2, <1>3, <2>5 DEF Present
    <2> QED
      BY <2>2, <2>4, <2>5, <2>6 DEF Counted
  <1>4. CASE i = 0
    <2> DEFINE n == <<[key |-> key, data |-> data]>> \o c
    <2>2. table' = [table EXCEPT ![b] = n] /\ e_num' = e_num + 1
      BY <1>1, <1>4 DEF ht_put, HashTypeOK
    <2>3. /\ GoodChain(n, b)
          /\ \A k : Lookup(n, k) = IF k = key THEN data ELSE Lookup(c, k)
      BY <1>1, <1>4, InsertChain
    <2> HIDE DEF n
    <2>4. /\ table' \in [Buckets -> Seq(Elements)] /\ GoodChains'
          /\ \A k \in Keys :
               ht_get(k)' = IF hash[k] = b THEN Lookup(n, k) ELSE ht_get(k)
      BY <1>1, <2>2, <2>3, ChainChanges
    <2>5. \A k \in Keys : ht_get(k)' = IF k = key THEN data ELSE ht_get(k)
      BY <2>3, <2>4, GetIs
    <2>6. Present' = Present \cup {key} /\ key \notin Present
      BY <1>1, <1>2, <1>4, <2>5 DEF Present
    <2>7. Counted'
      BY <2>2, <2>6, FS_AddElement DEF Counted
    <2> QED
      BY <2>4, <2>5, <2>7
  <1> QED
    BY <1>3, <1>4

\* What ht_remove does: the name is no longer found, no other changes, and its
\* chain is shorter by the element.
LEMMA RemoveDoes ==
  ASSUME HashTypeOK, GoodChains, Counted, NEW key \in Keys, ht_remove(key)
  PROVE  /\ table' \in [Buckets -> Seq(Elements)]
         /\ GoodChains'
         /\ Counted'
         /\ \A k \in Keys : ht_get(k)' = IF k = key THEN NULL ELSE ht_get(k)
  <1> DEFINE b == hash[key]
             c == table[b]
             i == Find(c, key)
  <1>1. b \in Buckets /\ GoodChain(c, b)
    BY HashAssumption DEF GoodChains
  <1>2. ht_get(key) = Lookup(c, key) /\ (i = 0 <=> ht_get(key) = NULL)
    BY <1>1, GetIs, LookupIs
  <1>3. CASE i = 0
    <2>1. table' = table /\ e_num' = e_num
      BY <1>3 DEF ht_remove
    <2>2. \A k \in Keys : ht_get(k)' = ht_get(k)
      BY <2>1, GetIs
    <2>3. Present' = Present
      BY <2>2 DEF Present
    <2>4. table' \in [Buckets -> Seq(Elements)] /\ GoodChains'
      BY <2>1 DEF HashTypeOK, GoodChains, GoodChain
    <2> QED
      BY <1>2, <1>3, <2>1, <2>2, <2>3, <2>4 DEF Counted
  <1>4. CASE i # 0
    <2>1. i \in 1 .. Len(c) /\ c[i].key = key
      BY <1>1, <1>4, FindIs
    <2> DEFINE n == RemoveAt(c, i)
    <2>2. table' = [table EXCEPT ![b] = n] /\ e_num' = e_num - 1
      BY <1>1, <1>4 DEF ht_remove, HashTypeOK
    <2>3. /\ GoodChain(n, b)
          /\ \A k : Lookup(n, k) = IF k = c[i].key THEN NULL ELSE Lookup(c, k)
      BY <1>1, <2>1, RemoveChain
    <2> HIDE DEF n
    <2>4. /\ table' \in [Buckets -> Seq(Elements)] /\ GoodChains'
          /\ \A k \in Keys :
               ht_get(k)' = IF hash[k] = b THEN Lookup(n, k) ELSE ht_get(k)
      BY <1>1, <2>2, <2>3, ChainChanges
    <2>5. \A k \in Keys : ht_get(k)' = IF k = key THEN NULL ELSE ht_get(k)
      BY <2>1, <2>3, <2>4, GetIs
    <2>6. Present' = Present \ {key} /\ key \in Present
      BY <1>2, <1>4, <2>5 DEF Present
    <2>7. Counted'
      BY <2>2, <2>6, FS_RemoveElement DEF Counted
    <2> QED
      BY <2>4, <2>5, <2>7
  <1> QED
    BY <1>3, <1>4

-----------------------------------------------------------------------------
(* The invariant is inductive *)

LEMMA InitHash == Init => HashInv
  <1> SUFFICES ASSUME Init PROVE HashInv
    OBVIOUS
  <1>1. HashTypeOK
    BY DEF Init, HashTypeOK, Idle
  <1>2. GoodChains
    BY DEF Init, GoodChains, GoodChain
  <1>3. \A k \in Keys : ht_get(k) = NULL
    <2>1. ASSUME NEW k \in Keys
          PROVE  ht_get(k) = NULL
      <3>1. GoodChain(table[hash[k]], hash[k]) /\ Len(table[hash[k]]) = 0
        BY <1>2, HashAssumption DEF Init, GoodChains
      <3> QED
        BY <3>1, LookupIs, GetIs
    <2> QED
      BY <2>1
  <1>4. Counted
    <2>1. Present = {}
      BY <1>3 DEF Present
    <2> QED
      BY <2>1, FS_EmptySet DEF Init, Counted
  <1>5. Iterating
    BY DEF Init, Iterating, Idle, Buckets
  <1> QED
    BY <1>1, <1>2, <1>4, <1>5 DEF HashInv

\* The calls of cmd_login and cmd_logout are made before ht_destroy.
LEMMA CallsKeep ==
  ASSUME HashInv, NEW key \in Keys,
         Logout(key) \/ \E data \in Data : Login(key, data)
  PROVE  HashInv'
  <1>1. it = Idle /\ it' = it
    BY DEF Login, Logout
  <1>2. table' \in [Buckets -> Seq(Elements)] /\ GoodChains' /\ Counted'
    BY PutDoes, RemoveDoes DEF HashInv, Login, Logout
  <1>3. Iterating'
    BY <1>1 DEF Iterating, Idle, Buckets
  <1> QED
    BY <1>1, <1>2, <1>3 DEF HashInv, HashTypeOK

LEMMA SameTable ==
  ASSUME table' = table, e_num' = e_num, GoodChains, Counted
  PROVE  GoodChains' /\ Counted' /\ \A k \in Keys : ht_get(k)' = ht_get(k)
  <1>1. \A k \in Keys : ht_get(k)' = ht_get(k)
    BY GetIs
  <1>2. Present' = Present
    BY <1>1 DEF Present
  <1> QED
    BY <1>1, <1>2 DEF GoodChains, GoodChain, Counted

\* Where the iterator stands when it enters a chain.
LEMMA FirstIs ==
  ASSUME HashTypeOK, NEW b \in Buckets
  PROVE  /\ First(b) \in Keys \cup {NULL}
         /\ First(b) # NULL => table[b] # <<>> /\ First(b) = table[b][1].key
         /\ First(b) = NULL => table[b] = <<>>
  <1>1. table[b] \in Seq(Elements)
    BY DEF HashTypeOK
  <1>2. CASE table[b] # <<>>
    <2>1. 1 \in 1 .. Len(table[b])
      BY <1>1, <1>2, EmptySeq
    <2>2. table[b][1] \in Elements
      BY <1>1, <2>1, ElementOfSeq
    <2> QED
      BY <1>2, <2>2, HashAssumption DEF First, Elements
  <1>3. CASE table[b] = <<>>
    BY <1>3 DEF First
  <1> QED
    BY <1>2, <1>3

LEMMA IteratorKeeps ==
  ASSUME HashInv, HT_ITERATOR \/ NextChain
  PROVE  HashInv'
  <1>1. /\ table' = table /\ e_num' = e_num
        /\ HashTypeOK /\ GoodChains /\ Counted /\ Iterating
    BY DEF HashInv, HT_ITERATOR, NextChain
  <1>2. GoodChains' /\ Counted' /\ table' \in [Buckets -> Seq(Elements)]
    BY <1>1, SameTable DEF HashTypeOK
  <1>3. capacity \in Nat /\ capacity # 0 /\ 0 \in Buckets
    BY HashAssumption DEF Buckets
  <1>4. ASSUME NEW b \in Buckets, it' = [index |-> b, elem |-> First(b)],
               \A c \in Buckets : c < b => table[c] = <<>>
        PROVE  HashInv'
    <2>1. it'.index = b /\ it'.elem = First(b)
      BY <1>4
    <2>2. it' \in [index : Int, elem : Keys \cup {NULL}]
      BY <1>1, <1>4, FirstIs DEF Buckets
    <2>3. Iterating'
      BY <1>1, <1>4, <2>1, FirstIs DEF Iterating
    <2> QED
      BY <1>2, <2>2, <2>3 DEF HashInv, HashTypeOK
  <1>5. CASE HT_ITERATOR
    <2>1. it' = [index |-> 0, elem |-> First(0)]
      BY <1>5 DEF HT_ITERATOR
    <2>2. \A c \in Buckets : ~(c < 0)
      BY <1>3 DEF Buckets
    <2> QED
      BY <1>3, <1>4, <2>1, <2>2
  <1>6. CASE NextChain
    <2>1. it.index \in Buckets /\ table[it.index] = <<>>
      BY <1>1, <1>6 DEF NextChain, Iterating
    <2>2. \A c \in Buckets : c < it.index + 1 => table[c] = <<>>
      BY <1>1, <2>1 DEF Iterating, Buckets
    <2>3. CASE HasNext(it.index)
      <3>1. it.index + 1 \in Buckets
        BY <1>3, <2>1, <2>3 DEF HasNext, Buckets
      <3>2. it' = [index |-> it.index + 1, elem |-> First(it.index + 1)]
        BY <1>6, <2>3 DEF NextChain
      <3> QED
        BY <1>4, <2>2, <3>1, <3>2
    <2>4. CASE ~HasNext(it.index)
      <3>1. it' = Done
        BY <1>6, <2>4 DEF NextChain
      <3>2. it'.index = capacity /\ it'.elem = NULL
        BY <3>1 DEF Done
      <3>3. \A c \in Buckets : table[c] = <<>>
        BY <1>3, <2>1, <2>2, <2>4 DEF HasNext, Buckets
      <3>4. it' \in [index : Int, elem : Keys \cup {NULL}]
        BY <1>3, <3>1 DEF Done
      <3>5. Iterating'
        BY <1>1, <3>1, <3>2, <3>3 DEF Iterating, Done
      <3> QED
        BY <1>2, <3>4, <3>5 DEF HashInv, HashTypeOK
    <2> QED
      BY <2>3, <2>4
  <1> QED
    BY <1>5, <1>6

\* The element that ht_clear removes is the first of its chain, and the iterator
\* has moved on to the second.
LEMMA ClearKeeps ==
  ASSUME HashInv, ClearElement
  PROVE  HashInv'
  <1>1. HashTypeOK /\ GoodChains /\ Counted /\ Iterating
    BY DEF HashInv
  <1> PICK b : b = it.index
    OBVIOUS
  <1> PICK c : c = table[b]
    OBVIOUS
  <1> PICK key : key = it.elem
    OBVIOUS
  <1>2. key # NULL /\ key \in Keys /\ it # Idle /\ it # Done
    BY <1>1 DEF ClearElement, HashTypeOK, Idle, Done
  <1>3. b \in Buckets /\ c # <<>> /\ key = c[1].key
    BY <1>1, <1>2 DEF Iterating
  <1>4. GoodChain(c, b) /\ c \in Seq(Elements) /\ Len(c) \in Nat /\ 1 \in 1 .. Len(c)
    BY <1>1, <1>3, EmptySeq DEF GoodChains, GoodChain
  <1>5. hash[key] = b /\ Find(c, key) = 1
    <2>1. hash[c[1].key] = b
      BY <1>4 DEF GoodChain
    <2>2. \A i \in 1 .. Len(c) : c[i].key = key => Find(c, key) = i
      BY <1>4, FindIs
    <2> QED
      BY <1>3, <1>4, <2>1, <2>2
  <1>6. table' \in [Buckets -> Seq(Elements)] /\ GoodChains' /\ Counted'
    BY <1>1, <1>2, RemoveDoes DEF ClearElement
  <1>0. PICK n : n = RemoveAt(c, 1)
    OBVIOUS
  <1>7. table' = [table EXCEPT ![b] = n]
    BY <1>0, <1>1, <1>5 DEF ClearElement, ht_remove
  <1>8. Len(n) = Len(c) - 1 /\ \A j \in 1 .. Len(n) : n[j] = c[j + 1]
    <2>1. /\ Len(n) = Len(c) - 1
          /\ \A j \in 1 .. Len(n) : n[j] = IF j < 1 THEN c[j] ELSE c[j + 1]
      <3>1. \A d, m, i : GoodChain(d, b) /\ i \in 1 .. Len(d) /\ m = RemoveAt(d, i) =>
              /\ Len(m) = Len(d) - 1
              /\ \A j \in 1 .. Len(m) : m[j] = IF j < i THEN d[j] ELSE d[j + 1]
        BY RemoveChain
      <3> QED
        BY <1>0, <1>4, <3>1
    <2>2. \A j \in 1 .. Len(n) : ~(j < 1)
      OBVIOUS
    <2> QED
      BY <2>1, <2>2
  <1>9. table'[b] = n /\ \A d \in Buckets : d # b => table'[d] = table[d]
    BY <1>1, <1>3, <1>7 DEF HashTypeOK
  <1>10. n \in Seq(Elements)
    BY <1>3, <1>6, <1>9
  <1>11. /\ it' = [it EXCEPT !.elem = After(b, key)]
         /\ it'.index = b /\ it'.elem = After(b, key)
    BY <1>1 DEF ClearElement, HashTypeOK
  <1>12. After(b, key) = IF 1 = Len(c) THEN NULL ELSE c[2].key
    BY <1>5 DEF After
  <1>13. CASE Len(c) = 1
    <2>1. n = <<>>
      BY <1>8, <1>10, <1>13, EmptySeq
    <2>2. it'.elem = NULL
      BY <1>11, <1>12, <1>13
    <2>3. it' \in [index : Int, elem : Keys \cup {NULL}]
      BY <1>1, <1>11, <2>2 DEF HashTypeOK
    <2>4. Iterating'
      <3>1. \A d \in Buckets : d < b => table'[d] = <<>>
        BY <1>1, <1>9, <1>3 DEF Iterating, Buckets
      <3> QED
        BY <1>3, <1>9, <1>11, <2>1, <2>2, <3>1 DEF Iterating
    <2> QED
      BY <1>6, <2>3, <2>4 DEF HashInv, HashTypeOK
  <1>14. CASE Len(c) # 1
    <2>1. 1 \in 1 .. Len(n) /\ 2 \in 1 .. Len(c)
      <3>1. \A l \in Nat : 1 \in 1 .. l /\ l # 1 => 1 \in 1 .. (l - 1) /\ 2 \in 1 .. l
        OBVIOUS
      <3> QED
        BY <1>4, <1>8, <1>14, <3>1
    <2>2. n[1] = c[2] /\ n # <<>>
      BY <1>8, <2>1
    <2>3. c[2] \in Elements
      BY <1>4, <2>1, ElementOfSeq
    <2>4. it'.elem = n[1].key /\ it'.elem \in Keys
      BY <1>11, <1>12, <1>14, <2>2, <2>3 DEF Elements
    <2>5. it' \in [index : Int, elem : Keys \cup {NULL}]
      BY <1>1, <1>11, <2>4 DEF HashTypeOK
    <2>6. Iterating'
      <3>1. \A d \in Buckets : d < b => table'[d] = <<>>
        BY <1>1, <1>9, <1>3 DEF Iterating, Buckets
      <3>2. it'.elem # NULL
        BY <2>4, HashAssumption
      <3> QED
        BY <1>3, <1>9, <1>11, <2>2, <2>4, <3>1, <3>2 DEF Iterating
    <2> QED
      BY <1>6, <2>5, <2>6 DEF HashInv, HashTypeOK
  <1> QED
    BY <1>13, <1>14

-----------------------------------------------------------------------------
(* Theorems *)

THEOREM HashInvariant == Spec => []HashInv
  <1>1. HashInv /\ [Next]_vars => HashInv'
    <2> SUFFICES ASSUME HashInv, [Next]_vars PROVE HashInv'
      OBVIOUS
    <2>1. ASSUME NEW key \in Keys, Logout(key) \/ \E data \in Data : Login(key, data)
          PROVE  HashInv'
      BY <2>1, CallsKeep
    <2>2. CASE HT_ITERATOR \/ NextChain
      BY <2>2, IteratorKeeps
    <2>3. CASE ClearElement
      BY <2>3, ClearKeeps
    <2>4. CASE UNCHANGED vars
      <3>1. table' = table /\ e_num' = e_num /\ it' = it
        BY <2>4 DEF vars
      <3>2. GoodChains' /\ Counted'
        BY <3>1, SameTable DEF HashInv
      <3> QED
        BY <3>1, <3>2 DEF HashInv, HashTypeOK, Iterating
    <2> QED
      BY <2>1, <2>2, <2>3, <2>4 DEF Next
  <1> QED
    BY <1>1, InitHash, PTL DEF Spec

\* However many names share a chain, a name has one element at most, in the
\* chain its hash leads to, and e_num is the number of names.
THEOREM OneElementPerName == Spec => []KeysFound
  <1>1. HashInv => KeysFound
    <2> SUFFICES ASSUME HashInv PROVE KeysFound
      OBVIOUS
    <2>1. ASSUME NEW b \in Buckets
          PROVE  \A i, j \in DOMAIN table[b] :
                   /\ hash[table[b][i].key] = b
                   /\ table[b][i].key = table[b][j].key => i = j
      <3>1. GoodChain(table[b], b)
        BY DEF HashInv, GoodChains
      <3>2. DOMAIN table[b] = 1 .. Len(table[b])
        BY <3>1, LenProperties DEF GoodChain
      <3> QED
        BY <3>1, <3>2 DEF GoodChain
    <2>2. e_num = Cardinality({k \in Keys : ht_get(k) # NULL})
      BY DEF HashInv, Counted, Present
    <2> QED
      BY <2>1, <2>2 DEF KeysFound
  <1> QED
    BY <1>1, HashInvariant, PTL

\* ht_clear never follows an element it has freed, and frees all of them.
THEOREM ClearFreesAll == Spec => []ClearEmpties
  <1>1. HashInv => ClearEmpties
    <2> SUFFICES ASSUME HashInv PROVE ClearEmpties
      OBVIOUS
    <2>1. ASSUME it.elem # NULL
          PROVE  \E i \in DOMAIN table[it.index] : table[it.index][i].key = it.elem
      <3>1. it \notin {Idle, Done}
        BY <2>1 DEF Idle, Done
      <3>2. /\ it.index \in Buckets /\ table[it.index] # <<>>
            /\ it.elem = table[it.index][1].key
        BY <2>1, <3>1 DEF HashInv, Iterating
      <3>3. table[it.index] \in Seq(Elements)
        BY <3>2 DEF HashInv, HashTypeOK
      <3>4. 1 \in DOMAIN table[it.index]
        BY <3>2, <3>3, EmptySeq, LenProperties
      <3> QED
        BY <3>2, <3>4
    <2>2. ASSUME it = Done
          PROVE  e_num = 0 /\ \A b \in Buckets : table[b] = <<>>
      <3>1. \A b \in Buckets : b < capacity
        BY HashAssumption DEF Buckets
      <3>2. \A b \in Buckets : table[b] = <<>>
        BY <2>2, <3>1 DEF HashInv, Iterating, Done
      <3>3. ASSUME NEW k \in Keys
            PROVE  ht_get(k) = NULL
        <4>1. GoodChain(table[hash[k]], hash[k]) /\ Len(table[hash[k]]) = 0
          BY <3>2, HashAssumption DEF HashInv, GoodChains
        <4> QED
          BY <4>1, LookupIs, GetIs
      <3>4. Present = {}
        BY <3>3 DEF Present
      <3> QED
        BY <3>2, <3>4, FS_EmptySet DEF HashInv, Counted
    <2> QED
      BY <2>1, <2>2 DEF ClearEmpties
  <1> QED
    BY <1>1, HashInvariant, PTL

\* The chains together are a function from names to structs: a put and a remove
\* change it at their name and nowhere else, and so does every round of ht_clear.
THEOREM NamesImplemented == Spec => ImplementsNames
  <1> DEFINE Players == [k \in Keys |-> ht_get(k)]
  <1>1. Init => Names!Init
    <2> SUFFICES ASSUME Init PROVE Names!Init
      OBVIOUS
    <2>1. HashInv
      BY InitHash
    <2>2. ASSUME NEW k \in Keys
          PROVE  ht_get(k) = NULL
      <3>1. GoodChain(table[hash[k]], hash[k]) /\ Len(table[hash[k]]) = 0
        BY <2>1, HashAssumption DEF Init, HashInv, GoodChains
      <3> QED
        BY <3>1, LookupIs, GetIs
    <2> QED
      BY <2>2 DEF Names!Init
  <1>2. HashInv /\ [Next]_vars => [Names!Next]_Players
    <2> SUFFICES ASSUME HashInv, [Next]_vars PROVE [Names!Next]_Players
      OBVIOUS
    <2>1. HashTypeOK /\ GoodChains /\ Counted /\ Iterating
      BY DEF HashInv
    <2>2. ASSUME NEW key \in Keys, ht_remove(key)
          PROVE  Names!Next
      <3>1. \A k \in Keys : ht_get(k)' = IF k = key THEN NULL ELSE ht_get(k)
        BY <2>1, <2>2, RemoveDoes
      <3>2. Players' = [Players EXCEPT ![key] = NULL]
        BY <3>1
      <3>3. Names!Remove(key)
        BY <3>2 DEF Names!Remove
      <3> QED
        BY <3>3 DEF Names!Next
    <2>3. ASSUME NEW key \in Keys, NEW data \in Data, ht_put(key, data)
          PROVE  Names!Next
      <3>1. \A k \in Keys : ht_get(k)' = IF k = key THEN data ELSE ht_get(k)
        BY <2>1, <2>3, PutDoes
      <3>2. Players' = [Players EXCEPT ![key] = data]
        BY <3>1
      <3>3. Names!Put(key, data)
        BY <3>2 DEF Names!Put
      <3> QED
        BY <3>3 DEF Names!Next
    <2>4. ASSUME UNCHANGED <<table, e_num>>
          PROVE  UNCHANGED Players
      BY <2>1, <2>4, SameTable
    <2>5. CASE \E key \in Keys : Logout(key) \/ \E data \in Data : Login(key, data)
      BY <2>2, <2>3, <2>5 DEF Logout, Login
    <2>6. CASE HT_ITERATOR \/ NextChain
      BY <2>4, <2>6 DEF HT_ITERATOR, NextChain
    <2>7. CASE ClearElement
      <3>1. it.elem \in Keys /\ ht_remove(it.elem)
        BY <2>1, <2>7 DEF ClearElement, HashTypeOK
      <3> QED
        BY <2>2, <3>1
    <2>8. CASE UNCHANGED vars
      BY <2>4, <2>8 DEF vars
    <2> QED
      BY <2>5, <2>6, <2>7, <2>8 DEF Next
  <1> QED
    BY <1>1, <1>2, HashInvariant, PTL DEF Spec, ImplementsNames, Names!Spec
=============================================================================
