------------------------------ MODULE HashTable ------------------------------
(***************************************************************************)
(* The chained hash table of kernel/lib/hash_table.c, which keeps a        *)
(* process's children by pid and the open files by path hash.  A bucket is *)
(* the sequence of the nodes of its chain, newest first.                   *)
(***************************************************************************)
EXTENDS Integers, Sequences, SequencesExt, FiniteSets

CONSTANTS Key, Value, Absent,
          Buckets       \* the bucket counts a table is created or resized with

ASSUME TableAssumption ==
  /\ Key \subseteq Nat
  /\ Buckets \subseteq Nat \ {0} /\ Buckets # {}
  /\ Absent \notin Value

VARIABLES buckets,      \* buckets[i + 1] is chain i; its length is num_buckets
          num_elems,
          tableRet

tableVars == <<buckets, num_elems, tableRet>>

EmptyTable(n) == [i \in 1 .. n |-> <<>>]
Index(b, k) == (k % Len(b)) + 1

\* Mutant: only the head of the chain is looked at
FindNodeHead(chain, k) == IF chain # <<>> /\ Head(chain).key = k THEN 1 ELSE 0

\* find_node: the position of the key in its chain, 0 if it is not there
FindNode(chain, k) ==
  IF \E i \in DOMAIN chain : chain[i].key = k
    THEN CHOOSE i \in DOMAIN chain :
           chain[i].key = k /\ \A j \in 1 .. i - 1 : chain[j].key # k
    ELSE 0

Chain(k) == buckets[Index(buckets, k)]
FoundKey(k) == FindNode(Chain(k), k)
Node(k) == Chain(k)[FoundKey(k)]

TableInit ==
  /\ \E n \in Buckets : buckets = EmptyTable(n)
  /\ num_elems = 0
  /\ tableRet = Absent

Insert(k, v) ==
  /\ buckets' = [buckets EXCEPT ![Index(buckets, k)] =
                   IF FoundKey(k) = 0 THEN <<[key |-> k, value |-> v]>> \o @
                   ELSE [@ EXCEPT ![FoundKey(k)].value = v]]
  /\ num_elems' = IF FoundKey(k) = 0 THEN num_elems + 1 ELSE num_elems
  /\ tableRet' = IF FoundKey(k) = 0 THEN v ELSE Node(k).value

Get(k) ==
  /\ tableRet' = IF FoundKey(k) = 0 THEN Absent ELSE Node(k).value
  /\ UNCHANGED <<buckets, num_elems>>

RemoveKey(k) ==
  IF FoundKey(k) = 0
    THEN tableRet' = Absent /\ UNCHANGED <<buckets, num_elems>>
    ELSE /\ buckets' = [buckets EXCEPT ![Index(buckets, k)] = RemoveAt(@, FoundKey(k))]
         /\ num_elems' = num_elems - 1
         /\ tableRet' = Node(k).value

\* the head of the first chain that is not empty, looked up by its key
GetAny ==
  LET used == {i \in DOMAIN buckets : buckets[i] # <<>>}
      k == Head(buckets[CHOOSE i \in used : \A j \in used : i <= j]).key IN
  /\ tableRet' = IF used = {} THEN Absent ELSE Node(k).value
  /\ UNCHANGED <<buckets, num_elems>>

\* the first node, chain by chain, whose value meets the condition
Find(V) ==
  LET all == FlattenSeq(buckets)
      hits == {i \in DOMAIN all : all[i].value \in V} IN
  /\ tableRet' = IF hits = {} THEN Absent
            ELSE all[CHOOSE i \in hits : \A j \in hits : i <= j].value
  /\ UNCHANGED <<buckets, num_elems>>

TableClear ==
  /\ buckets' = EmptyTable(Len(buckets))
  /\ num_elems' = 0
  /\ tableRet' = Absent

\* hash_table_copy into a fresh array of n chains: each chain is read from its
\* head and each node inserted in front
Resize(n) ==
  /\ buckets' = [i \in 1 .. n |->
                   SelectSeq(Reverse(FlattenSeq(buckets)), LAMBDA x : (x.key % n) + 1 = i)]
  /\ num_elems' = Len(FlattenSeq(buckets))
  /\ tableRet' = Absent

TableNext ==
  \/ \E k \in Key : Get(k) \/ RemoveKey(k) \/ \E v \in Value : Insert(k, v)
  \/ GetAny
  \/ \E V \in SUBSET Value : Find(V)
  \/ TableClear
  \/ \E n \in Buckets : Resize(n)

TableSpec == TableInit /\ [][TableNext]_tableVars

-----------------------------------------------------------------------------
(* A key is in its own chain and there once, so that num_elems is the number *)
(* of keys and a lookup cannot miss or find a stale node, after any          *)
(* insertions, removals and resizes.                                         *)
ChainsPlaced ==
  /\ \A i \in DOMAIN buckets : \A j \in DOMAIN buckets[i] : Index(buckets, buckets[i][j].key) = i
  /\ LET all == FlattenSeq(buckets)
     IN /\ \A i, j \in DOMAIN all : all[i].key = all[j].key => i = j
        /\ num_elems = Len(all)

(* hash_table.c implements a dictionary, and its chains are always placed.   *)
Dict == INSTANCE Dictionary WITH
  ret <- tableRet,
  map <- [k \in Key |-> IF FoundKey(k) = 0 THEN Absent ELSE Node(k).value]
ImplementsDictionary == Dict!Spec /\ []ChainsPlaced
=============================================================================
