------------------------------ MODULE Dictionary ------------------------------
(* What a table of PCBs or open files promises: it holds the last value      *)
(* inserted under each key and nothing else.                                 *)
EXTENDS Integers, FiniteSets

CONSTANTS Key, Value, Absent

VARIABLES map,    \* Key -> Value, Absent where nothing is stored
          ret     \* what the last operation returned

Keys == {k \in Key : map[k] # Absent}

Init == map = [k \in Key |-> Absent] /\ ret = Absent

(* the old value, or the new one if the key is new *)
Insert(k, v) ==
  /\ map' = [map EXCEPT ![k] = v]
  /\ ret' = IF map[k] = Absent THEN v ELSE map[k]

Remove(k) == map' = [map EXCEPT ![k] = Absent] /\ ret' = map[k]

Get(k) == ret' = map[k] /\ UNCHANGED map

(* some value, if there is any (and if a condition is given, one that meets it) *)
GetAny(V) ==
  /\ \/ \E k \in Keys : map[k] \in V /\ ret' = map[k]
     \/ (\A k \in Keys : map[k] \notin V) /\ ret' = Absent
  /\ UNCHANGED map

Clear == map' = [k \in Key |-> Absent] /\ ret' = Absent

(* hash_table_resize is not visible *)
Resize == ret' = Absent /\ UNCHANGED map

Next ==
  \/ Resize \/ Clear
  \/ \E k \in Key : Remove(k) \/ Get(k) \/ \E v \in Value : Insert(k, v)
  \/ \E V \in SUBSET Value : GetAny(V)

Spec == Init /\ [][Next]_<<map, ret>>
=============================================================================
