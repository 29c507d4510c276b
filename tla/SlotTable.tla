------------------------------ MODULE SlotTable ------------------------------
(* What a descriptor table promises its process: a new entry goes to the     *)
(* lowest free slot, and no entry moves or changes unless its slot is named. *)
EXTENDS Integers, FiniteSetsExt

CONSTANTS Slot,     \* slots, an initial segment of the naturals
          Item, Null

VARIABLES table, ret

Init == table = [i \in Slot |-> Null] /\ ret = Null

Free == {i \in Slot : table[i] = Null}

Register(v) ==
  /\ Free # {}
  /\ table' = [table EXCEPT ![Min(Free)] = v]
  /\ ret' = Min(Free)

Replace(i, v) == table' = [table EXCEPT ![i] = v] /\ ret' = table[i]

Remove(i) == table' = [table EXCEPT ![i] = Null] /\ ret' = table[i]

Clear == table' = [i \in Slot |-> Null] /\ ret' = Null

(* a fork: the child's table has an entry for each of the parent's *)
Fork == /\ \E d \in [Item -> Item] :
             table' = [i \in Slot |-> IF table[i] = Null THEN Null ELSE d[table[i]]]
        /\ ret' = Null

Next ==
  \/ Clear
  \/ \E v \in Item : Register(v) \/ \E i \in Slot : Replace(i, v)
  \/ \E i \in Slot : Remove(i)
  \/ Fork

Spec == Init /\ [][Next]_<<table, ret>>
=============================================================================
