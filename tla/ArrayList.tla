------------------------------ MODULE ArrayList ------------------------------
(***************************************************************************)
(* The growing array of kernel/lib/array_list.c, which process.c uses as   *)
(* the table of file descriptors: process_register_fd is push,             *)
(* process_replace_fd is set, process_remove_fd is remove, process_fork    *)
(* duplicates the table and reap_prepare clears it.                        *)
(***************************************************************************)
EXTENDS Integers, Sequences, FiniteSets

CONSTANTS Item, Null,
          InitCap, Growth,
          ListLimit,       \* bound: slots the checked tables may grow to
          Word         \* size_t counts modulo this

ASSUME ListAssumption ==
  /\ InitCap \in Nat /\ Growth \in Nat \ {0}
  /\ ListLimit \in Nat /\ Word \in Nat \ {0}
  /\ Null \notin Item

VARIABLES buffer,   \* slot i is buffer[i + 1]; its length is cap
          count, hint,
          listRet       \* what the last operation returned

listVars == <<buffer, count, hint, listRet>>

Cap == Len(buffer)
Nulls(n) == [i \in 1 .. n |-> Null]

ListInit ==
  /\ buffer = Nulls(InitCap)
  /\ count = 0 /\ hint = 0
  /\ listRet = Null

Extend(b, growth) == b \o Nulls(growth)

\* Mutant: the slot at hint is taken to be free
FirstFreeAtHint == hint

\* the first slot from hint on that is free, cap if there is none
FirstFree ==
  CHOOSE i \in hint .. Cap :
    /\ i < Cap => buffer[i + 1] = Null
    /\ \A j \in hint .. i - 1 : buffer[j + 1] # Null

Push(v) ==
  LET b == IF FirstFree < Cap THEN buffer ELSE Extend(buffer, Growth) IN
  /\ Len(b) <= ListLimit
  /\ buffer' = [b EXCEPT ![FirstFree + 1] = v]
  /\ count' = (count + 1) % Word
  /\ hint' = FirstFree + 1
  /\ listRet' = FirstFree

\* the count and the hint are left alone
Set(i, v) ==
  LET b == IF i < Cap THEN buffer ELSE Extend(buffer, i - Cap + 1) IN
  /\ Len(b) <= ListLimit
  /\ buffer' = [b EXCEPT ![i + 1] = v]
  /\ listRet' = b[i + 1]
  /\ UNCHANGED <<count, hint>>

\* an index beyond the buffer returns null and changes nothing; a slot inside
\* it is counted as removed whether or not it held anything
ListRemove(i) ==
  IF i >= Cap
    THEN listRet' = Null /\ UNCHANGED <<buffer, count, hint>>
    ELSE /\ buffer' = [buffer EXCEPT ![i + 1] = Null]
         /\ count' = (count - 1) % Word
         /\ hint' = IF i < hint THEN i ELSE hint
         /\ listRet' = buffer[i + 1]

ListClear ==
  /\ buffer' = Nulls(Cap)
  /\ count' = 0 /\ hint' = 0
  /\ listRet' = Null

\* array_list_dup; the checks go on with the copy
Dup ==
  /\ \E d \in [Item -> Item] :
       buffer' = [i \in DOMAIN buffer |-> IF buffer[i] = Null THEN Null ELSE d[buffer[i]]]
  /\ listRet' = Null
  /\ UNCHANGED <<count, hint>>

ListNext ==
  \/ \E v \in Item : Push(v) \/ \E i \in 0 .. ListLimit - 1 : Set(i, v)
  \/ \E i \in 0 .. ListLimit - 1 : ListRemove(i)
  \/ ListClear \/ Dup

ListSpec == ListInit /\ [][ListNext]_listVars

-----------------------------------------------------------------------------
(* No slot below hint is free, so the scan of array_list_push that starts    *)
(* there misses none, after any mix of pushes, sets, removals and copies.    *)
HintLow == \A i \in 1 .. hint : buffer[i] # Null

\* the descriptors: slots beyond the buffer are free
Slots(b) == [i \in 0 .. ListLimit - 1 |-> IF i < Len(b) THEN b[i + 1] ELSE Null]

(* array_list.c implements the descriptor table: push hands out the lowest   *)
(* free descriptor and never one in use, growing the buffer when it must,    *)
(* and HintLow, on which that rests, always holds.                           *)
Table == INSTANCE SlotTable WITH
  Slot <- 0 .. ListLimit - 1,
  ret <- listRet,
  table <- Slots(buffer)
ImplementsTable == Table!Spec /\ []HintLow
=============================================================================
