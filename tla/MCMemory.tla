------------------------------ MODULE MCMemory ------------------------------
(* The kernel's memory and its containers for TLC: the range allocator, the  *)
(* heap, the array list and the hash table, one of them moving in each       *)
(* behaviour.  Addresses of the range allocator are in half pages, sizes of  *)
(* the heap in halves of ALLOC_ALIGN.                                        *)
EXTENDS PageAllocator, Heap, ArrayList, HashTable, TLC

VARIABLE part     \* the component that moves

Seg(b, s) == [base |-> b, size |-> s]

\* one segment that straddles the kernel's limit, one that is misaligned at
\* both ends, one adjacent to it, one too small, one below the kernel
Firmware == {Seg(2, 7), Seg(13, 6), Seg(18, 8), Seg(27, 2), Seg(0, 2)}

Init == /\ MmInit /\ HeapInit /\ ListInit /\ TableInit
        /\ part \in {"mm", "heap", "list", "table"}
        /\ part = "table" \/ Len(buckets) = 1

Next ==
  /\ UNCHANGED part
  /\ \/ part = "mm" /\ MmNext /\ UNCHANGED <<heapVars, listVars, tableVars>>
     \/ part = "heap" /\ HeapNext /\ UNCHANGED <<mmVars, listVars, tableVars>>
     \/ part = "list" /\ ListNext /\ UNCHANGED <<mmVars, heapVars, tableVars>>
     \/ part = "table" /\ TableNext /\ UNCHANGED <<mmVars, heapVars, listVars>>

Spec == Init /\ [][Next]_<<part, mmVars, heapVars, listVars, tableVars>>

Symmetry == Permutations(Thread) \cup Permutations(Arena)
=============================================================================
