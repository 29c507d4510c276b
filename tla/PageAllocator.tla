---------------------------- MODULE PageAllocator ----------------------------
(***************************************************************************)
(* The range allocator of kernel/core/mm.c: mm_init builds the list of     *)
(* free physical ranges from the firmware's memory map, mm_alloc_max cuts  *)
(* a block out of one of them, mm_free puts one back with insert_node.     *)
(* The v list is the same code with one initial segment.                   *)
(*                                                                         *)
(* The code keeps the ranges in a doubly linked list in address order      *)
(* between two guard nodes of base 0.  Here the list is the set of its     *)
(* nodes: the neighbours of a node are the nearest bases below and above.  *)
(* Every list operation is one critical section of p_lock.                 *)
(***************************************************************************)
EXTENDS Integers, FiniteSets

CONSTANTS Segment,        \* the firmware's MEM_AVL segments, [base, size]
          KernelLimit,    \* first address above the kernel image
          PageSize,
          MAX_INIT_NODES, \* nodes mm_init has before the heap exists
          Size, MmAlign, MmLimit   \* the arguments callers pass to mm_alloc_max

ASSUME PageAssumption ==
  /\ PageSize \in Nat \ {0}
  /\ KernelLimit \in Nat \ {0}
  /\ MAX_INIT_NODES \in Nat
  /\ Segment \subseteq [base : Nat, size : Nat]
  /\ Size \subseteq Nat /\ MmAlign \subseteq Nat /\ MmLimit \subseteq Nat

VARIABLES free,      \* the nodes of the free list
          used,      \* addresses handed out and not given back
          reuse,     \* length of reuse_nodes
          segs,      \* segments mm_init has still to visit
          accepted,  \* ranges mm_init put on the list
          phase,     \* "init", "run" or "panic"
          mmRet        \* the last call and what it returned (0: nothing)

mmVars == <<free, used, reuse, segs, accepted, phase, mmRet>>

End(n) == n.base + n.size
Span(base, size) == base .. base + size - 1
Cover(nodes) == UNION {Span(n.base, n.size) : n \in nodes}
NoCall == [size |-> 0, align |-> 0, max |-> 0, at |-> 0]

RoundUp(size) == IF size % PageSize = 0 THEN size ELSE size + PageSize - (size % PageSize)

-----------------------------------------------------------------------------
(* insert_node.                                                              *)

\* the node the search stops at, and the one before it (empty: a guard)
InsertBefore(node) == {m \in free : m.base >= node.base /\ \A q \in free : q.base >= node.base => m.base <= q.base}
Prev(node) == {m \in free : m.base < node.base /\ \A q \in free : q.base < node.base => m.base >= q.base}

\* the only overlap that makes insert_node return 1
Overlaps(node) == \E m \in InsertBefore(node) : End(node) > m.base

\* Mutant: a node is never merged with the one before it
JoinPrevNone(node) == {}

\* the neighbours that are merged with the new node
JoinPrev(node) == {m \in Prev(node) : End(m) = node.base}
JoinNext(node) == {m \in InsertBefore(node) : End(node) = m.base}

Merged(node) ==
  [base |-> IF JoinPrev(node) = {} THEN node.base
            ELSE (CHOOSE m \in JoinPrev(node) : TRUE).base,
   size |-> node.size
            + (IF JoinPrev(node) = {} THEN 0 ELSE (CHOOSE m \in JoinPrev(node) : TRUE).size)
            + (IF JoinNext(node) = {} THEN 0 ELSE (CHOOSE m \in JoinNext(node) : TRUE).size)]

InsertNode(node) == (free \ (JoinPrev(node) \cup JoinNext(node))) \cup {Merged(node)}
NodesFreed(node) == Cardinality(JoinPrev(node)) + Cardinality(JoinNext(node))

-----------------------------------------------------------------------------
(* mm_init.                                                                  *)

\* whole pages are dropped while the segment starts below the kernel's limit
AboveKernel(s) ==
  LET k == CHOOSE k \in 0 .. s.size :
             /\ \A j \in 0 .. k - 1 :
                  s.size - j * PageSize > PageSize /\ s.base + j * PageSize < KernelLimit
             /\ ~(s.size - k * PageSize > PageSize /\ s.base + k * PageSize < KernelLimit)
  IN [base |-> s.base + k * PageSize, size |-> s.size - k * PageSize]

\* the base is rounded up and the size down to whole pages
Trim(s) ==
  LET a == RoundUp(s.base) - s.base
  IN [base |-> s.base + a, size |-> ((s.size - a) \div PageSize) * PageSize]

Usable(s) ==
  LET k == AboveKernel(s)
  IN k.size >= PageSize /\ k.base >= KernelLimit /\ Trim(k).size >= PageSize

MmNode(s) == Trim(AboveKernel(s))

\* the firmware's map has no address twice, as far as whole pages above the kernel go:
\* insert_node would notice only some overlaps
ASSUME FirmwareAssumption ==
  \A s, t \in Segment :
    s # t /\ Usable(s) /\ Usable(t)
      => Span(MmNode(s).base, MmNode(s).size) \cap Span(MmNode(t).base, MmNode(t).size) = {}

MmInit ==
  /\ free = {} /\ used = {} /\ reuse = 0
  /\ segs = Segment /\ accepted = {}
  /\ phase = "init"
  /\ mmRet = NoCall

\* segments that are too small, inside the kernel or beyond the node table
\* are skipped; an overlap that insert_node reports is a panic
InitSegment(s) ==
  /\ phase = "init"
  /\ s \in segs
  /\ segs' = segs \ {s}
  /\ IF ~Usable(s) \/ Cardinality(accepted) = MAX_INIT_NODES
       THEN UNCHANGED <<free, reuse, accepted, phase>>
       ELSE IF Overlaps(MmNode(s))
              THEN phase' = "panic" /\ UNCHANGED <<free, reuse, accepted>>
              ELSE /\ free' = InsertNode(MmNode(s))
                   /\ reuse' = reuse + NodesFreed(MmNode(s))
                   /\ accepted' = accepted \cup {MmNode(s)}
                   /\ UNCHANGED phase
  /\ UNCHANGED <<used, mmRet>>

InitDone ==
  /\ phase = "init"
  /\ segs = {}
  /\ phase' = "run"
  /\ UNCHANGED <<free, used, reuse, segs, accepted, mmRet>>

-----------------------------------------------------------------------------
(* mm_alloc_max: the search runs from the highest node down, takes the first *)
(* that ends below max and holds size + align, and cuts the block from its   *)
(* low end, after align - base % align bytes that become a node of their own.*)

Fits(n, size, align, max) == End(n) < max /\ n.size >= RoundUp(size) + align

FoundNode(size, align, max) ==
  {n \in free : /\ Fits(n, size, align, max)
                /\ \A m \in free : Fits(m, size, align, max) => m.base <= n.base}

\* Mutant: the padding is the remainder itself
AdjRemainder(n, align) == IF align = 0 THEN 0 ELSE n.base % align

Adj(n, align) == IF align = 0 THEN 0 ELSE align - (n.base % align)

\* what is left of node n: the padding in front of the block and the rest
Rest(n, size, align) ==
  {m \in {[base |-> n.base, size |-> Adj(n, align)],
          [base |-> n.base + Adj(n, align) + RoundUp(size),
           size |-> n.size - Adj(n, align) - RoundUp(size)]} : m.size > 0}

\* alloc_node takes from reuse_nodes or from the heap
AllocNode(k) == IF k > 0 THEN k - 1 ELSE k

\* a spare node is taken whenever align is set; a call that fails keeps it
MmAllocMax(size, align, max) ==
  LET spare == IF align = 0 THEN reuse ELSE AllocNode(reuse) IN
  /\ phase = "run"
  /\ \/ /\ size = 0 \/ align % PageSize # 0 \/ FoundNode(size, align, max) = {}
        /\ mmRet' = [size |-> size, align |-> align, max |-> max, at |-> 0]
        /\ reuse' = spare
        /\ UNCHANGED <<free, used>>
     \/ /\ size # 0 /\ align % PageSize = 0
        /\ \E n \in FoundNode(size, align, max) :
             /\ free' = (free \ {n}) \cup Rest(n, size, align)
             /\ used' = used \cup Span(n.base + Adj(n, align), RoundUp(size))
             /\ mmRet' = [size |-> size, align |-> align, max |-> max, at |-> n.base + Adj(n, align)]
             /\ reuse' = IF n.size = Adj(n, align) + RoundUp(size) THEN spare + 1 ELSE spare
  /\ UNCHANGED <<segs, accepted, phase>>

(* mm_free of a block, or of whole pages of one, that the caller was given.  *)
MmFree(base, size) ==
  LET node == [base |-> base, size |-> RoundUp(size)] IN
  /\ phase = "run"
  /\ size > 0 /\ base % PageSize = 0
  /\ Span(base, node.size) \subseteq used
  /\ used' = used \ Span(base, node.size)
  /\ IF Overlaps(node)
       THEN free' = free /\ reuse' = AllocNode(reuse)
       ELSE free' = InsertNode(node) /\ reuse' = AllocNode(reuse) + NodesFreed(node)
  /\ mmRet' = NoCall
  /\ UNCHANGED <<segs, accepted, phase>>

MmNext ==
  \/ \E s \in Segment : InitSegment(s)
  \/ InitDone
  \/ \E size \in Size, align \in MmAlign, max \in MmLimit : MmAllocMax(size, align, max)
  \/ \E base \in used, size \in Size : MmFree(base, size)

MmSpec == MmInit /\ [][MmNext]_mmVars

-----------------------------------------------------------------------------
Extent == [base : Nat, size : Nat]

MmTypeOK ==
  /\ free \subseteq Extent
  /\ used \subseteq Nat
  /\ reuse \in Nat
  /\ segs \subseteq Segment
  /\ accepted \subseteq Extent
  /\ phase \in {"init", "run", "panic"}
  /\ mmRet \in [size : Nat, align : Nat, max : Nat, at : Nat]

(* The free list stays a list of maximal ranges: no two nodes overlap and    *)
(* none could be merged, whatever sequence of mm_alloc_max cuts and mm_free  *)
(* merges produced it.                                                       *)
Coalesced == \A m, n \in free : m # n => End(m) < n.base \/ End(n) < m.base

(* No address is handed out twice or handed out while it is free: what       *)
(* mm_alloc_max returned stays out of the free list until mm_free.           *)
NothingTwice == \A n \in free : Span(n.base, n.size) \cap used = {}

(* mm_alloc_max and mm_free lose no memory: free and used addresses          *)
(* together are exactly those of the ranges mm_init accepted.  PagesSound is *)
(* the conjunction of the four.                                              *)
Conserved == Cover(free) \cup used = Cover(accepted)

PagesSound == MmTypeOK /\ Coalesced /\ NothingTwice /\ Conserved

(* A successful mm_alloc_max returns whole pages, aligned as asked and       *)
(* ending below max, that nobody held before the call.                       *)
HonoursRequest ==
  [][mmRet'.at # 0 /\ used' # used =>
       /\ mmRet'.at % PageSize = 0
       /\ mmRet'.align # 0 => mmRet'.at % mmRet'.align = 0
       /\ mmRet'.at + mmRet'.size < mmRet'.max
       /\ Span(mmRet'.at, mmRet'.size) \cap used = {}
       /\ used' \ used = Span(mmRet'.at, RoundUp(mmRet'.size))]_mmVars
=============================================================================
