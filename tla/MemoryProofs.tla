---------------------------- MODULE MemoryProofs ----------------------------
(***************************************************************************)
(* Proofs about the kernel's memory and containers: PageAllocator, for     *)
(* every memory map without overlaps, page size and request, ArrayList,    *)
(* for every initial capacity, growth and number of slots, and Heap, for   *)
(* any threads, arenas, requests, alignment and sizes of header and arena. *)
(***************************************************************************)
EXTENDS PageAllocator, ArrayList, Heap, FiniteSetTheorems, SequenceTheorems, WellFoundedInduction,
        TLAPS

(* Division as mm.c uses it to round to pages and to alignments.             *)
LEMMA DivMod ==
  ASSUME NEW x \in Int, NEW d \in Nat \ {0}
  PROVE  x \div d \in Int /\ x % d \in 0 .. d - 1 /\ x = (x \div d) * d + (x % d)
OBVIOUS

(* Quotients of natural numbers are natural numbers.                         *)
LEMMA DivModNat ==
  ASSUME NEW x \in Nat, NEW d \in Nat \ {0}
  PROVE  x \div d \in Nat
OBVIOUS

(* A multiple leaves no remainder.                                           *)
LEMMA MultipleMod ==
  ASSUME NEW k \in Int, NEW d \in Nat \ {0}
  PROVE  (k * d) % d = 0
OBVIOUS

(* Multiples add up.                                                         *)
LEMMA SumOfMultiples ==
  ASSUME NEW x \in Nat, NEW y \in Nat, NEW d \in Nat \ {0}, x % d = 0, y % d = 0
  PROVE  (x + y) % d = 0 /\ (x - y) % d = 0
<1> DEFINE i == x \div d  j == y \div d
<1>1. i \in Int /\ j \in Int /\ x = i * d /\ y = j * d
  BY DivMod
<1> HIDE DEF i, j
<1>2. x + y = (i + j) * d /\ i + j \in Int /\ x - y = (i - j) * d /\ i - j \in Int
  BY <1>1
<1> QED
  BY <1>2, MultipleMod

(* A multiple of the alignment is a multiple of the page size.               *)
LEMMA MultipleOfMultiple ==
  ASSUME NEW x \in Nat, NEW a \in Nat \ {0}, NEW d \in Nat \ {0}, x % a = 0, a % d = 0
  PROVE  x % d = 0
<1> DEFINE i == x \div a  j == a \div d
<1>1. i \in Int /\ j \in Int /\ x = i * a /\ a = j * d
  BY DivMod
<1> HIDE DEF i, j
<1>2. x = (i * j) * d /\ i * j \in Int
  BY <1>1
<1> QED
  BY <1>2, MultipleMod

(* The next multiple above a number, as Adj and RoundUp compute it.          *)
LEMMA NextMultiple ==
  ASSUME NEW x \in Nat, NEW d \in Nat \ {0}
  PROVE  (x + d - (x % d)) % d = 0 /\ x + d - (x % d) \in Nat /\ x % d \in 0 .. d - 1
<1> DEFINE i == x \div d
<1>1. i \in Int /\ x % d \in 0 .. d - 1 /\ x = i * d + (x % d)
  BY x \in Int, DivMod
<1> HIDE DEF i
<1>2. x + d - (x % d) = (i + 1) * d /\ i + 1 \in Int
  BY <1>1
<1> QED
  BY <1>1, <1>2, MultipleMod

(* Sizes are rounded up to whole pages.                                      *)
LEMMA RoundUpProperties ==
  ASSUME NEW x \in Nat
  PROVE  RoundUp(x) \in Nat /\ RoundUp(x) >= x /\ RoundUp(x) % PageSize = 0
<1>1. (x + PageSize - (x % PageSize)) % PageSize = 0 /\ x + PageSize - (x % PageSize) \in Nat
      /\ x % PageSize \in 0 .. PageSize - 1
  BY PageAssumption, NextMultiple
<1> QED
  BY <1>1, PageAssumption DEF RoundUp

(* mm_init's loop over the pages of a segment ends after a number of rounds: *)
(* a set of natural numbers has a least element.                             *)
LEMMA LeastNatural ==
  ASSUME NEW S \in SUBSET Nat, S # {}
  PROVE  \E m \in S : \A n \in S : m <= n
<1> DEFINE R == OpToRel(<, Nat)
<1>1. \A x, y \in Nat : x < y => <<x, y>> \in R
  BY DEF OpToRel
<1>2. IsWellFoundedOn(R, Nat)
  BY NatLessThanWellFounded
<1> HIDE DEF R
<1>3. PICK m \in S : \A n \in S : ~(<<n, m>> \in R)
  BY <1>2, WFMin, Zenon
<1>4. \A n \in S : ~(n < m)
  BY <1>1, <1>3, Zenon
<1>5. \A n \in S : m <= n
  BY <1>4
<1> QED
  BY <1>5

-----------------------------------------------------------------------------
(* The range mm_init takes from a segment is whole pages.                    *)
LEMMA MmNodeType ==
  ASSUME NEW s \in Segment, Usable(s)
  PROVE  /\ MmNode(s) \in Extent /\ MmNode(s).size > 0
         /\ MmNode(s).base % PageSize = 0 /\ MmNode(s).size % PageSize = 0
<1> USE PageAssumption
<1> DEFINE Loop(k) == s.size - k * PageSize > PageSize /\ s.base + k * PageSize < KernelLimit
           stops == {k \in Nat : ~Loop(k)}
           done(k) == (\A j \in 0 .. k - 1 : Loop(j)) /\ ~Loop(k)
           n == CHOOSE k \in 0 .. s.size : done(k)
           A == AboveKernel(s)
<1>0. s.base \in Nat /\ s.size \in Nat
  OBVIOUS
<1>1. s.size \in stops
  <2>1. s.size * PageSize >= s.size
    BY <1>0
  <2> QED
    BY <1>0, <2>1
<1>2. \E k \in stops : \A j \in stops : k <= j
  BY <1>1, LeastNatural
<1>3. \E k \in 0 .. s.size : done(k)
  <2>1. PICK k \in stops : \A j \in stops : k <= j
    BY <1>2
  <2>2. k \in Nat /\ k <= s.size /\ ~Loop(k)
    BY <1>1, <2>1
  <2>3. \A j \in 0 .. k - 1 : Loop(j)
    BY <2>1
  <2>4. k \in 0 .. s.size
    BY <1>0, <2>2
  <2>5. done(k)
    BY <2>2, <2>3
  <2> QED
    BY <2>4, <2>5
<1>4. n \in 0 .. s.size /\ done(n)
  BY <1>3
<1>5. A = [base |-> s.base + n * PageSize, size |-> s.size - n * PageSize]
  BY DEF AboveKernel
<1>6. n \in Nat /\ n * PageSize \in Nat /\ s.size - n * PageSize >= 0
  <2>1. CASE n = 0
    BY <1>0, <1>4, <2>1
  <2>2. CASE n > 0
    <3>1. Loop(n - 1) /\ n \in Nat
      BY <1>0, <1>4, <2>2
    <3>2. (n - 1) * PageSize = n * PageSize - PageSize
      BY <3>1
    <3> QED
      BY <1>0, <3>1, <3>2
  <2> QED
    BY <1>0, <1>4, <2>1, <2>2
<1> HIDE DEF n
<1>7. A \in Extent
  BY <1>0, <1>5, <1>6 DEF Extent
<1> HIDE DEF A
<1> DEFINE a == RoundUp(A.base) - A.base
           q == (A.size - a) \div PageSize
<1>8. A.base + a = RoundUp(A.base) /\ A.base + a \in Nat /\ (A.base + a) % PageSize = 0 /\ a \in Int
  BY <1>7, RoundUpProperties DEF Extent
<1>10. MmNode(s) = [base |-> A.base + a, size |-> q * PageSize]
  BY DEF MmNode, Trim, A
<1>11. q * PageSize >= PageSize
  BY <1>10 DEF Usable, MmNode, A
<1> HIDE DEF a
<1>9a. A.size - a \in Int
  BY <1>7, <1>8 DEF Extent
<1>9. q \in Int
  BY <1>9a, DivMod
<1> HIDE DEF q
<1>12. (q * PageSize) % PageSize = 0 /\ q * PageSize \in Int
  BY <1>9, MultipleMod
<1> QED
  BY <1>8, <1>10, <1>11, <1>12 DEF Extent

-----------------------------------------------------------------------------
(* Every node is whole pages, and not empty.                                 *)
IsPaged(n) == n.size > 0 /\ n.base % PageSize = 0 /\ n.size % PageSize = 0
Paged == \A n \in free : IsPaged(n)

(* insert_node with a range that is not on the list: it reports no overlap,  *)
(* the list stays one of maximal ranges, and it covers the new range and     *)
(* what it covered before.                                                   *)
LEMMA InsertSound ==
  ASSUME free \subseteq Extent, Coalesced, Paged,
         NEW node \in Extent, IsPaged(node),
         \A m \in free : Span(m.base, m.size) \cap Span(node.base, node.size) = {}
  PROVE  /\ ~Overlaps(node)
         /\ InsertNode(node) \subseteq Extent
         /\ \A m \in InsertNode(node) : IsPaged(m)
         /\ \A m, n \in InsertNode(node) : m # n => End(m) < n.base \/ End(n) < m.base
         /\ \A x \in Nat : (\E m \in InsertNode(node) : x \in Span(m.base, m.size))
                             <=> (\E m \in free : x \in Span(m.base, m.size))
                                 \/ x \in Span(node.base, node.size)
         /\ NodesFreed(node) \in Nat
<1> USE PageAssumption
<1> DEFINE P == JoinPrev(node)
           N == JoinNext(node)
           M == Merged(node)
<1>1. \A m \in free : m.base \in Nat /\ m.size \in Nat /\ m.size > 0 /\ End(m) = m.base + m.size
                      /\ m.base % PageSize = 0 /\ m.size % PageSize = 0
  BY DEF Extent, Paged, IsPaged, End
<1>2. node.base \in Nat /\ node.size \in Nat /\ node.size > 0 /\ End(node) = node.base + node.size
      /\ node.base % PageSize = 0 /\ node.size % PageSize = 0
  BY DEF Extent, IsPaged, End
<1>3. \A m, n \in free : m # n => m.base + m.size < n.base \/ n.base + n.size < m.base
  BY DEF Coalesced, End
<1>4. \A m \in free : m.base + m.size <= node.base \/ node.base + node.size <= m.base
  <2>1. SUFFICES ASSUME NEW m \in free, ~(m.base + m.size <= node.base), ~(node.base + node.size <= m.base)
                 PROVE  FALSE
    OBVIOUS
  <2>2. CASE m.base >= node.base
    <3>1. m.base \in Span(m.base, m.size) /\ m.base \in Span(node.base, node.size)
      BY <1>1, <1>2, <2>1, <2>2 DEF Span
    <3> QED
      BY <3>1
  <2>3. CASE m.base < node.base
    <3>1. node.base \in Span(m.base, m.size) /\ node.base \in Span(node.base, node.size)
      BY <1>1, <1>2, <2>1, <2>3 DEF Span
    <3> QED
      BY <3>1
  <2> QED
    BY <1>1, <1>2, <2>2, <2>3
<1>5. ~Overlaps(node)
  BY <1>1, <1>2, <1>4 DEF Overlaps, InsertBefore
<1>6. P = {m \in free : m.base + m.size = node.base}
  <2>1. P \subseteq {m \in free : m.base + m.size = node.base}
    BY DEF JoinPrev, Prev, End
  <2>2. ASSUME NEW m \in free, m.base + m.size = node.base
        PROVE  m \in P
    <3>1. m.base < node.base
      BY <1>1, <1>2, <2>2
    <3>2. \A q \in free : q.base < node.base => m.base >= q.base
      <4> SUFFICES ASSUME NEW q \in free, q.base < node.base, ~(m.base >= q.base)
                   PROVE  FALSE
        OBVIOUS
      <4>1. m.base + m.size < q.base \/ q.base + q.size < m.base
        BY <1>1, <1>3
      <4> QED
        BY <1>1, <1>2, <2>2, <4>1
    <3> QED
      BY <2>2, <3>1, <3>2 DEF JoinPrev, Prev, End
  <2> QED
    BY <2>1, <2>2
<1>7. N = {m \in free : m.base = node.base + node.size}
  <2>1. N \subseteq {m \in free : m.base = node.base + node.size}
    BY DEF JoinNext, InsertBefore, End
  <2>2. ASSUME NEW m \in free, m.base = node.base + node.size
        PROVE  m \in N
    <3>1. m.base >= node.base
      BY <1>1, <1>2, <2>2
    <3>2. \A q \in free : q.base >= node.base => m.base <= q.base
      BY <1>1, <1>2, <1>4, <2>2
    <3> QED
      BY <2>2, <3>1, <3>2 DEF JoinNext, InsertBefore, End
  <2> QED
    BY <2>1, <2>2
<1>8. \A m, n \in P : m = n
  BY <1>1, <1>2, <1>3, <1>6
<1>9. \A m, n \in N : m = n
  BY <1>1, <1>2, <1>3, <1>7
<1> DEFINE p == CHOOSE m \in P : TRUE
           q == CHOOSE m \in N : TRUE
           lo == IF P = {} THEN node.base ELSE p.base
           ps == IF P = {} THEN 0 ELSE p.size
           ns == IF N = {} THEN 0 ELSE q.size
<1>10. P # {} => P = {p} /\ p \in free /\ p.base + p.size = node.base
  BY <1>6, <1>8
<1>11. N # {} => N = {q} /\ q \in free /\ q.base = node.base + node.size
  BY <1>7, <1>9
<1>12. M = [base |-> lo, size |-> node.size + ps + ns]
  BY DEF Merged
<1>13. InsertNode(node) = (free \ (P \cup N)) \cup {M}
  BY DEF InsertNode
<1>14. NodesFreed(node) = Cardinality(P) + Cardinality(N)
  BY DEF NodesFreed
<1>0. /\ P = {} => lo = node.base /\ ps = 0
      /\ P # {} => lo = p.base /\ ps = p.size
      /\ N = {} => ns = 0
      /\ N # {} => ns = q.size
  OBVIOUS
<1> HIDE DEF P, N, M, p, q, lo, ps, ns
<1>15. lo \in Nat /\ ps \in Nat /\ ns \in Nat /\ lo + ps = node.base
  BY <1>0, <1>1, <1>2, <1>10, <1>11
<1>16. lo % PageSize = 0 /\ ps % PageSize = 0 /\ ns % PageSize = 0
  <2>1. 0 % PageSize = 0
    OBVIOUS
  <2> QED
    BY <1>0, <1>1, <1>2, <1>10, <1>11, <2>1
<1>17. M \in Extent /\ M.base = lo /\ M.size = node.size + ps + ns
  BY <1>2, <1>12, <1>15 DEF Extent
<1>18. IsPaged(M)
  <2>0. node.size + ps \in Nat
    BY <1>2, <1>15
  <2>1. (node.size + ps) % PageSize = 0
    BY <1>2, <1>15, <1>16, SumOfMultiples
  <2>2. (node.size + ps + ns) % PageSize = 0
    BY <1>15, <1>16, <2>0, <2>1, SumOfMultiples
  <2>3. node.size + ps + ns > 0
    BY <1>2, <1>15
  <2> QED
    BY <1>16, <1>17, <2>2, <2>3 DEF IsPaged
<1>19. \A m \in free \ (P \cup N) : m.base + m.size < lo \/ lo + (node.size + ps + ns) < m.base
  <2>1. SUFFICES ASSUME NEW m \in free, m \notin P, m \notin N
                 PROVE  m.base + m.size < lo \/ lo + (node.size + ps + ns) < m.base
    OBVIOUS
  <2>2. m.base + m.size < node.base \/ node.base + node.size < m.base
    BY <1>1, <1>2, <1>4, <1>6, <1>7, <2>1
  <2>3. CASE m.base + m.size < node.base
    <3>1. CASE P = {}
      BY <1>0, <2>3, <3>1
    <3>2. CASE P # {}
      <4>1. m.base + m.size < p.base \/ p.base + p.size < m.base
        BY <1>3, <1>10, <2>1, <3>2
      <4> QED
        BY <1>0, <1>1, <1>2, <1>10, <2>1, <2>3, <3>2, <4>1
    <3> QED
      BY <3>1, <3>2
  <2>4. CASE node.base + node.size < m.base
    <3>1. CASE N = {}
      BY <1>0, <1>2, <1>15, <2>4, <3>1
    <3>2. CASE N # {}
      <4>1. m.base + m.size < q.base \/ q.base + q.size < m.base
        BY <1>3, <1>11, <2>1, <3>2
      <4>2. q.base + q.size < m.base
        BY <1>1, <1>2, <1>11, <2>1, <2>4, <3>2, <4>1
      <4>3. ns = q.size /\ q.base = node.base + node.size
        BY <1>0, <1>11, <3>2
      <4>4. lo + (node.size + ps + ns) = q.base + q.size
        BY <1>2, <1>15, <4>3
      <4> QED
        BY <4>2, <4>4
    <3> QED
      BY <3>1, <3>2
  <2> QED
    BY <2>2, <2>3, <2>4
<1>20. \A x \in Nat : x \in Span(M.base, M.size)
                        <=> \/ x \in Span(node.base, node.size)
                            \/ \E m \in P \cup N : x \in Span(m.base, m.size)
  <2>1. TAKE x \in Nat
  <2>2. x \in Span(M.base, M.size) <=> lo <= x /\ x < lo + (node.size + ps + ns)
    BY <1>2, <1>15, <1>17 DEF Span
  <2>3. x \in Span(node.base, node.size) <=> node.base <= x /\ x < node.base + node.size
    BY <1>2 DEF Span
  <2>4. (\E m \in P : x \in Span(m.base, m.size)) <=> lo <= x /\ x < lo + ps
    <3>1. CASE P = {}
      BY <1>0, <1>2, <1>15, <3>1
    <3>2. CASE P # {}
      BY <1>0, <1>1, <1>10, <3>2 DEF Span
    <3> QED
      BY <3>1, <3>2
  <2>5. (\E m \in N : x \in Span(m.base, m.size))
          <=> node.base + node.size <= x /\ x < node.base + node.size + ns
    <3>1. CASE N = {}
      BY <1>0, <1>2, <1>15, <3>1
    <3>2. CASE N # {}
      BY <1>0, <1>1, <1>11, <3>2 DEF Span
    <3> QED
      BY <3>1, <3>2
  <2>6. lo <= x /\ x < lo + (node.size + ps + ns)
          <=> \/ lo <= x /\ x < lo + ps
              \/ node.base <= x /\ x < node.base + node.size
              \/ node.base + node.size <= x /\ x < node.base + node.size + ns
    BY <1>2, <1>15
  <2> QED
    BY <2>2, <2>3, <2>4, <2>5, <2>6
<1>21. InsertNode(node) \subseteq Extent
  BY <1>13, <1>17
<1>22. \A m \in InsertNode(node) : IsPaged(m)
  BY <1>13, <1>18 DEF Paged
<1>23. \A m \in free \ (P \cup N) : End(m) < M.base \/ End(M) < m.base
  BY <1>17, <1>19 DEF End
<1>24. \A m, n \in InsertNode(node) : m # n => End(m) < n.base \/ End(n) < m.base
  BY <1>13, <1>23 DEF Coalesced
<1>25. P \subseteq free /\ N \subseteq free
  BY <1>6, <1>7
<1>26. \A x \in Nat : (\E m \in InsertNode(node) : x \in Span(m.base, m.size))
                        <=> (\E m \in free : x \in Span(m.base, m.size))
                            \/ x \in Span(node.base, node.size)
  <2>1. TAKE x \in Nat
  <2>2. (\E m \in InsertNode(node) : x \in Span(m.base, m.size))
          <=> \/ \E m \in free \ (P \cup N) : x \in Span(m.base, m.size)
              \/ x \in Span(M.base, M.size)
    BY <1>13, Zenon
  <2> QED
    BY <1>20, <1>25, <2>2, Zenon
<1>27. Cardinality(P) \in Nat /\ Cardinality(N) \in Nat
  <2>1. P = {} \/ P = {p}
    BY <1>10
  <2>2. N = {} \/ N = {q}
    BY <1>11
  <2>3. \A x : Cardinality({x}) = 1
    BY FS_Singleton, Zenon
  <2>4. Cardinality({}) \in Nat
    BY FS_EmptySet
  <2>5. Cardinality(P) \in Nat
    BY <2>1, <2>3, <2>4
  <2>6. Cardinality(N) \in Nat
    BY <2>2, <2>3, <2>4
  <2> QED
    BY <2>5, <2>6
<1> QED
  BY <1>5, <1>14, <1>21, <1>22, <1>24, <1>26, <1>27

(* The block mm_alloc_max cuts out of node n starts at a multiple of the     *)
(* alignment and of the page size, lies inside the node, and what is left of *)
(* the node is whole pages that neither overlap nor touch each other or the  *)
(* other nodes.                                                              *)
LEMMA AdjProperties ==
  ASSUME NEW n \in Extent, IsPaged(n), NEW align \in Nat, align % PageSize = 0
  PROVE  /\ Adj(n, align) \in Nat /\ Adj(n, align) <= align
         /\ n.base + Adj(n, align) \in Nat
         /\ Adj(n, align) % PageSize = 0
         /\ (n.base + Adj(n, align)) % PageSize = 0
         /\ align # 0 => (n.base + Adj(n, align)) % align = 0
<1> USE PageAssumption
<1>1. n.base \in Nat /\ n.base % PageSize = 0
  BY DEF Extent, IsPaged
<1>2. CASE align = 0
  <2>1. Adj(n, align) = 0
    BY <1>2 DEF Adj
  <2>2. 0 % PageSize = 0
    OBVIOUS
  <2>3. n.base + Adj(n, align) = n.base
    BY <1>1, <2>1
  <2>4. Adj(n, align) \in Nat /\ Adj(n, align) <= align
    BY <1>2, <2>1
  <2>5. Adj(n, align) % PageSize = 0
    BY <2>1, <2>2
  <2>6. (n.base + Adj(n, align)) % PageSize = 0 /\ n.base + Adj(n, align) \in Nat
    BY <1>1, <2>3
  <2> QED
    BY <1>2, <2>4, <2>5, <2>6
<1>3. CASE align # 0
  <2> DEFINE r == n.base % align
  <2>0. align \in Nat \ {0}
    BY <1>3
  <2>1. Adj(n, align) = align - r
    BY <1>3 DEF Adj
  <2>2. (n.base + align - r) % align = 0 /\ n.base + align - r \in Nat /\ r \in 0 .. align - 1
    BY <1>1, <2>0, NextMultiple
  <2> HIDE DEF r
  <2>3. align - r \in Nat /\ align - r <= align /\ n.base + (align - r) = n.base + align - r
    BY <1>1, <2>2
  <2> DEFINE lo == n.base + (align - r)
  <2>4. lo \in Nat /\ lo % align = 0 /\ lo - n.base = align - r
    BY <1>1, <2>2, <2>3
  <2> HIDE DEF lo
  <2>5. lo % PageSize = 0
    BY <2>0, <2>4, MultipleOfMultiple
  <2>6. (lo - n.base) % PageSize = 0
    BY <1>1, <2>4, <2>5, SumOfMultiples
  <2> QED
    BY <2>1, <2>3, <2>4, <2>5, <2>6 DEF lo
<1> QED
  BY <1>2, <1>3

CutKeeps(n, size, align, lo, F) ==
  /\ lo \in Nat /\ lo % PageSize = 0 /\ (align # 0 => lo % align = 0)
  /\ RoundUp(size) >= size /\ RoundUp(size) \in Nat /\ lo + RoundUp(size) <= End(n)
  /\ F \subseteq Extent
  /\ \A m \in F : IsPaged(m)
  /\ \A m, k \in F : m # k => End(m) < k.base \/ End(k) < m.base
  /\ \A x \in Nat : (\E m \in free : x \in Span(m.base, m.size))
                      <=> (\E m \in F : x \in Span(m.base, m.size)) \/ x \in Span(lo, RoundUp(size))
  /\ \A x \in Span(lo, RoundUp(size)) :
       /\ x \in Span(n.base, n.size)
       /\ ~\E m \in F : x \in Span(m.base, m.size)

(* Cutting a range out of a node keeps the list sound.                       *)
LEMMA CutSound ==
  ASSUME free \subseteq Extent, Coalesced, Paged,
         NEW n \in free, NEW size \in Nat, NEW align \in Nat,
         size # 0, align % PageSize = 0, n.size >= RoundUp(size) + align
  PROVE  CutKeeps(n, size, align, n.base + Adj(n, align), (free \ {n}) \cup Rest(n, size, align))
<1> USE PageAssumption
<1> DEFINE a == Adj(n, align)
           r == RoundUp(size)
           L == [base |-> n.base, size |-> a]
           H == [base |-> n.base + a + r, size |-> n.size - a - r]
           R == Rest(n, size, align)
           lo == n.base + Adj(n, align)
           F == (free \ {n}) \cup Rest(n, size, align)
<1>1. \A m \in free : m.base \in Nat /\ m.size \in Nat /\ m.size > 0
                      /\ m.base % PageSize = 0 /\ m.size % PageSize = 0
  BY DEF Extent, Paged, IsPaged
<1>2. \A m, k \in free : m # k => m.base + m.size < k.base \/ k.base + k.size < m.base
  BY DEF Coalesced, End
<1>3. r \in Nat /\ r >= size /\ r % PageSize = 0
  BY RoundUpProperties
<1>4. IsPaged(n) /\ n \in Extent
  BY DEF Paged
<1>5. /\ a \in Nat /\ a <= align /\ a % PageSize = 0
      /\ lo \in Nat /\ lo % PageSize = 0
      /\ align # 0 => lo % align = 0
  BY <1>4, AdjProperties
<1>6. R = {m \in {L, H} : m.size > 0}
  BY DEF Rest
<1>7. lo = n.base + a /\ n.size >= r + align
  OBVIOUS
<1>14. F = (free \ {n}) \cup R
  OBVIOUS
<1> HIDE DEF a, r, R, lo, F
<1>7a. n.base \in Nat /\ n.size \in Nat
  BY <1>1
<1>7b. n.size >= r + a
  BY <1>3, <1>5, <1>7, <1>7a
<1>7c. r > 0
  BY <1>3
<1>8. n.size - a - r \in Nat /\ n.base + a + r \in Nat /\ r > 0 /\ n.base + a + r <= n.base + n.size
  BY <1>3, <1>5, <1>7a, <1>7b, <1>7c
<1>9. L \in Extent /\ H \in Extent
  BY <1>1, <1>5, <1>8 DEF Extent
<1>10. (n.size - a - r) % PageSize = 0 /\ (n.base + a + r) % PageSize = 0
  <2>0. n.size - a \in Nat
    BY <1>3, <1>5, <1>7a, <1>7b
  <2>1. (n.size - a) % PageSize = 0
    BY <1>1, <1>5, SumOfMultiples
  <2>2. (lo + r) % PageSize = 0
    BY <1>3, <1>5, SumOfMultiples
  <2> QED
    BY <1>3, <1>7, <2>0, <2>1, <2>2, SumOfMultiples
<1>11. \A m \in R : m \in Extent /\ IsPaged(m)
  <2>1. L.size > 0 => IsPaged(L)
    BY <1>1, <1>5 DEF IsPaged
  <2>2. H.size > 0 => IsPaged(H)
    BY <1>10 DEF IsPaged
  <2> HIDE DEF L, H
  <2> QED
    BY <1>6, <1>9, <2>1, <2>2
<1>12. \A m \in R : n.base <= m.base /\ End(m) <= n.base + n.size
                    /\ (m = L \/ m = H)
  BY <1>1, <1>3, <1>5, <1>6, <1>8 DEF End
<1>13. End(L) < H.base
  BY <1>1, <1>3, <1>5, <1>8 DEF End
<1>15. F \subseteq Extent /\ \A m \in F : IsPaged(m)
  BY <1>11, <1>14 DEF Paged
<1>16. \A m, k \in F : m # k => End(m) < k.base \/ End(k) < m.base
  <2>1. ASSUME NEW m \in free \ {n}, NEW k \in R
        PROVE  End(m) < k.base \/ End(k) < m.base
    <3>1. m.base + m.size < n.base \/ n.base + n.size < m.base
      BY <1>2
    <3>2. k.base \in Nat /\ k.size \in Nat /\ n.base <= k.base /\ k.base + k.size <= n.base + n.size
      BY <1>11, <1>12 DEF Extent, End
    <3> QED
      BY <1>1, <3>1, <3>2 DEF End
  <2>2. ASSUME NEW m \in R, NEW k \in R, m # k
        PROVE  End(m) < k.base \/ End(k) < m.base
    <3> HIDE DEF L, H
    <3> QED
      BY <1>12, <1>13, <2>2
  <2> QED
    BY <1>14, <2>1, <2>2 DEF Coalesced
<1>17. \A x \in Nat : x \in Span(lo, r) <=> lo <= x /\ x < lo + r
  BY <1>3, <1>5 DEF Span
<1>18. \A x \in Nat : (\E m \in R : x \in Span(m.base, m.size))
                        <=> \/ n.base <= x /\ x < lo
                            \/ lo + r <= x /\ x < n.base + n.size
  <2>1. TAKE x \in Nat
  <2>2. L.size > 0 /\ x \in Span(L.base, L.size) <=> n.base <= x /\ x < lo
    BY <1>1, <1>5, <1>7 DEF Span
  <2>3. H.size > 0 /\ x \in Span(H.base, H.size) <=> lo + r <= x /\ x < n.base + n.size
    BY <1>1, <1>3, <1>5, <1>7, <1>8 DEF Span
  <2> HIDE DEF L, H
  <2>4. (\E m \in R : x \in Span(m.base, m.size))
          <=> \/ L.size > 0 /\ x \in Span(L.base, L.size)
              \/ H.size > 0 /\ x \in Span(H.base, H.size)
    BY <1>6
  <2> QED
    BY <2>2, <2>3, <2>4
<1>19. \A x \in Nat : x \in Span(n.base, n.size) <=> n.base <= x /\ x < n.base + n.size
  BY <1>1 DEF Span
<1>20. \A x \in Nat : x \in Span(n.base, n.size)
                        <=> (\E m \in R : x \in Span(m.base, m.size)) \/ x \in Span(lo, r)
  <2> TAKE x \in Nat
  <2>1. n.base <= x /\ x < n.base + n.size
          <=> \/ n.base <= x /\ x < lo
              \/ lo + r <= x /\ x < n.base + n.size
              \/ lo <= x /\ x < lo + r
    BY <1>1, <1>3, <1>5, <1>7, <1>8
  <2> QED
    BY <1>17, <1>18, <1>19, <2>1
<1>21. \A x \in Nat : (\E m \in free : x \in Span(m.base, m.size))
                        <=> (\E m \in F : x \in Span(m.base, m.size)) \/ x \in Span(lo, r)
  <2> TAKE x \in Nat
  <2>1. (\E m \in free : x \in Span(m.base, m.size))
          <=> (\E m \in free \ {n} : x \in Span(m.base, m.size)) \/ x \in Span(n.base, n.size)
    BY Zenon
  <2>2. (\E m \in F : x \in Span(m.base, m.size))
          <=> (\E m \in free \ {n} : x \in Span(m.base, m.size)) \/ (\E m \in R : x \in Span(m.base, m.size))
    BY <1>14, Zenon
  <2> QED
    BY <1>20, <2>1, <2>2, Zenon
<1>22. \A x \in Span(lo, r) : x \in Nat
  BY <1>3, <1>5 DEF Span
<1>23. ASSUME NEW x \in Span(lo, r)
       PROVE  x \in Span(n.base, n.size) /\ ~\E m \in F : x \in Span(m.base, m.size)
  <2>1. x \in Nat /\ x \in Span(n.base, n.size)
    BY <1>20, <1>22
  <2>2. ~\E m \in R : x \in Span(m.base, m.size)
    BY <1>3, <1>5, <1>17, <1>18, <2>1
  <2>3. ~\E m \in free \ {n} : x \in Span(m.base, m.size)
    <3>1. SUFFICES ASSUME NEW m \in free \ {n}, x \in Span(m.base, m.size)
                   PROVE  FALSE
      OBVIOUS
    <3>2. m.base <= x /\ x < m.base + m.size
      BY <1>1, <3>1 DEF Span
    <3>3. m.base + m.size < n.base \/ n.base + n.size < m.base
      BY <1>2
    <3> QED
      BY <1>1, <1>19, <2>1, <3>2, <3>3
  <2> QED
    BY <1>14, <2>1, <2>2, <2>3
<1>24. lo + r <= End(n)
  BY <1>7, <1>8 DEF End
<1>25. CutKeeps(n, size, align, lo, F)
  BY <1>3, <1>5, <1>15, <1>16, <1>21, <1>23, <1>24 DEF CutKeeps, r
<1> QED
  BY <1>25 DEF lo, F

-----------------------------------------------------------------------------
(* mm_init has handed nothing out, and every accepted range is that of a     *)
(* segment it has visited.                                                   *)
Visited ==
  /\ phase = "init" => used = {}
  /\ \A n \in accepted : \E s \in Segment \ segs : Usable(s) /\ n = MmNode(s)

PagesInv == MmTypeOK /\ Coalesced /\ NothingTwice /\ Conserved /\ Paged /\ Visited

(* The addresses of a set of ranges, and two such sets compared address by   *)
(* address.                                                                  *)
LEMMA CoverMember ==
  ASSUME NEW f, NEW x
  PROVE  x \in Cover(f) <=> \E n \in f : x \in Span(n.base, n.size)
BY DEF Cover

(* A list of nodes covers natural addresses only.                            *)
LEMMA CoverNat ==
  ASSUME NEW f, f \subseteq Extent
  PROVE  Cover(f) \subseteq Nat
<1>1. ASSUME NEW n \in Extent PROVE Span(n.base, n.size) \subseteq Nat
  BY DEF Span, Extent
<1> QED
  BY <1>1, CoverMember

Accounts(f, u, a) ==
  \A x \in Nat : (\E n \in f : x \in Span(n.base, n.size)) \/ x \in u
                   <=> \E n \in a : x \in Span(n.base, n.size)

(* Conservation, address by address.                                         *)
LEMMA SameCover ==
  ASSUME NEW f \in SUBSET Extent, NEW u \in SUBSET Nat, NEW a \in SUBSET Extent
  PROVE  (Cover(f) \cup u = Cover(a)) <=> Accounts(f, u, a)
<1>1. Cover(f) \subseteq Nat /\ Cover(a) \subseteq Nat
  BY CoverNat
<1>2. (Cover(f) \cup u = Cover(a)) <=> \A x \in Nat : x \in Cover(f) \/ x \in u <=> x \in Cover(a)
  BY <1>1
<1> QED
  BY <1>2, CoverMember, Zenon DEF Accounts

(* A segment that mm_init accepts: the firmware's map has its pages once, so *)
(* they are not on the list.                                                 *)
LEMMA InitKeeps ==
  ASSUME PagesInv, NEW s \in Segment, InitSegment(s)
  PROVE  PagesInv'
<1> DEFINE node == MmNode(s)
<1> USE DEF PagesInv
<1>0. phase = "init" /\ s \in segs /\ segs' = segs \ {s} /\ used' = used /\ mmRet' = mmRet
  BY DEF InitSegment
<1>1. CASE UNCHANGED <<free, reuse, accepted, phase>>
  <2>1. MmTypeOK'
    BY <1>0, <1>1 DEF MmTypeOK
  <2>2. Coalesced' /\ NothingTwice' /\ Conserved' /\ Paged'
    BY <1>0, <1>1 DEF Coalesced, NothingTwice, Conserved, Paged
  <2>3. Visited'
    BY <1>0, <1>1 DEF Visited
  <2> QED
    BY <2>1, <2>2, <2>3
<1>2. CASE Usable(s) /\ ~UNCHANGED <<free, reuse, accepted, phase>>
  <2>1. node \in Extent /\ IsPaged(node)
    BY <1>2, MmNodeType DEF IsPaged
  <2>2. free \subseteq Extent /\ accepted \subseteq Extent /\ used = {} /\ used \subseteq Nat
    BY <1>0 DEF MmTypeOK, Visited
  <2>3. \A x \in Nat : (\E n \in free : x \in Span(n.base, n.size)) \/ x \in used
                         <=> \E n \in accepted : x \in Span(n.base, n.size)
    <3>1. Conserved /\ free \in SUBSET Extent /\ used \in SUBSET Nat /\ accepted \in SUBSET Extent
      BY <2>2
    <3>2. Accounts(free, used, accepted)
      BY <3>1, SameCover DEF Conserved
    <3> QED
      BY <3>2 DEF Accounts
  <2>4. ASSUME NEW m \in free
        PROVE  Span(m.base, m.size) \cap Span(node.base, node.size) = {}
    <3>1. SUFFICES ASSUME NEW x \in Span(m.base, m.size), x \in Span(node.base, node.size)
                   PROVE  FALSE
      OBVIOUS
    <3>2. x \in Nat
      BY <2>2 DEF Extent, Span
    <3>3. PICK n \in accepted : x \in Span(n.base, n.size)
      BY <2>3, <3>2, Zenon
    <3>4. PICK t \in Segment \ segs : Usable(t) /\ n = MmNode(t)
      BY DEF Visited
    <3> QED
      BY <1>0, <1>2, <3>1, <3>3, <3>4, FirmwareAssumption
  <2> HIDE DEF node
  <2>5. /\ ~Overlaps(node)
        /\ InsertNode(node) \subseteq Extent
        /\ \A m \in InsertNode(node) : IsPaged(m)
        /\ \A m, n \in InsertNode(node) : m # n => End(m) < n.base \/ End(n) < m.base
        /\ \A x \in Nat : (\E m \in InsertNode(node) : x \in Span(m.base, m.size))
                            <=> (\E m \in free : x \in Span(m.base, m.size))
                                \/ x \in Span(node.base, node.size)
        /\ NodesFreed(node) \in Nat
    BY <2>1, <2>2, <2>4, InsertSound
  <2>6. /\ free' = InsertNode(node) /\ reuse' = reuse + NodesFreed(node)
        /\ accepted' = accepted \cup {node} /\ phase' = phase
    BY <1>2, <2>5 DEF InitSegment, node
  <2>7. MmTypeOK'
    BY <1>0, <2>1, <2>5, <2>6 DEF MmTypeOK
  <2>8. Coalesced'
    BY <2>5, <2>6 DEF Coalesced, End
  <2>9. Paged'
    BY <2>5, <2>6 DEF Paged, IsPaged
  <2>10. NothingTwice'
    BY <1>0, <2>2 DEF NothingTwice
  <2>11. Conserved'
    <3>1. \A x \in Nat : (\E n \in accepted' : x \in Span(n.base, n.size))
                           <=> (\E n \in accepted : x \in Span(n.base, n.size))
                               \/ x \in Span(node.base, node.size)
      BY <2>6, Zenon
    <3>2. \A x \in Nat : (\E n \in free' : x \in Span(n.base, n.size)) \/ x \in used'
                           <=> \E n \in accepted' : x \in Span(n.base, n.size)
      BY <1>0, <2>2, <2>3, <2>5, <2>6, <3>1
    <3>3. free' \in SUBSET Extent /\ used' \in SUBSET Nat /\ accepted' \in SUBSET Extent
      BY <2>7 DEF MmTypeOK
    <3>4. Accounts(free', used', accepted')
      BY <3>2 DEF Accounts
    <3>5. Cover(free') \cup used' = Cover(accepted')
      BY <3>3, <3>4, SameCover
    <3> QED
      BY <3>5 DEF Conserved, Cover, Span
  <2>12. Visited'
    <3>1. \A n \in accepted' : \E t \in Segment \ segs' : Usable(t) /\ n = MmNode(t)
      <4>1. \A n \in accepted : \E t \in Segment \ segs' : Usable(t) /\ n = MmNode(t)
        BY <1>0 DEF Visited
      <4>2. s \in Segment \ segs'
        BY <1>0
      <4> QED
        BY <1>2, <2>6, <4>1, <4>2 DEF node
    <3> QED
      BY <1>0, <2>2, <3>1 DEF Visited
  <2> QED
    BY <2>7, <2>8, <2>9, <2>10, <2>11, <2>12
<1>3. Usable(s) \/ UNCHANGED <<free, reuse, accepted, phase>>
  BY DEF InitSegment
<1> QED
  BY <1>1, <1>2, <1>3

(* mm_alloc_max takes the block from one node, and nobody else has it.       *)
LEMMA AllocKeeps ==
  ASSUME PagesInv, NEW size \in Size, NEW align \in MmAlign, NEW max \in MmLimit,
         MmAllocMax(size, align, max)
  PROVE  PagesInv'
<1> USE PageAssumption DEF PagesInv
<1>0. /\ phase = "run" /\ UNCHANGED <<segs, accepted, phase>>
      /\ size \in Nat /\ align \in Nat /\ max \in Nat
  BY DEF MmAllocMax
<1>1. reuse \in Nat /\ AllocNode(reuse) \in Nat
  BY DEF AllocNode, MmTypeOK
<1>2. CASE UNCHANGED <<free, used>> /\ reuse' \in Nat
           /\ mmRet' = [size |-> size, align |-> align, max |-> max, at |-> 0]
  <2>1. MmTypeOK'
    BY <1>0, <1>2 DEF MmTypeOK
  <2>2. Coalesced' /\ NothingTwice' /\ Conserved' /\ Paged' /\ Visited'
    BY <1>0, <1>2 DEF Coalesced, NothingTwice, Conserved, Paged, Visited
  <2> QED
    BY <2>1, <2>2
<1>3. ASSUME size # 0, align % PageSize = 0, reuse' \in Nat,
             NEW n \in FoundNode(size, align, max),
             free' = (free \ {n}) \cup Rest(n, size, align),
             used' = used \cup Span(n.base + Adj(n, align), RoundUp(size)),
             mmRet' = [size |-> size, align |-> align, max |-> max, at |-> n.base + Adj(n, align)]
      PROVE  PagesInv'
  <2> DEFINE lo == n.base + Adj(n, align)
  <2>1. n \in free /\ n.size >= RoundUp(size) + align
    BY DEF FoundNode, Fits
  <2>2. free \subseteq Extent /\ used \subseteq Nat /\ accepted \subseteq Extent
    BY DEF MmTypeOK
  <2>3. CutKeeps(n, size, align, lo, free')
    <3>1. CutKeeps(n, size, align, lo, (free \ {n}) \cup Rest(n, size, align))
      BY <1>0, <1>3, <2>1, <2>2, CutSound
    <3> QED
      BY <1>3, <3>1
  <2>4. Span(lo, RoundUp(size)) \subseteq Nat
    BY <2>3 DEF Span, CutKeeps
  <2>5. used' = used \cup Span(lo, RoundUp(size))
    BY <1>3
  <2>6. mmRet' \in [size : Nat, align : Nat, max : Nat, at : Nat]
    BY <1>0, <1>3, <2>3 DEF CutKeeps
  <2> HIDE DEF lo
  <2>7. MmTypeOK'
    BY <1>0, <1>3, <2>2, <2>3, <2>4, <2>5, <2>6 DEF MmTypeOK, CutKeeps
  <2>8. Coalesced'
    BY <2>3 DEF Coalesced, End, CutKeeps
  <2>9. Paged'
    BY <2>3 DEF Paged, IsPaged, CutKeeps
  <2>10. NothingTwice'
    <3>1. SUFFICES ASSUME NEW m \in free', NEW x \in Span(m.base, m.size), x \in used'
                   PROVE  FALSE
      BY DEF NothingTwice, Span
    <3>2. x \in Nat
      BY <2>3 DEF Extent, Span, CutKeeps
    <3>3. x \in used
      BY <2>3, <2>5, <3>1 DEF CutKeeps
    <3>4. \E k \in free : x \in Span(k.base, k.size)
      BY <2>3, <3>2 DEF CutKeeps
    <3> QED
      BY <3>3, <3>4 DEF NothingTwice
  <2>11. Conserved'
    <3>1. \A x \in Nat : (\E k \in free : x \in Span(k.base, k.size)) \/ x \in used
                           <=> \E k \in accepted : x \in Span(k.base, k.size)
      <4>1. Conserved /\ free \in SUBSET Extent /\ used \in SUBSET Nat /\ accepted \in SUBSET Extent
        BY <2>2
      <4>2. Accounts(free, used, accepted)
        BY <4>1, SameCover DEF Conserved
      <4> QED
        BY <4>2 DEF Accounts
    <3>2. \A x \in Nat : (\E k \in free' : x \in Span(k.base, k.size)) \/ x \in used'
                           <=> \E k \in accepted' : x \in Span(k.base, k.size)
      BY <1>0, <2>3, <2>5, <3>1 DEF CutKeeps
    <3>3. free' \in SUBSET Extent /\ used' \in SUBSET Nat /\ accepted' \in SUBSET Extent
      BY <2>7 DEF MmTypeOK
    <3>4. Accounts(free', used', accepted')
      BY <3>2 DEF Accounts
    <3>5. Cover(free') \cup used' = Cover(accepted')
      BY <3>3, <3>4, SameCover
    <3> QED
      BY <3>5 DEF Conserved, Cover, Span
  <2>12. Visited'
    BY <1>0 DEF Visited
  <2> QED
    BY <2>7, <2>8, <2>9, <2>10, <2>11, <2>12
<1> QED
  BY <1>1, <1>2, <1>3 DEF MmAllocMax

(* mm_free of pages the caller holds: insert_node finds no overlap.          *)
LEMMA FreeKeeps ==
  ASSUME PagesInv, NEW base \in used, NEW size \in Size, MmFree(base, size)
  PROVE  PagesInv'
<1> USE PageAssumption DEF PagesInv
<1> DEFINE node == [base |-> base, size |-> RoundUp(size)]
<1>0. /\ phase = "run" /\ UNCHANGED <<segs, accepted, phase>>
      /\ size \in Nat /\ size > 0 /\ base % PageSize = 0 /\ mmRet' = NoCall
      /\ Span(base, RoundUp(size)) \subseteq used
      /\ used' = used \ Span(base, RoundUp(size))
  BY DEF MmFree
<1>1. reuse \in Nat /\ AllocNode(reuse) \in Nat
  BY DEF AllocNode, MmTypeOK
<1>2. free \subseteq Extent /\ used \subseteq Nat /\ accepted \subseteq Extent
  BY DEF MmTypeOK
<1>3. RoundUp(size) \in Nat /\ RoundUp(size) >= size /\ RoundUp(size) % PageSize = 0
  BY <1>0, RoundUpProperties
<1>4. node \in Extent /\ IsPaged(node)
  BY <1>0, <1>2, <1>3 DEF Extent, IsPaged
<1>5. \A m \in free : Span(m.base, m.size) \cap Span(node.base, node.size) = {}
  BY <1>0 DEF NothingTwice
<1>6. Span(node.base, node.size) \subseteq used /\ used' = used \ Span(node.base, node.size)
  BY <1>0
<1>7. ~Overlaps(node) => free' = InsertNode(node) /\ reuse' = AllocNode(reuse) + NodesFreed(node)
  BY DEF MmFree
<1> HIDE DEF node
<1>8. /\ ~Overlaps(node)
      /\ InsertNode(node) \subseteq Extent
      /\ \A m \in InsertNode(node) : IsPaged(m)
      /\ \A m, n \in InsertNode(node) : m # n => End(m) < n.base \/ End(n) < m.base
      /\ \A x \in Nat : (\E m \in InsertNode(node) : x \in Span(m.base, m.size))
                          <=> (\E m \in free : x \in Span(m.base, m.size))
                              \/ x \in Span(node.base, node.size)
      /\ NodesFreed(node) \in Nat
  BY <1>2, <1>4, <1>5, InsertSound
<1>9. mmRet' \in [size : Nat, align : Nat, max : Nat, at : Nat]
  BY <1>0 DEF NoCall
<1>10. MmTypeOK'
  <2>1. free' \subseteq Extent /\ reuse' \in Nat
    BY <1>1, <1>7, <1>8
  <2>2. used' \subseteq Nat
    BY <1>2, <1>6
  <2> QED
    BY <1>0, <1>9, <2>1, <2>2 DEF MmTypeOK
<1>11. Coalesced'
  BY <1>7, <1>8 DEF Coalesced, End
<1>12. Paged'
  BY <1>7, <1>8 DEF Paged, IsPaged
<1>13. NothingTwice'
  <2>1. SUFFICES ASSUME NEW m \in free', NEW x \in Span(m.base, m.size), x \in used'
                 PROVE  FALSE
    BY DEF NothingTwice, Span
  <2>2. x \in Nat
    BY <1>7, <1>8 DEF Extent, Span
  <2>3. x \in used /\ x \notin Span(node.base, node.size)
    BY <1>6, <2>1
  <2>4. \E k \in free : x \in Span(k.base, k.size)
    BY <1>7, <1>8, <2>2, <2>3
  <2> QED
    BY <2>3, <2>4 DEF NothingTwice
<1>14. Conserved'
  <2>1. \A x \in Nat : (\E k \in free : x \in Span(k.base, k.size)) \/ x \in used
                         <=> \E k \in accepted : x \in Span(k.base, k.size)
    <3>1. Conserved /\ free \in SUBSET Extent /\ used \in SUBSET Nat /\ accepted \in SUBSET Extent
      BY <1>2
    <3>2. Accounts(free, used, accepted)
      BY <3>1, SameCover DEF Conserved
    <3> QED
      BY <3>2 DEF Accounts
  <2>2. \A x \in Nat : (\E k \in free' : x \in Span(k.base, k.size)) \/ x \in used'
                         <=> \E k \in accepted' : x \in Span(k.base, k.size)
    BY <1>0, <1>6, <1>7, <1>8, <2>1
  <2>3. free' \in SUBSET Extent /\ used' \in SUBSET Nat /\ accepted' \in SUBSET Extent
    BY <1>10 DEF MmTypeOK
  <2>4. Accounts(free', used', accepted')
    BY <2>2 DEF Accounts
  <2>5. Cover(free') \cup used' = Cover(accepted')
    BY <2>3, <2>4, SameCover
  <2> QED
    BY <2>5 DEF Conserved, Cover, Span
<1>15. Visited'
  BY <1>0 DEF Visited
<1> QED
  BY <1>10, <1>11, <1>12, <1>13, <1>14, <1>15

(* The inductive invariant holds in every reachable state.                   *)
LEMMA PagesInvariant == MmSpec => []PagesInv
<1>1. MmInit => PagesInv
  <2> SUFFICES ASSUME MmInit PROVE PagesInv
    OBVIOUS
  <2>1. MmTypeOK
    BY DEF MmInit, MmTypeOK, NoCall
  <2>2. Coalesced /\ NothingTwice /\ Paged /\ Visited
    BY DEF MmInit, Coalesced, NothingTwice, Paged, Visited
  <2>3. Conserved
    BY DEF MmInit, Conserved
  <2> QED
    BY <2>1, <2>2, <2>3 DEF PagesInv
<1>2. PagesInv /\ [MmNext]_mmVars => PagesInv'
  <2> SUFFICES ASSUME PagesInv, [MmNext]_mmVars PROVE PagesInv'
    OBVIOUS
  <2>1. CASE InitDone
    <3>1. MmTypeOK'
      BY <2>1 DEF InitDone, PagesInv, MmTypeOK
    <3>2. Coalesced' /\ NothingTwice' /\ Conserved' /\ Paged' /\ Visited'
      BY <2>1 DEF InitDone, PagesInv, Coalesced, NothingTwice, Conserved, Paged, Visited
    <3> QED
      BY <3>1, <3>2 DEF PagesInv
  <2>2. CASE UNCHANGED mmVars
    <3>1. MmTypeOK'
      BY <2>2 DEF mmVars, PagesInv, MmTypeOK
    <3>2. Coalesced' /\ NothingTwice' /\ Conserved' /\ Paged' /\ Visited'
      BY <2>2 DEF mmVars, PagesInv, Coalesced, NothingTwice, Conserved, Paged, Visited
    <3> QED
      BY <3>1, <3>2 DEF PagesInv
  <2> QED
    BY <2>1, <2>2, InitKeeps, AllocKeeps, FreeKeeps DEF MmNext
<1> QED
  BY <1>1, <1>2, PTL DEF MmSpec

-----------------------------------------------------------------------------
(* For every firmware map, page size and request: mm_alloc_max and mm_free   *)
(* keep the free list one of maximal ranges, hand no address out twice and   *)
(* lose none.                                                                *)
THEOREM FreeListSound == MmSpec => []PagesSound
<1>1. PagesInv => PagesSound
  BY DEF PagesInv, PagesSound
<1> QED
  BY <1>1, PagesInvariant, PTL

(* For every request, what mm_alloc_max returns is whole pages, aligned as   *)
(* asked, ending below max, that nobody held.                                *)
THEOREM RequestsHonoured == MmSpec => HonoursRequest
<1> DEFINE Honoured ==
             mmRet'.at # 0 /\ used' # used =>
               /\ mmRet'.at % PageSize = 0
               /\ mmRet'.align # 0 => mmRet'.at % mmRet'.align = 0
               /\ mmRet'.at + mmRet'.size < mmRet'.max
               /\ Span(mmRet'.at, mmRet'.size) \cap used = {}
               /\ used' \ used = Span(mmRet'.at, RoundUp(mmRet'.size))
<1>1. ASSUME PagesInv, MmNext, ~(used' = used), ~(mmRet'.at = 0)
      PROVE  Honoured
  <2> USE PageAssumption
  <2>1. PICK size \in Size, align \in MmAlign, max \in MmLimit :
          /\ size # 0 /\ align % PageSize = 0
          /\ \E n \in FoundNode(size, align, max) :
               /\ free' = (free \ {n}) \cup Rest(n, size, align)
               /\ used' = used \cup Span(n.base + Adj(n, align), RoundUp(size))
               /\ mmRet' = [size |-> size, align |-> align, max |-> max, at |-> n.base + Adj(n, align)]
    <3>1. ~\E s \in Segment : InitSegment(s)
      BY <1>1 DEF InitSegment
    <3>2. ~InitDone
      BY <1>1 DEF InitDone
    <3>3. ~\E base \in used, size \in Size : MmFree(base, size)
      <4> SUFFICES ASSUME NEW base \in used, NEW size \in Size, MmFree(base, size)
                   PROVE  FALSE
        OBVIOUS
      <4>1. mmRet' = NoCall
        BY DEF MmFree
      <4> QED
        BY <1>1, <4>1 DEF NoCall
    <3>4. PICK size \in Size, align \in MmAlign, max \in MmLimit : MmAllocMax(size, align, max)
      BY <1>1, <3>1, <3>2, <3>3, Zenon DEF MmNext
    <3> QED
      BY <1>1, <3>4 DEF MmAllocMax
  <2>2. PICK n \in FoundNode(size, align, max) :
          /\ free' = (free \ {n}) \cup Rest(n, size, align)
          /\ used' = used \cup Span(n.base + Adj(n, align), RoundUp(size))
          /\ mmRet' = [size |-> size, align |-> align, max |-> max, at |-> n.base + Adj(n, align)]
    BY <2>1
  <2> DEFINE lo == n.base + Adj(n, align)
  <2>3. n \in free /\ n.size >= RoundUp(size) + align /\ End(n) < max
    BY DEF FoundNode, Fits
  <2>4. size \in Nat /\ align \in Nat /\ max \in Nat /\ free \subseteq Extent
    BY <1>1 DEF PagesInv, MmTypeOK
  <2>5. /\ lo \in Nat /\ lo % PageSize = 0 /\ (align # 0 => lo % align = 0)
        /\ RoundUp(size) >= size /\ RoundUp(size) \in Nat /\ lo + RoundUp(size) <= End(n)
        /\ \A x \in Span(lo, RoundUp(size)) : x \in Span(n.base, n.size)
    <3>1. CutKeeps(n, size, align, lo, (free \ {n}) \cup Rest(n, size, align))
      BY <1>1, <2>1, <2>3, <2>4, CutSound DEF PagesInv
    <3> QED
      BY <3>1 DEF CutKeeps
  <2>6. mmRet'.at = lo /\ mmRet'.align = align /\ mmRet'.size = size /\ mmRet'.max = max
        /\ used' = used \cup Span(lo, RoundUp(size))
    BY <2>2
  <2>7. End(n) \in Nat
    BY <2>3, <2>4 DEF End, Extent
  <2> HIDE DEF lo
  <2>8. lo + size < max
    BY <2>3, <2>4, <2>5, <2>7
  <2>9. Span(lo, RoundUp(size)) \cap used = {}
    BY <1>1, <2>3, <2>5 DEF PagesInv, NothingTwice
  <2>10. Span(lo, size) \subseteq Span(lo, RoundUp(size))
    BY <2>4, <2>5 DEF Span
  <2> QED
    BY <2>5, <2>6, <2>8, <2>9, <2>10
<1>2. PagesInv /\ [MmNext]_mmVars => [Honoured]_mmVars
  BY <1>1 DEF mmVars
<1> QED
  BY <1>2, PagesInvariant, PTL DEF MmSpec, HonoursRequest

-----------------------------------------------------------------------------
(* ArrayList.                                                                *)
Entry == Item \cup {Null}

-----------------------------------------------------------------------------
(* Buffers and the slots they stand for.                                     *)

(* What arraylist_extend adds is a run of empty entries.                     *)
LEMMA NullsType ==
  ASSUME NEW n \in Nat
  PROVE  Nulls(n) \in Seq(Entry) /\ Len(Nulls(n)) = n /\ \A i \in 1 .. n : Nulls(n)[i] = Null
BY DEF Nulls, Entry

(* Growing the buffer leaves every slot as it was.                           *)
LEMMA ExtendProperties ==
  ASSUME NEW b \in Seq(Entry), NEW n \in Nat
  PROVE  /\ Extend(b, n) \in Seq(Entry)
         /\ Len(Extend(b, n)) = Len(b) + n
         /\ \A i \in 1 .. Len(b) : Extend(b, n)[i] = b[i]
         /\ Slots(Extend(b, n)) = Slots(b)
<1>1. Nulls(n) \in Seq(Entry) /\ Len(Nulls(n)) = n /\ \A i \in 1 .. n : Nulls(n)[i] = Null
  BY NullsType
<1> DEFINE e == Extend(b, n)
<1>2. e \in Seq(Entry) /\ Len(e) = Len(b) + n
  BY <1>1 DEF Extend
<1>3. \A i \in 1 .. Len(b) : e[i] = b[i]
  BY <1>1 DEF Extend
<1>4. \A i \in Len(b) + 1 .. Len(b) + n : e[i] = Null
  BY <1>1 DEF Extend
<1> HIDE DEF e
<1>5. \A i \in 0 .. ListLimit - 1 :
        (IF i < Len(e) THEN e[i + 1] ELSE Null) = (IF i < Len(b) THEN b[i + 1] ELSE Null)
  BY <1>2, <1>3, <1>4, ListAssumption
<1>6. Slots(e) = Slots(b)
  BY <1>5 DEF Slots
<1> QED
  BY <1>2, <1>3, <1>6 DEF e

(* Storing at an index changes that slot alone.                              *)
LEMMA StoreProperties ==
  ASSUME NEW b \in Seq(Entry), NEW k \in 0 .. ListLimit - 1, k < Len(b), NEW v \in Entry
  PROVE  /\ [b EXCEPT ![k + 1] = v] \in Seq(Entry)
         /\ Len([b EXCEPT ![k + 1] = v]) = Len(b)
         /\ Slots([b EXCEPT ![k + 1] = v]) = [Slots(b) EXCEPT ![k] = v]
         /\ Slots(b)[k] = b[k + 1]
<1> USE ListAssumption
<1> DEFINE e == [b EXCEPT ![k + 1] = v]
<1>1. e \in Seq(Entry) /\ Len(e) = Len(b)
  OBVIOUS
<1>2. \A i \in 1 .. Len(b) : e[i] = IF i = k + 1 THEN v ELSE b[i]
  OBVIOUS
<1> HIDE DEF e
<1>3. \A i \in 0 .. ListLimit - 1 :
        (IF i < Len(e) THEN e[i + 1] ELSE Null)
          = IF i = k THEN v ELSE (IF i < Len(b) THEN b[i + 1] ELSE Null)
  BY <1>1, <1>2
<1>4. Slots(e) = [Slots(b) EXCEPT ![k] = v]
  BY <1>3 DEF Slots
<1>5. Slots(b)[k] = b[k + 1]
  BY DEF Slots
<1> QED
  BY <1>1, <1>4, <1>5 DEF e

(* The refinement mapping yields a table.                                    *)
LEMMA SlotsType ==
  ASSUME NEW b \in Seq(Entry)
  PROVE  /\ Slots(b) \in [0 .. ListLimit - 1 -> Entry]
         /\ \A i \in 0 .. ListLimit - 1 : i >= Len(b) => Slots(b)[i] = Null
         /\ \A i \in 0 .. ListLimit - 1 : i < Len(b) => Slots(b)[i] = b[i + 1]
BY ListAssumption DEF Slots, Entry

-----------------------------------------------------------------------------
(* array_list_push scans from a hint below which nothing is free.            *)
ListInv ==
  /\ buffer \in Seq(Entry)
  /\ hint \in 0 .. Len(buffer)
  /\ HintLow

(* The scan ends at the lowest free slot.                                    *)
LEMMA FirstFreeLowest ==
  ASSUME ListInv
  PROVE  /\ FirstFree \in hint .. Len(buffer)
         /\ FirstFree < Len(buffer) => buffer[FirstFree + 1] = Null
         /\ \A i \in 1 .. FirstFree : buffer[i] # Null
<1> DEFINE S == {i \in Nat : hint <= i /\ i <= Len(buffer) /\ (i < Len(buffer) => buffer[i + 1] = Null)}
           P(i) == /\ i < Cap => buffer[i + 1] = Null
                   /\ \A j \in hint .. i - 1 : buffer[j + 1] # Null
<1>1. Len(buffer) \in Nat /\ hint \in Nat /\ hint <= Len(buffer) /\ Cap = Len(buffer)
  BY DEF ListInv, Cap
<1>2. Len(buffer) \in S
  BY <1>1
<1>3. PICK m \in S : \A n \in S : m <= n
  BY <1>2, LeastNatural
<1>4. m \in hint .. Cap /\ (m < Cap => buffer[m + 1] = Null)
  BY <1>1, <1>3
<1>5. \A j \in hint .. m - 1 : buffer[j + 1] # Null
  <2> SUFFICES ASSUME NEW j \in hint .. m - 1, buffer[j + 1] = Null PROVE FALSE
    OBVIOUS
  <2>1. j \in S
    BY <1>1, <1>4
  <2> QED
    BY <1>1, <1>3, <1>4, <2>1
<1>6. \E i \in hint .. Cap : P(i)
  BY <1>4, <1>5
<1>7. FirstFree = CHOOSE i \in hint .. Cap : P(i)
  BY DEF FirstFree
<1>8. FirstFree \in hint .. Cap /\ P(FirstFree)
  BY <1>6, <1>7, Zenon
<1>9. ASSUME NEW i \in 1 .. FirstFree
      PROVE  buffer[i] # Null
  <2>1. CASE i <= hint
    BY <1>1, <2>1, <1>8 DEF ListInv, HintLow
  <2>2. CASE i > hint
    <3>1. i - 1 \in hint .. FirstFree - 1 /\ (i - 1) + 1 = i
      BY <1>1, <1>8, <2>2
    <3> QED
      BY <1>8, <3>1
  <2> QED
    BY <1>1, <1>8, <2>1, <2>2
<1> QED
  BY <1>1, <1>8, <1>9

-----------------------------------------------------------------------------
(* One lemma per operation: it keeps the invariant and is the operation of   *)
(* SlotTable of the same purpose.                                            *)

(* arraylist_push puts the item into the first free slot of the table.       *)
LEMMA PushRefines ==
  ASSUME ListInv, NEW v \in Item, Push(v)
  PROVE  ListInv' /\ Table!Register(v)
<1> USE ListAssumption
<1> DEFINE F == FirstFree
           b == IF F < Cap THEN buffer ELSE Extend(buffer, Growth)
<1>1. buffer \in Seq(Entry) /\ hint \in Nat /\ Cap = Len(buffer) /\ Len(buffer) \in Nat
  BY DEF ListInv, Cap
<1>2. /\ F \in hint .. Len(buffer)
      /\ F < Len(buffer) => buffer[F + 1] = Null
      /\ \A i \in 1 .. F : buffer[i] # Null
  BY FirstFreeLowest
<1>3. /\ Len(b) <= ListLimit /\ buffer' = [b EXCEPT ![F + 1] = v]
      /\ hint' = F + 1 /\ listRet' = F
  BY DEF Push
<1> HIDE DEF F
<1>4. b \in Seq(Entry) /\ Slots(b) = Slots(buffer) /\ F < Len(b)
      /\ \A i \in 1 .. F : b[i] # Null
  <2>1. CASE F < Cap
    BY <1>1, <1>2, <2>1
  <2>2. CASE ~(F < Cap)
    <3>1. F = Len(buffer)
      BY <1>1, <1>2, <2>2
    <3>2. b = Extend(buffer, Growth) /\ Growth \in Nat /\ Growth > 0
      BY <2>2
    <3> HIDE DEF b
    <3>3. b \in Seq(Entry) /\ Len(b) = Len(buffer) + Growth
      BY <1>1, <3>2, ExtendProperties
    <3>4. Slots(b) = Slots(buffer)
      BY <1>1, <3>2, ExtendProperties
    <3>5. \A j \in 1 .. Len(buffer) : b[j] = buffer[j]
      BY <1>1, <3>2, ExtendProperties
    <3> QED
      BY <1>1, <1>2, <3>1, <3>2, <3>3, <3>4, <3>5
  <2> QED
    BY <2>1, <2>2
<1> HIDE DEF b
<1>5. F \in 0 .. ListLimit - 1 /\ v \in Entry
  BY <1>1, <1>2, <1>3, <1>4 DEF Entry
<1>6. /\ buffer' \in Seq(Entry) /\ Len(buffer') = Len(b)
      /\ Slots(buffer') = [Slots(buffer) EXCEPT ![F] = v]
  <2>1. /\ [b EXCEPT ![F + 1] = v] \in Seq(Entry)
        /\ Len([b EXCEPT ![F + 1] = v]) = Len(b)
        /\ Slots([b EXCEPT ![F + 1] = v]) = [Slots(b) EXCEPT ![F] = v]
    BY <1>4, <1>5, StoreProperties
  <2> QED
    BY <1>3, <1>4, <2>1
<1>7. ListInv'
  <2>1. \A i \in 1 .. F + 1 : buffer'[i] # Null
    BY <1>1, <1>3, <1>4, <1>5
  <2>2. hint' \in 0 .. Len(buffer')
    BY <1>3, <1>4, <1>5, <1>6
  <2> QED
    BY <1>3, <1>6, <2>1, <2>2 DEF ListInv, HintLow
<1> DEFINE spare == {i \in 0 .. ListLimit - 1 : Slots(buffer)[i] = Null}
<1>8. F \in spare
  BY <1>1, <1>2, <1>5, SlotsType
<1>9. \A i \in spare : F <= i
  <2> SUFFICES ASSUME NEW i \in spare, ~(F <= i) PROVE FALSE
    OBVIOUS
  <2>1. i + 1 \in 1 .. F /\ i < Len(buffer)
    BY <1>1, <1>2, <1>5
  <2> QED
    BY <1>1, <1>2, <2>1, SlotsType
<1>10. F = Table!Min(spare)
  <2>1. \E i \in spare : \A j \in spare : i <= j
    BY <1>8, <1>9
  <2>2. \A i \in spare : (\A j \in spare : i <= j) => i = F
    BY <1>1, <1>2, <1>8, <1>9
  <2> HIDE DEF spare
  <2> QED
    BY <2>1, <2>2 DEF Table!Min
<1>11. Table!Free = spare
  BY DEF Table!Free
<1> QED
  BY <1>3, <1>6, <1>7, <1>8, <1>10, <1>11 DEF Table!Register

(* arraylist_set writes one slot of the table.                               *)
LEMMA SetRefines ==
  ASSUME ListInv, NEW v \in Item, NEW i \in 0 .. ListLimit - 1, Set(i, v)
  PROVE  ListInv' /\ Table!Replace(i, v)
<1> USE ListAssumption
<1> DEFINE b == IF i < Cap THEN buffer ELSE Extend(buffer, i - Cap + 1)
<1>1. buffer \in Seq(Entry) /\ hint \in Nat /\ hint <= Len(buffer) /\ Cap = Len(buffer)
      /\ Len(buffer) \in Nat /\ v \in Entry /\ v # Null
  BY DEF ListInv, Cap, Entry
<1>2. /\ buffer' = [b EXCEPT ![i + 1] = v] /\ listRet' = b[i + 1] /\ hint' = hint
  BY DEF Set
<1>3. b \in Seq(Entry) /\ Slots(b) = Slots(buffer) /\ i < Len(b) /\ Len(b) >= Len(buffer)
      /\ \A j \in 1 .. Len(buffer) : b[j] = buffer[j]
  <2>1. CASE i < Cap
    BY <1>1, <2>1
  <2>2. CASE ~(i < Cap)
    <3>1. i - Cap + 1 \in Nat
      BY <1>1, <2>2
    <3>2. b = Extend(buffer, i - Cap + 1)
      BY <2>2
    <3> HIDE DEF b
    <3>3. b \in Seq(Entry) /\ Len(b) = Len(buffer) + (i - Cap + 1)
      BY <1>1, <3>1, <3>2, ExtendProperties
    <3>4. Slots(b) = Slots(buffer)
      BY <1>1, <3>1, <3>2, ExtendProperties
    <3>5. \A j \in 1 .. Len(buffer) : b[j] = buffer[j]
      BY <1>1, <3>1, <3>2, ExtendProperties
    <3> QED
      BY <1>1, <2>2, <3>1, <3>3, <3>4, <3>5
  <2> QED
    BY <2>1, <2>2
<1> HIDE DEF b
<1>4. /\ buffer' \in Seq(Entry) /\ Len(buffer') = Len(b)
      /\ Slots(buffer') = [Slots(buffer) EXCEPT ![i] = v]
      /\ Slots(buffer)[i] = b[i + 1]
  <2>1. /\ [b EXCEPT ![i + 1] = v] \in Seq(Entry)
        /\ Len([b EXCEPT ![i + 1] = v]) = Len(b)
        /\ Slots([b EXCEPT ![i + 1] = v]) = [Slots(b) EXCEPT ![i] = v]
        /\ Slots(b)[i] = b[i + 1]
    BY <1>1, <1>3, StoreProperties
  <2> QED
    BY <1>2, <1>3, <2>1
<1>5. ListInv'
  <2>1. \A j \in 1 .. hint : buffer'[j] # Null
    BY <1>1, <1>2, <1>3 DEF ListInv, HintLow
  <2>2. hint' \in 0 .. Len(buffer')
    BY <1>1, <1>2, <1>3, <1>4
  <2> QED
    BY <1>2, <1>4, <2>1, <2>2 DEF ListInv, HintLow
<1> QED
  BY <1>2, <1>4, <1>5 DEF Table!Replace

(* arraylist_remove empties one slot of the table.                           *)
LEMMA RemoveRefines ==
  ASSUME ListInv, NEW i \in 0 .. ListLimit - 1, ListRemove(i)
  PROVE  ListInv' /\ Table!Remove(i)
<1> USE ListAssumption
<1>1. buffer \in Seq(Entry) /\ hint \in Nat /\ hint <= Len(buffer) /\ Cap = Len(buffer)
      /\ Len(buffer) \in Nat /\ Null \in Entry
  BY DEF ListInv, Cap, Entry
<1>2. CASE i >= Cap
  <2>1. listRet' = Null /\ UNCHANGED <<buffer, hint>>
    BY <1>2 DEF ListRemove
  <2>2. Slots(buffer)[i] = Null /\ Slots(buffer) \in [0 .. ListLimit - 1 -> Entry]
    BY <1>1, <1>2, SlotsType
  <2>3. Slots(buffer') = [Slots(buffer) EXCEPT ![i] = Null]
    BY <2>1, <2>2
  <2>4. ListInv'
    BY <2>1 DEF ListInv, HintLow
  <2> QED
    BY <2>1, <2>2, <2>3, <2>4 DEF Table!Remove
<1>3. CASE ~(i >= Cap)
  <2>1. /\ buffer' = [buffer EXCEPT ![i + 1] = Null]
        /\ hint' = IF i < hint THEN i ELSE hint
        /\ listRet' = buffer[i + 1]
    BY <1>3 DEF ListRemove
  <2>2. /\ buffer' \in Seq(Entry) /\ Len(buffer') = Len(buffer)
        /\ Slots(buffer') = [Slots(buffer) EXCEPT ![i] = Null]
        /\ Slots(buffer)[i] = buffer[i + 1]
    <3>1. i < Len(buffer)
      BY <1>1, <1>3
    <3>2. /\ [buffer EXCEPT ![i + 1] = Null] \in Seq(Entry)
          /\ Len([buffer EXCEPT ![i + 1] = Null]) = Len(buffer)
          /\ Slots([buffer EXCEPT ![i + 1] = Null]) = [Slots(buffer) EXCEPT ![i] = Null]
          /\ Slots(buffer)[i] = buffer[i + 1]
      BY <1>1, <3>1, StoreProperties
    <3> QED
      BY <2>1, <3>2
  <2>3. hint' \in 0 .. Len(buffer') /\ hint' <= i /\ hint' <= hint
    BY <1>1, <1>3, <2>1, <2>2
  <2>4. \A j \in 1 .. hint' : buffer'[j] # Null
    BY <1>1, <1>3, <2>1, <2>3 DEF ListInv, HintLow
  <2>5. ListInv'
    BY <2>2, <2>3, <2>4 DEF ListInv, HintLow
  <2> QED
    BY <2>1, <2>2, <2>5 DEF Table!Remove
<1> QED
  BY <1>2, <1>3

(* arraylist_clear empties the table.                                        *)
LEMMA ClearRefines ==
  ASSUME ListInv, ListClear
  PROVE  ListInv' /\ Table!Clear
<1>1. Len(buffer) \in Nat /\ Cap = Len(buffer)
  BY DEF ListInv, Cap
<1>2. buffer' \in Seq(Entry) /\ Len(buffer') = Len(buffer) /\ \A i \in 1 .. Len(buffer) : buffer'[i] = Null
  BY <1>1, NullsType DEF ListClear
<1>3. ListInv'
  BY <1>1, <1>2 DEF ListClear, ListInv, HintLow
<1>4. \A i \in 0 .. ListLimit - 1 : (IF i < Len(buffer') THEN buffer'[i + 1] ELSE Null) = Null
  BY <1>1, <1>2, ListAssumption
<1>5. Slots(buffer') = [i \in 0 .. ListLimit - 1 |-> Null]
  BY <1>4 DEF Slots
<1> QED
  BY <1>3, <1>5 DEF ListClear, Table!Clear

(* arraylist_dup leaves the table as it is.                                  *)
LEMMA DupRefines ==
  ASSUME ListInv, Dup
  PROVE  ListInv' /\ Table!Fork
<1> USE ListAssumption
<1>1. buffer \in Seq(Entry) /\ Len(buffer) \in Nat /\ DOMAIN buffer = 1 .. Len(buffer)
      /\ hint \in Nat /\ hint <= Len(buffer)
  BY DEF ListInv
<1>2. PICK d \in [Item -> Item] :
        buffer' = [i \in DOMAIN buffer |-> IF buffer[i] = Null THEN Null ELSE d[buffer[i]]]
  BY DEF Dup
<1>3. listRet' = Null /\ hint' = hint
  BY DEF Dup
<1>4. \A i \in 1 .. Len(buffer) : /\ buffer[i] = Null => buffer'[i] = Null
                                  /\ buffer[i] # Null => buffer'[i] = d[buffer[i]] /\ d[buffer[i]] \in Item
  BY <1>1, <1>2 DEF Entry
<1>5. buffer' \in Seq(Entry) /\ Len(buffer') = Len(buffer)
  <2>1. \A i \in 1 .. Len(buffer) : buffer'[i] \in Entry
    BY <1>4 DEF Entry
  <2> QED
    BY <1>1, <1>2, <2>1
<1>6. ListInv'
  BY <1>1, <1>3, <1>4, <1>5 DEF ListInv, HintLow
<1>7. \A i \in 0 .. ListLimit - 1 :
        (IF i < Len(buffer') THEN buffer'[i + 1] ELSE Null)
          = IF Slots(buffer)[i] = Null THEN Null ELSE d[Slots(buffer)[i]]
  <2> TAKE i \in 0 .. ListLimit - 1
  <2>1. CASE i < Len(buffer)
    <3>1. Slots(buffer)[i] = buffer[i + 1] /\ i + 1 \in 1 .. Len(buffer)
      BY <1>1, <2>1, SlotsType
    <3> QED
      BY <1>4, <1>5, <2>1, <3>1
  <2>2. CASE ~(i < Len(buffer))
    <3>1. Slots(buffer)[i] = Null
      BY <1>1, <2>2, SlotsType
    <3> QED
      BY <1>5, <2>2, <3>1
  <2> QED
    BY <2>1, <2>2
<1>8. Slots(buffer') = [i \in 0 .. ListLimit - 1 |->
                          IF Slots(buffer)[i] = Null THEN Null ELSE d[Slots(buffer)[i]]]
  <2>1. Slots(buffer') = [i \in 0 .. ListLimit - 1 |-> IF i < Len(buffer') THEN buffer'[i + 1] ELSE Null]
    BY DEF Slots
  <2> QED
    BY <1>7, <2>1
<1> QED
  BY <1>3, <1>6, <1>8 DEF Table!Fork

(* array_list.c is the descriptor table of SlotTable: array_list_push finds  *)
(* the lowest free descriptor although it only scans from its hint, growing  *)
(* the buffer shows nothing and loses nothing, and a removal or a copy does  *)
(* not raise the hint above a free slot.                                     *)
THEOREM ListImplementsTable == ListSpec => ImplementsTable
<1>1. ListInit => ListInv /\ Table!Init
  <2> SUFFICES ASSUME ListInit PROVE ListInv /\ Table!Init
    OBVIOUS
  <2>1. InitCap \in Nat
    BY ListAssumption
  <2>2. buffer \in Seq(Entry) /\ Len(buffer) = InitCap /\ \A i \in 1 .. InitCap : buffer[i] = Null
    BY <2>1, NullsType DEF ListInit
  <2>3. ListInv
    BY <2>1, <2>2 DEF ListInit, ListInv, HintLow
  <2>4. \A i \in 0 .. ListLimit - 1 : (IF i < Len(buffer) THEN buffer[i + 1] ELSE Null) = Null
    BY <2>1, <2>2, ListAssumption
  <2>5. Slots(buffer) = [i \in 0 .. ListLimit - 1 |-> Null]
    BY <2>4 DEF Slots
  <2> QED
    BY <2>3, <2>5 DEF ListInit, Table!Init
<1>2. ListInv /\ [ListNext]_listVars => ListInv' /\ [Table!Next]_<<Slots(buffer), listRet>>
  <2> SUFFICES ASSUME ListInv, [ListNext]_listVars
               PROVE  ListInv' /\ [Table!Next]_<<Slots(buffer), listRet>>
    OBVIOUS
  <2>1. ASSUME NEW v \in Item, Push(v)
        PROVE  ListInv' /\ Table!Next
    BY <2>1, PushRefines DEF Table!Next
  <2>2. ASSUME NEW v \in Item, NEW i \in 0 .. ListLimit - 1, Set(i, v)
        PROVE  ListInv' /\ Table!Next
    BY <2>2, SetRefines DEF Table!Next
  <2>3. ASSUME NEW i \in 0 .. ListLimit - 1, ListRemove(i)
        PROVE  ListInv' /\ Table!Next
    BY <2>3, RemoveRefines DEF Table!Next
  <2>4. CASE ListClear
    BY <2>4, ClearRefines DEF Table!Next
  <2>5. CASE Dup
    BY <2>5, DupRefines DEF Table!Next
  <2>6. CASE UNCHANGED listVars
    BY <2>6 DEF listVars, ListInv, HintLow
  <2> QED
    BY <2>1, <2>2, <2>3, <2>4, <2>5, <2>6 DEF ListNext
<1>3. ListInv => HintLow
  BY DEF ListInv
<1> QED
  BY <1>1, <1>2, <1>3, PTL DEF ListSpec, ImplementsTable, Table!Spec

-----------------------------------------------------------------------------
(***************************************************************************)
(* The heap: b are the headers of an arena, f its free list.               *)
(***************************************************************************)
BlockHeader == [size : Nat \ {0}, used : BOOLEAN, last : BOOLEAN, prev : Int]

\* headers link the blocks in both directions up to the end of the arena
Chained(b) ==
  \A o \in DOMAIN b :
    /\ o + b[o].size <= INIT_BLOCK_SIZE
    /\ b[o].last <=> o + b[o].size = INIT_BLOCK_SIZE
    /\ ~b[o].last => o + b[o].size \in DOMAIN b /\ b[o + b[o].size].prev = o
    /\ o = 0 => b[o].prev = NoBlock
    /\ o # 0 => b[o].prev \in DOMAIN b /\ b[o].prev + b[b[o].prev].size = o

\* no header inside another block
Apart(b) == \A o, q \in DOMAIN b : o < q => o + b[o].size <= q

Shaped(b) == /\ DOMAIN b \subseteq Nat /\ b \in [DOMAIN b -> BlockHeader]
             /\ Chained(b) /\ Apart(b)

FreeOf(b) == {o \in DOMAIN b : ~b[o].used}
UsedOf(b) == {o \in DOMAIN b : b[o].used}

\* no free block is followed by a free one, but for h
MergedBut(b, h) == \A o \in DOMAIN b \ {h} : ~b[o].used /\ ~b[o].last => b[o + b[o].size].used
Listed(b, f) == f \in Seq(Nat) /\ IsInjective(f) /\ Range(f) = FreeOf(b)

Sound(b, f) == Shaped(b) /\ MergedBut(b, NoBlock) /\ Listed(b, f)

\* a caller's block is a used one, large enough, and has one caller
HeldOK ==
  /\ held \subseteq [arena : taken, base : Nat, size : Request]
  /\ \A x \in held : /\ x.base - Header \in UsedOf(blk[x.arena])
                     /\ x.size + Header <= blk[x.arena][x.base - Header].size
  /\ \A x, y \in held : x.arena = y.arena /\ x.base = y.base => x = y
  /\ \A a \in taken : \A o \in UsedOf(blk[a]) : \E x \in held : x.arena = a /\ x.base = o + Header

\* arenas on the list and in a call's hands have been built
CallsOK ==
  /\ pc \in [Thread -> {"idle", "scan", "grow", "publish", "head", "panic"}]
  /\ want \in [Thread -> Nat] /\ asked \in [Thread -> Nat] /\ at \in [Thread -> taken \cup {NoArena}]
  /\ arena_head \in taken \cup {NoArena} /\ nextOf \in [Arena -> taken \cup {NoArena}]
  /\ \A t \in Thread :
       /\ pc[t] \in {"scan", "grow"} => asked[t] \in Request /\ want[t] = Adjusted(asked[t])
       /\ pc[t] \in {"scan", "publish", "head"} => at[t] \in taken

HeapInv ==
  /\ taken \subseteq Arena
  /\ DOMAIN blk = Arena /\ blk = [a \in Arena |-> blk[a]]
  /\ DOMAIN freeList = Arena /\ freeList = [a \in Arena |-> freeList[a]]
  /\ \A a \in taken : Sound(blk[a], freeList[a])
  /\ HeldOK /\ CallsOK

-----------------------------------------------------------------------------
(* Constants of the heap, and the size kmalloc looks for.                    *)
LEMMA HeapNumbers ==
  /\ INIT_BLOCK_SIZE \in Nat \ {0} /\ Header \in Nat \ {0} /\ Align \in Nat \ {0}
  /\ NoBlock \notin Nat /\ NoBlock \in Int
BY HeapAssumption DEF NoBlock

\* a request fits, with its header, into the size kmalloc looks for
LEMMA AdjustedLarge ==
  ASSUME NEW size \in Nat
  PROVE  Adjusted(size) \in Nat \ {0} /\ Adjusted(size) >= size + Header
<1>1. (size + Header) % Align \in 0 .. Align - 1
  BY HeapNumbers
<1> QED
  BY <1>1, HeapNumbers DEF Adjusted

(* A block taken out of a free list.                                         *)
LEMMA UnlinkList ==
  ASSUME NEW f \in Seq(Nat), IsInjective(f), NEW h \in Range(f)
  PROVE  LET i == CHOOSE i \in DOMAIN f : f[i] = h
         IN  /\ RemoveAt(f, i) \in Seq(Nat) /\ IsInjective(RemoveAt(f, i))
             /\ Range(RemoveAt(f, i)) = Range(f) \ {h}
<1> DEFINE i == CHOOSE i \in DOMAIN f : f[i] = h
           p == SubSeq(f, 1, i - 1)
           q == SubSeq(f, i + 1, Len(f))
           g == p \o q
<1>1. i \in DOMAIN f /\ f[i] = h
  BY DEF Range
<1> HIDE DEF i
<1>2. PICK n \in Nat : n = Len(f) /\ DOMAIN f = 1 .. n
  OBVIOUS
<1>3. i \in 1 .. n
  BY <1>1, <1>2
<1>4. p \in Seq(Nat) /\ Len(p) = i - 1 /\ \A k \in 1 .. i - 1 : p[k] = f[k]
  BY <1>2, <1>3, SubSeqProperties
<1>5. q \in Seq(Nat) /\ Len(q) = n - i /\ \A k \in 1 .. n - i : q[k] = f[i + k]
  <2>1. i + 1 \in 1 .. n + 1 /\ n \in i .. n
    BY <1>3
  <2>2. q \in Seq(Nat) /\ Len(q) = n - (i + 1) + 1 /\ \A k \in 1 .. n - (i + 1) + 1 : q[k] = f[i + 1 + k - 1]
    BY <1>2, <1>3, SubSeqProperties
  <2>3. n - (i + 1) + 1 = n - i /\ \A k \in 1 .. n - i : i + 1 + k - 1 = i + k
    BY <1>3
  <2> QED
    BY <2>2, <2>3
<1> HIDE DEF p, q
<1>6. g \in Seq(Nat) /\ Len(g) = n - 1
      /\ \A k \in 1 .. n - 1 : g[k] = IF k < i THEN f[k] ELSE f[k + 1]
  <2>1. g \in Seq(Nat) /\ Len(g) = (i - 1) + (n - i)
    <3>1. g \in Seq(Nat) /\ Len(g) = Len(p) + Len(q)
      BY <1>4, <1>5, ConcatProperties
    <3> QED
      BY <1>4, <1>5, <3>1
  <2>2. ASSUME NEW k \in 1 .. n - 1, k < i
        PROVE  g[k] = f[k]
    BY <1>3, <1>4, <1>5, <2>2
  <2>3. ASSUME NEW k \in 1 .. n - 1, ~(k < i)
        PROVE  g[k] = f[k + 1]
    <3>1. g[k] = q[k - (i - 1)]
      BY <1>3, <1>4, <1>5, <2>3
    <3>2. k - (i - 1) \in 1 .. n - i /\ i + (k - (i - 1)) = k + 1
      BY <1>3, <2>3
    <3> QED
      BY <1>5, <3>1, <3>2
  <2> QED
    BY <1>3, <2>1, <2>2, <2>3
<1> HIDE DEF g
<1>7. DOMAIN g = 1 .. n - 1
  BY <1>6
<1>8. IsInjective(g)
  <2> SUFFICES ASSUME NEW k \in DOMAIN g, NEW m \in DOMAIN g, g[k] = g[m]
               PROVE  k = m
    BY DEF IsInjective
  <2> DEFINE up(x) == IF x < i THEN x ELSE x + 1
  <2>1. \A x \in DOMAIN g : up(x) \in DOMAIN f
    BY <1>2, <1>3, <1>7
  <2>2. \A x \in DOMAIN g : g[x] = f[up(x)]
    BY <1>6, <1>7
  <2>3. up(k) \in DOMAIN f /\ up(m) \in DOMAIN f /\ f[up(k)] = f[up(m)]
    BY <2>1, <2>2
  <2>4. up(k) = up(m)
    BY <2>3 DEF IsInjective
  <2> QED
    BY <1>3, <1>7, <2>4
<1>9. Range(g) \subseteq Range(f) \ {h}
  <2> SUFFICES ASSUME NEW k \in DOMAIN g
               PROVE  g[k] \in Range(f) \ {h}
    BY DEF Range
  <2> DEFINE up == IF k < i THEN k ELSE k + 1
  <2>1. up \in DOMAIN f /\ up # i
    BY <1>2, <1>3, <1>7
  <2>2. g[k] = f[up]
    BY <1>6, <1>7
  <2> QED
    BY <1>1, <2>1, <2>2 DEF Range, IsInjective
<1>10. Range(f) \ {h} \subseteq Range(g)
  <2> SUFFICES ASSUME NEW m \in DOMAIN f, f[m] # h
               PROVE  f[m] \in Range(g)
    BY DEF Range
  <2> DEFINE down == IF m < i THEN m ELSE m - 1
  <2>1. m # i
    BY <1>1
  <2>2. down \in 1 .. n - 1 /\ (IF down < i THEN down ELSE down + 1) = m
    BY <1>2, <1>3, <2>1
  <2>3. down \in DOMAIN g /\ g[down] = f[m]
    BY <1>6, <1>7, <2>2
  <2> QED
    BY <2>3 DEF Range
<1> QED
  BY <1>2, <1>6, <1>8, <1>9, <1>10 DEF RemoveAt, i, p, q, g

(* A block put in another's place.                                           *)
LEMMA ReplaceInList ==
  ASSUME NEW f \in Seq(Nat), IsInjective(f), NEW i \in DOMAIN f, NEW s \in Nat, s \notin Range(f),
         NEW g \in Seq(Nat), DOMAIN g = DOMAIN f, g[i] = s, \A k \in DOMAIN f \ {i} : g[k] = f[k]
  PROVE  IsInjective(g) /\ Range(g) = (Range(f) \ {f[i]}) \cup {s}
<1>1. IsInjective(g)
  BY DEF IsInjective, Range
<1>2. Range(g) = (Range(f) \ {f[i]}) \cup {s}
  BY DEF IsInjective, Range
<1> QED
  BY <1>1, <1>2

(* A block put in front.                                                     *)
LEMMA PushInList ==
  ASSUME NEW f \in Seq(Nat), IsInjective(f), NEW h \in Nat, h \notin Range(f)
  PROVE  <<h>> \o f \in Seq(Nat) /\ IsInjective(<<h>> \o f) /\ Range(<<h>> \o f) = Range(f) \cup {h}
<1> DEFINE g == <<h>> \o f
<1>1. PICK n \in Nat : n = Len(f) /\ DOMAIN f = 1 .. n
  OBVIOUS
<1>2. g \in Seq(Nat) /\ DOMAIN g = 1 .. n + 1 /\ g[1] = h /\ \A k \in 2 .. n + 1 : g[k] = f[k - 1]
  BY <1>1
<1> HIDE DEF g
<1>3. \A k \in DOMAIN f : k + 1 \in DOMAIN g /\ g[k + 1] = f[k]
  <2> SUFFICES ASSUME NEW k \in 1 .. n
               PROVE  k + 1 \in DOMAIN g /\ g[k + 1] = f[k]
    BY <1>1
  <2>1. k + 1 \in 2 .. n + 1 /\ (k + 1) - 1 = k
    OBVIOUS
  <2> QED
    BY <1>2, <2>1
<1>4. \A k \in DOMAIN g : k = 1 \/ (k - 1 \in DOMAIN f /\ g[k] = f[k - 1])
  BY <1>1, <1>2
<1>5. IsInjective(g)
  <2> SUFFICES ASSUME NEW k \in DOMAIN g, NEW m \in DOMAIN g, g[k] = g[m]
               PROVE  k = m
    BY DEF IsInjective
  <2>1. CASE k = 1 \/ m = 1
    BY <1>2, <1>4, <2>1 DEF Range
  <2>2. CASE k # 1 /\ m # 1
    <3>1. k - 1 = m - 1
      BY <1>4, <2>2 DEF IsInjective
    <3> QED
      BY <1>2, <3>1
  <2> QED
    BY <2>1, <2>2
<1>6. Range(g) = Range(f) \cup {h}
  <2>1. 1 \in DOMAIN g /\ g[1] = h
    BY <1>2
  <2>2. \A k \in DOMAIN g : g[k] \in Range(f) \cup {h}
    BY <1>2, <1>4 DEF Range
  <2>3. \A k \in DOMAIN f : f[k] \in Range(g)
    <3> SUFFICES ASSUME NEW k \in DOMAIN f PROVE f[k] \in Range(g)
      OBVIOUS
    <3>1. k + 1 \in DOMAIN g /\ g[k + 1] = f[k]
      BY <1>3
    <3> QED
      BY <3>1 DEF Range
  <2>4. h \in Range(g)
    BY <2>1 DEF Range
  <2> QED
    BY <2>2, <2>3, <2>4 DEF Range
<1> QED
  BY <1>2, <1>5, <1>6 DEF g

-----------------------------------------------------------------------------
(* Blocks o and e, which follow each other, become one at o: what both       *)
(* halves of kfree do to the headers.                                        *)
Joined(b, o, e) ==
  Drop(SetPrev([b EXCEPT ![o].size = @ + b[e].size, ![o].last = b[e].last], GetNext(b, e), o), e)

\* what the headers are after a join
JoinsTo(b, o, e, c) ==
  /\ e \in DOMAIN b /\ e # o /\ DOMAIN c = DOMAIN b \ {e}
  /\ c \in [DOMAIN c -> BlockHeader]
  /\ \A x \in DOMAIN c : /\ c[x].used = b[x].used
                         /\ x # o => c[x].size = b[x].size /\ c[x].last = b[x].last
                         /\ c[x].prev = IF b[x].prev = e THEN o ELSE b[x].prev
  /\ c[o].size = b[o].size + b[e].size /\ c[o].last = b[e].last

\* a join leads there
LEMMA JoinedHeaders ==
  ASSUME NEW b, Shaped(b), NEW o \in DOMAIN b, ~b[o].last, NEW e, e = o + b[o].size,
         NEW c, c = Joined(b, o, e)
  PROVE  JoinsTo(b, o, e, c)
<1> DEFINE n == GetNext(b, e)
           b1 == [b EXCEPT ![o].size = @ + b[e].size, ![o].last = b[e].last]
           b2 == SetPrev(b1, n, o)
<1>1. /\ e \in DOMAIN b /\ e # o /\ o \in Nat /\ e \in Nat
      /\ b[o] \in BlockHeader /\ b[e] \in BlockHeader /\ b \in [DOMAIN b -> BlockHeader]
  <2>1. e \in DOMAIN b /\ o \in Nat /\ e \in Nat /\ b \in [DOMAIN b -> BlockHeader]
    BY DEF Shaped, Chained
  <2>2. b[o] \in BlockHeader /\ b[e] \in BlockHeader
    BY <2>1
  <2> QED
    BY <2>1, <2>2 DEF BlockHeader
<1>2. /\ b1 \in [DOMAIN b -> BlockHeader] /\ \A x \in DOMAIN b \ {o} : b1[x] = b[x]
      /\ b1[o].size = b[o].size + b[e].size /\ b1[o].last = b[e].last
      /\ b1[o].used = b[o].used /\ b1[o].prev = b[o].prev
  <2> DEFINE b0 == [b EXCEPT ![o].size = @ + b[e].size]
  <2>1. b0 \in [DOMAIN b -> BlockHeader] /\ \A x \in DOMAIN b \ {o} : b0[x] = b[x]
    BY <1>1 DEF BlockHeader
  <2>2. /\ b0[o].size = b[o].size + b[e].size /\ b0[o].last = b[o].last
        /\ b0[o].used = b[o].used /\ b0[o].prev = b[o].prev
    BY <1>1 DEF BlockHeader
  <2>3. b1 = [b0 EXCEPT ![o].last = b[e].last]
    OBVIOUS
  <2> HIDE DEF b0, b1
  <2>4. b[e].last \in BOOLEAN
    BY <1>1 DEF BlockHeader
  <2>5. b1 \in [DOMAIN b -> BlockHeader] /\ \A x \in DOMAIN b \ {o} : b1[x] = b0[x]
    BY <2>1, <2>3, <2>4 DEF BlockHeader
  <2>6. b1[o] = [b0[o] EXCEPT !.last = b[e].last]
    BY <2>1, <2>3
  <2> QED
    BY <2>1, <2>2, <2>5, <2>6 DEF BlockHeader
<1> HIDE DEF b1
\* the header whose prev changes is the one that had e there
<1>3. \A x \in DOMAIN b : b[x].prev = e <=> x = n
  <2> SUFFICES ASSUME NEW x \in DOMAIN b
               PROVE  b[x].prev = e <=> x = n
    OBVIOUS
  <2>1. b[x].prev = e => x = n
    <3> SUFFICES ASSUME b[x].prev = e
                 PROVE  x = n
      OBVIOUS
    <3>1. x # 0 /\ e + b[e].size = x
      BY <1>1, HeapNumbers DEF Shaped, Chained
    <3>2. b[x] \in BlockHeader /\ x \in Nat /\ x + b[x].size <= INIT_BLOCK_SIZE
      BY DEF Shaped, Chained
    <3>3. ~b[e].last
      BY <1>1, <3>1, <3>2, HeapNumbers DEF Shaped, Chained, BlockHeader
    <3> QED
      BY <3>1, <3>3 DEF GetNext
  <2>2. x = n => b[x].prev = e
    BY <1>1, HeapNumbers DEF Shaped, Chained, GetNext
  <2> QED
    BY <2>1, <2>2
<1> HIDE DEF n
<1>4. /\ b2 \in [DOMAIN b -> BlockHeader]
      /\ \A x \in DOMAIN b : /\ b2[x].used = b1[x].used /\ b2[x].size = b1[x].size /\ b2[x].last = b1[x].last
                             /\ b2[x].prev = IF x = n THEN o ELSE b1[x].prev
  <2>1. CASE n \in DOMAIN b
    BY <1>1, <1>2, <2>1 DEF SetPrev, BlockHeader
  <2>2. CASE n \notin DOMAIN b
    BY <1>1, <1>2, <2>2 DEF SetPrev
  <2> QED
    BY <2>1, <2>2
<1> HIDE DEF b2
<1>5. c = [x \in DOMAIN b \ {e} |-> b2[x]]
  BY <1>4 DEF Joined, Drop, b1, b2, n
<1>6. DOMAIN c = DOMAIN b \ {e} /\ c \in [DOMAIN c -> BlockHeader] /\ \A x \in DOMAIN c : c[x] = b2[x]
  BY <1>4, <1>5
<1>7. \A x \in DOMAIN b : b1[x].prev = b[x].prev /\ b1[x].used = b[x].used
  BY <1>2
<1>8. \A x \in DOMAIN c : /\ c[x].used = b[x].used
                          /\ x # o => c[x].size = b[x].size /\ c[x].last = b[x].last
                          /\ c[x].prev = IF b[x].prev = e THEN o ELSE b[x].prev
  BY <1>2, <1>3, <1>4, <1>6, <1>7
<1>9. c[o].size = b[o].size + b[e].size /\ c[o].last = b[e].last
  BY <1>1, <1>2, <1>4, <1>6
<1> QED
  BY <1>1, <1>6, <1>8, <1>9 DEF JoinsTo

\* the blocks still tile the arena
LEMMA JoinedShaped ==
  ASSUME NEW b, Shaped(b), NEW o \in DOMAIN b, ~b[o].last, NEW e, e = o + b[o].size,
         NEW c, c = Joined(b, o, e)
  PROVE  Shaped(c)
<1>0. JoinsTo(b, o, e, c)
  BY JoinedHeaders
<1>1. /\ e \in DOMAIN b /\ e # o /\ DOMAIN c = DOMAIN b \ {e}
      /\ c \in [DOMAIN c -> BlockHeader]
      /\ \A x \in DOMAIN c : /\ c[x].used = b[x].used
                             /\ x # o => c[x].size = b[x].size /\ c[x].last = b[x].last
                             /\ c[x].prev = IF b[x].prev = e THEN o ELSE b[x].prev
      /\ c[o].size = b[o].size + b[e].size /\ c[o].last = b[e].last
  BY <1>0 DEF JoinsTo
<1>2. /\ DOMAIN b \subseteq Nat /\ \A x \in DOMAIN b : b[x].size \in Nat \ {0}
      /\ Chained(b) /\ Apart(b)
  BY DEF Shaped, BlockHeader
<1>3. o \in DOMAIN c /\ o \in Nat /\ e \in Nat /\ b[o].size \in Nat \ {0} /\ b[e].size \in Nat \ {0}
  BY <1>1, <1>2
\* only o is followed by e
<1>4. \A x \in DOMAIN c \ {o} : x + b[x].size # e
  <2> SUFFICES ASSUME NEW x \in DOMAIN b, x # o, x # e, x + b[x].size = e
               PROVE  FALSE
    BY <1>1
  <2>1. x \in Nat /\ b[x].size \in Nat \ {0}
    BY <1>2
  <2>2. x < o \/ o < x
    BY <1>3, <2>1
  <2>3. x < o => x + b[x].size <= o
    BY <1>2 DEF Apart
  <2>4. o < x => o + b[o].size <= x
    BY <1>2 DEF Apart
  <2> QED
    BY <1>3, <2>1, <2>2, <2>3, <2>4
<1>5. Apart(c)
  <2> SUFFICES ASSUME NEW x \in DOMAIN c, NEW q \in DOMAIN c, x < q
               PROVE  x + c[x].size <= q
    BY DEF Apart
  <2>1. x \in Nat /\ q \in Nat /\ x + b[x].size <= q
    BY <1>1, <1>2 DEF Apart
  <2>2. CASE x # o
    BY <1>1, <2>1, <2>2
  <2>3. CASE x = o
    <3>1. e < q
      BY <1>1, <1>3, <2>1, <2>3
    <3>2. e + b[e].size <= q
      BY <1>1, <1>2, <3>1 DEF Apart
    <3> QED
      BY <1>1, <1>3, <2>1, <2>3, <3>2
  <2> QED
    BY <2>2, <2>3
<1>6. Chained(c)
  <2> SUFFICES ASSUME NEW x \in DOMAIN c
               PROVE  /\ x + c[x].size <= INIT_BLOCK_SIZE
                      /\ c[x].last <=> x + c[x].size = INIT_BLOCK_SIZE
                      /\ ~c[x].last => x + c[x].size \in DOMAIN c /\ c[x + c[x].size].prev = x
                      /\ x = 0 => c[x].prev = NoBlock
                      /\ x # 0 => c[x].prev \in DOMAIN c /\ c[x].prev + c[c[x].prev].size = x
    BY DEF Chained
  <2>1. x \in DOMAIN b /\ x # e /\ x \in Nat
    BY <1>1, <1>2
  <2>2. /\ x + b[x].size <= INIT_BLOCK_SIZE
        /\ b[x].last <=> x + b[x].size = INIT_BLOCK_SIZE
        /\ ~b[x].last => x + b[x].size \in DOMAIN b /\ b[x + b[x].size].prev = x
        /\ x = 0 => b[x].prev = NoBlock
        /\ x # 0 => b[x].prev \in DOMAIN b /\ b[x].prev + b[b[x].prev].size = x
    BY <1>2, <2>1 DEF Chained
  <2>3. /\ e + b[e].size <= INIT_BLOCK_SIZE
        /\ b[e].last <=> e + b[e].size = INIT_BLOCK_SIZE
        /\ ~b[e].last => e + b[e].size \in DOMAIN b /\ b[e + b[e].size].prev = e
    BY <1>1, <1>2 DEF Chained
  <2>4. x = o => x + c[x].size = e + b[e].size
    BY <1>1, <1>3
  <2>5. x + c[x].size <= INIT_BLOCK_SIZE /\ (c[x].last <=> x + c[x].size = INIT_BLOCK_SIZE)
    BY <1>1, <2>2, <2>3, <2>4
  <2>6. ASSUME ~c[x].last
        PROVE  x + c[x].size \in DOMAIN c /\ c[x + c[x].size].prev = x
    <3>1. CASE x = o
      <4>1. e + b[e].size \in DOMAIN b /\ e + b[e].size # e /\ b[e + b[e].size].prev = e
        BY <1>1, <1>3, <2>3, <2>6, <3>1
      <4> QED
        BY <1>1, <2>4, <3>1, <4>1
    <3>2. CASE x # o
      <4>1. x + b[x].size \in DOMAIN b /\ x + b[x].size # e /\ b[x + b[x].size].prev = x
        BY <1>1, <1>4, <2>2, <2>6, <3>2
      <4> QED
        BY <1>1, <2>1, <3>2, <4>1
    <3> QED
      BY <3>1, <3>2
  <2>7. x = 0 => c[x].prev = NoBlock
    BY <1>1, <1>3, <2>2, HeapNumbers
  <2>8. ASSUME x # 0
        PROVE  c[x].prev \in DOMAIN c /\ c[x].prev + c[c[x].prev].size = x
    <3>1. CASE b[x].prev = e
      <4>1. e + b[e].size = x /\ c[x].prev = o
        BY <1>1, <2>2, <2>8, <3>1
      <4> QED
        BY <1>1, <1>3, <4>1
    <3>2. CASE b[x].prev # e
      <4>1. c[x].prev = b[x].prev /\ b[x].prev \in DOMAIN c /\ b[x].prev + b[b[x].prev].size = x
        BY <1>1, <2>2, <2>8, <3>2
      <4>2. b[x].prev # o
        BY <2>1, <4>1
      <4> QED
        BY <1>1, <4>1, <4>2
    <3> QED
      BY <3>1, <3>2
  <2> QED
    BY <2>5, <2>6, <2>7, <2>8
<1> QED
  BY <1>1, <1>2, <1>5, <1>6 DEF Shaped

\* neighbours point at each other
LEMMA Neighbours ==
  ASSUME NEW b, Shaped(b), NEW x \in DOMAIN b
  PROVE  /\ x \in Nat /\ b[x].size \in Nat \ {0} /\ b[x] \in BlockHeader
         /\ ~b[x].last => /\ x + b[x].size \in DOMAIN b /\ x + b[x].size # x
                          /\ b[x + b[x].size].prev = x /\ GetNext(b, x) = x + b[x].size
         /\ b[x].last => GetNext(b, x) = NoBlock
         /\ b[x].prev # NoBlock => /\ b[x].prev \in DOMAIN b /\ b[x].prev + b[b[x].prev].size = x
                                   /\ ~b[b[x].prev].last
<1>1. x \in Nat /\ b[x] \in BlockHeader /\ Chained(b)
  BY DEF Shaped
<1>2. b[x].size \in Nat \ {0} /\ x + b[x].size # x
  BY <1>1 DEF BlockHeader
<1>3. ~b[x].last => x + b[x].size \in DOMAIN b /\ b[x + b[x].size].prev = x
  BY <1>1 DEF Chained
<1>4. ASSUME b[x].prev # NoBlock
      PROVE  /\ b[x].prev \in DOMAIN b /\ b[x].prev + b[b[x].prev].size = x
             /\ ~b[b[x].prev].last
  <2>1. b[x].prev \in DOMAIN b /\ b[x].prev + b[b[x].prev].size = x
    BY <1>1, <1>4 DEF Chained
  <2>2. x + b[x].size <= INIT_BLOCK_SIZE
    BY <1>1 DEF Chained
  <2>3. x # INIT_BLOCK_SIZE
    BY <1>1, <1>2, <2>2, HeapNumbers
  <2> QED
    BY <1>1, <2>1, <2>3 DEF Chained
<1> QED
  BY <1>1, <1>2, <1>3, <1>4 DEF GetNext

\* setting the used flag moves no block
LEMMA FlagOnly ==
  ASSUME NEW b, Shaped(b), NEW c, DOMAIN c = DOMAIN b, c \in [DOMAIN c -> BlockHeader],
         \A x \in DOMAIN c : c[x].size = b[x].size /\ c[x].last = b[x].last /\ c[x].prev = b[x].prev
  PROVE  Shaped(c)
<1>1. DOMAIN b \subseteq Nat /\ Chained(b) /\ Apart(b)
  BY DEF Shaped
<1>2. Apart(c)
  BY <1>1 DEF Apart
<1>3. Chained(c)
  <2> SUFFICES ASSUME NEW x \in DOMAIN b
               PROVE  /\ x + c[x].size <= INIT_BLOCK_SIZE
                      /\ c[x].last <=> x + c[x].size = INIT_BLOCK_SIZE
                      /\ ~c[x].last => x + c[x].size \in DOMAIN c /\ c[x + c[x].size].prev = x
                      /\ x = 0 => c[x].prev = NoBlock
                      /\ x # 0 => c[x].prev \in DOMAIN c /\ c[x].prev + c[c[x].prev].size = x
    BY DEF Chained
  <2> QED
    BY <1>1 DEF Chained
<1> QED
  BY <1>1, <1>2, <1>3 DEF Shaped

(* The first half of kfree: h is free, alone or as a part of the block       *)
(* before, and only the block it is now may be followed by a free one.       *)
LEMMA MergePrevSound ==
  ASSUME NEW b, NEW f, Sound(b, f), NEW h \in UsedOf(b), NEW r, r = MergePrev(b, f, h)
  PROVE  /\ Shaped(r[1]) /\ MergedBut(r[1], r[3]) /\ Listed(r[1], r[2]) /\ r[3] \in FreeOf(r[1])
         /\ UsedOf(r[1]) = UsedOf(b) \ {h}
         /\ \A x \in UsedOf(r[1]) : r[1][x].size = b[x].size
<1> DEFINE q == b[h].prev
<1>1. /\ Shaped(b) /\ h \in DOMAIN b /\ b[h].used /\ f \in Seq(Nat) /\ IsInjective(f) /\ Range(f) = FreeOf(b)
      /\ h \in Nat /\ b[h] \in BlockHeader
  BY Neighbours DEF Sound, Listed, UsedOf
<1>2. \A x \in DOMAIN b : ~b[x].used /\ ~b[x].last =>
        b[x + b[x].size].used /\ x + b[x].size \in DOMAIN b /\ b[x + b[x].size].prev = x
  <2> SUFFICES ASSUME NEW x \in DOMAIN b, ~b[x].used, ~b[x].last
               PROVE  b[x + b[x].size].used /\ x + b[x].size \in DOMAIN b /\ b[x + b[x].size].prev = x
    OBVIOUS
  <2>1. x # NoBlock
    BY <1>1, Neighbours, HeapNumbers
  <2> QED
    BY <1>1, <2>1, Neighbours DEF Sound, MergedBut
<1>3. CASE q # NoBlock /\ ~b[q].used
  <2> DEFINE c == Joined(b, q, h)
  <2>1. q \in DOMAIN b /\ h = q + b[q].size /\ ~b[q].last
    BY <1>1, <1>3, Neighbours
  <2>2. r = <<c, f, q>>
    BY <1>3 DEF MergePrev, Joined
  <2> HIDE DEF c
  <2>3. JoinsTo(b, q, h, c)
    BY <1>1, <2>1, JoinedHeaders DEF c
  <2>4. Shaped(c)
    BY <1>1, <2>1, JoinedShaped DEF c
  <2>5. DOMAIN c = DOMAIN b \ {h} /\ q # h /\ \A x \in DOMAIN c : c[x].used = b[x].used
    BY <2>3 DEF JoinsTo
  <2>6. \A x \in DOMAIN c \ {q} : c[x].size = b[x].size /\ c[x].last = b[x].last
    BY <2>3 DEF JoinsTo
  <2>7. FreeOf(c) = FreeOf(b) /\ UsedOf(c) = UsedOf(b) \ {h} /\ q \in FreeOf(c)
    BY <1>1, <1>3, <2>1, <2>5 DEF FreeOf, UsedOf
  <2>8. MergedBut(c, q)
    <3> SUFFICES ASSUME NEW x \in DOMAIN c \ {q}, ~c[x].used, ~c[x].last
                 PROVE  c[x + c[x].size].used
      BY DEF MergedBut
    <3>1. x \in DOMAIN b /\ ~b[x].used /\ ~b[x].last /\ c[x].size = b[x].size
      BY <2>5, <2>6
    <3>2. b[x + b[x].size].used /\ x + b[x].size \in DOMAIN b /\ b[x + b[x].size].prev = x
      BY <1>2, <3>1
    <3>3. x + b[x].size # h
      BY <3>2
    <3> QED
      BY <2>5, <3>1, <3>2, <3>3
  <2>9. \A x \in UsedOf(c) : c[x].size = b[x].size
    BY <1>3, <2>5, <2>6 DEF UsedOf
  <2>10. r[1] = c /\ r[2] = f /\ r[3] = q
    BY <2>2
  <2> HIDE DEF q
  <2> QED
    BY <1>1, <2>4, <2>7, <2>8, <2>9, <2>10 DEF Listed
<1>4. CASE ~(q # NoBlock /\ ~b[q].used)
  <2> DEFINE c == [b EXCEPT ![h].used = FALSE]
             g == <<h>> \o f
  <2>1. r = <<c, g, h>>
    BY <1>4 DEF MergePrev
  <2>2. /\ DOMAIN c = DOMAIN b /\ c \in [DOMAIN c -> BlockHeader]
        /\ \A x \in DOMAIN c : c[x].size = b[x].size /\ c[x].last = b[x].last /\ c[x].prev = b[x].prev
        /\ ~c[h].used /\ \A x \in DOMAIN c \ {h} : c[x].used = b[x].used
    <3>1. b \in [DOMAIN b -> BlockHeader]
      BY <1>1 DEF Shaped
    <3> QED
      BY <1>1, <3>1 DEF BlockHeader
  <2>3. r[1] = c /\ r[2] = g /\ r[3] = h
    BY <2>1
  <2> HIDE DEF c, g
  <2>4. Shaped(c)
    BY <1>1, <2>2, FlagOnly
  <2>5. FreeOf(c) = FreeOf(b) \cup {h} /\ UsedOf(c) = UsedOf(b) \ {h} /\ h \notin FreeOf(b)
    BY <1>1, <2>2 DEF FreeOf, UsedOf
  <2>6. Listed(c, g)
    BY <1>1, <2>5, PushInList DEF Listed, g
  <2>7. MergedBut(c, h)
    <3> SUFFICES ASSUME NEW x \in DOMAIN c \ {h}, ~c[x].used, ~c[x].last
                 PROVE  c[x + c[x].size].used
      BY DEF MergedBut
    <3>1. x \in DOMAIN b /\ ~b[x].used /\ ~b[x].last /\ c[x].size = b[x].size
      BY <2>2
    <3>2. b[x + b[x].size].used /\ x + b[x].size \in DOMAIN b /\ b[x + b[x].size].prev = x
      BY <1>2, <3>1
    <3>3. x # NoBlock
      BY <1>1, <3>1, Neighbours, HeapNumbers
    <3>4. x + b[x].size # h
      BY <1>4, <3>1, <3>2, <3>3
    <3> QED
      BY <2>2, <3>1, <3>2, <3>4
  <2> QED
    BY <1>1, <2>2, <2>3, <2>4, <2>5, <2>6, <2>7 DEF UsedOf, FreeOf
<1> QED
  BY <1>3, <1>4

(* The second half: the free block h and the one behind.                     *)
LEMMA MergeNextSound ==
  ASSUME NEW b, NEW f, Shaped(b), NEW h \in FreeOf(b), MergedBut(b, h), Listed(b, f),
         NEW r, r = MergeNext(b, f, h)
  PROVE  /\ Sound(r[1], r[2])
         /\ UsedOf(r[1]) = UsedOf(b) /\ \A x \in UsedOf(b) : r[1][x].size = b[x].size
<1> DEFINE n == GetNext(b, h)
<1>1. /\ h \in DOMAIN b /\ ~b[h].used /\ f \in Seq(Nat) /\ IsInjective(f) /\ Range(f) = FreeOf(b)
      /\ h \in Nat /\ b[h] \in BlockHeader
  BY Neighbours DEF Listed, FreeOf
<1>2. \A x \in DOMAIN b \ {h} : ~b[x].used /\ ~b[x].last =>
        b[x + b[x].size].used /\ x + b[x].size \in DOMAIN b /\ b[x + b[x].size].prev = x
  BY Neighbours DEF MergedBut
<1>3. CASE n # NoBlock /\ ~b[n].used
  <2> DEFINE c == Joined(b, h, n)
             i == CHOOSE i \in DOMAIN f : f[i] = n
  <2>1. ~b[h].last /\ n = h + b[h].size /\ n \in DOMAIN b
    BY <1>1, <1>3, Neighbours
  <2>2. r = <<c, RemoveAt(f, i)>>
    BY <1>3 DEF MergeNext, Joined
  <2> HIDE DEF c, i, n
  <2>3. JoinsTo(b, h, n, c)
    BY <1>1, <2>1, JoinedHeaders DEF c
  <2>4. Shaped(c)
    BY <1>1, <2>1, JoinedShaped DEF c
  <2>5. DOMAIN c = DOMAIN b \ {n} /\ h # n /\ \A x \in DOMAIN c : c[x].used = b[x].used
    BY <2>3 DEF JoinsTo
  <2>6. /\ \A x \in DOMAIN c \ {h} : c[x].size = b[x].size /\ c[x].last = b[x].last
        /\ c[h].size = b[h].size + b[n].size /\ c[h].last = b[n].last
    BY <2>3 DEF JoinsTo
  <2>7. FreeOf(c) = FreeOf(b) \ {n} /\ UsedOf(c) = UsedOf(b) /\ n \in FreeOf(b)
    BY <1>1, <1>3, <2>1, <2>5 DEF FreeOf, UsedOf
  <2>8. Listed(c, RemoveAt(f, i))
    BY <1>1, <2>7, UnlinkList DEF Listed, i
  <2>9. MergedBut(c, NoBlock)
    <3> SUFFICES ASSUME NEW x \in DOMAIN c, ~c[x].used, ~c[x].last
                 PROVE  c[x + c[x].size].used
      BY DEF MergedBut
    <3>1. CASE x # h
      <4>1. x \in DOMAIN b /\ ~b[x].used /\ ~b[x].last /\ c[x].size = b[x].size
        BY <2>5, <2>6, <3>1
      <4>2. b[x + b[x].size].used /\ x + b[x].size \in DOMAIN b
        BY <1>2, <3>1, <4>1
      <4> QED
        BY <1>3, <2>5, <4>1, <4>2
    <3>2. CASE x = h
      <4>1. ~b[n].last
        BY <2>6, <3>2
      <4>2. b[n + b[n].size].used /\ n + b[n].size \in DOMAIN b
        BY <1>2, <1>3, <2>1, <2>5, <4>1
      <4>3. x + c[x].size = n + b[n].size
        BY <1>1, <2>1, <2>6, <3>2, Neighbours
      <4> QED
        BY <1>3, <2>5, <4>2, <4>3
    <3> QED
      BY <3>1, <3>2
  <2>10. \A x \in UsedOf(b) : c[x].size = b[x].size
    BY <1>1, <1>3, <2>5, <2>6 DEF UsedOf
  <2>11. r[1] = c /\ r[2] = RemoveAt(f, i)
    BY <2>2
  <2> QED
    BY <2>4, <2>7, <2>8, <2>9, <2>10, <2>11 DEF Sound
<1>4. CASE ~(n # NoBlock /\ ~b[n].used)
  <2>1. r[1] = b /\ r[2] = f
    BY <1>4 DEF MergeNext
  <2>2. MergedBut(b, NoBlock)
    <3> SUFFICES ASSUME NEW x \in DOMAIN b, ~b[x].used, ~b[x].last
                 PROVE  b[x + b[x].size].used
      BY DEF MergedBut
    <3>1. x + b[x].size \in DOMAIN b /\ x + b[x].size \in Nat /\ GetNext(b, x) = x + b[x].size
      BY Neighbours
    <3> QED
      BY <1>2, <1>4, <3>1, HeapNumbers
  <2> QED
    BY <2>1, <2>2 DEF Sound
<1> QED
  BY <1>3, <1>4

-----------------------------------------------------------------------------
(* Taking size bytes of the free block h, when enough is left for a block:   *)
(* the headers after the split.                                              *)
SplitsTo(b, h, size, c) ==
  /\ h + size \notin DOMAIN b /\ DOMAIN c = DOMAIN b \cup {h + size}
  /\ c \in [DOMAIN c -> BlockHeader]
  /\ c[h] = HeaderAt(size, TRUE, FALSE, b[h].prev)
  /\ c[h + size] = HeaderAt(b[h].size - size, FALSE, b[h].last, h)
  /\ \A x \in DOMAIN b \ {h} : /\ c[x].used = b[x].used /\ c[x].size = b[x].size /\ c[x].last = b[x].last
                               /\ c[x].prev = IF b[x].prev = h THEN h + size ELSE b[x].prev

\* a split leads there
LEMMA SplitHeaders ==
  ASSUME NEW b, Shaped(b), NEW h \in DOMAIN b, NEW size \in Nat \ {0}, size < b[h].size,
         NEW c, c = Put([SetPrev(b, GetNext(b, h), h + size) EXCEPT ![h] = HeaderAt(size, TRUE, FALSE, b[h].prev)],
                        h + size, HeaderAt(b[h].size - size, FALSE, b[h].last, h))
  PROVE  SplitsTo(b, h, size, c)
<1> DEFINE n == GetNext(b, h)
           s == h + size
           b1 == SetPrev(b, n, s)
           b2 == [b1 EXCEPT ![h] = HeaderAt(size, TRUE, FALSE, b[h].prev)]
<1>1. /\ h \in Nat /\ b[h].size \in Nat \ {0} /\ b[h] \in BlockHeader
      /\ b \in [DOMAIN b -> BlockHeader] /\ DOMAIN b \subseteq Nat /\ s \in Nat
  BY Neighbours DEF Shaped
<1>2. s \notin DOMAIN b
  <2> SUFFICES ASSUME s \in DOMAIN b PROVE FALSE
    OBVIOUS
  <2>1. h + b[h].size <= s
    BY <1>1 DEF Shaped, Apart
  <2> QED
    BY <1>1, <2>1
<1>3. \A x \in DOMAIN b : b[x].prev = h <=> x = n
  <2> SUFFICES ASSUME NEW x \in DOMAIN b
               PROVE  b[x].prev = h <=> x = n
    OBVIOUS
  <2>1. b[x].prev = h => x = n
    BY <1>1, Neighbours, HeapNumbers
  <2>2. x = n => b[x].prev = h
    BY <1>1, Neighbours, HeapNumbers
  <2> QED
    BY <2>1, <2>2
<1>4. n # h
  BY <1>1, Neighbours, HeapNumbers
<1> HIDE DEF n
<1>5. /\ b1 \in [DOMAIN b -> BlockHeader]
      /\ \A x \in DOMAIN b : /\ b1[x].used = b[x].used /\ b1[x].size = b[x].size /\ b1[x].last = b[x].last
                             /\ b1[x].prev = IF x = n THEN s ELSE b[x].prev
  <2>1. CASE n \in DOMAIN b
    BY <1>1, <2>1 DEF SetPrev, BlockHeader
  <2>2. CASE n \notin DOMAIN b
    BY <1>1, <2>2 DEF SetPrev
  <2> QED
    BY <2>1, <2>2
<1> HIDE DEF b1
<1>6. /\ HeaderAt(size, TRUE, FALSE, b[h].prev) \in BlockHeader
      /\ HeaderAt(b[h].size - size, FALSE, b[h].last, h) \in BlockHeader
  BY <1>1 DEF HeaderAt, BlockHeader
<1>7. /\ b2 \in [DOMAIN b -> BlockHeader] /\ b2[h] = HeaderAt(size, TRUE, FALSE, b[h].prev)
      /\ \A x \in DOMAIN b \ {h} : b2[x] = b1[x]
  BY <1>5, <1>6
<1> HIDE DEF b2
<1>8. c = [x \in DOMAIN b \cup {s} |-> IF x = s THEN HeaderAt(b[h].size - size, FALSE, b[h].last, h) ELSE b2[x]]
  BY <1>7 DEF Put, n, b1, b2
<1> DEFINE hs == HeaderAt(b[h].size - size, FALSE, b[h].last, h)
<1> HIDE DEF hs
<1>9. /\ DOMAIN c = DOMAIN b \cup {s} /\ c \in [DOMAIN c -> BlockHeader]
      /\ c[s] = hs /\ \A x \in DOMAIN b : c[x] = b2[x]
  BY <1>2, <1>6, <1>7, <1>8 DEF hs
<1>10. \A x \in DOMAIN b \ {h} :
          /\ c[x].used = b[x].used /\ c[x].size = b[x].size /\ c[x].last = b[x].last
          /\ c[x].prev = IF b[x].prev = h THEN s ELSE b[x].prev
  <2> SUFFICES ASSUME NEW x \in DOMAIN b \ {h}
               PROVE  /\ c[x].used = b[x].used /\ c[x].size = b[x].size /\ c[x].last = b[x].last
                      /\ c[x].prev = IF b[x].prev = h THEN s ELSE b[x].prev
    BY Zenon
  <2>1. c[x] = b1[x]
    BY <1>7, <1>9
  <2>2. b[x].prev = h <=> x = n
    BY <1>3
  <2> QED
    BY <1>5, <2>1, <2>2
<1> QED
  BY <1>2, <1>7, <1>9, <1>10 DEF SplitsTo, hs

\* the blocks still tile the arena
LEMMA SplitShaped ==
  ASSUME NEW b, Shaped(b), NEW h \in DOMAIN b, NEW size \in Nat \ {0}, size < b[h].size,
         NEW c, SplitsTo(b, h, size, c)
  PROVE  Shaped(c)
<1> DEFINE s == h + size
<1>1. /\ h \in Nat /\ b[h].size \in Nat \ {0} /\ s \in Nat /\ DOMAIN b \subseteq Nat
      /\ Chained(b) /\ Apart(b) /\ s # h
  BY Neighbours DEF Shaped
<1>2. /\ s \notin DOMAIN b /\ DOMAIN c = DOMAIN b \cup {s} /\ c \in [DOMAIN c -> BlockHeader]
      /\ \A x \in DOMAIN b \ {h} : /\ c[x].used = b[x].used /\ c[x].size = b[x].size /\ c[x].last = b[x].last
                                   /\ c[x].prev = IF b[x].prev = h THEN s ELSE b[x].prev
  BY DEF SplitsTo
<1>3. /\ c[h].size = size /\ ~c[h].last /\ c[h].prev = b[h].prev
      /\ c[s].size = b[h].size - size /\ c[s].last = b[h].last /\ c[s].prev = h
  BY DEF SplitsTo, HeaderAt
<1>4. s + c[s].size = h + b[h].size
  BY <1>1, <1>3
<1> HIDE DEF s
\* only h ends where its successor begins
<1>5. \A x \in DOMAIN b \ {h} : x + b[x].size # h + b[h].size
  <2> SUFFICES ASSUME NEW x \in DOMAIN b, x # h, x + b[x].size = h + b[h].size
               PROVE  FALSE
    OBVIOUS
  <2>1. x \in Nat /\ b[x].size \in Nat \ {0} /\ (x < h \/ h < x)
    BY <1>1, Neighbours
  <2>2. (x < h => x + b[x].size <= h) /\ (h < x => h + b[h].size <= x)
    BY <1>1 DEF Apart
  <2> QED
    BY <1>1, <2>1, <2>2
<1>6. Apart(c)
  <2> SUFFICES ASSUME NEW x \in DOMAIN c, NEW q \in DOMAIN c, x < q
               PROVE  x + c[x].size <= q
    BY DEF Apart
  <2>1. CASE x = s
    <3>1. q \in DOMAIN b /\ q \in Nat /\ h < q
      BY <1>1, <1>2, <2>1 DEF s
    <3>2. h + b[h].size <= q
      BY <1>1, <3>1 DEF Apart
    <3> QED
      BY <1>4, <2>1, <3>2
  <2>2. CASE x = h
    <3>1. CASE q = s
      BY <1>1, <1>3, <2>2, <3>1 DEF s
    <3>2. CASE q # s
      <4>1. q \in Nat /\ h + b[h].size <= q
        BY <1>1, <1>2, <2>2, <3>2 DEF Apart
      <4> QED
        BY <1>1, <1>3, <2>2, <4>1
    <3> QED
      BY <3>1, <3>2
  <2>3. CASE x # s /\ x # h
    <3>1. x \in DOMAIN b /\ c[x].size = b[x].size /\ x \in Nat /\ b[x].size \in Nat
      BY <1>1, <1>2, <2>3, Neighbours
    <3>2. CASE q # s
      BY <1>1, <1>2, <3>1, <3>2 DEF Apart
    <3>3. CASE q = s
      <4>1. x < h
        <5> SUFFICES ASSUME h < x PROVE FALSE
          BY <1>1, <2>3, <3>1
        <5>1. h + b[h].size <= x
          BY <1>1, <3>1 DEF Apart
        <5> QED
          BY <1>1, <3>1, <3>3, <5>1 DEF s
      <4>2. x + b[x].size <= h
        BY <1>1, <3>1, <4>1 DEF Apart
      <4> QED
        BY <1>1, <3>1, <3>3, <4>2 DEF s
    <3> QED
      BY <3>2, <3>3
  <2> QED
    BY <2>1, <2>2, <2>3
<1>7. Chained(c)
  <2> SUFFICES ASSUME NEW x \in DOMAIN c
               PROVE  /\ x + c[x].size <= INIT_BLOCK_SIZE
                      /\ c[x].last <=> x + c[x].size = INIT_BLOCK_SIZE
                      /\ ~c[x].last => x + c[x].size \in DOMAIN c /\ c[x + c[x].size].prev = x
                      /\ x = 0 => c[x].prev = NoBlock
                      /\ x # 0 => c[x].prev \in DOMAIN c /\ c[x].prev + c[c[x].prev].size = x
    BY DEF Chained
  <2>1. \A y \in DOMAIN b :
          /\ y + b[y].size <= INIT_BLOCK_SIZE
          /\ b[y].last <=> y + b[y].size = INIT_BLOCK_SIZE
          /\ ~b[y].last => y + b[y].size \in DOMAIN b /\ b[y + b[y].size].prev = y
          /\ y = 0 => b[y].prev = NoBlock
          /\ y # 0 => b[y].prev \in DOMAIN b /\ b[y].prev + b[b[y].prev].size = y
    BY <1>1 DEF Chained
  <2>2. CASE x = s
    <3>1. x # 0 /\ c[x].prev = h /\ h + c[h].size = x /\ h \in DOMAIN c
      BY <1>1, <1>2, <1>3, <2>2 DEF s
    <3>2. /\ x + c[x].size <= INIT_BLOCK_SIZE
          /\ c[x].last <=> x + c[x].size = INIT_BLOCK_SIZE
      BY <1>3, <1>4, <2>1, <2>2
    <3>3. ASSUME ~c[x].last
          PROVE  x + c[x].size \in DOMAIN c /\ c[x + c[x].size].prev = x
      <4>1. h + b[h].size \in DOMAIN b /\ b[h + b[h].size].prev = h /\ h + b[h].size # h
        BY <1>1, <1>3, <2>1, <2>2, <3>3
      <4> QED
        BY <1>2, <1>4, <2>2, <4>1
    <3> QED
      BY <3>1, <3>2, <3>3
  <2>3. CASE x = h
    <3>1. /\ x + c[x].size = s /\ s <= INIT_BLOCK_SIZE /\ s # INIT_BLOCK_SIZE
      <4>1. h + b[h].size <= INIT_BLOCK_SIZE
        BY <2>1
      <4> QED
        BY <1>1, <1>3, <2>3, <4>1, HeapNumbers DEF s
    <3>2. s \in DOMAIN c /\ c[s].prev = x /\ ~c[x].last
      BY <1>2, <1>3, <2>3
    <3>3. x = 0 => c[x].prev = NoBlock
      BY <1>3, <2>1, <2>3
    <3>4. x # 0 => c[x].prev \in DOMAIN b \ {h} /\ c[x].prev + b[c[x].prev].size = x
      BY <1>1, <1>3, <2>1, <2>3
    <3>5. x # 0 => c[x].prev \in DOMAIN c /\ c[x].prev + c[c[x].prev].size = x
      BY <1>2, <3>4
    <3> QED
      BY <3>1, <3>2, <3>3, <3>5
  <2>4. CASE x # s /\ x # h
    <3>1. /\ x \in DOMAIN b \ {h} /\ x \in Nat /\ c[x].size = b[x].size /\ c[x].last = b[x].last
          /\ c[x].prev = IF b[x].prev = h THEN s ELSE b[x].prev
      BY <1>1, <1>2, <2>4
    <3>2. /\ x + c[x].size <= INIT_BLOCK_SIZE
          /\ c[x].last <=> x + c[x].size = INIT_BLOCK_SIZE
      BY <2>1, <3>1
    <3>3. ASSUME ~c[x].last
          PROVE  x + c[x].size \in DOMAIN c /\ c[x + c[x].size].prev = x
      <4>1. x + b[x].size \in DOMAIN b /\ b[x + b[x].size].prev = x
        BY <2>1, <3>1, <3>3
      <4>2. CASE x + b[x].size = h
        BY <1>2, <1>3, <3>1, <4>1, <4>2
      <4>3. CASE x + b[x].size # h
        BY <1>2, <3>1, <4>1, <4>3
      <4> QED
        BY <4>2, <4>3
    <3>4. x = 0 => c[x].prev = NoBlock
      BY <1>1, <2>1, <3>1, HeapNumbers
    <3>5. ASSUME x # 0
          PROVE  c[x].prev \in DOMAIN c /\ c[x].prev + c[c[x].prev].size = x
      <4>1. b[x].prev \in DOMAIN b /\ b[x].prev + b[b[x].prev].size = x
        BY <2>1, <3>1, <3>5
      <4>2. CASE b[x].prev = h
        BY <1>2, <1>4, <3>1, <4>1, <4>2
      <4>3. CASE b[x].prev # h
        BY <1>2, <3>1, <4>1, <4>3
      <4> QED
        BY <4>2, <4>3
    <3> QED
      BY <3>2, <3>3, <3>4, <3>5
  <2> QED
    BY <2>2, <2>3, <2>4
<1> QED
  BY <1>1, <1>2, <1>6, <1>7 DEF Shaped

(* What alloc does to an arena when the free block h is large enough.        *)
LEMMA TakeSound ==
  ASSUME NEW b, NEW f, Sound(b, f), NEW h \in FreeOf(b), NEW size \in Nat \ {0}, size <= b[h].size,
         NEW r, r = Take(b, f, h, size)
  PROVE  /\ Sound(r[1], r[2]) /\ UsedOf(r[1]) = UsedOf(b) \cup {h}
         /\ r[1][h].size >= size /\ \A x \in UsedOf(b) : r[1][x].size = b[x].size
<1> DEFINE rest == b[h].size - size
           s == h + size
           i == CHOOSE i \in DOMAIN f : f[i] = h
<1>1. /\ Shaped(b) /\ h \in DOMAIN b /\ ~b[h].used /\ f \in Seq(Nat) /\ IsInjective(f) /\ Range(f) = FreeOf(b)
      /\ h \in Nat /\ b[h] \in BlockHeader /\ b[h].size \in Nat
  BY Neighbours DEF Sound, Listed, FreeOf
<1>2. \A x \in DOMAIN b : ~b[x].used /\ ~b[x].last =>
        b[x + b[x].size].used /\ x + b[x].size \in DOMAIN b /\ b[x + b[x].size].prev = x
  <2> SUFFICES ASSUME NEW x \in DOMAIN b, ~b[x].used, ~b[x].last
               PROVE  b[x + b[x].size].used /\ x + b[x].size \in DOMAIN b /\ b[x + b[x].size].prev = x
    OBVIOUS
  <2>1. x # NoBlock
    BY <1>1, Neighbours, HeapNumbers
  <2> QED
    BY <1>1, <2>1, Neighbours DEF Sound, MergedBut
<1>3. CASE rest > Header
  <2> DEFINE c == Put([SetPrev(b, GetNext(b, h), h + size) EXCEPT ![h] = HeaderAt(size, TRUE, FALSE, b[h].prev)],
                      h + size, HeaderAt(b[h].size - size, FALSE, b[h].last, h))
             g == [f EXCEPT ![i] = s]
  <2>1. r = <<c, g>>
    BY <1>3 DEF Take
  <2>2. size < b[h].size
    BY <1>1, <1>3, HeapNumbers
  <2>3. SplitsTo(b, h, size, c)
    <3> HIDE DEF c
    <3> QED
      BY <1>1, <2>2, SplitHeaders DEF c
  <2>4. r[1] = c /\ r[2] = g
    BY <2>1
  <2> HIDE DEF c, g
  <2>5. Shaped(c)
    BY <1>1, <2>2, <2>3, SplitShaped
  <2>6. /\ s \notin DOMAIN b /\ DOMAIN c = DOMAIN b \cup {s} /\ s \in Nat
        /\ \A x \in DOMAIN b \ {h} : c[x].used = b[x].used /\ c[x].size = b[x].size /\ c[x].last = b[x].last
        /\ c[h].used /\ c[h].size = size /\ ~c[s].used /\ c[s].size = rest /\ c[s].last = b[h].last
    BY <1>1, <2>3 DEF SplitsTo, HeaderAt
  <2>7. s + rest = h + b[h].size
    BY <1>1
  <2> HIDE DEF s, rest
  <2>8. FreeOf(c) = (FreeOf(b) \ {h}) \cup {s} /\ UsedOf(c) = UsedOf(b) \cup {h} /\ s \notin FreeOf(b)
    BY <1>1, <2>6 DEF FreeOf, UsedOf
  <2>9. Listed(c, g)
    <3>1. h \in Range(f) /\ s \in Nat /\ s \notin Range(f)
      BY <1>1, <2>6, <2>8 DEF FreeOf
    <3>2. i \in DOMAIN f /\ f[i] = h
      BY <3>1 DEF Range
    <3> HIDE DEF i
    <3>3. g \in Seq(Nat) /\ DOMAIN g = DOMAIN f /\ g[i] = s /\ \A k \in DOMAIN f \ {i} : g[k] = f[k]
      BY <1>1, <3>1, <3>2 DEF g
    <3>4. IsInjective(g) /\ Range(g) = (Range(f) \ {f[i]}) \cup {s}
      BY <1>1, <3>1, <3>2, <3>3, ReplaceInList
    <3> QED
      BY <1>1, <2>8, <3>2, <3>3, <3>4 DEF Listed
  <2>10. MergedBut(c, NoBlock)
    <3> SUFFICES ASSUME NEW x \in DOMAIN c, ~c[x].used, ~c[x].last
                 PROVE  c[x + c[x].size].used
      BY DEF MergedBut
    <3>1. CASE x = s
      <4>1. b[h + b[h].size].used /\ h + b[h].size \in DOMAIN b
        BY <1>1, <1>2, <2>6, <3>1
      <4> QED
        BY <1>1, <2>6, <2>7, <3>1, <4>1
    <3>2. CASE x # s
      <4>1. x \in DOMAIN b /\ x # h /\ ~b[x].used /\ ~b[x].last /\ c[x].size = b[x].size
        BY <2>6, <3>2
      <4>2. b[x + b[x].size].used /\ x + b[x].size \in DOMAIN b
        BY <1>2, <4>1
      <4> QED
        BY <2>6, <4>1, <4>2
    <3> QED
      BY <3>1, <3>2
  <2>11. \A x \in UsedOf(b) : c[x].size = b[x].size
    BY <1>1, <2>6 DEF UsedOf
  <2> QED
    BY <2>4, <2>5, <2>6, <2>8, <2>9, <2>10, <2>11 DEF Sound
<1>4. CASE ~(rest > Header)
  <2> DEFINE c == [b EXCEPT ![h].used = TRUE]
             g == RemoveAt(f, i)
  <2>1. r = <<c, g>>
    BY <1>4 DEF Take
  <2>2. /\ DOMAIN c = DOMAIN b /\ c \in [DOMAIN c -> BlockHeader]
        /\ \A x \in DOMAIN c : c[x].size = b[x].size /\ c[x].last = b[x].last /\ c[x].prev = b[x].prev
        /\ c[h].used /\ \A x \in DOMAIN c \ {h} : c[x].used = b[x].used
    <3>1. b \in [DOMAIN b -> BlockHeader]
      BY <1>1 DEF Shaped
    <3> QED
      BY <1>1, <3>1 DEF BlockHeader
  <2>3. r[1] = c /\ r[2] = g
    BY <2>1
  <2> HIDE DEF c, g
  <2>4. Shaped(c)
    BY <1>1, <2>2, FlagOnly
  <2>5. FreeOf(c) = FreeOf(b) \ {h} /\ UsedOf(c) = UsedOf(b) \cup {h}
    BY <1>1, <2>2 DEF FreeOf, UsedOf
  <2>6. Listed(c, g)
    BY <1>1, <2>5, UnlinkList DEF Listed, g, i
  <2>7. MergedBut(c, NoBlock)
    BY <1>2, <2>2 DEF MergedBut
  <2> QED
    BY <1>1, <2>2, <2>3, <2>4, <2>5, <2>6, <2>7 DEF Sound, UsedOf
<1> QED
  BY <1>3, <1>4

(* A new arena is one free block.                                            *)
LEMMA FreshArena ==
  ASSUME NEW b, DOMAIN b = {0}, b = [o \in DOMAIN b |-> b[o]],
         b[0].size = INIT_BLOCK_SIZE, ~b[0].used, b[0].last, b[0].prev = NoBlock,
         b[0] \in BlockHeader
  PROVE  /\ Sound(b, <<0>>) /\ FreeOf(b) = {0} /\ UsedOf(b) = {} /\ b[0].size = INIT_BLOCK_SIZE
<1>1. DOMAIN b = {0}
  OBVIOUS
<1>2. b[0] \in BlockHeader /\ b[0].size = INIT_BLOCK_SIZE /\ ~b[0].used /\ b[0].last /\ b[0].prev = NoBlock
  OBVIOUS
<1>3. b \in [DOMAIN b -> BlockHeader] /\ DOMAIN b \subseteq Nat
  <2>1. b = [o \in DOMAIN b |-> b[o]]
    OBVIOUS
  <2>2. \A o \in DOMAIN b : b[o] \in BlockHeader /\ o \in Nat
    <3> SUFFICES ASSUME NEW o \in {0} PROVE b[o] \in BlockHeader /\ o \in Nat
      BY <1>1
    <3> QED
      BY <1>2
  <2> QED
    BY <2>1, <2>2
<1>4. Chained(b) /\ Apart(b) /\ MergedBut(b, NoBlock)
  <2>1. Chained(b)
    <3>1. /\ 0 + b[0].size <= INIT_BLOCK_SIZE /\ b[0].last /\ 0 + b[0].size = INIT_BLOCK_SIZE
          /\ b[0].prev = NoBlock
      BY <1>2, HeapNumbers
    <3> QED
      BY <1>1, <3>1 DEF Chained
  <2>2. Apart(b)
    BY <1>1 DEF Apart
  <2> QED
    BY <1>1, <1>2, <2>1, <2>2 DEF MergedBut
<1>5. FreeOf(b) = {0} /\ UsedOf(b) = {}
  BY <1>1, <1>2 DEF FreeOf, UsedOf
<1>6. <<0>> \in Seq(Nat) /\ IsInjective(<<0>>) /\ Range(<<0>>) = {0}
  BY DEF IsInjective, Range
<1> QED
  BY <1>2, <1>3, <1>4, <1>5, <1>6 DEF Sound, Shaped, Listed

-----------------------------------------------------------------------------
(* A block is handed out: b are the headers of arena a before and c after;   *)
(* a new arena has nothing in use before.                                    *)
HandsOut(a, b, c, h, n) ==
  /\ taken' = taken \cup {a} /\ blk'[a] = c /\ \A d \in taken \ {a} : blk'[d] = blk[d]
  /\ h \notin UsedOf(b) /\ UsedOf(c) = UsedOf(b) \cup {h}
  /\ Shaped(c) /\ c[h].size >= n + Header /\ \A x \in UsedOf(b) : c[x].size = b[x].size
  /\ \A y \in held : y.arena = a => /\ y.base - Header \in UsedOf(b)
                                    /\ y.size + Header <= b[y.base - Header].size
  /\ \A o \in UsedOf(b) : \E x \in held : x.arena = a /\ x.base = o + Header
  /\ held' = held \cup {[arena |-> a, base |-> h + Header, size |-> n]}

\* the invariant of what is held, and a step of the promise
LEMMA HandOut ==
  ASSUME HeldOK, NEW a \in Arena, NEW b, NEW c, NEW h \in Nat, NEW n \in Request,
         HandsOut(a, b, c, h, n)
  PROVE  HeldOK' /\ Promise!Kmalloc
<1> USE DEF HandsOut
<1> DEFINE x == [arena |-> a, base |-> h + Header, size |-> n]
<1>1. x.arena = a /\ x.base = h + Header /\ x.size = n /\ x.base - Header = h
  BY HeapNumbers
<1>2. n \in Nat /\ Request \subseteq Nat
  BY HeapAssumption
<1>3. x \in [arena : taken', base : Nat, size : Request] /\ held' = held \cup {x}
  BY HeapNumbers
<1> HIDE DEF x
<1>4. \A y \in held : y.arena \in taken /\ y.base \in Nat /\ y.size \in Request /\ y.size \in Nat
  BY <1>2 DEF HeldOK
<1>5. \A y \in held : y.arena = a => /\ y.base - Header \in UsedOf(c)
                                     /\ y.size + Header <= c[y.base - Header].size
  OBVIOUS
<1>6. HeldOK'
  <2>1. held' \subseteq [arena : taken', base : Nat, size : Request]
    BY <1>3 DEF HeldOK
  <2>2. ASSUME NEW y \in held'
        PROVE  /\ y.base - Header \in UsedOf(blk'[y.arena])
               /\ y.size + Header <= blk'[y.arena][y.base - Header].size
    <3>1. CASE y = x
      BY <1>1, <1>2, <3>1
    <3>2. CASE y \in held /\ y.arena = a
      BY <1>5, <3>2
    <3>3. CASE y \in held /\ y.arena # a
      BY <1>4, <3>3 DEF HeldOK
    <3> QED
      BY <1>3, <2>2, <3>1, <3>2, <3>3
  <2>3. ASSUME NEW y \in held', NEW z \in held', y.arena = z.arena, y.base = z.base
        PROVE  y = z
    <3>1. CASE y \in held /\ z \in held
      BY <2>3, <3>1 DEF HeldOK
    <3>2. \A w \in held : ~(w.arena = x.arena /\ w.base = x.base)
      BY <1>1
    <3> QED
      BY <1>3, <2>3, <3>1, <3>2
  <2>4. ASSUME NEW d \in taken', NEW o \in UsedOf(blk'[d])
        PROVE  \E y \in held' : y.arena = d /\ y.base = o + Header
    <3>1. CASE d # a
      BY <1>3, <2>4, <3>1 DEF HeldOK
    <3>2. CASE d = a /\ o = h
      BY <1>1, <1>3, <3>2
    <3>3. CASE d = a /\ o # h
      BY <1>3, <2>4, <3>3
    <3> QED
      BY <3>1, <3>2, <3>3
  <2> QED
    BY <2>1, <2>2, <2>3, <2>4 DEF HeldOK
<1>7. Promise!Kmalloc
  <2>1. h \in DOMAIN c /\ c[h].size \in Nat /\ h + c[h].size <= INIT_BLOCK_SIZE
    BY Neighbours DEF UsedOf, Shaped, Chained
  <2>2. x.base \in Header .. INIT_BLOCK_SIZE /\ x.base + x.size <= INIT_BLOCK_SIZE
    BY <1>1, <1>2, <2>1, HeapNumbers
  <2>3. x \in [arena : Arena, base : Header .. INIT_BLOCK_SIZE, size : Request]
    BY <2>2 DEF x
  <2>4. ASSUME NEW y \in held
        PROVE  Promise!Disjoint(x, y)
    <3> SUFFICES ASSUME y.arena = a
                 PROVE  Promise!Before(x, y) \/ Promise!Before(y, x)
      BY <1>1 DEF Promise!Disjoint
    <3> DEFINE o == y.base - Header
    <3>1. o \in UsedOf(b) /\ o \in DOMAIN c /\ y.size + Header <= c[o].size /\ o # h
      BY <1>5 DEF UsedOf
    <3>2. o \in Nat /\ c[o].size \in Nat /\ y.base = o + Header /\ y.size \in Nat
      <4>1. o \in Nat /\ c[o].size \in Nat
        BY <3>1, Neighbours
      <4> QED
        BY <1>4, <4>1, HeapNumbers
    <3> HIDE DEF o
    <3>3. CASE h < o
      <4>1. h + c[h].size <= o
        BY <2>1, <3>1, <3>3 DEF Shaped, Apart
      <4> QED
        BY <1>1, <1>2, <2>1, <3>2, <4>1, HeapNumbers DEF Promise!Before
    <3>4. CASE o < h
      <4>1. o + c[o].size <= h
        BY <2>1, <3>1, <3>4 DEF Shaped, Apart
      <4> QED
        BY <1>1, <3>1, <3>2, <4>1, HeapNumbers DEF Promise!Before
    <3> QED
      BY <3>1, <3>2, <3>3, <3>4
  <2> QED
    BY <1>3, <2>2, <2>3, <2>4 DEF Promise!Kmalloc
<1> QED
  BY <1>6, <1>7

(* A block is given back.                                                    *)
LEMMA GiveBack ==
  ASSUME HeldOK, NEW x \in held, NEW c, \A d \in taken : UsedOf(blk[d]) \subseteq Nat,
         taken' = taken, blk'[x.arena] = c, \A d \in taken \ {x.arena} : blk'[d] = blk[d],
         UsedOf(c) = UsedOf(blk[x.arena]) \ {x.base - Header},
         \A o \in UsedOf(c) : c[o].size = blk[x.arena][o].size,
         held' = held \ {x}
  PROVE  HeldOK'
<1>1. \A y \in held : y.arena \in taken /\ y.base \in Nat
  BY DEF HeldOK
<1>2. held' \subseteq [arena : taken', base : Nat, size : Request]
  BY DEF HeldOK
<1>3. ASSUME NEW y \in held'
      PROVE  /\ y.base - Header \in UsedOf(blk'[y.arena])
             /\ y.size + Header <= blk'[y.arena][y.base - Header].size
  <2>1. /\ y \in held /\ y # x /\ y.base - Header \in UsedOf(blk[y.arena])
        /\ y.size + Header <= blk[y.arena][y.base - Header].size
    BY <1>3 DEF HeldOK
  <2>2. CASE y.arena = x.arena
    <3>1. y.base # x.base
      BY <2>1, <2>2 DEF HeldOK
    <3>2. y.base - Header # x.base - Header
      BY <1>1, <2>1, <3>1, HeapNumbers
    <3> QED
      BY <2>1, <2>2, <3>2
  <2>3. CASE y.arena # x.arena
    BY <1>1, <2>1, <2>3
  <2> QED
    BY <2>2, <2>3
<1>4. \A y, z \in held' : y.arena = z.arena /\ y.base = z.base => y = z
  BY DEF HeldOK
<1>5. ASSUME NEW d \in taken', NEW o \in UsedOf(blk'[d])
      PROVE  \E y \in held' : y.arena = d /\ y.base = o + Header
  <2>1. d \in taken /\ o \in UsedOf(blk[d]) /\ (d = x.arena => o # x.base - Header)
    BY <1>1, <1>5
  <2>2. PICK y \in held : y.arena = d /\ y.base = o + Header
    BY <2>1 DEF HeldOK
  <2>3. d = x.arena => x.base # o + Header
    <3>1. o \in Nat /\ x.base \in Nat
      BY <1>1, <2>1
    <3> QED
      BY <2>1, <3>1, HeapNumbers
  <2> QED
    BY <2>2, <2>3
<1> QED
  BY <1>2, <1>3, <1>4, <1>5 DEF HeldOK

-----------------------------------------------------------------------------
(* The actions.  At first no arena is built.                                 *)
LEMMA HeapStart ==
  ASSUME HeapInit
  PROVE  HeapInv
BY DEF HeapInit, HeapInv, HeldOK, CallsOK

\* used blocks are at offsets
LEMMA UsedOffsets ==
  ASSUME HeapInv, NEW a \in taken
  PROVE  UsedOf(blk[a]) \subseteq Nat /\ a \in Arena /\ Sound(blk[a], freeList[a])
BY DEF HeapInv, Sound, Shaped, UsedOf

\* steps that only move a call on
LEMMA CallOnly ==
  ASSUME HeapInv, CallsOK', UNCHANGED <<blk, freeList, taken, held>>
  PROVE  HeapInv'
BY DEF HeapInv, HeldOK

\* kmalloc begins at the head of the list
LEMMA KmallocCallKeeps ==
  ASSUME HeapInv, NEW t \in Thread, NEW size \in Request, KmallocCall(t, size)
  PROVE  HeapInv' /\ held' = held
<1>1. size \in Nat /\ Adjusted(size) \in Nat
  BY HeapAssumption, AdjustedLarge
<1>2. CallsOK'
  BY <1>1 DEF HeapInv, CallsOK, KmallocCall, arenaVars
<1> QED
  BY <1>2, CallOnly DEF KmallocCall

\* first fit
LEMMA FirstFitFree ==
  ASSUME HeapInv, NEW a \in taken, NEW size \in Nat, Fitting(a, size) # {}
  PROVE  FirstFit(a, size) \in FreeOf(blk[a]) /\ blk[a][FirstFit(a, size)].size >= size
<1>1. freeList[a] \in Seq(Nat) /\ Range(freeList[a]) = FreeOf(blk[a])
  BY DEF HeapInv, Sound, Listed
<1> DEFINE F == Fitting(a, size)
           i == CHOOSE i \in F : \A j \in F : i <= j
<1>2. F \in SUBSET Nat
  BY <1>1 DEF Fitting
<1>3. \E j \in F : \A k \in F : j <= k
  BY <1>2, LeastNatural
<1> HIDE DEF F
<1>4. i \in F
  BY <1>3
<1>5. FirstFit(a, size) = freeList[a][i]
  BY DEF FirstFit, F
<1> HIDE DEF i
<1> QED
  BY <1>1, <1>4, <1>5 DEF F, Fitting, Range

\* kmalloc takes from an arena or goes on
LEMMA KmallocScanKeeps ==
  ASSUME HeapInv, NEW t \in Thread, KmallocScan(t)
  PROVE  HeapInv' /\ (held' = held \/ Promise!Kmalloc)
<1> DEFINE a == at[t]
<1>1. /\ a \in taken /\ a \in Arena /\ asked[t] \in Request /\ want[t] = Adjusted(asked[t])
      /\ Sound(blk[a], freeList[a]) /\ pc[t] = "scan"
  BY DEF HeapInv, CallsOK, KmallocScan
<1>2. asked[t] \in Nat /\ want[t] \in Nat \ {0} /\ want[t] >= asked[t] + Header
  BY <1>1, HeapAssumption, AdjustedLarge
<1>3. CASE Fitting(a, want[t]) = {}
  <2>1. CallsOK'
    BY <1>1, <1>3 DEF HeapInv, CallsOK, KmallocScan, arenaVars
  <2> QED
    BY <1>3, <2>1, CallOnly DEF KmallocScan
<1>4. CASE Fitting(a, want[t]) # {}
  <2> DEFINE h == FirstFit(a, want[t])
             r == Take(blk[a], freeList[a], h, want[t])
  <2>1. h \in FreeOf(blk[a]) /\ blk[a][h].size >= want[t]
    BY <1>1, <1>2, <1>4, FirstFitFree
  <2>2. /\ blk' = [blk EXCEPT ![a] = r[1]] /\ freeList' = [freeList EXCEPT ![a] = r[2]]
        /\ held' = held \cup {[arena |-> a, base |-> h + Header, size |-> asked[t]]}
        /\ want' = [want EXCEPT ![t] = 0] /\ asked' = [asked EXCEPT ![t] = 0]
        /\ at' = [at EXCEPT ![t] = NoArena] /\ pc' = [pc EXCEPT ![t] = "idle"]
        /\ UNCHANGED <<arenaVars, taken>>
    BY <1>4 DEF KmallocScan, Return
  <2> HIDE DEF h, r
  <2>3. h \in Nat /\ h \in DOMAIN blk[a] /\ h \notin UsedOf(blk[a]) /\ blk[a][h].size \in Nat
    BY <1>1, <2>1, Neighbours DEF Sound, FreeOf, UsedOf
  <2>4. want[t] <= blk[a][h].size
    BY <1>2, <2>1, <2>3
  <2>5. /\ Sound(r[1], r[2]) /\ UsedOf(r[1]) = UsedOf(blk[a]) \cup {h}
        /\ r[1][h].size >= want[t] /\ \A x \in UsedOf(blk[a]) : r[1][x].size = blk[a][x].size
    BY <1>1, <1>2, <2>1, <2>4, TakeSound DEF r
  <2>6. /\ blk' = [d \in Arena |-> IF d = a THEN r[1] ELSE blk[d]]
        /\ freeList' = [d \in Arena |-> IF d = a THEN r[2] ELSE freeList[d]]
    BY <1>1, <2>2 DEF HeapInv
  <2>7. blk'[a] = r[1] /\ freeList'[a] = r[2] /\ \A d \in Arena \ {a} : blk'[d] = blk[d] /\ freeList'[d] = freeList[d]
    BY <1>1, <2>6
  <2>8. r[1][h].size \in Nat /\ r[1][h].size >= asked[t] + Header
    <3>1. h \in DOMAIN r[1] /\ Shaped(r[1])
      BY <2>5 DEF UsedOf, Sound
    <3>2. r[1][h].size \in Nat
      BY <3>1, Neighbours
    <3> QED
      BY <1>2, <2>5, <3>2, HeapNumbers
  <2>9. HeldOK' /\ Promise!Kmalloc
    <3>1. HeldOK /\ taken \subseteq Arena
      BY DEF HeapInv
    <3>2. taken' = taken \cup {a}
      BY <1>1, <2>2
    <3>3. \A y \in held : y.arena = a => /\ y.base - Header \in UsedOf(blk[a])
                                         /\ y.size + Header <= blk[a][y.base - Header].size
      BY <3>1 DEF HeldOK
    <3>4. \A o \in UsedOf(blk[a]) : \E x \in held : x.arena = a /\ x.base = o + Header
      BY <1>1, <3>1 DEF HeldOK
    <3>5. Shaped(r[1])
      BY <2>5 DEF Sound
    <3>6. \A d \in taken \ {a} : blk'[d] = blk[d]
      BY <2>7, <3>1
    <3> HIDE DEF a
    <3>7. HandsOut(a, blk[a], r[1], h, asked[t])
      BY <2>2, <2>3, <2>5, <2>7, <2>8, <3>2, <3>3, <3>4, <3>5, <3>6 DEF HandsOut
    <3> QED
      BY <1>1, <2>3, <3>1, <3>7, HandOut
  <2>10. CallsOK'
    BY <2>2 DEF HeapInv, CallsOK, arenaVars
  <2>11. \A d \in taken' : Sound(blk'[d], freeList'[d])
    BY <2>2, <2>5, <2>7 DEF HeapInv
  <2> QED
    BY <2>2, <2>6, <2>9, <2>10, <2>11 DEF HeapInv
<1> QED
  BY <1>3, <1>4

\* a new arena
LEMMA KmallocGrowKeeps ==
  ASSUME HeapInv, NEW t \in Thread, KmallocGrow(t)
  PROVE  HeapInv' /\ (held' = held \/ Promise!Kmalloc)
<1> DEFINE b0 == [o \in {0} |-> HeaderAt(INIT_BLOCK_SIZE, FALSE, TRUE, NoBlock)]
           r == Take(b0, <<0>>, 0, want[t])
<1>1. asked[t] \in Request /\ want[t] = Adjusted(asked[t])
  BY DEF HeapInv, CallsOK, KmallocGrow
<1>2. asked[t] \in Nat /\ want[t] \in Nat \ {0} /\ want[t] >= asked[t] + Header
  BY <1>1, HeapAssumption, AdjustedLarge
<1>3. PICK a \in Arena \ taken :
       /\ taken' = taken \cup {a}
       /\ at' = [at EXCEPT ![t] = a]
       /\ IF want[t] > INIT_BLOCK_SIZE
            THEN /\ blk' = [blk EXCEPT ![a] = b0]
                 /\ freeList' = [freeList EXCEPT ![a] = <<0>>]
                 /\ pc' = [pc EXCEPT ![t] = "panic"]
                 /\ UNCHANGED <<held, want, asked>>
            ELSE /\ blk' = [blk EXCEPT ![a] = r[1]]
                 /\ freeList' = [freeList EXCEPT ![a] = r[2]]
                 /\ pc' = [pc EXCEPT ![t] = "publish"]
                 /\ Return(t, a, 0)
  BY DEF KmallocGrow
<1>4. /\ Sound(b0, <<0>>) /\ FreeOf(b0) = {0} /\ UsedOf(b0) = {} /\ b0[0].size = INIT_BLOCK_SIZE
  <2>1. DOMAIN b0 = {0} /\ b0 = [o \in DOMAIN b0 |-> b0[o]] /\ b0[0] = HeaderAt(INIT_BLOCK_SIZE, FALSE, TRUE, NoBlock)
    OBVIOUS
  <2> HIDE DEF b0
  <2>2. b0[0].size = INIT_BLOCK_SIZE /\ ~b0[0].used /\ b0[0].last /\ b0[0].prev = NoBlock /\ b0[0] \in BlockHeader
    BY <2>1, HeapNumbers DEF HeaderAt, BlockHeader
  <2> QED
    BY <2>1, <2>2, FreshArena
<1> HIDE DEF b0
<1>5. \A y \in held : y.arena # a
  BY <1>3 DEF HeapInv, HeldOK
<1>6. UNCHANGED arenaVars /\ HeldOK /\ CallsOK /\ taken \subseteq Arena
  BY DEF KmallocGrow, HeapInv
<1>7. CASE want[t] > INIT_BLOCK_SIZE
  <2>1. /\ blk' = [d \in Arena |-> IF d = a THEN b0 ELSE blk[d]]
        /\ freeList' = [d \in Arena |-> IF d = a THEN <<0>> ELSE freeList[d]]
    BY <1>3, <1>7 DEF HeapInv
  <2>2. blk'[a] = b0 /\ freeList'[a] = <<0>> /\ \A d \in Arena \ {a} : blk'[d] = blk[d] /\ freeList'[d] = freeList[d]
    BY <2>1
  <2>3. held' = held /\ want' = want /\ asked' = asked /\ pc' = [pc EXCEPT ![t] = "panic"]
    BY <1>3, <1>7
  <2>4. HeldOK'
    <3>1. held' \subseteq [arena : taken', base : Nat, size : Request]
      BY <1>3, <1>6, <2>3 DEF HeldOK
    <3>2. \A y \in held' : /\ y.base - Header \in UsedOf(blk'[y.arena])
                           /\ y.size + Header <= blk'[y.arena][y.base - Header].size
      BY <1>5, <1>6, <2>2, <2>3 DEF HeldOK
    <3>3. \A y, z \in held' : y.arena = z.arena /\ y.base = z.base => y = z
      BY <1>6, <2>3 DEF HeldOK
    <3>4. \A d \in taken' : \A o \in UsedOf(blk'[d]) : \E x \in held' : x.arena = d /\ x.base = o + Header
      BY <1>3, <1>4, <1>6, <2>2, <2>3 DEF HeldOK
    <3> QED
      BY <3>1, <3>2, <3>3, <3>4 DEF HeldOK
  <2>5. CallsOK'
    BY <1>3, <1>6, <2>3 DEF CallsOK, arenaVars
  <2>6. \A d \in taken' : Sound(blk'[d], freeList'[d])
    BY <1>3, <1>4, <1>6, <2>2 DEF HeapInv
  <2> QED
    BY <1>3, <1>6, <2>1, <2>3, <2>4, <2>5, <2>6 DEF HeapInv
<1>8. CASE ~(want[t] > INIT_BLOCK_SIZE)
  <2>1. /\ blk' = [blk EXCEPT ![a] = r[1]] /\ freeList' = [freeList EXCEPT ![a] = r[2]]
        /\ pc' = [pc EXCEPT ![t] = "publish"]
        /\ held' = held \cup {[arena |-> a, base |-> 0 + Header, size |-> asked[t]]}
        /\ want' = [want EXCEPT ![t] = 0] /\ asked' = [asked EXCEPT ![t] = 0]
    BY <1>3, <1>8 DEF Return
  <2> HIDE DEF r
  <2>2. want[t] <= b0[0].size
    BY <1>2, <1>4, <1>8, HeapNumbers
  <2>3. 0 \in FreeOf(b0)
    BY <1>4
  <2>4. /\ Sound(r[1], r[2]) /\ UsedOf(r[1]) = UsedOf(b0) \cup {0}
        /\ r[1][0].size >= want[t] /\ \A x \in UsedOf(b0) : r[1][x].size = b0[x].size
    BY <1>2, <1>4, <2>2, <2>3, TakeSound DEF r
  <2>5. /\ blk' = [d \in Arena |-> IF d = a THEN r[1] ELSE blk[d]]
        /\ freeList' = [d \in Arena |-> IF d = a THEN r[2] ELSE freeList[d]]
    BY <2>1 DEF HeapInv
  <2>6. blk'[a] = r[1] /\ freeList'[a] = r[2] /\ \A d \in Arena \ {a} : blk'[d] = blk[d] /\ freeList'[d] = freeList[d]
    BY <2>5
  <2>7. r[1][0].size \in Nat /\ r[1][0].size >= asked[t] + Header
    <3>1. 0 \in DOMAIN r[1] /\ Shaped(r[1])
      BY <2>4 DEF UsedOf, Sound
    <3>2. r[1][0].size \in Nat
      BY <3>1, Neighbours
    <3> QED
      BY <1>2, <2>4, <3>2, HeapNumbers
  <2>8. HeldOK' /\ Promise!Kmalloc
    <3>1. a \in Arena /\ taken' = taken \cup {a} /\ \A d \in taken \ {a} : blk'[d] = blk[d]
      BY <1>3, <1>6, <2>6
    <3>2. 0 \in Nat /\ 0 \notin UsedOf(b0) /\ Shaped(r[1])
      BY <1>4, <2>4 DEF Sound
    <3>3. \A y \in held : y.arena = a => /\ y.base - Header \in UsedOf(b0)
                                         /\ y.size + Header <= b0[y.base - Header].size
      BY <1>5
    <3>4. \A o \in UsedOf(b0) : \E x \in held : x.arena = a /\ x.base = o + Header
      BY <1>4
    <3>5. HandsOut(a, b0, r[1], 0, asked[t])
      BY <2>1, <2>4, <2>6, <2>7, <3>1, <3>2, <3>3, <3>4 DEF HandsOut
    <3> QED
      BY <1>1, <1>6, <3>1, <3>2, <3>5, HandOut
  <2>9. CallsOK'
    BY <1>3, <1>6, <2>1 DEF CallsOK, arenaVars
  <2>10. \A d \in taken' : Sound(blk'[d], freeList'[d])
    BY <1>3, <1>6, <2>4, <2>6 DEF HeapInv
  <2> QED
    BY <1>3, <1>6, <2>5, <2>8, <2>9, <2>10 DEF HeapInv
<1> QED
  BY <1>7, <1>8

\* failing, linking and publishing move arenas that are built
LEMMA KmallocEndKeeps ==
  ASSUME HeapInv, NEW t \in Thread, KmallocFails(t) \/ KmallocLink(t) \/ KmallocPublish(t)
  PROVE  HeapInv' /\ held' = held
<1>1. CallsOK /\ taken \subseteq Arena
  BY DEF HeapInv
<1>2. CallsOK'
  <2>1. CASE KmallocFails(t)
    BY <1>1, <2>1 DEF CallsOK, KmallocFails, arenaVars
  <2>2. CASE KmallocLink(t)
    BY <1>1, <2>2 DEF CallsOK, KmallocLink
  <2>3. CASE KmallocPublish(t)
    BY <1>1, <2>3 DEF CallsOK, KmallocPublish
  <2> QED
    BY <2>1, <2>2, <2>3
<1>3. UNCHANGED <<blk, freeList, taken, held>>
  BY DEF KmallocFails, KmallocLink, KmallocPublish
<1> QED
  BY <1>2, <1>3, CallOnly

\* another processor's alloc_init loses arenas and breaks none
LEMMA AllocInitKeeps ==
  ASSUME HeapInv, AllocInit
  PROVE  HeapInv' /\ held' = held
<1>1. CallsOK'
  BY DEF HeapInv, CallsOK, AllocInit
<1> QED
  BY <1>1, CallOnly DEF AllocInit

\* kfree, both merges included
LEMMA KfreeKeeps ==
  ASSUME HeapInv, NEW t \in Thread, NEW x \in held, Kfree(t, x)
  PROVE  HeapInv' /\ Promise!Kfree
<1> DEFINE a == x.arena
           h == x.base - Header
           p == MergePrev(blk[a], freeList[a], h)
           n == MergeNext(p[1], p[2], p[3])
<1>1. /\ held' = held \ {x} /\ blk' = [blk EXCEPT ![a] = n[1]] /\ freeList' = [freeList EXCEPT ![a] = n[2]]
      /\ UNCHANGED <<arenaVars, taken, pc, want, at, asked>>
  BY DEF Kfree
<1> HIDE DEF n, p
<1>2. a \in taken /\ a \in Arena /\ h \in UsedOf(blk[a]) /\ Sound(blk[a], freeList[a])
      /\ HeldOK /\ CallsOK /\ taken \subseteq Arena
  BY DEF HeapInv, HeldOK
<1> HIDE DEF h, a
<1>3. /\ Shaped(p[1]) /\ MergedBut(p[1], p[3]) /\ Listed(p[1], p[2]) /\ p[3] \in FreeOf(p[1])
      /\ UsedOf(p[1]) = UsedOf(blk[a]) \ {h}
      /\ \A o \in UsedOf(p[1]) : p[1][o].size = blk[a][o].size
  BY <1>2, MergePrevSound DEF p
<1>4. /\ Sound(n[1], n[2])
      /\ UsedOf(n[1]) = UsedOf(p[1]) /\ \A o \in UsedOf(p[1]) : n[1][o].size = p[1][o].size
  BY <1>3, MergeNextSound DEF n
<1>5. /\ blk' = [d \in Arena |-> IF d = a THEN n[1] ELSE blk[d]]
      /\ freeList' = [d \in Arena |-> IF d = a THEN n[2] ELSE freeList[d]]
  BY <1>1, <1>2 DEF HeapInv
<1>6. blk'[a] = n[1] /\ freeList'[a] = n[2] /\ \A d \in Arena \ {a} : blk'[d] = blk[d] /\ freeList'[d] = freeList[d]
  BY <1>2, <1>5
<1>7. HeldOK'
  <2>1. \A d \in taken : UsedOf(blk[d]) \subseteq Nat
    BY UsedOffsets
  <2>2. UsedOf(n[1]) = UsedOf(blk[x.arena]) \ {x.base - Header}
    BY <1>3, <1>4 DEF a, h
  <2>3. \A o \in UsedOf(n[1]) : n[1][o].size = blk[x.arena][o].size
    BY <1>3, <1>4 DEF a
  <2>4. blk'[x.arena] = n[1] /\ \A d \in taken \ {x.arena} : blk'[d] = blk[d]
    BY <1>2, <1>6 DEF a
  <2> QED
    BY <1>1, <1>2, <2>1, <2>2, <2>3, <2>4, GiveBack
<1>8. CallsOK'
  BY <1>1, <1>2 DEF CallsOK, arenaVars
<1>9. \A d \in taken' : Sound(blk'[d], freeList'[d])
  BY <1>1, <1>2, <1>4, <1>6 DEF HeapInv
<1> QED
  BY <1>1, <1>2, <1>5, <1>7, <1>8, <1>9 DEF HeapInv, Promise!Kfree

\* every step keeps the invariant, and is a step of the promise or none
LEMMA HeapStep ==
  ASSUME HeapInv, [HeapNext]_heapVars
  PROVE  HeapInv' /\ [Promise!Next]_held
<1>1. ASSUME AllocInit
      PROVE  HeapInv' /\ [Promise!Next]_held
  BY <1>1, AllocInitKeeps
<1>2. ASSUME NEW t \in Thread, NEW size \in Request, KmallocCall(t, size)
      PROVE  HeapInv' /\ [Promise!Next]_held
  BY <1>2, KmallocCallKeeps
<1>3. ASSUME NEW t \in Thread, KmallocScan(t) \/ KmallocGrow(t)
      PROVE  HeapInv' /\ [Promise!Next]_held
  BY <1>3, KmallocScanKeeps, KmallocGrowKeeps DEF Promise!Next
<1>4. ASSUME NEW t \in Thread, KmallocFails(t) \/ KmallocLink(t) \/ KmallocPublish(t)
      PROVE  HeapInv' /\ [Promise!Next]_held
  BY <1>4, KmallocEndKeeps
<1>5. ASSUME NEW t \in Thread, NEW x \in held, Kfree(t, x)
      PROVE  HeapInv' /\ [Promise!Next]_held
  BY <1>5, KfreeKeeps DEF Promise!Next
<1>6. ASSUME UNCHANGED heapVars
      PROVE  HeapInv' /\ [Promise!Next]_held
  <2>1. CallsOK' /\ UNCHANGED <<blk, freeList, taken, held>>
    BY <1>6 DEF heapVars, arenaVars, HeapInv, CallsOK
  <2> QED
    BY <2>1, CallOnly
<1> QED
  BY <1>1, <1>2, <1>3, <1>4, <1>5, <1>6 DEF HeapNext

(* ArenasSound is what the invariant says of each arena.                     *)
LEMMA HeapInvSound ==
  ASSUME HeapInv
  PROVE  ArenasSound
<1> SUFFICES ASSUME NEW a \in taken
             PROVE  Tiled(a) /\ FreeListExact(a) /\ FullyMerged(a) /\ UsedAreHeld(a)
  BY DEF ArenasSound
<1> DEFINE b == blk[a]
<1>1. Shaped(b) /\ MergedBut(b, NoBlock) /\ Listed(b, freeList[a]) /\ HeldOK
  BY DEF HeapInv, Sound
<1>2. \A o \in DOMAIN b : o \in Nat /\ o # NoBlock
  BY <1>1, Neighbours, HeapNumbers
<1>3. Tiled(a)
  <2> SUFFICES ASSUME NEW o \in DOMAIN b
               PROVE  /\ b[o].last <=> o + b[o].size = INIT_BLOCK_SIZE
                      /\ ~b[o].last => o + b[o].size \in DOMAIN b /\ b[o + b[o].size].prev = o
                      /\ b[o].prev = NoBlock <=> o = 0
    BY DEF Tiled
  <2> QED
    BY <1>1, <1>2 DEF Shaped, Chained
<1>4. FreeListExact(a)
  BY <1>1 DEF FreeListExact, Listed, FreeOf
<1>5. FullyMerged(a)
  BY <1>1, <1>2 DEF FullyMerged, MergedBut
<1>6. UsedAreHeld(a)
  <2>1. ASSUME NEW o \in DOMAIN b, b[o].used
        PROVE  o \in {x.base - Header : x \in {x \in held : x.arena = a}}
    <3>1. PICK x \in held : x.arena = a /\ x.base = o + Header
      BY <1>1, <2>1 DEF HeldOK, UsedOf
    <3>2. o = x.base - Header
      BY <1>2, <3>1, HeapNumbers
    <3> QED
      BY <3>1, <3>2
  <2>2. ASSUME NEW x \in held, x.arena = a
        PROVE  x.base - Header \in DOMAIN b /\ b[x.base - Header].used
    BY <1>1, <2>2 DEF HeldOK, UsedOf
  <2> QED
    BY <2>1, <2>2 DEF UsedAreHeld
<1> QED
  BY <1>3, <1>4, <1>5, <1>6

(* With any threads, arenas and sizes, and whenever an application processor *)
(* runs alloc_init again: the headers of an arena tile it, its free list is  *)
(* exact, neighbours are merged, and what is in use is what callers hold.    *)
THEOREM ArenasAreSound == HeapBehaviour => []ArenasSound
<1>1. HeapInit => HeapInv
  BY HeapStart
<1>2. HeapInv /\ [HeapNext]_heapVars => HeapInv'
  BY HeapStep
<1>3. HeapInv => ArenasSound
  BY HeapInvSound
<1> QED
  BY <1>1, <1>2, <1>3, PTL DEF HeapBehaviour

(* alloc.c implements the promise of kmalloc and kfree: a block handed out   *)
(* holds what was asked for, inside its arena, and shares no byte with a     *)
(* block still held or its header.                                           *)
THEOREM HeapKeepsPromise == HeapBehaviour => ImplementsPromise
<1>1. HeapInit => HeapInv /\ Promise!Init
  BY HeapStart DEF HeapInit, Promise!Init
<1>2. HeapInv /\ [HeapNext]_heapVars => HeapInv' /\ [Promise!Next]_held
  BY HeapStep
<1> QED
  BY <1>1, <1>2, PTL DEF HeapBehaviour, ImplementsPromise, Promise!Spec
=============================================================================
