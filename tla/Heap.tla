-------------------------------- MODULE Heap --------------------------------
(***************************************************************************)
(* The kernel heap, kernel/core/alloc.c.  An arena is one run of memory    *)
(* tiled by blocks; each block starts with a header that holds its size,   *)
(* its flags and the header before it, and free blocks are also on the     *)
(* arena's free list.  kmalloc walks the arenas and takes the first block  *)
(* that is large enough; if none is, it builds a new arena, takes its      *)
(* block from it and only then publishes it at arena_head.  kapentry calls *)
(* alloc_init again on every application processor: it releases alloc_lock,*)
(* whoever holds it, and empties arena_head while others use the heap.     *)
(*                                                                         *)
(* What a thread does to one arena is one critical section of its          *)
(* arena_lock; between two arenas, and between building an arena and       *)
(* publishing it, other threads run.                                       *)
(***************************************************************************)
EXTENDS Integers, Sequences, SequencesExt, FiniteSets

CONSTANTS Thread,
          Arena,       \* the arenas physical memory has room for
          Request,     \* sizes kmalloc is called with
          Align,       \* ALLOC_ALIGN
          Header,      \* sizeof(struct alloc_header_t)
          INIT_BLOCK_SIZE,
          MaxApBoots,  \* application processors that start
          NoArena

ASSUME HeapAssumption ==
  /\ Align \in Nat \ {0} /\ Header \in Nat \ {0} /\ Header % Align = 0
  /\ INIT_BLOCK_SIZE \in Nat \ {0} /\ INIT_BLOCK_SIZE % Align = 0
  /\ Request \subseteq Nat /\ MaxApBoots \in Nat

VARIABLES blk,          \* arena |-> offset |-> header, for the current headers
          freeList,     \* alloc_arena_t.free and the links behind it
          arena_head, nextOf,   \* the list of arenas, alloc_arena_t.next
          alloc_lock,
          apBoots,      \* half-calls of alloc_init by application processors
          taken,        \* arenas mm_alloc_p has handed out
          pc,           \* "idle", "scan", "grow", "publish", "head" or "panic"
          want,         \* adjusted_size of the call, 0 when idle
          at,           \* the arena a scan looks at next, or the new arena
          held,         \* what callers hold, with the size they asked for
          asked         \* size of the call in progress

arenaVars == <<arena_head, nextOf, alloc_lock, apBoots>>
heapVars == <<blk, freeList, arenaVars, taken, pc, want, at, held, asked>>

Offset == {o \in 0 .. INIT_BLOCK_SIZE - 1 : o % Align = 0}
NoBlock == -1

(* size + header, rounded up to ALLOC_ALIGN *)
Adjusted(size) ==
  LET n == size + Header IN IF n % Align = 0 THEN n ELSE n + Align - (n % Align)

HeaderAt(size, used, last, prev) == [size |-> size, used |-> used, last |-> last, prev |-> prev]

HeapInit ==
  /\ blk = [a \in Arena |-> [o \in {} |-> 0]]
  /\ freeList = [a \in Arena |-> <<>>]
  /\ arena_head = NoArena /\ nextOf = [a \in Arena |-> NoArena]
  /\ alloc_lock = NoArena
  /\ apBoots = 0
  /\ taken = {}
  /\ pc = [t \in Thread |-> "idle"]
  /\ want = [t \in Thread |-> 0]
  /\ asked = [t \in Thread |-> 0]
  /\ at = [t \in Thread |-> NoArena]
  /\ held = {}

-----------------------------------------------------------------------------
(* alloc: b and f are the headers and the free list of an arena, h the free  *)
(* block found.  The result is the new pair.                                 *)

\* headers f with the prev field of header o set, if there is a header o
SetPrev(b, o, p) == IF o \in DOMAIN b THEN [b EXCEPT ![o].prev = p] ELSE b
Put(b, o, h) == [x \in DOMAIN b \cup {o} |-> IF x = o THEN h ELSE b[x]]

\* get_next; an offset with no header stands for the end of the arena
GetNext(b, o) == IF b[o].last THEN NoBlock ELSE o + b[o].size

\* Mutant: the block behind a split keeps its old prev
TakeStalePrev(b, f, h, size) ==
  LET rest == b[h].size - size
      s == h + size
      i == CHOOSE i \in DOMAIN f : f[i] = h
  IN IF rest > Header
       THEN <<Put([b EXCEPT ![h] = HeaderAt(size, TRUE, FALSE, b[h].prev)],
                  s, HeaderAt(rest, FALSE, b[h].last, h)),
              [f EXCEPT ![i] = s]>>
       ELSE <<[b EXCEPT ![h].used = TRUE], RemoveAt(f, i)>>

\* the split-off part takes the block's place on the free list
Take(b, f, h, size) ==
  LET rest == b[h].size - size
      s == h + size
      i == CHOOSE i \in DOMAIN f : f[i] = h
  IN IF rest > Header
       THEN <<Put([SetPrev(b, GetNext(b, h), s) EXCEPT ![h] = HeaderAt(size, TRUE, FALSE, b[h].prev)],
                  s, HeaderAt(rest, FALSE, b[h].last, h)),
              [f EXCEPT ![i] = s]>>
       ELSE <<[b EXCEPT ![h].used = TRUE], RemoveAt(f, i)>>

\* Mutant: the header is not counted in what has to fit
FittingShort(a, size) == {i \in DOMAIN freeList[a] : blk[a][freeList[a][i]].size >= size - Header}

\* first fit in free-list order
Fitting(a, size) == {i \in DOMAIN freeList[a] : blk[a][freeList[a][i]].size >= size}
FirstFit(a, size) ==
  freeList[a][CHOOSE i \in Fitting(a, size) : \A j \in Fitting(a, size) : i <= j]

Return(t, a, h) ==
  /\ held' = held \cup {[arena |-> a, base |-> h + Header, size |-> asked[t]]}
  /\ want' = [want EXCEPT ![t] = 0]
  /\ asked' = [asked EXCEPT ![t] = 0]

-----------------------------------------------------------------------------
(* kmalloc.                                                                  *)

KmallocCall(t, size) ==
  /\ pc[t] = "idle" /\ alloc_lock = NoArena
  /\ want' = [want EXCEPT ![t] = Adjusted(size)]
  /\ asked' = [asked EXCEPT ![t] = size]
  /\ at' = [at EXCEPT ![t] = arena_head]
  /\ pc' = [pc EXCEPT ![t] = IF arena_head = NoArena THEN "grow" ELSE "scan"]
  /\ UNCHANGED <<blk, freeList, arenaVars, taken, held>>

KmallocScan(t) ==
  LET a == at[t] IN
  /\ pc[t] = "scan"
  /\ IF Fitting(a, want[t]) # {}
       THEN LET h == FirstFit(a, want[t])
                r == Take(blk[a], freeList[a], h, want[t]) IN
            /\ blk' = [blk EXCEPT ![a] = r[1]]
            /\ freeList' = [freeList EXCEPT ![a] = r[2]]
            /\ Return(t, a, h)
            /\ at' = [at EXCEPT ![t] = NoArena]
            /\ pc' = [pc EXCEPT ![t] = "idle"]
       ELSE /\ alloc_lock = NoArena
            /\ at' = [at EXCEPT ![t] = nextOf[a]]
            /\ pc' = [pc EXCEPT ![t] = IF nextOf[a] = NoArena THEN "grow" ELSE "scan"]
            /\ UNCHANGED <<blk, freeList, want, held, asked>>
  /\ UNCHANGED <<arenaVars, taken>>

\* mm_alloc_p of a new arena, its single block, and the allocation from it
KmallocGrow(t) ==
  /\ pc[t] = "grow"
  /\ \E a \in Arena \ taken :
       LET b0 == [o \in {0} |-> HeaderAt(INIT_BLOCK_SIZE, FALSE, TRUE, NoBlock)] IN
       /\ taken' = taken \cup {a}
       /\ at' = [at EXCEPT ![t] = a]
       /\ IF want[t] > INIT_BLOCK_SIZE
            THEN /\ blk' = [blk EXCEPT ![a] = b0]
                 /\ freeList' = [freeList EXCEPT ![a] = <<0>>]
                 /\ pc' = [pc EXCEPT ![t] = "panic"]
                 /\ UNCHANGED <<held, want, asked>>
            ELSE /\ blk' = [blk EXCEPT ![a] = Take(b0, <<0>>, 0, want[t])[1]]
                 /\ freeList' = [freeList EXCEPT ![a] = Take(b0, <<0>>, 0, want[t])[2]]
                 /\ pc' = [pc EXCEPT ![t] = "publish"]
                 /\ Return(t, a, 0)
  /\ UNCHANGED arenaVars

\* "Out of memory for heap"
KmallocFails(t) ==
  /\ pc[t] = "grow"
  /\ taken = Arena
  /\ pc' = [pc EXCEPT ![t] = "panic"]
  /\ UNCHANGED <<blk, freeList, arenaVars, taken, want, at, held, asked>>

KmallocLink(t) ==
  /\ pc[t] = "publish" /\ alloc_lock = NoArena
  /\ alloc_lock' = t
  /\ nextOf' = [nextOf EXCEPT ![at[t]] = arena_head]
  /\ pc' = [pc EXCEPT ![t] = "head"]
  /\ UNCHANGED <<blk, freeList, arena_head, apBoots, taken, want, at, held, asked>>

KmallocPublish(t) ==
  /\ pc[t] = "head"
  /\ arena_head' = at[t]
  /\ alloc_lock' = NoArena
  /\ at' = [at EXCEPT ![t] = NoArena]
  /\ pc' = [pc EXCEPT ![t] = "idle"]
  /\ UNCHANGED <<blk, freeList, nextOf, apBoots, taken, want, held, asked>>

-----------------------------------------------------------------------------
\* alloc_init on an application processor: lock_init, then arena_head
AllocInit ==
  /\ apBoots < 2 * MaxApBoots
  /\ apBoots' = apBoots + 1
  /\ IF apBoots % 2 = 0
       THEN alloc_lock' = NoArena /\ UNCHANGED arena_head
       ELSE arena_head' = NoArena /\ UNCHANGED alloc_lock
  /\ UNCHANGED <<blk, freeList, nextOf, taken, pc, want, at, held, asked>>

-----------------------------------------------------------------------------
(* kfree: merge with the free block before, or go to the front of the list;  *)
(* then merge with the free block behind.                                    *)

Drop(b, o) == [x \in DOMAIN b \ {o} |-> b[x]]

MergePrev(b, f, h) ==
  LET p == b[h].prev
      n == GetNext(b, h)
  IN IF p # NoBlock /\ ~b[p].used
       THEN <<Drop(SetPrev([b EXCEPT ![p].size = @ + b[h].size, ![p].last = b[h].last], n, p), h), f, p>>
       ELSE <<[b EXCEPT ![h].used = FALSE], <<h>> \o f, h>>

MergeNext(b, f, h) ==
  LET n == GetNext(b, h)
      i == CHOOSE i \in DOMAIN f : f[i] = n
  IN IF n # NoBlock /\ ~b[n].used
       THEN <<Drop(SetPrev([b EXCEPT ![h].size = @ + b[n].size, ![h].last = b[n].last], GetNext(b, n), h), n),
              RemoveAt(f, i)>>
       ELSE <<b, f>>

Kfree(t, x) ==
  LET a == x.arena
      p == MergePrev(blk[a], freeList[a], x.base - Header)
      n == MergeNext(p[1], p[2], p[3]) IN
  /\ pc[t] = "idle"
  /\ x \in held
  /\ held' = held \ {x}
  /\ blk' = [blk EXCEPT ![a] = n[1]]
  /\ freeList' = [freeList EXCEPT ![a] = n[2]]
  /\ UNCHANGED <<arenaVars, taken, pc, want, at, asked>>

HeapNext ==
  \/ AllocInit
  \/ \E t \in Thread :
       \/ \E size \in Request : KmallocCall(t, size)
       \/ KmallocScan(t) \/ KmallocGrow(t) \/ KmallocFails(t) \/ KmallocLink(t) \/ KmallocPublish(t)
       \/ \E x \in held : Kfree(t, x)

HeapBehaviour == HeapInit /\ [][HeapNext]_heapVars

-----------------------------------------------------------------------------
(* Inside an arena, whatever the order of splits, frees and merges: the      *)
(* headers tile it, each block ending where the next one starts, the block   *)
(* behind pointing back and the one that reaches the end flagged last; the   *)
(* free list holds exactly the free blocks, each once (alloc_check's "Used   *)
(* block on free list" cannot happen); no two free blocks are neighbours, so *)
(* an arena from which all was given back is one block again; and the used   *)
(* blocks are those callers hold.                                            *)
Tiled(a) ==
  \A o \in DOMAIN blk[a] :
    LET e == o + blk[a][o].size IN
    /\ blk[a][o].last <=> e = INIT_BLOCK_SIZE
    /\ ~blk[a][o].last => e \in DOMAIN blk[a] /\ blk[a][e].prev = o
    /\ blk[a][o].prev = NoBlock <=> o = 0

FreeListExact(a) ==
  /\ IsInjective(freeList[a])
  /\ Range(freeList[a]) = {o \in DOMAIN blk[a] : ~blk[a][o].used}

FullyMerged(a) ==
  \A o \in DOMAIN blk[a] : ~blk[a][o].used /\ ~blk[a][o].last => blk[a][o + blk[a][o].size].used

UsedAreHeld(a) ==
  {o \in DOMAIN blk[a] : blk[a][o].used} = {x.base - Header : x \in {x \in held : x.arena = a}}

ArenasSound == \A a \in taken : Tiled(a) /\ FreeListExact(a) /\ FullyMerged(a) /\ UsedAreHeld(a)

(* alloc.c implements the promise of kmalloc and kfree.                      *)
Promise == INSTANCE HeapSpec WITH End <- INIT_BLOCK_SIZE
ImplementsPromise == Promise!Spec
=============================================================================
