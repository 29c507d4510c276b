-------------------------- MODULE AddressSpaceProofs --------------------------
(***************************************************************************)
(* Proofs about AddressSpace, for any CPUs, processes, spaces, frames and  *)
(* pages.                                                                  *)
(***************************************************************************)
EXTENDS AddressSpace, FiniteSetTheorems, WellFoundedInduction, TLAPS

UserState == {"unborn", "user", "map", "undo", "swap", "killed", "gone"}
Store == {"free", "used", "pending"}
Memory == AFrame \cup {Zero}

ASTypeOK ==
  /\ kpml4 \in SUBSET KEntry /\ upper \in [Space -> SUBSET KEntry]
  /\ umap \in [Space -> [APage -> Memory \cup {NoFrame}]]
  /\ spaceSt \in [Space -> Store] /\ frameSt \in [AFrame -> Store]
  /\ mem = [f \in Memory |-> mem[f]]
  /\ cr3 \in [User -> Space \cup {0}] /\ prevCr3 \in [User -> Space \cup {0}]
  /\ ust \in [User -> UserState]
  /\ acpu \in [ACpu -> User \cup {Thread, NoOne}] /\ reg \in [ACpu -> Space \cup {0}]
  /\ condemned \in SUBSET Space
  /\ wrote = [s \in Space |-> [v \in APage |-> wrote[s][v]]]

\* the kernel's half was complete before the first space was made
Kernel ==
  /\ kpml4 \in {KBoot, KEntry}
  /\ \A s \in Space : spaceSt[s] # "free" => upper[s] = KEntry /\ kpml4 = KEntry

\* which of its two spaces a process has in which state; a fork without memory has none
Roots ==
  \A p \in User :
    /\ ust[p] \in {"unborn", "gone"} => cr3[p] = 0
    /\ ust[p] \in {"map", "undo", "swap"} => cr3[p] # 0 /\ prevCr3[p] # 0

\* the space p runs in, and the one that is being loaded for it; 0 if there is none
Own(p) == IF ust[p] \in {"map", "undo"} THEN prevCr3[p] ELSE cr3[p]
Loading(p) == CASE ust[p] = "map" -> cr3[p] [] ust[p] = "swap" -> prevCr3[p] [] OTHER -> 0
Owned(p) == {Own(p), Loading(p)} \ {0}

\* a process's spaces are its own, and neither freed nor waiting for the reaper
Exclusive ==
  /\ \A p \in User : Owned(p) \cap condemned = {} /\ (Loading(p) # 0 => Own(p) # Loading(p))
  /\ \A p, q \in User : p # q => Owned(p) \cap Owned(q) = {}
  /\ \A p \in User : \A s \in Owned(p) : spaceSt[s] = "used"
  /\ \A s \in condemned : spaceSt[s] = "used"

\* a process is on one CPU, which is on its space
Running ==
  \A c \in ACpu : acpu[c] \in User =>
    /\ reg[c] = cr3[acpu[c]] /\ cr3[acpu[c]] # 0
    /\ ust[acpu[c]] \notin {"unborn", "gone"}
    /\ \A d \in ACpu : acpu[d] = acpu[c] => d = c

\* a frame is mapped once, by a space that is not freed
Frames ==
  \A s, t \in Space, v, w \in APage :
    spaceSt[s] = "used" /\ umap[s][v] \in AFrame =>
      /\ frameSt[umap[s][v]] = "used"
      /\ spaceSt[t] = "used" /\ umap[s][v] = umap[t][w] => s = t /\ v = w

\* the pages of a space that have a frame of their own hold what is expected
Holds(s, x) == \A v \in APage : umap[s][v] \in AFrame => mem[umap[s][v]] = x[v]

Contents == \A s \in Space : spaceSt[s] = "used" => Holds(s, wrote[s])

ASInv == ASTypeOK /\ Kernel /\ Roots /\ Exclusive /\ Running /\ Frames /\ Contents

-----------------------------------------------------------------------------
(* A set of natural numbers has a least element.                             *)
LEMMA LeastNatural ==
  ASSUME NEW S \in SUBSET Nat, S # {}
  PROVE  \E m \in S : \A n \in S : m <= n
<1> DEFINE R == OpToRel(<, Nat)
<1>1. \A x, y \in Nat : x < y => <<x, y>> \in R
  BY DEF OpToRel
<1>2. IsWellFoundedOn(R, Nat)
  BY NatLessThanWellFounded
<1> HIDE DEF R
<1>3. PICK m \in S : \A n \in S : ~(<<n, m>> \in R)
  BY <1>2, WFMin, Zenon
<1>4. \A n \in S : ~(n < m)
  BY <1>1, <1>3, Zenon
<1>5. \A n \in S : m <= n
  BY <1>4
<1> QED
  BY <1>5

(* The lowest free frame or space is a free one.                             *)
LEMMA LowestIsOne ==
  ASSUME NEW S \in SUBSET Nat, S # {}
  PROVE  Min(S) \in S
<1>1. \E x \in S : \A y \in S : x =< y
  BY LeastNatural
<1> QED
  BY <1>1 DEF Min

(* Two pages of a set have different ranks.                                  *)
LEMMA RankDiffers ==
  ASSUME NEW S \in SUBSET Nat, IsFiniteSet(S), NEW v \in S, NEW w \in S, v # w
  PROVE  Rank(v, S) # Rank(w, S)
<1>1. ASSUME NEW x \in S, NEW y \in S, x < y
      PROVE  Rank(x, S) # Rank(y, S)
  <2> DEFINE X == {z \in S : z < x}
             Y == {z \in S : z < y}
  <2>1. IsFiniteSet(X) /\ IsFiniteSet(Y)
    BY FS_Subset, X \subseteq S, Y \subseteq S
  <2>0. S \subseteq Nat /\ x \in Nat /\ y \in Nat
    OBVIOUS
  <2>2. x \notin X /\ X \cup {x} \subseteq Y
    <3>1. ~(x < x) /\ \A z \in S : z < x => z < y
      BY <1>1, <2>0
    <3> QED
      BY <1>1, <3>1
  <2>3. Cardinality(X \cup {x}) = Cardinality(X) + 1 /\ Cardinality(X) \in Nat
    BY <2>1, <2>2, FS_AddElement, FS_CardinalityType
  <2>4. Cardinality(X \cup {x}) <= Cardinality(Y) /\ Cardinality(Y) \in Nat
    BY <2>1, <2>2, FS_Subset, FS_CardinalityType
  <2> HIDE DEF X, Y
  <2>5. Cardinality(X) # Cardinality(Y)
    BY <2>3, <2>4
  <2> QED
    BY <2>5 DEF Rank, X, Y
<1> QED
  BY <1>1

(* What mm_alloc_p gives for a set of pages: free frames, each for one page, *)
(* or frame 0.                                                               *)
LEMMA GiveProperties ==
  ASSUME NEW pages \in SUBSET APage
  PROVE  /\ Give(pages) \in [APage -> Memory \cup {NoFrame}]
         /\ \A v \in APage \ pages : Give(pages)[v] = NoFrame
         /\ \A v \in pages : Give(pages)[v] \in Fresh \cup {Zero}
         /\ \A v, w \in pages : Give(pages)[v] \in AFrame /\ Give(pages)[v] = Give(pages)[w] => v = w
<1> USE SpaceAssumption
<1> DEFINE nth(v) == {f \in Fresh : Rank(f, Fresh) = Rank(v, pages)}
           G == Give(pages)
<1>1. \A v \in APage : G[v] = IF v \notin pages THEN NoFrame
                              ELSE IF nth(v) = {} THEN Zero ELSE CHOOSE f \in nth(v) : TRUE
  BY DEF Give
<1>2. \A v \in pages : nth(v) # {} => G[v] \in nth(v)
  BY <1>1
<1>3. \A v \in pages : nth(v) = {} => G[v] = Zero
  BY <1>1
<1>4. G = [v \in APage |-> G[v]]
  BY DEF Give
<1>5. Fresh \subseteq AFrame /\ \A v : nth(v) \subseteq Fresh
  BY DEF Fresh
<1>6. \A v \in APage \ pages : G[v] = NoFrame
  BY <1>1
<1>7. \A v \in pages : G[v] \in Fresh \cup {Zero}
  BY <1>2, <1>3
<1>8. ASSUME NEW v \in pages, NEW w \in pages, G[v] \in AFrame, G[v] = G[w]
      PROVE  v = w
  <2>1. Zero \notin AFrame
    BY DEF Zero
  <2>2. nth(v) # {} /\ nth(w) # {}
    BY <1>3, <1>8, <2>1
  <2>3. Rank(v, pages) = Rank(w, pages)
    BY <1>2, <1>8, <2>2
  <2>4. pages \in SUBSET Nat /\ IsFiniteSet(pages)
    BY FS_Subset
  <2> QED
    BY <2>3, <2>4, RankDiffers
<1>9. \A v \in APage : G[v] \in Memory \cup {NoFrame}
  BY <1>5, <1>6, <1>7 DEF Memory
<1> HIDE DEF G
<1>10. G \in [APage -> Memory \cup {NoFrame}]
  BY <1>4, <1>9
<1> QED
  BY <1>6, <1>7, <1>8, <1>10 DEF G

-----------------------------------------------------------------------------
(* Numbers that stand for no frame and no space are none.                    *)
LEMMA Distinct ==
  /\ Zero \notin AFrame /\ NoFrame \notin AFrame /\ NoFrame # Zero /\ 0 \notin Space
  /\ Thread \notin User /\ NoOne \notin User
BY SpaceAssumption, KernelThreads DEF Zero, NoFrame

(* Steps that move processes and leave the tables and the memory alone.      *)
tablesAndMemory == <<kpml4, upper, umap, spaceSt, frameSt, mem>>

(* Frames and the kernel's half depend on the tables alone.                  *)
LEMMA TablesKept ==
  ASSUME ASInv, UNCHANGED tablesAndMemory
  PROVE  Kernel' /\ Frames'
BY DEF ASInv, Kernel, Frames, tablesAndMemory

(* A process that keeps its state, spaces and memory keeps what it owns.     *)
LEMMA OthersKept ==
  ASSUME NEW p \in User, ust'[p] = ust[p], cr3'[p] = cr3[p], prevCr3'[p] = prevCr3[p]
  PROVE  Own(p)' = Own(p) /\ Loading(p)' = Loading(p) /\ Owned(p)' = Owned(p)
BY DEF Own, Loading, Owned

(* Exit: the process keeps its space until the scheduler discards it.        *)
LEMMA ExitKeeps ==
  ASSUME ASInv, NEW c \in ACpu, NEW p \in User, Exit(c, p)
  PROVE  ASInv'
<1> USE Distinct DEF ASInv
<1>0. /\ ust' = [ust EXCEPT ![p] = "killed"] /\ ust[p] = "user" /\ acpu[c] = p
      /\ UNCHANGED <<tableVars, memVars, acpu, reg, cr3, prevCr3, execs, condemned, wrote, adrift>>
  BY DEF Exit, On
<1>1. ASTypeOK'
  BY <1>0 DEF ASTypeOK, UserState, tableVars, memVars
<1>2. Kernel' /\ Frames'
  BY <1>0, TablesKept DEF tablesAndMemory, tableVars, memVars
<1>3. \A q \in User : ust'[q] = IF q = p THEN "killed" ELSE ust[q]
  BY <1>0 DEF ASTypeOK
<1>4. \A q \in User : Own(q)' = Own(q) /\ Loading(q)' = Loading(q) /\ Owned(q)' = Owned(q)
  BY <1>0, <1>3 DEF Own, Loading, Owned
<1>5. Roots'
  BY <1>0, <1>3 DEF Roots
<1>6. Exclusive'
  BY <1>0, <1>4 DEF Exclusive, tableVars
<1>7. Running'
  BY <1>0, <1>3 DEF Running
<1>8. Contents'
  BY <1>0 DEF Contents, Holds, tableVars, memVars
<1> QED
  BY <1>1, <1>2, <1>5, <1>6, <1>7, <1>8

(* Resume: the CPU takes the space of the process it takes.                  *)
LEMMA ResumeKeeps ==
  ASSUME ASInv, NEW c \in ACpu, NEW p \in User \cup {Thread}, Resume(c, p)
  PROVE  ASInv'
<1> USE Distinct DEF ASInv
<1>0. /\ acpu' = [acpu EXCEPT ![c] = p] /\ acpu[c] = NoOne
      /\ reg' = IF p = Thread THEN reg ELSE [reg EXCEPT ![c] = cr3[p]]
      /\ p # Thread => ust[p] \in {"user", "map", "undo", "killed", "swap"} /\ cr3[p] # 0
                       /\ \A d \in ACpu : acpu[d] # p
      /\ UNCHANGED <<tableVars, memVars, ust, cr3, prevCr3, execs, condemned, wrote, adrift>>
  BY DEF Resume
<1>1. ASTypeOK'
  BY <1>0 DEF ASTypeOK, tableVars, memVars
<1>2. Kernel' /\ Frames'
  BY <1>0, TablesKept DEF tablesAndMemory, tableVars, memVars
<1>4. \A q \in User : Own(q)' = Own(q) /\ Loading(q)' = Loading(q) /\ Owned(q)' = Owned(q)
  BY <1>0 DEF Own, Loading, Owned
<1>5. Roots'
  BY <1>0 DEF Roots
<1>6. Exclusive'
  BY <1>0, <1>4 DEF Exclusive, tableVars
<1>7. Running'
  <2> SUFFICES ASSUME NEW d \in ACpu, acpu'[d] \in User
               PROVE  /\ reg'[d] = cr3'[acpu'[d]] /\ cr3'[acpu'[d]] # 0
                      /\ ust'[acpu'[d]] \notin {"unborn", "gone"}
                      /\ \A e \in ACpu : acpu'[e] = acpu'[d] => e = d
    BY DEF Running
  <2>1. CASE d = c
    BY <1>0, <2>1 DEF ASTypeOK
  <2>2. CASE d # c
    BY <1>0, <2>2 DEF ASTypeOK, Running
  <2> QED
    BY <2>1, <2>2
<1>8. Contents'
  BY <1>0 DEF Contents, Holds, tableVars, memVars
<1> QED
  BY <1>1, <1>2, <1>5, <1>6, <1>7, <1>8

(* LoadDone: back to the old space, with the new one kept for execve.        *)
LEMMA LoadDoneKeeps ==
  ASSUME ASInv, NEW c \in ACpu, NEW p \in User, LoadDone(c, p)
  PROVE  ASInv'
<1> USE Distinct DEF ASInv
<1>0. /\ ust' = [ust EXCEPT ![p] = "swap"] /\ ust[p] = "map" /\ acpu[c] = p
      /\ cr3' = [cr3 EXCEPT ![p] = prevCr3[p]] /\ prevCr3' = [prevCr3 EXCEPT ![p] = cr3[p]]
      /\ reg' = [reg EXCEPT ![c] = prevCr3[p]]
      /\ UNCHANGED <<tableVars, memVars, acpu, execs, condemned, wrote, adrift>>
  BY DEF LoadDone, On
<1>1. ASTypeOK'
  BY <1>0 DEF ASTypeOK, UserState, tableVars, memVars
<1>2. Kernel' /\ Frames'
  BY <1>0, TablesKept DEF tablesAndMemory, tableVars, memVars
<1>3. \A q \in User : /\ ust'[q] = IF q = p THEN "swap" ELSE ust[q]
                      /\ cr3'[q] = IF q = p THEN prevCr3[p] ELSE cr3[q]
                      /\ prevCr3'[q] = IF q = p THEN cr3[p] ELSE prevCr3[q]
  BY <1>0 DEF ASTypeOK
<1>4. \A q \in User : Own(q)' = Own(q) /\ Loading(q)' = Loading(q) /\ Owned(q)' = Owned(q)
  BY <1>0, <1>3 DEF Own, Loading, Owned
<1>5. Roots'
  BY <1>0, <1>3 DEF Roots
<1>6. Exclusive'
  BY <1>0, <1>4 DEF Exclusive, tableVars
<1>7. Running'
  <2> SUFFICES ASSUME NEW d \in ACpu, acpu'[d] \in User
               PROVE  /\ reg'[d] = cr3'[acpu'[d]] /\ cr3'[acpu'[d]] # 0
                      /\ ust'[acpu'[d]] \notin {"unborn", "gone"}
                      /\ \A e \in ACpu : acpu'[e] = acpu'[d] => e = d
    BY DEF Running
  <2>1. \A e \in ACpu : acpu[e] = acpu[d] => e = d
    BY <1>0 DEF Running
  <2>2. CASE d = c
    BY <1>0, <1>3, <2>1, <2>2 DEF ASTypeOK, Roots
  <2>3. CASE d # c
    BY <1>0, <1>3, <2>1, <2>3 DEF ASTypeOK, Running
  <2> QED
    BY <2>2, <2>3
<1>8. Contents'
  BY <1>0 DEF Contents, Holds, tableVars, memVars
<1> QED
  BY <1>1, <1>2, <1>5, <1>6, <1>7, <1>8

(* LoadUndo: back to the old space; the one that was being loaded is gone.   *)
LEMMA LoadUndoKeeps ==
  ASSUME ASInv, NEW c \in ACpu, NEW p \in User, LoadUndo(c, p)
  PROVE  ASInv'
<1> USE Distinct DEF ASInv
<1>0. /\ ust' = [ust EXCEPT ![p] = "user"] /\ ust[p] = "undo" /\ acpu[c] = p
      /\ cr3' = [cr3 EXCEPT ![p] = prevCr3[p]] /\ prevCr3' = [prevCr3 EXCEPT ![p] = 0]
      /\ reg' = [reg EXCEPT ![c] = prevCr3[p]]
      /\ UNCHANGED <<tableVars, memVars, acpu, execs, condemned, wrote>>
  BY DEF LoadUndo, On
<1>1. ASTypeOK'
  BY <1>0 DEF ASTypeOK, UserState, tableVars, memVars
<1>2. Kernel' /\ Frames'
  BY <1>0, TablesKept DEF tablesAndMemory, tableVars, memVars
<1>3. \A q \in User : /\ ust'[q] = IF q = p THEN "user" ELSE ust[q]
                      /\ cr3'[q] = IF q = p THEN prevCr3[p] ELSE cr3[q]
                      /\ prevCr3'[q] = IF q = p THEN 0 ELSE prevCr3[q]
  BY <1>0 DEF ASTypeOK
<1>4. \A q \in User : Own(q)' = Own(q) /\ Loading(q)' = Loading(q) /\ Owned(q)' = Owned(q)
  BY <1>0, <1>3 DEF Own, Loading, Owned
<1>5. Roots'
  BY <1>0, <1>3 DEF Roots
<1>6. Exclusive'
  BY <1>0, <1>4 DEF Exclusive, tableVars
<1>7. Running'
  <2> SUFFICES ASSUME NEW d \in ACpu, acpu'[d] \in User
               PROVE  /\ reg'[d] = cr3'[acpu'[d]] /\ cr3'[acpu'[d]] # 0
                      /\ ust'[acpu'[d]] \notin {"unborn", "gone"}
                      /\ \A e \in ACpu : acpu'[e] = acpu'[d] => e = d
    BY DEF Running
  <2>1. \A e \in ACpu : acpu[e] = acpu[d] => e = d
    BY <1>0 DEF Running
  <2>2. CASE d = c
    BY <1>0, <1>3, <2>1, <2>2 DEF ASTypeOK, Roots
  <2>3. CASE d # c
    BY <1>0, <1>3, <2>1, <2>3 DEF ASTypeOK, Running
  <2> QED
    BY <2>2, <2>3
<1>8. Contents'
  BY <1>0 DEF Contents, Holds, tableVars, memVars
<1> QED
  BY <1>1, <1>2, <1>5, <1>6, <1>7, <1>8

(* Leave: a process that was killed gives its space to the reaper, and one   *)
(* that execs takes the space with the file in it and gives the old one.     *)
LEMMA LeaveKeeps ==
  ASSUME ASInv, NEW c \in ACpu, Leave(c)
  PROVE  ASInv'
<1> USE Distinct DEF ASInv
<1> DEFINE p == acpu[c]
<1>0. /\ acpu' = [acpu EXCEPT ![c] = NoOne] /\ p # NoOne
      /\ UNCHANGED <<tableVars, memVars, reg, execs, wrote, adrift>>
  BY DEF Leave
<1>1. Kernel' /\ Frames'
  BY <1>0, TablesKept DEF tablesAndMemory, tableVars, memVars
<1>2. \A d \in ACpu : acpu'[d] = IF d = c THEN NoOne ELSE acpu[d]
  BY <1>0 DEF ASTypeOK
<1>3. CASE ~(p # Thread /\ ust[p] \in {"killed", "swap"})
  <2>1. UNCHANGED <<condemned, ust, cr3, prevCr3>>
    BY <1>3 DEF Leave
  <2>2. ASTypeOK'
    BY <1>0, <2>1 DEF ASTypeOK, tableVars, memVars
  <2>3. \A q \in User : Own(q)' = Own(q) /\ Loading(q)' = Loading(q) /\ Owned(q)' = Owned(q)
    BY <2>1 DEF Own, Loading, Owned
  <2>4. Roots'
    BY <2>1 DEF Roots
  <2>5. Exclusive'
    BY <1>0, <2>1, <2>3 DEF Exclusive, tableVars
  <2>6. Running'
    BY <1>0, <1>2, <2>1 DEF Running
  <2>7. Contents'
    BY <1>0 DEF Contents, Holds, tableVars, memVars
  <2> QED
    BY <1>1, <2>2, <2>4, <2>5, <2>6, <2>7
<1>4. CASE p # Thread /\ ust[p] \in {"killed", "swap"}
  <2>a. PICK u \in User : u = acpu[c]
    BY <1>0, <1>4 DEF ASTypeOK
  <2>0. /\ ust[u] \in {"killed", "swap"}
        /\ condemned' = condemned \cup {cr3[u]}
        /\ ust' = [ust EXCEPT ![u] = IF ust[u] = "swap" THEN "user" ELSE "gone"]
        /\ cr3' = [cr3 EXCEPT ![u] = IF ust[u] = "swap" THEN prevCr3[u] ELSE 0]
        /\ prevCr3' = [prevCr3 EXCEPT ![u] = 0]
    BY <1>0, <1>4, <2>a DEF Leave
  <2>1. cr3[u] \in Space
    BY <2>a DEF Running, ASTypeOK
  <2>3. ASTypeOK'
    BY <1>0, <2>0, <2>1 DEF ASTypeOK, UserState, tableVars, memVars
  <2>4. \A q \in User : /\ ust'[q] = IF q = u THEN (IF ust[u] = "swap" THEN "user" ELSE "gone") ELSE ust[q]
                        /\ cr3'[q] = IF q = u THEN (IF ust[u] = "swap" THEN prevCr3[u] ELSE 0) ELSE cr3[q]
                        /\ prevCr3'[q] = IF q = u THEN 0 ELSE prevCr3[q]
    BY <2>0 DEF ASTypeOK
  <2>5. \A q \in User : q # u => Own(q)' = Own(q) /\ Loading(q)' = Loading(q) /\ Owned(q)' = Owned(q)
    BY <2>4, OthersKept
  <2>6. Own(u) = cr3[u] /\ Own(u)' = Loading(u) /\ Loading(u)' = 0
    BY <2>0, <2>4 DEF Own, Loading
  <2>7. Owned(u)' \subseteq Owned(u) \ {cr3[u]} /\ cr3[u] \in Owned(u)
    BY <2>1, <2>6 DEF Owned, Exclusive
  <2>8. Roots'
    BY <2>0, <2>4 DEF Roots
  <2>9. Exclusive'
    <3>1. ASSUME NEW q \in User
          PROVE  Owned(q)' \cap condemned' = {} /\ (Loading(q)' # 0 => Own(q)' # Loading(q)')
      <4>1. CASE q = u
        BY <2>0, <2>6, <2>7, <4>1 DEF Exclusive
      <4>2. CASE q # u
        BY <2>0, <2>5, <2>7, <4>2 DEF Exclusive
      <4> QED
        BY <4>1, <4>2
    <3>2. \A q \in User : Owned(q)' \subseteq Owned(q)
      BY <2>5, <2>7
    <3>3. \A q, r \in User : q # r => Owned(q)' \cap Owned(r)' = {}
      BY <3>2 DEF Exclusive
    <3>4. \A q \in User : \A s \in Owned(q)' : spaceSt'[s] = "used"
      BY <1>0, <3>2 DEF Exclusive, tableVars
    <3>5. \A s \in condemned' : spaceSt'[s] = "used"
      BY <1>0, <2>0, <2>7 DEF Exclusive, tableVars
    <3> QED
      BY <3>1, <3>3, <3>4, <3>5 DEF Exclusive
  <2>10. Running'
    BY <1>0, <1>2, <2>a, <2>0, <2>4 DEF Running
  <2>11. Contents'
    BY <1>0 DEF Contents, Holds, tableVars, memVars
  <2> QED
    BY <1>1, <2>3, <2>8, <2>9, <2>10, <2>11
<1> QED
  BY <1>3, <1>4

-----------------------------------------------------------------------------
(* The kernel's half: paging_ensure_mapped finds no space that would miss an *)
(* entry, and nothing is missing in kernel_pml4 after it.                    *)
LEMMA KernelKeeps ==
  ASSUME ASInv, ensure_mapped \/ \E i \in KEntry : KernelMap(i)
  PROVE  ASInv'
<1> USE Distinct DEF ASInv
<1>0. UNCHANGED <<upper, umap, spaceSt, memVars, runVars, cr3, prevCr3, execs, condemned, wrote, adrift>>
  BY DEF ensure_mapped, KernelMap
<1>1. (kpml4 = KBoot /\ kpml4' = KEntry) \/ kpml4' = kpml4
  BY SpaceAssumption DEF ensure_mapped, KernelMap, Kernel, Booted
<1>2. ASTypeOK'
  BY <1>0, <1>1 DEF ASTypeOK, memVars, runVars
<1>3. Kernel'
  BY <1>0, <1>1 DEF Kernel
<1>4. \A q \in User : Own(q)' = Own(q) /\ Loading(q)' = Loading(q) /\ Owned(q)' = Owned(q)
  BY <1>0 DEF Own, Loading, Owned, runVars
<1>5. Roots' /\ Running' /\ Frames'
  BY <1>0 DEF Roots, Running, Frames, runVars, memVars
<1>6. Exclusive' /\ Contents'
  BY <1>0, <1>4 DEF Exclusive, Contents, Holds, memVars
<1> QED
  BY <1>2, <1>3, <1>5, <1>6

(* Who runs is on a space that is in use and its own, or waits to undo a     *)
(* load.                                                                     *)
LEMMA RunnerOwns ==
  ASSUME ASInv, NEW c \in ACpu, NEW p \in User, acpu[c] = p, ust[p] # "undo"
  PROVE  /\ reg[c] = cr3[p] /\ cr3[p] \in Space /\ cr3[p] \in Owned(p)
         /\ spaceSt[cr3[p]] = "used" /\ cr3[p] \notin condemned
<1> USE Distinct DEF ASInv
<1>1. reg[c] = cr3[p] /\ cr3[p] \in Space
  BY DEF Running, ASTypeOK
<1>2. cr3[p] \in Owned(p)
  BY <1>1 DEF Owned, Own, Loading
<1> QED
  BY <1>1, <1>2 DEF Exclusive

Words(a) == a = [t \in Space |-> [w \in APage |-> a[t][w]]]
Puts(a, b, s, v, x) == b = [a EXCEPT ![s][v] = x]
OthersStay(a, b, s, v, x) ==
  /\ \A t \in Space : t # s => b[t] = a[t]
  /\ \A w \in APage : b[s][w] = IF w = v THEN x ELSE a[s][w]

(* What a change of one page of one space leaves.                            *)
LEMMA StoredAt ==
  ASSUME NEW a, NEW b, NEW s \in Space, NEW v \in APage, NEW x, Words(a), Puts(a, b, s, v, x)
  PROVE  Words(b) /\ OthersStay(a, b, s, v, x)
<1> USE DEF Words, Puts, OthersStay
<1>1. \A t \in Space : a[t] = [w \in APage |-> a[t][w]]
  OBVIOUS
<1>2. \A t \in Space : b[t] = IF t = s THEN [a[s] EXCEPT ![v] = x] ELSE a[t]
  OBVIOUS
<1>3. b = [t \in Space |-> IF t = s THEN [a[s] EXCEPT ![v] = x] ELSE a[t]]
  OBVIOUS
<1>4. \A t \in Space : b[t] = [w \in APage |-> b[t][w]]
  BY <1>1, <1>2
<1>5. \A w \in APage : b[s][w] = IF w = v THEN x ELSE a[s][w]
  BY <1>1, <1>2
<1> QED
  BY <1>2, <1>3, <1>4, <1>5

(* UWrite: the store goes to a frame no other page has, or to frame 0.       *)
LEMMA WriteKeeps ==
  ASSUME ASInv, NEW c \in ACpu, NEW p \in User, NEW v \in APage, UWrite(c, p, v)
  PROVE  ASInv'
<1> USE Distinct DEF ASInv
<1>0. /\ acpu[c] = p /\ ust[p] = "user"
      /\ mem' = [mem EXCEPT ![umap[reg[c]][v]] = p]
      /\ wrote' = [wrote EXCEPT ![cr3[p]][v] = p]
      /\ UNCHANGED <<tableVars, frameSt, runVars, cr3, prevCr3, execs, condemned, adrift>>
  BY DEF UWrite, On
<1>1. reg[c] = cr3[p] /\ cr3[p] \in Space /\ spaceSt[cr3[p]] = "used"
  BY <1>0, RunnerOwns
<1>4. /\ wrote' = [s \in Space |-> [w \in APage |-> wrote'[s][w]]]
      /\ \A s \in Space : s # cr3[p] => wrote'[s] = wrote[s]
      /\ \A w \in APage : wrote'[cr3[p]][w] = IF w = v THEN p ELSE wrote[cr3[p]][w]
  <2>1. Words(wrote) /\ Puts(wrote, wrote', cr3[p], v, p)
    BY <1>0 DEF ASTypeOK, Words, Puts
  <2>2. Words(wrote') /\ OthersStay(wrote, wrote', cr3[p], v, p)
    BY <1>1, <2>1, StoredAt
  <2> QED
    BY <2>2 DEF Words, OthersStay
<1>5. mem' = [f \in Memory |-> mem'[f]] /\ \A f \in Memory : f # umap[cr3[p]][v] => mem'[f] = mem[f]
  BY <1>0, <1>1 DEF ASTypeOK
<1>6. umap[cr3[p]][v] \in Memory => mem'[umap[cr3[p]][v]] = p
  BY <1>0, <1>1 DEF ASTypeOK
<1>7. ASTypeOK'
  BY <1>0, <1>4, <1>5 DEF ASTypeOK, tableVars, runVars
<1>8. \A q \in User : Own(q)' = Own(q) /\ Loading(q)' = Loading(q) /\ Owned(q)' = Owned(q)
  BY <1>0 DEF Own, Loading, Owned, runVars
<1>9. Kernel' /\ Roots' /\ Running' /\ Frames'
  BY <1>0 DEF Kernel, Roots, Running, Frames, runVars, tableVars
<1>10. Exclusive'
  BY <1>0, <1>8 DEF Exclusive, tableVars
<1>11. ASSUME NEW s \in Space, spaceSt[s] = "used", s # cr3[p], NEW x, Holds(s, x)
       PROVE  Holds(s, x)'
  <2>1. \A w \in APage : umap[s][w] \in AFrame => umap[s][w] # umap[cr3[p]][v]
    BY <1>1, <1>11 DEF Frames
  <2> QED
    BY <1>0, <1>5, <1>11, <2>1 DEF Holds, tableVars, Memory
<1>12. Holds(cr3[p], wrote[cr3[p]])'
  <2>1. Holds(cr3[p], wrote[cr3[p]])
    BY <1>1 DEF Contents
  <2>2. \A w \in APage : w # v /\ umap[cr3[p]][w] \in AFrame => umap[cr3[p]][w] # umap[cr3[p]][v]
    BY <1>1 DEF Frames
  <2> SUFFICES ASSUME NEW w \in APage, umap'[cr3'[p]][w] \in AFrame
               PROVE  mem'[umap'[cr3'[p]][w]] = wrote'[cr3'[p]][w]
    BY DEF Holds
  <2>3. umap'[cr3'[p]][w] = umap[cr3[p]][w] /\ cr3'[p] = cr3[p]
    BY <1>0 DEF tableVars
  <2>4. CASE w = v
    BY <1>4, <1>6, <2>3, <2>4 DEF Memory
  <2>5. CASE w # v
    BY <1>4, <1>5, <2>1, <2>2, <2>3, <2>5 DEF Memory, Holds
  <2> QED
    BY <2>4, <2>5
<1>13. Contents'
  <2> SUFFICES ASSUME NEW s \in Space, spaceSt'[s] = "used"
               PROVE  Holds(s, wrote[s])'
    BY DEF Contents
  <2>1. spaceSt[s] = "used"
    BY <1>0 DEF tableVars
  <2>2. CASE s = cr3[p]
    BY <1>0, <1>12, <2>2 DEF Holds
  <2>3. CASE s # cr3[p]
    BY <1>4, <1>11, <2>1, <2>3 DEF Contents, Holds
  <2> QED
    BY <2>2, <2>3
<1> QED
  BY <1>7, <1>9, <1>10, <1>13

(* What a process owns are spaces in use.                                    *)
LEMMA OwnedInUse ==
  ASSUME ASInv, NEW q \in User
  PROVE  /\ Own(q) # 0 => Own(q) \in Owned(q)
         /\ Loading(q) # 0 => Loading(q) \in Owned(q)
         /\ \A s \in Owned(q) : s \in Space /\ spaceSt[s] = "used" /\ s \notin condemned
<1>1. Owned(q) \subseteq Space
  BY DEF ASInv, Owned, Own, Loading, ASTypeOK
<1> QED
  BY <1>1 DEF ASInv, Owned, Exclusive

\* the same after a step, for given values
HoldsAfter(s, x) == \A v \in APage : umap'[s][v] \in AFrame => mem'[umap'[s][v]] = x[v]

(* MapNew: the frame was mapped nowhere, and the other pages stay.           *)
LEMMA MapNewKeeps ==
  ASSUME ASInv, Fresh # {}, NEW s \in Space, spaceSt[s] = "used", NEW v \in APage, NEW x, MapNew(s, v, x)
  PROVE  /\ umap' \in [Space -> [APage -> Memory \cup {NoFrame}]] /\ frameSt' \in [AFrame -> Store]
         /\ mem' = [f \in Memory |-> mem'[f]]
         /\ wrote' = [t \in Space |-> [w \in APage |-> wrote'[t][w]]]
         /\ UNCHANGED <<kpml4, upper, spaceSt>>
         /\ Frames' /\ Contents'
<1> USE Distinct DEF ASInv
<1>1. PICK f \in Fresh : /\ umap' = [umap EXCEPT ![s][v] = f]
                         /\ frameSt' = [frameSt EXCEPT ![f] = "used"]
                         /\ mem' = [mem EXCEPT ![f] = x]
                         /\ UNCHANGED <<kpml4, upper, spaceSt>>
  <2>1. Fresh \in SUBSET Nat /\ Fresh # {}
    BY SpaceAssumption DEF Fresh
  <2> QED
    BY <2>1, LowestIsOne DEF MapNew
<1>w. wrote' = [wrote EXCEPT ![s][v] = x]
  BY DEF MapNew
<1>a. /\ wrote' = [t \in Space |-> [w \in APage |-> wrote'[t][w]]]
      /\ \A t \in Space : t # s => wrote'[t] = wrote[t]
      /\ \A w \in APage : wrote'[s][w] = IF w = v THEN x ELSE wrote[s][w]
  <2>1. Words(wrote) /\ Puts(wrote, wrote', s, v, x)
    BY <1>w DEF ASTypeOK, Words, Puts
  <2>2. Words(wrote') /\ OthersStay(wrote, wrote', s, v, x)
    BY <2>1, StoredAt
  <2> QED
    BY <2>2 DEF Words, OthersStay
<1>2. f \in AFrame /\ frameSt[f] = "free" /\ f \in Memory
  BY DEF Fresh, Memory
<1>3. \A t \in Space, w \in APage : umap'[t][w] = IF t = s /\ w = v THEN f ELSE umap[t][w]
  BY <1>1 DEF ASTypeOK
<1>4. \A g \in AFrame : frameSt'[g] = IF g = f THEN "used" ELSE frameSt[g]
  BY <1>1 DEF ASTypeOK
<1>5. mem' = [g \in Memory |-> mem'[g]] /\ \A g \in Memory : mem'[g] = IF g = f THEN x ELSE mem[g]
  BY <1>1, <1>2 DEF ASTypeOK
<1>6. umap' \in [Space -> [APage -> Memory \cup {NoFrame}]] /\ frameSt' \in [AFrame -> Store]
  BY <1>1, <1>2 DEF ASTypeOK, Store
<1>7. \A t \in Space, w \in APage : spaceSt[t] = "used" => umap[t][w] # f
  BY <1>2 DEF Frames
<1>8. Frames'
  <2> SUFFICES ASSUME NEW a \in Space, NEW b \in Space, NEW w \in APage, NEW z \in APage,
                      spaceSt'[a] = "used", umap'[a][w] \in AFrame
               PROVE  /\ frameSt'[umap'[a][w]] = "used"
                      /\ spaceSt'[b] = "used" /\ umap'[a][w] = umap'[b][z] => a = b /\ w = z
    BY DEF Frames
  <2>1. CASE a = s /\ w = v
    BY <1>1, <1>2, <1>3, <1>4, <1>7, <2>1
  <2>2. CASE ~(a = s /\ w = v)
    BY <1>1, <1>2, <1>3, <1>4, <1>7, <2>2 DEF Frames
  <2> QED
    BY <2>1, <2>2
<1>9. Holds(s, wrote[s])
  BY DEF Contents
<1>10. ASSUME NEW w \in APage, umap'[s][w] \in AFrame
       PROVE  mem'[umap'[s][w]] = wrote'[s][w]
  BY <1>a, <1>2, <1>3, <1>5, <1>7, <1>9, <1>10 DEF Holds, Memory
<1>11. ASSUME NEW t \in Space, t # s, spaceSt[t] = "used", NEW w \in APage, umap'[t][w] \in AFrame
       PROVE  mem'[umap'[t][w]] = wrote'[t][w]
  BY <1>a, <1>2, <1>3, <1>5, <1>7, <1>11 DEF Contents, Holds, Memory
<1>12. Contents'
  BY <1>1, <1>10, <1>11 DEF Contents, Holds
<1> QED
  BY <1>a, <1>1, <1>5, <1>6, <1>8, <1>12

(* A new page of the space a process runs on, or loads.                      *)
LEMMA NewPageKeeps ==
  ASSUME ASInv, NEW c \in ACpu, NEW p \in User, NEW v \in APage, acpu[c] = p, ust[p] \in {"user", "map"},
         Fresh # {}, NEW x, MapNew(cr3[p], v, x), UNCHANGED <<runVars, cr3, prevCr3, condemned>>
  PROVE  ASInv'
<1> USE Distinct DEF ASInv
<1>1. cr3[p] \in Space /\ spaceSt[cr3[p]] = "used"
  BY RunnerOwns
<1>2. /\ umap' \in [Space -> [APage -> Memory \cup {NoFrame}]] /\ frameSt' \in [AFrame -> Store]
      /\ mem' = [f \in Memory |-> mem'[f]]
      /\ wrote' = [t \in Space |-> [w \in APage |-> wrote'[t][w]]]
      /\ UNCHANGED <<kpml4, upper, spaceSt>>
      /\ Frames' /\ Contents'
  <2>1. \A s \in Space : spaceSt[s] = "used" /\ MapNew(s, v, x) =>
          /\ umap' \in [Space -> [APage -> Memory \cup {NoFrame}]] /\ frameSt' \in [AFrame -> Store]
          /\ mem' = [f \in Memory |-> mem'[f]]
          /\ wrote' = [t \in Space |-> [w \in APage |-> wrote'[t][w]]]
          /\ UNCHANGED <<kpml4, upper, spaceSt>>
          /\ Frames' /\ Contents'
    BY MapNewKeeps
  <2> QED
    BY <1>1, <2>1
<1>3. ASTypeOK'
  BY <1>2 DEF ASTypeOK, runVars
<1>4. \A q \in User : Own(q)' = Own(q) /\ Loading(q)' = Loading(q) /\ Owned(q)' = Owned(q)
  BY DEF Own, Loading, Owned, runVars
<1>5. Kernel' /\ Roots' /\ Running'
  BY <1>2 DEF Kernel, Roots, Running, runVars
<1>6. Exclusive'
  BY <1>2, <1>4 DEF Exclusive
<1> QED
  BY <1>2, <1>3, <1>5, <1>6

(* UAlloc: a page at the end, with what its frame held.                      *)
LEMMA AllocKeeps ==
  ASSUME ASInv, NEW c \in ACpu, NEW p \in User, NEW v \in APage, UAlloc(c, p, v)
  PROVE  ASInv'
<1>1. PICK x : MapNew(cr3[p], v, x)
  BY DEF UAlloc
<1>2. acpu[c] = p /\ ust[p] = "user" /\ Fresh # {} /\ UNCHANGED <<runVars, cr3, prevCr3, condemned>>
  BY DEF UAlloc, On
<1> QED
  BY <1>1, <1>2, NewPageKeeps

(* LoadMap: a page of the file, or what its frame held.                      *)
LEMMA LoadMapKeeps ==
  ASSUME ASInv, NEW c \in ACpu, NEW p \in User, NEW v \in APage, LoadMap(c, p, v)
  PROVE  ASInv'
<1>1. PICK x : MapNew(cr3[p], v, x)
  BY DEF LoadMap
<1>2. acpu[c] = p /\ ust[p] = "map" /\ Fresh # {} /\ UNCHANGED <<runVars, cr3, prevCr3, condemned>>
  BY DEF LoadMap, On
<1> QED
  BY <1>1, <1>2, NewPageKeeps

(* FreeUserspace: the frames of a space that goes are no other space's.      *)
LEMMA FreeKeepsFrames ==
  ASSUME ASInv, NEW s \in Space, spaceSt[s] = "used", FreeUserspace(s)
  PROVE  /\ spaceSt' \in [Space -> Store] /\ frameSt' \in [AFrame -> Store]
         /\ \A t \in Space : spaceSt'[t] = IF t = s THEN "pending" ELSE spaceSt[t]
         /\ Frames' /\ Kernel' /\ UNCHANGED <<kpml4, upper, umap>>
<1> USE Distinct DEF ASInv
<1>1. \A t \in Space : spaceSt'[t] = IF t = s THEN "pending" ELSE spaceSt[t]
  BY DEF FreeUserspace, ASTypeOK
<1>2. spaceSt' \in [Space -> Store] /\ frameSt' \in [AFrame -> Store] /\ UNCHANGED <<kpml4, upper, umap>>
  BY DEF FreeUserspace, ASTypeOK, Store
<1>3. \A f \in AFrame : (\A v \in APage : umap[s][v] # f) => frameSt'[f] = frameSt[f]
  BY DEF FreeUserspace
<1>4. \A t \in Space, w \in APage : t # s /\ spaceSt[t] = "used" /\ umap[t][w] \in AFrame =>
                                      \A v \in APage : umap[s][v] # umap[t][w]
  BY DEF Frames
<1>5. Frames'
  BY <1>1, <1>2, <1>3, <1>4 DEF Frames
<1>6. Kernel'
  BY <1>1, <1>2 DEF Kernel
<1> QED
  BY <1>1, <1>2, <1>5, <1>6

(* LoadFail: the space that was being loaded is freed, the old one stays.    *)
LEMMA LoadFailKeeps ==
  ASSUME ASInv, NEW c \in ACpu, NEW p \in User, LoadFail(c, p)
  PROVE  ASInv'
<1> USE Distinct DEF ASInv
<1>0. /\ acpu[c] = p /\ ust[p] = "map"
      /\ FreeUserspace(cr3[p])
      /\ ust' = [ust EXCEPT ![p] = "undo"]
      /\ UNCHANGED <<mem, acpu, reg, cr3, prevCr3, execs, condemned, wrote, adrift>>
  BY DEF LoadFail, On
<1>1. cr3[p] \in Space /\ spaceSt[cr3[p]] = "used" /\ Loading(p) = cr3[p] /\ cr3[p] # 0 /\ cr3[p] \notin condemned
  BY <1>0, RunnerOwns DEF Own, Loading
<1>2. /\ spaceSt' \in [Space -> Store] /\ frameSt' \in [AFrame -> Store]
      /\ \A t \in Space : spaceSt'[t] = IF t = cr3[p] THEN "pending" ELSE spaceSt[t]
      /\ Frames' /\ Kernel' /\ UNCHANGED <<kpml4, upper, umap>>
  BY <1>0, <1>1, FreeKeepsFrames
<1>3. \A q \in User : ust'[q] = IF q = p THEN "undo" ELSE ust[q]
  BY <1>0 DEF ASTypeOK
<1>4. \A q \in User : q # p => Own(q)' = Own(q) /\ Loading(q)' = Loading(q) /\ Owned(q)' = Owned(q)
  BY <1>0, <1>3, OthersKept
<1>5. Own(p)' = Own(p) /\ Loading(p)' = 0 /\ Own(p) # cr3[p] /\ Owned(p)' \subseteq Owned(p) \ {cr3[p]}
  BY <1>0, <1>1, <1>3 DEF Own, Loading, Owned, Exclusive
<1>6. ASTypeOK'
  BY <1>0, <1>2 DEF ASTypeOK, UserState
<1>7. Roots' /\ Running'
  BY <1>0, <1>3 DEF Roots, Running
<1>8. Exclusive'
  <2>1. \A q \in User : q # p => cr3[p] \notin Owned(q)
    BY <1>0, RunnerOwns DEF Exclusive
  <2>2. \A q \in User : Owned(q)' \subseteq Owned(q) \ {cr3[p]}
    BY <1>4, <1>5, <2>1
  <2>3. \A q \in User : Loading(q)' # 0 => Own(q)' # Loading(q)'
    BY <1>4, <1>5 DEF Exclusive
  <2>4. \A q \in User : \A s \in Owned(q) : s \in Space
    BY OwnedInUse
  <2>5. \A q \in User : \A s \in Owned(q)' : spaceSt'[s] = "used"
    BY <1>2, <2>2, <2>4 DEF Exclusive
  <2>6. \A s \in condemned : s \in Space /\ s # cr3[p]
    BY <1>1 DEF ASTypeOK
  <2>7. \A s \in condemned' : spaceSt'[s] = "used"
    BY <1>0, <1>2, <2>6 DEF Exclusive
  <2>8. \A q, r \in User : q # r => Owned(q)' \cap Owned(r)' = {}
    BY <2>2 DEF Exclusive
  <2>9. \A q \in User : Owned(q)' \cap condemned' = {}
    BY <1>0, <2>2 DEF Exclusive
  <2> QED
    BY <2>3, <2>5, <2>7, <2>8, <2>9 DEF Exclusive
<1>9. Contents'
  BY <1>0, <1>2 DEF Contents, Holds
<1> QED
  BY <1>2, <1>6, <1>7, <1>8, <1>9

(* ReapSpace: a condemned space is no process's.                             *)
LEMMA ReapKeeps ==
  ASSUME ASInv, NEW c \in ACpu, NEW s \in Space, ReapSpace(c, s)
  PROVE  ASInv'
<1> USE Distinct DEF ASInv
<1>0. /\ s \in condemned /\ FreeUserspace(s) /\ condemned' = condemned \ {s}
      /\ UNCHANGED <<mem, runVars, cr3, prevCr3, execs, wrote, adrift>>
  BY DEF ReapSpace
<1>1. spaceSt[s] = "used" /\ \A q \in User : s \notin Owned(q)
  BY <1>0 DEF Exclusive
<1>2. /\ spaceSt' \in [Space -> Store] /\ frameSt' \in [AFrame -> Store]
      /\ \A t \in Space : spaceSt'[t] = IF t = s THEN "pending" ELSE spaceSt[t]
      /\ Frames' /\ Kernel' /\ UNCHANGED <<kpml4, upper, umap>>
  BY <1>0, <1>1, FreeKeepsFrames
<1>4. \A q \in User : Own(q)' = Own(q) /\ Loading(q)' = Loading(q) /\ Owned(q)' = Owned(q)
  BY <1>0 DEF Own, Loading, Owned, runVars
<1>6. ASTypeOK'
  BY <1>0, <1>2 DEF ASTypeOK, runVars
<1>7. Roots' /\ Running'
  BY <1>0 DEF Roots, Running, runVars
<1>8. Exclusive'
  <2>1. \A q \in User : \A t \in Owned(q) : t \in Space
    BY OwnedInUse
  <2>2. \A q \in User : \A t \in Owned(q)' : spaceSt'[t] = "used"
    BY <1>1, <1>2, <1>4, <2>1 DEF Exclusive
  <2>3. \A t \in condemned' : t \in Space /\ t # s /\ t \in condemned
    BY <1>0 DEF ASTypeOK
  <2>4. \A t \in condemned' : spaceSt'[t] = "used"
    BY <1>2, <2>3 DEF Exclusive
  <2> QED
    BY <1>0, <1>4, <2>2, <2>4 DEF Exclusive
<1>9. Contents'
  BY <1>0, <1>2 DEF Contents, Holds
<1> QED
  BY <1>2, <1>6, <1>7, <1>8, <1>9

(* Drain: what is given back is no process's, and is not mapped.             *)
LEMMA DrainKeeps ==
  ASSUME ASInv, Drain
  PROVE  ASInv'
<1> USE Distinct DEF ASInv
<1>0. UNCHANGED <<kpml4, mem, runVars, cr3, prevCr3, execs, condemned, adrift>>
  BY DEF Drain
<1>1. \A s \in Space : /\ spaceSt[s] = "used" <=> spaceSt'[s] = "used"
                       /\ spaceSt[s] = "used" => umap'[s] = umap[s] /\ wrote'[s] = wrote[s]
                       /\ spaceSt'[s] # "free" => spaceSt[s] # "free" /\ upper'[s] = upper[s]
  BY DEF Drain, ASTypeOK, Store
<1>2. \A f \in AFrame : frameSt[f] = "used" => frameSt'[f] = "used"
  BY DEF Drain, ASTypeOK
<1>3. ASTypeOK'
  <2>1. umap' \in [Space -> [APage -> Memory \cup {NoFrame}]]
    BY DEF Drain, ASTypeOK, Empty
  <2>2. upper' \in [Space -> SUBSET KEntry] /\ spaceSt' \in [Space -> Store] /\ frameSt' \in [AFrame -> Store]
    BY DEF Drain, ASTypeOK, Store
  <2>3. wrote' = [s \in Space |-> [v \in APage |-> wrote'[s][v]]]
    <3>1. \A s \in Space : wrote[s] = [v \in APage |-> wrote[s][v]]
      BY DEF ASTypeOK
    <3>2. wrote' = [s \in Space |-> IF spaceSt[s] = "pending" THEN [v \in APage |-> "old"] ELSE wrote[s]]
      BY DEF Drain
    <3>3. \A s \in Space : wrote'[s] = [v \in APage |-> wrote'[s][v]]
      BY <3>1, <3>2
    <3> QED
      BY <3>2, <3>3
  <2> QED
    BY <1>0, <2>1, <2>2, <2>3 DEF ASTypeOK, runVars
<1>4. Kernel'
  BY <1>0, <1>1 DEF Kernel
<1>5. Frames'
  BY <1>1, <1>2 DEF Frames
<1>6. \A q \in User : Own(q)' = Own(q) /\ Loading(q)' = Loading(q) /\ Owned(q)' = Owned(q)
  BY <1>0 DEF Own, Loading, Owned, runVars
<1>7. Roots' /\ Running'
  BY <1>0 DEF Roots, Running, runVars
<1>8. Exclusive'
  <2>1. \A q \in User : \A t \in Owned(q) : t \in Space
    BY OwnedInUse
  <2>2. \A t \in condemned : t \in Space
    BY DEF ASTypeOK
  <2> QED
    BY <1>0, <1>1, <1>6, <2>1, <2>2 DEF Exclusive
<1>11. Contents'
  BY <1>0, <1>1 DEF Contents, Holds
<1> QED
  BY <1>3, <1>4, <1>5, <1>7, <1>8, <1>11

-----------------------------------------------------------------------------
(* Create: the new pml4 was nobody's and has all of the kernel's half.       *)
LEMMA CreateKeeps ==
  ASSUME ASInv, NEW s \in Space, Create(s), kpml4 = KEntry
  PROVE  /\ spaceSt[s] = "free" /\ s \notin condemned /\ \A q \in User : s \notin Owned(q)
         /\ spaceSt' \in [Space -> Store] /\ upper' \in [Space -> SUBSET KEntry]
         /\ \A t \in Space : spaceSt'[t] = IF t = s THEN "used" ELSE spaceSt[t]
         /\ Kernel' /\ UNCHANGED kpml4
<1> USE DEF ASInv
<1>1. spaceSt[s] = "free"
  BY DEF Create, FreeSpaces
<1>2. s \notin condemned /\ \A q \in User : s \notin Owned(q)
  BY <1>1 DEF Exclusive
<1>3. \A t \in Space : spaceSt'[t] = IF t = s THEN "used" ELSE spaceSt[t]
  BY DEF Create, ASTypeOK
<1>4. \A t \in Space : upper'[t] = IF t = s THEN KEntry ELSE upper[t]
  BY DEF Create, ASTypeOK
<1>5. spaceSt' \in [Space -> Store] /\ upper' \in [Space -> SUBSET KEntry] /\ UNCHANGED kpml4
  BY DEF Create, ASTypeOK, Store
<1>6. Kernel'
  BY <1>3, <1>4, <1>5 DEF Kernel
<1> QED
  BY <1>1, <1>2, <1>3, <1>5, <1>6

\* space s is made with the pages m, whose frames were free
NewSpace(s, m) ==
  /\ spaceSt[s] = "free"
  /\ \A t \in Space : spaceSt'[t] = IF t = s THEN "used" ELSE spaceSt[t]
  /\ m \in [APage -> Memory \cup {NoFrame}]
  /\ \A v \in APage : m[v] \in Fresh \cup {Zero, NoFrame}
  /\ \A v, w \in APage : m[v] \in AFrame /\ m[v] = m[w] => v = w
  /\ umap' = [umap EXCEPT ![s] = m]
  /\ \A f \in AFrame : frameSt'[f] = IF \E v \in APage : m[v] = f THEN "used" ELSE frameSt[f]
  /\ \A f \in AFrame : (\A v \in APage : m[v] # f) => mem'[f] = mem[f]

(* A new space with frames that were free: the other spaces stay.            *)
LEMMA NewSpaceKeeps ==
  ASSUME ASInv, NEW s \in Space, NEW m, NewSpace(s, m)
  PROVE  /\ umap' \in [Space -> [APage -> Memory \cup {NoFrame}]]
         /\ Frames'
         /\ \A t \in Space : spaceSt[t] = "used" => \A y : Holds(t, y) => HoldsAfter(t, y)
<1> USE Distinct DEF ASInv, NewSpace
<1>1. umap' \in [Space -> [APage -> Memory \cup {NoFrame}]]
  BY DEF ASTypeOK
<1>2. \A t \in Space : umap'[t] = IF t = s THEN m ELSE umap[t]
  BY DEF ASTypeOK
<1>3. \A v \in APage : m[v] \in AFrame => frameSt[m[v]] = "free"
  BY DEF Fresh
<1>4. \A t \in Space, v, w \in APage : spaceSt[t] = "used" /\ umap[t][w] \in AFrame => umap[t][w] # m[v]
  BY <1>3 DEF Frames
<1>5. Frames'
  <2> SUFFICES ASSUME NEW a \in Space, NEW b \in Space, NEW w \in APage, NEW z \in APage,
                      spaceSt'[a] = "used", umap'[a][w] \in AFrame
               PROVE  /\ frameSt'[umap'[a][w]] = "used"
                      /\ spaceSt'[b] = "used" /\ umap'[a][w] = umap'[b][z] => a = b /\ w = z
    BY DEF Frames
  <2>1. CASE a = s
    BY <1>2, <1>4, <2>1
  <2>2. CASE a # s
    BY <1>2, <1>4, <2>2 DEF Frames
  <2> QED
    BY <2>1, <2>2
<1>6. ASSUME NEW t \in Space, spaceSt[t] = "used", NEW y, Holds(t, y)
      PROVE  HoldsAfter(t, y)
  BY <1>2, <1>4, <1>6 DEF Holds, HoldsAfter
<1> QED
  BY <1>1, <1>5, <1>6

(* Ownership when one process gets a space that was nobody's.                *)
LEMMA NewOwnerKeeps ==
  ASSUME ASInv, NEW s \in Space, spaceSt[s] = "free", condemned' = condemned,
         \A t \in Space : spaceSt'[t] = IF t = s THEN "used" ELSE spaceSt[t],
         NEW p \in User, Owned(p)' \subseteq Owned(p) \cup {s}, Loading(p)' # 0 => Own(p)' # Loading(p)',
         \A q \in User : q # p => Own(q)' = Own(q) /\ Loading(q)' = Loading(q) /\ Owned(q)' = Owned(q)
  PROVE  Exclusive'
<1> USE DEF ASInv
<1>1. s \notin condemned /\ \A q \in User : s \notin Owned(q)
  BY DEF Exclusive
<1>2. \A q \in User : Owned(q) \subseteq Space
  BY OwnedInUse
<1>3. \A q \in User : Owned(q)' \cap condemned' = {} /\ (Loading(q)' # 0 => Own(q)' # Loading(q)')
  BY <1>1 DEF Exclusive
<1>4. \A q, r \in User : q # r => Owned(q)' \cap Owned(r)' = {}
  BY <1>1 DEF Exclusive
<1>5. \A q \in User : \A t \in Owned(q)' : spaceSt'[t] = "used"
  BY <1>2 DEF Exclusive
<1>6. \A t \in condemned' : t \in Space /\ spaceSt'[t] = "used"
  BY DEF Exclusive, ASTypeOK
<1> QED
  BY <1>3, <1>4, <1>5, <1>6 DEF Exclusive

(* LoadStart: an empty space for the file, or one that is left behind.       *)
LEMMA LoadStartKeeps ==
  ASSUME ASInv, NEW c \in ACpu, NEW p \in User, NEW s \in Space, LoadStart(c, p, s)
  PROVE  ASInv'
<1> USE Distinct DEF ASInv
<1>0. /\ acpu[c] = p /\ ust[p] = "user" /\ Create(s) /\ umap' = [umap EXCEPT ![s] = Empty]
      /\ UNCHANGED <<memVars, acpu, condemned, wrote, adrift>>
  BY DEF LoadStart, On
<1>1. cr3[p] \in Space /\ spaceSt[cr3[p]] = "used" /\ kpml4 = KEntry
  BY <1>0, RunnerOwns DEF Kernel
<1>2. /\ spaceSt[s] = "free" /\ s \notin condemned /\ \A q \in User : s \notin Owned(q)
      /\ spaceSt' \in [Space -> Store] /\ upper' \in [Space -> SUBSET KEntry]
      /\ \A t \in Space : spaceSt'[t] = IF t = s THEN "used" ELSE spaceSt[t]
      /\ Kernel' /\ UNCHANGED kpml4
  BY <1>0, <1>1, CreateKeeps
<1>3. /\ umap' \in [Space -> [APage -> Memory \cup {NoFrame}]]
      /\ Frames'
      /\ \A t \in Space : spaceSt[t] = "used" => \A y : Holds(t, y) => HoldsAfter(t, y)
  <2>1. PICK m : m = Empty
    OBVIOUS
  <2>2. m \in [APage -> Memory \cup {NoFrame}] /\ \A v \in APage : m[v] = NoFrame
    BY <2>1 DEF Empty
  <2>3. /\ \A v \in APage : m[v] \in Fresh \cup {Zero, NoFrame}
        /\ \A v, w \in APage : m[v] \in AFrame /\ m[v] = m[w] => v = w
    BY <2>2
  <2>4. /\ \A f \in AFrame : frameSt'[f] = IF \E v \in APage : m[v] = f THEN "used" ELSE frameSt[f]
        /\ \A f \in AFrame : (\A v \in APage : m[v] # f) => mem'[f] = mem[f]
    BY <1>0, <2>2 DEF memVars
  <2>5. umap' = [umap EXCEPT ![s] = m]
    BY <1>0, <2>1
  <2>6. NewSpace(s, m)
    BY <1>2, <2>2, <2>3, <2>4, <2>5 DEF NewSpace
  <2> QED
    BY <2>6, NewSpaceKeeps
<1>4. Contents'
  <2>1. \A v \in APage : umap'[s][v] = NoFrame
    BY <1>0 DEF ASTypeOK, Empty
  <2>2. Holds(s, wrote[s])'
    BY <2>1 DEF Holds
  <2>3. \A t \in Space : t # s /\ spaceSt[t] = "used" => HoldsAfter(t, wrote[t])
    BY <1>3 DEF Contents
  <2> QED
    BY <1>0, <1>2, <2>2, <2>3 DEF Contents, Holds, HoldsAfter
<1>5. CASE UNCHANGED <<cr3, prevCr3, reg, ust>>
  <2>1. ASTypeOK'
    BY <1>0, <1>2, <1>3, <1>5 DEF ASTypeOK, memVars
  <2>2. \A q \in User : Own(q)' = Own(q) /\ Loading(q)' = Loading(q) /\ Owned(q)' = Owned(q)
    BY <1>5 DEF Own, Loading, Owned
  <2>3. Roots' /\ Running'
    BY <1>0, <1>5 DEF Roots, Running
  <2>4. Exclusive'
    BY <1>0, <1>2, <2>2, NewOwnerKeeps DEF Exclusive
  <2> QED
    BY <1>2, <1>3, <1>4, <2>1, <2>3, <2>4
<1>6. CASE /\ cr3' = [cr3 EXCEPT ![p] = s] /\ prevCr3' = [prevCr3 EXCEPT ![p] = cr3[p]]
           /\ reg' = [reg EXCEPT ![c] = s]
           /\ ust' = [ust EXCEPT ![p] = "map"]
  <2>1. ASTypeOK'
    BY <1>0, <1>2, <1>3, <1>6 DEF ASTypeOK, memVars, UserState
  <2>2. \A q \in User : /\ ust'[q] = IF q = p THEN "map" ELSE ust[q]
                        /\ cr3'[q] = IF q = p THEN s ELSE cr3[q]
                        /\ prevCr3'[q] = IF q = p THEN cr3[p] ELSE prevCr3[q]
    BY <1>6 DEF ASTypeOK
  <2>3. \A q \in User : q # p => Own(q)' = Own(q) /\ Loading(q)' = Loading(q) /\ Owned(q)' = Owned(q)
    BY <2>2, OthersKept
  <2>4. Own(p)' = cr3[p] /\ Loading(p)' = s /\ Own(p) = cr3[p] /\ s # 0 /\ s # cr3[p]
    BY <1>0, <1>1, <1>2, <2>2 DEF Own, Loading
  <2>5. Owned(p)' \subseteq Owned(p) \cup {s}
    BY <2>4 DEF Owned
  <2>6. Exclusive'
    BY <1>0, <1>2, <2>3, <2>4, <2>5, NewOwnerKeeps
  <2>7. Roots'
    BY <1>1, <2>2, <2>4 DEF Roots
  <2>8. Running'
    <3> SUFFICES ASSUME NEW d \in ACpu, acpu'[d] \in User
                 PROVE  /\ reg'[d] = cr3'[acpu'[d]] /\ cr3'[acpu'[d]] # 0
                        /\ ust'[acpu'[d]] \notin {"unborn", "gone"}
                        /\ \A e \in ACpu : acpu'[e] = acpu'[d] => e = d
      BY DEF Running
    <3>1. \A e \in ACpu : acpu[e] = acpu[d] => e = d
      BY <1>0 DEF Running
    <3>2. CASE d = c
      BY <1>0, <1>6, <2>2, <2>4, <3>1, <3>2 DEF ASTypeOK
    <3>3. CASE d # c
      BY <1>0, <1>6, <2>2, <3>1, <3>3 DEF ASTypeOK, Running
    <3> QED
      BY <3>2, <3>3
  <2> QED
    BY <1>2, <1>3, <1>4, <2>1, <2>6, <2>7, <2>8
<1> QED
  BY <1>5, <1>6 DEF LoadStart

\* process q starts in the new space s with pages m, which hold x
Birth(q, s, m, x) ==
  /\ ust[q] = "unborn" /\ ust' = [ust EXCEPT ![q] = "user"]
  /\ NewSpace(s, m) /\ cr3' = [cr3 EXCEPT ![q] = s]
  /\ wrote' = [wrote EXCEPT ![s] = x] /\ x = [v \in APage |-> x[v]] /\ HoldsAfter(s, x)
  /\ frameSt' = [f \in AFrame |-> frameSt'[f]] /\ mem' = [f \in Memory |-> mem'[f]]
  /\ reg' \in [ACpu -> Space \cup {0}] /\ \A c \in ACpu : acpu[c] \in User => reg'[c] = reg[c]
  /\ UNCHANGED <<acpu, prevCr3, condemned>>

(* fork and the first process: the new process is the space's only owner.    *)
LEMMA BirthKeeps ==
  ASSUME ASInv, NEW q \in User, NEW s \in Space, NEW m, NEW x, Birth(q, s, m, x),
         Create(s), kpml4 = KEntry
  PROVE  ASInv'
<1> USE Distinct DEF ASInv
<1>0. /\ ust[q] = "unborn" /\ ust' = [ust EXCEPT ![q] = "user"]
      /\ NewSpace(s, m) /\ cr3' = [cr3 EXCEPT ![q] = s]
      /\ wrote' = [wrote EXCEPT ![s] = x] /\ x = [v \in APage |-> x[v]] /\ HoldsAfter(s, x)
      /\ frameSt' = [f \in AFrame |-> frameSt'[f]] /\ mem' = [f \in Memory |-> mem'[f]]
      /\ reg' \in [ACpu -> Space \cup {0}] /\ \A c \in ACpu : acpu[c] \in User => reg'[c] = reg[c]
      /\ UNCHANGED <<acpu, prevCr3, condemned>>
  BY DEF Birth
<1>1. /\ spaceSt[s] = "free" /\ s \notin condemned
      /\ spaceSt' \in [Space -> Store] /\ upper' \in [Space -> SUBSET KEntry]
      /\ \A t \in Space : spaceSt'[t] = IF t = s THEN "used" ELSE spaceSt[t]
      /\ Kernel' /\ UNCHANGED kpml4
  BY CreateKeeps
<1>2. /\ umap' \in [Space -> [APage -> Memory \cup {NoFrame}]]
      /\ Frames'
      /\ \A t \in Space : spaceSt[t] = "used" => \A y : Holds(t, y) => HoldsAfter(t, y)
  BY <1>0, NewSpaceKeeps
<1>3. \A r \in User : /\ ust'[r] = IF r = q THEN "user" ELSE ust[r]
                      /\ cr3'[r] = IF r = q THEN s ELSE cr3[r]
                      /\ prevCr3'[r] = prevCr3[r]
  BY <1>0 DEF ASTypeOK
<1>w. \A t \in Space : wrote'[t] = IF t = s THEN x ELSE wrote[t]
  BY <1>0 DEF ASTypeOK
<1>4. \A r \in User : r # q => Own(r)' = Own(r) /\ Loading(r)' = Loading(r) /\ Owned(r)' = Owned(r)
  BY <1>3, OthersKept
<1>5. Own(q)' = s /\ Loading(q)' = 0 /\ Owned(q)' \subseteq Owned(q) \cup {s}
  BY <1>3 DEF Own, Loading, Owned
<1>6. ASTypeOK'
  <2>1. frameSt' \in [AFrame -> Store]
    <3>1. \A f \in AFrame : frameSt'[f] \in Store
      BY <1>0 DEF ASTypeOK, NewSpace, Store
    <3> QED
      BY <1>0, <3>1
  <2>2. wrote' = [t \in Space |-> [v \in APage |-> wrote'[t][v]]]
    <3>1. \A t \in Space : wrote'[t] = [v \in APage |-> wrote'[t][v]]
      BY <1>0, <1>w DEF ASTypeOK
    <3>2. DOMAIN wrote = Space
      BY DEF ASTypeOK
    <3>3. wrote' = [t \in Space |-> wrote'[t]]
      BY <1>0, <3>2
    <3> QED
      BY <3>1, <3>3
  <2>3. ust' \in [User -> UserState] /\ cr3' \in [User -> Space \cup {0}]
    BY <1>0 DEF ASTypeOK, UserState
  <2> QED
    BY <1>0, <1>1, <1>2, <2>1, <2>2, <2>3 DEF ASTypeOK
<1>7. Roots'
  BY <1>3 DEF Roots
<1>8. Running'
  <2>1. \A c \in ACpu : acpu[c] # q
    BY <1>0 DEF Running
  <2> QED
    BY <1>0, <1>3, <2>1 DEF Running, ASTypeOK
<1>9. Exclusive'
  BY <1>0, <1>1, <1>4, <1>5, NewOwnerKeeps
<1>10. \A t \in Space : t # s /\ spaceSt[t] = "used" => HoldsAfter(t, wrote[t])
  BY <1>2 DEF Contents
<1>11. Contents'
  <2> SUFFICES ASSUME NEW t \in Space, spaceSt'[t] = "used"
               PROVE  Holds(t, wrote[t])'
    BY DEF Contents
  <2>1. HoldsAfter(t, wrote'[t])
    BY <1>0, <1>1, <1>w, <1>10
  <2> QED
    BY <2>1 DEF Holds, HoldsAfter
<1> QED
  BY <1>1, <1>2, <1>6, <1>7, <1>8, <1>9, <1>11

(* The largest of one page is that page.                                     *)
LEMMA MaxOfOne ==
  ASSUME NEW v \in Nat
  PROVE  Max({v}) = v
BY DEF Max

(* UFork: a copy of every page in a frame of its own, or a process without a *)
(* space.                                                                    *)
LEMMA UForkKeeps ==
  ASSUME ASInv, NEW c \in ACpu, NEW p \in User, NEW q \in User, UFork(c, p, q)
  PROVE  ASInv'
<1> USE Distinct DEF ASInv
<1>0. /\ acpu[c] = p /\ ust[p] = "user" /\ ust[q] = "unborn" /\ p # q
      /\ ust' = [ust EXCEPT ![q] = "user"]
      /\ UNCHANGED <<acpu, reg, prevCr3, execs, condemned>>
  BY DEF UFork, On
<1>1. /\ cr3[p] \in Space /\ spaceSt[cr3[p]] = "used" /\ kpml4 = KEntry
      /\ Holds(cr3[p], wrote[cr3[p]])
  <2>1. cr3[p] \in Space /\ spaceSt[cr3[p]] = "used" /\ kpml4 = KEntry
    BY <1>0, RunnerOwns DEF Kernel
  <2> QED
    BY <2>1 DEF Contents
<1>2. CASE adrift' = TRUE /\ UNCHANGED <<tableVars, memVars, cr3, wrote>>
  <2>1. Kernel' /\ Frames'
    BY <1>2, TablesKept DEF tablesAndMemory, tableVars, memVars
  <2>2. ASTypeOK'
    BY <1>0, <1>2 DEF ASTypeOK, UserState, tableVars, memVars
  <2>3. \A r \in User : ust'[r] = IF r = q THEN "user" ELSE ust[r]
    BY <1>0 DEF ASTypeOK
  <2>4. \A r \in User : Own(r)' = Own(r) /\ Loading(r)' = Loading(r) /\ Owned(r)' = Owned(r)
    BY <1>0, <1>2, <2>3 DEF Own, Loading, Owned
  <2>5. Roots'
    BY <1>0, <1>2, <2>3 DEF Roots
  <2>6. Exclusive'
    BY <1>0, <1>2, <2>4 DEF Exclusive, tableVars
  <2>7. Running'
    BY <1>0, <1>2, <2>3 DEF Running
  <2>8. Contents'
    BY <1>2 DEF Contents, Holds, tableVars, memVars
  <2> QED
    BY <2>1, <2>2, <2>5, <2>6, <2>7, <2>8
<1> DEFINE Copied(s, m) ==
      /\ Create(s) /\ m = copy_pages(cr3[p])
      /\ umap' = [umap EXCEPT ![s] = m]
      /\ frameSt' = [f \in AFrame |-> IF \E v \in APage : m[v] = f THEN "used" ELSE frameSt[f]]
      /\ mem' = [f \in DOMAIN mem |->
           IF {v \in APage : m[v] = f} = {} THEN mem[f] ELSE mem[umap[cr3[p]][Max({v \in APage : m[v] = f})]]]
      /\ cr3' = [cr3 EXCEPT ![q] = s]
      /\ wrote' = [wrote EXCEPT ![s] =
           [v \in APage |-> IF umap[cr3[p]][v] = Zero THEN mem[Zero] ELSE wrote[cr3[p]][v]]]
<1>3. ASSUME NEW s, NEW m, Copied(s, m)
      PROVE  ASInv'
  <2>1. s \in Space
    BY <1>3 DEF Create, FreeSpaces
  <2>2. /\ spaceSt[s] = "free"
        /\ \A t \in Space : spaceSt'[t] = IF t = s THEN "used" ELSE spaceSt[t]
    BY <1>1, <1>3, <2>1, CreateKeeps
  <2>3. PICK pages \in SUBSET APage : pages = {v \in APage : umap[cr3[p]][v] # NoFrame} /\ m = Give(pages)
    BY <1>3 DEF copy_pages
  <2>4. /\ m \in [APage -> Memory \cup {NoFrame}]
        /\ \A v \in APage \ pages : m[v] = NoFrame
        /\ \A v \in pages : m[v] \in Fresh \cup {Zero}
        /\ \A v, w \in pages : m[v] \in AFrame /\ m[v] = m[w] => v = w
    BY <2>3, GiveProperties
  <2>5. /\ \A v \in APage : m[v] \in Fresh \cup {Zero, NoFrame}
        /\ \A v, w \in APage : m[v] \in AFrame /\ m[v] = m[w] => v = w
    BY <2>4
  <2>6. mem' = [f \in Memory |-> mem'[f]]
    <3>1. DOMAIN mem = Memory
      BY DEF ASTypeOK
    <3> QED
      BY <1>3, <3>1
  <2>7. \A f \in AFrame : (\A v \in APage : m[v] # f) => mem'[f] = mem[f]
    <3>1. \A f \in AFrame : f \in DOMAIN mem
      BY DEF ASTypeOK, Memory
    <3> QED
      BY <1>3, <3>1
  <2>8. ASSUME NEW v \in APage, m[v] \in AFrame
        PROVE  mem'[m[v]] = mem[umap[cr3[p]][v]] /\ umap[cr3[p]][v] \in Memory
    <3>1. {w \in APage : m[w] = m[v]} = {v}
      BY <2>5, <2>8
    <3>2. Max({v}) = v
      BY MaxOfOne, SpaceAssumption
    <3>3. m[v] \in DOMAIN mem
      BY <2>8 DEF ASTypeOK, Memory
    <3>4. mem'[m[v]] = mem[umap[cr3[p]][v]]
      BY <1>3, <3>1, <3>2, <3>3
    <3>5. umap[cr3[p]][v] # NoFrame
      BY <2>3, <2>4, <2>8
    <3> QED
      BY <1>1, <3>4, <3>5 DEF ASTypeOK
  <2>9. NewSpace(s, m)
    BY <1>3, <2>2, <2>4, <2>5, <2>7 DEF NewSpace
  <2>10. PICK x : x = [v \in APage |-> IF umap[cr3[p]][v] = Zero THEN mem[Zero] ELSE wrote[cr3[p]][v]]
    OBVIOUS
  <2>11. umap'[s] = m
    BY <1>3, <2>1 DEF ASTypeOK
  <2>12. HoldsAfter(s, x)
    <3> SUFFICES ASSUME NEW v \in APage, m[v] \in AFrame
                 PROVE  mem'[m[v]] = x[v]
      BY <2>11 DEF HoldsAfter
    <3>1. CASE umap[cr3[p]][v] = Zero
      BY <2>8, <2>10, <3>1
    <3>2. CASE umap[cr3[p]][v] # Zero
      BY <1>1, <2>8, <2>10, <3>2 DEF Holds, Memory
    <3> QED
      BY <3>1, <3>2
  <2>13. frameSt' = [f \in AFrame |-> frameSt'[f]] /\ x = [v \in APage |-> x[v]]
    BY <1>3, <2>10
  <2>14. reg' \in [ACpu -> Space \cup {0}]
    BY <1>0 DEF ASTypeOK
  <2>15. wrote' = [wrote EXCEPT ![s] = x]
    BY <1>3, <2>10
  <2>16. Birth(q, s, m, x)
    BY <1>0, <1>3, <2>6, <2>9, <2>12, <2>13, <2>14, <2>15 DEF Birth
  <2> QED
    BY <1>1, <1>3, <2>1, <2>16, BirthKeeps
<1>4. CASE Copied(Min(FreeSpaces), copy_pages(cr3[p]))
  <2> HIDE DEF Copied
  <2> QED
    BY <1>3, <1>4
<1> QED
  BY <1>2, <1>4 DEF UFork

(* LoadInit: the first process in the file's image.                          *)
LEMMA LoadInitKeeps ==
  ASSUME ASInv, NEW c \in ACpu, NEW s \in Space, LoadInit(c, s)
  PROVE  ASInv'
<1> USE Distinct DEF ASInv
<1>0. PICK m, x, covered :
        /\ covered \in SUBSET Image /\ m = Give(Image) /\ umap' = [umap EXCEPT ![s] = m] /\ \A v \in Image : m[v] # Zero
        /\ frameSt' = [f \in AFrame |-> IF \E v \in Image : m[v] = f THEN "used" ELSE frameSt[f]]
        /\ mem' = [f \in DOMAIN mem |-> IF \E v \in covered : m[v] = f THEN "image" ELSE mem[f]]
        /\ x = [v \in APage |-> IF v \in Image THEN mem'[m[v]] ELSE "old"]
        /\ wrote' = [wrote EXCEPT ![s] = x]
  BY DEF LoadInit
<1>1. /\ Booted /\ acpu[c] = Thread /\ ust[FirstUser] = "unborn" /\ Create(s)
      /\ cr3' = [cr3 EXCEPT ![FirstUser] = s] /\ reg' = [reg EXCEPT ![c] = s]
      /\ ust' = [ust EXCEPT ![FirstUser] = "user"]
      /\ UNCHANGED <<acpu, prevCr3, execs, condemned, adrift>>
  BY DEF LoadInit
<1>2. kpml4 = KEntry /\ FirstUser \in User /\ Image \in SUBSET APage
  BY <1>1, SpaceAssumption DEF Booted, Kernel
<1>3. /\ spaceSt[s] = "free"
      /\ \A t \in Space : spaceSt'[t] = IF t = s THEN "used" ELSE spaceSt[t]
  BY <1>1, <1>2, CreateKeeps
<1>4. /\ m \in [APage -> Memory \cup {NoFrame}]
      /\ \A v \in APage \ Image : m[v] = NoFrame
      /\ \A v \in Image : m[v] \in Fresh \cup {Zero}
      /\ \A v, w \in Image : m[v] \in AFrame /\ m[v] = m[w] => v = w
  BY <1>0, <1>2, GiveProperties
<1>5. /\ \A v \in APage : m[v] \in Fresh \cup {Zero, NoFrame}
      /\ \A v, w \in APage : m[v] \in AFrame /\ m[v] = m[w] => v = w
  BY <1>2, <1>4
<1>6. \A f \in AFrame : (\E v \in Image : m[v] = f) <=> \E v \in APage : m[v] = f
  BY <1>2, <1>4
<1>7. DOMAIN mem = Memory /\ AFrame \subseteq Memory
  BY DEF ASTypeOK, Memory
<1>8. mem' = [f \in Memory |-> mem'[f]] /\ frameSt' = [f \in AFrame |-> frameSt'[f]]
  BY <1>0, <1>7
<1>9. \A f \in AFrame : (\A v \in APage : m[v] # f) => mem'[f] = mem[f]
  BY <1>0, <1>2, <1>7
<1>10. \A f \in AFrame : frameSt'[f] = IF \E v \in APage : m[v] = f THEN "used" ELSE frameSt[f]
  BY <1>0, <1>6
<1>11. NewSpace(s, m)
  BY <1>0, <1>3, <1>4, <1>5, <1>9, <1>10 DEF NewSpace
<1>12. HoldsAfter(s, x)
  <2>1. umap'[s] = m
    BY <1>0 DEF ASTypeOK
  <2>2. \A v \in APage : m[v] \in AFrame => v \in Image
    BY <1>4
  <2>3. \A v \in Image : v \in APage /\ x[v] = mem'[m[v]]
    BY <1>0, <1>2
  <2> QED
    BY <2>1, <2>2, <2>3 DEF HoldsAfter
<1>13. /\ reg' \in [ACpu -> Space \cup {0}]
       /\ \A d \in ACpu : acpu[d] \in User => reg'[d] = reg[d]
       /\ x = [v \in APage |-> x[v]]
  BY <1>0, <1>1 DEF ASTypeOK
<1>14. Birth(FirstUser, s, m, x)
  BY <1>0, <1>1, <1>8, <1>11, <1>12, <1>13 DEF Birth
<1> QED
  BY <1>1, <1>2, <1>14, BirthKeeps

-----------------------------------------------------------------------------
(* At boot no process and no space exists.                                   *)
LEMMA ASInitSound == ASInit => ASInv
<1> SUFFICES ASSUME ASInit PROVE ASInv
  OBVIOUS
<1> USE Distinct, SpaceAssumption DEF ASInit
<1>1. ASTypeOK
  BY DEF ASTypeOK, Empty, Memory, UserState, Store
<1>2. Kernel /\ Roots /\ Frames
  BY DEF Kernel, Roots, Frames
<1>3. Exclusive
  BY DEF Exclusive, Owned, Own, Loading
<1>4. Running
  BY DEF Running
<1>5. Contents
  BY DEF Contents
<1> QED
  BY <1>1, <1>2, <1>3, <1>4, <1>5 DEF ASInv

(* Every step keeps the invariant.                                           *)
LEMMA ASStepKeeps ==
  ASSUME ASInv, [ASNext]_asVars
  PROVE  ASInv'
<1>1. CASE ensure_mapped \/ \E i \in KEntry : KernelMap(i)
  BY <1>1, KernelKeeps
<1>2. CASE Drain
  BY <1>2, DrainKeeps
<1>3. ASSUME NEW c \in ACpu, Leave(c)
      PROVE  ASInv'
  BY <1>3, LeaveKeeps
<1>4. ASSUME NEW c \in ACpu, NEW p \in User \cup {Thread}, Resume(c, p)
      PROVE  ASInv'
  BY <1>4, ResumeKeeps
<1>5. ASSUME NEW c \in ACpu, NEW s \in Space, ReapSpace(c, s) \/ LoadInit(c, s)
      PROVE  ASInv'
  BY <1>5, ReapKeeps, LoadInitKeeps
<1>6. ASSUME NEW c \in ACpu, NEW p \in User, ASStep(c, p)
      PROVE  ASInv'
  <2>1. ASSUME NEW v \in APage, UAlloc(c, p, v) \/ UWrite(c, p, v) \/ LoadMap(c, p, v)
        PROVE  ASInv'
    BY <2>1, AllocKeeps, WriteKeeps, LoadMapKeeps
  <2>2. ASSUME NEW s \in Space, LoadStart(c, p, s)
        PROVE  ASInv'
    BY <2>2, LoadStartKeeps
  <2>3. ASSUME NEW q \in User, UFork(c, p, q)
        PROVE  ASInv'
    BY <2>3, UForkKeeps
  <2>4. CASE LoadFail(c, p) \/ LoadDone(c, p) \/ LoadUndo(c, p) \/ Exit(c, p)
    BY <2>4, LoadFailKeeps, LoadDoneKeeps, LoadUndoKeeps, ExitKeeps
  <2> QED
    BY <1>6, <2>1, <2>2, <2>3, <2>4 DEF ASStep
<1>7. CASE UNCHANGED asVars
  <2>1. UNCHANGED <<kpml4, upper, umap, spaceSt, frameSt, mem, ust, acpu, reg, cr3, prevCr3, condemned, wrote>>
    BY <1>7 DEF asVars, tableVars, memVars, runVars
  <2>2. Kernel' /\ Frames'
    BY <2>1, TablesKept DEF tablesAndMemory
  <2>3. \A q \in User : Own(q)' = Own(q) /\ Loading(q)' = Loading(q) /\ Owned(q)' = Owned(q)
    BY <2>1 DEF Own, Loading, Owned
  <2>4. ASTypeOK' /\ Roots' /\ Running'
    BY <2>1 DEF ASInv, ASTypeOK, Roots, Running
  <2>5. Exclusive'
    BY <2>1, <2>3 DEF ASInv, Exclusive
  <2>6. Contents'
    BY <2>1 DEF ASInv, Contents, Holds
  <2> QED
    BY <2>2, <2>4, <2>5, <2>6 DEF ASInv
<1> QED
  BY <1>1, <1>2, <1>3, <1>4, <1>5, <1>6, <1>7 DEF ASNext

(* The invariant says what the runs check.                                   *)
LEMMA ASInvImplies ==
  ASSUME ASInv
  PROVE  MemoryPrivate /\ SpacesSound
<1>1. MemoryPrivate
  <2> SUFFICES ASSUME NEW p \in User, cr3[p] # 0, ust[p] \in {"user", "swap", "killed"},
                      NEW v \in APage, umap[cr3[p]][v] \notin {NoFrame, Zero}
               PROVE  mem[umap[cr3[p]][v]] = wrote[cr3[p]][v]
    BY DEF MemoryPrivate
  <2>1. cr3[p] \in Space /\ spaceSt[cr3[p]] = "used"
    <3>1. cr3[p] \in Space /\ cr3[p] \in Owned(p)
      BY DEF ASInv, ASTypeOK, Own, Owned
    <3> QED
      BY <3>1, OwnedInUse
  <2>2. umap[cr3[p]][v] \in AFrame
    BY <2>1 DEF ASInv, ASTypeOK, Memory
  <2> QED
    BY <2>1, <2>2 DEF ASInv, Contents, Holds
<1>2. KernelShared
  BY DEF ASInv, Kernel, KernelShared
<1>3. RootsLive
  <2> SUFFICES ASSUME NEW c \in ACpu, acpu[c] \in User
               PROVE  /\ reg[c] = cr3[acpu[c]]
                      /\ ust[acpu[c]] = "undo" \/ (spaceSt[reg[c]] = "used" /\ reg[c] \notin condemned)
    BY DEF RootsLive
  <2>1. reg[c] = cr3[acpu[c]]
    BY DEF ASInv, Running
  <2> QED
    BY <2>1, RunnerOwns
<1> QED
  BY <1>1, <1>2, <1>3 DEF SpacesSound

(* What a process reads from a page is what it wrote there, or its parent    *)
(* before the fork, or the file, or what the frame held when the kernel      *)
(* handed it out uncleared, and never what another process stores later: in  *)
(* every interleaving of forks, loads, exits and reaps, with any number of   *)
(* processes, CPUs, spaces and frames, up to frame 0 and to the first fork   *)
(* without a page table (adrift).                                            *)
THEOREM MemoryIsPrivate == ASSpec => []MemoryPrivate
<1>1. ASInit => ASInv
  BY ASInitSound
<1>2. ASInv /\ [ASNext]_asVars => ASInv'
  BY ASStepKeeps
<1>3. ASInv => MemoryPrivate
  BY ASInvImplies
<1> QED
  BY <1>1, <1>2, <1>3, PTL DEF ASSpec

(* A CPU that runs a process is on that process's space, which is neither    *)
(* freed nor condemned unless a load just failed, and every space has the    *)
(* kernel's half as it is now.                                               *)
THEOREM SpacesAreSound == ASSpec => []SpacesSound
<1>1. ASInit => ASInv
  BY ASInitSound
<1>2. ASInv /\ [ASNext]_asVars => ASInv'
  BY ASStepKeeps
<1>3. ASInv => SpacesSound
  BY ASInvImplies
<1> QED
  BY <1>1, <1>2, <1>3, PTL DEF ASSpec
=============================================================================
