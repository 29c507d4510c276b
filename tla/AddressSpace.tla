---------------------------- MODULE AddressSpace ----------------------------
(***************************************************************************)
(* The address spaces of user processes: kernel/core/paging.c, and the     *)
(* calls of fork, execve (kernel/core/elf.c), alloc, exit, the reaper and  *)
(* the context switch that make, load, copy, swap and free them.           *)
(*                                                                         *)
(* A space is named by its pml4.  The lower half maps user pages to frames *)
(* of memory; the upper half is the kernel's, copied entry by entry when   *)
(* the space is made.  Kernel threads have no space (cr3 is 0) and         *)
(* cpu_set_cr3 leaves the register alone for them, so they run on the      *)
(* space of whichever process was on the CPU before.                       *)
(*                                                                         *)
(* A page stands for one word of it.  The kernel clears no frame it hands  *)
(* out: a word that neither the file nor the process has stored to is what *)
(* the frame's last owner left there.                                      *)
(***************************************************************************)
EXTENDS Integers, FiniteSets, FiniteSetsExt

CONSTANTS ACpu, User,     \* CPUs and user processes
          FirstUser,      \* the process that runs first
          Space,          \* pml4 pages
          AFrame,         \* frames of memory
          APage,          \* user pages, 1 .. the number of them
          KEntry, KBoot,  \* pml4 entries of the kernel's half, and those present at boot
          Image,          \* pages of an executable
          MaxExecs        \* bound: calls of execve
ASSUME SpaceAssumption ==
  /\ FirstUser \in User /\ KBoot \subseteq KEntry
  /\ AFrame \subseteq Nat \ {0} /\ Space \subseteq Nat \ {0}
  /\ APage \subseteq Nat /\ IsFiniteSet(APage) /\ IsFiniteSet(AFrame) /\ Image \subseteq APage

Zero == 0       \* frame 0, which a failed mm_alloc_p stands for
NoFrame == -1   \* an entry that is not present
Thread == "thread"
NoOne == "none"
ASSUME KernelThreads == Thread \notin User /\ NoOne \notin User

VARIABLES
  kpml4,      \* present entries of the kernel's half of kernel_pml4
  upper,      \* the kernel's half of each space
  umap,       \* the user half: page to frame
  spaceSt, frameSt,   \* free, used, or pending: freed and not yet drained
  mem,        \* what a frame holds
  cr3,        \* pcb_t.cr3
  prevCr3,    \* old_cr3 of load_base
  ust,        \* state of each user process
  acpu,       \* current_process of each CPU, Thread or NoOne
  reg,        \* its CR3 register, 0 when it is kernel_pml4
  execs,      \* how many there were
  condemned,  \* spaces of discarded processes
  wrote,      \* ghost: what was last put in each page of a space for its own process
  adrift      \* ghost: a process got no space or no page table, or was replaced by no process

tableVars == <<kpml4, upper, umap, spaceSt>>
memVars == <<frameSt, mem>>
runVars == <<ust, acpu, reg>>
asVars == <<tableVars, memVars, runVars, execs, cr3, prevCr3, condemned, wrote, adrift>>

Empty == [v \in APage |-> NoFrame]
Fresh == {f \in AFrame : frameSt[f] = "free"}
FreeSpaces == {s \in Space : spaceSt[s] = "free"}

ASInit ==
  /\ kpml4 = KBoot
  /\ upper = [s \in Space |-> {}]
  /\ umap = [s \in Space |-> Empty]
  /\ spaceSt = [s \in Space |-> "free"]
  /\ frameSt = [f \in AFrame |-> "free"]
  /\ mem = [f \in AFrame \cup {Zero} |-> "old"]
  /\ cr3 = [p \in User |-> 0] /\ prevCr3 = [p \in User |-> 0]
  /\ ust = [p \in User |-> "unborn"]
  /\ acpu = [c \in ACpu |-> Thread]
  /\ reg = [c \in ACpu |-> 0]
  /\ execs = 0 /\ condemned = {} /\ adrift = FALSE
  /\ wrote = [s \in Space |-> [v \in APage |-> "old"]]

-----------------------------------------------------------------------------
(* The kernel's half.                                                      *)

\* paging_ensure_mapped, at boot
ensure_mapped ==
  /\ kpml4 = KBoot
  /\ kpml4' = KEntry
  /\ UNCHANGED <<upper, umap, spaceSt, memVars, runVars, cr3, prevCr3, execs, condemned, wrote, adrift>>
Booted == kpml4 # KBoot

\* paging_map in kernel_pml4: increase_granularity enters the table there alone if it is missing
KernelMap(i) ==
  /\ Booted
  /\ kpml4' = kpml4 \cup {i}
  /\ UNCHANGED <<upper, umap, spaceSt, memVars, runVars, cr3, prevCr3, execs, condemned, wrote, adrift>>

-----------------------------------------------------------------------------
(* Making and freeing spaces.                                              *)

\* the space and all it maps go to mm_free_p_ident
FreeUserspace(s) ==
  /\ spaceSt' = [spaceSt EXCEPT ![s] = "pending"]
  /\ frameSt' = [f \in AFrame |-> IF \E v \in APage : umap[s][v] = f THEN "pending" ELSE frameSt[f]]
  /\ UNCHANGED <<kpml4, upper, umap>>

\* free_pending: after every CPU has answered (Shootdown); what the frames hold stays
Drain ==
  /\ spaceSt' = [s \in Space |-> IF spaceSt[s] = "pending" THEN "free" ELSE spaceSt[s]]
  /\ frameSt' = [f \in AFrame |-> IF frameSt[f] = "pending" THEN "free" ELSE frameSt[f]]
  /\ spaceSt' # spaceSt
  /\ umap' = [s \in Space |-> IF spaceSt[s] = "pending" THEN Empty ELSE umap[s]]
  /\ upper' = [s \in Space |-> IF spaceSt[s] = "pending" THEN {} ELSE upper[s]]
  /\ wrote' = [s \in Space |-> IF spaceSt[s] = "pending" THEN [v \in APage |-> "old"] ELSE wrote[s]]
  /\ UNCHANGED <<kpml4, mem, runVars, cr3, prevCr3, execs, condemned, adrift>>

\* paging_create_pml4
Create(s) ==
  /\ s \in FreeSpaces /\ s = Min(FreeSpaces)
  /\ spaceSt' = [spaceSt EXCEPT ![s] = "used"]
  /\ upper' = [upper EXCEPT ![s] = kpml4]
  /\ UNCHANGED kpml4

On(c, p, st) == acpu[c] = p /\ ust[p] = st

\* mm_alloc_p gives the first free frame, or 0: page after page the frames in their order
Rank(x, S) == Cardinality({y \in S : y < x})
Give(pages) ==
  [v \in APage |->
     LET nth == {f \in Fresh : Rank(f, Fresh) = Rank(v, pages)} IN
     IF v \notin pages THEN NoFrame ELSE IF nth = {} THEN Zero ELSE CHOOSE f \in nth : TRUE]

\* Mutant: the child gets the parent's frames
copy_pagesShared(from) == umap[from]

\* the lower half: a frame of its own for every page, or frame 0 when none is left
copy_pages(from) == Give({v \in APage : umap[from][v] # NoFrame})

\* process_fork with paging_duplicate_lower and copy_pages; the rest of the kernel can have taken
\* the last frame before the new pml4 or one of its tables: the child's is then at address 0
UFork(c, p, q) ==
  /\ On(c, p, "user") /\ ust[q] = "unborn"
  /\ \/ LET s == Min(FreeSpaces)
            m == copy_pages(cr3[p]) IN
        /\ FreeSpaces # {}
        /\ Create(s)
        /\ umap' = [umap EXCEPT ![s] = m]
        /\ frameSt' = [f \in AFrame |-> IF \E v \in APage : m[v] = f THEN "used" ELSE frameSt[f]]
        /\ mem' = [f \in DOMAIN mem |->
             LET src == {v \in APage : m[v] = f} IN
             IF src = {} THEN mem[f] ELSE mem[umap[cr3[p]][Max(src)]]]
        /\ cr3' = [cr3 EXCEPT ![q] = s]
        /\ wrote' = [wrote EXCEPT ![s] =
             [v \in APage |-> IF umap[cr3[p]][v] = Zero THEN mem[Zero] ELSE wrote[cr3[p]][v]]]
        /\ UNCHANGED adrift
     \/ /\ adrift' = TRUE
        /\ UNCHANGED <<tableVars, memVars, cr3, wrote>>
  /\ ust' = [ust EXCEPT ![q] = "user"]
  /\ UNCHANGED <<acpu, reg, prevCr3, execs, condemned>>

\* maps a new frame at page v of space s, whose word is then x
MapNew(s, v, x) ==
  /\ umap[s][v] = NoFrame
  /\ LET f == Min(Fresh) IN
       /\ umap' = [umap EXCEPT ![s][v] = f]
       /\ frameSt' = [frameSt EXCEPT ![f] = "used"]
       /\ mem' = [mem EXCEPT ![f] = x]
  /\ wrote' = [wrote EXCEPT ![s][v] = x]
  /\ UNCHANGED <<kpml4, upper, spaceSt>>

Left == mem[Min(Fresh)]

\* the alloc system call at mem_top: the frame is not cleared; without one the call fails
UAlloc(c, p, v) ==
  /\ On(c, p, "user") /\ Fresh # {}
  /\ v - 1 \in APage => umap[cr3[p]][v - 1] # NoFrame
  /\ MapNew(cr3[p], v, Left)
  /\ UNCHANGED <<runVars, cr3, prevCr3, execs, condemned, adrift>>

\* a store goes through the CPU's register
UWrite(c, p, v) ==
  /\ On(c, p, "user") /\ umap[cr3[p]][v] # NoFrame
  /\ mem' = [mem EXCEPT ![umap[reg[c]][v]] = p]
  /\ wrote' = [wrote EXCEPT ![cr3[p]][v] = p]
  /\ UNCHANGED <<tableVars, frameSt, runVars, cr3, prevCr3, execs, condemned, adrift>>

-----------------------------------------------------------------------------
(* load_base, for init and in execve.                                      *)

\* init is loaded by a kernel thread, which stays on the new space when it is done; the file covers
\* the words of some pages, the others are left as they were
LoadInit(c, s) ==
  /\ Booted /\ acpu[c] = Thread /\ ust[FirstUser] = "unborn"
  /\ Create(s)
  /\ LET m == Give(Image) IN
       /\ \A v \in Image : m[v] # Zero
       /\ umap' = [umap EXCEPT ![s] = m]
       /\ frameSt' = [f \in AFrame |-> IF \E v \in Image : m[v] = f THEN "used" ELSE frameSt[f]]
       /\ \E covered \in SUBSET Image :
            mem' = [f \in DOMAIN mem |-> IF \E v \in covered : m[v] = f THEN "image" ELSE mem[f]]
       /\ wrote' = [wrote EXCEPT ![s] = [v \in APage |-> IF v \in Image THEN mem'[m[v]] ELSE "old"]]
  /\ cr3' = [cr3 EXCEPT ![FirstUser] = s]
  /\ reg' = [reg EXCEPT ![c] = s]
  /\ ust' = [ust EXCEPT ![FirstUser] = "user"]
  /\ UNCHANGED <<acpu, prevCr3, execs, condemned, adrift>>

\* the new space becomes the process's and the CPU's; if the file's segments overlap or reach the
\* stack it is left behind
LoadStart(c, p, s) ==
  /\ On(c, p, "user") /\ execs < MaxExecs
  /\ execs' = execs + 1
  /\ Create(s)
  /\ umap' = [umap EXCEPT ![s] = Empty]
  /\ \/ /\ cr3' = [cr3 EXCEPT ![p] = s] /\ prevCr3' = [prevCr3 EXCEPT ![p] = cr3[p]]
        /\ reg' = [reg EXCEPT ![c] = s]
        /\ ust' = [ust EXCEPT ![p] = "map"]
     \/ UNCHANGED <<cr3, prevCr3, reg, ust>>
  /\ UNCHANGED <<memVars, acpu, condemned, wrote, adrift>>

\* segments, program headers and stack, then the copy of the file, which may not cover the word
LoadMap(c, p, v) ==
  /\ On(c, p, "map") /\ v \in Image /\ Fresh # {}
  /\ \E x \in {"image", Left} : MapNew(cr3[p], v, x)
  /\ UNCHANGED <<runVars, cr3, prevCr3, execs, condemned, adrift>>

\* no frame left: the space is freed while the CPU runs on it
LoadFail(c, p) ==
  /\ On(c, p, "map") /\ Fresh = {} /\ \E v \in Image : umap[cr3[p]][v] = NoFrame
  /\ FreeUserspace(cr3[p])
  /\ ust' = [ust EXCEPT ![p] = "undo"]
  /\ UNCHANGED <<mem, acpu, reg, cr3, prevCr3, execs, condemned, wrote, adrift>>

\* Mutant: the CPU stays on the new space
LoadDoneUnset(c, p) ==
  /\ On(c, p, "map") /\ \A v \in Image : umap[cr3[p]][v] # NoFrame
  /\ cr3' = [cr3 EXCEPT ![p] = prevCr3[p]] /\ prevCr3' = [prevCr3 EXCEPT ![p] = cr3[p]]
  /\ ust' = [ust EXCEPT ![p] = "swap"]
  /\ UNCHANGED <<tableVars, memVars, acpu, reg, execs, condemned, wrote, adrift>>

\* restore_cr3: the process goes on in its old space until the scheduler calls execve_transfer;
\* prevCr3 is then the space of the process made from the file
LoadDone(c, p) ==
  /\ On(c, p, "map") /\ \A v \in Image : umap[cr3[p]][v] # NoFrame
  /\ cr3' = [cr3 EXCEPT ![p] = prevCr3[p]] /\ prevCr3' = [prevCr3 EXCEPT ![p] = cr3[p]]
  /\ reg' = [reg EXCEPT ![c] = prevCr3[p]]
  /\ ust' = [ust EXCEPT ![p] = "swap"]
  /\ UNCHANGED <<tableVars, memVars, acpu, execs, condemned, wrote, adrift>>

\* the failed load returns a pcb it never set: no process, by luck, or anything
LoadUndo(c, p) ==
  /\ On(c, p, "undo")
  /\ adrift' \in BOOLEAN
  /\ cr3' = [cr3 EXCEPT ![p] = prevCr3[p]] /\ prevCr3' = [prevCr3 EXCEPT ![p] = 0]
  /\ reg' = [reg EXCEPT ![c] = prevCr3[p]]
  /\ ust' = [ust EXCEPT ![p] = "user"]
  /\ UNCHANGED <<tableVars, memVars, acpu, execs, condemned, wrote>>

-----------------------------------------------------------------------------
(* Leaving and taking a CPU.                                               *)

Exit(c, p) ==
  /\ On(c, p, "user") /\ p # FirstUser
  /\ ust' = [ust EXCEPT ![p] = "killed"]
  /\ UNCHANGED <<tableVars, memVars, acpu, reg, cr3, prevCr3, execs, condemned, wrote, adrift>>

\* scheduler_run: a killed process is discarded, execve_transfer swaps the spaces and discards the
\* old one; the CPU keeps its register
Leave(c) ==
  LET p == acpu[c] IN
  /\ p # NoOne
  /\ acpu' = [acpu EXCEPT ![c] = NoOne]
  /\ IF p # Thread /\ ust[p] \in {"killed", "swap"}
       THEN /\ condemned' = condemned \cup {cr3[p]}
            /\ ust' = [ust EXCEPT ![p] = IF @ = "swap" THEN "user" ELSE "gone"]
            /\ cr3' = [cr3 EXCEPT ![p] = IF ust[p] = "swap" THEN prevCr3[p] ELSE 0]
            /\ prevCr3' = [prevCr3 EXCEPT ![p] = 0]
       ELSE UNCHANGED <<condemned, ust, cr3, prevCr3>>
  /\ UNCHANGED <<tableVars, memVars, reg, execs, wrote, adrift>>

\* process_resume_transfer and cpu_set_cr3
Resume(c, p) ==
  /\ acpu[c] = NoOne
  /\ p # Thread => /\ ust[p] \in {"user", "map", "undo", "killed", "swap"}
                   /\ cr3[p] # 0
                   /\ \A d \in ACpu : acpu[d] # p
  /\ acpu' = [acpu EXCEPT ![c] = p]
  /\ reg' = IF p = Thread THEN reg ELSE [reg EXCEPT ![c] = cr3[p]]
  /\ UNCHANGED <<tableVars, memVars, ust, cr3, prevCr3, execs, condemned, wrote, adrift>>

\* reap_prepare, in the reaper's thread
ReapSpace(c, s) ==
  /\ acpu[c] = Thread /\ s \in condemned
  /\ FreeUserspace(s)
  /\ condemned' = condemned \ {s}
  /\ UNCHANGED <<mem, runVars, cr3, prevCr3, execs, wrote, adrift>>

ASStep(c, p) ==
  \/ \E v \in APage : UAlloc(c, p, v) \/ UWrite(c, p, v) \/ LoadMap(c, p, v)
  \/ \E s \in Space : LoadStart(c, p, s)
  \/ \E q \in User : UFork(c, p, q)
  \/ LoadFail(c, p) \/ LoadDone(c, p) \/ LoadUndo(c, p) \/ Exit(c, p)

ASNext ==
  /\ ~adrift
  /\ \/ ensure_mapped \/ Drain
     \/ \E i \in KEntry : KernelMap(i)
     \/ \E c \in ACpu :
          \/ Leave(c)
          \/ \E p \in User \cup {Thread} : Resume(c, p)
          \/ \E p \in User : ASStep(c, p)
          \/ \E s \in Space : ReapSpace(c, s) \/ LoadInit(c, s)

ASSpec == ASInit /\ [][ASNext]_asVars

-----------------------------------------------------------------------------
(* What a process reads from a page is what it last wrote there, or its    *)
(* parent before the fork, or the file, or, where none of them stored, what *)
(* was left in the frame when the kernel handed it out: from then on no    *)
(* other process shares the frame, no freed frame is still mapped, and no  *)
(* CPU runs a process on another's space, whatever forks, execs, exits and *)
(* reaps interleave.  Frame 0, which fork maps when memory runs out, is    *)
(* the exception: it may hold what anybody wrote, and a page copied from   *)
(* it starts as that.  Once a page table is at frame 0 (adrift) nothing is *)
(* claimed of the steps that follow.                                       *)
MemoryPrivate ==
  \A p \in User : cr3[p] # 0 /\ ust[p] \in {"user", "swap", "killed"} =>
    \A v \in APage : umap[cr3[p]][v] \notin {NoFrame, Zero} => mem[umap[cr3[p]][v]] = wrote[cr3[p]][v]

(* A mapping made in the kernel's half after a space was created is seen   *)
(* in that space too: paging_ensure_mapped has made every entry before.    *)
KernelShared == \A s \in Space : spaceSt[s] # "free" => upper[s] = kpml4

(* A CPU on which a user process runs is on that process's space, and the  *)
(* space is neither freed nor about to be, except after a load ran out of  *)
(* memory and before it is undone: its space may then even be another's.   *)
(* Only a kernel thread, or a CPU between two processes, can be on a space *)
(* the reaper has freed under it.  SpacesSound is this and KernelShared.   *)
RootsLive ==
  \A c \in ACpu : acpu[c] \in User =>
    /\ reg[c] = cr3[acpu[c]]
    /\ ust[acpu[c]] = "undo" \/ (spaceSt[reg[c]] = "used" /\ reg[c] \notin condemned)

SpacesSound == KernelShared /\ RootsLive
=============================================================================
