--------------------------------- MODULE Elf ---------------------------------
(***************************************************************************)
(* The layout of an executable in load_base of kernel/core/elf.c: the      *)
(* loadable segments of the file become memory regions in whole pages,     *)
(* inserted in order of address, overlapping neighbours are merged or the  *)
(* file is refused, then every page of every region is mapped, the program *)
(* headers go above, the segments are copied in and the pages get their    *)
(* permissions.  AddressSpace has the spaces and the frames.               *)
(***************************************************************************)
EXTENDS Integers, Sequences, SequencesExt, FiniteSets, FiniteSetsExt, TLC

CONSTANTS MaxSegs,    \* bound: program headers of a file
          PageSize,   \* bytes of a page
          StackBase,  \* INIT_USERLAND_SB
          SegSize,    \* sizes of segments, p_memsz
          Perms,      \* permissions of segments
          StringLists,\* argument and environment lists: the sizes of their strings
          AuxSize     \* bytes of the auxiliary vector, a multiple of 16

ASSUME ElfAssumption == PageSize \in Nat \ {0} /\ StackBase \in Nat /\ AuxSize % 16 = 0

\* a PT_LOAD header; the sum of p_vaddr and p_memsz stays far below 2^64, its wrap is left out
Segment == [vaddr : 0 .. StackBase - 1, memsz : SegSize, perms : Perms]

VARIABLES
  segs,       \* PT_LOAD headers of the file, in order
  argv, envp, \* argument and environment lists, by the sizes of their strings
  phase,
  i,          \* the header or the region that is next
  mem_regs,   \* regions, a list
  pages,      \* mapped pages and their permissions
  memtop,
  built       \* what was put on the user stack, by distance below its top

elfVars == <<segs, argv, envp, phase, i, mem_regs, pages, memtop, built>>

Down(a) == a - (a % PageSize)
Up(a) == IF a % PageSize = 0 THEN a ELSE a + PageSize - (a % PageSize)
PagesIn(base, top) == {a \in base .. top - 1 : a % PageSize = 0}

ElfInit ==
  /\ segs \in BoundedSeq(Segment, MaxSegs)
  /\ argv \in StringLists /\ envp \in StringLists
  /\ phase = "layout"
  /\ i = 1
  /\ mem_regs = <<>>
  /\ pages = <<>>
  /\ memtop = 0
  /\ built = <<>>

\* the regions that start no later stay in front
Insert(r) ==
  LET k == Cardinality({j \in DOMAIN mem_regs : \A m \in 1 .. j : r.base >= mem_regs[m].base}) IN
  SubSeq(mem_regs, 1, k) \o <<r>> \o SubSeq(mem_regs, k + 1, Len(mem_regs))

\* the first pass over the headers
Layout ==
  /\ phase = "layout" /\ i <= Len(segs)
  /\ LET s == segs[i] IN
     IF s.vaddr + s.memsz >= StackBase
       THEN phase' = "refused" /\ UNCHANGED <<mem_regs, i>>
       ELSE /\ mem_regs' = Insert([base |-> Down(s.vaddr), top |-> Up(s.vaddr + s.memsz), perms |-> s.perms])
            /\ i' = i + 1
            /\ UNCHANGED phase
  /\ UNCHANGED <<segs, argv, envp, pages, memtop, built>>

LayoutDone ==
  /\ phase = "layout" /\ i > Len(segs)
  /\ phase' = "merge" /\ i' = 1
  /\ UNCHANGED <<segs, argv, envp, mem_regs, pages, memtop, built>>

\* Mutant: the merged region ends where the second one does
MergedTopSecond(a, b) == b.top

MergedTop(a, b) == IF a.top > b.top THEN a.top ELSE b.top

\* one step of the pass over the list: a region that reaches into the next swallows it, and the
\* pass goes on with the one behind
Merge ==
  /\ phase = "merge" /\ i < Len(mem_regs)
  /\ LET a == mem_regs[i]
         b == mem_regs[i + 1] IN
     IF a.top <= b.base
       THEN i' = i + 1 /\ UNCHANGED <<mem_regs, phase>>
       ELSE IF a.perms # b.perms
       THEN phase' = "refused" /\ UNCHANGED <<mem_regs, i>>
       ELSE /\ mem_regs' = SubSeq(mem_regs, 1, i - 1) \o <<[a EXCEPT !.top = MergedTop(a, b)]>>
                           \o SubSeq(mem_regs, i + 2, Len(mem_regs))
            /\ i' = i + 1
            /\ UNCHANGED phase
  /\ UNCHANGED <<segs, argv, envp, pages, memtop, built>>

MergeDone ==
  /\ phase = "merge" /\ i >= Len(mem_regs)
  /\ phase' = "map" /\ i' = 1
  /\ UNCHANGED <<segs, argv, envp, mem_regs, pages, memtop, built>>

\* the pages of a region; a page that is mapped stays as it is (paging_map_proc), and its
\* permissions are those of the last region that has it (paging_update_perms)
MapRegion ==
  /\ phase = "map" /\ i <= Len(mem_regs)
  /\ LET r == mem_regs[i] IN
     /\ pages' = [a \in PagesIn(r.base, r.top) |-> r.perms] @@ pages
     /\ memtop' = Max({r.top, memtop})
  /\ i' = i + 1
  /\ UNCHANGED <<segs, argv, envp, phase, mem_regs, built>>

\* a page of program headers with an unmapped page below and above it; memtop is where alloc starts
MapHeaders ==
  /\ phase = "map" /\ i > Len(mem_regs)
  /\ pages' = (memtop + PageSize :> "headers") @@ pages
  /\ memtop' = memtop + 3 * PageSize
  /\ phase' = "stack"
  /\ UNCHANGED <<segs, argv, envp, i, mem_regs, built>>

SumOf(lens) == FoldSeq(LAMBDA x, acc : x + acc, 0, lens)

\* env_addr: the strings, rounded down to 16, and 8 more if there is an even number of them
EnvAddr ==
  LET below == SumOf(argv) + SumOf(envp) IN
  below + ((16 - (below % 16)) % 16) + (IF (Len(argv) + Len(envp)) % 2 = 0 THEN 8 ELSE 0)

\* strings are copied upwards from env_addr, the environment's and then the arguments', each list
\* from its last string; a pointer to each is pushed below 16 random bytes and the auxiliary vector
BuildStack ==
  LET strings == Reverse(envp) \o Reverse(argv)
      addr(k) == EnvAddr - SumOf(SubSeq(strings, 1, k - 1))
      words == Len(argv) + Len(envp) + 3      \* two null pointers and argc
  IN
  /\ phase = "stack"
  /\ built' = [argv |-> [k \in DOMAIN argv |-> addr(Len(strings) + 1 - k)],
               envp |-> [k \in DOMAIN envp |-> addr(Len(envp) + 1 - k)],
               aux |-> EnvAddr + 16 + AuxSize,
               rsp |-> EnvAddr + 16 + AuxSize + 8 * words]
  /\ phase' = "done"
  /\ UNCHANGED <<segs, argv, envp, i, mem_regs, pages, memtop>>

ElfNext == Layout \/ LayoutDone \/ Merge \/ MergeDone \/ MapRegion \/ MapHeaders \/ BuildStack

-----------------------------------------------------------------------------
TouchedBy(s) == PagesIn(Down(s.vaddr), Up(s.vaddr + s.memsz))
SegsOf == ToSet(segs)

(* A file that is not refused has every page of every segment mapped, and  *)
(* no page beside them but the headers', which touch no segment and lie    *)
(* below memtop; a page that one segment alone needs has its permissions.  *)
ImageComplete ==
  phase = "done" =>
    /\ UNION {TouchedBy(s) : s \in SegsOf} = {a \in DOMAIN pages : pages[a] # "headers"}
    /\ \A a \in DOMAIN pages : a + PageSize <= memtop
    /\ \A s \in SegsOf : \A a \in TouchedBy(s) :
         (\A t \in SegsOf : t.perms # s.perms => a \notin TouchedBy(t)) => pages[a] = s.perms

(* The new process starts with its stack pointer at a multiple of 16, and  *)
(* the strings of its arguments and environment lie between the pointers   *)
(* and the top of the stack, none over another.  ImageSound is this and    *)
(* ImageComplete.                                                          *)
StackSound ==
  phase = "done" =>
    LET at(l) == IF l = 1 THEN built.argv ELSE built.envp
        size(l) == IF l = 1 THEN argv ELSE envp
        bytes(l, k) == {at(l)[k] - d : d \in 0 .. size(l)[k] - 1}
        all == UNION {{<<l, k>> : k \in DOMAIN at(l)} : l \in 1 .. 2} IN
    /\ built.rsp % 16 = 0
    /\ \A x \in all : bytes(x[1], x[2]) \subseteq 1 .. built.aux - AuxSize - 16
    /\ \A x, y \in all : x # y => bytes(x[1], x[2]) \cap bytes(y[1], y[2]) = {}

ImageSound == ImageComplete /\ StackSound

(* elf.c:333-340, "detect overlaping memory": a file is refused when two   *)
(* segments that need different permissions share a page.                  *)
OverlapDetected ==
  phase = "done" =>
    \A s, t \in SegsOf : s.perms # t.perms => TouchedBy(s) \cap TouchedBy(t) = {}
=============================================================================
