----------------------------- MODULE Ext2Proofs ------------------------------
(***************************************************************************)
(* Proofs about Ext2Dir, for any number of openers, paths, inodes, blocks  *)
(* and calls, and about Ext2, for any number of writers and files.         *)
(***************************************************************************)
EXTENDS Ext2Dir, Ext2, FiniteSetTheorems, SequenceTheorems, WellFoundedInduction, TLAPS

Dir == {Root, Sub}
Name == {"d", "f", "old"} \cup UNION {{w[k] : k \in DOMAIN w} : w \in OpenPaths}
DBlock == 1 .. DirBlocks
BSlot == 1 .. DirSlots
Node == [kind : {"none", "dir", "reg"}, size : Nat, i_block : [BSlot -> DBlock \cup {0}]]
Table == [Inode -> Node]
Record == [name : Name, inode : Inode \cup {0}]
Handle == [inode : Inode, block : Nat \ {0}, entry : Nat \ {0}]
Walking == {"open", "create", "check"}
Making == {"init", "assign", "link", "full", "entry", "grow"}   \* the new inode is allocated
Locked == {"check"} \cup Making
Job == [pc : {"idle", "done", "open", "create", "lock"} \cup Locked,
        path : Seq(Name), creat : BOOLEAN, result : Inode \cup {0}, at : Handle,
        rest : Seq(Name), want : Seq(Name), fresh : Inode \cup {0}, parent : Node,
        block : DBlock \cup {0}, tbuf : Table \cup {<<>>}, err : BOOLEAN]

DTypeOK ==
  /\ dirTable \in Table /\ ibitmap \in SUBSET Inode /\ used \in SUBSET DBlock
  /\ data \in [DBlock -> Seq(Record)]
  /\ ext2lock \in Opener \cup {Nobody, Writer}
  /\ job \in [Opener -> Job]
  /\ wbuf \in Table \cup {<<>>}

\* ext2_create holds the lock from the second look on
LockHeld == \A p \in Opener : job[p].pc \in Locked <=> ext2lock = p

\* no directory is made, and the file that is written stays a file
Kinds ==
  /\ \A i \in Inode : dirTable[i].kind = "dir" <=> i \in Dir
  /\ dirTable[Written].kind = "reg" /\ (wbuf # <<>> => wbuf[Written].kind = "reg")
  /\ {Root, Sub, Written} \subseteq ibitmap

\* the new block of d is linked and not yet counted in i_size
Linking(j, d) == j.pc \in {"entry", "grow"} /\ j.at.inode = d

\* a directory has no holes
Shape ==
  \A d \in Dir :
    /\ dirTable[d].size \in BSlot
    /\ \A k \in BSlot : dirTable[d].i_block[k] # 0 <=>
         \/ k <= dirTable[d].size
         \/ (k = dirTable[d].size + 1 /\ \E p \in Opener : Linking(job[p], d))

\* a directory's block is allocated and has one place, and only such blocks have entries
Blocks ==
  /\ \A d, e \in Dir, k, l \in BSlot : dirTable[d].i_block[k] # 0 =>
       /\ dirTable[d].i_block[k] \in used
       /\ dirTable[d].i_block[k] = dirTable[e].i_block[l] => d = e /\ k = l
  /\ \A b \in DBlock : data[b] # Zeros => \E d \in Dir, k \in BSlot : dirTable[d].i_block[k] = b

\* an inode has one entry, and is allocated and initialised before
Inodes ==
  \A b, c \in DBlock : \A r \in DOMAIN data[b] : data[b][r].inode # 0 =>
    /\ data[b][r].inode \in ibitmap /\ dirTable[data[b][r].inode].kind # "none"
    /\ \A s \in DOMAIN data[c] : data[b][r].inode = data[c][s].inode => b = c /\ r = s

\* entry r of the block in slot k of d has name n
Entered(d, k, r, n) ==
  LET b == dirTable[d].i_block[k] IN
  b # 0 /\ r \in DOMAIN data[b] /\ data[b][r].inode # 0 /\ data[b][r].name = n

\* a directory has a name once
Distinct ==
  \A d \in Dir, k, l \in BSlot, r, s \in Nat, n \in Name :
    Entered(d, k, r, n) /\ Entered(d, l, s, n) => k = l /\ r = s

\* a walk is at an entry, or at the start of a block
WalkOK(j) ==
  \/ j.at.entry = 1
  \/ /\ j.at.inode \in Dir /\ j.at.block \in 1 .. dirTable[j.at.inode].size
     /\ j.at.entry \in DOMAIN data[dirTable[j.at.inode].i_block[j.at.block]]

\* a creator that has the lock has found no entry of the name so far, has a new inode nobody
\* names and a directory inode that is not stale, and then a block that only it knows
CheckOK(j) ==
  j.pc = "check" =>
    \A k \in BSlot, r \in Nat : Entered(j.at.inode, k, r, Head(j.rest)) =>
      k > j.at.block \/ (k = j.at.block /\ r >= j.at.entry)
FreshOK(j) ==
  j.pc \in Making =>
    /\ j.fresh \in ibitmap \ {Root, Sub, Written}
    /\ j.pc # "init" => dirTable[j.fresh].kind = "reg"
    /\ \A b \in DBlock : \A r \in DOMAIN data[b] : data[b][r].inode = j.fresh => j.pc = "grow" /\ b = j.block
    /\ j.pc # "grow" => \A k \in BSlot, r \in Nat : ~Entered(j.at.inode, k, r, Head(j.rest))
BlockOK(j) ==
  LET node == dirTable[j.at.inode] IN
  /\ j.pc \in {"init", "link", "full", "grow"} => j.tbuf # <<>>
  /\ j.pc \in {"init", "assign", "full", "entry", "grow"} => j.parent = node
  /\ j.pc = "link" =>
       /\ j.parent = [node EXCEPT !.i_block[node.size + 1] = j.block]
       /\ j.block \in used /\ node.size + 1 \in BSlot
       /\ \A d \in Dir, k \in BSlot : dirTable[d].i_block[k] # j.block
  /\ j.pc \in {"entry", "grow"} => j.block # 0 /\ node.size + 1 \in BSlot /\ node.i_block[node.size + 1] = j.block
  /\ j.pc = "entry" => data[j.block] = Zeros
CreatorOK(j) ==
  /\ j.pc \in Locked \cup {"lock"} => j.at.inode \in Dir /\ Len(j.rest) = 1
  /\ CheckOK(j) /\ FreshOK(j) /\ BlockOK(j)

DInv == /\ DTypeOK /\ LockHeld /\ Kinds /\ Shape /\ Blocks /\ Inodes /\ Distinct
        /\ \A p \in Opener : WalkOK(job[p]) /\ CreatorOK(job[p])

\* until something goes wrong that nobody notices; the pc "alloc" comes only after that
DirInv == harm # {} \/ DInv

-----------------------------------------------------------------------------
(* The constants.                                                            *)
LEMMA Numbers ==
  /\ Root \in Inode /\ Sub \in Inode /\ Written \in Inode /\ Dir \subseteq Inode
  /\ Written \notin Dir /\ Root # Sub /\ 0 \notin Inode
  /\ BSlot \subseteq Nat \ {0} /\ DBlock \subseteq Nat \ {0} /\ 1 \in BSlot /\ 1 \in DBlock /\ 2 \in DBlock
  /\ DBlock \subseteq BSlot /\ DirSlots \in Nat /\ Nobody \notin Opener
  /\ Writer \notin Opener /\ Writer # Nobody
<1>1. IGroups * IPerGroup \in Nat
  BY DirAssumption
<1> QED
  BY <1>1, DirAssumption DEF Root, Sub, Written, Inode, Dir, BSlot, DBlock

(* Paths are sequences of names.                                             *)
LEMMA PathType ==
  ASSUME NEW w \in OpenPaths
  PROVE  w \in Seq(Name)
<1>1. w \in Seq(STRING)
  BY DirAssumption
<1>2. \A k \in DOMAIN w : w[k] \in Name
  BY DEF Name
<1>3. DOMAIN w = 1 .. Len(w) /\ Len(w) \in Nat /\ w = [k \in 1 .. Len(w) |-> w[k]]
  BY <1>1
<1> QED
  BY <1>2, <1>3, SeqDef

(* A set of natural numbers has a least element.                             *)
LEMMA LeastNatural ==
  ASSUME NEW S \in SUBSET Nat, S # {}
  PROVE  Min(S) \in S /\ \A n \in S : Min(S) <= n
<1> DEFINE R == OpToRel(<, Nat)
<1>1. \A x, y \in Nat : x < y => <<x, y>> \in R
  BY DEF OpToRel
<1>2. IsWellFoundedOn(R, Nat)
  BY NatLessThanWellFounded
<1> HIDE DEF R
<1>3. PICK m \in S : \A n \in S : ~(<<n, m>> \in R)
  BY <1>2, WFMin, Zenon
<1>4. \A n \in S : ~(n < m)
  BY <1>1, <1>3, Zenon
<1>5. \A n \in S : m <= n
  BY <1>4
<1>6. \E x \in S : \A y \in S : x =< y
  BY <1>5
<1> QED
  BY <1>6 DEF Min

(* A table block that is stored over nothing newer changes one inode.        *)
LEMMA StoreExact ==
  ASSUME dirTable \in Table, NEW buf \in Table, NEW i \in Inode, NEW node \in Node,
         NEW fault, StoreInode(buf, i, node, fault), harm' = {}
  PROVE  dirTable' = [dirTable EXCEPT ![i] = node] /\ dirTable' \in Table /\ fault = "none"
<1>a. fault = "none"
  BY DEF StoreInode
<1>1. \A k \in Inode \ {i} : buf[k] = dirTable[k]
  BY <1>a DEF StoreInode
<1>2. [buf EXCEPT ![i] = node] = [dirTable EXCEPT ![i] = node]
  BY <1>1 DEF Table
<1> QED
  BY <1>a, <1>2 DEF StoreInode, Table

(* Directories only grow, and what is entered stays.                         *)
Grows ==
  /\ \A d \in Dir : /\ dirTable'[d].size >= dirTable[d].size
                    /\ \A k \in 1 .. dirTable[d].size : dirTable'[d].i_block[k] = dirTable[d].i_block[k]
  /\ \A b \in DBlock : data[b] # Zeros => data'[b] = data[b]

(* Facts about the blocks of a directory.                                    *)
LEMMA DirForm ==
  ASSUME DInv, NEW d \in Dir
  PROVE  /\ dirTable[d] \in Node /\ dirTable[d].kind = "dir" /\ d \in Inode
         /\ dirTable[d].size \in Nat \ {0} /\ 1 .. dirTable[d].size \subseteq BSlot
         /\ \A k \in 1 .. dirTable[d].size : dirTable[d].i_block[k] \in DBlock
         /\ \A k \in BSlot : dirTable[d].i_block[k] \in DBlock \cup {0}
<1>1. dirTable[d] \in Node /\ dirTable[d].kind = "dir" /\ d \in Inode
  BY Numbers DEF DInv, DTypeOK, Table, Kinds
<1>2. dirTable[d].size \in BSlot
  BY DEF DInv, Shape
<1>3. dirTable[d].size \in Nat \ {0} /\ 1 .. dirTable[d].size \subseteq BSlot
  BY <1>2, Numbers DEF BSlot
<1>4. \A k \in BSlot : dirTable[d].i_block[k] \in DBlock \cup {0}
  BY <1>1 DEF Node
<1>5. \A k \in 1 .. dirTable[d].size : dirTable[d].i_block[k] # 0
  BY <1>3 DEF DInv, Shape
<1> QED
  BY <1>1, <1>3, <1>4, <1>5

(* A walk stays where it is.                                                 *)
LEMMA WalkKept ==
  ASSUME DInv, Grows, NEW j \in Job, WalkOK(j), \A d \in Dir : dirTable'[d].size \in Nat
  PROVE  WalkOK(j)'
<1>1. CASE j.at.entry = 1
  BY <1>1 DEF WalkOK
<1>2. CASE ~(j.at.entry = 1)
  <2>1. PICK d \in Dir : d = j.at.inode /\ j.at.block \in 1 .. dirTable[d].size
    BY <1>2 DEF WalkOK
  <2>a. PICK k \in 1 .. dirTable[d].size : k = j.at.block /\ j.at.entry \in DOMAIN data[dirTable[d].i_block[k]]
    BY <1>2, <2>1 DEF WalkOK
  <2>2. PICK b \in DBlock : b = dirTable[d].i_block[k]
    BY <2>a, DirForm
  <2>3. data[b] # Zeros
    BY <2>a, <2>2 DEF Zeros
  <2>4. data'[b] = data[b] /\ dirTable'[d].i_block[k] = b /\ k \in 1 .. dirTable'[d].size
    BY <2>2, <2>3, DirForm DEF Grows
  <2> QED
    BY <2>1, <2>a, <2>2, <2>4 DEF WalkOK
<1> QED
  BY <1>1, <1>2

(* Only the holder of the lock is at work on a directory.                    *)
LEMMA OthersWait ==
  ASSUME DInv, NEW p \in Opener, job[p].pc \in Locked, NEW q \in Opener, q # p
  PROVE  job[q].pc \notin Locked
BY DEF DInv, LockHeld

(* A job that is not past the lock has nothing to keep.                      *)
LEMMA NothingHeld ==
  ASSUME NEW j, j.pc \notin Locked, j.pc = "lock" => j.at.inode \in Dir /\ Len(j.rest) = 1
  PROVE  CreatorOK(j) /\ CreatorOK(j)'
BY DEF CreatorOK, CheckOK, FreshOK, BlockOK, Locked, Making

-----------------------------------------------------------------------------
(* Steps of one job.                                                         *)

\* p goes on as n; the directories and their entries stay
JobStep(p, n) ==
  /\ n \in Job /\ job' = [job EXCEPT ![p] = n]
  /\ UNCHANGED <<dirTable, data, wbuf>>
  /\ ibitmap \subseteq ibitmap' /\ ibitmap' \subseteq Inode /\ used \subseteq used' /\ used' \subseteq DBlock
  /\ ext2lock' \in Opener \cup {Nobody, Writer} /\ (n.pc \in Locked <=> ext2lock' = p)
  /\ \A q \in Opener : q # p => (ext2lock' = q <=> ext2lock = q)
  /\ \A d \in Dir : Linking(n, d) <=> Linking(job[p], d)
  /\ WalkOK(n) /\ CreatorOK(n)'

(* What the others know stays true when bits are set.                        *)
LEMMA CreatorKept ==
  ASSUME NEW j, CreatorOK(j), UNCHANGED <<dirTable, data>>, ibitmap \subseteq ibitmap', used \subseteq used'
  PROVE  CreatorOK(j)'
<1>1. CheckOK(j)'
  BY DEF CreatorOK, CheckOK, Entered
<1>2. FreshOK(j)'
  BY DEF CreatorOK, FreshOK, Entered
<1>3. BlockOK(j)'
  BY DEF CreatorOK, BlockOK
<1> QED
  BY <1>1, <1>2, <1>3 DEF CreatorOK

(* What holds of the record that becomes a job's holds of the job.           *)
LEMMA JobAfter ==
  ASSUME NEW q, NEW j, job'[q] = j, WalkOK(j)', CreatorOK(j)'
  PROVE  WalkOK(job[q])' /\ CreatorOK(job[q])'
<1>1. WalkOK(job[q])'
  BY DEF WalkOK
<1>2. CheckOK(job[q])'
  BY DEF CreatorOK, CheckOK, Entered
<1>3. FreshOK(job[q])'
  BY DEF CreatorOK, FreshOK, Entered
<1>4. BlockOK(job[q])'
  BY DEF CreatorOK, BlockOK
<1> QED
  BY <1>1, <1>2, <1>3, <1>4 DEF CreatorOK

(* Such a step keeps the invariant.                                          *)
LEMMA JobStepKeeps ==
  ASSUME DInv, NEW p \in Opener, NEW n, JobStep(p, n)
  PROVE  DInv' /\ Grows
<1>1. \A q \in Opener : job'[q] = IF q = p THEN n ELSE job[q]
  BY DEF JobStep, DInv, DTypeOK
<1>2. DTypeOK'
  BY DEF JobStep, DInv, DTypeOK
<1>3. LockHeld'
  BY <1>1 DEF JobStep, DInv, LockHeld
<1>4. Kinds'
  BY DEF JobStep, DInv, Kinds
<1>5. Shape'
  <2>1. \A d \in Dir : (\E q \in Opener : Linking(job'[q], d)) <=> (\E q \in Opener : Linking(job[q], d))
    BY <1>1 DEF JobStep
  <2> QED
    BY <2>1 DEF JobStep, DInv, Shape
<1>6. Blocks' /\ Inodes' /\ Distinct'
  BY DEF JobStep, DInv, Blocks, Inodes, Distinct, Entered
<1>7. Grows
  BY DirForm DEF JobStep, Grows
<1>8. ASSUME NEW q \in Opener
      PROVE  WalkOK(job[q])' /\ CreatorOK(job[q])'
  <2>1. CASE q = p
    <3>1. WalkOK(n)'
      BY DEF JobStep, WalkOK
    <3> QED
      BY <1>1, <2>1, <3>1, JobAfter DEF JobStep
  <2>2. CASE q # p
    <3>1. PICK j \in Job : j = job[q]
      BY DEF DInv, DTypeOK
    <3>2. WalkOK(j)'
      BY <3>1 DEF DInv, JobStep, WalkOK
    <3>3. CreatorOK(j)'
      BY <3>1, CreatorKept DEF DInv, JobStep
    <3> QED
      BY <1>1, <2>2, <3>1, <3>2, <3>3, JobAfter
  <2> QED
    BY <2>1, <2>2
<1> QED
  BY <1>2, <1>3, <1>4, <1>5, <1>6, <1>7, <1>8 DEF DInv

(* The records the calls make.                                               *)
LEMMA IdleForm ==
  ASSUME NEW w \in Seq(Name), NEW c \in BOOLEAN, NEW e \in BOOLEAN
  PROVE  /\ Idle \in Job /\ Idle.at.entry = 1
         /\ [Idle EXCEPT !.path = w, !.creat = c] \in Job
         /\ [Idle EXCEPT !.path = w, !.creat = c, !.err = e] \in Job
<1>1. NoFile \in Node /\ Start(Root) \in Handle /\ Start(Root).entry = 1
  BY Numbers DEF NoFile, Node, Start, Handle, BSlot
<1>2. Idle \in Job /\ Idle.at = Start(Root)
  <2>1. <<>> \in Seq(Name)
    OBVIOUS
  <2> QED
    BY <1>1, <2>1 DEF Idle, Job
<1> QED
  BY <1>1, <1>2 DEF Job

(* A call that has ended.                                                    *)
LEMMA DoneForm ==
  ASSUME NEW j \in Job, NEW r \in Inode \cup {0}
  PROVE  Done(j, r) \in Job /\ Done(j, r).pc = "done" /\ Done(j, r).at.entry = 1
<1>1. Idle \in Job /\ Idle.at.entry = 1
  <2>1. <<>> \in Seq(Name) /\ TRUE \in BOOLEAN
    OBVIOUS
  <2> QED
    BY <2>1, IdleForm
<1> QED
  BY <1>1 DEF Done, Job

(* A call that meets a disk error stays where it is.                         *)
LEMMA MetJob ==
  ASSUME DInv, NEW p \in Opener, NEW fault
  PROVE  \E j \in Job : /\ j = Met(job[p], fault) /\ j.pc = job[p].pc /\ j.at = job[p].at
                        /\ j.tbuf = job[p].tbuf /\ j.fresh = job[p].fresh /\ j.parent = job[p].parent
                        /\ WalkOK(j) /\ CreatorOK(j)
<1>1. PICK i \in Job : i = job[p]
  BY DEF DInv, DTypeOK
<1>2. PICK j : j = Met(i, fault)
  OBVIOUS
<1>3. PICK e \in BOOLEAN : j = [i EXCEPT !.err = e]
  BY <1>2 DEF Met
<1>4. /\ j \in Job /\ j.pc = i.pc /\ j.at = i.at /\ j.rest = i.rest /\ j.fresh = i.fresh
      /\ j.parent = i.parent /\ j.block = i.block /\ j.tbuf = i.tbuf
  BY <1>3 DEF Job
<1>5. WalkOK(i) /\ CreatorOK(i)
  BY <1>1 DEF DInv
<1>6. WalkOK(j)
  BY <1>4, <1>5 DEF WalkOK
<1>7. CheckOK(j)
  BY <1>4, <1>5 DEF CreatorOK, CheckOK
<1>8. FreshOK(j)
  BY <1>4, <1>5 DEF CreatorOK, FreshOK
<1>9. BlockOK(j)
  BY <1>4, <1>5 DEF CreatorOK, BlockOK
<1>10. CreatorOK(j)
  BY <1>4, <1>5, <1>7, <1>8, <1>9 DEF CreatorOK
<1> QED
  BY <1>1, <1>2, <1>4, <1>6, <1>10

(* A lookup that starts.                                                     *)
LEMMA ReduceForm ==
  ASSUME NEW j \in Job, NEW w \in Seq(Name), NEW why \in {"open", "create"}
  PROVE  Reduce(j, why, w) \in Job /\ Reduce(j, why, w).pc = why /\ Reduce(j, why, w).at.entry = 1
<1>1. Start(Root) \in Handle /\ Start(Root).entry = 1
  BY Numbers DEF Start, Handle
<1> QED
  BY <1>1 DEF Reduce, Job

\* a step of a job that does not hold the lock, before and after
FreeStep(p, n) ==
  /\ n \in Job /\ job' = [job EXCEPT ![p] = n]
  /\ UNCHANGED <<dirTable, data, wbuf, ibitmap, used, ext2lock>>
  /\ job[p].pc \notin Locked /\ n.pc \notin Locked /\ WalkOK(n)
  /\ n.pc = "lock" => n.at.inode \in Dir /\ Len(n.rest) = 1

(* It keeps the invariant.                                                   *)
LEMMA FreeStepKeeps ==
  ASSUME DInv, NEW p \in Opener, NEW n, FreeStep(p, n)
  PROVE  DInv' /\ Grows
<1>1. CreatorOK(n)'
  BY NothingHeld DEF FreeStep
<1>2. \A d \in Dir : ~Linking(n, d) /\ ~Linking(job[p], d)
  BY DEF FreeStep, Linking, Locked, Making
<1>3. ext2lock \in Opener \cup {Nobody, Writer} /\ ext2lock # p /\ ibitmap \subseteq Inode /\ used \subseteq DBlock
  BY DEF FreeStep, DInv, DTypeOK, LockHeld
<1>4. JobStep(p, n)
  BY <1>1, <1>2, <1>3 DEF FreeStep, JobStep
<1> QED
  BY <1>4, JobStepKeeps

(* An error exit gives the lock back.                                        *)
LEMMA FailKeeps ==
  ASSUME DInv, NEW p \in Opener, job[p].pc \in {"check", "assign", "full"}, NEW fault, Fail(p, fault),
         UNCHANGED <<dirTable, data, wbuf, used>>, ibitmap \subseteq ibitmap', ibitmap' \subseteq Inode
  PROVE  DInv' /\ Grows
<1>1. used \subseteq DBlock
  BY DEF DInv, DTypeOK
<1>2. PICK n : n = Done(Met(job[p], fault), 0)
  OBVIOUS
<1>3. n \in Job /\ n.pc = "done" /\ n.at.entry = 1
  BY <1>2, MetJob, DoneForm
<1>4. job' = [job EXCEPT ![p] = n] /\ ext2lock' = Nobody
  BY <1>2 DEF Fail
<1>5. WalkOK(n) /\ CreatorOK(n)' /\ n.pc \notin Locked
  <2>1. n.pc \notin Locked /\ n.pc # "lock"
    BY <1>3 DEF Locked, Making
  <2> QED
    BY <1>3, <2>1, NothingHeld DEF WalkOK
<1>6. \A d \in Dir : ~Linking(n, d) /\ ~Linking(job[p], d)
  BY <1>3 DEF Linking
<1>7. \A q \in Opener : ext2lock # q \/ q = p
  BY DEF DInv, LockHeld, Locked, Making
<1>8. JobStep(p, n)
  BY <1>1, <1>3, <1>4, <1>5, <1>6, <1>7, Numbers DEF JobStep
<1> QED
  BY <1>8, JobStepKeeps

(* Open starts at the root.                                                  *)
LEMMA OpenKeeps ==
  ASSUME DInv, NEW p \in Opener, NEW path \in OpenPaths, NEW creat \in BOOLEAN, Open(p, path, creat)
  PROVE  DInv' /\ Grows
<1>1. PICK i \in Job : i = [Idle EXCEPT !.path = path, !.creat = creat]
  BY IdleForm, PathType
<1>2. PICK n : n = Reduce(i, "open", path)
  OBVIOUS
<1>3. n \in Job /\ n.pc = "open" /\ n.at.entry = 1
  BY <1>2, ReduceForm, PathType
<1>4. job' = [job EXCEPT ![p] = n] /\ job[p].pc \in {"idle", "done"}
  BY <1>1, <1>2 DEF Open
<1>5. FreeStep(p, n)
  BY <1>3, <1>4 DEF Open, dirVolume, FreeStep, WalkOK, Locked, Making
<1> QED
  BY <1>5, FreeStepKeeps

(* OpenReduced ends the lookup, or goes on to create the file.               *)
LEMMA OpenReducedKeeps ==
  ASSUME DInv, NEW p \in Opener, NEW fault, OpenReduced(p, fault)
  PROVE  DInv' /\ Grows
<1>1. PICK j \in Job : j = Met(job[p], fault) /\ j.pc = job[p].pc
  BY MetJob
<1>2. j.at.inode \in Inode /\ j.rest \in Seq(Name) /\ [j EXCEPT !.want = j.rest] \in Job
  BY DEF Job, Handle
<1>3. PICK n : n = IF j.rest = <<>> THEN Done(j, j.at.inode)
                   ELSE IF j.creat THEN Reduce([j EXCEPT !.want = j.rest], "create", j.rest)
                   ELSE Done(j, 0)
  OBVIOUS
<1>4. n \in Job /\ n.pc \in {"done", "create"} /\ n.at.entry = 1
  <2>1. CASE n = Done(j, j.at.inode) \/ n = Done(j, 0)
    BY <1>2, <2>1, DoneForm
  <2>2. CASE n = Reduce([j EXCEPT !.want = j.rest], "create", j.rest)
    BY <1>2, <2>2, ReduceForm
  <2> QED
    BY <1>3, <2>1, <2>2
<1>5. job' = [job EXCEPT ![p] = n] /\ job[p].pc = "open"
  BY <1>1, <1>3 DEF OpenReduced
<1>6. FreeStep(p, n)
  BY <1>4, <1>5 DEF OpenReduced, dirVolume, FreeStep, WalkOK, Locked, Making
<1> QED
  BY <1>6, FreeStepKeeps

(* CreateReduced goes on to the lock of a directory.                         *)
LEMMA CreateReducedKeeps ==
  ASSUME DInv, NEW p \in Opener, NEW fault, CreateReduced(p, fault)
  PROVE  DInv' /\ Grows
<1>1. PICK j \in Job : j = Met(job[p], fault) /\ j.pc = job[p].pc /\ WalkOK(j)
  BY MetJob
<1>2. PICK n : n = IF Len(j.rest) # 1 \/ fault = "stat" \/ dirTable[j.at.inode].kind # "dir" THEN Done(j, 0)
                   ELSE [j EXCEPT !.pc = "lock"]
  OBVIOUS
<1>3. job' = [job EXCEPT ![p] = n] /\ job[p].pc = "create" /\ UNCHANGED <<dirTable, data, wbuf, ibitmap, used, ext2lock>>
  BY <1>1, <1>2 DEF CreateReduced, dirVolume
<1>4. CASE n = Done(j, 0)
  <2>1. n \in Job /\ n.pc = "done" /\ n.at.entry = 1
    BY <1>4, DoneForm
  <2>2. FreeStep(p, n)
    BY <1>3, <2>1 DEF FreeStep, WalkOK, Locked, Making
  <2> QED
    BY <2>2, FreeStepKeeps
<1>5. CASE /\ Len(j.rest) = 1 /\ dirTable[j.at.inode].kind = "dir" /\ n = [j EXCEPT !.pc = "lock"]
  <2>1. n \in Job /\ n.pc = "lock" /\ n.at = j.at /\ n.rest = j.rest /\ j.at.inode \in Inode
    BY <1>5 DEF Job, Handle
  <2>2. WalkOK(n)
    BY <1>1, <2>1 DEF DInv, WalkOK
  <2>3. n.at.inode \in Dir
    BY <1>5, <2>1 DEF DInv, Kinds
  <2>4. FreeStep(p, n)
    BY <1>3, <1>5, <2>1, <2>2, <2>3 DEF FreeStep, Locked, Making
  <2> QED
    BY <2>4, FreeStepKeeps
<1> QED
  BY <1>2, <1>4, <1>5

(* Where a walk is that has not ended.                                       *)
LEMMA AtBlock ==
  ASSUME DInv, NEW p \in Opener, ~WalkEnds(job[p])
  PROVE  LET h == job[p].at IN
         /\ job[p].rest # <<>> /\ h.inode \in Dir /\ h.block \in 1 .. dirTable[h.inode].size
         /\ BlockAt(h) \in DBlock
         /\ data[BlockAt(h)] # Zeros => h.entry \in DOMAIN data[BlockAt(h)]
<1>1. PICK h \in Handle : h = job[p].at
  BY DEF DInv, DTypeOK, Job
<1>2. job[p].rest # <<>> /\ h.inode \in Dir /\ ~(h.block > dirTable[h.inode].size)
  BY <1>1 DEF WalkEnds, DInv, Kinds, Handle
<1>3. h.block \in 1 .. dirTable[h.inode].size
  BY <1>2, DirForm DEF Handle
<1>4. BlockAt(h) \in DBlock
  BY <1>2, <1>3, DirForm DEF BlockAt
<1>5. ASSUME data[BlockAt(h)] # Zeros
      PROVE  h.entry \in DOMAIN data[BlockAt(h)]
  <2>1. CASE h.entry = 1
    <3>1. data[BlockAt(h)] \in Seq(Record) /\ data[BlockAt(h)] # <<>>
      BY <1>4, <1>5 DEF DInv, DTypeOK, Zeros
    <3> QED
      BY <2>1, <3>1
  <2>2. CASE h.entry # 1
    BY <1>1, <2>2 DEF DInv, WalkOK, BlockAt
  <2> QED
    BY <2>1, <2>2
<1> QED
  BY <1>1, <1>2, <1>3, <1>4, <1>5

(* NextDir goes to the next entry.                                           *)
LEMMA NextEntry ==
  ASSUME NEW h \in Handle, NEW len \in Nat, NEW n, n = NextDir(h, len)
  PROVE  /\ n \in Handle /\ n.inode = h.inode
         /\ IF h.entry >= len THEN n.block = h.block + 1 /\ n.entry = 1
                              ELSE n.block = h.block /\ n.entry = h.entry + 1
<1>1. h.block + 1 \in Nat \ {0} /\ h.entry + 1 \in Nat \ {0}
  BY DEF Handle
<1>2. CASE h.entry >= len
  <2>1. n = [h EXCEPT !.block = h.block + 1, !.entry = 1]
    BY <1>2 DEF NextDir
  <2>2. n.inode = h.inode /\ n.block = h.block + 1 /\ n.entry = 1
    BY <2>1 DEF Handle
  <2>3. 1 \in Nat \ {0}
    OBVIOUS
  <2>4. n \in Handle
    BY <1>1, <2>1, <2>3 DEF Handle
  <2> QED
    BY <1>2, <2>2, <2>4
<1>3. CASE ~(h.entry >= len)
  <2>1. n = [h EXCEPT !.entry = h.entry + 1]
    BY <1>3 DEF NextDir
  <2> QED
    BY <1>1, <1>3, <2>1 DEF Handle
<1> QED
  BY <1>2, <1>3

(* ReadDir steps over an entry of another name.                              *)
LEMMA ReadDirKeeps ==
  ASSUME DInv, NEW p \in Opener, ReadDir(p)
  PROVE  DInv' /\ Grows
<1>1. PICK j \in Job : j = job[p]
  BY DEF DInv, DTypeOK
<1>2. PICK h \in Handle : h = j.at
  BY DEF Job
<1>3. PICK b : b = BlockAt(h)
  OBVIOUS
<1>4. /\ j.pc \in Walking /\ ~WalkEnds(j) /\ ~Hit(j) /\ (b # 0 => data[b] # Zeros)
      /\ job' = [job EXCEPT ![p].at = NextDir(@, IF b = 0 THEN 0 ELSE Len(data[b]))]
      /\ UNCHANGED <<dirTable, ibitmap, used, data, ext2lock, wbuf>>
  BY <1>1, <1>2, <1>3 DEF ReadDir, dirVolume, Walking
<1>5. /\ j.rest # <<>> /\ h.inode \in Dir /\ h.block \in 1 .. dirTable[h.inode].size /\ b \in DBlock
      /\ data[b] # Zeros => h.entry \in DOMAIN data[b]
  BY <1>1, <1>2, <1>3, <1>4, AtBlock
<1>6. b # 0 /\ data[b] # Zeros /\ data[b] \in Seq(Record)
  BY <1>4, <1>5, Numbers DEF DInv, DTypeOK
<1>7. PICK len \in Nat : len = Len(data[b]) /\ DOMAIN data[b] = 1 .. len
  BY <1>6
<1>8. PICK g : g = NextDir(h, len)
  OBVIOUS
<1>9. /\ g \in Handle /\ g.inode = h.inode
      /\ IF h.entry >= len THEN g.block = h.block + 1 /\ g.entry = 1
                           ELSE g.block = h.block /\ g.entry = h.entry + 1
  BY <1>8, NextEntry
<1>10. PICK n : n = [j EXCEPT !.at = g]
  OBVIOUS
<1>11. n \in Job /\ n.pc = j.pc /\ n.at = g /\ n.rest = j.rest
  BY <1>9, <1>10 DEF Job
<1>12. job' = [job EXCEPT ![p] = n]
  BY <1>1, <1>2, <1>4, <1>6, <1>7, <1>8, <1>10
<1>13. h.entry \in Nat \ {0} /\ h.block \in Nat \ {0} /\ h.entry \in 1 .. len
  BY <1>5, <1>6, <1>7 DEF Handle
<1>14. WalkOK(n)
  <2>1. CASE h.entry >= len
    BY <1>9, <1>11, <2>1 DEF WalkOK
  <2>2. CASE ~(h.entry >= len)
    <3>1. g.entry \in 1 .. len /\ g.block = h.block
      BY <1>9, <1>13, <2>2
    <3>2. g.entry \in DOMAIN data[dirTable[h.inode].i_block[h.block]]
      BY <1>3, <1>7, <3>1 DEF BlockAt
    <3> QED
      BY <1>5, <1>9, <1>11, <3>1, <3>2 DEF WalkOK
  <2> QED
    BY <2>1, <2>2
<1>15. CASE j.pc # "check"
  <2>1. FreeStep(p, n)
    BY <1>1, <1>4, <1>11, <1>12, <1>14, <1>15 DEF FreeStep, Walking, Locked, Making
  <2> QED
    BY <2>1, FreeStepKeeps
<1>16. CASE j.pc = "check"
  <2>1. CheckOK(n)
    <3> SUFFICES ASSUME NEW k \in BSlot, NEW r \in Nat, Entered(h.inode, k, r, Head(j.rest))
                 PROVE  k > g.block \/ (k = g.block /\ r >= g.entry)
      BY <1>9, <1>11 DEF CheckOK
    <3>1. k > h.block \/ (k = h.block /\ r >= h.entry)
      BY <1>1, <1>2, <1>16 DEF DInv, CreatorOK, CheckOK
    <3>2. ~(k = h.block /\ r = h.entry)
      BY <1>2, <1>3, <1>4, <1>6 DEF Hit, BlockAt, Entered
    <3>3. k = h.block => r <= len
      BY <1>3, <1>7 DEF Entered, BlockAt
    <3>4. r >= 1
      <4>1. PICK c \in DBlock : c = dirTable[h.inode].i_block[k] /\ r \in DOMAIN data[c]
        BY <1>5, DirForm DEF Entered
      <4>2. data[c] \in Seq(Record)
        BY DEF DInv, DTypeOK
      <4> QED
        BY <4>1, <4>2
    <3>5. k \in Nat
      BY Numbers
    <3> QED
      BY <1>9, <1>13, <3>1, <3>2, <3>3, <3>4, <3>5
  <2>2. CreatorOK(n)
    <3>1. n.at.inode \in Dir /\ Len(n.rest) = 1
      BY <1>1, <1>2, <1>9, <1>11, <1>16 DEF DInv, CreatorOK, Locked
    <3> QED
      BY <1>11, <1>16, <2>1, <3>1 DEF CreatorOK, FreshOK, BlockOK, Making
  <2>3. CreatorOK(n)'
    BY <1>4, <2>2, CreatorKept
  <2>4. ext2lock = p /\ ext2lock \in Opener \cup {Nobody, Writer} /\ ibitmap \subseteq Inode /\ used \subseteq DBlock
    BY <1>1, <1>16 DEF DInv, LockHeld, Locked, DTypeOK
  <2>5. n.pc \in Locked /\ \A d \in Dir : ~Linking(n, d) /\ ~Linking(job[p], d)
    BY <1>1, <1>11, <1>16 DEF Linking, Locked
  <2>6. JobStep(p, n)
    BY <1>4, <1>11, <1>12, <1>14, <2>3, <2>4, <2>5 DEF JobStep
  <2> QED
    BY <2>6, JobStepKeeps
<1> QED
  BY <1>15, <1>16

(* Descend goes on below an entry.                                           *)
LEMMA DescendKeeps ==
  ASSUME DInv, NEW p \in Opener, Descend(p)
  PROVE  DInv' /\ Grows
<1>1. PICK j \in Job : j = job[p]
  BY DEF DInv, DTypeOK
<1>2. PICK h \in Handle : h = j.at
  BY DEF Job
<1>3. PICK b : b = BlockAt(h)
  OBVIOUS
<1>4. /\ j.pc \in {"open", "create"} /\ ~WalkEnds(j) /\ Hit(j)
      /\ job' = [job EXCEPT ![p].at = Start(data[b][h.entry].inode), ![p].rest = Tail(@)]
      /\ UNCHANGED <<dirTable, ibitmap, used, data, ext2lock, wbuf>>
  BY <1>1, <1>2, <1>3 DEF Descend, dirVolume
<1>5. j.rest # <<>> /\ b \in DBlock /\ data[b] # Zeros /\ h.entry \in DOMAIN data[b] /\ data[b][h.entry].inode # 0
  BY <1>1, <1>2, <1>3, <1>4, AtBlock DEF Hit
<1>6. PICK i \in Inode : i = data[b][h.entry].inode
  <2>1. data[b] \in Seq(Record)
    BY <1>5 DEF DInv, DTypeOK
  <2>2. data[b][h.entry] \in Record
    BY <1>5, <2>1
  <2> QED
    BY <1>5, <2>2 DEF Record
<1>7. Start(i) \in Handle /\ Start(i).entry = 1 /\ j.rest \in Seq(Name) /\ Tail(j.rest) \in Seq(Name)
  BY <1>5 DEF Start, Handle, Job
<1>8. PICK n : n = [j EXCEPT !.at = Start(i), !.rest = Tail(j.rest)]
  OBVIOUS
<1>9. n \in Job /\ n.pc = j.pc /\ n.at.entry = 1
  BY <1>7, <1>8 DEF Job
<1>10. job' = [job EXCEPT ![p] = n]
  BY <1>1, <1>4, <1>6, <1>8
<1>11. FreeStep(p, n)
  BY <1>1, <1>4, <1>9, <1>10 DEF FreeStep, WalkOK, Locked, Making
<1> QED
  BY <1>11, FreeStepKeeps

(* CreateLock starts the second look.                                        *)
LEMMA CreateLockKeeps ==
  ASSUME DInv, NEW p \in Opener, CreateLock(p)
  PROVE  DInv' /\ Grows
<1>1. PICK j \in Job : j = job[p]
  BY DEF DInv, DTypeOK
<1>2. PICK i \in Inode : i = j.at.inode
  BY DEF Job, Handle
<1>3. /\ j.pc = "lock" /\ ext2lock = Nobody /\ ext2lock' = p
      /\ job' = [job EXCEPT ![p].pc = "check", ![p].at = Start(i)]
      /\ UNCHANGED <<dirTable, ibitmap, used, data, wbuf>>
  BY <1>1, <1>2 DEF CreateLock, dirVolume
<1>4. PICK n : n = [j EXCEPT !.pc = "check", !.at = Start(i)]
  OBVIOUS
<1>5. n \in Job /\ n.pc = "check" /\ n.at = Start(i) /\ n.rest = j.rest
  <2>1. Start(i) \in Handle
    BY DEF Start, Handle
  <2> QED
    BY <1>4, <2>1 DEF Job, Locked
<1>6. job' = [job EXCEPT ![p] = n]
  BY <1>1, <1>3, <1>4
<1>7. n.at.inode = i /\ n.at.block = 1 /\ n.at.entry = 1
  BY <1>5 DEF Start
<1>8. i \in Dir /\ Len(n.rest) = 1
  BY <1>1, <1>2, <1>3, <1>5 DEF DInv, CreatorOK
<1>9. CheckOK(n)
  <2> SUFFICES ASSUME NEW k \in BSlot, NEW r \in Nat, Entered(i, k, r, Head(n.rest))
               PROVE  k > 1 \/ (k = 1 /\ r >= 1)
    BY <1>7 DEF CheckOK
  <2>1. PICK c \in DBlock : c = dirTable[i].i_block[k] /\ r \in DOMAIN data[c]
    BY <1>8, DirForm DEF Entered
  <2>2. data[c] \in Seq(Record)
    BY DEF DInv, DTypeOK
  <2>3. r >= 1 /\ k >= 1
    BY <2>1, <2>2, Numbers
  <2> QED
    BY <2>3, Numbers
<1>10. CreatorOK(n)
  BY <1>5, <1>7, <1>8, <1>9 DEF CreatorOK, FreshOK, BlockOK, Making
<1>11. CreatorOK(n)'
  BY <1>3, <1>10, CreatorKept
<1>12. n.pc \in Locked /\ \A d \in Dir : ~Linking(n, d) /\ ~Linking(job[p], d)
  BY <1>1, <1>3, <1>5 DEF Linking, Locked
<1>13. ibitmap \subseteq Inode /\ used \subseteq DBlock /\ \A q \in Opener : ext2lock # q
  BY <1>3, Numbers DEF DInv, DTypeOK
<1>14. JobStep(p, n)
  BY <1>3, <1>5, <1>6, <1>7, <1>11, <1>12, <1>13 DEF JobStep, WalkOK
<1> QED
  BY <1>14, JobStepKeeps

(* CreateBusy found the name.                                                *)
LEMMA CreateBusyKeeps ==
  ASSUME DInv, NEW p \in Opener, CreateBusy(p)
  PROVE  DInv' /\ Grows
<1>1. /\ job[p].pc = "check" /\ Fail(p, "none") /\ UNCHANGED <<dirTable, data, wbuf, used>>
      /\ ibitmap \subseteq ibitmap' /\ ibitmap' \subseteq Inode
  BY DEF CreateBusy, dirVolume, DInv, DTypeOK
<1> QED
  BY <1>1, FailKeeps

(* Nobody else has linked a block while the lock is held.                    *)
LEMMA NoneLinked ==
  ASSUME DInv, NEW p \in Opener, job[p].pc \in Locked \ {"entry", "grow"}, NEW d \in Dir
  PROVE  /\ ~ \E q \in Opener : Linking(job[q], d)
         /\ \A k \in BSlot : dirTable[d].i_block[k] # 0 <=> k <= dirTable[d].size
<1>1. \A q \in Opener : ~Linking(job[q], d)
  BY OthersWait DEF Linking, Locked, Making
<1> QED
  BY <1>1 DEF DInv, Shape

(* alloc_inode takes an inode whose bit is clear.                            *)
LEMMA ClearFound ==
  ASSUME NEW g0 \in Nat, NEW fault
  PROVE  LET open(g) == ClearInodes(g) # {}
             order == IGroupOrder(g0)
             first == SelectInSeq(order, open)
             from == IF fault = "scan" THEN SelectInSubSeq(order, first + 1, Len(order), open) ELSE first
         IN from # 0 => Min(ClearInodes(order[from])) \in Inode \ ibitmap
<1> DEFINE open(g) == ClearInodes(g) # {}
           order == IGroupOrder(g0)
           first == SelectInSeq(order, open)
           F == {i \in 1 .. Len(order) : open(order[i])}
           S == {i \in first + 1 .. Len(order) : open(order[i])}
           I == IF fault = "scan" THEN S ELSE F
           from == IF fault = "scan" THEN SelectInSubSeq(order, first + 1, Len(order), open) ELSE first
<1>a. first = IF F # {} THEN Min(F) ELSE 0
  BY DEF SelectInSeq
<1>b. SelectInSubSeq(order, first + 1, Len(order), open) = IF S # {} THEN Min(S) ELSE 0
  BY DEF SelectInSubSeq
<1>1. from = IF I # {} THEN Min(I) ELSE 0
  BY <1>a, <1>b
<1>2. Len(order) \in Nat
  <2>1. IGroups - 1 \in Nat
    BY DirAssumption
  <2>2. PICK m \in Nat : m = IGroups - 1
    BY <2>1
  <2>3. order = [k \in 1 .. m |-> (g0 + k - 1) % (IGroups - 1)]
    BY <2>2 DEF IGroupOrder
  <2>4. Len(order) = m
    BY <2>3
  <2> QED
    BY <2>4
<1>3. I \in SUBSET Nat
  <2>1. F \in SUBSET Nat
    BY <1>2
  <2>2. F # {} => Min(F) \in F
    <3> HIDE DEF F
    <3> QED
      BY <2>1, LeastNatural
  <2>3. first \in Nat
    <3> HIDE DEF F, first
    <3> QED
      BY <1>a, <2>1, <2>2
  <2>4. S \in SUBSET Nat
    <3> HIDE DEF first
    <3> QED
      BY <1>2, <2>3
  <2> HIDE DEF F, S
  <2> QED
    BY <2>1, <2>4
<1>4. ASSUME from # 0
      PROVE  Min(ClearInodes(order[from])) \in Inode \ ibitmap
  <2>1. I # {} /\ from = Min(I)
    BY <1>1, <1>4
  <2>a. \A i \in I : open(order[i])
    OBVIOUS
  <2> HIDE DEF I, from, order
  <2>2. Min(I) \in I
    BY <1>3, <2>1, LeastNatural
  <2>3. ClearInodes(order[from]) # {}
    BY <2>1, <2>2, <2>a
  <2>4. ClearInodes(order[from]) \in SUBSET Nat /\ ClearInodes(order[from]) \subseteq Inode \ ibitmap
    <3>1. Inode \subseteq Nat
      BY DirAssumption DEF Inode
    <3> QED
      BY <3>1 DEF ClearInodes
  <2>5. Min(ClearInodes(order[from])) \in ClearInodes(order[from])
    BY <2>3, <2>4, LeastNatural
  <2> QED
    BY <2>4, <2>5
<1> QED
  BY <1>4

(* AllocInode takes an inode no entry names, for a name no entry has.        *)
LEMMA AllocInodeKeeps ==
  ASSUME DInv, NEW p \in Opener, NEW fault, AllocInode(p, fault), harm' = {}
  PROVE  DInv' /\ Grows
<1>1. PICK j \in Job : j = Met(job[p], fault) /\ j.pc = job[p].pc /\ j.at = job[p].at /\ WalkOK(j) /\ CreatorOK(j)
  BY MetJob
<1>2. PICK d \in Inode : d = j.at.inode
  BY DEF Job, Handle
<1>3. j.pc = "check" /\ WalkEnds(j) /\ UNCHANGED <<dirTable, used, data, wbuf>>
  <2>1. j.pc # "alloc"
    BY DEF Job, Locked, Making
  <2> QED
    BY <1>1, <2>1 DEF AllocInode
<1>4. d \in Dir /\ Len(j.rest) = 1 /\ CheckOK(j)
  BY <1>1, <1>2, <1>3 DEF CreatorOK, Locked
<1>5. \/ Fail(p, fault) /\ ibitmap \subseteq ibitmap' /\ ibitmap' \subseteq Inode
      \/ \E i \in Inode \ ibitmap :
           /\ ibitmap' = ibitmap \cup {i} /\ UNCHANGED ext2lock
           /\ job' = [job EXCEPT ![p] = [j EXCEPT !.pc = "init", !.fresh = i, !.parent = dirTable[d], !.tbuf = dirTable]]
  <2>1. (d - 1) \div IPerGroup \in Nat
    BY DirAssumption DEF Inode
  <2>2. fault # "bitmap" /\ ibitmap \subseteq Inode
    BY DEF AllocInode, DInv, DTypeOK
  <2>3. PICK from, i : /\ from # 0 => i \in Inode \ ibitmap
                       /\ ibitmap' = IF from = 0 THEN ibitmap ELSE ibitmap \cup {i}
                       /\ IF from = 0 \/ fault = "parent" THEN Fail(p, fault)
                          ELSE /\ UNCHANGED ext2lock
                               /\ job' = [job EXCEPT ![p] = [j EXCEPT !.pc = "init", !.fresh = i, !.parent = dirTable[d],
                                                                      !.tbuf = dirTable]]
    <3> DEFINE open(g) == ClearInodes(g) # {}
               order == IGroupOrder((d - 1) \div IPerGroup)
               first == SelectInSeq(order, open)
               start == IF fault = "scan" THEN SelectInSubSeq(order, first + 1, Len(order), open) ELSE first
               least == Min(ClearInodes(order[start]))
    <3>1. start # 0 => least \in Inode \ ibitmap
      BY <2>1, ClearFound
    <3>2. /\ ibitmap' = IF start = 0 THEN ibitmap ELSE ibitmap \cup {least}
          /\ IF start = 0 \/ fault = "parent" THEN Fail(p, fault)
             ELSE /\ UNCHANGED ext2lock
                  /\ job' = [job EXCEPT ![p] = [j EXCEPT !.pc = "init", !.fresh = least, !.parent = dirTable[d],
                                                         !.tbuf = dirTable]]
      BY <1>1, <1>2, <2>2 DEF AllocInode
    <3> HIDE DEF start, least
    <3> QED
      BY <3>1, <3>2
  <2> QED
    BY <2>2, <2>3
<1>6. CASE Fail(p, fault) /\ ibitmap \subseteq ibitmap' /\ ibitmap' \subseteq Inode
  BY <1>1, <1>3, <1>6, FailKeeps
<1>7. ASSUME NEW i \in Inode \ ibitmap, ibitmap' = ibitmap \cup {i}, UNCHANGED ext2lock,
             job' = [job EXCEPT ![p] = [j EXCEPT !.pc = "init", !.fresh = i, !.parent = dirTable[d], !.tbuf = dirTable]]
      PROVE  DInv' /\ Grows
  <2>1. PICK n : n = [j EXCEPT !.pc = "init", !.fresh = i, !.parent = dirTable[d], !.tbuf = dirTable]
    OBVIOUS
  <2>2. job' = [job EXCEPT ![p] = n]
    BY <1>7, <2>1
  <2>3. dirTable \in Table /\ dirTable[d] \in Node
    BY DEF DInv, DTypeOK, Table
  <2>4. /\ n \in Job /\ n.pc = "init" /\ n.fresh = i /\ n.parent = dirTable[d] /\ n.tbuf = dirTable
        /\ n.at = j.at /\ n.rest = j.rest
    BY <2>1, <2>3 DEF Job, Locked, Making
  <2>5. WalkOK(n)
    BY <1>1, <2>4 DEF DInv, WalkOK
  <2>6. FreshOK(n)'
    <3>1. i \in ibitmap' \ {Root, Sub, Written}
      BY <1>7 DEF DInv, Kinds
    <3>2. \A b \in DBlock : \A r \in DOMAIN data[b] : data[b][r].inode # i
      BY <1>7, Numbers DEF DInv, Inodes
    <3>3. ASSUME NEW k \in BSlot, NEW r \in Nat, Entered(d, k, r, Head(j.rest))
          PROVE  FALSE
      <4>1. k > j.at.block \/ k = j.at.block
        BY <1>2, <1>3, <1>4, <3>3 DEF CheckOK
      <4>2. k <= dirTable[d].size
        BY <1>1, <1>3, <1>4, <3>3, NoneLinked DEF Entered, Locked
      <4>3. j.at.block > dirTable[d].size
        <5>1. j.rest # <<>>
          <6>1. Len(<<>>) = 0 /\ Len(j.rest) # 0
            BY <1>4
          <6> QED
            BY <6>1, Zenon
        <5> QED
          BY <1>2, <1>3, <1>4, <5>1, DirForm DEF WalkEnds
      <4>4. k \in Nat /\ dirTable[d].size \in Nat /\ j.at.block \in Nat
        BY <1>4, Numbers, DirForm DEF Job, Handle
      <4> QED
        BY <4>1, <4>2, <4>3, <4>4
    <3>4. \A k \in BSlot, r \in Nat : ~Entered(d, k, r, Head(j.rest))'
      BY <1>3, <3>3 DEF Entered
    <3> QED
      BY <1>2, <1>3, <2>4, <3>1, <3>2, <3>4 DEF FreshOK
  <2>7. BlockOK(n)'
    <3>1. dirTable # <<>>
      <4>1. DOMAIN dirTable # {}
        BY <2>3, Numbers DEF Table
      <4> QED
        BY <4>1
    <3> QED
      BY <1>2, <1>3, <2>4, <3>1 DEF BlockOK
  <2>8. CreatorOK(n)'
    BY <1>2, <1>4, <2>4, <2>6, <2>7 DEF CreatorOK, CheckOK
  <2>9. ext2lock = p /\ ext2lock \in Opener \cup {Nobody, Writer} /\ ibitmap' \subseteq Inode /\ used \subseteq DBlock
    BY <1>1, <1>3, <1>7 DEF DInv, LockHeld, Locked, DTypeOK
  <2>10. n.pc \in Locked /\ \A e \in Dir : ~Linking(n, e) /\ ~Linking(job[p], e)
    BY <1>1, <1>3, <2>4 DEF Linking, Locked, Making
  <2>11. JobStep(p, n)
    BY <1>3, <1>7, <2>2, <2>4, <2>5, <2>8, <2>9, <2>10 DEF JobStep
  <2> QED
    BY <2>11, JobStepKeeps
<1> QED
  BY <1>5, <1>6, <1>7

-----------------------------------------------------------------------------
(* A directory has room: its blocks are not all of the volume's, the other   *)
(* directory has one too.                                                    *)
LEMMA HoleExists ==
  ASSUME DInv, NEW d \in Dir
  PROVE  dirTable[d].size + 1 \in BSlot
<1> SUFFICES ASSUME dirTable[d].size + 1 \notin BSlot
             PROVE  FALSE
  OBVIOUS
<1>1. 1 .. dirTable[d].size = BSlot
  BY DirForm, Numbers DEF BSlot
<1>2. PICK e \in Dir : e # d
  BY Numbers DEF Dir
<1>3. PICK c \in DBlock : c = dirTable[e].i_block[1]
  <2>1. 1 \in 1 .. dirTable[e].size
    BY DirForm
  <2> QED
    BY <2>1, DirForm
<1>4. PICK f : f = [k \in BSlot |-> dirTable[d].i_block[k]]
  OBVIOUS
<1>5. f \in [BSlot -> DBlock \ {c}]
  <2>1. \A k \in BSlot : dirTable[d].i_block[k] \in DBlock
    BY <1>1, DirForm
  <2>2. \A k \in BSlot : dirTable[d].i_block[k] # c
    BY <1>2, <1>3, <2>1, Numbers DEF DInv, Blocks
  <2> QED
    BY <1>4, <2>1, <2>2
<1>6. /\ IsFiniteSet(DBlock \ {c}) /\ Cardinality(DBlock \ {c}) = DirBlocks - 1
      /\ IsFiniteSet(BSlot) /\ Cardinality(BSlot) = DirSlots
  <2>1. IsFiniteSet(DBlock) /\ Cardinality(DBlock) = DirBlocks
    BY FS_Interval, DirAssumption DEF DBlock
  <2>2. IsFiniteSet(BSlot) /\ Cardinality(BSlot) = DirSlots
    BY FS_Interval, DirAssumption DEF BSlot
  <2> QED
    BY <2>1, <2>2, FS_RemoveElement
<1>7. Cardinality(DBlock \ {c}) < Cardinality(BSlot)
  BY <1>6, DirAssumption
<1>8. PICK x \in BSlot, y \in BSlot : x # y /\ f[x] = f[y]
  BY <1>5, <1>6, <1>7, FS_PigeonHole
<1>9. dirTable[d].i_block[x] = dirTable[d].i_block[y] /\ dirTable[d].i_block[x] # 0
  BY <1>1, <1>4, <1>8, DirForm, Numbers
<1> QED
  BY <1>8, <1>9 DEF DInv, Blocks

(* AssignDirBlock takes the slot behind the last block.                      *)
LEMMA HoleFound ==
  ASSUME DInv, NEW p \in Opener, job[p].pc = "assign", NEW d \in Dir
  PROVE  FirstHole(dirTable[d]) = dirTable[d].size + 1
<1> DEFINE S == {k \in 1 .. DirSlots : dirTable[d].i_block[k] = 0}
<1>1. PICK m \in Nat : m = dirTable[d].size
  BY DirForm
<1>2. \A k \in BSlot : dirTable[d].i_block[k] = 0 <=> k > m
  BY <1>1, NoneLinked, Numbers DEF Locked, Making
<1>3. m + 1 \in S
  BY <1>1, <1>2, HoleExists DEF BSlot
<1>4. Min(S) \in S /\ \A n \in S : Min(S) <= n
  BY <1>3, LeastNatural
<1>5. S = {k \in 1 .. DirSlots : k > m}
  BY <1>2 DEF BSlot
<1> HIDE DEF S
<1>6. Min(S) <= m + 1 /\ Min(S) > m /\ Min(S) \in Nat
  BY <1>3, <1>4, <1>5
<1>7. Min(S) = m + 1
  BY <1>6
<1> QED
  BY <1>1, <1>7 DEF FirstHole, S

(* AssignDirBlock takes a block that no directory has, or none.              *)
LEMMA AssignDirBlockKeeps ==
  ASSUME DInv, NEW p \in Opener, NEW fault, AssignDirBlock(p, fault), harm' = {}
  PROVE  DInv' /\ Grows
<1>1. PICK j \in Job : j = Met(job[p], fault) /\ j.pc = job[p].pc /\ j.at = job[p].at /\ WalkOK(j) /\ CreatorOK(j)
  BY MetJob
<1>2. PICK d \in Inode : d = j.at.inode
  BY DEF Job, Handle
<1>3. j.pc = "assign" /\ UNCHANGED <<dirTable, ibitmap, wbuf>> /\ fault \notin {"bitmap", "zero"}
  BY <1>1 DEF AssignDirBlock
<1>4. d \in Dir /\ Len(j.rest) = 1 /\ FreshOK(j) /\ j.parent = dirTable[d]
  BY <1>1, <1>2, <1>3 DEF CreatorOK, BlockOK, Locked, Making
<1>5. PICK k \in BSlot : k = dirTable[d].size + 1 /\ FirstHole(j.parent) = k
  BY <1>1, <1>3, <1>4, HoleExists, HoleFound
<1>6. dirTable[d].i_block[k] = 0
  <2>1. ~(k <= dirTable[d].size)
    BY <1>4, <1>5, DirForm
  <2> QED
    BY <1>1, <1>3, <1>4, <2>1, NoneLinked DEF Locked, Making
<1>7. \/ Fail(p, fault) /\ UNCHANGED <<used, data>>
      \/ /\ UNCHANGED <<used, data, ext2lock>>
         /\ job' = [job EXCEPT ![p] = [j EXCEPT !.pc = "full", !.block = 0, !.tbuf = dirTable, !.parent = dirTable[d]]]
      \/ \E b \in DBlock \ used :
           /\ used' = used \cup {b} /\ data' = [data EXCEPT ![b] = Zeros] /\ UNCHANGED ext2lock
           /\ job' = [job EXCEPT ![p] = [j EXCEPT !.pc = "link", !.block = b, !.tbuf = dirTable,
                                                  !.parent = [dirTable[d] EXCEPT !.i_block[k] = b]]]
  <2>1. CASE fault = "inode"
    <3>1. Fail(p, fault) /\ used' = used /\ data' = data
      BY <1>1, <2>1 DEF AssignDirBlock
    <3> QED
      BY <3>1
  <2>2. CASE fault # "inode" /\ (1 .. DirBlocks \ used = {} \/ fault = "scan")
    <3>1. dirTable[j.at.inode].i_block[FirstHole(j.parent)] = 0
      BY <1>2, <1>5, <1>6
    <3>2. /\ used' = used \cup ({0} \ {0}) /\ data' = data /\ UNCHANGED ext2lock
          /\ job' = [job EXCEPT ![p] = [j EXCEPT !.pc = "full", !.block = 0, !.tbuf = dirTable,
                                                 !.parent = [dirTable[j.at.inode] EXCEPT !.i_block[FirstHole(j.parent)] = 0]]]
      BY <1>1, <1>3, <2>2, <3>1 DEF AssignDirBlock
    <3>3. [dirTable[j.at.inode] EXCEPT !.i_block[FirstHole(j.parent)] = 0] = dirTable[d]
      <4>1. dirTable[d] \in Node
        BY <1>4, DirForm
      <4> QED
        BY <1>2, <1>5, <1>6, <4>1 DEF Node
    <3>4. used \cup ({0} \ {0}) = used
      OBVIOUS
    <3> QED
      BY <3>2, <3>3, <3>4
  <2>3. CASE fault # "inode" /\ 1 .. DirBlocks \ used # {} /\ fault # "scan"
    <3>1. PICK b : b = Min(1 .. DirBlocks \ used)
      OBVIOUS
    <3>2. b \in DBlock \ used /\ b # 0
      BY <2>3, <3>1, LeastNatural, Numbers DEF DBlock
    <3>3. dirTable[j.at.inode].i_block[FirstHole(j.parent)] = 0
      BY <1>2, <1>5, <1>6
    <3>4. /\ used' = used \cup ({b} \ {0}) /\ data' = [data EXCEPT ![b] = Zeros] /\ UNCHANGED ext2lock
          /\ job' = [job EXCEPT ![p] = [j EXCEPT !.pc = "link", !.block = b, !.tbuf = dirTable,
                                !.parent = [dirTable[j.at.inode] EXCEPT !.i_block[FirstHole(j.parent)] = b]]]
      BY <1>1, <1>3, <2>3, <3>1, <3>2, <3>3 DEF AssignDirBlock
    <3>5. {b} \ {0} = {b}
      BY <3>2
    <3>6. /\ used' = used \cup {b}
          /\ job' = [job EXCEPT ![p] = [j EXCEPT !.pc = "link", !.block = b, !.tbuf = dirTable,
                                !.parent = [dirTable[d] EXCEPT !.i_block[k] = b]]]
      BY <1>2, <1>5, <3>4, <3>5
    <3> QED
      BY <3>2, <3>4, <3>6
  <2> QED
    BY <2>1, <2>2, <2>3
<1>8. CASE Fail(p, fault) /\ UNCHANGED <<used, data>>
  <2>1. ibitmap \subseteq ibitmap' /\ ibitmap' \subseteq Inode
    BY <1>3 DEF DInv, DTypeOK
  <2> QED
    BY <1>1, <1>3, <1>8, <2>1, FailKeeps
<1>10. ASSUME UNCHANGED <<used, data, ext2lock>>,
              job' = [job EXCEPT ![p] = [j EXCEPT !.pc = "full", !.block = 0, !.tbuf = dirTable, !.parent = dirTable[d]]]
       PROVE  DInv' /\ Grows
  <2>1. PICK n : n = [j EXCEPT !.pc = "full", !.block = 0, !.tbuf = dirTable, !.parent = dirTable[d]]
    OBVIOUS
  <2>2. job' = [job EXCEPT ![p] = n]
    BY <1>10, <2>1
  <2>3. dirTable \in Table /\ dirTable[d] \in Node
    BY DEF DInv, DTypeOK, Table
  <2>4. /\ n \in Job /\ n.pc = "full" /\ n.parent = dirTable[d] /\ n.tbuf = dirTable
        /\ n.at = j.at /\ n.rest = j.rest /\ n.fresh = j.fresh
    BY <2>1, <2>3 DEF Job, Locked, Making
  <2>5. FreshOK(n)'
    BY <1>3, <1>4, <1>10, <2>4 DEF FreshOK, Making, Entered
  <2>6. BlockOK(n)'
    <3>1. dirTable # <<>>
      <4>1. DOMAIN dirTable # {}
        BY <2>3, Numbers DEF Table
      <4> QED
        BY <4>1
    <3> QED
      BY <1>2, <1>3, <2>4, <3>1 DEF BlockOK
  <2>7. CreatorOK(n)'
    BY <1>2, <1>4, <2>4, <2>5, <2>6 DEF CreatorOK, CheckOK
  <2>8. WalkOK(n)
    BY <1>1, <2>4 DEF WalkOK
  <2>9. ext2lock = p /\ ext2lock \in Opener \cup {Nobody, Writer} /\ ibitmap \subseteq Inode /\ used \subseteq DBlock
    BY <1>1, <1>3 DEF DInv, LockHeld, Locked, Making, DTypeOK
  <2>10. n.pc \in Locked /\ \A e \in Dir : ~Linking(n, e) /\ ~Linking(job[p], e)
    BY <1>1, <1>3, <2>4 DEF Linking, Locked, Making
  <2>11. JobStep(p, n)
    BY <1>3, <1>10, <2>2, <2>4, <2>7, <2>8, <2>9, <2>10 DEF JobStep
  <2> QED
    BY <2>11, JobStepKeeps
<1>9. ASSUME NEW b \in DBlock \ used, used' = used \cup {b}, data' = [data EXCEPT ![b] = Zeros], UNCHANGED ext2lock,
             job' = [job EXCEPT ![p] = [j EXCEPT !.pc = "link", !.block = b, !.tbuf = dirTable,
                                                 !.parent = [dirTable[d] EXCEPT !.i_block[k] = b]]]
      PROVE  DInv' /\ Grows
  <2>1. PICK node : node = [dirTable[d] EXCEPT !.i_block[k] = b]
    OBVIOUS
  <2>2. dirTable \in Table /\ dirTable[d] \in Node /\ node \in Node
    <3>1. dirTable \in Table /\ dirTable[d] \in Node
      BY DEF DInv, DTypeOK, Table
    <3> QED
      BY <2>1, <3>1 DEF Node
  <2>3. PICK n : n = [j EXCEPT !.pc = "link", !.block = b, !.tbuf = dirTable, !.parent = node]
    OBVIOUS
  <2>4. job' = [job EXCEPT ![p] = n]
    BY <1>9, <2>1, <2>3
  <2>5. /\ n \in Job /\ n.pc = "link" /\ n.block = b /\ n.parent = node /\ n.tbuf = dirTable
        /\ n.at = j.at /\ n.rest = j.rest /\ n.fresh = j.fresh
    BY <2>2, <2>3 DEF Job, Locked, Making
  <2>6. \A e \in Dir, l \in BSlot : dirTable[e].i_block[l] # b
    BY <1>9, Numbers DEF DInv, Blocks
  <2>7. UNCHANGED data
    <3>1. data[b] = Zeros
      BY <2>6 DEF DInv, Blocks
    <3> QED
      BY <1>9, <3>1 DEF DInv, DTypeOK
  <2>8. FreshOK(n)'
    BY <1>3, <1>4, <2>5, <2>7 DEF FreshOK, Making, Entered
  <2>9. BlockOK(n)'
    <3>1. dirTable # <<>>
      <4>1. DOMAIN dirTable # {}
        BY <2>2, Numbers DEF Table
      <4> QED
        BY <4>1
    <3> QED
      BY <1>2, <1>3, <1>5, <1>9, <2>1, <2>5, <2>6, <3>1 DEF BlockOK
  <2>10. CreatorOK(n)'
    BY <1>2, <1>4, <2>5, <2>8, <2>9 DEF CreatorOK, CheckOK
  <2>11. WalkOK(n)
    BY <1>1, <2>5 DEF DInv, WalkOK
  <2>12. ext2lock = p /\ ext2lock \in Opener \cup {Nobody, Writer} /\ ibitmap \subseteq Inode /\ used' \subseteq DBlock
    BY <1>1, <1>3, <1>9 DEF DInv, LockHeld, Locked, Making, DTypeOK
  <2>13. n.pc \in Locked /\ \A e \in Dir : ~Linking(n, e) /\ ~Linking(job[p], e)
    BY <1>1, <1>3, <2>5 DEF Linking, Locked, Making
  <2>14. JobStep(p, n)
    BY <1>3, <1>9, <2>4, <2>5, <2>7, <2>10, <2>11, <2>12, <2>13 DEF JobStep
  <2> QED
    BY <2>14, JobStepKeeps
<1> QED
  BY <1>7, <1>8, <1>9, <1>10

-----------------------------------------------------------------------------
(* Steps that write the table or a block.                                    *)

\* p, with the lock, goes on as n
WorkStep(p, n) ==
  /\ job[p].pc \in Locked /\ n \in Job /\ job' = [job EXCEPT ![p] = n]
  /\ dirTable' \in Table /\ data' \in [DBlock -> Seq(Record)] /\ UNCHANGED <<ibitmap, used, wbuf>>
  /\ IF n.pc \in Locked THEN UNCHANGED ext2lock ELSE ext2lock' = Nobody
  /\ WalkOK(n)' /\ CreatorOK(n)'

(* It keeps the invariant if directories and entries are in order.           *)
LEMMA WorkStepKeeps ==
  ASSUME DInv, NEW p \in Opener, NEW n, WorkStep(p, n), Grows, Kinds', Shape', Blocks', Inodes', Distinct'
  PROVE  DInv'
<1>1. \A q \in Opener : job'[q] = IF q = p THEN n ELSE job[q]
  BY DEF WorkStep, DInv, DTypeOK
<1>2. DTypeOK'
  BY DEF WorkStep, DInv, DTypeOK
<1>3. LockHeld'
  <2>1. \A q \in Opener : q # p => job[q].pc \notin Locked
    BY OthersWait DEF WorkStep
  <2>2. ext2lock = p
    BY DEF WorkStep, DInv, LockHeld
  <2> QED
    BY <1>1, <2>1, <2>2, Numbers DEF WorkStep, LockHeld
<1>4. ASSUME NEW q \in Opener
      PROVE  WalkOK(job[q])' /\ CreatorOK(job[q])'
  <2>1. CASE q = p
    BY <1>1, <2>1, JobAfter DEF WorkStep
  <2>2. CASE q # p
    <3>1. PICK j \in Job : j = job[q]
      BY DEF DInv, DTypeOK
    <3>2. WalkOK(j)'
      <4>1. WalkOK(j) /\ \A d \in Dir : dirTable'[d].size \in Nat
        BY <3>1, Numbers DEF DInv, WorkStep, Table, Node
      <4> QED
        BY <4>1, WalkKept
    <3>3. CreatorOK(j)'
      <4>1. j.pc \notin Locked /\ (j.pc = "lock" => j.at.inode \in Dir /\ Len(j.rest) = 1)
        BY <2>2, <3>1, OthersWait DEF WorkStep, DInv, CreatorOK
      <4> QED
        BY <4>1, NothingHeld
    <3> QED
      BY <1>1, <2>2, <3>1, <3>2, <3>3, JobAfter
  <2> QED
    BY <2>1, <2>2
<1> QED
  BY <1>2, <1>3, <1>4 DEF DInv

\* the inode of a file is stored
FileStored(i, node) ==
  /\ i \in Inode \ Dir /\ node \in Node /\ node.kind = "reg"
  /\ dirTable' = [dirTable EXCEPT ![i] = node]
  /\ UNCHANGED <<ibitmap, used, data>>

(* Directories and entries do not change by it.                              *)
LEMMA FileStoredKeeps ==
  ASSUME DInv, NEW i, NEW node, FileStored(i, node)
  PROVE  /\ dirTable' \in Table /\ data' \in [DBlock -> Seq(Record)]
         /\ \A d \in Dir : dirTable'[d] = dirTable[d]
         /\ \A k \in Inode : dirTable'[k] = IF k = i THEN node ELSE dirTable[k]
         /\ \A k \in Inode : dirTable'[k].kind = "dir" <=> k \in Dir
         /\ dirTable'[Written].kind = "reg"
         /\ Blocks' /\ Inodes' /\ Distinct' /\ Grows
<1>1. dirTable' \in Table /\ data' \in [DBlock -> Seq(Record)]
  BY DEF FileStored, DInv, DTypeOK, Table
<1>2. \A k \in Inode : dirTable'[k] = IF k = i THEN node ELSE dirTable[k]
  BY DEF FileStored, DInv, DTypeOK, Table
<1>3. \A d \in Dir : dirTable'[d] = dirTable[d]
  BY <1>2, Numbers DEF FileStored
<1>4. /\ \A k \in Inode : dirTable'[k].kind = "dir" <=> k \in Dir
      /\ dirTable'[Written].kind = "reg"
  BY <1>2, Numbers DEF FileStored, DInv, Kinds
<1>5. Blocks'
  BY <1>3 DEF FileStored, DInv, Blocks
<1>6. Inodes'
  <2>1. \A k \in Inode : dirTable[k].kind # "none" => dirTable'[k].kind # "none"
    BY <1>2 DEF FileStored
  <2>2. \A b \in DBlock : \A r \in DOMAIN data[b] : data[b][r].inode \in ibitmap => data[b][r].inode \in Inode
    BY DEF DInv, DTypeOK
  <2> QED
    BY <2>1, <2>2 DEF FileStored, DInv, Inodes
<1>7. Distinct'
  BY <1>3 DEF FileStored, DInv, Distinct, Entered
<1>8. Grows
  BY <1>3, DirForm DEF FileStored, Grows
<1> QED
  BY <1>1, <1>2, <1>3, <1>4, <1>5, <1>6, <1>7, <1>8

(* InitInode stores the new inode.                                           *)
LEMMA InitInodeKeeps ==
  ASSUME DInv, NEW p \in Opener, NEW fault, InitInode(p, fault), harm' = {}
  PROVE  DInv' /\ Grows
<1>1. PICK j \in Job : j = Met(job[p], fault) /\ j.pc = job[p].pc /\ j.at = job[p].at /\ WalkOK(j) /\ CreatorOK(j)
                      /\ j.tbuf = job[p].tbuf /\ j.fresh = job[p].fresh
  BY MetJob
<1>2. PICK d \in Inode : d = j.at.inode
  BY DEF Job, Handle
<1>3. /\ j.pc = "init" /\ StoreInode(j.tbuf, j.fresh, RegFile, fault)
      /\ job' = [job EXCEPT ![p] = [j EXCEPT !.pc = "assign", !.tbuf = <<>>]]
      /\ UNCHANGED <<ibitmap, used, data, ext2lock, wbuf>>
  BY <1>1 DEF InitInode
<1>4. /\ d \in Dir /\ Len(j.rest) = 1 /\ FreshOK(j) /\ j.parent = dirTable[d] /\ j.tbuf # <<>>
      /\ j.fresh \in Inode \ {Root, Sub, Written}
  <2>1. FreshOK(j) /\ BlockOK(j) /\ d \in Dir /\ Len(j.rest) = 1
    BY <1>1, <1>2, <1>3 DEF DInv, CreatorOK, Locked, Making
  <2>2. j.fresh \in ibitmap \ {Root, Sub, Written} /\ ibitmap \subseteq Inode
    BY <1>3, <2>1 DEF DInv, DTypeOK, FreshOK, Making
  <2> QED
    BY <1>2, <1>3, <2>1, <2>2 DEF BlockOK
<1>5. FileStored(j.fresh, RegFile)
  <2>1. RegFile \in Node /\ RegFile.kind = "reg"
    BY Numbers DEF RegFile, NoFile, Node, BSlot
  <2>2. j.tbuf \in Table /\ dirTable \in Table
    BY <1>4 DEF Job, DInv, DTypeOK
  <2>3. dirTable' = [dirTable EXCEPT ![j.fresh] = RegFile]
    BY <1>3, <1>4, <2>1, <2>2, StoreExact
  <2> QED
    BY <1>3, <1>4, <2>1, <2>3 DEF FileStored, Dir
<1>6. PICK i : i = j.fresh
  OBVIOUS
<1>7. /\ dirTable' \in Table /\ data' \in [DBlock -> Seq(Record)]
      /\ \A e \in Dir : dirTable'[e] = dirTable[e]
      /\ dirTable'[i] = RegFile
      /\ \A k \in Inode : dirTable'[k].kind = "dir" <=> k \in Dir
      /\ dirTable'[Written].kind = "reg"
      /\ Blocks' /\ Inodes' /\ Distinct' /\ Grows
  BY <1>4, <1>5, <1>6, FileStoredKeeps
<1>8. PICK n : n = [j EXCEPT !.pc = "assign", !.tbuf = <<>>]
  OBVIOUS
<1>9. /\ n \in Job /\ n.pc = "assign" /\ n.at = j.at /\ n.rest = j.rest /\ n.fresh = i /\ n.parent = j.parent
      /\ job' = [job EXCEPT ![p] = n]
  <2>1. job' = [job EXCEPT ![p] = n]
    BY <1>3, <1>8
  <2> QED
    BY <1>6, <1>8, <2>1 DEF Job, Locked, Making
<1>10. FreshOK(n)'
  <2>1. \A k \in BSlot, r \in Nat : Entered(d, k, r, Head(j.rest))' <=> Entered(d, k, r, Head(j.rest))
    BY <1>3, <1>4, <1>7 DEF Entered
  <2>2. dirTable'[i].kind = "reg"
    BY <1>7 DEF RegFile, NoFile
  <2> QED
    BY <1>2, <1>3, <1>4, <1>6, <1>9, <2>1, <2>2 DEF FreshOK, Making
<1>11. BlockOK(n)'
  BY <1>2, <1>4, <1>7, <1>9 DEF BlockOK
<1>12. CreatorOK(n)'
  BY <1>2, <1>4, <1>9, <1>10, <1>11 DEF CreatorOK, CheckOK
<1>13. WalkOK(n)'
  <2>1. WalkOK(n) /\ \A e \in Dir : dirTable'[e].size \in Nat
    BY <1>1, <1>7, <1>9, DirForm DEF DInv, WalkOK
  <2> QED
    BY <1>7, <1>9, <2>1, WalkKept
<1>14. Kinds'
  BY <1>3, <1>7 DEF DInv, Kinds
<1>15. Shape'
  <2>1. \A q \in Opener, e \in Dir : Linking(job'[q], e) <=> Linking(job[q], e)
    BY <1>1, <1>3, <1>9 DEF Linking, DInv, DTypeOK
  <2> QED
    BY <1>7, <2>1 DEF DInv, Shape
<1>16. WorkStep(p, n)
  BY <1>1, <1>3, <1>7, <1>9, <1>12, <1>13 DEF WorkStep, Locked, Making
<1> QED
  BY <1>7, <1>14, <1>15, <1>16, WorkStepKeeps

(* Names stay distinct if none is entered.                                   *)
LEMMA DistinctKept ==
  ASSUME DInv, \A e \in Dir, k \in BSlot : \A r, x : Entered(e, k, r, x)' <=> Entered(e, k, r, x)
  PROVE  Distinct'
<1> SUFFICES ASSUME NEW d \in Dir, NEW k \in BSlot, NEW l \in BSlot, NEW r \in Nat, NEW s \in Nat, NEW n \in Name,
                    Entered(d, k, r, n)', Entered(d, l, s, n)'
             PROVE  k = l /\ r = s
  BY DEF Distinct
<1>1. Entered(d, k, r, n) /\ Entered(d, l, s, n)
  OBVIOUS
<1> QED
  BY <1>1 DEF DInv, Distinct

(* Where the jobs stand while only a file's inode or nothing changes.        *)
LEMMA JobsKept ==
  ASSUME DInv, Grows, job' = job, ibitmap' = ibitmap, used' = used, data' = data,
         \A d \in Dir : dirTable'[d] = dirTable[d],
         \A i \in Inode : dirTable[i].kind = "reg" => dirTable'[i].kind = "reg"
  PROVE  /\ Shape' /\ \A q \in Opener : WalkOK(job[q])' /\ CreatorOK(job[q])'
<1>1. Shape'
  BY DEF DInv, Shape
<1>2. ASSUME NEW q \in Opener
      PROVE  WalkOK(job[q])' /\ CreatorOK(job[q])'
  <2>1. PICK j \in Job : j = job[q]
    BY DEF DInv, DTypeOK
  <2>2. WalkOK(j)'
    <3>1. WalkOK(j) /\ \A d \in Dir : dirTable'[d].size \in Nat
      BY <2>1, DirForm DEF DInv
    <3> QED
      BY <3>1, WalkKept
  <2>3. CreatorOK(j)
    BY <2>1 DEF DInv
  <2>4. CASE j.pc \notin Locked
    BY <2>1, <2>2, <2>3, <2>4, NothingHeld, JobAfter DEF CreatorOK
  <2>5. CASE j.pc \in Locked
    <3>1. j.at.inode \in Dir /\ Len(j.rest) = 1 /\ CheckOK(j) /\ FreshOK(j) /\ BlockOK(j)
      BY <2>3, <2>5 DEF CreatorOK
    <3>2. \A k, r, n : Entered(j.at.inode, k, r, n)' <=> Entered(j.at.inode, k, r, n)
      BY <3>1 DEF Entered
    <3>3. CheckOK(j)'
      BY <3>1, <3>2 DEF CheckOK
    <3>4. FreshOK(j)'
      <4>1. j.pc \in Making => j.fresh \in Inode
        BY <3>1 DEF FreshOK, DInv, DTypeOK
      <4> QED
        BY <3>1, <3>2, <4>1 DEF FreshOK
    <3>5. BlockOK(j)'
      BY <3>1 DEF BlockOK
    <3>6. CreatorOK(j)'
      BY <3>1, <3>3, <3>4, <3>5 DEF CreatorOK
    <3> QED
      BY <2>1, <2>2, <3>6, JobAfter
  <2> QED
    BY <2>4, <2>5
<1> QED
  BY <1>1, <1>2

(* WriterStore stores the inode of the file that is written.                 *)
LEMMA WriterStoreKeeps ==
  ASSUME DInv, WriterStore, harm' = {}
  PROVE  DInv' /\ Grows
<1>1. wbuf \in Table /\ wbuf[Written] \in Node /\ wbuf[Written].kind = "reg" /\ dirTable \in Table
  BY Numbers DEF WriterStore, DInv, DTypeOK, Kinds, Table
<1>2. PICK node : node = [wbuf[Written] EXCEPT !.size = @ + 1]
  OBVIOUS
<1>3. node \in Node /\ node.kind = "reg"
  BY <1>1, <1>2 DEF Node
<1>4. dirTable' = [dirTable EXCEPT ![Written] = node]
  BY <1>1, <1>2, <1>3, Numbers, StoreExact DEF WriterStore
<1>5. FileStored(Written, node)
  BY <1>3, <1>4, Numbers DEF WriterStore, FileStored
<1>6. /\ dirTable' \in Table
      /\ \A d \in Dir : dirTable'[d] = dirTable[d]
      /\ \A k \in Inode : dirTable'[k] = IF k = Written THEN node ELSE dirTable[k]
      /\ \A k \in Inode : dirTable'[k].kind = "dir" <=> k \in Dir
      /\ dirTable'[Written].kind = "reg"
      /\ Blocks' /\ Inodes' /\ Distinct' /\ Grows
  BY <1>5, FileStoredKeeps
<1>7. /\ job' = job /\ ibitmap' = ibitmap /\ used' = used /\ data' = data /\ ext2lock' = ext2lock /\ wbuf' = <<>>
  BY DEF WriterStore
<1>8. Shape' /\ \A q \in Opener : WalkOK(job[q])' /\ CreatorOK(job[q])'
  BY <1>3, <1>6, <1>7, JobsKept
<1>9. DTypeOK' /\ LockHeld' /\ Kinds'
  BY <1>6, <1>7 DEF DInv, DTypeOK, LockHeld, Kinds
<1> QED
  BY <1>6, <1>8, <1>9 DEF DInv

(* WriterRead reads the table, WriterKeepsLock takes the lock from nobody,   *)
(* and a stutter changes nothing.                                            *)
LEMMA QuietKeeps ==
  ASSUME DInv, WriterRead \/ WriterKeepsLock \/ UNCHANGED dirVars
  PROVE  DInv' /\ Grows
<1>1. /\ UNCHANGED <<dirTable, ibitmap, used, data, job>> /\ wbuf' \in {wbuf, dirTable}
      /\ ext2lock' = ext2lock \/ (ext2lock = Nobody /\ ext2lock' = Writer)
  BY DEF WriterRead, WriterKeepsLock, dirVars, dirVolume
<1>2. Grows
  BY <1>1, DirForm DEF Grows
<1>3. Shape' /\ \A q \in Opener : WalkOK(job[q])' /\ CreatorOK(job[q])'
  BY <1>1, <1>2, JobsKept
<1>4. DTypeOK' /\ LockHeld' /\ Kinds'
  BY <1>1, Numbers DEF DInv, DTypeOK, LockHeld, Kinds
<1>5. Blocks' /\ Inodes' /\ Distinct'
  BY <1>1 DEF DInv, Blocks, Inodes, Distinct, Entered
<1> QED
  BY <1>2, <1>3, <1>4, <1>5 DEF DInv

(* Grow makes the block behind the last one visible.                         *)
LEMMA GrowKeeps ==
  ASSUME DInv, NEW p \in Opener, NEW fault, Grow(p, fault), harm' = {}
  PROVE  DInv' /\ Grows
<1>1. PICK j \in Job : j = Met(job[p], fault) /\ j.pc = job[p].pc /\ j.at = job[p].at /\ CreatorOK(j)
  BY MetJob
<1>2. PICK d \in Inode : d = j.at.inode
  BY DEF Job, Handle
<1>3. PICK node : node = [j.parent EXCEPT !.size = @ + 1]
  OBVIOUS
<1>4. PICK i : i = [Idle EXCEPT !.path = j.path, !.creat = j.creat, !.err = j.err]
  OBVIOUS
<1>5. PICK n : n = Reduce(i, "open", j.want)
  OBVIOUS
<1>6. /\ j.pc = "grow" /\ ext2lock' = Nobody /\ StoreInode(j.tbuf, d, node, fault)
      /\ job' = [job EXCEPT ![p] = n] /\ UNCHANGED <<ibitmap, used, data, wbuf>>
  BY <1>1, <1>2, <1>3, <1>4, <1>5 DEF Grow
<1>7. n \in Job /\ n.pc = "open" /\ n.at.entry = 1
  <2>1. j.path \in Seq(Name) /\ j.creat \in BOOLEAN /\ j.want \in Seq(Name) /\ j.err \in BOOLEAN
    BY DEF Job
  <2>2. i \in Job
    BY <1>4, <2>1, IdleForm
  <2> QED
    BY <1>5, <2>1, <2>2, ReduceForm
<1>8. /\ d \in Dir /\ j.parent = dirTable[d] /\ j.tbuf # <<>>
      /\ dirTable[d].size + 1 \in BSlot /\ dirTable[d].i_block[dirTable[d].size + 1] # 0
  BY <1>1, <1>2, <1>6 DEF DInv, CreatorOK, BlockOK, Locked, Making
<1>9. /\ node \in Node /\ node.kind = "dir" /\ node.size = dirTable[d].size + 1
      /\ node.i_block = dirTable[d].i_block
  <2>1. dirTable[d] \in Node /\ dirTable[d].kind = "dir"
    BY <1>8, DirForm
  <2> QED
    BY <1>3, <1>8, <2>1 DEF Node
<1>10. dirTable' = [dirTable EXCEPT ![d] = node] /\ dirTable' \in Table
  <2>1. j.tbuf \in Table /\ dirTable \in Table
    BY <1>8 DEF Job, DInv, DTypeOK
  <2> QED
    BY <1>6, <1>9, <2>1, StoreExact
<1>11. \A k \in Inode : /\ dirTable'[k].kind = dirTable[k].kind /\ dirTable'[k].i_block = dirTable[k].i_block
                        /\ dirTable'[k].size = IF k = d THEN dirTable[d].size + 1 ELSE dirTable[k].size
  <2>1. \A k \in Inode : dirTable'[k] = IF k = d THEN node ELSE dirTable[k]
    BY <1>10 DEF DInv, DTypeOK, Table
  <2> QED
    BY <1>8, <1>9, <2>1, DirForm
<1>12. Kinds'
  BY <1>6, <1>11, Numbers DEF DInv, Kinds
<1>13. Shape'
  <2>1. \A q \in Opener : \A e \in Dir : /\ ~Linking(job'[q], e)
                                         /\ Linking(job[q], e) <=> q = p /\ e = d
    <3>1. \A q \in Opener : q # p => job[q].pc \notin Locked
      BY <1>1, <1>6, OthersWait DEF Locked, Making
    <3> QED
      BY <1>1, <1>2, <1>6, <1>7, <3>1 DEF Linking, Locked, Making, DInv, DTypeOK
  <2>2. ASSUME NEW e \in Dir
        PROVE  /\ dirTable'[e].size \in BSlot
               /\ \A k \in BSlot : dirTable'[e].i_block[k] # 0 <=> k <= dirTable'[e].size
    <3>1. PICK m \in Nat : m = dirTable[e].size /\ m \in BSlot
      BY DirForm DEF DInv, Shape
    <3>2. \A k \in BSlot : dirTable[e].i_block[k] # 0 <=> k <= m \/ (k = m + 1 /\ e = d)
      BY <2>1, <3>1 DEF DInv, Shape
    <3>3. dirTable'[e].i_block = dirTable[e].i_block /\ dirTable'[e].size = IF e = d THEN m + 1 ELSE m
      BY <1>11, <3>1, Numbers
    <3> QED
      BY <1>8, <3>1, <3>2, <3>3, Numbers
  <2> QED
    BY <2>1, <2>2 DEF Shape
<1>14. Blocks' /\ Inodes' /\ Distinct'
  <2>1. Blocks'
    BY <1>6, <1>11, Numbers DEF DInv, Blocks
  <2>2. Inodes'
    <3>1. \A b \in DBlock : \A r \in DOMAIN data[b] : data[b][r].inode \in ibitmap => data[b][r].inode \in Inode
      BY DEF DInv, DTypeOK
    <3> QED
      BY <1>6, <1>11, <3>1 DEF DInv, Inodes
  <2>3. Distinct'
    <3>1. \A e \in Dir : \A k, r, x : Entered(e, k, r, x)' <=> Entered(e, k, r, x)
      BY <1>6, <1>11, Numbers DEF Entered
    <3> QED
      BY <3>1, DistinctKept
  <2> QED
    BY <2>1, <2>2, <2>3
<1>15. Grows
  BY <1>6, <1>11, Numbers, DirForm DEF Grows
<1>16. WalkOK(n)' /\ CreatorOK(n)' /\ n.pc \notin Locked
  <2>1. n.pc \notin Locked /\ n.pc # "lock"
    BY <1>7 DEF Locked, Making
  <2> QED
    BY <1>7, <2>1, NothingHeld DEF WalkOK
<1>17. WorkStep(p, n)
  <2>1. job[p].pc \in Locked /\ data' \in [DBlock -> Seq(Record)]
    BY <1>1, <1>6 DEF Locked, Making, DInv, DTypeOK
  <2> QED
    BY <1>6, <1>7, <1>10, <1>16, <2>1 DEF WorkStep
<1> QED
  BY <1>12, <1>13, <1>14, <1>15, <1>17, WorkStepKeeps

(* LinkBlock puts the new, empty block behind the last one.                  *)
LEMMA LinkBlockKeeps ==
  ASSUME DInv, NEW p \in Opener, NEW fault, LinkBlock(p, fault), harm' = {}
  PROVE  DInv' /\ Grows
<1>1. PICK j \in Job : j = Met(job[p], fault) /\ j.pc = job[p].pc /\ j.at = job[p].at /\ WalkOK(j) /\ CreatorOK(j)
                      /\ j.tbuf = job[p].tbuf /\ j.parent = job[p].parent
  BY MetJob
<1>2. PICK d \in Inode : d = j.at.inode
  BY DEF Job, Handle
<1>3. /\ j.pc = "link" /\ StoreInode(j.tbuf, d, j.parent, fault)
      /\ job' = [job EXCEPT ![p] = [j EXCEPT !.pc = "entry", !.tbuf = <<>>]]
      /\ UNCHANGED <<ibitmap, used, data, ext2lock, wbuf>>
  BY <1>1, <1>2 DEF LinkBlock
<1>4. PICK b, node : b = j.block /\ node = j.parent
  OBVIOUS
<1>5. d \in Dir /\ Len(j.rest) = 1 /\ FreshOK(j) /\ BlockOK(j)
  BY <1>1, <1>2, <1>3 DEF DInv, CreatorOK, Locked, Making
<1>6. PICK m \in Nat : m = dirTable[d].size
  BY <1>5, DirForm
<1>7. /\ node = [dirTable[d] EXCEPT !.i_block[m + 1] = b]
      /\ b \in used /\ b \in DBlock /\ b # 0 /\ m + 1 \in BSlot /\ j.tbuf # <<>>
      /\ \A e \in Dir, k \in BSlot : dirTable[e].i_block[k] # b
  <2>1. used \subseteq DBlock
    BY DEF DInv, DTypeOK
  <2> QED
    BY <1>2, <1>3, <1>4, <1>5, <1>6, <2>1, Numbers DEF BlockOK
<1>8. /\ node \in Node /\ node.kind = "dir" /\ node.size = m
      /\ \A k \in BSlot : node.i_block[k] = IF k = m + 1 THEN b ELSE dirTable[d].i_block[k]
  <2>1. dirTable[d] \in Node /\ dirTable[d].kind = "dir"
    BY <1>5, DirForm
  <2>2. node \in Node
    BY <1>4 DEF Job
  <2> QED
    BY <1>6, <1>7, <2>1, <2>2 DEF Node
<1>9. dirTable' = [dirTable EXCEPT ![d] = node] /\ dirTable' \in Table
  <2>1. j.tbuf \in Table /\ dirTable \in Table
    BY <1>7 DEF Job, DInv, DTypeOK
  <2> QED
    BY <1>3, <1>4, <1>8, <2>1, StoreExact
<1>10. \A k \in Inode : /\ dirTable'[k] = IF k = d THEN node ELSE dirTable[k]
                        /\ dirTable'[k].kind = dirTable[k].kind /\ dirTable'[k].size = dirTable[k].size
  <2>1. \A k \in Inode : dirTable'[k] = IF k = d THEN node ELSE dirTable[k]
    BY <1>9 DEF DInv, DTypeOK, Table
  <2> QED
    BY <1>5, <1>6, <1>8, <2>1, DirForm
<1>11. \A e \in Dir, k \in BSlot :
         dirTable'[e].i_block[k] = IF e = d /\ k = m + 1 THEN b ELSE dirTable[e].i_block[k]
  BY <1>8, <1>10, Numbers
<1>12. data[b] = Zeros /\ dirTable[d].i_block[m + 1] = 0
  <2>1. data[b] = Zeros
    BY <1>7 DEF DInv, Blocks
  <2>2. job[p].pc \in Locked \ {"entry", "grow"}
    BY <1>1, <1>3 DEF Locked, Making
  <2>3. ~(m + 1 <= m)
    OBVIOUS
  <2> QED
    BY <1>5, <1>6, <1>7, <2>1, <2>2, <2>3, NoneLinked
<1>13. PICK n : n = [j EXCEPT !.pc = "entry", !.tbuf = <<>>]
  OBVIOUS
<1>14. /\ n \in Job /\ n.pc = "entry" /\ n.at = j.at /\ n.rest = j.rest /\ n.fresh = j.fresh /\ n.parent = node /\ n.block = b
       /\ job' = [job EXCEPT ![p] = n]
  <2>1. job' = [job EXCEPT ![p] = n]
    BY <1>3, <1>13
  <2> QED
    BY <1>4, <1>13, <2>1 DEF Job, Locked, Making
<1>15. Kinds'
  BY <1>3, <1>10, Numbers DEF DInv, Kinds
<1>16. Shape'
  <2>1. \A q \in Opener : \A e \in Dir : /\ ~Linking(job[q], e)
                                         /\ Linking(job'[q], e) <=> q = p /\ e = d
    <3>1. \A q \in Opener : q # p => job[q].pc \notin Locked
      BY <1>1, <1>3, OthersWait DEF Locked, Making
    <3>2. \A q \in Opener : job'[q] = IF q = p THEN n ELSE job[q]
      BY <1>14 DEF DInv, DTypeOK
    <3> QED
      BY <1>1, <1>2, <1>3, <1>14, <3>1, <3>2 DEF Linking, Locked, Making
  <2>2. ASSUME NEW e \in Dir
        PROVE  /\ dirTable'[e].size \in BSlot
               /\ \A k \in BSlot : dirTable'[e].i_block[k] # 0 <=>
                    k <= dirTable'[e].size \/ (k = dirTable'[e].size + 1 /\ e = d)
    <3>1. PICK t \in Nat : t = dirTable[e].size /\ t \in BSlot
      BY DirForm DEF DInv, Shape
    <3>2. \A k \in BSlot : dirTable[e].i_block[k] # 0 <=> k <= t
      BY <2>1, <3>1 DEF DInv, Shape
    <3>3. dirTable'[e].size = t /\ (e = d => t = m)
      BY <1>6, <1>10, <3>1, Numbers
    <3> QED
      BY <1>7, <1>11, <3>1, <3>2, <3>3, Numbers
  <2> QED
    BY <2>1, <2>2 DEF Shape
<1>17. Blocks'
  <2>1. \A e, g \in Dir, k, l \in BSlot : dirTable'[e].i_block[k] # 0 =>
          /\ dirTable'[e].i_block[k] \in used
          /\ dirTable'[e].i_block[k] = dirTable'[g].i_block[l] => e = g /\ k = l
    BY <1>7, <1>11 DEF DInv, Blocks
  <2>2. ASSUME NEW c \in DBlock, data[c] # Zeros
        PROVE  \E e \in Dir, k \in BSlot : dirTable'[e].i_block[k] = c
    <3>1. PICK e \in Dir, k \in BSlot : dirTable[e].i_block[k] = c
      BY <2>2 DEF DInv, Blocks
    <3>2. ~(e = d /\ k = m + 1)
      BY <1>12, <3>1, Numbers
    <3> QED
      BY <1>11, <3>1, <3>2
  <2> QED
    BY <1>3, <2>1, <2>2 DEF Blocks
<1>18. Inodes'
  <2>1. \A c \in DBlock : \A r \in DOMAIN data[c] : data[c][r].inode \in ibitmap => data[c][r].inode \in Inode
    BY DEF DInv, DTypeOK
  <2> QED
    BY <1>3, <1>10, <2>1 DEF DInv, Inodes
<1>19. \A e \in Dir, k \in BSlot : \A r, x : Entered(e, k, r, x)' <=> Entered(e, k, r, x)
  BY <1>3, <1>11, <1>12 DEF Entered, Zeros
<1>20. Distinct'
  BY <1>19, DistinctKept
<1>21. Grows
  <2>1. \A e \in Dir : \A k \in 1 .. dirTable[e].size : ~(e = d /\ k = m + 1) /\ k \in BSlot
    BY <1>6, DirForm
  <2> QED
    BY <1>3, <1>10, <1>11, <2>1, Numbers, DirForm DEF Grows
<1>22. FreshOK(n)'
  <2>1. j.fresh \in Inode /\ dirTable'[j.fresh].kind = dirTable[j.fresh].kind
    BY <1>3, <1>5, <1>10 DEF FreshOK, Making, DInv, DTypeOK
  <2> QED
    BY <1>2, <1>3, <1>5, <1>14, <1>19, <2>1 DEF FreshOK, Making
<1>23. BlockOK(n)'
  <2>1. dirTable'[d] = node /\ node.i_block[m + 1] = b
    BY <1>7, <1>8, <1>10
  <2> QED
    BY <1>2, <1>3, <1>7, <1>8, <1>12, <1>14, <2>1 DEF BlockOK
<1>24. CreatorOK(n)'
  BY <1>2, <1>5, <1>14, <1>22, <1>23 DEF CreatorOK, CheckOK
<1>25. WalkOK(n)'
  <2>1. WalkOK(n) /\ \A e \in Dir : dirTable'[e].size \in Nat
    BY <1>1, <1>10, <1>14, DirForm DEF DInv, WalkOK
  <2> QED
    BY <1>14, <1>21, <2>1, WalkKept
<1>26. WorkStep(p, n)
  <2>1. job[p].pc \in Locked /\ n.pc \in Locked /\ data' \in [DBlock -> Seq(Record)]
    BY <1>1, <1>3, <1>14 DEF Locked, Making, DInv, DTypeOK
  <2> QED
    BY <1>3, <1>9, <1>14, <1>24, <1>25, <2>1 DEF WorkStep
<1> QED
  BY <1>15, <1>16, <1>17, <1>18, <1>20, <1>21, <1>26, WorkStepKeeps

(* LinkNothing stores the directory's inode as it was.                       *)
LEMMA LinkNothingKeeps ==
  ASSUME DInv, NEW p \in Opener, NEW fault, LinkNothing(p, fault), harm' = {}
  PROVE  DInv' /\ Grows
<1>1. PICK j \in Job : j = job[p]
  BY DEF DInv, DTypeOK
<1>2. PICK d \in Inode : d = j.at.inode
  BY DEF Job, Handle
<1>3. j.pc = "full" /\ StoreInode(j.tbuf, d, j.parent, fault) /\ UNCHANGED <<ibitmap, used, data, wbuf>>
  BY <1>1, <1>2 DEF LinkNothing
<1>4. j.parent = dirTable[d] /\ j.tbuf # <<>>
  BY <1>1, <1>2, <1>3 DEF DInv, CreatorOK, BlockOK
<1>5. j.tbuf \in Table /\ dirTable \in Table /\ j.parent \in Node
  BY <1>4 DEF Job, DInv, DTypeOK
<1>6. dirTable' = [dirTable EXCEPT ![d] = dirTable[d]]
  BY <1>3, <1>4, <1>5, StoreExact
<1>7. dirTable' = dirTable
  BY <1>5, <1>6 DEF Table
<1>8. ibitmap \subseteq ibitmap' /\ ibitmap' \subseteq Inode
  BY <1>3 DEF DInv, DTypeOK
<1> QED
  BY <1>1, <1>3, <1>7, <1>8, FailKeeps DEF LinkNothing

(* What WriteEntry does to the entries, with the name written.               *)
LEMMA WriteEntryKeeps ==
  ASSUME DInv, NEW p \in Opener, NEW fault, WriteEntry(p, fault)
  PROVE  DInv' /\ Grows
<1>1. PICK j \in Job : j = Met(job[p], fault) /\ j.pc = job[p].pc /\ j.at = job[p].at /\ WalkOK(j) /\ CreatorOK(j)
  BY MetJob
<1>2. PICK d \in Inode : d = j.at.inode
  BY DEF Job, Handle
<1>3. PICK b, i, x : b = j.block /\ i = j.fresh /\ x = Head(j.rest)
  OBVIOUS
<1>4. /\ j.pc = "entry" /\ job' = [job EXCEPT ![p] = [j EXCEPT !.pc = "grow", !.tbuf = dirTable]]
      /\ data' = IF fault # "none" THEN data ELSE [data EXCEPT ![b] = <<Entry(x, i)>>]
      /\ UNCHANGED <<dirTable, ibitmap, used, ext2lock, wbuf>>
  BY <1>1, <1>3 DEF WriteEntry
<1>5. d \in Dir /\ Len(j.rest) = 1 /\ FreshOK(j) /\ BlockOK(j)
  BY <1>1, <1>2, <1>4 DEF DInv, CreatorOK, Locked, Making
<1>6. PICK m \in BSlot : m = dirTable[d].size + 1
  BY <1>2, <1>4, <1>5 DEF BlockOK
<1>7. /\ b \in DBlock /\ dirTable[d].i_block[m] = b /\ b # 0 /\ data[b] = Zeros /\ j.parent = dirTable[d]
      /\ i \in ibitmap /\ i \in Inode /\ i # 0 /\ dirTable[i].kind = "reg" /\ x \in Name
      /\ \A c \in DBlock : \A r \in DOMAIN data[c] : data[c][r].inode # i
      /\ \A k \in BSlot, r \in Nat : ~Entered(d, k, r, x)
  <2>1. b \in DBlock \cup {0} /\ ibitmap \subseteq Inode /\ j.rest \in Seq(Name)
    BY <1>3 DEF Job, DInv, DTypeOK
  <2>2. j.rest # <<>>
    <3>1. Len(<<>>) = 0 /\ Len(j.rest) # 0
      BY <1>5
    <3> QED
      BY <3>1, Zenon
  <2>3. x \in Name
    BY <1>3, <2>1, <2>2
  <2>4. dirTable[d].i_block[m] = b /\ b # 0 /\ data[b] = Zeros /\ j.parent = dirTable[d]
    BY <1>2, <1>3, <1>4, <1>5, <1>6 DEF BlockOK
  <2>5. /\ i \in ibitmap /\ dirTable[i].kind = "reg"
        /\ \A c \in DBlock : \A r \in DOMAIN data[c] : data[c][r].inode # i
        /\ \A k \in BSlot, r \in Nat : ~Entered(d, k, r, x)
    BY <1>2, <1>3, <1>4, <1>5 DEF FreshOK, Making
  <2> QED
    BY <2>1, <2>3, <2>4, <2>5, Numbers
<1>8. PICK n : n = [j EXCEPT !.pc = "grow", !.tbuf = dirTable]
  OBVIOUS
<1>9. /\ n \in Job /\ n.pc = "grow" /\ n.at = j.at /\ n.rest = j.rest /\ n.fresh = i /\ n.parent = j.parent /\ n.block = b
      /\ n.tbuf = dirTable /\ job' = [job EXCEPT ![p] = n]
  <2>1. job' = [job EXCEPT ![p] = n]
    BY <1>4, <1>8
  <2>2. dirTable \in Table
    BY DEF DInv, DTypeOK
  <2> QED
    BY <1>3, <1>8, <2>1, <2>2 DEF Job, Locked, Making
<1>10. BlockOK(n)'
  <2>1. dirTable # <<>>
    <3>1. DOMAIN dirTable # {}
      BY Numbers DEF DInv, DTypeOK, Table
    <3> QED
      BY <3>1
  <2> QED
    BY <1>2, <1>4, <1>6, <1>7, <1>9, <2>1 DEF BlockOK
<1>11. \A q \in Opener : \A e \in Dir : Linking(job'[q], e) <=> Linking(job[q], e)
  <2>1. \A q \in Opener : job'[q] = IF q = p THEN n ELSE job[q]
    BY <1>9 DEF DInv, DTypeOK
  <2>2. job[p].pc = "entry" /\ n.pc = "grow" /\ n.at = job[p].at
    BY <1>1, <1>4, <1>9
  <2> QED
    BY <2>1, <2>2 DEF Linking
<1>12. n.pc \in Locked /\ job[p].pc \in Locked /\ WalkOK(n)
  BY <1>1, <1>4, <1>9 DEF Locked, Making, DInv, WalkOK
<1>13. Kinds' /\ Shape'
  BY <1>4, <1>11 DEF DInv, Kinds, Shape
<1>14. data' \in [DBlock -> Seq(Record)]
  <2>1. Entry(x, i) \in Record
    BY <1>7 DEF Entry, Record
  <2>2. <<Entry(x, i)>> \in Seq(Record)
    BY <2>1
  <2> QED
    BY <1>4, <1>7, <2>2 DEF DInv, DTypeOK
<1>15. \A c \in DBlock : \A r \in DOMAIN data'[c] :
         \/ r \in DOMAIN data[c] /\ data'[c][r] = data[c][r]
         \/ c = b /\ r = 1 /\ data'[c][r].inode = i /\ data'[c][r].name = x
  <2> SUFFICES ASSUME NEW c \in DBlock, NEW r \in DOMAIN data'[c]
               PROVE  \/ r \in DOMAIN data[c] /\ data'[c][r] = data[c][r]
                      \/ c = b /\ r = 1 /\ data'[c][r].inode = i /\ data'[c][r].name = x
    OBVIOUS
  <2>1. CASE fault # "none" \/ c # b
    BY <1>4, <2>1 DEF DInv, DTypeOK
  <2>2. CASE fault = "none" /\ c = b
    <3>1. data'[c] = <<Entry(x, i)>>
      BY <1>4, <1>7, <2>2 DEF DInv, DTypeOK
    <3>2. r = 1 /\ data'[c][1] = Entry(x, i)
      BY <3>1
    <3> QED
      BY <2>2, <3>2 DEF Entry
  <2> QED
    BY <2>1, <2>2
<1>16. Blocks'
  <2>1. \A c \in DBlock : data'[c] # Zeros => data[c] # Zeros \/ c = b
    BY <1>4 DEF DInv, DTypeOK
  <2> QED
    <3>1. Blocks /\ m \in BSlot
      BY DEF DInv
    <3>2. \A c \in DBlock : data'[c] # Zeros => \E e \in Dir, k \in BSlot : dirTable[e].i_block[k] = c
      BY <1>5, <1>7, <2>1, <3>1 DEF Blocks
    <3> QED
      BY <1>4, <3>1, <3>2 DEF Blocks
<1>17. Inodes'
  <2> SUFFICES ASSUME NEW c \in DBlock, NEW e \in DBlock, NEW r \in DOMAIN data'[c], data'[c][r].inode # 0
               PROVE  /\ data'[c][r].inode \in ibitmap /\ dirTable[data'[c][r].inode].kind # "none"
                      /\ \A s \in DOMAIN data'[e] : data'[c][r].inode = data'[e][s].inode => c = e /\ r = s
    BY <1>4 DEF Inodes
  <2>1. CASE r \in DOMAIN data[c] /\ data'[c][r] = data[c][r]
    <3>1. data[c][r].inode \in ibitmap /\ dirTable[data[c][r].inode].kind # "none"
      BY <2>1 DEF DInv, Inodes
    <3>2. ASSUME NEW s \in DOMAIN data'[e], data'[c][r].inode = data'[e][s].inode
          PROVE  c = e /\ r = s
      <4>1. s \in DOMAIN data[e] /\ data'[e][s] = data[e][s]
        BY <1>7, <1>15, <2>1, <3>2
      <4> QED
        BY <2>1, <3>2, <4>1 DEF DInv, Inodes
    <3> QED
      BY <2>1, <3>1, <3>2
  <2>2. CASE c = b /\ r = 1 /\ data'[c][r].inode = i
    <3>1. ASSUME NEW s \in DOMAIN data'[e], data'[c][r].inode = data'[e][s].inode
          PROVE  c = e /\ r = s
      BY <1>7, <1>15, <2>2, <3>1
    <3> QED
      BY <1>7, <2>2, <3>1
  <2> QED
    BY <1>15, <2>1, <2>2
<1>18. \A e \in Dir, k \in BSlot : \A r, y : Entered(e, k, r, y)' => Entered(e, k, r, y) \/ (e = d /\ k = m /\ r = 1 /\ y = x)
  <2> SUFFICES ASSUME NEW e \in Dir, NEW k \in BSlot, NEW r, NEW y, Entered(e, k, r, y)'
               PROVE  Entered(e, k, r, y) \/ (e = d /\ k = m /\ r = 1 /\ y = x)
    OBVIOUS
  <2>1. PICK c \in DBlock : /\ c = dirTable[e].i_block[k] /\ r \in DOMAIN data'[c]
                           /\ data'[c][r].inode # 0 /\ data'[c][r].name = y
    BY <1>4, DirForm DEF Entered
  <2>2. CASE r \in DOMAIN data[c] /\ data'[c][r] = data[c][r]
    BY <2>1, <2>2, Numbers DEF Entered
  <2>3. CASE c = b /\ r = 1 /\ data'[c][r].name = x
    <3>1. e = d /\ k = m
      <4>1. m \in BSlot /\ dirTable[d].i_block[m] # 0 /\ dirTable[d].i_block[m] = dirTable[e].i_block[k]
        BY <1>7, <2>1, <2>3
      <4>2. Blocks
        BY DEF DInv
      <4> QED
        BY <1>5, <4>1, <4>2 DEF Blocks
    <3> QED
      BY <2>1, <2>3, <3>1
  <2> QED
    BY <1>15, <2>1, <2>2, <2>3
<1>19. Distinct'
  <2> SUFFICES ASSUME NEW e \in Dir, NEW k \in BSlot, NEW l \in BSlot, NEW r \in Nat, NEW s \in Nat, NEW y \in Name,
                      Entered(e, k, r, y)', Entered(e, l, s, y)'
               PROVE  k = l /\ r = s
    BY DEF Distinct
  <2>1. Entered(e, k, r, y) \/ (e = d /\ k = m /\ r = 1 /\ y = x)
    BY <1>18
  <2>2. Entered(e, l, s, y) \/ (e = d /\ l = m /\ s = 1 /\ y = x)
    BY <1>18
  <2>3. CASE Entered(e, k, r, y) /\ Entered(e, l, s, y)
    BY <2>3 DEF DInv, Distinct
  <2> QED
    BY <1>7, <2>1, <2>2, <2>3
<1>20. Grows
  BY <1>4, <1>7, DirForm DEF Grows, DInv, DTypeOK
<1>21. FreshOK(n)'
  <2>1. \A c \in DBlock : \A r \in DOMAIN data'[c] : data'[c][r].inode = i => c = b
    BY <1>7, <1>15
  <2> QED
    BY <1>3, <1>4, <1>5, <1>7, <1>9, <2>1 DEF FreshOK, Making
<1>22. CreatorOK(n)'
  BY <1>2, <1>5, <1>9, <1>10, <1>21 DEF CreatorOK, CheckOK
<1>23. WalkOK(n)'
  <2>1. \A e \in Dir : dirTable'[e].size \in Nat
    BY <1>4, DirForm
  <2> QED
    BY <1>9, <1>12, <1>20, <2>1, WalkKept
<1>24. WorkStep(p, n)
  BY <1>4, <1>9, <1>12, <1>14, <1>22, <1>23 DEF WorkStep, DInv, DTypeOK
<1> QED
  BY <1>13, <1>16, <1>17, <1>19, <1>20, <1>24, WorkStepKeeps

-----------------------------------------------------------------------------
(* A volume as mke2fs makes it.                                              *)
LEMMA InitDirs == DirInit => DInv
<1> SUFFICES ASSUME DirInit PROVE DInv
  OBVIOUS
<1>1. /\ \A b \in DBlock \cup {0} : DirWith(b) \in Node
      /\ RegFile \in Node /\ RegFile.kind = "reg" /\ NoFile \in Node /\ NoFile.kind = "none"
  BY Numbers DEF DirWith, RegFile, NoFile, Node, BSlot
<1>2. \A b : /\ DirWith(b).kind = "dir" /\ DirWith(b).size = 1
             /\ \A k \in BSlot : DirWith(b).i_block[k] = IF k = 1 THEN b ELSE 0
  BY DEF DirWith, BSlot
<1>3. /\ dirTable \in Table /\ dirTable[Root] = DirWith(1) /\ dirTable[Sub] = DirWith(2)
      /\ dirTable[Written] = RegFile /\ \A i \in Inode \ {Root, Sub, Written} : dirTable[i] = NoFile
  <2>1. Root # Sub /\ Root # Written /\ Sub # Written
    BY DEF Root, Sub, Written
  <2>2. DirWith(1) \in Node /\ DirWith(2) \in Node
    BY <1>1, Numbers
  <2>3. \A i \in Inode : dirTable[i] = CASE i = Root -> DirWith(1) [] i = Sub -> DirWith(2)
                                       [] i = Written -> RegFile [] OTHER -> NoFile
    BY DEF DirInit
  <2>4. DOMAIN dirTable = Inode /\ dirTable = [i \in Inode |-> dirTable[i]]
    BY DEF DirInit
  <2>5. dirTable[Root] = DirWith(1) /\ dirTable[Sub] = DirWith(2) /\ dirTable[Written] = RegFile
    BY <2>1, <2>3, Numbers
  <2>6. \A i \in Inode \ {Root, Sub, Written} : dirTable[i] = NoFile
    BY <2>3
  <2>7. \A i \in Inode : dirTable[i] \in Node
    BY <1>1, <2>2, <2>5, <2>6
  <2> QED
    BY <2>4, <2>5, <2>6, <2>7 DEF Table
<1>4. /\ data[1] = <<Entry("d", Sub), Entry("f", Written)>> /\ data[2] = Leftover
      /\ \A b \in DBlock \ {1, 2} : data[b] = Zeros
      /\ data \in [DBlock -> Seq(Record)]
  <2>1. \A b \in DBlock : data[b] = CASE b = 1 -> <<Entry("d", Sub), Entry("f", Written)>>
                                     [] b = 2 -> Leftover [] OTHER -> Zeros
    BY DEF DirInit, DBlock
  <2>2. data = [b \in DBlock |-> data[b]]
    BY DEF DirInit, DBlock
  <2>3. data[1] = <<Entry("d", Sub), Entry("f", Written)>> /\ data[2] = Leftover
    BY <2>1, Numbers
  <2>4. \A b \in DBlock \ {1, 2} : data[b] = Zeros
    BY <2>1
  <2>5. Entry("d", Sub) \in Record /\ Entry("f", Written) \in Record /\ Entry("old", 0) \in Record
    <3>1. "d" \in Name /\ "f" \in Name /\ "old" \in Name
      BY DEF Name
    <3> QED
      BY <3>1, Numbers DEF Entry, Record
  <2>6. data[1] \in Seq(Record) /\ data[2] \in Seq(Record) /\ Zeros \in Seq(Record)
    BY <2>3, <2>5 DEF Zeros, Leftover
  <2>7. \A b \in DBlock : data[b] \in Seq(Record)
    BY <2>4, <2>6
  <2> QED
    BY <2>2, <2>3, <2>4, <2>7
<1>5. /\ \A p \in Opener : job[p] = Idle
      /\ ibitmap = {Root, Sub, Written} /\ wbuf = <<>> /\ ext2lock = Nobody
      /\ {1, 2} \subseteq used /\ used \subseteq DBlock
  BY Numbers DEF DirInit, DBlock
<1>6. Idle \in Job /\ Idle.pc = "idle" /\ Idle.at.entry = 1
  <2>1. <<>> \in Seq(Name) /\ TRUE \in BOOLEAN
    OBVIOUS
  <2> QED
    BY <2>1, IdleForm DEF Idle
<1>7. DTypeOK
  <2>1. job \in [Opener -> Job]
    BY <1>6 DEF DirInit
  <2> QED
    BY <1>3, <1>4, <1>5, <2>1, Numbers DEF DTypeOK
<1>8. LockHeld
  BY <1>5, <1>6, Numbers DEF LockHeld, Locked, Making
<1>9. Kinds
  BY <1>1, <1>2, <1>3, <1>5, Numbers DEF Kinds, Dir
<1>10. Shape
  <2>1. \A p \in Opener, d \in Dir : ~Linking(job[p], d)
    BY <1>5, <1>6 DEF Linking
  <2>2. \A d \in Dir : /\ dirTable[d].size = 1
                       /\ \A k \in BSlot : dirTable[d].i_block[k] # 0 <=> k = 1
    BY <1>2, <1>3 DEF Dir
  <2>3. 1 \in BSlot /\ \A k \in BSlot : k <= 1 <=> k = 1
    BY Numbers DEF BSlot
  <2>4. ASSUME NEW d \in Dir
        PROVE  /\ dirTable[d].size \in BSlot
               /\ \A k \in BSlot : dirTable[d].i_block[k] # 0 <=> k <= dirTable[d].size
    BY <2>2, <2>3
  <2> QED
    BY <2>1, <2>4 DEF Shape
<1>11. Blocks
  <2>1. /\ dirTable[Root].i_block[1] = 1 /\ dirTable[Sub].i_block[1] = 2
        /\ \A d \in Dir, k \in BSlot : k # 1 => dirTable[d].i_block[k] = 0
    BY <1>2, <1>3, Numbers DEF Dir
  <2>2. \A d \in Dir : d = Root \/ d = Sub
    BY DEF Dir
  <2>3. \A d, e \in Dir, k, l \in BSlot : dirTable[d].i_block[k] # 0 =>
          /\ dirTable[d].i_block[k] \in used
          /\ dirTable[d].i_block[k] = dirTable[e].i_block[l] => d = e /\ k = l
    BY <1>5, <2>1, <2>2
  <2>4. \A b \in DBlock : data[b] # Zeros => \E d \in Dir, k \in BSlot : dirTable[d].i_block[k] = b
    BY <1>4, <2>1, Numbers DEF Dir
  <2> QED
    BY <2>3, <2>4 DEF Blocks
<1>12. \A b \in DBlock : \A r \in DOMAIN data[b] : data[b][r].inode # 0 =>
         /\ b = 1
         /\ \/ r = 1 /\ data[b][r].inode = Sub /\ data[b][r].name = "d"
            \/ r = 2 /\ data[b][r].inode = Written /\ data[b][r].name = "f"
  <2> SUFFICES ASSUME NEW b \in DBlock, NEW r \in DOMAIN data[b], data[b][r].inode # 0
               PROVE  /\ b = 1
                      /\ \/ r = 1 /\ data[b][r].inode = Sub /\ data[b][r].name = "d"
                         \/ r = 2 /\ data[b][r].inode = Written /\ data[b][r].name = "f"
    OBVIOUS
  <2>1. CASE b = 1
    BY <1>4, <2>1 DEF Entry
  <2>2. CASE b = 2
    <3>1. r = 1 /\ data[b][1] = Entry("old", 0)
      BY <1>4, <2>2 DEF Leftover
    <3> QED
      BY <3>1 DEF Entry
  <2>3. CASE b \notin {1, 2}
    BY <1>4, <2>3 DEF Zeros
  <2> QED
    BY <2>1, <2>2, <2>3
<1>13. Inodes
  <2>1. Sub # Written /\ Sub \in ibitmap /\ Written \in ibitmap
        /\ dirTable[Sub].kind # "none" /\ dirTable[Written].kind # "none"
    BY <1>1, <1>2, <1>3, <1>5 DEF Sub, Written
  <2> QED
    BY <1>12, <2>1 DEF Inodes
<1>14. Distinct
  <2>1. \A d \in Dir, k \in BSlot : \A r, n : Entered(d, k, r, n) =>
          k = 1 /\ d = Root /\ ((r = 1 /\ n = "d") \/ (r = 2 /\ n = "f"))
    <3> SUFFICES ASSUME NEW d \in Dir, NEW k \in BSlot, NEW r, NEW n, Entered(d, k, r, n)
                 PROVE  k = 1 /\ d = Root /\ ((r = 1 /\ n = "d") \/ (r = 2 /\ n = "f"))
      OBVIOUS
    <3>1. k = 1 /\ dirTable[d].i_block[k] \in {1, 2} /\ (d = Sub => dirTable[d].i_block[k] = 2) /\ (d = Root \/ d = Sub)
      BY <1>2, <1>3 DEF Entered, Dir
    <3>2. PICK b \in DBlock : b = dirTable[d].i_block[k] /\ r \in DOMAIN data[b] /\ data[b][r].inode # 0 /\ data[b][r].name = n
      BY <3>1, Numbers DEF Entered
    <3> QED
      BY <1>12, <3>1, <3>2
  <2> QED
    BY <2>1 DEF Distinct
<1>15. \A p \in Opener : WalkOK(job[p]) /\ CreatorOK(job[p])
  <2>1. WalkOK(Idle)
    BY <1>6 DEF WalkOK
  <2>2. CreatorOK(Idle)
    BY <1>6, NothingHeld DEF Locked, Making
  <2> QED
    BY <1>5, <2>1, <2>2
<1> QED
  BY <1>7, <1>8, <1>9, <1>10, <1>11, <1>13, <1>14, <1>15 DEF DInv

(* Every step keeps the invariant until something goes wrong unnoticed.      *)
LEMMA DirStepKeeps ==
  ASSUME DInv, [DirNext]_dirVars, harm' = {}
  PROVE  DInv' /\ Grows
<1>1. CASE UNCHANGED dirVars \/ WriterRead \/ WriterKeepsLock
  BY <1>1, QuietKeeps
<1>2. CASE WriterStore
  BY <1>2, WriterStoreKeeps
<1>3. ASSUME NEW p \in Opener, NEW path \in OpenPaths, NEW creat \in BOOLEAN, Open(p, path, creat)
      PROVE  DInv' /\ Grows
  BY <1>3, OpenKeeps
<1>4. ASSUME NEW p \in Opener, Step(p)
      PROVE  DInv' /\ Grows
  <2>1. CASE ReadDir(p)
    BY <2>1, ReadDirKeeps
  <2>2. CASE Descend(p)
    BY <2>2, DescendKeeps
  <2>3. ASSUME NEW fault, OpenReduced(p, fault) \/ CreateReduced(p, fault)
        PROVE  DInv' /\ Grows
    BY <2>3, OpenReducedKeeps, CreateReducedKeeps
  <2>4. CASE CreateLock(p)
    BY <2>4, CreateLockKeeps
  <2>5. CASE CreateBusy(p)
    BY <2>5, CreateBusyKeeps
  <2>6. CASE CheckFails(p)
    BY <2>6 DEF CheckFails
  <2>7. ASSUME NEW fault, AllocInode(p, fault) \/ InitInode(p, fault) \/ AssignDirBlock(p, fault)
        PROVE  DInv' /\ Grows
    BY <2>7, AllocInodeKeeps, InitInodeKeeps, AssignDirBlockKeeps
  <2>8. ASSUME NEW fault, LinkBlock(p, fault) \/ LinkNothing(p, fault)
        PROVE  DInv' /\ Grows
    BY <2>8, LinkBlockKeeps, LinkNothingKeeps
  <2>9. ASSUME NEW fault, WriteEntry(p, fault) \/ Grow(p, fault)
        PROVE  DInv' /\ Grows
    BY <2>9, WriteEntryKeeps, GrowKeeps
  <2> QED
    BY <1>4, <2>1, <2>2, <2>3, <2>4, <2>5, <2>6, <2>7, <2>8, <2>9 DEF Step
<1> QED
  BY <1>1, <1>2, <1>3, <1>4 DEF DirNext

(* What went wrong is remembered.                                            *)
LEMMA HarmStays ==
  ASSUME [DirNext]_dirVars
  PROVE  harm \subseteq harm'
<1> USE DEF StoreInode
<1>1. CASE UNCHANGED dirVars
  BY <1>1 DEF dirVars
<1>2. CASE WriterRead \/ WriterStore \/ WriterKeepsLock
  BY <1>2 DEF WriterRead, WriterStore, WriterKeepsLock
<1>3. ASSUME NEW p \in Opener, NEW path \in OpenPaths, NEW creat \in BOOLEAN, Open(p, path, creat)
      PROVE  harm \subseteq harm'
  BY <1>3 DEF Open
<1>4. ASSUME NEW p \in Opener, Step(p)
      PROVE  harm \subseteq harm'
  <2>1. CASE ReadDir(p) \/ Descend(p) \/ CreateLock(p) \/ CreateBusy(p) \/ CheckFails(p)
    BY <2>1 DEF ReadDir, Descend, CreateLock, CreateBusy, CheckFails
  <2>2. ASSUME NEW fault, OpenReduced(p, fault) \/ CreateReduced(p, fault) \/ WriteEntry(p, fault)
        PROVE  harm \subseteq harm'
    BY <2>2 DEF OpenReduced, CreateReduced, WriteEntry
  <2>3. ASSUME NEW fault, InitInode(p, fault) \/ LinkBlock(p, fault) \/ LinkNothing(p, fault) \/ Grow(p, fault)
        PROVE  harm \subseteq harm'
    BY <2>3 DEF InitInode, LinkBlock, LinkNothing, Grow
  <2>4. ASSUME NEW fault, AllocInode(p, fault) PROVE harm \subseteq harm'
    BY <2>4 DEF AllocInode
  <2>5. ASSUME NEW fault, AssignDirBlock(p, fault) PROVE harm \subseteq harm'
    BY <2>5 DEF AssignDirBlock
  <2> QED
    BY <1>4, <2>1, <2>2, <2>3, <2>4, <2>5 DEF Step
<1> QED
  BY <1>1, <1>2, <1>3, <1>4 DEF DirNext

-----------------------------------------------------------------------------
\* what a walk can find, and where
Found(d, k, r) == [dir |-> d, block |-> k, record |-> r, entry |-> data[dirTable[d].i_block[k]][r]]
Findable(d, k, r) ==
  LET b == dirTable[d].i_block[k] IN
  d \in Dir /\ k \in 1 .. dirTable[d].size /\ b \in DBlock /\ r \in DOMAIN data[b] /\ data[b][r].inode # 0

NamedPlaces ==
  /\ \A v \in Named : \E d, k, r : Findable(d, k, r) /\ v = Found(d, k, r)
  /\ \A d, k, r : Findable(d, k, r) => Found(d, k, r) \in Named

(* The entries that are visible, as places in the two directories.           *)
LEMMA NamedForm == DInv => NamedPlaces
<1> SUFFICES ASSUME DInv PROVE NamedPlaces
  OBVIOUS
<1>1. ASSUME NEW d, NEW k
      PROVE  d \in Inode /\ k \in ShownSlots(d) <=>
             d \in Dir /\ k \in 1 .. dirTable[d].size /\ dirTable[d].i_block[k] # 0
  BY Numbers DEF ShownSlots, DInv, Kinds
<1>2. ASSUME NEW v \in Named
      PROVE  \E d, k, r : Findable(d, k, r) /\ v = Found(d, k, r)
  <2>1. PICK d \in Inode : v \in UNION {{[dir |-> d, block |-> k, record |-> r, entry |-> data[dirTable[d].i_block[k]][r]] :
                   r \in DOMAIN data[dirTable[d].i_block[k]]} : k \in ShownSlots(d)}
    BY DEF Named, Visible
  <2>2. PICK k \in ShownSlots(d) : v \in {[dir |-> d, block |-> k, record |-> r, entry |-> data[dirTable[d].i_block[k]][r]] :
                   r \in DOMAIN data[dirTable[d].i_block[k]]}
    BY <2>1
  <2>3. PICK r \in DOMAIN data[dirTable[d].i_block[k]] : v = Found(d, k, r)
    BY <2>2 DEF Found
  <2>4. v.entry.inode # 0
    BY DEF Named
  <2>5. d \in Dir /\ k \in 1 .. dirTable[d].size
    BY <1>1
  <2>6. dirTable[d].i_block[k] \in DBlock
    BY <2>5, DirForm
  <2>7. v.entry = data[dirTable[d].i_block[k]][r]
    BY <2>3 DEF Found
  <2>8. Findable(d, k, r)
    BY <2>4, <2>5, <2>6, <2>7 DEF Findable
  <2> QED
    BY <2>3, <2>8
<1>3. ASSUME NEW d, NEW k, NEW r, Findable(d, k, r)
      PROVE  Found(d, k, r) \in Named
  <2>1. d \in Inode /\ k \in ShownSlots(d)
    BY <1>1, <1>3, Numbers DEF Findable
  <2>2. Found(d, k, r) \in {[dir |-> d, block |-> k, record |-> q, entry |-> data[dirTable[d].i_block[k]][q]] :
                   q \in DOMAIN data[dirTable[d].i_block[k]]}
    BY <1>3 DEF Findable, Found
  <2>3. Found(d, k, r) \in UNION {{[dir |-> d, block |-> l, record |-> q, entry |-> data[dirTable[d].i_block[l]][q]] :
                   q \in DOMAIN data[dirTable[d].i_block[l]]} : l \in ShownSlots(d)}
    BY <2>1, <2>2
  <2>4. Found(d, k, r) \in Visible
    BY <2>1, <2>3 DEF Visible
  <2>5. Found(d, k, r).entry.inode # 0
    BY <1>3 DEF Found, Findable
  <2> QED
    BY <2>4, <2>5 DEF Named
<1> QED
  BY <1>2, <1>3 DEF NamedPlaces

(* The invariant says what NamesSound says.                                  *)
LEMMA SoundFromInv == DirInv => NamesSound
<1>1. CASE harm # {}
  BY <1>1 DEF NamesSound
<1>2. CASE DInv
  <2>1. ASSUME NEW v \in Named
        PROVE  v.entry.inode \in ibitmap /\ dirTable[v.entry.inode].kind # "none"
    <3>1. PICK d, k, r : Findable(d, k, r) /\ v = Found(d, k, r)
      BY <1>2, NamedForm DEF NamedPlaces
    <3>2. PICK b \in DBlock : b = dirTable[d].i_block[k] /\ r \in DOMAIN data[b] /\ data[b][r].inode # 0
      BY <3>1 DEF Findable
    <3>3. v.entry = data[b][r]
      BY <3>1, <3>2 DEF Found
    <3> QED
      BY <1>2, <3>2, <3>3 DEF DInv, Inodes
  <2>2. ASSUME NEW v \in Named, NEW w \in Named, v # w
        PROVE  v.entry.inode # w.entry.inode /\ (v.dir = w.dir => v.entry.name # w.entry.name)
    <3>1. PICK d, k, r : Findable(d, k, r) /\ v = Found(d, k, r)
      BY <1>2, NamedForm DEF NamedPlaces
    <3>2. PICK e, l, s : Findable(e, l, s) /\ w = Found(e, l, s)
      BY <1>2, NamedForm DEF NamedPlaces
    <3>3. PICK b \in DBlock : b = dirTable[d].i_block[k] /\ r \in DOMAIN data[b] /\ data[b][r].inode # 0
      BY <3>1 DEF Findable
    <3>4. PICK c \in DBlock : c = dirTable[e].i_block[l] /\ s \in DOMAIN data[c] /\ data[c][s].inode # 0
      BY <3>2 DEF Findable
    <3>5. d \in Dir /\ k \in BSlot /\ e \in Dir /\ l \in BSlot
      BY <1>2, <3>1, <3>2, DirForm DEF Findable
    <3>6. /\ v.entry = data[b][r] /\ v.dir = d /\ w.entry = data[c][s] /\ w.dir = e
      BY <3>1, <3>2, <3>3, <3>4 DEF Found
    <3>7. ~(d = e /\ k = l /\ r = s)
      BY <2>2, <3>1, <3>2
    <3>8. v.entry.inode # w.entry.inode
      <4>1. ASSUME b = c /\ r = s
            PROVE  FALSE
        <5>1. b # 0 /\ Blocks
          BY <1>2, Numbers DEF DInv
        <5>2. dirTable[d].i_block[k] # 0 /\ dirTable[d].i_block[k] = dirTable[e].i_block[l]
          BY <3>3, <3>4, <4>1, <5>1
        <5>3. d = e /\ k = l
          BY <3>5, <5>1, <5>2 DEF Blocks
        <5> QED
          BY <3>7, <4>1, <5>3
      <4> QED
        BY <1>2, <3>3, <3>4, <3>6, <4>1 DEF DInv, Inodes
    <3>9. ASSUME d = e, v.entry.name = w.entry.name
          PROVE  FALSE
      <4>1. data[b] \in Seq(Record) /\ data[c] \in Seq(Record)
        BY <1>2 DEF DInv, DTypeOK
      <4>2. r \in Nat /\ s \in Nat
        BY <3>3, <3>4, <4>1
      <4>3. data[b][r] \in Record
        BY <3>3, <4>1
      <4>4. PICK n \in Name : n = data[b][r].name
        BY <4>3 DEF Record
      <4>5. Entered(d, k, r, n) /\ Entered(d, l, s, n)
        BY <3>3, <3>4, <3>6, <3>9, <4>4, Numbers DEF Entered
      <4>6. k = l /\ r = s
        BY <1>2, <3>5, <4>2, <4>5 DEF DInv, Distinct
      <4> QED
        BY <3>7, <3>9, <4>6
    <3> QED
      BY <3>6, <3>8, <3>9
  <2> QED
    BY <2>1, <2>2 DEF NamesSound
<1> QED
  BY <1>1, <1>2 DEF DirInv

(* What was visible stays.                                                   *)
LEMMA NamedStays ==
  ASSUME DInv, DInv', Grows
  PROVE  Named \subseteq Named'
<1> SUFFICES ASSUME NEW v \in Named PROVE v \in Named'
  OBVIOUS
<1>1. PICK d, k, r : Findable(d, k, r) /\ v = Found(d, k, r)
  BY NamedForm DEF NamedPlaces
<1>2. PICK b \in DBlock : b = dirTable[d].i_block[k] /\ r \in DOMAIN data[b] /\ data[b][r].inode # 0
  BY <1>1 DEF Findable
<1>3. data'[b] = data[b] /\ dirTable'[d].i_block[k] = b
  <2>1. data[b] # Zeros
    BY <1>2 DEF Zeros
  <2> QED
    BY <1>1, <1>2, <2>1 DEF Grows, Findable
<1>4. d \in Dir /\ k \in 1 .. dirTable'[d].size
  <2>1. d \in Dir /\ k \in 1 .. dirTable[d].size /\ dirTable'[d].size >= dirTable[d].size
    BY <1>1 DEF Findable, Grows
  <2>2. dirTable'[d].size \in Nat /\ dirTable[d].size \in Nat
    BY <2>1, DirForm, Numbers DEF DInv, DTypeOK, Table, Node
  <2> QED
    BY <2>1, <2>2
<1>5. Findable(d, k, r)'
  BY <1>2, <1>3, <1>4 DEF Findable
<1>6. Found(d, k, r)' = v
  BY <1>1, <1>2, <1>3 DEF Found
<1>7. Found(d, k, r)' \in Named'
  <2>1. NamedPlaces'
    BY NamedForm, PTL
  <2> QED
    BY <1>5, <2>1 DEF NamedPlaces
<1> QED
  BY <1>6, <1>7

(* The inductive invariant, for use in both theorems.                        *)
LEMMA DirsInvariant == DirSpec => []DirInv
<1>1. DirInit => DirInv
  BY InitDirs DEF DirInv
<1>2. DirInv /\ [DirNext]_dirVars => DirInv'
  BY DirStepKeeps, HarmStays DEF DirInv
<1> QED
  BY <1>1, <1>2, PTL DEF DirSpec

(* However creators, whose first lookup takes no lock, walkers and the       *)
(* writer of another file interleave, and whichever accesses to the disk     *)
(* fail: no directory shows a name twice, no inode has two names, and every  *)
(* name leads to an inode that is allocated and initialised, until one of    *)
(* the six things goes wrong that nobody looks at (harm).                    *)
THEOREM NamesAreSound == DirSpec => []NamesSound
<1>1. DirInv => NamesSound
  BY SoundFromInv
<1> QED
  BY <1>1, DirsInvariant, PTL

(* No step before such harm, and none that does no harm itself, takes a      *)
(* visible entry away, moves it or changes what it names.                    *)
THEOREM VisibleEntriesStay == DirSpec => EntriesStay
<1>1. DirInv /\ DirInv' /\ [DirNext]_dirVars => [harm' # {} \/ Named \subseteq Named']_dirVars
  <2> SUFFICES ASSUME DirInv, [DirNext]_dirVars, harm' = {}
               PROVE  Named \subseteq Named'
    OBVIOUS
  <2>1. harm = {}
    BY HarmStays
  <2>2. DInv
    BY <2>1 DEF DirInv
  <2>3. DInv' /\ Grows
    BY <2>2, DirStepKeeps
  <2> QED
    BY <2>2, <2>3, NamedStays
<1> QED
  BY <1>1, DirsInvariant, PTL DEF DirSpec, EntriesStay

-----------------------------------------------------------------------------
(***************************************************************************)
(* The inode table, which writers store whole blocks of.                   *)
(***************************************************************************)
StoreTypeOK ==
  /\ DOMAIN table = File /\ DOMAIN buffer = Proc /\ \A p \in Proc : DOMAIN buffer[p] = File
  /\ DOMAIN pc = Proc /\ file \in [Proc -> File] /\ lost \in BOOLEAN /\ errors \in Nat

\* assign_block stores under the volume's lock
StoreLocked == \A p \in Proc : pc[p] \in {"set_read", "set_write"} => lock = p

\* the block assign_block has read is out of date only in inodes that ext2_write stored since
StaleUnlocked ==
  \A p \in Proc : pc[p] = "set_write" => {f \in File : table[f] # buffer[p][f]} \subseteq unlocked

StoreInv == StoreTypeOK /\ StoreLocked /\ (~lost => StaleUnlocked)

(* Steps that store no inode and read no block of the table.                 *)
LEMMA NoStoreKeeps ==
  ASSUME StoreInv, NEW p \in Proc, UNCHANGED <<table, buffer, file, unlocked, lost>>,
         errors' = errors \/ DiskFails,
         NEW l, l \notin {"set_read", "set_write"} \/ (l = "set_read" /\ lock = None /\ lock' = p),
         Goto(p, l), lock' = lock \/ (lock = None /\ lock' = p)
  PROVE  StoreInv'
<1>1. None \notin Proc
  BY VolumeAssumption
<1>2. DOMAIN pc' = Proc /\ pc'[p] = l /\ \A q \in Proc : q # p => pc'[q] = pc[q]
  BY DEF StoreInv, StoreTypeOK, Goto
<1>3. StoreTypeOK'
  BY <1>2 DEF StoreInv, StoreTypeOK, DiskFails
<1>4. StoreLocked'
  BY <1>1, <1>2 DEF StoreInv, StoreLocked
<1>5. ~lost => StaleUnlocked'
  BY <1>2 DEF StoreInv, StaleUnlocked
<1> QED
  BY <1>3, <1>4, <1>5 DEF StoreInv

(* What a step that stores an inode does to the table.                       *)
LEMMA StoreEffect ==
  ASSUME StoreTypeOK, NEW p \in Proc, Store(p)
  PROVE  /\ DOMAIN table' = File /\ DOMAIN buffer' = Proc /\ \A q \in Proc : DOMAIN buffer'[q] = File
         /\ lost' \in BOOLEAN /\ (lost => lost') /\ errors' \in Nat
         /\ \A q \in Proc : q # p => buffer'[q] = buffer[q]
         /\ ~lost' => \A f \in File : f # file[p] => table'[f] = table[f]
         /\ errors' = errors /\ lost' /\ ~lost => \E f \in File \ {file[p]} : table[f] # buffer[p][f]
<1>1. buffer' = [buffer EXCEPT ![p] = NoTable] /\ DOMAIN NoTable = File
  BY DEF Store, NoTable
<1>2. /\ DOMAIN buffer' = Proc /\ \A q \in Proc : DOMAIN buffer'[q] = File
      /\ \A q \in Proc : q # p => buffer'[q] = buffer[q]
  BY <1>1 DEF StoreTypeOK
<1>3. CASE /\ table' = [buffer[p] EXCEPT ![file[p]] = inode[p]] /\ errors' = errors
           /\ lost' = (lost \/ \E f \in File \ {file[p]} : table[f] # buffer[p][f])
  <2>1. DOMAIN buffer[p] = File
    BY DEF StoreTypeOK
  <2>2. DOMAIN table' = File /\ \A f \in File : f # file[p] => table'[f] = buffer[p][f]
    BY <1>3, <2>1
  <2>3. ~lost' => \A f \in File : f # file[p] => table[f] = buffer[p][f]
    BY <1>3
  <2> QED
    BY <1>2, <1>3, <2>2, <2>3 DEF StoreTypeOK
<1>4. DiskFails => errors' # errors /\ errors' \in Nat
  BY DEF DiskFails, StoreTypeOK
<1>5. CASE DiskFails /\ lost' = TRUE /\ table' = table /\ errors' # errors
  BY <1>2, <1>5, <1>4 DEF StoreTypeOK
<1> QED
  BY <1>3, <1>4, <1>5 DEF Store
(* Every step keeps the invariant.                                           *)
LEMMA StoreStepKeeps ==
  ASSUME StoreInv, [Next]_vars
  PROVE  StoreInv'
<1>1. StoreTypeOK /\ None \notin Proc
  BY VolumeAssumption DEF StoreInv
<1>2. CASE UNCHANGED vars
  BY <1>2 DEF vars, calls, locals, ghosts, StoreInv, StoreTypeOK, StoreLocked, StaleUnlocked
<1>3. ASSUME NEW p \in Proc, (\E o \in Offset, n \in Count : Write(p, o, n)) \/ WriteBlock(p) \/ UpdateNothing(p)
                             \/ WriteLoopEnds(p) \/ WriteSparse(p) \/ AssignBlock(p) \/ AssignFails(p) \/ Update(p)
      PROVE  StoreInv'
  <2>1. UNCHANGED <<table, buffer, file, unlocked, lost>> /\ (errors' = errors \/ DiskFails)
    BY <1>3 DEF Write, WriteBlock, UpdateNothing, Return, WriteLoopEnds, WriteSparse, AssignBlock, AssignFails, Update,
                calls, locals, ghosts
  <2>3. CASE AssignBlock(p)
    <3>1. Goto(p, "set_read") /\ lock = None /\ lock' = p
      BY <2>3 DEF AssignBlock, Guarded
    <3> QED
      BY <2>1, <3>1, NoStoreKeeps
  <2>4. CASE AssignFails(p)
    <3>1. Goto(p, "update") /\ lock = None /\ lock' = p
      BY <2>4 DEF AssignFails
    <3> QED
      BY <2>1, <3>1, NoStoreKeeps
  <2>5. CASE (\E o \in Offset, n \in Count : Write(p, o, n)) \/ WriteBlock(p) \/ UpdateNothing(p) \/ WriteLoopEnds(p) \/ WriteSparse(p) \/ Update(p)
    <3>1. lock' = lock /\ \E l \in {"loop", "idle", "update", "assign", "update_read"} : Goto(p, l)
      BY <2>5 DEF Write, WriteBlock, UpdateNothing, Return, WriteLoopEnds, WriteSparse, Update
    <3> QED
      BY <2>1, <3>1, NoStoreKeeps
  <2> QED
    BY <1>3, <2>3, <2>4, <2>5
<1>4. ASSUME NEW p \in Proc, SetRead(p) PROVE StoreInv'
  <2>1. /\ UNCHANGED <<table, lock, file, unlocked, lost, errors>>
        /\ buffer' = [buffer EXCEPT ![p] = table]
        /\ DOMAIN pc' = Proc /\ \A q \in Proc : q # p => pc'[q] = pc[q]
        /\ (pc'[p] = "set_write" /\ pc[p] = "set_read") \/ pc'[p] = "update_write"
    BY <1>1, <1>4 DEF SetRead, At, Goto, calls, ghosts, StoreTypeOK
  <2>2. DOMAIN buffer' = Proc /\ buffer'[p] = table /\ \A q \in Proc : q # p => buffer'[q] = buffer[q]
    BY <1>1, <2>1 DEF StoreTypeOK
  <2>3. StoreTypeOK'
    BY <1>1, <2>1, <2>2 DEF StoreTypeOK
  <2>4. StoreLocked'
    BY <2>1 DEF StoreInv, StoreLocked
  <2>5. ~lost => StaleUnlocked'
    BY <2>1, <2>2 DEF StoreInv, StaleUnlocked
  <2> QED
    BY <2>1, <2>3, <2>4, <2>5 DEF StoreInv
<1>5. ASSUME NEW p \in Proc, SetWrite(p) PROVE StoreInv'
  <2>1. /\ Store(p) /\ UNCHANGED file /\ lock' = None /\ pc[p] = "set_write"
        /\ DOMAIN pc' = Proc /\ \A q \in Proc : q # p => pc'[q] = pc[q]
        /\ pc'[p] \in {"update", "assigned"}
    BY <1>1, <1>5 DEF SetWrite, At, Goto, calls, StoreTypeOK
  <2>2. \A q \in Proc : pc'[q] \notin {"set_read", "set_write"}
    BY <2>1 DEF StoreInv, StoreLocked
  <2>3. StoreTypeOK'
    BY <1>1, <2>1, StoreEffect DEF StoreTypeOK
  <2> QED
    BY <2>2, <2>3 DEF StoreInv, StoreLocked, StaleUnlocked
<1>6. ASSUME NEW p \in Proc, UpdateWrite(p) PROVE StoreInv'
  <2>1. /\ Store(p) /\ UNCHANGED <<file, lock>> /\ unlocked' = unlocked \cup {file[p]}
        /\ DOMAIN pc' = Proc /\ \A q \in Proc : q # p => pc'[q] = pc[q]
        /\ pc'[p] = "idle"
    BY <1>1, <1>6 DEF UpdateWrite, Return, Goto, calls, StoreTypeOK
  <2>2. StoreTypeOK'
    BY <1>1, <2>1, StoreEffect DEF StoreTypeOK
  <2>3. StoreLocked'
    BY <2>1 DEF StoreInv, StoreLocked
  <2>4. ASSUME ~lost', NEW q \in Proc, pc'[q] = "set_write", NEW f \in File, table'[f] # buffer'[q][f]
        PROVE  f \in unlocked'
    <3>1. q # p /\ pc[q] = "set_write" /\ ~lost /\ buffer'[q] = buffer[q]
      BY <1>1, <2>1, <2>4, StoreEffect
    <3>2. f # file[p] => table'[f] = table[f]
      BY <1>1, <2>1, <2>4, StoreEffect
    <3>3. table[f] # buffer[q][f] => f \in unlocked
      BY <3>1 DEF StoreInv, StaleUnlocked
    <3> QED
      BY <2>1, <2>4, <3>1, <3>2, <3>3
  <2> QED
    BY <2>2, <2>3, <2>4 DEF StoreInv, StaleUnlocked
<1> QED
  BY <1>2, <1>3, <1>4, <1>5, <1>6 DEF Next

(* A step loses an inode as LostOnlyUnlocked says.                           *)
LEMMA LostStep ==
  ASSUME StoreInv, [Next]_vars, lost', ~lost
  PROVE  \/ errors' # errors
         \/ \E p \in Proc : pc'[p] # pc[p] /\
              \/ At(p, "update_write")
              \/ /\ At(p, "set_write")
                 /\ {f \in File \ {file[p]} : table[f] # buffer[p][f]} \subseteq unlocked
<1>1. StoreTypeOK
  BY DEF StoreInv
<1>2. PICK p \in Proc : SetWrite(p) \/ UpdateWrite(p)
  <2>1. ~UNCHANGED vars
    BY DEF vars, ghosts
  <2>2. \A p \in Proc :
          /\ \A o \in Offset, n \in Count : ~Write(p, o, n)
          /\ ~WriteBlock(p) /\ ~WriteLoopEnds(p) /\ ~WriteSparse(p) /\ ~AssignBlock(p) /\ ~AssignFails(p)
          /\ ~Update(p) /\ ~UpdateNothing(p) /\ ~SetRead(p)
    BY DEF Write, WriteBlock, WriteLoopEnds, WriteSparse, AssignBlock, AssignFails, Update, UpdateNothing, SetRead, ghosts
  <2> QED
    BY <2>1, <2>2 DEF Next
<1>3. CASE UpdateWrite(p)
  BY <1>1, <1>3 DEF UpdateWrite, Return, Goto, At, StoreTypeOK
<1>4. CASE SetWrite(p)
  <2>1. At(p, "set_write") /\ pc'[p] # pc[p] /\ pc[p] = "set_write"
    BY <1>1, <1>4 DEF SetWrite, Goto, At, StoreTypeOK
  <2>2. {f \in File \ {file[p]} : table[f] # buffer[p][f]} \subseteq unlocked
    BY <2>1 DEF StoreInv, StaleUnlocked
  <2> QED
    BY <2>1, <2>2
<1> QED
  BY <1>2, <1>3, <1>4

(* Only a disk error or the unlocked store at the end of ext2_write loses an *)
(* inode: LostOnlyUnlocked of Ext2.tla.                                      *)
THEOREM InodesLostOnlyUnlocked == Spec => LostOnlyUnlocked
<1>1. Init => StoreInv
  <2> SUFFICES ASSUME Init PROVE StoreInv
    OBVIOUS
  <2>1. StoreTypeOK
    BY DEF Init, StoreTypeOK, NoTable
  <2>2. \A p \in Proc : pc[p] = "idle"
    BY DEF Init
  <2> QED
    BY <2>1, <2>2 DEF StoreInv, StoreLocked, StaleUnlocked
<1>2. StoreInv /\ [Next]_vars => StoreInv'
  BY StoreStepKeeps
<1>3. StoreInv /\ [Next]_vars =>
        [lost' /\ ~lost =>
           \/ errors' # errors
           \/ \E p \in Proc : pc'[p] # pc[p] /\
                \/ At(p, "update_write")
                \/ /\ At(p, "set_write")
                   /\ {f \in File \ {file[p]} : table[f] # buffer[p][f]} \subseteq unlocked]_vars
  BY LostStep
<1> QED
  BY <1>1, <1>2, <1>3, PTL DEF Spec, LostOnlyUnlocked
=============================================================================
