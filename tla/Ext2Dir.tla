------------------------------ MODULE Ext2Dir -------------------------------
(***************************************************************************)
(* Looking up, creating and opening files of an ext2 volume                *)
(* (drivers/ext2/ext2.c: alloc_inode, ext2_open_dir, ext2_read_dir,        *)
(* reduce_path, ext2_create, ext2_open) by several processes, beside       *)
(* another process's ext2_write that stores its own inode in the same      *)
(* block of the inode table without ext2->lock.                            *)
(*                                                                         *)
(* Walks take no lock and read the inode and the block afresh for every    *)
(* entry; ext2_create holds ext2->lock from its second look for the name   *)
(* to the end.  A directory block is a sequence of entries (a created one  *)
(* takes a block of its own), or Zeros: its first record then has length 0 *)
(* and no inode, which ext2_next_dir never gets past.                      *)
(*                                                                         *)
(* Any access to the disk can fail, one in a step.  A walk then ends as if *)
(* the name were not there; nobody looks whether a bitmap, the zeros of a  *)
(* fresh block, an entry or an inode was written.  (The one read whose     *)
(* failure is not in the model is that of the fresh block, after which     *)
(* ext2_create writes through a null pointer.)                             *)
(***************************************************************************)
EXTENDS Integers, Sequences, SequencesExt, FiniteSetsExt

CONSTANTS Opener,            \* processes that call ext2_open
          OpenPaths,         \* the paths they open, sequences of names
          IGroups, IPerGroup,\* inode groups, s_inodes_per_group
          DirBlocks,         \* data blocks for directories
          DirSlots,          \* i_block slots a directory can use
          MaxOpens,          \* calls of ext2_open in a behaviour
          MaxMishaps,        \* disk errors and unlocked stores in a behaviour
          Nobody, Writer     \* nobody, and the process in ext2_write, as holders of the lock

\* a directory's block map reaches as many blocks as the volume has
ASSUME DirAssumption ==
  /\ OpenPaths \subseteq Seq(STRING) /\ Nobody \notin Opener /\ Writer \notin Opener \cup {Nobody}
  /\ IGroups \in Nat \ {0} /\ IPerGroup \in Nat \ {0} /\ IGroups * IPerGroup >= 3
  /\ DirBlocks \in Nat /\ DirBlocks >= 2 /\ DirSlots \in Nat /\ DirSlots >= DirBlocks

Inode == 1 .. IGroups * IPerGroup
Root == 1          \* EXT2_ROOT_INO
Sub == 2           \* a directory in the root
Written == 3       \* a regular file in the root that is being written
Zeros == <<>>
Entry(n, i) == [name |-> n, inode |-> i]
Leftover == <<Entry("old", 0)>>   \* what a block held before, when the zeros do not reach it

VARIABLES
  dirTable,    \* the inode table's block
  ibitmap,     \* inodes whose bit is set
  used,        \* data blocks whose bit is set
  data,        \* contents of the data blocks
  ext2lock,    \* ext2->lock
  job,         \* each opener's call: its place, arguments and locals
  wbuf,        \* the table block the writer's set_inode has read
  harm,        \* ghost: what went wrong and nobody noticed: a "stale" table block stored over newer
               \* inodes, a failed "lookup" under the lock, an "inode", a bit of the "inodes" or of
               \* the "blocks" or the "zeros" of a block that did not reach the disk
  broken,      \* ghost: a directory block was left without its entry
  opens, stores, dirErrors   \* how many there were

dirVolume == <<dirTable, ibitmap, used, data>>
budget == <<opens, stores, dirErrors>>
dirVars == <<dirVolume, ext2lock, job, wbuf, harm, broken, budget>>

NoFile == [kind |-> "none", size |-> 0, i_block |-> [k \in 1 .. DirSlots |-> 0]]
DirWith(b) == [kind |-> "dir", size |-> 1, i_block |-> [k \in 1 .. DirSlots |-> IF k = 1 THEN b ELSE 0]]
RegFile == [NoFile EXCEPT !.kind = "reg"]

\* an inode handle: the inode, seek_block and seek
Start(i) == [inode |-> i, block |-> 1, entry |-> 1]
Idle == [pc |-> "idle", path |-> <<>>, creat |-> FALSE, result |-> 0,
         at |-> Start(Root), rest |-> <<>>, want |-> <<>>,
         fresh |-> 0, parent |-> NoFile, block |-> 0, tbuf |-> <<>>,
         err |-> FALSE]   \* ghost: the call has met a disk error

\* a directory "d" with one unused record and a file "f", as made by mke2fs
DirInit ==
  /\ dirTable = [i \in Inode |-> CASE i = Root -> DirWith(1) [] i = Sub -> DirWith(2)
                                [] i = Written -> RegFile [] OTHER -> NoFile]
  /\ ibitmap = {Root, Sub, Written}
  /\ used \in {{1, 2}, 1 .. DirBlocks}   \* also a volume without a free block
  /\ data = [b \in 1 .. DirBlocks |-> CASE b = 1 -> <<Entry("d", Sub), Entry("f", Written)>>
                                        [] b = 2 -> Leftover [] OTHER -> Zeros]
  /\ ext2lock = Nobody
  /\ job = [p \in Opener |-> Idle]
  /\ wbuf = <<>> /\ harm = {} /\ broken = FALSE
  /\ opens = 0 /\ stores = 0 /\ dirErrors = 0

-----------------------------------------------------------------------------
\* the access to the disk a step fails at, "none" if there is none, and the call that meets it
Meets(fault) == IF fault = "none" THEN UNCHANGED dirErrors
                ELSE stores + dirErrors < MaxMishaps /\ dirErrors' = dirErrors + 1
Met(j, fault) == [j EXCEPT !.err = @ \/ fault # "none"]

-----------------------------------------------------------------------------
(* Walking a directory: ext2_open_dir, and ext2_read_dir and ext2_next_dir *)
(* once per step, in reduce_path and in ext2_create's second look.         *)

BlockAt(h) == dirTable[h.inode].i_block[h.block]

\* nothing left to find, not a directory, or no more entries below i_size
WalkEnds(j) ==
  \/ j.rest = <<>>
  \/ dirTable[j.at.inode].kind # "dir"
  \/ j.at.block > dirTable[j.at.inode].size

\* ... or something on the way cannot be read
WalkStops(j, fault) ==
  /\ IF fault = "read" THEN j.rest # <<>> ELSE WalkEnds(j)
  /\ Meets(fault)

\* the entry the handle is at has the name that is looked for
Hit(j) ==
  /\ BlockAt(j.at) # 0 /\ data[BlockAt(j.at)] # Zeros
  /\ LET e == data[BlockAt(j.at)][j.at.entry] IN e.inode # 0 /\ e.name = Head(j.rest)

\* ext2_next_dir, and ext2_read_dir's step over a hole (length 0)
NextDir(h, length) ==
  IF h.entry >= length THEN [h EXCEPT !.block = @ + 1, !.entry = 1] ELSE [h EXCEPT !.entry = @ + 1]

\* ext2_read_dir on a hole, an unused record or another name; a block of Zeros holds it for ever
ReadDir(p) ==
  LET j == job[p]  b == BlockAt(j.at) IN
  /\ j.pc \in {"open", "create", "check"} /\ ~WalkEnds(j) /\ ~Hit(j)
  /\ b # 0 => data[b] # Zeros
  /\ job' = [job EXCEPT ![p].at = NextDir(@, IF b = 0 THEN 0 ELSE Len(data[b]))]
  /\ UNCHANGED <<dirVolume, ext2lock, wbuf, harm, broken, budget>>

\* reduce_path goes on below the entry with the component's name
Descend(p) ==
  LET j == job[p] IN
  /\ j.pc \in {"open", "create"} /\ ~WalkEnds(j) /\ Hit(j)
  /\ job' = [job EXCEPT ![p].at = Start(data[BlockAt(@)][@.entry].inode), ![p].rest = Tail(@)]
  /\ UNCHANGED <<dirVolume, ext2lock, wbuf, harm, broken, budget>>

-----------------------------------------------------------------------------
(* ext2_open.  Its result stays in job[p] until the next call.             *)

\* reduce_path starts at the root
Reduce(j, why, path) == [j EXCEPT !.pc = why, !.at = Start(Root), !.rest = path]

Done(j, r) == [Idle EXCEPT !.pc = "done", !.path = j.path, !.creat = j.creat, !.result = r, !.err = j.err]

Open(p, path, creat) ==
  /\ job[p].pc \in {"idle", "done"} /\ opens < MaxOpens
  /\ job' = [job EXCEPT ![p] = Reduce([Idle EXCEPT !.path = path, !.creat = creat], "open", path)]
  /\ opens' = opens + 1
  /\ UNCHANGED <<dirVolume, ext2lock, wbuf, harm, broken, stores, dirErrors>>

\* what is left of the path goes to ext2_create, which looks it up from the root again
OpenReduced(p, fault) ==
  LET j == Met(job[p], fault) IN
  /\ j.pc = "open" /\ WalkStops(j, fault)
  /\ job' = [job EXCEPT ![p] = IF j.rest = <<>> THEN Done(j, j.at.inode)
                               ELSE IF j.creat THEN Reduce([j EXCEPT !.want = j.rest], "create", j.rest)
                               ELSE Done(j, 0)]
  /\ UNCHANGED <<dirVolume, ext2lock, wbuf, harm, broken, opens, stores>>

-----------------------------------------------------------------------------
(* ext2_create.                                                            *)

\* FILE_BUSY, FILE_DNE, FILE_NO_SUPPORT or ext2_stat's error, or on to the lock
CreateReduced(p, fault) ==
  LET j == Met(job[p], fault) IN
  /\ j.pc = "create" /\ WalkStops(j, fault)
  /\ job' = [job EXCEPT ![p] = IF Len(j.rest) # 1 \/ fault = "stat" \/ dirTable[j.at.inode].kind # "dir"
                                 THEN Done(j, 0) ELSE [j EXCEPT !.pc = "lock"]]
  /\ UNCHANGED <<dirVolume, ext2lock, wbuf, harm, broken, opens, stores>>

\* the second look, under the lock
CreateLock(p) ==
  /\ job[p].pc = "lock" /\ ext2lock = Nobody
  /\ ext2lock' = p
  /\ job' = [job EXCEPT ![p].pc = "check", ![p].at = Start(@.inode)]
  /\ UNCHANGED <<dirVolume, wbuf, harm, broken, budget>>

\* Mutant: an error exit that keeps the lock
FailLocked(p, fault) == job' = [job EXCEPT ![p] = Done(Met(@, fault), 0)] /\ UNCHANGED ext2lock

\* the error exits that hold the lock
Fail(p, fault) == job' = [job EXCEPT ![p] = Done(Met(@, fault), 0)] /\ ext2lock' = Nobody

CreateBusy(p) ==
  /\ job[p].pc = "check" /\ ~WalkEnds(job[p]) /\ Hit(job[p])
  /\ Fail(p, "none")
  /\ UNCHANGED <<dirVolume, wbuf, harm, broken, budget>>

\* the second look takes a directory it cannot read for one without the name
CheckFails(p) ==
  /\ job[p].pc = "check" /\ ~WalkEnds(job[p])
  /\ Meets("read")
  /\ job' = [job EXCEPT ![p] = [Met(@, "read") EXCEPT !.pc = "alloc"]]
  /\ harm' = harm \cup {"lookup"}
  /\ UNCHANGED <<dirVolume, ext2lock, wbuf, broken, opens, stores>>

\* the inode groups alloc_inode tries: from the directory's own upwards, round to 0, never the last
IGroupOrder(g) == [k \in 1 .. IGroups - 1 |-> (g + k - 1) % (IGroups - 1)]

ClearInodes(g) == {i \in Inode : (i - 1) \div IPerGroup = g} \ ibitmap

\* Mutant: the bit is looked for and not set
AllocInodeUnset(p, fault) ==
  LET j == Met(job[p], fault)
      open(g) == ClearInodes(g) # {}
      order == IGroupOrder((j.at.inode - 1) \div IPerGroup)
      first == SelectInSeq(order, open)
      from == IF fault = "scan" THEN SelectInSubSeq(order, first + 1, Len(order), open) ELSE first
      i == Min(ClearInodes(order[from]))
  IN
  /\ j.pc = "alloc" \/ (j.pc = "check" /\ WalkEnds(j))
  /\ Meets(fault) /\ (fault # "none" => first # 0)
  /\ IF from = 0 \/ fault = "parent" THEN Fail(p, fault)
     ELSE /\ job' = [job EXCEPT ![p] = [j EXCEPT !.pc = "init", !.fresh = i, !.parent = dirTable[j.at.inode],
                                                 !.tbuf = dirTable]]
          /\ UNCHANGED ext2lock
  /\ UNCHANGED <<dirVolume, wbuf, harm, broken, opens, stores>>

\* alloc_inode, which passes over a group whose bitmap cannot be read, and the directory's
\* inode; then the first half of the new inode's set_inode
AllocInode(p, fault) ==
  LET j == Met(job[p], fault)
      open(g) == ClearInodes(g) # {}
      order == IGroupOrder((j.at.inode - 1) \div IPerGroup)
      first == SelectInSeq(order, open)
      from == IF fault = "scan" THEN SelectInSubSeq(order, first + 1, Len(order), open) ELSE first
      i == Min(ClearInodes(order[from]))
  IN
  /\ j.pc = "alloc" \/ (j.pc = "check" /\ WalkEnds(j))
  /\ Meets(fault) /\ (fault # "none" => first # 0)
  /\ ibitmap' = IF from = 0 \/ fault = "bitmap" THEN ibitmap ELSE ibitmap \cup {i}
  /\ harm' = IF fault = "bitmap" THEN harm \cup {"inodes"} ELSE harm
  /\ IF from = 0 \/ fault = "parent" THEN Fail(p, fault)
     ELSE /\ job' = [job EXCEPT ![p] = [j EXCEPT !.pc = "init", !.fresh = i, !.parent = dirTable[j.at.inode],
                                                 !.tbuf = dirTable]]
          /\ UNCHANGED ext2lock
  /\ UNCHANGED <<dirTable, used, data, wbuf, broken, opens, stores>>

\* set_inode's second half: the table block it read goes back with one inode changed, or the
\* disk has failed and the inode stays as it was
StoreInode(buf, i, node, fault) ==
  LET newer == {k \in Inode \ {i} : buf[k] # dirTable[k]} IN
  /\ Meets(fault)
  /\ dirTable' = IF fault = "none" THEN [buf EXCEPT ![i] = node] ELSE dirTable
  /\ harm' = harm \cup (IF fault # "none" THEN {"inode"} ELSE IF newer # {} THEN {"stale"} ELSE {})

InitInode(p, fault) ==
  /\ job[p].pc = "init"
  /\ StoreInode(job[p].tbuf, job[p].fresh, RegFile, fault)
  /\ job' = [job EXCEPT ![p] = [Met(@, fault) EXCEPT !.pc = "assign", !.tbuf = <<>>]]
  /\ UNCHANGED <<ibitmap, used, data, ext2lock, wbuf, broken, opens, stores>>

\* Mutant: the last used slot is taken for the first hole
FirstHoleOff(node) == Min({k \in 1 .. DirSlots : node.i_block[k] = 0}) - 1

\* the first hole of the directory
FirstHole(node) == Min({k \in 1 .. DirSlots : node.i_block[k] = 0})

\* assign_block reads the inode again (if it cannot, ext2_create gives up); a fresh block is
\* zeroed; without one assign_block stores the inode all the same and the new inode stays
\* allocated
AssignDirBlock(p, fault) ==
  LET j == Met(job[p], fault)
      k == FirstHole(j.parent)
      held == dirTable[j.at.inode].i_block[k]
      free == 1 .. DirBlocks \ used
      b == IF held # 0 \/ free = {} \/ fault = "scan" THEN held ELSE Min(free)
  IN
  /\ j.pc = "assign" /\ Meets(fault)
  /\ fault \in {"scan", "bitmap", "zero"} => held = 0 /\ free # {}
  /\ used' = IF fault \in {"inode", "bitmap"} THEN used ELSE used \cup ({b} \ {0})
  /\ data' = IF b = 0 \/ held # 0 \/ fault = "inode" THEN data
             ELSE [data EXCEPT ![b] = IF fault = "zero" THEN Leftover ELSE Zeros]
  /\ harm' = harm \cup (CASE fault = "bitmap" -> {"blocks"} [] fault = "zero" -> {"zeros"} [] OTHER -> {})
  /\ IF fault = "inode" THEN Fail(p, fault)
     ELSE /\ job' = [job EXCEPT ![p] = [j EXCEPT !.pc = IF b = 0 THEN "full" ELSE "link", !.block = b, !.tbuf = dirTable,
                                                 !.parent = [dirTable[j.at.inode] EXCEPT !.i_block[k] = b]]]
          /\ UNCHANGED ext2lock
  /\ UNCHANGED <<dirTable, ibitmap, wbuf, broken, opens, stores>>

\* assign_block's set_inode
LinkBlock(p, fault) ==
  /\ job[p].pc = "link"
  /\ StoreInode(job[p].tbuf, job[p].at.inode, job[p].parent, fault)
  /\ job' = [job EXCEPT ![p] = [Met(@, fault) EXCEPT !.pc = "entry", !.tbuf = <<>>]]
  /\ UNCHANGED <<ibitmap, used, data, ext2lock, wbuf, broken, opens, stores>>

\* ... also when it has no block
LinkNothing(p, fault) ==
  /\ job[p].pc = "full"
  /\ StoreInode(job[p].tbuf, job[p].at.inode, job[p].parent, fault)
  /\ Fail(p, fault)
  /\ UNCHANGED <<ibitmap, used, data, wbuf, broken, opens, stores>>

\* the entry's block
WriteEntry(p, fault) ==
  LET j == Met(job[p], fault) IN
  /\ j.pc = "entry" /\ Meets(fault)
  /\ broken' = (broken \/ fault # "none")
  /\ data' = IF fault # "none" THEN data ELSE [data EXCEPT ![j.block] = <<Entry(Head(j.rest), j.fresh)>>]
  /\ job' = [job EXCEPT ![p] = [j EXCEPT !.pc = "grow", !.tbuf = dirTable]]
  /\ UNCHANGED <<dirTable, ibitmap, used, ext2lock, wbuf, harm, opens, stores>>

\* i_size, which makes the entry visible; ext2_open then opens what it had created
Grow(p, fault) ==
  LET j == Met(job[p], fault) IN
  /\ j.pc = "grow" /\ ext2lock' = Nobody
  /\ StoreInode(j.tbuf, j.at.inode, [j.parent EXCEPT !.size = @ + 1], fault)
  /\ job' = [job EXCEPT ![p] = Reduce([Idle EXCEPT !.path = j.path, !.creat = j.creat, !.err = j.err], "open", j.want)]
  /\ UNCHANGED <<ibitmap, used, data, wbuf, broken, opens, stores>>

-----------------------------------------------------------------------------
(* The end of another process's ext2_write: set_inode without ext2->lock.  *)

WriterRead ==
  /\ wbuf = <<>> /\ stores + dirErrors < MaxMishaps
  /\ wbuf' = dirTable /\ stores' = stores + 1
  /\ UNCHANGED <<dirVolume, ext2lock, job, harm, broken, opens, dirErrors>>

WriterStore ==
  /\ wbuf # <<>>
  /\ StoreInode(wbuf, Written, [wbuf[Written] EXCEPT !.size = @ + 1], "none")
  /\ wbuf' = <<>>
  /\ UNCHANGED <<ibitmap, used, data, ext2lock, job, broken, opens, stores>>

\* its assign_block (see Ext2) holds the lock in all it does, and keeps it when it cannot read
\* the inode
WriterKeepsLock ==
  /\ ext2lock = Nobody /\ ext2lock' = Writer
  /\ Meets("inode")
  /\ UNCHANGED <<dirVolume, job, wbuf, harm, broken, opens, stores>>

Step(p) ==
  \/ ReadDir(p) \/ Descend(p) \/ CreateLock(p) \/ CreateBusy(p) \/ CheckFails(p)
  \/ \E fault \in {"none", "read"} : OpenReduced(p, fault)
  \/ \E fault \in {"none", "read", "stat"} : CreateReduced(p, fault)
  \/ \E fault \in {"none", "scan", "bitmap", "parent"} : AllocInode(p, fault)
  \/ \E fault \in {"none", "inode", "scan", "bitmap", "zero"} : AssignDirBlock(p, fault)
  \/ \E fault \in {"none", "write"} :
       InitInode(p, fault) \/ LinkBlock(p, fault) \/ LinkNothing(p, fault) \/ WriteEntry(p, fault) \/ Grow(p, fault)

DirNext ==
  \/ \E p \in Opener : (\E path \in OpenPaths, creat \in BOOLEAN : Open(p, path, creat)) \/ Step(p)
  \/ WriterRead \/ WriterStore \/ WriterKeepsLock

DirSpec == DirInit /\ [][DirNext]_dirVars

-----------------------------------------------------------------------------
(* Properties.                                                             *)

ShownSlots(d) == IF dirTable[d].kind = "dir" THEN {k \in 1 .. dirTable[d].size : dirTable[d].i_block[k] # 0} ELSE {}

\* the entries a walk can reach, with their places
Visible ==
  UNION {UNION {{[dir |-> d, block |-> k, record |-> r, entry |-> data[dirTable[d].i_block[k]][r]] :
                   r \in DOMAIN data[dirTable[d].i_block[k]]} : k \in ShownSlots(d)} : d \in Inode}

Named == {v \in Visible : v.entry.inode # 0}

Lookup(d, n) == {v.entry.inode : v \in {v \in Named : v.dir = d /\ v.entry.name = n}}
Resolve(path) == IF Len(path) = 1 THEN Lookup(Root, path[1])
                 ELSE UNION {Lookup(d, path[2]) : d \in Lookup(Root, path[1])}

\* However creators, whose first lookup takes no lock, and walkers interleave, and whichever
\* reads fail: no directory shows a name twice, no inode has two names, and every name shown leads
\* to an inode that is allocated and initialised.  What undoes it is the harm nobody notices: a
\* stale table block stored by an unlocked ext2_write, a second look that could not read the
\* directory, or an inode, a bitmap or zeros that did not reach the disk.
NamesSound ==
  harm = {} =>
    /\ \A v, w \in Named : v # w => v.entry.inode # w.entry.inode /\ (v.dir = w.dir => v.entry.name # w.entry.name)
    /\ \A v \in Named : v.entry.inode \in ibitmap /\ dirTable[v.entry.inode].kind # "none"

\* An entry that has become visible keeps its place, name and inode: ext2_create only ever adds
\* a block behind the directory's others.  Only harm nobody noticed can take it away.
EntriesStay == [][harm' # {} \/ Named \subseteq Named']_dirVars

\* What ext2_open answers.  A handle is of the file that the path names, or, when the file had
\* to be created, of one of the last component's name in the root, wherever the path led.  An
\* O_CREAT of a name in the root fails only without inodes or blocks, when another process
\* created the file between the two lookups, or when the call has met a disk error.
OpenOutcome ==
  \A p \in Opener : job[p].pc = "done" /\ harm = {} =>
    LET j == job[p] IN
    IF j.result # 0
      THEN j.result \in Resolve(j.path) \/ (j.creat /\ j.result \in Lookup(Root, Last(j.path)))
      ELSE j.creat /\ Len(j.path) = 1 =>
             \/ Resolve(j.path) # {} \/ j.err
             \/ used = 1 .. DirBlocks \/ Cardinality(ibitmap) >= (IGroups - 1) * IPerGroup

\* Every error exit gives ext2->lock back, and no call of ext2_open gets stuck, but for three
\* reasons: a failed write has left a directory block of zeros, which no walk gets past; harm
\* nobody noticed; or an ext2_write could not read its inode and has kept the lock, at which the
\* next ext2_create waits for ever.  (No step leads back to an earlier state, so calls that are
\* never stuck return.  A step that only a disk error could end counts as none.)
OpenReturns ==
  (\A p \in Opener : ~ENABLED (Step(p) /\ UNCHANGED dirErrors)) =>
    \/ broken \/ harm # {}
    \/ \A p \in Opener : job[p].pc \in {"idle", "done"} \/ (job[p].pc = "lock" /\ ext2lock = Writer)

\* A call of ext2_open ends, and as the path says: OpenOutcome and OpenReturns.
OpensSettle == OpenOutcome /\ OpenReturns
=============================================================================
