-------------------------------- MODULE Ext2 --------------------------------
(***************************************************************************)
(* Reading and writing files of an ext2 volume (drivers/ext2/ext2.c) by    *)
(* several processes.  fs.c serialises the calls on one file with its lock *)
(* (flock); what files share, the bitmaps, the free counts and the block   *)
(* of the inode table, is updated under the volume's lock by assign_block  *)
(* and without it at the end of ext2_write.                                *)
(*                                                                         *)
(* A block is an array of B cells; a cell holds a byte of data or a block  *)
(* number.  All the inodes are in one block of the inode table.  The byte  *)
(* a process writes at offset o of file f is Stamp(f, o), so a misplaced   *)
(* or lost byte shows.  Block numbers start at 0 with s_first_data_block   *)
(* 0, as the image's 4096-byte blocks have it.                             *)
(*                                                                         *)
(* Any access to the disk can fail.  Most results are looked at; those of  *)
(* writing a bitmap, the zeros of a fresh block, an indirect block or an   *)
(* inode are not, and `failed` and `lost` remember that it happened.       *)
(***************************************************************************)
EXTENDS Integers, SequencesExt, FiniteSetsExt

CONSTANTS Proc,        \* processes, each with a handle of its own
          File,        \* inode numbers
          GroupOf,     \* the block group of an inode
          DIRECT_BLOCKS,
          B,           \* block_size, and the fan-out of an indirect block
          Groups,      \* block groups of the volume
          PerGroup,    \* s_blocks_per_group
          Meta,        \* blocks mke2fs has allocated
          Offset,      \* offsets processes seek to before they write
          Count,       \* lengths of writes
          MaxWrites,   \* writes in a behaviour
          MaxErrors,   \* disk errors in a behaviour
          None

Block == 0 .. Groups * PerGroup - 1
Group == 0 .. Groups - 1
Slot == 0 .. DIRECT_BLOCKS + 2
Cell == 0 .. B - 1
BlocksOf(g) == g * PerGroup .. (g + 1) * PerGroup - 1

\* the driver allocates from no inode's group but 0 .. Groups - 2
ASSUME VolumeAssumption ==
  /\ Groups \in Nat \ {0, 1} /\ PerGroup \in Nat \ {0} /\ B \in Nat \ {0}
  /\ DIRECT_BLOCKS \in Nat
  /\ 0 \in Meta /\ Meta \subseteq Block
  /\ GroupOf \in [File -> 0 .. Groups - 2]
  /\ None \notin Proc

VARIABLES
  disk,      \* contents of the blocks
  bitmap,    \* blocks whose bit is set
  bg_free_blocks_count, s_free_blocks_count,
  table,     \* the inode table's block
  lock,      \* ext2->lock
  flock,     \* the lock of each open file, fs_open_file_t.lock
  file,      \* the file of each process's handle
  seek,      \* ext2_get_seek of the handle
  pc,        \* where each process is in ext2_write
  inode,     \* ext2_write's copy of the inode
  size,      \* the size ext2_write started from
  count,     \* bytes still to be written
  target,    \* the block assign_block returned
  buffer,    \* the table block set_inode has read
  written,   \* offsets of each file that hold written bytes
  unlocked,  \* files whose inode was last stored without ext2->lock
  lost,      \* an inode was overwritten with an older one
  failed,    \* accesses of assign_block to the disk that failed
  writes, errors   \* how many there were

volume == <<disk, bitmap, bg_free_blocks_count, s_free_blocks_count>>
locals == <<inode, size, count, target, buffer>>
ghosts == <<written, unlocked, lost, failed, errors>>
calls == <<file, writes>>
vars == <<volume, table, lock, flock, calls, seek, pc, locals, ghosts>>

\* what a block holds that nobody has written; read as a block number it and Stamp are beyond
\* the end of the volume, where read_block refuses
Junk == 99
Stamp(f, o) == 100 * f + o

NoInode == [i_block |-> [s \in Slot |-> 0], i_size |-> 0, i_blocks |-> 0]
NoTable == [f \in File |-> NoInode]

Init ==
  /\ disk = [b \in Block |-> [c \in Cell |-> Junk]]
  /\ bitmap = Meta
  /\ bg_free_blocks_count = [g \in Group |-> Cardinality(BlocksOf(g) \ Meta)]
  /\ s_free_blocks_count = Cardinality(Block \ Meta)
  /\ table = NoTable
  /\ lock = None
  /\ flock = [f \in File |-> None]
  /\ file \in [Proc -> File]
  /\ seek = [p \in Proc |-> 0]
  /\ pc = [p \in Proc |-> "idle"]
  /\ inode = [p \in Proc |-> NoInode]
  /\ size = [p \in Proc |-> 0]
  /\ count = [p \in Proc |-> 0]
  /\ target = [p \in Proc |-> 0]
  /\ buffer = [p \in Proc |-> NoTable]
  /\ written = [f \in File |-> {}]
  /\ unlocked = {} /\ lost = FALSE /\ failed = {} /\ writes = 0 /\ errors = 0

-----------------------------------------------------------------------------
\* the slots that lead to a file's block: one in the inode, then one in each
\* indirect block; none for an index beyond the triply indirect ones
Path(index) ==
  LET i1 == index - DIRECT_BLOCKS
      i2 == i1 - B
      i3 == i2 - B * B
  IN IF index < DIRECT_BLOCKS THEN <<index>>
     ELSE IF i1 < B THEN <<DIRECT_BLOCKS, i1>>
     ELSE IF i2 < B * B THEN <<DIRECT_BLOCKS + 1, i2 \div B, i2 % B>>
     ELSE IF i3 < B * B * B
       THEN <<DIRECT_BLOCKS + 2, i3 \div (B * B), (i3 % (B * B)) \div B, i3 % B>>
       ELSE <<>>

\* what read_block accepts as a block of a file
Readable(b) == b \in Block \ {0}

\* get_block: the block at index, 0 where the file is sparse, no block where one cannot be read
GetBlock(node, index) ==
  LET Follow(b, c) == IF Readable(b) THEN disk[b][c] ELSE b
      path == Path(index)
  IN FoldLeft(Follow, node.i_block[Head(path)], Tail(path))

\* the groups alloc_block tries, in its order: from the inode's own one
\* upwards, round to 0, and never the last
Order(g) == [k \in 1 .. Groups - 1 |-> (g + k - 1) % (Groups - 1)]

ClearBits(v, g) == {b \in BlocksOf(g) : b \notin v.bitmap}

\* Mutant: as if the volume's blocks started at 1
BlockNumberOff(bit) == bit + 1

\* the block of a bit; s_first_data_block is not added
BlockNumber(bit) == bit

\* an access to the disk in assign_block: reading a bitmap or an indirect block, writing the
\* bitmap, the zeros of the fresh block or the indirect block that points to it
Access == {"scan", "read", "bitmap", "zero", "link"}
NoFault == <<0, "none">>

\* the accesses in the order of the levels of the path; at most one of a call fails
Faults == {NoFault} \cup ((1 .. 4) \X Access)

\* the bit alloc_block takes in volume v, 0 when there is none; a group whose bitmap cannot be
\* read is passed over
Candidate(v, g, unread) ==
  LET counted(h) == v.bg_free[h] > 0
      skip == IF unread THEN SelectInSeq(Order(g), counted) ELSE 0
      groups == {k \in DOMAIN Order(g) : k # skip /\ counted(Order(g)[k]) /\ ClearBits(v, Order(g)[k]) # {}}
  IN IF groups = {} THEN 0 ELSE Min(ClearBits(v, Order(g)[Min(groups)]))

\* alloc_and_zero_block: the bit, the counts and the zeros; nobody looks whether the bit and the
\* zeros reach the disk
Zeroed(v, bit, unset, dirty) ==
  [v EXCEPT !.bitmap = IF unset THEN @ ELSE @ \cup {bit},
            !.bg_free[bit \div PerGroup] = @ - 1, !.s_free = @ - 1,
            !.disk[BlockNumber(bit)] = IF dirty THEN @ ELSE [c \in Cell |-> 0]]

\* not a block: assign_block found none
Full == -1

\* assign_block on volume v: walks the path from the inode (at = 0) and puts a
\* fresh block into every empty slot; at = Full once there is no block left or
\* an indirect block cannot be read
Assign(v, g, index, fault) ==
  LET Step(w, c) ==
        LET fails(what) == fault = <<w.depth, what>>
            held == IF w.at = 0 THEN w.inode.i_block[c] ELSE w.disk[w.at][c]
            bit == Candidate(w, g, fails("scan"))
            b == BlockNumber(bit)
            fresh == [Zeroed(w, bit, fails("bitmap"), fails("zero"))
                        EXCEPT !.inode.i_blocks = @ + 1, !.at = b, !.depth = @ + 1]
        IN IF w.at = Full THEN w
           ELSE IF w.at # 0 /\ (~Readable(w.at) \/ fails("read")) THEN [w EXCEPT !.at = Full]
           ELSE IF held # 0 THEN [w EXCEPT !.at = held, !.depth = @ + 1]
           ELSE IF bit = 0 THEN [w EXCEPT !.at = Full]
           ELSE IF w.at = 0 THEN [fresh EXCEPT !.inode.i_block[c] = b]
           ELSE IF fails("link") THEN fresh
           ELSE [fresh EXCEPT !.disk[w.at] = [w.disk[w.at] EXCEPT ![c] = b]]
  IN FoldLeft(Step, v, Path(index))

-----------------------------------------------------------------------------
At(p, l) == pc[p] = l
Goto(p, l) == pc' = [pc EXCEPT ![p] = l]
DiskFails == errors < MaxErrors /\ errors' = errors + 1

\* the end ext2_read stops at: it stops at the size in a block, but zeroes a
\* sparse block to its end
End(f) ==
  LET s == table[f].i_size
  IN IF s > 0 /\ GetBlock(table[f], (s - 1) \div B) = 0 THEN ((s + B - 1) \div B) * B ELSE s

\* what ext2_read copies: n bytes from offset o; it only moves the handle, and
\* nothing of the file changes while its lock is held
Bytes(f, o, n) ==
  LET len == IF o < table[f].i_size THEN Min({n, End(f) - o}) ELSE 0
      byte(i) == LET b == GetBlock(table[f], i \div B) IN IF b = 0 THEN 0 ELSE disk[b][i % B]
  IN [k \in 1 .. len |-> byte(o + k - 1)]

\* ext2_seek, then fs_write locks the file and ext2_write reads its inode
Write(p, o, n) ==
  /\ At(p, "idle") /\ flock[file[p]] = None
  /\ seek' = [seek EXCEPT ![p] = o]
  /\ writes < MaxWrites /\ writes' = writes + 1
  /\ flock' = [flock EXCEPT ![file[p]] = p]
  /\ inode' = [inode EXCEPT ![p] = table[file[p]]]
  /\ size' = [size EXCEPT ![p] = table[file[p]].i_size]
  /\ count' = [count EXCEPT ![p] = n]
  /\ Goto(p, "loop")
  /\ UNCHANGED <<volume, table, lock, file, target, buffer, ghosts>>

Index(p) == seek[p] \div B
Addressable(p) == Path(Index(p)) # <<>>

\* the block the next bytes go to: the one assign_block returned, or get_block's
Writing(p) == At(p, "assigned") \/ (At(p, "loop") /\ count[p] > 0 /\ Addressable(p))
Target(p) == IF At(p, "assigned") THEN target[p] ELSE GetBlock(inode[p], Index(p))

\* one block: as many bytes as are left and fit, read, replaced and stored
WriteBlock(p) ==
  /\ Writing(p) /\ Readable(Target(p))
  /\ LET len == Min({count[p], B - (seek[p] % B)})
         offsets == seek[p] .. seek[p] + len - 1
     IN /\ disk' = [disk EXCEPT ![Target(p)] =
                      [c \in Cell |-> LET o == Index(p) * B + c
                                      IN IF o \in offsets THEN Stamp(file[p], o) ELSE @[c]]]
        /\ seek' = [seek EXCEPT ![p] = @ + len]
        /\ count' = [count EXCEPT ![p] = @ - len]
        /\ written' = [written EXCEPT ![file[p]] = @ \cup offsets]
  /\ target' = [target EXCEPT ![p] = 0]
  /\ Goto(p, "loop")
  /\ UNCHANGED <<bitmap, bg_free_blocks_count, s_free_blocks_count, table, lock, flock, calls,
                 inode, size, buffer, unlocked, lost, failed, errors>>

\* every byte is written, or the file can have no such block, or the block or one on the way to
\* it cannot be read, or the disk fails to read or to write it
WriteLoopEnds(p) ==
  /\ \/ At(p, "loop") /\ (count[p] = 0 \/ ~Addressable(p)) /\ UNCHANGED errors
     \/ Writing(p) /\ Target(p) # 0 /\ ~Readable(Target(p)) /\ UNCHANGED errors
     \/ Writing(p) /\ inode[p].i_block[Head(Path(Index(p)))] # 0 /\ DiskFails
  /\ Goto(p, "update")
  /\ UNCHANGED <<volume, table, lock, flock, calls, seek, locals, written, unlocked, lost, failed>>

WriteSparse(p) ==
  /\ At(p, "loop") /\ Writing(p) /\ Target(p) = 0
  /\ Goto(p, "assign")
  /\ UNCHANGED <<volume, table, lock, flock, calls, seek, locals, ghosts>>

\* Mutant: assign_block does not take the lock
Unguarded(p) == At(p, "assign")

Guarded(p) == At(p, "assign") /\ lock = None

\* assign_block up to its set_inode
AssignBlock(p) ==
  /\ Guarded(p)
  /\ lock' = p
  /\ \E fault \in IF errors < MaxErrors THEN Faults ELSE {NoFault} :
       LET v == [at |-> 0, depth |-> 1, inode |-> table[file[p]], disk |-> disk, bitmap |-> bitmap,
                 bg_free |-> bg_free_blocks_count, s_free |-> s_free_blocks_count]
           assigned(x) == Assign(v, GroupOf[file[p]], Index(p), x)
           w == assigned(fault)
       IN /\ IF fault = NoFault THEN UNCHANGED <<failed, errors>>
             ELSE w # assigned(NoFault) /\ DiskFails /\ failed' = failed \cup {fault[2]}
          /\ inode' = [inode EXCEPT ![p] = w.inode]
          /\ disk' = w.disk /\ bitmap' = w.bitmap
          /\ bg_free_blocks_count' = w.bg_free /\ s_free_blocks_count' = w.s_free
          /\ target' = [target EXCEPT ![p] = w.at]
  /\ Goto(p, "set_read")
  /\ UNCHANGED <<table, flock, calls, seek, size, count, buffer, written, unlocked, lost>>

\* its get_inode fails: it returns without releasing the lock
AssignFails(p) ==
  /\ At(p, "assign") /\ lock = None
  /\ DiskFails
  /\ lock' = p
  /\ Goto(p, "update")
  /\ UNCHANGED <<volume, table, flock, calls, seek, locals, written, unlocked, lost, failed>>

\* Mutant: the size is set whether or not the file has grown
UpdateAlways(p) ==
  /\ At(p, "update") /\ seek[p] # size[p]
  /\ inode' = [inode EXCEPT ![p].i_size = seek[p]]
  /\ Goto(p, "update_read")
  /\ UNCHANGED <<volume, table, lock, flock, calls, seek, size, count, target, buffer, ghosts>>

\* update_inode, when the file has grown
Update(p) ==
  /\ At(p, "update") /\ seek[p] > size[p]
  /\ inode' = [inode EXCEPT ![p].i_size = seek[p]]
  /\ Goto(p, "update_read")
  /\ UNCHANGED <<volume, table, lock, flock, calls, seek, size, count, target, buffer, ghosts>>

\* ext2_write and fs_write return; the locals are gone, and so is the position
\* since the next call seeks first
Return(p) ==
  /\ seek' = [seek EXCEPT ![p] = 0]
  /\ Goto(p, "idle")
  /\ inode' = [inode EXCEPT ![p] = NoInode]
  /\ size' = [size EXCEPT ![p] = 0]
  /\ count' = [count EXCEPT ![p] = 0]
  /\ target' = [target EXCEPT ![p] = 0]
  /\ flock' = [flock EXCEPT ![file[p]] = None]

UpdateNothing(p) ==
  /\ At(p, "update") /\ seek[p] <= size[p]
  /\ Return(p)
  /\ UNCHANGED <<volume, table, lock, calls, buffer, ghosts>>

\* set_inode reads the block of the inode table ...
SetRead(p) ==
  /\ pc[p] \in {"set_read", "update_read"}
  /\ buffer' = [buffer EXCEPT ![p] = table]
  /\ Goto(p, IF At(p, "set_read") THEN "set_write" ELSE "update_write")
  /\ UNCHANGED <<volume, table, lock, flock, calls, seek, inode, size, count, target, ghosts>>

\* ... and writes it back with this inode replaced, or the disk fails and
\* nobody looks at the result
Store(p) ==
  /\ buffer' = [buffer EXCEPT ![p] = NoTable]
  /\ \/ /\ table' = [buffer[p] EXCEPT ![file[p]] = inode[p]]
        /\ lost' = (lost \/ \E f \in File \ {file[p]} : table[f] # buffer[p][f])
        /\ UNCHANGED errors
     \/ DiskFails /\ lost' = TRUE /\ UNCHANGED table

SetWrite(p) ==
  /\ At(p, "set_write")
  /\ Store(p)
  /\ unlocked' = unlocked \ {file[p]}
  /\ lock' = None
  /\ Goto(p, IF target[p] = Full THEN "update" ELSE "assigned")
  /\ UNCHANGED <<volume, flock, calls, seek, inode, size, count, target, written, failed>>

UpdateWrite(p) ==
  /\ At(p, "update_write")
  /\ Store(p)
  /\ unlocked' = unlocked \cup {file[p]}
  /\ Return(p)
  /\ UNCHANGED <<volume, lock, calls, written, failed>>

Next ==
  \E p \in Proc :
    \/ \E o \in Offset, n \in Count : Write(p, o, n)
    \/ WriteBlock(p) \/ WriteLoopEnds(p) \/ WriteSparse(p)
    \/ AssignBlock(p) \/ AssignFails(p)
    \/ Update(p) \/ UpdateNothing(p) \/ SetRead(p) \/ SetWrite(p) \/ UpdateWrite(p)

Spec == Init /\ [][Next]_vars

-----------------------------------------------------------------------------
\* the pointers of a file: the slots of its inode, and the cells of the
\* indirect blocks they lead to, level by level
Below(blocks) == UNION {{<<b, c, disk[b][c]>> : c \in Cell} : b \in blocks}
Held(pointers) == {q \in pointers : q[3] # 0}
Ends(pointers) == {q[3] : q \in Held(pointers)}

InUse(f) ==
  LET slot(k) == {<<-f, s, table[f].i_block[s]>> : s \in k}
      one == slot({DIRECT_BLOCKS})
      two == slot({DIRECT_BLOCKS + 1})
      three == slot({DIRECT_BLOCKS + 2})
      below2 == Below(Ends(two))
      below3 == Below(Ends(three))
      deeper3 == Below(Ends(below3))
  IN Held(slot(Slot) \cup Below(Ends(one)) \cup below2 \cup Below(Ends(below2))
          \cup below3 \cup deeper3 \cup Below(Ends(deeper3)))
BlocksIn(f) == Ends(InUse(f))

\* nothing of the volume was left half done: no bit that did not reach the bitmap, no block
\* that still holds what it held before
Whole == failed \cap {"bitmap", "zero"} = {}

(* No block is reached from two pointers, of one file or of two, none of     *)
(* them is metadata, and the bit of each is set: whatever writers race, run  *)
(* out of blocks or lose an inode, alloc_block never hands out a block in    *)
(* use.  Two errors nobody looks at undo this: a bit that is not written,    *)
(* whose block is handed out again, and an indirect block that is not        *)
(* zeroed, whose old contents are taken for block numbers.                   *)
NoSharedBlock ==
  Whole =>
    LET all == UNION {InUse(f) : f \in File}
    IN /\ Ends(all) \subseteq bitmap \ Meta
       /\ \A q, r \in all : q[3] = r[3] => q = r

\* nobody writes the file, and no error has undone what was written
Quiet(f) == flock[f] = None /\ ~lost /\ Whole /\ "link" \notin failed

(* The free counts are the clear bits, of each group and of the volume, but  *)
(* for bits whose write failed, which stay clear and are counted as taken;   *)
(* i_blocks of a file is the number of blocks it has, indirect ones          *)
(* included, also when a write ran out of blocks or could not read its way   *)
(* half way down.  BlocksExact is this and NoSharedBlock.                    *)
CountsExact ==
  LET off == IF "bitmap" \in failed THEN 1 .. MaxErrors ELSE {0} IN
  /\ \A g \in Group : Cardinality(BlocksOf(g) \ bitmap) - bg_free_blocks_count[g] \in off \cup {0}
  /\ Cardinality(Block \ bitmap) - s_free_blocks_count \in off
  /\ \A f \in File : Quiet(f) => table[f].i_blocks = Cardinality(InUse(f))

BlocksExact == NoSharedBlock /\ CountsExact

(* Every byte written is inside the file, and the file reads as what was     *)
(* written to it and as zeros where nothing was, to its end and in the rest  *)
(* of a sparse last block, which ext2_read also returns.  Lost are bytes     *)
(* only after a lost inode, a bit, zeros or an indirect block that did not   *)
(* reach the disk; all other errors end a write and harm nothing.            *)
ReadsBack ==
  \A f \in File : Quiet(f) =>
    LET read == Bytes(f, 0, table[f].i_size + B)
    IN /\ written[f] \subseteq 0 .. table[f].i_size - 1
       /\ Len(read) >= table[f].i_size
       /\ \A k \in DOMAIN read :
            read[k] = IF k - 1 \in written[f] THEN Stamp(f, k - 1) ELSE 0

(* An inode is lost only to a disk error or to the store at the end of       *)
(* ext2_write, which is made without the volume's lock: two assign_blocks    *)
(* never undo each other.                                                    *)
LostOnlyUnlocked ==
  [][lost' /\ ~lost =>
       \/ errors' # errors
       \/ \E p \in Proc : pc'[p] # pc[p] /\
            \/ At(p, "update_write")
            \/ /\ At(p, "set_write")
               /\ {f \in File \ {file[p]} : table[f] # buffer[p][f]} \subseteq unlocked]_vars
=============================================================================
