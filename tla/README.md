# A TLA+ verification of ModulOS

ModulOS is an x86-64 kernel for several processors: preemptive scheduling, a
page allocator with deferred frees and TLB shootdowns, a heap, processes with
fork, execve, exit and wait, a file layer with ext2 and devfs, an AHCI driver
and a serial terminal. This directory holds TLA+ models of it, the TLC
configurations that check them on small instances, and TLAPS proofs for any
size. `PROJECT.json` lists the runs, the source lines behind each definition,
the hazards the properties are aimed at, and the mutants that show each
property can fail.

    tlc -config Shootdown.cfg MCShootdown     one run
    tlapm ShootdownProofs.tla                 the proofs of one component

## Inventory

| component | state | operations | interacts with |
|---|---|---|---|
| deferred frees, TLB shootdown (`core/mm.c`, `apic/ipi.c`) | `pending_free`, `transaction_list`, `disarm_list`, one TLB per CPU | `mm_free_v`, `mm_free_p_ident`, the thread `free_all_pending`, the shootdown interrupt | wait queues, paging, range allocator |
| scheduler and wait queues (`core/scheduler.c`, `core/signal.c`) | `active_queue`, `sleep_queue`, `sched_cntr`, queue of each `signal_wait_t` | `scheduler_schedule`, `scheduler_run` (timer), `signal_wait`, `signal_awake`, `process_sleep` | everything that blocks |
| process life cycle (`core/process.c`) | PCBs, `reap_queue`, child tables, `plock` of each PCB | fork, execve, exit, kill, discard, reap, wait | scheduler, heap, files, paging |
| address spaces (`core/paging.c`) | page tables, upper half shared, `cr3` of each CPU | map, duplicate, free, switch | processes, range allocator |
| loader (`core/elf.c`) | segment regions, the image, the first stack | load, overwrite | files, paging |
| range allocator (`core/mm.c`) | two sorted lists of free ranges, cached list nodes | `mm_init`, `mm_alloc_max`, `mm_free` | heap, paging, shootdown |
| heap (`core/alloc.c`) | arenas of headed blocks, a free list each | `kmalloc`, `kfree`, `alloc_init` | all |
| containers (`lib/array_list.c`, `lib/hash_table.c`) | buffer, count, hint; chains | push, set, remove, clear, copy; insert, remove, get, resize | descriptor and child tables, open table |
| files (`core/fs.c`, `core/semaphore.c`, `core/syscall_dispatch.c`) | mounts, open table with reference counts, descriptor tables | openat, close, dup, dup2, ccwd, read, write, seek, directory calls | ext2, devfs, processes |
| devfs, terminal (`devfs/*.c`) | node tree; ring with four indices, escape state | open, `tty_read`, `tty_queue_read` (serial interrupt) | wait queues, files |
| ext2 (`drivers/ext2/ext2.c`) | bitmaps, inodes, block trees, directories | open with create, read, write, seek, directory reads | disk, files |
| AHCI, disk, GPT (`drivers/{ahci,disk,gpt}`) | command slots and tables, port locks, disk list | read, write, flush, port set-up, search for volumes | ext2 |
| PCI Express (`drivers/pcie`) | mapped configuration space | walk over buses, start of drivers | AHCI |
| processors (`apic/apic_init.c`, `core/ap.S`, `core/kentry.c`) | arbitration ids, init locks, barrier entries | start of each application processor | shootdown, scheduler, heap |
| interrupt routing (`ioapic/*.c`, `core/idt.c`) | redirection entries, vectors | route ISA interrupts, SCI, NMI, serial | terminal |
| userland (`userland/init`, mlibc port) | | init's loop; library calls as sequences of system calls | files, processes |
| ACPI and timer registers, exceptions, logging, string primitives | one-time initialisation, output | | |

What is hard in this code: a process runs kernel code with interrupts enabled,
so a timer tick can stop it anywhere, also while it holds a spinlock; the
interrupt then takes locks itself. Waiting is *test, then ask the next tick to
park me*, so a wakeup can fall into the gap unless a lock is handed to the
interrupt. Other CPUs are reached only by IPIs and answered through a barrier
that the handlers clear without its lock. Counters, indices and child tables
are updated in more than one step while interrupts or other CPUs read them.
Disk errors and lack of memory leave operations half done. Nothing persists
across a crash except the ext2 volume, which has no recovery.

What makes the parts correct: no page is reused while a CPU can translate it;
a PCB is in exactly one place and is freed once; a wakeup is not lost; a
process reads what it wrote and nobody else did; ranges and blocks are
conserved, disjoint and merged; a reference count is the number of handles; a
path means what it says; a name leads to one allocated inode; a transfer
happens once between call and answer; a byte that was typed is read once and in
order; a container is the table or dictionary its users take it for.

## Modules

Processes and memory:

* **Shootdown** models the free path end to end. Pages move from the free list
  through allocated, mapped, unmapped, pending and retiring back to the free
  list; `Touch` lets any CPU cache a mapped page. `free_all_pending` is a
  program counter (`worker`) with one action per step that another CPU can see.
  The interrupt is `Dispatch` (read the list head), `Invlpg` (one entry),
  `Disarm` and the two locks of `signal_awake` (`HandlerAwake`, `HandlerSched`).
  The callers of a free take the same two locks with interrupts enabled, and
  any other process may hold `lock_sched`; a tick or an IPI can stop each of
  them, so an interrupt can spin on a lock whose holder does not run
  (`Spinning`, for ever: `Jammed`). A processor registers before it enables its
  APIC, and an IPI in between is dropped (`lost`). APIC ids (under which entries
  are registered) and arbitration ids (under which they are disarmed) are two
  constants, because the code uses both.
* **Scheduler** models `scheduler_run`, `signal.c` and the life cycle of one
  parent and one child with the reaper. A process has a program counter and
  moves only while it is current on a CPU outside the interrupt (`Runs`); the
  timer moves a CPU through `switch`, the stages of `process_discard`, and
  `pick`. Locks taken in process context span steps, so the interrupt can find
  them held. `Jammed` names the three ways the model shows the kernel can stop.
* **Family** models the hierarchy: fork, execve, exit, wait for a child or any,
  orphans, and init's loop. How a wait blocks is Scheduler's; here it goes on
  when its child is a zombie. Init's table is used by init and the reaper at
  once, so an insertion and a removal take two steps each; `raced` is the first
  collision, after which the kernel uses freed memory and the model stops. The
  polling `waitpid` of init's inner loop answers the pid it was asked for, -1,
  so the loop ends after each zombie and init goes on to the blocking call.
* **AddressSpace** models page tables as a map per pml4, the frames and what
  they hold, and `cr3` of each CPU, which a kernel thread leaves alone. It has
  fork, execve with its separate load and swap, alloc, memory running out, exit,
  the reaper and the context switch. The kernel clears no frame: a word that
  neither the file nor the process has stored to is what the frame's last owner
  left (`Left`; the library clears what its own allocator asks for, which the
  kernel does not know of). `wrote` is what was last put in a page for its own
  process. A pml4 or page table that fork could not allocate is at address 0
  and the model stops there (`adrift`). Left out: a table that runs out inside
  `paging_map_proc`, whose result the callers ignore, so that the page stays
  unmapped and its frame is lost.
* **Elf** is the layout of an image: segments to regions in whole pages, merged
  or refused, mapped, headers above, strings and pointers on the first stack.
  Every file of up to `MaxSegs` segments is an initial state. The wrap of
  `p_vaddr + p_memsz` beyond 2^64 is out of its bounds.
* **PageAllocator** models `mm_init`, `mm_alloc_max` and `mm_free`. The linked
  list in address order is the set of its nodes; each call is one critical
  section of `p_lock`, hence one action.
* **Heap** models `kmalloc` and `kfree`: headers by offset, the free list as a
  sequence, one step per arena visited; application processors call
  `alloc_init` meanwhile. **HeapSpec** is what it promises: a block handed out
  is large enough and touches neither a held block nor its header.
* **ArrayList** implements **SlotTable** (the descriptor table: lowest free
  slot, nothing else moves); **HashTable** implements **Dictionary**.

Files:

* **OpenFiles** models handles: each system call becomes a list of opens, dups
  and closes, each of which goes through the semaphore and the open table in
  single loads and stores. `raced` turns true when a store overwrites an update
  made after its load, or two opens insert at once; the model stops there. An
  open goes through the semaphore twice (`find_mount`, then the table) and may
  find no file in between. A process that reads a terminal sleeps with the lock
  of the file (`flock`); `fs_close` takes that lock, after the last close has
  freed the file around it (`Spins`).
* **Vfs** models what is behind a descriptor: `find_mount`'s backward cleaning
  of a path (`Clean`) and choice of a mount, openat relative to the working
  directory or to a descriptor, the handle operations under the file's lock, devfs, and library calls as programs of system calls that end at
  the first failure. `Normalise` is the forward reading `Clean` is held against.
* **Ext2** models the contents of files: `alloc_block` over groups and bitmaps,
  the block tree as one `Path` of slots that `get_block` follows and
  `assign_block` fills, and `ext2_write` with a step per disk access that
  another writer can come between. A byte carries its file and offset, so
  `ReadsBack` compares what `ext2_read` returns with what was written. `lost`
  turns true when a store of the inode table's block overwrites a newer inode.
  Any access of `assign_block` may fail, one in a call (`Faults`): a bitmap or
  an indirect block that cannot be read, or a bit, the zeros of a fresh block or
  a pointer to it that is not written, which nobody looks at (`failed`). Not in
  it: failures of `sync_meta`, whose copy of the counts is written again by the
  next call, and inodes of the last group.
* **Ext2Dir** models names: walks that read the volume afresh for every entry
  without a lock, `ext2_create` with its two lookups, `alloc_inode`, and beside
  them an `ext2_write` that stores its inode without the lock, or keeps the lock
  when it cannot read its inode (`Writer`). Any access may fail, one in a step.
  `harm` is the set of mishaps the code does not notice: a `"stale"` table
  block stored, a second `"lookup"` that could not read the directory, an
  `"inode"`, a bit of the `"inodes"` or `"blocks"`, or the `"zeros"` of a block
  that did not reach the disk (the last matters only together with a failed
  write of the entry). `broken` is a directory block a failed write has left as
  zeros. Left out: the read of the fresh directory block, through whose null
  result `ext2_create` would write, and directories with indirect blocks.

Devices and processors:

* **Ahci** models commands of several threads on the slots and ports of one
  adapter, the adapter executing or failing them, and the initialisation thread
  that sets up port after port and looks for volumes while the first volume is
  in use. It implements **DiskSpec**: a transfer happens once between call and
  answer, on its own sector and buffer, and a failed one never: that a failed
  command has no effect, and that an idle device clears BSY and DRQ, for which
  the driver waits with the port's lock held, is assumed of the adapter.
* **Boot** models the BSP's walk over the MADT and the trampoline in which
  processors draw their ids. `IdsExact` is what Shootdown assumes of `ArbId`.
* **IoApic** models the routing of interrupts from the firmware's tables (the
  destination of a pin is left out: the serial ports' is APIC id 0, not the boot
  processor's), **Pcie** the recursive walk over the buses with `stack` for its frames.
* **Tty** models the ring and the line editor. `screen` and `cursor` are what
  the echo has put on the terminal, `pipe` is what was committed and not read.
  `tty_read` stores `read_index` twice in the unoptimised build; the model
  allows one or two stores. Control bytes other than newline, backspace and
  escape, TAB among them, are not typed.

The TLAPS proofs are in **ShootdownProofs**, **SchedulerProofs**,
**FamilyProofs**, **MemoryProofs** (PageAllocator, ArrayList and Heap),
**DeviceProofs** (Ahci, Boot and Tty), **AddressSpaceProofs**,
**OpenFilesProofs** and **Ext2Proofs** (Ext2Dir and Ext2), each of which extends the modules it
is about. The `MC*` modules give values to constants. MCMemory, MCFiles, MCExt2, MCProcesses and
MCDevices hold several components that are checked in one run but do not
interact there: the variable `part` says which of them moves in a behaviour,
the others keep an initial state, and fairness and the invariants that only
concern one are guarded by `part`. Components that do interact are composed in
their modules (Scheduler with signal.c and process.c, Shootdown with paging,
Ahci with gpt and ext2's start, Vfs with devfs and the library).

Every module keeps the mutated definitions used in `PROJECT.json` next to the
definition they mutate, marked `Mutant`.

## Runs

| run | bounds | shows |
|---|---|---|
| shootdown | 2 CPUs, 1 virtual page, 1 frame, 1 caller, another process that takes lock_sched | no stale translation, no freed node walked; the barrier comes down and frees complete, up to a dropped IPI, an interrupt that spins for ever and the missed-wakeup gap |
| scheduler_life | 2 CPUs, parent, child, reaper, one execve | one place per PCB, no lost exit wakeup, the dead stay dead |
| scheduler_live | 2 CPUs, parent, child, reaper | exits become zombies, waits return, unless jammed |
| scheduler_sleep | 1 CPU, a sleeping thread, the reaper, sleeps of 1 or 2 | no sleeper is kept for ever |
| scheduler_due | 1 CPU, 2 threads | **violated**: the scan leaves due sleepers |
| memory | 5 firmware segments in half pages, sizes 0-4, 4 alignments, 2 limits; 2 threads, 2 arenas, 3 sizes, one AP start; 5 slots; 4 keys, 1-3 buckets | ranges coalesced, disjoint, conserved, requests honoured; arenas tiled, merged, held blocks marked; the three refinements |
| files | 2 processes, 2 paths, 3 files, 2 descriptors, 3 calls each; 2 clients, 2 library calls in all, paths relative to the working directory and to a descriptor; all paths of up to 4 components of 6 | reference counts, exclusion, no dangling handle; paths and listings exact; calls return, up to the locks named |
| ext2 | 2 writers, 2 files, 1 direct slot, blocks of 2, 6 free blocks, 3 writes, 1 disk error; 2 openers, 3 paths, 2 opens in all, 1 disk error or unlocked store | no block shared, counts exact, files read back, names and inodes one to one, entries stay, opens settle, up to the mishaps the code does not notice |
| processes | 4 processes; 2 user processes, 2 CPUs, 3 spaces, 3 frames, 2 pages, 1 execve; files of up to 3 segments, 0-2 arguments and variables | families consistent, memory private up to what uncleared frames held, live page tables under user processes, images and stacks sound, orphans reaped unless init waits for a living child |
| devices | 2 clients and the driver thread, 2 ports, 2 slots, 1 call each, 1 failure; 4 processors in every MADT order; 2 readers, ring of 3; 3 sets of I/O APICs, up to 2 overrides; 3 buses, every topology of 6 functions and 5 bridge layouts | slots exclusive, DiskSpec implemented, ids distinct, nothing stuck, lines delivered as shown, losses only in named windows, readers served, interrupts routed, drivers started once |
| orphans | 4 processes: init, a shell and two children of it | **violated**: an orphan stays a zombie while init waits for another |
| overlap | files of up to 3 segments | **violated**: an overlap with other permissions is accepted |

Why these bounds are enough to be of use: one caller frees a page and a frame
while the worker retires an earlier round and a second CPU comes up or answers,
each lock of `signal_awake` has two contenders and a holder that can be
stopped, and safety with more CPUs, pages and callers, or with ids that
disagree, is proved; two CPUs are the fewest on which one
runs a process while the other's interrupt handles a second one; four
processes are init, a shell, its child and grandchild, so that an orphan has a
child and two orphans meet in init's table; three spaces are two processes and
one that is being loaded; a ring of three holds a line edited in its middle
and wraps within a few bytes; five firmware segments cover each branch of
`mm_init`; 12 heap units allow three blocks and every merge; six free blocks
let one file reach a triply indirect block and two files fill the volume half
way down a chain; three segments are the fewest in which a merge meets a
third; two ports with two slots let three threads compete, and one find none.
Bounds that are only there for TLC (`MaxCalls`, `MaxLag`, `ListLimit`,
`MaxCount`, `MaxWrites`, `MaxErrors`, `MaxOpens`, `MaxMishaps`,
`MaxExecs`, `MaxPid`, `MaxFds`, `MaxLibCalls`, `MaxDepth`, `MaxApBoots`) are
constants named in their modules.

`CHECK_DEADLOCK` is off in every configuration: no process is obliged to call
anything, and several of the models stop where the kernel's memory is corrupt.
That nothing else stops is stated where it matters, as an invariant with
`~ENABLED`: `OpsReturn`, `OpensSettle`, `NothingStuck`. Each step of the calls
they speak of brings the call nearer to its end, so a call that is never stuck
returns.

Fairness: the scheduler is round robin, so a process that is inside a kernel
call runs again (weak fairness of its steps; strong in Scheduler, where each
preemption disables them); the interrupt handlers and the clock do not stop,
except where they spin on a lock, which is then the step that is waited for.
In Shootdown `lock_sched` goes to one that spins on it when it is free again
and again, and a process that is resumed again and again gets past the few
instructions under the wait's lock (strong fairness of `Scheduling` and
`AwakeTake`); that a lock is never free again is not excluded but named
(`Jammed`). Nothing is assumed about what processes call, whether they exit, or what is
typed.

## Proofs

Each theorem is proved for every value of the constants, under the named
assumptions of its module, and by an invariant that is stronger than the
property: the paragraphs say which and why. TLC evaluates the assumptions in the
runs and checks the same properties there on small instances.

**ShootdownProofs**: every finite set of CPUs, all sets of pages and callers
and every assignment of distinct APIC ids and distinct arbitration ids
(`IdAssumption`; that arbitration ids are distinct is what DeviceProofs proves).

* `TypeCorrect`: `Spec => []TypeOK`.
* `Inductive`: `Spec => []IInv`. `NoStaleTranslation` alone is not inductive:
  one has to know that a page being retired is in no other place
  (`PagesDisjoint`), that rounds do not overlap (`QuietBetweenRounds`), what a
  TLB can hold at each stage of a CPU's answer (`CacheBound`), and why a clear
  entry means a CPU has answered although handlers clear entries under another
  id (`BarrierInv`: each clear entry of a round is owed to a different CPU that
  is done).
* `NoStale` and `NoFreedNodeWalked`: the two safety properties. The step that
  needs care is the worker's poll: all entries of the round are clear, each is
  owed to its own CPU, and by a counting argument (`ClearBarrier`, an injection
  of a finite set into itself is onto) every CPU of the round is done.

**SchedulerProofs**: any CPUs, any finite set of further threads, any images
for execve, any sleep times (`SchedAssumption` says who is who: parent, child,
reaper, threads and images are different PCBs).

* `PcbInOnePlace` (`OnePlace`), `WakeupsNotLost` (`NoLostWakeup`),
  `TheDeadStayDead` (`DeadStayDead`), all from `SchedInv`.
* `OnePlace` counts occurrences of a PCB over all queues, CPUs and lists in
  flight. The proof does not count: `SchedInv` says that there are two functions,
  the kind of place each PCB is in and the CPU or process that owns that place,
  such that every queue, `current`, `isrObj` and list in flight holds exactly
  the PCBs these functions send there (`Located`), and no queue has one twice
  (`Unique`). An action that moves a PCB changes the two functions at one
  point, or at the points of a list (`MoveExists`, `MoveAllExists`), and one
  that moves none keeps them (`NothingMoved`, `LocalStep`). Only at the end is
  the count taken (`PlacesCounted`).
* What a place says of the state of a PCB (`Settled`), where CPUs, the reaper
  and lists in flight stand (`CpuControl`, `ReaperControl`, `ListControl`),
  which callbacks can be pending (`CallbackControl`) and what the dead may do
  (`DeadControl`) are needed to know that a PCB that is handed on was in the
  place it is taken from.
* `Handshake` is the argument for the wakeup: from the parent's look at the
  child to the callback that parks it the parent holds `plock`, and the reaper
  holds it from before the child becomes a zombie until the queue is taken. It
  is stated, as the two properties are, until an execve overwrites the lock
  (`torn`).

**FamilyProofs**: any number of processes (`FamilyAssumption`). `FamiliesExact`
(`FamilyExact`) needs that tables of the unborn, zombies and the freed are
empty, that init's list has no process twice and init only works on entries of
it, that the orphan between two tables is in neither, and that the reaper's
lists hold killed processes once (`FamInv`). It is stated up to `raced`.

**MemoryProofs**, page allocator: any page size, firmware map, alignments, sizes and
limits (`PageAssumption`). `FirmwareAssumption` says that no address is usable
in two segments, which the code takes for granted: `insert_node` would notice
only some overlaps.

* `FreeListSound` (`PagesSound`): nodes coalesced and disjoint, no address free
  and used, every accepted address one or the other. It needs that nodes are
  whole pages (`Paged`) and that what mm_init has accepted comes from segments
  it has visited (`Visited`), hence does not meet the next one. Inserting a
  range and cutting one out of a node are lemmas about sets of nodes
  (`InsertSound`, `CutSound`).
* `RequestsHonoured` (`HonoursRequest`): the arithmetic of rounding and padding
  for every alignment.

**MemoryProofs**, array list: any capacity, growth, limit and word size.
`ListImplementsTable` (`ImplementsTable`): the steps of the list are steps of
SlotTable under the mapping `Slots`. It needs `HintLow`: nothing below the
hint is free. That the scan finds the lowest free slot rests on
`LeastNatural`, taken from the well-foundedness of `<`: the library's
induction rules have operator parameters, which the provers cannot
instantiate.

**MemoryProofs**, heap: any threads, arenas, requests, alignment and sizes of
header and arena (`HeapAssumption`). `ArenasAreSound` (`ArenasSound`) and
`HeapKeepsPromise` (`ImplementsPromise`: each step is a step of HeapSpec or
leaves `held` alone) are both from `HeapInv`:

* `Sound` is about the headers of one arena and its list, not about variables:
  blocks are linked in both directions up to the end (`Chained`), no header is
  inside another block (`Apart`, which `ArenasSound` leaves out and which tells
  that a split makes a header where there was none), the list is exact
  (`Listed`) and neighbours are merged (`MergedBut`). Between the two halves
  of kfree one block may have a free neighbour behind it, which is why
  `MergedBut` can leave a block out.
* Both merges of kfree are the same operation on headers (`Joined`); what it and
  a split do to every header is stated once (`JoinsTo`, `SplitsTo`), and that
  the arena stays tiled follows from that.
* `HeldOK`: a caller's block is a used one, large enough, and no block has two
  callers. Two blocks held are then disjoint because blocks are (`HandOut`).
  The rounding of a request is only used in that it does not make it smaller.
* `CallsOK`: arenas reached from `arena_head`, from a link or by a call are
  built. That is all the proof needs of the list of arenas, so alloc_init on
  another processor, which empties it, loses arenas and breaks none.

**DeviceProofs**, AHCI: any clients, ports, slots and sectors (`AhciAssumption`: the
driver's thread is not a client, and a disk has a sector).

* `CommandSlotsExclusive` (`SlotsExclusive`) needs that the port's lock is held
  exactly from issue to the end of the polling (`OwnPort`) and that a filled
  table stays its command's (`OwnTable`).
* `AhciImplementsDisk` (`ImplementsDisk`): each step of driver and adapter is a
  step of DiskSpec or a stutter under `AsCall`, up to the first command without
  a slot (`outpaced`). It further needs that `PxIS` speaks of no earlier command
  (`FreshError`) and that a transfer has happened exactly when its bit in
  `PxCI` is clear (`DoneExact`). The thread that sets up ports touches commands
  only by making calls (`IoStep`), so it is out of the way from there on.

**DeviceProofs**, boot: any finite set of processors, in any order of the MADT.
`ArbitrationIdsExact` (`IdsExact`): `AP_ID` is the number of processors that
have stored it, and the trampoline's lock keeps one processor between load and
store (`Ticket`); the lock array is not overrun because each processor is
started once (`StartedOnce`). `BspListedFirst` is the part of `BootCompletes`
that is not about ENABLED.

**DeviceProofs**, terminal: any readers, any ring of at least two cells, any
bytes typed (`TtyAssumption`). Positions are counted from `read_index`
(`CellAt`), which makes the four indices three lengths: the bytes to be read,
the line, and the cursor in it (`RingOrder`, `RingContents`).

* `TerminalLinesExact` (`LinesExact`), up to the first overrun. FULL compares
  `read_index` with the cell behind the cursor and not with the one behind the
  line, so a cursor in the middle of the line could let a newline or a byte
  through into a full ring. The invariant says why it does not: if only one cell
  is left the cursor is at the end of the line, because FULL then keeps cursor
  movements away as well.
* `LossesOnlyInWindows` (`LossOnlyInWindows`): `read_index` is out of range only
  while the reader with the lock is between its two stores (`ReaderAlone`), so
  an overrun falls there, at the wrap; a wakeup is lost only by a reader between
  its test and its parking.

**AddressSpaceProofs**: any CPUs and processes, any sets of spaces, of finitely
many frames and of finitely many pages, any image (`SpaceAssumption`).

* `MemoryIsPrivate` (`MemoryPrivate`) and `SpacesAreSound` (`SpacesSound`), both
  from `ASInv`. What a process reads depends on every table that maps the same
  frame, so the invariant is about all spaces: a frame that a live space maps
  is in use and mapped once (`Frames`), the spaces of two processes are
  different and none of them is freed or waits for the reaper (`Exclusive`),
  and every page of a space in use holds what `wrote` says (`Contents`). Which of `cr3` and `old_cr3`
  is which in the middle of an execve is `Own` and `Loading`; that a running
  process is on one CPU, whose register is its `cr3`, is `Running`. `Kernel`
  says why sharing of the upper half needs no work after boot:
  `paging_ensure_mapped` comes before the first space.
* That an allocation gives different frames to different pages is
  `GiveProperties`, by counting the lower pages (`RankDiffers`).
* Two exceptions of the properties are there because the proof needs them, and
  the code has them: a page forked from frame 0 starts as whatever that frame
  holds, and after a load that ran out of memory the space the CPU is on has
  been freed, so that (with three processes) it may be another's before the
  load is undone.

**OpenFilesProofs**: any finite set of processes, any files, paths, descriptors
and calls (`FilesAssumption`: `cap` is above the number of processes; it is
`SEMAPHORE_CAP_UNLIM`). `FilesAreExact` (`FilesExact`), up to the first lost
increment (`raced`), from `FInv`:

* `Semaphore`: `rem` is `cap` less the calls inside, or a closer is alone inside
  and it is 0. Only with `cap` above the number of processes does 0 mean the
  latter.
* `Counted`: `refs` is the number of holders, each a slot, an operation that has
  counted its handle and not yet placed it, or a close to come. Each step
  moves, adds or removes one holder: the proof compares the sets of holders
  before and after (`SameHoldersCount`, `Rotated`, and a bijection for the exit
  of a process, which turns all its slots into closes). Closes to come are
  numbered from the last, so that the rest keep their numbers when the first
  operation of a call ends.
* `Calls`, `Steps`, `Looked` and `Children`: a file that a call is about to
  duplicate is still in a slot of its caller, a path that is about to be
  entered is not open, and the child of a fork is filled by one parent and does
  nothing before. The last needs that each fork has a PCB of its own, which the
  model had left to the number of processes and now says in the guard of
  `SysFork`.

**Ext2Proofs**, directories: any openers, paths, inodes, blocks and numbers of calls, disk
errors and stores of a concurrent write (`DirAssumption`: at least the two
directories and the file of `DirInit`, and a block map that reaches as many
blocks as the volume has, as the trees of blocks do on the volumes the driver
meets). `NamesAreSound` (`NamesSound`) and `VisibleEntriesStay` (`EntriesStay`)
both hold with any accesses failing, up to the first mishap the code does not
notice (`harm`), from `DInv`:

* On the volume: a directory has no holes, and one slot more than its size only
  between linking and growing (`Shape`); the block of a slot is allocated and in
  one place, and only such blocks have entries (`Blocks`); an inode has one
  entry and is allocated and initialised before it (`Inodes`); names in a
  directory differ (`Distinct`).
* Of the processes: the lock is held from the second look on (`LockHeld`), and a
  walk, which reads without it, stands on an entry or at the start of a block
  (`WalkOK`). The creator, of which the lock makes one, has three facts
  (`CreatorOK`): what its second look has passed does not have the name
  (`CheckOK`), the new inode is in no entry (`FreshOK`), and the directory's
  inode it read is not stale and the new block is known to nobody else
  (`BlockOK`). `CheckOK` is why the first look may be unlocked.
* That a directory has a slot for one block more (`HoleExists`) is a pigeonhole:
  its blocks are not all of the volume's, because the other directory has one.
* Every step is also shown to keep what is entered (`Grows`), and from that
  `EntriesStay` follows without looking at the actions again.

**Ext2Proofs**, file contents: any writers, files, block groups and numbers of
writes and disk errors (`VolumeAssumption`; of it only `None \notin Proc` is used).
`InodesLostOnlyUnlocked` (`LostOnlyUnlocked`): a process between reading and
storing the table block in assign_block holds the volume's lock (`StoreLocked`),
and what it has read is out of date only in inodes that ext2_write stored
without the lock since (`StaleUnlocked`). That holds up to the first lost inode,
after which a stored block may bring back any old inode.

Only model-checked:

* liveness, and the invariants with `ENABLED` (`OpsReturn`, `OpensSettle`,
  `NothingStuck`): the prover does not reason about fairness and ENABLED here;
* what recursively defined functions compute (`Normalise` in `PathsExact`, the
  walks of ext2 and Pcie): it takes induction over data;
* the refinement of Dictionary, `BlocksExact`, `ReadsBack` and `ImageSound`: the
  chains of a table, the tree of blocks and the strings on the stack are folds
  over sequences, which are defined by recursion;
* `PlatformReady`, of IoApic and Pcie: each table is run through once at boot,
  and the run takes all its small tables.

## Findings

* `scheduler_due`: `sleep_queue` is ordered latest first while the scan in
  `scheduler_run` stops at the first sleeper that is not due.
* `orphans`: init's `waitpid(-1)` settles on one child; while that child lives,
  orphans that die are not reaped.
* `overlap`: `load_base` does not compare a merged region with the one behind
  it, so an overlap with other permissions can pass.

Seen while modelling, with no run of its own:

* Memory: `insert_node` reports an overlap only with the node behind;
  `mm_alloc_max` keeps the spare node of a failed search; each application
  processor's `alloc_init` forgets the arenas in use; fork maps frame 0 when
  memory runs out; a load that runs out of memory frees the page tables it
  stands on and returns an unset PCB; a refused file leaks its pml4; a kernel
  thread may run on page tables the reaper has freed; frames reach processes
  uncleared; the shootdown handler takes locks that the code it interrupts may
  hold, and a processor is sent IPIs before its APIC is enabled.
* Processes: `waitpid` answers the pid it was asked for, so that init's polling
  loop ends after one zombie; init's child table is used by two threads without a lock; execve
  puts back a parent copied before an orphaning, and a fresh `plock` over a held
  one; a tick between `SCHED_KILL` and the release of `lock_proc` keeps it held.
* Files: reference counts and the semaphore's counter lose updates; `fs_close`
  locks a file it may have freed; a reader of an idle terminal keeps the file's
  spin lock; a file opened with O_CREAT can be neither read nor written, because
  `fs_read` and `fs_write` compare all flags with the access mode.
* ext2: `assign_block` returns with the lock held when its first read fails;
  failed writes of bitmaps, zeros, indirect blocks and inodes go unnoticed, and
  so does a failed second look of `ext2_create`, which then creates the name
  twice; it writes an entry through the untested result of `read_block`; a
  write behind the end that fails at once still moves the size; a file created
  in a subdirectory lands in the root; a failed write can leave a directory block no walk
  gets past; a second volume with the root label is mounted through null.
* Devices: `find_slot`'s failure is not tested and a stopped port not restarted;
  `port_reset` waits for a device without end; `bsp_apic_id` is every
  processor's last; with ids that disagree the shootdown barrier can stay up
  (safety holds, it is proved); `redir_index` is filled from 0 for every I/O
  APIC, so the pins of a second one may stay as the firmware left them; `DISABLE_INT` copies function 0's command register; an unnumbered
  bridge is walked without end.

## Not modelled

The multiboot start and the switch to long mode, copying of ACPI tables, local
APIC, PIC and HPET registers, TSS and exception tables, logging and output, and
the byte and string primitives keep no state with a protocol of its own.
SCHED_SKIP is never set. Hash collisions of paths, memory maps with overlapping
segments, and clock sources (one is used) are outside the models. The library's
ABI headers and the calls that return a constant are left out.
