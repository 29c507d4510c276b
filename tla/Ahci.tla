-------------------------------- MODULE Ahci --------------------------------
(***************************************************************************)
(* The AHCI driver (drivers/ahci/ahci.c), the disk list (drivers/disk) and *)
(* the search for partitions on a new disk (drivers/gpt, the start of      *)
(* drivers/ext2).                                                          *)
(*                                                                         *)
(* A command takes a slot of the controller under ahci->lock, fills that   *)
(* slot's command table, and then keeps the lock of its port from issuing  *)
(* the command to seeing it complete.  The table of a slot is shared by    *)
(* all ports.  The initialisation thread sets the ports up one by one; the *)
(* root volume may be mounted, and user processes at work on it, while it  *)
(* identifies the disks behind it.  The host adapter (HBA) is hardware.    *)
(***************************************************************************)
EXTENDS Integers, Sequences, FiniteSets

CONSTANTS Client,        \* processes that read and write files
          Driver,        \* the thread that runs ahci_init
          Ports,         \* the last implemented port; they are 0 .. Ports
          num_com_slots, \* command slots the driver uses
          Lba,           \* sectors of a disk
          MaxCalls,      \* bound: disk calls of a client
          MaxErrors      \* bound: failing commands and allocations

ASSUME AhciAssumption ==
  /\ Ports \in Nat /\ num_com_slots \in Nat /\ Lba # {}
  /\ Driver \notin Client

Port == 0 .. Ports
Slot == 0 .. num_com_slots - 1
Thread == Client \cup {Driver}
Blank == "blank"                  \* what a disk holds before any write
Value == Client \cup {Blank}      \* a client writes its own mark
Lba0 == CHOOSE l \in Lba : TRUE
NoSlot == -1                      \* SLOT_NO_SLOT

VARIABLES
  used_com,    \* slots taken
  table,       \* command table of each slot: whose operation, sector and DMA buffer it holds
  plock,       \* who holds each port's lock
  job,         \* each thread's call: pc, operation, port, sector, slot, buffer, executed, answer
  PxCI,        \* commands issued to each port and not completed
  PxIS,        \* ports with IS_TFES set
  stopped,     \* ports the HBA stopped at a failed command (it waits for PxCMD.ST to drop)
  sector,      \* contents of the disks
  plugged,     \* ports with a device
  volumes,     \* partitions of each disk
  drv,         \* the initialisation thread: pc, port, partition
  disk_list,   \* ports with a disk_t, newest first
  root,        \* the port of the volume mounted on "/", or -1
  outpaced,    \* a command used SLOT_NO_SLOT as a slot: beyond com_list and com_tables_v
  halt,        \* panic, or a write through the null mount of a second root volume
  calls, errors

drvVars == <<drv, disk_list, root, halt>>
hbaVars == <<PxCI, PxIS, stopped, sector, errors>>
ahciVars == <<used_com, table, plock, job, hbaVars, plugged, volumes, drvVars, outpaced, calls>>

Idle == [pc |-> "idle", op |-> "flush", port |-> CHOOSE p \in Port : TRUE, lba |-> Lba0,
         slot |-> NoSlot, val |-> CHOOSE v \in Value : TRUE, done |-> FALSE, ok |-> TRUE]

\* a partition is a volume labelled as the root file system, or another ext2 volume
AhciInit ==
  /\ used_com = {} /\ table = [s \in Slot |-> Driver] /\ plock = [p \in Port |-> {}]
  /\ job = [t \in Thread |-> Idle]
  /\ PxCI = [p \in Port |-> {}] /\ PxIS = {} /\ stopped = {}
  /\ sector = [p \in Port |-> [l \in Lba |-> Blank]]
  /\ plugged \in {Port, {Ports}}
  /\ volumes \in {[p \in Port |-> IF p \in roots THEN <<"root">> ELSE <<"ext2">>] : roots \in {{0}, Port}}
  /\ drv = [pc |-> "stop", port |-> 0, part |-> 0]
  /\ disk_list = <<>> /\ root = -1
  /\ outpaced = FALSE /\ halt = FALSE
  /\ calls = [t \in Client |-> 0] /\ errors = 0

-----------------------------------------------------------------------------
(* One command: ahci_read_lba, ahci_write_lba, ahci_flush_cache and        *)
(* port_identify.  The DMA buffer is allocated before and freed after it.  *)

Begin(t, o, p, l, v) ==
  /\ job[t].pc = "idle"
  /\ job' = [job EXCEPT ![t] = [Idle EXCEPT !.pc = "find", !.op = o, !.port = p, !.lba = l, !.val = v]]

Call(t, o, l) ==
  /\ root # -1 /\ calls[t] < MaxCalls
  /\ Begin(t, o, root, l, t)
  /\ calls' = [calls EXCEPT ![t] = @ + 1]
  /\ UNCHANGED <<used_com, table, plock, hbaVars, plugged, volumes, drvVars, outpaced>>

\* no memory for the DMA buffer: DISK_ERROR without a command
NoBuffer(t) ==
  /\ job[t].pc = "find" /\ job[t].op # "flush" /\ errors < MaxErrors
  /\ job' = [job EXCEPT ![t] = [Idle EXCEPT !.val = job[t].val, !.ok = FALSE]]
  /\ errors' = errors + 1
  /\ UNCHANGED <<used_com, table, plock, PxCI, PxIS, stopped, sector, plugged, volumes, drvVars, outpaced, calls>>

\* Mutant: used_com is not looked at
find_slotIssued(p) ==
  LET free == {s \in Slot : s \notin PxCI[p]}
  IN IF free = {} THEN NoSlot ELSE CHOOSE s \in free : \A r \in free : s <= r

find_slot(p) ==
  LET free == {s \in Slot : s \notin used_com /\ s \notin PxCI[p]}
  IN IF free = {} THEN NoSlot ELSE CHOOSE s \in free : \A r \in free : s <= r

\* under ahci->lock; port_identify panics without a slot, the others go on
FindSlot(t) ==
  LET s == find_slot(job[t].port) IN
  /\ job[t].pc = "find"
  /\ IF s = NoSlot
       THEN /\ halt' = (job[t].op = "identify") /\ outpaced' = ~halt'
            /\ UNCHANGED <<used_com, job, drv, disk_list, root>>
       ELSE /\ used_com' = used_com \cup {s}
            /\ job' = [job EXCEPT ![t].slot = s, ![t].pc = "fill"]
            /\ UNCHANGED <<outpaced, drvVars>>
  /\ UNCHANGED <<table, plock, hbaVars, plugged, volumes, calls>>

\* command header, FIS and PRDT
Fill(t) ==
  /\ job[t].pc = "fill"
  /\ table' = [table EXCEPT ![job[t].slot] = t]
  /\ job' = [job EXCEPT ![t].pc = "port"]
  /\ UNCHANGED <<used_com, plock, hbaVars, plugged, volumes, drvVars, outpaced, calls>>

\* lock_acquire of the port, port_clear_errors
LockPort(t) ==
  LET p == job[t].port IN
  /\ job[t].pc = "port" /\ plock[p] = {}
  /\ plock' = [plock EXCEPT ![p] = {t}] /\ PxIS' = PxIS \ {p}
  /\ job' = [job EXCEPT ![t].pc = "issue"]
  /\ UNCHANGED <<used_com, table, PxCI, stopped, sector, errors, plugged, volumes, drvVars, outpaced, calls>>

\* the device is assumed to clear BSY and DRQ, which the driver waits for, once it is idle
Issue(t) ==
  LET p == job[t].port IN
  /\ job[t].pc = "issue"
  /\ PxCI' = [PxCI EXCEPT ![p] = @ \cup {job[t].slot}]
  /\ job' = [job EXCEPT ![t].pc = "spin"]
  /\ UNCHANGED <<used_com, table, plock, PxIS, stopped, sector, errors, plugged, volumes, drvVars, outpaced, calls>>

\* Mutant: the port's lock is not given back
PollLocked(t) ==
  LET j == job[t]  issued == j.slot \in PxCI[j.port]  failed == j.port \in PxIS IN
  /\ j.pc = "spin" /\ ~issued
  /\ job' = [job EXCEPT ![t].pc = "release", ![t].ok = ~failed]
  /\ UNCHANGED <<used_com, table, plock, hbaVars, plugged, volumes, drvVars, outpaced, calls>>

\* Mutant: PxIS ends the loop but is not looked at behind it
PollTrusting(t) ==
  LET j == job[t]  issued == j.slot \in PxCI[j.port] IN
  /\ j.pc = "spin"
  /\ issued => j.port \in PxIS
  /\ job' = [job EXCEPT ![t].pc = "release", ![t].ok = TRUE]
  /\ plock' = [plock EXCEPT ![j.port] = {}]
  /\ UNCHANGED <<used_com, table, hbaVars, plugged, volumes, drvVars, outpaced, calls>>

\* a flush looks at PxIS only inside the loop, port_identify not at all
Answer(op, issued, failed) == ~failed \/ (~issued /\ op \in {"flush", "identify"})

\* the polling loop ends: port_identify watches only PxCI
Poll(t) ==
  LET j == job[t]  issued == j.slot \in PxCI[j.port]  failed == j.port \in PxIS IN
  /\ j.pc = "spin"
  /\ issued => failed /\ j.op # "identify"
  /\ job' = [job EXCEPT ![t].pc = "release",
                        ![t].ok = Answer(j.op, issued, failed)]
  /\ plock' = [plock EXCEPT ![j.port] = {}]
  /\ UNCHANGED <<used_com, table, hbaVars, plugged, volumes, drvVars, outpaced, calls>>

\* under ahci->lock
Release(t) ==
  /\ job[t].pc = "release"
  /\ used_com' = used_com \ {job[t].slot}
  /\ job' = [job EXCEPT ![t] = [Idle EXCEPT !.val = job[t].val, !.ok = job[t].ok]]
  /\ UNCHANGED <<table, plock, hbaVars, plugged, volumes, drvVars, outpaced, calls>>

-----------------------------------------------------------------------------
(* The host adapter (external).                                            *)

Execute(p, s) ==
  LET t == table[s]  c == job[t] IN
  /\ s \in PxCI[p] /\ p \notin stopped
  /\ sector' = [sector EXCEPT ![p][c.lba] = IF c.op = "write" THEN c.val ELSE @]
  /\ job' = [job EXCEPT ![t].done = TRUE, ![t].val = IF c.op = "read" THEN sector[p][c.lba] ELSE @]
  /\ PxCI' = [PxCI EXCEPT ![p] = @ \ {s}]
  /\ UNCHANGED <<used_com, table, plock, PxIS, stopped, errors, plugged, volumes, drvVars, outpaced, calls>>

\* a task file error stops the port, and the command stays issued
FailCommand(p, s) ==
  /\ s \in PxCI[p] /\ p \notin stopped /\ errors < MaxErrors
  /\ errors' = errors + 1 /\ PxIS' = PxIS \cup {p} /\ stopped' = stopped \cup {p}
  /\ UNCHANGED <<used_com, table, plock, job, PxCI, sector, plugged, volumes, drvVars, outpaced, calls>>

-----------------------------------------------------------------------------
(* ahci_init.                                                              *)

GoTo(pc) == drv' = [drv EXCEPT !.pc = pc]
NextPort == drv' = IF drv.port = Ports THEN [drv EXCEPT !.pc = "done"] ELSE [pc |-> "setup", port |-> drv.port + 1, part |-> 0]

\* the engine of the next implemented port stops, or hangs
Stop ==
  /\ drv.pc = "stop"
  /\ \/ /\ drv' = IF drv.port = Ports THEN [drv EXCEPT !.pc = "setup", !.port = 0] ELSE [drv EXCEPT !.port = @ + 1]
        /\ UNCHANGED errors
     \/ errors < MaxErrors /\ errors' = errors + 1 /\ GoTo("reset")
  /\ UNCHANGED <<used_com, table, plock, job, PxCI, PxIS, stopped, sector, plugged, volumes, disk_list, root, halt, outpaced, calls>>

\* port_reset waits for a device without end, then the port is tried again
PortReset ==
  /\ drv.pc = "reset" /\ drv.port \in plugged
  /\ GoTo("stop")
  /\ UNCHANGED <<used_com, table, plock, job, hbaVars, plugged, volumes, disk_list, root, halt, outpaced, calls>>

Identify == Begin(Driver, "identify", drv.port, Lba0, Blank)

\* command list and receive area; a port without a ready device gets no disk
Setup ==
  /\ drv.pc = "setup"
  /\ IF drv.port \in plugged THEN GoTo("identify") /\ Identify
     ELSE NextPort /\ UNCHANGED job
  /\ UNCHANGED <<used_com, table, plock, hbaVars, plugged, volumes, disk_list, root, halt, outpaced, calls>>

DriverReads == Begin(Driver, "read", drv.port, Lba0, Blank)

\* port_identify is done: disk_add, and gpt_find_partitions reads the header
DiskAdd ==
  /\ drv.pc = "identify" /\ job[Driver].pc = "idle"
  /\ disk_list' = <<drv.port>> \o disk_list
  /\ GoTo("gpt") /\ DriverReads
  /\ UNCHANGED <<used_com, table, plock, hbaVars, plugged, volumes, root, halt, outpaced, calls>>

\* the header, then the partition array: a read error, a bad signature or checksum ends the search
GptRead(good) ==
  /\ drv.pc \in {"gpt", "array"} /\ job[Driver].pc = "idle"
  /\ IF ~good \/ ~job[Driver].ok THEN NextPort /\ UNCHANGED job
     ELSE IF drv.pc = "gpt" THEN GoTo("array") /\ DriverReads
     ELSE drv' = [drv EXCEPT !.pc = "part", !.part = 1] /\ UNCHANGED job
  /\ UNCHANGED <<used_com, table, plock, hbaVars, plugged, volumes, disk_list, root, halt, outpaced, calls>>

\* ext2_attempt_init on the next used entry reads the superblock
Attempt ==
  /\ drv.pc = "part"
  /\ IF drv.part > Len(volumes[drv.port]) THEN NextPort /\ UNCHANGED job
     ELSE GoTo("super") /\ DriverReads
  /\ UNCHANGED <<used_com, table, plock, hbaVars, plugged, volumes, disk_list, root, halt, outpaced, calls>>

\* ... then the group descriptors ...
Superblock ==
  /\ drv.pc = "super" /\ job[Driver].pc = "idle"
  /\ IF job[Driver].ok THEN GoTo("groups") /\ DriverReads
     ELSE drv' = [drv EXCEPT !.pc = "part", !.part = @ + 1] /\ UNCHANGED job
  /\ UNCHANGED <<used_com, table, plock, hbaVars, plugged, volumes, disk_list, root, halt, outpaced, calls>>

\* ... and mounts a volume with the root label: fs_mount gives a second one the null mount, which
\* fs_mount_assign_open then writes to
Groups ==
  LET isRoot == job[Driver].ok /\ volumes[drv.port][drv.part] = "root" IN
  /\ drv.pc = "groups" /\ job[Driver].pc = "idle"
  /\ drv' = [drv EXCEPT !.pc = "part", !.part = @ + 1]
  /\ root' = IF isRoot /\ root = -1 THEN drv.port ELSE root
  /\ halt' = (isRoot /\ root # -1)
  /\ UNCHANGED <<used_com, table, plock, job, hbaVars, plugged, volumes, disk_list, outpaced, calls>>

-----------------------------------------------------------------------------
Command(t) == NoBuffer(t) \/ FindSlot(t) \/ Fill(t) \/ LockPort(t) \/ Issue(t) \/ Poll(t) \/ Release(t)
InitThread == Stop \/ PortReset \/ Setup \/ DiskAdd \/ (\E good \in BOOLEAN : GptRead(good)) \/ Attempt \/ Superblock \/ Groups

AhciNext ==
  /\ ~outpaced /\ ~halt
  /\ \/ \E t \in Client, l \in Lba : Call(t, "read", l) \/ Call(t, "write", l) \/ Call(t, "flush", l)
     \/ \E t \in Thread : Command(t)
     \/ \E p \in Port, s \in Slot : Execute(p, s) \/ FailCommand(p, s)
     \/ InitThread

AhciSpec == AhciInit /\ [][AhciNext]_ahciVars

-----------------------------------------------------------------------------
Busy == {t \in Thread : job[t].pc \notin {"idle", "find"}}

\* Until a command finds no slot: no two commands in flight, on whatever ports, have the same slot,
\* so nobody rewrites a command table under a command; used_com is exactly the slots in flight; a
\* port works on at most the command of its lock's holder, beside the one it stopped at.
SlotsExclusive ==
  ~outpaced =>
    /\ \A t, u \in Busy : job[t].slot = job[u].slot => t = u
    /\ used_com = {job[t].slot : t \in Busy}
    /\ \A p \in Port : \A s \in PxCI[p] :
         p \notin stopped => \E t \in plock[p] : job[t].pc = "spin" /\ job[t].slot = s /\ table[s] = t

\* a command's call, or the last one's answer, as DiskSpec has it
AsCall(j) ==
  [st |-> IF j.pc = "idle" THEN (IF j.ok THEN "ok" ELSE "error")
          ELSE IF j.done THEN "applied" ELSE "pending",
   op |-> j.op, port |-> j.port, lba |-> j.lba, val |-> j.val]

\* The driver thread gives every disk up to the next: each thread's transfer takes place once
\* between call and answer, on its own sector and buffer, and a failed one never (DiskSpec).
Disk == INSTANCE DiskSpec WITH call <- [t \in Thread |-> AsCall(job[t])]
ImplementsDisk == Disk!DSpec

\* No disk call gets stuck (and none goes back to an earlier state, so each is answered), unless a
\* command failed (the driver never restarts the port, and a later command on it holds the port's
\* lock for good), or there were more commands than slots; and with every answer there the
\* initialisation thread comes through all ports, but for a port without a device that hangs.
IoReturns ==
  LET broken == stopped # {} \/ outpaced \/ halt \/ (drv.pc = "reset" /\ drv.port \notin plugged) IN
  (/\ ~ENABLED InitThread /\ \A t \in Thread : ~ENABLED Command(t)
   /\ \A p \in Port, s \in Slot : ~ENABLED Execute(p, s))
    => broken \/ (drv.pc = "done" /\ \A t \in Thread : job[t].pc = "idle")
=============================================================================
