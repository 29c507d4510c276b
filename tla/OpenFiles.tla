------------------------------ MODULE OpenFiles ------------------------------
(***************************************************************************)
(* Open files shared by processes: the open table and handle operations of *)
(* kernel/core/fs.c, the semaphore of kernel/core/semaphore.c that guards  *)
(* them, and the system calls (openat, close, dup, dup2, ccwd, fork, exit) *)
(* that create and drop handles.                                           *)
(*                                                                         *)
(* Handles on one path share an fs_open_file_t, which counts them in refs  *)
(* and is freed by the last close.  fs_open and fs_dup change refs and the *)
(* open table inside semaphore_wait / semaphore_signal, which any number   *)
(* of CPUs may be inside of; only fs_close uses the exclusive form.        *)
(* rem++, rem-- and refs++ are plain memory increments, not locked ones,   *)
(* so each is a load and a store here, and raced records that a store      *)
(* overwrote an update that came after its load.  The model follows the    *)
(* system up to the first such store.                                      *)
(*                                                                         *)
(* Every operation on a handle holds the spin lock of its file meanwhile.  *)
(* Here only a read does, of a terminal: it sleeps with the lock held      *)
(* until a line is typed, which nobody is obliged to do.  The lock's byte  *)
(* is part of the file, and fs_close takes it after lookup_close may have  *)
(* freed the file.                                                         *)
(***************************************************************************)
EXTENDS Integers, Sequences, SequencesExt, FiniteSets, FiniteSetsExt

CONSTANTS Proc,
          Root,        \* the process that is alive at first
          Path, Slash, \* paths, and the one every process starts in
          File,        \* memory for fs_open_file_t objects
          MaxFd,       \* bound: descriptors per process
          MaxCalls,    \* bound: system calls a process makes
          Cap,         \* sem->cap, far above the number of CPUs
          None

ASSUME FilesAssumption ==
  /\ IsFiniteSet(Proc) /\ Root \in Proc /\ Slash \in Path /\ File # {}
  /\ MaxFd \in Nat /\ MaxCalls \in Nat
  /\ Cap \in Nat /\ Cap > Cardinality(Proc)
  /\ None \notin Proc \cup File \cup Path

VARIABLES
  rem, slock,   \* the semaphore
  path, refs,   \* fs_open_file_t by file, path None when not allocated
  flock,        \* its lock: the process that reads with it held, or None
  slot,         \* fd_table of each process, entry 0 is its wd
  todo,         \* what a call has still to do, a sequence of fs operations
  pc, tmp,      \* step of the first of them and the value it loaded
  alive, calls,
  raced

semVars == <<rem, slock>>
fileVars == <<path, refs, flock>>
procVars == <<slot, alive, calls>>
vars == <<semVars, fileVars, procVars, todo, pc, tmp, raced>>

Slot == 0 .. MaxFd
Live == {f \in File : path[f] # None}

(* An fs operation: find_mount of a path, the rest of fs_open, fs_dup of a   *)
(* file, or fs_close; proc and to say where the handle goes, to = -1 is the  *)
(* lowest free descriptor.                                                   *)
Find(a) == [op |-> "find", path |-> a, file |-> None, proc |-> None, to |-> -1]
Open(p, a) == [op |-> "open", path |-> a, file |-> None, proc |-> p, to |-> -1]
Dup(f, q, i) == [op |-> "dup", path |-> None, file |-> f, proc |-> q, to |-> i]
Close(f) == [op |-> "close", path |-> None, file |-> f, proc |-> None, to |-> -1]

Init ==
  LET f0 == CHOOSE f \in File : TRUE IN
  /\ rem = Cap /\ slock = None
  /\ path = [f \in File |-> IF f = f0 THEN Slash ELSE None]
  /\ refs = [f \in File |-> IF f = f0 THEN 1 ELSE 0]
  /\ flock = [f \in File |-> None]
  /\ slot = [p \in Proc |-> [i \in Slot |-> IF p = Root /\ i = 0 THEN f0 ELSE None]]
  /\ todo = [p \in Proc |-> <<>>]
  /\ pc = [p \in Proc |-> "enter"]
  /\ tmp = [p \in Proc |-> 0]
  /\ alive = {Root}
  /\ calls = [p \in Proc |-> 0]
  /\ raced = FALSE

-----------------------------------------------------------------------------
(* System calls.  A slot that is being closed is emptied at the call: only   *)
(* its own process looks at it.                                              *)

FreeFd(p) == {i \in 1 .. MaxFd : slot[p][i] = None}

Ready(p) ==
  /\ p \in alive
  /\ todo[p] = <<>> /\ \A f \in File : flock[f] # p
  /\ calls[p] < MaxCalls

Call(p, work) ==
  /\ Ready(p)
  /\ todo' = [todo EXCEPT ![p] = work]
  /\ calls' = [calls EXCEPT ![p] = @ + 1]
  /\ UNCHANGED <<semVars, fileVars, pc, tmp, raced>>

Openat(p, a) ==
  /\ FreeFd(p) # {}
  /\ Call(p, <<Find(a), Open(p, a)>>)
  /\ UNCHANGED <<slot, alive>>

SysClose(p, i) ==
  /\ slot[p][i] # None
  /\ Call(p, <<Close(slot[p][i])>>)
  /\ slot' = [slot EXCEPT ![p][i] = None]
  /\ UNCHANGED alive

SysDup(p, i) ==
  /\ slot[p][i] # None /\ FreeFd(p) # {}
  /\ Call(p, <<Dup(slot[p][i], p, -1)>>)
  /\ UNCHANGED <<slot, alive>>

\* the descriptor that is replaced is closed after the new one is in place
SysDup2(p, i, j) ==
  /\ slot[p][i] # None
  /\ Call(p, <<Dup(slot[p][i], p, j)>>)
  /\ UNCHANGED <<slot, alive>>

\* the old working directory is closed before the new one is duplicated
SysCcwd(p, i) ==
  /\ slot[p][i] # None
  /\ Call(p, <<Close(slot[p][0]), Dup(slot[p][i], p, 0)>>)
  /\ slot' = [slot EXCEPT ![p][0] = None]
  /\ UNCHANGED alive

\* process_fork duplicates wd and every descriptor of its new pcb, then schedules the child
SysFork(p, q) ==
  /\ q \notin alive /\ calls[q] = 0 /\ todo[q] = <<>>
  /\ \A r \in Proc : \A k \in DOMAIN todo[r] : todo[r][k].proc # q
  /\ Call(p, SetToSeq({Dup(slot[p][i], q, i) : i \in {i \in Slot : slot[p][i] # None}}))
  /\ UNCHANGED <<slot, alive>>

\* reap_prepare closes wd and every descriptor
SysExit(p) ==
  /\ p # Root
  /\ Ready(p)
  /\ todo' = [todo EXCEPT ![p] =
       LET open == SetToSeq({i \in Slot : slot[p][i] # None})
       IN [k \in DOMAIN open |-> Close(slot[p][open[k]])]]
  /\ slot' = [slot EXCEPT ![p] = [i \in Slot |-> None]]
  /\ alive' = alive \ {p}
  /\ calls' = [calls EXCEPT ![p] = MaxCalls]
  /\ UNCHANGED <<semVars, fileVars, pc, tmp, raced>>

\* fs_read of a terminal, from its lock_acquire ...
ReadTty(p, i) ==
  LET f == slot[p][i] IN
  /\ f # None /\ flock[f] = None
  /\ Ready(p)
  /\ flock' = [flock EXCEPT ![f] = p]
  /\ calls' = [calls EXCEPT ![p] = @ + 1]
  /\ UNCHANGED <<semVars, path, refs, slot, alive, todo, pc, tmp, raced>>

\* ... to its lock_release, when a line was typed
ReadDone(p) ==
  \E f \in File :
    /\ flock[f] = p
    /\ flock' = [flock EXCEPT ![f] = None]
    /\ UNCHANGED <<semVars, path, refs, procVars, todo, pc, tmp, raced>>

-----------------------------------------------------------------------------
(* The semaphore.                                                            *)

At(p, label) == todo[p] # <<>> /\ pc[p] = label
Goto(p, label) == pc' = [pc EXCEPT ![p] = label]
Op(p) == Head(todo[p])

\* both forms of wait spin with the semaphore's lock held
SemLock(p) ==
  /\ At(p, "enter")
  /\ slock = None
  /\ slock' = p
  /\ Goto(p, IF Op(p).op = "close" THEN "wait_full" ELSE "wait")
  /\ UNCHANGED <<rem, fileVars, procVars, todo, tmp, raced>>

SemWaitLoad(p) ==
  /\ At(p, "wait")
  /\ rem # 0
  /\ tmp' = [tmp EXCEPT ![p] = rem]
  /\ Goto(p, "wait_store")
  /\ UNCHANGED <<semVars, fileVars, procVars, todo, raced>>

SemWaitStore(p) ==
  /\ At(p, "wait_store")
  /\ rem' = tmp[p] - 1
  /\ raced' = (raced \/ rem # tmp[p])
  /\ slock' = None
  /\ Goto(p, CASE Op(p).op = "find" -> "find"
                [] Op(p).op = "open" -> "lookup"
                [] OTHER -> "refs")
  /\ UNCHANGED <<fileVars, procVars, todo, tmp>>

SemSignalLoad(p) ==
  /\ At(p, "signal")
  /\ tmp' = [tmp EXCEPT ![p] = rem]
  /\ Goto(p, "signal_store")
  /\ UNCHANGED <<semVars, fileVars, procVars, todo, raced>>

SemWaitFull(p) ==
  /\ At(p, "wait_full")
  /\ rem = Cap
  /\ rem' = 0
  /\ slock' = None
  /\ Goto(p, "close")
  /\ UNCHANGED <<fileVars, procVars, todo, tmp, raced>>


SemSignalFull(p) ==
  /\ At(p, "signal_full")
  /\ rem' = Cap
  /\ Goto(p, "unlock")
  /\ UNCHANGED <<slock, fileVars, procVars, todo, tmp, raced>>

-----------------------------------------------------------------------------
(* fs_open_mode, fs_dup and fs_close.                                        *)

\* the first operation of the call is over
EndOp(p) ==
  /\ todo' = [todo EXCEPT ![p] = Tail(@)]
  /\ Goto(p, "enter")

\* find_mount walks the tree of mounts between semaphore_wait and semaphore_signal
FindLoad(p) ==
  /\ At(p, "find")
  /\ tmp' = [tmp EXCEPT ![p] = rem]
  /\ Goto(p, "find_store")
  /\ UNCHANGED <<semVars, fileVars, procVars, todo, raced>>

FindStore(p) ==
  /\ At(p, "find_store")
  /\ rem' = tmp[p] + 1
  /\ raced' = (raced \/ rem # tmp[p])
  /\ EndOp(p)
  /\ UNCHANGED <<slock, fileVars, procVars, tmp>>

\* mount->open finds nothing: fs_open returns before it counts anything
OpenFails(p) ==
  /\ At(p, "enter") /\ Op(p).op = "open"
  /\ EndOp(p)
  /\ UNCHANGED <<semVars, fileVars, procVars, tmp, raced>>

SetFile(p, f) == todo' = [todo EXCEPT ![p][1].file = f]

\* lookup_register: the file open under this path, or a new one; the hash of
\* the path does not collide with another's
Registered(a) == {f \in Live : path[f] = a}

Lookup(p) ==
  /\ At(p, "lookup")
  /\ IF Registered(Op(p).path) # {}
       THEN /\ SetFile(p, CHOOSE f \in Registered(Op(p).path) : TRUE)
            /\ Goto(p, "refs")
       ELSE /\ Goto(p, "insert")
            /\ UNCHANGED todo
  /\ UNCHANGED <<semVars, fileVars, procVars, tmp, raced>>

\* hash_table_insert; two of them at once may open the path twice, or lose an
\* entry of a bucket's chain
Insert(p) ==
  /\ At(p, "insert")
  /\ \E f \in File \ Live :
       /\ f = CHOOSE g \in File \ Live : TRUE
       /\ path' = [path EXCEPT ![f] = Op(p).path]
       /\ refs' = [refs EXCEPT ![f] = 0]
       /\ flock' = [flock EXCEPT ![f] = None]
       /\ SetFile(p, f)
  /\ raced' = (raced \/ \E q \in Proc \ {p} : At(q, "insert"))
  /\ Goto(p, "refs")
  /\ UNCHANGED <<semVars, procVars, tmp>>

\* fs_reopen_file
RefsLoad(p) ==
  /\ At(p, "refs")
  /\ tmp' = [tmp EXCEPT ![p] = refs[Op(p).file]]
  /\ Goto(p, "refs_store")
  /\ UNCHANGED <<semVars, fileVars, procVars, todo, raced>>

\* Mutant: a duplicated handle is not counted
RefsStoreOpenOnly(p) ==
  /\ At(p, "refs_store")
  /\ refs' = [refs EXCEPT ![Op(p).file] = IF Op(p).op = "open" THEN tmp[p] + 1 ELSE @]
  /\ Goto(p, "signal")
  /\ UNCHANGED <<semVars, path, flock, procVars, todo, tmp, raced>>

RefsStore(p) ==
  /\ At(p, "refs_store")
  /\ refs' = [refs EXCEPT ![Op(p).file] = tmp[p] + 1]
  /\ raced' = (raced \/ refs[Op(p).file] # tmp[p])
  /\ Goto(p, "signal")
  /\ UNCHANGED <<semVars, path, flock, procVars, todo, tmp>>

\* semaphore_signal, then the handle goes to its slot; a handle that was there
\* (dup2) is closed; after the last duplicate of a fork the child runs
Finish(p) ==
  LET o == Op(p)
      i == IF o.to = -1 THEN Min(FreeFd(p)) ELSE o.to
      old == slot[o.proc][i] IN
  /\ At(p, "signal_store")
  /\ rem' = tmp[p] + 1
  /\ raced' = (raced \/ rem # tmp[p])
  /\ slot' = [slot EXCEPT ![o.proc][i] = o.file]
  /\ todo' = [todo EXCEPT ![p] = (IF old = None THEN <<>> ELSE <<Close(old)>>) \o Tail(@)]
  /\ alive' = IF Len(todo[p]) = 1 THEN alive \cup {o.proc} ELSE alive
  /\ Goto(p, "enter")
  /\ UNCHANGED <<slock, fileVars, tmp, calls>>

\* lookup_close
LookupClose(p) ==
  LET f == Op(p).file IN
  /\ At(p, "close")
  /\ refs' = [refs EXCEPT ![f] = @ - 1]
  /\ path' = IF refs[f] = 1 THEN [path EXCEPT ![f] = None] ELSE path
  /\ Goto(p, "signal_full")
  /\ UNCHANGED <<semVars, flock, procVars, todo, tmp, raced>>

\* lock_acquire(&handle->shared->lock), mount->close, lock_release and kfree of
\* the handle; the lock may by now be that of another file in the same memory
CloseHandle(p) ==
  /\ At(p, "unlock")
  /\ path[Op(p).file] # None /\ flock[Op(p).file] = None
  /\ EndOp(p)
  /\ UNCHANGED <<semVars, fileVars, procVars, tmp, raced>>

\* the same on memory that lookup_close freed and nobody opened a file in: the
\* byte may be 0 or not, for ever
CloseFreed(p) ==
  /\ At(p, "unlock")
  /\ path[Op(p).file] = None
  /\ EndOp(p)
  /\ UNCHANGED <<semVars, fileVars, procVars, tmp, raced>>

-----------------------------------------------------------------------------
Step(p) ==
  \/ SemLock(p) \/ SemWaitLoad(p) \/ SemWaitStore(p) \/ SemSignalLoad(p)
  \/ SemWaitFull(p) \/ SemSignalFull(p)
  \/ FindLoad(p) \/ FindStore(p) \/ OpenFails(p)
  \/ Lookup(p) \/ Insert(p) \/ RefsLoad(p) \/ RefsStore(p) \/ Finish(p)
  \/ LookupClose(p) \/ CloseHandle(p)

SysCall(p) ==
  \/ \E a \in Path : Openat(p, a)
  \/ \E i \in 1 .. MaxFd : ReadTty(p, i) \/ SysClose(p, i) \/ SysDup(p, i) \/ SysCcwd(p, i)
                           \/ \E j \in 1 .. MaxFd \ {i} : SysDup2(p, i, j)
  \/ \E q \in Proc \ {p} : SysFork(p, q)
  \/ SysExit(p)

Next == ~raced /\ \E p \in Proc : Step(p) \/ SysCall(p) \/ ReadDone(p) \/ CloseFreed(p)

Spec == Init /\ [][Next]_vars

-----------------------------------------------------------------------------
\* p is between semaphore_wait and semaphore_signal, or in the exclusive form
InShared(p) == todo[p] # <<>> /\ pc[p] \in {"find", "find_store", "lookup", "insert", "refs", "refs_store", "signal", "signal_store"}
InFull(p) == todo[p] # <<>> /\ pc[p] \in {"close", "signal_full"}

(* The semaphore is a readers-writer lock: fs_close frees a file only while  *)
(* nobody looks one up, counts one or closes one.                            *)
CloseExcludes ==
  ~raced => \A p, q \in Proc : p # q /\ InFull(p) => ~InFull(q) /\ ~InShared(q)

\* where a handle can be: in a slot of a process, with the operation that has counted it and not
\* yet placed it, or with a close to come, the n-th from the last
Holder == {"slot", "counted", "close"} \X Proc \X Slot
Holds(h, f) ==
  LET p == h[2]
      n == h[3]
      k == Len(todo[p]) - n IN
  CASE h[1] = "slot" -> slot[p][n] = f
    [] h[1] = "counted" -> n = 0 /\ todo[p] # <<>> /\ Op(p).file = f /\ pc[p] \in {"signal", "signal_store"}
    [] h[1] = "close" -> /\ k \in DOMAIN todo[p] /\ todo[p][k].op = "close" /\ todo[p][k].file = f
                         /\ ~(k = 1 /\ pc[p] \in {"signal_full", "unlock"})
Handles(f) == Cardinality({h \in Holder : Holds(h, f)})

(* refs is the number of handles, so the last fs_close and no earlier one    *)
(* frees the file, however openat, dup, dup2, fork and exit of several       *)
(* processes interleave (as long as no increment was lost).                  *)
RefsExact == ~raced => \A f \in Live : refs[f] = Handles(f)

(* No descriptor and no working directory refers to a freed file.            *)
NoDangling ==
  ~raced => \A p \in Proc, i \in Slot : slot[p][i] # None => slot[p][i] \in Live

(* A path is open as at most one file, so its readers and writers share one  *)
(* lock.  FilesExact is the conjunction of the four.                         *)
OneFilePerPath == ~raced => \A f, g \in Live : path[f] = path[g] => f = g

FilesExact == CloseExcludes /\ RefsExact /\ NoDangling /\ OneFilePerPath

\* p spins in fs_close on the lock of its file: a reader sleeps with it, or
\* the file was freed under it
Spins(p) ==
  /\ At(p, "unlock")
  /\ path[Op(p).file] = None \/ flock[Op(p).file] # None

=============================================================================
