------------------------------- MODULE Family -------------------------------
(***************************************************************************)
(* Parents, children and orphans (kernel/core/process.c: process_fork,     *)
(* process_wait_pid, process_reap_child, reap_prepare, orphan_children,    *)
(* reap_final) and the loop of userland/init/init.c that waits for         *)
(* orphans.  Scheduler models how the same calls block, wake and switch;   *)
(* here a blocked wait goes on once its child is a zombie.                 *)
(*                                                                         *)
(* Pids are never reused, so a process is its pid.  A child table is a     *)
(* hash_table_t without a lock.  A process uses its own, and the reaper a  *)
(* dead process's: sets do for those.  Init's is used by init and, when it *)
(* hands orphans over, by the reaper at the same time: it is the chain of  *)
(* one bucket, and an insertion and a removal take two steps each: one     *)
(* reads the pointer, the other writes it.  When the bucket's own pointer  *)
(* has changed in between, the chain is corrupted (raced).                 *)
(* process_execve puts a PCB in place that has copied the old one's parent *)
(* when the file was loaded: an orphaning in between is undone (raced).    *)
(***************************************************************************)
EXTENDS Integers, Sequences, SequencesExt

CONSTANTS MaxPid      \* bound: processes, 1 being init and 2 its shell

ASSUME FamilyAssumption == MaxPid \in Nat /\ MaxPid >= 2

Pid == 1 .. MaxPid
init == 1
None == 0

VARIABLES
  st,          \* unborn, alive, killed, zombie or gone
  parent,      \* pcb_t.parent
  kids,        \* child tables of all but init
  chain,       \* init's child table
  at,          \* what each process is doing in the kernel
  child,       \* the child it does that to; in execve the parent that was copied
  atHead,      \* the pointer init's hash_table_remove is about to overwrite is the bucket's
  reap_queue,  \* discarded processes
  reaping,     \* those the reaper took
  adopt, seen, \* the orphan it is entering in init's table, and the head of the chain it saw
  raced        \* ghost: the chain was changed under a half-done change, or a parent put back

famVars == <<st, parent, kids, chain, at, child, atHead, reap_queue, reaping, adopt, seen, raced>>

FamInit ==
  /\ st = [p \in Pid |-> IF p <= 2 THEN "alive" ELSE "unborn"]
  /\ parent = [p \in Pid |-> IF p = 2 THEN init ELSE None]
  /\ kids = [p \in Pid |-> {}]
  /\ chain = <<2>>
  /\ at = [p \in Pid |-> IF p = init THEN "poll" ELSE "user"]
  /\ child = [p \in Pid |-> None]
  /\ atHead = FALSE
  /\ reap_queue = <<>> /\ reaping = <<>> /\ adopt = None /\ seen = None
  /\ raced = FALSE

First == IF chain = <<>> THEN None ELSE Head(chain)

TableOf(p) == IF p = init THEN ToSet(chain) ELSE kids[p]

-----------------------------------------------------------------------------
(* Calls of a process.                                                     *)

\* process_fork: the child can run before the parent has entered it
Fork(p, c) ==
  /\ p # init /\ st[p] = "alive" /\ at[p] = "user"
  /\ st[c] = "unborn" /\ \A d \in Pid : d < c => st[d] # "unborn"
  /\ st' = [st EXCEPT ![c] = "alive"] /\ parent' = [parent EXCEPT ![c] = p]
  /\ at' = [at EXCEPT ![p] = "fork"] /\ child' = [child EXCEPT ![p] = c]
  /\ UNCHANGED <<kids, chain, atHead, reap_queue, reaping, adopt, seen, raced>>

ForkInsert(p) ==
  /\ at[p] = "fork"
  /\ kids' = [kids EXCEPT ![p] = @ \cup {child[p]}]
  /\ at' = [at EXCEPT ![p] = "user"] /\ child' = [child EXCEPT ![p] = None]
  /\ UNCHANGED <<st, parent, chain, atHead, reap_queue, reaping, adopt, seen, raced>>

\* elf_overwrite: process_create_userland_pcb copies parent and tables of the caller
Execve(p) ==
  /\ p # init /\ st[p] = "alive" /\ at[p] = "user"
  /\ at' = [at EXCEPT ![p] = "execve"] /\ child' = [child EXCEPT ![p] = parent[p]]
  /\ UNCHANGED <<st, parent, kids, chain, atHead, reap_queue, reaping, adopt, seen, raced>>

\* process_execve at the next tick; the reaper only frees the stale PCB
ExecveSwap(p) ==
  /\ at[p] = "execve"
  /\ raced' = (parent[p] # child[p])
  /\ parent' = [parent EXCEPT ![p] = child[p]]
  /\ at' = [at EXCEPT ![p] = "user"] /\ child' = [child EXCEPT ![p] = None]
  /\ UNCHANGED <<st, kids, chain, atHead, reap_queue, reaping, adopt, seen>>

\* process_exit, and process_discard at the next tick; init would panic and does not exit
ExitProcess(p) ==
  /\ p # init /\ st[p] = "alive" /\ at[p] = "user"
  /\ st' = [st EXCEPT ![p] = "killed"]
  /\ reap_queue' = <<p>> \o reap_queue
  /\ UNCHANGED <<parent, kids, chain, at, child, atHead, reaping, adopt, seen, raced>>

\* process_wait_pid for a pid, or for -1, which settles for some child at once; with no_hang
\* a living child is not waited for
WaitPid(p, c, no_hang) ==
  /\ p # init /\ st[p] = "alive" /\ at[p] = "user" /\ c \in kids[p]
  /\ no_hang => st[c] = "zombie"
  /\ at' = [at EXCEPT ![p] = "wait"] /\ child' = [child EXCEPT ![p] = c]
  /\ UNCHANGED <<st, parent, kids, chain, atHead, reap_queue, reaping, adopt, seen, raced>>

\* process_reap_child and reap_final of a process other than init
ReapChild(p) ==
  /\ p # init /\ at[p] = "wait" /\ st[child[p]] = "zombie"
  /\ kids' = [kids EXCEPT ![p] = @ \ {child[p]}]
  /\ st' = [st EXCEPT ![child[p]] = "gone"]
  /\ at' = [at EXCEPT ![p] = "user"] /\ child' = [child EXCEPT ![p] = None]
  /\ UNCHANGED <<parent, chain, atHead, reap_queue, reaping, adopt, seen, raced>>

-----------------------------------------------------------------------------
(* The main loop of init: waitpid(-1, WNOHANG), then waitpid(-1).  The     *)
(* system call answers the pid it was asked for, -1: the inner loop ends   *)
(* after one call, whether or not that call has reaped a zombie.           *)

Zombies == {i \in DOMAIN chain : st[chain[i]] = "zombie"}

\* hash_table_find for a zombie
InitPoll ==
  /\ at[init] = "poll"
  /\ IF Zombies # {}
       THEN /\ at' = [at EXCEPT ![init] = "find"]
            /\ child' = [child EXCEPT ![init] = chain[CHOOSE i \in Zombies : \A j \in Zombies : i <= j]]
       ELSE at' = [at EXCEPT ![init] = "any"] /\ UNCHANGED child
  /\ UNCHANGED <<st, parent, kids, chain, atHead, reap_queue, reaping, adopt, seen, raced>>

\* hash_table_get_any: the first child, alive or not; ECHILD without one
InitWaitAny ==
  /\ at[init] = "any"
  /\ IF chain = <<>> THEN at' = [at EXCEPT ![init] = "poll"] /\ UNCHANGED child
     ELSE at' = [at EXCEPT ![init] = "wait"] /\ child' = [child EXCEPT ![init] = First]
  /\ UNCHANGED <<st, parent, kids, chain, atHead, reap_queue, reaping, adopt, seen, raced>>

\* Mutant: the wait ends when its child is killed, a state the child has left when the wakeup comes
InitWokenKilled ==
  /\ at[init] = "wait" /\ st[child[init]] = "killed"
  /\ at' = [at EXCEPT ![init] = "find_any"]
  /\ UNCHANGED <<st, parent, kids, chain, child, atHead, reap_queue, reaping, adopt, seen, raced>>

\* process_reap_child
InitWoken ==
  /\ at[init] = "wait" /\ st[child[init]] = "zombie"
  /\ at' = [at EXCEPT ![init] = "find_any"]
  /\ UNCHANGED <<st, parent, kids, chain, child, atHead, reap_queue, reaping, adopt, seen, raced>>

\* reap_final, hash_table_remove: find_node yields the pointer that leads to the node
InitRemoveFind ==
  /\ at[init] \in {"find", "find_any"}
  /\ atHead' = (First = child[init])
  /\ at' = [at EXCEPT ![init] = IF @ = "find" THEN "unlink" ELSE "unlink_any"]
  /\ UNCHANGED <<st, parent, kids, chain, child, reap_queue, reaping, adopt, seen, raced>>

\* the pointer is overwritten; then the PCB is freed, and the loop goes on to its other call
InitRemove ==
  /\ at[init] \in {"unlink", "unlink_any"}
  /\ raced' = (atHead /\ First # child[init])
  /\ chain' = RemoveAt(chain, CHOOSE i \in DOMAIN chain : chain[i] = child[init])
  /\ st' = [st EXCEPT ![child[init]] = "gone"]
  /\ at' = [at EXCEPT ![init] = IF @ = "unlink" THEN "any" ELSE "poll"]
  /\ child' = [child EXCEPT ![init] = None] /\ atHead' = FALSE
  /\ UNCHANGED <<parent, kids, reap_queue, reaping, adopt, seen>>

-----------------------------------------------------------------------------
(* The reaper thread.                                                      *)

ReapTake ==
  /\ reaping = <<>> /\ reap_queue # <<>>
  /\ reaping' = reap_queue /\ reap_queue' = <<>>
  /\ UNCHANGED <<st, parent, kids, chain, at, child, atHead, adopt, seen, raced>>

\* orphan_children on one child of the dead process; hash_table_insert has read the bucket
Orphan ==
  /\ reaping # <<>> /\ adopt = None
  /\ \E c \in kids[Head(reaping)] :
       /\ parent' = [parent EXCEPT ![c] = init]
       /\ adopt' = c /\ seen' = First
       /\ kids' = [kids EXCEPT ![Head(reaping)] = @ \ {c}]
  /\ UNCHANGED <<st, chain, at, child, atHead, reap_queue, reaping, raced>>

\* hash_table_insert writes the bucket
OrphanInsert ==
  /\ adopt # None
  /\ raced' = (First # seen)
  /\ chain' = <<adopt>> \o chain /\ adopt' = None /\ seen' = None
  /\ UNCHANGED <<st, parent, kids, at, child, atHead, reap_queue, reaping>>

\* Mutant: a zombie before its children have gone to init
ZombieFirst ==
  /\ reaping # <<>> /\ adopt = None
  /\ st' = [st EXCEPT ![Head(reaping)] = "zombie"]
  /\ reaping' = Tail(reaping)
  /\ UNCHANGED <<parent, kids, chain, at, child, atHead, reap_queue, adopt, seen, raced>>

\* the end of reap_prepare
Zombie ==
  /\ reaping # <<>> /\ adopt = None /\ kids[Head(reaping)] = {}
  /\ st' = [st EXCEPT ![Head(reaping)] = "zombie"]
  /\ reaping' = Tail(reaping)
  /\ UNCHANGED <<parent, kids, chain, at, child, atHead, reap_queue, adopt, seen, raced>>

Reaper == ReapTake \/ Orphan \/ OrphanInsert \/ Zombie
InitLoop == InitPoll \/ InitWaitAny \/ InitWoken \/ InitRemoveFind \/ InitRemove

\* once it raced the kernel uses freed memory and nothing is known of it
FamNext ==
  /\ ~raced
  /\ \/ \E p \in Pid : \/ ForkInsert(p) \/ Execve(p) \/ ExecveSwap(p) \/ ExitProcess(p) \/ ReapChild(p)
                       \/ \E c \in Pid : Fork(p, c) \/ \E no_hang \in BOOLEAN : WaitPid(p, c, no_hang)
     \/ Reaper \/ InitLoop

FamSpec == FamInit /\ [][FamNext]_famVars

-----------------------------------------------------------------------------
Allocated == {p \in Pid : st[p] \notin {"unborn", "gone"}}

\* Up to the first collision on init's unlocked table, or of an execve with an orphaning: every
\* process has a parent whose PCB is still there (process_get_ppid reads it), is in that parent's
\* table, or is on its way into it from a fork or from the reaper, and a table holds nobody but its
\* owner's unfreed children.
FamilyExact ==
  ~raced =>
    /\ \A c \in Allocated \ {init} :
         /\ parent[c] \in Allocated
         /\ c \in TableOf(parent[c]) \/ c = adopt \/ (at[parent[c]] = "fork" /\ child[parent[c]] = c)
    /\ \A p \in Allocated : \A c \in TableOf(p) : c \in Allocated /\ parent[c] = p

\* "reap orphans" (init.c): a zombie that is init's child is freed in the end, unless init's
\* waitpid(-1) has settled for a child that lives on, or init's table was corrupted.
OrphansReaped ==
  \A c \in Pid :
    (st[c] = "zombie" /\ parent[c] = init)
      ~> (st[c] = "gone" \/ raced \/ (at[init] = "wait" /\ st[child[init]] = "alive"))

\* The comment "reap orphans" (userland/init/init.c:86) taken at its word: an orphan (init itself
\* forks the shell only) that is a zombie is freed in the end, up to a corruption of init's table.
AllOrphansReaped ==
  \A c \in 3 .. MaxPid : (st[c] = "zombie" /\ parent[c] = init) ~> (st[c] = "gone" \/ raced)
=============================================================================
