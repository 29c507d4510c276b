------------------------------ MODULE Shootdown ------------------------------
(***************************************************************************)
(* Deferred frees and the TLB shootdown barrier: the transaction half of   *)
(* kernel/core/mm.c and the IPI half of kernel/apic/ipi.c.                 *)
(*                                                                         *)
(* paging_unmap clears a page-table entry and invalidates no TLB, not even *)
(* the local one, so a kernel virtual page may be handed out again only    *)
(* after every CPU dropped its cached translation.  Frees are pushed on    *)
(* pending_free; a kernel thread (free_all_pending) takes the whole list,  *)
(* arms one barrier entry and sends one IPI per registered CPU, waits for  *)
(* every entry to be disarmed and only then gives the pages back.          *)
(*                                                                         *)
(* pending_free_lock is held across steps only by the worker, while it     *)
(* arms entries; every other critical section of it is one step here.      *)
(*                                                                         *)
(* Waking the worker (signal_awake) takes the lock of free_pending_wait    *)
(* and then lock_sched.  A process does so with interrupts enabled, and    *)
(* can be stopped by a tick or by the shootdown interrupt while it holds   *)
(* either; the interrupts take the same two locks with interrupts off.     *)
(* The critical sections of an interrupt are one step, those of a process  *)
(* are not.  The steps of the worker, and the pushes, do not say on which  *)
(* CPU they run.                                                           *)
(***************************************************************************)
EXTENDS Naturals, FiniteSets

CONSTANTS CPU,        \* the processors that ever come up
          VPage,      \* kernel virtual pages (mm_alloc_v / mm_free_v)
          IPage,      \* physical frames freed with mm_free_p_ident
          Caller,     \* processes that free pages
          Id,         \* the 8-bit ids barrier entries are looked up by
          ApicId,     \* CPU |-> local APIC id  (mm_register_barrier's id)
          ArbId       \* CPU |-> arbitration id (mm_barrier_disarm's id)

(* APIC ids are unique in hardware; arbitration ids are unique because the  *)
(* bootstrap code hands them out under its arbitration lock (ap.S).         *)
ASSUME IdAssumption ==
  /\ IsFiniteSet(CPU)
  /\ VPage \cap IPage = {}
  /\ ApicId \in [CPU -> Id]
  /\ ArbId \in [CPU -> Id]
  /\ \A c, d \in CPU : c # d => ApicId[c] # ApicId[d] /\ ArbId[c] # ArbId[d]

VARIABLES
  v_list,            \* virtual pages on the v free list
  p_list,            \* frames on the p free list
  reserved,          \* allocated virtual pages no translation was installed for
  unmapped,          \* virtual pages paging_unmap took the translation from
  mapped,            \* virtual pages the kernel page tables translate
  frames,            \* allocated frames
  pending_free,      \* the list pushed by mm_free_v and mm_free_p_ident
  transaction_list,  \* the list the worker is retiring
  registered,        \* CPUs whose entry is on disarm_list
  enabled,           \* CPUs whose local APIC accepts interrupts
  state,             \* disarm_list_t.state, by id
  todo,              \* entries the worker's arming loop has still to visit
  worker,            \* program counter of free_all_pending
  caller,            \* program counter of each process inside a free
  tlb,               \* virtual pages each CPU may translate from its TLB
  ipi,               \* shootdown interrupt pending at a CPU
  lost,              \* CPUs whose shootdown interrupt was dropped
  isr,               \* CPUs in apic_tlb_shootdown_dispatch, before the disarm
  walk,              \* list entries such a CPU has still to invalidate
  mode,              \* what else a CPU does with interrupts off
  on,                \* the CPU a process of Caller with one of the locks runs on
  other              \* the CPU of any other process that holds lock_sched

pageVars == <<v_list, p_list, reserved, mapped, unmapped, frames>>
listVars == <<pending_free, transaction_list>>
barrierVars == <<registered, enabled, state, todo>>
ipiVars == <<ipi, lost, isr, walk>>
runVars == <<mode, on, other>>
cpuVars == <<tlb, ipiVars, runVars>>
vars == <<pageVars, listVars, barrierVars, worker, caller, cpuVars>>

Page == VPage \cup IPage

(* Where free_all_pending stands.  The two waits are check-then-wait: the    *)
(* thread has seen nothing to do ("..._gap"), then the next timer tick parks *)
(* it on free_pending_wait ("..._parked"); signal_awake takes it off         *)
(* ("..._woken") and hands it to scheduler_schedule.                         *)
WorkerPC == {"unborn", "test", "test_gap", "test_parked", "test_woken", "take", "arm",
             "poll", "poll_gap", "poll_parked", "poll_woken", "drain"}

(* Where a process stands in mm_free_v: it holds the lock of                 *)
(* free_pending_wait at "locked" and lock_sched at "queue".                  *)
CallerPC == {"idle", "awake", "locked", "sched", "queue"}

(* "awake" and "sched": the handler in signal_awake; "park": a tick in       *)
(* signal_wait_callback of the worker; "tick": a tick about to switch.       *)
Mode == {"run", "awake", "sched", "park", "tick"}

(* pending_free_lock is free for the others *)
LockFree == worker # "arm"

WaitLockFree == \A f \in Caller : caller[f] # "locked"
SchedLockFree == other = {} /\ \A f \in Caller : caller[f] # "queue"

(* c executes a process, and one that holds neither lock. *)
Interruptible(c) == c \in enabled \ isr /\ mode[c] = "run"
FreeCpu(c) == Interruptible(c) /\ c \notin other /\ \A f \in Caller : c \notin on[f]

(* A process that holds a lock and has the CPU in cpus executes. *)
Runs(cpus) == \E c \in cpus : Interruptible(c)

(* mm_register_barrier put an entry with this id on disarm_list *)
Entry(id) == \E c \in registered : ApicId[c] = id

Init ==
  /\ v_list = VPage
  /\ p_list = IPage
  /\ reserved = {} /\ mapped = {} /\ unmapped = {} /\ frames = {}
  /\ pending_free = {} /\ transaction_list = {}
  /\ registered = {} /\ enabled = {} /\ todo = {}
  /\ state = [id \in Id |-> 0]
  /\ worker = "unborn"
  /\ caller = [f \in Caller |-> "idle"]
  /\ tlb = [c \in CPU |-> {}]
  /\ ipi = {} /\ lost = {} /\ isr = {}
  /\ walk = [c \in CPU |-> {}]
  /\ mode = [c \in CPU |-> "run"]
  /\ on = [f \in Caller |-> {}]
  /\ other = {}

-----------------------------------------------------------------------------
(* The users of pages.                                                       *)

\* mm_alloc_v takes a page off the free list
AllocV(p) ==
  /\ p \in v_list
  /\ v_list' = v_list \ {p}
  /\ reserved' = reserved \cup {p}
  /\ UNCHANGED <<p_list, mapped, unmapped, frames, listVars, barrierVars, worker, caller, cpuVars>>

\* mm_alloc_p
AllocP(p) ==
  /\ p \in p_list
  /\ p_list' = p_list \ {p}
  /\ frames' = frames \cup {p}
  /\ UNCHANGED <<v_list, reserved, mapped, unmapped, listVars, barrierVars, worker, caller, cpuVars>>

\* paging_map
Map(p) ==
  /\ p \in reserved
  /\ reserved' = reserved \ {p}
  /\ mapped' = mapped \cup {p}
  /\ UNCHANGED <<v_list, p_list, unmapped, frames, listVars, barrierVars, worker, caller, cpuVars>>

\* paging_unmap clears the entry and flushes nothing
Unmap(p) ==
  /\ p \in mapped
  /\ mapped' = mapped \ {p}
  /\ unmapped' = unmapped \cup {p}
  /\ UNCHANGED <<v_list, p_list, reserved, frames, listVars, barrierVars, worker, caller, cpuVars>>

\* the processor fills its TLB from the page tables
Touch(c, p) ==
  /\ c \in registered
  /\ p \in mapped
  /\ tlb' = [tlb EXCEPT ![c] = @ \cup {p}]
  /\ UNCHANGED <<pageVars, listVars, barrierVars, worker, caller, ipiVars, runVars>>

-----------------------------------------------------------------------------
(* mm_free_v and mm_free_p_ident: push under pending_free_lock, then wake    *)
(* the worker if its wait object exists.                                     *)

PushPending(f, p) ==
  /\ caller[f] = "idle"
  /\ LockFree
  /\ pending_free' = pending_free \cup {p}
  /\ caller' = [caller EXCEPT ![f] = IF worker = "unborn" THEN "idle" ELSE "awake"]
  /\ UNCHANGED <<transaction_list, barrierVars, worker, cpuVars>>

\* after paging_unmap, or of a range whose mapping was never made
MmFreeV(f, p) ==
  /\ p \in reserved \cup unmapped
  /\ reserved' = reserved \ {p}
  /\ unmapped' = unmapped \ {p}
  /\ UNCHANGED <<v_list, p_list, mapped, frames>>
  /\ PushPending(f, p)

MmFreePIdent(f, p) ==
  /\ p \in frames
  /\ frames' = frames \ {p}
  /\ UNCHANGED <<v_list, p_list, reserved, mapped, unmapped>>
  /\ PushPending(f, p)

\* signal_awake(free_pending_wait) takes a parked worker off the queue; one
\* that is not parked yet it does not see
Parked == worker \in {"test_parked", "poll_parked"}
Woken == CASE worker = "test_parked" -> "test_woken"
           [] worker = "poll_parked" -> "poll_woken"
           [] OTHER -> worker

\* scheduler_schedule: it runs again, at the condition of its loop
Scheduled == CASE worker = "test_woken" -> "test"
               [] worker = "poll_woken" -> "poll"
               [] OTHER -> worker

Moves(f, to, cpus) ==
  /\ caller' = [caller EXCEPT ![f] = to]
  /\ on' = [on EXCEPT ![f] = cpus]
  /\ UNCHANGED <<pageVars, listVars, barrierVars, tlb, ipiVars, mode, other>>

\* lock_acquire(&wait->lock)
AwakeLock(f, c) ==
  /\ caller[f] = "awake" /\ FreeCpu(c) /\ WaitLockFree
  /\ Moves(f, "locked", {c})
  /\ UNCHANGED worker

\* the queue is taken and the lock released
AwakeTake(f) ==
  /\ caller[f] = "locked" /\ Runs(on[f])
  /\ Moves(f, IF Parked THEN "sched" ELSE "idle", {})
  /\ worker' = Woken

\* scheduler_schedule of the worker: lock_acquire(&lock_sched)
SchedLock(f, c) ==
  /\ caller[f] = "sched" /\ FreeCpu(c) /\ SchedLockFree
  /\ Moves(f, "queue", {c})
  /\ UNCHANGED worker

SchedDone(f) ==
  /\ caller[f] = "queue" /\ Runs(on[f])
  /\ Moves(f, "idle", {})
  /\ worker' = Scheduled

\* another process schedules something that is not the worker
OtherLock(c) ==
  /\ FreeCpu(c) /\ SchedLockFree
  /\ other' = {c}
  /\ UNCHANGED <<pageVars, listVars, barrierVars, worker, caller, tlb, ipiVars, mode, on>>

OtherDone ==
  /\ Runs(other)
  /\ other' = {}
  /\ UNCHANGED <<pageVars, listVars, barrierVars, worker, caller, tlb, ipiVars, mode, on>>

-----------------------------------------------------------------------------
(* free_all_pending.                                                         *)

WorkerStep(from, to) == worker = from /\ worker' = to

\* mm_transaction_init, when the boot CPU is up, schedules the thread, which
\* allocates its wait object
WorkerStart ==
  /\ enabled # {}
  /\ WorkerStep("unborn", "test")
  /\ UNCHANGED <<pageVars, listVars, barrierVars, caller, cpuVars>>

\* while (!pending_free) signal_wait(...): the test, without the lock
WorkerTest ==
  /\ WorkerStep("test", IF pending_free = {} THEN "test_gap" ELSE "take")
  /\ UNCHANGED <<pageVars, listVars, barrierVars, caller, cpuVars>>

\* Mutant: only the head of the list is retired, the rest is forgotten
WorkerTakeHead ==
  /\ WorkerStep("take", IF pending_free = {} THEN "test" ELSE "arm")
  /\ IF pending_free = {}
       THEN UNCHANGED <<listVars, todo>>
       ELSE /\ \E p \in pending_free : transaction_list' = {p}
            /\ pending_free' = {}
            /\ todo' = registered
  /\ UNCHANGED <<pageVars, registered, enabled, state, caller, cpuVars>>

WorkerTake ==
  /\ WorkerStep("take", IF pending_free = {} THEN "test" ELSE "arm")
  /\ IF pending_free = {}
       THEN UNCHANGED <<listVars, todo>>
       ELSE /\ transaction_list' = pending_free
            /\ pending_free' = {}
            /\ todo' = registered
  /\ UNCHANGED <<pageVars, registered, enabled, state, caller, cpuVars>>

\* one turn of the arming loop: state = 1, then the IPI to that APIC id, which
\* an APIC that is not enabled yet drops
WorkerArm(c) ==
  /\ worker = "arm"
  /\ c \in todo
  /\ todo' = todo \ {c}
  /\ state' = [state EXCEPT ![ApicId[c]] = 1]
  /\ IF c \in enabled THEN ipi' = ipi \cup {c} /\ UNCHANGED lost
                       ELSE lost' = lost \cup {c} /\ UNCHANGED ipi
  /\ UNCHANGED <<pageVars, listVars, registered, enabled, worker, caller, tlb, isr, walk, runVars>>

\* the loop ends and the lock is released
WorkerArmed ==
  /\ todo = {}
  /\ WorkerStep("arm", "poll")
  /\ UNCHANGED <<pageVars, listVars, barrierVars, caller, cpuVars>>

\* entries only fall from 1 to 0 while the worker looks, so its scan of the
\* list under the lock is one step
WorkerPoll ==
  /\ WorkerStep("poll", IF \E id \in Id : Entry(id) /\ state[id] = 1
                          THEN "poll_gap" ELSE "drain")
  /\ UNCHANGED <<pageVars, listVars, barrierVars, caller, cpuVars>>

\* Mutant: the transaction's type is tested the wrong way round
WorkerDrainSwapped(p) ==
  /\ worker = "drain"
  /\ p \in transaction_list
  /\ transaction_list' = transaction_list \ {p}
  /\ v_list' = IF p \in IPage THEN v_list \cup {p} ELSE v_list
  /\ p_list' = IF p \in VPage THEN p_list \cup {p} ELSE p_list
  /\ UNCHANGED <<reserved, mapped, unmapped, frames, pending_free, barrierVars, worker, caller, cpuVars>>

\* mm_free of one transaction, to the list its type names, and its kfree
WorkerDrain(p) ==
  /\ worker = "drain"
  /\ p \in transaction_list
  /\ transaction_list' = transaction_list \ {p}
  /\ v_list' = IF p \in VPage THEN v_list \cup {p} ELSE v_list
  /\ p_list' = IF p \in IPage THEN p_list \cup {p} ELSE p_list
  /\ UNCHANGED <<reserved, mapped, unmapped, frames, pending_free, barrierVars, worker, caller, cpuVars>>

\* back to the top of the loop; the one second sleep only delays the test
WorkerDrained ==
  /\ transaction_list = {}
  /\ WorkerStep("drain", "test")
  /\ UNCHANGED <<pageVars, listVars, barrierVars, caller, cpuVars>>

-----------------------------------------------------------------------------
(* The processors.                                                           *)

\* mm_register_barrier, from apic_init_ap
Register(c) ==
  /\ c \notin registered
  /\ LockFree
  /\ registered' = registered \cup {c}
  /\ state' = [state EXCEPT ![ApicId[c]] = 0]
  /\ UNCHANGED <<pageVars, listVars, enabled, todo, worker, caller, cpuVars>>

\* the rest of apic_init_ap: the spurious vector register enables the APIC
EnableApic(c) ==
  /\ c \in registered \ enabled
  /\ enabled' = enabled \cup {c}
  /\ UNCHANGED <<pageVars, listVars, registered, state, todo, worker, caller, cpuVars>>

\* Mutant: the entry is disarmed on entry to the handler, not on its way out
DispatchDisarmsFirst(c) ==
  /\ c \in ipi /\ Interruptible(c)
  /\ ipi' = ipi \ {c}
  /\ isr' = isr \cup {c}
  /\ walk' = [walk EXCEPT ![c] = transaction_list]
  /\ state' = IF Entry(ArbId[c]) THEN [state EXCEPT ![ArbId[c]] = 0] ELSE state
  /\ UNCHANGED <<pageVars, listVars, registered, enabled, todo, worker, caller, tlb, lost, runVars>>

\* Mutant: the handler walks the frees that are still pending
DispatchPending(c) ==
  /\ c \in ipi /\ Interruptible(c)
  /\ ipi' = ipi \ {c}
  /\ isr' = isr \cup {c}
  /\ walk' = [walk EXCEPT ![c] = pending_free]
  /\ UNCHANGED <<pageVars, listVars, barrierVars, worker, caller, tlb, lost, runVars>>

\* apic_tlb_shootdown_dispatch reads the list head
Dispatch(c) ==
  /\ c \in ipi /\ Interruptible(c)
  /\ ipi' = ipi \ {c}
  /\ isr' = isr \cup {c}
  /\ walk' = [walk EXCEPT ![c] = transaction_list]
  /\ UNCHANGED <<pageVars, listVars, barrierVars, worker, caller, tlb, lost, runVars>>

\* invlpg of one entry of the list
Invlpg(c, p) ==
  /\ c \in isr
  /\ p \in walk[c]
  /\ tlb' = [tlb EXCEPT ![c] = @ \ {p}]
  /\ walk' = [walk EXCEPT ![c] = @ \ {p}]
  /\ UNCHANGED <<pageVars, listVars, barrierVars, worker, caller, ipi, lost, isr, runVars>>

\* Mutant: the handler wakes the worker but leaves its entry armed
DisarmOnlyWakes(c) ==
  /\ c \in isr
  /\ walk[c] = {}
  /\ isr' = isr \ {c}
  /\ mode' = [mode EXCEPT ![c] = "awake"]
  /\ UNCHANGED <<pageVars, listVars, barrierVars, worker, caller, tlb, ipi, lost, walk, on, other>>

\* mm_barrier_disarm(arb_id), without the lock; the handler goes on to
\* signal_awake
Disarm(c) ==
  /\ c \in isr
  /\ walk[c] = {}
  /\ isr' = isr \ {c}
  /\ state' = IF Entry(ArbId[c]) THEN [state EXCEPT ![ArbId[c]] = 0] ELSE state
  /\ mode' = [mode EXCEPT ![c] = "awake"]
  /\ UNCHANGED <<pageVars, listVars, registered, enabled, todo, worker, caller, tlb, ipi, lost, walk, on, other>>

ModeStep(c, from, to) ==
  /\ mode[c] = from
  /\ mode' = [mode EXCEPT ![c] = to]
  /\ UNCHANGED <<pageVars, listVars, barrierVars, caller, tlb, ipiVars, other>>

\* signal_awake in the handler; the EOI follows if nobody was queued
HandlerAwake(c) ==
  /\ WaitLockFree
  /\ ModeStep(c, "awake", IF Parked THEN "sched" ELSE "run")
  /\ worker' = Woken
  /\ UNCHANGED on

\* ... and scheduler_schedule of the worker
HandlerSched(c) ==
  /\ SchedLockFree
  /\ ModeStep(c, "sched", "run")
  /\ worker' = Scheduled
  /\ UNCHANGED on

\* the timer interrupt stops a process that holds a lock; on other CPUs it
\* changes nothing here
Tick(c) ==
  /\ Interruptible(c)
  /\ c \in other \/ \E f \in Caller : c \in on[f]
  /\ ModeStep(c, "run", "tick")
  /\ UNCHANGED <<worker, on>>

\* the tick that finds the worker waiting runs signal_wait_callback
ParkTick(c) ==
  /\ worker \in {"test_gap", "poll_gap"}
  /\ FreeCpu(c)
  /\ \A d \in CPU : mode[d] # "park"
  /\ ModeStep(c, "run", "park")
  /\ UNCHANGED <<worker, on>>

Park(c) ==
  /\ WaitLockFree
  /\ ModeStep(c, "park", "tick")
  /\ WorkerStep("test_gap", "test_parked") \/ WorkerStep("poll_gap", "poll_parked")
  /\ UNCHANGED on

\* scheduler_run switches, under lock_sched
TickSwitch(c) ==
  /\ SchedLockFree
  /\ ModeStep(c, "tick", "run")
  /\ on' = [f \in Caller |-> on[f] \ {c}]
  /\ UNCHANGED worker

\* scheduler_run of some CPU comes to a process stopped with the wait's lock
Resume(f, c) ==
  /\ caller[f] = "locked" /\ on[f] = {}
  /\ FreeCpu(c) /\ SchedLockFree
  /\ Moves(f, "locked", {c})
  /\ UNCHANGED worker

-----------------------------------------------------------------------------
Users ==
  \/ \E p \in VPage : AllocV(p) \/ Map(p) \/ Unmap(p)
  \/ \E p \in IPage : AllocP(p)
  \/ \E c \in CPU, p \in VPage : Touch(c, p)
  \/ \E f \in Caller : \/ \E p \in VPage : MmFreeV(f, p)
                       \/ \E p \in IPage : MmFreePIdent(f, p)

Worker ==
  \/ WorkerStart \/ WorkerTest \/ WorkerTake
  \/ \E c \in CPU : WorkerArm(c)
  \/ WorkerArmed \/ WorkerPoll
  \/ \E p \in Page : WorkerDrain(p)
  \/ WorkerDrained

Interrupt(c) ==
  \/ Dispatch(c) \/ Disarm(c) \/ HandlerAwake(c) \/ Park(c)
  \/ \E p \in Page : Invlpg(c, p)

(* The steps that wait for lock_sched or for a CPU to run the worker. *)
Scheduling ==
  \/ \E c \in CPU : HandlerSched(c) \/ TickSwitch(c) \/ ParkTick(c)
  \/ \E f \in Caller, c \in CPU : SchedLock(f, c) \/ Resume(f, c)

Next ==
  \/ Users
  \/ Worker
  \/ Scheduling
  \/ \E f \in Caller : AwakeTake(f) \/ SchedDone(f) \/ \E c \in CPU : AwakeLock(f, c)
  \/ \E c \in CPU : Register(c) \/ EnableApic(c) \/ Interrupt(c) \/ Tick(c) \/ OtherLock(c)
  \/ OtherDone

Spec == Init /\ [][Next]_vars

(* Every CPU of CPU comes up.  The worker is a schedulable thread, an        *)
(* interrupt is delivered and goes on as soon as it can, and so does a       *)
(* process that holds a lock and executes.  Lock_sched, when it is free      *)
(* again and again, goes to one that spins on it, and a process that is      *)
(* resumed again and again gets to the end of the few instructions under the *)
(* wait's lock.  Nobody is obliged to allocate, touch, free or schedule.     *)
FairSpec ==
  /\ Spec
  /\ WF_vars(Worker) /\ WF_vars(OtherDone) /\ SF_vars(Scheduling)
  /\ \A f \in Caller : /\ WF_vars(\E c \in CPU : AwakeLock(f, c))
                        /\ SF_vars(AwakeTake(f)) /\ WF_vars(SchedDone(f))
  /\ \A c \in CPU : WF_vars(Register(c)) /\ WF_vars(EnableApic(c)) /\ WF_vars(Interrupt(c))

-----------------------------------------------------------------------------
TypeOK ==
  /\ v_list \subseteq VPage /\ reserved \subseteq VPage /\ mapped \subseteq VPage
  /\ unmapped \subseteq VPage
  /\ p_list \subseteq IPage /\ frames \subseteq IPage
  /\ pending_free \subseteq Page /\ transaction_list \subseteq Page
  /\ registered \subseteq CPU /\ enabled \subseteq registered /\ todo \subseteq CPU
  /\ state \in [Id -> {0, 1}]
  /\ worker \in WorkerPC
  /\ caller \in [Caller -> CallerPC]
  /\ tlb \in [CPU -> SUBSET VPage]
  /\ ipi \subseteq CPU /\ lost \subseteq CPU /\ isr \subseteq CPU
  /\ walk \in [CPU -> SUBSET Page]
  /\ mode \in [CPU -> Mode]
  /\ on \in [Caller -> SUBSET CPU]
  /\ other \subseteq CPU

(* A page that is on the free list, or was handed out again but not mapped   *)
(* yet, is cached by no CPU: free_all_pending gives pages back only when     *)
(* every CPU ran its invlpg loop, in whatever order the CPUs answer,         *)
(* register or are interrupted.                                              *)
NoStaleTranslation == \A c \in CPU : tlb[c] \cap (v_list \cup reserved) = {}

(* While free_all_pending frees the transactions no CPU is between reading   *)
(* the list head and its disarm, so apic_tlb_shootdown_dispatch never        *)
(* follows a node that was kfree'd.                                          *)
NoWalkDuringDrain == worker = "drain" => isr = {} /\ ipi = {}

(* The inductive strengthening.                                              *)

InRound == worker \in {"arm", "poll", "poll_gap", "poll_parked", "poll_woken"}

\* nothing of the current round is outstanding at c
Settled(c) == c \notin todo \cup ipi \cup lost \cup isr

(* A virtual page is in one place, so a page being retired is not in use. *)
PagesDisjoint ==
  /\ \A p \in v_list : p \notin reserved \cup mapped \cup unmapped \cup pending_free \cup transaction_list
  /\ \A p \in reserved : p \notin mapped \cup unmapped \cup pending_free \cup transaction_list
  /\ \A p \in mapped : p \notin unmapped \cup pending_free \cup transaction_list
  /\ \A p \in unmapped : p \notin pending_free \cup transaction_list
  /\ \A p \in pending_free \cap VPage : p \notin transaction_list

(* Between rounds no list is being retired and no interrupt is outstanding;  *)
(* in a round a CPU is interrupted once.                                     *)
QuietBetweenRounds ==
  /\ worker # "arm" => todo = {}
  /\ \A c \in isr : c \notin ipi \cup lost \cup todo
  /\ \A c \in ipi : c \notin lost \cup todo
  /\ \A c \in lost : c \notin todo
  /\ ~InRound => ipi = {} /\ lost = {} /\ isr = {}
  /\ ~InRound /\ worker # "drain" => transaction_list = {}

(* What a TLB holds is mapped or on its way through a free, and a CPU that   *)
(* has answered, or has yet to invalidate only walk, caches nothing else of  *)
(* the list.                                                                 *)
CacheBound ==
  \A c \in CPU :
    /\ tlb[c] \subseteq mapped \cup unmapped \cup pending_free \cup transaction_list
    /\ c \notin registered => tlb[c] = {}
    /\ Settled(c) => tlb[c] \cap transaction_list = {}
    /\ c \in isr => tlb[c] \cap transaction_list \subseteq walk[c]

(* R is the set of CPUs the round was started for.  An entry of R that is    *)
(* clear after it was armed was cleared by a CPU of R that is done.          *)
BarrierInv ==
  InRound =>
    \E R \in SUBSET registered :
      /\ todo \cup ipi \cup lost \cup isr \subseteq R
      /\ \A c \in R \ todo :
           state[ApicId[c]] = 0 => \E d \in R : Settled(d) /\ ArbId[d] = ApicId[c]

IInv == /\ TypeOK
        /\ PagesDisjoint
        /\ QuietBetweenRounds
        /\ CacheBound
        /\ BarrierInv

(* A CPU spins with interrupts off on a lock whose holder does not execute:  *)
(* the holder is the process it interrupted, or was stopped elsewhere.       *)
Spinning ==
  \E c \in CPU :
    \/ /\ mode[c] \in {"awake", "park"}
       /\ \E f \in Caller : caller[f] = "locked" /\ ~Runs(on[f])
    \/ /\ mode[c] \in {"sched", "tick"}
       /\ \/ other # {} /\ ~Runs(other)
          \/ \E f \in Caller : caller[f] = "queue" /\ ~Runs(on[f])

(* Spinning is for ever when the holder's own CPU spins, or when no other    *)
(* CPU can switch to it.                                                     *)
Jammed == <>[]Spinning

(* The barrier comes down: whatever entries the arming loop set, they are    *)
(* all disarmed, unless the IPI to a CPU that registered before it enabled   *)
(* its APIC was dropped, or a CPU spins for ever in an interrupt on a lock   *)
(* of signal_awake.  Holds when each CPU disarms the entry it registered;    *)
(* with ArbId # ApicId a CPU can disarm an entry before it is armed.         *)
BarrierComesDown ==
  \/ (worker = "arm") ~> ((\A id \in Id : Entry(id) => state[id] = 0) \/ lost # {})
  \/ Jammed

(* The worker sleeps although it has work and nobody is about to wake it:    *)
(* the wakeup fell between its test and the tick that parked it.             *)
Stalled ==
  /\ \A f \in Caller : caller[f] = "idle"
  /\ isr = {} /\ ipi = {} /\ \A c \in CPU : mode[c] \notin {"awake", "sched"}
  /\ \/ worker = "test_parked" /\ pending_free # {}
     \/ worker = "poll_parked"

(* A freed page comes back to its free list unless the worker misses its     *)
(* wakeup in the gap between testing and parking, the IPI to a CPU still     *)
(* coming up was dropped, or a CPU spins for ever in an interrupt on a lock  *)
(* of signal_awake.                                                          *)
FreeCompletes ==
  \/ \A p \in Page : (p \in pending_free) ~> (p \in v_list \cup p_list \/ Stalled \/ lost # {})
  \/ Jammed
=============================================================================
