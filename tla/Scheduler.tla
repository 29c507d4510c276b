------------------------------ MODULE Scheduler ------------------------------
(***************************************************************************)
(* Scheduling, sleeping, blocking, exit and reaping: scheduler.c, signal.c *)
(* and the parts of process.c that move a process control block (PCB)      *)
(* between queues.                                                         *)
(*                                                                         *)
(* Two kinds of actor share the queues.  A process runs kernel code with   *)
(* interrupts enabled on the CPU whose current_process it is; the timer    *)
(* interrupt of that CPU may stop it between any two steps and runs        *)
(* scheduler_run on a stack of its own.  A step of the interrupt takes and *)
(* releases its spinlocks within the step (nothing can interrupt it for    *)
(* longer); a process that holds a lock can be stopped while it does, so   *)
(* its critical sections span steps.                                       *)
(*                                                                         *)
(* A parent forks a child, waits for it (process_reap_child) or not; any   *)
(* user process may replace its image (process_execve) or exit; the reaper *)
(* thread turns discarded PCBs into zombies and wakes their parents.       *)
(***************************************************************************)
EXTENDS Integers, Sequences, SequencesExt, FiniteSets

CONSTANTS CPU,
          Parent, Child,   \* user processes
          Thread,          \* kernel threads that only sleep and run
          Reaper,          \* the thread running process_reap
          Shadow,          \* PCBs execve builds ("desired")
          None,
          MaxSleep,        \* bound: longest sleep, in clock units
          MaxLag           \* bound: overdue by this much or more is all the same

User == {Parent, Child}
Proc == User \cup Thread \cup {Reaper} \cup Shadow

ASSUME SchedAssumption ==
  /\ MaxSleep \in Nat \ {0} /\ MaxLag \in Nat
  /\ Parent # Child /\ Reaper \notin User \cup Thread \cup Shadow
  /\ User \cap Thread = {} /\ Shadow \cap (User \cup Thread) = {}
  /\ IsFiniteSet(Thread)
  /\ None \notin Proc

VARIABLES
  current,       \* proc_data_t.current_process of each CPU
  isr,           \* where each CPU stands in scheduler_run ("off": not in it)
  isrObj,        \* the PCB process_discard was called with
  isrList,       \* PCBs signal_awake has taken and not yet scheduled
  pc,            \* where each process stands in its kernel code
  cntr,          \* pcb_t.sched_cntr
  callback,      \* pcb_t.sleep_state.callback with its meta words
  left,          \* wake_time minus the current time
  active_queue, sleep_queue, reap_queue,
  queue,         \* signal_wait_t.queue of reap_wait and of Child's monitor
  list,          \* PCBs a process still has to hand to scheduler_schedule
  reaping,       \* PCBs the reaper took off reap_queue
  lock_sched, lock_proc, lock_reap,
  plock,         \* the Child's plock
  torn           \* an execve overwrote the plock while it was held

cpuVars == <<current, isr, isrObj, isrList>>
lockVars == <<lock_sched, lock_proc, lock_reap, plock, torn>>
queueVars == <<active_queue, sleep_queue, reap_queue, queue>>
vars == <<cpuVars, pc, cntr, callback, left, queueVars, list, reaping, lockVars>>

SchedCntr == {"READY", "SIGNAL_READY", "SLEEP", "CALLBACK", "KILL", "ZOMBIE"}
Wait == {"monitor", "reap_wait"}
NoCallback == [kind |-> "none", arg |-> None]

(* p executes its own code: it is current on a CPU outside the interrupt.    *)
Runs(p) == \E c \in CPU : current[c] = p /\ isr[c] = "off"

At(p, label) == pc[p] = label /\ Runs(p)
Goto(p, label) == pc' = [pc EXCEPT ![p] = label]

Init ==
  /\ current = [c \in CPU |-> None]
  /\ isr = [c \in CPU |-> "off"]
  /\ isrObj = [c \in CPU |-> None]
  /\ isrList = [c \in CPU |-> <<>>]
  /\ pc = [p \in Proc |-> IF p = Reaper THEN "reap_sleep"
                          ELSE IF p \in Shadow \cup {Child} THEN "unborn" ELSE "run"]
  /\ cntr = [p \in Proc |-> "READY"]
  /\ callback = [p \in Proc |-> NoCallback]
  /\ left = [p \in Proc |-> 0]
  /\ active_queue = SetToSeq({Parent, Reaper} \cup Thread)
  /\ sleep_queue = <<>> /\ reap_queue = <<>>
  /\ queue = [w \in Wait |-> <<>>]
  /\ list = [p \in Proc |-> <<>>]
  /\ reaping = <<>>
  /\ lock_sched = None /\ lock_proc = None /\ lock_reap = None /\ plock = None
  /\ torn = FALSE

-----------------------------------------------------------------------------
(* scheduler_schedule from process context: append under lock_sched.         *)

ScheduleLock(p) ==
  /\ At(p, "sched_lock")
  /\ lock_sched = None
  /\ lock_sched' = p
  /\ Goto(p, "sched_append")
  /\ UNCHANGED <<cpuVars, cntr, callback, left, queueVars, list, reaping,
                 lock_proc, lock_reap, plock, torn>>

ScheduleAppend(p) ==
  /\ At(p, "sched_append")
  /\ active_queue' = Append(active_queue, Head(list[p]))
  /\ list' = [list EXCEPT ![p] = Tail(@)]
  /\ lock_sched' = None
  /\ Goto(p, IF p = Reaper THEN "awake_next" ELSE "run")
  /\ UNCHANGED <<cpuVars, cntr, callback, left, sleep_queue, reap_queue, queue,
                 reaping, lock_proc, lock_reap, plock, torn>>

\* process_fork: assign a pid under lock_proc, then schedule the child
Fork ==
  /\ At(Parent, "run")
  /\ pc[Child] = "unborn"
  /\ lock_proc = None
  /\ pc' = [pc EXCEPT ![Parent] = "sched_lock", ![Child] = "run"]
  /\ list' = [list EXCEPT ![Parent] = <<Child>>]
  /\ UNCHANGED <<cpuVars, cntr, callback, left, queueVars, reaping, lockVars>>

-----------------------------------------------------------------------------
(* process_sleep, called through time_sleep.  A sleep lasts far longer than  *)
(* the timer period, so a tick always takes the sleeper off its CPU before   *)
(* the loop on the clock ends.                                               *)

Sleep(p, d) ==
  /\ \/ p \in Thread /\ At(p, "run") /\ Goto(p, "sleeping")
     \/ p = Reaper /\ At(p, "reap_sleep") /\ Goto(p, "reap_sleeping")
  /\ left' = [left EXCEPT ![p] = d]
  /\ cntr' = [cntr EXCEPT ![p] = "SLEEP"]
  /\ UNCHANGED <<cpuVars, callback, queueVars, list, reaping, lockVars>>

SleepDone(p) ==
  /\ cntr[p] # "SLEEP"
  /\ left[p] <= 0
  /\ \/ At(p, "sleeping") /\ Goto(p, "run")
     \/ At(p, "reap_sleeping") /\ Goto(p, "reap_test")
  /\ left' = [left EXCEPT ![p] = 0]
  /\ UNCHANGED <<cpuVars, cntr, callback, queueVars, list, reaping, lockVars>>

Sleeping(p) == pc[p] \in {"sleeping", "reap_sleeping"}

\* the clock every wake time is compared with; sleepers that are overdue by
\* MaxLag or more are not told apart
Clock ==
  /\ \E p \in Proc : Sleeping(p) /\ left[p] > -MaxLag
  /\ left' = [p \in Proc |-> IF Sleeping(p) /\ left[p] > -MaxLag THEN left[p] - 1 ELSE left[p]]
  /\ UNCHANGED <<cpuVars, pc, cntr, callback, queueVars, list, reaping, lockVars>>

-----------------------------------------------------------------------------
(* signal_wait_locked and the loop of process_reap_child around it.          *)

\* process_set_callback(signal_wait_callback), then halt until a wakeup
SetWait(p, w) ==
  /\ callback' = [callback EXCEPT ![p] = [kind |-> "wait", arg |-> w]]
  /\ cntr' = [cntr EXCEPT ![p] = "CALLBACK"]

ReapChildLock ==
  /\ \/ At(Parent, "run") /\ pc[Child] \notin {"unborn", "freed"}
     \/ At(Parent, "wait_lock")
  /\ plock = None
  /\ plock' = Parent
  /\ Goto(Parent, "wait_check")
  /\ UNCHANGED <<cpuVars, cntr, callback, left, queueVars, list, reaping,
                 lock_sched, lock_proc, lock_reap, torn>>

\* Mutant: the plock is released when the wait is requested, not when it is done
ReapChildCheckUnlocked ==
  /\ At(Parent, "wait_check")
  /\ plock' = None
  /\ \/ /\ cntr[Child] = "ZOMBIE"
        /\ pc' = [pc EXCEPT ![Parent] = "run", ![Child] = "freed"]
        /\ UNCHANGED <<cntr, callback>>
     \/ /\ cntr[Child] # "ZOMBIE"
        /\ SetWait(Parent, "monitor")
        /\ Goto(Parent, "halt")
  /\ UNCHANGED <<cpuVars, left, queueVars, list, reaping, lock_sched, lock_proc,
                 lock_reap, torn>>

\* Mutant: a child that was killed is taken for a dead one
ReapChildCheckKilled ==
  /\ At(Parent, "wait_check")
  /\ \/ /\ cntr[Child] \in {"KILL", "ZOMBIE"}
        /\ plock' = None
        /\ pc' = [pc EXCEPT ![Parent] = "run", ![Child] = "freed"]
        /\ UNCHANGED <<cntr, callback>>
     \/ /\ cntr[Child] \notin {"KILL", "ZOMBIE"}
        /\ SetWait(Parent, "monitor")
        /\ Goto(Parent, "halt")
        /\ UNCHANGED plock
  /\ UNCHANGED <<cpuVars, left, queueVars, list, reaping, lock_sched, lock_proc,
                 lock_reap, torn>>

ReapChildCheck ==
  /\ At(Parent, "wait_check")
  /\ \/ /\ cntr[Child] = "ZOMBIE"
        /\ plock' = None
        /\ pc' = [pc EXCEPT ![Parent] = "run", ![Child] = "freed"]
        /\ UNCHANGED <<cntr, callback>>
     \/ /\ cntr[Child] # "ZOMBIE"
        /\ SetWait(Parent, "monitor")
        /\ Goto(Parent, "halt")
        /\ UNCHANGED plock
  /\ UNCHANGED <<cpuVars, left, queueVars, list, reaping, lock_sched, lock_proc,
                 lock_reap, torn>>

\* the hlt loop sees SCHED_SIGNAL_READY
WaitDone(p) ==
  /\ At(p, "halt")
  /\ cntr[p] = "SIGNAL_READY"
  /\ cntr' = [cntr EXCEPT ![p] = "READY"]
  /\ Goto(p, IF p = Reaper THEN "reap_test" ELSE "wait_lock")
  /\ UNCHANGED <<cpuVars, callback, left, queueVars, list, reaping, lockVars>>

-----------------------------------------------------------------------------
(* process_exit / process_kill_current, and execve.                          *)

KillLock(p) ==
  /\ p \in User \cup Thread
  /\ At(p, "run")
  /\ lock_proc = None
  /\ lock_proc' = p
  /\ Goto(p, "kill_set")
  /\ UNCHANGED <<cpuVars, cntr, callback, left, queueVars, list, reaping,
                 lock_sched, lock_reap, plock, torn>>

KillSet(p) ==
  /\ At(p, "kill_set")
  /\ cntr' = [cntr EXCEPT ![p] = "KILL"]
  /\ Goto(p, "kill_release")
  /\ UNCHANGED <<cpuVars, callback, left, queueVars, list, reaping, lockVars>>

KillRelease(p) ==
  /\ At(p, "kill_release")
  /\ lock_proc' = None
  /\ Goto(p, "dead")
  /\ UNCHANGED <<cpuVars, cntr, callback, left, queueVars, list, reaping,
                 lock_sched, lock_reap, plock, torn>>

\* the new image is built in a second PCB; the swap happens in the callback
Execve(p, s) ==
  /\ p \in User
  /\ At(p, "run")
  /\ pc[s] = "unborn"
  /\ callback' = [callback EXCEPT ![p] = [kind |-> "execve", arg |-> s]]
  /\ cntr' = [cntr EXCEPT ![p] = "CALLBACK"]
  /\ pc' = [pc EXCEPT ![p] = "exec", ![s] = "desired"]
  /\ UNCHANGED <<cpuVars, left, queueVars, list, reaping, lockVars>>

-----------------------------------------------------------------------------
(* process_reap.                                                             *)

\* while (!reap_queue) signal_wait(reap_wait): no lock around test and wait
ReapTest ==
  /\ At(Reaper, "reap_test")
  /\ \/ /\ reap_queue = <<>>
        /\ SetWait(Reaper, "reap_wait")
        /\ Goto(Reaper, "halt")
     \/ /\ reap_queue # <<>>
        /\ Goto(Reaper, "reap_lock")
        /\ UNCHANGED <<cntr, callback>>
  /\ UNCHANGED <<cpuVars, left, queueVars, list, reaping, lockVars>>

ReapLock ==
  /\ At(Reaper, "reap_lock")
  /\ lock_reap = None
  /\ lock_reap' = Reaper
  /\ Goto(Reaper, "reap_take")
  /\ UNCHANGED <<cpuVars, cntr, callback, left, queueVars, list, reaping,
                 lock_sched, lock_proc, plock, torn>>

ReapTake ==
  /\ At(Reaper, "reap_take")
  /\ reaping' = reap_queue
  /\ reap_queue' = <<>>
  /\ lock_reap' = None
  /\ Goto(Reaper, "reap_next")
  /\ UNCHANGED <<cpuVars, cntr, callback, left, active_queue, sleep_queue, queue,
                 list, lock_sched, lock_proc, plock, torn>>

\* reap_prepare: stale PCBs and kernel threads only lose their memory; for a
\* user process the children, files and stack go first, then its plock is taken
ReapPrepare ==
  /\ At(Reaper, "reap_next")
  /\ \/ /\ reaping = <<>>
        /\ Goto(Reaper, "reap_sleep")
        /\ UNCHANGED <<reaping, plock>>
     \/ /\ reaping # <<>> /\ Head(reaping) \notin User
        /\ pc' = [pc EXCEPT ![Head(reaping)] = "freed"]
        /\ reaping' = Tail(reaping)
        /\ UNCHANGED plock
     \/ /\ reaping # <<>> /\ Head(reaping) \in User
        /\ Head(reaping) = Child => plock = None
        /\ plock' = IF Head(reaping) = Child THEN Reaper ELSE plock
        /\ Goto(Reaper, "reap_zombie")
        /\ UNCHANGED reaping
  /\ UNCHANGED <<cpuVars, cntr, callback, left, queueVars, list, lock_sched,
                 lock_proc, lock_reap, torn>>

ReapZombie ==
  /\ At(Reaper, "reap_zombie")
  /\ cntr' = [cntr EXCEPT ![Head(reaping)] = "ZOMBIE"]
  /\ Goto(Reaper, "reap_awake")
  /\ UNCHANGED <<cpuVars, callback, left, queueVars, list, reaping, lockVars>>

\* signal_awake_locked: take the whole queue, release the caller's lock
ReapAwake ==
  /\ At(Reaper, "reap_awake")
  /\ IF Head(reaping) = Child
       THEN /\ list' = [list EXCEPT ![Reaper] = queue["monitor"]]
            /\ queue' = [queue EXCEPT !["monitor"] = <<>>]
            /\ plock' = None
       ELSE UNCHANGED <<list, queue, plock>>
  /\ reaping' = Tail(reaping)
  /\ Goto(Reaper, "awake_next")
  /\ UNCHANGED <<cpuVars, cntr, callback, left, active_queue, sleep_queue, reap_queue,
                 lock_sched, lock_proc, lock_reap, torn>>

\* Mutant: the woken PCB is scheduled but not marked SCHED_SIGNAL_READY
AwakeNextUnmarked ==
  /\ At(Reaper, "awake_next")
  /\ Goto(Reaper, IF list[Reaper] = <<>> THEN "reap_next" ELSE "sched_lock")
  /\ UNCHANGED <<cpuVars, cntr, callback, left, queueVars, list, reaping, lockVars>>

\* the loop of signal_awake_locked over the PCBs it took
AwakeNext ==
  /\ At(Reaper, "awake_next")
  /\ \/ /\ list[Reaper] = <<>>
        /\ Goto(Reaper, "reap_next")
        /\ UNCHANGED cntr
     \/ /\ list[Reaper] # <<>>
        /\ cntr' = [cntr EXCEPT ![Head(list[Reaper])] = "SIGNAL_READY"]
        /\ Goto(Reaper, "sched_lock")
  /\ UNCHANGED <<cpuVars, callback, left, queueVars, list, reaping, lockVars>>

-----------------------------------------------------------------------------
(* The timer interrupt: scheduler_run.                                       *)

IsrGoto(c, label) == isr' = [isr EXCEPT ![c] = label]

Timer(c) ==
  /\ isr[c] = "off"
  /\ IsrGoto(c, IF current[c] = None THEN "pick" ELSE "switch")
  /\ UNCHANGED <<current, isrObj, isrList, pc, cntr, callback, left, queueVars,
                 list, reaping, lockVars>>

\* case SCHED_READY, SCHED_SIGNAL_READY
SwitchReady(c) ==
  /\ isr[c] = "switch"
  /\ cntr[current[c]] \in {"READY", "SIGNAL_READY"}
  /\ lock_sched = None
  /\ active_queue' = Append(active_queue, current[c])
  /\ IsrGoto(c, "pick")
  /\ UNCHANGED <<current, isrObj, isrList, pc, cntr, callback, left, sleep_queue,
                 reap_queue, queue, list, reaping, lockVars>>

\* the queue is walked while the sleeper's wake time is the smaller one
SleepPosition(p) ==
  CHOOSE n \in 0..Len(sleep_queue) :
    /\ \A i \in 1..n : left[p] < left[sleep_queue[i]]
    /\ n < Len(sleep_queue) => ~(left[p] < left[sleep_queue[n + 1]])

SwitchSleep(c) ==
  LET p == current[c] IN
  /\ isr[c] = "switch"
  /\ cntr[p] = "SLEEP"
  /\ lock_sched = None
  /\ cntr' = [cntr EXCEPT ![p] = "READY"]
  /\ sleep_queue' = InsertAt(sleep_queue, SleepPosition(p) + 1, p)
  /\ IsrGoto(c, "pick")
  /\ UNCHANGED <<current, isrObj, isrList, pc, callback, left, active_queue,
                 reap_queue, queue, list, reaping, lockVars>>

\* Mutant: the case falls through to SCHED_READY
SwitchWaitFallsThrough(c) ==
  LET p == current[c]
      w == callback[p].arg IN
  /\ isr[c] = "switch"
  /\ cntr[p] = "CALLBACK" /\ callback[p].kind = "wait"
  /\ lock_sched = None
  /\ queue' = [queue EXCEPT ![w] = <<p>> \o @]
  /\ plock' = IF w = "monitor" THEN None ELSE plock
  /\ active_queue' = Append(active_queue, p)
  /\ IsrGoto(c, "pick")
  /\ UNCHANGED <<current, isrObj, isrList, pc, cntr, callback, left,
                 sleep_queue, reap_queue, list, reaping, lock_sched, lock_proc,
                 lock_reap, torn>>

\* case SCHED_CALLBACK with signal_wait_callback: park, then release the rlock
SwitchWait(c) ==
  LET p == current[c]
      w == callback[p].arg IN
  /\ isr[c] = "switch"
  /\ cntr[p] = "CALLBACK" /\ callback[p].kind = "wait"
  /\ queue' = [queue EXCEPT ![w] = <<p>> \o @]
  /\ plock' = IF w = "monitor" THEN None ELSE plock
  /\ IsrGoto(c, "pick")
  /\ UNCHANGED <<current, isrObj, isrList, pc, cntr, callback, left, active_queue,
                 sleep_queue, reap_queue, list, reaping, lock_sched, lock_proc,
                 lock_reap, torn>>

\* case SCHED_CALLBACK with process_execve: the new contents, plock included,
\* replace the old ones; the old image goes to process_discard
SwitchExecve(c) ==
  LET p == current[c] IN
  /\ isr[c] = "switch"
  /\ cntr[p] = "CALLBACK" /\ callback[p].kind = "execve"
  /\ lock_sched = None
  /\ pc' = [pc EXCEPT ![p] = "run", ![callback[p].arg] = "stale"]
  /\ cntr' = [cntr EXCEPT ![p] = "READY"]
  /\ plock' = IF p = Child THEN None ELSE plock
  /\ torn' = (torn \/ (p = Child /\ plock # None))
  /\ active_queue' = Append(active_queue, p)
  /\ isrObj' = [isrObj EXCEPT ![c] = callback[p].arg]
  /\ IsrGoto(c, "discard")
  /\ UNCHANGED <<current, isrList, callback, left, sleep_queue, reap_queue, queue,
                 list, reaping, lock_sched, lock_proc, lock_reap>>

\* Mutant: a killed process is not handed to process_discard
SwitchKillForgets(c) ==
  /\ isr[c] = "switch"
  /\ cntr[current[c]] = "KILL"
  /\ IsrGoto(c, "pick")
  /\ UNCHANGED <<current, isrObj, isrList, pc, cntr, callback, left, queueVars, list,
                 reaping, lockVars>>

\* case SCHED_KILL
SwitchKill(c) ==
  /\ isr[c] = "switch"
  /\ cntr[current[c]] = "KILL"
  /\ isrObj' = [isrObj EXCEPT ![c] = current[c]]
  /\ IsrGoto(c, "discard")
  /\ UNCHANGED <<current, isrList, pc, cntr, callback, left, queueVars, list,
                 reaping, lockVars>>

\* process_discard: push under lock_reap, then signal_awake(reap_wait)
Discard(c) ==
  /\ isr[c] = "discard"
  /\ lock_reap = None
  /\ reap_queue' = <<isrObj[c]>> \o reap_queue
  /\ isrObj' = [isrObj EXCEPT ![c] = None]
  /\ IsrGoto(c, "take")
  /\ UNCHANGED <<current, isrList, pc, cntr, callback, left, active_queue,
                 sleep_queue, queue, list, reaping, lockVars>>

DiscardTake(c) ==
  /\ isr[c] = "take"
  /\ isrList' = [isrList EXCEPT ![c] = queue["reap_wait"]]
  /\ queue' = [queue EXCEPT !["reap_wait"] = <<>>]
  /\ IsrGoto(c, "awake")
  /\ UNCHANGED <<current, isrObj, pc, cntr, callback, left, active_queue,
                 sleep_queue, reap_queue, list, reaping, lockVars>>

DiscardAwake(c) ==
  /\ isr[c] = "awake"
  /\ IF isrList[c] = <<>>
       THEN IsrGoto(c, "pick") /\ UNCHANGED <<isrList, cntr, active_queue>>
       ELSE /\ lock_sched = None
            /\ cntr' = [cntr EXCEPT ![Head(isrList[c])] = "SIGNAL_READY"]
            /\ active_queue' = Append(active_queue, Head(isrList[c]))
            /\ isrList' = [isrList EXCEPT ![c] = Tail(@)]
            /\ UNCHANGED isr
  /\ UNCHANGED <<current, isrObj, pc, callback, left, sleep_queue, reap_queue, queue,
                 list, reaping, lockVars>>

(* wake the sleepers at the head that are due, then run the first PCB        *)
DuePrefix ==
  CHOOSE n \in 0..Len(sleep_queue) :
    /\ \A i \in 1..n : left[sleep_queue[i]] <= 0
    /\ n < Len(sleep_queue) => left[sleep_queue[n + 1]] > 0

\* Mutant: due sleepers leave sleep_queue but are not scheduled
PickDropsDue(c) ==
  /\ isr[c] = "pick"
  /\ lock_sched = None
  /\ sleep_queue' = SubSeq(sleep_queue, DuePrefix + 1, Len(sleep_queue))
  /\ active_queue' = IF active_queue = <<>> THEN <<>> ELSE Tail(active_queue)
  /\ current' = [current EXCEPT ![c] = IF active_queue = <<>> THEN None ELSE Head(active_queue)]
  /\ IsrGoto(c, "off")
  /\ UNCHANGED <<isrObj, isrList, pc, cntr, callback, left, reap_queue, queue, list,
                 reaping, lockVars>>

Pick(c) ==
  LET ready == active_queue \o SubSeq(sleep_queue, 1, DuePrefix) IN
  /\ isr[c] = "pick"
  /\ lock_sched = None
  /\ sleep_queue' = SubSeq(sleep_queue, DuePrefix + 1, Len(sleep_queue))
  /\ active_queue' = IF ready = <<>> THEN <<>> ELSE Tail(ready)
  /\ current' = [current EXCEPT ![c] = IF ready = <<>> THEN None ELSE Head(ready)]
  /\ IsrGoto(c, "off")
  /\ UNCHANGED <<isrObj, isrList, pc, cntr, callback, left, reap_queue, queue, list,
                 reaping, lockVars>>

SchedulerRun(c) ==
  \/ SwitchReady(c) \/ SwitchSleep(c) \/ SwitchWait(c) \/ SwitchExecve(c)
  \/ SwitchKill(c) \/ Discard(c) \/ DiscardTake(c) \/ DiscardAwake(c) \/ Pick(c)

-----------------------------------------------------------------------------
(* Steps a running process does not choose. *)
Continue(p) ==
  \/ ScheduleLock(p) \/ ScheduleAppend(p) \/ SleepDone(p) \/ WaitDone(p)
  \/ KillSet(p) \/ KillRelease(p)
  \/ p = Parent /\ pc[p] # "run" /\ (ReapChildLock \/ ReapChildCheck)
  \/ p = Reaper /\ \/ ReapTest \/ ReapLock \/ ReapTake \/ ReapPrepare
                   \/ ReapZombie \/ ReapAwake \/ AwakeNext
                   \/ \E d \in 1..MaxSleep : Sleep(p, d)

(* Calls a running process may make. *)
Call(p) ==
  \/ KillLock(p)
  \/ \E s \in Shadow : Execve(p, s)
  \/ p = Parent /\ (Fork \/ ReapChildLock)
  \/ p \in Thread /\ \E d \in 1..MaxSleep : Sleep(p, d)

Next ==
  \/ \E p \in Proc : Call(p) \/ Continue(p)
  \/ Clock
  \/ \E c \in CPU : Timer(c) \/ SchedulerRun(c)

Spec == Init /\ [][Next]_vars

(* A process that is given the CPU gets instructions executed between two    *)
(* ticks (the period is 10 ms), again and again if it is preempted again and *)
(* again, so strong fairness; the clock, the timers and the interrupt code   *)
(* never stop.  No process is obliged to call anything.                      *)
FairSpec ==
  /\ Spec
  /\ WF_vars(Clock)
  /\ \A p \in Proc : SF_vars(Continue(p))
  /\ \A c \in CPU : WF_vars(Timer(c)) /\ SF_vars(SchedulerRun(c))

-----------------------------------------------------------------------------
Labels == {"unborn", "desired", "stale", "freed", "run", "dead", "exec",
           "sched_lock", "sched_append", "sleeping", "halt",
           "wait_lock", "wait_check", "kill_set", "kill_release",
           "reap_sleep", "reap_sleeping", "reap_test", "reap_lock", "reap_take",
           "reap_next", "reap_zombie", "reap_awake", "awake_next"}

TypeOK ==
  /\ current \in [CPU -> Proc \cup {None}]
  /\ isr \in [CPU -> {"off", "switch", "discard", "take", "awake", "pick"}]
  /\ isrObj \in [CPU -> Proc \cup {None}]
  /\ isrList \in [CPU -> Seq(Proc)]
  /\ pc \in [Proc -> Labels]
  /\ cntr \in [Proc -> SchedCntr]
  /\ callback \in [Proc -> [kind : {"none", "wait", "execve"}, arg : Wait \cup Proc \cup {None}]]
  /\ left \in [Proc -> -MaxLag..MaxSleep]
  /\ active_queue \in Seq(Proc) /\ sleep_queue \in Seq(Proc) /\ reap_queue \in Seq(Proc)
  /\ queue \in [Wait -> Seq(Proc)]
  /\ list \in [Proc -> Seq(Proc)]
  /\ reaping \in Seq(Proc)
  /\ {lock_sched, lock_proc, lock_reap, plock} \subseteq Proc \cup {None}
  /\ torn \in BOOLEAN

(* Where a PCB can be found: each place is a use of its single next field or *)
(* of its saved registers.                                                   *)
Count(s, p) == Cardinality({i \in DOMAIN s : s[i] = p})
OnCpu(p) == {c \in CPU : current[c] = p /\ isr[c] \in {"off", "switch"}}
Places(p) ==
  Cardinality(OnCpu(p)) + Count(active_queue, p) + Count(sleep_queue, p)
  + Count(reap_queue, p) + Count(reaping, p)
  + Count(queue["monitor"], p) + Count(queue["reap_wait"], p)
  + Cardinality({c \in CPU : isrObj[c] = p})
  + Cardinality({c \in CPU : Count(isrList[c], p) > 0})
  + Cardinality({q \in Proc : Count(list[q], p) > 0})

(* scheduler_run, signal_wait_callback, signal_awake_locked, process_discard *)
(* and process_reap never link a PCB into two lists, never run it on two     *)
(* CPUs, and never drop one: a PCB is nowhere only before it is scheduled    *)
(* and after it is a zombie or freed.                                        *)
OnePlace ==
  /\ TypeOK
  /\ \A p \in Proc :
       /\ Places(p) <= 1
       /\ Places(p) = 0 => cntr[p] = "ZOMBIE" \/ pc[p] \in {"unborn", "desired", "freed"}

(* The plock handshake of process_reap_child and reap_prepare loses no       *)
(* wakeup: a parent is never parked on the monitor of a child that is        *)
(* already a zombie once the lock is free.  It holds unless an execve of the *)
(* child overwrote the lock byte while somebody held it.                     *)
NoLostWakeup ==
  ~torn /\ cntr[Child] = "ZOMBIE" /\ plock = None => queue["monitor"] = <<>>

(* process_reap_child frees the child only when the reaper is done with it:  *)
(* the reaper holds no freed PCB, and no freed or zombie PCB is queued to    *)
(* run (scheduler_run's "Zombie process still running" is never reached).    *)
DeadStayDead ==
  ~torn =>
    /\ \A p \in Proc : pc[p] = "freed" => Places(p) = 0
    /\ \A p \in Proc : cntr[p] = "ZOMBIE" => Places(p) = Count(reaping, p)

(* The ways the kernel can stop making progress, all of them ticks that fell *)
(* into a window: the interrupt spins on a lock the process it interrupted   *)
(* holds ...                                                                 *)
SelfDeadlock ==
  lock_sched # None /\ \E c \in CPU : current[c] = lock_sched /\ isr[c] = "switch"

(* ... every CPU spins on lock_reap, which the preempted reaper holds ...    *)
ReapDeadlock ==
  lock_reap # None /\ \A c \in CPU : isr[c] = "discard"

(* ... the reaper parked after the wakeup for a discarded PCB was issued.    *)
ReaperMissed ==
  /\ reap_queue # <<>>
  /\ Count(queue["reap_wait"], Reaper) > 0
  /\ \A c \in CPU : isr[c] # "take"

Jammed == SelfDeadlock \/ ReapDeadlock \/ ReaperMissed

(* A child that asked to be killed becomes a zombie: the next tick discards  *)
(* it and the reaper, however it sleeps and is preempted, gets to it, unless *)
(* the kernel jammed in one of the three ways above.                         *)
ExitCompletes == (cntr[Child] = "KILL") ~> (cntr[Child] = "ZOMBIE" \/ Jammed)

(* A parent that waits for a child that has died returns from                *)
(* process_reap_child, having freed the child.                               *)
WaitReturns ==
  (pc[Parent] \in {"wait_lock", "wait_check", "halt"} /\ cntr[Child] = "ZOMBIE")
    ~> (pc[Child] = "freed" \/ Jammed)

(* Although a sleeper is woken only when everything ahead of it on           *)
(* sleep_queue is due, and later sleepers go ahead of it, no sleeper is kept *)
(* on the queue for ever.                                                    *)
SleepersWake == \A p \in Thread \cup {Reaper} : Sleeping(p) ~> (~Sleeping(p) \/ Jammed)

(* scheduler.c:107 says the scan wakes sleeping processes: after it no       *)
(* process whose wake time has passed is left on sleep_queue.                *)
ScanWakesAllDue ==
  [][\A c \in CPU : isr[c] = "pick" /\ isr'[c] = "off" =>
       \A i \in DOMAIN sleep_queue' : left[sleep_queue'[i]] > 0]_vars
=============================================================================
