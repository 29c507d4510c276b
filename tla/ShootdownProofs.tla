--------------------------- MODULE ShootdownProofs ---------------------------
(***************************************************************************)
(* Proofs about Shootdown, for any number of CPUs, pages and callers and   *)
(* any (injective) assignment of APIC and arbitration ids.                 *)
(***************************************************************************)
EXTENDS Shootdown, FiniteSetTheorems, TLAPS

(* The type invariant of free_all_pending, the free paths and the shootdown  *)
(* interrupt.                                                                *)
THEOREM TypeCorrect == Spec => []TypeOK
<1> USE IdAssumption DEF Page, WorkerPC, CallerPC, Mode
<1>1. Init => TypeOK
  BY DEF Init, TypeOK
<1>2. TypeOK /\ [Next]_vars => TypeOK'
  <2> SUFFICES ASSUME TypeOK, [Next]_vars PROVE TypeOK'
    OBVIOUS
  <2> USE DEF TypeOK, pageVars, listVars, barrierVars, ipiVars, runVars, cpuVars
  <2>1. ASSUME Users PROVE TypeOK'
    <3>1. ASSUME NEW p \in VPage, AllocV(p) PROVE TypeOK'
      BY <3>1 DEF AllocV
    <3>2. ASSUME NEW p \in VPage, Map(p) PROVE TypeOK'
      BY <3>2 DEF Map
    <3>3. ASSUME NEW p \in VPage, Unmap(p) PROVE TypeOK'
      BY <3>3 DEF Unmap
    <3>4. ASSUME NEW p \in IPage, AllocP(p) PROVE TypeOK'
      BY <3>4 DEF AllocP
    <3>5. ASSUME NEW c \in CPU, NEW p \in VPage, Touch(c, p) PROVE TypeOK'
      BY <3>5 DEF Touch
    <3>6. ASSUME NEW f \in Caller, NEW p \in VPage, MmFreeV(f, p) PROVE TypeOK'
      BY <3>6 DEF MmFreeV, PushPending
    <3>7. ASSUME NEW f \in Caller, NEW p \in IPage, MmFreePIdent(f, p) PROVE TypeOK'
      BY <3>7 DEF MmFreePIdent, PushPending
    <3> QED
      BY <2>1, <3>1, <3>2, <3>3, <3>4, <3>5, <3>6, <3>7 DEF Users
  <2>2. ASSUME Worker PROVE TypeOK'
    <3> USE DEF WorkerStep
    <3>1. ASSUME WorkerStart \/ WorkerTest \/ WorkerArmed \/ WorkerPoll \/ WorkerDrained
          PROVE TypeOK'
      BY <3>1 DEF WorkerStart, WorkerTest, WorkerArmed, WorkerPoll, WorkerDrained
    <3>2. ASSUME WorkerTake PROVE TypeOK'
      BY <3>2 DEF WorkerTake
    <3>3. ASSUME NEW c \in CPU, WorkerArm(c) PROVE TypeOK'
      BY <3>3 DEF WorkerArm
    <3>4. ASSUME NEW p \in Page, WorkerDrain(p) PROVE TypeOK'
      BY <3>4 DEF WorkerDrain
    <3> QED
      BY <2>2, <3>1, <3>2, <3>3, <3>4 DEF Worker
  <2>3. ASSUME NEW f \in Caller, NEW c \in CPU,
               AwakeLock(f, c) \/ AwakeTake(f) \/ SchedLock(f, c) \/ SchedDone(f) \/ Resume(f, c)
        PROVE TypeOK'
    BY <2>3 DEF AwakeLock, AwakeTake, SchedLock, SchedDone, Resume, Moves, Woken, Scheduled
  <2>4. ASSUME NEW c \in CPU, Register(c) \/ EnableApic(c) PROVE TypeOK'
    BY <2>4 DEF Register, EnableApic
  <2>5. ASSUME NEW c \in CPU, Interrupt(c) PROVE TypeOK'
    <3>1. CASE Dispatch(c)
      BY <3>1 DEF Dispatch
    <3>2. CASE Disarm(c)
      BY <3>2 DEF Disarm
    <3>3. ASSUME NEW p \in Page, Invlpg(c, p) PROVE TypeOK'
      BY <3>3 DEF Invlpg
    <3>4. CASE HandlerAwake(c) \/ Park(c)
      BY <3>4 DEF HandlerAwake, Park, ModeStep, WorkerStep, Woken
    <3> QED
      BY <2>5, <3>1, <3>2, <3>3, <3>4 DEF Interrupt
  <2>6. ASSUME NEW c \in CPU, HandlerSched(c) \/ TickSwitch(c) \/ ParkTick(c) \/ Tick(c)
        PROVE TypeOK'
    BY <2>6 DEF HandlerSched, TickSwitch, ParkTick, Tick, ModeStep, Scheduled
  <2>7. ASSUME NEW c \in CPU, OtherLock(c) \/ OtherDone PROVE TypeOK'
    BY <2>7 DEF OtherLock, OtherDone
  <2>8. ASSUME OtherDone PROVE TypeOK'
    BY <2>8 DEF OtherDone
  <2>9. CASE UNCHANGED vars
    BY <2>9 DEF vars
  <2>10. ASSUME NEW f \in Caller, AwakeTake(f) \/ SchedDone(f) PROVE TypeOK'
    BY <2>10 DEF AwakeTake, SchedDone, Moves, Woken, Scheduled
  <2> QED
    BY <2>1, <2>2, <2>3, <2>4, <2>5, <2>6, <2>7, <2>8, <2>9, <2>10 DEF Next, Scheduling
<1> QED
  BY <1>1, <1>2, PTL DEF Spec

(* A round in which every entry is clear has been answered by every CPU it   *)
(* was started for: entries and CPUs of the round are equally many, and each *)
(* clear entry is owed to a different CPU.                                   *)
LEMMA ClearBarrier ==
  ASSUME NEW R \in SUBSET CPU, NEW D \in SUBSET R,
         \A c \in R : \E d \in D : ArbId[d] = ApicId[c]
  PROVE  D = R
<1> DEFINE f == [c \in R |-> CHOOSE d \in D : ArbId[d] = ApicId[c]]
<1>1. \A c \in R : f[c] \in D /\ ArbId[f[c]] = ApicId[c]
  OBVIOUS
<1> HIDE DEF f
<1>2. f \in Injection(R, R)
  <2>1. f \in [R -> R]
    BY <1>1 DEF f
  <2>2. \A a, b \in R : f[a] = f[b] => a = b
    BY <1>1, IdAssumption
  <2> QED
    BY <2>1, <2>2 DEF Injection, IsInjective
<1>3. IsFiniteSet(R)
  BY FS_Subset, IdAssumption
<1>4. f \in Surjection(R, R)
  BY <1>2, <1>3, FS_Injection
<1> QED
  BY <1>1, <1>4 DEF Surjection

(* Every step of the free machinery preserves the inductive invariant.       *)
LEMMA InvStep == IInv /\ [Next]_vars /\ TypeOK' => IInv'
<1> SUFFICES ASSUME IInv, [Next]_vars, TypeOK' PROVE IInv'
  OBVIOUS
<1> DEFINE Parts == PagesDisjoint /\ QuietBetweenRounds /\ CacheBound /\ BarrierInv
<1>0. TypeOK /\ PagesDisjoint /\ QuietBetweenRounds /\ CacheBound /\ BarrierInv
  BY DEF IInv
<1> SUFFICES Parts'
  BY DEF IInv
<1> USE <1>0, IdAssumption DEF InRound, Settled, Page,
        pageVars, listVars, barrierVars, ipiVars, cpuVars,
        PagesDisjoint, QuietBetweenRounds
<1>1. ASSUME NEW p \in VPage, AllocV(p) \/ Map(p) \/ Unmap(p) PROVE Parts'
  <2>1. PagesDisjoint' /\ QuietBetweenRounds'
    BY <1>1 DEF AllocV, Map, Unmap
  <2>2. CacheBound'
    BY <1>1 DEF AllocV, Map, Unmap, CacheBound
  <2>3. BarrierInv'
    BY <1>1 DEF AllocV, Map, Unmap, BarrierInv
  <2> QED BY <2>1, <2>2, <2>3
<1>2. ASSUME NEW p \in IPage, AllocP(p) PROVE Parts'
  BY <1>2 DEF AllocP, CacheBound, BarrierInv
<1>3. ASSUME NEW c \in CPU, NEW p \in VPage, Touch(c, p) PROVE Parts'
  <2>1. CacheBound'
    BY <1>3 DEF Touch, CacheBound, TypeOK
  <2> QED BY <1>3, <2>1 DEF Touch, BarrierInv
<1>4. ASSUME NEW f \in Caller, NEW p \in VPage, MmFreeV(f, p) PROVE Parts'
  <2>1. PagesDisjoint' /\ QuietBetweenRounds'
    BY <1>4 DEF MmFreeV, PushPending
  <2>2. CacheBound'
    BY <1>4 DEF MmFreeV, PushPending, CacheBound
  <2>3. BarrierInv'
    BY <1>4 DEF MmFreeV, PushPending, BarrierInv
  <2> QED BY <2>1, <2>2, <2>3
<1>5. ASSUME NEW f \in Caller, NEW p \in IPage, MmFreePIdent(f, p) PROVE Parts'
  <2>1. PagesDisjoint' /\ QuietBetweenRounds'
    <3>1. p \notin VPage
      OBVIOUS
    <3>2. p \notin v_list \cup reserved \cup mapped \cup unmapped
      BY DEF TypeOK
    <3> QED
      BY <1>5, <3>1, <3>2 DEF MmFreePIdent, PushPending
  <2>2. CacheBound'
    BY <1>5 DEF MmFreePIdent, PushPending, CacheBound
  <2>3. BarrierInv'
    BY <1>5 DEF MmFreePIdent, PushPending, BarrierInv
  <2> QED BY <2>1, <2>2, <2>3
<1>6. ASSUME WorkerStart \/ WorkerTest \/ WorkerArmed \/ WorkerDrained
      PROVE Parts'
  <2> USE <1>6 DEF WorkerStart, WorkerTest, WorkerArmed, WorkerDrained, WorkerStep
  <2>1. PagesDisjoint' /\ QuietBetweenRounds'
    OBVIOUS
  <2>2. CacheBound'
    BY DEF CacheBound
  <2>3. BarrierInv'
    BY DEF BarrierInv
  <2> QED BY <2>1, <2>2, <2>3
<1>7. ASSUME WorkerTake PROVE Parts'
  <2> USE <1>7 DEF WorkerTake, WorkerStep
  <2>1. transaction_list = {} /\ ipi = {} /\ lost = {} /\ isr = {} /\ todo = {}
    OBVIOUS
  <2>2. CASE pending_free = {}
    BY <2>1, <2>2 DEF CacheBound, BarrierInv
  <2>3. CASE pending_free # {}
    <3>1. PagesDisjoint' /\ QuietBetweenRounds'
      BY <2>1, <2>3
    <3>2. CacheBound'
      BY <2>1, <2>3 DEF CacheBound, TypeOK
    <3>3. BarrierInv'
      <4>1. registered \in SUBSET registered' /\ todo' = registered /\ ipi' = {} /\ lost' = {} /\ isr' = {}
        BY <2>1, <2>3
      <4> QED BY <4>1 DEF BarrierInv
    <3> QED BY <3>1, <3>2, <3>3
  <2> QED BY <2>2, <2>3
<1>8. ASSUME NEW c \in CPU, WorkerArm(c) PROVE Parts'
  <2> USE <1>8 DEF WorkerArm
  <2>1. PagesDisjoint' /\ QuietBetweenRounds'
    OBVIOUS
  <2>2. CacheBound'
    BY DEF CacheBound
  <2>3. BarrierInv'
    <3>1. PICK R \in SUBSET registered :
            /\ todo \cup ipi \cup lost \cup isr \subseteq R
            /\ \A a \in R \ todo :
                 state[ApicId[a]] = 0 => \E d \in R : Settled(d) /\ ArbId[d] = ApicId[a]
      BY DEF BarrierInv
    <3>2. todo' \cup ipi' \cup lost' \cup isr' \subseteq R
      BY <3>1
    <3>3. ASSUME NEW a \in R \ todo', state'[ApicId[a]] = 0
          PROVE  \E d \in R : Settled(d)' /\ ArbId[d] = ApicId[a]
      <4>1. a # c
        BY <3>3 DEF TypeOK
      <4>2. a \in CPU /\ a \notin todo /\ state[ApicId[a]] = 0
        BY <3>3, <4>1 DEF TypeOK
      <4>3. PICK d \in R : Settled(d) /\ ArbId[d] = ApicId[a]
        BY <3>1, <4>2
      <4> QED BY <4>3
    <3> QED BY <3>2, <3>3 DEF BarrierInv
  <2> QED BY <2>1, <2>2, <2>3
<1>9. ASSUME WorkerPoll PROVE Parts'
  <2> USE <1>9 DEF WorkerPoll, WorkerStep
  <2>1. CASE worker' = "poll_gap"
    BY <2>1 DEF CacheBound, BarrierInv
  <2>2. CASE worker' = "drain"
    <3>1. PICK R \in SUBSET registered :
            /\ todo \cup ipi \cup lost \cup isr \subseteq R
            /\ \A a \in R \ todo :
                 state[ApicId[a]] = 0 => \E d \in R : Settled(d) /\ ArbId[d] = ApicId[a]
      BY DEF BarrierInv
    <3>2. todo = {}
      OBVIOUS
    <3>3. \A a \in R : state[ApicId[a]] = 0
      BY <2>2 DEF TypeOK, Entry
    <3>4. ipi = {} /\ lost = {} /\ isr = {}
      <4> DEFINE D == {d \in R : Settled(d)}
      <4>1. R \in SUBSET CPU /\ D \in SUBSET R
        BY DEF TypeOK
      <4>2. \A a \in R : \E d \in D : ArbId[d] = ApicId[a]
        BY <3>1, <3>2, <3>3
      <4> HIDE DEF D
      <4>3. D = R
        BY ONLY <4>1, <4>2, ClearBarrier
      <4> QED BY <4>3, <3>1 DEF D
    <3> QED BY <2>2, <3>2, <3>4 DEF CacheBound, BarrierInv
  <2> QED BY <2>1, <2>2
<1>10. ASSUME NEW p \in Page, WorkerDrain(p) PROVE Parts'
  <2> USE <1>10 DEF WorkerDrain
  <2>1. PagesDisjoint' /\ QuietBetweenRounds'
    BY DEF TypeOK
  <2>2. CacheBound'
    <3>1. \A c \in CPU : tlb[c] \cap transaction_list = {}
      BY DEF CacheBound
    <3> QED BY <3>1 DEF CacheBound
  <2> QED BY <2>1, <2>2 DEF BarrierInv
<1>11. ASSUME /\ \/ worker' = Woken \/ worker' = Scheduled \/ UNCHANGED worker
               /\ UNCHANGED <<pageVars, listVars, barrierVars, tlb, ipiVars>>
       PROVE Parts'
  <2>1. /\ worker = worker'
           \/ /\ worker \in {"test_parked", "test_woken"} /\ worker' \in {"test_woken", "test"}
           \/ /\ worker \in {"poll_parked", "poll_woken"} /\ worker' \in {"poll_woken", "poll"}
    BY <1>11 DEF Woken, Scheduled
  <2>2. (InRound' <=> InRound) /\ (worker' = "arm" <=> worker = "arm")
        /\ (worker' = "drain" <=> worker = "drain")
    BY <2>1
  <2> QED BY <1>11, <2>2 DEF CacheBound, BarrierInv
<1>12. ASSUME NEW c \in CPU, Register(c) PROVE Parts'
  <2> USE <1>12 DEF Register
  <2>1. CacheBound'
    BY DEF CacheBound
  <2>2. BarrierInv'
    <3> SUFFICES ASSUME InRound' PROVE BarrierInv'
      BY DEF BarrierInv
    <3>1. PICK R \in SUBSET registered :
            /\ todo \cup ipi \cup lost \cup isr \subseteq R
            /\ \A a \in R \ todo :
                 state[ApicId[a]] = 0 => \E d \in R : Settled(d) /\ ArbId[d] = ApicId[a]
      BY DEF BarrierInv
    <3>2. ASSUME NEW a \in R \ todo', state'[ApicId[a]] = 0
          PROVE  \E d \in R : Settled(d)' /\ ArbId[d] = ApicId[a]
      <4>1. a \in CPU /\ a # c /\ state[ApicId[a]] = 0
        BY <3>2 DEF TypeOK
      <4> QED BY <3>1, <3>2, <4>1
    <3> QED BY <3>1, <3>2 DEF BarrierInv
  <2> QED BY <2>1, <2>2
<1>13. ASSUME NEW c \in CPU, Dispatch(c) PROVE Parts'
  <2> USE <1>13 DEF Dispatch
  <2>1. CacheBound'
    BY DEF CacheBound, TypeOK
  <2>2. BarrierInv'
    BY DEF BarrierInv
  <2> QED BY <2>1, <2>2
<1>14. ASSUME NEW c \in CPU, NEW p \in Page, Invlpg(c, p) PROVE Parts'
  <2> USE <1>14 DEF Invlpg
  <2>1. CacheBound'
    BY DEF CacheBound, TypeOK
  <2> QED BY <2>1 DEF BarrierInv
<1>15. ASSUME NEW c \in CPU, Disarm(c) PROVE Parts'
  <2> USE <1>15 DEF Disarm
  <2>1. InRound /\ InRound'
    OBVIOUS
  <2>2. CacheBound'
    BY DEF CacheBound
  <2>3. BarrierInv'
    <3>1. PICK R \in SUBSET registered :
            /\ todo \cup ipi \cup lost \cup isr \subseteq R
            /\ \A a \in R \ todo :
                 state[ApicId[a]] = 0 => \E d \in R : Settled(d) /\ ArbId[d] = ApicId[a]
      BY <2>1 DEF BarrierInv
    <3>2. ASSUME NEW a \in R \ todo', state'[ApicId[a]] = 0
          PROVE  \E d \in R : Settled(d)' /\ ArbId[d] = ApicId[a]
      <4>1. CASE state[ApicId[a]] = 0
        BY <3>1, <3>2, <4>1
      <4>2. CASE state[ApicId[a]] # 0
        <5>1. ApicId[a] = ArbId[c]
          BY <3>2, <4>2 DEF TypeOK
        <5>2. state[ArbId[c]] # 0
          BY <4>2, <5>1
        <5> QED BY <5>1, <3>1
      <4> QED BY <4>1, <4>2
    <3> QED BY <3>1, <3>2 DEF BarrierInv
  <2> QED BY <2>1, <2>2, <2>3
<1>16. ASSUME NEW c \in CPU, EnableApic(c) PROVE Parts'
  BY <1>16 DEF EnableApic, CacheBound, BarrierInv
<1>17. ASSUME NEW c \in CPU, Park(c) PROVE Parts'
  BY <1>17 DEF Park, ModeStep, WorkerStep, CacheBound, BarrierInv
<1>18. ASSUME NEW f \in Caller, AwakeTake(f) \/ SchedDone(f) PROVE Parts'
  BY <1>11, <1>18 DEF AwakeTake, SchedDone, Moves
<1>19. ASSUME NEW f \in Caller, NEW c \in CPU,
              AwakeLock(f, c) \/ SchedLock(f, c) \/ Resume(f, c)
       PROVE Parts'
  BY <1>11, <1>19 DEF AwakeLock, SchedLock, Resume, Moves
<1>20. ASSUME NEW c \in CPU,
              HandlerAwake(c) \/ HandlerSched(c) \/ TickSwitch(c) \/ ParkTick(c) \/ Tick(c)
       PROVE Parts'
  BY <1>11, <1>20 DEF HandlerAwake, HandlerSched, TickSwitch, ParkTick, Tick, ModeStep
<1>21. ASSUME OtherDone \/ \E c \in CPU : OtherLock(c) PROVE Parts'
  BY <1>11, <1>21 DEF OtherLock, OtherDone
<1>22. CASE UNCHANGED vars
  BY <1>11, <1>22 DEF vars
<1> QED
  BY <1>1, <1>2, <1>3, <1>4, <1>5, <1>6, <1>7, <1>8, <1>9, <1>10, <1>12, <1>13, <1>14,
     <1>15, <1>16, <1>17, <1>18, <1>19, <1>20, <1>21, <1>22
     DEF Next, Users, Worker, Interrupt, Scheduling

(* The inductive invariant behind both safety theorems: pages are in one     *)
(* place, rounds of free_all_pending do not overlap, and a clear barrier     *)
(* entry is owed to a CPU that ran its invlpg loop.                          *)
THEOREM Inductive == Spec => []IInv
<1>1. Init => IInv
  BY IdAssumption DEF Init, IInv, TypeOK, PagesDisjoint, QuietBetweenRounds, CacheBound,
     BarrierInv, InRound, Settled, Page, WorkerPC, CallerPC, Mode
<1>2. IInv /\ [Next]_vars /\ TypeOK' => IInv'
  BY InvStep
<1> QED
  BY <1>1, <1>2, TypeCorrect, PTL DEF Spec

(* No page reaches the free list, and none is handed out, while a CPU may    *)
(* still translate it: the purpose of the barrier in free_all_pending.       *)
THEOREM NoStale == Spec => []NoStaleTranslation
<1>1. IInv => NoStaleTranslation
  BY DEF IInv, TypeOK, NoStaleTranslation, CacheBound, PagesDisjoint
<1> QED
  BY <1>1, Inductive, PTL

(* apic_tlb_shootdown_dispatch never reads a transaction node the worker may *)
(* already have freed.                                                       *)
THEOREM NoFreedNodeWalked == Spec => []NoWalkDuringDrain
<1>1. IInv => NoWalkDuringDrain
  BY DEF IInv, NoWalkDuringDrain, QuietBetweenRounds, InRound
<1> QED
  BY <1>1, Inductive, PTL
==============================================================================
