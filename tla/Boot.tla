-------------------------------- MODULE Boot --------------------------------
(***************************************************************************)
(* The start of the application processors: apic_start_ap and apic_init_ap *)
(* (kernel/apic/apic_init.c), the real-mode trampoline kernel/core/ap.S    *)
(* and kentry / kapentry (kernel/core/kentry.c).                           *)
(*                                                                         *)
(* The boot processor (BSP) walks the processors of the MADT and sends     *)
(* each one but itself INIT and two startup IPIs, without waiting for it   *)
(* to come up.  A started processor draws its arbitration id, the index of *)
(* its stack, GDT, proc_data and init lock, under the byte lock AP_LOCK.   *)
(* apic_init_ap, which every processor calls, writes bsp_apic_id.          *)
(***************************************************************************)
EXTENDS Integers, Sequences, SequencesExt, FiniteSets

CONSTANTS Cpu,  \* local APIC ids, all in the MADT
          Bsp   \* the boot processor's

ASSUME CpuAssumption == IsFiniteSet(Cpu) /\ Bsp \in Cpu

AP == Cpu \ {Bsp}

VARIABLES
  madt,         \* the order in which the MADT lists the processors
  next,         \* apic_start_ap: the entry it is at
  bsp,          \* where the BSP stands in kentry
  bsp_apic_id,  \* what apic_get_bsp_id answers
  ap,           \* where each AP stands
  AP_LOCK, AP_ID,
  bl,           \* the register an AP increments AP_ID in, then its arbitration id
  initLock,     \* ap_init_locks, by arbitration id
  barriers,     \* APIC ids entered with mm_register_barrier
  reset         \* the BSP was sent an INIT

bootVars == <<madt, next, bsp, bsp_apic_id, ap, AP_LOCK, AP_ID, bl, initLock, barriers, reset>>

\* kentry has run apic_init: its own apic_init_ap, and one stack, GDT and held lock per AP
BootInit ==
  /\ madt \in SetToSeqs(Cpu)
  /\ next = 1 /\ bsp = "entry"
  /\ bsp_apic_id = Bsp /\ barriers = {Bsp}
  /\ ap = [c \in AP |-> "off"]
  /\ AP_LOCK = {} /\ AP_ID = 0
  /\ bl = [c \in AP |-> 0]
  /\ initLock = [n \in 1 .. Cardinality(AP) |-> TRUE]
  /\ reset = FALSE

-----------------------------------------------------------------------------
(* The BSP.                                                                *)

\* apic_send_ipi_init_set and _clear: an AP waits for a startup IPI, wherever it stood
SendInit(c) == ap' = [d \in AP |-> IF d = c THEN "init" ELSE ap[d]] /\ reset' = (c = Bsp)
\* only a processor waiting for it takes a startup IPI
SendSipi(c) == ap' = [d \in AP |-> IF d = c /\ ap[d] = "init" THEN "lock" ELSE ap[d]]

\* the loop reads the entry: skipped if it is the BSP's, by the id apic_get_bsp_id gives now
StartEntry ==
  /\ bsp = "entry"
  /\ IF next > Len(madt) THEN bsp' = "threads" /\ UNCHANGED <<next, ap, reset>>
     ELSE IF madt[next] = bsp_apic_id THEN next' = next + 1 /\ UNCHANGED <<bsp, ap, reset>>
     ELSE /\ bsp' = "sipi1"
          /\ SendInit(madt[next])
          /\ UNCHANGED next
  /\ UNCHANGED <<madt, bsp_apic_id, AP_LOCK, AP_ID, bl, initLock, barriers>>

\* ... and is sent two startup IPIs
Sipi ==
  /\ bsp \in {"sipi1", "sipi2"}
  /\ SendSipi(madt[next])
  /\ IF bsp = "sipi1" THEN bsp' = "sipi2" /\ UNCHANGED next
     ELSE bsp' = "entry" /\ next' = next + 1
  /\ UNCHANGED <<madt, bsp_apic_id, AP_LOCK, AP_ID, bl, initLock, barriers, reset>>

\* mm_transaction_init, process_init_reaper and process_kill_current
BootThreads ==
  /\ bsp = "threads" /\ bsp' = "scheduling"
  /\ UNCHANGED <<madt, next, bsp_apic_id, ap, AP_LOCK, AP_ID, bl, initLock, barriers, reset>>

-----------------------------------------------------------------------------
(* An AP in the trampoline.                                                *)

\* Mutant: the lock is not looked at
DrawUnlocked(c) ==
  /\ ap[c] = "lock"
  /\ AP_LOCK' = {c} /\ bl' = [bl EXCEPT ![c] = AP_ID + 1]
  /\ ap' = [ap EXCEPT ![c] = "store"]
  /\ UNCHANGED <<madt, next, bsp, bsp_apic_id, AP_ID, initLock, barriers, reset>>

\* xchg until AP_LOCK was clear; the id is loaded and incremented
Draw(c) ==
  /\ ap[c] = "lock" /\ AP_LOCK = {}
  /\ AP_LOCK' = {c} /\ bl' = [bl EXCEPT ![c] = AP_ID + 1]
  /\ ap' = [ap EXCEPT ![c] = "store"]
  /\ UNCHANGED <<madt, next, bsp, bsp_apic_id, AP_ID, initLock, barriers, reset>>

\* the id is stored and the lock given back; stack and GDT by the id, and on to kapentry
Store(c) ==
  /\ ap[c] = "store"
  /\ AP_ID' = bl[c] /\ AP_LOCK' = {}
  /\ ap' = [ap EXCEPT ![c] = "kapentry"]
  /\ UNCHANGED <<madt, next, bsp, bsp_apic_id, bl, initLock, barriers, reset>>

\* kapentry up to apic_init_ap: init lock, proc_data, alloc_init, TSS, first process, IDT
KapEntry(c) ==
  /\ ap[c] = "kapentry"
  /\ initLock' = [initLock EXCEPT ![bl[c]] = FALSE]
  /\ ap' = [ap EXCEPT ![c] = "apic"]
  /\ UNCHANGED <<madt, next, bsp, bsp_apic_id, AP_LOCK, AP_ID, bl, barriers, reset>>

\* apic_init_ap on an AP
ApicInitAp(c) ==
  /\ ap[c] = "apic"
  /\ bsp_apic_id' = c
  /\ barriers' = barriers \cup {c}
  /\ ap' = [ap EXCEPT ![c] = "up"]
  /\ UNCHANGED <<madt, next, bsp, AP_LOCK, AP_ID, bl, initLock, reset>>

BspStep == StartEntry \/ Sipi \/ BootThreads
ApStep(c) == Draw(c) \/ Store(c) \/ KapEntry(c) \/ ApicInitAp(c)

\* an INIT to the BSP starts the firmware again
BootNext == ~reset /\ (BspStep \/ \E c \in AP : ApStep(c))

BootSpec == BootInit /\ [][BootNext]_bootVars

-----------------------------------------------------------------------------
\* However their starts overlap, no two processors get the same arbitration id, none gets the
\* BSP's, 0, and none one beyond the arrays apic_init made: what Shootdown assumes of ArbId.  A
\* processor's init lock is given back by that processor alone.
IdsExact ==
  LET drawn == {c \in AP : ap[c] \notin {"off", "init", "lock"}} IN
  /\ \A c, d \in drawn : bl[c] = bl[d] => c = d
  /\ \A c \in drawn : bl[c] \in DOMAIN initLock
  /\ \A n \in DOMAIN initLock : ~initLock[n] => \E c \in drawn : bl[c] = n /\ ap[c] \in {"apic", "up"}

\* The BSP resets itself only if the MADT does not list it first: then a processor that has come up
\* already has put its own id in bsp_apic_id.
NoSelfReset == reset => madt[1] # Bsp

\* No processor gets stuck on its way (which never leads back): every one comes up and the BSP
\* goes on to schedule, or has reset itself.
BootCompletes ==
  /\ ~ENABLED BootNext => reset \/ (bsp = "scheduling" /\ \A c \in AP : ap[c] = "up" /\ c \in barriers)
  /\ NoSelfReset
=============================================================================
