---------------------------- MODULE DeviceProofs ----------------------------
(***************************************************************************)
(* Proofs about Ahci, for any number of clients, ports, command slots and  *)
(* sectors, about Boot, for any number of processors and any order of the  *)
(* MADT, and about Tty, for any readers and any size of the ring.          *)
(***************************************************************************)
EXTENDS Ahci, Boot, Tty, SequenceTheorems, FiniteSetTheorems, WellFoundedInduction, TLAPS

Op == {"read", "write", "flush", "identify"}
JobPC == {"idle", "find", "fill", "port", "issue", "spin", "release"}
Job == [pc : JobPC, op : Op, port : Port, lba : Lba, slot : Slot \cup {NoSlot}, val : Value,
        done : BOOLEAN, ok : BOOLEAN]

ioVars == <<used_com, table, plock, PxCI, PxIS, stopped, sector>>

DriverPC == {"stop", "reset", "setup", "identify", "gpt", "array", "part", "super", "groups", "done"}
DriverTypeOK ==
  /\ drv \in [pc : DriverPC, port : Port, part : Nat]
  /\ root \in Port \cup {-1}

IoTypeOK ==
  /\ used_com \in SUBSET Slot /\ table \in [Slot -> Thread] /\ plock \in [Port -> SUBSET Thread]
  /\ job \in [Thread -> Job]
  /\ PxCI \in [Port -> SUBSET Slot] /\ stopped \in SUBSET Port
  /\ sector \in [Port -> [Lba -> Value]]

\* a slot in flight is a slot and marked, and no two commands have the same
OwnSlot ==
  /\ \A t \in Busy : job[t].slot \in Slot
  /\ \A t, u \in Busy : job[t].slot = job[u].slot => t = u
  /\ used_com = {job[t].slot : t \in Busy}

\* a filled table is the command's until it releases its slot
OwnTable == \A t \in Thread : job[t].pc \in {"port", "issue", "spin"} => table[job[t].slot] = t

\* the port's lock is held from LockPort to the end of the polling loop, and by nobody else
OwnPort ==
  /\ \A t \in Thread : job[t].pc \in {"issue", "spin"} => plock[job[t].port] = {t}
  /\ \A p \in Port, t \in Thread : t \in plock[p] => job[t].port = p /\ job[t].pc \in {"issue", "spin"}

\* a port that has not stopped works for the holder of its lock alone
OneCommand ==
  \A p \in Port : \A s \in PxCI[p] :
    p \notin stopped => \E t \in plock[p] : job[t].pc = "spin" /\ job[t].slot = s /\ table[s] = t

\* PxIS speaks of the command of the lock's holder only: it was clear when that one was issued
FreshError ==
  /\ PxIS \subseteq stopped
  /\ \A t \in Thread : job[t].pc = "issue" => job[t].port \notin PxIS
  /\ \A t \in Thread : job[t].pc = "spin" /\ job[t].port \in PxIS => job[t].slot \in PxCI[job[t].port]

\* a transfer has taken place exactly when the command is no longer issued
DoneExact ==
  \A t \in Thread :
    /\ job[t].pc \in {"idle", "find", "fill", "port", "issue"} => job[t].done = FALSE
    /\ job[t].pc = "spin" => job[t].done = (job[t].slot \notin PxCI[job[t].port])
    /\ job[t].pc = "release" => job[t].ok = job[t].done

IoInv == IoTypeOK /\ OwnSlot /\ OwnTable /\ OwnPort /\ OneCommand /\ FreshError /\ DoneExact

-----------------------------------------------------------------------------
\* a thread makes a disk call
StartCall(t) ==
  /\ \E o \in Op, p \in Port, l \in Lba, v \in Value : Begin(t, o, p, l, v)
  /\ UNCHANGED ioVars

\* what a step does to the commands
IoStep ==
  \/ \E t \in Thread : StartCall(t) \/ Command(t)
  \/ \E p \in Port, s \in Slot : Execute(p, s) \/ FailCommand(p, s)
  \/ UNCHANGED <<ioVars, job>>

(* ahci_init and the callers of the disk touch the commands only by making   *)
(* a call on an implemented port.                                            *)
LEMMA StepsAreIo ==
  ASSUME DriverTypeOK, AhciNext
  PROVE  DriverTypeOK' /\ IoStep
<1> USE AhciAssumption DEF Port
<1> Lba0 \in Lba /\ Driver \in Thread /\ Client \subseteq Thread
    /\ Client \subseteq Value /\ Blank \in Value
  BY DEF Lba0, Thread, Value
<1>1. ASSUME NEW t \in Client, NEW l \in Lba, NEW o \in {"read", "write", "flush"}, Call(t, o, l)
      PROVE  DriverTypeOK' /\ StartCall(t)
  <2>1. DriverTypeOK' /\ UNCHANGED ioVars
    BY <1>1 DEF Call, DriverTypeOK, drvVars, hbaVars, ioVars
  <2>2. Begin(t, o, root, l, t) /\ root \in Port /\ o \in Op /\ t \in Value
    BY <1>1 DEF Call, DriverTypeOK, Op
  <2> QED
    BY <2>1, <2>2 DEF StartCall
<1>2. ASSUME NEW t \in Thread, Command(t) PROVE DriverTypeOK'
  BY <1>2 DEF Command, NoBuffer, FindSlot, Fill, LockPort, Issue, Poll, Release, DriverTypeOK, drvVars
<1>3. ASSUME NEW p \in Port, NEW s \in Slot, Execute(p, s) \/ FailCommand(p, s) PROVE DriverTypeOK'
  BY <1>3 DEF Execute, FailCommand, DriverTypeOK, drvVars
<1>4. ASSUME InitThread
      PROVE  DriverTypeOK' /\ (UNCHANGED <<ioVars, job>> \/ StartCall(Driver))
  <2> DEFINE Calls == \E o \in Op, p \in Port, l \in Lba, v \in Value : Begin(Driver, o, p, l, v)
             Typed == drv' \in [pc : DriverPC, port : Port, part : Nat]
  <2>a. drv.port \in Port /\ drv.part \in Nat /\ "identify" \in Op /\ "read" \in Op
    BY DEF DriverTypeOK, Op
  <2>b. (Identify => Calls) /\ (DriverReads => Calls)
    BY <2>a DEF Identify, DriverReads
  <2>c. NextPort => Typed
    BY DEF NextPort, DriverTypeOK, DriverPC
  <2>d. \A label \in DriverPC : GoTo(label) => Typed
    BY DEF GoTo, DriverTypeOK
  <2>e. /\ drv' = [drv EXCEPT !.pc = "part", !.part = 1] => Typed
        /\ drv' = [drv EXCEPT !.pc = "part", !.part = @ + 1] => Typed
        /\ drv' = [drv EXCEPT !.pc = "setup", !.port = 0] => Typed
        /\ drv.port # Ports /\ drv' = [drv EXCEPT !.port = @ + 1] => Typed
    <3> DEFINE D == [pc : DriverPC, port : Port, part : Nat]
    <3>1. drv \in D /\ "part" \in DriverPC /\ "setup" \in DriverPC /\ 0 \in Port
          /\ (drv.port # Ports => drv.port + 1 \in Port) /\ drv.part + 1 \in Nat
      BY <2>a DEF DriverTypeOK, DriverPC
    <3>2. [drv EXCEPT !.pc = "part", !.part = 1] \in D
      BY <3>1
    <3>3. [drv EXCEPT !.pc = "part", !.part = @ + 1] \in D
      BY <3>1
    <3>4. [drv EXCEPT !.pc = "setup", !.port = 0] \in D
      BY <3>1
    <3>5. drv.port # Ports => [drv EXCEPT !.port = @ + 1] \in D
      BY <3>1
    <3> QED
      BY <3>2, <3>3, <3>4, <3>5
  <2>f. Calls /\ UNCHANGED ioVars => StartCall(Driver)
    BY DEF StartCall
  <2> HIDE DEF Calls, Typed
  <2>g. ASSUME Typed, UNCHANGED root, UNCHANGED ioVars, UNCHANGED job \/ Calls
        PROVE  DriverTypeOK' /\ (UNCHANGED <<ioVars, job>> \/ StartCall(Driver))
    BY <2>g, <2>f DEF Typed, DriverTypeOK
  <2> USE DEF hbaVars, ioVars, DriverPC
  <2>2. CASE Stop
    BY <2>2, <2>d, <2>e, <2>g DEF Stop
  <2>3. CASE PortReset
    BY <2>3, <2>d, <2>g DEF PortReset
  <2>4. CASE Setup
    BY <2>4, <2>b, <2>c, <2>d, <2>g DEF Setup
  <2>5. CASE DiskAdd
    BY <2>5, <2>b, <2>d, <2>g DEF DiskAdd
  <2>6. ASSUME NEW good \in BOOLEAN, GptRead(good)
        PROVE  DriverTypeOK' /\ (UNCHANGED <<ioVars, job>> \/ StartCall(Driver))
    BY <2>6, <2>b, <2>c, <2>d, <2>e, <2>g DEF GptRead
  <2>7. CASE Attempt
    BY <2>7, <2>b, <2>c, <2>d, <2>g DEF Attempt
  <2>8. CASE Superblock
    BY <2>8, <2>b, <2>d, <2>e, <2>g DEF Superblock
  <2>9. CASE Groups
    BY <2>9, <2>a, <2>e DEF Groups, DriverTypeOK, Typed
  <2> QED
    BY <1>4, <2>2, <2>3, <2>4, <2>5, <2>6, <2>7, <2>8, <2>9 DEF InitThread
<1> QED
  BY <1>1, <1>2, <1>3, <1>4 DEF AhciNext, IoStep

(* find_slot's loop ends at a lowest free slot when there is one: a set of   *)
(* natural numbers has a least element.                                      *)
LEMMA LeastNatural ==
  ASSUME NEW S \in SUBSET Nat, S # {}
  PROVE  \E m \in S : \A n \in S : m <= n
<1> DEFINE R == OpToRel(<, Nat)
<1>1. \A x, y \in Nat : x < y => <<x, y>> \in R
  BY DEF OpToRel
<1>2. IsWellFoundedOn(R, Nat)
  BY NatLessThanWellFounded
<1> HIDE DEF R
<1>3. PICK m \in S : \A n \in S : ~(<<n, m>> \in R)
  BY <1>2, WFMin, Zenon
<1>4. \A n \in S : ~(n < m)
  BY <1>1, <1>3, Zenon
<1>5. \A n \in S : m <= n
  BY <1>4
<1> QED
  BY <1>5

(* IoInv is inductive.  Of the commands only the one that steps changes; its *)
(* slot is new when find_slot gives it, its table and its port are its own.  *)
LEMMA IoInductive ==
  ASSUME IoInv, IoStep
  PROVE  IoInv'
<1> USE AhciAssumption DEF IoInv, ioVars
<1>0. /\ Idle \in Job /\ Idle.pc = "idle" /\ Idle.done = FALSE
      /\ \A t \in Thread : job[t] \in Job
  <2>1. (CHOOSE p \in Port : TRUE) \in Port /\ Lba0 \in Lba /\ (CHOOSE v \in Value : TRUE) \in Value
    <3>1. 0 \in Port /\ Blank \in Value
      BY DEF Port, Value
    <3> QED
      BY <3>1 DEF Lba0
  <2> QED
    BY <2>1 DEF Idle, Job, JobPC, Op, IoTypeOK
<1>1. ASSUME NEW t \in Thread, UNCHANGED ioVars, job' \in [Thread -> Job],
             job[t].pc \in {"idle", "find"}, job'[t].pc \in {"idle", "find"}, job'[t].done = FALSE,
             \A u \in Thread : u # t => job'[u] = job[u]
      PROVE  IoInv'
  <2>1. Busy' = Busy /\ t \notin Busy
    BY <1>1 DEF Busy
  <2>2. \A p \in Port : t \notin plock[p]
    BY <1>1 DEF OwnPort
  <2>3a. IoTypeOK'
    BY <1>1, <2>2 DEF IoTypeOK
  <2>3b. OwnTable'
    BY <1>1, <2>2 DEF OwnTable
  <2>3c. OwnPort'
    BY <1>1, <2>2 DEF OwnPort
  <2>3d. FreshError'
    BY <1>1, <2>2 DEF FreshError
  <2>3e. DoneExact'
    BY <1>1, <2>2 DEF DoneExact
  <2>4. OwnSlot'
    BY <1>1, <2>1 DEF OwnSlot, Busy
  <2>5. OneCommand'
    BY <1>1, <2>2 DEF OneCommand, IoTypeOK
  <2> QED
    BY <2>3a, <2>3b, <2>3c, <2>3d, <2>3e, <2>4, <2>5
<1>2. ASSUME NEW t \in Thread, StartCall(t) PROVE IoInv'
  <2>1. PICK o \in Op, p \in Port, l \in Lba, v \in Value : Begin(t, o, p, l, v)
    BY <1>2 DEF StartCall
  <2>2. job' \in [Thread -> Job] /\ job[t].pc = "idle" /\ job'[t].pc = "find" /\ job'[t].done = FALSE
        /\ \A u \in Thread : u # t => job'[u] = job[u]
    BY <1>0, <2>1 DEF Begin, IoTypeOK, Job, JobPC
  <2> QED
    BY <1>1, <1>2, <2>2 DEF StartCall
<1>3. ASSUME NEW t \in Thread, NoBuffer(t) PROVE IoInv'
  <2>1. job' \in [Thread -> Job] /\ job[t].pc = "find" /\ job'[t].pc = "idle" /\ job'[t].done = FALSE
        /\ \A u \in Thread : u # t => job'[u] = job[u]
    BY <1>0, <1>3 DEF NoBuffer, IoTypeOK, Job, JobPC
  <2> QED
    BY <1>1, <1>3, <2>1 DEF NoBuffer
<1>4. ASSUME NEW t \in Thread, FindSlot(t) PROVE IoInv'
  <2> DEFINE s == find_slot(job[t].port)
  <2>1. s = NoSlot \/ (s \in Slot /\ s \notin used_com)
    <3> DEFINE free == {r \in Slot : r \notin used_com /\ r \notin PxCI[job[t].port]}
    <3>1. free \subseteq Nat
      BY DEF Slot
    <3>2. free # {} => \E r \in free : \A q \in free : r <= q
      BY <3>1, LeastNatural
    <3> QED
      BY <3>2 DEF find_slot
  <2> HIDE DEF s
  <2>2. CASE s = NoSlot
    <3>1. UNCHANGED <<ioVars, job>>
      BY <1>4, <2>2 DEF FindSlot, hbaVars, s
    <3> QED
      BY <3>1 DEF IoTypeOK, OwnSlot, Busy, OwnTable, OwnPort, OneCommand, FreshError, DoneExact
  <2>3. CASE s # NoSlot
    <3>1. /\ used_com' = used_com \cup {s} /\ job[t].pc = "find"
          /\ job' = [job EXCEPT ![t].slot = s, ![t].pc = "fill"]
          /\ UNCHANGED <<table, plock, PxCI, PxIS, stopped, sector>>
      BY <1>4, <2>3 DEF FindSlot, hbaVars, s
    <3>2. /\ job' \in [Thread -> Job] /\ job'[t].pc = "fill" /\ job'[t].slot = s
          /\ job'[t].done = job[t].done
          /\ \A u \in Thread : u # t => job'[u] = job[u]
      BY <1>0, <2>1, <3>1 DEF IoTypeOK, Job, JobPC
    <3>3. Busy' = Busy \cup {t} /\ t \notin Busy
      BY <3>1, <3>2 DEF Busy
    <3>4. \A p \in Port : t \notin plock[p]
      BY <3>1 DEF OwnPort
    <3>5a. IoTypeOK'
      BY <2>1, <2>3, <3>1, <3>2, <3>4 DEF IoTypeOK
    <3>5b. OwnTable'
      BY <2>1, <2>3, <3>1, <3>2, <3>4 DEF OwnTable
    <3>5c. OwnPort'
      BY <2>1, <2>3, <3>1, <3>2, <3>4 DEF OwnPort
    <3>5d. FreshError'
      BY <2>1, <2>3, <3>1, <3>2, <3>4 DEF FreshError
    <3>5e. DoneExact'
      BY <2>1, <2>3, <3>1, <3>2, <3>4 DEF DoneExact
    <3>6. OwnSlot'
      BY <2>1, <2>3, <3>1, <3>2, <3>3 DEF OwnSlot, Busy
    <3>7. OneCommand'
      BY <3>1, <3>2, <3>4 DEF OneCommand, IoTypeOK
    <3> QED
      BY <3>5a, <3>5b, <3>5c, <3>5d, <3>5e, <3>6, <3>7
  <2> QED
    BY <2>2, <2>3
<1>5. ASSUME NEW t \in Thread, Fill(t) PROVE IoInv'
  <2>1. /\ job[t].pc = "fill" /\ table' = [table EXCEPT ![job[t].slot] = t]
        /\ job' = [job EXCEPT ![t].pc = "port"]
        /\ UNCHANGED <<used_com, plock, PxCI, PxIS, stopped, sector>>
    BY <1>5 DEF Fill, hbaVars
  <2>2. /\ job' \in [Thread -> Job] /\ job'[t].pc = "port" /\ job'[t].slot = job[t].slot
        /\ job'[t].done = job[t].done
        /\ \A u \in Thread : u # t => job'[u] = job[u]
    BY <1>0, <2>1 DEF IoTypeOK, Job, JobPC
  <2>3. Busy' = Busy /\ t \in Busy
    BY <2>1, <2>2 DEF Busy
  <2>4. /\ job[t].slot \in Slot
        /\ \A u \in Busy : u # t => job[u].slot # job[t].slot
    BY <2>3 DEF OwnSlot
  <2>5. \A p \in Port : t \notin plock[p]
    BY <2>1 DEF OwnPort
  <2>6. OwnTable'
    BY <2>1, <2>2, <2>4 DEF OwnTable, IoTypeOK, Busy
  <2>7a. IoTypeOK'
    BY <2>1, <2>2, <2>5 DEF IoTypeOK
  <2>7b. OwnPort'
    BY <2>1, <2>2, <2>5 DEF OwnPort
  <2>7c. FreshError'
    BY <2>1, <2>2, <2>5 DEF FreshError
  <2>7d. DoneExact'
    BY <2>1, <2>2, <2>5 DEF DoneExact
  <2>8. OwnSlot'
    BY <2>1, <2>2, <2>3 DEF OwnSlot, Busy
  <2>9. OneCommand'
    BY <2>1, <2>2, <2>4, <2>5 DEF OneCommand, IoTypeOK, Busy
  <2> QED
    BY <2>6, <2>7a, <2>7b, <2>7c, <2>7d, <2>8, <2>9
<1>6. ASSUME NEW t \in Thread, LockPort(t) PROVE IoInv'
  <2>1. /\ job[t].pc = "port" /\ plock[job[t].port] = {} /\ plock' = [plock EXCEPT ![job[t].port] = {t}]
        /\ PxIS' = PxIS \ {job[t].port} /\ job' = [job EXCEPT ![t].pc = "issue"]
        /\ UNCHANGED <<used_com, table, PxCI, stopped, sector>>
    BY <1>6 DEF LockPort
  <2>2. /\ job' \in [Thread -> Job] /\ job'[t].pc = "issue" /\ job'[t].slot = job[t].slot
        /\ job'[t].done = job[t].done /\ job'[t].port = job[t].port /\ job[t].port \in Port
        /\ \A u \in Thread : u # t => job'[u] = job[u]
    BY <1>0, <2>1 DEF IoTypeOK, Job, JobPC
  <2>3. Busy' = Busy
    BY <2>1, <2>2 DEF Busy
  <2>4. \A p \in Port : t \notin plock[p]
    BY <2>1 DEF OwnPort
  <2>5a. IoTypeOK'
    BY <2>1, <2>2 DEF IoTypeOK
  <2>5b. OwnTable'
    BY <2>1, <2>2 DEF OwnTable
  <2>5c. DoneExact'
    BY <2>1, <2>2 DEF DoneExact
  <2>6. OwnPort'
    <3>1. \A p \in Port : plock'[p] = IF p = job[t].port THEN {t} ELSE plock[p]
      BY <2>1 DEF IoTypeOK
    <3>2. \A u \in Thread : job'[u].pc \in {"issue", "spin"} => plock'[job'[u].port] = {u}
      <4> SUFFICES ASSUME NEW u \in Thread, u # t, job[u].pc \in {"issue", "spin"}
                   PROVE  plock'[job[u].port] = {u}
        BY <2>2, <3>1
      <4>1. job[u].port \in Port /\ plock[job[u].port] = {u}
        BY <1>0 DEF OwnPort, Job
      <4> QED
        BY <2>1, <3>1, <4>1
    <3>3. \A p \in Port, u \in Thread : u \in plock'[p] => job'[u].port = p /\ job'[u].pc \in {"issue", "spin"}
      BY <2>2, <2>4, <3>1 DEF OwnPort
    <3> QED
      BY <3>2, <3>3 DEF OwnPort
  <2>7. FreshError'
    BY <2>1, <2>2 DEF FreshError
  <2>8. OwnSlot'
    BY <2>1, <2>2, <2>3 DEF OwnSlot, Busy
  <2>9. OneCommand'
    BY <2>1, <2>2, <2>4 DEF OneCommand, IoTypeOK
  <2> QED
    BY <2>5a, <2>5b, <2>5c, <2>6, <2>7, <2>8, <2>9
<1>7. ASSUME NEW t \in Thread, Issue(t) PROVE IoInv'
  <2>1. /\ job[t].pc = "issue" /\ PxCI' = [PxCI EXCEPT ![job[t].port] = @ \cup {job[t].slot}]
        /\ job' = [job EXCEPT ![t].pc = "spin"]
        /\ UNCHANGED <<used_com, table, plock, PxIS, stopped, sector>>
    BY <1>7 DEF Issue
  <2>2. /\ job' \in [Thread -> Job] /\ job'[t].pc = "spin" /\ job'[t].slot = job[t].slot
        /\ job'[t].done = job[t].done /\ job'[t].port = job[t].port /\ job[t].port \in Port
        /\ \A u \in Thread : u # t => job'[u] = job[u]
    BY <1>0, <2>1 DEF IoTypeOK, Job, JobPC
  <2>3. Busy' = Busy /\ t \in Busy
    BY <2>1, <2>2 DEF Busy
  <2>4. /\ job[t].slot \in Slot /\ plock[job[t].port] = {t} /\ table[job[t].slot] = t
    BY <2>1, <2>3 DEF OwnSlot, OwnPort, OwnTable
  <2>5a. IoTypeOK'
    BY <2>1, <2>2, <2>4 DEF IoTypeOK
  <2>5b. OwnTable'
    BY <2>1, <2>2, <2>4 DEF OwnTable
  <2>5c. OwnPort'
    BY <2>1, <2>2, <2>4 DEF OwnPort
  <2>6. \A u \in Thread : u # t /\ job[u].pc \in {"issue", "spin"} => job[u].port # job[t].port
    BY <2>4 DEF OwnPort
  <2>7. DoneExact'
    BY <2>1, <2>2, <2>4, <2>6 DEF DoneExact, IoTypeOK, Job
  <2>8. FreshError'
    BY <2>1, <2>2, <2>4, <2>6 DEF FreshError, IoTypeOK, Job
  <2>9. OwnSlot'
    BY <2>1, <2>2, <2>3 DEF OwnSlot, Busy
  <2>10. OneCommand'
    BY <2>1, <2>2, <2>4 DEF OneCommand, IoTypeOK
  <2> QED
    BY <2>5a, <2>5b, <2>5c, <2>7, <2>8, <2>9, <2>10
<1>8. ASSUME NEW t \in Thread, Poll(t) PROVE IoInv'
  <2> DEFINE p == job[t].port  s == job[t].slot
  <2>1. /\ job[t].pc = "spin" /\ (s \in PxCI[p] => p \in PxIS /\ job[t].op # "identify")
        /\ job' = [job EXCEPT ![t].pc = "release", ![t].ok = Answer(job[t].op, s \in PxCI[p], p \in PxIS)]
        /\ plock' = [plock EXCEPT ![p] = {}]
        /\ UNCHANGED <<used_com, table, PxCI, PxIS, stopped, sector>>
    BY <1>8 DEF Poll, hbaVars
  <2>2. /\ job' \in [Thread -> Job] /\ job'[t].pc = "release" /\ job'[t].slot = s
        /\ job'[t].done = job[t].done /\ p \in Port
        /\ job'[t].ok = Answer(job[t].op, s \in PxCI[p], p \in PxIS)
        /\ \A u \in Thread : u # t => job'[u] = job[u]
    BY <1>0, <2>1 DEF IoTypeOK, Job, JobPC, Answer
  <2>3. Busy' = Busy
    BY <2>1, <2>2 DEF Busy
  <2>4. plock[p] = {t} /\ \A u \in Thread : u # t /\ job[u].pc \in {"issue", "spin"} => job[u].port # p
    BY <2>1 DEF OwnPort
  <2>5. IoTypeOK'
    BY <2>1, <2>2 DEF IoTypeOK
  <2>6. OwnTable'
    BY <2>1, <2>2 DEF OwnTable
  <2>7. OwnPort'
    BY <2>1, <2>2, <2>4 DEF OwnPort, IoTypeOK, Job
  <2>8. FreshError'
    BY <2>1, <2>2 DEF FreshError
  <2>9. OwnSlot'
    BY <2>1, <2>2, <2>3 DEF OwnSlot, Busy
  <2>10. OneCommand'
    <3>1. SUFFICES ASSUME NEW q \in Port, NEW r \in PxCI[q], q \notin stopped
                   PROVE  \E u \in plock'[q] : job'[u].pc = "spin" /\ job'[u].slot = r /\ table[r] = u
      <4>1. UNCHANGED <<table, PxCI, stopped>>
        BY <2>1
      <4> QED
        BY <4>1 DEF OneCommand
    <3>2. PICK u \in plock[q] : job[u].pc = "spin" /\ job[u].slot = r /\ table[r] = u
      BY <3>1 DEF OneCommand
    <3>3. u \in Thread
      BY <3>2 DEF IoTypeOK
    <3>4. q # p
      BY <2>1, <2>4, <3>1, <3>2 DEF FreshError
    <3> QED
      BY <2>1, <2>2, <2>4, <3>2, <3>3, <3>4 DEF IoTypeOK, OwnPort
  <2>11. DoneExact'
    <3>1. job'[t].ok = job'[t].done
      BY <2>1, <2>2 DEF Answer, DoneExact, FreshError
    <3> QED
      BY <2>1, <2>2, <3>1 DEF DoneExact
  <2> QED
    BY <2>5, <2>6, <2>7, <2>8, <2>9, <2>10, <2>11
<1>9. ASSUME NEW t \in Thread, Release(t) PROVE IoInv'
  <2>1. /\ job[t].pc = "release" /\ used_com' = used_com \ {job[t].slot}
        /\ job' = [job EXCEPT ![t] = [Idle EXCEPT !.val = job[t].val, !.ok = job[t].ok]]
        /\ UNCHANGED <<table, plock, PxCI, PxIS, stopped, sector>>
    BY <1>9 DEF Release, hbaVars
  <2>2. /\ job' \in [Thread -> Job] /\ job'[t].pc = "idle" /\ job'[t].done = FALSE
        /\ \A u \in Thread : u # t => job'[u] = job[u]
    BY <1>0, <2>1 DEF IoTypeOK, Job, JobPC
  <2>3. Busy' = Busy \ {t} /\ t \in Busy
    BY <2>1, <2>2 DEF Busy
  <2>4. \A p \in Port : t \notin plock[p]
    BY <2>1 DEF OwnPort
  <2>5. IoTypeOK'
    BY <2>1, <2>2 DEF IoTypeOK
  <2>6. OwnTable'
    BY <2>1, <2>2 DEF OwnTable
  <2>7. OwnPort'
    BY <2>1, <2>2, <2>4 DEF OwnPort
  <2>8. FreshError' /\ DoneExact'
    BY <2>1, <2>2 DEF FreshError, DoneExact
  <2>9. OwnSlot'
    BY <2>1, <2>2, <2>3 DEF OwnSlot, Busy
  <2>10. OneCommand'
    BY <2>1, <2>2, <2>4 DEF OneCommand, IoTypeOK
  <2> QED
    BY <2>5, <2>6, <2>7, <2>8, <2>9, <2>10
<1>10. ASSUME NEW p \in Port, NEW s \in Slot, Execute(p, s) PROVE IoInv'
  <2> DEFINE t == table[s]
  <2>1. /\ s \in PxCI[p] /\ p \notin stopped
        /\ sector' = [sector EXCEPT ![p][job[t].lba] = IF job[t].op = "write" THEN job[t].val ELSE @]
        /\ job' = [job EXCEPT ![t].done = TRUE,
                              ![t].val = IF job[t].op = "read" THEN sector[p][job[t].lba] ELSE @]
        /\ PxCI' = [PxCI EXCEPT ![p] = @ \ {s}]
        /\ UNCHANGED <<used_com, table, plock, PxIS, stopped>>
    BY <1>10 DEF Execute
  <2>2. /\ t \in plock[p] /\ t \in Thread
        /\ job[t].pc = "spin" /\ job[t].slot = s /\ job[t].port = p
    BY <2>1 DEF OneCommand, OwnPort, IoTypeOK
  <2>3. /\ job[t].lba \in Lba /\ job[t].val \in Value /\ sector[p][job[t].lba] \in Value
    BY <1>0, <2>2 DEF IoTypeOK, Job
  <2> HIDE DEF t
  <2>4. /\ job' \in [Thread -> Job]
        /\ job'[t].pc = "spin" /\ job'[t].done = TRUE /\ job'[t].slot = s /\ job'[t].port = p
        /\ \A u \in Thread : u # t => job'[u] = job[u]
        /\ \A u \in Thread : job'[u].pc = job[u].pc /\ job'[u].slot = job[u].slot /\ job'[u].port = job[u].port
    BY <1>0, <2>1, <2>2, <2>3 DEF IoTypeOK, Job
  <2>5. Busy' = Busy /\ t \in Busy
    BY <2>2, <2>4 DEF Busy
  <2>6. \A u \in Thread : u # t /\ job[u].pc \in {"issue", "spin"} => job[u].port # p
    BY <2>2 DEF OwnPort
  <2>7. IoTypeOK'
    <3>1. sector' \in [Port -> [Lba -> Value]]
      BY <2>1, <2>3 DEF IoTypeOK
    <3>2. PxCI' \in [Port -> SUBSET Slot]
      BY <2>1 DEF IoTypeOK
    <3> QED
      BY <2>1, <2>4, <3>1, <3>2 DEF IoTypeOK
  <2>8. OwnTable'
    BY <2>1, <2>4 DEF OwnTable
  <2>13. OwnPort'
    <3>1. \A u \in Thread : job'[u].pc = job[u].pc /\ job'[u].port = job[u].port
      BY <2>4
    <3>2. plock' = plock
      BY <2>1
    <3> QED
      BY <3>1, <3>2, Zenon DEF OwnPort
  <2>9. FreshError'
    BY <2>1, <2>2, <2>4, <2>6 DEF FreshError, IoTypeOK, Job
  <2>10. OwnSlot'
    BY <2>1, <2>4, <2>5 DEF OwnSlot, Busy
  <2>11. OneCommand'
    BY <2>1, <2>4 DEF OneCommand, IoTypeOK
  <2>12. DoneExact'
    <3>1. s \notin PxCI'[p] /\ \A q \in Port : q # p => PxCI'[q] = PxCI[q]
      BY <2>1 DEF IoTypeOK
    <3>2. \A u \in Thread : job[u].port \in Port
      BY <1>0 DEF Job
    <3>3. \A u \in Thread : u # t /\ job[u].pc = "spin" => PxCI'[job[u].port] = PxCI[job[u].port]
      BY <2>6, <3>1, <3>2
    <3>4. ASSUME NEW u \in Thread, u # t
          PROVE  /\ job'[u].pc \in {"idle", "find", "fill", "port", "issue"} => job'[u].done = FALSE
                 /\ job'[u].pc = "spin" => job'[u].done = (job'[u].slot \notin PxCI'[job'[u].port])
                 /\ job'[u].pc = "release" => job'[u].ok = job'[u].done
      BY <2>4, <3>3, <3>4 DEF DoneExact
    <3>5. job'[t].done = (job'[t].slot \notin PxCI'[job'[t].port])
      BY <2>4, <3>1
    <3> QED
      BY <2>4, <3>4, <3>5 DEF DoneExact
  <2> QED
    BY <2>7, <2>8, <2>9, <2>10, <2>11, <2>12, <2>13
<1>11. ASSUME NEW p \in Port, NEW s \in Slot, FailCommand(p, s) PROVE IoInv'
  <2>1. /\ s \in PxCI[p] /\ p \notin stopped /\ PxIS' = PxIS \cup {p} /\ stopped' = stopped \cup {p}
        /\ UNCHANGED <<used_com, table, plock, job, PxCI, sector>>
    BY <1>11 DEF FailCommand
  <2>2. PICK t \in plock[p] : job[t].pc = "spin" /\ job[t].slot = s /\ table[s] = t
    BY <2>1 DEF OneCommand
  <2>3. t \in Thread /\ \A u \in Thread : job[u].pc \in {"issue", "spin"} /\ job[u].port = p => u = t
    BY <2>2 DEF OwnPort, IoTypeOK
  <2>4. FreshError'
    BY <2>1, <2>2, <2>3 DEF FreshError
  <2>5. IoTypeOK' /\ OwnSlot'
    BY <2>1 DEF IoTypeOK, OwnSlot, Busy
  <2>6. OwnTable' /\ OwnPort' /\ OneCommand' /\ DoneExact'
    BY <2>1 DEF OwnTable, OwnPort, OneCommand, DoneExact
  <2> QED
    BY <2>4, <2>5, <2>6
<1>12. CASE UNCHANGED <<ioVars, job>>
  BY <1>12 DEF IoTypeOK, OwnSlot, Busy, OwnTable, OwnPort, OneCommand, FreshError, DoneExact
<1> QED
  BY <1>2, <1>3, <1>4, <1>5, <1>6, <1>7, <1>8, <1>9, <1>10, <1>11, <1>12 DEF IoStep, Command

(* AhciInit establishes what the steps keep.                                 *)
LEMMA AhciInvariant == AhciSpec => [](DriverTypeOK /\ IoInv)
<1>1. AhciInit => DriverTypeOK /\ IoInv
  <2> SUFFICES ASSUME AhciInit PROVE DriverTypeOK /\ IoInv
    OBVIOUS
  <2> USE AhciAssumption
  <2>1. Idle \in Job /\ Idle.pc = "idle" /\ Idle.done = FALSE
    <3>1. 0 \in Port /\ Blank \in Value
      BY DEF Port, Value
    <3> QED
      BY <3>1 DEF Idle, Job, JobPC, Op, Lba0
  <2>2. DriverTypeOK
    BY DEF AhciInit, DriverTypeOK, DriverPC, Port
  <2>3. IoTypeOK
    BY <2>1 DEF AhciInit, IoTypeOK, Thread, Value
  <2>4. Busy = {}
    BY <2>1 DEF AhciInit, Busy
  <2>5. OwnSlot
    BY <2>4 DEF AhciInit, OwnSlot
  <2>6. OwnTable /\ OwnPort /\ OneCommand /\ FreshError /\ DoneExact
    BY <2>1 DEF AhciInit, OwnTable, OwnPort, OneCommand, FreshError, DoneExact
  <2> QED
    BY <2>2, <2>3, <2>5, <2>6 DEF IoInv
<1>2. DriverTypeOK /\ IoInv /\ [AhciNext]_ahciVars => (DriverTypeOK /\ IoInv)'
  <2> SUFFICES ASSUME DriverTypeOK, IoInv, [AhciNext]_ahciVars PROVE DriverTypeOK' /\ IoInv'
    OBVIOUS
  <2>1. CASE AhciNext
    BY <2>1, StepsAreIo, IoInductive
  <2>2. CASE UNCHANGED ahciVars
    <3>1. UNCHANGED <<ioVars, job>> /\ DriverTypeOK'
      BY <2>2 DEF ahciVars, hbaVars, drvVars, ioVars, DriverTypeOK
    <3> QED
      BY <3>1, IoInductive DEF IoStep
  <2> QED
    BY <2>1, <2>2
<1> QED
  BY <1>1, <1>2, PTL DEF AhciSpec

(* However many threads read and write on however many ports, no command     *)
(* table is rewritten under a command of ahci_read_lba, ahci_write_lba,      *)
(* ahci_flush_cache or port_identify, and used_com is exact.                 *)
THEOREM CommandSlotsExclusive == AhciSpec => []SlotsExclusive
<1>1. IoInv => SlotsExclusive
  BY DEF IoInv, OwnSlot, OneCommand, SlotsExclusive
<1> QED
  BY <1>1, AhciInvariant, PTL

(* What every disk call does, from its start in a file system down to the    *)
(* polling loop of ahci.c, is one transfer of the abstract disk, or none     *)
(* when it is answered DISK_ERROR.                                           *)
THEOREM AhciImplementsDisk == AhciSpec => ImplementsDisk
<1> USE AhciAssumption
<1> DEFINE call == [t \in Thread |-> AsCall(job[t])]
<1>0. 0 \in Port /\ Lba0 \in Lba /\ Blank \in Value
  BY DEF Port, Value, Lba0
<1>1. AhciInit => Disk!DInit
  BY <1>0 DEF AhciInit, Disk!DInit, Disk!NoCall, AsCall, Idle, Lba0
<1>2. ASSUME DriverTypeOK, IoInv, [AhciNext]_ahciVars
      PROVE  [\E t \in Thread : Disk!Begin(t) \/ Disk!Apply(t) \/ Disk!Return(t)]_<<sector, call>>
  <2>0. IoStep
    BY <1>2, StepsAreIo DEF IoStep, ahciVars, hbaVars, drvVars, ioVars
  <2>a. /\ job \in [Thread -> Job] /\ \A t \in Thread : job[t] \in Job
        /\ Idle = [pc |-> "idle", op |-> "flush", port |-> CHOOSE p \in Port : TRUE, lba |-> Lba0,
                   slot |-> NoSlot, val |-> CHOOSE v \in Value : TRUE, done |-> FALSE, ok |-> TRUE]
    BY <1>2 DEF IoInv, IoTypeOK, Idle
  <2>b. ASSUME NEW t \in Thread, \A u \in Thread : u # t => job'[u] = job[u]
        PROVE  call' = [call EXCEPT ![t] = AsCall(job'[t])] /\ call'[t] = AsCall(job'[t])
    BY <2>b
  <2>1. ASSUME NEW t \in Thread, StartCall(t) PROVE Disk!Begin(t)
    <3>1. PICK o \in Op, p \in Port, l \in Lba, v \in Value : Begin(t, o, p, l, v)
      BY <2>1 DEF StartCall
    <3>2. /\ job[t].pc = "idle" /\ job'[t].pc = "find" /\ job'[t].op = o /\ job'[t].port = p
          /\ job'[t].lba = l /\ job'[t].val = v /\ job'[t].done = FALSE
          /\ \A u \in Thread : u # t => job'[u] = job[u]
      BY <2>a, <3>1 DEF Begin
    <3>3. AsCall(job'[t]) = [st |-> "pending", op |-> o, port |-> p, lba |-> l, val |-> v]
      BY <3>2 DEF AsCall
    <3>4. Disk!Idle(t)
      BY <3>2 DEF Disk!Idle, AsCall
    <3> QED
      BY <2>1, <2>b, <3>2, <3>3, <3>4 DEF Disk!Begin, Disk!Op, Op, StartCall, ioVars
  <2>c. ASSUME NEW t \in Thread, NEW ok \in BOOLEAN, job[t].pc # "idle", job[t].done = ok,
               job' = [job EXCEPT ![t] = [Idle EXCEPT !.val = job[t].val, !.ok = ok]], UNCHANGED sector
        PROVE  Disk!Return(t)
    <3>1. /\ job'[t].pc = "idle" /\ job'[t].op = "flush" /\ job'[t].port = CHOOSE p \in Port : TRUE
          /\ job'[t].lba = Lba0 /\ job'[t].val = job[t].val /\ job'[t].ok = ok
          /\ \A u \in Thread : u # t => job'[u] = job[u]
      BY <2>a, <2>c
    <3>2. AsCall(job'[t]) = Disk!NoCall(IF ok THEN "ok" ELSE "error", job[t].val)
      BY <3>1 DEF AsCall, Disk!NoCall, Lba0
    <3>3. call[t].st = (IF ok THEN "applied" ELSE "pending") /\ call[t].val = job[t].val
      BY <2>c DEF AsCall
    <3>4. AsCall(job'[t]) = Disk!NoCall(IF call[t].st = "applied" THEN "ok" ELSE "error", call[t].val)
      BY <3>2, <3>3
    <3>5. call' = [call EXCEPT ![t] = Disk!NoCall(IF @.st = "applied" THEN "ok" ELSE "error", @.val)]
      BY <2>b, <3>1, <3>4
    <3> QED
      BY <2>c, <3>3, <3>5 DEF Disk!Return, Disk!Idle
  <2>2. ASSUME NEW t \in Thread, NoBuffer(t) PROVE Disk!Return(t)
    <3>1. job[t].done = FALSE
      BY <1>2, <2>2 DEF NoBuffer, IoInv, DoneExact
    <3> QED
      BY <2>2, <2>c, <3>1 DEF NoBuffer
  <2>3. ASSUME NEW t \in Thread, FindSlot(t) \/ Fill(t) \/ LockPort(t) \/ Issue(t) \/ Poll(t)
        PROVE  UNCHANGED <<sector, call>>
    <3>1. UNCHANGED sector
      BY <2>3 DEF FindSlot, Fill, LockPort, Issue, Poll, hbaVars
    <3>2. CASE UNCHANGED job
      BY <3>1, <3>2
    <3>3. CASE job' # job
      <4>1. /\ job[t].pc # "idle" /\ job'[t].pc # "idle" /\ job'[t].op = job[t].op /\ job'[t].port = job[t].port
            /\ job'[t].lba = job[t].lba /\ job'[t].val = job[t].val /\ job'[t].done = job[t].done
            /\ \A u \in Thread : u # t => job'[u] = job[u]
        BY <2>3, <2>a, <3>3 DEF FindSlot, Fill, LockPort, Issue, Poll, Job
      <4>2. \A u \in Thread : AsCall(job'[u]) = AsCall(job[u])
        BY <4>1 DEF AsCall
      <4> QED
        BY <3>1, <4>2
    <3> QED
      BY <3>2, <3>3
  <2>4. ASSUME NEW t \in Thread, Release(t) PROVE Disk!Return(t)
    <3>1. job[t].done = job[t].ok /\ job[t].ok \in BOOLEAN
      BY <1>2, <2>4, <2>a DEF Release, IoInv, DoneExact, Job
    <3> QED
      BY <2>4, <2>c, <3>1 DEF Release, hbaVars
  <2>5. ASSUME NEW p \in Port, NEW s \in Slot, Execute(p, s) PROVE Disk!Apply(table[s])
    <3> DEFINE t == table[s]
    <3>1. /\ s \in PxCI[p] /\ p \notin stopped
          /\ sector' = [sector EXCEPT ![p][job[t].lba] = IF job[t].op = "write" THEN job[t].val ELSE @]
          /\ job' = [job EXCEPT ![t].done = TRUE,
                                ![t].val = IF job[t].op = "read" THEN sector[p][job[t].lba] ELSE @]
      BY <2>5 DEF Execute
    <3>2. t \in Thread /\ job[t].pc = "spin" /\ job[t].slot = s /\ job[t].port = p
      BY <1>2, <3>1 DEF IoInv, OneCommand, OwnPort, IoTypeOK
    <3>3. job[t].done = FALSE
      BY <1>2, <3>1, <3>2 DEF IoInv, DoneExact
    <3> HIDE DEF t
    <3>4. /\ job'[t].pc = "spin" /\ job'[t].op = job[t].op /\ job'[t].port = p /\ job'[t].lba = job[t].lba
          /\ job'[t].done = TRUE
          /\ job'[t].val = IF job[t].op = "read" THEN sector[p][job[t].lba] ELSE job[t].val
          /\ \A u \in Thread : u # t => job'[u] = job[u]
      BY <2>a, <3>1, <3>2 DEF Job
    <3>5. call[t] = [st |-> "pending", op |-> job[t].op, port |-> p, lba |-> job[t].lba, val |-> job[t].val]
      BY <3>2, <3>3 DEF AsCall
    <3>6. AsCall(job'[t]) = [st |-> "applied", op |-> job[t].op, port |-> p, lba |-> job[t].lba,
                             val |-> IF job[t].op = "read" THEN sector[p][job[t].lba] ELSE job[t].val]
      BY <3>4 DEF AsCall
    <3>7. call' = [call EXCEPT ![t].st = "applied",
                               ![t].val = IF call[t].op = "read" THEN sector[call[t].port][call[t].lba] ELSE @]
      <4> DEFINE V == IF job[t].op = "read" THEN sector[p][job[t].lba] ELSE job[t].val
                 W == IF call[t].op = "read" THEN sector[call[t].port][call[t].lba] ELSE call[t].val
                 half == [call EXCEPT ![t].st = "applied"]
      <4>1. V = W
        BY <3>5
      <4> HIDE DEF V, W
      <4>2. half[t] = [st |-> "applied", op |-> job[t].op, port |-> p, lba |-> job[t].lba, val |-> job[t].val]
        BY <3>2, <3>5
      <4>3. \A u \in Thread : u # t => half[u] = call[u]
        BY <3>2
      <4>4. DOMAIN half = Thread /\ half = [u \in Thread |-> half[u]]
        BY <3>2
      <4> HIDE DEF half
      <4>5. [half[t] EXCEPT !.val = V]
              = [st |-> "applied", op |-> job[t].op, port |-> p, lba |-> job[t].lba, val |-> V]
        BY <4>2
      <4>6. call' = [half EXCEPT ![t].val = V]
        BY <2>b, <3>2, <3>4, <3>6, <4>3, <4>4, <4>5 DEF V
      <4>7. [call EXCEPT ![t].st = "applied",
                         ![t].val = IF call[t].op = "read" THEN sector[call[t].port][call[t].lba] ELSE @]
              = [half EXCEPT ![t].val = W]
        BY <3>2, <3>5 DEF half, W
      <4> QED
        BY <4>1, <4>6, <4>7
    <3>8. sector' = [sector EXCEPT ![call[t].port][call[t].lba] = IF call[t].op = "write" THEN call[t].val ELSE @]
      <4>1. call[t].port = p /\ call[t].lba = job[t].lba /\ call[t].op = job[t].op /\ call[t].val = job[t].val
        BY <3>5
      <4> HIDE DEF call
      <4> QED
        BY <3>1, <4>1, Zenon
    <3>9. Disk!Apply(t)
      BY <3>5, <3>7, <3>8 DEF Disk!Apply
    <3> QED
      BY <3>9 DEF t
  <2>6. ASSUME NEW p \in Port, NEW s \in Slot, FailCommand(p, s) PROVE UNCHANGED <<sector, call>>
    BY <2>6 DEF FailCommand
  <2>7. CASE UNCHANGED <<ioVars, job>>
    BY <2>7 DEF ioVars
  <2>8. ASSUME NEW p \in Port, NEW s \in Slot, Execute(p, s) PROVE table[s] \in Thread
    BY <1>2 DEF IoInv, IoTypeOK
  <2> QED
    BY <2>0, <2>1, <2>2, <2>3, <2>4, <2>5, <2>6, <2>7, <2>8 DEF IoStep, Command
<1> QED
  BY <1>1, <1>2, AhciInvariant, PTL DEF AhciSpec, ImplementsDisk, Disk!DSpec

-----------------------------------------------------------------------------
(* Boot.                                                                     *)
Place == {"off", "init", "lock", "store", "kapentry", "apic", "up"}

\* the processors whose arbitration id is stored in AP_ID or was before
Started == {c \in AP : ap[c] \in {"kapentry", "apic", "up"}}

\* the entries apic_start_ap has still to send an INIT
Ahead(k) == k > next \/ (k = next /\ bsp = "entry")

BootTypeOK ==
  /\ madt \in SetToSeqs(Cpu)
  /\ next \in Nat /\ next >= 1
  /\ ap \in [AP -> Place]
  /\ bl \in [AP -> Nat] /\ AP_ID \in Nat
  /\ initLock \in [1 .. Cardinality(AP) -> BOOLEAN]

\* apic_start_ap comes to each processor once, and finds it off
StartedOnce == \A k \in DOMAIN madt : Ahead(k) /\ madt[k] \in AP => ap[madt[k]] = "off"

\* AP_ID counts the processors that stored it; AP_LOCK is the one between its load and its store
Ticket ==
  /\ AP_ID = Cardinality(Started)
  /\ AP_LOCK = {c \in AP : ap[c] = "store"}
  /\ \A c, d \in AP_LOCK : c = d
  /\ \A c \in AP_LOCK : bl[c] = AP_ID + 1
  /\ \A c \in Started : bl[c] \in 1 .. AP_ID
  /\ \A c, d \in Started : bl[c] = bl[d] => c = d
  /\ \A n \in DOMAIN initLock : ~initLock[n] => \E c \in AP : bl[c] = n /\ ap[c] \in {"apic", "up"}

BootInv == BootTypeOK /\ StartedOnce /\ Ticket

(* The ids given out by the trampoline never run past the arrays apic_init   *)
(* made: a processor that has none yet leaves room for itself.               *)
LEMMA RoomForOneMore ==
  ASSUME BootTypeOK, NEW c \in AP, c \notin Started
  PROVE  Cardinality(Started) \in Nat /\ Cardinality(AP) \in Nat
         /\ Cardinality(Started) + 1 <= Cardinality(AP)
         /\ Cardinality(Started \cup {c}) = Cardinality(Started) + 1
<1>1. IsFiniteSet(AP)
  BY CpuAssumption, FS_Difference DEF AP
<1>2. Started \subseteq AP /\ Started \cup {c} \subseteq AP
  BY DEF Started
<1>3. IsFiniteSet(Started)
  BY <1>1, <1>2, FS_Subset
<1>4. Cardinality(Started \cup {c}) = Cardinality(Started) + 1
  BY <1>3, FS_AddElement
<1>5. Cardinality(Started \cup {c}) <= Cardinality(AP)
  BY <1>1, <1>2, FS_Subset
<1> QED
  BY <1>1, <1>3, <1>4, <1>5, FS_CardinalityType

(* However the starts overlap, BootInv is inductive: AP_LOCK makes loading,  *)
(* incrementing and storing AP_ID one step, and the BSP sends an INIT to a   *)
(* processor only while it is off.                                           *)
LEMMA BootInvariant == BootSpec => []BootInv
<1>1. BootInit => BootInv
  <2> SUFFICES ASSUME BootInit PROVE BootInv
    OBVIOUS
  <2>1. Started = {} /\ {c \in AP : ap[c] = "store"} = {}
    BY DEF BootInit, Started
  <2>2. BootTypeOK
    BY DEF BootInit, BootTypeOK, Place
  <2>3. StartedOnce
    BY DEF BootInit, StartedOnce
  <2>4. Ticket
    BY <2>1, FS_EmptySet DEF BootInit, Ticket
  <2> QED
    BY <2>2, <2>3, <2>4 DEF BootInv
<1>2. BootInv /\ [BootNext]_bootVars => BootInv'
  <2> SUFFICES ASSUME BootInv, [BootNext]_bootVars PROVE BootInv'
    OBVIOUS
  <2> USE DEF BootInv
  <2>A. AP \subseteq Cpu /\ Cardinality(AP) \in Nat
    BY CpuAssumption, FS_Difference, FS_CardinalityType DEF AP
  <2>1. CASE StartEntry
    <3>1. BootTypeOK'
      BY <2>1 DEF StartEntry, SendInit, BootTypeOK, Place
    <3>2. \A i, j \in DOMAIN madt : madt[i] = madt[j] => i = j
      BY DEF BootTypeOK, SetToSeqs
    <3>3. StartedOnce' /\ Started' = Started /\ AP_LOCK' = {c \in AP : ap'[c] = "store"}
          /\ \A c \in AP : ap[c] \in {"apic", "up"} => ap'[c] = ap[c]
      <4>1. CASE next > Len(madt)
        BY <2>1, <4>1 DEF StartEntry, StartedOnce, Started, Ahead, Ticket, BootTypeOK
      <4>2. CASE next <= Len(madt) /\ madt[next] = bsp_apic_id
        BY <2>1, <4>2 DEF StartEntry, StartedOnce, Started, Ahead, Ticket, BootTypeOK
      <4>3. CASE next <= Len(madt) /\ madt[next] # bsp_apic_id
        <5>1. Len(madt) \in Nat /\ DOMAIN madt = 1 .. Len(madt)
          BY CpuAssumption, FS_CardinalityType DEF BootTypeOK, SetToSeqs
        <5>2. next \in DOMAIN madt /\ Ahead(next)
          BY <2>1, <4>3, <5>1 DEF StartEntry, Ahead, BootTypeOK
        <5>3. madt[next] \in AP => ap[madt[next]] = "off"
          BY <5>2 DEF StartedOnce
        <5>4. bsp' # "entry" /\ next' = next /\ madt' = madt /\ bsp = "entry" /\ AP_LOCK' = AP_LOCK
              /\ ap' = [d \in AP |-> IF d = madt[next] THEN "init" ELSE ap[d]]
          BY <2>1, <4>3, <5>1 DEF StartEntry, SendInit, BootTypeOK
        <5>5. StartedOnce'
          BY <3>2, <5>1, <5>2, <5>4 DEF StartedOnce, Ahead, BootTypeOK
        <5> QED
          BY <5>3, <5>4, <5>5 DEF Started, Ticket
      <4> QED
        BY <4>1, <4>2, <4>3, CpuAssumption, FS_CardinalityType DEF BootTypeOK, SetToSeqs
    <3>4. Ticket'
      BY <2>1, <3>3 DEF StartEntry, Ticket
    <3> QED
      BY <3>1, <3>3, <3>4
  <2>2. CASE Sipi
    <3>1. BootTypeOK'
      BY <2>2 DEF Sipi, SendSipi, BootTypeOK, Place
    <3>0. DOMAIN madt \subseteq Nat
      BY CpuAssumption, FS_CardinalityType DEF BootTypeOK, SetToSeqs
    <3>2. StartedOnce'
      BY <2>2, <3>0 DEF Sipi, SendSipi, StartedOnce, Ahead, BootTypeOK
    <3>3. Started' = Started /\ AP_LOCK' = {c \in AP : ap'[c] = "store"}
          /\ \A c \in AP : ap[c] \in {"apic", "up"} => ap'[c] = ap[c]
      BY <2>2 DEF Sipi, SendSipi, Started, Ticket
    <3>4. Ticket'
      BY <2>2, <3>3 DEF Sipi, Ticket
    <3> QED
      BY <3>1, <3>2, <3>4
  <2>3. CASE BootThreads
    BY <2>3 DEF BootThreads, BootTypeOK, StartedOnce, Ahead, Ticket, Started
  <2>4. ASSUME NEW c \in AP, Draw(c) PROVE BootInv'
    <3>1. BootTypeOK'
      BY <2>4 DEF Draw, BootTypeOK, Place
    <3>2. StartedOnce'
      BY <2>4 DEF Draw, StartedOnce, Ahead, BootTypeOK
    <3>3. Started' = Started /\ c \notin Started /\ AP_LOCK' = {d \in AP : ap'[d] = "store"}
      BY <2>4 DEF Draw, Started, Ticket, BootTypeOK
    <3>4. \A d \in AP : d # c => ap'[d] = ap[d] /\ bl'[d] = bl[d]
      BY <2>4 DEF Draw, BootTypeOK
    <3>5. \A d \in AP_LOCK' : bl'[d] = AP_ID' + 1
      BY <2>4 DEF Draw, BootTypeOK
    <3>6. /\ \A d \in Started' : bl'[d] \in 1 .. AP_ID'
          /\ \A d, e \in Started' : bl'[d] = bl'[e] => d = e
      BY <2>4, <3>3, <3>4 DEF Draw, Ticket, Started
    <3>7. \A n \in DOMAIN initLock' :
            ~initLock'[n] => \E d \in AP : bl'[d] = n /\ ap'[d] \in {"apic", "up"}
      BY <2>4, <3>4 DEF Draw, Ticket
    <3>8. Ticket'
      BY <2>4, <3>3, <3>5, <3>6, <3>7 DEF Draw, Ticket
    <3> QED
      BY <3>1, <3>2, <3>8
  <2>5. ASSUME NEW c \in AP, Store(c) PROVE BootInv'
    <3>1. c \in AP_LOCK /\ c \notin Started /\ bl[c] = AP_ID + 1 /\ AP_LOCK = {c}
      BY <2>5 DEF Store, Ticket, Started
    <3>2. BootTypeOK'
      BY <2>5 DEF Store, BootTypeOK, Place
    <3>3. StartedOnce'
      BY <2>5 DEF Store, StartedOnce, Ahead, BootTypeOK
    <3>4. Started' = Started \cup {c} /\ AP_LOCK' = {d \in AP : ap'[d] = "store"}
      BY <2>5, <3>1 DEF Store, Started, Ticket, BootTypeOK
    <3>5. AP_ID' = Cardinality(Started')
      BY <2>5, <3>1, <3>4, RoomForOneMore DEF Store, Ticket
    <3>6. Ticket'
      BY <2>5, <3>1, <3>4, <3>5 DEF Store, Ticket, BootTypeOK
    <3> QED
      BY <3>2, <3>3, <3>6
  <2>6. ASSUME NEW c \in AP, KapEntry(c) PROVE BootInv'
    <3>1. BootTypeOK'
      BY <2>6 DEF KapEntry, BootTypeOK, Place
    <3>2. StartedOnce'
      BY <2>6 DEF KapEntry, StartedOnce, Ahead, BootTypeOK
    <3>3. Started' = Started /\ AP_LOCK' = {d \in AP : ap'[d] = "store"}
      BY <2>6 DEF KapEntry, Started, Ticket, BootTypeOK
    <3>4. Ticket'
      BY <2>6, <3>3 DEF KapEntry, Ticket, BootTypeOK
    <3> QED
      BY <3>1, <3>2, <3>4
  <2>7. ASSUME NEW c \in AP, ApicInitAp(c) PROVE BootInv'
    <3>1. BootTypeOK'
      BY <2>7 DEF ApicInitAp, BootTypeOK, Place
    <3>2. StartedOnce'
      BY <2>7 DEF ApicInitAp, StartedOnce, Ahead, BootTypeOK
    <3>3. Started' = Started /\ AP_LOCK' = {d \in AP : ap'[d] = "store"}
      BY <2>7 DEF ApicInitAp, Started, Ticket, BootTypeOK
    <3>4. Ticket'
      BY <2>7, <3>3 DEF ApicInitAp, Ticket, BootTypeOK
    <3> QED
      BY <3>1, <3>2, <3>4
  <2>8. CASE UNCHANGED bootVars
    BY <2>8 DEF bootVars, BootTypeOK, StartedOnce, Ahead, Ticket, Started
  <2> QED
    BY <2>1, <2>2, <2>3, <2>4, <2>5, <2>6, <2>7, <2>8 DEF BootNext, BspStep, ApStep
<1> QED
  BY <1>1, <1>2, PTL DEF BootSpec

(* No two processors that run ap.S and kapentry at once share a stack, GDT,  *)
(* proc_data or init lock, and none indexes them out of bounds.              *)
THEOREM ArbitrationIdsExact == BootSpec => []IdsExact
<1>1. BootInv => IdsExact
  <2> SUFFICES ASSUME BootInv PROVE IdsExact
    OBVIOUS
  <2> DEFINE drawn == {c \in AP : ap[c] \notin {"off", "init", "lock"}}
  <2>1. drawn = Started \cup AP_LOCK
    BY DEF BootInv, BootTypeOK, Ticket, Started, Place
  <2>2. \A c, d \in drawn : bl[c] = bl[d] => c = d
    BY <2>1 DEF BootInv, BootTypeOK, Ticket
  <2>3. \A c \in drawn : bl[c] \in DOMAIN initLock
    <3> SUFFICES ASSUME NEW c \in drawn PROVE bl[c] \in 1 .. Cardinality(AP)
      BY DEF BootInv, BootTypeOK
    <3>1. CASE c \in AP_LOCK
      <4>1. c \in AP /\ c \notin Started /\ bl[c] = Cardinality(Started) + 1
        BY <3>1 DEF BootInv, Ticket, Started
      <4>2. Cardinality(Started) \in Nat /\ Cardinality(AP) \in Nat
            /\ Cardinality(Started) + 1 <= Cardinality(AP)
        BY <4>1, RoomForOneMore DEF BootInv
      <4> QED
        BY <4>1, <4>2
    <3>2. CASE c \in Started
      <4>1. IsFiniteSet(AP) /\ Started \subseteq AP
        BY CpuAssumption, FS_Difference DEF AP, Started
      <4>2. Cardinality(Started) <= Cardinality(AP) /\ IsFiniteSet(Started)
        BY <4>1, FS_Subset
      <4> QED
        BY <3>2, <4>1, <4>2, FS_CardinalityType DEF BootInv, Ticket
    <3> QED
      BY <2>1, <3>1, <3>2
  <2>4. \A n \in DOMAIN initLock : ~initLock[n] => \E c \in drawn : bl[c] = n /\ ap[c] \in {"apic", "up"}
    BY DEF BootInv, Ticket
  <2> QED
    BY <2>2, <2>3, <2>4 DEF IdsExact
<1> QED
  BY <1>1, BootInvariant, PTL

\* while apic_start_ap is at a first entry that is the BSP's, no processor has been started
FirstEntry ==
  /\ madt[1] = Bsp /\ next = 1 => bsp = "entry" /\ bsp_apic_id = Bsp /\ ap = [c \in AP |-> "off"]
  /\ NoSelfReset

(* If the MADT lists the boot processor first, apic_start_ap never sends it  *)
(* an INIT, although every processor that comes up overwrites bsp_apic_id.   *)
THEOREM BspListedFirst == BootSpec => []NoSelfReset
<1>1. BootInit => FirstEntry
  BY DEF BootInit, FirstEntry, NoSelfReset
<1>2. BootInv /\ FirstEntry /\ [BootNext]_bootVars => FirstEntry'
  <2> SUFFICES ASSUME BootInv, FirstEntry, [BootNext]_bootVars PROVE FirstEntry'
    OBVIOUS
  <2>0. /\ Len(madt) \in Nat /\ DOMAIN madt = 1 .. Len(madt) /\ Len(madt) >= 1
        /\ next \in Nat /\ next >= 1
        /\ \A i, j \in DOMAIN madt : madt[i] = madt[j] => i = j
    <3>1. Cardinality(Cpu) \in Nat /\ Cardinality(Cpu) # 0
      BY CpuAssumption, FS_CardinalityType, FS_EmptySet
    <3> QED
      BY <3>1 DEF BootInv, BootTypeOK, SetToSeqs
  <2>1. CASE StartEntry
    <3>1. CASE next > Len(madt)
      BY <2>0, <2>1, <3>1 DEF StartEntry, FirstEntry, NoSelfReset
    <3>2. CASE next <= Len(madt) /\ madt[next] = bsp_apic_id
      BY <2>0, <2>1, <3>2 DEF StartEntry, FirstEntry, NoSelfReset
    <3>3. CASE next <= Len(madt) /\ madt[next] # bsp_apic_id
      <4>1. next' = next /\ madt' = madt /\ reset' = (madt[next] = Bsp)
        BY <2>0, <2>1, <3>3 DEF StartEntry, SendInit
      <4>2. madt[1] = Bsp => next # 1
        BY <3>3 DEF FirstEntry
      <4>3. madt[1] = Bsp => madt[next] # Bsp
        BY <2>0, <3>3, <4>2
      <4> QED
        BY <4>1, <4>2, <4>3 DEF FirstEntry, NoSelfReset
    <3> QED
      BY <2>0, <3>1, <3>2, <3>3
  <2>2. CASE Sipi
    BY <2>0, <2>2 DEF Sipi, FirstEntry, NoSelfReset
  <2>3. CASE BootThreads
    BY <2>3 DEF BootThreads, FirstEntry, NoSelfReset
  <2>4. ASSUME NEW c \in AP, ApStep(c) PROVE FirstEntry'
    BY <2>4 DEF ApStep, Draw, Store, KapEntry, ApicInitAp, FirstEntry, NoSelfReset
  <2>5. CASE UNCHANGED bootVars
    BY <2>5 DEF bootVars, FirstEntry, NoSelfReset
  <2> QED
    BY <2>1, <2>2, <2>3, <2>4, <2>5 DEF BootNext, BspStep
<1>3. FirstEntry => NoSelfReset
  BY DEF FirstEntry
<1> QED
  BY <1>1, <1>2, <1>3, BootInvariant, PTL DEF BootSpec
-----------------------------------------------------------------------------
(***************************************************************************)
(* The terminal.  Positions in the ring are counted from read_index: the   *)
(* bytes to be read, then the line that is being edited, then free cells.  *)
(***************************************************************************)
ReaderPC == {"idle", "test", "gap", "parked", "lock", "copy", "mask"}
Symbol == Bytes \cup {" "}

\* the cell k positions behind index i
CellAt(i, k) == Mask(Mask(i) + k)

TtyTypeOK ==
  /\ read_buffer \in [Index -> Symbol] /\ read_index \in 0 .. N
  /\ write_index \in Index /\ ls_index \in Index /\ le_index \in Index
  /\ overrun \in BOOLEAN
  /\ pc \in [Reader -> ReaderPC]

\* one reader moves read_index, and leaves it unmasked only between its two stores
ReaderAlone ==
  /\ \A r \in Reader : pc[r] \in {"copy", "mask"} => lock = r
  /\ read_index = N => \E r \in Reader : pc[r] = "mask"

\* where the four indices stand.  The ring is never quite full unless the cursor is at the end of
\* the line: then FULL keeps every byte away, a cursor movement too
RingOrder ==
  /\ pipe \in Seq(Symbol) /\ screen \in Seq(Symbol) /\ cursor \in 0 .. Len(screen)
  /\ Len(pipe) + Len(screen) < N
  /\ Len(pipe) + Len(screen) = N - 1 => cursor = Len(screen)
  /\ ls_index = CellAt(read_index, Len(pipe)) /\ le_index = CellAt(read_index, Len(pipe) + Len(screen))
  /\ write_index = CellAt(read_index, Len(pipe) + cursor)

\* what the cells hold
RingContents ==
  /\ \A k \in 1 .. Len(pipe) : read_buffer[CellAt(read_index, k - 1)] = pipe[k]
  /\ \A k \in 1 .. Len(screen) : read_buffer[CellAt(read_index, Len(pipe) + k - 1)] = screen[k]

TtyInv == TtyTypeOK /\ ReaderAlone /\ (~overrun => RingOrder /\ RingContents)

(* Masking an index that has run out of the ring by less than its size.      *)
LEMMA MaskValue ==
  ASSUME NEW x \in Int
  PROVE  /\ Mask(x) \in Index
         /\ x \in Index => Mask(x) = x
         /\ x \in N .. 2 * N - 1 => Mask(x) = x - N
         /\ x \in -N .. -1 => Mask(x) = x + N
<1>1. N \in Nat /\ N >= 2
  BY TtyAssumption
<1>2. x % N \in 0 .. N - 1 /\ x \div N \in Int /\ x = (x \div N) * N + (x % N)
  BY <1>1
<1> DEFINE q == x \div N
           m == x % N
<1>3. q \in Int /\ m \in Int /\ 0 <= m /\ m < N /\ x = q * N + m
  BY <1>1, <1>2
<1> HIDE DEF q, m
<1>4. ASSUME x \in Index PROVE m = x
  <2>1. q = 0
    BY <1>1, <1>3, <1>4 DEF Index
  <2> QED
    BY <1>1, <1>3, <2>1
<1>5. ASSUME x \in N .. 2 * N - 1 PROVE m = x - N
  <2>1. q = 1
    BY <1>1, <1>3, <1>5
  <2> QED
    BY <1>1, <1>3, <2>1
<1>6. ASSUME x \in -N .. -1 PROVE m = x + N
  <2>1. q = -1
    BY <1>1, <1>3, <1>6
  <2> QED
    BY <1>1, <1>3, <2>1
<1> QED
  BY <1>2, <1>4, <1>5, <1>6 DEF Mask, m, Index

(* Cells by their distance from index i.                                     *)
LEMMA CellValue ==
  ASSUME NEW i \in 0 .. N, NEW k \in 0 .. N
  PROVE  /\ CellAt(i, k) \in Index /\ Mask(i) \in Index
         /\ CellAt(i, k) = IF Mask(i) + k < N THEN Mask(i) + k ELSE Mask(i) + k - N
<1>1. N \in Nat /\ N >= 2
  BY TtyAssumption
<1>2. PICK m \in Index : m = Mask(i)
  BY <1>1, MaskValue
<1>3. CellAt(i, k) = Mask(m + k) /\ m + k \in Int
  BY <1>1, <1>2 DEF CellAt, Index
<1>4. m + k < N => m + k \in Index
  BY <1>1 DEF Index
<1>5. ~(m + k < N) => m + k \in N .. 2 * N - 1
  BY <1>1 DEF Index
<1> QED
  BY <1>1, <1>2, <1>3, <1>4, <1>5, MaskValue

(* One cell further on.                                                      *)
LEMMA CellNext ==
  ASSUME NEW i \in 0 .. N, NEW k \in 0 .. N - 1
  PROVE  Mask(CellAt(i, k) + 1) = CellAt(i, k + 1)
<1>1. N \in Nat /\ N >= 2 /\ k \in 0 .. N /\ k + 1 \in 0 .. N
  BY TtyAssumption
<1>2. PICK m \in Index : m = Mask(i)
  BY <1>1, CellValue
<1>3. PICK c \in Index : c = CellAt(i, k) /\ c = IF m + k < N THEN m + k ELSE m + k - N
  BY <1>1, <1>2, CellValue
<1>4. PICK d \in Index : d = CellAt(i, k + 1) /\ d = IF m + (k + 1) < N THEN m + (k + 1) ELSE m + (k + 1) - N
  BY <1>1, <1>2, CellValue
<1>5. CASE c + 1 < N
  <2>1. c + 1 \in Index /\ d = c + 1
    BY <1>1, <1>3, <1>4, <1>5 DEF Index
  <2> QED
    BY <1>1, <1>3, <1>4, <2>1, MaskValue DEF Index
<1>6. CASE ~(c + 1 < N)
  <2>1. c + 1 \in N .. 2 * N - 1 /\ d = c + 1 - N
    BY <1>1, <1>3, <1>4, <1>6 DEF Index
  <2>2. c + 1 \in Int
    BY DEF Index
  <2> QED
    BY <1>1, <1>3, <1>4, <2>1, <2>2, MaskValue
<1> QED
  BY <1>5, <1>6

(* One cell back.                                                            *)
LEMMA CellPrev ==
  ASSUME NEW i \in 0 .. N, NEW k \in 1 .. N - 1
  PROVE  Mask(CellAt(i, k) - 1) = CellAt(i, k - 1)
<1>1. N \in Nat /\ N >= 2 /\ k \in 0 .. N /\ k - 1 \in 0 .. N
  BY TtyAssumption
<1>2. PICK m \in Index : m = Mask(i)
  BY <1>1, CellValue
<1>3. PICK c \in Index : c = CellAt(i, k) /\ c = IF m + k < N THEN m + k ELSE m + k - N
  BY <1>1, <1>2, CellValue
<1>4. PICK d \in Index : d = CellAt(i, k - 1) /\ d = IF m + (k - 1) < N THEN m + (k - 1) ELSE m + (k - 1) - N
  BY <1>1, <1>2, CellValue
<1>5. CASE c > 0
  <2>1. c - 1 \in Index /\ d = c - 1
    BY <1>1, <1>3, <1>4, <1>5 DEF Index
  <2> QED
    BY <1>1, <1>3, <1>4, <2>1, MaskValue DEF Index
<1>6. CASE ~(c > 0)
  <2>1. c - 1 \in -N .. -1 /\ d = c - 1 + N /\ c - 1 \in Int
    BY <1>1, <1>3, <1>4, <1>6 DEF Index
  <2> QED
    BY <1>1, <1>3, <1>4, <2>1, MaskValue
<1> QED
  BY <1>5, <1>6

(* Less than a ring apart, cells are different.                              *)
LEMMA CellInjective ==
  ASSUME NEW i \in 0 .. N, NEW k \in 0 .. N - 1, NEW j \in 0 .. N - 1, CellAt(i, k) = CellAt(i, j)
  PROVE  k = j
<1>1. N \in Nat /\ N >= 2 /\ k \in 0 .. N /\ j \in 0 .. N
  BY TtyAssumption
<1>2. PICK m \in Index : m = Mask(i)
  BY <1>1, CellValue
<1>3. PICK c \in Index : c = CellAt(i, k) /\ c = IF m + k < N THEN m + k ELSE m + k - N
  BY <1>1, <1>2, CellValue
<1>4. c = IF m + j < N THEN m + j ELSE m + j - N
  BY <1>1, <1>2, <1>3, CellValue
<1>5. m \in Nat /\ m < N /\ c \in Nat /\ c < N /\ k \in Nat /\ k < N /\ j \in Nat /\ j < N
  BY <1>1 DEF Index
<1>6. c = m + k \/ c = m + k - N
  BY <1>3
<1>7. c = m + j \/ c = m + j - N
  BY <1>4
<1> QED
  BY <1>1, <1>5, <1>6, <1>7

(* The ring begins and ends at the index.                                   *)
LEMMA CellEnds ==
  ASSUME NEW i \in 0 .. N
  PROVE  CellAt(i, 0) = Mask(i) /\ CellAt(i, N) = Mask(i)
<1>1. N \in Nat /\ N >= 2
  BY TtyAssumption
<1>2. PICK m \in Index : m = Mask(i)
  BY <1>1, MaskValue
<1>3. 0 \in 0 .. N /\ N \in 0 .. N
  BY <1>1
<1>4. /\ CellAt(i, 0) = IF m + 0 < N THEN m + 0 ELSE m + 0 - N
      /\ CellAt(i, N) = IF m + N < N THEN m + N ELSE m + N - N
  BY <1>2, <1>3, CellValue
<1> QED
  BY <1>1, <1>2, <1>4 DEF Index

(* Cells seen from the next index.                                          *)
LEMMA CellMoves ==
  ASSUME NEW i \in 0 .. N, NEW j \in 0 .. N, Mask(j) = CellAt(i, 1), NEW k \in 0 .. N - 1
  PROVE  CellAt(j, k) = CellAt(i, k + 1)
<1>1. N \in Nat /\ N >= 2 /\ 1 \in 0 .. N /\ k \in 0 .. N /\ k + 1 \in 0 .. N
  BY TtyAssumption
<1>2. PICK m \in Index : m = Mask(i)
  BY <1>1, CellValue
<1>3. PICK n \in Index : n = Mask(j)
  BY <1>1, CellValue
<1>4. n = IF m + 1 < N THEN m + 1 ELSE m + 1 - N
  BY <1>1, <1>2, <1>3, CellValue
<1>5. /\ CellAt(j, k) = IF n + k < N THEN n + k ELSE n + k - N
      /\ CellAt(i, k + 1) = IF m + (k + 1) < N THEN m + (k + 1) ELSE m + (k + 1) - N
  BY <1>1, <1>2, <1>3, CellValue
<1> QED
  BY <1>1, <1>4, <1>5 DEF Index

-----------------------------------------------------------------------------
(* The empty terminal.                                                       *)
LEMMA TtyStart ==
  ASSUME Init
  PROVE  TtyInv
<1>1. N \in Nat /\ N >= 2 /\ 0 \in Index /\ 0 \in 0 .. N /\ Mask(0) = 0
  <2>1. N \in Nat /\ N >= 2
    BY TtyAssumption
  <2> QED
    BY <2>1, MaskValue DEF Index
<1>2. TtyTypeOK
  BY <1>1 DEF Init, TtyTypeOK, Symbol, Index, ReaderPC
<1>3. ReaderAlone
  <2>1. \A r \in Reader : pc[r] = "idle"
    BY DEF Init
  <2>2. read_index = 0
    BY DEF Init
  <2>3. 0 # N
    BY <1>1
  <2> QED
    BY <2>1, <2>2, <2>3 DEF ReaderAlone
<1>4. CellAt(0, 0) = 0
  BY <1>1, CellEnds
<1>5. pipe = <<>> /\ screen = <<>> /\ cursor = 0 /\ read_index = 0 /\ write_index = 0 /\ ls_index = 0 /\ le_index = 0
  BY DEF Init
<1>6. RingOrder
  BY <1>1, <1>4, <1>5 DEF RingOrder
<1>7. RingContents
  BY <1>5 DEF RingContents
<1> QED
  BY <1>2, <1>3, <1>6, <1>7 DEF TtyInv

(* A step of a reader that moves no index.                                   *)
LEMMA ReaderOnly ==
  ASSUME TtyInv, UNCHANGED <<ringVars, read_index, termVars, pipe, overrun>>,
         pc' \in [Reader -> ReaderPC],
         ReaderAlone'
  PROVE  TtyInv'
BY DEF TtyInv, TtyTypeOK, RingOrder, RingContents, ringVars, termVars

(* The steps of tty_read outside the copying loop, and the lock.             *)
LEMMA ReadKeeps ==
  ASSUME TtyInv, NEW r \in Reader,
         (\E n \in 1 .. MaxCount : Read(r, n)) \/ ReadTest(r) \/ ReadPark(r) \/ ReadLock(r) \/ ReadUnlock(r)
  PROVE  TtyInv'
<1>1. UNCHANGED <<ringVars, read_index, termVars, pipe, overrun>>
  BY DEF Read, ReadTest, ReadPark, ReadLock, ReadUnlock
<1>2. pc' \in [Reader -> ReaderPC]
  BY DEF TtyInv, TtyTypeOK, Read, ReadTest, ReadPark, ReadLock, ReadUnlock, Goto, ReaderPC
<1>3. None \notin Reader
  BY TtyAssumption
<1>4. pc \in [Reader -> ReaderPC] /\ ReaderAlone
  BY DEF TtyInv, TtyTypeOK
<1>5. ReaderAlone'
  <2>1. CASE (\E n \in 1 .. MaxCount : Read(r, n)) \/ ReadTest(r) \/ ReadPark(r)
    BY <1>4, <2>1 DEF ReaderAlone, Read, ReadTest, ReadPark, Goto
  <2>2. CASE ReadLock(r)
    BY <1>3, <1>4, <2>2 DEF ReaderAlone, ReadLock, Goto
  <2>3. CASE ReadUnlock(r)
    BY <1>3, <1>4, <2>3 DEF ReaderAlone, ReadUnlock, Goto
  <2> QED
    BY <2>1, <2>2, <2>3
<1> QED
  BY <1>1, <1>2, <1>5, ReaderOnly

(* The second store of read_index.                                          *)
LEMMA ReadMaskKeeps ==
  ASSUME TtyInv, NEW r \in Reader, ReadMask(r)
  PROVE  TtyInv'
<1>1. N \in Nat /\ N >= 2 /\ read_index \in 0 .. N /\ read_index' = Mask(read_index) /\ read_index \in Int
  BY TtyAssumption DEF TtyInv, TtyTypeOK, ReadMask
<1>2. read_index' \in Index /\ Mask(read_index') = Mask(read_index)
  <2>1. read_index' \in Index /\ read_index' \in Int
    BY <1>1, MaskValue DEF Index
  <2> QED
    BY <1>1, <2>1, MaskValue
<1>3. \A k : CellAt(read_index', k) = CellAt(read_index, k)
  BY <1>2 DEF CellAt
<1>4. UNCHANGED <<read_buffer, write_index, ls_index, le_index, lock, screen, cursor, pipe, overrun>>
      /\ pc' = [pc EXCEPT ![r] = "copy"] /\ pc[r] = "mask"
  BY DEF ReadMask, Goto, ringVars, termVars
<1>5. TtyTypeOK'
  BY <1>1, <1>2, <1>4 DEF TtyInv, TtyTypeOK, Index, ReaderPC
<1>6. ReaderAlone'
  <2>1. read_index' # N
    BY <1>1, <1>2 DEF Index
  <2> QED
    BY <1>4, <2>1 DEF TtyInv, TtyTypeOK, ReaderAlone
<1>7. ~overrun => RingOrder'
  BY <1>3, <1>4 DEF TtyInv, RingOrder
<1>8. ~overrun => RingContents'
  BY <1>3, <1>4 DEF TtyInv, RingContents
<1> QED
  BY <1>4, <1>5, <1>6, <1>7, <1>8 DEF TtyInv

(* One byte is read.                                                        *)
LEMMA ReadCopyKeeps ==
  ASSUME TtyInv, NEW r \in Reader, ReadCopy(r)
  PROVE  TtyInv'
<1>1. /\ N \in Nat /\ N >= 2 /\ read_index \in 0 .. N /\ read_index \in Int
      /\ pc[r] = "copy" /\ lock = r /\ read_index # ls_index
      /\ UNCHANGED <<read_buffer, write_index, ls_index, le_index, lock, screen, cursor, overrun>>
  BY TtyAssumption DEF TtyInv, TtyTypeOK, ReaderAlone, ReadCopy, Empty, ringVars, termVars
<1>2. \A q \in Reader : pc[q] # "mask"
  BY <1>1 DEF TtyInv, ReaderAlone
<1>3. read_index \in Index /\ read_index + 1 \in 0 .. N /\ read_index + 1 \in Int /\ Mask(read_index) = read_index
  <2>1. read_index # N
    BY <1>1, <1>2 DEF TtyInv, ReaderAlone
  <2>2. read_index \in Index /\ read_index + 1 \in 0 .. N /\ read_index + 1 \in Int
    BY <1>1, <2>1 DEF Index
  <2> QED
    BY <1>1, <2>2, MaskValue
<1>4. read_index' \in 0 .. N /\ Mask(read_index') = Mask(read_index + 1)
  <2>1. Mask(read_index + 1) \in Index
    BY <1>3, MaskValue
  <2>2. Mask(Mask(read_index + 1)) = Mask(read_index + 1) /\ Mask(read_index + 1) \in 0 .. N
    BY <1>1, <2>1, MaskValue DEF Index
  <2> QED
    BY <1>3, <2>2 DEF ReadCopy
<1>5. Mask(read_index') = CellAt(read_index, 1)
  BY <1>3, <1>4 DEF CellAt
<1>6. \A k \in 0 .. N - 1 : CellAt(read_index', k) = CellAt(read_index, k + 1)
  BY <1>1, <1>4, <1>5, CellMoves
<1>7. \/ read_index' = Mask(read_index + 1) /\ pc' = pc
      \/ read_index' = read_index + 1 /\ pc' = [pc EXCEPT ![r] = "mask"]
  BY DEF ReadCopy, Goto
<1>8. TtyTypeOK'
  BY <1>1, <1>4, <1>7 DEF TtyInv, TtyTypeOK, ReaderPC
<1>9. ReaderAlone'
  <2>1. CASE read_index' = Mask(read_index + 1) /\ pc' = pc
    <3>1. read_index' # N
      BY <1>1, <1>3, <2>1, MaskValue DEF Index
    <3> QED
      BY <1>1, <2>1, <3>1 DEF TtyInv, ReaderAlone
  <2>2. CASE read_index' = read_index + 1 /\ pc' = [pc EXCEPT ![r] = "mask"]
    BY <1>1, <2>2 DEF TtyInv, TtyTypeOK, ReaderAlone
  <2> QED
    BY <1>7, <2>1, <2>2
<1>10. ASSUME ~overrun
       PROVE  RingOrder' /\ RingContents'
  <2>1. RingOrder /\ RingContents
    BY <1>10 DEF TtyInv
  <2>2. PICK p \in Nat, s \in Nat : p = Len(pipe) /\ s = Len(screen) /\ p + s < N
    BY <2>1 DEF RingOrder
  <2>3. p # 0
    <3>1. p = 0 => ls_index = read_index
      BY <1>1, <1>3, <2>1, <2>2, CellEnds DEF RingOrder
    <3> QED
      BY <1>1, <3>1
  <2>4. pipe \in Seq(Symbol) /\ pipe # <<>> /\ pipe' = Tail(pipe)
    BY <2>1, <2>2, <2>3 DEF RingOrder, ReadCopy
  <2>5. pipe' \in Seq(Symbol) /\ Len(pipe') = p - 1 /\ \A k \in 1 .. p - 1 : pipe'[k] = pipe[k + 1]
    BY <2>2, <2>4
  <2>6. cursor \in 0 .. s /\ (p + s = N - 1 => cursor = s)
    BY <2>1, <2>2 DEF RingOrder
  <2>7. RingOrder'
    <3>1. /\ CellAt(read_index', p - 1) = CellAt(read_index, p)
          /\ CellAt(read_index', p - 1 + s) = CellAt(read_index, p + s)
          /\ CellAt(read_index', p - 1 + cursor) = CellAt(read_index, p + cursor)
      <4>1. p - 1 \in 0 .. N - 1 /\ p - 1 + s \in 0 .. N - 1 /\ p - 1 + cursor \in 0 .. N - 1
        BY <1>1, <2>2, <2>3, <2>6
      <4>2. (p - 1) + 1 = p /\ (p - 1 + s) + 1 = p + s /\ (p - 1 + cursor) + 1 = p + cursor
        BY <2>2, <2>6
      <4> QED
        BY <1>6, <4>1, <4>2
    <3>2. (p - 1) + s < N /\ (p - 1) + s # N - 1
      BY <1>1, <2>2, <2>3
    <3>3. ls_index = CellAt(read_index, p) /\ le_index = CellAt(read_index, p + s) /\ write_index = CellAt(read_index, p + cursor)
      BY <2>1, <2>2 DEF RingOrder
    <3>4. screen \in Seq(Symbol) /\ cursor \in 0 .. Len(screen)
      BY <2>1 DEF RingOrder
    <3> QED
      BY <1>1, <2>2, <2>5, <3>1, <3>2, <3>3, <3>4 DEF RingOrder
  <2>8. RingContents'
    <3>1. ASSUME NEW k \in 1 .. p - 1
          PROVE  read_buffer[CellAt(read_index', k - 1)] = pipe'[k]
      <4>1. CellAt(read_index', k - 1) = CellAt(read_index, k)
        <5>1. k - 1 \in 0 .. N - 1 /\ (k - 1) + 1 = k
          BY <1>1, <2>2
        <5> QED
          BY <1>6, <5>1
      <4>2. k + 1 \in 1 .. p /\ (k + 1) - 1 = k
        BY <2>2
      <4>3. read_buffer[CellAt(read_index, k)] = pipe[k + 1]
        BY <2>1, <2>2, <4>2 DEF RingContents
      <4> QED
        BY <2>5, <4>1, <4>3
    <3>2. ASSUME NEW k \in 1 .. s
          PROVE  read_buffer[CellAt(read_index', p - 1 + k - 1)] = screen[k]
      <4>1. p - 1 + k - 1 \in 0 .. N - 1 /\ (p - 1 + k - 1) + 1 = p + k - 1
        BY <1>1, <2>2, <2>3
      <4>2. CellAt(read_index', p - 1 + k - 1) = CellAt(read_index, p + k - 1)
        BY <1>6, <4>1
      <4> QED
        BY <2>1, <2>2, <4>2 DEF RingContents
    <3> QED
      BY <1>1, <2>2, <2>5, <3>1, <3>2 DEF RingContents
  <2> QED
    BY <2>7, <2>8
<1> QED
  BY <1>1, <1>8, <1>9, <1>10 DEF TtyInv

-----------------------------------------------------------------------------
\* buffer d is b with x stored m positions behind index i
Stores(i, b, d, m, x) ==
  \A k \in 0 .. N - 1 : d[CellAt(i, k)] = IF k = m THEN x ELSE b[CellAt(i, k)]

(* The interrupt.  A store changes one cell, and cells at different          *)
(* distances are different.                                                  *)
LEMMA CellStore ==
  ASSUME NEW i \in 0 .. N, NEW b \in [Index -> Symbol], NEW m \in 0 .. N - 1, NEW x
  PROVE  Stores(i, b, [b EXCEPT ![CellAt(i, m)] = x], m, x)
<1> SUFFICES ASSUME NEW k \in 0 .. N - 1
             PROVE  [b EXCEPT ![CellAt(i, m)] = x][CellAt(i, k)] = IF k = m THEN x ELSE b[CellAt(i, k)]
  BY DEF Stores
<1>1. CellAt(i, m) \in Index /\ CellAt(i, k) \in Index
  <2>1. m \in 0 .. N /\ k \in 0 .. N
    BY TtyAssumption
  <2> QED
    BY <2>1, CellValue
<1>2. k # m => CellAt(i, k) # CellAt(i, m)
  BY CellInjective
<1> QED
  BY <1>1, <1>2

(* The interrupt leaves the readers who hold the lock where they are.        *)
LEMMA QueueReaders ==
  ASSUME TtyInv, NEW byte \in Byte, QueueRead(byte)
  PROVE  /\ ReaderAlone' /\ read_index' = read_index /\ overrun' \in BOOLEAN
         /\ pc' \in [Reader -> ReaderPC]
<1>1. /\ read_index' = read_index /\ lock' = lock /\ (pc' = Awakened \/ pc' = pc)
      /\ pc \in [Reader -> ReaderPC]
  BY DEF QueueRead, TtyInv, TtyTypeOK
<1>2. overrun' \in BOOLEAN
  BY DEF QueueRead
<1>3. /\ pc' \in [Reader -> ReaderPC]
      /\ \A r \in Reader : (pc'[r] = "copy" <=> pc[r] = "copy") /\ (pc'[r] = "mask" <=> pc[r] = "mask")
  BY <1>1 DEF Awakened, ReaderPC
<1>4. ReaderAlone'
  BY <1>1, <1>3 DEF TtyInv, ReaderAlone
<1> QED
  BY <1>1, <1>2, <1>3, <1>4

(* When the cursor may move or a byte be stored, a cell stays free.          *)
LEMMA QueueRoom ==
  ASSUME TtyInv, NEW byte \in Byte, QueueRead(byte), ~overrun',
         <<write_index, le_index>>' # <<write_index, le_index>>
  PROVE  Len(pipe) + Len(screen) < N - 1
<1>1. ~overrun /\ ~ReallyFull /\ RingOrder /\ read_index \in 0 .. N /\ N \in Nat /\ N >= 2
  BY TtyAssumption DEF QueueRead, TtyInv, TtyTypeOK
<1>2. PICK p \in Nat, s \in Nat : p = Len(pipe) /\ s = Len(screen) /\ p + s < N
  BY <1>1 DEF RingOrder
<1>3. ASSUME p + s = N - 1 PROVE FALSE
  <2>1. write_index = CellAt(read_index, N - 1)
    BY <1>1, <1>2, <1>3 DEF RingOrder
  <2>2. N - 1 \in 0 .. N - 1 /\ (N - 1) + 1 = N
    BY <1>1
  <2>3. Mask(write_index + 1) = Mask(read_index)
    BY <1>1, <2>1, <2>2, CellNext, CellEnds
  <2> QED
    BY <1>1, <2>3 DEF ReallyFull
<1> QED
  BY <1>1, <1>2, <1>3

(* A byte that edits nothing.                                                *)
LEMMA QueueQuietKeeps ==
  ASSUME TtyInv, NEW byte \in Byte, QueueRead(byte), UNCHANGED <<ringVars, termVars>>
  PROVE  TtyInv'
<1>1. /\ UNCHANGED <<read_buffer, write_index, ls_index, le_index, screen, cursor>>
      /\ pipe' = pipe /\ read_index' = read_index
  BY DEF QueueRead, ringVars, termVars
<1>2. ~overrun
  BY DEF QueueRead
<1>3. TtyTypeOK'
  BY <1>1, QueueReaders DEF TtyInv, TtyTypeOK
<1>4. RingOrder' /\ RingContents'
  BY <1>1, <1>2 DEF TtyInv, RingOrder, RingContents
<1> QED
  BY <1>3, <1>4, QueueReaders DEF TtyInv

(* A control sequence moves the cursor within the line.                      *)
LEMMA QueueCsiKeeps ==
  ASSUME TtyInv, NEW byte \in Byte, QueueRead(byte), QueueCsi(byte)
  PROVE  TtyInv'
<1>1. /\ N \in Nat /\ N >= 2 /\ read_index \in 0 .. N /\ read_index' = read_index
      /\ ~overrun /\ RingOrder /\ RingContents /\ TtyTypeOK
      /\ UNCHANGED <<read_buffer, ls_index, le_index, screen, pipe>>
  BY TtyAssumption DEF QueueRead, QueueCsi, TtyInv, TtyTypeOK
<1>2. CASE UNCHANGED <<write_index, cursor>>
  BY <1>1, <1>2, QueueQuietKeeps DEF ringVars, termVars
<1>3. CASE ~UNCHANGED <<write_index, cursor>>
  <2>1. PICK p \in Nat, s \in Nat, c \in Nat :
          p = Len(pipe) /\ s = Len(screen) /\ c = cursor /\ c <= s /\ p + s < N
    BY <1>1 DEF RingOrder
  <2>2. /\ ls_index = CellAt(read_index, p) /\ le_index = CellAt(read_index, p + s)
        /\ write_index = CellAt(read_index, p + c)
    BY <1>1, <2>1 DEF RingOrder
  <2>3. PICK d \in {-1, 1} :
          /\ write_index' = Mask(write_index + d) /\ cursor' = c + d
          /\ d = 1 => write_index # le_index
          /\ d = -1 => write_index # ls_index
    <3>1. write_index' = Mask(write_index + MoveCursor(byte)) /\ cursor' = c + MoveCursor(byte)
      BY <1>3, <2>1 DEF QueueCsi
    <3>2. MoveCursor(byte) # 0
      <4>1. ASSUME MoveCursor(byte) = 0 PROVE FALSE
        <5>1. write_index \in Index /\ write_index + 0 = write_index /\ c + 0 = c /\ write_index \in Int
          BY <1>1 DEF TtyTypeOK, Index
        <5>2. write_index' = write_index /\ cursor' = cursor
          BY <2>1, <3>1, <4>1, <5>1, MaskValue
        <5> QED
          BY <1>3, <5>2
      <4> QED
        BY <4>1
    <3>3. \/ MoveCursor(byte) = 1 /\ write_index # le_index
          \/ MoveCursor(byte) = -1 /\ write_index # ls_index
      BY <3>2 DEF MoveCursor
    <3> QED
      BY <3>1, <3>3
  <2>4. c + d \in 0 .. s /\ write_index' = CellAt(read_index, p + (c + d))
    <3>1. CASE d = 1
      <4>1. c # s
        BY <2>2, <2>3, <3>1
      <4>2. p + c \in 0 .. N - 1 /\ (p + c) + 1 = p + (c + d) /\ c + d \in 0 .. s
        BY <1>1, <2>1, <3>1, <4>1
      <4> QED
        BY <1>1, <2>2, <2>3, <3>1, <4>2, CellNext
    <3>2. CASE d = -1
      <4>1. c # 0
        BY <2>2, <2>3, <3>2
      <4>2. p + c \in 1 .. N - 1 /\ (p + c) - 1 = p + (c + d) /\ c + d \in 0 .. s
        BY <1>1, <2>1, <3>2, <4>1
      <4>3. write_index' = Mask(CellAt(read_index, p + c) - 1)
        <5>1. CellAt(read_index, p + c) \in Int
          BY <1>1, <2>2 DEF TtyTypeOK, Index
        <5> QED
          BY <2>2, <2>3, <3>2, <5>1
      <4> QED
        BY <1>1, <4>2, <4>3, CellPrev
    <3> QED
      BY <2>3, <3>1, <3>2
  <2>5. write_index' # write_index
    <3>1. p + (c + d) \in 0 .. N - 1 /\ p + c \in 0 .. N - 1 /\ p + (c + d) # p + c
      BY <1>1, <2>1, <2>3, <2>4
    <3> QED
      BY <1>1, <2>2, <2>4, <3>1, CellInjective
  <2>6. write_index' \in Index
    <3>1. p + (c + d) \in 0 .. N
      BY <1>1, <2>1, <2>3, <2>4
    <3> QED
      BY <1>1, <2>4, <3>1, CellValue
  <2>7. TtyTypeOK'
    BY <1>1, <2>6, QueueReaders DEF TtyTypeOK
  <2>8. ASSUME ~overrun' PROVE RingOrder' /\ RingContents'
    <3>1. p + s < N - 1
      BY <2>1, <2>5, <2>8, QueueRoom
    <3>2. RingOrder'
      BY <1>1, <2>1, <2>2, <2>3, <2>4, <3>1 DEF RingOrder
    <3>3. RingContents'
      BY <1>1 DEF RingContents
    <3> QED
      BY <3>2, <3>3
  <2> QED
    BY <2>7, <2>8, QueueReaders DEF TtyInv
<1> QED
  BY <1>2, <1>3

(* An erased byte becomes a blank, in the ring and on the screen.            *)
LEMMA QueueEraseKeeps ==
  ASSUME TtyInv, NEW byte \in Byte, QueueRead(byte), QueueErase(byte)
  PROVE  TtyInv'
<1>1. /\ N \in Nat /\ N >= 2 /\ read_index \in 0 .. N /\ read_index' = read_index
      /\ ~overrun /\ RingOrder /\ RingContents /\ TtyTypeOK
      /\ UNCHANGED <<ls_index, le_index, pipe>>
  BY TtyAssumption DEF QueueRead, QueueErase, TtyInv, TtyTypeOK
<1>2. CASE ls_index = write_index
  BY <1>1, <1>2, QueueQuietKeeps DEF ringVars, termVars, QueueErase
<1>3. CASE ls_index # write_index
  <2>1. PICK p \in Nat, s \in Nat, c \in Nat :
          p = Len(pipe) /\ s = Len(screen) /\ c = cursor /\ c <= s /\ p + s < N
    BY <1>1 DEF RingOrder
  <2>2. /\ ls_index = CellAt(read_index, p) /\ le_index = CellAt(read_index, p + s)
        /\ write_index = CellAt(read_index, p + c)
    BY <1>1, <2>1 DEF RingOrder
  <2>3. c # 0
    BY <1>3, <2>2
  <2>4. /\ p + c \in 1 .. N - 1 /\ (p + c) - 1 = p + (c - 1) /\ p + (c - 1) \in 0 .. N - 1
        /\ p + (c - 1) \in 0 .. N /\ c - 1 \in 0 .. s /\ c - 1 < s /\ (c - 1) + 1 = c /\ c \in 1 .. s
    BY <1>1, <2>1, <2>3
  <2>5. Mask(write_index - 1) = CellAt(read_index, p + (c - 1))
    BY <1>1, <2>2, <2>4, CellPrev
  <2>6. /\ write_index' = CellAt(read_index, p + (c - 1)) /\ cursor' = c - 1
        /\ read_buffer' = [read_buffer EXCEPT ![CellAt(read_index, p + (c - 1))] = " "]
        /\ screen' = [screen EXCEPT ![c] = " "]
    BY <1>3, <2>1, <2>4, <2>5 DEF QueueErase, Write
  <2>7. write_index' # write_index /\ write_index' \in Index
    <3>1. p + (c - 1) # p + c /\ p + c \in 0 .. N - 1
      BY <2>1, <2>4
    <3> QED
      BY <1>1, <2>2, <2>4, <2>6, <3>1, CellInjective, CellValue
  <2>8. TtyTypeOK'
    <3>1. read_buffer' \in [Index -> Symbol]
      BY <1>1, <2>6 DEF TtyTypeOK, Symbol
    <3> QED
      BY <1>1, <2>7, <3>1, QueueReaders DEF TtyTypeOK
  <2>9. ASSUME ~overrun' PROVE RingOrder' /\ RingContents'
    <3>1. p + s < N - 1
      BY <2>1, <2>7, <2>9, QueueRoom
    <3>2. screen \in Seq(Symbol) /\ pipe \in Seq(Symbol)
      BY <1>1 DEF RingOrder
    <3>3. /\ screen' \in Seq(Symbol) /\ Len(screen') = s
          /\ \A k \in 1 .. s : screen'[k] = IF k = c THEN " " ELSE screen[k]
      <4>1. PICK blank \in Symbol : blank = " "
        BY DEF Symbol
      <4>2. screen' = [screen EXCEPT ![c] = blank] /\ c \in 1 .. Len(screen)
        BY <2>1, <2>4, <2>6, <4>1
      <4>3. /\ screen' \in Seq(Symbol) /\ Len(screen') = s
            /\ \A k \in 1 .. s : screen'[k] = IF k = c THEN blank ELSE screen[k]
        BY <2>1, <3>2, <4>2
      <4> QED
        BY <4>1, <4>3
    <3>4. RingOrder'
      <4>1. p + s < N /\ p + s # N - 1
        BY <1>1, <2>1, <3>1
      <4> QED
        BY <1>1, <2>1, <2>2, <2>4, <2>6, <3>2, <3>3, <4>1 DEF RingOrder
    <3>5. \A k \in 0 .. N - 1 : read_buffer'[CellAt(read_index, k)]
                                  = IF k = p + (c - 1) THEN " " ELSE read_buffer[CellAt(read_index, k)]
      <4>1. read_buffer \in [Index -> Symbol]
        BY <1>1 DEF TtyTypeOK
      <4>2. Stores(read_index, read_buffer, read_buffer', p + (c - 1), " ")
        BY <1>1, <2>4, <2>6, <4>1, CellStore
      <4> QED
        BY <4>2 DEF Stores
    <3>6. ASSUME NEW k \in 1 .. p PROVE read_buffer'[CellAt(read_index, k - 1)] = pipe[k]
      <4>1. k - 1 \in 0 .. N - 1 /\ k - 1 # p + (c - 1)
        BY <1>1, <2>1, <2>4
      <4> QED
        BY <1>1, <2>1, <3>5, <4>1 DEF RingContents
    <3>7. ASSUME NEW k \in 1 .. s PROVE read_buffer'[CellAt(read_index, p + k - 1)] = screen'[k]
      <4>1. p + k - 1 \in 0 .. N - 1 /\ (p + k - 1 = p + (c - 1) <=> k = c)
        BY <1>1, <2>1, <2>4
      <4>2. read_buffer[CellAt(read_index, p + k - 1)] = screen[k]
        BY <1>1, <2>1 DEF RingContents
      <4> QED
        BY <3>3, <3>5, <4>1, <4>2
    <3>8. RingContents'
      BY <1>1, <2>1, <3>3, <3>6, <3>7 DEF RingContents
    <3> QED
      BY <3>4, <3>8
  <2> QED
    BY <2>8, <2>9, QueueReaders DEF TtyInv
<1> QED
  BY <1>2, <1>3

(* A printable byte replaces the one under the cursor or extends the line.   *)
LEMMA QueueCharKeeps ==
  ASSUME TtyInv, NEW byte \in Byte, QueueRead(byte), QueueChar(byte)
  PROVE  TtyInv'
<1>1. /\ N \in Nat /\ N >= 2 /\ read_index \in 0 .. N /\ read_index' = read_index
      /\ ~overrun /\ RingOrder /\ RingContents /\ TtyTypeOK
      /\ UNCHANGED <<ls_index, pipe>> /\ byte \in Symbol
  BY TtyAssumption DEF QueueRead, QueueChar, TtyInv, TtyTypeOK, Symbol
<1>2. PICK p \in Nat, s \in Nat, c \in Nat :
        p = Len(pipe) /\ s = Len(screen) /\ c = cursor /\ c <= s /\ p + s < N
  BY <1>1 DEF RingOrder
<1>3. /\ ls_index = CellAt(read_index, p) /\ le_index = CellAt(read_index, p + s)
      /\ write_index = CellAt(read_index, p + c)
  BY <1>1, <1>2 DEF RingOrder
<1>4. /\ p + c \in 0 .. N - 1 /\ p + s \in 0 .. N - 1 /\ (p + c) + 1 = p + (c + 1) /\ (p + s) + 1 = p + (s + 1)
      /\ p + (c + 1) \in 0 .. N /\ p + (s + 1) \in 0 .. N
  BY <1>1, <1>2
<1>5. /\ Mask(write_index + 1) = CellAt(read_index, p + (c + 1))
      /\ Mask(le_index + 1) = CellAt(read_index, p + (s + 1))
  BY <1>1, <1>3, <1>4, CellNext
<1>6. Mask(write_index) = write_index
  BY <1>1, MaskValue DEF TtyTypeOK, Index
<1>7. /\ write_index' = CellAt(read_index, p + (c + 1)) /\ cursor' = c + 1
      /\ le_index' = IF c = s THEN CellAt(read_index, p + (s + 1)) ELSE le_index
      /\ read_buffer' = [read_buffer EXCEPT ![CellAt(read_index, p + c)] = byte]
      /\ screen' = IF c = s THEN Append(screen, byte) ELSE [screen EXCEPT ![c + 1] = byte]
  <2>1. le_index = write_index <=> c = s
    <3>1. p + c = p + s <=> c = s
      BY <1>2
    <3> QED
      BY <1>1, <1>3, <1>4, <3>1, CellInjective
  <2>2. c < s <=> c # s
    BY <1>2
  <2> QED
    BY <1>2, <1>3, <1>5, <1>6, <2>1, <2>2 DEF QueueChar, Write
<1>8. TtyTypeOK'
  <2>1. read_buffer' \in [Index -> Symbol]
    BY <1>1, <1>7 DEF TtyTypeOK
  <2>2. write_index' \in Index /\ le_index' \in Index
    BY <1>1, <1>4, <1>7, CellValue DEF TtyTypeOK
  <2> QED
    BY <1>1, <2>1, <2>2, QueueReaders DEF TtyTypeOK
<1>9. ASSUME ~overrun' PROVE RingOrder' /\ RingContents'
  <2>1. p + s < N - 1
    <3>1. ~(p + s < N - 1) => p + s = N - 1
      BY <1>1, <1>2
    <3>2. ASSUME p + s = N - 1 PROVE write_index' # write_index
      <4>1. c = s /\ p + (c + 1) = N
        BY <1>1, <1>2, <3>2 DEF RingOrder
      <4>2. write_index' = CellAt(read_index, 0) /\ write_index = CellAt(read_index, N - 1)
        <5>1. p + c = N - 1
          BY <1>2, <3>2, <4>1
        <5> QED
          BY <1>1, <1>3, <1>7, <4>1, <5>1, CellEnds
      <4>3. 0 \in 0 .. N - 1 /\ N - 1 \in 0 .. N - 1 /\ N - 1 # 0
        BY <1>1
      <4> QED
        BY <1>1, <4>2, <4>3, CellInjective
    <3>3. p + s = N - 1 => p + s < N - 1
      BY <1>2, <1>9, <3>2, QueueRoom
    <3> QED
      BY <3>1, <3>3
  <2>2. screen \in Seq(Symbol) /\ pipe \in Seq(Symbol)
    BY <1>1 DEF RingOrder
  <2>3. PICK t \in Nat : t = IF c = s THEN s + 1 ELSE s
    BY <1>2
  <2>4. c + 1 \in 1 .. t /\ t >= s /\ p + t < N /\ (t = s \/ (t = s + 1 /\ c = s)) /\ p + t \in 0 .. N
    BY <1>1, <1>2, <2>1, <2>3
  <2>5. /\ screen' \in Seq(Symbol) /\ Len(screen') = t
        /\ \A k \in 1 .. t : screen'[k] = IF k = c + 1 THEN byte ELSE screen[k]
    <3>1. CASE c = s
      BY <1>1, <1>2, <1>7, <2>2, <2>3, <3>1
    <3>2. CASE c # s
      <4>1. c + 1 \in 1 .. s
        BY <1>2, <3>2
      <4> QED
        BY <1>1, <1>2, <1>7, <2>2, <2>3, <3>2, <4>1
    <3> QED
      BY <3>1, <3>2
  <2>6. le_index' = CellAt(read_index, p + t)
    BY <1>3, <1>7, <2>3
  <2>7. p + t = N - 1 => c + 1 = t
    BY <1>1, <1>2, <2>1, <2>3
  <2>8. RingOrder'
    BY <1>1, <1>2, <1>3, <1>7, <2>2, <2>4, <2>5, <2>6, <2>7 DEF RingOrder
  <2>9. \A k \in 0 .. N - 1 : read_buffer'[CellAt(read_index, k)]
                                = IF k = p + c THEN byte ELSE read_buffer[CellAt(read_index, k)]
    <3>1. read_buffer \in [Index -> Symbol]
      BY <1>1 DEF TtyTypeOK
    <3>2. Stores(read_index, read_buffer, read_buffer', p + c, byte)
      BY <1>1, <1>4, <1>7, <3>1, CellStore
    <3> QED
      BY <3>2 DEF Stores
  <2>10. ASSUME NEW k \in 1 .. p PROVE read_buffer'[CellAt(read_index, k - 1)] = pipe[k]
    <3>1. k - 1 \in 0 .. N - 1 /\ k - 1 # p + c
      BY <1>1, <1>2
    <3> QED
      BY <1>1, <1>2, <2>9, <3>1 DEF RingContents
  <2>11. ASSUME NEW k \in 1 .. t PROVE read_buffer'[CellAt(read_index, p + k - 1)] = screen'[k]
    <3>1. p + k - 1 \in 0 .. N - 1 /\ (p + k - 1 = p + c <=> k = c + 1)
      BY <1>1, <1>2, <2>4
    <3>2. k # c + 1 => k \in 1 .. s
      BY <1>2, <2>3
    <3>3. k # c + 1 => read_buffer[CellAt(read_index, p + k - 1)] = screen[k]
      BY <1>1, <1>2, <3>2 DEF RingContents
    <3> QED
      BY <2>5, <2>9, <3>1, <3>3
  <2>12. RingContents'
    BY <1>1, <1>2, <2>5, <2>10, <2>11 DEF RingContents
  <2> QED
    BY <2>8, <2>12
<1> QED
  BY <1>8, <1>9, QueueReaders DEF TtyInv

(* A newline commits the whole line, wherever the cursor is.                 *)
LEMMA QueueNewlineKeeps ==
  ASSUME TtyInv, NEW byte \in Byte, QueueRead(byte), QueueNewline(byte)
  PROVE  TtyInv'
<1>1. /\ N \in Nat /\ N >= 2 /\ read_index \in 0 .. N /\ read_index' = read_index
      /\ ~overrun /\ RingOrder /\ RingContents /\ TtyTypeOK /\ "NL" \in Symbol
  BY TtyAssumption DEF QueueRead, QueueNewline, TtyInv, TtyTypeOK, Symbol, Bytes
<1>2. PICK p \in Nat, s \in Nat : p = Len(pipe) /\ s = Len(screen) /\ p + s < N
  BY <1>1 DEF RingOrder
<1>3. ls_index = CellAt(read_index, p) /\ le_index = CellAt(read_index, p + s)
  BY <1>1, <1>2 DEF RingOrder
<1>4. /\ p \in 0 .. N - 1 /\ p + s \in 0 .. N - 1 /\ (p + s) + 1 = p + (s + 1) /\ p + (s + 1) \in 0 .. N
  BY <1>1, <1>2
<1>5. Mask(le_index + 1) = CellAt(read_index, p + (s + 1)) /\ CellAt(read_index, p + (s + 1)) \in Index
  BY <1>1, <1>3, <1>4, CellNext, CellValue
<1>6. /\ write_index' = CellAt(read_index, p + (s + 1)) /\ le_index' = CellAt(read_index, p + (s + 1))
      /\ ls_index' = CellAt(read_index, p + (s + 1)) /\ screen' = <<>> /\ cursor' = 0
      /\ read_buffer' = [read_buffer EXCEPT ![CellAt(read_index, p + s)] = "NL"]
  BY <1>3, <1>5 DEF QueueNewline
<1>7. TtyTypeOK'
  <2>1. read_buffer' \in [Index -> Symbol]
    BY <1>1, <1>6 DEF TtyTypeOK
  <2> QED
    BY <1>1, <1>5, <1>6, <2>1, QueueReaders DEF TtyTypeOK
<1>8. ASSUME ~overrun' PROVE RingOrder' /\ RingContents'
  <2>1. le_index' # le_index
    <3>1. CASE p + (s + 1) = N
      <4>1. 0 \in 0 .. N - 1 /\ p + s # 0
        BY <1>1, <1>2, <3>1
      <4>2. le_index' = CellAt(read_index, 0)
        BY <1>1, <1>6, <3>1, CellEnds
      <4> QED
        BY <1>1, <1>3, <1>4, <4>1, <4>2, CellInjective
    <3>2. CASE p + (s + 1) # N
      <4>1. p + (s + 1) \in 0 .. N - 1 /\ p + (s + 1) # p + s
        BY <1>1, <1>2, <3>2
      <4> QED
        BY <1>1, <1>3, <1>4, <1>6, <4>1, CellInjective
    <3> QED
      BY <3>1, <3>2
  <2>2. p + s < N - 1
    BY <1>2, <1>8, <2>1, QueueRoom
  <2>3. ls_index' # ls_index
    <3>1. p + (s + 1) \in 0 .. N - 1 /\ p + (s + 1) # p
      BY <1>1, <1>2, <2>2
    <3> QED
      BY <1>1, <1>3, <1>4, <1>6, <3>1, CellInjective
  <2>4. pipe' = pipe \o Append(screen, "NL")
    BY <2>3 DEF QueueRead
  <2>5. screen \in Seq(Symbol) /\ pipe \in Seq(Symbol)
    BY <1>1 DEF RingOrder
  <2>6. PICK line \in Seq(Symbol), newline \in Symbol : newline = "NL" /\ line = Append(screen, newline)
    <3>1. PICK newline \in Symbol : newline = "NL"
      BY <1>1
    <3>2. Append(screen, newline) \in Seq(Symbol)
      BY <2>5
    <3> QED
      BY <3>1, <3>2
  <2>7. Len(line) = s + 1 /\ \A k \in 1 .. s + 1 : line[k] = IF k = s + 1 THEN newline ELSE screen[k]
    BY <1>2, <2>5, <2>6
  <2>8. /\ pipe' \in Seq(Symbol) /\ Len(pipe') = p + (s + 1)
        /\ \A k \in 1 .. p + (s + 1) : pipe'[k] = IF k <= p THEN pipe[k] ELSE line[k - p]
    <3>1. pipe' = pipe \o line
      BY <2>4, <2>6
    <3>2. /\ pipe' \in Seq(Symbol) /\ Len(pipe') = Len(pipe) + Len(line)
          /\ \A k \in 1 .. Len(pipe) + Len(line) : pipe'[k] = IF k <= Len(pipe) THEN pipe[k] ELSE line[k - Len(pipe)]
      BY <2>5, <3>1
    <3> QED
      BY <1>2, <2>7, <3>2
  <2>9. RingOrder'
    <3>1. <<>> \in Seq(Symbol) /\ Len(<<>>) = 0 /\ 0 \in 0 .. 0
      OBVIOUS
    <3>2. /\ p + (s + 1) \in Nat /\ (p + (s + 1)) + 0 = p + (s + 1) /\ p + (s + 1) < N
      BY <1>1, <1>2, <2>2
    <3> QED
      BY <1>1, <1>6, <2>8, <3>1, <3>2 DEF RingOrder
  <2>10. \A k \in 0 .. N - 1 : read_buffer'[CellAt(read_index, k)]
                                = IF k = p + s THEN "NL" ELSE read_buffer[CellAt(read_index, k)]
    <3>1. read_buffer \in [Index -> Symbol]
      BY <1>1 DEF TtyTypeOK
    <3>2. Stores(read_index, read_buffer, read_buffer', p + s, "NL")
      BY <1>1, <1>4, <1>6, <3>1, CellStore
    <3> QED
      BY <3>2 DEF Stores
  <2>11. ASSUME NEW k \in 1 .. p + (s + 1) PROVE read_buffer'[CellAt(read_index, k - 1)] = pipe'[k]
    <3>1. k - 1 \in 0 .. N - 1 /\ (k - 1 = p + s <=> k = p + (s + 1))
      BY <1>1, <1>2, <2>2
    <3>2. CASE k <= p
      <4>1. k \in 1 .. p /\ k # p + (s + 1)
        BY <1>2, <3>2
      <4> QED
        BY <1>1, <1>2, <2>8, <2>10, <3>1, <3>2, <4>1 DEF RingContents
    <3>3. CASE ~(k <= p)
      <4>1. k - p \in 1 .. s + 1 /\ (k - p = s + 1 <=> k = p + (s + 1)) /\ p + (k - p) - 1 = k - 1
        BY <1>2, <3>3
      <4>2. pipe'[k] = IF k - p = s + 1 THEN "NL" ELSE screen[k - p]
        BY <2>6, <2>7, <2>8, <3>3, <4>1
      <4>3. k - p # s + 1 => read_buffer[CellAt(read_index, k - 1)] = screen[k - p]
        <5>1. k - p # s + 1 => k - p \in 1 .. s
          BY <1>2, <4>1
        <5>2. k - p # s + 1 => read_buffer[CellAt(read_index, p + (k - p) - 1)] = screen[k - p]
          BY <1>1, <1>2, <5>1 DEF RingContents
        <5> QED
          BY <4>1, <5>2
      <4> QED
        BY <2>10, <3>1, <4>1, <4>2, <4>3
    <3> QED
      BY <3>2, <3>3
  <2>12. RingContents'
    <3>1. Len(screen') = 0
      BY <1>6
    <3> QED
      BY <1>1, <2>8, <2>11, <3>1 DEF RingContents
  <2> QED
    BY <2>9, <2>12
<1> QED
  BY <1>7, <1>8, QueueReaders DEF TtyInv

-----------------------------------------------------------------------------
(* Every step keeps the invariant.                                           *)
LEMMA TtyStep ==
  ASSUME TtyInv, [Next]_vars
  PROVE  TtyInv'
<1>1. CASE UNCHANGED vars
  BY <1>1 DEF vars, ringVars, readerVars, termVars, TtyInv, TtyTypeOK, ReaderAlone, RingOrder, RingContents
<1>2. ASSUME NEW byte \in Byte, QueueRead(byte) PROVE TtyInv'
  <2>1. CASE QueueEscape(byte) \/ QueueCsiStart(byte) \/ QueueCsiOverflow(byte)
    <3>1. UNCHANGED <<ringVars, termVars>>
      BY <2>1 DEF QueueEscape, QueueCsiStart, QueueCsiOverflow
    <3> QED
      BY <1>2, <3>1, QueueQuietKeeps
  <2> QED
    BY <1>2, <2>1, QueueCsiKeeps, QueueEraseKeeps, QueueCharKeeps, QueueNewlineKeeps DEF QueueRead
<1>3. ASSUME NEW r \in Reader, Reading(r) \/ \E n \in 1 .. MaxCount : Read(r, n) PROVE TtyInv'
  BY <1>3, ReadKeeps, ReadCopyKeeps, ReadMaskKeeps DEF Reading
<1> QED
  BY <1>1, <1>2, <1>3 DEF Next

(* The stretch of the ring between two distances.                            *)
LEMMA SliceLength ==
  ASSUME NEW i \in 0 .. N, NEW k \in 0 .. N - 1, NEW j \in 0 .. N - 1, k <= j
  PROVE  Mask(CellAt(i, j) - CellAt(i, k)) = j - k
<1>1. N \in Nat /\ N >= 2 /\ k \in 0 .. N /\ j \in 0 .. N
  BY TtyAssumption
<1>2. PICK m \in Index : m = Mask(i)
  BY <1>1, CellValue
<1>3. PICK c \in Index : c = CellAt(i, k) /\ c = IF m + k < N THEN m + k ELSE m + k - N
  BY <1>1, <1>2, CellValue
<1>4. PICK d \in Index : d = CellAt(i, j) /\ d = IF m + j < N THEN m + j ELSE m + j - N
  BY <1>1, <1>2, CellValue
<1>5. m \in Nat /\ m < N /\ c \in Nat /\ c < N /\ d \in Nat /\ d < N /\ k \in Nat /\ j \in Nat /\ j < N
  BY <1>1 DEF Index
<1>6. (d - c = j - k \/ d - c = (j - k) - N) /\ d - c \in Int
  BY <1>1, <1>3, <1>4, <1>5
<1>7. CASE d - c = j - k
  <2>1. d - c \in Index
    BY <1>1, <1>5, <1>7 DEF Index
  <2> QED
    BY <1>3, <1>4, <1>6, <1>7, <2>1, MaskValue
<1>8. CASE d - c = (j - k) - N
  <2>1. PICK e \in Int : e = d - c
    BY <1>6
  <2>2. e \in -N .. -1 /\ e + N = j - k
    BY <1>1, <1>4, <1>3, <1>5, <1>8, <2>1
  <2>3. Mask(e) = e + N
    BY <2>2, MaskValue
  <2> QED
    BY <1>3, <1>4, <2>1, <2>2, <2>3
<1> QED
  BY <1>6, <1>7, <1>8

(* Cells are counted from any cell as from the index.                        *)
LEMMA CellFrom ==
  ASSUME NEW i \in 0 .. N, NEW k \in 0 .. N - 1, NEW j \in 0 .. N - 1, k + j < N
  PROVE  Mask(CellAt(i, k) + j) = CellAt(i, k + j)
<1>1. N \in Nat /\ N >= 2 /\ k \in 0 .. N /\ k + j \in 0 .. N
  BY TtyAssumption
<1>2. PICK m \in Index : m = Mask(i)
  BY <1>1, CellValue
<1>3. PICK c \in Index : c = CellAt(i, k) /\ c = IF m + k < N THEN m + k ELSE m + k - N
  BY <1>1, <1>2, CellValue
<1>4. PICK d \in Index : d = CellAt(i, k + j) /\ d = IF m + (k + j) < N THEN m + (k + j) ELSE m + (k + j) - N
  BY <1>1, <1>2, CellValue
<1>5. m \in Nat /\ m < N /\ c \in Nat /\ c < N /\ d \in Nat /\ d < N /\ k \in Nat /\ j \in Nat /\ j < N
  BY <1>1 DEF Index
<1>6. (c + j = d \/ c + j = d + N) /\ c + j \in Int
  BY <1>1, <1>3, <1>4, <1>5
<1>7. CASE c + j = d
  BY <1>3, <1>4, <1>6, <1>7, MaskValue
<1>8. CASE c + j = d + N
  <2>1. PICK e \in Int : e = c + j
    BY <1>6
  <2>2. e \in N .. 2 * N - 1 /\ e - N = d
    BY <1>1, <1>5, <1>8, <2>1
  <2>3. Mask(e) = e - N
    BY <2>2, MaskValue
  <2> QED
    BY <1>3, <1>4, <2>1, <2>2, <2>3
<1> QED
  BY <1>6, <1>7, <1>8

(* A slice of the ring is the sequence its cells hold.                       *)
LEMMA SliceIs ==
  ASSUME TtyTypeOK, NEW k \in 0 .. N - 1, NEW q \in Seq(Symbol), k + Len(q) < N,
         \A n \in 1 .. Len(q) : read_buffer[CellAt(read_index, k + n - 1)] = q[n]
  PROVE  Slice(CellAt(read_index, k), CellAt(read_index, k + Len(q))) = q
<1>1. PICK l \in Nat : l = Len(q)
  OBVIOUS
<1>2. N \in Nat /\ read_index \in 0 .. N /\ k + l \in 0 .. N - 1 /\ (k + l) - k = l /\ k <= k + l
  BY <1>1, TtyAssumption DEF TtyTypeOK
<1>3. Mask(CellAt(read_index, k + l) - CellAt(read_index, k)) = l
  BY <1>2, SliceLength
<1>4. ASSUME NEW n \in 1 .. l PROVE read_buffer[Mask(CellAt(read_index, k) + n - 1)] = q[n]
  <2>1. n - 1 \in 0 .. N - 1 /\ k + (n - 1) < N /\ k + (n - 1) = k + n - 1
    BY <1>1, <1>2
  <2>2. CellAt(read_index, k) \in Index
    <3>1. k \in 0 .. N
      BY <1>2
    <3> QED
      BY <1>2, <3>1, CellValue
  <2>3. CellAt(read_index, k) + (n - 1) = CellAt(read_index, k) + n - 1
    BY <1>2, <2>2 DEF Index
  <2>4. Mask(CellAt(read_index, k) + n - 1) = CellAt(read_index, k + n - 1)
    BY <1>2, <2>1, <2>3, CellFrom
  <2> QED
    BY <1>1, <2>4
<1>5. q = [n \in 1 .. l |-> q[n]]
  BY <1>1
<1>6. Slice(CellAt(read_index, k), CellAt(read_index, k + l)) = [n \in 1 .. l |-> read_buffer[Mask(CellAt(read_index, k) + n - 1)]]
  BY <1>3 DEF Slice
<1> QED
  BY <1>1, <1>4, <1>5, <1>6

(* The positions in the ring are what the readers and the screen are to see. *)
LEMMA TtyLines ==
  ASSUME TtyInv
  PROVE  LinesExact
<1> SUFFICES ASSUME ~overrun
             PROVE  /\ Slice(Mask(read_index), ls_index) = pipe
                    /\ Slice(ls_index, le_index) = screen /\ Mask(write_index - ls_index) = cursor
  BY DEF LinesExact, Delivered, ScreenMatches
<1>1. RingOrder /\ RingContents /\ TtyTypeOK /\ read_index \in 0 .. N /\ N \in Nat /\ N >= 2
  BY TtyAssumption DEF TtyInv, TtyTypeOK
<1>2. PICK p \in Nat, s \in Nat, c \in Nat :
        p = Len(pipe) /\ s = Len(screen) /\ c = cursor /\ c <= s /\ p + s < N
  BY <1>1 DEF RingOrder
<1>3. /\ ls_index = CellAt(read_index, p) /\ le_index = CellAt(read_index, p + s)
      /\ write_index = CellAt(read_index, p + c) /\ pipe \in Seq(Symbol) /\ screen \in Seq(Symbol)
  BY <1>1, <1>2 DEF RingOrder
<1>4. p \in 0 .. N - 1 /\ p + c \in 0 .. N - 1 /\ 0 \in 0 .. N - 1 /\ 0 + p = p /\ (p + c) - p = c /\ p <= p + c /\ 0 + p < N
  BY <1>1, <1>2
<1>5. Slice(Mask(read_index), ls_index) = pipe
  <2>1. \A n \in 1 .. p : read_buffer[CellAt(read_index, 0 + n - 1)] = pipe[n]
    <3>1. \A n \in 1 .. p : 0 + n - 1 = n - 1
      BY <1>2
    <3> QED
      BY <1>1, <1>2, <3>1 DEF RingContents
  <2>2. Slice(CellAt(read_index, 0), CellAt(read_index, 0 + p)) = pipe
    BY <1>1, <1>2, <1>3, <1>4, <2>1, SliceIs
  <2> QED
    BY <1>1, <1>3, <1>4, <2>2, CellEnds
<1>6. Slice(ls_index, le_index) = screen
  <2>1. \A n \in 1 .. s : read_buffer[CellAt(read_index, p + n - 1)] = screen[n]
    BY <1>1, <1>2 DEF RingContents
  <2> QED
    BY <1>1, <1>2, <1>3, <1>4, <2>1, SliceIs
<1>7. Mask(write_index - ls_index) = cursor
  BY <1>1, <1>2, <1>3, <1>4, SliceLength
<1> QED
  BY <1>5, <1>6, <1>7

(* The terminal's ring: what a reader will read is what was committed, and   *)
(* the line to be committed is the line on the screen (LinesExact of Tty.tla)*)
THEOREM TerminalLinesExact == Spec => []LinesExact
<1>1. Init => TtyInv
  BY TtyStart
<1>2. TtyInv /\ [Next]_vars => TtyInv'
  BY TtyStep
<1>3. TtyInv => LinesExact
  BY TtyLines
<1> QED
  BY <1>1, <1>2, <1>3, PTL DEF Spec

(* A step overruns the ring only between the two stores of read_index, at    *)
(* the wrap.                                                                 *)
LEMMA OverrunStep ==
  ASSUME TtyInv, [Next]_vars, overrun', ~overrun
  PROVE  read_index = N /\ \E r \in Reader : pc[r] = "mask"
<1>1. \E byte \in Byte : QueueRead(byte)
  BY DEF Next, Reading, Read, ReadTest, ReadPark, ReadLock, ReadCopy, ReadMask, ReadUnlock, vars
<1>2. ~Full /\ ReallyFull
  BY <1>1 DEF QueueRead
<1>3. Mask(read_index) # read_index /\ read_index \in 0 .. N /\ N \in Nat
  BY <1>2, TtyAssumption DEF Full, ReallyFull, TtyInv, TtyTypeOK
<1>4. read_index = N
  <2>1. ASSUME read_index # N PROVE FALSE
    <3>1. read_index \in Index /\ read_index \in Int
      BY <1>3, <2>1 DEF Index
    <3> QED
      BY <1>3, <3>1, MaskValue
  <2> QED
    BY <2>1
<1> QED
  BY <1>4 DEF TtyInv, ReaderAlone

(* A step strands a sleeping reader only if it was between its test and the  *)
(* tick that parks it.                                                       *)
LEMMA GapStep ==
  ASSUME TtyInv, [Next]_vars, NEW r \in Reader, Missed(r)', ~Missed(r)
  PROVE  pc[r] = "gap"
<1>1. TtyTypeOK /\ ReaderAlone
  BY DEF TtyInv
<1>2. pc'[r] \in {"gap", "parked"} /\ read_index' # ls_index' /\ (pc[r] \notin {"gap", "parked"} \/ read_index = ls_index)
  BY DEF Missed, Empty
<1>3. CASE UNCHANGED vars
  BY <1>2, <1>3 DEF vars, ringVars, readerVars
<1>4. ASSUME NEW byte \in Byte, QueueRead(byte) PROVE pc[r] = "gap"
  <2>1. read_index' = read_index /\ (ls_index' = ls_index => pc' = pc) /\ (ls_index' # ls_index => pc' = Awakened)
    BY <1>4 DEF QueueRead
  <2>2. ls_index' # ls_index
    BY <1>2, <2>1
  <2>3. pc'[r] = IF pc[r] = "parked" THEN "test" ELSE pc[r]
    BY <2>1, <2>2 DEF Awakened
  <2> QED
    BY <1>2, <2>3
<1>5. ASSUME NEW q \in Reader, Reading(q) \/ \E n \in 1 .. MaxCount : Read(q, n) PROVE pc[r] = "gap"
  <2>1. ls_index' = ls_index /\ (q # r => pc'[r] = pc[r])
    BY <1>1, <1>5 DEF Reading, Read, ReadTest, ReadPark, ReadLock, ReadCopy, ReadMask, ReadUnlock, Goto, ringVars, TtyTypeOK
  <2>2. CASE ReadCopy(q)
    <3>1. read_index # ls_index /\ (pc' = pc \/ pc'[q] = "mask")
      BY <1>1, <2>2 DEF ReadCopy, Empty, Goto, TtyTypeOK
    <3> QED
      BY <1>2, <2>1, <3>1
  <2>3. CASE ReadMask(q)
    <3>1. pc'[q] = "copy" /\ read_index' = Mask(read_index)
      BY <1>1, <2>3 DEF ReadMask, Goto, TtyTypeOK
    <3>2. q # r /\ read_index = ls_index
      BY <1>2, <2>1, <3>1
    <3>3. Mask(read_index) = read_index
      BY <1>1, <3>2, MaskValue DEF TtyTypeOK, Index
    <3> QED
      BY <1>2, <2>1, <3>1, <3>2, <3>3
  <2>4. CASE ~ReadCopy(q) /\ ~ReadMask(q)
    <3>1. read_index' = read_index
      BY <1>5, <2>4 DEF Reading, Read, ReadTest, ReadPark, ReadLock, ReadUnlock
    <3>2. q = r /\ pc[r] \notin {"gap", "parked"}
      BY <1>2, <2>1, <3>1
    <3>3. ~ReadTest(r)
      <4>1. ReadTest(r) => pc'[r] = "lock"
        BY <1>1, <1>2, <2>1, <3>1 DEF ReadTest, Goto, Empty, TtyTypeOK
      <4> QED
        BY <1>2, <4>1
    <3> QED
      BY <1>1, <1>2, <1>5, <2>4, <3>2, <3>3 DEF Reading, Read, ReadPark, ReadLock, ReadUnlock, Goto, TtyTypeOK
  <2> QED
    BY <2>2, <2>3, <2>4
<1> QED
  BY <1>3, <1>4, <1>5 DEF Next

(* A byte is overwritten and a wakeup lost only in the two windows of        *)
(* tty_read: LossOnlyInWindows of Tty.tla.                                   *)
THEOREM LossesOnlyInWindows == Spec => LossOnlyInWindows
<1>1. Init => TtyInv
  BY TtyStart
<1>2. TtyInv /\ [Next]_vars => TtyInv'
  BY TtyStep
<1>3. TtyInv /\ [Next]_vars => [overrun' /\ ~overrun => read_index = N /\ \E r \in Reader : pc[r] = "mask"]_vars
  BY OverrunStep
<1>4. TtyInv /\ [Next]_vars => [\A r \in Reader : Missed(r)' /\ ~Missed(r) => pc[r] = "gap"]_vars
  BY GapStep
<1> QED
  BY <1>1, <1>2, <1>3, <1>4, PTL DEF Spec, LossOnlyInWindows, OverrunOnlyAtWrap, LostOnlyInGap
=============================================================================
