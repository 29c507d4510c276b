--------------------------- MODULE SchedulerProofs ---------------------------
(***************************************************************************)
(* Proofs about Scheduler, for any number of CPUs, threads and images.     *)
(***************************************************************************)
EXTENDS Scheduler, SequenceTheorems, FiniteSetTheorems, WellFoundedInduction, TLAPS

(* A set of natural numbers has a least element.                             *)
LEMMA LeastNatural ==
  ASSUME NEW S \in SUBSET Nat, S # {}
  PROVE  \E m \in S : \A n \in S : m <= n
<1> DEFINE R == OpToRel(<, Nat)
<1>1. \A x, y \in Nat : x < y => <<x, y>> \in R
  BY DEF OpToRel
<1>2. IsWellFoundedOn(R, Nat)
  BY NatLessThanWellFounded
<1> HIDE DEF R
<1>3. PICK m \in S : \A n \in S : ~(<<n, m>> \in R)
  BY <1>2, WFMin, Zenon
<1>4. \A n \in S : ~(n < m)
  BY <1>1, <1>3, Zenon
<1>5. \A n \in S : m <= n
  BY <1>4
<1> QED
  BY <1>5

-----------------------------------------------------------------------------
(* Queues of PCBs as sequences without repetitions.                          *)

(* The empty queue.                                                          *)
LEMMA EmptyQueue ==
  ASSUME NEW S
  PROVE  <<>> \in Seq(S) /\ ToSet(<<>>) = {} /\ IsInjective(<<>>)
BY DEF ToSet, IsInjective

(* A queue of one PCB.                                                       *)
LEMMA SingletonQueue ==
  ASSUME NEW S, NEW x \in S
  PROVE  <<x>> \in Seq(S) /\ ToSet(<<x>>) = {x} /\ IsInjective(<<x>>) /\ <<x>> # <<>>
<1>1. DOMAIN <<x>> = {1} /\ <<x>>[1] = x
  OBVIOUS
<1> QED
  BY <1>1 DEF ToSet, IsInjective

(* One queue behind another.                                                 *)
LEMMA JoinQueues ==
  ASSUME NEW S, NEW s \in Seq(S), NEW t \in Seq(S)
  PROVE  /\ s \o t \in Seq(S)
         /\ ToSet(s \o t) = ToSet(s) \cup ToSet(t)
         /\ IsInjective(s) /\ IsInjective(t) /\ ToSet(s) \cap ToSet(t) = {} => IsInjective(s \o t)
<1> DEFINE u == s \o t
           m == Len(s)
           n == Len(t)
<1>1. m \in Nat /\ n \in Nat /\ DOMAIN s = 1 .. m /\ DOMAIN t = 1 .. n
  OBVIOUS
<1>2. u \in Seq(S) /\ DOMAIN u = 1 .. m + n
  OBVIOUS
<1>3. \A i \in 1 .. m : u[i] = s[i]
  OBVIOUS
<1>4. \A i \in 1 .. n : u[m + i] = t[i]
  OBVIOUS
<1> HIDE DEF u, m, n
<1>5. \A i \in m + 1 .. m + n : i - m \in 1 .. n /\ u[i] = t[i - m]
  <2> TAKE i \in m + 1 .. m + n
  <2>1. i - m \in 1 .. n /\ m + (i - m) = i
    BY <1>1
  <2> QED
    BY <1>4, <2>1
<1>6. \A i \in 1 .. m + n : i \in 1 .. m \/ i \in m + 1 .. m + n
  BY <1>1
<1>7. ToSet(u) = ToSet(s) \cup ToSet(t)
  <2>1. \A i \in DOMAIN u : u[i] \in ToSet(s) \cup ToSet(t)
    BY <1>1, <1>2, <1>3, <1>5, <1>6 DEF ToSet
  <2>2. \A i \in DOMAIN s : i \in DOMAIN u /\ u[i] = s[i]
    BY <1>1, <1>2, <1>3
  <2>3. \A i \in DOMAIN t : m + i \in DOMAIN u /\ u[m + i] = t[i]
    BY <1>1, <1>2, <1>4
  <2>4. ToSet(u) \subseteq ToSet(s) \cup ToSet(t)
    BY <2>1 DEF ToSet
  <2>5. ToSet(s) \subseteq ToSet(u)
    BY <2>2 DEF ToSet
  <2>6. ToSet(t) \subseteq ToSet(u)
    BY <2>3 DEF ToSet
  <2> QED
    BY <2>4, <2>5, <2>6
<1>8. ASSUME IsInjective(s), IsInjective(t), ToSet(s) \cap ToSet(t) = {}
      PROVE  IsInjective(u)
  <2> SUFFICES ASSUME NEW i \in DOMAIN u, NEW j \in DOMAIN u, u[i] = u[j] PROVE i = j
    BY DEF IsInjective
  <2>1. \A a \in 1 .. m, b \in 1 .. n : s[a] # t[b]
    BY <1>1, <1>8 DEF ToSet
  <2>2. CASE i \in 1 .. m /\ j \in 1 .. m
    BY <1>1, <1>3, <1>8, <2>2 DEF IsInjective
  <2>3. CASE i \in m + 1 .. m + n /\ j \in m + 1 .. m + n
    <3>1. i - m = j - m
      BY <1>1, <1>5, <1>8, <2>3 DEF IsInjective
    <3> QED
      BY <1>1, <2>3, <3>1
  <2>4. CASE i \in 1 .. m /\ j \in m + 1 .. m + n
    BY <1>3, <1>5, <2>1, <2>4
  <2>5. CASE i \in m + 1 .. m + n /\ j \in 1 .. m
    BY <1>3, <1>5, <2>1, <2>5
  <2> QED
    BY <1>2, <1>6, <2>2, <2>3, <2>4, <2>5
<1> QED
  BY <1>2, <1>7, <1>8 DEF u

(* A queue cut in two.                                                       *)
LEMMA CutQueue ==
  ASSUME NEW S, NEW s \in Seq(S), IsInjective(s), NEW n \in 0 .. Len(s)
  PROVE  /\ SubSeq(s, 1, n) \in Seq(S) /\ IsInjective(SubSeq(s, 1, n))
         /\ SubSeq(s, n + 1, Len(s)) \in Seq(S) /\ IsInjective(SubSeq(s, n + 1, Len(s)))
         /\ ToSet(s) = ToSet(SubSeq(s, 1, n)) \cup ToSet(SubSeq(s, n + 1, Len(s)))
         /\ ToSet(SubSeq(s, 1, n)) \cap ToSet(SubSeq(s, n + 1, Len(s))) = {}
<1> DEFINE a == SubSeq(s, 1, n)
           b == SubSeq(s, n + 1, Len(s))
<1>1. Len(s) \in Nat /\ DOMAIN s = 1 .. Len(s) /\ n \in Nat /\ n <= Len(s)
  OBVIOUS
<1>2. a \in Seq(S) /\ DOMAIN a = 1 .. n /\ \A i \in 1 .. n : a[i] = s[i]
  BY <1>1, SubSeqProperties
<1>3. b \in Seq(S) /\ DOMAIN b = 1 .. Len(s) - n /\ \A i \in 1 .. Len(s) - n : b[i] = s[n + i]
  BY <1>1, SubSeqProperties
<1> HIDE DEF a, b
<1>4. IsInjective(a)
  BY <1>1, <1>2 DEF IsInjective
<1>5. IsInjective(b)
  <2> SUFFICES ASSUME NEW i \in DOMAIN b, NEW j \in DOMAIN b, b[i] = b[j] PROVE i = j
    BY DEF IsInjective
  <2>1. n + i \in DOMAIN s /\ n + j \in DOMAIN s /\ s[n + i] = s[n + j]
    BY <1>1, <1>3
  <2>2. n + i = n + j
    BY <2>1 DEF IsInjective
  <2> QED
    BY <1>1, <1>3, <2>2
<1>6. \A i \in DOMAIN s : i \in DOMAIN a \/ (i - n \in DOMAIN b /\ b[i - n] = s[i])
  <2> SUFFICES ASSUME NEW i \in DOMAIN s, i \notin DOMAIN a PROVE i - n \in DOMAIN b /\ b[i - n] = s[i]
    OBVIOUS
  <2>1. i - n \in 1 .. Len(s) - n /\ n + (i - n) = i
    BY <1>1, <1>2
  <2> QED
    BY <1>3, <2>1
<1>7. ToSet(a) \subseteq ToSet(s)
  BY <1>1, <1>2 DEF ToSet
<1>8. ToSet(b) \subseteq ToSet(s)
  <2>1. \A i \in DOMAIN b : n + i \in DOMAIN s /\ b[i] = s[n + i]
    BY <1>1, <1>3
  <2> QED
    BY <2>1 DEF ToSet
<1>9. ToSet(s) \subseteq ToSet(a) \cup ToSet(b)
  BY <1>2, <1>6 DEF ToSet
<1>10. ToSet(a) \cap ToSet(b) = {}
  <2> SUFFICES ASSUME NEW i \in DOMAIN a, NEW j \in DOMAIN b, a[i] = b[j] PROVE FALSE
    BY DEF ToSet
  <2>1. i \in DOMAIN s /\ n + j \in DOMAIN s /\ s[i] = s[n + j] /\ i # n + j
    BY <1>1, <1>2, <1>3
  <2> QED
    BY <2>1 DEF IsInjective
<1>11. ToSet(s) = ToSet(a) \cup ToSet(b)
  BY <1>7, <1>8, <1>9
<1> QED
  BY <1>2, <1>3, <1>4, <1>5, <1>10, <1>11 DEF a, b

(* The operations of the code on its lists.                                  *)
LEMMA AppendQueue ==
  ASSUME NEW S, NEW s \in Seq(S), NEW x \in S
  PROVE  /\ Append(s, x) \in Seq(S)
         /\ ToSet(Append(s, x)) = ToSet(s) \cup {x}
         /\ IsInjective(s) /\ x \notin ToSet(s) => IsInjective(Append(s, x))
<1>1. Append(s, x) = s \o <<x>>
  OBVIOUS
<1>2. <<x>> \in Seq(S) /\ ToSet(<<x>>) = {x} /\ IsInjective(<<x>>)
  BY SingletonQueue
<1> DEFINE t == <<x>>
<1> HIDE DEF t
<1>3. /\ s \o t \in Seq(S)
      /\ ToSet(s \o t) = ToSet(s) \cup ToSet(t)
      /\ IsInjective(s) /\ IsInjective(t) /\ ToSet(s) \cap ToSet(t) = {} => IsInjective(s \o t)
  BY <1>2, JoinQueues DEF t
<1> QED
  BY <1>1, <1>2, <1>3 DEF t

(* Pushing in front.                                                         *)
LEMMA PrependQueue ==
  ASSUME NEW S, NEW s \in Seq(S), NEW x \in S
  PROVE  /\ <<x>> \o s \in Seq(S)
         /\ ToSet(<<x>> \o s) = ToSet(s) \cup {x}
         /\ IsInjective(s) /\ x \notin ToSet(s) => IsInjective(<<x>> \o s)
<1>2. <<x>> \in Seq(S) /\ ToSet(<<x>>) = {x} /\ IsInjective(<<x>>)
  BY SingletonQueue
<1> DEFINE t == <<x>>
<1> HIDE DEF t
<1>3. /\ t \o s \in Seq(S)
      /\ ToSet(t \o s) = ToSet(t) \cup ToSet(s)
      /\ IsInjective(t) /\ IsInjective(s) /\ ToSet(t) \cap ToSet(s) = {} => IsInjective(t \o s)
  BY <1>2, JoinQueues DEF t
<1> QED
  BY <1>2, <1>3 DEF t

(* Taking the first PCB.                                                     *)
LEMMA PopQueue ==
  ASSUME NEW S, NEW s \in Seq(S), s # <<>>, IsInjective(s)
  PROVE  /\ Tail(s) \in Seq(S) /\ Head(s) \in S /\ Head(s) \in ToSet(s)
         /\ ToSet(Tail(s)) = ToSet(s) \ {Head(s)}
         /\ IsInjective(Tail(s))
<1> DEFINE t == Tail(s)
<1>1. t \in Seq(S) /\ Len(t) = Len(s) - 1 /\ DOMAIN t = 1 .. Len(t) /\ Len(s) \in Nat /\ Len(s) >= 1
      /\ DOMAIN s = 1 .. Len(s) /\ Head(s) = s[1] /\ Head(s) \in S
  OBVIOUS
<1>2. \A i \in DOMAIN t : i + 1 \in DOMAIN s /\ t[i] = s[i + 1]
  OBVIOUS
<1> HIDE DEF t
<1>3. \A i \in DOMAIN s : i = 1 \/ (i - 1 \in DOMAIN t /\ t[i - 1] = s[i])
  BY <1>1, <1>2
<1>4. Head(s) \in ToSet(s)
  BY <1>1 DEF ToSet
<1>5. \A i \in DOMAIN t : t[i] # s[1]
  <2>1. 1 \in DOMAIN s
    BY <1>1
  <2> QED
    BY <1>1, <1>2, <2>1 DEF IsInjective
<1>6. ToSet(t) = ToSet(s) \ {Head(s)}
  BY <1>1, <1>2, <1>3, <1>5 DEF ToSet
<1>7. IsInjective(t)
  BY <1>1, <1>2 DEF IsInjective
<1> QED
  BY <1>1, <1>4, <1>6, <1>7 DEF t

(* Inserting somewhere.                                                      *)
LEMMA InsertQueue ==
  ASSUME NEW S, NEW s \in Seq(S), IsInjective(s), NEW x \in S, x \notin ToSet(s), NEW n \in 0 .. Len(s)
  PROVE  /\ InsertAt(s, n + 1, x) \in Seq(S)
         /\ ToSet(InsertAt(s, n + 1, x)) = ToSet(s) \cup {x}
         /\ IsInjective(InsertAt(s, n + 1, x))
<1> DEFINE a == SubSeq(s, 1, n)
           b == SubSeq(s, n + 1, Len(s))
<1>1. (n + 1) - 1 = n
  OBVIOUS
<1>2. InsertAt(s, n + 1, x) = (a \o <<x>>) \o b
  BY <1>1 DEF InsertAt
<1>3. /\ a \in Seq(S) /\ b \in Seq(S) /\ IsInjective(a) /\ IsInjective(b)
      /\ ToSet(s) = ToSet(a) \cup ToSet(b) /\ ToSet(a) \cap ToSet(b) = {}
  BY CutQueue
<1> HIDE DEF a, b
<1> DEFINE t == a \o <<x>>
<1>4. <<x>> \in Seq(S) /\ ToSet(<<x>>) = {x} /\ IsInjective(<<x>>)
  BY SingletonQueue
<1>5. t \in Seq(S) /\ ToSet(t) = ToSet(a) \cup {x} /\ IsInjective(t)
  <2>1. ToSet(a) \cap {x} = {}
    BY <1>3
  <2> DEFINE e == <<x>>
  <2>2. e \in Seq(S) /\ ToSet(e) = {x} /\ IsInjective(e)
    BY <1>4
  <2> HIDE DEF e
  <2>3. a \o e \in Seq(S) /\ ToSet(a \o e) = ToSet(a) \cup ToSet(e) /\ IsInjective(a \o e)
    BY <1>3, <2>1, <2>2, JoinQueues
  <2> QED
    BY <2>2, <2>3 DEF e
<1>6. ToSet(t) \cap ToSet(b) = {}
  BY <1>3, <1>5
<1> HIDE DEF t
<1>7. t \o b \in Seq(S) /\ ToSet(t \o b) = ToSet(t) \cup ToSet(b) /\ IsInjective(t \o b)
  BY <1>3, <1>5, <1>6, JoinQueues
<1> QED
  BY <1>2, <1>3, <1>5, <1>7 DEF t

-----------------------------------------------------------------------------
(* The inductive invariant.  k and o say where every PCB is: the kind of     *)
(* place and, for a place that a CPU or a process has, its owner.            *)

Kind == {"nowhere", "active", "sleep", "reap", "reaping", "monitor", "reap_wait",
         "cpu", "obj", "woken", "list"}
Owner == CPU \cup Proc \cup {None}

\* the PCB is on exactly the queue that k names
Queued(k) ==
  \A p \in Proc :
    /\ p \in ToSet(active_queue) <=> k[p] = "active"
    /\ p \in ToSet(sleep_queue) <=> k[p] = "sleep"
    /\ p \in ToSet(reap_queue) <=> k[p] = "reap"
    /\ p \in ToSet(reaping) <=> k[p] = "reaping"
    /\ p \in ToSet(queue["monitor"]) <=> k[p] = "monitor"
    /\ p \in ToSet(queue["reap_wait"]) <=> k[p] = "reap_wait"

OnCpus(k, o) ==
  \A p \in Proc, c \in CPU :
    (current[c] = p /\ isr[c] \in {"off", "switch"}) <=> (k[p] = "cpu" /\ o[p] = c)

Discarded(k, o) == \A p \in Proc, c \in CPU : isrObj[c] = p <=> (k[p] = "obj" /\ o[p] = c)

Woken(k, o) == \A p \in Proc, c \in CPU : p \in ToSet(isrList[c]) <=> (k[p] = "woken" /\ o[p] = c)

Listed(k, o) == \A p, q \in Proc : p \in ToSet(list[q]) <=> (k[p] = "list" /\ o[p] = q)

Owned(k, o) ==
  \A p \in Proc : /\ k[p] \in {"cpu", "obj", "woken"} => o[p] \in CPU
                  /\ k[p] = "list" => o[p] \in Proc

Located(k, o) ==
  Queued(k) /\ OnCpus(k, o) /\ Discarded(k, o) /\ Woken(k, o) /\ Listed(k, o) /\ Owned(k, o)

\* no list of the kernel has a PCB twice
Unique ==
  /\ IsInjective(active_queue) /\ IsInjective(sleep_queue) /\ IsInjective(reap_queue)
  /\ IsInjective(reaping)
  /\ \A w \in Wait : IsInjective(queue[w])
  /\ \A c \in CPU : IsInjective(isrList[c])
  /\ \A p \in Proc : IsInjective(list[p])

CpuControl ==
  \A c \in CPU : /\ isr[c] = "switch" => current[c] \in Proc
                 /\ isrObj[c] # None <=> isr[c] = "discard"
                 /\ isrList[c] # <<>> => isr[c] = "awake"

Handing == {"sched_lock", "sched_append"}

ListControl ==
  \A p \in Proc :
    /\ list[p] # <<>> => pc[p] \in Handing \cup {"awake_next"}
    /\ list[p] # <<>> /\ p # Reaper => list[p] = <<Child>>
    /\ pc[p] \in Handing => list[p] # <<>> /\ cntr[Head(list[p])] # "CALLBACK"

ReaperLabels == {"reap_sleep", "reap_sleeping", "reap_test", "reap_lock", "reap_take",
                 "reap_next", "reap_zombie", "reap_awake", "awake_next"}

ReaperControl ==
  /\ \A p \in Proc : pc[p] \in ReaperLabels => p = Reaper
  /\ reaping # <<>> =>
       pc[Reaper] \in Handing \cup {"reap_next", "reap_zombie", "reap_awake", "awake_next"}
  /\ pc[Reaper] \in {"reap_zombie", "reap_awake"} => reaping # <<>> /\ Head(reaping) \in User
  /\ pc[Reaper] = "reap_awake" => cntr[Head(reaping)] = "ZOMBIE"

InWait(p) ==
  /\ callback[p].kind = "wait" /\ pc[p] = "halt"
  /\ \/ p = Parent /\ callback[p].arg = "monitor"
     \/ p = Reaper /\ callback[p].arg = "reap_wait"

InExecve(p) ==
  /\ callback[p].kind = "execve" /\ pc[p] = "exec"
  /\ callback[p].arg \in Shadow /\ pc[callback[p].arg] = "desired"

CallbackControl ==
  /\ \A p \in Proc : cntr[p] = "CALLBACK" => InWait(p) \/ InExecve(p)
  /\ \A p, q \in Proc :
       /\ cntr[p] = "CALLBACK" /\ cntr[q] = "CALLBACK" /\ p # q
       /\ callback[p].kind = "execve" /\ callback[q].kind = "execve"
       => callback[p].arg # callback[q].arg

DeadControl ==
  /\ \A p \in Proc : cntr[p] \in {"KILL", "ZOMBIE"} => pc[p] \in {"kill_release", "dead", "freed"}
  /\ \A s \in Shadow : /\ pc[s] \in {"unborn", "desired", "stale", "freed"}
                       /\ cntr[s] \notin {"KILL", "ZOMBIE"}

\* what the place of a PCB says of its state
SettledAt(p, place) ==
  /\ place = "nowhere" => cntr[p] = "ZOMBIE" \/ pc[p] \in {"unborn", "desired", "freed"}
  /\ pc[p] \in {"unborn", "desired"} => place = "nowhere"
  /\ place \in {"obj", "reap", "reaping"} =>
       (p \in Shadow /\ pc[p] = "stale") \/ (p \notin Shadow /\ cntr[p] \in {"KILL", "ZOMBIE"})
  /\ cntr[p] = "ZOMBIE" => p \in User /\ place \in {"nowhere", "reaping"}
  /\ cntr[p] = "ZOMBIE" /\ place = "reaping" => pc[Reaper] = "reap_awake" /\ Head(reaping) = p
  /\ cntr[p] = "CALLBACK" => place \notin {"active", "sleep"}
  /\ ~torn /\ pc[p] = "freed" => place = "nowhere"

Settled(k) == \A p \in Proc : SettledAt(p, k[p])

\* the parent waits, from its request to the callback that parks it
Requesting(k) == pc[Parent] = "halt" /\ cntr[Parent] = "CALLBACK" /\ k[Parent] = "cpu"

\* the reaper works on the child
AtChild == pc[Reaper] \in {"reap_zombie", "reap_awake"} /\ Head(reaping) = Child

Handshake(k) ==
  ~torn =>
    /\ pc[Parent] = "wait_check" \/ Requesting(k) => plock = Parent
    /\ AtChild => plock = Reaper
    /\ Requesting(k) => cntr[Child] # "ZOMBIE"
    /\ queue["monitor"] # <<>> =>
         cntr[Child] # "ZOMBIE" \/ (pc[Reaper] = "reap_awake" /\ Head(reaping) = Child)

Safe(k, o) ==
  /\ TypeOK /\ Unique /\ CpuControl /\ ListControl /\ ReaperControl /\ CallbackControl
  /\ DeadControl /\ Located(k, o) /\ Settled(k) /\ Handshake(k)

SchedInv == \E k \in [Proc -> Kind], o \in [Proc -> Owner] : Safe(k, o)

-----------------------------------------------------------------------------
(* The steps that move no PCB.                                               *)

(* Who is who: the facts of SchedAssumption the proofs use.                  *)
LEMMA Actors ==
  /\ Parent \in Proc /\ Child \in Proc /\ Reaper \in Proc /\ Parent # Child
  /\ Reaper # Parent /\ Reaper # Child /\ Reaper \notin Shadow
  /\ Parent \notin Shadow /\ Child \notin Shadow
  /\ Shadow \subseteq Proc /\ User \subseteq Proc /\ Thread \subseteq Proc
  /\ Shadow \cap User = {} /\ None \notin Proc
BY SchedAssumption DEF Proc, User

(* A process that executes is in the place "cpu".                            *)
LEMMA RunningIsOnCpu ==
  ASSUME NEW k, NEW o, Located(k, o), NEW p \in Proc, Runs(p)
  PROVE  k[p] = "cpu"
BY DEF Located, OnCpus, Runs

(* Unless a queue or a CPU changes, every PCB stays where it is.             *)
LEMMA NothingMoved ==
  ASSUME NEW k, NEW o, Unique, CpuControl, Located(k, o),
         UNCHANGED <<cpuVars, queueVars, list, reaping>>
  PROVE  Unique' /\ CpuControl' /\ Located(k, o)'
<1>1. UNCHANGED <<active_queue, sleep_queue, reap_queue, queue, list, reaping>>
  BY DEF queueVars
<1>2. UNCHANGED <<current, isr, isrObj, isrList>>
  BY DEF cpuVars
<1>3. Unique'
  BY <1>1, <1>2 DEF Unique
<1>4. CpuControl'
  BY <1>2 DEF CpuControl
<1>5. Queued(k)' /\ Listed(k, o)'
  BY <1>1 DEF Located, Queued, Listed
<1>6. OnCpus(k, o)' /\ Discarded(k, o)' /\ Woken(k, o)' /\ Owned(k, o)'
  BY <1>2 DEF Located, OnCpus, Discarded, Woken, Owned
<1> QED
  BY <1>3, <1>4, <1>5, <1>6 DEF Located
(* A step of a running process that changes only its own label, counter and  *)
(* callback, and perhaps locks.                                              *)
Executing == Labels \ {"unborn", "desired", "stale", "freed"}

StepsTo(p, label, c) ==
  /\ Runs(p)
  /\ pc' = [pc EXCEPT ![p] = label] /\ cntr' = [cntr EXCEPT ![p] = c]
  /\ pc[p] \in Executing \ {"reap_awake"} /\ label \in Executing
  /\ c \in SchedCntr \ {"ZOMBIE"}
  /\ c = "KILL" => label \in {"kill_release", "dead"}
  /\ c = "CALLBACK" => InWait(p)'
  /\ \A q \in Proc \ {p} : callback'[q] = callback[q]
  /\ label \in Handing <=> pc[p] \in Handing
  /\ pc[p] = "awake_next" => list[p] = <<>>
  /\ UNCHANGED <<cpuVars, queueVars, list, reaping, torn>>

Calm(k, o) ==
  Unique /\ CpuControl /\ Located(k, o) /\ ListControl /\ CallbackControl /\ DeadControl /\ Settled(k)

(* Such a step keeps the invariant but for the types, the reaper and the plock. *)
LEMMA LocalStep ==
  ASSUME NEW k \in [Proc -> Kind], NEW o \in [Proc -> Owner], Safe(k, o),
         NEW p \in Proc, NEW label, NEW c, StepsTo(p, label, c)
  PROVE  Calm(k, o)'
<1> USE Actors
<1>1. /\ pc \in [Proc -> Labels] /\ cntr \in [Proc -> SchedCntr]
      /\ list \in [Proc -> Seq(Proc)]
  BY DEF Safe, TypeOK
<1>2. /\ k[p] = "cpu"
      /\ \A q \in Proc : pc'[q] = IF q = p THEN label ELSE pc[q]
      /\ \A q \in Proc : cntr'[q] = IF q = p THEN c ELSE cntr[q]
  BY <1>1, RunningIsOnCpu DEF Safe, StepsTo
<1>3. /\ pc[p] \in Executing \ {"reap_awake"} /\ label \in Executing
      /\ c # "ZOMBIE" /\ (c = "KILL" => label \in {"kill_release", "dead"})
      /\ c = "CALLBACK" => InWait(p)'
      /\ \A q \in Proc \ {p} : callback'[q] = callback[q]
      /\ label \in Handing <=> pc[p] \in Handing
      /\ pc[p] = "awake_next" => list[p] = <<>>
      /\ UNCHANGED <<list, reaping, torn>>
  BY DEF StepsTo
<1>4. p \notin Shadow
  BY <1>3 DEF Safe, DeadControl, Executing
<1>5. Unique' /\ CpuControl' /\ Located(k, o)'
  BY NothingMoved DEF Safe, StepsTo
<1>6. ListControl'
  <2> SUFFICES ASSUME NEW q \in Proc
               PROVE  /\ list[q] # <<>> => pc'[q] \in Handing \cup {"awake_next"}
                      /\ list[q] # <<>> /\ q # Reaper => list[q] = <<Child>>
                      /\ pc'[q] \in Handing => list[q] # <<>> /\ cntr'[Head(list[q])] # "CALLBACK"
    BY <1>3 DEF ListControl
  <2>1. /\ list[q] # <<>> => pc[q] \in Handing \cup {"awake_next"}
        /\ list[q] # <<>> /\ q # Reaper => list[q] = <<Child>>
        /\ pc[q] \in Handing => list[q] # <<>> /\ cntr[Head(list[q])] # "CALLBACK"
    BY DEF Safe, ListControl
  <2>2. list[q] # <<>> => pc'[q] \in Handing \cup {"awake_next"}
    BY <1>2, <1>3, <2>1
  <2>3. list[q] # <<>> => Head(list[q]) \in Proc /\ Head(list[q]) # p
    <3> SUFFICES ASSUME list[q] # <<>> PROVE Head(list[q]) \in Proc /\ Head(list[q]) # p
      OBVIOUS
    <3>1. Head(list[q]) \in Proc /\ Head(list[q]) \in ToSet(list[q])
      BY <1>1, PopQueue DEF Safe, Unique
    <3> QED
      BY <1>2, <3>1 DEF Safe, Located, Listed
  <2>4. pc'[q] \in Handing => list[q] # <<>> /\ cntr'[Head(list[q])] # "CALLBACK"
    BY <1>2, <1>3, <2>1, <2>3
  <2> QED
    BY <2>1, <2>2, <2>4
<1>7. CallbackControl'
  <2>1. \A q \in Proc : InWait(q) /\ q # p => InWait(q)'
    BY <1>2, <1>3 DEF InWait
  <2>2. \A q \in Proc : InExecve(q) /\ q # p => InExecve(q)'
    BY <1>2, <1>3 DEF InExecve, Executing
  <2>3. ASSUME NEW q \in Proc, cntr'[q] = "CALLBACK" PROVE InWait(q)' \/ InExecve(q)'
    <3>1. CASE q = p
      BY <1>2, <1>3, <2>3, <3>1
    <3>2. CASE q # p
      <4>1. InWait(q) \/ InExecve(q)
        BY <1>2, <2>3, <3>2 DEF Safe, CallbackControl
      <4> QED
        BY <2>1, <2>2, <3>2, <4>1
    <3> QED
      BY <3>1, <3>2
  <2>4. ASSUME NEW q \in Proc, NEW r \in Proc, cntr'[q] = "CALLBACK", cntr'[r] = "CALLBACK", q # r,
               callback'[q].kind = "execve", callback'[r].kind = "execve"
        PROVE  callback'[q].arg # callback'[r].arg
    <3>1. q # p /\ r # p
      BY <1>2, <1>3, <2>4 DEF InWait
    <3>2. cntr[q] = "CALLBACK" /\ cntr[r] = "CALLBACK" /\ callback'[q] = callback[q] /\ callback'[r] = callback[r]
      BY <1>2, <1>3, <2>4, <3>1
    <3> QED
      BY <2>4, <3>2 DEF Safe, CallbackControl
  <2> QED
    BY <2>3, <2>4 DEF CallbackControl
<1>8. DeadControl'
  BY <1>2, <1>3, <1>4 DEF Safe, DeadControl
<1>9. Settled(k)'
  <2> SUFFICES ASSUME NEW q \in Proc PROVE SettledAt(q, k[q])'
    BY DEF Settled
  <2>1. CASE q = p
    BY <1>2, <1>3, <2>1 DEF SettledAt, Executing
  <2>2. CASE q # p
    BY <1>2, <1>3, <2>2 DEF Safe, Settled, SettledAt
  <2> QED
    BY <2>1, <2>2
<1> QED
  BY <1>5, <1>6, <1>7, <1>8, <1>9 DEF Calm

CallbackType == [kind : {"none", "wait", "execve"}, arg : Wait \cup Proc \cup {None}]

(* ... and the types, if what else it writes has its type.                   *)
LEMMA LocalType ==
  ASSUME TypeOK, NEW p \in Proc, NEW label, NEW c, StepsTo(p, label, c),
         callback' \in [Proc -> CallbackType], left' \in [Proc -> -MaxLag..MaxSleep],
         lock_sched' \in Proc \cup {None}, lock_proc' \in Proc \cup {None},
         lock_reap' \in Proc \cup {None}, plock' \in Proc \cup {None}
  PROVE  TypeOK'
<1>1. pc' \in [Proc -> Labels] /\ cntr' \in [Proc -> SchedCntr]
  BY DEF TypeOK, StepsTo, Executing
<1>2. UNCHANGED <<current, isr, isrObj, isrList, active_queue, sleep_queue, reap_queue, queue,
                  list, reaping, torn>>
  BY DEF StepsTo, cpuVars, queueVars
<1> QED
  BY <1>1, <1>2 DEF TypeOK, CallbackType


(* scheduler_schedule takes lock_sched.                                      *)
LEMMA ScheduleLockSafe ==
  ASSUME NEW k \in [Proc -> Kind], NEW o \in [Proc -> Owner], Safe(k, o),
         NEW p \in Proc, ScheduleLock(p)
  PROVE  Safe(k, o)'
<1> USE Actors DEF ScheduleLock, At, Goto
<1>1. k[p] = "cpu" /\ cntr[p] # "ZOMBIE"
  BY RunningIsOnCpu DEF Safe, Settled, SettledAt
<1>2. pc \in [Proc -> Labels] /\ cntr \in [Proc -> SchedCntr]
  BY DEF Safe, TypeOK
<1> DEFINE label == "sched_append"
           c == cntr[p]
<1>3. StepsTo(p, label, c)
  BY <1>1, <1>2 DEF Safe, StepsTo, Executing, Labels, SchedCntr, lockVars, Handing, InWait,
                     DeadControl, CallbackControl, InExecve
<1>4. Calm(k, o)'
  BY <1>3, LocalStep
<1>5. TypeOK'
  <2>1. callback' \in [Proc -> CallbackType]
    BY DEF Safe, TypeOK, CallbackType
  <2>2. left' \in [Proc -> -MaxLag..MaxSleep]
    BY SchedAssumption DEF Safe, TypeOK
  <2>3. /\ lock_sched' \in Proc \cup {None} /\ lock_proc' \in Proc \cup {None}
        /\ lock_reap' \in Proc \cup {None} /\ plock' \in Proc \cup {None}
    BY DEF Safe, TypeOK, lockVars
  <2>4. TypeOK
    BY DEF Safe
  <2> QED
    BY <1>3, <2>1, <2>2, <2>3, <2>4, LocalType
<1>6. ReaperControl'
  BY <1>1, <1>2 DEF Safe, ReaperControl, ReaperLabels, Handing, Settled, SettledAt
<1>7. Handshake(k)'
  BY <1>1, <1>2 DEF Safe, Handshake, Requesting, AtChild, lockVars, queueVars
<1> QED
  BY <1>4, <1>5, <1>6, <1>7 DEF Safe, Calm

(* process_sleep requests the sleep.                                         *)
LEMMA SleepSafe ==
  ASSUME NEW k \in [Proc -> Kind], NEW o \in [Proc -> Owner], Safe(k, o),
         NEW p \in Proc, NEW d \in 1 .. MaxSleep, Sleep(p, d)
  PROVE  Safe(k, o)'
<1> USE Actors DEF Sleep, At, Goto
<1>1. k[p] = "cpu" /\ cntr[p] # "ZOMBIE"
  BY RunningIsOnCpu DEF Safe, Settled, SettledAt
<1>2. pc \in [Proc -> Labels] /\ cntr \in [Proc -> SchedCntr]
  BY DEF Safe, TypeOK
<1> DEFINE label == IF p = Reaper THEN "reap_sleeping" ELSE "sleeping"
           c == "SLEEP"
<1>3. StepsTo(p, label, c)
  BY SchedAssumption, <1>1, <1>2 DEF StepsTo, Executing, Labels, SchedCntr, Handing, lockVars
<1>4. Calm(k, o)'
  BY <1>3, LocalStep
<1>5. TypeOK'
  <2>1. callback' \in [Proc -> CallbackType]
    BY DEF Safe, TypeOK, CallbackType
  <2>2. left' \in [Proc -> -MaxLag..MaxSleep]
    BY SchedAssumption DEF Safe, TypeOK
  <2>3. /\ lock_sched' \in Proc \cup {None} /\ lock_proc' \in Proc \cup {None}
        /\ lock_reap' \in Proc \cup {None} /\ plock' \in Proc \cup {None}
    BY DEF Safe, TypeOK, lockVars
  <2>4. TypeOK
    BY DEF Safe
  <2> QED
    BY <1>3, <2>1, <2>2, <2>3, <2>4, LocalType
<1>6. ReaperControl'
  BY <1>1, <1>2 DEF Safe, ReaperControl, ReaperLabels, Handing, Settled, SettledAt
<1>7. Handshake(k)'
  BY <1>1, <1>2 DEF Safe, Handshake, Requesting, AtChild, lockVars, queueVars
<1> QED
  BY <1>4, <1>5, <1>6, <1>7 DEF Safe, Calm

(* The loop of process_sleep ends.                                           *)
LEMMA SleepDoneSafe ==
  ASSUME NEW k \in [Proc -> Kind], NEW o \in [Proc -> Owner], Safe(k, o),
         NEW p \in Proc, SleepDone(p)
  PROVE  Safe(k, o)'
<1> USE Actors DEF SleepDone, At, Goto
<1>1. k[p] = "cpu" /\ cntr[p] # "ZOMBIE"
  BY RunningIsOnCpu DEF Safe, Settled, SettledAt
<1>2. pc \in [Proc -> Labels] /\ cntr \in [Proc -> SchedCntr]
  BY DEF Safe, TypeOK
<1> DEFINE label == IF pc[p] = "sleeping" THEN "run" ELSE "reap_test"
           c == cntr[p]
<1>3. StepsTo(p, label, c)
  BY <1>1, <1>2 DEF Safe, StepsTo, Executing, Labels, SchedCntr, lockVars, Handing, InWait,
                     DeadControl, CallbackControl, InExecve
<1>4. Calm(k, o)'
  BY <1>3, LocalStep
<1>5. TypeOK'
  <2>1. callback' \in [Proc -> CallbackType]
    BY DEF Safe, TypeOK, CallbackType
  <2>2. left' \in [Proc -> -MaxLag..MaxSleep]
    BY SchedAssumption DEF Safe, TypeOK
  <2>3. /\ lock_sched' \in Proc \cup {None} /\ lock_proc' \in Proc \cup {None}
        /\ lock_reap' \in Proc \cup {None} /\ plock' \in Proc \cup {None}
    BY DEF Safe, TypeOK, lockVars
  <2>4. TypeOK
    BY DEF Safe
  <2> QED
    BY <1>3, <2>1, <2>2, <2>3, <2>4, LocalType
<1>6. ReaperControl'
  BY <1>1, <1>2 DEF Safe, ReaperControl, ReaperLabels, Handing, Settled, SettledAt
<1>7. Handshake(k)'
  BY <1>1, <1>2 DEF Safe, Handshake, Requesting, AtChild, lockVars, queueVars
<1> QED
  BY <1>4, <1>5, <1>6, <1>7 DEF Safe, Calm

(* process_reap_child takes the plock: the reaper does not have it.          *)
LEMMA ReapChildLockSafe ==
  ASSUME NEW k \in [Proc -> Kind], NEW o \in [Proc -> Owner], Safe(k, o),
         ReapChildLock
  PROVE  Safe(k, o)'
<1> USE Actors DEF ReapChildLock, At, Goto
<1>1. k[Parent] = "cpu" /\ cntr[Parent] # "ZOMBIE"
  BY RunningIsOnCpu DEF Safe, Settled, SettledAt
<1>2. pc \in [Proc -> Labels] /\ cntr \in [Proc -> SchedCntr]
  BY DEF Safe, TypeOK
<1> DEFINE label == "wait_check"
           c == cntr[Parent]
<1>3. StepsTo(Parent, label, c)
  BY <1>1, <1>2 DEF Safe, StepsTo, Executing, Labels, SchedCntr, lockVars, Handing, InWait,
                     DeadControl, CallbackControl, InExecve
<1>4. Calm(k, o)'
  BY <1>3, LocalStep
<1>5. TypeOK'
  <2>1. callback' \in [Proc -> CallbackType]
    BY DEF Safe, TypeOK, CallbackType
  <2>2. left' \in [Proc -> -MaxLag..MaxSleep]
    BY SchedAssumption DEF Safe, TypeOK
  <2>3. /\ lock_sched' \in Proc \cup {None} /\ lock_proc' \in Proc \cup {None}
        /\ lock_reap' \in Proc \cup {None} /\ plock' \in Proc \cup {None}
    BY DEF Safe, TypeOK, lockVars
  <2>4. TypeOK
    BY DEF Safe
  <2> QED
    BY <1>3, <2>1, <2>2, <2>3, <2>4, LocalType
<1>6. ReaperControl'
  BY <1>1, <1>2 DEF Safe, ReaperControl, ReaperLabels, Handing, Settled, SettledAt
<1>7. Handshake(k)'
  BY <1>1, <1>2 DEF Safe, Handshake, Requesting, AtChild, lockVars, queueVars
<1> QED
  BY <1>4, <1>5, <1>6, <1>7 DEF Safe, Calm

(* The hlt loop of signal_wait_locked ends.                                  *)
LEMMA WaitDoneSafe ==
  ASSUME NEW k \in [Proc -> Kind], NEW o \in [Proc -> Owner], Safe(k, o),
         NEW p \in Proc, WaitDone(p)
  PROVE  Safe(k, o)'
<1> USE Actors DEF WaitDone, At, Goto
<1>1. k[p] = "cpu" /\ cntr[p] # "ZOMBIE"
  BY RunningIsOnCpu DEF Safe, Settled, SettledAt
<1>2. pc \in [Proc -> Labels] /\ cntr \in [Proc -> SchedCntr]
  BY DEF Safe, TypeOK
<1> DEFINE label == IF p = Reaper THEN "reap_test" ELSE "wait_lock"
           c == "READY"
<1>3. StepsTo(p, label, c)
  BY <1>1, <1>2 DEF Safe, StepsTo, Executing, Labels, SchedCntr, lockVars, Handing, InWait,
                     DeadControl, CallbackControl, InExecve
<1>4. Calm(k, o)'
  BY <1>3, LocalStep
<1>5. TypeOK'
  <2>1. callback' \in [Proc -> CallbackType]
    BY DEF Safe, TypeOK, CallbackType
  <2>2. left' \in [Proc -> -MaxLag..MaxSleep]
    BY SchedAssumption DEF Safe, TypeOK
  <2>3. /\ lock_sched' \in Proc \cup {None} /\ lock_proc' \in Proc \cup {None}
        /\ lock_reap' \in Proc \cup {None} /\ plock' \in Proc \cup {None}
    BY DEF Safe, TypeOK, lockVars
  <2>4. TypeOK
    BY DEF Safe
  <2> QED
    BY <1>3, <2>1, <2>2, <2>3, <2>4, LocalType
<1>6. ReaperControl'
  BY <1>1, <1>2 DEF Safe, ReaperControl, ReaperLabels, Handing, Settled, SettledAt
<1>7. Handshake(k)'
  BY <1>1, <1>2 DEF Safe, Handshake, Requesting, AtChild, lockVars, queueVars
<1> QED
  BY <1>4, <1>5, <1>6, <1>7 DEF Safe, Calm

(* process_kill_current takes lock_proc.                                     *)
LEMMA KillLockSafe ==
  ASSUME NEW k \in [Proc -> Kind], NEW o \in [Proc -> Owner], Safe(k, o),
         NEW p \in Proc, KillLock(p)
  PROVE  Safe(k, o)'
<1> USE Actors DEF KillLock, At, Goto
<1>1. k[p] = "cpu" /\ cntr[p] # "ZOMBIE"
  BY RunningIsOnCpu DEF Safe, Settled, SettledAt
<1>2. pc \in [Proc -> Labels] /\ cntr \in [Proc -> SchedCntr]
  BY DEF Safe, TypeOK
<1> DEFINE label == "kill_set"
           c == cntr[p]
<1>3. StepsTo(p, label, c)
  BY <1>1, <1>2 DEF Safe, StepsTo, Executing, Labels, SchedCntr, lockVars, Handing, InWait,
                     DeadControl, CallbackControl, InExecve
<1>4. Calm(k, o)'
  BY <1>3, LocalStep
<1>5. TypeOK'
  <2>1. callback' \in [Proc -> CallbackType]
    BY DEF Safe, TypeOK, CallbackType
  <2>2. left' \in [Proc -> -MaxLag..MaxSleep]
    BY SchedAssumption DEF Safe, TypeOK
  <2>3. /\ lock_sched' \in Proc \cup {None} /\ lock_proc' \in Proc \cup {None}
        /\ lock_reap' \in Proc \cup {None} /\ plock' \in Proc \cup {None}
    BY DEF Safe, TypeOK, lockVars
  <2>4. TypeOK
    BY DEF Safe
  <2> QED
    BY <1>3, <2>1, <2>2, <2>3, <2>4, LocalType
<1>6. ReaperControl'
  BY <1>1, <1>2 DEF Safe, ReaperControl, ReaperLabels, Handing, Settled, SettledAt
<1>7. Handshake(k)'
  BY <1>1, <1>2 DEF Safe, Handshake, Requesting, AtChild, lockVars, queueVars
<1> QED
  BY <1>4, <1>5, <1>6, <1>7 DEF Safe, Calm

(* process_kill_current marks the process SCHED_KILL.                        *)
LEMMA KillSetSafe ==
  ASSUME NEW k \in [Proc -> Kind], NEW o \in [Proc -> Owner], Safe(k, o),
         NEW p \in Proc, KillSet(p)
  PROVE  Safe(k, o)'
<1> USE Actors DEF KillSet, At, Goto
<1>1. k[p] = "cpu" /\ cntr[p] # "ZOMBIE"
  BY RunningIsOnCpu DEF Safe, Settled, SettledAt
<1>2. pc \in [Proc -> Labels] /\ cntr \in [Proc -> SchedCntr]
  BY DEF Safe, TypeOK
<1> DEFINE label == "kill_release"
           c == "KILL"
<1>3. StepsTo(p, label, c)
  BY <1>1, <1>2 DEF Safe, StepsTo, Executing, Labels, SchedCntr, lockVars, Handing, InWait,
                     DeadControl, CallbackControl, InExecve
<1>4. Calm(k, o)'
  BY <1>3, LocalStep
<1>5. TypeOK'
  <2>1. callback' \in [Proc -> CallbackType]
    BY DEF Safe, TypeOK, CallbackType
  <2>2. left' \in [Proc -> -MaxLag..MaxSleep]
    BY SchedAssumption DEF Safe, TypeOK
  <2>3. /\ lock_sched' \in Proc \cup {None} /\ lock_proc' \in Proc \cup {None}
        /\ lock_reap' \in Proc \cup {None} /\ plock' \in Proc \cup {None}
    BY DEF Safe, TypeOK, lockVars
  <2>4. TypeOK
    BY DEF Safe
  <2> QED
    BY <1>3, <2>1, <2>2, <2>3, <2>4, LocalType
<1>6. ReaperControl'
  BY <1>1, <1>2 DEF Safe, ReaperControl, ReaperLabels, Handing, Settled, SettledAt
<1>7. Handshake(k)'
  BY <1>1, <1>2 DEF Safe, Handshake, Requesting, AtChild, lockVars, queueVars
<1> QED
  BY <1>4, <1>5, <1>6, <1>7 DEF Safe, Calm

(* process_kill_current releases lock_proc.                                  *)
LEMMA KillReleaseSafe ==
  ASSUME NEW k \in [Proc -> Kind], NEW o \in [Proc -> Owner], Safe(k, o),
         NEW p \in Proc, KillRelease(p)
  PROVE  Safe(k, o)'
<1> USE Actors DEF KillRelease, At, Goto
<1>1. k[p] = "cpu" /\ cntr[p] # "ZOMBIE"
  BY RunningIsOnCpu DEF Safe, Settled, SettledAt
<1>2. pc \in [Proc -> Labels] /\ cntr \in [Proc -> SchedCntr]
  BY DEF Safe, TypeOK
<1> DEFINE label == "dead"
           c == cntr[p]
<1>3. StepsTo(p, label, c)
  BY <1>1, <1>2 DEF Safe, StepsTo, Executing, Labels, SchedCntr, lockVars, Handing, InWait,
                     DeadControl, CallbackControl, InExecve
<1>4. Calm(k, o)'
  BY <1>3, LocalStep
<1>5. TypeOK'
  <2>1. callback' \in [Proc -> CallbackType]
    BY DEF Safe, TypeOK, CallbackType
  <2>2. left' \in [Proc -> -MaxLag..MaxSleep]
    BY SchedAssumption DEF Safe, TypeOK
  <2>3. /\ lock_sched' \in Proc \cup {None} /\ lock_proc' \in Proc \cup {None}
        /\ lock_reap' \in Proc \cup {None} /\ plock' \in Proc \cup {None}
    BY DEF Safe, TypeOK, lockVars
  <2>4. TypeOK
    BY DEF Safe
  <2> QED
    BY <1>3, <2>1, <2>2, <2>3, <2>4, LocalType
<1>6. ReaperControl'
  BY <1>1, <1>2 DEF Safe, ReaperControl, ReaperLabels, Handing, Settled, SettledAt
<1>7. Handshake(k)'
  BY <1>1, <1>2 DEF Safe, Handshake, Requesting, AtChild, lockVars, queueVars
<1> QED
  BY <1>4, <1>5, <1>6, <1>7 DEF Safe, Calm

(* process_reap looks at reap_queue and waits if it is empty.                *)
LEMMA ReapTestSafe ==
  ASSUME NEW k \in [Proc -> Kind], NEW o \in [Proc -> Owner], Safe(k, o),
         ReapTest
  PROVE  Safe(k, o)'
<1> USE Actors DEF ReapTest, At, Goto, SetWait
<1>1. k[Reaper] = "cpu" /\ cntr[Reaper] # "ZOMBIE"
  BY RunningIsOnCpu DEF Safe, Settled, SettledAt
<1>2. pc \in [Proc -> Labels] /\ cntr \in [Proc -> SchedCntr]
  BY DEF Safe, TypeOK
<1> DEFINE label == IF reap_queue = <<>> THEN "halt" ELSE "reap_lock"
           c == IF reap_queue = <<>> THEN "CALLBACK" ELSE cntr[Reaper]
<1>3. StepsTo(Reaper, label, c)
  <2>1. CASE reap_queue = <<>>
    <3>1. InWait(Reaper)' /\ \A q \in Proc \ {Reaper} : callback'[q] = callback[q]
      BY <1>2, <2>1 DEF Safe, TypeOK, InWait
    <3>2. label = "halt" /\ c = "CALLBACK"
      BY <2>1
    <3>3. /\ pc' = [pc EXCEPT ![Reaper] = "halt"] /\ cntr' = [cntr EXCEPT ![Reaper] = "CALLBACK"]
          /\ pc[Reaper] = "reap_test" /\ Runs(Reaper)
          /\ UNCHANGED <<cpuVars, queueVars, list, reaping, torn>>
      BY <2>1 DEF lockVars
    <3> QED
      BY <3>1, <3>2, <3>3 DEF StepsTo, Executing, Labels, SchedCntr, Handing
  <2>2. CASE reap_queue # <<>>
    BY <1>1, <1>2, <2>2 DEF Safe, StepsTo, Executing, Labels, SchedCntr, lockVars, Handing,
                            InWait, DeadControl, CallbackControl, InExecve
  <2> QED
    BY <2>1, <2>2
<1>4. Calm(k, o)'
  BY <1>3, LocalStep
<1>5. TypeOK'
  <2>1. callback' \in [Proc -> CallbackType]
    <3>1. callback \in [Proc -> CallbackType]
      BY DEF Safe, TypeOK, CallbackType
    <3>2. [kind |-> "wait", arg |-> "reap_wait"] \in CallbackType
      BY DEF CallbackType, Wait
    <3> DEFINE w == [kind |-> "wait", arg |-> "reap_wait"]
    <3>3. callback' = [callback EXCEPT ![Reaper] = w] \/ callback' = callback
      OBVIOUS
    <3> HIDE DEF w
    <3> QED
      BY <3>1, <3>2, <3>3 DEF w
  <2>2. left' \in [Proc -> -MaxLag..MaxSleep]
    BY SchedAssumption DEF Safe, TypeOK
  <2>3. /\ lock_sched' \in Proc \cup {None} /\ lock_proc' \in Proc \cup {None}
        /\ lock_reap' \in Proc \cup {None} /\ plock' \in Proc \cup {None}
    BY DEF Safe, TypeOK, lockVars
  <2>4. TypeOK
    BY DEF Safe
  <2> QED
    BY <1>3, <2>1, <2>2, <2>3, <2>4, LocalType
<1>6. ReaperControl'
  BY <1>1, <1>2 DEF Safe, ReaperControl, ReaperLabels, Handing, Settled, SettledAt
<1>7. Handshake(k)'
  BY <1>1, <1>2 DEF Safe, Handshake, Requesting, AtChild, lockVars, queueVars
<1> QED
  BY <1>4, <1>5, <1>6, <1>7 DEF Safe, Calm

(* process_reap takes lock_reap.                                             *)
LEMMA ReapLockSafe ==
  ASSUME NEW k \in [Proc -> Kind], NEW o \in [Proc -> Owner], Safe(k, o),
         ReapLock
  PROVE  Safe(k, o)'
<1> USE Actors DEF ReapLock, At, Goto
<1>1. k[Reaper] = "cpu" /\ cntr[Reaper] # "ZOMBIE"
  BY RunningIsOnCpu DEF Safe, Settled, SettledAt
<1>2. pc \in [Proc -> Labels] /\ cntr \in [Proc -> SchedCntr]
  BY DEF Safe, TypeOK
<1> DEFINE label == "reap_take"
           c == cntr[Reaper]
<1>3. StepsTo(Reaper, label, c)
  BY <1>1, <1>2 DEF Safe, StepsTo, Executing, Labels, SchedCntr, lockVars, Handing, InWait,
                     DeadControl, CallbackControl, InExecve
<1>4. Calm(k, o)'
  BY <1>3, LocalStep
<1>5. TypeOK'
  <2>1. callback' \in [Proc -> CallbackType]
    BY DEF Safe, TypeOK, CallbackType
  <2>2. left' \in [Proc -> -MaxLag..MaxSleep]
    BY SchedAssumption DEF Safe, TypeOK
  <2>3. /\ lock_sched' \in Proc \cup {None} /\ lock_proc' \in Proc \cup {None}
        /\ lock_reap' \in Proc \cup {None} /\ plock' \in Proc \cup {None}
    BY DEF Safe, TypeOK, lockVars
  <2>4. TypeOK
    BY DEF Safe
  <2> QED
    BY <1>3, <2>1, <2>2, <2>3, <2>4, LocalType
<1>6. ReaperControl'
  BY <1>1, <1>2 DEF Safe, ReaperControl, ReaperLabels, Handing, Settled, SettledAt
<1>7. Handshake(k)'
  BY <1>1, <1>2 DEF Safe, Handshake, Requesting, AtChild, lockVars, queueVars
<1> QED
  BY <1>4, <1>5, <1>6, <1>7 DEF Safe, Calm

(* process_reap_child requests the wait, still holding the plock.            *)
LEMMA ReapChildWaits ==
  ASSUME NEW k \in [Proc -> Kind], NEW o \in [Proc -> Owner], Safe(k, o),
         ReapChildCheck, cntr[Child] # "ZOMBIE"
  PROVE  Safe(k, o)'
<1> USE Actors
<1>1. /\ pc[Parent] = "wait_check" /\ Runs(Parent)
      /\ pc' = [pc EXCEPT ![Parent] = "halt"] /\ cntr' = [cntr EXCEPT ![Parent] = "CALLBACK"]
      /\ callback' = [callback EXCEPT ![Parent] = [kind |-> "wait", arg |-> "monitor"]]
      /\ UNCHANGED <<cpuVars, left, queueVars, list, reaping, lockVars>>
  BY DEF ReapChildCheck, SetWait, At, Goto, lockVars
<1>2. k[Parent] = "cpu" /\ cntr[Parent] # "ZOMBIE"
  BY <1>1, RunningIsOnCpu DEF Safe, Settled, SettledAt
<1>3. pc \in [Proc -> Labels] /\ cntr \in [Proc -> SchedCntr] /\ callback \in [Proc -> CallbackType]
  BY DEF Safe, TypeOK, CallbackType
<1> DEFINE w == [kind |-> "wait", arg |-> "monitor"]
<1>4. w \in CallbackType /\ w.kind = "wait" /\ w.arg = "monitor"
  BY DEF CallbackType, Wait
<1>5. callback' = [callback EXCEPT ![Parent] = w]
  BY <1>1
<1> HIDE DEF w
<1>6. callback' \in [Proc -> CallbackType] /\ callback'[Parent] = w
      /\ \A q \in Proc \ {Parent} : callback'[q] = callback[q]
  BY <1>3, <1>4, <1>5
<1>7. StepsTo(Parent, "halt", "CALLBACK")
  <2>1. InWait(Parent)'
    BY <1>1, <1>3, <1>4, <1>6 DEF InWait
  <2>2. UNCHANGED torn
    BY <1>1 DEF lockVars
  <2> QED
    BY <1>1, <1>6, <2>1, <2>2 DEF StepsTo, Executing, Labels, SchedCntr, Handing
<1>8. Calm(k, o)'
  BY <1>7, LocalStep
<1>9. TypeOK'
  <2>1. /\ TypeOK /\ left' \in [Proc -> -MaxLag..MaxSleep]
        /\ lock_sched' \in Proc \cup {None} /\ lock_proc' \in Proc \cup {None}
        /\ lock_reap' \in Proc \cup {None} /\ plock' \in Proc \cup {None}
    BY <1>1 DEF Safe, TypeOK, lockVars
  <2> QED
    BY <1>6, <1>7, <2>1, LocalType
<1>10. ReaperControl'
  BY <1>1, <1>2, <1>3 DEF Safe, ReaperControl, ReaperLabels, Handing
<1>11. Handshake(k)'
  BY <1>1, <1>3 DEF Safe, Handshake, Requesting, AtChild, lockVars, queueVars
<1> QED
  BY <1>8, <1>9, <1>10, <1>11 DEF Safe, Calm

(* The callbacks of the processes that a step leaves alone.                  *)
LEMMA CallbackFrame ==
  ASSUME CallbackControl,
         \A q \in Proc : cntr'[q] = "CALLBACK" =>
            /\ cntr[q] = "CALLBACK" /\ pc'[q] = pc[q] /\ callback'[q] = callback[q]
            /\ InExecve(q) => pc'[callback[q].arg] = "desired"
  PROVE  CallbackControl'
<1>1. ASSUME NEW q \in Proc, cntr'[q] = "CALLBACK" PROVE InWait(q)' \/ InExecve(q)'
  <2>1. InWait(q) \/ InExecve(q)
    BY <1>1 DEF CallbackControl
  <2>2. pc'[q] = pc[q] /\ callback'[q] = callback[q]
    BY <1>1
  <2>3. CASE InWait(q)
    BY <2>2, <2>3 DEF InWait
  <2>4. CASE InExecve(q)
    <3>1. pc'[callback[q].arg] = "desired"
      BY <1>1, <2>4
    <3> QED
      BY <2>2, <2>4, <3>1 DEF InExecve
  <2> QED
    BY <2>1, <2>3, <2>4
<1>2. ASSUME NEW q \in Proc, NEW r \in Proc, cntr'[q] = "CALLBACK", cntr'[r] = "CALLBACK", q # r,
             callback'[q].kind = "execve", callback'[r].kind = "execve"
      PROVE  callback'[q].arg # callback'[r].arg
  <2>1. cntr[q] = "CALLBACK" /\ cntr[r] = "CALLBACK" /\ callback'[q] = callback[q] /\ callback'[r] = callback[r]
    BY <1>2
  <2> QED
    BY <1>2, <2>1 DEF CallbackControl
<1> QED
  BY <1>1, <1>2 DEF CallbackControl

(* process_reap_child frees the zombie: the reaper let go of it, because the *)
(* two hold the child's plock in turn.                                       *)
LEMMA ReapChildFrees ==
  ASSUME NEW k \in [Proc -> Kind], NEW o \in [Proc -> Owner], Safe(k, o),
         ReapChildCheck, cntr[Child] = "ZOMBIE"
  PROVE  Safe(k, o)'
<1> USE Actors
<1>1. /\ pc[Parent] = "wait_check" /\ Runs(Parent)
      /\ pc' = [pc EXCEPT ![Parent] = "run", ![Child] = "freed"] /\ plock' = None
      /\ UNCHANGED <<cpuVars, cntr, callback, left, queueVars, list, reaping, lock_sched, lock_proc,
                     lock_reap, torn>>
  BY DEF ReapChildCheck, At
<1>2. k[Parent] = "cpu" /\ cntr[Parent] # "ZOMBIE"
  BY <1>1, RunningIsOnCpu DEF Safe, Settled, SettledAt
<1>3. pc \in [Proc -> Labels] /\ cntr \in [Proc -> SchedCntr]
  BY DEF Safe, TypeOK
<1>4. /\ pc'[Parent] = "run" /\ pc'[Child] = "freed"
      /\ \A q \in Proc \ {Parent, Child} : pc'[q] = pc[q]
  BY <1>1, <1>3
<1>5. pc[Child] \in {"kill_release", "dead", "freed"} /\ k[Child] \in {"nowhere", "reaping"}
  BY DEF Safe, DeadControl, Settled, SettledAt
<1>6. ~torn => ~AtChild /\ k[Child] = "nowhere"
  <2>1. ~torn => plock = Parent /\ (AtChild => plock = Reaper)
    BY <1>1 DEF Safe, Handshake
  <2>2. k[Child] = "reaping" => AtChild
    BY DEF Safe, Settled, SettledAt, AtChild
  <2> QED
    BY <1>5, <2>1, <2>2
<1>7. Unique' /\ CpuControl' /\ Located(k, o)'
  BY <1>1, NothingMoved DEF Safe
<1>8. TypeOK'
  <2>1. pc' \in [Proc -> Labels]
    BY <1>1, <1>3 DEF Labels
  <2>2. UNCHANGED <<current, isr, isrObj, isrList, active_queue, sleep_queue, reap_queue, queue>>
    BY <1>1 DEF cpuVars, queueVars
  <2> QED
    BY <1>1, <2>1, <2>2 DEF Safe, TypeOK
<1>9. ListControl'
  BY <1>1, <1>4, <1>5 DEF Safe, ListControl, Handing
<1>10. ReaperControl'
  BY <1>1, <1>4 DEF Safe, ReaperControl, ReaperLabels, Handing
<1>11. CallbackControl'
  <2>1. \A q \in Proc : cntr'[q] = "CALLBACK" => q \notin {Parent, Child}
    BY <1>1, <1>5 DEF Safe, CallbackControl, InWait, InExecve
  <2>2. \A q \in Proc : InExecve(q) => pc'[callback[q].arg] = "desired"
    BY <1>1, <1>4, <1>5 DEF InExecve
  <2>3. CallbackControl
    BY DEF Safe
  <2> QED
    BY <1>1, <1>4, <2>1, <2>2, <2>3, CallbackFrame
<1>12. DeadControl'
  BY <1>1, <1>2, <1>4 DEF Safe, DeadControl
<1>13. Settled(k)'
  <2>1. torn' = torn /\ reaping' = reaping /\ cntr' = cntr /\ pc'[Reaper] = pc[Reaper]
    BY <1>1, <1>4
  <2> QED
    BY <1>2, <1>4, <1>5, <1>6, <2>1 DEF Safe, Settled, SettledAt
<1>14. Handshake(k)'
  <2>1. torn' = torn /\ reaping' = reaping /\ cntr' = cntr /\ pc'[Reaper] = pc[Reaper] /\ queue' = queue
    BY <1>1, <1>4 DEF queueVars
  <2> QED
    BY <1>4, <1>6, <2>1 DEF Safe, Handshake, Requesting, AtChild
<1> QED
  BY <1>7, <1>8, <1>9, <1>10, <1>11, <1>12, <1>13, <1>14 DEF Safe

(* process_execve builds the new image and requests the swap.                *)
LEMMA ExecveSafe ==
  ASSUME NEW k \in [Proc -> Kind], NEW o \in [Proc -> Owner], Safe(k, o),
         NEW p \in Proc, NEW s \in Shadow, Execve(p, s)
  PROVE  Safe(k, o)'
<1> USE Actors
<1> DEFINE w == [kind |-> "execve", arg |-> s]
<1>1. /\ pc[p] = "run" /\ Runs(p) /\ pc[s] = "unborn" /\ p \in User
      /\ pc' = [pc EXCEPT ![p] = "exec", ![s] = "desired"] /\ cntr' = [cntr EXCEPT ![p] = "CALLBACK"]
      /\ callback' = [callback EXCEPT ![p] = w]
      /\ UNCHANGED <<cpuVars, left, queueVars, list, reaping, lockVars>>
  BY DEF Execve, At
<1>2. w \in CallbackType /\ w.kind = "execve" /\ w.arg = s
  BY DEF CallbackType
<1> HIDE DEF w
<1>3. k[p] = "cpu" /\ cntr[p] \notin {"ZOMBIE", "CALLBACK"} /\ s # p /\ p \notin Shadow
  BY <1>1, RunningIsOnCpu DEF Safe, Settled, SettledAt, CallbackControl, InWait, InExecve
<1>4. pc \in [Proc -> Labels] /\ cntr \in [Proc -> SchedCntr] /\ callback \in [Proc -> CallbackType]
  BY DEF Safe, TypeOK, CallbackType
<1>5. /\ pc'[p] = "exec" /\ pc'[s] = "desired" /\ \A q \in Proc \ {p, s} : pc'[q] = pc[q]
      /\ cntr'[p] = "CALLBACK" /\ \A q \in Proc \ {p} : cntr'[q] = cntr[q]
  BY <1>1, <1>3, <1>4
<1>6. /\ callback' \in [Proc -> CallbackType] /\ callback'[p] = w
      /\ \A q \in Proc \ {p} : callback'[q] = callback[q]
  BY <1>1, <1>2, <1>4
<1>7. Unique' /\ CpuControl' /\ Located(k, o)'
  BY <1>1, NothingMoved DEF Safe
<1>8. TypeOK'
  <2>1. pc' \in [Proc -> Labels]
    BY <1>1, <1>4 DEF Labels
  <2>2. cntr' \in [Proc -> SchedCntr]
    BY <1>1, <1>4 DEF SchedCntr
  <2>3. UNCHANGED <<current, isr, isrObj, isrList, active_queue, sleep_queue, reap_queue, queue>>
    BY <1>1 DEF cpuVars, queueVars
  <2>4. UNCHANGED <<left, list, reaping, lock_sched, lock_proc, lock_reap, plock, torn>>
    BY <1>1 DEF lockVars
  <2> QED
    BY <1>6, <2>1, <2>2, <2>3, <2>4 DEF Safe, TypeOK, CallbackType
<1>9. ListControl'
  <2> SUFFICES ASSUME NEW q \in Proc
               PROVE  /\ list[q] # <<>> => pc'[q] \in Handing \cup {"awake_next"}
                      /\ list[q] # <<>> /\ q # Reaper => list[q] = <<Child>>
                      /\ pc'[q] \in Handing => list[q] # <<>> /\ cntr'[Head(list[q])] # "CALLBACK"
    BY <1>1 DEF ListControl
  <2>1. /\ list[q] # <<>> => pc[q] \in Handing \cup {"awake_next"}
        /\ list[q] # <<>> /\ q # Reaper => list[q] = <<Child>>
        /\ pc[q] \in Handing => list[q] # <<>> /\ cntr[Head(list[q])] # "CALLBACK"
    BY DEF Safe, ListControl
  <2>2. list[q] # <<>> => Head(list[q]) \in Proc /\ Head(list[q]) # p
    <3> SUFFICES ASSUME list[q] # <<>> PROVE Head(list[q]) \in Proc /\ Head(list[q]) # p
      OBVIOUS
    <3>1. Head(list[q]) \in Proc /\ Head(list[q]) \in ToSet(list[q])
      BY PopQueue DEF Safe, Unique, TypeOK
    <3> QED
      BY <1>3, <3>1 DEF Safe, Located, Listed
  <2> QED
    BY <1>1, <1>5, <2>1, <2>2 DEF Handing
<1>10. ReaperControl'
  <2>1. p # Reaper /\ s # Reaper /\ reaping' = reaping
    BY <1>1, SchedAssumption DEF User
  <2>2. pc[Reaper] = "reap_awake" => Head(reaping) # p
    BY <1>3 DEF Safe, ReaperControl
  <2>3. pc[Reaper] = "reap_awake" => Head(reaping) \in Proc
    BY DEF Safe, ReaperControl
  <2> QED
    BY <1>5, <2>1, <2>2, <2>3 DEF Safe, ReaperControl, ReaperLabels, Handing
<1>11. CallbackControl'
  <2>1. \A q \in Proc \ {p} : InWait(q) => InWait(q)'
    BY <1>1, <1>5, <1>6 DEF InWait
  <2>2. \A q \in Proc \ {p} : InExecve(q) => InExecve(q)' /\ callback[q].arg # s
    <3> SUFFICES ASSUME NEW q \in Proc \ {p}, InExecve(q) PROVE InExecve(q)' /\ callback[q].arg # s
      OBVIOUS
    <3>1. callback[q].arg \in Shadow /\ pc[callback[q].arg] = "desired" /\ pc[q] = "exec"
      BY DEF InExecve
    <3>2. callback[q].arg \notin {p, s} /\ q # s
      BY <1>1, <1>3, <3>1
    <3>3. pc'[callback[q].arg] = "desired" /\ pc'[q] = "exec" /\ callback'[q] = callback[q]
      BY <1>5, <1>6, <3>1, <3>2
    <3> QED
      BY <3>2, <3>3 DEF InExecve
  <2>3. InExecve(p)'
    BY <1>2, <1>5, <1>6 DEF InExecve
  <2>4. \A q \in Proc : cntr'[q] = "CALLBACK" => InWait(q)' \/ InExecve(q)'
    BY <1>5, <2>1, <2>2, <2>3 DEF Safe, CallbackControl
  <2>5. ASSUME NEW q \in Proc \ {p}, cntr'[q] = "CALLBACK", callback'[q].kind = "execve"
        PROVE  callback'[q].arg # callback'[p].arg
    <3>1. InWait(q) \/ InExecve(q)
      BY <1>5, <2>5 DEF Safe, CallbackControl
    <3>2. InExecve(q)
      BY <1>6, <2>5, <3>1 DEF InWait
    <3> QED
      BY <1>2, <1>6, <2>2, <3>2
  <2>6. ASSUME NEW q \in Proc \ {p}, NEW r \in Proc \ {p}, cntr'[q] = "CALLBACK", cntr'[r] = "CALLBACK",
               q # r, callback'[q].kind = "execve", callback'[r].kind = "execve"
        PROVE  callback'[q].arg # callback'[r].arg
    <3>1. cntr[q] = "CALLBACK" /\ cntr[r] = "CALLBACK" /\ callback'[q] = callback[q] /\ callback'[r] = callback[r]
      BY <1>5, <1>6, <2>6
    <3> QED
      BY <2>6, <3>1 DEF Safe, CallbackControl
  <2> QED
    BY <2>4, <2>5, <2>6 DEF CallbackControl
<1>12. DeadControl'
  BY <1>1, <1>3, <1>5 DEF Safe, DeadControl
<1>13. Settled(k)'
  <2>1. torn' = torn /\ reaping' = reaping /\ pc'[Reaper] = pc[Reaper]
    BY <1>1, <1>5, SchedAssumption DEF lockVars, User
  <2>2. k[s] = "nowhere" /\ cntr[s] # "ZOMBIE"
    BY <1>1 DEF Safe, Settled, SettledAt, DeadControl
  <2> QED
    <3> SUFFICES ASSUME NEW q \in Proc PROVE SettledAt(q, k[q])'
      BY DEF Settled
    <3>1. SettledAt(q, k[q])
      BY DEF Safe, Settled
    <3>2. CASE q = p
      BY <1>3, <1>5, <3>2 DEF SettledAt
    <3>3. CASE q = s
      BY <1>3, <1>5, <2>2, <3>3 DEF SettledAt
    <3>4. CASE q \notin {p, s}
      BY <1>5, <2>1, <3>1, <3>4 DEF SettledAt
    <3> QED
      BY <3>2, <3>3, <3>4
<1>14. Handshake(k)'
  <2>1. torn' = torn /\ reaping' = reaping /\ plock' = plock /\ pc'[Reaper] = pc[Reaper] /\ queue' = queue
    BY <1>1, <1>5, SchedAssumption DEF queueVars, lockVars, User
  <2>2. cntr'[Child] = "ZOMBIE" => cntr[Child] = "ZOMBIE"
    BY <1>5
  <2>3. pc'[Parent] \in {"wait_check", "halt"} => pc'[Parent] = pc[Parent] /\ cntr'[Parent] = cntr[Parent]
    BY <1>5
  <2> QED
    BY <2>1, <2>2, <2>3 DEF Safe, Handshake, Requesting, AtChild
<1> QED
  BY <1>7, <1>8, <1>9, <1>10, <1>11, <1>12, <1>13, <1>14 DEF Safe

(* The PCB a process hands over next is in its hands and nowhere else.       *)
LEMMA ListHead ==
  ASSUME NEW k, NEW o, Safe(k, o), NEW q \in Proc, list[q] # <<>>
  PROVE  Head(list[q]) \in Proc /\ k[Head(list[q])] = "list" /\ o[Head(list[q])] = q
<1>1. Head(list[q]) \in Proc /\ Head(list[q]) \in ToSet(list[q])
  BY PopQueue DEF Safe, Unique, TypeOK
<1> QED
  BY <1>1 DEF Safe, Located, Listed

(* The PCB the reaper works on is in its hands and nowhere else.             *)
LEMMA ReapingHead ==
  ASSUME NEW k, NEW o, Safe(k, o), reaping # <<>>
  PROVE  Head(reaping) \in Proc /\ k[Head(reaping)] = "reaping"
<1>1. Head(reaping) \in Proc /\ Head(reaping) \in ToSet(reaping)
  BY PopQueue DEF Safe, Unique, TypeOK
<1> QED
  BY <1>1 DEF Safe, Located, Queued

(* reap_prepare marks the process a zombie: nobody waits for it any more     *)
(* without having seen that, because the reaper holds its plock.             *)
LEMMA ReapZombieSafe ==
  ASSUME NEW k \in [Proc -> Kind], NEW o \in [Proc -> Owner], Safe(k, o), ReapZombie
  PROVE  Safe(k, o)'
<1> USE Actors
<1> DEFINE x == Head(reaping)
<1>1. /\ pc[Reaper] = "reap_zombie" /\ Runs(Reaper)
      /\ pc' = [pc EXCEPT ![Reaper] = "reap_awake"] /\ cntr' = [cntr EXCEPT ![x] = "ZOMBIE"]
      /\ UNCHANGED <<cpuVars, callback, left, queueVars, list, reaping, lockVars>>
  BY DEF ReapZombie, At, Goto
<1>2. reaping # <<>> /\ x \in User /\ x \in Proc /\ k[x] = "reaping" /\ x # Reaper /\ x \notin Shadow
  BY <1>1, ReapingHead, SchedAssumption DEF Safe, ReaperControl
<1>3. x = Child => AtChild
  BY <1>1 DEF AtChild
<1>4. AtChild => x = Child
  BY DEF AtChild
<1>5. reaping' = reaping
  BY <1>1
<1>6. x' = x
  BY <1>5
<1> HIDE DEF x
<1>7. pc \in [Proc -> Labels] /\ cntr \in [Proc -> SchedCntr]
  BY DEF Safe, TypeOK
<1>8. /\ pc'[Reaper] = "reap_awake" /\ \A q \in Proc \ {Reaper} : pc'[q] = pc[q]
      /\ cntr'[x] = "ZOMBIE" /\ \A q \in Proc \ {x} : cntr'[q] = cntr[q]
  BY <1>1, <1>2, <1>7
<1>9. Unique' /\ CpuControl' /\ Located(k, o)'
  BY <1>1, NothingMoved DEF Safe
<1>10. TypeOK'
  <2>1. pc' \in [Proc -> Labels]
    BY <1>1, <1>7 DEF Labels
  <2>2. cntr' \in [Proc -> SchedCntr]
    BY <1>1, <1>7 DEF SchedCntr
  <2>3. UNCHANGED <<current, isr, isrObj, isrList, active_queue, sleep_queue, reap_queue, queue>>
    BY <1>1 DEF cpuVars, queueVars
  <2>4. UNCHANGED <<callback, left, list, reaping, lock_sched, lock_proc, lock_reap, plock, torn>>
    BY <1>1 DEF lockVars
  <2> QED
    BY <2>1, <2>2, <2>3, <2>4 DEF Safe, TypeOK
<1>11. ListControl'
  <2>1. \A q \in Proc : list[q] # <<>> => Head(list[q]) \in Proc
    BY ListHead
  <2> QED
    BY <1>1, <1>8, <2>1 DEF Safe, ListControl, Handing
<1>12. ReaperControl'
  BY <1>1, <1>2, <1>8 DEF Safe, ReaperControl, ReaperLabels, Handing, x
<1>13. CallbackControl'
  <2>1. \A q \in Proc : cntr'[q] = "CALLBACK" => cntr[q] = "CALLBACK" /\ pc'[q] = pc[q] /\ callback'[q] = callback[q]
    BY <1>1, <1>8 DEF Safe, CallbackControl, InWait, InExecve
  <2>2. \A q \in Proc : InExecve(q) => pc'[callback[q].arg] = "desired"
    BY <1>8 DEF InExecve
  <2>3. CallbackControl
    BY DEF Safe
  <2> QED
    BY <2>1, <2>2, <2>3, CallbackFrame
<1>14. cntr[x] \in {"KILL", "ZOMBIE"}
  BY <1>2 DEF Safe, Settled, SettledAt
<1>15. DeadControl'
  BY <1>1, <1>2, <1>8, <1>14 DEF Safe, DeadControl
<1>16. Settled(k)'
  <2> SUFFICES ASSUME NEW q \in Proc PROVE SettledAt(q, k[q])'
    BY DEF Settled
  <2>1. SettledAt(q, k[q])
    BY DEF Safe, Settled
  <2>2. torn' = torn
    BY <1>1 DEF lockVars
  <2>3. CASE q = x
    BY <1>2, <1>5, <1>8, <2>1, <2>2, <2>3 DEF SettledAt, x
  <2>4. CASE q # x /\ q = Reaper
    BY <1>1, <1>5, <1>8, <2>1, <2>2, <2>4 DEF SettledAt
  <2>5. CASE q \notin {x, Reaper}
    BY <1>1, <1>5, <1>8, <2>1, <2>2, <2>5 DEF SettledAt
  <2> QED
    BY <2>3, <2>4, <2>5
<1>17. Handshake(k)'
  <2>1. torn' = torn /\ plock' = plock /\ queue' = queue
    BY <1>1 DEF lockVars, queueVars
  <2>2. AtChild' => AtChild
    BY <1>1, <1>5, <1>8 DEF AtChild
  <2>3. Requesting(k)' => Requesting(k)
    BY <1>2, <1>8 DEF Requesting
  <2>4. ASSUME ~torn, Requesting(k)' PROVE cntr'[Child] # "ZOMBIE"
    <3>1. plock = Parent /\ (AtChild => plock = Reaper) /\ cntr[Child] # "ZOMBIE"
      BY <2>3, <2>4 DEF Safe, Handshake
    <3> QED
      BY <1>3, <1>8, <3>1
  <2>5. ASSUME ~torn, queue["monitor"] # <<>>, cntr'[Child] = "ZOMBIE"
        PROVE  pc'[Reaper] = "reap_awake" /\ Head(reaping') = Child
    <3>1. CASE x = Child
      BY <1>5, <1>8, <3>1 DEF x
    <3>2. CASE x # Child
      BY <1>1, <1>8, <2>5, <3>2 DEF Safe, Handshake
    <3> QED
      BY <3>1, <3>2
  <2>6. ~torn => (pc'[Parent] = "wait_check" \/ Requesting(k)' => plock = Parent) /\ (AtChild' => plock = Reaper)
    BY <1>8, <2>2, <2>3 DEF Safe, Handshake
  <2> QED
    BY <2>1, <2>4, <2>5, <2>6 DEF Handshake
<1> QED
  BY <1>9, <1>10, <1>11, <1>12, <1>13, <1>15, <1>16, <1>17 DEF Safe

(* signal_awake_locked marks the PCB it is about to schedule.                *)
LEMMA AwakeMarks ==
  ASSUME NEW k \in [Proc -> Kind], NEW o \in [Proc -> Owner], Safe(k, o), AwakeNext,
         list[Reaper] # <<>>
  PROVE  Safe(k, o)'
<1> USE Actors
<1> DEFINE x == Head(list[Reaper])
<1>1. /\ pc[Reaper] = "awake_next" /\ Runs(Reaper)
      /\ pc' = [pc EXCEPT ![Reaper] = "sched_lock"] /\ cntr' = [cntr EXCEPT ![x] = "SIGNAL_READY"]
      /\ UNCHANGED <<cpuVars, callback, left, queueVars, list, reaping, lockVars>>
  BY DEF AwakeNext, At, Goto
<1>2. x \in Proc /\ k[x] = "list" /\ k[Reaper] = "cpu" /\ x # Reaper
  BY <1>1, ListHead, RunningIsOnCpu DEF Safe
<1> HIDE DEF x
<1>3. pc \in [Proc -> Labels] /\ cntr \in [Proc -> SchedCntr]
  BY DEF Safe, TypeOK
<1>4. /\ pc'[Reaper] = "sched_lock" /\ \A q \in Proc \ {Reaper} : pc'[q] = pc[q]
      /\ cntr'[x] = "SIGNAL_READY" /\ \A q \in Proc \ {x} : cntr'[q] = cntr[q]
  BY <1>1, <1>2, <1>3
<1>5. Unique' /\ CpuControl' /\ Located(k, o)'
  BY <1>1, NothingMoved DEF Safe
<1>6. TypeOK'
  <2>1. pc' \in [Proc -> Labels]
    BY <1>1, <1>3 DEF Labels
  <2>2. cntr' \in [Proc -> SchedCntr]
    BY <1>1, <1>3 DEF SchedCntr
  <2>3. UNCHANGED <<current, isr, isrObj, isrList, active_queue, sleep_queue, reap_queue, queue>>
    BY <1>1 DEF cpuVars, queueVars
  <2>4. UNCHANGED <<callback, left, list, reaping, lock_sched, lock_proc, lock_reap, plock, torn>>
    BY <1>1 DEF lockVars
  <2> QED
    BY <2>1, <2>2, <2>3, <2>4 DEF Safe, TypeOK
<1>7. ListControl'
  <2>1. \A q \in Proc : list[q] # <<>> => Head(list[q]) \in Proc
    BY ListHead
  <2>2. list' = list
    BY <1>1
  <2> QED
    BY <1>1, <1>4, <2>1, <2>2 DEF Safe, ListControl, Handing, x
<1>8. ReaperControl'
  BY <1>1, <1>4 DEF Safe, ReaperControl, ReaperLabels, Handing
<1>9. CallbackControl'
  <2>1. \A q \in Proc : cntr'[q] = "CALLBACK" => cntr[q] = "CALLBACK" /\ pc'[q] = pc[q] /\ callback'[q] = callback[q]
    BY <1>1, <1>4 DEF Safe, CallbackControl, InWait, InExecve
  <2>2. \A q \in Proc : InExecve(q) => pc'[callback[q].arg] = "desired"
    BY <1>4 DEF InExecve
  <2>3. CallbackControl
    BY DEF Safe
  <2> QED
    BY <2>1, <2>2, <2>3, CallbackFrame
<1>10. DeadControl'
  BY <1>1, <1>4 DEF Safe, DeadControl
<1>11. Settled(k)'
  <2> SUFFICES ASSUME NEW q \in Proc PROVE SettledAt(q, k[q])'
    BY DEF Settled
  <2>1. SettledAt(q, k[q])
    BY DEF Safe, Settled
  <2>2. torn' = torn /\ reaping' = reaping
    BY <1>1 DEF lockVars
  <2>3. CASE q = x
    BY <1>2, <1>4, <2>1, <2>2, <2>3 DEF SettledAt
  <2>4. CASE q = Reaper
    BY <1>1, <1>2, <1>4, <2>1, <2>2, <2>4 DEF SettledAt
  <2>5. CASE q \notin {x, Reaper}
    BY <1>1, <1>4, <2>1, <2>2, <2>5 DEF SettledAt
  <2> QED
    BY <2>3, <2>4, <2>5
<1>12. Handshake(k)'
  <2>1. torn' = torn /\ plock' = plock /\ queue' = queue /\ reaping' = reaping
    BY <1>1 DEF lockVars, queueVars
  <2>2. ~AtChild' /\ pc[Reaper] # "reap_awake"
    BY <1>1, <1>4 DEF AtChild
  <2>3. Requesting(k)' => Requesting(k)
    BY <1>4 DEF Requesting
  <2>4. cntr'[Child] = "ZOMBIE" => cntr[Child] = "ZOMBIE"
    BY <1>4
  <2>5. pc'[Parent] = pc[Parent]
    BY <1>4
  <2> QED
    BY <2>1, <2>2, <2>3, <2>4, <2>5 DEF Safe, Handshake
<1> QED
  BY <1>5, <1>6, <1>7, <1>8, <1>9, <1>10, <1>11, <1>12 DEF Safe

(* signal_awake_locked is done.                                              *)
LEMMA AwakeDone ==
  ASSUME NEW k \in [Proc -> Kind], NEW o \in [Proc -> Owner], Safe(k, o),
         AwakeNext, list[Reaper] = <<>>
  PROVE  Safe(k, o)'
<1> USE Actors DEF AwakeNext, At, Goto
<1>1. k[Reaper] = "cpu" /\ cntr[Reaper] # "ZOMBIE"
  BY RunningIsOnCpu DEF Safe, Settled, SettledAt
<1>2. pc \in [Proc -> Labels] /\ cntr \in [Proc -> SchedCntr]
  BY DEF Safe, TypeOK
<1> DEFINE label == "reap_next"
           c == cntr[Reaper]
<1>3. StepsTo(Reaper, label, c)
  BY <1>1, <1>2 DEF Safe, StepsTo, Executing, Labels, SchedCntr, lockVars, Handing, InWait,
                     DeadControl, CallbackControl, InExecve
<1>4. Calm(k, o)'
  BY <1>3, LocalStep
<1>5. TypeOK'
  <2>1. callback' \in [Proc -> CallbackType]
    BY DEF Safe, TypeOK, CallbackType
  <2>2. left' \in [Proc -> -MaxLag..MaxSleep]
    BY SchedAssumption DEF Safe, TypeOK
  <2>3. /\ lock_sched' \in Proc \cup {None} /\ lock_proc' \in Proc \cup {None}
        /\ lock_reap' \in Proc \cup {None} /\ plock' \in Proc \cup {None}
    BY DEF Safe, TypeOK, lockVars
  <2>4. TypeOK
    BY DEF Safe
  <2> QED
    BY <1>3, <2>1, <2>2, <2>3, <2>4, LocalType
<1>6. ReaperControl'
  BY <1>1, <1>2 DEF Safe, ReaperControl, ReaperLabels, Handing, Settled, SettledAt
<1>7. Handshake(k)'
  BY <1>1, <1>2 DEF Safe, Handshake, Requesting, AtChild, lockVars, queueVars
<1> QED
  BY <1>4, <1>5, <1>6, <1>7 DEF Safe, Calm

(* process_reap has nothing left and sleeps.                                 *)
LEMMA ReapIdle ==
  ASSUME NEW k \in [Proc -> Kind], NEW o \in [Proc -> Owner], Safe(k, o),
         ReapPrepare, reaping = <<>>
  PROVE  Safe(k, o)'
<1> USE Actors DEF ReapPrepare, At, Goto
<1>1. k[Reaper] = "cpu" /\ cntr[Reaper] # "ZOMBIE"
  BY RunningIsOnCpu DEF Safe, Settled, SettledAt
<1>2. pc \in [Proc -> Labels] /\ cntr \in [Proc -> SchedCntr]
  BY DEF Safe, TypeOK
<1> DEFINE label == "reap_sleep"
           c == cntr[Reaper]
<1>3. StepsTo(Reaper, label, c)
  BY <1>1, <1>2 DEF Safe, StepsTo, Executing, Labels, SchedCntr, lockVars, Handing, InWait,
                     DeadControl, CallbackControl, InExecve
<1>4. Calm(k, o)'
  BY <1>3, LocalStep
<1>5. TypeOK'
  <2>1. callback' \in [Proc -> CallbackType]
    BY DEF Safe, TypeOK, CallbackType
  <2>2. left' \in [Proc -> -MaxLag..MaxSleep]
    BY SchedAssumption DEF Safe, TypeOK
  <2>3. /\ lock_sched' \in Proc \cup {None} /\ lock_proc' \in Proc \cup {None}
        /\ lock_reap' \in Proc \cup {None} /\ plock' \in Proc \cup {None}
    BY DEF Safe, TypeOK, lockVars
  <2>4. TypeOK
    BY DEF Safe
  <2> QED
    BY <1>3, <2>1, <2>2, <2>3, <2>4, LocalType
<1>6. ReaperControl'
  BY <1>1, <1>2 DEF Safe, ReaperControl, ReaperLabels, Handing, Settled, SettledAt
<1>7. Handshake(k)'
  BY <1>1, <1>2 DEF Safe, Handshake, Requesting, AtChild, lockVars, queueVars
<1> QED
  BY <1>4, <1>5, <1>6, <1>7 DEF Safe, Calm

(* reap_prepare takes the plock of the child, unless the parent holds it.    *)
LEMMA ReapLocks ==
  ASSUME NEW k \in [Proc -> Kind], NEW o \in [Proc -> Owner], Safe(k, o),
         ReapPrepare, reaping # <<>>, Head(reaping) \in User
  PROVE  Safe(k, o)'
<1> USE Actors DEF ReapPrepare, At, Goto
<1>1. k[Reaper] = "cpu" /\ cntr[Reaper] # "ZOMBIE"
  BY RunningIsOnCpu DEF Safe, Settled, SettledAt
<1>2. pc \in [Proc -> Labels] /\ cntr \in [Proc -> SchedCntr]
  BY DEF Safe, TypeOK
<1> DEFINE label == "reap_zombie"
           c == cntr[Reaper]
<1>3. StepsTo(Reaper, label, c)
  BY <1>1, <1>2 DEF Safe, StepsTo, Executing, Labels, SchedCntr, lockVars, Handing, InWait,
                     DeadControl, CallbackControl, InExecve
<1>4. Calm(k, o)'
  BY <1>3, LocalStep
<1>5. TypeOK'
  <2>1. callback' \in [Proc -> CallbackType]
    BY DEF Safe, TypeOK, CallbackType
  <2>2. left' \in [Proc -> -MaxLag..MaxSleep]
    BY SchedAssumption DEF Safe, TypeOK
  <2>3. /\ lock_sched' \in Proc \cup {None} /\ lock_proc' \in Proc \cup {None}
        /\ lock_reap' \in Proc \cup {None} /\ plock' \in Proc \cup {None}
    BY DEF Safe, TypeOK, lockVars
  <2>4. TypeOK
    BY DEF Safe
  <2> QED
    BY <1>3, <2>1, <2>2, <2>3, <2>4, LocalType
<1>6. ReaperControl'
  BY <1>1, <1>2 DEF Safe, ReaperControl, ReaperLabels, Handing, Settled, SettledAt
<1>7. Handshake(k)'
  BY <1>1, <1>2 DEF Safe, Handshake, Requesting, AtChild, lockVars, queueVars
<1> QED
  BY <1>4, <1>5, <1>6, <1>7 DEF Safe, Calm

(* Time passes, or nothing happens.                                          *)
LEMMA OnlyTimePasses ==
  ASSUME NEW k \in [Proc -> Kind], NEW o \in [Proc -> Owner], Safe(k, o),
         UNCHANGED <<cpuVars, pc, cntr, callback, queueVars, list, reaping, lockVars>>,
         left' \in [Proc -> -MaxLag..MaxSleep]
  PROVE  Safe(k, o)'
<1>1. Unique' /\ CpuControl' /\ Located(k, o)'
  BY NothingMoved DEF Safe
<1>2. UNCHANGED <<current, isr, isrObj, isrList, active_queue, sleep_queue, reap_queue, queue>>
  BY DEF cpuVars, queueVars
<1>3. UNCHANGED <<pc, cntr, callback, list, reaping, lock_sched, lock_proc, lock_reap, plock, torn>>
  BY DEF lockVars
<1>4. TypeOK'
  BY <1>2, <1>3 DEF Safe, TypeOK
<1>5. ListControl' /\ ReaperControl'
  BY <1>3 DEF Safe, ListControl, ReaperControl
<1>6. CallbackControl'
  BY <1>3 DEF Safe, CallbackControl, InWait, InExecve
<1>7. DeadControl'
  BY <1>3 DEF Safe, DeadControl
<1>8. Settled(k)'
  BY <1>3 DEF Safe, Settled, SettledAt
<1>9. Handshake(k)'
  BY <1>2, <1>3 DEF Safe, Handshake, Requesting, AtChild
<1> QED
  BY <1>1, <1>4, <1>5, <1>6, <1>7, <1>8, <1>9 DEF Safe

(* The clock changes wake times only.                                        *)
LEMMA ClockSafe ==
  ASSUME NEW k \in [Proc -> Kind], NEW o \in [Proc -> Owner], Safe(k, o), Clock
  PROVE  Safe(k, o)'
<1>1. UNCHANGED <<cpuVars, pc, cntr, callback, queueVars, list, reaping, lockVars>>
  BY DEF Clock
<1>2. left' \in [Proc -> -MaxLag..MaxSleep]
  <2>1. \A p \in Proc : left[p] \in -MaxLag..MaxSleep
    BY DEF Safe, TypeOK
  <2>2. \A p \in Proc : left[p] > -MaxLag => left[p] - 1 \in -MaxLag..MaxSleep
    BY <2>1, SchedAssumption
  <2> QED
    BY <2>1, <2>2 DEF Clock
<1> QED
  BY <1>1, <1>2, OnlyTimePasses

-----------------------------------------------------------------------------
(* The steps of scheduler_run.                                               *)

(* A step of the interrupt that leaves the PCBs' fields and lists alone.     *)
LEMMA ProcessesUntouched ==
  ASSUME ListControl, ReaperControl, CallbackControl, DeadControl,
         UNCHANGED <<pc, cntr, callback, list, reaping>>
  PROVE  ListControl' /\ ReaperControl' /\ CallbackControl' /\ DeadControl'
<1>1. ListControl' /\ ReaperControl'
  BY DEF ListControl, ReaperControl
<1>2. CallbackControl'
  BY DEF CallbackControl, InWait, InExecve
<1>3. DeadControl'
  BY DEF DeadControl
<1> QED
  BY <1>1, <1>2, <1>3

(* The tick: the interrupted process is still on its CPU.                    *)
LEMMA TimerSafe ==
  ASSUME NEW k \in [Proc -> Kind], NEW o \in [Proc -> Owner], Safe(k, o), NEW c \in CPU, Timer(c)
  PROVE  Safe(k, o)'
<1> USE Actors
<1>1. /\ UNCHANGED <<current, isrObj, isrList, pc, cntr, callback, left, list, reaping>>
      /\ UNCHANGED <<active_queue, sleep_queue, reap_queue, queue>>
      /\ UNCHANGED <<lock_sched, lock_proc, lock_reap, plock, torn>>
  BY DEF Timer, queueVars, lockVars
<1>2. isr[c] = "off" /\ isr' = [isr EXCEPT ![c] = IF current[c] = None THEN "pick" ELSE "switch"]
  BY DEF Timer, IsrGoto
<1>3. isr \in [CPU -> {"off", "switch", "discard", "take", "awake", "pick"}]
      /\ current \in [CPU -> Proc \cup {None}]
  BY DEF Safe, TypeOK
<1>4. TypeOK'
  BY <1>1, <1>2 DEF Safe, TypeOK
<1>5. Unique'
  BY <1>1 DEF Safe, Unique
<1>6. CpuControl'
  BY <1>1, <1>2, <1>3 DEF Safe, CpuControl
<1>7. Located(k, o)'
  <2>1. Queued(k)' /\ Listed(k, o)'
    BY <1>1 DEF Safe, Located, Queued, Listed
  <2>2. OnCpus(k, o)'
    BY <1>1, <1>2, <1>3 DEF Safe, Located, OnCpus
  <2>3. Discarded(k, o)' /\ Woken(k, o)' /\ Owned(k, o)'
    BY <1>1 DEF Safe, Located, Discarded, Woken, Owned
  <2> QED
    BY <2>1, <2>2, <2>3 DEF Located
<1>8. ListControl' /\ ReaperControl' /\ CallbackControl' /\ DeadControl'
  BY <1>1, ProcessesUntouched DEF Safe
<1>9. Settled(k)'
  BY <1>1 DEF Safe, Settled, SettledAt
<1>10. Handshake(k)'
  BY <1>1 DEF Safe, Handshake, Requesting, AtChild
<1> QED
  BY <1>4, <1>5, <1>6, <1>7, <1>8, <1>9, <1>10 DEF Safe

(* The place of one PCB changed.                                             *)
Moves(f, g, x, d) == g[x] = d /\ \A p \in Proc \ {x} : g[p] = f[p]

(* The function that moves one PCB.                                          *)
LEMMA MoveExists ==
  ASSUME NEW S, NEW f \in [Proc -> S], NEW x \in Proc, NEW d \in S
  PROVE  \E g \in [Proc -> S] : Moves(f, g, x, d)
<1> DEFINE g == [f EXCEPT ![x] = d]
<1>1. g \in [Proc -> S] /\ g[x] = d /\ \A p \in Proc \ {x} : g[p] = f[p]
  OBVIOUS
<1> QED
  BY <1>1 DEF Moves

(* case SCHED_READY: back onto active_queue.                                 *)
LEMMA SwitchReadySafe ==
  ASSUME NEW k \in [Proc -> Kind], NEW o \in [Proc -> Owner], Safe(k, o), NEW c \in CPU, SwitchReady(c)
  PROVE  \E k2 \in [Proc -> Kind], o2 \in [Proc -> Owner] : Safe(k2, o2)'
<1> USE Actors
<1>1. PICK x \in Proc : x = current[c]
  BY DEF SwitchReady, Safe, CpuControl
<1>2. /\ isr[c] = "switch" /\ cntr[x] \in {"READY", "SIGNAL_READY"}
      /\ active_queue' = Append(active_queue, x) /\ isr' = [isr EXCEPT ![c] = "pick"]
  BY <1>1 DEF SwitchReady, IsrGoto
<1>3. /\ UNCHANGED <<current, isrObj, isrList, pc, cntr, callback, left, list, reaping>>
      /\ UNCHANGED <<sleep_queue, reap_queue, queue>>
      /\ UNCHANGED <<lock_sched, lock_proc, lock_reap, plock, torn>>
  BY DEF SwitchReady, lockVars
<1>4. k[x] = "cpu" /\ o[x] = c
  BY <1>1, <1>2 DEF Safe, Located, OnCpus
<1>5. PICK k2 \in [Proc -> Kind] : Moves(k, k2, x, "active")
  BY MoveExists DEF Kind
<1>6. k2[x] = "active" /\ \A p \in Proc \ {x} : k2[p] = k[p]
  BY <1>5 DEF Moves
<1>7. active_queue' \in Seq(Proc) /\ ToSet(active_queue') = ToSet(active_queue) \cup {x}
      /\ IsInjective(active_queue')
  <2>1. active_queue \in Seq(Proc) /\ IsInjective(active_queue) /\ x \notin ToSet(active_queue)
    BY <1>4 DEF Safe, TypeOK, Unique, Located, Queued
  <2> QED
    BY <1>2, <2>1, AppendQueue
<1>8. isr \in [CPU -> {"off", "switch", "discard", "take", "awake", "pick"}]
  BY DEF Safe, TypeOK
<1>9. TypeOK'
  BY <1>2, <1>3, <1>7 DEF Safe, TypeOK
<1>10. Unique'
  BY <1>3, <1>7 DEF Safe, Unique
<1>11. CpuControl'
  BY <1>2, <1>3, <1>8 DEF Safe, CpuControl
<1>12. Located(k2, o)'
  <2>1. Queued(k2)'
    BY <1>3, <1>4, <1>6, <1>7 DEF Safe, Located, Queued
  <2>2. OnCpus(k2, o)'
    BY <1>1, <1>2, <1>3, <1>4, <1>6, <1>8 DEF Safe, Located, OnCpus
  <2>3. Discarded(k2, o)' /\ Woken(k2, o)'
    BY <1>3, <1>4, <1>6 DEF Safe, Located, Discarded, Woken
  <2>4. Listed(k2, o)' /\ Owned(k2, o)'
    BY <1>3, <1>4, <1>6 DEF Safe, Located, Listed, Owned
  <2> QED
    BY <2>1, <2>2, <2>3, <2>4 DEF Located
<1>13. ListControl' /\ ReaperControl' /\ CallbackControl' /\ DeadControl'
  BY <1>3, ProcessesUntouched DEF Safe
<1>14. Settled(k2)'
  BY <1>2, <1>3, <1>4, <1>6 DEF Safe, Settled, SettledAt
<1>15. Handshake(k2)'
  BY <1>2, <1>3, <1>6 DEF Safe, Handshake, Requesting, AtChild
<1>16. Safe(k2, o)'
  BY <1>9, <1>10, <1>11, <1>12, <1>13, <1>14, <1>15 DEF Safe
<1> QED
  BY <1>16

(* Where the two scans of sleep_queue stop.                                  *)
LEMMA SleepPositionInQueue ==
  ASSUME TypeOK, NEW p \in Proc
  PROVE  SleepPosition(p) \in 0 .. Len(sleep_queue)
<1> DEFINE n == Len(sleep_queue)
           P(i) == /\ \A j \in 1 .. i : left[p] < left[sleep_queue[j]]
                   /\ i < n => ~(left[p] < left[sleep_queue[i + 1]])
           S == {i \in 0 .. n : i < n => ~(left[p] < left[sleep_queue[i + 1]])}
<1>1. n \in Nat
  BY DEF TypeOK
<1>2. n \in S /\ S \in SUBSET Nat
  BY <1>1
<1>3. PICK m \in S : \A i \in S : m <= i
  BY <1>2, LeastNatural
<1>4. m \in 0 .. n /\ P(m)
  <2>1. m \in 0 .. n /\ (m < n => ~(left[p] < left[sleep_queue[m + 1]]))
    BY <1>3
  <2>2. ASSUME NEW j \in 1 .. m PROVE left[p] < left[sleep_queue[j]]
    <3>1. j - 1 \in 0 .. n /\ j - 1 < n /\ (j - 1) + 1 = j /\ ~(m <= j - 1)
      BY <1>1, <2>1, <2>2
    <3>2. j - 1 \notin S
      BY <1>3, <3>1
    <3> QED
      BY <3>1, <3>2
  <2> QED
    BY <2>1, <2>2
<1> HIDE DEF n, P
<1>5. (CHOOSE i \in 0 .. n : P(i)) \in 0 .. n
  BY <1>4, Zenon
<1> QED
  BY <1>5 DEF SleepPosition, n, P

(* The scan for due sleepers ends within the queue.                          *)
LEMMA DuePrefixInQueue ==
  ASSUME TypeOK
  PROVE  DuePrefix \in 0 .. Len(sleep_queue)
<1> DEFINE n == Len(sleep_queue)
           P(i) == /\ \A j \in 1 .. i : left[sleep_queue[j]] <= 0
                   /\ i < n => left[sleep_queue[i + 1]] > 0
           S == {i \in 0 .. n : i < n => left[sleep_queue[i + 1]] > 0}
<1>1. n \in Nat
  BY DEF TypeOK
<1>2. n \in S /\ S \in SUBSET Nat
  BY <1>1
<1>3. PICK m \in S : \A i \in S : m <= i
  BY <1>2, LeastNatural
<1>4. m \in 0 .. n /\ P(m)
  <2>1. m \in 0 .. n /\ (m < n => left[sleep_queue[m + 1]] > 0)
    BY <1>3
  <2>2. ASSUME NEW j \in 1 .. m PROVE left[sleep_queue[j]] <= 0
    <3>1. j - 1 \in 0 .. n /\ j - 1 < n /\ (j - 1) + 1 = j /\ ~(m <= j - 1) /\ j \in 1 .. n
      BY <1>1, <2>1, <2>2
    <3>2. j - 1 \notin S
      BY <1>3, <3>1
    <3>3. sleep_queue[j] \in Proc
      BY <3>1 DEF TypeOK
    <3>4. left[sleep_queue[j]] \in Int
      BY <3>3, SchedAssumption DEF TypeOK
    <3> QED
      BY <3>1, <3>2, <3>4
  <2> QED
    BY <2>1, <2>2
<1> HIDE DEF n, P
<1>5. (CHOOSE i \in 0 .. n : P(i)) \in 0 .. n
  BY <1>4, Zenon
<1> QED
  BY <1>5 DEF DuePrefix, n, P

(* case SCHED_SLEEP: onto sleep_queue.                                       *)
LEMMA SwitchSleepSafe ==
  ASSUME NEW k \in [Proc -> Kind], NEW o \in [Proc -> Owner], Safe(k, o), NEW c \in CPU, SwitchSleep(c)
  PROVE  \E k2 \in [Proc -> Kind], o2 \in [Proc -> Owner] : Safe(k2, o2)'
<1> USE Actors
<1>1. PICK x \in Proc : x = current[c]
  BY DEF SwitchSleep, Safe, CpuControl
<1>2. /\ isr[c] = "switch" /\ cntr[x] = "SLEEP" /\ cntr' = [cntr EXCEPT ![x] = "READY"]
      /\ sleep_queue' = InsertAt(sleep_queue, SleepPosition(x) + 1, x)
      /\ isr' = [isr EXCEPT ![c] = "pick"]
  BY <1>1 DEF SwitchSleep, IsrGoto
<1>3. /\ UNCHANGED <<current, isrObj, isrList, pc, callback, left, list, reaping>>
      /\ UNCHANGED <<active_queue, reap_queue, queue>>
      /\ UNCHANGED <<lock_sched, lock_proc, lock_reap, plock, torn>>
  BY DEF SwitchSleep, lockVars
<1>4. k[x] = "cpu" /\ o[x] = c
  BY <1>1, <1>2 DEF Safe, Located, OnCpus
<1>5. PICK k2 \in [Proc -> Kind] : Moves(k, k2, x, "sleep")
  BY MoveExists DEF Kind
<1>6. k2[x] = "sleep" /\ \A p \in Proc \ {x} : k2[p] = k[p]
  BY <1>5 DEF Moves
<1>7. sleep_queue' \in Seq(Proc) /\ ToSet(sleep_queue') = ToSet(sleep_queue) \cup {x}
      /\ IsInjective(sleep_queue')
  <2>1. sleep_queue \in Seq(Proc) /\ IsInjective(sleep_queue) /\ x \notin ToSet(sleep_queue)
    BY <1>4 DEF Safe, TypeOK, Unique, Located, Queued
  <2>2. SleepPosition(x) \in 0 .. Len(sleep_queue)
    BY SleepPositionInQueue DEF Safe
  <2> QED
    BY <1>2, <2>1, <2>2, InsertQueue
<1>8. isr \in [CPU -> {"off", "switch", "discard", "take", "awake", "pick"}]
      /\ cntr \in [Proc -> SchedCntr]
  BY DEF Safe, TypeOK
<1>9. cntr'[x] = "READY" /\ \A p \in Proc \ {x} : cntr'[p] = cntr[p]
  BY <1>2, <1>8
<1>10. TypeOK'
  <2>1. cntr' \in [Proc -> SchedCntr]
    BY <1>2, <1>8 DEF SchedCntr
  <2> QED
    BY <1>2, <1>3, <1>7, <2>1 DEF Safe, TypeOK
<1>11. Unique'
  BY <1>3, <1>7 DEF Safe, Unique
<1>12. CpuControl'
  BY <1>2, <1>3, <1>8 DEF Safe, CpuControl
<1>13. Located(k2, o)'
  <2>1. Queued(k2)'
    BY <1>3, <1>4, <1>6, <1>7 DEF Safe, Located, Queued
  <2>2. OnCpus(k2, o)'
    BY <1>1, <1>2, <1>3, <1>4, <1>6, <1>8 DEF Safe, Located, OnCpus
  <2>3. Discarded(k2, o)' /\ Woken(k2, o)'
    BY <1>3, <1>4, <1>6 DEF Safe, Located, Discarded, Woken
  <2>4. Listed(k2, o)' /\ Owned(k2, o)'
    BY <1>3, <1>4, <1>6 DEF Safe, Located, Listed, Owned
  <2> QED
    BY <2>1, <2>2, <2>3, <2>4 DEF Located
<1>14. ListControl'
  <2>1. \A q \in Proc : list[q] # <<>> => Head(list[q]) \in Proc
    BY ListHead
  <2> QED
    BY <1>3, <1>9, <2>1 DEF Safe, ListControl, Handing
<1>15. ReaperControl'
  <2>1. pc[Reaper] = "reap_awake" => Head(reaping) \in Proc /\ Head(reaping) # x
    BY <1>2 DEF Safe, ReaperControl
  <2> QED
    BY <1>3, <1>9, <2>1 DEF Safe, ReaperControl
<1>16. CallbackControl'
  <2>1. CallbackControl
    BY DEF Safe
  <2>2. \A q \in Proc : InExecve(q) => pc'[callback[q].arg] = "desired"
    BY <1>3 DEF InExecve
  <2> QED
    BY <1>3, <1>9, <2>1, <2>2, CallbackFrame
<1>17. DeadControl'
  BY <1>3, <1>9 DEF Safe, DeadControl
<1>18. Settled(k2)'
  BY <1>2, <1>3, <1>4, <1>6, <1>9 DEF Safe, Settled, SettledAt
<1>19. Handshake(k2)'
  BY <1>2, <1>3, <1>6, <1>9 DEF Safe, Handshake, Requesting, AtChild
<1>20. Safe(k2, o)'
  BY <1>10, <1>11, <1>12, <1>13, <1>14, <1>15, <1>16, <1>17, <1>18, <1>19 DEF Safe
<1> QED
  BY <1>20

(* signal_wait_callback parks the process and releases the lock it holds.    *)
LEMMA SwitchWaitSafe ==
  ASSUME NEW k \in [Proc -> Kind], NEW o \in [Proc -> Owner], Safe(k, o), NEW c \in CPU, SwitchWait(c)
  PROVE  \E k2 \in [Proc -> Kind], o2 \in [Proc -> Owner] : Safe(k2, o2)'
<1> USE Actors
<1>1. PICK x \in Proc : x = current[c]
  BY DEF SwitchWait, Safe, CpuControl
<1>2. PICK w \in Wait : w = callback[x].arg /\ ((x = Parent /\ w = "monitor") \/ (x = Reaper /\ w = "reap_wait"))
  <2>1. cntr[x] = "CALLBACK" /\ callback[x].kind = "wait"
    BY <1>1 DEF SwitchWait
  <2>2. InWait(x)
    BY <2>1 DEF Safe, CallbackControl, InExecve
  <2>3. CASE x = Parent /\ callback[x].arg = "monitor"
    <3>1. "monitor" \in Wait
      BY DEF Wait
    <3> QED
      BY <2>3, <3>1
  <2>4. CASE x = Reaper /\ callback[x].arg = "reap_wait"
    <3>1. "reap_wait" \in Wait
      BY DEF Wait
    <3> QED
      BY <2>4, <3>1, Zenon
  <2> QED
    BY <2>2, <2>3, <2>4 DEF InWait
<1>3. /\ isr[c] = "switch" /\ cntr[x] = "CALLBACK" /\ callback[x].kind = "wait"
      /\ queue' = [queue EXCEPT ![w] = <<x>> \o @] /\ plock' = IF w = "monitor" THEN None ELSE plock
      /\ isr' = [isr EXCEPT ![c] = "pick"]
  BY <1>1, <1>2 DEF SwitchWait, IsrGoto
<1>4. /\ UNCHANGED <<current, isrObj, isrList, pc, cntr, callback, left, list, reaping>>
      /\ UNCHANGED <<active_queue, sleep_queue, reap_queue>>
      /\ UNCHANGED <<lock_sched, lock_proc, lock_reap, torn>>
  BY DEF SwitchWait
<1>5. k[x] = "cpu" /\ o[x] = c
  BY <1>1, <1>3 DEF Safe, Located, OnCpus
<1>6. PICK k2 \in [Proc -> Kind] : Moves(k, k2, x, w)
  <2>1. w \in Kind
    BY DEF Kind, Wait
  <2> QED
    BY <2>1, MoveExists
<1>7. k2[x] = w /\ \A p \in Proc \ {x} : k2[p] = k[p]
  BY <1>6 DEF Moves
<1>8. queue \in [Wait -> Seq(Proc)]
  BY DEF Safe, TypeOK
<1>9. queue'[w] \in Seq(Proc) /\ ToSet(queue'[w]) = ToSet(queue[w]) \cup {x} /\ IsInjective(queue'[w])
  <2>1. queue[w] \in Seq(Proc) /\ IsInjective(queue[w]) /\ x \notin ToSet(queue[w])
    BY <1>2, <1>5 DEF Safe, TypeOK, Unique, Located, Queued
  <2>2. queue'[w] = <<x>> \o queue[w]
    BY <1>3, <1>8
  <2> QED
    BY <2>1, <2>2, PrependQueue
<1>10. queue' \in [Wait -> Seq(Proc)] /\ \A v \in Wait \ {w} : queue'[v] = queue[v]
  <2>1. <<x>> \o queue[w] \in Seq(Proc)
    BY <1>8, PrependQueue
  <2> QED
    BY <1>3, <1>8, <2>1
<1>11. isr \in [CPU -> {"off", "switch", "discard", "take", "awake", "pick"}]
  BY DEF Safe, TypeOK
<1>12. TypeOK'
  BY <1>3, <1>4, <1>10 DEF Safe, TypeOK
<1>13. Unique'
  BY <1>4, <1>9, <1>10 DEF Safe, Unique
<1>14. CpuControl'
  BY <1>3, <1>4, <1>11 DEF Safe, CpuControl
<1>15. Located(k2, o)'
  <2>1. Queued(k2)'
    BY <1>2, <1>4, <1>5, <1>7, <1>9, <1>10 DEF Safe, Located, Queued, Wait
  <2>2. OnCpus(k2, o)'
    BY <1>1, <1>2, <1>3, <1>4, <1>5, <1>7, <1>11 DEF Safe, Located, OnCpus
  <2>3. Discarded(k2, o)' /\ Woken(k2, o)'
    BY <1>2, <1>4, <1>5, <1>7 DEF Safe, Located, Discarded, Woken
  <2>4. Listed(k2, o)' /\ Owned(k2, o)'
    BY <1>2, <1>4, <1>5, <1>7 DEF Safe, Located, Listed, Owned
  <2> QED
    BY <2>1, <2>2, <2>3, <2>4 DEF Located
<1>16. ListControl' /\ ReaperControl' /\ CallbackControl' /\ DeadControl'
  BY <1>4, ProcessesUntouched DEF Safe
<1>17. Settled(k2)'
  BY <1>2, <1>3, <1>4, <1>5, <1>7 DEF Safe, Settled, SettledAt
<1>18. Handshake(k2)'
  <2>1. CASE w = "monitor"
    <3>1. pc[x] = "halt" /\ x = Parent
      BY <1>2, <1>3, <2>1 DEF Safe, CallbackControl, InWait, InExecve
    <3>2. Requesting(k)
      BY <1>3, <1>5, <3>1 DEF Requesting
    <3>3. ~torn => plock = Parent /\ ~AtChild /\ cntr[Child] # "ZOMBIE"
      BY <3>2 DEF Safe, Handshake
    <3>4. ~Requesting(k2)' /\ AtChild' = AtChild
      BY <1>4, <1>7, <2>1, <3>1 DEF Requesting, AtChild
    <3> QED
      BY <1>4, <3>1, <3>3, <3>4 DEF Handshake
  <2>2. CASE w = "reap_wait"
    <3>1. queue'["monitor"] = queue["monitor"] /\ plock' = plock /\ x = Reaper
      BY <1>2, <1>3, <1>10, <2>2 DEF Wait
    <3> QED
      BY <1>4, <1>7, <3>1 DEF Safe, Handshake, Requesting, AtChild
  <2> QED
    BY <1>2, <2>1, <2>2
<1>19. Safe(k2, o)'
  BY <1>12, <1>13, <1>14, <1>15, <1>16, <1>17, <1>18 DEF Safe
<1> QED
  BY <1>19

(* case SCHED_KILL: the process leaves its CPU for process_discard.          *)
LEMMA SwitchKillSafe ==
  ASSUME NEW k \in [Proc -> Kind], NEW o \in [Proc -> Owner], Safe(k, o), NEW c \in CPU, SwitchKill(c)
  PROVE  \E k2 \in [Proc -> Kind], o2 \in [Proc -> Owner] : Safe(k2, o2)'
<1> USE Actors
<1>1. PICK x \in Proc : x = current[c]
  BY DEF SwitchKill, Safe, CpuControl
<1>2. /\ isr[c] = "switch" /\ cntr[x] = "KILL" /\ isrObj' = [isrObj EXCEPT ![c] = x]
      /\ isr' = [isr EXCEPT ![c] = "discard"]
  BY <1>1 DEF SwitchKill, IsrGoto
<1>3. /\ UNCHANGED <<current, isrList, pc, cntr, callback, left, list, reaping>>
      /\ UNCHANGED <<active_queue, sleep_queue, reap_queue, queue>>
      /\ UNCHANGED <<lock_sched, lock_proc, lock_reap, plock, torn>>
  BY DEF SwitchKill, lockVars, queueVars
<1>4. k[x] = "cpu" /\ o[x] = c
  BY <1>1, <1>2 DEF Safe, Located, OnCpus
<1>5. PICK k2 \in [Proc -> Kind] : Moves(k, k2, x, "obj")
  BY MoveExists DEF Kind
<1>6. k2[x] = "obj" /\ \A p \in Proc \ {x} : k2[p] = k[p]
  BY <1>5 DEF Moves
<1>7. /\ isr \in [CPU -> {"off", "switch", "discard", "take", "awake", "pick"}]
      /\ isrObj \in [CPU -> Proc \cup {None}] /\ isrObj[c] = None
  BY <1>2 DEF Safe, TypeOK, CpuControl
<1>8. TypeOK'
  BY <1>2, <1>3 DEF Safe, TypeOK
<1>9. Unique'
  BY <1>3 DEF Safe, Unique
<1>10. CpuControl'
  BY <1>2, <1>3, <1>7 DEF Safe, CpuControl
<1>11. Located(k2, o)'
  <2>1. Queued(k2)'
    BY <1>3, <1>4, <1>6 DEF Safe, Located, Queued
  <2>2. OnCpus(k2, o)'
    BY <1>1, <1>2, <1>3, <1>4, <1>6, <1>7 DEF Safe, Located, OnCpus
  <2>3. Discarded(k2, o)'
    BY <1>2, <1>4, <1>6, <1>7 DEF Safe, Located, Discarded
  <2>4. Woken(k2, o)' /\ Listed(k2, o)' /\ Owned(k2, o)'
    BY <1>3, <1>4, <1>6 DEF Safe, Located, Woken, Listed, Owned
  <2> QED
    BY <2>1, <2>2, <2>3, <2>4 DEF Located
<1>12. ListControl' /\ ReaperControl' /\ CallbackControl' /\ DeadControl'
  BY <1>3, ProcessesUntouched DEF Safe
<1>13. Settled(k2)'
  <2>1. x \notin Shadow
    BY <1>2 DEF Safe, DeadControl
  <2> QED
    BY <1>2, <1>3, <1>4, <1>6, <2>1 DEF Safe, Settled, SettledAt
<1>14. Handshake(k2)'
  BY <1>2, <1>3, <1>6 DEF Safe, Handshake, Requesting, AtChild
<1>15. Safe(k2, o)'
  BY <1>8, <1>9, <1>10, <1>11, <1>12, <1>13, <1>14 DEF Safe
<1> QED
  BY <1>15

(* process_discard hands the PCB to the reaper.                              *)
LEMMA DiscardSafe ==
  ASSUME NEW k \in [Proc -> Kind], NEW o \in [Proc -> Owner], Safe(k, o), NEW c \in CPU, Discard(c)
  PROVE  \E k2 \in [Proc -> Kind], o2 \in [Proc -> Owner] : Safe(k2, o2)'
<1> USE Actors
<1>1. PICK x \in Proc : x = isrObj[c]
  BY DEF Discard, Safe, CpuControl, TypeOK
<1>2. /\ isr[c] = "discard" /\ isrObj' = [isrObj EXCEPT ![c] = None]
      /\ reap_queue' = <<x>> \o reap_queue /\ isr' = [isr EXCEPT ![c] = "take"]
  BY <1>1 DEF Discard, IsrGoto
<1>3. /\ UNCHANGED <<current, isrList, pc, cntr, callback, left, list, reaping>>
      /\ UNCHANGED <<active_queue, sleep_queue, queue>>
      /\ UNCHANGED <<lock_sched, lock_proc, lock_reap, plock, torn>>
  BY DEF Discard, lockVars
<1>4. k[x] = "obj" /\ o[x] = c
  BY <1>1 DEF Safe, Located, Discarded
<1>5. PICK k2 \in [Proc -> Kind] : Moves(k, k2, x, "reap")
  BY MoveExists DEF Kind
<1>6. k2[x] = "reap" /\ \A p \in Proc \ {x} : k2[p] = k[p]
  BY <1>5 DEF Moves
<1>7. /\ isr \in [CPU -> {"off", "switch", "discard", "take", "awake", "pick"}]
      /\ isrObj \in [CPU -> Proc \cup {None}]
  BY DEF Safe, TypeOK
<1>8. reap_queue' \in Seq(Proc) /\ ToSet(reap_queue') = ToSet(reap_queue) \cup {x}
      /\ IsInjective(reap_queue')
  <2>1. reap_queue \in Seq(Proc) /\ IsInjective(reap_queue) /\ x \notin ToSet(reap_queue)
    BY <1>4 DEF Safe, TypeOK, Unique, Located, Queued
  <2> QED
    BY <1>2, <2>1, PrependQueue
<1>9. TypeOK'
  BY <1>2, <1>3, <1>8 DEF Safe, TypeOK
<1>10. Unique'
  BY <1>3, <1>8 DEF Safe, Unique
<1>11. CpuControl'
  BY <1>2, <1>3, <1>7 DEF Safe, CpuControl
<1>12. Located(k2, o)'
  <2>1. Queued(k2)'
    BY <1>3, <1>4, <1>6, <1>8 DEF Safe, Located, Queued
  <2>2. OnCpus(k2, o)'
    BY <1>2, <1>3, <1>4, <1>6, <1>7 DEF Safe, Located, OnCpus
  <2>3. Discarded(k2, o)'
    BY <1>1, <1>2, <1>4, <1>6, <1>7 DEF Safe, Located, Discarded
  <2>4. Woken(k2, o)' /\ Listed(k2, o)' /\ Owned(k2, o)'
    BY <1>3, <1>4, <1>6 DEF Safe, Located, Woken, Listed, Owned
  <2> QED
    BY <2>1, <2>2, <2>3, <2>4 DEF Located
<1>13. ListControl' /\ ReaperControl' /\ CallbackControl' /\ DeadControl'
  BY <1>3, ProcessesUntouched DEF Safe
<1>14. Settled(k2)'
  BY <1>3, <1>4, <1>6 DEF Safe, Settled, SettledAt
<1>15. Handshake(k2)'
  BY <1>3, <1>4, <1>6 DEF Safe, Handshake, Requesting, AtChild
<1>16. Safe(k2, o)'
  BY <1>9, <1>10, <1>11, <1>12, <1>13, <1>14, <1>15 DEF Safe
<1> QED
  BY <1>16

(* The place of every PCB of a queue changed.                                *)
MovesAll(f, g, from, d) == \A p \in Proc : g[p] = IF f[p] = from THEN d ELSE f[p]

(* The function that moves a whole queue.                                    *)
LEMMA MoveAllExists ==
  ASSUME NEW S, NEW f \in [Proc -> S], NEW from, NEW d \in S
  PROVE  \E g \in [Proc -> S] : MovesAll(f, g, from, d)
<1> DEFINE g == [p \in Proc |-> IF f[p] = from THEN d ELSE f[p]]
<1>1. g \in [Proc -> S] /\ \A p \in Proc : g[p] = IF f[p] = from THEN d ELSE f[p]
  OBVIOUS
<1> QED
  BY <1>1 DEF MovesAll

\* the owner of the PCBs of that queue
OwnsAll(k, f, g, from, d) == \A p \in Proc : g[p] = IF k[p] = from THEN d ELSE f[p]

(* The function that gives a whole queue to one owner.                       *)
LEMMA OwnAllExists ==
  ASSUME NEW S, NEW k, NEW f \in [Proc -> S], NEW from, NEW d \in S
  PROVE  \E g \in [Proc -> S] : OwnsAll(k, f, g, from, d)
<1> DEFINE g == [p \in Proc |-> IF k[p] = from THEN d ELSE f[p]]
<1>1. g \in [Proc -> S] /\ \A p \in Proc : g[p] = IF k[p] = from THEN d ELSE f[p]
  OBVIOUS
<1> QED
  BY <1>1 DEF OwnsAll

(* signal_awake takes the queue of reap_wait.                                *)
LEMMA DiscardTakeSafe ==
  ASSUME NEW k \in [Proc -> Kind], NEW o \in [Proc -> Owner], Safe(k, o), NEW c \in CPU, DiscardTake(c)
  PROVE  \E k2 \in [Proc -> Kind], o2 \in [Proc -> Owner] : Safe(k2, o2)'
<1> USE Actors
<1>1. /\ isr[c] = "take" /\ isrList' = [isrList EXCEPT ![c] = queue["reap_wait"]]
      /\ queue' = [queue EXCEPT !["reap_wait"] = <<>>] /\ isr' = [isr EXCEPT ![c] = "awake"]
  BY DEF DiscardTake, IsrGoto
<1>2. /\ UNCHANGED <<current, isrObj, pc, cntr, callback, left, list, reaping>>
      /\ UNCHANGED <<active_queue, sleep_queue, reap_queue>>
      /\ UNCHANGED <<lock_sched, lock_proc, lock_reap, plock, torn>>
  BY DEF DiscardTake, lockVars
<1>3. PICK k2 \in [Proc -> Kind] : MovesAll(k, k2, "reap_wait", "woken")
  BY MoveAllExists DEF Kind
<1>4. PICK o2 \in [Proc -> Owner] : OwnsAll(k, o, o2, "reap_wait", c)
  BY OwnAllExists DEF Owner
<1>5. \A p \in Proc : IF k[p] = "reap_wait" THEN k2[p] = "woken" /\ o2[p] = c ELSE k2[p] = k[p] /\ o2[p] = o[p]
  BY <1>3, <1>4 DEF MovesAll, OwnsAll
<1>6. /\ isr \in [CPU -> {"off", "switch", "discard", "take", "awake", "pick"}]
      /\ isrList \in [CPU -> Seq(Proc)] /\ queue \in [Wait -> Seq(Proc)]
      /\ isrList[c] = <<>> /\ "reap_wait" \in Wait /\ "monitor" \in Wait
  BY <1>1 DEF Safe, TypeOK, CpuControl, Wait
<1>7. /\ isrList'[c] = queue["reap_wait"] /\ \A d \in CPU \ {c} : isrList'[d] = isrList[d]
      /\ queue'["reap_wait"] = <<>> /\ queue'["monitor"] = queue["monitor"]
  BY <1>1, <1>6
<1>8. ToSet(<<>>) = {} /\ IsInjective(<<>>) /\ <<>> \in Seq(Proc)
  BY EmptyQueue
<1>9. TypeOK'
  <2>1. isrList' \in [CPU -> Seq(Proc)] /\ queue' \in [Wait -> Seq(Proc)]
    BY <1>1, <1>6, <1>8
  <2> QED
    BY <1>1, <1>2, <2>1 DEF Safe, TypeOK
<1>10. Unique'
  <2>1. \A d \in CPU : IsInjective(isrList'[d])
    BY <1>6, <1>7 DEF Safe, Unique
  <2>2. \A w \in Wait : IsInjective(queue'[w])
    BY <1>7, <1>8 DEF Safe, Unique, Wait
  <2> QED
    BY <1>2, <2>1, <2>2 DEF Safe, Unique
<1>11. CpuControl'
  BY <1>1, <1>2, <1>6, <1>7 DEF Safe, CpuControl
<1>12. Located(k2, o2)'
  <2>1. Queued(k2)'
    BY <1>2, <1>5, <1>7, <1>8 DEF Safe, Located, Queued
  <2>2. OnCpus(k2, o2)'
    BY <1>1, <1>2, <1>5, <1>6 DEF Safe, Located, OnCpus
  <2>3. Woken(k2, o2)'
    BY <1>5, <1>6, <1>7, <1>8 DEF Safe, Located, Woken, Queued
  <2>4. Discarded(k2, o2)' /\ Listed(k2, o2)' /\ Owned(k2, o2)'
    BY <1>2, <1>5 DEF Safe, Located, Discarded, Listed, Owned
  <2> QED
    BY <2>1, <2>2, <2>3, <2>4 DEF Located
<1>13. ListControl' /\ ReaperControl' /\ CallbackControl' /\ DeadControl'
  BY <1>2, ProcessesUntouched DEF Safe
<1>14. Settled(k2)'
  BY <1>2, <1>5 DEF Safe, Settled, SettledAt
<1>15. Handshake(k2)'
  BY <1>2, <1>5, <1>7 DEF Safe, Handshake, Requesting, AtChild
<1>16. Safe(k2, o2)'
  BY <1>9, <1>10, <1>11, <1>12, <1>13, <1>14, <1>15 DEF Safe
<1> QED
  BY <1>16

(* signal_awake is done.                                                     *)
LEMMA DiscardDone ==
  ASSUME NEW k \in [Proc -> Kind], NEW o \in [Proc -> Owner], Safe(k, o), NEW c \in CPU, DiscardAwake(c),
         isrList[c] = <<>>
  PROVE  Safe(k, o)'
<1> USE Actors
<1>1. isr[c] = "awake" /\ isr' = [isr EXCEPT ![c] = "pick"]
  BY DEF DiscardAwake, IsrGoto
<1>2. /\ UNCHANGED <<current, isrObj, isrList, pc, cntr, callback, left, list, reaping>>
      /\ UNCHANGED <<active_queue, sleep_queue, reap_queue, queue>>
      /\ UNCHANGED <<lock_sched, lock_proc, lock_reap, plock, torn>>
  BY DEF DiscardAwake, lockVars
<1>3. isr \in [CPU -> {"off", "switch", "discard", "take", "awake", "pick"}]
  BY DEF Safe, TypeOK
<1>4. TypeOK'
  BY <1>1, <1>2 DEF Safe, TypeOK
<1>5. Unique'
  BY <1>2 DEF Safe, Unique
<1>6. CpuControl'
  BY <1>1, <1>2, <1>3 DEF Safe, CpuControl
<1>7. Located(k, o)'
  <2>1. Queued(k)' /\ Listed(k, o)'
    BY <1>2 DEF Safe, Located, Queued, Listed
  <2>2. OnCpus(k, o)'
    BY <1>1, <1>2, <1>3 DEF Safe, Located, OnCpus
  <2>3. Discarded(k, o)' /\ Woken(k, o)' /\ Owned(k, o)'
    BY <1>2 DEF Safe, Located, Discarded, Woken, Owned
  <2> QED
    BY <2>1, <2>2, <2>3 DEF Located
<1>8. ListControl' /\ ReaperControl' /\ CallbackControl' /\ DeadControl'
  BY <1>2, ProcessesUntouched DEF Safe
<1>9. Settled(k)'
  BY <1>2 DEF Safe, Settled, SettledAt
<1>10. Handshake(k)'
  BY <1>2 DEF Safe, Handshake, Requesting, AtChild
<1> QED
  BY <1>4, <1>5, <1>6, <1>7, <1>8, <1>9, <1>10 DEF Safe

(* signal_awake marks and schedules the first PCB it took.                   *)
LEMMA DiscardWakes ==
  ASSUME NEW k \in [Proc -> Kind], NEW o \in [Proc -> Owner], Safe(k, o), NEW c \in CPU, DiscardAwake(c),
         isrList[c] # <<>>
  PROVE  \E k2 \in [Proc -> Kind], o2 \in [Proc -> Owner] : Safe(k2, o2)'
<1> USE Actors
<1>1. isrList \in [CPU -> Seq(Proc)] /\ IsInjective(isrList[c]) /\ isrList[c] \in Seq(Proc)
  BY DEF Safe, TypeOK, Unique
<1>2. PICK x \in Proc : x = Head(isrList[c])
  BY <1>1, PopQueue
<1>3. /\ isr[c] = "awake" /\ cntr' = [cntr EXCEPT ![x] = "SIGNAL_READY"]
      /\ active_queue' = Append(active_queue, x) /\ isrList' = [isrList EXCEPT ![c] = Tail(isrList[c])]
  BY <1>2 DEF DiscardAwake
<1>4. /\ UNCHANGED <<isr, current, isrObj, pc, callback, left, list, reaping>>
      /\ UNCHANGED <<sleep_queue, reap_queue, queue>>
      /\ UNCHANGED <<lock_sched, lock_proc, lock_reap, plock, torn>>
  BY DEF DiscardAwake, lockVars
<1>5. /\ Tail(isrList[c]) \in Seq(Proc) /\ IsInjective(Tail(isrList[c]))
      /\ x \in ToSet(isrList[c]) /\ ToSet(Tail(isrList[c])) = ToSet(isrList[c]) \ {x}
  BY <1>1, <1>2, PopQueue
<1>6. k[x] = "woken" /\ o[x] = c
  BY <1>5 DEF Safe, Located, Woken
<1>7. PICK k2 \in [Proc -> Kind] : Moves(k, k2, x, "active")
  BY MoveExists DEF Kind
<1>8. k2[x] = "active" /\ \A p \in Proc \ {x} : k2[p] = k[p]
  BY <1>7 DEF Moves
<1>9. active_queue' \in Seq(Proc) /\ ToSet(active_queue') = ToSet(active_queue) \cup {x}
      /\ IsInjective(active_queue')
  <2>1. active_queue \in Seq(Proc) /\ IsInjective(active_queue) /\ x \notin ToSet(active_queue)
    BY <1>6 DEF Safe, TypeOK, Unique, Located, Queued
  <2> QED
    BY <1>3, <2>1, AppendQueue
<1>10. /\ isrList' \in [CPU -> Seq(Proc)] /\ IsInjective(isrList'[c])
       /\ ToSet(isrList'[c]) = ToSet(isrList[c]) \ {x}
       /\ \A d \in CPU \ {c} : isrList'[d] = isrList[d]
  <2> DEFINE t == Tail(isrList[c])
  <2>1. t \in Seq(Proc) /\ IsInjective(t) /\ ToSet(t) = ToSet(isrList[c]) \ {x}
        /\ isrList' = [isrList EXCEPT ![c] = t]
    BY <1>3, <1>5
  <2> HIDE DEF t
  <2>2. isrList'[c] = t
    BY <1>1, <2>1
  <2>3. isrList' \in [CPU -> Seq(Proc)] /\ \A d \in CPU \ {c} : isrList'[d] = isrList[d]
    BY <1>1, <2>1
  <2> QED
    BY <2>1, <2>2, <2>3
<1>11. cntr \in [Proc -> SchedCntr]
  BY DEF Safe, TypeOK
<1>12. cntr'[x] = "SIGNAL_READY" /\ \A p \in Proc \ {x} : cntr'[p] = cntr[p]
  BY <1>3, <1>11
<1>13. TypeOK'
  <2>1. cntr' \in [Proc -> SchedCntr]
    BY <1>3, <1>11 DEF SchedCntr
  <2> QED
    BY <1>4, <1>9, <1>10, <2>1 DEF Safe, TypeOK
<1>14. Unique'
  <2>1. \A d \in CPU : IsInjective(isrList'[d])
    BY <1>10 DEF Safe, Unique
  <2> QED
    BY <1>4, <1>9, <2>1 DEF Safe, Unique
<1>15. CpuControl'
  BY <1>3, <1>4, <1>10 DEF Safe, CpuControl
<1>16. Located(k2, o)'
  <2>1. Queued(k2)'
    BY <1>4, <1>6, <1>8, <1>9 DEF Safe, Located, Queued
  <2>2. OnCpus(k2, o)' /\ Discarded(k2, o)'
    BY <1>4, <1>6, <1>8 DEF Safe, Located, OnCpus, Discarded
  <2>3. Woken(k2, o)'
    BY <1>6, <1>8, <1>10 DEF Safe, Located, Woken
  <2>4. Listed(k2, o)' /\ Owned(k2, o)'
    BY <1>4, <1>6, <1>8 DEF Safe, Located, Listed, Owned
  <2> QED
    BY <2>1, <2>2, <2>3, <2>4 DEF Located
<1>17. ListControl'
  <2>1. \A q \in Proc : list[q] # <<>> => Head(list[q]) \in Proc
    BY ListHead
  <2> QED
    BY <1>4, <1>12, <2>1 DEF Safe, ListControl, Handing
<1>18. ReaperControl'
  <2>1. pc[Reaper] = "reap_awake" => Head(reaping) \in Proc /\ Head(reaping) # x
    BY <1>6, ReapingHead DEF Safe, ReaperControl
  <2> QED
    BY <1>4, <1>12, <2>1 DEF Safe, ReaperControl
<1>19. CallbackControl'
  <2>1. CallbackControl
    BY DEF Safe
  <2>2. \A q \in Proc : InExecve(q) => pc'[callback[q].arg] = "desired"
    BY <1>4 DEF InExecve
  <2> QED
    BY <1>4, <1>12, <2>1, <2>2, CallbackFrame
<1>20. DeadControl'
  BY <1>4, <1>12 DEF Safe, DeadControl
<1>21. Settled(k2)'
  BY <1>4, <1>6, <1>8, <1>12 DEF Safe, Settled, SettledAt
<1>22. Handshake(k2)'
  BY <1>4, <1>8, <1>12 DEF Safe, Handshake, Requesting, AtChild
<1>23. Safe(k2, o)'
  BY <1>13, <1>14, <1>15, <1>16, <1>17, <1>18, <1>19, <1>20, <1>21, <1>22 DEF Safe
<1> QED
  BY <1>23

(* The swap of process_execve: the process stays runnable and the PCB with   *)
(* its old image, which nobody else has seen, is the one to discard.         *)
LEMMA SwitchExecveSafe ==
  ASSUME NEW k \in [Proc -> Kind], NEW o \in [Proc -> Owner], Safe(k, o), NEW c \in CPU, SwitchExecve(c)
  PROVE  \E k2 \in [Proc -> Kind], o2 \in [Proc -> Owner] : Safe(k2, o2)'
<1> USE Actors
<1>1. PICK x \in Proc : x = current[c]
  BY DEF SwitchExecve, Safe, CpuControl
<1>2. cntr[x] = "CALLBACK" /\ InExecve(x)
  <2>1. cntr[x] = "CALLBACK" /\ callback[x].kind = "execve"
    BY <1>1 DEF SwitchExecve
  <2> QED
    BY <2>1 DEF Safe, CallbackControl, InWait
<1>3. PICK s \in Shadow : s = callback[x].arg
  BY <1>2 DEF InExecve
<1>4. s \in Proc /\ s # x /\ pc[s] = "desired" /\ pc[x] = "exec" /\ x \notin Shadow /\ s \notin {Parent, Child, Reaper}
  <2>1. s \in Proc /\ pc[s] = "desired" /\ pc[x] = "exec" /\ s \notin {Parent, Child, Reaper}
    BY <1>2, <1>3 DEF InExecve
  <2>2. x \notin Shadow
    BY <2>1 DEF Safe, DeadControl
  <2> QED
    BY <2>1, <2>2
<1>5. /\ isr[c] = "switch" /\ pc' = [pc EXCEPT ![x] = "run", ![s] = "stale"]
      /\ cntr' = [cntr EXCEPT ![x] = "READY"] /\ active_queue' = Append(active_queue, x)
      /\ isrObj' = [isrObj EXCEPT ![c] = s] /\ isr' = [isr EXCEPT ![c] = "discard"]
  BY <1>1, <1>3 DEF SwitchExecve, IsrGoto
<1>6. /\ plock' = IF x = Child THEN None ELSE plock
      /\ torn' = (torn \/ (x = Child /\ plock # None))
  BY <1>1 DEF SwitchExecve
<1>7. /\ UNCHANGED <<current, isrList, callback, left, list, reaping>>
      /\ UNCHANGED <<sleep_queue, reap_queue, queue>>
      /\ UNCHANGED <<lock_sched, lock_proc, lock_reap>>
  BY DEF SwitchExecve
<1>8. k[x] = "cpu" /\ o[x] = c /\ k[s] = "nowhere"
  BY <1>1, <1>4, <1>5 DEF Safe, Located, OnCpus, Settled, SettledAt
<1>9. PICK k1 \in [Proc -> Kind] : Moves(k, k1, x, "active")
  BY MoveExists DEF Kind
<1>10. PICK k2 \in [Proc -> Kind] : Moves(k1, k2, s, "obj")
  BY <1>4, MoveExists DEF Kind
<1>11. PICK o2 \in [Proc -> Owner] : Moves(o, o2, s, c)
  BY <1>4, MoveExists DEF Owner
<1>12. /\ k2[x] = "active" /\ k2[s] = "obj" /\ o2[s] = c /\ o2[x] = c
       /\ \A p \in Proc \ {x, s} : k2[p] = k[p] /\ o2[p] = o[p]
  BY <1>4, <1>8, <1>9, <1>10, <1>11 DEF Moves
<1>13. active_queue' \in Seq(Proc) /\ ToSet(active_queue') = ToSet(active_queue) \cup {x}
      /\ IsInjective(active_queue')
  <2>1. active_queue \in Seq(Proc) /\ IsInjective(active_queue) /\ x \notin ToSet(active_queue)
    BY <1>8 DEF Safe, TypeOK, Unique, Located, Queued
  <2> QED
    BY <1>5, <2>1, AppendQueue
<1>14. /\ isr \in [CPU -> {"off", "switch", "discard", "take", "awake", "pick"}]
       /\ isrObj \in [CPU -> Proc \cup {None}] /\ isrObj[c] = None
       /\ pc \in [Proc -> Labels] /\ cntr \in [Proc -> SchedCntr]
  BY <1>5 DEF Safe, TypeOK, CpuControl
<1>15. /\ pc'[x] = "run" /\ pc'[s] = "stale" /\ \A p \in Proc \ {x, s} : pc'[p] = pc[p]
       /\ cntr'[x] = "READY" /\ \A p \in Proc \ {x} : cntr'[p] = cntr[p]
  BY <1>4, <1>5, <1>14
<1>16. TypeOK'
  <2>1. pc' \in [Proc -> Labels]
    BY <1>5, <1>14 DEF Labels
  <2>2. cntr' \in [Proc -> SchedCntr]
    BY <1>5, <1>14 DEF SchedCntr
  <2>3. isr' \in [CPU -> {"off", "switch", "discard", "take", "awake", "pick"}]
        /\ isrObj' \in [CPU -> Proc \cup {None}]
    BY <1>4, <1>5, <1>14
  <2>4. plock' \in Proc \cup {None} /\ torn' \in BOOLEAN
    BY <1>6 DEF Safe, TypeOK
  <2> QED
    BY <1>7, <1>13, <2>1, <2>2, <2>3, <2>4 DEF Safe, TypeOK
<1>17. Unique'
  BY <1>7, <1>13 DEF Safe, Unique
<1>18. CpuControl'
  BY <1>4, <1>5, <1>7, <1>14 DEF Safe, CpuControl
<1>19. Located(k2, o2)'
  <2>1. Queued(k2)'
    BY <1>4, <1>7, <1>8, <1>12, <1>13 DEF Safe, Located, Queued
  <2>2. OnCpus(k2, o2)'
    BY <1>1, <1>4, <1>5, <1>7, <1>8, <1>12, <1>14 DEF Safe, Located, OnCpus
  <2>3. Discarded(k2, o2)'
    BY <1>4, <1>5, <1>8, <1>12, <1>14 DEF Safe, Located, Discarded
  <2>4. Woken(k2, o2)' /\ Owned(k2, o2)'
    BY <1>4, <1>7, <1>8, <1>12 DEF Safe, Located, Woken, Owned
  <2>5. Listed(k2, o2)'
    BY <1>4, <1>7, <1>8, <1>12 DEF Safe, Located, Listed
  <2> QED
    BY <2>1, <2>2, <2>3, <2>4, <2>5 DEF Located
<1>20. ListControl'
  <2>1. \A q \in Proc : list[q] # <<>> => Head(list[q]) \in Proc
    BY ListHead
  <2> QED
    BY <1>4, <1>7, <1>15, <2>1 DEF Safe, ListControl, Handing
<1>21. ReaperControl'
  <2>1. pc[Reaper] = "reap_awake" => Head(reaping) \in Proc /\ Head(reaping) # x
    BY <1>2 DEF Safe, ReaperControl
  <2> QED
    BY <1>4, <1>7, <1>15, <2>1 DEF Safe, ReaperControl, ReaperLabels, Handing
<1>22. CallbackControl'
  <2>1. CallbackControl
    BY DEF Safe
  <2>2. ASSUME NEW q \in Proc, cntr'[q] = "CALLBACK"
        PROVE  /\ cntr[q] = "CALLBACK" /\ pc'[q] = pc[q] /\ callback'[q] = callback[q]
               /\ InExecve(q) => pc'[callback[q].arg] = "desired"
    <3>1. q # x /\ cntr[q] = "CALLBACK"
      BY <1>15, <2>2
    <3>2. q # s
      BY <1>4, <2>1, <3>1 DEF CallbackControl, InWait, InExecve
    <3>3. ASSUME InExecve(q) PROVE pc'[callback[q].arg] = "desired"
      <4>1. callback[q].kind = "execve" /\ callback[x].kind = "execve"
            /\ callback[q].arg \in Shadow /\ pc[callback[q].arg] = "desired"
        BY <1>2, <3>3 DEF InExecve
      <4>2. callback[q].arg # s
        BY <1>2, <1>3, <2>1, <3>1, <4>1 DEF CallbackControl
      <4> QED
        BY <1>4, <1>15, <4>1, <4>2
    <3> QED
      BY <1>7, <1>15, <3>1, <3>2, <3>3
  <2> QED
    BY <2>1, <2>2, CallbackFrame
<1>23. DeadControl'
  BY <1>4, <1>15 DEF Safe, DeadControl
<1>24. Settled(k2)'
  <2> SUFFICES ASSUME NEW q \in Proc PROVE SettledAt(q, k2[q])'
    BY DEF Settled
  <2>1. SettledAt(q, k[q])
    BY DEF Safe, Settled
  <2>2. ~torn' => ~torn
    BY <1>6
  <2>3. CASE q = x
    BY <1>12, <1>15, <2>3 DEF SettledAt
  <2>4. CASE q = s
    <3>1. cntr[s] # "ZOMBIE"
      BY DEF Safe, DeadControl
    <3> QED
      BY <1>4, <1>12, <1>15, <2>4, <3>1 DEF SettledAt
  <2>5. CASE q \notin {x, s}
    <3>1. pc[Reaper] = "reap_awake" => pc'[Reaper] = "reap_awake"
      BY <1>4, <1>15
    <3> QED
      BY <1>7, <1>12, <1>15, <2>1, <2>2, <2>5, <3>1 DEF SettledAt
  <2> QED
    BY <2>3, <2>4, <2>5
<1>25. Handshake(k2)'
  <2> SUFFICES ASSUME ~torn' PROVE Handshake(k2)'
    BY DEF Handshake
  <2>1. ~torn /\ plock' = plock
    BY <1>6
  <2>2. Requesting(k2)' => Requesting(k)
    BY <1>4, <1>12, <1>15 DEF Requesting
  <2>3. AtChild' => AtChild
    BY <1>4, <1>7, <1>15 DEF AtChild
  <2>4. cntr'[Child] = "ZOMBIE" => cntr[Child] = "ZOMBIE"
    BY <1>15
  <2>5. pc'[Parent] = "wait_check" => pc[Parent] = "wait_check"
    BY <1>4, <1>15
  <2>6. pc[Reaper] = "reap_awake" => pc'[Reaper] = "reap_awake"
    BY <1>4, <1>15
  <2>7. queue' = queue /\ reaping' = reaping
    BY <1>7
  <2> QED
    BY <2>1, <2>2, <2>3, <2>4, <2>5, <2>6, <2>7 DEF Safe, Handshake
<1>26. Safe(k2, o2)'
  BY <1>16, <1>17, <1>18, <1>19, <1>20, <1>21, <1>22, <1>23, <1>24, <1>25 DEF Safe
<1> QED
  BY <1>26

(* The end of scheduler_run: the due sleepers become runnable and the first  *)
(* runnable PCB, if there is one, gets the CPU.                              *)
LEMMA PickSafe ==
  ASSUME NEW k \in [Proc -> Kind], NEW o \in [Proc -> Owner], Safe(k, o), NEW c \in CPU, Pick(c)
  PROVE  \E k2 \in [Proc -> Kind], o2 \in [Proc -> Owner] : Safe(k2, o2)'
<1> USE Actors
<1> DEFINE due == SubSeq(sleep_queue, 1, DuePrefix)
           rest == SubSeq(sleep_queue, DuePrefix + 1, Len(sleep_queue))
           ready == active_queue \o due
<1>1. /\ isr[c] = "pick" /\ sleep_queue' = rest /\ isr' = [isr EXCEPT ![c] = "off"]
      /\ active_queue' = IF ready = <<>> THEN <<>> ELSE Tail(ready)
      /\ current' = [current EXCEPT ![c] = IF ready = <<>> THEN None ELSE Head(ready)]
  BY DEF Pick, IsrGoto
<1>2. /\ UNCHANGED <<isrObj, isrList, pc, cntr, callback, left, list, reaping>>
      /\ UNCHANGED <<reap_queue, queue>>
      /\ UNCHANGED <<lock_sched, lock_proc, lock_reap, plock, torn>>
  BY DEF Pick, lockVars
<1>3. /\ active_queue \in Seq(Proc) /\ IsInjective(active_queue)
      /\ sleep_queue \in Seq(Proc) /\ IsInjective(sleep_queue)
  BY DEF Safe, TypeOK, Unique
<1>4. /\ due \in Seq(Proc) /\ IsInjective(due) /\ rest \in Seq(Proc) /\ IsInjective(rest)
      /\ ToSet(sleep_queue) = ToSet(due) \cup ToSet(rest) /\ ToSet(due) \cap ToSet(rest) = {}
  <2>1. DuePrefix \in 0 .. Len(sleep_queue)
    BY DuePrefixInQueue DEF Safe
  <2> QED
    BY <1>3, <2>1, CutQueue
<1>5. \A p \in Proc : ~(p \in ToSet(active_queue) /\ p \in ToSet(sleep_queue))
  BY DEF Safe, Located, Queued
<1> HIDE DEF due, rest
<1>6. \A p \in ToSet(active_queue) : p \in Proc
  BY <1>3 DEF ToSet
<1>7. ready \in Seq(Proc) /\ IsInjective(ready) /\ ToSet(ready) = ToSet(active_queue) \cup ToSet(due)
  <2>1. ToSet(active_queue) \cap ToSet(due) = {}
    BY <1>4, <1>5, <1>6
  <2> QED
    BY <1>3, <1>4, <2>1, JoinQueues
<1> HIDE DEF ready
<1>8. /\ isr \in [CPU -> {"off", "switch", "discard", "take", "awake", "pick"}]
      /\ current \in [CPU -> Proc \cup {None}]
  BY DEF Safe, TypeOK
<1>9. PICK D : D = ToSet(due)
  OBVIOUS
<1>10. PICK k1 \in [Proc -> Kind] : \A p \in Proc : k1[p] = IF p \in D THEN "active" ELSE k[p]
  <2> DEFINE g == [p \in Proc |-> IF p \in D THEN "active" ELSE k[p]]
  <2>1. g \in [Proc -> Kind] /\ \A p \in Proc : g[p] = IF p \in D THEN "active" ELSE k[p]
    BY DEF Kind
  <2> QED
    BY <2>1
<1>11. \A p \in Proc : p \in D => k[p] = "sleep"
  BY <1>4, <1>9 DEF Safe, Located, Queued
<1>12. \A p \in Proc : (p \in ToSet(ready) <=> k1[p] = "active") /\ (p \in ToSet(rest) <=> k1[p] = "sleep")
  BY <1>4, <1>5, <1>7, <1>9, <1>10 DEF Safe, Located, Queued
<1>13. \A p \in Proc : k1[p] = "cpu" => ~(o[p] = c)
  BY <1>1, <1>10 DEF Safe, Located, OnCpus
<1>14. ListControl' /\ ReaperControl' /\ CallbackControl' /\ DeadControl'
  BY <1>2, ProcessesUntouched DEF Safe
<1>15. CASE ready = <<>>
  <2>1. active_queue' = <<>> /\ current' = [current EXCEPT ![c] = None]
    BY <1>1, <1>15
  <2>2. ToSet(<<>>) = {} /\ IsInjective(<<>>) /\ <<>> \in Seq(Proc)
    BY EmptyQueue
  <2>3. TypeOK'
    <3>1. current' \in [CPU -> Proc \cup {None}]
          /\ isr' \in [CPU -> {"off", "switch", "discard", "take", "awake", "pick"}]
      BY <1>1, <1>8, <2>1
    <3> QED
      BY <1>1, <1>2, <1>4, <2>1, <2>2, <3>1 DEF Safe, TypeOK
  <2>4. Unique'
    BY <1>1, <1>2, <1>4, <2>1, <2>2 DEF Safe, Unique
  <2>5. CpuControl'
    BY <1>1, <1>2, <1>8, <2>1 DEF Safe, CpuControl
  <2>6. \A p \in Proc : k1[p] # "active"
    BY <1>12, <1>15, <2>2
  <2>7. Located(k1, o)'
    <3>1. Queued(k1)'
      BY <1>1, <1>2, <1>10, <1>11, <1>12, <2>1, <2>2, <2>6 DEF Safe, Located, Queued
    <3>2. OnCpus(k1, o)'
      BY <1>1, <1>8, <1>10, <1>11, <1>13, <2>1, <2>6 DEF Safe, Located, OnCpus
    <3>3. Discarded(k1, o)' /\ Woken(k1, o)'
      BY <1>2, <1>10, <1>11 DEF Safe, Located, Discarded, Woken
    <3>4. Listed(k1, o)' /\ Owned(k1, o)'
      BY <1>2, <1>10, <1>11 DEF Safe, Located, Listed, Owned
    <3> QED
      BY <3>1, <3>2, <3>3, <3>4 DEF Located
  <2>8. Settled(k1)'
    BY <1>2, <1>10, <1>11 DEF Safe, Settled, SettledAt
  <2>9. Handshake(k1)'
    BY <1>2, <1>10 DEF Safe, Handshake, Requesting, AtChild
  <2>10. Safe(k1, o)'
    BY <1>14, <2>3, <2>4, <2>5, <2>7, <2>8, <2>9 DEF Safe
  <2> QED
    BY <2>10
<1>16. CASE ready # <<>>
  <2>1. /\ Tail(ready) \in Seq(Proc) /\ Head(ready) \in Proc /\ Head(ready) \in ToSet(ready)
        /\ ToSet(Tail(ready)) = ToSet(ready) \ {Head(ready)} /\ IsInjective(Tail(ready))
    BY <1>7, <1>16, PopQueue
  <2>2. PICK x \in Proc : x = Head(ready)
    BY <2>1
  <2>3. /\ active_queue' \in Seq(Proc) /\ IsInjective(active_queue')
        /\ ToSet(active_queue') = ToSet(ready) \ {x} /\ current' = [current EXCEPT ![c] = x]
    BY <1>1, <1>16, <2>1, <2>2
  <2>4. k1[x] = "active" /\ k[x] \in {"active", "sleep"}
    BY <1>10, <1>11, <1>12, <2>1, <2>2
  <2>5. PICK k2 \in [Proc -> Kind] : Moves(k1, k2, x, "cpu")
    BY MoveExists DEF Kind
  <2>6. PICK o2 \in [Proc -> Owner] : Moves(o, o2, x, c)
    BY MoveExists DEF Owner
  <2>7. /\ k2[x] = "cpu" /\ o2[x] = c
        /\ \A p \in Proc \ {x} : k2[p] = k1[p] /\ o2[p] = o[p]
    BY <2>5, <2>6 DEF Moves
  <2>8. TypeOK'
    <3>1. current' \in [CPU -> Proc \cup {None}]
          /\ isr' \in [CPU -> {"off", "switch", "discard", "take", "awake", "pick"}]
      BY <1>1, <1>8, <2>3
    <3> QED
      BY <1>1, <1>2, <1>4, <2>3, <3>1 DEF Safe, TypeOK
  <2>9. Unique'
    BY <1>1, <1>2, <1>4, <2>3 DEF Safe, Unique
  <2>10. CpuControl'
    BY <1>1, <1>2, <1>8, <2>3 DEF Safe, CpuControl
  <2>11. Located(k2, o2)'
    <3>1. Queued(k2)'
      BY <1>1, <1>2, <1>10, <1>11, <1>12, <2>3, <2>4, <2>7 DEF Safe, Located, Queued
    <3>2. OnCpus(k2, o2)'
      <4> SUFFICES ASSUME NEW p \in Proc, NEW d \in CPU
                   PROVE  (current'[d] = p /\ isr'[d] \in {"off", "switch"}) <=> (k2[p] = "cpu" /\ o2[p] = d)
        BY DEF OnCpus
      <4>1. (current[d] = p /\ isr[d] \in {"off", "switch"}) <=> (k[p] = "cpu" /\ o[p] = d)
        BY DEF Safe, Located, OnCpus
      <4>2. current'[d] = (IF d = c THEN x ELSE current[d]) /\ isr'[d] = IF d = c THEN "off" ELSE isr[d]
        BY <1>1, <1>8, <2>3
      <4>3. k1[p] = "cpu" <=> k[p] = "cpu"
        BY <1>10, <1>11
      <4>4. CASE p = x
        BY <2>4, <2>7, <4>1, <4>2, <4>4
      <4>5. CASE p # x
        BY <1>13, <2>7, <4>1, <4>2, <4>3, <4>5
      <4> QED
        BY <4>4, <4>5
    <3>3. Discarded(k2, o2)' /\ Woken(k2, o2)'
      BY <1>2, <1>10, <1>11, <2>4, <2>7 DEF Safe, Located, Discarded, Woken
    <3>4. Listed(k2, o2)' /\ Owned(k2, o2)'
      BY <1>2, <1>10, <1>11, <2>4, <2>7 DEF Safe, Located, Listed, Owned
    <3> QED
      BY <3>1, <3>2, <3>3, <3>4 DEF Located
  <2>12. Settled(k2)'
    <3> SUFFICES ASSUME NEW p \in Proc PROVE SettledAt(p, k2[p])'
      BY DEF Settled
    <3>1. SettledAt(p, k[p])
      BY DEF Safe, Settled
    <3>2. CASE p = x
      BY <1>2, <2>4, <2>7, <3>1, <3>2 DEF SettledAt
    <3>3. CASE p # x
      BY <1>2, <1>10, <1>11, <2>7, <3>1, <3>3 DEF SettledAt
    <3> QED
      BY <3>2, <3>3
  <2>13. Handshake(k2)'
    <3>1. Requesting(k2)' => Requesting(k)
      <4>1. cntr[x] # "CALLBACK"
        BY <2>4 DEF Safe, Settled, SettledAt
      <4> QED
        BY <1>2, <1>10, <2>7, <4>1 DEF Requesting
    <3> QED
      BY <1>2, <3>1 DEF Safe, Handshake, AtChild
  <2>14. Safe(k2, o2)'
    BY <1>14, <2>8, <2>9, <2>10, <2>11, <2>12, <2>13 DEF Safe
  <2> QED
    BY <2>14
<1> QED
  BY <1>15, <1>16

-----------------------------------------------------------------------------
(* The steps of processes that move PCBs.                                    *)

(* scheduler_schedule appends the PCB, which can be run at once.             *)
LEMMA ScheduleAppendSafe ==
  ASSUME NEW k \in [Proc -> Kind], NEW o \in [Proc -> Owner], Safe(k, o), NEW p \in Proc, ScheduleAppend(p)
  PROVE  \E k2 \in [Proc -> Kind], o2 \in [Proc -> Owner] : Safe(k2, o2)'
<1> USE Actors
<1>1. pc[p] = "sched_append" /\ Runs(p) /\ list[p] # <<>> /\ cntr[Head(list[p])] # "CALLBACK"
  BY DEF ScheduleAppend, At, Safe, ListControl, Handing
<1>2. PICK x \in Proc : x = Head(list[p])
  BY <1>1, ListHead
<1>3. k[x] = "list" /\ o[x] = p /\ k[p] = "cpu" /\ x # p /\ cntr[x] # "CALLBACK"
  BY <1>1, <1>2, ListHead, RunningIsOnCpu DEF Safe
<1>4. PICK label : label = IF p = Reaper THEN "awake_next" ELSE "run"
  OBVIOUS
<1>5. /\ active_queue' = Append(active_queue, x) /\ list' = [list EXCEPT ![p] = Tail(list[p])]
      /\ pc' = [pc EXCEPT ![p] = label] /\ lock_sched' = None
  BY <1>2, <1>4 DEF ScheduleAppend, Goto
<1>6. /\ UNCHANGED <<current, isr, isrObj, isrList, cntr, callback, left, reaping>>
      /\ UNCHANGED <<sleep_queue, reap_queue, queue>>
      /\ UNCHANGED <<lock_proc, lock_reap, plock, torn>>
  BY DEF ScheduleAppend, cpuVars
<1>7. list \in [Proc -> Seq(Proc)] /\ pc \in [Proc -> Labels] /\ list[p] \in Seq(Proc) /\ IsInjective(list[p])
  BY DEF Safe, TypeOK, Unique
<1>8. /\ Tail(list[p]) \in Seq(Proc) /\ IsInjective(Tail(list[p]))
      /\ ToSet(Tail(list[p])) = ToSet(list[p]) \ {x}
  BY <1>1, <1>2, <1>7, PopQueue
<1>9. /\ list' \in [Proc -> Seq(Proc)] /\ IsInjective(list'[p])
      /\ ToSet(list'[p]) = ToSet(list[p]) \ {x} /\ \A q \in Proc \ {p} : list'[q] = list[q]
  <2> DEFINE t == Tail(list[p])
  <2>1. t \in Seq(Proc) /\ IsInjective(t) /\ ToSet(t) = ToSet(list[p]) \ {x} /\ list' = [list EXCEPT ![p] = t]
    BY <1>5, <1>8
  <2> HIDE DEF t
  <2>2. list'[p] = t
    BY <1>7, <2>1
  <2>3. list' \in [Proc -> Seq(Proc)] /\ \A q \in Proc \ {p} : list'[q] = list[q]
    BY <1>7, <2>1
  <2> QED
    BY <2>1, <2>2, <2>3
<1>10. p # Reaper => list'[p] = <<>>
  <2>1. p # Reaper => list[p] = <<Child>>
    BY <1>1 DEF Safe, ListControl
  <2>2. list'[p] = Tail(list[p])
    BY <1>5, <1>7
  <2>3. Tail(<<Child>>) = <<>>
    OBVIOUS
  <2> QED
    BY <2>1, <2>2, <2>3, Zenon
<1>11. pc'[p] = label /\ \A q \in Proc \ {p} : pc'[q] = pc[q]
  BY <1>5, <1>7
<1>12. active_queue' \in Seq(Proc) /\ ToSet(active_queue') = ToSet(active_queue) \cup {x}
      /\ IsInjective(active_queue')
  <2>1. active_queue \in Seq(Proc) /\ IsInjective(active_queue) /\ x \notin ToSet(active_queue)
    BY <1>3 DEF Safe, TypeOK, Unique, Located, Queued
  <2> QED
    BY <1>5, <2>1, AppendQueue
<1>13. PICK k2 \in [Proc -> Kind] : Moves(k, k2, x, "active")
  BY MoveExists DEF Kind
<1>14. k2[x] = "active" /\ \A q \in Proc \ {x} : k2[q] = k[q]
  BY <1>13 DEF Moves
<1>15. TypeOK'
  <2>1. pc' \in [Proc -> Labels]
    BY <1>4, <1>5, <1>7 DEF Labels
  <2>2. lock_sched' = None
    BY <1>5
  <2>3. list' \in [Proc -> Seq(Proc)] /\ active_queue' \in Seq(Proc)
    BY <1>9, <1>12
  <2> QED
    BY <1>6, <2>1, <2>2, <2>3 DEF Safe, TypeOK
<1>16. Unique'
  <2>1. \A q \in Proc : IsInjective(list'[q])
    BY <1>9 DEF Safe, Unique
  <2> QED
    BY <1>6, <1>12, <2>1 DEF Safe, Unique
<1>17. CpuControl'
  BY <1>6 DEF Safe, CpuControl
<1>18. Located(k2, o)'
  <2>1. Queued(k2)'
    BY <1>3, <1>6, <1>12, <1>14 DEF Safe, Located, Queued
  <2>2. OnCpus(k2, o)' /\ Discarded(k2, o)'
    BY <1>3, <1>6, <1>14 DEF Safe, Located, OnCpus, Discarded
  <2>3. Woken(k2, o)' /\ Owned(k2, o)'
    BY <1>3, <1>6, <1>14 DEF Safe, Located, Woken, Owned
  <2>4. Listed(k2, o)'
    <3> SUFFICES ASSUME NEW r \in Proc, NEW q \in Proc
                 PROVE  r \in ToSet(list'[q]) <=> (k2[r] = "list" /\ o[r] = q)
      BY DEF Listed
    <3>1. r \in ToSet(list[q]) <=> (k[r] = "list" /\ o[r] = q)
      BY DEF Safe, Located, Listed
    <3>2. CASE q = p
      BY <1>3, <1>9, <1>14, <3>1, <3>2
    <3>3. CASE q # p
      BY <1>3, <1>9, <1>14, <3>1, <3>3
    <3> QED
      BY <3>2, <3>3
  <2> QED
    BY <2>1, <2>2, <2>3, <2>4 DEF Located
<1>19. ListControl'
  <2> SUFFICES ASSUME NEW q \in Proc
               PROVE  /\ list'[q] # <<>> => pc'[q] \in Handing \cup {"awake_next"}
                      /\ list'[q] # <<>> /\ q # Reaper => list'[q] = <<Child>>
                      /\ pc'[q] \in Handing => list'[q] # <<>> /\ cntr'[Head(list'[q])] # "CALLBACK"
    BY DEF ListControl
  <2>1. CASE q = p
    BY <1>4, <1>10, <1>11, <2>1 DEF Handing
  <2>2. CASE q # p
    BY <1>6, <1>9, <1>11, <2>2 DEF Safe, ListControl
  <2> QED
    BY <2>1, <2>2
<1>20. ReaperControl'
  BY <1>1, <1>4, <1>6, <1>11 DEF Safe, ReaperControl, ReaperLabels, Handing
<1>21. CallbackControl'
  <2>1. CallbackControl
    BY DEF Safe
  <2>2. \A q \in Proc : cntr'[q] = "CALLBACK" => cntr[q] = "CALLBACK" /\ q # p
    BY <1>1, <1>6 DEF Safe, CallbackControl, InWait, InExecve
  <2>3. \A q \in Proc : InExecve(q) => pc'[callback[q].arg] = "desired"
    BY <1>1, <1>11 DEF InExecve
  <2> QED
    BY <1>6, <1>11, <2>1, <2>2, <2>3, CallbackFrame
<1>22. DeadControl'
  BY <1>1, <1>4, <1>6, <1>11 DEF Safe, DeadControl
<1>23. Settled(k2)'
  <2> SUFFICES ASSUME NEW q \in Proc PROVE SettledAt(q, k2[q])'
    BY DEF Settled
  <2>1. SettledAt(q, k[q])
    BY DEF Safe, Settled
  <2>2. pc[Reaper] = "reap_awake" => pc'[Reaper] = "reap_awake"
    BY <1>1, <1>11
  <2>3. CASE q = x
    BY <1>3, <1>6, <1>11, <1>14, <2>1, <2>3 DEF SettledAt
  <2>4. CASE q = p
    <3>1. label \in {"run", "awake_next"}
      BY <1>4
    <3> QED
      BY <1>3, <1>6, <1>11, <1>14, <2>1, <2>4, <3>1 DEF SettledAt
  <2>5. CASE q \notin {x, p}
    BY <1>6, <1>11, <1>14, <2>1, <2>2, <2>5 DEF SettledAt
  <2> QED
    BY <2>3, <2>4, <2>5
<1>24. Handshake(k2)'
  <2>1. Requesting(k2)' => Requesting(k)
    BY <1>3, <1>4, <1>6, <1>11, <1>14 DEF Requesting
  <2>2. AtChild' => AtChild
    BY <1>4, <1>6, <1>11 DEF AtChild
  <2>3. pc'[Parent] = "wait_check" => pc[Parent] = "wait_check"
    BY <1>4, <1>11
  <2>4. pc[Reaper] = "reap_awake" => pc'[Reaper] = "reap_awake"
    BY <1>1, <1>11
  <2> QED
    BY <1>6, <2>1, <2>2, <2>3, <2>4 DEF Safe, Handshake
<1>25. Safe(k2, o)'
  BY <1>15, <1>16, <1>17, <1>18, <1>19, <1>20, <1>21, <1>22, <1>23, <1>24 DEF Safe
<1> QED
  BY <1>25

(* process_fork creates the child and is about to schedule it.               *)
LEMMA ForkSafe ==
  ASSUME NEW k \in [Proc -> Kind], NEW o \in [Proc -> Owner], Safe(k, o), Fork
  PROVE  \E k2 \in [Proc -> Kind], o2 \in [Proc -> Owner] : Safe(k2, o2)'
<1> USE Actors
<1>1. /\ pc[Parent] = "run" /\ Runs(Parent) /\ pc[Child] = "unborn"
      /\ pc' = [pc EXCEPT ![Parent] = "sched_lock", ![Child] = "run"]
      /\ list' = [list EXCEPT ![Parent] = <<Child>>]
  BY DEF Fork, At
<1>2. /\ UNCHANGED <<current, isr, isrObj, isrList, cntr, callback, left, reaping>>
      /\ UNCHANGED <<active_queue, sleep_queue, reap_queue, queue>>
      /\ UNCHANGED <<lock_sched, lock_proc, lock_reap, plock, torn>>
  BY DEF Fork, cpuVars, queueVars, lockVars
<1>3. /\ k[Parent] = "cpu" /\ k[Child] = "nowhere"
      /\ cntr[Child] \notin {"CALLBACK", "KILL", "ZOMBIE"} /\ cntr[Parent] \notin {"CALLBACK", "KILL", "ZOMBIE"}
  <2>1. k[Parent] = "cpu"
    BY <1>1, RunningIsOnCpu DEF Safe
  <2>2. k[Child] = "nowhere"
    BY <1>1 DEF Safe, Settled, SettledAt
  <2>3. cntr[Child] # "CALLBACK" /\ cntr[Parent] # "CALLBACK"
    BY <1>1 DEF Safe, CallbackControl, InWait, InExecve
  <2>4. cntr[Child] \notin {"KILL", "ZOMBIE"} /\ cntr[Parent] \notin {"KILL", "ZOMBIE"}
    BY <1>1 DEF Safe, DeadControl
  <2> QED
    BY <2>1, <2>2, <2>3, <2>4
<1>4. list \in [Proc -> Seq(Proc)] /\ pc \in [Proc -> Labels]
  BY DEF Safe, TypeOK
<1>5. list[Parent] = <<>> /\ list[Child] = <<>>
  BY <1>1 DEF Safe, ListControl, Handing
<1>6. /\ pc'[Parent] = "sched_lock" /\ pc'[Child] = "run"
      /\ \A q \in Proc \ {Parent, Child} : pc'[q] = pc[q]
  BY <1>1, <1>4
<1>7. list'[Parent] = <<Child>> /\ \A q \in Proc \ {Parent} : list'[q] = list[q]
  BY <1>1, <1>4
<1>8. <<Child>> \in Seq(Proc) /\ ToSet(<<Child>>) = {Child} /\ IsInjective(<<Child>>) /\ <<Child>> # <<>>
  BY SingletonQueue
<1>9. ToSet(<<>>) = {}
  BY EmptyQueue
<1>10. PICK k2 \in [Proc -> Kind] : Moves(k, k2, Child, "list")
  BY MoveExists DEF Kind
<1>11. PICK o2 \in [Proc -> Owner] : Moves(o, o2, Child, Parent)
  BY MoveExists DEF Owner
<1>12. /\ k2[Child] = "list" /\ o2[Child] = Parent
       /\ \A q \in Proc \ {Child} : k2[q] = k[q] /\ o2[q] = o[q]
  BY <1>10, <1>11 DEF Moves
<1>13. TypeOK'
  <2>1. pc' \in [Proc -> Labels]
    BY <1>1, <1>4 DEF Labels
  <2>2. list' \in [Proc -> Seq(Proc)]
    BY <1>1, <1>4, <1>8
  <2> QED
    BY <1>2, <2>1, <2>2 DEF Safe, TypeOK
<1>14. Unique'
  <2>1. \A q \in Proc : IsInjective(list'[q])
    BY <1>7, <1>8 DEF Safe, Unique
  <2> QED
    BY <1>2, <2>1 DEF Safe, Unique
<1>15. CpuControl'
  BY <1>2 DEF Safe, CpuControl
<1>16. Located(k2, o2)'
  <2>1. Queued(k2)'
    BY <1>2, <1>3, <1>12 DEF Safe, Located, Queued
  <2>2. OnCpus(k2, o2)' /\ Discarded(k2, o2)'
    BY <1>2, <1>3, <1>12 DEF Safe, Located, OnCpus, Discarded
  <2>3. Woken(k2, o2)' /\ Owned(k2, o2)'
    BY <1>2, <1>3, <1>12 DEF Safe, Located, Woken, Owned
  <2>4. Listed(k2, o2)'
    <3> SUFFICES ASSUME NEW p \in Proc, NEW q \in Proc
                 PROVE  p \in ToSet(list'[q]) <=> (k2[p] = "list" /\ o2[p] = q)
      BY DEF Listed
    <3>1. p \in ToSet(list[q]) <=> (k[p] = "list" /\ o[p] = q)
      BY DEF Safe, Located, Listed
    <3>2. CASE q = Parent
      BY <1>3, <1>5, <1>7, <1>8, <1>9, <1>12, <3>1, <3>2
    <3>3. CASE q # Parent
      BY <1>3, <1>7, <1>12, <3>1, <3>3
    <3> QED
      BY <3>2, <3>3
  <2> QED
    BY <2>1, <2>2, <2>3, <2>4 DEF Located
<1>17. ListControl'
  <2> SUFFICES ASSUME NEW q \in Proc
               PROVE  /\ list'[q] # <<>> => pc'[q] \in Handing \cup {"awake_next"}
                      /\ list'[q] # <<>> /\ q # Reaper => list'[q] = <<Child>>
                      /\ pc'[q] \in Handing => list'[q] # <<>> /\ cntr'[Head(list'[q])] # "CALLBACK"
    BY DEF ListControl
  <2>1. CASE q = Parent
    <3>1. Head(<<Child>>) = Child
      OBVIOUS
    <3> QED
      BY <1>2, <1>3, <1>6, <1>7, <1>8, <2>1, <3>1 DEF Handing
  <2>2. CASE q = Child
    BY <1>5, <1>6, <1>7, <2>2 DEF Handing
  <2>3. CASE q \notin {Parent, Child}
    BY <1>2, <1>6, <1>7, <2>3 DEF Safe, ListControl
  <2> QED
    BY <2>1, <2>2, <2>3
<1>18. ReaperControl'
  BY <1>2, <1>6 DEF Safe, ReaperControl, ReaperLabels, Handing
<1>19. CallbackControl'
  <2>1. CallbackControl
    BY DEF Safe
  <2>2. \A q \in Proc : cntr'[q] = "CALLBACK" => cntr[q] = "CALLBACK" /\ q \notin {Parent, Child}
    BY <1>2, <1>3
  <2>3. \A q \in Proc : InExecve(q) => pc'[callback[q].arg] = "desired"
    BY <1>6 DEF InExecve
  <2> QED
    BY <1>2, <1>6, <2>1, <2>2, <2>3, CallbackFrame
<1>20. DeadControl'
  BY <1>2, <1>3, <1>6 DEF Safe, DeadControl
<1>21. Settled(k2)'
  <2> SUFFICES ASSUME NEW q \in Proc PROVE SettledAt(q, k2[q])'
    BY DEF Settled
  <2>1. SettledAt(q, k[q])
    BY DEF Safe, Settled
  <2>2. CASE q = Parent
    BY <1>2, <1>3, <1>6, <1>12, <2>2 DEF SettledAt
  <2>3. CASE q = Child
    BY <1>2, <1>3, <1>6, <1>12, <2>3 DEF SettledAt
  <2>4. CASE q \notin {Parent, Child}
    BY <1>2, <1>6, <1>12, <2>1, <2>4 DEF SettledAt
  <2> QED
    BY <2>2, <2>3, <2>4
<1>22. Handshake(k2)'
  BY <1>2, <1>3, <1>6 DEF Safe, Handshake, Requesting, AtChild
<1>23. Safe(k2, o2)'
  BY <1>13, <1>14, <1>15, <1>16, <1>17, <1>18, <1>19, <1>20, <1>21, <1>22 DEF Safe
<1> QED
  BY <1>23

(* process_reap takes reap_queue.                                            *)
LEMMA ReapTakeSafe ==
  ASSUME NEW k \in [Proc -> Kind], NEW o \in [Proc -> Owner], Safe(k, o), ReapTake
  PROVE  \E k2 \in [Proc -> Kind], o2 \in [Proc -> Owner] : Safe(k2, o2)'
<1> USE Actors
<1>1. /\ pc[Reaper] = "reap_take" /\ Runs(Reaper) /\ pc' = [pc EXCEPT ![Reaper] = "reap_next"]
      /\ reaping' = reap_queue /\ reap_queue' = <<>> /\ lock_reap' = None
  BY DEF ReapTake, At, Goto
<1>2. /\ UNCHANGED <<current, isr, isrObj, isrList, cntr, callback, left, list>>
      /\ UNCHANGED <<active_queue, sleep_queue, queue>>
      /\ UNCHANGED <<lock_sched, lock_proc, plock, torn>>
  BY DEF ReapTake, cpuVars
<1>3. reaping = <<>>
  BY <1>1 DEF Safe, ReaperControl, Handing
<1>4. ToSet(<<>>) = {} /\ IsInjective(<<>>) /\ <<>> \in Seq(Proc)
  BY EmptyQueue
<1>5. PICK k2 \in [Proc -> Kind] : MovesAll(k, k2, "reap", "reaping")
  BY MoveAllExists DEF Kind
<1>6. \A p \in Proc : k2[p] = IF k[p] = "reap" THEN "reaping" ELSE k[p]
  BY <1>5 DEF MovesAll
<1>7. \A p \in Proc : k[p] # "reaping"
  BY <1>3, <1>4 DEF Safe, Located, Queued
<1>8. pc \in [Proc -> Labels] /\ pc'[Reaper] = "reap_next" /\ \A q \in Proc \ {Reaper} : pc'[q] = pc[q]
  BY <1>1 DEF Safe, TypeOK
<1>9. TypeOK'
  <2>1. pc' \in [Proc -> Labels]
    BY <1>1, <1>8 DEF Labels
  <2> QED
    BY <1>1, <1>2, <1>4, <2>1 DEF Safe, TypeOK
<1>10. Unique'
  BY <1>1, <1>2, <1>4 DEF Safe, Unique
<1>11. CpuControl'
  BY <1>2 DEF Safe, CpuControl
<1>12. Located(k2, o)'
  <2>1. Queued(k2)'
    BY <1>1, <1>2, <1>4, <1>6, <1>7 DEF Safe, Located, Queued
  <2>2. OnCpus(k2, o)' /\ Discarded(k2, o)'
    BY <1>2, <1>6 DEF Safe, Located, OnCpus, Discarded
  <2>3. Woken(k2, o)' /\ Owned(k2, o)'
    BY <1>2, <1>6 DEF Safe, Located, Woken, Owned
  <2>4. Listed(k2, o)'
    BY <1>2, <1>6 DEF Safe, Located, Listed
  <2> QED
    BY <2>1, <2>2, <2>3, <2>4 DEF Located
<1>13. ListControl'
  BY <1>1, <1>2, <1>8 DEF Safe, ListControl, Handing
<1>14. ReaperControl'
  BY <1>2, <1>8 DEF Safe, ReaperControl, ReaperLabels, Handing
<1>15. CallbackControl'
  <2>1. CallbackControl
    BY DEF Safe
  <2>2. \A q \in Proc : cntr'[q] = "CALLBACK" => cntr[q] = "CALLBACK" /\ q # Reaper
    BY <1>1, <1>2 DEF Safe, CallbackControl, InWait, InExecve
  <2>3. \A q \in Proc : InExecve(q) => pc'[callback[q].arg] = "desired"
    BY <1>8 DEF InExecve
  <2> QED
    BY <1>2, <1>8, <2>1, <2>2, <2>3, CallbackFrame
<1>16. DeadControl'
  BY <1>1, <1>2, <1>8 DEF Safe, DeadControl
<1>17. Settled(k2)'
  <2> SUFFICES ASSUME NEW q \in Proc PROVE SettledAt(q, k2[q])'
    BY DEF Settled
  <2>1. SettledAt(q, k[q])
    BY DEF Safe, Settled
  <2>2. CASE q = Reaper
    <3>1. k[q] = "cpu"
      BY <1>1, <2>2, RunningIsOnCpu DEF Safe
    <3> QED
      BY <1>1, <1>2, <1>6, <1>8, <2>1, <2>2, <3>1 DEF SettledAt
  <2>3. CASE q # Reaper
    BY <1>1, <1>2, <1>6, <1>7, <1>8, <2>1, <2>3 DEF SettledAt
  <2> QED
    BY <2>2, <2>3
<1>18. Handshake(k2)'
  <2>1. Requesting(k2)' => Requesting(k)
    BY <1>2, <1>6, <1>8 DEF Requesting
  <2>2. ~AtChild'
    BY <1>8 DEF AtChild
  <2> QED
    BY <1>1, <1>2, <1>8, <2>1, <2>2 DEF Safe, Handshake
<1>19. Safe(k2, o)'
  BY <1>9, <1>10, <1>11, <1>12, <1>13, <1>14, <1>15, <1>16, <1>17, <1>18 DEF Safe
<1> QED
  BY <1>19

(* reap_prepare gives the memory of a stale image or of a thread back.       *)
LEMMA ReapFrees ==
  ASSUME NEW k \in [Proc -> Kind], NEW o \in [Proc -> Owner], Safe(k, o), ReapPrepare,
         reaping # <<>>, Head(reaping) \notin User
  PROVE  \E k2 \in [Proc -> Kind], o2 \in [Proc -> Owner] : Safe(k2, o2)'
<1> USE Actors
<1>1. PICK x \in Proc : x = Head(reaping)
  BY ReapingHead
<1>2. /\ pc[Reaper] = "reap_next" /\ Runs(Reaper) /\ pc' = [pc EXCEPT ![x] = "freed"]
      /\ reaping' = Tail(reaping)
  BY <1>1 DEF ReapPrepare, At
<1>3. /\ UNCHANGED <<current, isr, isrObj, isrList, cntr, callback, left, list>>
      /\ UNCHANGED <<active_queue, sleep_queue, reap_queue, queue>>
      /\ UNCHANGED <<lock_sched, lock_proc, lock_reap, plock, torn>>
  BY DEF ReapPrepare, cpuVars, queueVars
<1>4. k[x] = "reaping" /\ k[Reaper] = "cpu" /\ x # Reaper /\ x \notin User
  BY <1>1, <1>2, ReapingHead, RunningIsOnCpu DEF Safe
<1>5. /\ reaping' \in Seq(Proc) /\ IsInjective(reaping') /\ ToSet(reaping') = ToSet(reaping) \ {x}
  <2>1. reaping \in Seq(Proc) /\ IsInjective(reaping)
    BY DEF Safe, TypeOK, Unique
  <2> QED
    BY <1>1, <1>2, <2>1, PopQueue
<1>6. pc \in [Proc -> Labels] /\ pc'[x] = "freed" /\ \A q \in Proc \ {x} : pc'[q] = pc[q]
  BY <1>2 DEF Safe, TypeOK
<1>7. /\ pc[x] \in {"stale", "kill_release", "dead", "freed"} /\ cntr[x] # "CALLBACK" /\ cntr[x] # "ZOMBIE"
      /\ list[x] = <<>>
  <2>1. (x \in Shadow /\ pc[x] = "stale") \/ (x \notin Shadow /\ cntr[x] \in {"KILL", "ZOMBIE"})
    BY <1>4 DEF Safe, Settled, SettledAt
  <2>2. pc[x] \in {"stale", "kill_release", "dead", "freed"}
    BY <2>1 DEF Safe, DeadControl
  <2>3. cntr[x] # "CALLBACK"
    BY <2>2 DEF Safe, CallbackControl, InWait, InExecve
  <2>4. cntr[x] # "ZOMBIE"
    BY <1>4 DEF Safe, Settled, SettledAt
  <2>5. list[x] = <<>>
    BY <2>2 DEF Safe, ListControl, Handing
  <2> QED
    BY <2>2, <2>3, <2>4, <2>5
<1>8. PICK k2 \in [Proc -> Kind] : Moves(k, k2, x, "nowhere")
  BY MoveExists DEF Kind
<1>9. k2[x] = "nowhere" /\ \A q \in Proc \ {x} : k2[q] = k[q]
  BY <1>8 DEF Moves
<1>10. TypeOK'
  <2>1. pc' \in [Proc -> Labels]
    BY <1>2, <1>6 DEF Labels
  <2>2. reaping' \in Seq(Proc)
    BY <1>5
  <2> QED
    BY <1>3, <2>1, <2>2 DEF Safe, TypeOK
<1>11. Unique'
  BY <1>3, <1>5 DEF Safe, Unique
<1>12. CpuControl'
  BY <1>3 DEF Safe, CpuControl
<1>13. Located(k2, o)'
  <2>1. Queued(k2)'
    BY <1>3, <1>4, <1>5, <1>9 DEF Safe, Located, Queued
  <2>2. OnCpus(k2, o)' /\ Discarded(k2, o)'
    BY <1>3, <1>4, <1>9 DEF Safe, Located, OnCpus, Discarded
  <2>3. Woken(k2, o)' /\ Owned(k2, o)'
    BY <1>3, <1>4, <1>9 DEF Safe, Located, Woken, Owned
  <2>4. Listed(k2, o)'
    BY <1>3, <1>4, <1>9 DEF Safe, Located, Listed
  <2> QED
    BY <2>1, <2>2, <2>3, <2>4 DEF Located
<1>14. ListControl'
  BY <1>3, <1>6, <1>7 DEF Safe, ListControl, Handing
<1>15. pc'[Reaper] = "reap_next"
  BY <1>2, <1>4, <1>6
<1>16. ReaperControl'
  BY <1>6, <1>15 DEF Safe, ReaperControl, ReaperLabels, Handing
<1>17. CallbackControl'
  <2>1. CallbackControl
    BY DEF Safe
  <2>2. \A q \in Proc : cntr'[q] = "CALLBACK" => cntr[q] = "CALLBACK" /\ q # x
    BY <1>3, <1>7
  <2>3. \A q \in Proc : InExecve(q) => pc'[callback[q].arg] = "desired"
    BY <1>6, <1>7 DEF InExecve
  <2> QED
    BY <1>3, <1>6, <2>1, <2>2, <2>3, CallbackFrame
<1>18. DeadControl'
  BY <1>3, <1>6 DEF Safe, DeadControl
<1>19. Settled(k2)'
  <2> SUFFICES ASSUME NEW q \in Proc PROVE SettledAt(q, k2[q])'
    BY DEF Settled
  <2>1. SettledAt(q, k[q])
    BY DEF Safe, Settled
  <2>2. CASE q = x
    BY <1>3, <1>6, <1>7, <1>9, <2>2 DEF SettledAt
  <2>3. CASE q # x
    BY <1>2, <1>3, <1>6, <1>9, <2>1, <2>3 DEF SettledAt
  <2> QED
    BY <2>2, <2>3
<1>20. Handshake(k2)'
  <2>1. Requesting(k2)' => Requesting(k)
    BY <1>3, <1>6, <1>9 DEF Requesting
  <2>2. ~AtChild' /\ pc[Reaper] # "reap_awake"
    BY <1>2, <1>15 DEF AtChild
  <2>3. pc'[Parent] = "wait_check" => pc[Parent] = "wait_check"
    BY <1>6
  <2> QED
    BY <1>3, <2>1, <2>2, <2>3 DEF Safe, Handshake
<1>21. Safe(k2, o)'
  BY <1>10, <1>11, <1>12, <1>13, <1>14, <1>16, <1>17, <1>18, <1>19, <1>20 DEF Safe
<1> QED
  BY <1>21

(* signal_awake_locked takes the whole queue of the child's monitor and      *)
(* releases the plock.                                                       *)
LEMMA ReapAwakeSafe ==
  ASSUME NEW k \in [Proc -> Kind], NEW o \in [Proc -> Owner], Safe(k, o), ReapAwake
  PROVE  \E k2 \in [Proc -> Kind], o2 \in [Proc -> Owner] : Safe(k2, o2)'
<1> USE Actors
<1>1. pc[Reaper] = "reap_awake" /\ Runs(Reaper) /\ reaping # <<>> /\ k[Reaper] = "cpu"
  BY RunningIsOnCpu DEF ReapAwake, At, Safe, ReaperControl
<1>2. PICK x \in Proc : x = Head(reaping)
  BY <1>1, ReapingHead
<1>3. /\ k[x] = "reaping" /\ x \in User /\ cntr[x] = "ZOMBIE" /\ list[Reaper] = <<>>
  BY <1>1, <1>2, ReapingHead DEF Safe, ReaperControl, ListControl, Handing
<1>4. /\ pc' = [pc EXCEPT ![Reaper] = "awake_next"] /\ reaping' = Tail(reaping)
      /\ UNCHANGED <<current, isr, isrObj, isrList, cntr, callback, left>>
      /\ UNCHANGED <<active_queue, sleep_queue, reap_queue>>
      /\ UNCHANGED <<lock_sched, lock_proc, lock_reap, torn>>
  BY DEF ReapAwake, Goto, cpuVars
<1>5. /\ pc \in [Proc -> Labels] /\ pc'[Reaper] = "awake_next" /\ \A q \in Proc \ {Reaper} : pc'[q] = pc[q]
  BY <1>4 DEF Safe, TypeOK
<1>6. /\ reaping' \in Seq(Proc) /\ IsInjective(reaping') /\ ToSet(reaping') = ToSet(reaping) \ {x}
  <2>1. reaping \in Seq(Proc) /\ IsInjective(reaping)
    BY DEF Safe, TypeOK, Unique
  <2> QED
    BY <1>1, <1>2, <1>4, <2>1, PopQueue
<1>7. /\ list \in [Proc -> Seq(Proc)] /\ queue \in [Wait -> Seq(Proc)]
      /\ "monitor" \in Wait /\ "reap_wait" \in Wait
  BY DEF Safe, TypeOK, Wait
<1>8. ToSet(<<>>) = {} /\ IsInjective(<<>>) /\ <<>> \in Seq(Proc)
  BY EmptyQueue
<1>9. PICK k1 \in [Proc -> Kind] : Moves(k, k1, x, "nowhere")
  BY MoveExists DEF Kind
<1>10. k1[x] = "nowhere" /\ \A q \in Proc \ {x} : k1[q] = k[q]
  BY <1>9 DEF Moves
<1>11. pc' \in [Proc -> Labels]
  BY <1>4, <1>5 DEF Labels
<1>12. CpuControl'
  BY <1>4 DEF Safe, CpuControl
<1>13. ReaperControl'
  BY <1>5 DEF Safe, ReaperControl, ReaperLabels, Handing
<1>14. CallbackControl'
  <2>1. CallbackControl
    BY DEF Safe
  <2>2. \A q \in Proc : cntr'[q] = "CALLBACK" => cntr[q] = "CALLBACK" /\ q # Reaper
    BY <1>1, <1>4 DEF Safe, CallbackControl, InWait, InExecve
  <2>3. \A q \in Proc : InExecve(q) => pc'[callback[q].arg] = "desired"
    BY <1>1, <1>5 DEF InExecve
  <2> QED
    BY <1>4, <1>5, <2>1, <2>2, <2>3, CallbackFrame
<1>15. DeadControl'
  BY <1>1, <1>4, <1>5 DEF Safe, DeadControl
<1>16. \A q \in Proc : cntr[q] = "ZOMBIE" /\ k[q] = "reaping" => q = x
  BY <1>2 DEF Safe, Settled, SettledAt
<1>17. ASSUME NEW k2, \A q \in Proc : k2[q] = k1[q] \/ (k1[q] = "monitor" /\ k2[q] = "list")
       PROVE  Settled(k2)'
  <2> SUFFICES ASSUME NEW q \in Proc PROVE SettledAt(q, k2[q])'
    BY DEF Settled
  <2>1. SettledAt(q, k[q])
    BY DEF Safe, Settled
  <2>2. CASE q = x
    <3>1. k2[q] = "nowhere"
      BY <1>10, <1>17, <2>2
    <3> QED
      BY <1>3, <1>4, <2>2, <3>1 DEF SettledAt
  <2>3. CASE q = Reaper
    <3>1. k2[q] = "cpu"
      BY <1>1, <1>3, <1>10, <1>17, <2>3
    <3>2. cntr[q] # "ZOMBIE"
      BY <1>1, <2>1, <2>3 DEF SettledAt
    <3> QED
      BY <1>4, <1>5, <2>3, <3>1, <3>2 DEF SettledAt
  <2>4. CASE q \notin {x, Reaper}
    <3>1. k2[q] = k[q] \/ (k[q] = "monitor" /\ k2[q] = "list")
      BY <1>10, <1>17, <2>4
    <3>2. cntr[q] = "ZOMBIE" => k[q] = "nowhere"
      BY <1>16, <2>1, <2>4 DEF SettledAt
    <3> QED
      BY <1>4, <1>5, <2>1, <2>4, <3>1, <3>2 DEF SettledAt
  <2> QED
    BY <2>2, <2>3, <2>4
<1>18. CASE x = Child
  <2>1. /\ list' = [list EXCEPT ![Reaper] = queue["monitor"]]
        /\ queue' = [queue EXCEPT !["monitor"] = <<>>] /\ plock' = None
    BY <1>2, <1>18 DEF ReapAwake
  <2>2. PICK k2 \in [Proc -> Kind] : MovesAll(k1, k2, "monitor", "list")
    BY MoveAllExists DEF Kind
  <2>3. PICK o2 \in [Proc -> Owner] : OwnsAll(k1, o, o2, "monitor", Reaper)
    BY OwnAllExists DEF Owner
  <2>4. \A p \in Proc : IF k1[p] = "monitor" THEN k2[p] = "list" /\ o2[p] = Reaper ELSE k2[p] = k1[p] /\ o2[p] = o[p]
    BY <2>2, <2>3 DEF MovesAll, OwnsAll
  <2>5. \A p \in Proc : k1[p] = "monitor" <=> k[p] = "monitor"
    BY <1>3, <1>10
  <2>6. /\ list'[Reaper] = queue["monitor"] /\ \A q \in Proc \ {Reaper} : list'[q] = list[q]
        /\ queue'["monitor"] = <<>> /\ queue'["reap_wait"] = queue["reap_wait"]
    BY <1>7, <2>1
  <2>7. TypeOK'
    <3>1. list' \in [Proc -> Seq(Proc)] /\ queue' \in [Wait -> Seq(Proc)]
      BY <1>7, <1>8, <2>1
    <3>2. plock' = None /\ reaping' \in Seq(Proc)
      BY <1>6, <2>1
    <3>3. /\ UNCHANGED <<current, isr, isrObj, isrList, cntr, callback, left>>
          /\ UNCHANGED <<active_queue, sleep_queue, reap_queue>>
          /\ UNCHANGED <<lock_sched, lock_proc, lock_reap, torn>>
      BY <1>4
    <3> QED
      BY <1>11, <3>1, <3>2, <3>3 DEF Safe, TypeOK
  <2>8. Unique'
    <3>1. \A q \in Proc : IsInjective(list'[q])
      BY <1>7, <2>6 DEF Safe, Unique
    <3>2. \A w \in Wait : IsInjective(queue'[w])
      BY <1>8, <2>6 DEF Safe, Unique, Wait
    <3>3. /\ UNCHANGED <<isrList, active_queue, sleep_queue, reap_queue>>
      BY <1>4
    <3>4. IsInjective(reaping')
      BY <1>6
    <3> QED
      BY <3>1, <3>2, <3>3, <3>4 DEF Safe, Unique
  <2>9. UNCHANGED <<current, isr, isrObj, isrList, active_queue, sleep_queue, reap_queue>>
    BY <1>4
  <2>10. Located(k2, o2)'
    <3>1. Queued(k2)'
      BY <1>3, <1>6, <1>8, <1>10, <2>4, <2>5, <2>6, <2>9 DEF Safe, Located, Queued
    <3>2. OnCpus(k2, o2)' /\ Discarded(k2, o2)'
      BY <1>3, <1>10, <2>4, <2>5, <2>9 DEF Safe, Located, OnCpus, Discarded
    <3>3. Woken(k2, o2)' /\ Owned(k2, o2)'
      BY <1>3, <1>10, <2>4, <2>5, <2>9 DEF Safe, Located, Woken, Owned
    <3>4. Listed(k2, o2)'
      <4> SUFFICES ASSUME NEW p \in Proc, NEW q \in Proc
                   PROVE  p \in ToSet(list'[q]) <=> (k2[p] = "list" /\ o2[p] = q)
        BY DEF Listed
      <4>1. p \in ToSet(list[q]) <=> (k[p] = "list" /\ o[p] = q)
        BY DEF Safe, Located, Listed
      <4>2. p \in ToSet(queue["monitor"]) <=> k[p] = "monitor"
        BY DEF Safe, Located, Queued
      <4>3. CASE q = Reaper
        BY <1>3, <1>8, <1>10, <2>4, <2>5, <2>6, <4>1, <4>2, <4>3
      <4>4. CASE q # Reaper
        BY <1>3, <1>10, <2>4, <2>5, <2>6, <4>1, <4>4
      <4> QED
        BY <4>3, <4>4
    <3> QED
      BY <3>1, <3>2, <3>3, <3>4 DEF Located
  <2>11. ListControl'
    <3> SUFFICES ASSUME NEW q \in Proc
                 PROVE  /\ list'[q] # <<>> => pc'[q] \in Handing \cup {"awake_next"}
                        /\ list'[q] # <<>> /\ q # Reaper => list'[q] = <<Child>>
                        /\ pc'[q] \in Handing => list'[q] # <<>> /\ cntr'[Head(list'[q])] # "CALLBACK"
      BY DEF ListControl
    <3>1. CASE q = Reaper
      BY <1>5, <3>1 DEF Handing
    <3>2. CASE q # Reaper
      BY <1>4, <1>5, <2>6, <3>2 DEF Safe, ListControl
    <3> QED
      BY <3>1, <3>2
  <2>12. Settled(k2)'
    BY <1>17, <2>4
  <2>13. Handshake(k2)'
    <3>1. AtChild
      BY <1>1, <1>2, <1>18 DEF AtChild
    <3>2. ~torn => ~(pc[Parent] = "wait_check") /\ ~Requesting(k)
      BY <3>1 DEF Safe, Handshake
    <3>3. Requesting(k2)' => Requesting(k)
      BY <1>3, <1>4, <1>5, <1>10, <2>4, <2>5 DEF Requesting
    <3>4. ~AtChild' /\ pc'[Parent] = pc[Parent] /\ torn' = torn
      BY <1>4, <1>5 DEF AtChild
    <3> QED
      BY <2>6, <3>2, <3>3, <3>4 DEF Handshake
  <2>14. Safe(k2, o2)'
    BY <1>12, <1>13, <1>14, <1>15, <2>7, <2>8, <2>10, <2>11, <2>12, <2>13 DEF Safe
  <2> QED
    BY <2>14
<1>19. CASE x # Child
  <2>1. UNCHANGED <<list, queue, plock>>
    BY <1>2, <1>19 DEF ReapAwake
  <2>2. UNCHANGED <<current, isr, isrObj, isrList, active_queue, sleep_queue, reap_queue>>
    BY <1>4
  <2>3. TypeOK'
    <3>1. UNCHANGED <<cntr, callback, left, lock_sched, lock_proc, lock_reap, torn>>
      BY <1>4
    <3>2. reaping' \in Seq(Proc)
      BY <1>6
    <3> QED
      BY <1>11, <2>1, <2>2, <3>1, <3>2 DEF Safe, TypeOK
  <2>4. Unique'
    <3>1. IsInjective(reaping')
      BY <1>6
    <3> QED
      BY <2>1, <2>2, <3>1 DEF Safe, Unique
  <2>5. Located(k1, o)'
    <3>1. Queued(k1)'
      BY <1>3, <1>6, <1>10, <2>1, <2>2 DEF Safe, Located, Queued
    <3>2. OnCpus(k1, o)' /\ Discarded(k1, o)'
      BY <1>3, <1>10, <2>2 DEF Safe, Located, OnCpus, Discarded
    <3>3. Woken(k1, o)' /\ Owned(k1, o)'
      BY <1>3, <1>10, <2>2 DEF Safe, Located, Woken, Owned
    <3>4. Listed(k1, o)'
      BY <1>3, <1>10, <2>1 DEF Safe, Located, Listed
    <3> QED
      BY <3>1, <3>2, <3>3, <3>4 DEF Located
  <2>6. ListControl'
    BY <1>3, <1>4, <1>5, <2>1 DEF Safe, ListControl, Handing
  <2>7. Settled(k1)'
    BY <1>17
  <2>8. Handshake(k1)'
    <3>1. Requesting(k1)' => Requesting(k)
      BY <1>3, <1>4, <1>5, <1>10 DEF Requesting
    <3>2. ~AtChild' /\ pc'[Parent] = pc[Parent] /\ torn' = torn /\ cntr' = cntr
      BY <1>4, <1>5 DEF AtChild
    <3>3. Head(reaping) # Child
      BY <1>2, <1>19
    <3> QED
      BY <2>1, <3>1, <3>2, <3>3 DEF Safe, Handshake
  <2>9. Safe(k1, o)'
    BY <1>12, <1>13, <1>14, <1>15, <2>3, <2>4, <2>5, <2>6, <2>7, <2>8 DEF Safe
  <2> QED
    BY <2>9
<1> QED
  BY <1>18, <1>19

-----------------------------------------------------------------------------
(* The invariant and the properties it gives.                                *)

(* active_queue at the start: every process that exists, once.               *)
LEMMA InitialQueue ==
  LET S == {Parent, Reaper} \cup Thread
  IN  /\ SetToSeq(S) \in Seq(Proc) /\ IsInjective(SetToSeq(S)) /\ ToSet(SetToSeq(S)) = S
<1> DEFINE S == {Parent, Reaper} \cup Thread
           n == Cardinality(S)
           F == {f \in [1 .. n -> S] : IsInjective(f)}
<1>1. IsFiniteSet(S)
  <2>1. IsFiniteSet({Parent}) /\ IsFiniteSet({Reaper}) /\ IsFiniteSet(Thread)
    BY FS_Singleton, SchedAssumption
  <2>2. IsFiniteSet({Parent} \cup {Reaper})
    BY <2>1, FS_Union
  <2>3. IsFiniteSet(({Parent} \cup {Reaper}) \cup Thread)
    BY <2>1, <2>2, FS_Union
  <2>4. ({Parent} \cup {Reaper}) \cup Thread = S
    OBVIOUS
  <2> QED
    BY <2>3, <2>4
<1>2. n \in Nat /\ ExistsBijection(1 .. n, S)
  <2> HIDE DEF S
  <2>1. Cardinality(S) \in Nat /\ ExistsBijection(1 .. Cardinality(S), S)
    BY <1>1, FS_CardinalityType
  <2> QED
    BY <2>1
<1>3. S \subseteq Proc
  BY Actors
<1> HIDE DEF S, n
<1>4. PICK b \in Bijection(1 .. n, S) : TRUE
  BY <1>2 DEF ExistsBijection
<1>5. b \in [1 .. n -> S] /\ IsInjective(b)
  BY <1>4 DEF Bijection, Injection, IsInjective
<1> DEFINE P(f) == IsInjective(f)
           g == CHOOSE f \in [1 .. n -> S] : P(f)
<1>6. g \in [1 .. n -> S] /\ P(g)
  <2> HIDE DEF P
  <2>1. b \in [1 .. n -> S] /\ P(b)
    BY <1>5 DEF P
  <2> QED
    BY <2>1, Zenon
<1>7. SetToSeq(S) = g
  BY DEF SetToSeq, n
<1> HIDE DEF g
<1>8. \A t \in S : \E i \in 1 .. n : g[i] = t
  <2>1. Cardinality(1 .. n) = Cardinality(S)
    <3>1. Cardinality(1 .. n) = n
      <4>1. 1 \in Int /\ n \in Int
        BY <1>2
      <4>2. Cardinality(1 .. n) = IF 1 > n THEN 0 ELSE n - 1 + 1
        BY <4>1, FS_Interval
      <4> QED
        BY <1>2, <4>2
    <3> QED
      BY <3>1 DEF n
  <2>2. g \in Injection(1 .. n, S)
    BY <1>6 DEF Injection, IsInjective
  <2>3. g \in Surjection(1 .. n, S)
    BY <1>1, <2>1, <2>2, FS_Injection
  <2> QED
    BY <2>3 DEF Surjection
<1>9. g \in Seq(Proc) /\ IsInjective(g)
  BY <1>2, <1>3, <1>6
<1>10. ToSet(g) = S
  BY <1>6, <1>8 DEF ToSet
<1> QED
  BY <1>7, <1>9, <1>10 DEF S

(* The invariant holds at the start, ...                                     *)
LEMMA InitialState ==
  ASSUME Init
  PROVE  SchedInv
<1> USE Actors
<1> DEFINE S == {Parent, Reaper} \cup Thread
           k == [p \in Proc |-> IF p \in S THEN "active" ELSE "nowhere"]
           o == [p \in Proc |-> None]
<1>1. k \in [Proc -> Kind] /\ o \in [Proc -> Owner]
  BY DEF Kind, Owner
<1>2. \A p \in Proc : k[p] = IF p \in S THEN "active" ELSE "nowhere"
  OBVIOUS
<1>3. active_queue \in Seq(Proc) /\ IsInjective(active_queue) /\ ToSet(active_queue) = S
  BY InitialQueue DEF Init
<1>4. Reaper \in S /\ Parent \in S /\ Child \notin S /\ Shadow \cap S = {} /\ S \subseteq Proc
      /\ \A p \in Proc : p \notin S => p \in Shadow \cup {Child}
  BY SchedAssumption DEF Proc, User
<1> HIDE DEF S, k, o
<1>5. /\ \A c \in CPU : current[c] = None /\ isr[c] = "off" /\ isrObj[c] = None /\ isrList[c] = <<>>
      /\ \A p \in Proc : cntr[p] = "READY" /\ list[p] = <<>>
      /\ \A w \in Wait : queue[w] = <<>>
      /\ sleep_queue = <<>> /\ reap_queue = <<>> /\ reaping = <<>> /\ torn = FALSE
  BY DEF Init
<1>6. \A p \in Proc : pc[p] = IF p = Reaper THEN "reap_sleep"
                              ELSE IF p \in Shadow \cup {Child} THEN "unborn" ELSE "run"
  BY DEF Init
<1>7. ToSet(<<>>) = {} /\ IsInjective(<<>>) /\ <<>> \in Seq(Proc)
  BY EmptyQueue
<1>8. "monitor" \in Wait /\ "reap_wait" \in Wait
  BY DEF Wait
<1>9. TypeOK
  <2>1. /\ current \in [CPU -> Proc \cup {None}] /\ isrObj \in [CPU -> Proc \cup {None}]
        /\ isr \in [CPU -> {"off", "switch", "discard", "take", "awake", "pick"}]
    BY DEF Init
  <2>2. /\ isrList \in [CPU -> Seq(Proc)] /\ list \in [Proc -> Seq(Proc)] /\ queue \in [Wait -> Seq(Proc)]
        /\ sleep_queue \in Seq(Proc) /\ reap_queue \in Seq(Proc) /\ reaping \in Seq(Proc)
    BY <1>7 DEF Init
  <2>3. pc \in [Proc -> Labels]
    BY DEF Init, Labels
  <2>4. cntr \in [Proc -> SchedCntr]
    BY DEF Init, SchedCntr
  <2>5. callback \in [Proc -> [kind : {"none", "wait", "execve"}, arg : Wait \cup Proc \cup {None}]]
    <3>1. NoCallback \in [kind : {"none", "wait", "execve"}, arg : Wait \cup Proc \cup {None}]
      BY DEF NoCallback
    <3> QED
      BY <3>1 DEF Init
  <2>6. left \in [Proc -> -MaxLag..MaxSleep]
    <3>1. 0 \in -MaxLag..MaxSleep
      BY SchedAssumption
    <3> QED
      BY <3>1 DEF Init
  <2>7. {lock_sched, lock_proc, lock_reap, plock} \subseteq Proc \cup {None} /\ torn \in BOOLEAN
    BY DEF Init
  <2> QED
    BY <1>3, <2>1, <2>2, <2>3, <2>4, <2>5, <2>6, <2>7 DEF TypeOK
<1>10. Unique
  BY <1>3, <1>5, <1>7 DEF Unique
<1>11. CpuControl
  BY <1>5 DEF CpuControl
<1>12. ListControl
  BY <1>5, <1>6 DEF ListControl, Handing
<1>13. ReaperControl
  BY <1>5, <1>6 DEF ReaperControl, ReaperLabels
<1>14. CallbackControl
  BY <1>5 DEF CallbackControl
<1>15. DeadControl
  BY <1>5, <1>6 DEF DeadControl
<1>16. Located(k, o)
  <2>1. Queued(k)
    BY <1>2, <1>3, <1>5, <1>7, <1>8 DEF Queued
  <2>2. OnCpus(k, o) /\ Discarded(k, o)
    BY <1>2, <1>5 DEF OnCpus, Discarded
  <2>3. Woken(k, o) /\ Listed(k, o) /\ Owned(k, o)
    BY <1>2, <1>5, <1>7 DEF Woken, Listed, Owned
  <2> QED
    BY <2>1, <2>2, <2>3 DEF Located
<1>17. Settled(k)
  BY <1>2, <1>4, <1>5, <1>6 DEF Settled, SettledAt
<1>18. Handshake(k)
  BY <1>5, <1>6, <1>8 DEF Handshake, Requesting, AtChild
<1>19. Safe(k, o)
  BY <1>9, <1>10, <1>11, <1>12, <1>13, <1>14, <1>15, <1>16, <1>17, <1>18 DEF Safe
<1> QED
  BY <1>1, <1>19 DEF SchedInv

(* ... every step of every actor keeps it, ...                               *)
LEMMA EveryStepIsSafe ==
  ASSUME SchedInv, [Next]_vars
  PROVE  SchedInv'
<1> USE Actors
<1>1. PICK k \in [Proc -> Kind], o \in [Proc -> Owner] : Safe(k, o)
  BY DEF SchedInv
<1> SUFFICES \E k2 \in [Proc -> Kind], o2 \in [Proc -> Owner] : Safe(k2, o2)'
  BY DEF SchedInv
<1>2. CASE UNCHANGED vars
  <2>1. UNCHANGED <<cpuVars, pc, cntr, callback, queueVars, list, reaping, lockVars>> /\ left' = left
    BY <1>2 DEF vars
  <2>2. left' \in [Proc -> -MaxLag..MaxSleep]
    BY <1>1, <2>1 DEF Safe, TypeOK
  <2> QED
    BY <1>1, <2>1, <2>2, OnlyTimePasses
<1>3. CASE Clock
  BY <1>1, <1>3, ClockSafe
<1>4. ASSUME NEW c \in CPU, Timer(c) PROVE Safe(k, o)'
  BY <1>1, <1>4, TimerSafe
<1>5. ASSUME NEW c \in CPU, SchedulerRun(c)
      PROVE  \E k2 \in [Proc -> Kind], o2 \in [Proc -> Owner] : Safe(k2, o2)'
  <2>1. CASE SwitchReady(c)
    BY <1>1, <2>1, SwitchReadySafe
  <2>2. CASE SwitchSleep(c)
    BY <1>1, <2>2, SwitchSleepSafe
  <2>3. CASE SwitchWait(c)
    BY <1>1, <2>3, SwitchWaitSafe
  <2>4. CASE SwitchExecve(c)
    BY <1>1, <2>4, SwitchExecveSafe
  <2>5. CASE SwitchKill(c)
    BY <1>1, <2>5, SwitchKillSafe
  <2>6. CASE Discard(c)
    BY <1>1, <2>6, DiscardSafe
  <2>7. CASE DiscardTake(c)
    BY <1>1, <2>7, DiscardTakeSafe
  <2>8. CASE DiscardAwake(c)
    BY <1>1, <2>8, DiscardDone, DiscardWakes
  <2>9. CASE Pick(c)
    BY <1>1, <2>9, PickSafe
  <2> QED
    BY <1>5, <2>1, <2>2, <2>3, <2>4, <2>5, <2>6, <2>7, <2>8, <2>9 DEF SchedulerRun
<1>6. CASE ReapChildLock \/ ReapChildCheck
  BY <1>1, <1>6, ReapChildLockSafe, ReapChildWaits, ReapChildFrees
<1>7. ASSUME NEW p \in Proc, NEW d \in 1 .. MaxSleep, Sleep(p, d) PROVE Safe(k, o)'
  BY <1>1, <1>7, SleepSafe
<1>8. ASSUME NEW p \in Proc, Call(p)
      PROVE  \E k2 \in [Proc -> Kind], o2 \in [Proc -> Owner] : Safe(k2, o2)'
  <2>1. CASE KillLock(p)
    BY <1>1, <2>1, KillLockSafe
  <2>2. ASSUME NEW s \in Shadow, Execve(p, s) PROVE Safe(k, o)'
    BY <1>1, <2>2, ExecveSafe
  <2>3. CASE Fork
    BY <1>1, <2>3, ForkSafe
  <2> QED
    BY <1>1, <1>6, <1>7, <1>8, <2>1, <2>2, <2>3 DEF Call
<1>9. ASSUME NEW p \in Proc, Continue(p)
      PROVE  \E k2 \in [Proc -> Kind], o2 \in [Proc -> Owner] : Safe(k2, o2)'
  <2>1. CASE ScheduleLock(p)
    BY <1>1, <2>1, ScheduleLockSafe
  <2>2. CASE ScheduleAppend(p)
    BY <1>1, <2>2, ScheduleAppendSafe
  <2>3. CASE SleepDone(p)
    BY <1>1, <2>3, SleepDoneSafe
  <2>4. CASE WaitDone(p)
    BY <1>1, <2>4, WaitDoneSafe
  <2>5. CASE KillSet(p)
    BY <1>1, <2>5, KillSetSafe
  <2>6. CASE KillRelease(p)
    BY <1>1, <2>6, KillReleaseSafe
  <2>7. CASE ReapTest
    BY <1>1, <2>7, ReapTestSafe
  <2>8. CASE ReapLock
    BY <1>1, <2>8, ReapLockSafe
  <2>9. CASE ReapTake
    BY <1>1, <2>9, ReapTakeSafe
  <2>10. CASE ReapPrepare
    BY <1>1, <2>10, ReapIdle, ReapFrees, ReapLocks
  <2>11. CASE ReapZombie
    BY <1>1, <2>11, ReapZombieSafe
  <2>12. CASE ReapAwake
    BY <1>1, <2>12, ReapAwakeSafe
  <2>13. CASE AwakeNext
    BY <1>1, <2>13, AwakeDone, AwakeMarks
  <2>14. \/ ScheduleLock(p) \/ ScheduleAppend(p) \/ SleepDone(p) \/ WaitDone(p)
         \/ KillSet(p) \/ KillRelease(p) \/ ReapChildLock \/ ReapChildCheck
         \/ ReapTest \/ ReapLock \/ ReapTake \/ ReapPrepare \/ ReapZombie \/ ReapAwake \/ AwakeNext
         \/ \E d \in 1 .. MaxSleep : Sleep(p, d)
    BY <1>9 DEF Continue
  <2> QED
    BY <1>1, <1>6, <1>7, <2>1, <2>2, <2>3, <2>4, <2>5, <2>6, <2>7, <2>8, <2>9, <2>10, <2>11, <2>12,
       <2>13, <2>14
<1> QED
  BY <1>1, <1>2, <1>3, <1>4, <1>5, <1>8, <1>9 DEF Next

(* ... so it holds in every reachable state.                                 *)
LEMMA SchedulerInvariant == Spec => []SchedInv
<1>1. Init => SchedInv
  BY InitialState
<1>2. SchedInv /\ [Next]_vars => SchedInv'
  BY EveryStepIsSafe
<1> QED
  BY <1>1, <1>2, PTL DEF Spec

(* In a queue without repetitions a PCB is counted once or not at all.       *)
LEMMA CountUnique ==
  ASSUME NEW s \in Seq(Proc), IsInjective(s), NEW p
  PROVE  Count(s, p) = IF p \in ToSet(s) THEN 1 ELSE 0
<1> DEFINE I == {i \in DOMAIN s : s[i] = p}
<1>1. CASE p \in ToSet(s)
  <2>1. PICK i \in DOMAIN s : s[i] = p
    BY <1>1 DEF ToSet
  <2>2. I = {i}
    BY <2>1 DEF IsInjective
  <2>3. Cardinality({i}) = 1
    BY FS_Singleton
  <2> QED
    BY <1>1, <2>2, <2>3 DEF Count
<1>2. CASE p \notin ToSet(s)
  <2>1. I = {}
    BY <1>2 DEF ToSet
  <2> QED
    BY <1>2, <2>1, FS_EmptySet DEF Count
<1> QED
  BY <1>1, <1>2

(* A place that at most one owner has.                                       *)
OwnedBy(S, T, place, kind, a) ==
  /\ S \in SUBSET T /\ (place = kind => a \in T)
  /\ \A x \in T : x \in S <=> (place = kind /\ x = a)

(* Then the set has one member or none.                                      *)
LEMMA CountOwner ==
  ASSUME NEW S, NEW T, NEW place, NEW kind, NEW a, OwnedBy(S, T, place, kind, a)
  PROVE  Cardinality(S) = IF place = kind THEN 1 ELSE 0
<1> USE DEF OwnedBy
<1>1. CASE place = kind
  <2>1. S = {a}
    BY <1>1
  <2>2. Cardinality({a}) = 1
    BY FS_Singleton
  <2> QED
    BY <1>1, <2>1, <2>2
<1>2. CASE place # kind
  <2>1. S = {}
    BY <1>2
  <2> QED
    BY <1>2, <2>1, FS_EmptySet
<1> QED
  BY <1>1, <1>2

(* A PCB that k puts nowhere is in no place, any other in exactly one.       *)
LEMMA PlacesCounted ==
  ASSUME NEW k \in [Proc -> Kind], NEW o \in [Proc -> Owner], Safe(k, o), NEW p \in Proc
  PROVE  /\ Places(p) = IF k[p] = "nowhere" THEN 0 ELSE 1
         /\ Count(reaping, p) = IF k[p] = "reaping" THEN 1 ELSE 0
<1>1. /\ active_queue \in Seq(Proc) /\ IsInjective(active_queue)
      /\ sleep_queue \in Seq(Proc) /\ IsInjective(sleep_queue)
      /\ reap_queue \in Seq(Proc) /\ IsInjective(reap_queue)
      /\ reaping \in Seq(Proc) /\ IsInjective(reaping)
  BY DEF Safe, TypeOK, Unique
<1>2. \A w \in Wait : queue[w] \in Seq(Proc) /\ IsInjective(queue[w])
  BY DEF Safe, TypeOK, Unique
<1>3. "monitor" \in Wait /\ "reap_wait" \in Wait
  BY DEF Wait
<1>4. \A c \in CPU : isrList[c] \in Seq(Proc) /\ IsInjective(isrList[c])
  BY DEF Safe, TypeOK, Unique
<1>5. \A q \in Proc : list[q] \in Seq(Proc) /\ IsInjective(list[q])
  BY DEF Safe, TypeOK, Unique
<1>6. /\ p \in ToSet(active_queue) <=> k[p] = "active"
      /\ p \in ToSet(sleep_queue) <=> k[p] = "sleep"
      /\ p \in ToSet(reap_queue) <=> k[p] = "reap"
      /\ p \in ToSet(reaping) <=> k[p] = "reaping"
      /\ p \in ToSet(queue["monitor"]) <=> k[p] = "monitor"
      /\ p \in ToSet(queue["reap_wait"]) <=> k[p] = "reap_wait"
  BY DEF Safe, Located, Queued
<1>7. Count(active_queue, p) = IF k[p] = "active" THEN 1 ELSE 0
  BY <1>1, <1>6, CountUnique
<1>8. Count(sleep_queue, p) = IF k[p] = "sleep" THEN 1 ELSE 0
  BY <1>1, <1>6, CountUnique
<1>9. Count(reap_queue, p) = IF k[p] = "reap" THEN 1 ELSE 0
  BY <1>1, <1>6, CountUnique
<1>10. Count(reaping, p) = IF k[p] = "reaping" THEN 1 ELSE 0
  BY <1>1, <1>6, CountUnique
<1>11. Count(queue["monitor"], p) = IF k[p] = "monitor" THEN 1 ELSE 0
  BY <1>2, <1>3, <1>6, CountUnique
<1>12. Count(queue["reap_wait"], p) = IF k[p] = "reap_wait" THEN 1 ELSE 0
  BY <1>2, <1>3, <1>6, CountUnique
<1> DEFINE A == OnCpu(p)
           B == {c \in CPU : isrObj[c] = p}
           C == {c \in CPU : Count(isrList[c], p) > 0}
           D == {q \in Proc : Count(list[q], p) > 0}
<1>13. Cardinality(A) = IF k[p] = "cpu" THEN 1 ELSE 0
  <2>1. A \in SUBSET CPU /\ \A c \in CPU : c \in A <=> (k[p] = "cpu" /\ c = o[p])
    BY DEF OnCpu, Safe, Located, OnCpus
  <2>2. k[p] = "cpu" => o[p] \in CPU
    BY DEF Safe, Located, Owned
  <2> HIDE DEF A
  <2>3. OwnedBy(A, CPU, k[p], "cpu", o[p])
    BY <2>1, <2>2 DEF OwnedBy
  <2> QED
    BY <2>3, CountOwner
<1>14. Cardinality(B) = IF k[p] = "obj" THEN 1 ELSE 0
  <2>1. B \in SUBSET CPU /\ \A c \in CPU : c \in B <=> (k[p] = "obj" /\ c = o[p])
    BY DEF Safe, Located, Discarded
  <2>2. k[p] = "obj" => o[p] \in CPU
    BY DEF Safe, Located, Owned
  <2> HIDE DEF B
  <2>3. OwnedBy(B, CPU, k[p], "obj", o[p])
    BY <2>1, <2>2 DEF OwnedBy
  <2> QED
    BY <2>3, CountOwner
<1>15. Cardinality(C) = IF k[p] = "woken" THEN 1 ELSE 0
  <2>1. \A c \in CPU : Count(isrList[c], p) = IF p \in ToSet(isrList[c]) THEN 1 ELSE 0
    BY <1>4, CountUnique
  <2>2. C \in SUBSET CPU /\ \A c \in CPU : c \in C <=> (k[p] = "woken" /\ c = o[p])
    BY <2>1 DEF Safe, Located, Woken
  <2>3. k[p] = "woken" => o[p] \in CPU
    BY DEF Safe, Located, Owned
  <2> HIDE DEF C
  <2>4. OwnedBy(C, CPU, k[p], "woken", o[p])
    BY <2>2, <2>3 DEF OwnedBy
  <2> QED
    BY <2>4, CountOwner
<1>16. Cardinality(D) = IF k[p] = "list" THEN 1 ELSE 0
  <2>1. \A q \in Proc : Count(list[q], p) = IF p \in ToSet(list[q]) THEN 1 ELSE 0
    BY <1>5, CountUnique
  <2>2. D \in SUBSET Proc /\ \A q \in Proc : q \in D <=> (k[p] = "list" /\ q = o[p])
    BY <2>1 DEF Safe, Located, Listed
  <2>3. k[p] = "list" => o[p] \in Proc
    BY DEF Safe, Located, Owned
  <2> HIDE DEF D
  <2>4. OwnedBy(D, Proc, k[p], "list", o[p])
    BY <2>2, <2>3 DEF OwnedBy
  <2> QED
    BY <2>4, CountOwner
<1>17. k[p] \in Kind
  OBVIOUS
<1> DEFINE n == Cardinality(A) + Count(active_queue, p) + Count(sleep_queue, p)
                + Count(reap_queue, p) + Count(reaping, p)
                + Count(queue["monitor"], p) + Count(queue["reap_wait"], p)
                + Cardinality(B) + Cardinality(C) + Cardinality(D)
<1>18. Places(p) = n
  BY DEF Places
<1> HIDE DEF A, B, C, D
<1>19. n = IF k[p] = "nowhere" THEN 0 ELSE 1
  BY <1>7, <1>8, <1>9, <1>10, <1>11, <1>12, <1>13, <1>14, <1>15, <1>16, <1>17 DEF Kind
<1> QED
  BY <1>10, <1>18, <1>19

(* However processes, interrupts and CPUs interleave, a PCB is in one place: *)
(* scheduler_run, signal.c, process_discard and process_reap never link it   *)
(* twice, run it twice or lose it.                                           *)
THEOREM PcbInOnePlace == Spec => []OnePlace
<1>1. SchedInv => OnePlace
  <2> SUFFICES ASSUME SchedInv PROVE OnePlace
    OBVIOUS
  <2>1. PICK k \in [Proc -> Kind], o \in [Proc -> Owner] : Safe(k, o)
    BY DEF SchedInv
  <2>2. TypeOK /\ Settled(k)
    BY <2>1 DEF Safe
  <2>3. \A p \in Proc : Places(p) = IF k[p] = "nowhere" THEN 0 ELSE 1
    BY <2>1, PlacesCounted
  <2> QED
    BY <2>2, <2>3 DEF OnePlace, Settled, SettledAt
<1> QED
  BY <1>1, SchedulerInvariant, PTL

(* The plock handshake between process_reap_child and reap_prepare: a parent *)
(* is not left parked on the monitor of a child that is already a zombie.    *)
THEOREM WakeupsNotLost == Spec => []NoLostWakeup
<1>1. SchedInv => NoLostWakeup
  <2> SUFFICES ASSUME SchedInv, ~torn, cntr[Child] = "ZOMBIE", plock = None
               PROVE  queue["monitor"] = <<>>
    BY DEF NoLostWakeup
  <2>1. PICK k \in [Proc -> Kind], o \in [Proc -> Owner] : Safe(k, o)
    BY DEF SchedInv
  <2>2. /\ AtChild => plock = Reaper
        /\ queue["monitor"] # <<>> => pc[Reaper] = "reap_awake" /\ Head(reaping) = Child
    BY <2>1 DEF Safe, Handshake
  <2> QED
    BY <2>2, Actors DEF AtChild
<1> QED
  BY <1>1, SchedulerInvariant, PTL

(* A freed PCB is nowhere and a zombie at most in the reaper's hands:        *)
(* process_reap_child frees a child only when the reaper is done with it,    *)
(* and neither is ever run again.                                            *)
THEOREM TheDeadStayDead == Spec => []DeadStayDead
<1>1. SchedInv => DeadStayDead
  <2> SUFFICES ASSUME SchedInv, ~torn
               PROVE  /\ \A p \in Proc : pc[p] = "freed" => Places(p) = 0
                      /\ \A p \in Proc : cntr[p] = "ZOMBIE" => Places(p) = Count(reaping, p)
    BY DEF DeadStayDead
  <2>1. PICK k \in [Proc -> Kind], o \in [Proc -> Owner] : Safe(k, o)
    BY DEF SchedInv
  <2>2. Settled(k)
    BY <2>1 DEF Safe
  <2>3. \A p \in Proc : /\ Places(p) = IF k[p] = "nowhere" THEN 0 ELSE 1
                        /\ Count(reaping, p) = IF k[p] = "reaping" THEN 1 ELSE 0
    BY <2>1, PlacesCounted
  <2> QED
    BY <2>2, <2>3 DEF Settled, SettledAt
<1> QED
  BY <1>1, SchedulerInvariant, PTL

=============================================================================
