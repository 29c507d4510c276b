---------------------------- MODULE FamilyProofs ----------------------------
(***************************************************************************)
(* Proofs about Family, for any number of processes.                       *)
(***************************************************************************)
EXTENDS Family, SequenceTheorems, WellFoundedInduction, TLAPS

(* hash_table_insert at the head of a bucket, and a process put in front of  *)
(* reap_queue, add one member.                                               *)
LEMMA PrependProperties ==
  ASSUME NEW S, NEW s \in Seq(S), NEW x \in S
  PROVE  /\ <<x>> \o s \in Seq(S)
         /\ ToSet(<<x>> \o s) = ToSet(s) \cup {x}
         /\ IsInjective(s) /\ x \notin ToSet(s) => IsInjective(<<x>> \o s)
<1> DEFINE t == <<x>> \o s
<1>1. t \in Seq(S) /\ Len(t) = Len(s) + 1 /\ DOMAIN t = 1 .. Len(t) /\ Len(s) \in Nat /\ DOMAIN s = 1 .. Len(s)
  OBVIOUS
<1>2. t[1] = x /\ \A i \in DOMAIN s : i + 1 \in DOMAIN t /\ t[i + 1] = s[i]
  OBVIOUS
<1> HIDE DEF t
<1>3. \A i \in DOMAIN t : i = 1 \/ (i - 1 \in DOMAIN s /\ t[i] = s[i - 1])
  BY <1>1, <1>2
<1>4. ToSet(t) = ToSet(s) \cup {x}
  <2>1. 1 \in DOMAIN t
    BY <1>1
  <2> QED
    BY <1>2, <1>3, <2>1 DEF ToSet
<1>5. IsInjective(s) /\ x \notin ToSet(s) => IsInjective(t)
  <2> SUFFICES ASSUME IsInjective(s), x \notin ToSet(s), NEW i \in DOMAIN t, NEW j \in DOMAIN t, t[i] = t[j]
               PROVE  i = j
    BY DEF IsInjective
  <2>1. \A k \in DOMAIN s : s[k] # x
    BY DEF ToSet
  <2> QED
    BY <1>1, <1>2, <1>3, <2>1 DEF IsInjective
<1> QED
  BY <1>1, <1>4, <1>5 DEF t

(* The reaper goes through the processes it took one by one.                 *)
LEMMA TailMembers ==
  ASSUME NEW S, NEW s \in Seq(S), s # <<>>, IsInjective(s)
  PROVE  /\ Tail(s) \in Seq(S) /\ Head(s) \in ToSet(s) /\ Head(s) \in S
         /\ ToSet(Tail(s)) = ToSet(s) \ {Head(s)}
         /\ IsInjective(Tail(s))
<1> DEFINE t == Tail(s)
<1>1. t \in Seq(S) /\ Len(t) = Len(s) - 1 /\ DOMAIN t = 1 .. Len(t) /\ Len(s) \in Nat /\ Len(s) >= 1
      /\ DOMAIN s = 1 .. Len(s) /\ Head(s) = s[1] /\ Head(s) \in S
  OBVIOUS
<1>2. \A i \in DOMAIN t : i + 1 \in DOMAIN s /\ t[i] = s[i + 1]
  OBVIOUS
<1> HIDE DEF t
<1>3. \A i \in DOMAIN s : i = 1 \/ (i - 1 \in DOMAIN t /\ t[i - 1] = s[i])
  BY <1>1, <1>2
<1>4. Head(s) \in ToSet(s)
  BY <1>1 DEF ToSet
<1>5. \A i \in DOMAIN t : t[i] # s[1]
  <2>1. 1 \in DOMAIN s
    BY <1>1
  <2> QED
    BY <1>1, <1>2, <2>1 DEF IsInjective
<1>6. ToSet(t) = ToSet(s) \ {Head(s)}
  BY <1>1, <1>2, <1>3, <1>5 DEF ToSet
<1>7. IsInjective(t)
  BY <1>1, <1>2 DEF IsInjective
<1> QED
  BY <1>1, <1>4, <1>6, <1>7 DEF t

(* hash_table_remove takes one member out of a chain.                        *)
LEMMA RemoveProperties ==
  ASSUME NEW S, NEW s \in Seq(S), NEW i \in DOMAIN s, IsInjective(s)
  PROVE  /\ RemoveAt(s, i) \in Seq(S)
         /\ ToSet(RemoveAt(s, i)) = ToSet(s) \ {s[i]}
         /\ IsInjective(RemoveAt(s, i))
<1> DEFINE a == SubSeq(s, 1, i - 1)
           b == SubSeq(s, i + 1, Len(s))
           t == a \o b
<1>1. DOMAIN s = 1 .. Len(s) /\ Len(s) \in Nat /\ i \in 1 .. Len(s)
  OBVIOUS
<1>2. a \in Seq(S) /\ Len(a) = i - 1 /\ \A k \in 1 .. i - 1 : a[k] = s[k]
  BY <1>1, SubSeqProperties
<1>3. b \in Seq(S) /\ Len(b) = Len(s) - i /\ \A k \in 1 .. Len(s) - i : b[k] = s[i + k]
  BY <1>1, SubSeqProperties
<1> HIDE DEF a, b
<1>4. t \in Seq(S) /\ Len(t) = Len(s) - 1
      /\ \A k \in 1 .. Len(s) - 1 : t[k] = IF k < i THEN s[k] ELSE s[k + 1]
  <2>1. t \in Seq(S) /\ Len(t) = Len(a) + Len(b)
        /\ \A k \in 1 .. Len(a) + Len(b) : t[k] = IF k <= Len(a) THEN a[k] ELSE b[k - Len(a)]
    BY <1>2, <1>3, ConcatProperties
  <2> HIDE DEF t
  <2>2. ASSUME NEW k \in 1 .. Len(s) - 1 PROVE t[k] = IF k < i THEN s[k] ELSE s[k + 1]
    <3>1. CASE k < i
      BY <1>1, <1>2, <1>3, <2>1, <3>1
    <3>2. CASE ~(k < i)
      <4>1. k - (i - 1) \in 1 .. Len(s) - i /\ i + (k - (i - 1)) = k + 1
        BY <1>1, <3>2
      <4>2. b[k - (i - 1)] = s[k + 1]
        BY <1>3, <4>1
      <4> QED
        BY <1>1, <1>2, <1>3, <2>1, <3>2, <4>2
    <3> QED
      BY <3>1, <3>2
  <2> QED
    BY <1>1, <1>2, <1>3, <2>1, <2>2
<1> HIDE DEF t
<1>5. DOMAIN t = 1 .. Len(s) - 1
  BY <1>4
<1>6. \A k \in DOMAIN t : t[k] \in ToSet(s) /\ t[k] # s[i]
  <2> SUFFICES ASSUME NEW k \in DOMAIN t PROVE t[k] \in ToSet(s) /\ t[k] # s[i]
    OBVIOUS
  <2>1. CASE k < i
    BY <1>1, <1>4, <1>5, <2>1 DEF ToSet, IsInjective
  <2>2. CASE ~(k < i)
    <3>1. k + 1 \in DOMAIN s /\ k + 1 # i /\ t[k] = s[k + 1]
      BY <1>1, <1>4, <1>5, <2>2
    <3> QED
      BY <3>1 DEF ToSet, IsInjective
  <2> QED
    BY <2>1, <2>2
<1>7. \A k \in DOMAIN s : s[k] # s[i] => s[k] \in ToSet(t)
  <2> SUFFICES ASSUME NEW k \in DOMAIN s, s[k] # s[i] PROVE \E j \in DOMAIN t : t[j] = s[k]
    BY DEF ToSet
  <2>1. CASE k < i
    BY <1>1, <1>4, <1>5, <2>1
  <2>2. CASE k > i
    <3>1. k - 1 \in DOMAIN t /\ t[k - 1] = s[k]
      BY <1>1, <1>4, <1>5, <2>2
    <3> QED
      BY <3>1
  <2> QED
    BY <1>1, <2>1, <2>2
<1>8. ToSet(t) = ToSet(s) \ {s[i]}
  BY <1>6, <1>7 DEF ToSet
<1>9. IsInjective(t)
  <2> SUFFICES ASSUME NEW j \in DOMAIN t, NEW k \in DOMAIN t, t[j] = t[k] PROVE j = k
    BY DEF IsInjective
  <2> DEFINE J == IF j < i THEN j ELSE j + 1
             K == IF k < i THEN k ELSE k + 1
  <2>1. J \in DOMAIN s /\ K \in DOMAIN s /\ t[j] = s[J] /\ t[k] = s[K]
    BY <1>1, <1>4, <1>5
  <2>2. J = K
    BY <2>1 DEF IsInjective
  <2> QED
    BY <1>1, <1>5, <2>2
<1> QED
  BY <1>4, <1>8, <1>9 DEF RemoveAt, t, a, b

-----------------------------------------------------------------------------
State == {"unborn", "alive", "killed", "zombie", "gone"}
InitAt == {"poll", "any", "wait", "find", "unlink", "find_any", "unlink_any"}
OtherAt == {"user", "fork", "execve", "wait"}

FamTypeOK ==
  /\ st \in [Pid -> State] /\ parent \in [Pid -> Pid \cup {None}]
  /\ kids \in [Pid -> SUBSET Pid] /\ chain \in Seq(Pid)
  /\ at \in [Pid -> InitAt \cup OtherAt] /\ child \in [Pid -> Pid \cup {None}]
  /\ reap_queue \in Seq(Pid) /\ reaping \in Seq(Pid) /\ adopt \in Pid \cup {None}

\* every process can be found by its parent, now or when a fork or the reaper is done
Linked ==
  \A c \in Allocated \ {init} :
    /\ parent[c] \in Allocated
    /\ c \in TableOf(parent[c]) \/ c = adopt \/ (at[parent[c]] = "fork" /\ child[parent[c]] = c)

\* tables hold children; those not yet born, about to be freed or freed have an empty one
Listed ==
  /\ \A p \in Pid : \A c \in TableOf(p) : c \in Allocated /\ parent[c] = p
  /\ IsInjective(chain)
  /\ \A p \in Pid : st[p] \in {"unborn", "zombie", "gone"} => kids[p] = {}

\* init never exits and has no parent; it works on children in its table, and frees zombies
InitLives ==
  /\ st[init] = "alive" /\ parent[init] = None /\ kids[init] = {} /\ at[init] \in InitAt
  /\ at[init] \in {"wait", "find", "unlink", "find_any", "unlink_any"} => child[init] \in ToSet(chain)
  /\ at[init] \in {"find", "unlink", "find_any", "unlink_any"} => st[child[init]] = "zombie"

\* only a living process is in the kernel, with a child of its own
InKernel ==
  \A p \in Pid \ {init} :
    /\ at[p] \in OtherAt
    /\ st[p] # "alive" => at[p] = "user"
    /\ at[p] = "fork" => child[p] \in Allocated /\ parent[child[p]] = p
    /\ at[p] = "wait" => child[p] \in kids[p]

\* the orphan between two tables
Adopting == adopt # None => adopt \in Allocated /\ parent[adopt] = init /\ adopt \notin ToSet(chain)

\* the reaper has killed processes before it, each once
Queued ==
  /\ IsInjective(reap_queue) /\ IsInjective(reaping) /\ ToSet(reap_queue) \cap ToSet(reaping) = {}
  /\ \A p \in ToSet(reap_queue) \cup ToSet(reaping) : p \in Pid /\ p # init /\ st[p] = "killed"

FamInv == FamTypeOK /\ Linked /\ Listed /\ InitLives /\ InKernel /\ Adopting /\ Queued

(* FamInit establishes the invariant.                                        *)
LEMMA FamInitOK == ASSUME FamInit PROVE FamInv
<1> USE FamilyAssumption DEF FamInit, Pid, init, None
<1>1. chain = <<2>> /\ ToSet(chain) = {2} /\ IsInjective(chain) /\ chain \in Seq(Pid)
  BY DEF ToSet, IsInjective
<1>2. ToSet(reaping) = {} /\ ToSet(reap_queue) = {} /\ IsInjective(reaping) /\ IsInjective(reap_queue)
      /\ reaping \in Seq(Pid) /\ reap_queue \in Seq(Pid)
  BY DEF ToSet, IsInjective
<1>3. Allocated = {1, 2}
  <2>1. \A p \in Pid : st[p] \notin {"unborn", "gone"} <=> p <= 2
    OBVIOUS
  <2>2. \A p : p \in Pid /\ p <= 2 <=> p \in {1, 2}
    OBVIOUS
  <2> QED
    BY <2>1, <2>2 DEF Allocated
<1>4. FamTypeOK
  BY <1>1, <1>2 DEF FamTypeOK, State, InitAt, OtherAt
<1>5. Linked
  BY <1>1, <1>3 DEF Linked, TableOf
<1>6. Listed
  BY <1>1, <1>3 DEF Listed, TableOf
<1>7. InitLives
  BY <1>1 DEF InitLives, InitAt
<1>8. InKernel
  BY DEF InKernel, OtherAt
<1>9. Adopting /\ Queued
  BY <1>2 DEF Adopting, Queued
<1> QED
  BY <1>4, <1>5, <1>6, <1>7, <1>8, <1>9 DEF FamInv

(* The calls of a process: fork, execve, exit and wait.                      *)
LEMMA CallsKeep ==
  ASSUME FamInv, NEW p \in Pid, ~raced', NEW c \in Pid, NEW no_hang \in BOOLEAN,
         \/ Fork(p, c) \/ ForkInsert(p) \/ Execve(p) \/ ExecveSwap(p) \/ ExitProcess(p)
         \/ WaitPid(p, c, no_hang) \/ ReapChild(p)
  PROVE  FamInv'
<1> USE DEF FamInv
<1>0. init \in Pid /\ None \notin Pid
  BY FamilyAssumption DEF Pid, init, None
<1>1. CASE Fork(p, c)
  <2>1. /\ p # init /\ st[p] = "alive" /\ at[p] = "user" /\ st[c] = "unborn"
        /\ st' = [st EXCEPT ![c] = "alive"] /\ parent' = [parent EXCEPT ![c] = p]
        /\ at' = [at EXCEPT ![p] = "fork"] /\ child' = [child EXCEPT ![p] = c]
        /\ UNCHANGED <<kids, chain, reap_queue, reaping, adopt>>
    BY <1>1 DEF Fork
  <2>2. c # p /\ c # init
    BY <2>1 DEF InitLives
  <2>3. Allocated' = Allocated \cup {c} /\ c \notin Allocated /\ p \in Allocated
    BY <2>1 DEF Allocated, FamTypeOK
  <2>4. FamTypeOK'
    BY <2>1 DEF FamTypeOK, State, OtherAt
  <2>5. \A q \in Pid : TableOf(q)' = TableOf(q) /\ c \notin TableOf(q)
    BY <2>1, <2>3 DEF TableOf, Listed
  <2>6. Linked'
    <3>1. \A q \in Pid : q # c => parent'[q] = parent[q]
      BY <2>1 DEF FamTypeOK
    <3>2. parent'[c] = p /\ at'[p] = "fork" /\ child'[p] = c
      BY <2>1 DEF FamTypeOK
    <3>3. \A q \in Pid : q # p => at'[q] = at[q] /\ child'[q] = child[q]
      BY <2>1 DEF FamTypeOK
    <3>4. ASSUME NEW d \in Allocated \ {init}
          PROVE  /\ parent'[d] \in Allocated'
                 /\ d \in TableOf(parent[d])' \/ d = adopt'
                    \/ (at'[parent'[d]] = "fork" /\ child'[parent'[d]] = d)
      <4>1. d \in Pid /\ d # c /\ parent[d] \in Allocated /\ parent[d] \in Pid
            /\ (d \in TableOf(parent[d]) \/ d = adopt \/ (at[parent[d]] = "fork" /\ child[parent[d]] = d))
        BY <2>3 DEF Linked, Allocated
      <4> QED
        BY <2>1, <2>3, <3>1, <3>3, <4>1 DEF TableOf
    <3> QED
      BY <2>3, <3>2, <3>4 DEF Linked
  <2>7. Listed'
    BY <2>1, <2>3, <2>5 DEF Listed, FamTypeOK, Allocated
  <2>8. InitLives'
    BY <1>0, <2>1, <2>2 DEF InitLives, FamTypeOK
  <2>9. InKernel'
    BY <2>1, <2>2, <2>3 DEF InKernel, FamTypeOK, OtherAt, Allocated
  <2>10. Adopting' /\ Queued'
    BY <2>1, <2>3 DEF Adopting, Queued, FamTypeOK, Allocated
  <2> QED
    BY <2>4, <2>6, <2>7, <2>8, <2>9, <2>10
<1>2. CASE ForkInsert(p)
  <2>1. /\ at[p] = "fork" /\ kids' = [kids EXCEPT ![p] = @ \cup {child[p]}]
        /\ at' = [at EXCEPT ![p] = "user"] /\ child' = [child EXCEPT ![p] = None]
        /\ UNCHANGED <<st, parent, chain, reap_queue, reaping, adopt>>
    BY <1>2 DEF ForkInsert
  <2>2. /\ p # init /\ st[p] = "alive"
        /\ child[p] \in Allocated /\ child[p] \in Pid /\ parent[child[p]] = p
    BY <2>1 DEF InitLives, InKernel, InitAt, Allocated
  <2>3. Allocated' = Allocated
    BY <2>1 DEF Allocated
  <2>4. FamTypeOK'
    BY <1>0, <2>1, <2>2 DEF FamTypeOK, OtherAt
  <2>5. \A q \in Pid : TableOf(q)' = IF q = p THEN kids[p] \cup {child[p]} ELSE TableOf(q)
    BY <2>1, <2>2 DEF TableOf, FamTypeOK
  <2>6. Linked'
    <3> SUFFICES ASSUME NEW d \in Allocated \ {init}
                 PROVE  /\ parent[d] \in Allocated
                        /\ d \in TableOf(parent[d])' \/ d = adopt
                           \/ (at'[parent[d]] = "fork" /\ child'[parent[d]] = d)
      BY <2>1, <2>3 DEF Linked
    <3>1. parent[d] \in Allocated /\ parent[d] \in Pid
      BY DEF Linked, Allocated
    <3>2. CASE parent[d] = p
      BY <2>1, <2>2, <2>5, <3>1, <3>2 DEF Linked, TableOf
    <3>3. CASE parent[d] # p
      BY <2>1, <2>5, <3>1, <3>3 DEF Linked, FamTypeOK
    <3> QED
      BY <3>1, <3>2, <3>3
  <2>7. Listed'
    <3>1. \A q \in Pid : \A d \in TableOf(q)' : d \in Allocated /\ parent[d] = q
      BY <2>2, <2>5 DEF Listed, TableOf
    <3>2. \A q \in Pid : st[q] \in {"unborn", "zombie", "gone"} => kids'[q] = {}
      BY <2>1, <2>2 DEF Listed, FamTypeOK
    <3> QED
      BY <2>1, <2>3, <3>1, <3>2 DEF Listed
  <2>8. InitLives'
    BY <1>0, <2>1, <2>2 DEF InitLives, FamTypeOK
  <2>9. InKernel'
    BY <2>1, <2>2, <2>3 DEF InKernel, FamTypeOK, OtherAt
  <2>10. Adopting' /\ Queued'
    BY <2>1, <2>3 DEF Adopting, Queued
  <2> QED
    BY <2>4, <2>6, <2>7, <2>8, <2>9, <2>10
<1>3. CASE Execve(p) \/ WaitPid(p, c, no_hang)
  <2>1. /\ p # init /\ st[p] = "alive" /\ at[p] = "user"
        /\ at' = [at EXCEPT ![p] = at'[p]] /\ at'[p] \in {"execve", "wait"}
        /\ at'[p] = "wait" => child'[p] \in kids[p]
        /\ child' = [child EXCEPT ![p] = child'[p]] /\ child'[p] \in Pid \cup {None}
        /\ UNCHANGED <<st, parent, kids, chain, reap_queue, reaping, adopt>>
    BY <1>3 DEF Execve, WaitPid, FamTypeOK
  <2>2. FamTypeOK'
    BY <2>1 DEF FamTypeOK, OtherAt
  <2>3. Allocated' = Allocated /\ \A q \in Pid : TableOf(q)' = TableOf(q)
    BY <2>1 DEF Allocated, TableOf
  <2>4. Linked'
    BY <2>1, <2>3 DEF Linked, FamTypeOK, Allocated
  <2>5. Listed' /\ Adopting' /\ Queued'
    BY <2>1, <2>3 DEF Listed, Adopting, Queued
  <2>6. InitLives'
    BY <1>0, <2>1 DEF InitLives, FamTypeOK
  <2>7. InKernel'
    BY <2>1, <2>3 DEF InKernel, FamTypeOK, OtherAt
  <2> QED
    BY <2>2, <2>4, <2>5, <2>6, <2>7
<1>4. CASE ExecveSwap(p)
  <2>1. /\ at[p] = "execve" /\ parent[p] = child[p]
        /\ at' = [at EXCEPT ![p] = "user"] /\ child' = [child EXCEPT ![p] = None]
        /\ UNCHANGED <<st, kids, chain, reap_queue, reaping, adopt>>
    BY <1>4 DEF ExecveSwap
  <2>2. p # init /\ parent' = parent
    BY <1>4, <2>1 DEF ExecveSwap, FamTypeOK, InitLives, InitAt
  <2>3. FamTypeOK'
    BY <2>1, <2>2 DEF FamTypeOK, OtherAt
  <2>4. Allocated' = Allocated /\ \A q \in Pid : TableOf(q)' = TableOf(q)
    BY <2>1 DEF Allocated, TableOf
  <2>5. Linked'
    BY <2>1, <2>2, <2>4 DEF Linked, FamTypeOK, Allocated
  <2>6. Listed' /\ Adopting' /\ Queued'
    BY <2>1, <2>2, <2>4 DEF Listed, Adopting, Queued
  <2>7. InitLives'
    BY <1>0, <2>1, <2>2 DEF InitLives, FamTypeOK
  <2>8. InKernel'
    BY <2>1, <2>2, <2>4 DEF InKernel, FamTypeOK, OtherAt
  <2> QED
    BY <2>3, <2>5, <2>6, <2>7, <2>8
<1>5. CASE ExitProcess(p)
  <2>1. /\ p # init /\ st[p] = "alive" /\ at[p] = "user"
        /\ st' = [st EXCEPT ![p] = "killed"] /\ reap_queue' = <<p>> \o reap_queue
        /\ UNCHANGED <<parent, kids, chain, at, child, reaping, adopt>>
    BY <1>5 DEF ExitProcess
  <2>2. /\ reap_queue' \in Seq(Pid) /\ ToSet(reap_queue') = ToSet(reap_queue) \cup {p}
        /\ p \notin ToSet(reap_queue) /\ p \notin ToSet(reaping) /\ IsInjective(reap_queue')
    BY <2>1, PrependProperties DEF Queued, FamTypeOK
  <2>3. Allocated' = Allocated /\ \A q \in Pid : TableOf(q)' = TableOf(q)
    BY <2>1 DEF Allocated, TableOf, FamTypeOK
  <2>4. FamTypeOK'
    BY <2>1, <2>2 DEF FamTypeOK, State
  <2>5. Linked' /\ Adopting'
    BY <2>1, <2>3 DEF Linked, Adopting, Allocated
  <2>6. Listed'
    BY <2>1, <2>3 DEF Listed, FamTypeOK
  <2>7. InitLives'
    BY <1>0, <2>1 DEF InitLives, FamTypeOK
  <2>8. InKernel'
    BY <2>1, <2>3 DEF InKernel, FamTypeOK
  <2>9. Queued'
    <3>1. \A q \in ToSet(reap_queue') \cup ToSet(reaping) : q \in Pid /\ q # init /\ st'[q] = "killed"
      BY <2>1, <2>2 DEF Queued, FamTypeOK
    <3> QED
      BY <2>1, <2>2, <3>1 DEF Queued
  <2> QED
    BY <2>4, <2>5, <2>6, <2>7, <2>8, <2>9
<1>6. CASE ReapChild(p)
  <2> DEFINE z == child[p]
  <2>1. /\ p # init /\ at[p] = "wait" /\ st[z] = "zombie"
        /\ kids' = [kids EXCEPT ![p] = @ \ {z}] /\ st' = [st EXCEPT ![z] = "gone"]
        /\ at' = [at EXCEPT ![p] = "user"] /\ child' = [child EXCEPT ![p] = None]
        /\ UNCHANGED <<parent, chain, reap_queue, reaping, adopt>>
    BY <1>6 DEF ReapChild
  <2>2. z \in kids[p] /\ z \in Pid /\ z \in TableOf(p)
    BY <2>1 DEF InKernel, FamTypeOK, TableOf
  <2> HIDE DEF z
  <2>3. parent[z] = p /\ z # init /\ z # p /\ st[p] = "alive" /\ z \in Allocated
    BY <1>0, <2>1, <2>2 DEF Listed, InitLives, InKernel
  <2>4. Allocated' = Allocated \ {z}
    BY <2>1, <2>2 DEF Allocated, FamTypeOK
  <2>5. FamTypeOK'
    BY <1>0, <2>1 DEF FamTypeOK, State, OtherAt
  <2>6. \A q \in Pid : TableOf(q)' = TableOf(q) \ {z}
    BY <2>1, <2>2, <2>3 DEF TableOf, FamTypeOK, Listed
  <2>7. adopt # z /\ kids[z] = {} /\ at[z] = "user"
    BY <1>0, <2>1, <2>2, <2>3 DEF Adopting, Listed, InKernel
  <2>8. \A d \in Allocated \ {init} : parent[d] # z
    BY <1>0, <2>3, <2>7 DEF Linked, TableOf, Adopting, Allocated
  <2>9. Linked'
    BY <2>1, <2>4, <2>6, <2>8 DEF Linked, FamTypeOK, Allocated
  <2>10. Listed'
    BY <2>1, <2>4, <2>6, <2>7 DEF Listed, FamTypeOK
  <2>11. \A q \in Pid : child[q] = z => q = p \/ at[q] \in {"user", "execve", "poll", "any"}
    <3> SUFFICES ASSUME NEW q \in Pid, child[q] = z, q # p PROVE at[q] \in {"user", "execve", "poll", "any"}
      OBVIOUS
    <3>1. CASE q = init
      BY <2>3, <3>1 DEF InitLives, InitAt, Listed, TableOf
    <3>2. CASE q # init
      BY <2>3, <3>2 DEF InKernel, OtherAt, Listed, TableOf
    <3> QED
      BY <3>1, <3>2
  <2>12. InitLives'
    <3>1. /\ st'[init] = st[init] /\ at'[init] = at[init] /\ child'[init] = child[init] /\ kids'[init] = kids[init]
          /\ parent' = parent /\ chain' = chain
      BY <1>0, <2>1, <2>3 DEF FamTypeOK
    <3>2. at[init] \in {"find", "unlink", "find_any", "unlink_any"} => child[init] \in Pid /\ child[init] # z
      BY <1>0, <2>1, <2>11 DEF InitLives, Listed, TableOf, Allocated
    <3> QED
      BY <2>1, <2>2, <3>1, <3>2 DEF InitLives, FamTypeOK
  <2>13. InKernel'
    BY <2>1, <2>3, <2>4, <2>7, <2>11 DEF InKernel, FamTypeOK, OtherAt
  <2>14. Adopting' /\ Queued'
    BY <2>1, <2>4, <2>7 DEF Adopting, Queued, FamTypeOK
  <2> QED
    BY <2>5, <2>9, <2>10, <2>12, <2>13, <2>14
<1> QED
  BY <1>1, <1>2, <1>3, <1>4, <1>5, <1>6

(* hash_table_find ends at the first zombie of a chain: a set of natural     *)
(* numbers has a least element.                                              *)
LEMMA LeastNatural ==
  ASSUME NEW S \in SUBSET Nat, S # {}
  PROVE  \E m \in S : \A n \in S : m <= n
<1> DEFINE R == OpToRel(<, Nat)
<1>1. \A x, y \in Nat : x < y => <<x, y>> \in R
  BY DEF OpToRel
<1>2. IsWellFoundedOn(R, Nat)
  BY NatLessThanWellFounded
<1> HIDE DEF R
<1>3. PICK m \in S : \A n \in S : ~(<<n, m>> \in R)
  BY <1>2, WFMin, Zenon
<1>4. \A n \in S : ~(n < m)
  BY <1>1, <1>3, Zenon
<1>5. \A n \in S : m <= n
  BY <1>4
<1> QED
  BY <1>5

(* The loop of init.                                                         *)
LEMMA InitKeeps ==
  ASSUME FamInv, InitLoop, ~raced'
  PROVE  FamInv'
<1> USE DEF FamInv
<1>0. init \in Pid /\ None \notin Pid /\ ToSet(chain) \subseteq Pid
  BY FamilyAssumption DEF Pid, init, None, FamTypeOK, ToSet
<1>1. ASSUME at' = [at EXCEPT ![init] = at'[init]], at'[init] \in InitAt,
             child' = [child EXCEPT ![init] = child'[init]], child'[init] \in Pid \cup {None},
             UNCHANGED <<st, parent, kids, chain, reap_queue, reaping, adopt>>,
             at'[init] \in {"wait", "find", "unlink", "find_any", "unlink_any"} => child'[init] \in ToSet(chain),
             at'[init] \in {"find", "unlink", "find_any", "unlink_any"} => st[child'[init]] = "zombie"
      PROVE  FamInv'
  <2>1. FamTypeOK'
    BY <1>1 DEF FamTypeOK
  <2>2. Allocated' = Allocated /\ \A q \in Pid : TableOf(q)' = TableOf(q)
    BY <1>1 DEF Allocated, TableOf
  <2>3. \A q \in Pid : q # init => at'[q] = at[q] /\ child'[q] = child[q]
    BY <1>1 DEF FamTypeOK
  <2>4. at[init] # "fork" /\ at'[init] # "fork"
    BY <1>1 DEF InitLives, InitAt
  <2>5. Linked'
    BY <1>1, <2>2, <2>3, <2>4 DEF Linked, Allocated
  <2>6. Listed' /\ Adopting' /\ Queued'
    BY <1>1, <2>2 DEF Listed, Adopting, Queued
  <2>7. InitLives'
    BY <1>1 DEF InitLives
  <2>8. InKernel'
    BY <1>1, <2>2, <2>3 DEF InKernel
  <2> QED
    BY <2>1, <2>5, <2>6, <2>7, <2>8
<1>2. CASE InitPoll
  <2>1. CASE Zombies # {}
    <3> DEFINE i == CHOOSE k \in Zombies : \A j \in Zombies : k <= j
    <3>1. Zombies \in SUBSET Nat
      BY DEF Zombies, FamTypeOK
    <3>2. \E k \in Zombies : \A j \in Zombies : k <= j
      BY <2>1, <3>1, LeastNatural
    <3>3. i \in Zombies
      BY <3>2
    <3> HIDE DEF i
    <3>4. chain[i] \in ToSet(chain) /\ st[chain[i]] = "zombie" /\ chain[i] \in Pid
      BY <1>0, <3>3 DEF Zombies, ToSet
    <3>5. /\ at' = [at EXCEPT ![init] = "find"] /\ child' = [child EXCEPT ![init] = chain[i]]
          /\ UNCHANGED <<st, parent, kids, chain, reap_queue, reaping, adopt>>
      BY <1>2, <2>1 DEF InitPoll, i
    <3>6. at'[init] = "find" /\ child'[init] = chain[i]
      BY <1>0, <3>5 DEF FamTypeOK
    <3> QED
      BY <1>1, <3>4, <3>5, <3>6 DEF InitAt
  <2>2. CASE Zombies = {}
    <3>1. /\ at' = [at EXCEPT ![init] = "any"] /\ child' = child
          /\ UNCHANGED <<st, parent, kids, chain, reap_queue, reaping, adopt>>
      BY <1>2, <2>2 DEF InitPoll
    <3>2. at'[init] = "any" /\ child' = [child EXCEPT ![init] = child'[init]] /\ child'[init] \in Pid \cup {None}
      BY <1>0, <3>1 DEF FamTypeOK
    <3> QED
      BY <1>1, <3>1, <3>2 DEF InitAt
  <2> QED
    BY <2>1, <2>2
<1>3. CASE InitWaitAny
  <2>1. CASE chain = <<>>
    <3>1. /\ at' = [at EXCEPT ![init] = "poll"] /\ child' = child
          /\ UNCHANGED <<st, parent, kids, chain, reap_queue, reaping, adopt>>
      BY <1>3, <2>1 DEF InitWaitAny
    <3>2. at'[init] = "poll" /\ child' = [child EXCEPT ![init] = child'[init]] /\ child'[init] \in Pid \cup {None}
      BY <1>0, <3>1 DEF FamTypeOK
    <3> QED
      BY <1>1, <3>1, <3>2 DEF InitAt
  <2>2. CASE chain # <<>>
    <3>1. /\ at' = [at EXCEPT ![init] = "wait"] /\ child' = [child EXCEPT ![init] = Head(chain)]
          /\ UNCHANGED <<st, parent, kids, chain, reap_queue, reaping, adopt>>
      BY <1>3, <2>2 DEF InitWaitAny, First
    <3>2. at'[init] = "wait" /\ child'[init] = Head(chain)
      BY <1>0, <3>1 DEF FamTypeOK
    <3>3. Head(chain) \in ToSet(chain)
      BY <2>2, TailMembers DEF FamTypeOK, Listed
    <3> QED
      BY <1>0, <1>1, <3>1, <3>2, <3>3 DEF InitAt
  <2> QED
    BY <2>1, <2>2
<1>4. CASE InitWoken \/ InitRemoveFind
  <2>1. /\ at' = [at EXCEPT ![init] = at'[init]] /\ at'[init] \in {"find", "unlink", "find_any", "unlink_any"}
        /\ child' = child /\ at[init] \in {"wait", "find", "find_any"} /\ st[child[init]] = "zombie"
        /\ UNCHANGED <<st, parent, kids, chain, reap_queue, reaping, adopt>>
    BY <1>0, <1>4 DEF InitWoken, InitRemoveFind, FamTypeOK, InitLives
  <2>2. child' = [child EXCEPT ![init] = child'[init]] /\ child'[init] \in ToSet(chain)
    BY <1>0, <2>1 DEF FamTypeOK, InitLives
  <2> QED
    BY <1>0, <1>1, <2>1, <2>2 DEF InitAt
<1>5. CASE InitRemove
  <2> DEFINE z == child[init]
             k == CHOOSE i \in DOMAIN chain : chain[i] = z
  <2>1. /\ at[init] \in {"unlink", "unlink_any"} /\ chain' = RemoveAt(chain, k) /\ st' = [st EXCEPT ![z] = "gone"]
        /\ at' = [at EXCEPT ![init] = at'[init]] /\ at'[init] \in {"any", "poll"}
        /\ child' = [child EXCEPT ![init] = None]
        /\ UNCHANGED <<parent, kids, reap_queue, reaping, adopt>>
    BY <1>0, <1>5 DEF InitRemove, FamTypeOK
  <2>2. z \in ToSet(chain) /\ st[z] = "zombie" /\ z \in Pid
    BY <1>0, <2>1 DEF InitLives
  <2>3. k \in DOMAIN chain /\ chain[k] = z
    BY <2>2 DEF ToSet
  <2> HIDE DEF z, k
  <2>4. chain' \in Seq(Pid) /\ ToSet(chain') = ToSet(chain) \ {z} /\ IsInjective(chain')
    BY <2>1, <2>3, RemoveProperties DEF FamTypeOK, Listed
  <2>5. parent[z] = init /\ z # init /\ z \in Allocated
    BY <1>0, <2>2 DEF Listed, InitLives, TableOf
  <2>6. Allocated' = Allocated \ {z}
    BY <2>1, <2>2 DEF Allocated, FamTypeOK
  <2>7. FamTypeOK'
    BY <1>0, <2>1, <2>2, <2>4 DEF FamTypeOK, State, InitAt, None
  <2>8. adopt # z /\ kids[z] = {} /\ at[z] = "user"
    BY <1>0, <2>2, <2>5 DEF Adopting, Listed, InKernel
  <2>9. \A q \in Pid : TableOf(q)' = TableOf(q) \ {z}
    <3>1. \A q \in Pid : q # init => z \notin kids[q]
      BY <2>5 DEF Listed, TableOf
    <3> QED
      BY <2>1, <2>4, <3>1 DEF TableOf
  <2>10. \A d \in Allocated \ {init} : parent[d] # z
    BY <1>0, <2>5, <2>8 DEF Linked, TableOf, Adopting, Allocated
  <2>11. at[init] # "fork" /\ at'[init] # "fork" /\ \A q \in Pid : q # init => at'[q] = at[q] /\ child'[q] = child[q]
    BY <1>0, <2>1 DEF FamTypeOK
  <2>12. Linked'
    BY <2>1, <2>6, <2>9, <2>10, <2>11 DEF Linked, Allocated
  <2>13. Listed'
    <3>1. \A q \in Pid : \A d \in TableOf(q)' : d \in Allocated' /\ parent'[d] = q
      BY <2>1, <2>6, <2>9 DEF Listed
    <3>2. \A q \in Pid : st'[q] \in {"unborn", "zombie", "gone"} => kids'[q] = {}
      BY <2>1, <2>8 DEF Listed, FamTypeOK
    <3> QED
      BY <2>4, <3>1, <3>2 DEF Listed
  <2>14. InitLives'
    BY <1>0, <2>1, <2>5 DEF InitLives, FamTypeOK, InitAt
  <2>15. \A q \in Pid \ {init} : at[q] = "fork" => child[q] # z
    BY <2>5 DEF InKernel
  <2>16. InKernel'
    BY <2>1, <2>6, <2>8, <2>11, <2>15 DEF InKernel, FamTypeOK
  <2>17. Adopting' /\ Queued'
    BY <2>1, <2>2, <2>4, <2>6, <2>8 DEF Adopting, Queued, FamTypeOK
  <2> QED
    BY <2>7, <2>12, <2>13, <2>14, <2>16, <2>17
<1> QED
  BY <1>2, <1>3, <1>4, <1>5 DEF InitLoop

(* The reaper thread.                                                        *)
LEMMA ReaperKeeps ==
  ASSUME FamInv, Reaper, ~raced'
  PROVE  FamInv'
<1> USE DEF FamInv
<1>0. init \in Pid /\ None \notin Pid
  BY FamilyAssumption DEF Pid, init, None
<1>a. ASSUME reaping # <<>>
      PROVE  /\ Tail(reaping) \in Seq(Pid) /\ Head(reaping) \in ToSet(reaping) /\ Head(reaping) \in Pid
             /\ ToSet(Tail(reaping)) = ToSet(reaping) \ {Head(reaping)} /\ IsInjective(Tail(reaping))
             /\ Head(reaping) # init /\ st[Head(reaping)] = "killed" /\ at[Head(reaping)] = "user"
  <2>1. reaping \in Seq(Pid) /\ IsInjective(reaping)
    BY DEF FamTypeOK, Queued
  <2>2. /\ Tail(reaping) \in Seq(Pid) /\ Head(reaping) \in ToSet(reaping) /\ Head(reaping) \in Pid
        /\ ToSet(Tail(reaping)) = ToSet(reaping) \ {Head(reaping)} /\ IsInjective(Tail(reaping))
    BY <1>a, <2>1, TailMembers
  <2>3. Head(reaping) # init /\ st[Head(reaping)] = "killed"
    BY <2>2 DEF Queued
  <2> QED
    BY <2>2, <2>3 DEF InKernel
<1>1. CASE ReapTake
  <2>1. /\ reaping = <<>> /\ reaping' = reap_queue /\ reap_queue' = <<>>
        /\ UNCHANGED <<st, parent, kids, chain, at, child, adopt>>
    BY <1>1 DEF ReapTake
  <2>2. Allocated' = Allocated /\ \A q \in Pid : TableOf(q)' = TableOf(q)
    BY <2>1 DEF Allocated, TableOf
  <2>3. FamTypeOK' /\ InitLives' /\ InKernel'
    BY <2>1, <2>2 DEF FamTypeOK, InitLives, InKernel
  <2>4. Linked' /\ Listed' /\ Adopting'
    BY <2>1, <2>2 DEF Linked, Listed, Adopting, Allocated
  <2>5. Queued'
    BY <2>1 DEF Queued, ToSet, IsInjective
  <2> QED
    BY <2>3, <2>4, <2>5
<1>2. CASE Orphan
  <2> DEFINE h == Head(reaping)
  <2>1. PICK c \in kids[h] : parent' = [parent EXCEPT ![c] = init] /\ adopt' = c
                              /\ kids' = [kids EXCEPT ![h] = @ \ {c}]
    BY <1>2 DEF Orphan
  <2>2. /\ adopt = None /\ reaping # <<>>
        /\ UNCHANGED <<st, chain, at, child, reap_queue, reaping>>
    BY <1>2 DEF Orphan
  <2>3. h \in Pid /\ h # init /\ st[h] = "killed" /\ at[h] = "user"
    BY <1>a, <2>2
  <2> HIDE DEF h
  <2>4. c \in Pid /\ c \in Allocated /\ parent[c] = h /\ c # init
    BY <1>0, <2>1, <2>3 DEF FamTypeOK, Listed, TableOf, InitLives
  <2>5. Allocated' = Allocated
    BY <2>2 DEF Allocated
  <2>6. FamTypeOK'
    BY <1>0, <2>1, <2>2, <2>3, <2>4 DEF FamTypeOK
  <2>7. /\ parent'[c] = init /\ \A q \in Pid : q # c => parent'[q] = parent[q]
        /\ \A q \in Pid : TableOf(q)' = TableOf(q) \ {c}
    <3>1. \A q \in Pid : q # h => c \notin TableOf(q)
      BY <2>4 DEF Listed
    <3>2. \A q \in Pid : kids'[q] = IF q = h THEN kids[q] \ {c} ELSE kids[q]
      BY <2>1, <2>3 DEF FamTypeOK
    <3>3. \A q \in Pid : TableOf(q)' = IF q = h THEN TableOf(q) \ {c} ELSE TableOf(q)
      BY <2>2, <2>3, <3>2 DEF TableOf
    <3> QED
      BY <2>1, <2>4, <3>1, <3>3 DEF FamTypeOK
  <2>8. Linked'
    <3>1. init \in Allocated
      BY <1>0 DEF InitLives, Allocated
    <3>2. ASSUME NEW d \in Allocated \ {init}, d # c
          PROVE  /\ parent'[d] \in Allocated /\ parent'[d] = parent[d]
                 /\ d \in TableOf(parent'[d]) \/ (at[parent'[d]] = "fork" /\ child[parent'[d]] = d)
      BY <1>0, <2>2, <2>7, <3>2 DEF Linked, Allocated
    <3>3. ASSUME NEW d \in Allocated \ {init}, d # c
          PROVE  d \in TableOf(parent[d])' \/ (at'[parent'[d]] = "fork" /\ child'[parent'[d]] = d)
      <4>1. parent[d] \in Pid /\ parent'[d] = parent[d]
        BY <3>2, <3>3 DEF Allocated
      <4>2. d \in TableOf(parent[d]) \/ (at'[parent'[d]] = "fork" /\ child'[parent'[d]] = d)
        BY <2>2, <3>2, <3>3, <4>1
      <4>3. d \in TableOf(parent[d]) => d \in TableOf(parent[d])'
        <5>1. \A q \in Pid : kids[q] \ {c} \subseteq kids'[q]
          BY <2>1 DEF FamTypeOK
        <5> QED
          BY <2>2, <3>3, <4>1, <5>1 DEF TableOf
      <4> QED
        BY <4>2, <4>3
    <3> QED
      BY <2>1, <2>5, <2>7, <3>1, <3>2, <3>3 DEF Linked
  <2>9. Listed'
    <3>1. \A q \in Pid : \A d \in TableOf(q)' : d \in Allocated' /\ parent'[d] = q
      BY <2>5, <2>7 DEF Listed, Allocated
    <3>2. \A q \in Pid : st'[q] \in {"unborn", "zombie", "gone"} => kids'[q] = {}
      BY <2>1, <2>2 DEF Listed, FamTypeOK
    <3> QED
      BY <2>2, <3>1, <3>2 DEF Listed
  <2>10. InitLives'
    BY <1>0, <2>1, <2>2, <2>3, <2>4, <2>7 DEF InitLives, FamTypeOK
  <2>11. InKernel'
    <3>1. \A q \in Pid : kids'[q] = IF q = h THEN kids[q] \ {c} ELSE kids[q]
      BY <2>1, <2>3 DEF FamTypeOK
    <3>2. \A q \in Pid \ {init} : at[q] = "fork" => child[q] # c /\ child[q] \in Pid /\ q # h
      BY <2>3, <2>4 DEF InKernel, Allocated
    <3>3. \A q \in Pid \ {init} : at[q] = "wait" => q # h
      BY <2>3
    <3> QED
      BY <2>2, <2>5, <2>7, <3>1, <3>2, <3>3 DEF InKernel
  <2>12. Adopting'
    BY <1>0, <2>1, <2>2, <2>3, <2>4, <2>5, <2>7 DEF Adopting, Listed, TableOf
  <2>13. Queued'
    BY <2>2 DEF Queued
  <2> QED
    BY <2>6, <2>8, <2>9, <2>10, <2>11, <2>12, <2>13
<1>3. CASE OrphanInsert
  <2>1. /\ adopt # None /\ chain' = <<adopt>> \o chain /\ adopt' = None
        /\ UNCHANGED <<st, parent, kids, at, child, reap_queue, reaping>>
    BY <1>3 DEF OrphanInsert
  <2>2. adopt \in Pid /\ adopt \in Allocated /\ parent[adopt] = init /\ adopt \notin ToSet(chain)
    BY <2>1 DEF FamTypeOK, Adopting
  <2>3. chain' \in Seq(Pid) /\ ToSet(chain') = ToSet(chain) \cup {adopt} /\ IsInjective(chain')
    BY <2>1, <2>2, PrependProperties DEF FamTypeOK, Listed
  <2>4. FamTypeOK'
    BY <2>1, <2>3 DEF FamTypeOK
  <2>5. Allocated' = Allocated
        /\ \A q \in Pid : TableOf(q)' = IF q = init THEN TableOf(q) \cup {adopt} ELSE TableOf(q)
    BY <2>1, <2>3 DEF Allocated, TableOf
  <2>6. Linked'
    <3> SUFFICES ASSUME NEW d \in Allocated \ {init}
                 PROVE  /\ parent[d] \in Allocated
                        /\ d \in TableOf(parent[d])' \/ (at[parent[d]] = "fork" /\ child[parent[d]] = d)
      BY <2>1, <2>5 DEF Linked
    <3>1. /\ parent[d] \in Allocated
          /\ d \in TableOf(parent[d]) \/ d = adopt \/ (at[parent[d]] = "fork" /\ child[parent[d]] = d)
      BY DEF Linked
    <3> QED
      BY <2>1, <2>2, <2>3, <3>1 DEF TableOf
  <2>7. Listed'
    BY <2>1, <2>2, <2>3, <2>5 DEF Listed
  <2>8. InitLives' /\ InKernel'
    BY <2>1, <2>3, <2>5 DEF InitLives, InKernel
  <2>9. Adopting' /\ Queued'
    BY <2>1 DEF Adopting, Queued
  <2> QED
    BY <2>4, <2>6, <2>7, <2>8, <2>9
<1>4. CASE Zombie
  <2> DEFINE h == Head(reaping)
  <2>1. /\ reaping # <<>> /\ adopt = None /\ kids[h] = {} /\ st' = [st EXCEPT ![h] = "zombie"]
        /\ reaping' = Tail(reaping) /\ UNCHANGED <<parent, kids, chain, at, child, reap_queue, adopt>>
    BY <1>4 DEF Zombie
  <2>2. /\ reaping' \in Seq(Pid) /\ h \in ToSet(reaping) /\ h \in Pid
        /\ ToSet(reaping') = ToSet(reaping) \ {h} /\ IsInjective(reaping')
        /\ h # init /\ st[h] = "killed" /\ at[h] = "user"
    BY <1>a, <2>1
  <2> HIDE DEF h
  <2>3. Allocated' = Allocated /\ \A q \in Pid : TableOf(q)' = TableOf(q)
    BY <2>1, <2>2 DEF Allocated, TableOf, FamTypeOK
  <2>4. FamTypeOK'
    BY <2>1, <2>2 DEF FamTypeOK, State
  <2>5. Linked' /\ Adopting'
    BY <2>1, <2>3 DEF Linked, Adopting, Allocated
  <2>6. Listed'
    BY <2>1, <2>3 DEF Listed, FamTypeOK
  <2>7. InitLives'
    <3>1. at[init] \in {"find", "unlink", "find_any", "unlink_any"} => child[init] # h
      BY <2>2 DEF InitLives
    <3>2. at[init] \in {"find", "unlink", "find_any", "unlink_any"} => child[init] \in Pid
      BY <1>0 DEF InitLives, Listed, TableOf, Allocated
    <3> QED
      BY <1>0, <2>1, <2>2, <3>1, <3>2 DEF InitLives, FamTypeOK
  <2>8. InKernel'
    BY <2>1, <2>2, <2>3 DEF InKernel, FamTypeOK
  <2>9. Queued'
    BY <2>1, <2>2 DEF Queued, FamTypeOK
  <2> QED
    BY <2>4, <2>5, <2>6, <2>7, <2>8, <2>9
<1> QED
  BY <1>1, <1>2, <1>3, <1>4 DEF Reaper

(* Until init's unlocked table is corrupted or an execve puts an old parent  *)
(* back, every process has a parent that is not freed and that can find it:  *)
(* process_get_ppid reads a live PCB and process_wait_pid misses no child.   *)
THEOREM FamiliesExact == FamSpec => []FamilyExact
<1>1. FamInit => (~raced => FamInv)
  BY FamInitOK
<1>2. (~raced => FamInv) /\ [FamNext]_famVars => (~raced => FamInv)'
  <2> SUFFICES ASSUME ~raced => FamInv, [FamNext]_famVars, ~raced' PROVE FamInv'
    OBVIOUS
  <2>1. CASE FamNext
    <3>1. FamInv
      BY <2>1 DEF FamNext
    <3>2. CASE Reaper
      BY <3>1, <3>2, ReaperKeeps
    <3>3. CASE InitLoop
      BY <3>1, <3>3, InitKeeps
    <3>4. ASSUME NEW p \in Pid,
                 \/ ForkInsert(p) \/ Execve(p) \/ ExecveSwap(p) \/ ExitProcess(p) \/ ReapChild(p)
                 \/ \E c \in Pid : Fork(p, c) \/ \E no_hang \in BOOLEAN : WaitPid(p, c, no_hang)
          PROVE  FamInv'
      <4>1. TRUE \in BOOLEAN
        OBVIOUS
      <4> QED
        BY <3>1, <3>4, <4>1, CallsKeep
    <3> QED
      BY <2>1, <3>2, <3>3, <3>4 DEF FamNext
  <2>2. CASE UNCHANGED famVars
    <3>1. FamInv /\ UNCHANGED <<st, parent, kids, chain, at, child, reap_queue, reaping, adopt>>
      BY <2>2 DEF famVars
    <3>2. Allocated' = Allocated /\ \A q \in Pid : TableOf(q)' = TableOf(q)
      BY <3>1 DEF Allocated, TableOf
    <3>3. FamTypeOK' /\ Listed' /\ InitLives' /\ InKernel'
      BY <3>1, <3>2 DEF FamInv, FamTypeOK, Listed, InitLives, InKernel
    <3>4. Linked' /\ Adopting' /\ Queued'
      BY <3>1, <3>2 DEF FamInv, Linked, Adopting, Queued, Allocated
    <3> QED
      BY <3>3, <3>4 DEF FamInv
  <2> QED
    BY <2>1, <2>2
<1>3. (~raced => FamInv) => FamilyExact
  BY DEF FamInv, Linked, Listed, FamilyExact, Allocated
<1> QED
  BY <1>1, <1>2, <1>3, PTL DEF FamSpec
=============================================================================
