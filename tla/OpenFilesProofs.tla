--------------------------- MODULE OpenFilesProofs ---------------------------
(***************************************************************************)
(* Proofs about OpenFiles, for any number of processes, files, paths and   *)
(* descriptors.                                                            *)
(***************************************************************************)
EXTENDS OpenFiles, FiniteSetTheorems, SequenceTheorems, WellFoundedInduction, TLAPS

Label == {"enter", "wait", "wait_store", "find", "find_store", "lookup", "insert", "refs", "refs_store", "signal",
          "signal_store", "wait_full", "close", "signal_full", "unlock"}
OpRec == [op : {"find", "open", "dup", "close"}, path : Path \cup {None}, file : File \cup {None},
          proc : Proc \cup {None}, to : Slot \cup {-1}]

FTypeOK ==
  /\ rem \in Int /\ slock \in Proc \cup {None}
  /\ path \in [File -> Path \cup {None}] /\ refs \in [File -> Int]
  /\ slot \in [Proc -> [Slot -> File \cup {None}]]
  /\ todo \in [Proc -> Seq(OpRec)]
  /\ pc \in [Proc -> Label] /\ tmp \in [Proc -> Int]
  /\ alive \in SUBSET Proc /\ calls \in [Proc -> Nat]

\* what an operation of a call of p can be
WellFormed(p, o) ==
  /\ o.op = "open" => o.path \in Path
  /\ o.op = "dup" => o.file \in File /\ \E i \in Slot : slot[p][i] = o.file
  /\ o.op \in {"find", "close"} => o.proc = None
  /\ o.op \in {"open", "dup"} => o.proc \in Proc /\ (o.to = -1 => o.proc = p /\ FreeFd(p) # {})

\* a call that fills a slot of its own process does that last, and a call has no more operations
\* than there are slots
Calls ==
  \A p \in Proc :
    /\ Len(todo[p]) <= MaxFd + 1
    /\ \A k \in DOMAIN todo[p] :
         /\ WellFormed(p, todo[p][k])
         /\ todo[p][k].proc = p => k = Len(todo[p])

\* which operation a step belongs to
Steps ==
  \A p \in Proc :
    IF todo[p] = <<>> THEN pc[p] = "enter"
    ELSE /\ pc[p] \in {"wait_full", "close", "signal_full", "unlock"} => Op(p).op = "close"
         /\ pc[p] \in {"find", "find_store"} => Op(p).op = "find"
         /\ pc[p] \in {"lookup", "insert"} => Op(p).op = "open"
         /\ pc[p] \in {"wait", "wait_store"} => Op(p).op # "close"
         /\ pc[p] \in {"refs", "refs_store", "signal", "signal_store"} => Op(p).op \in {"open", "dup"}
         /\ pc[p] = "wait_store" => tmp[p] # 0

\* the child of a fork is one parent's, and does nothing yet
Children ==
  \A p, q \in Proc : \A k \in DOMAIN todo[p] : p # q /\ todo[p][k].proc = q =>
    /\ q \notin alive /\ todo[q] = <<>>
    /\ \A r \in Proc : \A l \in DOMAIN todo[r] : todo[r][l].proc = q => r = p

\* rem counts who may still enter
Sharing == {p \in Proc : InShared(p)}
Semaphore ==
  \/ /\ rem = Cap - Cardinality(Sharing)
     /\ \A p \in Proc : ~InFull(p)
  \/ /\ rem = 0 /\ Sharing = {}
     /\ \E p \in Proc : InFull(p) /\ \A q \in Proc : InFull(q) => q = p

\* the file an operation counts is open, and a path to be entered is not
Looked ==
  \A p \in Proc : todo[p] # <<>> =>
    /\ pc[p] \in {"refs", "refs_store", "signal", "signal_store"} => Op(p).file \in Live
    /\ pc[p] = "insert" => Registered(Op(p).path) = {}

\* a file that is open is counted exactly, one that is not has no handle
Counted ==
  /\ \A f \in Live : refs[f] = Handles(f)
  /\ \A f \in File \ Live : \A h \in Holder : ~Holds(h, f)

FInv == FTypeOK /\ Calls /\ Steps /\ Children /\ Semaphore /\ Looked /\ Counted
        /\ \A f, g \in Live : path[f] = path[g] => f = g

FilesInv == raced \/ FInv

-----------------------------------------------------------------------------
(* The constants.                                                            *)
LEMMA Constants ==
  /\ None \notin Proc /\ None \notin File /\ None \notin Path
  /\ MaxFd \in Nat /\ 0 \in Slot /\ Slot \subseteq Nat /\ -1 \notin Slot
  /\ Cap \in Nat /\ Cap > 0
<1>1. Cardinality(Proc) \in Nat
  BY FilesAssumption, FS_CardinalityType
<1> QED
  BY <1>1, FilesAssumption DEF Slot

(* The three places of a handle.                                             *)
LEMMA HolderForm ==
  ASSUME NEW h \in Holder
  PROVE  \E p \in Proc, n \in Slot : h \in {<<"slot", p, n>>, <<"counted", p, n>>, <<"close", p, n>>}
BY DEF Holder

(* The triples of the three kinds are holders.                               *)
LEMMA HolderType ==
  ASSUME NEW p \in Proc, NEW n \in Slot
  PROVE  <<"slot", p, n>> \in Holder /\ <<"counted", p, n>> \in Holder /\ <<"close", p, n>> \in Holder
BY DEF Holder

\* the operation of p that has counted a handle on f, and the close of one that is n before the last
HasCounted(p, f) == todo[p] # <<>> /\ Op(p).file = f /\ pc[p] \in {"signal", "signal_store"}
ToClose(p, n, f) ==
  LET k == Len(todo[p]) - n IN
  /\ k \in DOMAIN todo[p] /\ todo[p][k].op = "close" /\ todo[p][k].file = f
  /\ ~(k = 1 /\ pc[p] \in {"signal_full", "unlock"})

(* What each kind of holder holds.                                           *)
LEMMA HoldsForm ==
  ASSUME NEW p, NEW n, NEW f
  PROVE  /\ Holds(<<"slot", p, n>>, f) <=> slot[p][n] = f
         /\ Holds(<<"counted", p, n>>, f) <=> n = 0 /\ HasCounted(p, f)
         /\ Holds(<<"close", p, n>>, f) <=> ToClose(p, n, f)
BY DEF Holds, HasCounted, ToClose

(* The same after a step.                                                    *)
LEMMA HoldsFormAfter ==
  ASSUME NEW p, NEW n, NEW f
  PROVE  /\ Holds(<<"slot", p, n>>, f)' <=> slot'[p][n] = f
         /\ Holds(<<"counted", p, n>>, f)' <=> n = 0 /\ HasCounted(p, f)'
         /\ Holds(<<"close", p, n>>, f)' <=> ToClose(p, n, f)'
BY DEF Holds, HasCounted, ToClose

(* There are finitely many of them.                                          *)
LEMMA HolderFinite ==
  ASSUME NEW f
  PROVE  /\ IsFiniteSet({h \in Holder : Holds(h, f)}) /\ IsFiniteSet({h \in Holder : Holds(h, f)'})
         /\ Handles(f) \in Nat /\ Handles(f)' \in Nat
<1>1. IsFiniteSet(Slot) /\ IsFiniteSet(Proc)
  BY FilesAssumption, Constants, FS_Interval DEF Slot
<1>2. IsFiniteSet({"slot", "counted", "close"})
  <2>1. IsFiniteSet({"slot"})
    BY FS_Singleton
  <2>2. IsFiniteSet({"slot"} \cup {"counted"})
    BY <2>1, FS_AddElement
  <2>3. IsFiniteSet(({"slot"} \cup {"counted"}) \cup {"close"})
    BY <2>2, FS_AddElement
  <2>4. {"slot", "counted", "close"} = ({"slot"} \cup {"counted"}) \cup {"close"}
    OBVIOUS
  <2> QED
    BY <2>3, <2>4
<1>3. IsFiniteSet(Holder)
  <2>1. IsFiniteSet(Proc \X Slot)
    BY <1>1, FS_Product
  <2>2. IsFiniteSet({"slot", "counted", "close"} \X (Proc \X Slot))
    BY <1>2, <2>1, FS_Product
  <2>3. PICK H : H = {"slot", "counted", "close"} \X (Proc \X Slot)
    OBVIOUS
  <2>4. PICK g : g = [x \in H |-> <<x[1], x[2][1], x[2][2]>>]
    OBVIOUS
  <2>5. g \in Surjection(H, Holder)
    <3>1. \A x \in H : g[x] \in Holder
      BY <2>3, <2>4 DEF Holder
    <3>2. \A y \in Holder : \E x \in H : g[x] = y
      <4> SUFFICES ASSUME NEW y \in Holder PROVE \E x \in H : g[x] = y
        OBVIOUS
      <4>1. PICK a \in {"slot", "counted", "close"}, p \in Proc, n \in Slot : y = <<a, p, n>>
        BY DEF Holder
      <4>2. <<a, <<p, n>>>> \in H
        BY <2>3
      <4>3. g[<<a, <<p, n>>>>] = y
        BY <2>4, <4>1, <4>2
      <4> QED
        BY <4>2, <4>3
    <3> QED
      BY <2>4, <3>1, <3>2 DEF Surjection
  <2> QED
    BY <2>2, <2>3, <2>5, FS_Surjection
<1>4. IsFiniteSet({h \in Holder : Holds(h, f)}) /\ IsFiniteSet({h \in Holder : Holds(h, f)'})
  BY <1>3, FS_Subset
<1> QED
  BY <1>4, FS_CardinalityType DEF Handles

-----------------------------------------------------------------------------
(* Steps that keep every handle where it is.                                 *)
SameHolders == \A f \in File, h \in Holder : Holds(h, f)' <=> Holds(h, f)

(* If every handle stays where it is, the counts stay exact.                 *)
LEMMA SameHoldersCount ==
  ASSUME FInv, SameHolders, UNCHANGED <<path, refs>>
  PROVE  Counted' /\ Live' = Live /\ \A f, g \in Live' : path'[f] = path'[g] => f = g
<1>1. Live' = Live
  BY DEF Live
<1>2. \A f \in File : {h \in Holder : Holds(h, f)'} = {h \in Holder : Holds(h, f)}
  BY DEF SameHolders
<1>3. \A f \in File : Handles(f)' = Handles(f)
  BY <1>2 DEF Handles
<1>4. \A f \in Live : f \in File
  BY DEF Live
<1>5. Counted'
  BY <1>1, <1>3, <1>4 DEF FInv, Counted, SameHolders
<1> QED
  BY <1>1, <1>5 DEF FInv

(* It is enough to look at slots, counted handles and closes to come.        *)
LEMMA SameByForm ==
  ASSUME \A q \in Proc, n \in Slot, f \in File :
           /\ slot'[q][n] = f <=> slot[q][n] = f
           /\ HasCounted(q, f)' <=> HasCounted(q, f)
           /\ ToClose(q, n, f)' <=> ToClose(q, n, f)
  PROVE  SameHolders
<1> SUFFICES ASSUME NEW f \in File, NEW h \in Holder
             PROVE  Holds(h, f)' <=> Holds(h, f)
  BY DEF SameHolders
<1>1. PICK q \in Proc, n \in Slot : h \in {<<"slot", q, n>>, <<"counted", q, n>>, <<"close", q, n>>}
  BY HolderForm
<1>2. CASE h = <<"slot", q, n>>
  BY <1>2 DEF Holds
<1>3. CASE h = <<"counted", q, n>>
  BY <1>3 DEF Holds, HasCounted
<1>4. CASE h = <<"close", q, n>>
  BY <1>4 DEF Holds, ToClose
<1> QED
  BY <1>1, <1>2, <1>3, <1>4

(* The handles of a process whose table, calls and step do not change.       *)
LEMMA OtherHolders ==
  ASSUME NEW q, NEW f, NEW n, slot'[q] = slot[q], todo'[q] = todo[q],
         pc'[q] = pc[q] \/ (pc[q] \notin {"signal", "signal_store", "signal_full", "unlock"}
                            /\ pc'[q] \notin {"signal", "signal_store", "signal_full", "unlock"})
  PROVE  /\ Holds(<<"slot", q, n>>, f)' <=> Holds(<<"slot", q, n>>, f)
         /\ Holds(<<"counted", q, n>>, f)' <=> Holds(<<"counted", q, n>>, f)
         /\ Holds(<<"close", q, n>>, f)' <=> Holds(<<"close", q, n>>, f)
<1>1. HasCounted(q, f)' <=> HasCounted(q, f)
  BY DEF HasCounted, Op
<1>2. ToClose(q, n, f)' <=> ToClose(q, n, f)
  BY DEF ToClose
<1> QED
  BY <1>1, <1>2, HoldsForm, HoldsFormAfter

\* p goes on to label l of its operation
PcStep(p, l) ==
  /\ todo[p] # <<>> /\ l \in Label /\ pc' = [pc EXCEPT ![p] = l]
  /\ UNCHANGED <<todo, slot, alive, calls, path>>
  /\ rem' \in Int /\ slock' \in Proc \cup {None} /\ refs' \in [File -> Int]
  /\ tmp' \in [Proc -> Int] /\ \A q \in Proc : q # p => tmp'[q] = tmp[q]
  /\ l \in {"wait_full", "close", "signal_full", "unlock"} => Op(p).op = "close"
  /\ l \in {"find", "find_store"} => Op(p).op = "find"
  /\ l \in {"wait", "wait_store"} => Op(p).op # "close"
  /\ l \in {"refs", "refs_store", "signal", "signal_store"} => Op(p).op \in {"open", "dup"}
  /\ l \in {"lookup", "insert"} => Op(p).op = "open"
  /\ l = "wait_store" => tmp'[p] # 0
  /\ l \in {"refs", "refs_store", "signal", "signal_store"} => Op(p).file \in Live
  /\ l = "insert" => Registered(Op(p).path) = {}

(* Going on inside an operation keeps all but counts and semaphore.          *)
LEMMA PcStepKeeps ==
  ASSUME FInv, NEW p \in Proc, NEW l, PcStep(p, l)
  PROVE  /\ FTypeOK' /\ Calls' /\ Steps' /\ Children' /\ Looked'
         /\ \A q \in Proc : pc'[q] = IF q = p THEN l ELSE pc[q]
<1> USE Constants DEF FInv, PcStep
<1>1. \A q \in Proc : pc'[q] = IF q = p THEN l ELSE pc[q]
  BY DEF FTypeOK
<1>2. FTypeOK'
  BY DEF FTypeOK
<1>3. Calls'
  BY DEF Calls, WellFormed, FreeFd
<1>4. Steps'
  BY <1>1 DEF Steps, Op
<1>5. Children'
  BY DEF Children
<1>6. Looked'
  BY <1>1 DEF Looked, Op, Live, Registered
<1> QED
  BY <1>1, <1>2, <1>3, <1>4, <1>5, <1>6

(* Such a step with no effect on the handles.                                *)
LEMMA PcStepQuiet ==
  ASSUME FInv, NEW p \in Proc, NEW l, PcStep(p, l), refs' = refs,
         pc[p] \notin {"signal", "signal_store", "signal_full", "unlock"} \/ Op(p).op = "close" \/ l = "signal_store",
         l \in {"signal", "signal_store"} => pc[p] = "signal",
         l \in {"signal_full", "unlock"} => pc[p] = "signal_full",
         pc[p] \in {"signal_full", "unlock"} => l \in {"signal_full", "unlock"},
         Semaphore'
  PROVE  FInv'
<1>1. /\ FTypeOK' /\ Calls' /\ Steps' /\ Children' /\ Looked'
      /\ \A q \in Proc : pc'[q] = IF q = p THEN l ELSE pc[q]
  BY PcStepKeeps
<1>2. UNCHANGED <<todo, slot, path>>
  BY DEF PcStep
<1>3. ASSUME NEW q \in Proc, NEW f
      PROVE  HasCounted(q, f)' <=> HasCounted(q, f)
  <2>1. CASE q # p
    BY <1>1, <1>2, <2>1 DEF HasCounted, Op
  <2>2. CASE q = p
    BY <1>1, <1>2, <2>2 DEF HasCounted, Op, FInv, Steps, PcStep
  <2> QED
    BY <2>1, <2>2
<1>4. ASSUME NEW q \in Proc, NEW f, NEW n
      PROVE  ToClose(q, n, f)' <=> ToClose(q, n, f)
  BY <1>1, <1>2 DEF ToClose
<1>5. SameHolders
  BY <1>2, <1>3, <1>4, SameByForm
<1>6. Counted' /\ \A f, g \in Live' : path'[f] = path'[g] => f = g
  BY <1>2, <1>5, SameHoldersCount
<1> QED
  BY <1>1, <1>6 DEF FInv

-----------------------------------------------------------------------------
(* The semaphore.                                                            *)
LEMMA SemaphoreKept ==
  ASSUME FInv, rem' = rem,
         \A q \in Proc : (InShared(q)' <=> InShared(q)) /\ (InFull(q)' <=> InFull(q))
  PROVE  Semaphore'
<1>1. Sharing' = Sharing
  BY DEF Sharing
<1> QED
  BY <1>1 DEF FInv, Semaphore

(* The processes inside are finitely many.                                   *)
LEMMA SharingFinite == IsFiniteSet(Sharing) /\ Cardinality(Sharing) \in Nat
BY FilesAssumption, FS_Subset, FS_CardinalityType DEF Sharing

(* SemLock takes the semaphore's own lock.                                   *)
LEMMA SemLockKeeps ==
  ASSUME FInv, NEW p \in Proc, SemLock(p)
  PROVE  FInv'
<1> USE DEF SemLock, At, Goto, procVars, fileVars
<1> DEFINE l == IF Op(p).op = "close" THEN "wait_full" ELSE "wait"
<1>1. PcStep(p, l) /\ refs' = refs /\ pc[p] = "enter" /\ l \in {"wait", "wait_full"}
  BY DEF PcStep, FInv, FTypeOK, Label
<1>2. \A q \in Proc : pc'[q] = IF q = p THEN l ELSE pc[q]
  BY DEF FInv, FTypeOK
<1>3. Semaphore'
  <2>1. \A q \in Proc : (InShared(q)' <=> InShared(q)) /\ (InFull(q)' <=> InFull(q))
    BY <1>1, <1>2 DEF InShared, InFull
  <2> QED
    BY <2>1, SemaphoreKept
<1> HIDE DEF SemLock, l
<1> QED
  BY <1>1, <1>3, PcStepQuiet

(* SemWaitLoad found a place free.                                           *)
LEMMA SemWaitLoadKeeps ==
  ASSUME FInv, NEW p \in Proc, SemWaitLoad(p)
  PROVE  FInv'
<1> USE DEF SemWaitLoad, At, Goto, procVars, fileVars, semVars
<1>1. PcStep(p, "wait_store") /\ refs' = refs /\ pc[p] = "wait"
  BY DEF PcStep, FInv, FTypeOK, Label, Steps
<1>2. \A q \in Proc : pc'[q] = IF q = p THEN "wait_store" ELSE pc[q]
  BY DEF FInv, FTypeOK
<1>3. Semaphore'
  <2>1. \A q \in Proc : (InShared(q)' <=> InShared(q)) /\ (InFull(q)' <=> InFull(q))
    BY <1>1, <1>2 DEF InShared, InFull
  <2> QED
    BY <2>1, SemaphoreKept
<1> QED
  BY <1>1, <1>3, PcStepQuiet

(* SemWaitStore takes the place, unless rem has changed.                     *)
LEMMA SemWaitStoreKeeps ==
  ASSUME FInv, NEW p \in Proc, SemWaitStore(p), ~raced'
  PROVE  FInv'
<1> USE DEF SemWaitStore, At, Goto, procVars, fileVars
<1> DEFINE l == CASE Op(p).op = "find" -> "find" [] Op(p).op = "open" -> "lookup" [] OTHER -> "refs"
<1>0. rem = tmp[p] /\ rem' = rem - 1 /\ rem # 0 /\ rem \in Int
  BY DEF FInv, Steps, FTypeOK
<1>1. pc[p] = "wait_store" /\ todo[p] # <<>> /\ Op(p).op # "close" /\ l \in {"find", "lookup", "refs"}
  BY DEF FInv, Steps
<1>2. l = "refs" => Op(p).file \in Live /\ Op(p).op = "dup"
  <2> SUFFICES ASSUME l = "refs" PROVE Op(p).file \in Live /\ Op(p).op = "dup"
    OBVIOUS
  <2>1. Op(p) = todo[p][1] /\ 1 \in DOMAIN todo[p] /\ todo[p] \in Seq(OpRec)
    BY <1>1 DEF Op, FInv, FTypeOK
  <2>2. Op(p).op = "dup"
    <3>1. todo[p][1] \in OpRec
      BY <2>1
    <3>2. Op(p).op \in {"find", "open", "dup", "close"}
      BY <2>1, <3>1 DEF OpRec
    <3> QED
      BY <1>1, <3>2
  <2>3. PICK i \in Slot : slot[p][i] = Op(p).file /\ Op(p).file \in File
    BY <2>1, <2>2 DEF FInv, Calls, WellFormed
  <2>4. Holds(<<"slot", p, i>>, Op(p).file) /\ <<"slot", p, i>> \in Holder
    BY <2>3, HoldsForm, HolderType
  <2> QED
    BY <2>2, <2>3, <2>4 DEF FInv, Counted
<1>3. PcStep(p, l) /\ refs' = refs
  BY <1>0, <1>1, <1>2, Constants DEF PcStep, FInv, FTypeOK, Label
<1>4. \A q \in Proc : pc'[q] = IF q = p THEN l ELSE pc[q]
  BY DEF FInv, FTypeOK
<1>5. Semaphore'
  <2>1. \A q \in Proc : /\ InShared(q)' <=> (q = p \/ InShared(q))
                        /\ InFull(q)' <=> InFull(q)
    BY <1>1, <1>4 DEF InShared, InFull
  <2>2. p \notin Sharing /\ Sharing' = Sharing \cup {p}
    BY <1>1, <2>1 DEF Sharing, InShared
  <2>3. Cardinality(Sharing') = Cardinality(Sharing) + 1 /\ Cardinality(Sharing) \in Nat
    BY <2>2, SharingFinite, FS_AddElement
  <2>4. rem = Cap - Cardinality(Sharing) /\ \A q \in Proc : ~InFull(q)
    BY <1>0 DEF FInv, Semaphore
  <2>5. rem' = Cap - Cardinality(Sharing')
    BY <1>0, <2>3, <2>4, Constants
  <2> QED
    BY <2>1, <2>4, <2>5 DEF Semaphore
<1> HIDE DEF SemWaitStore, l
<1> QED
  BY <1>1, <1>3, <1>5, PcStepQuiet

(* SemSignalLoad.                                                            *)
LEMMA SemSignalLoadKeeps ==
  ASSUME FInv, NEW p \in Proc, SemSignalLoad(p)
  PROVE  FInv'
<1> USE DEF SemSignalLoad, At, Goto, procVars, fileVars, semVars
<1>1. PcStep(p, "signal_store") /\ refs' = refs /\ pc[p] = "signal"
  BY DEF PcStep, FInv, FTypeOK, Label, Steps, Looked
<1>2. \A q \in Proc : pc'[q] = IF q = p THEN "signal_store" ELSE pc[q]
  BY DEF FInv, FTypeOK
<1>3. Semaphore'
  <2>1. \A q \in Proc : (InShared(q)' <=> InShared(q)) /\ (InFull(q)' <=> InFull(q))
    BY <1>1, <1>2 DEF InShared, InFull
  <2> QED
    BY <2>1, SemaphoreKept
<1> QED
  BY <1>1, <1>3, PcStepQuiet

(* SemWaitFull: all places are free, so nobody is inside.                    *)
LEMMA SemWaitFullKeeps ==
  ASSUME FInv, NEW p \in Proc, SemWaitFull(p)
  PROVE  FInv'
<1> USE DEF SemWaitFull, At, Goto, procVars, fileVars
<1>1. PcStep(p, "close") /\ refs' = refs /\ pc[p] = "wait_full" /\ todo[p] # <<>>
  BY Constants DEF PcStep, FInv, FTypeOK, Label, Steps
<1>2. \A q \in Proc : pc'[q] = IF q = p THEN "close" ELSE pc[q]
  BY DEF FInv, FTypeOK
<1>3. Semaphore'
  <2>1. rem = Cap - Cardinality(Sharing) /\ \A q \in Proc : ~InFull(q)
    BY Constants DEF FInv, Semaphore
  <2>2. Cardinality(Sharing) = 0
    BY <2>1, SharingFinite, Constants
  <2>3. Sharing = {}
    BY <2>2, SharingFinite, FS_EmptySet
  <2>4. \A q \in Proc : InFull(q)' <=> q = p
    BY <1>1, <1>2, <2>1 DEF InFull
  <2>5. \A q \in Proc : ~InShared(q)'
    BY <1>1, <1>2, <2>3 DEF InShared, Sharing
  <2>6. Sharing' = {}
    BY <2>5 DEF Sharing
  <2> QED
    BY <2>4, <2>6 DEF Semaphore
<1> QED
  BY <1>1, <1>3, PcStepQuiet

(* SemSignalFull gives all places back.                                      *)
LEMMA SemSignalFullKeeps ==
  ASSUME FInv, NEW p \in Proc, SemSignalFull(p)
  PROVE  FInv'
<1> USE DEF SemSignalFull, At, Goto, procVars, fileVars
<1>1. PcStep(p, "unlock") /\ refs' = refs /\ pc[p] = "signal_full" /\ todo[p] # <<>> /\ Op(p).op = "close"
  BY Constants DEF PcStep, FInv, FTypeOK, Label, Steps
<1>2. \A q \in Proc : pc'[q] = IF q = p THEN "unlock" ELSE pc[q]
  BY DEF FInv, FTypeOK
<1>3. Semaphore'
  <2>1. Sharing = {} /\ \A q \in Proc : InFull(q) => q = p
    BY <1>1 DEF FInv, Semaphore, InFull
  <2>2. \A q \in Proc : ~InFull(q)' /\ ~InShared(q)'
    BY <1>1, <1>2, <2>1 DEF InFull, InShared, Sharing
  <2>3. Sharing' = {}
    BY <2>2 DEF Sharing
  <2>4. rem' = Cap - Cardinality(Sharing')
    BY <2>3, FS_EmptySet, Constants
  <2> QED
    BY <2>2, <2>4 DEF Semaphore
<1> QED
  BY <1>1, <1>3, PcStepQuiet

(* RefsLoad.                                                                 *)
LEMMA RefsLoadKeeps ==
  ASSUME FInv, NEW p \in Proc, RefsLoad(p)
  PROVE  FInv'
<1> USE DEF RefsLoad, At, Goto, procVars, fileVars, semVars
<1>0. Op(p).file \in Live /\ Op(p).file \in File /\ pc[p] = "refs"
  BY DEF FInv, Looked, Live
<1>1. PcStep(p, "refs_store") /\ refs' = refs
  BY <1>0 DEF PcStep, FInv, FTypeOK, Label, Steps
<1>2. \A q \in Proc : pc'[q] = IF q = p THEN "refs_store" ELSE pc[q]
  BY DEF FInv, FTypeOK
<1>3. Semaphore'
  <2>1. \A q \in Proc : (InShared(q)' <=> InShared(q)) /\ (InFull(q)' <=> InFull(q))
    BY <1>0, <1>2 DEF InShared, InFull
  <2> QED
    BY <2>1, SemaphoreKept
<1> QED
  BY <1>0, <1>1, <1>3, PcStepQuiet

-----------------------------------------------------------------------------
(* Counting and uncounting a handle.                                         *)

(* One handle more, on one file.                                             *)
LEMMA OneMore ==
  ASSUME NEW f, NEW t \in Holder, ~Holds(t, f),
         \A h \in Holder : Holds(h, f)' <=> Holds(h, f) \/ h = t
  PROVE  Handles(f)' = Handles(f) + 1
<1>1. {h \in Holder : Holds(h, f)'} = {h \in Holder : Holds(h, f)} \cup {t}
  OBVIOUS
<1>2. t \notin {h \in Holder : Holds(h, f)}
  OBVIOUS
<1> QED
  BY <1>1, <1>2, HolderFinite, FS_AddElement DEF Handles

(* One handle less.                                                          *)
LEMMA OneLess ==
  ASSUME NEW f, NEW t \in Holder, Holds(t, f),
         \A h \in Holder : Holds(h, f)' <=> Holds(h, f) /\ h # t
  PROVE  Handles(f)' = Handles(f) - 1
<1>1. {h \in Holder : Holds(h, f)'} = {h \in Holder : Holds(h, f)} \ {t}
  OBVIOUS
<1>2. t \in {h \in Holder : Holds(h, f)}
  OBVIOUS
<1> QED
  BY <1>1, <1>2, HolderFinite, FS_RemoveElement DEF Handles

(* The count of a file whose handles stay.                                   *)
LEMMA SameCount ==
  ASSUME NEW f, \A h \in Holder : Holds(h, f)' <=> Holds(h, f)
  PROVE  Handles(f)' = Handles(f)
<1>1. {h \in Holder : Holds(h, f)'} = {h \in Holder : Holds(h, f)}
  OBVIOUS
<1> QED
  BY <1>1 DEF Handles

(* A file without handles.                                                   *)
LEMMA CountZero ==
  ASSUME NEW f
  PROVE  /\ (Handles(f) = 0 <=> \A h \in Holder : ~Holds(h, f))
         /\ (Handles(f)' = 0 <=> \A h \in Holder : ~Holds(h, f)')
<1>1. Handles(f) = 0 <=> {h \in Holder : Holds(h, f)} = {}
  BY HolderFinite, FS_EmptySet DEF Handles
<1>2. Handles(f)' = 0 <=> {h \in Holder : Holds(h, f)'} = {}
  BY HolderFinite, FS_EmptySet DEF Handles
<1> QED
  BY <1>1, <1>2

(* RefsStore: the handle is counted, unless another was meanwhile.           *)
LEMMA RefsStoreKeeps ==
  ASSUME FInv, NEW p \in Proc, RefsStore(p), ~raced'
  PROVE  FInv'
<1>0. PICK f : f = Op(p).file
  OBVIOUS
<1>1. /\ f \in Live /\ f \in File /\ pc[p] = "refs_store" /\ todo[p] # <<>> /\ refs[f] = tmp[p]
      /\ refs' = [refs EXCEPT ![f] = refs[f] + 1] /\ pc' = [pc EXCEPT ![p] = "signal"]
      /\ UNCHANGED <<semVars, path, procVars, todo, tmp>>
  BY <1>0 DEF FInv, Looked, Live, RefsStore, At, Goto
<1>2. PcStep(p, "signal")
  BY <1>0, <1>1 DEF PcStep, FInv, FTypeOK, Label, Steps, procVars, semVars
<1>3. /\ FTypeOK' /\ Calls' /\ Steps' /\ Children' /\ Looked'
      /\ \A q \in Proc : pc'[q] = IF q = p THEN "signal" ELSE pc[q]
  BY <1>2, PcStepKeeps
<1>4. Semaphore'
  <2>1. \A q \in Proc : (InShared(q)' <=> InShared(q)) /\ (InFull(q)' <=> InFull(q))
    BY <1>1, <1>3 DEF InShared, InFull
  <2> QED
    BY <1>1, <2>1, SemaphoreKept DEF semVars
<1>5. PICK t \in Holder : t = <<"counted", p, 0>>
  BY HolderType, Constants
<1>6. ASSUME NEW g \in File, NEW h \in Holder
      PROVE  Holds(h, g)' <=> Holds(h, g) \/ (g = f /\ h = t)
  <2>1. PICK q \in Proc, n \in Slot : h \in {<<"slot", q, n>>, <<"counted", q, n>>, <<"close", q, n>>}
    BY HolderForm
  <2>2. CASE h = <<"slot", q, n>>
    BY <1>1, <1>5, <2>2 DEF Holds, procVars
  <2>3. CASE h = <<"counted", q, n>>
    <3>1. Holds(h, g) <=> n = 0 /\ HasCounted(q, g)
      BY <2>3 DEF Holds, HasCounted
    <3>2. Holds(h, g)' <=> n = 0 /\ HasCounted(q, g)'
      BY <2>3 DEF Holds, HasCounted
    <3>3. HasCounted(q, g)' <=> HasCounted(q, g) \/ (q = p /\ g = f)
      BY <1>0, <1>1, <1>3 DEF HasCounted, Op
    <3>4. h = t <=> n = 0 /\ q = p
      BY <1>5, <2>3
    <3> QED
      BY <3>1, <3>2, <3>3, <3>4
  <2>4. CASE h = <<"close", q, n>>
    <3>1. h # t
      BY <1>5, <2>4
    <3>2. Holds(h, g) <=> ToClose(q, n, g)
      BY <2>4 DEF Holds, ToClose
    <3>3. Holds(h, g)' <=> ToClose(q, n, g)'
      BY <2>4 DEF Holds, ToClose
    <3>4. ToClose(q, n, g)' <=> ToClose(q, n, g)
      BY <1>1, <1>3 DEF ToClose
    <3> QED
      BY <3>1, <3>2, <3>3, <3>4
  <2> QED
    BY <2>1, <2>2, <2>3, <2>4
<1>7. ~Holds(t, f)
  BY <1>1, <1>5, HoldsForm DEF HasCounted
<1>8. Handles(f)' = Handles(f) + 1
  BY <1>1, <1>6, <1>7, OneMore
<1>9. \A g \in File : g # f => Handles(g)' = Handles(g)
  BY <1>6, SameCount
<1>10. Live' = Live
  BY <1>1 DEF Live
<1>11. Counted'
  <2>1. \A g \in Live : refs'[g] = Handles(g)'
    BY <1>1, <1>8, <1>9 DEF FInv, FTypeOK, Counted, Live
  <2>2. \A g \in File \ Live : \A h \in Holder : ~Holds(h, g)'
    BY <1>1, <1>6 DEF FInv, Counted
  <2> QED
    BY <1>10, <2>1, <2>2 DEF Counted
<1>12. \A a, b \in Live' : path'[a] = path'[b] => a = b
  BY <1>1, <1>10 DEF FInv
<1> QED
  BY <1>3, <1>4, <1>11, <1>12 DEF FInv

(* LookupClose: nobody else is inside, and the last close frees the file.    *)
LEMMA LookupCloseKeeps ==
  ASSUME FInv, NEW p \in Proc, LookupClose(p)
  PROVE  FInv'
<1>0. PICK f : f = Op(p).file
  OBVIOUS
<1>1. /\ pc[p] = "close" /\ todo[p] # <<>> /\ Op(p).op = "close"
      /\ refs' = [refs EXCEPT ![f] = refs[f] - 1] /\ pc' = [pc EXCEPT ![p] = "signal_full"]
      /\ path' = IF refs[f] = 1 THEN [path EXCEPT ![f] = None] ELSE path
      /\ UNCHANGED <<semVars, procVars, todo, tmp, raced>>
  BY <1>0 DEF FInv, Steps, LookupClose, At, Goto
<1>2. \A q \in Proc : pc'[q] = IF q = p THEN "signal_full" ELSE pc[q]
  BY <1>1 DEF FInv, FTypeOK
<1>3. Sharing = {} /\ \A q \in Proc : InFull(q) => q = p
  BY <1>1 DEF FInv, Semaphore, InFull
<1>4. Semaphore'
  <2>1. \A q \in Proc : (InShared(q)' <=> InShared(q)) /\ (InFull(q)' <=> InFull(q))
    BY <1>1, <1>2 DEF InShared, InFull
  <2> QED
    BY <1>1, <2>1, SemaphoreKept DEF semVars
<1>5. Looked'
  BY <1>1, <1>2, <1>3 DEF Looked, Sharing, InShared
<1>6. Calls' /\ Children'
  BY <1>1 DEF FInv, Calls, Children, WellFormed, FreeFd, procVars
<1>7. Steps'
  BY <1>1, <1>2 DEF FInv, Steps, Op
<1>8. FTypeOK'
  <2>1. refs' \in [File -> Int]
    <3>1. refs \in [File -> Int]
      BY DEF FInv, FTypeOK
    <3>2. f \in File => refs[f] - 1 \in Int
      BY <3>1
    <3>3. \A x \in File : refs'[x] \in Int
      BY <1>1, <3>1, <3>2
    <3> QED
      BY <1>1, <3>1, <3>3
  <2>2. path' \in [File -> Path \cup {None}]
    BY <1>1 DEF FInv, FTypeOK
  <2>3. pc' \in [Proc -> Label]
    BY <1>1 DEF FInv, FTypeOK, Label
  <2> QED
    BY <1>1, <2>1, <2>2, <2>3 DEF FInv, FTypeOK, semVars, procVars
<1>9. /\ todo[p] \in Seq(OpRec) /\ Len(todo[p]) \in 1 .. MaxFd + 1 /\ DOMAIN todo[p] = 1 .. Len(todo[p])
      /\ Op(p) = todo[p][1]
  <2>1. todo[p] \in Seq(OpRec) /\ Len(todo[p]) <= MaxFd + 1
    BY DEF FInv, FTypeOK, Calls
  <2> QED
    BY <1>1, <2>1 DEF Op
<1>10. PICK n0 \in Slot : n0 = Len(todo[p]) - 1
  BY <1>9, Constants DEF Slot
<1>11. PICK t \in Holder : t = <<"close", p, n0>>
  BY HolderType
<1>12. \A g : Holds(t, g) <=> g = f
  <2>1. Len(todo[p]) - n0 = 1
    BY <1>9, <1>10
  <2>2. 1 \in DOMAIN todo[p]
    BY <1>9
  <2>3. \A g : ToClose(p, n0, g) <=> g = f
    BY <1>0, <1>1, <1>9, <2>1, <2>2 DEF ToClose
  <2> QED
    BY <1>11, <2>3, HoldsForm
<1>13. ASSUME NEW g \in File, NEW h \in Holder
       PROVE  Holds(h, g)' <=> Holds(h, g) /\ h # t
  <2>1. PICK q \in Proc, n \in Slot : h \in {<<"slot", q, n>>, <<"counted", q, n>>, <<"close", q, n>>}
    BY HolderForm
  <2>2. CASE h = <<"slot", q, n>>
    BY <1>1, <1>11, <2>2 DEF Holds, procVars
  <2>3. CASE h = <<"counted", q, n>>
    <3>1. h # t
      BY <1>11, <2>3
    <3>2. HasCounted(q, g)' <=> HasCounted(q, g)
      BY <1>1, <1>2 DEF HasCounted, Op
    <3> QED
      BY <2>3, <3>1, <3>2 DEF Holds, HasCounted
  <2>4. CASE h = <<"close", q, n>>
    <3>1. Holds(h, g) <=> ToClose(q, n, g)
      BY <2>4 DEF Holds, ToClose
    <3>2. Holds(h, g)' <=> ToClose(q, n, g)'
      BY <2>4 DEF Holds, ToClose
    <3>3. ToClose(q, n, g)' <=> ToClose(q, n, g) /\ ~(q = p /\ n = n0)
      <4>1. CASE q # p
        BY <1>1, <1>2, <4>1 DEF ToClose
      <4>2. CASE q = p
        <5>1. Len(todo[p]) - n = 1 <=> n = n0
          BY <1>9, <1>10, Constants
        <5> QED
          BY <1>1, <1>2, <4>2, <5>1 DEF ToClose
      <4> QED
        BY <4>1, <4>2
    <3>4. h = t <=> q = p /\ n = n0
      BY <1>11, <2>4
    <3> QED
      BY <3>1, <3>2, <3>3, <3>4
  <2> QED
    BY <2>1, <2>2, <2>3, <2>4
<1>14. \A g \in File : g # f => \A h \in Holder : Holds(h, g)' <=> Holds(h, g)
  BY <1>12, <1>13
<1>15. \A g \in File : g # f => Handles(g)' = Handles(g)
  BY <1>14, SameCount
<1>16. \A g \in File : g # f => refs'[g] = refs[g] /\ path'[g] = path[g]
  BY <1>1 DEF FInv, FTypeOK
<1>17. CASE f \notin File
  <2>1. UNCHANGED <<refs, path>>
    BY <1>1, <1>17 DEF FInv, FTypeOK
  <2>2. SameHolders
    BY <1>14, <1>17 DEF SameHolders
  <2>3. Counted' /\ \A a, b \in Live' : path'[a] = path'[b] => a = b
    BY <2>1, <2>2, SameHoldersCount
  <2> QED
    BY <1>4, <1>5, <1>6, <1>7, <1>8, <2>3 DEF FInv
<1>18. CASE f \in File
  <2>1. f \in Live
    BY <1>12, <1>18 DEF FInv, Counted
  <2>2. Handles(f)' = Handles(f) - 1
    BY <1>12, <1>13, <1>18, OneLess
  <2>3. refs[f] = Handles(f) /\ refs'[f] = refs[f] - 1 /\ refs[f] \in Int
    BY <1>1, <1>18, <2>1 DEF FInv, Counted, FTypeOK
  <2>4. f \in Live' <=> refs[f] # 1
    BY <1>1, <1>18, <2>1 DEF FInv, FTypeOK, Live
  <2>5. \A g \in File : g # f => (g \in Live' <=> g \in Live)
    BY <1>16 DEF Live
  <2>6. Live \subseteq File /\ Live' \subseteq File /\ Live' \subseteq Live
    BY <2>1, <2>5 DEF Live
  <2>7. \A g \in Live' : refs'[g] = Handles(g)'
    BY <1>15, <1>16, <2>2, <2>3, <2>5, <2>6 DEF FInv, Counted
  <2>8. ASSUME NEW g \in File \ Live', NEW h \in Holder
        PROVE  ~Holds(h, g)'
    <3>1. CASE g # f
      BY <1>13, <2>5, <3>1 DEF FInv, Counted
    <3>2. CASE g = f
      <4>1. Handles(f)' = 0
        BY <2>2, <2>3, <2>4, <3>2
      <4> QED
        BY <3>2, <4>1, CountZero
    <3> QED
      BY <3>1, <3>2
  <2>9. Counted'
    BY <2>7, <2>8 DEF Counted
  <2>10. ASSUME NEW a \in Live', NEW b \in Live', path'[a] = path'[b]
         PROVE  a = b
    <3>1. path'[a] = path[a] /\ path'[b] = path[b]
      BY <1>1, <1>16, <2>4, <2>6
    <3> QED
      BY <2>6, <2>10, <3>1 DEF FInv
  <2> QED
    BY <1>4, <1>5, <1>6, <1>7, <1>8, <2>9, <2>10 DEF FInv
<1> QED
  BY <1>17, <1>18

-----------------------------------------------------------------------------
(* Looking a path up.                                                        *)

\* the same after a step, for given operations
WellFormedAfter(p, o) ==
  /\ o.op = "open" => o.path \in Path
  /\ o.op = "dup" => o.file \in File /\ \E i \in Slot : slot'[p][i] = o.file
  /\ o.op \in {"find", "close"} => o.proc = None
  /\ o.op \in {"open", "dup"} => o.proc \in Proc /\ (o.to = -1 => o.proc = p /\ \E i \in 1 .. MaxFd : slot'[p][i] = None)
CallSound(p) ==
  /\ Len(todo'[p]) <= MaxFd + 1
  /\ \A k \in DOMAIN todo'[p] : /\ WellFormedAfter(p, todo'[p][k])
                                /\ todo'[p][k].proc = p => k = Len(todo'[p])

(* The calls of the processes, one process at a time.                        *)
LEMMA CallsByProc ==
  ASSUME \A q \in Proc : CallSound(q)
  PROVE  Calls'
BY DEF Calls, CallSound, WellFormed, WellFormedAfter, FreeFd

\* u is s with file f in its first operation
FileSet(s, u, f) ==
  /\ u \in Seq(OpRec) /\ u # <<>> /\ Len(u) = Len(s) /\ DOMAIN u = DOMAIN s
  /\ u[1].file = f
  /\ u[1].op = s[1].op /\ u[1].path = s[1].path /\ u[1].proc = s[1].proc /\ u[1].to = s[1].to
  /\ \A k \in DOMAIN s : k # 1 => u[k] = s[k]

(* The operation that gets its file stays the operation it was.              *)
LEMMA SetFileFacts ==
  ASSUME NEW s \in Seq(OpRec), s # <<>>, NEW f \in File \cup {None}, NEW u, u = [s EXCEPT ![1].file = f]
  PROVE  FileSet(s, u, f)
<1>1. s \in [1 .. Len(s) -> OpRec] /\ Len(s) \in Nat /\ 1 \in 1 .. Len(s)
  OBVIOUS
<1>2. s[1] \in OpRec
  BY <1>1
<1>3. PICK o : o = [s[1] EXCEPT !.file = f]
  OBVIOUS
<1>4. /\ o \in OpRec /\ o.file = f
      /\ o.op = s[1].op /\ o.path = s[1].path /\ o.proc = s[1].proc /\ o.to = s[1].to
  BY <1>2, <1>3 DEF OpRec
<1>5. u = [s EXCEPT ![1] = o]
  BY <1>3
<1>6. u \in [1 .. Len(s) -> OpRec] /\ u[1] = o /\ \A k \in 1 .. Len(s) : k # 1 => u[k] = s[k]
  BY <1>1, <1>4, <1>5
<1>7. u \in Seq(OpRec) /\ Len(u) = Len(s) /\ DOMAIN u = 1 .. Len(s) /\ DOMAIN s = 1 .. Len(s)
  BY <1>1, <1>6, SeqDef
<1>8. u # <<>>
  BY <1>1, <1>7
<1> QED
  BY <1>4, <1>6, <1>7, <1>8 DEF FileSet

\* an open gets its file and goes on to count the handle
Found(p, f) ==
  /\ todo[p] # <<>> /\ pc[p] \in {"lookup", "insert"} /\ f \in File /\ SetFile(p, f)
  /\ pc' = [pc EXCEPT ![p] = "refs"]
  /\ UNCHANGED <<semVars, procVars, tmp>>

(* An open that has found its file keeps all but counts and semaphore.       *)
LEMMA FoundKeeps ==
  ASSUME FInv, NEW p \in Proc, NEW f, Found(p, f)
  PROVE  /\ todo' \in [Proc -> Seq(OpRec)] /\ pc' \in [Proc -> Label]
         /\ Calls' /\ Steps' /\ Children' /\ Semaphore' /\ SameHolders
         /\ todo'[p] # <<>> /\ pc'[p] = "refs" /\ Op(p)'.file = f
         /\ \A q \in Proc : q # p => todo'[q] = todo[q] /\ pc'[q] = pc[q]
<1>0. /\ todo[p] # <<>> /\ pc[p] \in {"lookup", "insert"} /\ f \in File
      /\ todo' = [todo EXCEPT ![p][1].file = f]
      /\ pc' = [pc EXCEPT ![p] = "refs"] /\ UNCHANGED <<semVars, procVars, tmp>>
      /\ Op(p).op = "open"
  BY DEF Found, SetFile, FInv, Steps
<1>1. todo[p] \in Seq(OpRec) /\ todo'[p] = [todo[p] EXCEPT ![1].file = f]
  BY <1>0 DEF FInv, FTypeOK
<1>2. PICK u : u = todo'[p]
  OBVIOUS
<1>3. /\ u \in Seq(OpRec) /\ u # <<>> /\ Len(u) = Len(todo[p]) /\ DOMAIN u = DOMAIN todo[p]
      /\ u[1].file = f
      /\ u[1].op = todo[p][1].op /\ u[1].path = todo[p][1].path /\ u[1].proc = todo[p][1].proc
      /\ u[1].to = todo[p][1].to
      /\ \A k \in DOMAIN todo[p] : k # 1 => u[k] = todo[p][k]
  <2>1. f \in File \cup {None}
    BY <1>0
  <2>2. u = [todo[p] EXCEPT ![1].file = f]
    BY <1>1, <1>2
  <2>3. todo[p] \in Seq(OpRec) /\ todo[p] # <<>>
    BY <1>0, <1>1
  <2>4. FileSet(todo[p], u, f)
    BY <2>1, <2>2, <2>3, SetFileFacts
  <2> QED
    BY <2>4 DEF FileSet
<1>4. \A q \in Proc : todo'[q] = IF q = p THEN u ELSE todo[q]
  BY <1>0, <1>2 DEF FInv, FTypeOK
<1>5. todo' \in [Proc -> Seq(OpRec)]
  <2>1. todo' = [q \in Proc |-> todo'[q]]
    BY <1>0 DEF FInv, FTypeOK
  <2>2. \A q \in Proc : todo'[q] \in Seq(OpRec)
    BY <1>3, <1>4 DEF FInv, FTypeOK
  <2> QED
    BY <2>1, <2>2
<1>6. pc' \in [Proc -> Label] /\ \A q \in Proc : pc'[q] = IF q = p THEN "refs" ELSE pc[q]
  BY <1>0 DEF FInv, FTypeOK, Label
<1>7. Op(p)' = u[1] /\ Op(p) = todo[p][1] /\ todo[p][1].op = "open" /\ 1 \in DOMAIN todo[p]
  <2>1. Op(p)' = Head(u) /\ Op(p) = Head(todo[p])
    BY <1>2 DEF Op
  <2> QED
    BY <1>0, <1>1, <1>3, <2>1
<1>8. Calls'
  <2>0. \A q, o : WellFormedAfter(q, o) <=> WellFormed(q, o)
    BY <1>0 DEF WellFormedAfter, WellFormed, FreeFd, procVars
  <2>1. ASSUME NEW q \in Proc, q # p
        PROVE  CallSound(q)
    BY <1>4, <2>0, <2>1 DEF FInv, Calls, CallSound
  <2>2. CallSound(p)
    <3>1. todo'[p] = u
      BY <1>4
    <3>2. WellFormed(p, todo[p][1]) => WellFormed(p, u[1])
      BY <1>3, <1>7 DEF WellFormed
    <3>3. \A k \in DOMAIN u : WellFormed(p, u[k])
      BY <1>3, <1>7, <3>2 DEF FInv, Calls
    <3>4. \A k \in DOMAIN u : u[k].proc = todo[p][k].proc
      BY <1>3
    <3>5. \A k \in DOMAIN u : u[k].proc = p => k = Len(u)
      BY <1>3, <3>4 DEF FInv, Calls
    <3>6. Len(u) <= MaxFd + 1
      BY <1>3 DEF FInv, Calls
    <3> QED
      BY <2>0, <3>1, <3>3, <3>5, <3>6 DEF CallSound
  <2> QED
    BY <2>1, <2>2, CallsByProc
<1>9. Steps'
  BY <1>3, <1>4, <1>6, <1>7, <1>0 DEF FInv, Steps, Op
<1>10. Children'
  <2>1. \A q \in Proc : /\ DOMAIN todo'[q] = DOMAIN todo[q]
                        /\ \A k \in DOMAIN todo[q] : todo'[q][k].proc = todo[q][k].proc
                        /\ todo'[q] = <<>> <=> todo[q] = <<>>
    BY <1>0, <1>3, <1>4
  <2> QED
    BY <1>0, <2>1 DEF FInv, Children, procVars
<1>11. Semaphore'
  <2>1. \A q \in Proc : (InShared(q)' <=> InShared(q)) /\ (InFull(q)' <=> InFull(q))
    BY <1>0, <1>3, <1>4, <1>6 DEF InShared, InFull
  <2> QED
    BY <1>0, <2>1, SemaphoreKept DEF semVars
<1>12. SameHolders
  <2>1. ASSUME NEW q \in Proc, NEW g
        PROVE  HasCounted(q, g)' <=> HasCounted(q, g)
    BY <1>0, <1>4, <1>6 DEF HasCounted, Op
  <2>2. ASSUME NEW q \in Proc, NEW n \in Slot, NEW g
        PROVE  ToClose(q, n, g)' <=> ToClose(q, n, g)
    <3>1. CASE q # p
      BY <1>4, <1>6, <3>1 DEF ToClose
    <3>2. CASE q = p
      BY <1>0, <1>3, <1>4, <1>6, <1>7, <3>2 DEF ToClose
    <3> QED
      BY <3>1, <3>2
  <2>3. \A q \in Proc, n \in Slot, g \in File : slot'[q][n] = g <=> slot[q][n] = g
    BY <1>0 DEF procVars
  <2> QED
    BY <2>1, <2>2, <2>3, SameByForm
<1> QED
  BY <1>3, <1>4, <1>5, <1>6, <1>7, <1>8, <1>9, <1>10, <1>11, <1>12

(* Lookup finds the one file of the path, or none.                           *)
LEMMA LookupKeeps ==
  ASSUME FInv, NEW p \in Proc, Lookup(p)
  PROVE  FInv'
<1>0. /\ todo[p] # <<>> /\ pc[p] = "lookup" /\ Op(p).op = "open"
      /\ UNCHANGED <<semVars, fileVars, procVars, tmp, raced>>
  BY DEF Lookup, At, FInv, Steps
<1>1. CASE Registered(Op(p).path) = {}
  <2>1. PcStep(p, "insert") /\ refs' = refs
    BY <1>0, <1>1 DEF Lookup, Goto, PcStep, FInv, FTypeOK, Label, procVars, semVars, fileVars
  <2>2. \A q \in Proc : pc'[q] = IF q = p THEN "insert" ELSE pc[q]
    BY <2>1, PcStepKeeps
  <2>3. \A q \in Proc : (InShared(q)' <=> InShared(q)) /\ (InFull(q)' <=> InFull(q))
    BY <1>0, <2>1, <2>2 DEF InShared, InFull, PcStep
  <2>4. Semaphore'
    BY <1>0, <2>3, SemaphoreKept DEF semVars
  <2> QED
    BY <1>0, <2>1, <2>4, PcStepQuiet
<1>2. CASE Registered(Op(p).path) # {}
  <2>1. PICK f \in Live : SetFile(p, f) /\ f \in File
    BY <1>2 DEF Lookup, Registered, Live
  <2>2. Found(p, f)
    BY <1>0, <1>2, <2>1 DEF Found, Lookup, Goto
  <2>3. /\ todo' \in [Proc -> Seq(OpRec)] /\ pc' \in [Proc -> Label]
        /\ Calls' /\ Steps' /\ Children' /\ Semaphore' /\ SameHolders
        /\ todo'[p] # <<>> /\ pc'[p] = "refs" /\ Op(p)'.file = f
        /\ \A q \in Proc : q # p => todo'[q] = todo[q] /\ pc'[q] = pc[q]
    BY <2>2, FoundKeeps
  <2>4. FTypeOK'
    BY <1>0, <2>3 DEF FInv, FTypeOK, semVars, fileVars, procVars
  <2>5. Counted' /\ Live' = Live /\ \A a, b \in Live' : path'[a] = path'[b] => a = b
    BY <1>0, <2>3, SameHoldersCount DEF fileVars
  <2>6. Looked'
    BY <1>0, <2>1, <2>3, <2>5 DEF FInv, Looked, Op, Registered, fileVars
  <2> QED
    BY <2>3, <2>4, <2>5, <2>6 DEF FInv
<1> QED
  BY <1>1, <1>2

(* Insert: the path was open nowhere, and nobody else enters it.             *)
LEMMA InsertKeeps ==
  ASSUME FInv, NEW p \in Proc, Insert(p), ~raced'
  PROVE  FInv'
<1>0. PICK f \in File \ Live : /\ path' = [path EXCEPT ![f] = Op(p).path]
                               /\ refs' = [refs EXCEPT ![f] = 0]
                               /\ SetFile(p, f)
  BY DEF Insert
<1>1. /\ todo[p] # <<>> /\ pc[p] = "insert" /\ Op(p).op = "open"
      /\ \A q \in Proc : q # p /\ todo[q] # <<>> => pc[q] # "insert"
      /\ UNCHANGED <<semVars, procVars, tmp>>
  BY DEF Insert, At, FInv, Steps
<1>2. PICK a : a = Op(p).path
  OBVIOUS
<1>3. a \in Path /\ a # None /\ \A g \in Live : path[g] # a
  <2>1. 1 \in DOMAIN todo[p] /\ Op(p) = todo[p][1]
    BY <1>1 DEF FInv, FTypeOK, Op
  <2>2. a \in Path
    BY <1>1, <1>2, <2>1 DEF FInv, Calls, WellFormed
  <2>3. Registered(a) = {}
    BY <1>1, <1>2 DEF FInv, Looked
  <2> QED
    BY <2>2, <2>3, Constants DEF Registered
<1>4. Found(p, f)
  BY <1>0, <1>1 DEF Found, Insert, Goto
<1>5. /\ todo' \in [Proc -> Seq(OpRec)] /\ pc' \in [Proc -> Label]
      /\ Calls' /\ Steps' /\ Children' /\ Semaphore' /\ SameHolders
      /\ todo'[p] # <<>> /\ pc'[p] = "refs" /\ Op(p)'.file = f
      /\ \A q \in Proc : q # p => todo'[q] = todo[q] /\ pc'[q] = pc[q]
  BY <1>4, FoundKeeps
<1>6. /\ path' \in [File -> Path \cup {None}] /\ refs' \in [File -> Int]
      /\ \A g \in File : path'[g] = IF g = f THEN a ELSE path[g]
      /\ \A g \in File : refs'[g] = IF g = f THEN 0 ELSE refs[g]
  BY <1>0, <1>2, <1>3 DEF FInv, FTypeOK
<1>7. FTypeOK'
  BY <1>1, <1>5, <1>6 DEF FInv, FTypeOK, semVars, procVars
<1>8. Live' = Live \cup {f} /\ Live \subseteq File
  BY <1>3, <1>6 DEF Live
<1>9. Looked'
  <2> SUFFICES ASSUME NEW q \in Proc, todo'[q] # <<>>
               PROVE  /\ pc'[q] \in {"refs", "refs_store", "signal", "signal_store"} => Op(q)'.file \in Live'
                      /\ pc'[q] # "insert"
    BY DEF Looked
  <2>1. CASE q = p
    BY <1>5, <1>8, <2>1
  <2>2. CASE q # p
    BY <1>1, <1>5, <1>8, <2>2 DEF FInv, Looked, Op
  <2> QED
    BY <2>1, <2>2
<1>10. Counted'
  <2>1. \A g \in File : Handles(g)' = Handles(g)
    BY <1>5, SameCount DEF SameHolders
  <2>2. \A h \in Holder : ~Holds(h, f)'
    BY <1>0, <1>5 DEF FInv, Counted, SameHolders
  <2>3. Handles(f)' = 0
    BY <2>2, CountZero
  <2>4. \A g \in Live' : refs'[g] = Handles(g)'
    BY <1>0, <1>6, <1>8, <2>1, <2>3 DEF FInv, Counted
  <2>5. \A g \in File \ Live' : \A h \in Holder : ~Holds(h, g)'
    BY <1>5, <1>8 DEF FInv, Counted, SameHolders
  <2> QED
    BY <2>4, <2>5 DEF Counted
<1>11. \A g, h \in Live' : path'[g] = path'[h] => g = h
  BY <1>0, <1>3, <1>6, <1>8 DEF FInv
<1> QED
  BY <1>5, <1>7, <1>9, <1>10, <1>11 DEF FInv

-----------------------------------------------------------------------------
(* The end of an operation.                                                  *)

\* u is s without its first operation
Tailed(s, u) ==
  /\ u \in Seq(OpRec) /\ Len(s) \in Nat /\ Len(s) >= 1 /\ Len(u) = Len(s) - 1
  /\ DOMAIN u = 1 .. Len(s) - 1 /\ DOMAIN s = 1 .. Len(s)
  /\ \A k \in 1 .. Len(s) - 1 : u[k] = s[k + 1]

(* The rest of a call.                                                       *)
LEMMA TailFacts ==
  ASSUME NEW s \in Seq(OpRec), s # <<>>
  PROVE  Tailed(s, Tail(s))
<1>1. Len(s) \in Nat /\ Len(s) >= 1 /\ DOMAIN s = 1 .. Len(s)
  OBVIOUS
<1>2. Tail(s) \in Seq(OpRec) /\ Len(Tail(s)) = Len(s) - 1 /\ \A k \in 1 .. Len(s) - 1 : Tail(s)[k] = s[k + 1]
  BY HeadTailProperties
<1>3. DOMAIN Tail(s) = 1 .. Len(s) - 1
  BY <1>2
<1> QED
  BY <1>1, <1>2, <1>3 DEF Tailed

\* u is s with its first operation replaced by o
Headed(s, u, o) ==
  /\ u \in Seq(OpRec) /\ Len(s) \in Nat /\ Len(s) >= 1 /\ Len(u) = Len(s)
  /\ DOMAIN u = 1 .. Len(s) /\ DOMAIN s = 1 .. Len(s)
  /\ u[1] = o /\ \A k \in 2 .. Len(s) : u[k] = s[k]

(* The rest of a call, with another operation before it.                     *)
LEMMA HeadFacts ==
  ASSUME NEW s \in Seq(OpRec), s # <<>>, NEW o \in OpRec
  PROVE  Headed(s, <<o>> \o Tail(s), o)
<1>1. Tailed(s, Tail(s))
  BY TailFacts
<1>2. PICK v \in Seq(OpRec) : v = Tail(s)
  BY <1>1 DEF Tailed
<1>3. /\ Len(s) \in Nat /\ Len(s) >= 1 /\ Len(v) = Len(s) - 1 /\ DOMAIN s = 1 .. Len(s)
      /\ \A k \in 1 .. Len(s) - 1 : v[k] = s[k + 1]
  BY <1>1, <1>2 DEF Tailed
<1>4. PICK u : u = <<o>> \o v
  OBVIOUS
<1>5. /\ u \in Seq(OpRec) /\ Len(u) = 1 + Len(v)
      /\ u[1] = o /\ \A k \in 2 .. 1 + Len(v) : u[k] = v[k - 1]
  <2>1. <<o>> \in Seq(OpRec) /\ Len(<<o>>) = 1 /\ <<o>>[1] = o
    OBVIOUS
  <2>2. \A k \in 1 .. 1 + Len(v) : u[k] = IF k <= 1 THEN <<o>>[k] ELSE v[k - 1]
    BY <1>4, <2>1
  <2> QED
    BY <1>4, <2>1, <2>2, ConcatProperties
<1>6. Len(u) = Len(s) /\ DOMAIN u = 1 .. Len(s)
  BY <1>3, <1>5
<1>7. \A k \in 2 .. Len(s) : u[k] = s[k]
  <2> SUFFICES ASSUME NEW k \in 2 .. Len(s) PROVE u[k] = s[k]
    OBVIOUS
  <2>1. k \in 2 .. 1 + Len(v) /\ k - 1 \in 1 .. Len(s) - 1 /\ (k - 1) + 1 = k
    BY <1>3
  <2> QED
    BY <1>3, <1>5, <2>1
<1> QED
  BY <1>2, <1>3, <1>4, <1>5, <1>6, <1>7 DEF Headed

(* The calls after the end of an operation of p: the others go on, and those *)
(* of p that are left are ones it had.                                       *)
Ended(p) ==
  /\ todo' \in [Proc -> Seq(OpRec)] /\ pc' = [pc EXCEPT ![p] = "enter"]
  /\ \A q \in Proc : q # p => todo'[q] = todo[q]
  /\ \A l \in DOMAIN todo'[p] : todo'[p][l].proc \in Proc =>
       \E k \in DOMAIN todo[p] : k > 1 /\ todo[p][k] = todo'[p][l]
  /\ alive' \subseteq alive \cup {Op(p).proc}
  /\ Op(p).proc \in alive' => Op(p).proc \in alive \/ Len(todo[p]) = 1
  /\ UNCHANGED <<path, tmp, calls, slock>>

(* The end of an operation keeps all but counts and semaphore.               *)
LEMMA EndedKeeps ==
  ASSUME FInv, NEW p \in Proc, todo[p] # <<>>, Ended(p)
  PROVE  /\ pc' \in [Proc -> Label] /\ \A q \in Proc : pc'[q] = IF q = p THEN "enter" ELSE pc[q]
         /\ Steps' /\ Children' /\ Looked'
<1> USE Constants
<1>1. pc' \in [Proc -> Label] /\ \A q \in Proc : pc'[q] = IF q = p THEN "enter" ELSE pc[q]
  BY DEF Ended, FInv, FTypeOK, Label
<1>2. Steps'
  <2>1. \A q \in Proc : q # p => Op(q)' = Op(q) /\ todo'[q] = todo[q] /\ tmp'[q] = tmp[q]
    BY DEF Ended, Op
  <2> QED
    BY <1>1, <2>1 DEF FInv, Steps
<1>3. \A q \in Proc : \A l \in DOMAIN todo'[q] : todo'[q][l].proc \in Proc =>
        \E k \in DOMAIN todo[q] : todo[q][k].proc = todo'[q][l].proc /\ (q = p => k > 1)
  BY DEF Ended
<1>4. Op(p) = todo[p][1] /\ 1 \in DOMAIN todo[p] /\ DOMAIN todo[p] = 1 .. Len(todo[p])
  BY DEF FInv, FTypeOK, Op
<1>5. Children'
  <2> SUFFICES ASSUME NEW a \in Proc, NEW b \in Proc, NEW l \in DOMAIN todo'[a], a # b, todo'[a][l].proc = b
               PROVE  /\ b \notin alive' /\ todo'[b] = <<>>
                      /\ \A r \in Proc : \A m \in DOMAIN todo'[r] : todo'[r][m].proc = b => r = a
    BY DEF Children
  <2>1. PICK k \in DOMAIN todo[a] : todo[a][k].proc = b /\ (a = p => k > 1)
    BY <1>3
  <2>2. /\ b \notin alive /\ todo[b] = <<>>
        /\ \A r \in Proc : \A m \in DOMAIN todo[r] : todo[r][m].proc = b => r = a
    BY <2>1 DEF FInv, Children
  <2>3. b # p /\ todo'[b] = <<>>
    BY <2>2 DEF Ended
  <2>4. b \notin alive'
    <3> SUFFICES ASSUME b \in alive' PROVE FALSE
      OBVIOUS
    <3>1. b = Op(p).proc /\ Len(todo[p]) = 1
      BY <2>2 DEF Ended
    <3>2. a = p
      BY <1>4, <2>2, <3>1
    <3> QED
      BY <1>4, <2>1, <3>1, <3>2
  <2>5. \A r \in Proc : \A m \in DOMAIN todo'[r] : todo'[r][m].proc = b => r = a
    BY <1>3, <2>2
  <2> QED
    BY <2>3, <2>4, <2>5
<1>6. Looked'
  <2>1. Live' = Live
    BY DEF Live, Ended
  <2>2. \A q \in Proc : q # p => Op(q)' = Op(q) /\ todo'[q] = todo[q]
    BY DEF Ended, Op
  <2>3. \A c : Registered(c)' = Registered(c)
    BY <2>1 DEF Registered, Ended
  <2> QED
    BY <1>1, <2>1, <2>2, <2>3 DEF FInv, Looked
<1> QED
  BY <1>1, <1>2, <1>5, <1>6

\* p drops its first operation, which held no handle
Dropped(p) ==
  /\ todo[p] # <<>> /\ EndOp(p)
  /\ pc[p] = "unlock" \/ (Op(p).op # "close" /\ pc[p] \notin {"signal", "signal_store"})
  /\ UNCHANGED <<slock, fileVars, procVars, tmp>> /\ rem' \in Int

(* The end of an operation that held no handle keeps all but the semaphore.  *)
LEMMA DroppedKeeps ==
  ASSUME FInv, NEW p \in Proc, Dropped(p), Semaphore'
  PROVE  FInv'
<1>0. /\ todo[p] # <<>> /\ todo' = [todo EXCEPT ![p] = Tail(todo[p])]
      /\ pc' = [pc EXCEPT ![p] = "enter"] /\ UNCHANGED <<slock, fileVars, procVars, tmp>>
      /\ rem' \in Int
      /\ pc[p] = "unlock" \/ (todo[p][1].op # "close" /\ pc[p] \notin {"signal", "signal_store"})
  BY DEF Dropped, EndOp, Goto, Op
<1>1. PICK u : u = Tail(todo[p])
  OBVIOUS
<1>2. todo[p] \in Seq(OpRec) /\ Tailed(todo[p], u) /\ \A q \in Proc : todo'[q] = IF q = p THEN u ELSE todo[q]
  BY <1>0, <1>1, TailFacts DEF FInv, FTypeOK
<1>3. Ended(p)
  <2>1. todo' \in [Proc -> Seq(OpRec)]
    BY <1>0, <1>1, <1>2 DEF FInv, FTypeOK, Tailed
  <2>2. \A l \in DOMAIN u : \E k \in DOMAIN todo[p] : k > 1 /\ todo[p][k] = u[l]
    <3> SUFFICES ASSUME NEW l \in DOMAIN u PROVE l + 1 \in DOMAIN todo[p] /\ l + 1 > 1 /\ todo[p][l + 1] = u[l]
      OBVIOUS
    <3> QED
      BY <1>2 DEF Tailed
  <2> QED
    BY <1>0, <1>2, <2>1, <2>2 DEF Ended, procVars, fileVars
<1>4. /\ pc' \in [Proc -> Label] /\ \A q \in Proc : pc'[q] = IF q = p THEN "enter" ELSE pc[q]
      /\ Steps' /\ Children' /\ Looked'
  BY <1>0, <1>3, EndedKeeps
<1>5. FTypeOK'
  BY <1>0, <1>3, <1>4 DEF FInv, FTypeOK, Ended, procVars, fileVars
<1>6. Calls'
  <2>0. \A q, o : WellFormedAfter(q, o) <=> WellFormed(q, o)
    BY <1>0 DEF WellFormedAfter, WellFormed, FreeFd, procVars
  <2>1. ASSUME NEW q \in Proc, q # p
        PROVE  CallSound(q)
    BY <1>2, <2>0, <2>1 DEF FInv, Calls, CallSound
  <2>2. CallSound(p)
    <3>1. todo'[p] = u
      BY <1>2
    <3>2. \A k \in DOMAIN u : k + 1 \in DOMAIN todo[p] /\ u[k] = todo[p][k + 1]
      BY <1>2 DEF Tailed
    <3>3. \A k \in DOMAIN u : WellFormedAfter(p, u[k])
      BY <2>0, <3>2 DEF FInv, Calls
    <3>4. ASSUME NEW k \in DOMAIN u, u[k].proc = p
          PROVE  k = Len(u)
      <4>1. k + 1 = Len(todo[p])
        BY <3>2, <3>4 DEF FInv, Calls
      <4> QED
        BY <1>2, <4>1 DEF Tailed
    <3>5. Len(u) <= MaxFd + 1
      BY <1>2, Constants DEF FInv, Calls, Tailed
    <3> QED
      BY <3>1, <3>3, <3>4, <3>5 DEF CallSound
  <2> QED
    BY <2>1, <2>2, CallsByProc
<1>8. SameHolders
  <2>1. ASSUME NEW q \in Proc, NEW g
        PROVE  HasCounted(q, g)' <=> HasCounted(q, g)
    BY <1>0, <1>2, <1>4 DEF HasCounted, Op
  <2>2. ASSUME NEW q \in Proc, NEW n \in Slot, NEW g
        PROVE  ToClose(q, n, g)' <=> ToClose(q, n, g)
    <3>1. CASE q # p
      BY <1>2, <1>4, <3>1 DEF ToClose
    <3>2. CASE q = p
      <4>0. Len(todo[p]) \in Nat /\ n \in Nat
        BY <1>2, Constants DEF Tailed
      <4>1. PICK k \in Int : k = Len(todo[p]) - n
        BY <4>0
      <4>2. Len(u) - n = k - 1
        BY <1>2, <4>1, Constants DEF Tailed
      <4>3. ToClose(p, n, g) <=> k \in DOMAIN todo[p] /\ k # 1 /\ todo[p][k].op = "close" /\ todo[p][k].file = g
        BY <1>0, <4>1 DEF ToClose
      <4>4. ToClose(p, n, g)' <=> k - 1 \in DOMAIN u /\ u[k - 1].op = "close" /\ u[k - 1].file = g
        BY <1>2, <1>4, <4>2 DEF ToClose
      <4>5. /\ k - 1 \in DOMAIN u <=> k \in DOMAIN todo[p] /\ k # 1
            /\ k - 1 \in DOMAIN u => u[k - 1] = todo[p][k]
        BY <1>2, <4>1 DEF Tailed
      <4> QED
        BY <3>2, <4>3, <4>4, <4>5
    <3> QED
      BY <3>1, <3>2
  <2>3. \A q \in Proc, n \in Slot, g \in File : slot'[q][n] = g <=> slot[q][n] = g
    BY <1>0 DEF procVars
  <2> QED
    BY <2>1, <2>2, <2>3, SameByForm
<1>9. Counted' /\ \A f, g \in Live' : path'[f] = path'[g] => f = g
  BY <1>0, <1>8, SameHoldersCount DEF fileVars
<1> QED
  BY <1>4, <1>5, <1>6, <1>9 DEF FInv

(* CloseHandle and CloseFreed: the closed handle was uncounted before.       *)
LEMMA CloseHandleKeeps ==
  ASSUME FInv, NEW p \in Proc, CloseHandle(p) \/ CloseFreed(p)
  PROVE  FInv'
<1>1. /\ Dropped(p) /\ pc[p] = "unlock" /\ pc' = [pc EXCEPT ![p] = "enter"] /\ rem' = rem
      /\ \A q \in Proc : q # p => todo'[q] = todo[q]
  BY DEF CloseHandle, CloseFreed, Dropped, At, EndOp, Goto, semVars, FInv, FTypeOK
<1>2. \A q \in Proc : pc'[q] = IF q = p THEN "enter" ELSE pc[q]
  BY <1>1 DEF FInv, FTypeOK
<1>3. \A q \in Proc : (InShared(q)' <=> InShared(q)) /\ (InFull(q)' <=> InFull(q))
  BY <1>1, <1>2 DEF InShared, InFull
<1> QED
  BY <1>1, <1>3, SemaphoreKept, DroppedKeeps

(* OpenFails: nothing was counted yet.                                       *)
LEMMA OpenFailsKeeps ==
  ASSUME FInv, NEW p \in Proc, OpenFails(p)
  PROVE  FInv'
<1>1. /\ Dropped(p) /\ pc[p] = "enter" /\ pc' = [pc EXCEPT ![p] = "enter"] /\ rem' = rem
      /\ \A q \in Proc : q # p => todo'[q] = todo[q]
  BY DEF OpenFails, Dropped, At, EndOp, Goto, semVars, FInv, FTypeOK
<1>2. \A q \in Proc : pc'[q] = IF q = p THEN "enter" ELSE pc[q]
  BY <1>1 DEF FInv, FTypeOK
<1>3. \A q \in Proc : (InShared(q)' <=> InShared(q)) /\ (InFull(q)' <=> InFull(q))
  BY <1>1, <1>2 DEF InShared, InFull
<1> QED
  BY <1>1, <1>3, SemaphoreKept, DroppedKeeps

(* FindLoad.                                                                 *)
LEMMA FindLoadKeeps ==
  ASSUME FInv, NEW p \in Proc, FindLoad(p)
  PROVE  FInv'
<1> USE DEF FindLoad, At, Goto, procVars, fileVars, semVars
<1>1. PcStep(p, "find_store") /\ refs' = refs /\ pc[p] = "find"
  BY DEF PcStep, FInv, FTypeOK, Label, Steps
<1>2. \A q \in Proc : pc'[q] = IF q = p THEN "find_store" ELSE pc[q]
  BY DEF FInv, FTypeOK
<1>3. Semaphore'
  <2>1. \A q \in Proc : (InShared(q)' <=> InShared(q)) /\ (InFull(q)' <=> InFull(q))
    BY <1>1, <1>2 DEF InShared, InFull
  <2> QED
    BY <2>1, SemaphoreKept
<1> QED
  BY <1>1, <1>3, PcStepQuiet

(* FindStore gives the place back, unless rem has changed.                   *)
LEMMA FindStoreKeeps ==
  ASSUME FInv, NEW p \in Proc, FindStore(p), ~raced'
  PROVE  FInv'
<1>1. /\ Dropped(p) /\ todo[p] # <<>> /\ pc[p] = "find_store" /\ pc' = [pc EXCEPT ![p] = "enter"]
      /\ rem' = rem + 1 /\ rem \in Int
      /\ \A q \in Proc : q # p => todo'[q] = todo[q]
  <2>1. /\ todo[p] # <<>> /\ pc[p] = "find_store" /\ pc' = [pc EXCEPT ![p] = "enter"] /\ EndOp(p)
        /\ UNCHANGED <<slock, fileVars, procVars, tmp>>
        /\ rem' = tmp[p] + 1 /\ rem = tmp[p]
    BY DEF FindStore, At, EndOp, Goto
  <2>2. Op(p).op = "find"
    BY <2>1 DEF FInv, Steps
  <2>3. rem \in Int
    BY DEF FInv, FTypeOK
  <2>4. rem' = rem + 1 /\ rem' \in Int
    BY <2>1, <2>3
  <2>5. \A q \in Proc : q # p => todo'[q] = todo[q]
    BY <2>1 DEF EndOp, FInv, FTypeOK
  <2> QED
    BY <2>1, <2>2, <2>3, <2>4, <2>5 DEF Dropped
<1>2. \A q \in Proc : pc'[q] = IF q = p THEN "enter" ELSE pc[q]
  BY <1>1 DEF FInv, FTypeOK
<1>3. Semaphore'
  <2>1. InShared(p) /\ ~InFull(p)
    BY <1>1 DEF InShared, InFull
  <2>2. \A q \in Proc : /\ InShared(q)' <=> (q # p /\ InShared(q))
                        /\ InFull(q)' <=> InFull(q)
    BY <1>1, <1>2 DEF InShared, InFull
  <2>3. p \in Sharing /\ Sharing' = Sharing \ {p}
    BY <2>1, <2>2 DEF Sharing
  <2>4. Cardinality(Sharing') = Cardinality(Sharing) - 1 /\ Cardinality(Sharing) \in Nat
    BY <2>3, SharingFinite, FS_RemoveElement
  <2>5. rem = Cap - Cardinality(Sharing) /\ \A q \in Proc : ~InFull(q)
    BY <2>3 DEF FInv, Semaphore
  <2>6. rem' = Cap - Cardinality(Sharing')
    BY <1>1, <2>4, <2>5, Constants
  <2> QED
    BY <2>2, <2>5, <2>6 DEF Semaphore
<1> QED
  BY <1>1, <1>3, DroppedKeeps

(* Counts that stay stay exact.                                              *)
LEMMA CountsKept ==
  ASSUME FInv, UNCHANGED <<path, refs>>, \A f \in File : Handles(f)' = Handles(f)
  PROVE  Counted' /\ \A f, g \in Live' : path'[f] = path'[g] => f = g
<1>1. Live' = Live /\ Live \subseteq File
  BY DEF Live
<1>2. \A f \in File \ Live : \A h \in Holder : ~Holds(h, f)'
  <2> SUFFICES ASSUME NEW f \in File \ Live PROVE \A h \in Holder : ~Holds(h, f)'
    OBVIOUS
  <2>1. Handles(f) = 0
    BY CountZero DEF FInv, Counted
  <2> QED
    BY <2>1, CountZero
<1>3. \A f \in Live : refs'[f] = Handles(f)'
  BY <1>1 DEF FInv, Counted
<1> QED
  BY <1>1, <1>2, <1>3 DEF FInv, Counted

(* The lowest free descriptor is a free one.                                 *)
LEMMA LowestFree ==
  ASSUME NEW S \in SUBSET Nat, S # {}
  PROVE  Min(S) \in S
<1> DEFINE R == OpToRel(<, Nat)
<1>1. \A x, y \in Nat : x < y => <<x, y>> \in R
  BY DEF OpToRel
<1>2. IsWellFoundedOn(R, Nat)
  BY NatLessThanWellFounded
<1> HIDE DEF R
<1>3. PICK m \in S : \A n \in S : ~(<<n, m>> \in R)
  BY <1>2, WFMin, Zenon
<1>4. \A n \in S : ~(n < m)
  BY <1>1, <1>3, Zenon
<1>5. \E x \in S : \A y \in S : x =< y
  BY <1>4
<1> QED
  BY <1>5 DEF Min

(* A set of the same size: one element for another.                          *)
LEMMA Exchanged ==
  ASSUME NEW A, IsFiniteSet(A), NEW t \in A, NEW u, u \notin A, NEW B, B = (A \ {t}) \cup {u}
  PROVE  Cardinality(B) = Cardinality(A)
<1>1. IsFiniteSet(A \ {t}) /\ Cardinality(A \ {t}) = Cardinality(A) - 1
  BY FS_RemoveElement
<1>2. Cardinality(B) = Cardinality(A \ {t}) + 1
  BY <1>1, FS_AddElement
<1> QED
  BY <1>1, <1>2, FS_CardinalityType

(* A handle moves from t to x, and what was at x to y.                       *)
LEMMA Rotated ==
  ASSUME NEW f, NEW t \in Holder, NEW x \in Holder, NEW y \in Holder, t # x, t # y, x # y,
         ~Holds(y, f), ~Holds(t, f)',
         Holds(x, f)' <=> Holds(t, f), Holds(y, f)' <=> Holds(x, f),
         \A h \in Holder : h \notin {t, x, y} => (Holds(h, f)' <=> Holds(h, f))
  PROVE  Handles(f)' = Handles(f)
<1>1. PICK A : A = {h \in Holder : Holds(h, f)}
  OBVIOUS
<1>2. PICK B : B = {h \in Holder : Holds(h, f)'}
  OBVIOUS
<1>3. IsFiniteSet(A)
  BY <1>1, HolderFinite
<1>4. Cardinality(B) = Cardinality(A)
  <2>1. CASE ~Holds(t, f) /\ ~Holds(x, f)
    <3>1. B = A
      BY <1>1, <1>2, <2>1
    <3> QED
      BY <3>1
  <2>2. CASE Holds(t, f) /\ ~Holds(x, f)
    <3>1. t \in A /\ x \notin A /\ B = (A \ {t}) \cup {x}
      BY <1>1, <1>2, <2>2
    <3> QED
      BY <1>3, <3>1, Exchanged
  <2>3. CASE ~Holds(t, f) /\ Holds(x, f)
    <3>1. x \in A /\ y \notin A /\ B = (A \ {x}) \cup {y}
      BY <1>1, <1>2, <2>3
    <3> QED
      BY <1>3, <3>1, Exchanged
  <2>4. CASE Holds(t, f) /\ Holds(x, f)
    <3>1. t \in A /\ y \notin A /\ B = (A \ {t}) \cup {y}
      BY <1>1, <1>2, <2>4
    <3> QED
      BY <1>3, <3>1, Exchanged
  <2> QED
    BY <2>1, <2>2, <2>3, <2>4
<1> QED
  BY <1>1, <1>2, <1>4 DEF Handles

(* Finish: the handle goes to its slot, and what was there will be closed.   *)
LEMMA FinishKeeps ==
  ASSUME FInv, NEW p \in Proc, Finish(p), ~raced'
  PROVE  FInv'
<1>0. PICK o, r, i, old : /\ o = Op(p) /\ r = o.proc /\ i = (IF o.to = -1 THEN Min(FreeFd(p)) ELSE o.to)
                          /\ old = slot[r][i]
  OBVIOUS
<1>1. /\ todo[p] # <<>> /\ pc[p] = "signal_store" /\ rem' = rem + 1
      /\ slot' = [slot EXCEPT ![r][i] = o.file]
      /\ todo' = [todo EXCEPT ![p] = (IF old = None THEN <<>> ELSE <<Close(old)>>) \o Tail(todo[p])]
      /\ alive' = IF Len(todo[p]) = 1 THEN alive \cup {r} ELSE alive
      /\ pc' = [pc EXCEPT ![p] = "enter"]
      /\ UNCHANGED <<slock, fileVars, tmp, calls>>
  BY <1>0 DEF Finish, At, Goto
<1>2. todo[p] \in Seq(OpRec) /\ 1 \in DOMAIN todo[p] /\ o = todo[p][1] /\ o \in OpRec /\ o.op \in {"open", "dup"}
  <2>1. todo[p] \in Seq(OpRec)
    BY DEF FInv, FTypeOK
  <2>2. 1 \in DOMAIN todo[p] /\ o = todo[p][1]
    <3>1. o = Head(todo[p]) /\ todo[p] # <<>>
      BY <1>0, <1>1 DEF Op
    <3> QED
      BY <2>1, <3>1
  <2>3. o.op \in {"open", "dup"}
    BY <1>0, <1>1 DEF FInv, Steps
  <2>4. todo[p][1] \in OpRec
    BY <2>1, <2>2
  <2> QED
    BY <2>1, <2>2, <2>3, <2>4
<1>3. WellFormed(p, o) /\ (r = p => Len(todo[p]) = 1) /\ Len(todo[p]) <= MaxFd + 1
  <2>1. /\ Len(todo[p]) <= MaxFd + 1
        /\ \A k \in DOMAIN todo[p] : WellFormed(p, todo[p][k]) /\ (todo[p][k].proc = p => k = Len(todo[p]))
    BY DEF FInv, Calls
  <2>2. WellFormed(p, todo[p][1]) /\ (todo[p][1].proc = p => 1 = Len(todo[p]))
    BY <1>2, <2>1
  <2> QED
    BY <1>0, <1>2, <2>1, <2>2
<1>4. r \in Proc /\ i \in Slot /\ old \in File \cup {None}
  <2>1. r \in Proc /\ (o.to = -1 => FreeFd(p) # {})
    BY <1>0, <1>2, <1>3 DEF WellFormed
  <2>2. i \in Slot
    <3>1. CASE o.to = -1
      <4>1. FreeFd(p) \in SUBSET Nat /\ FreeFd(p) \subseteq Slot
        BY Constants DEF FreeFd, Slot
      <4> QED
        BY <1>0, <2>1, <3>1, <4>1, LowestFree
    <3>2. CASE o.to # -1
      BY <1>0, <1>2, <3>2 DEF OpRec
    <3> QED
      BY <3>1, <3>2
  <2> QED
    BY <1>0, <2>1, <2>2 DEF FInv, FTypeOK
<1>5. o.file \in Live /\ o.file \in File
  BY <1>0, <1>1 DEF FInv, Looked, Live
<1>6. r # p => todo[r] = <<>>
  BY <1>0, <1>2, <1>4 DEF FInv, Children
<1>7. \A q \in Proc, j \in Slot : slot'[q][j] = IF q = r /\ j = i THEN o.file ELSE slot[q][j]
  BY <1>1, <1>4 DEF FInv, FTypeOK
<1>8. slot' \in [Proc -> [Slot -> File \cup {None}]]
  BY <1>1, <1>4, <1>5 DEF FInv, FTypeOK
<1>9. PICK u : u = (IF old = None THEN <<>> ELSE <<Close(old)>>) \o Tail(todo[p])
  OBVIOUS
<1>10. \A q \in Proc : todo'[q] = IF q = p THEN u ELSE todo[q]
  BY <1>1, <1>9 DEF FInv, FTypeOK
<1>11. /\ old = None => Tailed(todo[p], u)
       /\ old # None => Headed(todo[p], u, Close(old))
  <2>1. CASE old = None
    <3>1. Tailed(todo[p], Tail(todo[p]))
      BY <1>1, <1>2, TailFacts
    <3>2. Tail(todo[p]) \in Seq(OpRec)
      BY <3>1 DEF Tailed
    <3>3. <<>> \o Tail(todo[p]) = Tail(todo[p])
      BY <3>2
    <3> QED
      BY <1>9, <2>1, <3>1, <3>3
  <2>2. CASE old # None
    <3>1. Close(old) \in OpRec
      BY <1>4 DEF Close, OpRec
    <3> QED
      BY <1>1, <1>2, <1>9, <2>2, <3>1, HeadFacts
  <2> QED
    BY <2>1, <2>2
<1>12. Close(old).proc = None /\ Close(old).op = "close" /\ Close(old).file = old
  BY DEF Close
<1>13. Ended(p)
  <2>1. u \in Seq(OpRec)
    BY <1>11 DEF Tailed, Headed
  <2>2. todo' \in [Proc -> Seq(OpRec)]
    BY <1>1, <1>9, <2>1 DEF FInv, FTypeOK
  <2>3. ASSUME NEW l \in DOMAIN u, u[l].proc \in Proc
        PROVE  \E k \in DOMAIN todo[p] : k > 1 /\ todo[p][k] = u[l]
    <3>1. CASE old = None
      <4>1. l + 1 \in DOMAIN todo[p] /\ l + 1 > 1 /\ todo[p][l + 1] = u[l]
        BY <1>11, <3>1 DEF Tailed
      <4> QED
        BY <4>1
    <3>2. CASE old # None
      <4>1. l # 1
        BY <1>11, <1>12, <2>3, <3>2, Constants DEF Headed
      <4>2. l \in DOMAIN todo[p] /\ l > 1 /\ todo[p][l] = u[l]
        BY <1>11, <3>2, <4>1 DEF Headed
      <4> QED
        BY <4>2
    <3> QED
      BY <3>1, <3>2
  <2>4. alive' \subseteq alive \cup {r} /\ (r \in alive' => r \in alive \/ Len(todo[p]) = 1)
    BY <1>1
  <2>5. Op(p).proc = r
    BY <1>0
  <2>6. todo'[p] = u /\ \A q \in Proc : q # p => todo'[q] = todo[q]
    BY <1>10
  <2>7. UNCHANGED <<path, tmp, calls, slock>> /\ pc' = [pc EXCEPT ![p] = "enter"]
    BY <1>1 DEF fileVars
  <2> QED
    BY <2>2, <2>3, <2>4, <2>5, <2>6, <2>7 DEF Ended
<1>14. /\ pc' \in [Proc -> Label] /\ \A q \in Proc : pc'[q] = IF q = p THEN "enter" ELSE pc[q]
       /\ Steps' /\ Children' /\ Looked'
  BY <1>1, <1>13, EndedKeeps
<1>15. FTypeOK'
  BY <1>1, <1>4, <1>8, <1>13, <1>14 DEF FInv, FTypeOK, Ended, fileVars
<1>16. Semaphore'
  <2>1. InShared(p) /\ p \in Sharing
    BY <1>1 DEF InShared, Sharing
  <2>2. rem = Cap - Cardinality(Sharing) /\ \A q \in Proc : ~InFull(q)
    BY <2>1 DEF FInv, Semaphore
  <2>3. \A q \in Proc : (InShared(q)' <=> InShared(q) /\ q # p) /\ ~InFull(q)'
    BY <1>10, <1>14, <2>2 DEF InShared, InFull
  <2>4. Sharing' = Sharing \ {p}
    BY <2>3 DEF Sharing
  <2>5. Cardinality(Sharing') = Cardinality(Sharing) - 1 /\ Cardinality(Sharing) \in Nat
    BY <2>1, <2>4, SharingFinite, FS_RemoveElement
  <2>6. rem' = Cap - Cardinality(Sharing')
    BY <1>1, <2>2, <2>5, Constants
  <2> QED
    BY <2>3, <2>6 DEF Semaphore
<1>17. Calls'
  <2>1. ASSUME NEW q \in Proc, q # p
        PROVE  CallSound(q)
    <3>1. CASE q = r
      <4>1. todo'[q] = <<>>
        BY <1>6, <1>10, <2>1, <3>1
      <4> QED
        BY <4>1, Constants DEF CallSound
    <3>2. CASE q # r
      <4>1. slot'[q] = slot[q]
        BY <1>1, <3>2 DEF FInv, FTypeOK
      <4>2. \A c : WellFormed(q, c) => WellFormedAfter(q, c)
        BY <4>1 DEF WellFormedAfter, WellFormed, FreeFd
      <4> QED
        BY <1>10, <2>1, <4>2 DEF FInv, Calls, CallSound
    <3> QED
      BY <3>1, <3>2
  <2>2. CallSound(p)
    <3>1. todo'[p] = u
      BY <1>10
    <3>2. \A c : c.op = "close" /\ c.proc = None => WellFormedAfter(p, c)
      BY DEF WellFormedAfter
    <3>3. CASE r = p
      <4>1. Len(todo[p]) = 1
        BY <1>3, <3>3
      <4>2. CASE old = None
        <5>1. DOMAIN u = {} /\ Len(u) = 0
          BY <1>11, <4>1, <4>2 DEF Tailed
        <5> QED
          BY <3>1, <5>1, Constants DEF CallSound
      <4>3. CASE old # None
        <5>1. DOMAIN u = {1} /\ Len(u) = 1 /\ u[1] = Close(old)
          BY <1>11, <4>1, <4>3 DEF Headed
        <5> QED
          BY <1>12, <3>1, <3>2, <5>1, Constants DEF CallSound
      <4> QED
        BY <4>2, <4>3
    <3>4. CASE r # p
      <4>1. slot'[p] = slot[p]
        BY <1>1, <3>4 DEF FInv, FTypeOK
      <4>2. \A c : WellFormed(p, c) => WellFormedAfter(p, c)
        BY <4>1 DEF WellFormedAfter, WellFormed, FreeFd
      <4>3. CASE old = None
        <5>1. \A k \in DOMAIN u : k + 1 \in DOMAIN todo[p] /\ u[k] = todo[p][k + 1] /\ (k + 1 = Len(todo[p]) => k = Len(u))
          BY <1>11, <4>3 DEF Tailed
        <5>2. Len(u) <= MaxFd + 1
          BY <1>3, <1>11, <4>3, Constants DEF Tailed
        <5> QED
          BY <3>1, <4>2, <5>1, <5>2 DEF FInv, Calls, CallSound
      <4>4. CASE old # None
        <5>1. u[1] = Close(old) /\ Len(u) = Len(todo[p]) /\ DOMAIN u = DOMAIN todo[p]
              /\ \A k \in DOMAIN u : k # 1 => u[k] = todo[p][k]
          BY <1>11, <4>4 DEF Headed
        <5>2. \A k \in DOMAIN u : WellFormedAfter(p, u[k])
          BY <1>12, <3>2, <4>2, <5>1 DEF FInv, Calls
        <5>3. \A k \in DOMAIN u : u[k].proc = p => k = Len(u)
          BY <1>12, <5>1, Constants DEF FInv, Calls
        <5> QED
          BY <1>3, <3>1, <5>1, <5>2, <5>3 DEF CallSound
      <4> QED
        BY <4>3, <4>4
    <3> QED
      BY <3>3, <3>4
  <2> QED
    BY <2>1, <2>2, CallsByProc
<1>18. PICK n0 \in Slot : n0 = Len(todo[p]) - 1
  BY <1>1, <1>2, <1>3, Constants DEF Slot
<1>19. PICK t \in Holder, x \in Holder, y \in Holder :
         t = <<"counted", p, 0>> /\ x = <<"slot", r, i>> /\ y = <<"close", p, n0>>
  BY <1>4, HolderType, Constants
<1>20. ASSUME NEW f \in File
       PROVE  Handles(f)' = Handles(f)
  <2>1. t # x /\ t # y /\ x # y
    BY <1>19
  <2>2. Holds(t, f) <=> f = o.file
    BY <1>0, <1>1, <1>19, HoldsForm DEF HasCounted
  <2>3. ~Holds(t, f)'
    BY <1>14, <1>19, HoldsFormAfter DEF HasCounted
  <2>4. (Holds(x, f) <=> f = old) /\ (Holds(x, f)' <=> f = o.file)
    <3>1. slot'[r][i] = o.file
      BY <1>4, <1>7
    <3>2. Holds(x, f) <=> slot[r][i] = f
      BY <1>19, HoldsForm
    <3>3. Holds(x, f)' <=> slot'[r][i] = f
      BY <1>19, HoldsFormAfter
    <3> QED
      BY <1>0, <3>1, <3>2, <3>3
  <2>5. ~Holds(y, f)
    <3>1. Len(todo[p]) - n0 = 1
      BY <1>1, <1>2, <1>18
    <3> QED
      BY <1>2, <1>19, <3>1, HoldsForm DEF ToClose
  <2>6. Holds(y, f)' <=> f = old
    <3>1. Holds(y, f)' <=> ToClose(p, n0, f)'
      BY <1>19, HoldsFormAfter
    <3>2. CASE old = None
      <4>1. Len(u) - n0 = 0 /\ 0 \notin DOMAIN u
        BY <1>11, <1>18, <3>2 DEF Tailed
      <4> QED
        BY <1>10, <3>1, <3>2, <4>1, Constants DEF ToClose
    <3>3. CASE old # None
      <4>1. Len(u) - n0 = 1 /\ 1 \in DOMAIN u /\ u[1] = Close(old)
        BY <1>11, <1>18, <3>3 DEF Headed
      <4> QED
        BY <1>10, <1>12, <1>14, <3>1, <4>1 DEF ToClose
    <3> QED
      BY <3>2, <3>3
  <2>7. ASSUME NEW h \in Holder, h \notin {t, x, y}
        PROVE  Holds(h, f)' <=> Holds(h, f)
    <3>1. PICK q \in Proc, n \in Slot : h \in {<<"slot", q, n>>, <<"counted", q, n>>, <<"close", q, n>>}
      BY HolderForm
    <3>2. CASE h = <<"slot", q, n>>
      <4>1. ~(q = r /\ n = i)
        BY <1>19, <2>7, <3>2
      <4> QED
        BY <1>7, <3>2, <4>1 DEF Holds
    <3>3. CASE h = <<"counted", q, n>>
      <4>1. ~(q = p /\ n = 0)
        BY <1>19, <2>7, <3>3
      <4>2. q # p => (HasCounted(q, f)' <=> HasCounted(q, f))
        BY <1>10, <1>14 DEF HasCounted, Op
      <4> QED
        BY <3>3, <4>1, <4>2 DEF Holds, HasCounted
    <3>4. CASE h = <<"close", q, n>>
      <4>1. ~(q = p /\ n = n0)
        BY <1>19, <2>7, <3>4
      <4>2. CASE q # p
        <5>1. ToClose(q, n, f)' <=> ToClose(q, n, f)
          BY <1>10, <1>14, <4>2 DEF ToClose
        <5> QED
          BY <3>4, <5>1 DEF Holds, ToClose
      <4>3. CASE q = p
        <5>0. Len(todo[p]) \in Nat /\ n \in Nat /\ n # n0 /\ DOMAIN todo[p] = 1 .. Len(todo[p])
          <6>1. Len(todo[p]) \in Nat /\ DOMAIN todo[p] = 1 .. Len(todo[p])
            BY <1>2
          <6>2. n \in Nat
            BY Constants DEF Slot
          <6> QED
            BY <4>1, <4>3, <6>1, <6>2
        <5>1. PICK k \in Int : k = Len(todo[p]) - n
          BY <5>0
        <5>2. k # 1
          BY <1>18, <5>0, <5>1
        <5>3. ToClose(p, n, f) <=> k \in DOMAIN todo[p] /\ todo[p][k].op = "close" /\ todo[p][k].file = f
          BY <5>1, <5>2 DEF ToClose
        <5>4. CASE old = None
          <6>1. Len(u) - n = k - 1
            BY <1>11, <5>0, <5>1, <5>4 DEF Tailed
          <6>2. ToClose(p, n, f)' <=> k - 1 \in DOMAIN u /\ u[k - 1].op = "close" /\ u[k - 1].file = f
            BY <1>10, <1>14, <6>1 DEF ToClose
          <6>3. /\ k - 1 \in DOMAIN u <=> k \in DOMAIN todo[p]
                /\ k - 1 \in DOMAIN u => u[k - 1] = todo[p][k]
            <7>1. DOMAIN u = 1 .. Len(todo[p]) - 1 /\ \A j \in 1 .. Len(todo[p]) - 1 : u[j] = todo[p][j + 1]
              BY <1>11, <5>4 DEF Tailed
            <7>2. k - 1 \in 1 .. Len(todo[p]) - 1 <=> k \in 1 .. Len(todo[p])
              BY <5>0, <5>2
            <7>3. (k - 1) + 1 = k
              OBVIOUS
            <7> QED
              BY <5>0, <7>1, <7>2, <7>3
          <6> QED
            BY <3>4, <4>3, <5>3, <6>2, <6>3 DEF Holds, ToClose
        <5>5. CASE old # None
          <6>1. Len(u) - n = k
            BY <1>11, <5>1, <5>5 DEF Headed
          <6>2. ToClose(p, n, f)' <=> k \in DOMAIN u /\ u[k].op = "close" /\ u[k].file = f
            BY <1>10, <1>14, <6>1 DEF ToClose
          <6>3. /\ k \in DOMAIN u <=> k \in DOMAIN todo[p]
                /\ k \in DOMAIN u => u[k] = todo[p][k]
            BY <1>11, <5>0, <5>1, <5>2, <5>5 DEF Headed
          <6> QED
            BY <3>4, <4>3, <5>3, <6>2, <6>3 DEF Holds, ToClose
        <5> QED
          BY <5>4, <5>5
      <4> QED
        BY <4>2, <4>3
    <3> QED
      BY <3>1, <3>2, <3>3, <3>4
  <2> QED
    BY <2>1, <2>2, <2>3, <2>4, <2>5, <2>6, <2>7, Rotated
<1>21. Counted' /\ \A f, g \in Live' : path'[f] = path'[g] => f = g
  BY <1>1, <1>20, CountsKept DEF fileVars
<1> QED
  BY <1>14, <1>15, <1>16, <1>17, <1>21 DEF FInv

-----------------------------------------------------------------------------
(* System calls.                                                             *)

\* p starts a call with operations w, which change the slots of p alone
Called(p, w) ==
  /\ p \in alive /\ todo[p] = <<>> /\ todo' = [todo EXCEPT ![p] = w] /\ calls' \in [Proc -> Nat]
  /\ alive' \subseteq alive /\ UNCHANGED <<semVars, fileVars, pc, tmp>>
  /\ slot' \in [Proc -> [Slot -> File \cup {None}]] /\ \A q \in Proc : q # p => slot'[q] = slot[q]
  /\ w \in Seq(OpRec) /\ Len(w) <= MaxFd + 1
  /\ \A k \in DOMAIN w : WellFormedAfter(p, w[k]) /\ (w[k].proc = p => k = Len(w))
  /\ \A k \in DOMAIN w : \A q \in Proc : q # p /\ w[k].proc = q =>
       /\ q \notin alive /\ todo[q] = <<>>
       /\ \A r \in Proc : \A l \in DOMAIN todo[r] : todo[r][l].proc # q

(* A new call keeps all but the counts.                                      *)
LEMMA CalledKeeps ==
  ASSUME FInv, NEW p \in Proc, NEW w, Called(p, w)
  PROVE  /\ FTypeOK' /\ Calls' /\ Steps' /\ Children' /\ Semaphore' /\ Looked'
         /\ pc[p] = "enter" /\ pc' = pc
         /\ \A q \in Proc : todo'[q] = IF q = p THEN w ELSE todo[q]
<1>0. /\ p \in alive /\ todo[p] = <<>> /\ todo' = [todo EXCEPT ![p] = w] /\ calls' \in [Proc -> Nat]
      /\ alive' \subseteq alive /\ UNCHANGED <<semVars, fileVars, pc, tmp>>
      /\ slot' \in [Proc -> [Slot -> File \cup {None}]] /\ \A q \in Proc : q # p => slot'[q] = slot[q]
      /\ w \in Seq(OpRec) /\ Len(w) <= MaxFd + 1
  BY DEF Called
<1>1. \A q \in Proc : todo'[q] = IF q = p THEN w ELSE todo[q]
  BY <1>0 DEF FInv, FTypeOK
<1>2. pc[p] = "enter" /\ pc' = pc
  BY <1>0 DEF FInv, Steps
<1>3. FTypeOK'
  <2>1. todo' \in [Proc -> Seq(OpRec)]
    BY <1>0 DEF FInv, FTypeOK
  <2>2. alive' \in SUBSET Proc
    BY <1>0 DEF FInv, FTypeOK
  <2> QED
    BY <1>0, <2>1, <2>2 DEF FInv, FTypeOK, semVars, fileVars
<1>4. Calls'
  <2>1. ASSUME NEW q \in Proc, q # p
        PROVE  CallSound(q)
    <3>1. slot'[q] = slot[q] /\ todo'[q] = todo[q]
      BY <1>0, <1>1, <2>1
    <3>2. \A c : WellFormed(q, c) => WellFormedAfter(q, c)
      BY <3>1 DEF WellFormedAfter, WellFormed, FreeFd
    <3> QED
      BY <3>1, <3>2 DEF FInv, Calls, CallSound
  <2>2. CallSound(p)
    BY <1>1 DEF Called, CallSound
  <2> QED
    BY <2>1, <2>2, CallsByProc
<1>5. Steps'
  BY <1>0, <1>1, <1>2 DEF FInv, Steps, Op
<1>6. Children'
  <2> SUFFICES ASSUME NEW a \in Proc, NEW b \in Proc, NEW l \in DOMAIN todo'[a], a # b, todo'[a][l].proc = b
               PROVE  /\ b \notin alive' /\ todo'[b] = <<>>
                      /\ \A r \in Proc : \A m \in DOMAIN todo'[r] : todo'[r][m].proc = b => r = a
    BY DEF Children
  <2>1. CASE a = p
    <3>1. l \in DOMAIN w /\ w[l].proc = b
      BY <1>1, <2>1
    <3>2. /\ b \notin alive /\ todo[b] = <<>>
          /\ \A r \in Proc : \A m \in DOMAIN todo[r] : todo[r][m].proc # b
      BY <2>1, <3>1 DEF Called
    <3> QED
      BY <1>0, <1>1, <2>1, <3>2
  <2>2. CASE a # p
    <3>1. l \in DOMAIN todo[a] /\ todo[a][l].proc = b
      BY <1>1, <2>2
    <3>2. /\ b \notin alive /\ todo[b] = <<>>
          /\ \A r \in Proc : \A m \in DOMAIN todo[r] : todo[r][m].proc = b => r = a
      BY <3>1 DEF FInv, Children
    <3>3. b # p
      BY <1>0, <3>2
    <3>4. \A m \in DOMAIN w : w[m].proc # b
      BY <3>1, <3>3 DEF Called
    <3> QED
      BY <1>0, <1>1, <3>2, <3>3, <3>4
  <2> QED
    BY <2>1, <2>2
<1>7. Semaphore'
  <2>1. \A q \in Proc : (InShared(q)' <=> InShared(q)) /\ (InFull(q)' <=> InFull(q))
    BY <1>1, <1>2 DEF InShared, InFull
  <2> QED
    BY <1>0, <2>1, SemaphoreKept DEF semVars
<1>8. Looked'
  <2>1. Live' = Live
    BY <1>0 DEF Live, fileVars
  <2>2. \A c : Registered(c)' = Registered(c)
    BY <1>0, <2>1 DEF Registered, fileVars
  <2>3. \A q \in Proc : q # p => Op(q)' = Op(q)
    BY <1>1 DEF Op
  <2> QED
    BY <1>1, <1>2, <2>1, <2>2, <2>3 DEF FInv, Looked
<1> QED
  BY <1>1, <1>2, <1>3, <1>4, <1>5, <1>6, <1>7, <1>8

(* A call without a close moves no handle yet.                               *)
LEMMA CalledQuiet ==
  ASSUME FInv, NEW p \in Proc, NEW w, Called(p, w), slot' = slot, \A k \in DOMAIN w : w[k].op # "close"
  PROVE  FInv'
<1>1. /\ FTypeOK' /\ Calls' /\ Steps' /\ Children' /\ Semaphore' /\ Looked'
      /\ pc[p] = "enter" /\ pc' = pc
      /\ \A q \in Proc : todo'[q] = IF q = p THEN w ELSE todo[q]
  BY CalledKeeps
<1>2. todo[p] = <<>> /\ UNCHANGED fileVars
  BY DEF Called
<1>3. ASSUME NEW q \in Proc, NEW g
      PROVE  HasCounted(q, g)' <=> HasCounted(q, g)
  BY <1>1, <1>2 DEF HasCounted, Op
<1>4. ASSUME NEW q \in Proc, NEW n \in Slot, NEW g
      PROVE  ToClose(q, n, g)' <=> ToClose(q, n, g)
  <2>1. CASE q # p
    BY <1>1, <2>1 DEF ToClose
  <2>2. CASE q = p
    BY <1>1, <1>2, <2>2 DEF ToClose
  <2> QED
    BY <2>1, <2>2
<1>5. SameHolders
  BY <1>3, <1>4, SameByForm
<1>6. Counted' /\ \A f, g \in Live' : path'[f] = path'[g] => f = g
  BY <1>2, <1>5, SameHoldersCount DEF fileVars
<1> QED
  BY <1>1, <1>6 DEF FInv

(* A call of one operation that opens or duplicates.                         *)
LEMMA CallOneKeeps ==
  ASSUME FInv, NEW p \in Proc, NEW o \in OpRec, Call(p, <<o>>), UNCHANGED <<slot, alive>>,
         o.op # "close", o.proc = p, WellFormed(p, o)
  PROVE  FInv'
<1>1. <<o>> \in Seq(OpRec) /\ Len(<<o>>) = 1 /\ DOMAIN <<o>> = {1} /\ <<o>>[1] = o
  OBVIOUS
<1>2. WellFormedAfter(p, o)
  BY DEF WellFormed, WellFormedAfter, FreeFd
<1>3. calls' \in [Proc -> Nat]
  BY DEF Call, FInv, FTypeOK
<1>4. slot' \in [Proc -> [Slot -> File \cup {None}]]
  BY DEF FInv, FTypeOK
<1>5. PICK w : w = <<o>>
  OBVIOUS
<1>6. w \in Seq(OpRec) /\ Len(w) = 1 /\ DOMAIN w = {1} /\ w[1] = o
  BY <1>1, <1>5
<1>7. /\ p \in alive /\ todo[p] = <<>> /\ todo' = [todo EXCEPT ![p] = w]
      /\ UNCHANGED <<semVars, fileVars, pc, tmp>>
  BY <1>5 DEF Call, Ready
<1>8. Called(p, w)
  BY <1>2, <1>3, <1>4, <1>6, <1>7, Constants DEF Called
<1>9. \A k \in DOMAIN w : w[k].op # "close"
  BY <1>6
<1> QED
  BY <1>8, <1>9, CalledQuiet

(* openat: a handle to come, in a free descriptor.                           *)
LEMMA OpenatKeeps ==
  ASSUME FInv, NEW p \in Proc, NEW a \in Path, Openat(p, a)
  PROVE  FInv'
<1>1. PICK o1, o2 : o1 = Find(a) /\ o2 = Open(p, a)
  OBVIOUS
<1>2. /\ o1 \in OpRec /\ o1.op = "find" /\ o1.proc = None
      /\ o2 \in OpRec /\ o2.op = "open" /\ o2.proc = p /\ o2.path \in Path
  BY <1>1 DEF Find, Open, OpRec
<1>3. PICK w : w = <<o1, o2>>
  OBVIOUS
<1>4. w \in Seq(OpRec) /\ Len(w) = 2 /\ DOMAIN w = {1, 2} /\ w[1] = o1 /\ w[2] = o2
  BY <1>2, <1>3
<1>5. MaxFd + 1 >= 2 /\ \E i \in 1 .. MaxFd : slot'[p][i] = None
  BY Constants DEF Openat, FreeFd
<1>6. WellFormedAfter(p, o1) /\ WellFormedAfter(p, o2)
  BY <1>2, <1>5 DEF WellFormedAfter
<1>7. /\ p \in alive /\ todo[p] = <<>> /\ todo' = [todo EXCEPT ![p] = w] /\ calls' \in [Proc -> Nat]
      /\ UNCHANGED <<semVars, fileVars, pc, tmp, slot, alive>>
  BY <1>1, <1>3 DEF Openat, Call, Ready, FInv, FTypeOK
<1>8. Called(p, w)
  <2>1. \A k \in DOMAIN w : \A q \in Proc : q # p => w[k].proc # q
    BY <1>2, <1>4, Constants
  <2>2. \A k \in DOMAIN w : WellFormedAfter(p, w[k]) /\ (w[k].proc = p => k = Len(w))
    BY <1>2, <1>4, <1>6, Constants
  <2>3. slot' \in [Proc -> [Slot -> File \cup {None}]]
    BY <1>7 DEF FInv, FTypeOK
  <2> QED
    BY <1>4, <1>5, <1>7, <2>1, <2>2, <2>3 DEF Called
<1>9. \A k \in DOMAIN w : w[k].op # "close"
  BY <1>2, <1>4
<1> QED
  BY <1>7, <1>8, <1>9, CalledQuiet

(* A process that reads, or is done, changes no handle.                      *)
LEMMA ReadKeeps ==
  ASSUME FInv, NEW p \in Proc, ReadDone(p) \/ \E i \in 1 .. MaxFd : ReadTty(p, i)
  PROVE  FInv'
<1>1. /\ UNCHANGED <<rem, slock, path, refs, slot, alive, todo, pc, tmp>>
      /\ calls' \in [Proc -> Nat]
  BY DEF ReadDone, ReadTty, semVars, procVars, FInv, FTypeOK
<1>2. FTypeOK' /\ Calls' /\ Steps' /\ Children' /\ Looked'
  BY <1>1 DEF FInv, FTypeOK, Calls, WellFormed, FreeFd, Steps, Children, Looked, Op, Live, Registered
<1>3. Semaphore'
  <2>1. \A q \in Proc : (InShared(q)' <=> InShared(q)) /\ (InFull(q)' <=> InFull(q))
    BY <1>1 DEF InShared, InFull
  <2> QED
    BY <1>1, <2>1, SemaphoreKept
<1>4. SameHolders
  <2>1. \A q \in Proc, n \in Slot, f \in File :
           /\ slot'[q][n] = f <=> slot[q][n] = f
           /\ HasCounted(q, f)' <=> HasCounted(q, f)
           /\ ToClose(q, n, f)' <=> ToClose(q, n, f)
    BY <1>1 DEF HasCounted, ToClose, Op
  <2> QED
    BY <2>1, SameByForm
<1>5. Counted' /\ \A f, g \in Live' : path'[f] = path'[g] => f = g
  BY <1>1, <1>4, SameHoldersCount
<1> QED
  BY <1>2, <1>3, <1>5 DEF FInv

(* dup: the file is kept open by the descriptor that is duplicated.          *)
LEMMA SysDupKeeps ==
  ASSUME FInv, NEW p \in Proc, NEW i \in 1 .. MaxFd, SysDup(p, i)
  PROVE  FInv'
<1>0. slot[p][i] \in File /\ i \in Slot /\ FreeFd(p) # {}
  BY Constants DEF SysDup, FInv, FTypeOK, Slot
<1>1. PICK o : o = Dup(slot[p][i], p, -1)
  OBVIOUS
<1>2. o \in OpRec /\ o.op = "dup" /\ o.proc = p /\ o.file = slot[p][i] /\ o.to = -1
  BY <1>0, <1>1 DEF Dup, OpRec
<1>3. WellFormed(p, o)
  BY <1>0, <1>2 DEF WellFormed
<1>4. Call(p, <<o>>) /\ UNCHANGED <<slot, alive>>
  BY <1>1 DEF SysDup
<1> QED
  BY <1>2, <1>3, <1>4, CallOneKeeps

(* dup2: the same, into a given descriptor.                                  *)
LEMMA SysDup2Keeps ==
  ASSUME FInv, NEW p \in Proc, NEW i \in 1 .. MaxFd, NEW j \in 1 .. MaxFd, SysDup2(p, i, j)
  PROVE  FInv'
<1>0. slot[p][i] \in File /\ i \in Slot /\ j \in Slot
  BY Constants DEF SysDup2, FInv, FTypeOK, Slot
<1>1. PICK o : o = Dup(slot[p][i], p, j)
  OBVIOUS
<1>2. o \in OpRec /\ o.op = "dup" /\ o.proc = p /\ o.file = slot[p][i] /\ o.to # -1
  BY <1>0, <1>1, Constants DEF Dup, OpRec
<1>3. WellFormed(p, o)
  BY <1>0, <1>2 DEF WellFormed
<1>4. Call(p, <<o>>) /\ UNCHANGED <<slot, alive>>
  BY <1>1 DEF SysDup2
<1> QED
  BY <1>2, <1>3, <1>4, CallOneKeeps

(* A call that starts by closing what it took out of slot j.                 *)
LEMMA CalledTakes ==
  ASSUME FInv, NEW p \in Proc, NEW w, Called(p, w), NEW j \in Slot,
         slot' = [slot EXCEPT ![p][j] = None],
         w # <<>>, w[1].op = "close", w[1].file = slot[p][j],
         \A k \in DOMAIN w : k # 1 => w[k].op # "close"
  PROVE  FInv'
<1>1. /\ FTypeOK' /\ Calls' /\ Steps' /\ Children' /\ Semaphore' /\ Looked'
      /\ pc[p] = "enter" /\ pc' = pc
      /\ \A q \in Proc : todo'[q] = IF q = p THEN w ELSE todo[q]
  BY CalledKeeps
<1>2. todo[p] = <<>> /\ UNCHANGED fileVars /\ w \in Seq(OpRec) /\ Len(w) <= MaxFd + 1
  BY DEF Called
<1>3. Len(w) \in Nat /\ Len(w) >= 1 /\ DOMAIN w = 1 .. Len(w)
  BY <1>2
<1>4. PICK n0 \in Slot : n0 = Len(w) - 1
  BY <1>2, <1>3, Constants DEF Slot
<1>5. PICK t \in Holder, x \in Holder, y \in Holder :
        t = <<"counted", p, 0>> /\ x = <<"slot", p, j>> /\ y = <<"close", p, n0>>
  BY HolderType, Constants
<1>6. \A q \in Proc, i \in Slot : slot'[q][i] = IF q = p /\ i = j THEN None ELSE slot[q][i]
  BY DEF FInv, FTypeOK
<1>7. ASSUME NEW f \in File
      PROVE  Handles(f)' = Handles(f)
  <2>1. t # x /\ t # y /\ x # y
    BY <1>5
  <2>2. ~Holds(t, f) /\ ~Holds(t, f)'
    BY <1>1, <1>5, HoldsForm, HoldsFormAfter DEF HasCounted
  <2>3. Holds(x, f) <=> slot[p][j] = f
    BY <1>5, HoldsForm
  <2>4. ~Holds(x, f)'
    <3>1. slot'[p][j] = None
      BY <1>6
    <3>2. Holds(x, f)' <=> slot'[p][j] = f
      BY <1>5, HoldsFormAfter
    <3>3. f # None
      BY Constants
    <3> QED
      BY <3>1, <3>2, <3>3
  <2>5. ~Holds(y, f)
    <3>1. DOMAIN todo[p] = {}
      BY <1>2
    <3>2. ~ToClose(p, n0, f)
      BY <3>1 DEF ToClose
    <3>3. Holds(y, f) <=> ToClose(p, n0, f)
      BY <1>5, HoldsForm
    <3> QED
      BY <3>2, <3>3
  <2>6. Holds(y, f)' <=> slot[p][j] = f
    <3>1. Len(w) - n0 = 1 /\ 1 \in DOMAIN w
      BY <1>3, <1>4
    <3>2. ToClose(p, n0, f)' <=> slot[p][j] = f
      BY <1>1, <3>1 DEF ToClose
    <3> QED
      BY <1>5, <3>2, HoldsFormAfter
  <2>7. ASSUME NEW h \in Holder, h \notin {t, x, y}
        PROVE  Holds(h, f)' <=> Holds(h, f)
    <3>1. PICK q \in Proc, n \in Slot : h \in {<<"slot", q, n>>, <<"counted", q, n>>, <<"close", q, n>>}
      BY HolderForm
    <3>2. CASE h = <<"slot", q, n>>
      <4>1. ~(q = p /\ n = j)
        BY <1>5, <2>7, <3>2
      <4> QED
        BY <1>6, <3>2, <4>1 DEF Holds
    <3>3. CASE h = <<"counted", q, n>>
      <4>1. HasCounted(q, f)' <=> HasCounted(q, f)
        BY <1>1, <1>2 DEF HasCounted, Op
      <4> QED
        BY <3>3, <4>1 DEF Holds, HasCounted
    <3>4. CASE h = <<"close", q, n>>
      <4>1. ToClose(q, n, f)' <=> ToClose(q, n, f)
        <5>1. CASE q # p
          BY <1>1, <5>1 DEF ToClose
        <5>2. CASE q = p
          <6>1. n # n0 /\ n \in Nat
            BY <1>5, <2>7, <3>4, <5>2, Constants
          <6>2. Len(w) - n # 1
            BY <1>3, <1>4, <6>1
          <6> QED
            BY <1>1, <1>2, <5>2, <6>2 DEF ToClose
        <5> QED
          BY <5>1, <5>2
      <4> QED
        BY <3>4, <4>1 DEF Holds, ToClose
    <3> QED
      BY <3>1, <3>2, <3>3, <3>4
  <2> QED
    BY <2>1, <2>2, <2>3, <2>4, <2>5, <2>6, <2>7, Rotated
<1>8. Counted' /\ \A f, g \in Live' : path'[f] = path'[g] => f = g
  BY <1>2, <1>7, CountsKept DEF fileVars
<1> QED
  BY <1>1, <1>8 DEF FInv

(* close: the descriptor is emptied and its handle will be closed.           *)
LEMMA SysCloseKeeps ==
  ASSUME FInv, NEW p \in Proc, NEW i \in 1 .. MaxFd, SysClose(p, i)
  PROVE  FInv'
<1>0. slot[p][i] \in File /\ i \in Slot
  BY Constants DEF SysClose, FInv, FTypeOK, Slot
<1>1. PICK o : o = Close(slot[p][i])
  OBVIOUS
<1>2. o \in OpRec /\ o.op = "close" /\ o.proc = None /\ o.file = slot[p][i]
  BY <1>0, <1>1 DEF Close, OpRec
<1>3. PICK w : w = <<o>>
  OBVIOUS
<1>4. w \in Seq(OpRec) /\ Len(w) = 1 /\ DOMAIN w = {1} /\ w[1] = o /\ w # <<>>
  BY <1>2, <1>3
<1>5. /\ p \in alive /\ todo[p] = <<>> /\ todo' = [todo EXCEPT ![p] = w]
      /\ UNCHANGED <<semVars, fileVars, pc, tmp, alive>> /\ slot' = [slot EXCEPT ![p][i] = None]
      /\ calls' \in [Proc -> Nat]
  BY <1>1, <1>3 DEF SysClose, Call, Ready, FInv, FTypeOK
<1>6. slot' \in [Proc -> [Slot -> File \cup {None}]] /\ \A q \in Proc : q # p => slot'[q] = slot[q]
  BY <1>0, <1>5 DEF FInv, FTypeOK
<1>7. WellFormedAfter(p, o)
  BY <1>2 DEF WellFormedAfter
<1>8. Called(p, w)
  BY <1>2, <1>4, <1>5, <1>6, <1>7, Constants DEF Called
<1>9. w[1].op = "close" /\ w[1].file = slot[p][i] /\ \A k \in DOMAIN w : k # 1 => w[k].op # "close"
  BY <1>2, <1>4
<1> QED
  BY <1>0, <1>4, <1>5, <1>8, <1>9, CalledTakes

(* ccwd: the old directory is closed, then the new one duplicated.           *)
LEMMA SysCcwdKeeps ==
  ASSUME FInv, NEW p \in Proc, NEW i \in 1 .. MaxFd, SysCcwd(p, i)
  PROVE  FInv'
<1>0. /\ slot[p][i] \in File /\ i \in Slot /\ i # 0 /\ slot[p][0] \in File \cup {None} /\ MaxFd >= 1
  BY Constants DEF SysCcwd, FInv, FTypeOK, Slot
<1>1. PICK o : o = Close(slot[p][0])
  OBVIOUS
<1>2. o \in OpRec /\ o.op = "close" /\ o.proc = None /\ o.file = slot[p][0]
  BY <1>0, <1>1 DEF Close, OpRec
<1>3. PICK d : d = Dup(slot[p][i], p, 0)
  OBVIOUS
<1>4. d \in OpRec /\ d.op = "dup" /\ d.proc = p /\ d.file = slot[p][i] /\ d.to = 0
  BY <1>0, <1>3, Constants DEF Dup, OpRec
<1>5. PICK w : w = <<o, d>>
  OBVIOUS
<1>6. w \in Seq(OpRec) /\ Len(w) = 2 /\ DOMAIN w = {1, 2} /\ w[1] = o /\ w[2] = d /\ w # <<>>
  BY <1>2, <1>4, <1>5
<1>7. /\ p \in alive /\ todo[p] = <<>> /\ todo' = [todo EXCEPT ![p] = w]
      /\ UNCHANGED <<semVars, fileVars, pc, tmp, alive>> /\ slot' = [slot EXCEPT ![p][0] = None]
      /\ calls' \in [Proc -> Nat]
  BY <1>1, <1>3, <1>5 DEF SysCcwd, Call, Ready, FInv, FTypeOK
<1>8. slot' \in [Proc -> [Slot -> File \cup {None}]] /\ \A q \in Proc : q # p => slot'[q] = slot[q]
  BY <1>0, <1>7 DEF FInv, FTypeOK
<1>9. WellFormedAfter(p, o) /\ WellFormedAfter(p, d)
  <2>1. slot'[p][i] = slot[p][i]
    BY <1>0, <1>7 DEF FInv, FTypeOK
  <2> QED
    BY <1>0, <1>2, <1>4, <2>1 DEF WellFormedAfter
<1>10. Called(p, w)
  <2>1. Len(w) <= MaxFd + 1
    BY <1>0, <1>6, Constants
  <2>2. \A k \in DOMAIN w : WellFormedAfter(p, w[k]) /\ (w[k].proc = p => k = Len(w))
    BY <1>2, <1>6, <1>9, Constants
  <2>3. \A k \in DOMAIN w : \A q \in Proc : ~(q # p /\ w[k].proc = q)
    BY <1>2, <1>4, <1>6, Constants
  <2> QED
    BY <1>6, <1>7, <1>8, <2>1, <2>2, <2>3 DEF Called
<1>11. w[1].op = "close" /\ w[1].file = slot[p][0] /\ \A k \in DOMAIN w : k # 1 => w[k].op # "close"
  BY <1>2, <1>4, <1>6
<1> QED
  BY <1>6, <1>7, <1>10, <1>11, CalledTakes, Constants

(* SetToSeq lists a finite set once.                                         *)
LEMMA ListedOnceEach ==
  ASSUME NEW S, IsFiniteSet(S)
  PROVE  /\ Cardinality(S) \in Nat /\ SetToSeq(S) \in [1 .. Cardinality(S) -> S]
         /\ \A a, b \in 1 .. Cardinality(S) : SetToSeq(S)[a] = SetToSeq(S)[b] => a = b
         /\ \A x \in S : \E k \in 1 .. Cardinality(S) : SetToSeq(S)[k] = x
<1>1. Cardinality(S) \in Nat /\ ExistsBijection(1 .. Cardinality(S), S)
  BY FS_CardinalityType
<1>2. PICK g : g \in Bijection(1 .. Cardinality(S), S)
  BY <1>1 DEF ExistsBijection
<1>3. g \in [1 .. Cardinality(S) -> S] /\ IsInjective(g)
  BY <1>2 DEF Bijection, Injection, IsInjective
<1>4. SetToSeq(S) \in [1 .. Cardinality(S) -> S] /\ IsInjective(SetToSeq(S))
  BY <1>3 DEF SetToSeq
<1>5. PICK f : f = SetToSeq(S)
  OBVIOUS
<1>6. f \in Injection(1 .. Cardinality(S), S)
  BY <1>4, <1>5 DEF Injection, IsInjective
<1>7. IsFiniteSet(1 .. Cardinality(S)) /\ Cardinality(1 .. Cardinality(S)) = Cardinality(S)
  BY <1>1, FS_Interval
<1>8. f \in Surjection(1 .. Cardinality(S), S)
  BY <1>6, <1>7, FS_Injection
<1> QED
  BY <1>1, <1>4, <1>5, <1>8 DEF Surjection, IsInjective

(* The slots in use are at most all.                                         *)
LEMMA SlotsInUse ==
  ASSUME NEW I \in SUBSET Slot
  PROVE  IsFiniteSet(I) /\ Cardinality(I) \in Nat /\ Cardinality(I) <= MaxFd + 1
<1>1. IsFiniteSet(Slot) /\ Cardinality(Slot) = MaxFd + 1
  BY Constants, FS_Interval DEF Slot
<1> QED
  BY <1>1, FS_Subset, FS_CardinalityType

(* fork: each handle of the parent is kept by the parent until the child has *)
(* its own.                                                                  *)
LEMMA SysForkKeeps ==
  ASSUME FInv, NEW p \in Proc, NEW q \in Proc \ {p}, SysFork(p, q)
  PROVE  FInv'
<1>0. PICK I \in SUBSET Slot : I = {i \in Slot : slot[p][i] # None}
  OBVIOUS
<1>1. PICK S : S = {Dup(slot[p][i], q, i) : i \in I}
  OBVIOUS
<1>2. \A s \in S : /\ s \in OpRec /\ s.op = "dup" /\ s.proc = q /\ s.to # -1
                   /\ \E i \in Slot : slot[p][i] = s.file /\ s.file \in File
  <2> SUFFICES ASSUME NEW i \in I, NEW s, s = Dup(slot[p][i], q, i)
               PROVE  /\ s \in OpRec /\ s.op = "dup" /\ s.proc = q /\ s.to # -1
                      /\ s.file = slot[p][i] /\ s.file \in File
    BY <1>1
  <2>1. slot[p][i] \in File /\ i \in Slot /\ i # -1
    BY <1>0, Constants DEF FInv, FTypeOK
  <2> QED
    BY <2>1 DEF Dup, OpRec
<1>3. IsFiniteSet(S) /\ Cardinality(S) <= MaxFd + 1
  <2>1. PICK g : g = [i \in I |-> Dup(slot[p][i], q, i)]
    OBVIOUS
  <2>2. g \in Surjection(I, S)
    BY <1>1, <2>1 DEF Surjection
  <2>3. IsFiniteSet(I) /\ Cardinality(I) \in Nat /\ Cardinality(I) <= MaxFd + 1
    BY SlotsInUse
  <2>4. IsFiniteSet(S) /\ Cardinality(S) <= Cardinality(I)
    BY <2>2, <2>3, FS_Surjection
  <2>5. Cardinality(S) \in Nat
    BY <2>4, FS_CardinalityType
  <2> QED
    BY <2>3, <2>4, <2>5, Constants
<1>4. PICK w : w = SetToSeq(S)
  OBVIOUS
<1>5. w \in Seq(OpRec) /\ Len(w) <= MaxFd + 1 /\ \A k \in DOMAIN w : w[k] \in S
  <2>1. Cardinality(S) \in Nat /\ w \in [1 .. Cardinality(S) -> S]
    BY <1>3, <1>4, ListedOnceEach
  <2>2. w \in [1 .. Cardinality(S) -> OpRec]
    BY <1>2, <2>1
  <2>3. w \in Seq(OpRec) /\ Len(w) = Cardinality(S)
    BY <2>1, <2>2, SeqDef
  <2> QED
    BY <1>3, <2>1, <2>3
<1>6. /\ p \in alive /\ todo[p] = <<>> /\ todo' = [todo EXCEPT ![p] = w]
      /\ UNCHANGED <<semVars, fileVars, pc, tmp, slot, alive>>
      /\ calls' \in [Proc -> Nat]
  <2>1. Call(p, SetToSeq(S)) /\ UNCHANGED <<slot, alive>>
    BY <1>0, <1>1 DEF SysFork
  <2> QED
    BY <1>4, <2>1 DEF Call, Ready, FInv, FTypeOK
<1>7. /\ q \notin alive /\ todo[q] = <<>>
      /\ \A r \in Proc : \A k \in DOMAIN todo[r] : todo[r][k].proc # q
  BY DEF SysFork
<1>8. \A k \in DOMAIN w : WellFormedAfter(p, w[k]) /\ w[k].proc = q
  <2> SUFFICES ASSUME NEW s \in S PROVE WellFormedAfter(p, s) /\ s.proc = q
    BY <1>5
  <2> QED
    BY <1>2, <1>6 DEF WellFormedAfter
<1>9. slot' \in [Proc -> [Slot -> File \cup {None}]]
  BY <1>6 DEF FInv, FTypeOK
<1>10. Called(p, w)
  BY <1>5, <1>6, <1>7, <1>8, <1>9 DEF Called
<1>11. \A k \in DOMAIN w : w[k].op # "close"
  BY <1>2, <1>5
<1> QED
  BY <1>6, <1>10, <1>11, CalledQuiet

(* exit: every handle goes from its slot to a close.                         *)
LEMMA SysExitKeeps ==
  ASSUME FInv, NEW p \in Proc, SysExit(p)
  PROVE  FInv'
<1>0. PICK I \in SUBSET Slot : I = {i \in Slot : slot[p][i] # None}
  OBVIOUS
<1>1. PICK open : open = SetToSeq(I)
  OBVIOUS
<1>2. PICK n : n = Cardinality(I)
  OBVIOUS
<1>3. /\ n \in Nat /\ n <= MaxFd + 1 /\ open \in [1 .. n -> I]
      /\ \A a, b \in 1 .. n : open[a] = open[b] => a = b
      /\ \A i \in I : \E k \in 1 .. n : open[k] = i
  <2>1. IsFiniteSet(I) /\ Cardinality(I) \in Nat /\ Cardinality(I) <= MaxFd + 1
    BY SlotsInUse
  <2> QED
    BY <1>1, <1>2, <2>1, ListedOnceEach
<1>4. PICK w : w = [k \in 1 .. n |-> Close(slot[p][open[k]])]
  OBVIOUS
<1>5. \A k \in 1 .. n : /\ w[k] \in OpRec /\ w[k].op = "close" /\ w[k].proc = None
                        /\ w[k].file = slot[p][open[k]] /\ open[k] \in Slot
  <2> SUFFICES ASSUME NEW k \in 1 .. n
               PROVE  /\ w[k] \in OpRec /\ w[k].op = "close" /\ w[k].proc = None
                      /\ w[k].file = slot[p][open[k]] /\ open[k] \in Slot
    OBVIOUS
  <2>1. w[k] = Close(slot[p][open[k]]) /\ open[k] \in Slot
    BY <1>3, <1>4
  <2>2. slot[p][open[k]] \in File \cup {None}
    BY <2>1 DEF FInv, FTypeOK
  <2> QED
    BY <2>1, <2>2 DEF Close, OpRec
<1>6. w \in Seq(OpRec) /\ Len(w) = n /\ DOMAIN w = 1 .. n
  <2>1. w \in [1 .. n -> OpRec]
    BY <1>4, <1>5
  <2> QED
    BY <1>3, <2>1, SeqDef
<1>7. /\ p \in alive /\ todo[p] = <<>> /\ todo' = [todo EXCEPT ![p] = w]
      /\ UNCHANGED <<semVars, fileVars, pc, tmp>> /\ alive' \subseteq alive
      /\ slot' = [slot EXCEPT ![p] = [i \in Slot |-> None]]
      /\ calls' \in [Proc -> Nat]
  <2>1. DOMAIN open = 1 .. n
    BY <1>3
  <2>2. todo' = [todo EXCEPT ![p] = [k \in DOMAIN open |-> Close(slot[p][open[k]])]]
    BY <1>0, <1>1 DEF SysExit
  <2>3. calls' \in [Proc -> Nat]
    BY FilesAssumption DEF SysExit, FInv, FTypeOK
  <2> QED
    BY <1>4, <2>1, <2>2, <2>3 DEF SysExit, Ready
<1>8. /\ slot' \in [Proc -> [Slot -> File \cup {None}]]
      /\ \A q \in Proc : q # p => slot'[q] = slot[q]
      /\ \A i \in Slot : slot'[p][i] = None
  BY <1>7 DEF FInv, FTypeOK
<1>9. Called(p, w)
  <2>1. \A k \in DOMAIN w : WellFormedAfter(p, w[k]) /\ w[k].proc = None
    BY <1>5, <1>6 DEF WellFormedAfter
  <2> QED
    BY <1>3, <1>6, <1>7, <1>8, <2>1, Constants DEF Called
<1>10. /\ FTypeOK' /\ Calls' /\ Steps' /\ Children' /\ Semaphore' /\ Looked'
       /\ pc[p] = "enter" /\ pc' = pc
       /\ \A q \in Proc : todo'[q] = IF q = p THEN w ELSE todo[q]
  BY <1>9, CalledKeeps
<1>11. ASSUME NEW f \in File
       PROVE  Handles(f)' = Handles(f)
  <2>1. PICK A : A = {h \in Holder : Holds(h, f)}
    OBVIOUS
  <2>2. PICK B : B = {h \in Holder : Holds(h, f)'}
    OBVIOUS
  <2>3. \A m \in Slot : Holds(<<"close", p, m>>, f)' <=> n - m \in 1 .. n /\ slot[p][open[n - m]] = f
    <3> SUFFICES ASSUME NEW m \in Slot
                 PROVE  ToClose(p, m, f)' <=> n - m \in 1 .. n /\ slot[p][open[n - m]] = f
      BY HoldsFormAfter
    <3>1. todo'[p] = w /\ pc'[p] = "enter"
      BY <1>10
    <3>2. ToClose(p, m, f)' <=> n - m \in 1 .. n /\ w[n - m].op = "close" /\ w[n - m].file = f
      BY <1>6, <3>1 DEF ToClose
    <3> QED
      BY <1>5, <3>2
  <2>4. /\ \A m \in Slot : ~Holds(<<"slot", p, m>>, f)'
        /\ \A m \in Slot : ~Holds(<<"close", p, m>>, f)
    <3>1. f # None /\ DOMAIN todo[p] = {}
      BY <1>7, Constants
    <3>2. \A m \in Slot : ~(slot'[p][m] = f) /\ ~ToClose(p, m, f)
      BY <1>8, <3>1 DEF ToClose
    <3> QED
      BY <3>2, HoldsForm, HoldsFormAfter
  <2>5. ASSUME NEW h \in Holder, \A m \in Slot : h # <<"slot", p, m>> /\ h # <<"close", p, m>>
        PROVE  Holds(h, f)' <=> Holds(h, f)
    <3>1. PICK q \in Proc, m \in Slot : h \in {<<"slot", q, m>>, <<"counted", q, m>>, <<"close", q, m>>}
      BY HolderForm
    <3>2. CASE h = <<"slot", q, m>>
      <4>1. q # p
        BY <2>5, <3>2
      <4> QED
        BY <1>8, <3>2, <4>1 DEF Holds
    <3>3. CASE h = <<"counted", q, m>>
      <4>1. HasCounted(q, f)' <=> HasCounted(q, f)
        BY <1>7, <1>10 DEF HasCounted, Op
      <4> QED
        BY <3>3, <4>1 DEF Holds, HasCounted
    <3>4. CASE h = <<"close", q, m>>
      <4>1. q # p
        BY <2>5, <3>4
      <4>2. ToClose(q, m, f)' <=> ToClose(q, m, f)
        BY <1>10, <4>1 DEF ToClose
      <4> QED
        BY <3>4, <4>2 DEF Holds, ToClose
    <3> QED
      BY <3>1, <3>2, <3>3, <3>4
  <2> DEFINE Taken(h) == \E m \in Slot : h = <<"close", p, m>>
  <2>6. PICK g : g = [h \in B |-> IF Taken(h) THEN <<"slot", p, open[n - h[3]]>> ELSE h]
    OBVIOUS
  <2>7. ASSUME NEW m \in Slot, <<"close", p, m>> \in B
        PROVE  /\ n - m \in 1 .. n /\ slot[p][open[n - m]] = f /\ open[n - m] \in Slot
               /\ g[<<"close", p, m>>] = <<"slot", p, open[n - m]>>
    <3>1. n - m \in 1 .. n /\ slot[p][open[n - m]] = f
      BY <2>2, <2>3, <2>7
    <3> QED
      BY <1>5, <2>6, <2>7, <3>1
  <2>8. ASSUME NEW h \in B, ~Taken(h)
        PROVE  g[h] = h /\ h \in A /\ \A m \in Slot : h # <<"slot", p, m>>
    <3>1. \A m \in Slot : h # <<"slot", p, m>>
      BY <2>2, <2>4, <2>8
    <3>2. Holds(h, f)
      BY <2>2, <2>5, <2>8, <3>1
    <3> QED
      BY <2>1, <2>2, <2>6, <2>8, <3>1, <3>2
  <2>9. \A h \in B : g[h] \in A
    <3> SUFFICES ASSUME NEW h \in B PROVE g[h] \in A
      OBVIOUS
    <3>1. CASE Taken(h)
      <4>1. PICK m \in Slot : h = <<"close", p, m>>
        BY <3>1
      <4>2. slot[p][open[n - m]] = f /\ open[n - m] \in Slot /\ g[h] = <<"slot", p, open[n - m]>>
        BY <2>7, <4>1
      <4>3. PICK j \in Slot : j = open[n - m]
        BY <4>2
      <4>4. Holds(<<"slot", p, j>>, f)
        BY <4>2, <4>3, HoldsForm
      <4>5. <<"slot", p, j>> \in A
        BY <2>1, <4>4, HolderType
      <4> QED
        BY <4>2, <4>3, <4>5
    <3>2. CASE ~Taken(h)
      BY <2>8, <3>2
    <3> QED
      BY <3>1, <3>2
  <2>10. ASSUME NEW h \in B, NEW k \in B, g[h] = g[k]
         PROVE  h = k
    <3>1. CASE Taken(h) /\ Taken(k)
      <4>1. PICK a \in Slot, b \in Slot : h = <<"close", p, a>> /\ k = <<"close", p, b>>
        BY <3>1
      <4>2. /\ n - a \in 1 .. n /\ n - b \in 1 .. n
            /\ g[h] = <<"slot", p, open[n - a]>> /\ g[k] = <<"slot", p, open[n - b]>>
        BY <2>7, <4>1
      <4>3. open[n - a] = open[n - b]
        <5>1. PICK x, y : x = open[n - a] /\ y = open[n - b]
          OBVIOUS
        <5>2. <<"slot", p, x>> = <<"slot", p, y>>
          BY <2>10, <4>2, <5>1
        <5>3. x = y
          BY <5>2
        <5> QED
          BY <5>1, <5>3
      <4>4. n - a = n - b
        BY <1>3, <4>2, <4>3
      <4>5. a \in Nat /\ b \in Nat
        BY Constants
      <4>6. a = b
        BY <1>3, <4>4, <4>5
      <4> QED
        BY <4>1, <4>6
    <3>2. CASE Taken(h) /\ ~Taken(k)
      <4>1. PICK a \in Slot : h = <<"close", p, a>>
        BY <3>2
      <4>2. open[n - a] \in Slot /\ g[h] = <<"slot", p, open[n - a]>>
        BY <2>7, <4>1
      <4> QED
        BY <2>8, <2>10, <3>2, <4>2
    <3>3. CASE ~Taken(h) /\ Taken(k)
      <4>1. PICK a \in Slot : k = <<"close", p, a>>
        BY <3>3
      <4>2. open[n - a] \in Slot /\ g[k] = <<"slot", p, open[n - a]>>
        BY <2>7, <4>1
      <4> QED
        BY <2>8, <2>10, <3>3, <4>2
    <3>4. CASE ~Taken(h) /\ ~Taken(k)
      BY <2>8, <2>10, <3>4
    <3> QED
      BY <3>1, <3>2, <3>3, <3>4
  <2>11. ASSUME NEW a \in A
         PROVE  \E h \in B : g[h] = a
    <3>1. CASE \E i \in Slot : a = <<"slot", p, i>>
      <4>1. PICK i \in Slot : a = <<"slot", p, i>>
        BY <3>1
      <4>2. slot[p][i] = f
        BY <2>1, <4>1, HoldsForm
      <4>3. i \in I
        BY <1>0, <4>2, Constants
      <4>4. PICK k \in 1 .. n : open[k] = i
        BY <1>3, <4>3
      <4>5. n - k \in Slot /\ n - (n - k) = k
        BY <1>3, Constants DEF Slot
      <4>6. PICK m \in Slot : m = n - k /\ n - m = k
        BY <4>5
      <4>7. Holds(<<"close", p, m>>, f)'
        BY <2>3, <4>2, <4>4, <4>6
      <4>8. <<"close", p, m>> \in B
        BY <2>2, <4>7, HolderType
      <4>9. g[<<"close", p, m>>] = a
        BY <2>7, <4>1, <4>4, <4>6, <4>8
      <4> QED
        BY <4>8, <4>9
    <3>2. CASE ~ \E i \in Slot : a = <<"slot", p, i>>
      <4>1. a \in Holder /\ Holds(a, f)
        BY <2>1
      <4>2. ~Taken(a)
        BY <2>4, <4>1
      <4>3. a \in B
        BY <2>2, <2>5, <3>2, <4>1, <4>2
      <4> QED
        BY <2>8, <4>2, <4>3
    <3> QED
      BY <3>1, <3>2
  <2>12. g \in Bijection(B, A)
    <3>1. g \in [B -> A]
      BY <2>6, <2>9
    <3> HIDE DEF Taken
    <3> QED
      BY <2>10, <2>11, <3>1 DEF Bijection, Injection, Surjection, IsInjective
  <2>13. Cardinality(A) = Cardinality(B)
    <3>1. IsFiniteSet(B)
      BY <2>2, HolderFinite
    <3>2. ExistsBijection(B, A)
      BY <2>12 DEF ExistsBijection
    <3> QED
      BY <3>1, <3>2, FS_Bijection
  <2> QED
    BY <2>1, <2>2, <2>13 DEF Handles
<1>12. Counted' /\ \A f, g \in Live' : path'[f] = path'[g] => f = g
  BY <1>7, <1>11, CountsKept DEF fileVars
<1> QED
  BY <1>10, <1>12 DEF FInv

-----------------------------------------------------------------------------
(* At first the root directory is open once, by the first process.           *)
LEMMA InitFiles == Init => FInv
<1> SUFFICES ASSUME Init PROVE FInv
  OBVIOUS
<1>1. PICK f0 \in File : /\ path = [f \in File |-> IF f = f0 THEN Slash ELSE None]
                         /\ refs = [f \in File |-> IF f = f0 THEN 1 ELSE 0]
                         /\ slot = [p \in Proc |-> [i \in Slot |-> IF p = Root /\ i = 0 THEN f0 ELSE None]]
  <2>1. (CHOOSE f \in File : TRUE) \in File
    BY FilesAssumption
  <2> QED
    BY <2>1 DEF Init
<1>2. Live = {f0}
  BY <1>1, Constants, FilesAssumption DEF Live
<1>3. /\ \A p \in Proc : todo[p] = <<>> /\ pc[p] = "enter"
      /\ \A p \in Proc : DOMAIN todo[p] = {} /\ Len(todo[p]) = 0
  BY DEF Init
<1>4. FTypeOK
  BY <1>1, Constants, FilesAssumption DEF Init, FTypeOK, Label
<1>5. Calls /\ Steps /\ Children /\ Looked
  BY <1>3, Constants DEF Calls, Steps, Children, Looked
<1>6. Semaphore
  <2>1. Sharing = {} /\ \A p \in Proc : ~InFull(p)
    BY <1>3 DEF Sharing, InShared, InFull
  <2>2. Cardinality(Sharing) = 0
    BY <2>1, FS_EmptySet
  <2>3. rem = Cap
    BY DEF Init
  <2> QED
    BY <2>1, <2>2, <2>3, Constants DEF Semaphore
<1>7. ASSUME NEW h \in Holder, NEW f \in File
      PROVE  Holds(h, f) <=> h = <<"slot", Root, 0>> /\ f = f0
  <2>1. PICK p \in Proc, n \in Slot : h \in {<<"slot", p, n>>, <<"counted", p, n>>, <<"close", p, n>>}
    BY HolderForm
  <2>2. CASE h = <<"slot", p, n>>
    <3>1. Holds(h, f) <=> slot[p][n] = f
      BY <2>2, HoldsForm
    <3>2. slot[p][n] = f <=> p = Root /\ n = 0 /\ f = f0
      BY <1>1, Constants
    <3> QED
      BY <2>2, <3>1, <3>2
  <2>3. CASE h = <<"counted", p, n>>
    BY <1>3, <2>3, HoldsForm DEF HasCounted
  <2>4. CASE h = <<"close", p, n>>
    <3>1. ~ToClose(p, n, f)
      BY <1>3 DEF ToClose
    <3> QED
      BY <2>4, <3>1, HoldsForm
  <2> QED
    BY <2>1, <2>2, <2>3, <2>4
<1>8. Counted
  <2>1. <<"slot", Root, 0>> \in Holder
    BY HolderType, Constants, FilesAssumption
  <2>2. {h \in Holder : Holds(h, f0)} = {<<"slot", Root, 0>>}
    BY <1>7, <2>1
  <2>3. Handles(f0) = 1
    BY <2>2, FS_Singleton DEF Handles
  <2>4. refs[f0] = 1
    BY <1>1
  <2>5. \A f \in File \ Live : \A h \in Holder : ~Holds(h, f)
    BY <1>2, <1>7
  <2> QED
    BY <1>2, <2>3, <2>4, <2>5 DEF Counted
<1> QED
  BY <1>2, <1>4, <1>5, <1>6, <1>8 DEF FInv

(* A step inside a call.                                                     *)
LEMMA StepKeeps ==
  ASSUME FInv, NEW p \in Proc, Step(p), ~raced'
  PROVE  FInv'
<1>1. CASE SemLock(p)
  BY <1>1, SemLockKeeps
<1>2. CASE SemWaitLoad(p)
  BY <1>2, SemWaitLoadKeeps
<1>3. CASE SemWaitStore(p)
  BY <1>3, SemWaitStoreKeeps
<1>4. CASE SemSignalLoad(p)
  BY <1>4, SemSignalLoadKeeps
<1>5. CASE SemWaitFull(p)
  BY <1>5, SemWaitFullKeeps
<1>6. CASE SemSignalFull(p)
  BY <1>6, SemSignalFullKeeps
<1>7. CASE Lookup(p)
  BY <1>7, LookupKeeps
<1>8. CASE Insert(p)
  BY <1>8, InsertKeeps
<1>9. CASE RefsLoad(p)
  BY <1>9, RefsLoadKeeps
<1>10. CASE RefsStore(p)
  BY <1>10, RefsStoreKeeps
<1>11. CASE Finish(p)
  BY <1>11, FinishKeeps
<1>12. CASE LookupClose(p)
  BY <1>12, LookupCloseKeeps
<1>13. CASE CloseHandle(p)
  BY <1>13, CloseHandleKeeps
<1>14. CASE FindLoad(p)
  BY <1>14, FindLoadKeeps
<1>15. CASE FindStore(p)
  BY <1>15, FindStoreKeeps
<1>16. CASE OpenFails(p)
  BY <1>16, OpenFailsKeeps
<1> QED
  BY <1>1, <1>2, <1>3, <1>4, <1>5, <1>6, <1>7, <1>8, <1>9, <1>10, <1>11, <1>12, <1>13, <1>14,
     <1>15, <1>16 DEF Step

(* A call is made.                                                           *)
LEMMA SysCallKeeps ==
  ASSUME FInv, NEW p \in Proc, SysCall(p)
  PROVE  FInv'
<1>1. CASE \E a \in Path : Openat(p, a)
  BY <1>1, OpenatKeeps
<1>2. ASSUME NEW i \in 1 .. MaxFd, SysClose(p, i)
      PROVE  FInv'
  BY <1>2, SysCloseKeeps
<1>3. ASSUME NEW i \in 1 .. MaxFd, SysDup(p, i)
      PROVE  FInv'
  BY <1>3, SysDupKeeps
<1>4. ASSUME NEW i \in 1 .. MaxFd, SysCcwd(p, i)
      PROVE  FInv'
  BY <1>4, SysCcwdKeeps
<1>5. ASSUME NEW i \in 1 .. MaxFd, NEW j \in 1 .. MaxFd, SysDup2(p, i, j)
      PROVE  FInv'
  BY <1>5, SysDup2Keeps
<1>6. CASE \E q \in Proc \ {p} : SysFork(p, q)
  BY <1>6, SysForkKeeps
<1>7. CASE SysExit(p)
  BY <1>7, SysExitKeeps
<1>8. CASE \E i \in 1 .. MaxFd : ReadTty(p, i)
  BY <1>8, ReadKeeps
<1> QED
  BY <1>1, <1>2, <1>3, <1>4, <1>5, <1>6, <1>7, <1>8 DEF SysCall

(* Nothing happens.                                                          *)
LEMMA StutterKeeps ==
  ASSUME FInv, UNCHANGED vars
  PROVE  FInv'
<1> USE DEF vars, semVars, fileVars, procVars
<1>1. FTypeOK' /\ Calls' /\ Steps' /\ Children' /\ Looked'
  BY DEF FInv, FTypeOK, Calls, WellFormed, FreeFd, Steps, Children, Looked, Op, Live, Registered
<1>2. Semaphore'
  <2>1. \A q \in Proc : (InShared(q)' <=> InShared(q)) /\ (InFull(q)' <=> InFull(q))
    BY DEF InShared, InFull
  <2> QED
    BY <2>1, SemaphoreKept
<1>3. SameHolders
  <2>1. \A q \in Proc, n \in Slot, f \in File :
           /\ slot'[q][n] = f <=> slot[q][n] = f
           /\ HasCounted(q, f)' <=> HasCounted(q, f)
           /\ ToClose(q, n, f)' <=> ToClose(q, n, f)
    BY DEF HasCounted, ToClose, Op
  <2> QED
    BY <2>1, SameByForm
<1>4. Counted' /\ \A f, g \in Live' : path'[f] = path'[g] => f = g
  BY <1>3, SameHoldersCount
<1> QED
  BY <1>1, <1>2, <1>4 DEF FInv

(* The invariant says what FilesExact says.                                  *)
LEMMA ExactFromInv == FilesInv => FilesExact
<1>1. CASE raced
  BY <1>1 DEF FilesExact, CloseExcludes, RefsExact, NoDangling, OneFilePerPath
<1>2. CASE FInv
  <2>1. CloseExcludes
    BY <1>2 DEF CloseExcludes, FInv, Semaphore, Sharing
  <2>2. RefsExact
    BY <1>2 DEF RefsExact, FInv, Counted
  <2>3. ASSUME NEW p \in Proc, NEW i \in Slot, slot[p][i] # None
        PROVE  slot[p][i] \in Live
    <3>1. PICK f \in File : f = slot[p][i]
      BY <1>2, <2>3 DEF FInv, FTypeOK
    <3>2. Holds(<<"slot", p, i>>, f) /\ <<"slot", p, i>> \in Holder
      BY <3>1, HoldsForm, HolderType
    <3> QED
      BY <1>2, <3>1, <3>2 DEF FInv, Counted
  <2>4. NoDangling
    BY <2>3 DEF NoDangling
  <2>5. OneFilePerPath
    BY <1>2 DEF OneFilePerPath, FInv
  <2> QED
    BY <2>1, <2>2, <2>4, <2>5 DEF FilesExact
<1> QED
  BY <1>1, <1>2 DEF FilesInv

(* Until an increment is lost: fs_close frees a file only while nobody else  *)
(* is inside the semaphore, refs of every open file is the number of handles *)
(* on it (in descriptors, working directories, counted but not yet placed,   *)
(* or about to be closed), no descriptor refers to a freed file, and a path  *)
(* is open as at most one file; for any number of processes, descriptors,    *)
(* paths and calls.                                                          *)
THEOREM FilesAreExact == Spec => []FilesExact
<1>1. Init => FilesInv
  BY InitFiles DEF FilesInv
<1>2. FilesInv /\ [Next]_vars => FilesInv'
  <2> SUFFICES ASSUME FilesInv, [Next]_vars, ~raced'
               PROVE  FInv'
    BY DEF FilesInv
  <2>1. CASE UNCHANGED vars
    <3>1. ~raced
      BY <2>1 DEF vars
    <3> QED
      BY <2>1, <3>1, StutterKeeps DEF FilesInv
  <2>2. CASE Next
    <3>1. PICK p \in Proc : Step(p) \/ SysCall(p) \/ ReadDone(p) \/ CloseFreed(p)
      BY <2>2 DEF Next
    <3>2. FInv
      BY <2>2 DEF Next, FilesInv
    <3> QED
      BY <3>1, <3>2, StepKeeps, SysCallKeeps, ReadKeeps, CloseHandleKeeps
  <2> QED
    BY <2>1, <2>2
<1>3. FilesInv => FilesExact
  BY ExactFromInv
<1> QED
  BY <1>1, <1>2, <1>3, PTL DEF Spec
=============================================================================
