------------------------------ MODULE DiskSpec ------------------------------
(***************************************************************************)
(* What a disk promises (drivers/include/disk/disk.h): between its call    *)
(* and its answer DISK_OK a transfer takes place once, at one instant, on  *)
(* the sectors it names; a call answered DISK_ERROR had no effect.         *)
(***************************************************************************)
CONSTANTS Thread, Port, Lba, Value
VARIABLES sector,  \* contents of each disk
          call     \* each thread's current call, or its last answer

Op == {"read", "write", "flush", "identify"}
Idle(t) == call[t].st \in {"ok", "error"}

NoCall(s, v) == [st |-> s, op |-> "flush", port |-> CHOOSE p \in Port : TRUE,
                 lba |-> CHOOSE l \in Lba : TRUE, val |-> v]

DInit ==
  /\ sector \in [Port -> [Lba -> Value]]
  /\ call = [t \in Thread |-> NoCall("ok", CHOOSE v \in Value : TRUE)]

Begin(t) ==
  /\ Idle(t)
  /\ call'[t] \in [st : {"pending"}, op : Op, port : Port, lba : Lba, val : Value]
  /\ call' = [call EXCEPT ![t] = call'[t]]
  /\ UNCHANGED sector

Apply(t) ==
  LET c == call[t]  now == sector[c.port][c.lba] IN
  /\ c.st = "pending"
  /\ call' = [call EXCEPT ![t].st = "applied", ![t].val = IF c.op = "read" THEN now ELSE @]
  /\ sector' = [sector EXCEPT ![c.port][c.lba] = IF c.op = "write" THEN c.val ELSE @]

\* the answer, and what was read
Return(t) ==
  /\ ~Idle(t)
  /\ call' = [call EXCEPT ![t] = NoCall(IF @.st = "applied" THEN "ok" ELSE "error", @.val)]
  /\ UNCHANGED sector

DSpec == DInit /\ [][\E t \in Thread : Begin(t) \/ Apply(t) \/ Return(t)]_<<sector, call>>
=============================================================================
