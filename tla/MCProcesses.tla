----------------------------- MODULE MCProcesses ----------------------------
(* Processes for TLC: the family tables, wait and the reaper (Family), their *)
(* address spaces (AddressSpace) and the images loaded into them (Elf).  One *)
(* of them moves in each behaviour.                                          *)
EXTENDS Family, AddressSpace, Elf

VARIABLE part

MCStringLists == BoundedSeq({1, 9}, 2)

ProcessesInit ==
  /\ FamInit /\ ASInit /\ ElfInit
  /\ part \in {"family", "space", "elf"}
  /\ part = "elf" \/ segs = <<>>
  /\ (part = "elf" /\ Len(segs) <= 1) \/ (argv = <<>> /\ envp = <<>>)

ProcessesNext ==
  /\ UNCHANGED part
  /\ \/ part = "family" /\ FamNext /\ UNCHANGED <<asVars, elfVars>>
     \/ part = "space" /\ ASNext /\ UNCHANGED <<famVars, elfVars>>
     \/ part = "elf" /\ ElfNext /\ UNCHANGED <<famVars, asVars>>

\* the scheduler runs the reaper, init and every process in a kernel call; nobody has to exit
FamilyFair ==
  LET goes == part = "family" /\ ~raced IN
  /\ WF_famVars(goes /\ Reaper) /\ WF_famVars(goes /\ InitLoop)
  /\ \A p \in Pid : WF_famVars(goes /\ (ForkInsert(p) \/ ExecveSwap(p) \/ ReapChild(p)))

ProcessesSpec ==
  /\ ProcessesInit /\ [][ProcessesNext]_<<part, famVars, asVars, elfVars>>
  /\ FamilyFair
=============================================================================
