------------------------------- MODULE MCFiles ------------------------------
(* Files for TLC: the table of open files with its semaphore and reference   *)
(* counts (OpenFiles), and what a process reaches through a descriptor       *)
(* (Vfs).  One of them moves in each behaviour; in a third the cleaning of   *)
(* paths is tried on every short path.                                       *)
EXTENDS OpenFiles, Vfs

VARIABLE part

MCRaw == {<<"dev", ".", "ttyS0">>, <<"home", "..", "..", "a">>}
MCRel == {<<"..", "dev", "">>}
MCProbes == BoundedSeq({"", ".", "..", "...", "dev", "a"}, 4)

FilesInit == Init /\ VfsInit /\ part \in {"open", "vfs", "clean"}

FilesNext ==
  /\ UNCHANGED part
  /\ \/ part = "open" /\ Next /\ UNCHANGED vfsVars
     \/ part = "vfs" /\ VfsNext /\ UNCHANGED vars

\* a process inside a call is scheduled again and again; whoever holds or
\* waits for the semaphore's lock is preempted but never stopped
FilesSpec ==
  /\ FilesInit /\ [][FilesNext]_<<part, vars, vfsVars>>
  /\ \A p \in Proc : WF_vars(part = "open" /\ ~raced /\ Step(p))

(* Every path means what it means read from the root, on whatever path and   *)
(* directory it was opened, and a directory is listed once and in order.     *)
PathsExact == NameExact /\ ListedOnce /\ (part = "clean" => CleanAgrees)
=============================================================================
