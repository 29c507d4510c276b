------------------------------- MODULE MCExt2 -------------------------------
(* The ext2 driver for TLC: file contents and the blocks they take (Ext2),   *)
(* and directories, inodes and names (Ext2Dir).  One of them moves in each   *)
(* behaviour.                                                                *)
EXTENDS Ext2, Ext2Dir, TLC

VARIABLE part

\* two files, of the two groups blocks are taken from
TwoGroups == 1 :> 0 @@ 2 :> 1

MCPaths == {<<"x">>, <<"y">>, <<"d", "x">>}

VolumeInit ==
  /\ Init /\ DirInit
  /\ part \in {"contents", "names"} /\ (part = "contents" => used = {1, 2})

VolumeNext ==
  /\ UNCHANGED part
  /\ \/ part = "contents" /\ Next /\ UNCHANGED dirVars
     \/ part = "names" /\ DirNext /\ UNCHANGED vars

VolumeSpec == VolumeInit /\ [][VolumeNext]_<<part, vars, dirVars>>

Symmetry == Permutations(Proc) \cup Permutations(Opener)
=============================================================================
