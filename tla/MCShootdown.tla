---------------------------- MODULE MCShootdown ----------------------------
(* An instance of Shootdown for TLC. *)
EXTENDS Shootdown, TLC
CONSTANTS c0, c1

\* each CPU disarms its own entry
Ids == c0 :> 0 @@ c1 :> 1
============================================================================
