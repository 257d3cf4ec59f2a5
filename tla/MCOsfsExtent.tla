---------------------------- MODULE MCOsfsExtent ----------------------------
(* The last of the names is so long that in the directory's first entry it already
   reaches past the directory's block.  The descriptors are interchangeable. *)
EXTENDS OsfsExtent, TLC

MCReach == [n \in Names |-> IF n = 13 THEN 5 ELSE 1]

Descriptors == Permutations(Fds)
=============================================================================
