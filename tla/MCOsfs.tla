-------------------------------- MODULE MCOsfs --------------------------------
(* The descriptors are interchangeable. *)
EXTENDS Osfs, TLC

Interchangeable == Permutations(Fds)
=============================================================================
