----------------------------- MODULE MCPipeline -----------------------------
(* Instances of Pipeline for TLC. *)
EXTENDS Pipeline

MCAll == [1 .. 3 -> {"gen", "yes", "cat", "head", "fail"}]
=============================================================================
