-------------------------- MODULE MCBuiltinServer ---------------------------
(* BuiltinServer for TLC: corpus files are interchangeable. *)
EXTENDS BuiltinServer, TLC

FileSymmetry == Permutations(Paths) \cup Permutations(Exporters)
=============================================================================
