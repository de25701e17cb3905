---------------------------- MODULE MC_SharedRpc ----------------------------
(* Small instances of SharedRpc for TLC. *)
EXTENDS SharedRpc, TLC

CONSTANTS t1, t2

Threads  == {t1, t2}
Symmetry == Permutations(Threads)
=============================================================================
