-------------------------- MODULE MC_SharefsPool --------------------------
(* SharefsPool for TLC. *)
EXTENDS SharefsPool, TLC

CONSTANTS w1, w2, w3, s1

Workers  == {w1, w2, w3}
Symmetry == Permutations(Workers)
OnlyClient == {CL}
WithServer == {CL, s1}
=============================================================================
