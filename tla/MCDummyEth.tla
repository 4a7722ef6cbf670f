----------------------------- MODULE MCDummyEth -----------------------------
(* Module DummyEth, with the symmetry of its devices, for TLC.             *)
EXTENDS DummyEth, TLC

DevSymmetry == Permutations(Dev)
=============================================================================
