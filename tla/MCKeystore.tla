----------------------------- MODULE MCKeystore -----------------------------
(* Instances of Keystore for TLC.                                          *)
EXTENDS Keystore, TLC

Symmetry == Permutations(Generators) \cup Permutations(Requests)
=============================================================================
