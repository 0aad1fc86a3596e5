---------------------------- MODULE MCPartsStock ----------------------------
(* Small instances of PartsStock. *)
EXTENDS PartsStock, TLC

Symmetry == Permutations(Parts) \cup Permutations(Vehicles)
=============================================================================
