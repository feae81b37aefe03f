-------------------------- MODULE MCHybridServing --------------------------
(* Instances of the serving layer: which of the two kinds of replicas there *)
(* are, and what the trainer uses the hybrid ones for, is up to the         *)
(* configuration.                                                           *)
EXTENDS HybridServing, TLC

Symmetry == Permutations(Requests)
=============================================================================
