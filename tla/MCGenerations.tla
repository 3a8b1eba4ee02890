---------------------------- MODULE MCGenerations ----------------------------
(* Instances of Generations for TLC. *)
EXTENDS Generations, TLC

CONSTANTS p1, p2, p3

ThreePlugins == <<p1, p2, p3>>

Symmetry == Permutations(Ids)
=============================================================================
