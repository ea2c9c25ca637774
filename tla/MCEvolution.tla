----------------------------- MODULE MCEvolution ------------------------------
(* Instances of the evolution commands, and mutants of their definitions.  *)
EXTENDS EvolutionLane
=============================================================================
