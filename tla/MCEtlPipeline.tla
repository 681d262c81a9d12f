--------------------------- MODULE MCEtlPipeline ---------------------------
(* Instances of EtlPipeline for TLC. *)
EXTENDS EtlPipeline, TLC

RunSymmetry == Permutations(Runs)
===========================================================================
