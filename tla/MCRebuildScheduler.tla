------------------------ MODULE MCRebuildScheduler ------------------------
(* Instances of RebuildScheduler for TLC. *)
EXTENDS RebuildScheduler, TLC

(* Instances are interchangeable; used by the runs without liveness only. *)
InstanceSymmetry == Permutations(Instances)
===========================================================================
