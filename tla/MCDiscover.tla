----------------------------- MODULE MCDiscover -----------------------------
(* Instances of Discover for TLC. *)
EXTENDS Discover
=============================================================================
