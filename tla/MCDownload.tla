----------------------------- MODULE MCDownload -----------------------------
(* Instances of Download for TLC.  Symmetry is not used: the runs check    *)
(* liveness.                                                               *)
EXTENDS Download
=============================================================================
