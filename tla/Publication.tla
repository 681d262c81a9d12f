---------------------------- MODULE Publication ----------------------------
(***************************************************************************)
(* What rebuilding promises, without schedulers, locks, downloads or       *)
(* faults: three manifests that only stay or move in step.  Upstream gets  *)
(* newer, the live dataset follows without ever overtaking it or going     *)
(* back, and what is recorded as rebuilt never claims more than the live   *)
(* dataset holds.                                                          *)
(***************************************************************************)
EXTENDS Naturals

CONSTANTS NFiles, MaxVersion

Files == 1 .. NFiles
Manifest == [Files -> 0 .. MaxVersion]
NotNewer(left, right) == \A f \in Files : left[f] <= right[f]

VARIABLES upstream, published, source
vars == <<upstream, published, source>>

Init ==
  /\ upstream \in Manifest
  /\ published \in Manifest
  /\ source \in Manifest
  /\ NotNewer(source, published)
  /\ NotNewer(published, upstream)

Change ==
  /\ upstream' \in Manifest
  /\ NotNewer(upstream, upstream')
  /\ UNCHANGED <<published, source>>

Replace ==
  /\ published' \in Manifest
  /\ NotNewer(published, published')
  /\ NotNewer(published', upstream)
  /\ UNCHANGED <<upstream, source>>

Record ==
  /\ source' \in Manifest
  /\ NotNewer(source', published)
  /\ UNCHANGED <<upstream, published>>

Next == Change \/ Replace \/ Record

Spec == Init /\ [][Next]_vars
===========================================================================
