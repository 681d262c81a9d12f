---------------------------- MODULE LiveDataset ----------------------------
(***************************************************************************)
(* What the ETL promises to the API's readers: at every moment the four    *)
(* live tables are the complete image of one upstream version, and they    *)
(* only ever move to the image of a version at least as recent.            *)
(***************************************************************************)
EXTENDS Naturals

CONSTANTS
  MaxVersion,   \* bound on upstream versions
  Image(_)      \* the live tables built from one version; Image(0) is empty

VARIABLES upstream, live
vars == <<upstream, live>>

Init == upstream = 1 /\ live = Image(0)

Change ==
  /\ upstream' \in upstream .. MaxVersion
  /\ UNCHANGED live

Publish ==
  \E v \in 0 .. upstream : \E w \in v .. upstream :
    /\ live = Image(v)
    /\ live' = Image(w)
    /\ UNCHANGED upstream

Next == Change \/ Publish

Spec == Init /\ [][Next]_vars
===========================================================================
