-------------------------------- MODULE Rows --------------------------------
(***************************************************************************)
(* Rows of a table as sequences: the ORDER BY, WHERE and LIMIT of the      *)
(* queries in api/internal/etl, the NULL they sort and the categories they *)
(* compare.  Every definition has a value that can be reasoned about: no   *)
(* fold, no recursion.                                                     *)
(***************************************************************************)
EXTENDS Integers, Sequences, FiniteSets

Null == -1   \* \N, or a number that does not parse: NULL in the table

Actors == {"actor", "actress"}

(* The members of S by a strict order, given as the set of its pairs       *)
Arranged(S, before) ==
  [k \in 1 .. Cardinality(S) |->
     CHOOSE x \in S : Cardinality({y \in S : <<y, x>> \in before}) = k - 1]

(* A set of numbers in ascending order *)
Ascending(S) == Arranged(S, {p \in S \X S : p[1] < p[2]})

(* WHERE: the elements of s at some of its places, in their order          *)
Picked(s, places) ==
  LET order == Ascending(places)
  IN  [k \in 1 .. Cardinality(places) |-> s[order[k]]]

(* LIMIT: the first n elements *)
Capped(s, n) == SubSeq(s, 1, IF Len(s) < n THEN Len(s) ELSE n)

(* The places of s by an order of places, equals as they were              *)
Stably(s, before) ==
  {p \in (DOMAIN s) \X (DOMAIN s) :
     p \in before \/ (<<p[2], p[1]>> \notin before /\ p[1] < p[2])}

(* ORDER BY: the elements of s by an order of its places, or by one of its *)
(* elements.                                                               *)
Sorted(s, before) ==
  LET order == Arranged(DOMAIN s, Stably(s, before))
  IN  [k \in DOMAIN s |-> s[order[k]]]
StableSort(s, Less(_, _)) ==
  Sorted(s, {p \in (DOMAIN s) \X (DOMAIN s) : Less(s[p[1]], s[p[2]])})

(* NULLS LAST, which is what PostgreSQL does by default *)
NullsLast(a, b) == a # Null /\ (b = Null \/ a < b)
=============================================================================
