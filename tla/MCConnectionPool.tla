-------------------------- MODULE MCConnectionPool --------------------------
(* Instances of ConnectionPool for TLC: what requests may ask for. *)
EXTENDS ConnectionPool

Letter == [lower |-> 1, space |-> FALSE]
Accented == [lower |-> 2, space |-> FALSE]
Space == [lower |-> 1, space |-> TRUE]

Asks(kind, query) == [kind |-> kind, params |-> TRUE, query |-> query]

(* A request without a deadline, one with a deadline, and one that is      *)
(* refused before it needs a connection                                    *)
PoolInputs ==
  {Asks("title", <<>>), Asks("suggest", <<Letter, Letter>>), Asks("suggest", <<Letter>>)}

(* All queries of up to four characters *)
LengthInputs ==
  {Asks(kind, query) :
     kind \in {"search", "suggest"},
     query \in UNION {[1 .. n -> {Letter, Accented, Space}] : n \in 0 .. 4}}
===========================================================================
