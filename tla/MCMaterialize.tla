--------------------------- MODULE MCMaterialize ---------------------------
(* An instance of Materialize for TLC: two contents of every file, in all  *)
(* combinations, and data directories with one file that is empty, has no  *)
(* rows, no header, or a header that does not fit.                         *)
EXTENDS Materialize

Basic(t, type, year, primary, original) ==
  Line([t |-> t, type |-> type, year |-> year, primary |-> primary, original |-> original])
Rating(t, votes) == Line([t |-> t, votes |-> votes])
Aka(t, ordering, title, region, display, original) ==
  Line([t |-> t, ordering |-> ordering, title |-> title, region |-> region,
        display |-> display, original |-> original])
Principal(t, ordering, n, cat, characters) ==
  Line([t |-> t, ordering |-> ordering, n |-> n, cat |-> cat, characters |-> characters])
Crew(t, directors, writers) == Line([t |-> t, directors |-> directors, writers |-> writers])
Episode(t, parent, season, number) ==
  Line([t |-> t, parent |-> parent, season |-> season, number |-> number])
Name(n) == Line([n |-> n, name |-> "name"])

A == <<1, "A">>
a == <<1, "a">>   \* A in another case
B == <<2, "B">>
C == <<3, "C">>
c == <<3, "C.">>
Blanks == <<0, "">>

(* Title 1 is a series with just enough votes or one too few, 2 a film of  *)
(* the year, 3 a film whose votes decide, 4 an episode that is staged and  *)
(* not chosen, 5 of a type that is not loaded, 6 an episode of the year.   *)
BasicsFiles == {
  <<Header, Basic(1, "tvseries", 1, A, B), Basic(3, "movie", Null, Blanks, Blanks),
    Basic(2, "movie", 2, B, B), Basic(4, "tvepisode", 1, C, C),
    Basic(6, "tvepisode", 2, C, C), Basic(5, "short", 2, A, A)>>,
  <<Blank, Header, Basic(6, "tvepisode", 2, A, A), Basic(3, "movie", 1, C, Blanks), Blank,
    Basic(4, "tvepisode", Null, B, B), Basic(1, "tvminiseries", 2, a, A)>>}

RatingsFiles == {
  <<Header, Rating(1, 4), Rating(3, 4), Rating(4, Null), Rating(5, 9)>>,
  <<Header, Rating(3, 6), Rating(9, 9), Rating(1, 5), Rating(6, 1), Blank>>}

AkasFiles == {
  <<Header, Aka(1, Null, C, "US", FALSE, FALSE), Aka(1, 1, c, "US", FALSE, FALSE),
    Aka(1, 2, a, "US", FALSE, TRUE), Aka(3, 1, B, "NA", FALSE, FALSE),
    Aka(3, 2, Blanks, "NA", FALSE, FALSE)>>,
  <<Header, Aka(1, 1, C, "US", FALSE, FALSE), Aka(1, 3, c, "US", TRUE, FALSE),
    Aka(1, 2, C, "US", FALSE, TRUE), Aka(1, 4, Blanks, "NA", FALSE, FALSE)>>}

PrincipalsFiles == {
  <<Header, Principal(1, 1, 1, "actor", <<<<A, C>>>>), Principal(1, 2, 2, "actress", <<>>),
    Principal(1, 3, 1, "actor", <<<<c>>, <<B, a, Blanks>>>>), Principal(1, 4, 3, "actor", <<>>),
    Principal(1, 5, 2, "producer", <<>>), Principal(1, 6, 4, "director", <<>>)>>,
  <<Header, Principal(3, Null, 2, "actor", <<>>), Principal(3, 1, 1, "actress", <<<<B>>>>),
    Principal(3, 2, 1, "actor", <<<<c>>, <<C>>>>), Principal(1, 7, 3, "producer", <<>>),
    Principal(1, 6, 1, "co_producer", <<>>)>>}

CrewFiles == {
  <<Header, Crew(1, <<4, 1>>, <<5, 4>>), Crew(2, <<>>, <<1>>)>>,
  <<Header, Crew(3, <<2>>, <<>>), Crew(4, <<5>>, <<5>>)>>}

EpisodeFiles == {
  <<Header, Episode(6, 1, Null, Null), Episode(8, 1, 1, 2), Episode(4, 1, 1, 1),
    Episode(9, 3, 1, 1)>>,
  <<Header, Episode(4, 1, Null, 1), Episode(6, 1, 0, 1)>>}

NamesFiles == {
  <<Header, Name(1), Name(2), Name(9), Name(4), Name(5)>>,
  <<Header, Name(3), Name(1), Name(5), Name(6)>>}


Regular ==
  {[basics |-> bs, ratings |-> rs, akas |-> as, principals |-> ps, crew |-> cs,
    episode |-> es, names |-> ns] :
     bs \in BasicsFiles, rs \in RatingsFiles, as \in AkasFiles, ps \in PrincipalsFiles,
     cs \in CrewFiles, es \in EpisodeFiles, ns \in NamesFiles}
Usual == CHOOSE data \in Regular : TRUE   \* any will do

Odd(f) ==
  {[Usual EXCEPT ![f] = lines] :
     lines \in {<<>>, <<Blank>>, <<Header>>, <<BadHeader>>, Tail(Usual[f])}}

MCInputs == Regular \cup UNION {Odd(f) : f \in Files}
===========================================================================
