----------------------------- MODULE Projection -----------------------------
(***************************************************************************)
(* From staging rows to the document of a title: the queries of            *)
(* build_fetch.go, the limits of fetchBatchData in build_runtime.go, and   *)
(* the projection of build_projection.go with its helpers in utils.go, all *)
(* under api/internal/etl.  Pure operators; Materialize runs them.         *)
(*                                                                         *)
(* Names of things are pairs <<key, spelling>>: titles with the same key   *)
(* are equal up to case and surrounding space, character names with the    *)
(* same key are equal up to case and punctuation.  Key 0 is a title that   *)
(* is blank and a character name without any of a-z and 0-9.               *)
(***************************************************************************)
EXTENDS Rows, SequencesExt

CONSTANTS
  MaxActors,     \* ETL_MAX_ACTORS
  MaxProducers,  \* ETL_MAX_PRODUCERS
  MaxDirectors,  \* ETL_MAX_DIRECTORS
  MaxWriters     \* ETL_MAX_WRITERS

ASSUME LimitsAssumption ==
  {MaxActors, MaxProducers, MaxDirectors, MaxWriters} \subseteq Nat

Names == Nat \X STRING
Key(name) == name[1]

(* The rows of a table that belong to title t *)
OfTitle(rows, t) == Picked(rows, {i \in DOMAIN rows : rows[i].t = t})

OrderedByOrdering(s) == StableSort(s, LAMBDA a, b : NullsLast(a.ordering, b.ordering))

---------------------------------------------------------------------------
(* fetchAkas: the akas of title t by region, sorted for display.           *)

Region(row) == IF row.region = "NA" THEN "GLOBAL" ELSE row.region

AkaBefore_Bug(a, b) ==   \* an unknown ordering, kept as 0, comes first
  \/ a.display /\ ~b.display
  \/ /\ a.display = b.display
     /\ \/ a.original /\ ~b.original
        \/ a.original = b.original /\ a.ordering < b.ordering

(* akaTypeRank, the original title, akaOrderingOrMax, the title itself *)
AkaBefore(a, b) ==
  \/ a.display /\ ~b.display
  \/ /\ a.display = b.display
     /\ \/ a.original /\ ~b.original
        \/ /\ a.original = b.original
           /\ \/ NullsLast(a.ordering, b.ordering)
              \/ a.ordering = b.ordering /\ Key(a.title) < Key(b.title)

FetchAkas(akas, t) ==
  LET rows == OrderedByOrdering(OfTitle(akas, t))
  IN  [region \in {Region(row) : row \in ToSet(rows)} |->
         StableSort(Picked(rows, {i \in DOMAIN rows : Region(rows[i]) = region}), AkaBefore)]

(* sameTitle: a blank title equals nothing *)
SameTitle(a, b) == Key(a) # 0 /\ Key(a) = Key(b)

(* filterAkas: akas that repeat one of the title's own titles are dropped, *)
(* and regions left without any.                                           *)
FilterAkas(akas, basic) ==
  LET differs(aka) == ~SameTitle(aka.title, basic.primary)
                        /\ ~SameTitle(aka.title, basic.original)
      kept == [region \in DOMAIN akas |->
                 Picked(akas[region], {i \in DOMAIN akas[region] : differs(akas[region][i])})]
  IN  IF Key(basic.primary) = 0 /\ Key(basic.original) = 0 THEN akas
      ELSE [region \in {r \in DOMAIN akas : kept[r] # <<>>} |-> kept[region]]

---------------------------------------------------------------------------
(* fetchPrincipals and the split, limits and merging of cast members.      *)

IsActor(row) == row.cat \in Actors

(* row_number() within the actors or within the producers of a title       *)
Billing(principals, t, actors) ==
  OrderedByOrdering(Picked(principals, {i \in DOMAIN principals :
                             principals[i].t = t /\ IsActor(principals[i]) = actors}))
RankedActors(principals, t) == Capped(Billing(principals, t, TRUE), MaxActors)
RankedProducers(principals, t) == Capped(Billing(principals, t, FALSE), MaxProducers)

(* dedupeCharacters: the first spelling of each name, in order *)
DedupeCharacters(names) ==
  LET out[k \in 0 .. Len(names)] ==
        IF k = 0 THEN <<>>
        ELSE IF Key(names[k]) \in {0} \cup {Key(o) : o \in ToSet(out[k - 1])} THEN out[k - 1]
        ELSE Append(out[k - 1], names[k])
  IN  out[Len(names)]

(* normalizeCharacters: every entry split at its commas *)
NormalizeCharacters(entries) == DedupeCharacters(FlattenSeq(entries))

MergeDedupe(base, add) ==
  IF add = <<>> THEN base
  ELSE IF base = <<>> THEN add
  ELSE DedupeCharacters(base \o add)

NameOf(names, n) == IF n \in DOMAIN names THEN names[n] ELSE ""

AddCastRow_Bug(names, cast, row) ==   \* one entry per person, whatever the category
  LET chars == NormalizeCharacters(row.characters)
      known == {i \in DOMAIN cast : cast[i].n = row.n}
  IN  IF known = {}
      THEN Append(cast, [n |-> row.n, cat |-> row.cat, name |-> NameOf(names, row.n),
                         characters |-> chars])
      ELSE [cast EXCEPT ![CHOOSE i \in known : TRUE].characters = MergeDedupe(@, chars)]

(* One row of buildCast: a person has one entry per category, which        *)
(* collects the characters of all rows.                                    *)
AddCastRow(names, cast, row) ==
  LET chars == NormalizeCharacters(row.characters)
      known == {i \in DOMAIN cast : cast[i].n = row.n /\ cast[i].cat = row.cat}
  IN  IF known = {}
      THEN Append(cast, [n |-> row.n, cat |-> row.cat, name |-> NameOf(names, row.n),
                         characters |-> chars])
      ELSE [cast EXCEPT ![CHOOSE i \in known : TRUE].characters = MergeDedupe(@, chars)]

BuildCast(rows, names) ==
  LET cast[k \in 0 .. Len(rows)] ==
        IF k = 0 THEN <<>> ELSE AddCastRow(names, cast[k - 1], rows[k])
  IN  cast[Len(rows)]

BuildProducers(rows, names) ==
  [i \in DOMAIN rows |->
     [n |-> rows[i].n, cat |-> rows[i].cat, name |-> NameOf(names, rows[i].n)]]

BuildCrewMembers(nconsts, names) ==
  [i \in DOMAIN nconsts |-> [n |-> nconsts[i], name |-> NameOf(names, nconsts[i])]]

(* fetchCrew and its limits: the last row of a title counts *)
CrewOf(crew, t) ==
  LET rows == OfTitle(crew, t)
  IN  IF rows = <<>> THEN [directors |-> <<>>, writers |-> <<>>]
      ELSE [directors |-> Capped(Last(rows).directors, MaxDirectors),
            writers |-> Capped(Last(rows).writers, MaxWriters)]

---------------------------------------------------------------------------
(* fetchEpisodes: the episodes of series t, by season.                     *)

SeasonKey_Bug(row) == IF row.season = Null THEN 0 ELSE row.season   \* the Go zero value

(* seasonKeyFromPtr: season 0 is not the unknown season *)
SeasonKey(row) == row.season

EpisodeBefore(a, b) ==
  \/ NullsLast(a.season, b.season)
  \/ /\ a.season = b.season
     /\ \/ NullsLast(a.number, b.number)
        \/ a.number = b.number /\ a.t < b.t

FetchEpisodes(enriched, t) ==
  LET own == Picked(enriched, {i \in DOMAIN enriched : enriched[i].parent = t})
      rows == StableSort(own, EpisodeBefore)
      keys == {SeasonKey(row) : row \in ToSet(rows)}
      seasons == Arranged(keys, {p \in keys \X keys : NullsLast(p[1], p[2])})
  IN  [k \in DOMAIN seasons |->
         [season |-> seasons[k],
          episodes |-> Picked(rows, {i \in DOMAIN rows : SeasonKey(rows[i]) = seasons[k]})]]

---------------------------------------------------------------------------
(* fetchBatchData for the titles of one batch, then titlesNextCopySource:  *)
(* the document of each title, and the names it shows.                     *)

BasicOf(basics, t) == Last(OfTitle(basics, t))
VotesOf(ratings, t) ==
  LET rows == OfTitle(ratings, t)
  IN  IF rows = <<>> THEN Null ELSE Last(rows).votes

People(stg, t) ==
  {row.n : row \in ToSet(RankedActors(stg.principals, t))
                     \cup ToSet(RankedProducers(stg.principals, t))}
    \cup ToSet(CrewOf(stg.crew, t).directors)
    \cup ToSet(CrewOf(stg.crew, t).writers)

(* fetchNames: the names of everyone the batch shows *)
FetchNames(stg, titles) ==
  LET wanted == UNION {People(stg, t) : t \in titles}
      rows == Picked(stg.names, {i \in DOMAIN stg.names : stg.names[i].n \in wanted})
  IN  [n \in {row.n : row \in ToSet(rows)} |->
         Last(Picked(rows, {i \in DOMAIN rows : rows[i].n = n})).name]

Document(stg, enriched, names, t) ==
  LET basic == BasicOf(stg.basics, t)
      crew == CrewOf(stg.crew, t)
  IN  [t |-> t, type |-> basic.type, votes |-> VotesOf(stg.ratings, t),
       akas |-> FilterAkas(FetchAkas(stg.akas, t), basic),
       cast |-> BuildCast(RankedActors(stg.principals, t), names),
       producers |-> BuildProducers(RankedProducers(stg.principals, t), names),
       directors |-> BuildCrewMembers(crew.directors, names),
       writers |-> BuildCrewMembers(crew.writers, names),
       seasons |-> IF basic.type \in {"tvseries", "tvminiseries"}
                   THEN FetchEpisodes(enriched, t) ELSE <<>>]

AkasIn(doc) == UNION {ToSet(doc.akas[region]) : region \in DOMAIN doc.akas}

(* The search row of a title that is no episode.  Its aka_titles are made  *)
(* by dedupeStrings in the order Go ranges over a map: a set here.         *)
SearchRow(doc) ==
  [t |-> doc.t, type |-> doc.type,
   akas |-> {aka.title : aka \in AkasIn(doc)} \ {<<0, "">>}]
===========================================================================
