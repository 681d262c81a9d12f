---------------------------- MODULE Materialize ----------------------------
(***************************************************************************)
(* What one ETL run makes of its data directory: the staging load of       *)
(* TsvLoad, the scripts that derive tables from staging, and the batch     *)
(* build of build_runtime.go with the documents of Projection, from the    *)
(* lines of the seven files to the rows of titles_next and                 *)
(* title_search_next.                                                      *)
(*                                                                         *)
(* EtlPipeline follows whole rows through overlapping runs and crashes;    *)
(* here one run is alone and the content of the rows is what matters.      *)
(***************************************************************************)
EXTENDS TsvLoad, Projection

CONSTANT BatchSize   \* ETL_BATCH_SIZE

(* Rows of a file with the same identifier are the same row. *)
Unique(lines, Id(_)) ==
  \A i, j \in RowLines(lines) : Id(lines[i].row) = Id(lines[j].row) => i = j

ASSUME BatchAssumption == BatchSize \in Nat \ {0}

(* What IMDb documents of its files: only a first line can be a header,    *)
(* tconst identifies a title, (tconst, ordering) an aka or a principal.    *)
(* Titles are numbered from 1: 0 is the empty tconst a cursor starts from. *)
ASSUME InputsAssumption ==
  \A data \in Inputs :
    /\ DOMAIN data = Files
    /\ \A f \in Files :
         /\ data[f] \in Seq(ToSet(data[f]))
         /\ \A i \in RowLines(data[f]) : data[f][i].kind = "row"
    /\ \A f \in {"basics", "ratings", "crew", "episode"} :
         Unique(data[f], LAMBDA row : row.t)
    /\ \A f \in {"akas", "principals"} :
         Unique(data[f], LAMBDA row : <<row.t, row.ordering>>)
    /\ Unique(data["names"], LAMBDA row : row.n)
    /\ \A i \in RowLines(data["basics"]) : data["basics"][i].row.t \in Nat \ {0}

(* The types of the columns: numbers or NULL, truth values, lists of       *)
(* names. The akas of a title are numbered from 1: akaOrderingOrMax takes  *)
(* 0 for an unknown number.                                                *)
ASSUME ColumnsAssumption ==
  \A data \in Inputs :
    /\ \A i \in RowLines(data["akas"]) :
         LET row == data["akas"][i].row
         IN  /\ row.ordering \in (Nat \ {0}) \cup {Null} /\ row.title \in Names
             /\ row.display \in BOOLEAN /\ row.original \in BOOLEAN
    /\ \A i \in RowLines(data["principals"]) :
         LET row == data["principals"][i].row
         IN  row.ordering \in Nat \cup {Null} /\ row.characters \in Seq(Seq(Names))
    /\ \A i \in RowLines(data["crew"]) :
         LET row == data["crew"][i].row
         IN  /\ row.directors \in Seq(ToSet(row.directors))
             /\ row.writers \in Seq(ToSet(row.writers))
    /\ \A i \in RowLines(data["episode"]) :
         LET row == data["episode"][i].row
         IN  row.t \in Nat /\ {row.season, row.number} \subseteq Nat \cup {Null}

VARIABLES
  enriched,    \* stg_episode_enriched
  filter,      \* title_filter
  last,        \* the keyset cursor of buildTitlesInBatches
  titlesNext,  \* titles_next: documents, in the order they were copied
  searchNext   \* title_search_next

built == <<last, titlesNext, searchNext>>
vars == <<loadVars, enriched, filter, built>>

Init ==
  /\ LoadInit
  /\ enriched = <<>>
  /\ filter = {}
  /\ last = 0
  /\ titlesNext = <<>>
  /\ searchNext = <<>>

Goto(next) == stage' = next /\ UNCHANGED <<input, reader, stg>>

Load == LoadNext /\ UNCHANGED <<enriched, filter, built>>

(* episodes_enriched.sql: episodes whose own title is staged *)
EpisodesEnriched ==
  LET staged == {row.t : row \in ToSet(stg.basics)}
      known == Picked(stg.episode, {i \in DOMAIN stg.episode : stg.episode[i].t \in staged})
  IN  [i \in DOMAIN known |->
         [parent |-> known[i].parent, t |-> known[i].t,
          season |-> known[i].season, number |-> known[i].number,
          title |-> BasicOf(stg.basics, known[i].t).primary,
          votes |-> VotesOf(stg.ratings, known[i].t)]]

EnrichEpisodes ==
  /\ stage = "loaded"
  /\ enriched' = EpisodesEnriched
  /\ Goto("enriched")
  /\ UNCHANGED <<filter, built>>

FilterTitles_Bug ==   \* the script and the reader disagree about the limit
  /\ stage = "enriched"
  /\ filter' =
       {row.t : row \in {b \in ToSet(stg.basics) : b.year = DatasetYear}}
         \cup {row.t : row \in {r \in ToSet(stg.ratings) : r.votes > MinNumVotes}}
  /\ Goto("filtered")
  /\ UNCHANGED <<enriched, built>>

(* filter_titles.sql: titles of the dataset's year, and staged titles with *)
(* enough votes.                                                           *)
FilterTitles ==
  /\ stage = "enriched"
  /\ filter' =
       {row.t : row \in {b \in ToSet(stg.basics) : b.year = DatasetYear}}
         \cup ({row.t : row \in {r \in ToSet(stg.ratings) : r.votes >= MinNumVotes}}
                 \cap {row.t : row \in ToSet(stg.basics)})
  /\ Goto("filtered")
  /\ UNCHANGED <<enriched, built>>

(* create_next.sql *)
CreateNext ==
  /\ stage = "filtered"
  /\ titlesNext' = <<>>
  /\ searchNext' = <<>>
  /\ Goto("build")
  /\ UNCHANGED <<enriched, filter, last>>

(* fetchTconstBatch *)
Page == Capped(Ascending({t \in filter : t > last}), BatchSize)

(* buildAndInsertBatch: the titles of the page that staging knows *)
BuildBatch ==
  /\ stage = "build"
  /\ Page # <<>>
  /\ LET staged == {row.t : row \in ToSet(stg.basics)}
         known == Picked(Page, {i \in DOMAIN Page : Page[i] \in staged})
         names == FetchNames(stg, ToSet(Page))
         docs == [i \in DOMAIN known |-> Document(stg, enriched, names, known[i])]
         searched == Picked(docs, {i \in DOMAIN docs : docs[i].type # "tvepisode"})
     IN  /\ titlesNext' = titlesNext \o docs
         /\ searchNext' = searchNext \o [i \in DOMAIN searched |-> SearchRow(searched[i])]
  /\ last' = Last(Page)
  /\ Goto("build")
  /\ UNCHANGED <<enriched, filter>>

NoMoreTitles ==
  /\ stage = "build"
  /\ Page = <<>>
  /\ Goto("built")
  /\ UNCHANGED <<enriched, filter, built>>

(* A script or a batch fails and runETL returns its error. *)
StatementFails ==
  /\ stage \notin {"copy", "built", "failed"}
  /\ Goto("failed")
  /\ UNCHANGED <<enriched, filter, built>>

Next ==
  \/ Load
  \/ EnrichEpisodes
  \/ FilterTitles
  \/ CreateNext
  \/ BuildBatch
  \/ NoMoreTitles
  \/ StatementFails

(* One goroutine loads the files; it goes on reading while it can.         *)
Spec == Init /\ [][Next]_vars /\ WF_vars(Load)

---------------------------------------------------------------------------
(* The reference: what the files ask for, read as sets of rows, without    *)
(* batches, allowlists, staging or cursors.                                *)

RowsOf(f) == {files[f][i].row : i \in RowLines(files[f])}

Typed == {row.t : row \in {b \in RowsOf("basics") : b.type \in KeptTypes}}

Chosen ==
  {t \in Typed : \/ \E b \in RowsOf("basics") : b.t = t /\ b.year = DatasetYear
                 \/ \E r \in RowsOf("ratings") : r.t = t /\ r.votes >= MinNumVotes}

Wanted(f, row) ==   \* of every file but names
  CASE f = "basics" -> row.type \in KeptTypes
    [] f = "ratings" -> row.t \in Typed
    [] f \in {"akas", "crew"} -> row.t \in Chosen
    [] f = "principals" -> row.t \in Chosen /\ row.cat \in KeptCategories
    [] f = "episode" -> row.parent \in Chosen

Credited ==
  {p.n : p \in {row \in RowsOf("principals") : Wanted("principals", row)}}
    \cup UNION {ToSet(c.directors) \cup ToSet(c.writers) :
                  c \in {row \in RowsOf("crew") : Wanted("crew", row)}}

Selected(f, row) == IF f = "names" THEN row.n \in Credited ELSE Wanted(f, row)

(* The wanted rows among some lines of file f, in their order *)
Selection(f, lines) ==
  LET taken == Picked(lines, {i \in RowLines(lines) : Selected(f, lines[i].row)})
  IN  [k \in DOMAIN taken |-> taken[k].row]

(* The principals of title t in some categories, by billing *)
Billed(t, categories) ==
  LET rows == {row \in RowsOf("principals") : row.t = t /\ row.cat \in categories}
  IN  Arranged(rows, {p \in rows \X rows : NullsLast(p[1].ordering, p[2].ordering)})

NameFor(n) ==
  LET rows == {row \in RowsOf("names") : row.n = n}
  IN  IF rows = {} THEN "" ELSE (CHOOSE row \in rows : TRUE).name

---------------------------------------------------------------------------
(* Each staging table holds exactly the rows of its file that later stages *)
(* need, in the order of the file, each once: no row is lost or repeated   *)
(* at the boundary of a CopyFrom, at a last line with or without a         *)
(* newline, at an empty line or between two files, and the allowlists let  *)
(* through what the chosen titles need and nothing else.                   *)
StagedIsSelection ==
  \A i \in DOMAIN LoadOrder :
    LET f == LoadOrder[i]
    IN  \/ stage = "copy" /\ i = at
             /\ stg[f] \o batch = Selection(f, SubSeq(files[f], 1, pos))
        \/ stage = "failed" /\ i = at /\ IsPrefix(stg[f], Selection(f, files[f]))
        \/ (i < at \/ stage \notin {"copy", "failed"}) /\ stg[f] = Selection(f, files[f])
        \/ i > at /\ stg[f] = <<>>

(* The batch build makes one document for each title the files ask for and *)
(* no other, in order, and one search row for each that is no episode: the *)
(* filter script, which repeats in SQL what the allowlists did in Go,      *)
(* comes to the same choice, and batches neither skip nor repeat a title.  *)
WantedAreBuilt ==
  stage \in {"build", "built"} =>
    LET done == Ascending({t \in Chosen : stage = "built" \/ t <= last})
        searched == Picked(titlesNext,
                           {i \in DOMAIN titlesNext : titlesNext[i].type # "tvepisode"})
    IN  /\ filter = Chosen
        /\ [i \in DOMAIN titlesNext |-> titlesNext[i].t] = done
        /\ [i \in DOMAIN searchNext |-> searchNext[i].t]
             = [i \in DOMAIN searched |-> searched[i].t]

(* The cast of a document: the first MaxActors billings, one entry for     *)
(* each person and category at the place of the first of them, with the    *)
(* characters of all of them, each name once, in its first spelling.       *)
CastMatches(doc) ==
  LET billed == Capped(Billed(doc.t, Actors), MaxActors)
      role(row) == <<row.n, row.cat>>
      firsts == {i \in DOMAIN billed : \A j \in 1 .. i - 1 : role(billed[j]) # role(billed[i])}
      said(r) == FlattenSeq([i \in DOMAIN billed |->
                   IF role(billed[i]) = r THEN FlattenSeq(billed[i].characters) ELSE <<>>])
      spelled(r) == {i \in DOMAIN said(r) :
                       /\ Key(said(r)[i]) # 0
                       /\ \A j \in 1 .. i - 1 : Key(said(r)[j]) # Key(said(r)[i])}
      entries == Picked(billed, firsts)
  IN  /\ [i \in DOMAIN doc.cast |-> role(doc.cast[i])]
           = [i \in DOMAIN entries |-> role(entries[i])]
      /\ \A i \in DOMAIN doc.cast :
           LET entry == doc.cast[i]
           IN  /\ entry.name = NameFor(entry.n)
               /\ entry.characters = Picked(said(role(entry)), spelled(role(entry)))

(* Every document credits who the files credit, within the limits, and     *)
(* under the name the last of the seven files gives: the allowlist of      *)
(* names, filled while earlier files were read, misses nobody, and rows    *)
(* that bill a person twice are merged.                                    *)
CreditsMatch ==
  \A doc \in ToSet(titlesNext) :
    LET billed == Capped(Billed(doc.t, Producers), MaxProducers)
        crew == {row \in RowsOf("crew") : row.t = doc.t}
        Named(ns) == [i \in DOMAIN ns |-> [n |-> ns[i], name |-> NameFor(ns[i])]]
    IN  /\ CastMatches(doc)
        /\ doc.producers =
             [i \in DOMAIN billed |->
                [n |-> billed[i].n, cat |-> billed[i].cat, name |-> NameFor(billed[i].n)]]
        /\ IF crew = {} THEN doc.directors = <<>> /\ doc.writers = <<>>
           ELSE \E row \in crew :
                  /\ doc.directors = Named(Capped(row.directors, MaxDirectors))
                  /\ doc.writers = Named(Capped(row.writers, MaxWriters))

(* A document lists each aka that differs from the title's own names once, *)
(* under its region, display titles first, then originals, then by the     *)
(* file's ordering with unknown ones last; the search row finds the title  *)
(* by exactly these akas.                                                  *)
AkasMatch ==
  /\ \A doc \in ToSet(titlesNext) :
       LET basic == CHOOSE b \in RowsOf("basics") : b.t = doc.t
           shown == {row \in RowsOf("akas") :
                       /\ row.t = doc.t
                       /\ Key(row.title) \notin {Key(basic.primary), Key(basic.original)} \ {0}}
           Rank(aka) == (IF aka.display THEN 0 ELSE 2) + (IF aka.original THEN 0 ELSE 1)
       IN  /\ DOMAIN doc.akas = {Region(aka) : aka \in shown}
           /\ \A region \in DOMAIN doc.akas :
                LET list == doc.akas[region]
                IN  /\ ToSet(list) = {aka \in shown : Region(aka) = region}
                    /\ \A i, j \in DOMAIN list : i < j =>
                         \/ Rank(list[i]) < Rank(list[j])
                         \/ /\ Rank(list[i]) = Rank(list[j])
                            /\ NullsLast(list[i].ordering, list[j].ordering)
           /\ \A row \in ToSet(searchNext) :
                row.t = doc.t => row.akas = {aka.title : aka \in shown} \ {<<0, "">>}

(* A series lists every episode the files give it, and whose own title     *)
(* they know, once, under its season; seasons are numbered upwards, season *)
(* 0 before season 1, and unknown seasons share one entry at the end.      *)
SeasonsMatch ==
  \A doc \in ToSet(titlesNext) :
    LET own == IF doc.type \notin {"tvseries", "tvminiseries"} THEN {}
               ELSE {row \in RowsOf("episode") : row.parent = doc.t /\ row.t \in Typed}
        seasons == doc.seasons
    IN  /\ {s.season : s \in ToSet(seasons)} = {row.season : row \in own}
        /\ \A i, j \in DOMAIN seasons :
             i < j => NullsLast(seasons[i].season, seasons[j].season)
        /\ \A s \in ToSet(seasons) :
             LET here == {row \in own : row.season = s.season}
                 episodes == s.episodes
             IN  /\ {e.t : e \in ToSet(episodes)} = {row.t : row \in here}
                 /\ Len(episodes) = Cardinality(here)
                 /\ \A i, j \in DOMAIN episodes :
                      i < j => ~NullsLast(episodes[j].number, episodes[i].number)

(* Every load ends: the loop that copies a file notices its end, whatever  *)
(* its last line and however its rows fall into batches.                   *)
LoadEnds == <>(stage # "copy")
===========================================================================
