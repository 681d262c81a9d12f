---------------------------- MODULE EtlPipeline ----------------------------
(***************************************************************************)
(* One ETL run, script by script: runETL in api/internal/etl/runtime.go,   *)
(* the batch loaders it calls, and the SQL scripts under etl/.             *)
(*                                                                         *)
(* A run downloads one upstream version, reloads the staging tables from   *)
(* it in batches, filters the titles, builds titles_next and               *)
(* title_search_next batch by batch behind a keyset cursor, derives the    *)
(* discover tables from titles_next, swaps all next tables with the live   *)
(* ones in one transaction and truncates what it used.  Every script and   *)
(* every batch is a transaction of its own, and a run can stop between     *)
(* any two of them.  The scheduler runs it under the advisory lock         *)
(* (Locked); with the schedule disabled main runs it without (not Locked). *)
(*                                                                         *)
(* A row is <<title, version, run>>: which title it is about, which        *)
(* upstream version it was read from and which run loaded it.  The staging *)
(* tables are represented by stg_title_basics, the two discover tables by  *)
(* discover_core.                                                          *)
(***************************************************************************)
EXTENDS Naturals, FiniteSets, FiniteSetsExt

CONSTANTS
  Runs,             \* the processes that run the ETL
  NoRun,            \* the advisory lock is free
  NTitles,          \* bound: titles are 1 .. NTitles, in tconst order
  Episodes,         \* titles of type tvEpisode: not searched, not discovered
  CurrentYear,      \* titles of the dataset's year: filter_titles.sql keeps them,
  Obscure,          \* and leaves out those with fewer than MinNumVotes votes
  MaxVersion,       \* bound on upstream versions
  LoadBatchSize,    \* ETL_LOAD_BATCH_SIZE
  BatchSize,        \* ETL_BATCH_SIZE
  KeepStaging,      \* ETL_KEEP_STAGING
  SwapLockTimeout,  \* ETL_SWAP_LOCK_TIMEOUT, in whole seconds
  Locked            \* runs are made by the scheduler, under its lock

Titles == 1 .. NTitles
Versions == 1 .. MaxVersion

ASSUME RunsAssumption == NoRun \notin Runs
ASSUME SizesAssumption ==
  /\ NTitles \in Nat /\ MaxVersion \in Nat \ {0}
  /\ LoadBatchSize \in Nat \ {0} /\ BatchSize \in Nat \ {0}
  /\ Episodes \subseteq Titles /\ CurrentYear \subseteq Titles
  /\ Obscure \subseteq Titles
  /\ SwapLockTimeout \in Nat \ {0}
ASSUME PipelineSwitches == KeepStaging \in BOOLEAN /\ Locked \in BOOLEAN

(* The titles a version's files hold.  Versions differ: each lacks one of  *)
(* the titles, in turn, so that mixed tables can be told apart.            *)
Dataset(v) == Titles \ {((v - 1) % (NTitles + 1)) + 1}

(* The titles of T that filter_titles.sql selects *)
Kept(T) == T \ (Obscure \ CurrentYear)

VARIABLES
  upstream,  \* the version upstream offers now
  calm,      \* no more faults and upstream changes
  holder,    \* who holds the advisory lock
  pc,        \* the step each run is at
  version,   \* the version in the run's data directory
  loaded,    \* how far the run has read title.basics.tsv
  last,      \* the keyset cursor of buildTitlesInBatches
  page,      \* tconsts of the batch being built
  batch,     \* the staging rows fetched for it
  staging,   \* stg_title_basics
  filter,    \* title_filter
  next,      \* the _next tables
  live       \* titles, title_search, discover_core

locals == <<version, loaded, last, page, batch>>
vars == <<upstream, calm, holder, pc, locals, staging, filter, next, live>>

Row == Titles \X Versions \X Runs
Tables == [exists : BOOLEAN, titles : SUBSET Row, search : SUBSET Row, discover : SUBSET Row]
Stages == {"idle", "download", "staging", "load", "filter", "createNext", "build",
           "copy", "discover", "swap", "cleanup"}

Empty == [exists |-> TRUE, titles |-> {}, search |-> {}, discover |-> {}]
Absent == [Empty EXCEPT !.exists = FALSE]   \* DROPped or renamed away

TitleOf(row) == row[1]
TitlesOf(rows) == {TitleOf(row) : row \in rows}
NotEpisodes(rows) == {row \in rows : TitleOf(row) \notin Episodes}
Content(rows) == {<<row[1], row[2]>> : row \in rows}

(* The first n members of S in tconst order: ORDER BY tconst LIMIT n *)
FirstOf(S, n) == {t \in S : Cardinality({u \in S : u <= t}) <= n}

Init ==
  /\ upstream = 1
  /\ calm = FALSE
  /\ holder = NoRun
  /\ pc = [r \in Runs |-> "idle"]
  /\ version = [r \in Runs |-> 0]
  /\ loaded = [r \in Runs |-> 0]
  /\ last = [r \in Runs |-> 0]
  /\ page = [r \in Runs |-> {}]
  /\ batch = [r \in Runs |-> {}]
  /\ staging = {}
  /\ filter = {}
  /\ next = Absent
  /\ live = Empty

---------------------------------------------------------------------------
(* Operators whose name ends in _Bug are variants of the definition they   *)
(* precede, each the way one slip in the code would change it.  No action  *)
(* uses them: they show which property notices the slip.                   *)
---------------------------------------------------------------------------
Goto(r, stage) == pc' = [pc EXCEPT ![r] = stage]

(* runETL returns: its locals are gone and the caller's deferred unlock    *)
(* has run.                                                                *)
End(r) ==
  /\ Goto(r, "idle")
  /\ holder' = IF holder = r THEN NoRun ELSE holder
  /\ version' = [version EXCEPT ![r] = 0]
  /\ loaded' = [loaded EXCEPT ![r] = 0]
  /\ last' = [last EXCEPT ![r] = 0]
  /\ page' = [page EXCEPT ![r] = {}]
  /\ batch' = [batch EXCEPT ![r] = {}]

(* A cycle that needs a rebuild, or main with the schedule disabled *)
Start(r) ==
  /\ pc[r] = "idle"
  /\ IF Locked THEN holder = NoRun /\ holder' = r ELSE UNCHANGED holder
  /\ Goto(r, "download")
  /\ UNCHANGED <<upstream, calm, locals, staging, filter, next, live>>

(* downloadDatasets *)
Download(r) ==
  /\ pc[r] = "download"
  /\ version' = [version EXCEPT ![r] = upstream]
  /\ Goto(r, "staging")
  /\ UNCHANGED <<upstream, calm, holder, loaded, last, page, batch, staging, filter,
                 next, live>>

CreateStaging_Bug(r) ==   \* staging tables that exist are kept as they are
  /\ pc[r] = "staging"
  /\ Goto(r, "load")
  /\ UNCHANGED <<upstream, calm, holder, locals, staging, filter, next, live>>

(* schema.sql leaves existing tables alone; staging.sql recreates staging. *)
CreateStaging(r) ==
  /\ pc[r] = "staging"
  /\ staging' = {}
  /\ Goto(r, "load")
  /\ UNCHANGED <<upstream, calm, holder, locals, filter, next, live>>

(* The lines of title.basics.tsv the run has not read yet *)
Unread(r) == {t \in Dataset(version[r]) : t > loaded[r]}

(* loadTSVToTable: one CopyFrom of at most LoadBatchSize lines.  The loop  *)
(* ends after the batch that meets the end of the file.                    *)
LoadBatch(r) ==
  /\ pc[r] = "load"
  /\ LET lines == FirstOf(Unread(r), LoadBatchSize)
     IN  /\ staging' = staging \cup {<<t, version[r], r>> : t \in lines}
         /\ loaded' = [loaded EXCEPT ![r] = Max(lines \cup {@})]
         /\ Goto(r, IF Cardinality(Unread(r)) < LoadBatchSize THEN "filter" ELSE "load")
  /\ UNCHANGED <<upstream, calm, holder, version, last, page, batch, filter, next, live>>

(* filter_titles.sql: titles of the current year, then titles with enough  *)
(* votes.  Only the second INSERT has an ON CONFLICT clause, so a title of *)
(* the first one that is staged twice fails the script.                    *)
StagedTwice == {t \in CurrentYear : Cardinality({row \in staging : TitleOf(row) = t}) > 1}

FilterTitles(r) ==
  /\ pc[r] = "filter"
  /\ StagedTwice = {}
  /\ filter' = Kept(TitlesOf(staging))
  /\ Goto(r, "createNext")
  /\ UNCHANGED <<upstream, calm, holder, locals, staging, next, live>>

FilterConflict(r) ==
  /\ pc[r] = "filter"
  /\ StagedTwice # {}
  /\ End(r)
  /\ UNCHANGED <<upstream, calm, staging, filter, next, live>>

CreateNext_Bug(r) ==   \* only titles_next is dropped first
  /\ pc[r] = "createNext"
  /\ next' = IF next.exists THEN [next EXCEPT !.titles = {}] ELSE Empty
  /\ Goto(r, "build")
  /\ UNCHANGED <<upstream, calm, holder, locals, staging, filter, live>>

(* create_next.sql drops and creates all next tables. *)
CreateNext(r) ==
  /\ pc[r] = "createNext"
  /\ next' = Empty
  /\ Goto(r, "build")
  /\ UNCHANGED <<upstream, calm, holder, locals, staging, filter, live>>

(* buildTitlesInBatches: fetchTconstBatch reads the next tconsts of the    *)
(* filter behind the cursor, fetchBatchData their staging rows.  A title   *)
(* staged twice keeps whichever row the query returned last.               *)
Page(r) == FirstOf({t \in filter : t > last[r]}, BatchSize)

FetchBatch(r) ==
  /\ pc[r] = "build"
  /\ Page(r) # {}
  /\ page' = [page EXCEPT ![r] = Page(r)]
  /\ \E rows \in SUBSET {row \in staging : TitleOf(row) \in Page(r)} :
       /\ TitlesOf(rows) = TitlesOf(staging) \cap Page(r)
       /\ Cardinality(rows) = Cardinality(TitlesOf(rows))
       /\ batch' = [batch EXCEPT ![r] = rows]
  /\ Goto(r, "copy")
  /\ UNCHANGED <<upstream, calm, holder, version, loaded, last, staging, filter, next, live>>

NoMoreTitles(r) ==
  /\ pc[r] = "build"
  /\ Page(r) = {}
  /\ Goto(r, "discover")
  /\ UNCHANGED <<upstream, calm, holder, locals, staging, filter, next, live>>

(* copyBatchRows in one transaction; the primary keys of titles_next and   *)
(* title_search_next refuse a title that is already there.                 *)
CanCopy_Bug(r) == next.exists   \* titles_next has lost its primary key

CanCopy(r) == next.exists /\ TitlesOf(batch[r]) \cap TitlesOf(next.titles) = {}

CopyBatch_Bug(r) ==   \* one row too many is skipped by the cursor
  /\ pc[r] = "copy"
  /\ CanCopy(r)
  /\ next' = [next EXCEPT !.titles = @ \cup batch[r],
                          !.search = @ \cup NotEpisodes(batch[r])]
  /\ last' = [last EXCEPT ![r] = Max(page[r]) + 1]
  /\ page' = [page EXCEPT ![r] = {}]
  /\ batch' = [batch EXCEPT ![r] = {}]
  /\ Goto(r, "build")
  /\ UNCHANGED <<upstream, calm, holder, version, loaded, staging, filter, live>>

CopyBatch(r) ==
  /\ pc[r] = "copy"
  /\ CanCopy(r)
  /\ next' = [next EXCEPT !.titles = @ \cup batch[r],
                          !.search = @ \cup NotEpisodes(batch[r])]
  /\ last' = [last EXCEPT ![r] = Max(page[r])]
  /\ page' = [page EXCEPT ![r] = {}]
  /\ batch' = [batch EXCEPT ![r] = {}]
  /\ Goto(r, "build")
  /\ UNCHANGED <<upstream, calm, holder, version, loaded, staging, filter, live>>

CopyConflict(r) ==
  /\ pc[r] = "copy"
  /\ ~CanCopy(r)
  /\ End(r)
  /\ UNCHANGED <<upstream, calm, staging, filter, next, live>>

(* discover_next.sql truncates and refills the discover tables; the index, *)
(* analyze and search scripts that follow change no rows.                  *)
BuildDiscover(r) ==
  /\ pc[r] = "discover"
  /\ next.exists
  /\ next' = [next EXCEPT !.discover = NotEpisodes(next.titles)]
  /\ Goto(r, "swap")
  /\ UNCHANGED <<upstream, calm, holder, locals, staging, filter, live>>

(* A script that needs a next table another run has renamed or dropped. *)
MissingNext(r) ==
  /\ pc[r] \in {"discover", "swap"}
  /\ ~next.exists
  /\ End(r)
  /\ UNCHANGED <<upstream, calm, staging, filter, next, live>>

(* cfg.SwapLockTimeout.String(): Go writes hours, minutes and seconds from *)
(* the largest unit that is not zero down to seconds; PostgreSQL's         *)
(* lock_timeout takes one number with one unit.                            *)
GoDuration(seconds) ==
  {<<seconds % 60, "s">>}
    \cup (IF seconds >= 60 THEN {<<(seconds \div 60) % 60, "m">>} ELSE {})
    \cup (IF seconds >= 3600 THEN {<<seconds \div 3600, "h">>} ELSE {})
PostgresAccepts(duration) == Cardinality(duration) = 1

(* swap.sql: one transaction renames the next tables over the live ones,   *)
(* or fails as a whole.                                                    *)
Swap(r) ==
  /\ pc[r] = "swap"
  /\ next.exists
  /\ IF PostgresAccepts(GoDuration(SwapLockTimeout))
     THEN /\ live' = next
          /\ next' = Absent
          /\ Goto(r, "cleanup")
          /\ UNCHANGED <<holder, locals>>
     ELSE End(r) /\ UNCHANGED <<next, live>>
  /\ UNCHANGED <<upstream, calm, staging, filter>>

Cleanup_Bug(r) ==   \* the next tables are cleaned apart from each other
  /\ pc[r] = "cleanup"
  /\ IF KeepStaging THEN UNCHANGED <<staging, filter, next>>
     ELSE /\ staging' = {}
          /\ filter' = {}
          /\ next' = [next EXCEPT !.titles = {}]
  /\ End(r)
  /\ UNCHANGED <<upstream, calm, live>>

(* cleanup.sql truncates whatever next, filter and staging tables exist.   *)
Cleanup(r) ==
  /\ pc[r] = "cleanup"
  /\ IF KeepStaging THEN UNCHANGED <<staging, filter, next>>
     ELSE /\ staging' = {}
          /\ filter' = {}
          /\ next' = IF next.exists THEN Empty ELSE next
  /\ End(r)
  /\ UNCHANGED <<upstream, calm, live>>

---------------------------------------------------------------------------
(* A statement fails, the lock timeout expires, or the process dies.  A    *)
(* committed step whose answer is lost is that step followed by this one.  *)
Fail(r) ==
  /\ ~calm
  /\ pc[r] # "idle"
  /\ End(r)
  /\ UNCHANGED <<upstream, calm, staging, filter, next, live>>

Publish ==
  /\ ~calm
  /\ upstream < MaxVersion
  /\ upstream' = upstream + 1
  /\ UNCHANGED <<calm, holder, pc, locals, staging, filter, next, live>>

CalmDown ==
  /\ ~calm
  /\ calm' = TRUE
  /\ UNCHANGED <<upstream, holder, pc, locals, staging, filter, next, live>>

Step(r) ==
  \/ Start(r)
  \/ Download(r)
  \/ CreateStaging(r)
  \/ LoadBatch(r)
  \/ FilterTitles(r)
  \/ FilterConflict(r)
  \/ CreateNext(r)
  \/ FetchBatch(r)
  \/ NoMoreTitles(r)
  \/ CopyBatch(r)
  \/ CopyConflict(r)
  \/ BuildDiscover(r)
  \/ MissingNext(r)
  \/ Swap(r)
  \/ Cleanup(r)

Next ==
  \/ \E r \in Runs : Step(r)
  \/ \E r \in Runs : Fail(r)
  \/ Publish
  \/ CalmDown

Spec == Init /\ [][Next]_vars

---------------------------------------------------------------------------
TypeOK ==
  /\ upstream \in Versions
  /\ calm \in BOOLEAN
  /\ holder \in Runs \cup {NoRun}
  /\ pc \in [Runs -> Stages]
  /\ version \in [Runs -> 0 .. MaxVersion]
  /\ loaded \in [Runs -> 0 .. NTitles]
  /\ last \in [Runs -> 0 .. NTitles]
  /\ page \in [Runs -> SUBSET Titles]
  /\ batch \in [Runs -> SUBSET Row]
  /\ staging \subseteq Row
  /\ filter \subseteq Titles
  /\ next \in Tables
  /\ live \in Tables

(* While a locked run builds, titles_next holds exactly the filtered       *)
(* titles up to its cursor, each read from the version it downloaded:      *)
(* batches neither skip nor repeat a title, and nothing is left over from  *)
(* a run that died earlier.                                                *)
BuiltUpToCursor ==
  \A r \in Runs :
    pc[r] \in {"build", "copy"} /\ Locked =>
      Content(next.titles) =
        {<<t, version[r]>> : t \in {u \in Kept(Dataset(version[r])) : u <= last[r]}}

(* Under the lock a run that meets no fault ends by publishing, whatever   *)
(* dead runs left in the staging and next tables: no title is staged twice *)
(* for filter_titles.sql to fail on, no key of the next tables is taken,   *)
(* and none of them is missing.                                            *)
FaultlessRunsPublish ==
  [][\A r \in Runs : Locked /\ calm /\ pc[r] # "idle" /\ pc'[r] = "idle"
       => pc[r] = "cleanup"]_vars

(* Even if runs overlap, the search table always covers exactly the        *)
(* non-episode titles of the titles table: both are written, truncated and *)
(* swapped in the same transactions.                                       *)
SearchMirrorsTitles ==
  /\ live.search = NotEpisodes(live.titles)
  /\ next.search = NotEpisodes(next.titles)

(* Even if runs overlap, a title has at most one live row. *)
OneRowPerTitle == Cardinality(TitlesOf(live.titles)) = Cardinality(live.titles)

(* What readers see, without the run that loaded it. *)
LiveContent ==
  [titles |-> Content(live.titles), search |-> Content(live.search),
   discover |-> Content(live.discover)]

Image(v) ==
  LET rows == IF v = 0 THEN {} ELSE {<<t, v>> : t \in Kept(Dataset(v))}
  IN  [titles |-> rows, search |-> NotEpisodes(rows), discover |-> NotEpisodes(rows)]

(* Under the lock the pipeline implements the readers' view: the live      *)
(* tables are always one complete version and never go back.               *)
Readers == INSTANCE LiveDataset WITH live <- LiveContent
ImplementsLiveDataset == Readers!Spec

(* A run whose next tables are ready and that meets no fault publishes     *)
(* them, for every timeout the configuration accepts.                      *)
ReadySwapPublishes ==
  [][\A r \in Runs : pc[r] = "swap" /\ next.exists /\ calm /\ pc'[r] # "swap"
       => pc'[r] = "cleanup"]_vars
===========================================================================
