# TLA+ verification of lumiere-db

lumiere-db serves IMDb's public datasets over HTTP. One Go process polls
IMDb's file server, rebuilds a PostgreSQL database from its seven files when
they change, and answers search, discover and title requests from the live
tables. Several such processes may share one database.

This directory holds TLA+ modules translated from that code, TLC configurations
that check them on small instances, and proofs for any instance that TLAPS
checks. `PROJECT.json` maps every definition to the source lines it stands for.

    tlc -workers 2 -config sched_pair.cfg MCRebuildScheduler
    tlapm RebuildScheduler_proofs.tla      (and ConnectionPool, EtlPipeline,
                                            Download, Discover, Projection,
                                            Materialize likewise)

## 1. Inventory of the system

| Component | Code (under `src/`) | State | Operations |
|---|---|---|---|
| Boot sequence | `api/cmd/api/main.go` | none of its own | check whether `titles` is empty; blocking bootstrap cycle, or scheduler in the background, or one unscheduled ETL run; start HTTP |
| Rebuild scheduler | `api/internal/etl/scheduler.go` | locals of one cycle: manifest, probe | poll cycle, stability wait, bootstrap / forced / ordinary rebuild |
| State tables and lock | `api/internal/etl/state.go` | `etl_source_state`, `etl_pending_source_state`, a session-level advisory lock | load, save (one transaction), clear, try-lock, unlock |
| ETL runtime and scripts | `api/internal/etl/runtime.go`, `etl/*.sql` | staging tables, `title_filter`, `*_next`, live tables | one script or batch after the other, each a transaction |
| SQL runner | `sql_runner.go` | settings of a pooled connection | substitute parameters, apply settings, execute |
| Dataset download | `download.go`, `datasets.go` | data directory, worker pool, error channel | fetch all files, skip those on disk unless forced |
| Staging load, TSV reader | `staging_runtime.go`, `tsv_loader.go` | allowlists, reader position, staging tables | read a line, filter it, feed the allowlists; COPY in batches, file after file |
| Batch build | `build_runtime.go` | keyset cursor `last`, `titles_next`, `title_search_next` | fetch a batch, copy it in one transaction |
| Batch fetch, projection | `build_fetch.go`, `build_projection.go`, `utils.go` | none | compute rows from staging rows |
| Discover | `api/internal/discover/` | none; a cursor held by the client | keyset pagination in four orders |
| Search, suggest | `api/internal/search/` | none | normalise and measure the query, run it under a deadline |
| Database connection | `api/internal/db/` | the connection pool of the process | connect with retries |
| HTTP server and handlers | `api/internal/http/` | requests under way | parse, acquire a connection, answer; readiness; graceful shutdown |
| Configuration, ETL API and types | `config/`, `etl/api.go`, `etl/etl_types.go` | none | parse the environment once; thin wrappers and records |

How they interact. `main` calls the scheduler, the scheduler calls `runETL`
under the advisory lock, `runETL` downloads and drives the scripts and loaders.
Processes interact only through the database: the two state tables, the lock,
and - since their names are fixed - the staging and next tables. The HTTP side
reads the live tables, which a rebuild replaces underneath it. Inside one process requests
and the scheduler share one pool of connections; a rebuild keeps one of them
for the advisory lock while it acquires others.

What is hard here:

* several instances poll, confirm and rebuild concurrently, and what each of
  them read may be stale when it acts on it;
* upstream changes while it is probed (seven HEAD requests, not atomic) and
  while it is downloaded;
* the process, a statement or a request can fail between any two steps of a
  rebuild that takes an hour, and the tables are left as they are;
* the lock belongs to a connection that may drop while the rebuild goes on;
* readers and cursors live across swaps of the tables;
* the goroutine that holds the lock's connection waits for further connections
  in the same line as requests that have no deadline, and shutdown waits for
  both;
* which titles are kept is decided twice, by allowlists that Go fills while it
  reads the files in a certain order, and by SQL over the staged rows.

What makes each part correct: the scheduler must never record more than is
live, never rebuild concurrently, redundantly or backwards, and catch up in the
end; the ETL must show readers one whole version at a time whatever died
before; the download must not leave or accept partial files and must return;
discover must show every matching title once and in order; staging must hold
what the chosen titles need and nothing else, and a document what the files say
of its title; connections and the lock must come back on every path, nobody may
wait for ever, and a signal must end the process. The hazards behind these, each
at its line, are listed in `PROJECT.json`.

## 2. Modules

| Module | Models | Checked by |
|---|---|---|
| `Publication` | what the scheduler promises: upstream, the live dataset and the record only move in step | as a refinement target |
| `RebuildScheduler` | `scheduler.go`, `state.go`, the scheduled boot of `main.go` | `MCRebuildScheduler` |
| `RebuildScheduler_proofs` | theorems about it, for any number of instances and for one | TLAPS |
| `LiveDataset` | what the ETL promises to readers: one whole version, never an older one | as a refinement target |
| `EtlPipeline` | `runtime.go`, batch loaders, `etl/*.sql` | `MCEtlPipeline` |
| `EtlPipeline_proofs` | theorems about it | TLAPS |
| `Download` | `download.go` | `MCDownload` |
| `Download_proofs` | theorems about it | TLAPS |
| `Discover` | `discover/service.go`, `discover/repository.go` | `MCDiscover` |
| `Discover_proofs` | theorems about it | TLAPS |
| `Rows` | ORDER BY, WHERE and LIMIT on sequences of rows, NULL, the cast's categories | through `Materialize` |
| `TsvLoad` | `staging_runtime.go`, `tsv_loader.go` | through `Materialize` |
| `Projection` | `build_fetch.go`, `build_projection.go`, `utils.go`, as pure operators | through `Materialize` |
| `Materialize` | composes the two with the scripts and the batch loop: one run from lines to documents | `MCMaterialize` |
| `Projection_proofs` | what its operators make of any rows: order, picking, grouping, merging | TLAPS |
| `Materialize_proofs` | theorems about staging, the titles built and their documents | TLAPS |
| `ConnectionPool` | one process from connect to exit: `main.go`, `db/connect.go`, the pool, the lock's connection, the request path of `http/` and `search/service.go` | `MCConnectionPool` |
| `ConnectionPool_proofs` | theorems about it | TLAPS |
| `NaturalSets` | lemmas about sets of numbers that two of the proof modules use | TLAPS |

`RebuildScheduler` treats a whole ETL run as *download files / build / swap*;
`Download` and `EtlPipeline` are the two halves of that run in detail.
`EtlPipeline` in turn takes a download as one step that yields one version, and
`Discover` takes a rebuild as a step that changes a row of its table.
`Materialize` is the same run as `EtlPipeline` seen from the other side: alone
and without crashes, but with the content of the rows. `ConnectionPool` looks at
one process of `RebuildScheduler` and keeps only which connections its cycle
uses. Operators
ending in `_Bug` are seeded slips, used by no action; they show that each
property is able to fail.

### RebuildScheduler

A file's `(Last-Modified, Content-Length)` pair is a version number that only
grows; a manifest is a function from files to versions; 0 means no row or no
file. `forceRebuild` is `IMDB_FORCE_REBUILD`, the same for every process and
fixed from the start; `ForceModes` says which values a run considers. The state
tables are the manifests `source` and `pending`; `published` is, per file, the
version the live tables were built from, which the code does not store. `pc[i]`
is the place of instance `i` in `runScheduledRebuildCycle`,
`waitForStableManifest` or `rebuildFromManifestLocked`:

    down -Boot-> probe -CheckTitles-> compare -> confirm -> confirmLock -AcquireLock->
         reprobe -> reload -> download -Build-> swap -> record -> clearPending -> wait
    probe -CheckTitles-> stability -StableManifest-> bootstrapLock -AcquireLock-> download
    probe -CheckTitles (forced)-> bootstrapLock

Granularity: each HEAD request (`Head`), each read or transaction on the state
tables, each file's download and the swap is one step, so that other instances,
upstream and faults come between any two of them. The load of the state tables
is one statement and a save one transaction, hence atomic. `Fail` is any error
return: the locals are dropped and the deferred unlock runs. A step whose
effect is committed but whose answer is lost is that step followed by `Fail`.
`Crash` also loses the process, and its sessions with it; that the server
notices a dead client at once is an assumption (it does when the process dies,
not when its host vanishes: the lock then stays taken for a while, which the
other instances see as `SkipLocked`). `LoseLock`, when enabled, frees the lock
of a running rebuild, which does not notice. Two history variables are read by
properties only: `snapshots`, every manifest upstream ever offered as a whole,
and `pendingAtPoll`, the pending table when a cycle began.

### EtlPipeline

A row is title, version and the run that loaded it. Each SQL script is one
action, because a multi-statement script sent in one `Exec` is one implicit
transaction (`swap.sql` has its own BEGIN and COMMIT); `LoadBatch` is one
`CopyFrom`; `FetchBatch` and `CopyBatch` are the read and the transaction of
one batch of `buildTitlesInBatches`. Errors of the database are actions of
their own: `FilterConflict` and `CopyConflict` (primary keys), `MissingNext` (a
next table renamed or dropped by another run). Upstream versions differ in which titles
they hold. The staging tables are represented by `stg_title_basics`,
`discover_core` and `discover_genre` by the former. `Locked` selects the two
ways the code runs it: by the scheduler under the lock, or directly from `main`
when the schedule is disabled.

### Download

One action per file-system or network operation of a worker. `disk` and `tmp`
survive `Crash`; `force` is chosen anew for each call, as it is for the
scheduler (always set) and the unscheduled mode (an option). A worker whose
context is done may fail or, past the request, still finish: both are allowed.
`Proceed` is what `runETL` does with the answer: it gives up, or runs the first
script, for which a context that is done is refused a connection, and loads.

### Discover

A row keeps its votes, rating and year, `Null` included. A walk begins with any
request and follows the cursors; a rebuild may change a title's row in between
(including making it drop out of the listing) and the client may send its
cursor with another request. Filters are represented by `min_votes`. A listing is
`Ordered`: its k-th item is the one with k - 1 items before it, which says what
ORDER BY does without saying how and can be reasoned about without induction.

### Rows, TsvLoad, Projection, Materialize

A file is a sequence of lines; a line is empty, a header, a header whose
columns do not fit, or a row with the columns some filter or document rule looks
at. `TsvLoad` reads line by line, as `Next` of the copy source does: `SkipBlank`,
`ReadHeader`, `SkipRow`, `TakeRow` and `EndOfFile` are its ways through one
line. `readLine` returns an unterminated last line together with `io.EOF`
(`AtEof`), which each of them treats in its own way; `FinishCopy` is the end of
one `CopyFrom`, after which the loop of `loadTSVToTable` starts another one on
the same reader or opens the next file. `allow` holds the sets the filters of
later files use, and `Merged` the moment they are replaced by `finalAllowlist`.
`Null` stands for `\N` and for a number that does not parse.

`Projection` has no state: queries with their ORDER BY and row_number limits,
sorting, merging and deduplication. A title or character name is a pair
`<<key, spelling>>`: titles with one key are equal under `sameTitle`, characters
with one key under `normalizeCharacterKey`. Where Go ranges over a map the
result is a set. `Materialize` adds the derived tables, the filter and the keyset
batches. `Rows` gives what a query does to a sequence by position, for the same
reason as `Ordered`: the k-th of `Arranged(S, before)` is the member with k - 1
before it, `Picked` takes some places of a sequence in `Ascending` order, and a
stable sort (`Sorted`) arranges places, with equal rows as they were. Where the
code itself goes row by row (`dedupeCharacters`, `buildCast`) so does the model,
with a recursive function. `InputsAssumption` says what IMDb documents of its
files: keys are unique, only a first line is a header, and a `tconst` sorts
after the empty one from which the keyset query starts. `ColumnsAssumption`
gives the types of the columns that are sorted or split; akas are numbered from
1, because `akaOrderingOrMax` takes 0 for an unknown number. A title's or
person's identifier is the number its digits write: `parseTconstID` and
`parseNconstID` refuse other prefixes, other characters and numbers of 2^32 or
more, and give two spellings of one number the same identifier; neither is among
the inputs.

### ConnectionPool

`phase` follows `main`: the attempts of `ConnectWithRetry`, serving, the server's
shutdown, `pool.Close`, the exit. The blocking bootstrap before serving is
`RebuildScheduler`'s subject; here the process serves once it is connected.
The pool is pgxpool as the code uses it: `PoolSize` slots, callers served first
come first served (`queue`), a connection opened when a slot without one is
granted (`Grant`) or not (`GrantFails`). A connection may drop under anyone
(`LoseConnection`), and the driver closes it when the context of a statement
ends (`Interrupt`, `CycleInterrupted`, `UnlockTimesOut`).

The cycle is `pc[Etl]`: first queries without the lock, one connection each,
then `acquireETLSchedulerLock` on a connection it keeps (`lockConn`), then any
number of jobs up to `MaxJobs`, each with one more connection, then
`releaseETLSchedulerLock`. The lock's value is the slot whose session holds it,
`Free`, or `Other`: another process, or a session of this one that is closed and
that PostgreSQL has not ended yet. A request is refused or waits for a connection,
queries, and is answered; it may begin while the server drains, on a connection
accepted before; whether its parameters parse is one bit of it. The
characters of a query are records of what the length check looks at: white
space, and bytes in lower case.

## 3. What is checked

| Run | Instance | Distinct states | What it shows |
|---|---|---|---|
| `sched_single` | 1 instance, 2 files, 3 versions, 2 stability checks, empty database, forced and not, lock loss, fairness | 232 000 | `RecordedNotAhead`, `RecordedIsReal`, `ServesTitles`, `ConfirmedByLaterPoll`, `EventuallyCaughtUp` |
| `sched_pair` | 2 instances, 2 files, 2 versions, existing dataset | 502 000 | `RebuildsExclude`, `NoRedundantRebuild`, `PublishedNeverRegresses`, `SourceNeverRegresses`, and the inductive invariant `RebuildInvariant` |
| `sched_bootstrap` | 2 instances, 1 file, 2 versions, 1 check, empty database, forced and not, fairness | 177 000 | refinement of `Publication`, `EmptyOnlyDuringBootstrap`, `EventuallyCaughtUp` |
| `sched_confirm` | 2 instances, 1 file | violation | `ConfirmedByLaterPoll` fails with two instances (finding 1) |
| `etl_locked` | 2 runs, 5 titles, batches of 2, 3 versions | 16 700 | `BuiltUpToCursor`, refinement of `LiveDataset`, `FaultlessRunsPublish` |
| `etl_overlap` | 2 unlocked runs, 3 titles, batches of 2, 2 versions | 1 370 000 | `SearchMirrorsTitles`, `OneRowPerTitle` |
| `etl_timeout` | swap lock timeout of 60 s | violation | `ReadySwapPublishes` fails (finding 2) |
| `download` | 3 files, 2 workers, 2 calls, fairness | 69 000 | `NeverPartial`, `NilMeansComplete`, `LoadsOnlyComplete`, `CallReturns` |
| `discover` | 3 titles, values 1..2 and NULL, pages of 1 or 2, 1 rebuild | 252 000 | `WalkIsListing`, `StrictOrder`, `StableShownOnce`, `OneListing` |
| `materialize` | 2 contents of each file in all combinations (128 directories), 35 directories with an odd file, last line terminated or not, batches of 2 | 40 900 | `StagedIsSelection`, `WantedAreBuilt`, `CreditsMatch`, `AkasMatch`, `SeasonsMatch`, `LoadEnds` |
| `pool` | 2 connections, 2 requests, 2 jobs per cycle, 2 connection attempts, fairness | 112 000 | `LeasesAccounted`, `LockOnlyWhileRebuilding`, `NobodyWaitsForever`, `ShutdownCompletes` |
| `search_length` | 1 request, all queries of up to 4 characters | violation | `DocumentedLengthsAccepted` fails (finding 3) |

Why the bounds are enough. Two files are the fewest for which a probe can be
torn and a download can mix versions; three versions let upstream change during
a rebuild that itself follows a change, two are enough where a second instance
does the interfering. With one stability check a bootstrap that gives up is
reached within two versions. Two instances are the fewest that compete for the lock;
the proofs cover more. In `etl_locked` five titles, one of them filtered out,
in batches of two give a last batch that is short and ones that are full, and
versions lacking different titles make mixtures visible; one leftover of a dead
run is followed by a complete run. In `download` there are more files than
workers, so that a worker takes a second file, and a second call meets what a
first one left behind. In `discover` three titles with two values force ties on
every sort column at a page boundary. In `materialize` the loading batches of 2 end in the middle and at the end of files,
with and without a newline, and rows are refused or taken at each of these
places; the files give every way in or out of the choice (year, votes just
enough, a type that is not loaded, an episode staged and not chosen), people
billed twice in one and in two categories, beyond the limits and with unknown
order, equal names in other spellings, unknown and zero seasons. The documents
are compared with a reference that reads the files as sets, without batches,
allowlists, staging or cursors. In `pool` two connections are the fewest with
which a rebuild can run at all, two requests can take both, and a second job is
acquired after the first was given back; a third kind of request would differ in
its status only. The queries of `search_length` are scaled: limits of 4 and 3
stand for 120 and 80.

The counters that are bounded (versions,
calls, swaps) grow in the code only with the environment. Symmetry is used where
instances or runs are interchangeable and no liveness property is checked.
`CHECK_DEADLOCK FALSE` is set for `download` (its calls are used up), `discover`
(a walk ends), `materialize` (the run ends), `pool` and `search_length` (the
process exits); the schedulers never stop.

Fairness. `EventuallyCaughtUp` assumes weak fairness of each instance's own
code while it is up (`Running`): the ticker fires, and requests and statements
return. Nothing is assumed of upstream, of faults, or of whoever starts a
process that has exited (`docker-compose.yml` restarts only the database): the
property speaks of runs in which upstream and the faults settle (`calm`) and
some process is up again and again (`SomeoneUp`). `CallReturns` assumes
that goroutines run and requests end (`downloadRequestTimeout`). `LoadEnds`
assumes that the one goroutine that loads goes on reading. `NobodyWaitsForever`
and `ShutdownCompletes` assume that every statement ends or loses its
connection, that the pool serves its line, that a cancelled cycle stops waiting,
and that `main` takes its own steps. Nothing makes a client go away, a request's
deadline fire before its statement ends, a cycle begin or a signal arrive.

### Findings

1. `sched_confirm`: the README's update rule (a rebuild "starts only after the
   same manifest repeats on the next poll") holds for one instance
   (`sched_single`). With two, an instance whose poll began before the other
   saved the pending manifest finds it there and rebuilds: one interval's wait
   is skipped. The record is real all the same (theorem `RecordedReal`), because
   the manifest is probed once more under the lock.
2. `etl_timeout`: a timeout of a minute or more, which the configuration
   accepts, is written as `1m0s`, which PostgreSQL does not; every swap fails.
3. `search_length`: the README gives the limits of a query in characters, the
   code compares them with its bytes; queries of a documented length with letters
   outside ASCII are refused with an error that speaks of characters.

### What does not hold, and is therefore not claimed

* With two instances bootstrapping an empty database, `SourceNeverRegresses`
  and `NoRedundantRebuild` fail: that path does not look at the source state
  under the lock. The record may go back, the data does not, and later polls
  repair it (`EventuallyCaughtUp`).
* With two instances, a bootstrap that finds the lock taken lets its process
  serve an empty database, so `ServesTitles` is claimed, and proved
  (`AloneServesTitles`), for one. What holds for any number is
  `EmptyOnlyDuringBootstrap`: a process begins to do so only while another one
  is at the rebuild that fills the database.
* With two instances whose lock is lost during a rebuild, `RecordedNotAhead`,
  `PublishedNeverRegresses`, `SourceNeverRegresses` and `EventuallyCaughtUp` all
  fail: the rebuilds overlap, the older one can swap after the newer one was
  recorded, and the live tables then stay behind the record until upstream
  changes again. `RecordedIsReal` does not need the lock (theorem
  `RecordedReal`).
* Unlocked runs that overlap can publish a mixture of two versions;
  `etl_overlap` checks what remains.
* A call of the download whose own context is cancelled between two files
  returns nil with files missing. Nothing is loaded then (`LoadsOnlyComplete`),
  because the first script acquires its connection under the same context.
* A title can be shown twice by a walk during which a rebuild changed it: its
  votes fell, say, and it moved behind the cursor. `StrictOrder` says that this
  is the only way.
* `RecordedIsReal` leaves the forced mode out: nothing probes twice there, so a
  manifest upstream never offered is recorded. It is not ahead of the live tables, and
  later polls replace it (`EventuallyCaughtUp` in `sched_single`).
* With `pool_max_conns=1` a rebuild waits for itself: it holds the only
  connection for its lock.
* An unlock statement that the server cancels while it keeps the session leaves
  the lock on a pooled connection; that answer of the server is not modelled.

## 4. What is proved

### The scheduler

`RebuildScheduler_proofs` proves, for any number of instances (also
infinitely many), files, versions and stability checks:

| Theorem | Assumes | Conclusion |
|---|---|---|
| `Typing` | - | `Spec => []TypeOK` |
| `MutualExclusion` | `~LockLoss` | `Spec => []RebuildsExclude` |
| `Invariance` | `~LockLoss` | `Spec => []RebuildInvariant` |
| `RecordedNeverAhead` | `~LockLoss` | `Spec => []RecordedNotAhead` |
| `LiveDataMonotone` | `~LockLoss` | `Spec => PublishedNeverRegresses` |
| `EveryRebuildHasAReason` | `Seeded`, `ForceModes = {FALSE}`, `~LockLoss` | `Spec => []NoRedundantRebuild` |
| `RecordMonotone` | `Seeded`, `ForceModes = {FALSE}`, `~LockLoss` | `Spec => SourceNeverRegresses` |
| `RecordedReal` | - | `Spec => []RecordedIsReal` |
| `Implementation` | `~LockLoss` | `Spec => ImplementsPublication` |
| `EmptyOnlyWhileRebuilt` | `BootstrapBlocking` | `Spec => EmptyOnlyDuringBootstrap` |

The constants' assumptions are `InstancesAssumption`, `BoundsAssumption` and
`SwitchesAssumption`, which TLC evaluates in every run.

*Freshness.* `RecordedNotAhead` is not inductive: whether the record may be
written depends on what the rebuild downloaded. `RebuildInvariant` adds that
nobody's manifest or files are newer than upstream; that every file fetched by
the rebuild under way is at least as recent as its manifest and as the live
tables; and that whoever is past the lock holds it (`LockDiscipline`). The last
part is why a second rebuild cannot replace the live tables between the
download and the swap, and why the results assume that the lock is not lost.
`StepPublished` derives from it that a swap only moves forward, which gives
both `LiveDataMonotone` and the `Replace` step of `Implementation`.

*Real records.* `Anchored` says that while a second probe runs there is a
snapshot of upstream - the one offered when that probe began - lying between the
answers of the first probe and those of the second. If the two are equal, they
are that snapshot (`EqualProbesAreReal`). Nothing here needs the lock.

*No redundant rebuild.* On a seeded database `HasTitles` is stable (live tables
only get newer), so that the bootstrap path is never taken and each rebuild has
compared its manifest under the lock; only the holder changes the record.

*Record moves forward.* On a seeded database the manifest that will be recorded
was probed under the lock. Each answer of that probe is at least as recent as
the record, because the record is never newer than upstream (`Freshness`), and
the record stays what it is until the holder replaces it (`OrderedRecord`).

*Serving an empty database.* `BootInvariant` says that a process that is not
serving and has gone past its bootstrap has put rows into the live tables.
Rows stay once there are some (`PublishedChanges`, `RowsStay`). So a cycle that
ends well while the tables are empty has been refused the lock, and whoever has
the lock is a bootstrapping instance, hence at its rebuild. If the lock is lost
the refusal only names a later holder, for whom the same is true.

### One instance

`docker-compose.yml` runs one process. The last part of `RebuildScheduler_proofs`
assumes `Alone` (no two instances) and, with nobody to compete, does not need
the lock: its theorems hold although the lock's connection may drop during a
rebuild.

| Theorem | Assumes besides `Alone` | Conclusion |
|---|---|---|
| `AloneServesTitles` | `BootstrapBlocking` | `Spec => []ServesTitles` |
| `AloneConfirmed` | - | `Spec => ConfirmedByLaterPoll` |
| `AloneRecordMonotone` | - | `Spec => SourceNeverRegresses` |
| `AloneRecordedNeverAhead` | - | `Spec => []RecordedNotAhead` |
| `AloneLiveDataMonotone` | - | `Spec => PublishedNeverRegresses` |
| `AloneImplementation` | - | `Spec => ImplementsPublication` |

`RebuildInvariant` splits in two: `Freshness`, whose step lemma asks only that
rebuilds exclude each other, and the lock discipline, which is one way to know
that. `SoloInvariant` adds to the former what the instance knows at each place
of its cycle (`SoloAt`): once it has built, or serves after a blocking
bootstrap, there are titles; the pending table is what it was when the poll
began until the poll confirms it, and then it is the manifest; and nothing
recorded is newer than what it has probed or is about to record. With a second
instance each of these may be stale, which is finding 1 and the first two
entries under *What does not hold*.

### The connection pool

`ConnectionPool_proofs` proves, for any number of requests (also infinitely
many), connections, jobs and attempts and any set of inputs:

| Theorem | Conclusion |
|---|---|
| `PoolInvariance` | `Spec => []PoolInvariant` |
| `ConnectionsAccounted` | `Spec => []LeasesAccounted` |
| `LockStaysWithCycle` | `Spec => []LockOnlyWhileRebuilding` |

The only assumption is `PoolAssumption`. `LeasesAccounted` counts connections,
which is not inductive: to know that a caller ends with none left, a step has to
know *which* ones it had. `PoolInvariant` therefore says for each caller the set
it holds (`Holding`): none, one, the lock's, or the lock's and one more; that
the line has no repetitions and holds exactly those whose place is a waiting
one (`Line`); and that the lock, if it is on a connection of this process, is on
the open one the cycle keeps. Lemmas of three kinds carry the steps: what
`Append`, `Tail` and `RemoveAt` do to the line, what `Release` and a grant do to
the sets held (and that those of everyone else stay), and for main, requests
and the cycle one lemma each with what a step has to show (`QuietStep`,
`RequestStep`, `CycleStepShape`). The exit is the one step that needs more: the
pool is closed when it has every connection back, which leaves the cycle in no
place where it would keep the lock's.

### The ETL pipeline

`EtlPipeline_proofs` proves, for any runs, titles, upstream versions and batch
sizes:

| Theorem | Assumes | Conclusion |
|---|---|---|
| `PipelineInvariantHolds`, `TypesHold` | - | `Spec => []PipelineInvariant`, `Spec => []TypeOK` |
| `SearchMirrors` | - | `Spec => []SearchMirrorsTitles` |
| `OneLiveRow` | - | `Spec => []OneRowPerTitle` |
| `LockInvariantHolds` | - | `Spec => [](Locked => LockInvariant)` |
| `NextIsBuiltUpToCursor` | - | `Spec => []BuiltUpToCursor` |
| `Refinement` | `Locked` | `Spec => ImplementsLiveDataset` |
| `LockedRunsPublish` | `SwapLockTimeout < 60` | `Spec => FaultlessRunsPublish` |
| `AcceptedTimeouts` | - | the timeout as Go prints it is accepted if and only if it is below 60 s |
| `ShortTimeoutsPublish` | `SwapLockTimeout < 60` | `Spec => ReadySwapPublishes` |

The argument has two layers. `PipelineInvariant` holds with and without the
lock: two runs may overwrite each other's tables, but each step leaves a table
with one row for a title, because the primary keys of `titles_next` and
`title_filter` refuse the rest, and titles and search rows are written in one
transaction. `LockInvariant` is what exclusion adds: whoever is not idle is the
holder, staging holds what that run has read of its one version (`Loading`), the
next tables hold what it has built up to its cursor (`Building`), and readers see
one complete version that is no newer (`Published`). The leftovers of a dead run
are in neither: `CreateStaging` and `CreateNext` drop them before the run reads
the tables, and that this is enough is what the proof shows. That batches neither
skip nor repeat a title needs a greatest title of each page, which
`NaturalSets` gets from the well-foundedness of the naturals.
`LockedRunsPublish` reads off the same invariant that none of the failing
actions but `Fail` is enabled: staging holds each title once
(`NoFilterConflict`), a batch's titles are above all that is built
(`NoCopyConflict`), and from `CreateNext` to the swap the next tables are there
(`Prepared`). The last two
theorems are the other half of finding 2: below a minute nothing is wrong.

### The download

`Download_proofs` proves, for any finite sets of files and workers and any
number of calls, `DownloadInvariantHolds`, `TypesHold`, `NothingPartial`
(`Spec => []NeverPartial`), `NilIsComplete` (`Spec => []NilMeansComplete`) and
`LoadIsComplete` (`Spec => []LoadsOnlyComplete`).
`DownloadAssumption` asks for at least one worker: without any, a call would
return nil with nothing fetched, which `clampPositive` excludes.

A call that returned nil has seen no error; that every file is then in place is
an account of files over time. `Progress` keeps it: until something goes wrong
each file is in the channel, with a worker, settled, or some worker is about to
report an error; and a worker that is done has found the channel empty.
`Exclusive` says that no file is with two of them, so that nobody's temporary is
renamed by another (`Ready`).

### The listing

`Discover_proofs` proves, for any number of titles, any values, pages and number
of rebuilds, `WalkInvariantHolds` and `TypesHold`, and

| Theorem | Conclusion |
|---|---|
| `WalkIsOrdered` | `Spec => []StrictOrder` |
| `OneListingHolds` | `Spec => OneListing` |
| `WalkShowsListing` | `Spec => []WalkIsListing` |
| `StableTitlesShownOnce` | `Spec => []StableShownOnce` |

`StrictTotalOrder` shows that the ORDER BY of each sort, with `tconst` as its
last key, is a strict total order of the items, and that `Behind`, the keyset
condition the code spells out as three alternatives, is its cut; `WalkInvariant`
then says that what was shown is in this order (`InOrder`), that items of titles
no rebuild touched are still current, and that up to the cursor none of them was
left out (`NothingSkipped`). That a finished walk is the listing, and not only
holds the same items, follows because both are in order: the item at place k has
k - 1 before it in each. `OneListing` is a property of steps: a page is a prefix of
what the listing of the walk's *first* request has after the cursor, whichever
request carries it, because an accepted request has the same fingerprint and so
the same listing (`SameWalk`).

### Staging, the titles built and their documents

`Materialize_proofs` proves, for any data directories that meet
`InputsAssumption` and `ColumnsAssumption`, any limits and any batch sizes:

| Theorem | Conclusion |
|---|---|
| `StagingIsSelection` | `Spec => []StagedIsSelection` |
| `BuildIsWanted` | `Spec => []WantedAreBuilt` |
| `CreditsAreGiven` | `Spec => []CreditsMatch` |
| `AkasAreShown` | `Spec => []AkasMatch` |
| `SeasonsAreWanted` | `Spec => []SeasonsMatch` |

`StagedIsSelection` compares staging with a selection that looks at all seven
files at once, while the loader decides line by line with what it has read so
far. `LoadInvariant` closes the gap: `Staged(f, p)` is the selection among the
first p lines, the tables hold it for the lines read, those of the `CopyFrom`
under way included, and `Allowed(n, p)` gives every allowlist as a function of
the lines read. `FilterIsSelection` is the heart: at each file the filter over
those allowlists decides what the whole data set decides, because of the order
in which the files are loaded - whatever a filter asks for is complete when its
file begins. That the titles of the year, collected from the lines of basics,
are those the reference means takes `OneBasic`: `tconst` is a key of basics.

`BuildInvariant` continues where the load ends. The SQL of `filter_titles.sql`
chooses what the allowlists chose (`FilterIsChosen`), `titles_next` holds the
documents of `Within(Chosen, last)` in order, and the search rows follow them.
`PageAdvances` is one page of the keyset query: what it returns is the next
part of the ascending order, and if it returns nothing, nothing is left.
`titlesNextCopySource` passes over a title of the page that is not in staging;
the proof shows that there never is one.

Sequences are handled by position throughout. `AscendingUnique` says that a
sequence that is in order and has the members of a set is that set's `Ascending`;
from it follow what happens when a member is appended, when two sets are joined
and when a prefix is taken, by counting members instead of by induction.

The last three theorems are about the content of the documents. `MadeInvariant`
says where each comes from: `Made(doc)` is that it is the `Document` of a chosen
title, computed from complete staging tables, the enriched episodes and the
names its batch fetched, for some batch. It does not say which batch, and need
not: `NamesFetched` shows that whatever batch a title is in, the name fetched for
anyone its document shows is the one the last file gives, which is where
`LoadInvariant` pays off, since that row of the names file was let in by an
allowlist filled while principals and crew were read (`PeopleCredited`).

What a document holds is then a matter of operators, and `Projection_proofs`
takes these one at a time, for any rows. `PickedIs` and `SortedIs` say what a
WHERE and an ORDER BY return: the same rows, each once, and in order if the
comparison is a weak order. `EpisodeOrder` and `AkaOrder` show that the two
comparisons with NULLS LAST are. From this follow `EpisodesFetched` (a season holds
exactly its episodes), `AkasFetched` and `AkasFiltered` (a region holds exactly
its akas), and `BillingIs` (row_number is a place in `Billed`).

The recursive parts are proved by closed form and least counterexample. `CastIs`
says that `buildCast`, row by row, makes `CastUpTo`: an entry for each person and
category at the place of the first row, with all that is said of it, each name
once. The set of rows after which the two differ is a set of numbers; if it is
not empty, `NaturalSets` gives it a least member, and `CastNext`, one row of
`buildCast`, refutes it. `DedupeIs`, `FlattenIs` and `Concatenation` are proved in
the same way. `CastNext` rests on `MergeIs`: merging two lists that
were already deduplicated keeps the spelling that deduplicating everything at
once would keep.

### Assumptions

The theorems rest on the constants' assumptions, each named in the module that
declares the constants and evaluated by TLC in the runs: positive sizes and
bounds, `NoRun \notin Runs` and its like, at least one worker, and what IMDb
documents of its files (`InputsAssumption`, `ColumnsAssumption`). None of the
theorems uses the fairness of `Spec`.

### Only model-checked

* Liveness (`EventuallyCaughtUp`, `CallReturns`, `LoadEnds`,
  `NobodyWaitsForever`, `ShutdownCompletes`), which needs fairness and ENABLED.

Every invariant and every action property a passing run checks is a theorem, and
so are both refinements, under the assumptions named in the tables above. That a
forced rebuild's torn record is replaced in the end is liveness, and so rests on
`sched_single` alone.

## 5. What is not modelled, and the plan

Not modelled:

* parsing the environment (`config/`): sequential, once, before anything else;
  its results are the modules' constants, its range checks their assumptions;
* `etl/api.go`, `etl_types.go`, `etl/config.go`: wrappers and records;
* parsing of request parameters beyond whether it succeeds, routing and
  middleware; search ranking, done by a database extension;
* popularity (floating point) and the columns of a document that are copied as
  they are (genres, runtime, adult flag);
* what becomes of identifiers that do not parse, which IMDb does not send;
* the memory settings that `set_config` leaves on a pooled connection: they
  change a query's plan, no row and no decision;
* lock queues inside PostgreSQL, and how it makes the transaction of `swap.sql`
  atomic for readers, and the host's disk filling up other than as a
  failing step;
* the fingerprint of a cursor for minimum ratings that agree to four decimals;
* the `KeepStaging` branch of the cleanup is modelled but no run sets it.

Plan: runs of three instances.
