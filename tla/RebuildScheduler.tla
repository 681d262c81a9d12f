------------------------- MODULE RebuildScheduler -------------------------
(***************************************************************************)
(* The rebuild scheduler of the API process: package                       *)
(* api/internal/etl, files scheduler.go and state.go, and the boot         *)
(* sequence of api/cmd/api/main.go with ETL and its schedule enabled.      *)
(*                                                                         *)
(* Several API instances share one PostgreSQL database.  Each polls the    *)
(* upstream IMDb files with HEAD requests, compares what it saw with two   *)
(* manifests stored in the database (etl_source_state: what was last       *)
(* rebuilt, etl_pending_source_state: a change waiting to be confirmed)    *)
(* and rebuilds the live tables under a session-level advisory lock.       *)
(*                                                                         *)
(* A file's (Last-Modified, Content-Length) pair is abstracted to a        *)
(* version number that only grows; 0 stands for "no row" or "no file".     *)
(* A manifest is a function from files to versions.                        *)
(***************************************************************************)
EXTENDS Naturals, FiniteSets

CONSTANTS
  Instances,           \* the API processes that share the database
  NoInstance,          \* nobody: the advisory lock is free
  NFiles,              \* how many upstream files there are (7 in the code)
  MaxVersion,          \* bound: versions of one file upstream ever publishes
  MaxStabilityChecks,  \* manifestStabilityMaxChecks (10 in the code)
  ForceModes,          \* what IMDB_FORCE_REBUILD may be set to
  BootstrapBlocking,   \* ETL_BOOTSTRAP_BLOCKING
  Seeded,              \* the database already holds a recorded dataset
  LockLoss             \* the lock's connection may drop while its owner runs on

ASSUME InstancesAssumption == NoInstance \notin Instances
ASSUME BoundsAssumption ==
  /\ NFiles \in Nat \ {0}
  /\ MaxVersion \in Nat \ {0}
  /\ MaxStabilityChecks \in Nat \ {0}
ASSUME SwitchesAssumption ==
  /\ ForceModes \subseteq BOOLEAN
  /\ BootstrapBlocking \in BOOLEAN
  /\ Seeded \in BOOLEAN
  /\ LockLoss \in BOOLEAN

Files == 1 .. NFiles           \* imdbDatasetFiles, in its order
Manifest == [Files -> 0 .. MaxVersion]
Unset == [f \in Files |-> 0]   \* an empty state table, an empty data directory

(* Pointwise order of manifests: right is at least as recent as left. *)
NotNewer(left, right) == \A f \in Files : left[f] <= right[f]

VARIABLES
  upstream,       \* what the IMDb server offers now
  snapshots,      \* history: every manifest upstream has ever offered as a whole
  calm,           \* no more faults, no more upstream changes
  forceRebuild,   \* cfg.ForceRebuild, which the environment sets for good
  published,      \* the file versions the live tables were built from
  source,         \* table etl_source_state
  pending,        \* table etl_pending_source_state
  holder,         \* the session that owns the advisory lock
  pc,             \* where each instance is in boot or in its rebuild cycle
  serving,        \* main has gone past the bootstrap and started HTTP
  manifest,       \* the local manifest the cycle is working on
  probe,          \* the HEAD answers of the probe under way
  checks,         \* stability checks made by waitForStableManifest
  got,            \* files fetched by the rebuild under way
  data,           \* the instance's data directory, kept across restarts
  pendingAtPoll   \* history: the pending table when the poll began

envVars   == <<upstream, snapshots, calm, forceRebuild>>
stateVars    == <<source, pending>>
localVars    == <<manifest, probe, checks, got, pendingAtPoll>>
vars == <<envVars, published, stateVars, holder, pc, serving, localVars,
          data>>

Probing == {"probe", "stability", "reprobe"}
Rebuilding == {"download", "swap", "record"}
Locked == {"reprobe", "reload"} \cup Rebuilding
Stages == Probing \cup Locked \cup
          {"down", "wait", "compare", "confirm", "savePending", "clearPending",
           "confirmLock", "bootstrapLock"}

HasTitles == \E f \in Files : published[f] # 0
ProbeComplete(i) == \A f \in Files : probe[i][f] # 0

Init ==
  /\ upstream = [f \in Files |-> 1]
  /\ snapshots = {upstream}
  /\ calm = FALSE
  /\ forceRebuild \in ForceModes
  /\ published = IF Seeded THEN upstream ELSE Unset
  /\ source = published
  /\ pending = Unset
  /\ holder = NoInstance
  /\ pc = [i \in Instances |-> "down"]
  /\ serving = [i \in Instances |-> FALSE]
  /\ manifest = [i \in Instances |-> Unset]
  /\ probe = [i \in Instances |-> Unset]
  /\ checks = [i \in Instances |-> 0]
  /\ got = [i \in Instances |-> {}]
  /\ data = [i \in Instances |-> Unset]
  /\ pendingAtPoll = [i \in Instances |-> Unset]

---------------------------------------------------------------------------
(* Operators whose name ends in _Bug are variants of the definition they   *)
(* precede, each the way one slip in the code would change it.  No action  *)
(* uses them: they show which property notices the slip.                   *)
---------------------------------------------------------------------------
(* Control flow shared by the actions *)

Goto(i, stage) ==
  /\ pc' = [pc EXCEPT ![i] = stage]
  /\ UNCHANGED serving

StartProbe(i) == probe' = [probe EXCEPT ![i] = Unset]

(* The cycle's local variables when it starts or when the function returns *)
FreshLocals(i) ==
  /\ manifest' = [manifest EXCEPT ![i] = Unset]
  /\ probe' = [probe EXCEPT ![i] = Unset]
  /\ checks' = [checks EXCEPT ![i] = 0]
  /\ got' = [got EXCEPT ![i] = {}]

(* the deferred releaseETLSchedulerLock is missing *)
ReleaseLock_Bug(i) == holder' = holder

ReleaseLock(i) == holder' = IF holder = i THEN NoInstance ELSE holder

(* The function returns: its locals are gone and the deferred unlock runs. *)
Return(i, stage) ==
  /\ pc' = [pc EXCEPT ![i] = stage]
  /\ FreshLocals(i)
  /\ pendingAtPoll' = [pendingAtPoll EXCEPT ![i] = Unset]
  /\ ReleaseLock(i)

(* return nil: a blocking bootstrap lets main start the scheduler and HTTP. *)
Succeed(i) == Return(i, "wait") /\ serving' = [serving EXCEPT ![i] = TRUE]

(* return err: the scheduler logs it and waits for the next tick, the      *)
(* blocking bootstrap makes main exit.                                     *)
Abort(i) ==
  /\ Return(i, IF serving[i] THEN "wait" ELSE "down")
  /\ UNCHANGED serving

---------------------------------------------------------------------------
(* Boot and polling *)

BeginCycle(i) ==
  /\ FreshLocals(i)
  /\ pendingAtPoll' = [pendingAtPoll EXCEPT ![i] = pending]
  /\ pc' = [pc EXCEPT ![i] = "probe"]
  /\ UNCHANGED <<envVars, published, stateVars, holder, data>>

(* main: run the cycle before HTTP when titles is empty and bootstrap      *)
(* blocks, otherwise hand it to the scheduler and serve at once.           *)
Boot(i) ==
  /\ pc[i] = "down"
  /\ serving' = [serving EXCEPT ![i] = HasTitles \/ ~BootstrapBlocking]
  /\ BeginCycle(i)

Tick(i) ==
  /\ pc[i] = "wait"
  /\ BeginCycle(i)
  /\ UNCHANGED serving

(* One HEAD request of probeIMDbFileStates, files in their fixed order. *)
Head(i, f) ==
  /\ pc[i] \in Probing
  /\ probe[i][f] = 0
  /\ \A g \in Files : g < f => probe[i][g] # 0
  /\ probe' = [probe EXCEPT ![i][f] = upstream[f]]
  /\ UNCHANGED <<envVars, published, stateVars, holder, pc, serving,
                 manifest, checks, got, data, pendingAtPoll>>

(* After the first probe: forced, bootstrap or ordinary cycle. *)
CheckTitles(i) ==
  /\ pc[i] = "probe"
  /\ ProbeComplete(i)
  /\ manifest' = [manifest EXCEPT ![i] = probe[i]]
  /\ StartProbe(i)
  /\ Goto(i, IF forceRebuild THEN "bootstrapLock"
             ELSE IF ~HasTitles THEN "stability" ELSE "compare")
  /\ UNCHANGED <<envVars, published, stateVars, holder, checks, got,
                 data, pendingAtPoll>>

(* one look at the headers is taken for a stable manifest *)
StableManifest_Bug(i) ==
  /\ pc[i] = "stability"
  /\ Goto(i, "bootstrapLock")
  /\ StartProbe(i)
  /\ UNCHANGED <<envVars, published, stateVars, holder, manifest, checks,
                 got, data, pendingAtPoll>>

(* waitForStableManifest: one more probe equals the previous one, ... *)
StableManifest(i) ==
  /\ pc[i] = "stability"
  /\ ProbeComplete(i)
  /\ manifest[i] = probe[i]
  /\ Goto(i, "bootstrapLock")
  /\ StartProbe(i)
  /\ UNCHANGED <<envVars, published, stateVars, holder, manifest, checks,
                 got, data, pendingAtPoll>>

(* the attempt counter allows one check too many *)
UnstableManifest_Bug(i) ==
  /\ pc[i] = "stability"
  /\ ProbeComplete(i)
  /\ manifest[i] # probe[i]
  /\ checks[i] + 1 <= MaxStabilityChecks
  /\ checks' = [checks EXCEPT ![i] = @ + 1]
  /\ manifest' = [manifest EXCEPT ![i] = probe[i]]
  /\ StartProbe(i)
  /\ UNCHANGED <<envVars, published, stateVars, holder, pc, serving, got,
                 data, pendingAtPoll>>

(* ... or differs and the wait goes on, ... *)
UnstableManifest(i) ==
  /\ pc[i] = "stability"
  /\ ProbeComplete(i)
  /\ manifest[i] # probe[i]
  /\ checks[i] + 1 < MaxStabilityChecks
  /\ checks' = [checks EXCEPT ![i] = @ + 1]
  /\ manifest' = [manifest EXCEPT ![i] = probe[i]]
  /\ StartProbe(i)
  /\ UNCHANGED <<envVars, published, stateVars, holder, pc, serving, got,
                 data, pendingAtPoll>>

(* giving up is not reported as an error *)
NeverStable_Bug(i) ==
  /\ pc[i] = "stability"
  /\ ProbeComplete(i)
  /\ manifest[i] # probe[i]
  /\ checks[i] + 1 = MaxStabilityChecks
  /\ Succeed(i)
  /\ UNCHANGED <<envVars, published, stateVars, data>>

(* ... or differs for the last time and the cycle fails. *)
NeverStable(i) ==
  /\ pc[i] = "stability"
  /\ ProbeComplete(i)
  /\ manifest[i] # probe[i]
  /\ checks[i] + 1 = MaxStabilityChecks
  /\ Abort(i)
  /\ UNCHANGED <<envVars, published, stateVars, data>>

---------------------------------------------------------------------------
(* The ordinary cycle *)

(* loadSourceState: nothing to do when the manifest is the recorded one. *)
CompareSource(i) ==
  /\ pc[i] = "compare"
  /\ Goto(i, IF source = manifest[i] THEN "clearPending" ELSE "confirm")
  /\ UNCHANGED <<envVars, published, stateVars, holder, localVars, data>>

(* any pending change confirms this one *)
ComparePending_Bug(i) ==
  /\ pc[i] = "confirm"
  /\ Goto(i, IF pending # Unset THEN "confirmLock" ELSE "savePending")
  /\ UNCHANGED <<envVars, published, stateVars, holder, localVars, data>>

(* loadPendingSourceState: is this the second sighting of the change? *)
ComparePending(i) ==
  /\ pc[i] = "confirm"
  /\ Goto(i, IF pending = manifest[i] THEN "confirmLock" ELSE "savePending")
  /\ UNCHANGED <<envVars, published, stateVars, holder, localVars, data>>

(* savePendingSourceState, one transaction, then return *)
SavePending(i) ==
  /\ pc[i] = "savePending"
  /\ pending' = manifest[i]
  /\ Succeed(i)
  /\ UNCHANGED <<envVars, published, source, data>>

(* the DELETE names the other state table *)
ClearPending_Bug(i) ==
  /\ pc[i] = "clearPending"
  /\ source' = Unset
  /\ Succeed(i)
  /\ UNCHANGED <<envVars, published, pending, data>>

(* clearPendingSourceState, then return *)
ClearPending(i) ==
  /\ pc[i] = "clearPending"
  /\ pending' = Unset
  /\ Succeed(i)
  /\ UNCHANGED <<envVars, published, source, data>>

(* whether pg_try_advisory_lock got the lock is not looked at *)
AcquireLock_Bug(i) ==
  /\ pc[i] \in {"confirmLock", "bootstrapLock"}
  /\ holder' = i
  /\ Goto(i, IF pc[i] = "confirmLock" THEN "reprobe" ELSE "download")
  /\ UNCHANGED <<envVars, published, stateVars, localVars, data>>

(* acquireETLSchedulerLock got the lock: the confirmed change is probed    *)
(* again, a bootstrap or forced rebuild goes straight on.                  *)
AcquireLock(i) ==
  /\ pc[i] \in {"confirmLock", "bootstrapLock"}
  /\ holder = NoInstance
  /\ holder' = i
  /\ Goto(i, IF pc[i] = "confirmLock" THEN "reprobe" ELSE "download")
  /\ UNCHANGED <<envVars, published, stateVars, localVars, data>>

(* The lock is held by another session: skip the rebuild, without error. *)
SkipLocked(i) ==
  /\ pc[i] \in {"confirmLock", "bootstrapLock"}
  /\ holder # NoInstance
  /\ Succeed(i)
  /\ UNCHANGED <<envVars, published, stateVars, data>>

(* the manifest seen before the lock is rebuilt without another look *)
CompareReprobe_Bug(i) ==
  /\ pc[i] = "reprobe"
  /\ Goto(i, "reload")
  /\ StartProbe(i)
  /\ UNCHANGED <<envVars, published, stateVars, holder, manifest, checks,
                 got, data, pendingAtPoll>>

(* The probe made under the lock decides whether the change still holds. *)
CompareReprobe(i) ==
  /\ pc[i] = "reprobe"
  /\ ProbeComplete(i)
  /\ Goto(i, IF manifest[i] = probe[i] THEN "reload" ELSE "savePending")
  /\ manifest' = [manifest EXCEPT ![i] = probe[i]]
  /\ StartProbe(i)
  /\ UNCHANGED <<envVars, published, stateVars, holder, checks, got,
                 data, pendingAtPoll>>

(* the source state read before the lock is trusted *)
ReloadSource_Bug(i) ==
  /\ pc[i] = "reload"
  /\ Goto(i, "download")
  /\ UNCHANGED <<envVars, published, stateVars, holder, localVars, data>>

(* The source state is read again under the lock. *)
ReloadSource(i) ==
  /\ pc[i] = "reload"
  /\ Goto(i, IF source = manifest[i] THEN "clearPending" ELSE "download")
  /\ UNCHANGED <<envVars, published, stateVars, holder, localVars, data>>

---------------------------------------------------------------------------
(* rebuildFromManifestLocked *)

(* ForceDownload is left unset: a file already on disk is kept *)
Download_Bug(i, f) ==
  /\ pc[i] = "download"
  /\ f \notin got[i]
  /\ data' = [data EXCEPT ![i][f] = IF @ = 0 THEN upstream[f] ELSE @]
  /\ got' = [got EXCEPT ![i] = @ \cup {f}]
  /\ UNCHANGED <<envVars, published, stateVars, holder, pc, serving,
                 manifest, probe, checks, pendingAtPoll>>

(* One file fetched by the worker pool.  ForceDownload is set, so a file   *)
(* already in the data directory is replaced.                              *)
Download(i, f) ==
  /\ pc[i] = "download"
  /\ f \notin got[i]
  /\ data' = [data EXCEPT ![i][f] = upstream[f]]
  /\ got' = [got EXCEPT ![i] = @ \cup {f}]
  /\ UNCHANGED <<envVars, published, stateVars, holder, pc, serving,
                 manifest, probe, checks, pendingAtPoll>>

(* the build starts although some downloads never ran *)
Build_Bug(i) ==
  /\ pc[i] = "download"
  /\ Goto(i, "swap")
  /\ UNCHANGED <<envVars, published, stateVars, holder, localVars, data>>

(* Every file is there: staging and the next tables are built from them. *)
Build(i) ==
  /\ pc[i] = "download"
  /\ got[i] = Files
  /\ Goto(i, "swap")
  /\ UNCHANGED <<envVars, published, stateVars, holder, localVars, data>>

(* swap.sql: the tables built from the data directory become live. *)
Swap(i) ==
  /\ pc[i] = "swap"
  /\ published' = data[i]
  /\ Goto(i, "record")
  /\ UNCHANGED <<envVars, stateVars, holder, localVars, data>>

(* the headers are asked for once more after the rebuild and recorded *)
SaveSource_Bug(i) ==
  /\ pc[i] = "record"
  /\ source' = upstream
  /\ Goto(i, "clearPending")
  /\ UNCHANGED <<envVars, published, pending, holder, localVars, data>>

(* saveSourceState: the manifest probed before the download is recorded. *)
SaveSource(i) ==
  /\ pc[i] = "record"
  /\ source' = manifest[i]
  /\ Goto(i, "clearPending")
  /\ UNCHANGED <<envVars, published, pending, holder, localVars, data>>

---------------------------------------------------------------------------
(* Environment *)

(* Upstream replaces one of its files. *)
Publish(f) ==
  /\ ~calm
  /\ upstream[f] < MaxVersion
  /\ upstream' = [upstream EXCEPT ![f] = @ + 1]
  /\ snapshots' = snapshots \cup {upstream'}
  /\ UNCHANGED <<calm, forceRebuild, published, stateVars, holder, pc, serving,
                 localVars, data>>

(* A request, a statement or a script fails: the cycle returns its error.  *)
(* Failing right after a step stands for a step whose effect is kept but   *)
(* whose answer is lost.                                                   *)
Fail(i) ==
  /\ ~calm
  /\ pc[i] \notin {"down", "wait"}
  /\ Abort(i)
  /\ UNCHANGED <<envVars, published, stateVars, data>>

(* The process stops; its database sessions end and the lock with them. *)
Crash(i) ==
  /\ ~calm
  /\ pc[i] # "down"
  /\ Return(i, "down")
  /\ serving' = [serving EXCEPT ![i] = FALSE]
  /\ UNCHANGED <<envVars, published, stateVars, data>>

(* The connection that owns the lock drops; nothing in the rebuild notices. *)
LoseLock(i) ==
  /\ LockLoss
  /\ ~calm
  /\ holder = i
  /\ holder' = NoInstance
  /\ UNCHANGED <<envVars, published, stateVars, pc, serving, localVars,
                 data>>

CalmDown ==
  /\ ~calm
  /\ calm' = TRUE
  /\ UNCHANGED <<upstream, snapshots, forceRebuild, published, stateVars,
                 holder, pc, serving, localVars, data>>

---------------------------------------------------------------------------
Cycle(i) ==
  \/ Boot(i)
  \/ Tick(i)
  \/ \E f \in Files : Head(i, f)
  \/ CheckTitles(i)
  \/ StableManifest(i)
  \/ UnstableManifest(i)
  \/ NeverStable(i)
  \/ CompareSource(i)
  \/ ComparePending(i)
  \/ SavePending(i)
  \/ ClearPending(i)
  \/ AcquireLock(i)
  \/ SkipLocked(i)
  \/ CompareReprobe(i)
  \/ ReloadSource(i)
  \/ \E f \in Files : Download(i, f)
  \/ Build(i)
  \/ Swap(i)
  \/ SaveSource(i)

Next ==
  \/ \E i \in Instances : Cycle(i)
  \/ \E i \in Instances : Fail(i)
  \/ \E i \in Instances : Crash(i)
  \/ \E i \in Instances : LoseLock(i)
  \/ \E f \in Files : Publish(f)
  \/ CalmDown

Spec == Init /\ [][Next]_vars

(* A process that is up keeps running its own code: the ticker fires,      *)
(* requests and statements return.  Nothing is assumed of upstream, of the *)
(* faults, or of whoever starts a process that is down.                    *)
Running(i) == pc[i] # "down" /\ Cycle(i)
Fairness == \A i \in Instances : WF_vars(Running(i))
FairSpec == Spec /\ Fairness

---------------------------------------------------------------------------
(* Types: manifests are whole, the lock has at most one owner. *)
TypeOK ==
  /\ upstream \in [Files -> 1 .. MaxVersion]
  /\ snapshots \subseteq Manifest
  /\ calm \in BOOLEAN
  /\ forceRebuild \in BOOLEAN
  /\ published \in Manifest
  /\ source \in Manifest
  /\ pending \in Manifest
  /\ holder \in Instances \cup {NoInstance}
  /\ pc \in [Instances -> Stages]
  /\ serving \in [Instances -> BOOLEAN]
  /\ manifest \in [Instances -> Manifest]
  /\ probe \in [Instances -> Manifest]
  /\ checks \in [Instances -> 0 .. MaxStabilityChecks - 1]
  /\ got \in [Instances -> SUBSET Files]
  /\ data \in [Instances -> Manifest]
  /\ pendingAtPoll \in [Instances -> Manifest]

(* At most one instance is between taking the advisory lock and recording  *)
(* its rebuild, so two rebuilds never share the staging and next tables.   *)
RebuildsExclude ==
  \A i, j \in Instances : pc[i] \in Rebuilding /\ pc[j] \in Rebuilding => i = j

(* The recorded manifest never claims more than the live tables hold: when *)
(* a poll finds the recorded manifest equal to upstream and skips the      *)
(* rebuild, the live data really is that recent.  The manifest is probed   *)
(* before the download, the download replaces old files, and the manifest  *)
(* is recorded after the swap, for this to hold.                           *)
RecordedNotAhead == NotNewer(source, published)

(* Nothing yet, or what upstream has offered as a whole *)
Offered(m) == m = Unset \/ m \in snapshots

(* A recorded manifest is one upstream once offered as a whole.  HEADs are *)
(* sent one file at a time, so one probe can mix two publications; it is   *)
(* the second, equal probe that makes the manifest real.  A forced rebuild *)
(* does without, and its torn manifests are only replaced later.           *)
RecordedIsReal == ~forceRebuild => Offered(source)

(* On a database that holds a dataset, the rebuild under way is for a      *)
(* manifest nobody has recorded: source state is read again under the      *)
(* lock, so instances that confirmed the same change do not redo it.       *)
NoRedundantRebuild ==
  \A i \in Instances : pc[i] \in Rebuilding => source # manifest[i]

(* With a blocking bootstrap and one instance, HTTP starts only once       *)
(* titles has rows.                                                        *)
ServesTitles == \A i \in Instances : serving[i] => HasTitles

(* With several instances a blocking bootstrap that finds the lock taken   *)
(* returns without error, so that its process serves before titles has a   *)
(* row; it only ever does so while another instance is at the rebuild that *)
(* will fill it, never because of a lock nobody works under.               *)
EmptyOnlyDuringBootstrap ==
  [][\A i \in Instances :
       ~HasTitles /\ ~serving[i] /\ serving'[i] =>
         \E j \in Instances \ {i} : pc[j] \in Rebuilding]_vars

(* No step replaces live data by older data, whatever files the instance   *)
(* had on disk and whichever manifest it had seen.                         *)
PublishedNeverRegresses == [][NotNewer(published, published')]_vars

(* No step replaces the recorded manifest by an older one, as long as two  *)
(* instances do not bootstrap the same empty database.                     *)
SourceNeverRegresses == [][NotNewer(source, source')]_vars

(* A rebuild of an existing dataset is started by a poll that began when   *)
(* its manifest was already recorded as pending (README, update rule).     *)
ConfirmedByLaterPoll ==
  [][\A i \in Instances :
       pc[i] = "reload" /\ pc'[i] = "download" => pendingAtPoll[i] = manifest[i]]_vars

(* Why the two properties above hold, as one inductive invariant.  Work    *)
(* that needs the lock is done by its holder; ...                          *)
LockDiscipline == \A i \in Instances : pc[i] \in Locked => holder = i

(* ... nothing seen or fetched is newer than upstream; and between the     *)
(* download and the record the files of the rebuild under way are at least *)
(* as recent as both its manifest and the live tables.                     *)
FreshAt(i) ==
  /\ NotNewer(manifest[i], upstream)
  /\ NotNewer(probe[i], upstream)
  /\ NotNewer(data[i], upstream)
  /\ pc[i] \in {"download", "swap"} =>
       \A f \in got[i] : /\ manifest[i][f] <= data[i][f]
                         /\ published[f] <= data[i][f]
  /\ pc[i] = "swap" => got[i] = Files
  /\ pc[i] = "record" => NotNewer(manifest[i], published)
  /\ pc[i] \notin Rebuilding \cup {"clearPending"} => got[i] = {}

Freshness ==
  /\ NotNewer(published, upstream)
  /\ NotNewer(source, published)
  /\ \A i \in Instances : FreshAt(i)

RebuildInvariant ==
  /\ TypeOK
  /\ LockDiscipline
  /\ Freshness

(* Why a recorded manifest is real.  While a second probe runs there is a  *)
(* snapshot - the one upstream offered when that probe began - between the *)
(* first probe's answers and the second's, so equal answers are that       *)
(* snapshot; later stages keep it.                                         *)
AnchoredAt(i) ==
  /\ pc[i] \in {"stability", "reprobe"} =>
       \E s \in snapshots : /\ NotNewer(manifest[i], s)
                            /\ NotNewer(s, upstream)
                            /\ \A f \in Files : probe[i][f] # 0 => s[f] <= probe[i][f]
  /\ pc[i] \in {"compare", "confirm", "confirmLock"} => probe[i] = Unset
  /\ pc[i] \in {"bootstrapLock", "reload"} \cup Rebuilding =>
       manifest[i] \in snapshots

Anchored ==
  /\ upstream \in snapshots
  /\ \A i \in Instances : NotNewer(manifest[i], upstream) /\ NotNewer(probe[i], upstream)
  /\ \A i \in Instances : AnchoredAt(i)
  /\ Offered(source)

(* The scheduler implements the abstract dataset publication. *)
Abstract == INSTANCE Publication
ImplementsPublication == Abstract!Spec

CaughtUp == source = upstream /\ published = upstream

(* Once upstream and the environment settle, and as long as some process   *)
(* is up or started again, the live tables and the recorded manifest reach *)
(* upstream's latest files and stay there, whatever faults and half-done   *)
(* cycles came before.                                                     *)
SomeoneUp == \E i \in Instances : pc[i] # "down"
EventuallyCaughtUp == <>calm /\ []<>SomeoneUp => <>[]CaughtUp
===========================================================================
