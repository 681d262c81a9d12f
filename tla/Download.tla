------------------------------ MODULE Download ------------------------------
(***************************************************************************)
(* downloadDatasets and downloadFile of api/internal/etl/download.go: a    *)
(* pool of workers takes file names from a closed, buffered channel, each  *)
(* writes a temporary file and renames it over the destination.  The first *)
(* error is kept in a channel of capacity one and cancels the others; the  *)
(* caller waits for all workers and then looks at that channel.            *)
(*                                                                         *)
(* runETL, the caller, goes on to the first SQL script and the load when   *)
(* it is answered nil.  The data directory survives the process: calls     *)
(* follow each other, some cut short by the process dying at any step.     *)
(***************************************************************************)
EXTENDS Naturals, FiniteSets

CONSTANTS
  Files,     \* imdbDatasetFiles
  Workers,   \* ETL_DOWNLOAD_CONCURRENCY of them
  MaxCalls   \* bound: calls of downloadDatasets

None == "none"               \* a worker has no file

(* clampPositive and min leave at least one worker. *)
ASSUME DownloadAssumption ==
  /\ IsFiniteSet(Files) /\ IsFiniteSet(Workers)
  /\ Workers # {}
  /\ None \notin Files
  /\ MaxCalls \in Nat \ {0}

(* Operators whose name ends in _Bug are variants of the definition they   *)
(* precede, each the way one slip in the code would change it.  No action  *)
(* uses them: they show which property notices the slip.                   *)

VARIABLES
  call,        \* number of the call under way; what upstream serves to it
  force,       \* cfg.ForceDownload: set by the scheduler, an option otherwise
  phase,       \* runETL: "out", "waiting" in wg.Wait, "returned", "loading"
  answer,      \* what the last call returned: "none", "nil" or "error"
  jobs,        \* file names still in the channel
  pc,          \* each worker's step
  file,        \* the file each worker is on
  errCh,       \* an error is in the channel
  cancelled,   \* workerCtx is done because a worker called cancel
  stopped,     \* the caller's own context is done
  tmp,         \* contents of each file's temporary
  disk         \* contents of each destination

vars == <<call, force, phase, answer, jobs, pc, file, errCh, cancelled, stopped, tmp, disk>>

Idle == "idle"
NoFile == <<"nothing", 0>>   \* no file under that name
Partial(n) == <<"partial", n>>
Whole(n) == <<"whole", n>>
Contents ==
  {NoFile} \cup UNION {{Partial(n), Whole(n)} : n \in 1 .. MaxCalls}

OnFile == {"stat", "get", "write", "remove", "rename"}
WorkerStages == {Idle, "take", "report", "done"} \cup OnFile
CtxDone == cancelled \/ stopped

Init ==
  /\ call = 0
  /\ force = FALSE
  /\ phase = "out"
  /\ answer = "none"
  /\ jobs = {}
  /\ pc = [w \in Workers |-> Idle]
  /\ file = [w \in Workers |-> None]
  /\ errCh = FALSE
  /\ cancelled = FALSE
  /\ stopped = FALSE
  /\ tmp = [f \in Files |-> NoFile]
  /\ disk = [f \in Files |-> NoFile]

Goto(w, stage) == pc' = [pc EXCEPT ![w] = stage]

(* downloadDatasets is called, with a context that is not done: the        *)
(* channel is filled and closed, then the workers start.                   *)
Call ==
  /\ phase \in {"out", "loading"}
  /\ call < MaxCalls
  /\ call' = call + 1
  /\ force' \in BOOLEAN
  /\ phase' = "waiting"
  /\ answer' = "none"
  /\ jobs' = Files
  /\ pc' = [w \in Workers |-> "take"]
  /\ errCh' = FALSE
  /\ cancelled' = FALSE
  /\ stopped' = FALSE
  /\ UNCHANGED <<file, tmp, disk>>

NoJob_Bug(w) ==   \* a receive from the closed channel is taken for a file
  /\ pc[w] = "take"
  /\ jobs = {}
  /\ Goto(w, "stat")
  /\ UNCHANGED <<call, force, phase, answer, jobs, file, errCh, cancelled, stopped, tmp, disk>>

(* for file := range jobs: the channel is empty, ...                       *)
NoJob(w) ==
  /\ pc[w] = "take"
  /\ jobs = {}
  /\ Goto(w, "done")
  /\ UNCHANGED <<call, force, phase, answer, jobs, file, errCh, cancelled, stopped, tmp, disk>>

(* ... or a file is taken, and dropped when the context is already done.   *)
TakeJob(w) ==
  /\ pc[w] = "take"
  /\ \E f \in jobs :
       /\ jobs' = jobs \ {f}
       /\ IF CtxDone
          THEN Goto(w, "done") /\ UNCHANGED file
          ELSE Goto(w, "stat") /\ file' = [file EXCEPT ![w] = f]
  /\ UNCHANGED <<call, force, phase, answer, errCh, cancelled, stopped, tmp, disk>>

(* Without force a file that exists and is not empty is kept. *)
Stat(w) ==
  /\ pc[w] = "stat"
  /\ IF ~force /\ disk[file[w]] # NoFile
     THEN Goto(w, "take") /\ file' = [file EXCEPT ![w] = None]
     ELSE Goto(w, "get") /\ UNCHANGED file
  /\ UNCHANGED <<call, force, phase, answer, jobs, errCh, cancelled, stopped, tmp, disk>>

(* The request, refused once the context is done, is answered; an old      *)
(* temporary is removed and a new one created.                             *)
Get(w) ==
  /\ pc[w] = "get"
  /\ ~CtxDone
  /\ tmp' = [tmp EXCEPT ![file[w]] = Partial(call)]
  /\ Goto(w, "write")
  /\ UNCHANGED <<call, force, phase, answer, jobs, file, errCh, cancelled, stopped, disk>>

Write_Bug(w) ==   \* the body is copied straight into the destination
  /\ pc[w] = "write"
  /\ tmp' = [tmp EXCEPT ![file[w]] = Whole(call)]
  /\ disk' = [disk EXCEPT ![file[w]] = Partial(call)]
  /\ Goto(w, "remove")
  /\ UNCHANGED <<call, force, phase, answer, jobs, file, errCh, cancelled, stopped>>

(* io.Copy reaches the end of the body and the file is closed. *)
Write(w) ==
  /\ pc[w] = "write"
  /\ tmp' = [tmp EXCEPT ![file[w]] = Whole(call)]
  /\ Goto(w, "remove")
  /\ UNCHANGED <<call, force, phase, answer, jobs, file, errCh, cancelled, stopped, disk>>

Remove(w) ==
  /\ pc[w] = "remove"
  /\ disk' = [disk EXCEPT ![file[w]] = NoFile]
  /\ Goto(w, "rename")
  /\ UNCHANGED <<call, force, phase, answer, jobs, file, errCh, cancelled, stopped, tmp>>

Rename(w) ==
  /\ pc[w] = "rename"
  /\ disk' = [disk EXCEPT ![file[w]] = tmp[file[w]]]
  /\ tmp' = [tmp EXCEPT ![file[w]] = NoFile]
  /\ Goto(w, "take")
  /\ file' = [file EXCEPT ![w] = None]
  /\ UNCHANGED <<call, force, phase, answer, jobs, errCh, cancelled, stopped>>

(* Any of these steps fails, the request and the copy also because the     *)
(* context is done; the deferred os.Remove takes the temporary away.       *)
FileError(w) ==
  /\ pc[w] \in {"get", "write", "remove", "rename"}
  /\ tmp' = IF pc[w] = "get" THEN tmp ELSE [tmp EXCEPT ![file[w]] = NoFile]
  /\ Goto(w, "report")
  /\ file' = [file EXCEPT ![w] = None]
  /\ UNCHANGED <<call, force, phase, answer, jobs, errCh, cancelled, stopped, disk>>

Report_Bug(w) ==   \* the error is sent without a default case
  /\ pc[w] = "report"
  /\ ~errCh
  /\ errCh' = TRUE
  /\ cancelled' = TRUE
  /\ Goto(w, "done")
  /\ UNCHANGED <<call, force, phase, answer, jobs, file, stopped, tmp, disk>>

(* The first error goes into the channel, later ones are dropped; either   *)
(* way the other workers are cancelled.                                    *)
Report(w) ==
  /\ pc[w] = "report"
  /\ errCh' = TRUE
  /\ cancelled' = TRUE
  /\ Goto(w, "done")
  /\ UNCHANGED <<call, force, phase, answer, jobs, file, stopped, tmp, disk>>

Return_Bug ==   \* the caller does not wait for its workers
  /\ phase = "waiting"
  /\ jobs = {}
  /\ answer' = IF errCh THEN "error" ELSE "nil"
  /\ phase' = "returned"
  /\ UNCHANGED <<call, force, jobs, pc, file, errCh, cancelled, stopped, tmp, disk>>

(* After wg.Wait the error channel decides.  A context that was cancelled  *)
(* is not an error of its own: only another cause, which never arises for  *)
(* it, would be returned.                                                  *)
Return ==
  /\ phase = "waiting"
  /\ \A w \in Workers : pc[w] = "done"
  /\ answer' = IF errCh THEN "error" ELSE "nil"
  /\ phase' = "returned"
  /\ UNCHANGED <<call, force, jobs, pc, file, errCh, cancelled, stopped, tmp, disk>>

Proceed_Bug ==   \* a nil answer is enough, the context is not looked at
  /\ phase = "returned"
  /\ phase' = IF answer = "nil" THEN "loading" ELSE "out"
  /\ pc' = [w \in Workers |-> Idle]
  /\ UNCHANGED <<call, force, answer, jobs, file, errCh, cancelled, stopped, tmp, disk>>

(* An error ends runETL.  After nil it runs schema.sql, for which it       *)
(* acquires a connection under its context: one that is done is refused,   *)
(* and nothing is loaded.                                                  *)
Proceed ==
  /\ phase = "returned"
  /\ phase' = IF answer = "nil" /\ ~stopped THEN "loading" ELSE "out"
  /\ pc' = [w \in Workers |-> Idle]
  /\ UNCHANGED <<call, force, answer, jobs, file, errCh, cancelled, stopped, tmp, disk>>

(* SIGTERM cancels the caller's context. *)
Stop ==
  /\ phase \in {"waiting", "returned"}
  /\ ~stopped
  /\ stopped' = TRUE
  /\ UNCHANGED <<call, force, phase, answer, jobs, pc, file, errCh, cancelled, tmp, disk>>

(* The process dies: only the directory is left. *)
Crash ==
  /\ phase # "out"
  /\ phase' = "out"
  /\ jobs' = {}
  /\ pc' = [w \in Workers |-> Idle]
  /\ file' = [w \in Workers |-> None]
  /\ errCh' = FALSE
  /\ cancelled' = FALSE
  /\ stopped' = FALSE
  /\ answer' = "none"
  /\ UNCHANGED <<call, force, tmp, disk>>

Step(w) ==
  \/ NoJob(w)
  \/ TakeJob(w)
  \/ Stat(w)
  \/ Get(w)
  \/ Write(w)
  \/ Remove(w)
  \/ Rename(w)
  \/ FileError(w)
  \/ Report(w)

Next ==
  \/ \E w \in Workers : Step(w)
  \/ Call
  \/ Return
  \/ Proceed
  \/ Stop
  \/ Crash

Spec == Init /\ [][Next]_vars

(* Goroutines run, and requests end: the HTTP client has a timeout. *)
FairSpec == Spec /\ WF_vars(Return) /\ \A w \in Workers : WF_vars(Step(w))

---------------------------------------------------------------------------
TypeOK ==
  /\ call \in 0 .. MaxCalls
  /\ force \in BOOLEAN
  /\ phase \in {"out", "waiting", "returned", "loading"}
  /\ answer \in {"none", "nil", "error"}
  /\ jobs \subseteq Files
  /\ pc \in [Workers -> WorkerStages]
  /\ file \in [Workers -> Files \cup {None}]
  /\ \A w \in Workers : pc[w] \in OnFile <=> file[w] # None
  /\ errCh \in BOOLEAN /\ cancelled \in BOOLEAN /\ stopped \in BOOLEAN
  /\ tmp \in [Files -> Contents]
  /\ disk \in [Files -> Contents]

(* A file under its own name is always complete, whatever call or crash    *)
(* left it there: a later call without force may trust what it finds.      *)
NeverPartial == \A f \in Files : \A n \in 1 .. MaxCalls : disk[f] # Partial(n)

(* A call that returns nil although nobody cancelled it has left every     *)
(* file on disk, and under force every file is the one it downloaded.      *)
NilMeansComplete ==
  phase = "returned" /\ answer = "nil" /\ ~stopped =>
    \A f \in Files : IF force THEN disk[f] = Whole(call) ELSE disk[f] # NoFile

(* What is loaded is complete: runETL goes on only with every file on      *)
(* disk, under force the ones it downloaded, although a call that was      *)
(* cancelled while its workers dropped files may be answered nil.          *)
LoadsOnlyComplete ==
  phase = "loading" =>
    \A f \in Files : IF force THEN disk[f] = Whole(call) ELSE disk[f] # NoFile

(* Every call comes back: several failing workers never wait for one       *)
(* another or for the caller, and the caller waits for no stuck worker.    *)
CallReturns == phase = "waiting" ~> phase # "waiting"
=============================================================================
