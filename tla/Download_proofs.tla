-------------------------- MODULE Download_proofs --------------------------
(* Theorems about Download, for any files, any number of workers and any   *)
(* number of calls.                                                        *)
EXTENDS Download, TLAPS

---------------------------------------------------------------------------
(* The inductive invariant *)

(* Where the workers can be in each phase of the caller *)
Places ==
  /\ phase \in {"out", "loading"} => \A w \in Workers : pc[w] = Idle
  /\ phase = "waiting" => \A w \in Workers : pc[w] # Idle
  /\ phase = "returned" => \A w \in Workers : pc[w] = "done"
  /\ phase # "out" => call > 0

(* A file is in the channel, with one worker, or behind it.                *)
Exclusive ==
  /\ \A w \in Workers : file[w] \notin jobs
  /\ \A w, v \in Workers : file[w] = file[v] /\ file[w] # None => w = v

(* What is renamed is what this call downloaded.                           *)
Ready ==
  \A w \in Workers : pc[w] \in {"remove", "rename"} => tmp[file[w]] = Whole(call)

(* A cancelled call has an error to return.                                *)
Cause ==
  /\ cancelled => errCh
  /\ phase = "returned" => answer = IF errCh THEN "error" ELSE "nil"

(* The call is done with a file. *)
Settled(f) == IF force THEN disk[f] = Whole(call) ELSE disk[f] # NoFile

(* As long as nothing went wrong, no file is forgotten: it is in the       *)
(* channel, with a worker, settled, or some worker is about to report.     *)
Accounted(f) ==
  \/ f \in jobs
  \/ \E w \in Workers : file[w] = f
  \/ \E w \in Workers : pc[w] = "report"
  \/ Settled(f)

Progress ==
  phase \in {"waiting", "returned"} /\ ~stopped /\ ~errCh =>
    /\ \A f \in Files : Accounted(f)
    /\ \A w \in Workers : pc[w] = "done" => jobs = {}

DownloadInvariant ==
  TypeOK /\ Places /\ Exclusive /\ Ready /\ Cause /\ NeverPartial /\ Progress

---------------------------------------------------------------------------
(* Contents of files and the steps of workers *)

LEMMA FileContents ==
  /\ NoFile \in Contents
  /\ \A n \in 1 .. MaxCalls : Partial(n) \in Contents /\ Whole(n) \in Contents
  /\ \A n, m \in Nat : Whole(n) # Partial(m)
  /\ \A n \in Nat : NoFile # Partial(n) /\ NoFile # Whole(n)
  <1>1. NoFile \in Contents
    BY DEF Contents
  <1>2. ASSUME NEW n \in 1 .. MaxCalls
        PROVE  Partial(n) \in Contents /\ Whole(n) \in Contents
    BY DEF Contents
  <1>3. \A n, m \in Nat : Whole(n) # Partial(m)
    BY DEF Whole, Partial
  <1>4. \A n \in Nat : NoFile # Partial(n) /\ NoFile # Whole(n)
    BY DEF Whole, Partial, NoFile
  <1> QED BY <1>1, <1>2, <1>3, <1>4

(* A worker outside "idle" works for a call that has a number.             *)
LEMMA CallNumber ==
  ASSUME TypeOK, Places, NEW w \in Workers, pc[w] # Idle
  PROVE  call \in 1 .. MaxCalls /\ phase # "out"
  BY DownloadAssumption DEF TypeOK, Places

(* A worker at a file is in a call that waits for it. *)
LEMMA BusyWaiting ==
  ASSUME TypeOK, Places, NEW w \in Workers, pc[w] # Idle, pc[w] # "done"
  PROVE  phase = "waiting" /\ call \in 1 .. MaxCalls
  <1>1. call \in 1 .. MaxCalls /\ phase # "out"
    BY CallNumber
  <1> QED BY <1>1 DEF TypeOK, Places

LEMMA NoJobKeeps ==
  ASSUME DownloadInvariant, NEW w \in Workers, NoJob(w)
  PROVE  DownloadInvariant'
  <1> USE DEF DownloadInvariant, NoJob, Goto
  <1>1. phase = "waiting" /\ call \in 1 .. MaxCalls
    BY BusyWaiting DEF Idle
  <1>2. TypeOK'
    BY DEF TypeOK, WorkerStages, OnFile
  <1>3. Places'
    BY <1>1 DEF TypeOK, Places, Idle
  <1>4. Exclusive' /\ Ready' /\ Cause' /\ NeverPartial'
    BY DEF TypeOK, Exclusive, Ready, Cause, NeverPartial
  <1>5. Progress'
    BY DEF TypeOK, Progress, Accounted, Settled
  <1> QED BY <1>2, <1>3, <1>4, <1>5

LEMMA TakeJobKeeps ==
  ASSUME DownloadInvariant, NEW w \in Workers, TakeJob(w)
  PROVE  DownloadInvariant'
  <1> USE DEF DownloadInvariant, TakeJob, Goto
  <1>1. phase = "waiting" /\ call \in 1 .. MaxCalls
    BY BusyWaiting DEF Idle
  <1>2. PICK f \in jobs : /\ jobs' = jobs \ {f}
                          /\ IF CtxDone
                             THEN Goto(w, "done") /\ UNCHANGED file
                             ELSE Goto(w, "stat") /\ file' = [file EXCEPT ![w] = f]
    OBVIOUS
  <1>3. file[w] = None
    BY DEF TypeOK, OnFile
  <1>4. TypeOK'
    BY <1>2, <1>3, DownloadAssumption DEF TypeOK, WorkerStages, OnFile
  <1>5. Places'
    BY <1>1, <1>2 DEF TypeOK, Places, Idle
  <1>6. Exclusive'
    BY <1>2, <1>3 DEF TypeOK, Exclusive
  <1>7. Ready' /\ Cause' /\ NeverPartial'
    BY <1>1, <1>2 DEF TypeOK, Ready, Cause, NeverPartial
  <1>8. Progress'
    <2> SUFFICES ASSUME ~stopped, ~errCh
                 PROVE  /\ \A g \in Files : Accounted(g)'
                        /\ \A v \in Workers : pc'[v] = "done" => jobs' = {}
      BY DEF Progress
    <2>1. ~CtxDone
      BY DEF CtxDone, Cause
    <2>2. /\ \A g \in Files : Accounted(g)
          /\ \A v \in Workers : pc[v] # "done"
      BY <1>1, <1>2 DEF Progress
    <2>3. /\ jobs' = jobs \ {f}
          /\ pc' = [pc EXCEPT ![w] = "stat"]
          /\ file' = [file EXCEPT ![w] = f]
      BY <1>2, <2>1
    <2> QED BY <1>3, <2>2, <2>3, DownloadAssumption DEF TypeOK, Accounted, Settled
  <1> QED BY <1>4, <1>5, <1>6, <1>7, <1>8

LEMMA StatKeeps ==
  ASSUME DownloadInvariant, NEW w \in Workers, Stat(w)
  PROVE  DownloadInvariant'
  <1> USE DEF DownloadInvariant, Stat, Goto
  <1>1. phase = "waiting" /\ call \in 1 .. MaxCalls
    BY BusyWaiting DEF Idle
  <1>2. TypeOK'
    BY DEF TypeOK, WorkerStages, OnFile
  <1>3. Places'
    BY <1>1 DEF TypeOK, Places, Idle
  <1>4. Exclusive'
    BY DownloadAssumption DEF TypeOK, Exclusive
  <1>5. Ready' /\ Cause' /\ NeverPartial'
    BY <1>1 DEF TypeOK, Ready, Cause, NeverPartial
  <1>6. Progress'
    BY DEF TypeOK, Progress, Accounted, Settled
  <1> QED BY <1>2, <1>3, <1>4, <1>5, <1>6

LEMMA GetKeeps ==
  ASSUME DownloadInvariant, NEW w \in Workers, Get(w)
  PROVE  DownloadInvariant'
  <1> USE DEF DownloadInvariant, Get, Goto
  <1>1. phase = "waiting" /\ call \in 1 .. MaxCalls
    BY BusyWaiting DEF Idle
  <1>2. file[w] \in Files /\ file[w] # None
    BY DEF TypeOK, OnFile
  <1>3. TypeOK'
    BY <1>1, <1>2, FileContents DEF TypeOK, WorkerStages, OnFile
  <1>4. Places'
    BY <1>1 DEF TypeOK, Places, Idle
  <1>5. Exclusive' /\ Cause' /\ NeverPartial'
    BY <1>1 DEF TypeOK, Exclusive, Cause, NeverPartial
  <1>6. Ready'
    BY <1>2 DEF TypeOK, Ready, Exclusive, OnFile
  <1>7. Progress'
    BY DEF TypeOK, Progress, Accounted, Settled
  <1> QED BY <1>3, <1>4, <1>5, <1>6, <1>7

LEMMA WriteKeeps ==
  ASSUME DownloadInvariant, NEW w \in Workers, Write(w)
  PROVE  DownloadInvariant'
  <1> USE DEF DownloadInvariant, Write, Goto
  <1>1. phase = "waiting" /\ call \in 1 .. MaxCalls
    BY BusyWaiting DEF Idle
  <1>2. file[w] \in Files /\ file[w] # None
    BY DEF TypeOK, OnFile
  <1>3. TypeOK'
    BY <1>1, <1>2, FileContents DEF TypeOK, WorkerStages, OnFile
  <1>4. Places'
    BY <1>1 DEF TypeOK, Places, Idle
  <1>5. Exclusive' /\ Cause' /\ NeverPartial'
    BY <1>1 DEF TypeOK, Exclusive, Cause, NeverPartial
  <1>6. Ready'
    BY <1>2 DEF TypeOK, Ready, Exclusive, OnFile
  <1>7. Progress'
    BY DEF TypeOK, Progress, Accounted, Settled
  <1> QED BY <1>3, <1>4, <1>5, <1>6, <1>7

(* The file that is removed stays with its worker. *)
LEMMA RemoveKeeps ==
  ASSUME DownloadInvariant, NEW w \in Workers, Remove(w)
  PROVE  DownloadInvariant'
  <1> USE DEF DownloadInvariant, Remove, Goto
  <1>1. phase = "waiting" /\ call \in 1 .. MaxCalls
    BY BusyWaiting DEF Idle
  <1>2. file[w] \in Files /\ file[w] # None
    BY DEF TypeOK, OnFile
  <1>3. TypeOK'
    BY <1>1, <1>2, FileContents DEF TypeOK, WorkerStages, OnFile
  <1>4. Places'
    BY <1>1 DEF TypeOK, Places, Idle
  <1>5. Exclusive' /\ Cause' /\ Ready'
    BY <1>1 DEF TypeOK, Exclusive, Cause, Ready
  <1>6. NeverPartial'
    BY <1>2, FileContents DEF TypeOK, NeverPartial
  <1>7. Progress'
    BY <1>2 DEF TypeOK, Progress, Accounted, Settled
  <1> QED BY <1>3, <1>4, <1>5, <1>6, <1>7

(* The rename puts a complete file of this call in place. *)
LEMMA RenameKeeps ==
  ASSUME DownloadInvariant, NEW w \in Workers, Rename(w)
  PROVE  DownloadInvariant'
  <1> USE DEF DownloadInvariant, Rename, Goto
  <1>1. phase = "waiting" /\ call \in 1 .. MaxCalls
    BY BusyWaiting DEF Idle
  <1>2. file[w] \in Files /\ file[w] # None
    BY DEF TypeOK, OnFile
  <1>3. tmp[file[w]] = Whole(call)
    BY DEF Ready
  <1>4. TypeOK'
    BY <1>1, <1>2, <1>3, FileContents DEF TypeOK, WorkerStages, OnFile
  <1>5. Places'
    BY <1>1 DEF TypeOK, Places, Idle
  <1>6. Exclusive' /\ Cause'
    BY <1>1, DownloadAssumption DEF TypeOK, Exclusive, Cause
  <1>7. Ready'
    BY <1>2 DEF TypeOK, Ready, Exclusive, OnFile
  <1>8. NeverPartial'
    <2>1. disk' = [disk EXCEPT ![file[w]] = Whole(call)]
      BY <1>3
    <2>2. \A n \in 1 .. MaxCalls : Whole(call) # Partial(n)
      BY <1>1, FileContents
    <2> QED BY <1>2, <2>1, <2>2 DEF TypeOK, NeverPartial
  <1>9. Progress'
    <2>1. PICK g \in Files : g = file[w]
      BY <1>2
    <2>2. Settled(g)'
      <3>1. disk'[g] = Whole(call) /\ Whole(call) # NoFile
        BY <1>1, <1>3, <2>1, FileContents DEF TypeOK
      <3> QED BY <3>1 DEF Settled
    <2>3. \A f \in Files \ {g} : Settled(f)' = Settled(f)
      BY <2>1 DEF TypeOK, Settled
    <2> QED BY <1>2, <2>1, <2>2, <2>3 DEF TypeOK, Progress, Accounted
  <1> QED BY <1>4, <1>5, <1>6, <1>7, <1>8, <1>9

LEMMA FileErrorKeeps ==
  ASSUME DownloadInvariant, NEW w \in Workers, FileError(w)
  PROVE  DownloadInvariant'
  <1> USE DEF DownloadInvariant, FileError, Goto
  <1>1. phase = "waiting" /\ call \in 1 .. MaxCalls
    BY BusyWaiting DEF Idle
  <1>2. file[w] \in Files /\ file[w] # None
    BY DEF TypeOK, OnFile
  <1>3. TypeOK'
    BY <1>1, <1>2, FileContents DEF TypeOK, WorkerStages, OnFile
  <1>4. Places'
    BY <1>1 DEF TypeOK, Places, Idle
  <1>5. Exclusive' /\ Cause' /\ NeverPartial'
    BY <1>1, DownloadAssumption DEF TypeOK, Exclusive, Cause, NeverPartial
  <1>6. Ready'
    BY <1>2 DEF TypeOK, Ready, Exclusive, OnFile
  <1>7. Progress'
    BY DEF TypeOK, Progress, Accounted, Settled
  <1> QED BY <1>3, <1>4, <1>5, <1>6, <1>7

LEMMA ReportKeeps ==
  ASSUME DownloadInvariant, NEW w \in Workers, Report(w)
  PROVE  DownloadInvariant'
  <1> USE DEF DownloadInvariant, Report, Goto
  <1>1. phase = "waiting" /\ call \in 1 .. MaxCalls
    BY BusyWaiting DEF Idle
  <1>2. TypeOK'
    BY DEF TypeOK, WorkerStages, OnFile
  <1>3. Places'
    BY <1>1 DEF TypeOK, Places, Idle
  <1>4. Exclusive' /\ Ready' /\ Cause' /\ NeverPartial' /\ Progress'
    BY <1>1 DEF TypeOK, Exclusive, Ready, Cause, NeverPartial, Progress
  <1> QED BY <1>2, <1>3, <1>4

---------------------------------------------------------------------------
(* The caller's steps *)

(* Every worker of the last call is gone: no file is with anyone.          *)
LEMMA CallKeeps ==
  ASSUME DownloadInvariant, Call
  PROVE  DownloadInvariant'
  <1> USE DEF DownloadInvariant, Call
  <1>1. \A w \in Workers : file[w] = None
    BY DEF TypeOK, Places, OnFile, Idle
  <1>2. call' \in 1 .. MaxCalls
    BY DownloadAssumption DEF TypeOK
  <1>3. TypeOK'
    <2>1. pc' \in [Workers -> WorkerStages]
      BY DEF WorkerStages
    <2>2. \A w \in Workers : pc'[w] \in OnFile <=> file'[w] # None
      BY <1>1 DEF OnFile
    <2>3. call' \in 0 .. MaxCalls
      BY <1>2
    <2> QED BY <2>1, <2>2, <2>3 DEF TypeOK
  <1>4. Places'
    BY <1>2 DEF Places, Idle
  <1>5. Exclusive'
    BY <1>1, DownloadAssumption DEF Exclusive
  <1>6. Ready' /\ Cause' /\ NeverPartial'
    BY DEF Ready, Cause, NeverPartial
  <1>7. Progress'
    BY DEF Progress, Accounted
  <1> QED BY <1>3, <1>4, <1>5, <1>6, <1>7

LEMMA ReturnKeeps ==
  ASSUME DownloadInvariant, Return
  PROVE  DownloadInvariant'
  <1> USE DEF DownloadInvariant, Return
  <1>1. TypeOK'
    BY DEF TypeOK
  <1>2. Places'
    BY DEF Places
  <1>3. Exclusive' /\ Ready' /\ Cause' /\ NeverPartial'
    BY DEF Exclusive, Ready, Cause, NeverPartial
  <1>4. Progress'
    BY DEF Progress, Accounted, Settled
  <1> QED BY <1>1, <1>2, <1>3, <1>4

(* The workers are gone. *)
LEMMA ProceedKeeps ==
  ASSUME DownloadInvariant, Proceed
  PROVE  DownloadInvariant'
  <1> USE DEF DownloadInvariant, Proceed
  <1>1. TypeOK'
    BY DEF TypeOK, Places, WorkerStages, OnFile, Idle
  <1>2. Places' /\ Exclusive' /\ Ready' /\ Cause' /\ NeverPartial' /\ Progress'
    BY DEF Places, Exclusive, Ready, Cause, NeverPartial, Progress, Idle
  <1> QED BY <1>1, <1>2

LEMMA StopKeeps ==
  ASSUME DownloadInvariant, Stop
  PROVE  DownloadInvariant'
  BY DEF DownloadInvariant, Stop, TypeOK, Places, Exclusive, Ready, Cause, NeverPartial,
         Progress

(* The data directory survives, with nothing under a final name that is    *)
(* not complete.                                                           *)
LEMMA CrashKeeps ==
  ASSUME DownloadInvariant, Crash
  PROVE  DownloadInvariant'
  <1> USE DEF DownloadInvariant, Crash
  <1>1. TypeOK'
    BY DEF TypeOK, WorkerStages, OnFile, Idle
  <1>2. Places' /\ Exclusive' /\ Ready' /\ Cause' /\ NeverPartial' /\ Progress'
    BY DEF Places, Exclusive, Ready, Cause, NeverPartial, Progress, Idle
  <1> QED BY <1>1, <1>2

---------------------------------------------------------------------------
(* Theorems *)

LEMMA InitEstablishes == Init => DownloadInvariant
  <1> SUFFICES ASSUME Init PROVE DownloadInvariant
    OBVIOUS
  <1>1. TypeOK
    <2>1. pc \in [Workers -> WorkerStages] /\ file \in [Workers -> Files \cup {None}]
      BY DEF Init, WorkerStages
    <2>2. \A w \in Workers : pc[w] \in OnFile <=> file[w] # None
      BY DEF Init, OnFile, Idle
    <2>3. tmp \in [Files -> Contents] /\ disk \in [Files -> Contents]
      BY FileContents DEF Init
    <2>4. /\ force \in BOOLEAN /\ errCh \in BOOLEAN
          /\ cancelled \in BOOLEAN /\ stopped \in BOOLEAN
      BY DEF Init
    <2>5. call \in 0 .. MaxCalls /\ jobs \subseteq Files
      BY DownloadAssumption DEF Init
    <2>6. phase \in {"out", "waiting", "returned", "loading"} /\ answer \in {"none", "nil", "error"}
      BY DEF Init
    <2> QED BY <2>1, <2>2, <2>3, <2>4, <2>5, <2>6 DEF TypeOK
  <1>2. NeverPartial
    BY FileContents DEF Init, NeverPartial
  <1>3. Places /\ Exclusive /\ Ready /\ Cause /\ Progress
    BY DEF Init, Places, Exclusive, Ready, Cause, Progress, Idle
  <1> QED BY <1>1, <1>2, <1>3 DEF DownloadInvariant

LEMMA NextKeeps == DownloadInvariant /\ [Next]_vars => DownloadInvariant'
  <1> SUFFICES ASSUME DownloadInvariant, [Next]_vars
               PROVE  DownloadInvariant'
    OBVIOUS
  <1>1. ASSUME NEW w \in Workers, Step(w)
        PROVE  DownloadInvariant'
    BY <1>1, NoJobKeeps, TakeJobKeeps, StatKeeps, GetKeeps, WriteKeeps, RemoveKeeps,
       RenameKeeps, FileErrorKeeps, ReportKeeps DEF Step
  <1>2. CASE Call
    BY <1>2, CallKeeps
  <1>3. CASE Return
    BY <1>3, ReturnKeeps
  <1>4. CASE Proceed
    BY <1>4, ProceedKeeps
  <1>5. CASE Stop
    BY <1>5, StopKeeps
  <1>6. CASE Crash
    BY <1>6, CrashKeeps
  <1>7. CASE UNCHANGED vars
    BY <1>7 DEF vars, DownloadInvariant, TypeOK, Places, Exclusive, Ready, Cause,
                NeverPartial, Progress, Accounted, Settled
  <1> QED BY <1>1, <1>2, <1>3, <1>4, <1>5, <1>6, <1>7 DEF Next

(* The inductive invariant holds in every reachable state: files are       *)
(* handed out once, only complete downloads are renamed, and as long as    *)
(* nothing goes wrong no file is forgotten.                                *)
THEOREM DownloadInvariantHolds == Spec => []DownloadInvariant
  <1>1. Init => DownloadInvariant
    BY InitEstablishes
  <1>2. DownloadInvariant /\ [Next]_vars => DownloadInvariant'
    BY NextKeeps
  <1> QED BY <1>1, <1>2, PTL DEF Spec

(* The state keeps its types, and exactly the workers between stat and     *)
(* rename have a file.                                                     *)
THEOREM TypesHold == Spec => []TypeOK
  <1>1. DownloadInvariant => TypeOK
    BY DEF DownloadInvariant
  <1> QED BY <1>1, DownloadInvariantHolds, PTL

(* A file under its own name is never partial, whatever calls, errors and  *)
(* crashes came before.                                                    *)
THEOREM NothingPartial == Spec => []NeverPartial
  <1>1. DownloadInvariant => NeverPartial
    BY DEF DownloadInvariant
  <1> QED BY <1>1, DownloadInvariantHolds, PTL

(* An uncancelled call that returns nil has settled every file. *)
LEMMA NilSettles ==
  ASSUME DownloadInvariant, phase = "returned", answer = "nil", ~stopped, NEW f \in Files
  PROVE  Settled(f)
  <1> USE DEF DownloadInvariant
  <1>1. ~errCh
    BY DEF Cause
  <1>2. Accounted(f) /\ \A w \in Workers : pc[w] = "done"
    BY <1>1 DEF Progress, Places
  <1>3. PICK w \in Workers : pc[w] = "done"
    BY <1>2, DownloadAssumption
  <1>4. jobs = {} /\ \A v \in Workers : file[v] = None
    BY <1>1, <1>2, <1>3 DEF Progress, TypeOK, OnFile
  <1> QED BY <1>2, <1>4, DownloadAssumption DEF Accounted

(* A call that returns nil without having been cancelled by its caller has *)
(* left every file in place, and under force the files it downloaded.      *)
THEOREM NilIsComplete == Spec => []NilMeansComplete
  <1>1. DownloadInvariant => NilMeansComplete
    BY NilSettles DEF NilMeansComplete, Settled
  <1> QED BY <1>1, DownloadInvariantHolds, PTL

(* No worker is left to touch the files while they are loaded. *)
LEMMA LoadKeeps ==
  ASSUME DownloadInvariant, LoadsOnlyComplete, [Next]_vars
  PROVE  LoadsOnlyComplete'
  <1> SUFFICES ASSUME phase' = "loading", NEW f \in Files
               PROVE  Settled(f)'
    BY DEF LoadsOnlyComplete, Settled
  <1>1. ASSUME NEW w \in Workers, Step(w) PROVE FALSE
    <2>1. pc[w] # Idle /\ pc[w] # "done"
      BY <1>1 DEF Step, NoJob, TakeJob, Stat, Get, Write, Remove, Rename, FileError,
                  Report, Idle
    <2>2. phase = "waiting"
      BY <2>1, BusyWaiting DEF DownloadInvariant
    <2> QED BY <1>1, <2>2 DEF Step, NoJob, TakeJob, Stat, Get, Write, Remove, Rename,
                              FileError, Report
  <1>2. CASE Proceed
    <2>1. Settled(f)
      BY <1>2, NilSettles DEF Proceed
    <2> QED BY <1>2, <2>1 DEF Proceed, Settled
  <1>3. CASE UNCHANGED vars
    BY <1>3 DEF vars, LoadsOnlyComplete, Settled
  <1> QED BY <1>1, <1>2, <1>3 DEF Next, Call, Return, Stop, Crash

(* runETL goes on to load only with every file in place, under force the   *)
(* ones it downloaded, also when a cancelled call was answered nil.        *)
THEOREM LoadIsComplete == Spec => []LoadsOnlyComplete
  <1>1. Init => LoadsOnlyComplete
    BY DEF Init, LoadsOnlyComplete
  <1>2. DownloadInvariant /\ LoadsOnlyComplete /\ [Next]_vars => LoadsOnlyComplete'
    BY LoadKeeps
  <1> QED BY <1>1, <1>2, DownloadInvariantHolds, PTL DEF Spec
===========================================================================
