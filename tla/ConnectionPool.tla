--------------------------- MODULE ConnectionPool ---------------------------
(***************************************************************************)
(* One API process from its first connection attempt to its exit: main in  *)
(* api/cmd/api/main.go, the retry loop of api/internal/db/connect.go, the  *)
(* one connection pool that requests and the scheduler's cycles share, the *)
(* connection on which a cycle holds the advisory lock (state.go), and the *)
(* request path of http/search, http/title and search/service.go.          *)
(*                                                                         *)
(* A cycle keeps the lock's connection while it acquires another one for   *)
(* each script, load, batch and query, one after the other.  What cycles   *)
(* do with the database is RebuildScheduler's and EtlPipeline's subject.   *)
(***************************************************************************)
EXTENDS Integers, Sequences, FiniteSets, SequencesExt

CONSTANTS
  Requests,          \* concurrent requests the server handles
  Etl,               \* the scheduler's goroutine
  Inputs,            \* what a request may ask for: [kind, params, query]
  PoolSize,          \* pool_max_conns
  MaxJobs,           \* bound: connections a cycle uses one by one under the lock
  MaxAttempts,       \* maxAttempts of ConnectWithRetry
  SearchEnabled,     \* ENABLE_PG_SEARCH
  MaxSearchLength,   \* maxSearchQueryLength
  MaxSuggestLength,  \* maxSuggestQueryLength
  Nobody,            \* a connection nobody uses
  Free, Other        \* the advisory lock is free, or another session has it

Slots == 1 .. PoolSize
Clients == Requests \cup {Etl}

ASSUME PoolAssumption ==
  /\ PoolSize \in Nat \ {0} /\ MaxJobs \in Nat /\ MaxAttempts \in Nat \ {0}
  /\ Etl \notin Requests /\ Nobody \notin Clients
  /\ Free # Other /\ {Free, Other} \cap (0 .. PoolSize) = {}

VARIABLES
  phase,     \* main: "connecting", "backoff", "serving", "draining", "closing", "over"
  attempts,  \* failed attempts of ConnectWithRetry under way
  ctxDone,   \* SIGTERM or SIGINT has cancelled main's context
  open,      \* the pool's connections that are alive
  user,      \* who has acquired each connection
  queue,     \* callers waiting in pool.Acquire, first come first served
  lock,      \* the session that holds the advisory lock
  lockConn,  \* the connection the cycle keeps for the lock, or 0
  pc,        \* where each request and the cycle are
  jobs,      \* connections the cycle has used under the lock
  req,       \* the request's parameters
  status     \* its HTTP status, or 0

mainVars == <<phase, attempts, ctxDone>>
poolVars == <<open, user, queue>>
etlVars == <<lockConn, jobs>>
webVars == <<req, status>>
vars == <<mainVars, poolVars, lock, pc, etlVars, webVars>>

Waiting == {"waiting", "pollWait", "lockWait", "workWait"}
NoRequest == [kind |-> "none", params |-> TRUE, query |-> <<>>]

Init ==
  /\ phase = "connecting" /\ attempts = 0 /\ ctxDone = FALSE
  /\ open = [s \in Slots |-> FALSE]
  /\ user = [s \in Slots |-> Nobody]
  /\ queue = <<>>
  /\ lock \in {Free, Other}
  /\ lockConn = 0
  /\ pc = [c \in Clients |-> "idle"]
  /\ jobs = 0
  /\ req = [r \in Requests |-> NoRequest]
  /\ status = [r \in Requests |-> 0]

---------------------------------------------------------------------------
(* Operators whose name ends in _Bug are variants of the definition they   *)
(* precede, each the way one slip in the code would change it.  No action  *)
(* uses them: they show which property notices the slip.                   *)
---------------------------------------------------------------------------
Goto(c, place) == pc' = [pc EXCEPT ![c] = place]
HeldBy(c) == {s \in Slots : user[s] = c}

Acquire(c, place) == queue' = Append(queue, c) /\ Goto(c, place)
LeaveLine(c) == \E i \in DOMAIN queue : queue[i] = c /\ queue' = RemoveAt(queue, i)
Release(s) == user' = [user EXCEPT ![s] = Nobody]

(* A connection ends: PostgreSQL ends the session, at once or later, and   *)
(* its lock with it.                                                       *)
Close(s) ==
  /\ open' = [open EXCEPT ![s] = FALSE]
  /\ IF lock = s THEN lock' \in {Free, Other} ELSE UNCHANGED lock

---------------------------------------------------------------------------
(* ConnectWithRetry: a new pool is pinged; if that fails, it is closed.    *)
AttemptSucceeds ==
  /\ phase = "connecting"
  /\ ~ctxDone
  /\ phase' = "serving"
  /\ attempts' = 0
  /\ UNCHANGED <<ctxDone, poolVars, lock, pc, etlVars, webVars>>

AttemptFails ==
  /\ phase = "connecting"
  /\ attempts' = attempts + 1
  /\ phase' = IF ctxDone \/ attempts' = MaxAttempts THEN "over" ELSE "backoff"
  /\ UNCHANGED <<ctxDone, poolVars, lock, pc, etlVars, webVars>>

BackoffEnds ==
  /\ phase = "backoff"
  /\ phase' = IF ctxDone THEN "over" ELSE "connecting"
  /\ UNCHANGED <<attempts, ctxDone, poolVars, lock, pc, etlVars, webVars>>

---------------------------------------------------------------------------
(* Requests.  A character is a record: is it white space, and how many     *)
(* bytes does it take in lower case?                                       *)

(* normalizeSearchQuery: words joined by one space, in lower case *)
Visible(query) == {i \in DOMAIN query : ~query[i].space}
Words(query) ==
  {i \in Visible(query) : i = 1 \/ query[i - 1].space}
Joints(query) == IF Words(query) = {} THEN 0 ELSE Cardinality(Words(query)) - 1

NormalizedBytes(query) ==
  MapThenSumSet(LAMBDA i : query[i].lower, Visible(query)) + Joints(query)

(* Service.Search and Service.Suggest count with len, that is in bytes. *)
QueryRejected(in) ==
  \/ Words(in.query) = {}
  \/ in.kind = "search" /\ NormalizedBytes(in.query) > MaxSearchLength
  \/ in.kind = "suggest" /\ NormalizedBytes(in.query) \notin 2 .. MaxSuggestLength

Searching(in) == in.kind \in {"search", "suggest"}

(* The status of a request that is answered before it needs a connection, *)
(* or 0: disabled search, then parameters, then the query.                *)
EarlyStatus(in) ==
  IF Searching(in) /\ ~SearchEnabled THEN 501
  ELSE IF ~in.params \/ (Searching(in) /\ QueryRejected(in)) THEN 400
  ELSE 0

(* The status when the database or its connection fails, and when the     *)
(* request's context ends: its deadline passes or the client goes away.   *)
ErrorStatus(in) == IF in.kind = "readyz" THEN 503 ELSE 500
EndedStatuses(in) == {ErrorStatus(in)} \cup (IF Searching(in) THEN {504} ELSE {})

Answered(r, code) == Goto(r, "answered") /\ status' = [status EXCEPT ![r] = code]

(* While Shutdown drains the server, a connection it had accepted before   *)
(* may still bring its first request.                                      *)
Begin(r) ==
  /\ phase \in {"serving", "draining"}
  /\ pc[r] = "idle"
  /\ \E in \in Inputs :
       /\ req' = [req EXCEPT ![r] = in]
       /\ IF EarlyStatus(in) # 0
          THEN Answered(r, EarlyStatus(in)) /\ UNCHANGED queue
          ELSE Acquire(r, "waiting") /\ UNCHANGED status
  /\ UNCHANGED <<mainVars, open, user, lock, etlVars>>

(* A title that does not exist is an error to its handler alone. *)
FoundStatuses(in) == {200} \cup (IF in.kind = "title" THEN {404} ELSE {})

(* The rows are read to their end, or the query fails. *)
Answer(r) ==
  /\ pc[r] = "querying"
  /\ \E s \in HeldBy(r) :
       /\ Release(s)
       /\ \E code \in {ErrorStatus(req[r])}
                         \cup (IF open[s] THEN FoundStatuses(req[r]) ELSE {}) :
            Answered(r, code)
  /\ UNCHANGED <<mainVars, open, queue, lock, etlVars, req>>

(* The context ends during the query: the driver closes the connection.    *)
Interrupt(r) ==
  /\ pc[r] = "querying"
  /\ \E s \in HeldBy(r) : Release(s) /\ Close(s)
  /\ \E code \in EndedStatuses(req[r]) : Answered(r, code)
  /\ UNCHANGED <<mainVars, queue, etlVars, req>>

Respond(r) ==
  /\ pc[r] = "answered"
  /\ Goto(r, "idle")
  /\ req' = [req EXCEPT ![r] = NoRequest]
  /\ status' = [status EXCEPT ![r] = 0]
  /\ UNCHANGED <<mainVars, poolVars, lock, etlVars>>

---------------------------------------------------------------------------
(* The pool: the first caller in line gets a connection that is not in     *)
(* use, a new one if none is open.                                         *)
FreeSlots == {s \in Slots : user[s] = Nobody}

Granted(place) ==
  CASE place = "waiting" -> "querying"
    [] place = "pollWait" -> "polling"
    [] place = "lockWait" -> "locking"
    [] place = "workWait" -> "working"

Grant ==
  /\ phase # "closing"
  /\ queue # <<>>
  /\ queue' = Tail(queue)
  /\ \E s \in FreeSlots :
       /\ user' = [user EXCEPT ![s] = Head(queue)]
       /\ open' = [open EXCEPT ![s] = TRUE]
       /\ lockConn' = IF pc[Head(queue)] = "lockWait" THEN s ELSE lockConn
  /\ Goto(Head(queue), Granted(pc[Head(queue)]))
  /\ UNCHANGED <<mainVars, lock, jobs, webVars>>

(* pool.Acquire returns an error: what the caller does *)
AcquireError(c, codes) ==
  /\ LeaveLine(c)
  /\ IF c = Etl
     THEN /\ Goto(Etl, IF pc[Etl] = "workWait" THEN "unlocking" ELSE "idle")
          /\ UNCHANGED status
     ELSE \E code \in codes : Answered(c, code)
  /\ UNCHANGED <<mainVars, open, user, lock, etlVars, req>>

(* A new connection cannot be made, or the pool is being closed. *)
GrantFails ==
  /\ queue # <<>>
  /\ \E s \in FreeSlots : ~open[s] \/ phase = "closing"
  /\ AcquireError(Head(queue), {ErrorStatus(req[r]) : r \in {Head(queue)} \ {Etl}})

(* The caller's context ends while it waits. *)
GiveUp(c) ==
  /\ c \in ToSet(queue)
  /\ c = Etl => ctxDone
  /\ AcquireError(c, UNION {EndedStatuses(req[r]) : r \in {c} \ {Etl}})

(* A connection drops, whoever uses it; its user learns when it does. *)
LoseConnection(s) ==
  /\ open[s]
  /\ Close(s)
  /\ UNCHANGED <<mainVars, user, queue, pc, etlVars, webVars>>

---------------------------------------------------------------------------
(* The scheduler's cycles.  First come queries without the lock: state     *)
(* tables, titles, manifests.                                              *)
BeginCycle ==
  /\ phase = "serving"
  /\ ~ctxDone
  /\ pc[Etl] = "idle"
  /\ Acquire(Etl, "pollWait")
  /\ UNCHANGED <<mainVars, open, user, lock, etlVars, webVars>>

(* The query is done: the cycle ends, or goes on to the lock. *)
PollDone ==
  /\ pc[Etl] = "polling"
  /\ \E s \in HeldBy(Etl) : Release(s)
  /\ \/ Goto(Etl, "idle") /\ UNCHANGED queue
     \/ ~ctxDone /\ Acquire(Etl, "lockWait")
  /\ UNCHANGED <<mainVars, open, lock, etlVars, webVars>>

TryLock_Bug ==   \* a refused caller keeps its connection
  /\ pc[Etl] = "locking"
  /\ IF open[lockConn] /\ ~ctxDone /\ lock \in {Free, lockConn}
     THEN lock' = lockConn /\ Goto(Etl, "locked") /\ UNCHANGED <<user, lockConn>>
     ELSE Goto(Etl, "idle") /\ lockConn' = 0 /\ UNCHANGED <<lock, user>>
  /\ UNCHANGED <<mainVars, open, queue, jobs, webVars>>

(* acquireETLSchedulerLock: pg_try_advisory_lock does not wait, and a      *)
(* session may take its own lock again.                                    *)
TryLock ==
  /\ pc[Etl] = "locking"
  /\ IF open[lockConn] /\ ~ctxDone /\ lock \in {Free, lockConn}
     THEN lock' = lockConn /\ Goto(Etl, "locked") /\ UNCHANGED <<user, lockConn>>
     ELSE Release(lockConn) /\ Goto(Etl, "idle") /\ lockConn' = 0 /\ UNCHANGED lock
  /\ UNCHANGED <<mainVars, open, queue, jobs, webVars>>

(* Under the lock: another script, load, batch or query *)
StartJob ==
  /\ pc[Etl] = "locked"
  /\ jobs < MaxJobs
  /\ ~ctxDone
  /\ jobs' = jobs + 1
  /\ Acquire(Etl, "workWait")
  /\ UNCHANGED <<mainVars, open, user, lock, lockConn, webVars>>

WorkConn == CHOOSE s \in HeldBy(Etl) : s # lockConn

JobDone_Bug ==   \* rows stay open while the next connection is acquired
  /\ pc[Etl] = "working"
  /\ \/ open[WorkConn] /\ Release(WorkConn) /\ Goto(Etl, "locked") /\ UNCHANGED <<queue, jobs>>
     \/ jobs < MaxJobs /\ jobs' = jobs + 1 /\ Acquire(Etl, "workWait") /\ UNCHANGED user
     \/ Release(WorkConn) /\ Goto(Etl, "unlocking") /\ UNCHANGED <<queue, jobs>>
  /\ UNCHANGED <<mainVars, open, lock, lockConn, webVars>>

(* Every job gives its connection back before the next one begins, also    *)
(* when it fails and the cycle ends.                                       *)
JobDone ==
  /\ pc[Etl] = "working"
  /\ Release(WorkConn)
  /\ \/ open[WorkConn] /\ Goto(Etl, "locked")
     \/ Goto(Etl, "unlocking")
  /\ UNCHANGED <<mainVars, open, queue, lock, etlVars, webVars>>

(* main's context ends during a statement of the cycle: the driver closes  *)
(* the connection and the cycle returns.                                   *)
CycleInterrupted ==
  /\ ctxDone
  /\ pc[Etl] \in {"polling", "locking", "working"}
  /\ LET s == IF pc[Etl] = "working" THEN WorkConn ELSE CHOOSE t \in HeldBy(Etl) : TRUE
     IN  Release(s) /\ Close(s)
  /\ Goto(Etl, IF pc[Etl] = "working" THEN "unlocking" ELSE "idle")
  /\ lockConn' = IF pc[Etl] = "working" THEN lockConn ELSE 0
  /\ UNCHANGED <<mainVars, queue, jobs, webVars>>

(* The cycle's work is done, or its context has ended. *)
FinishCycle ==
  /\ pc[Etl] = "locked"
  /\ Goto(Etl, "unlocking")
  /\ UNCHANGED <<mainVars, poolVars, lock, etlVars, webVars>>

EndCycle == Release(lockConn) /\ Goto(Etl, "idle") /\ lockConn' = 0 /\ jobs' = 0

Unlock_Bug ==   \* the session is given back with its lock
  /\ pc[Etl] = "unlocking"
  /\ EndCycle
  /\ UNCHANGED <<mainVars, open, lock, queue, webVars>>

Unlock_Leak ==   \* the connection is not released
  /\ pc[Etl] = "unlocking"
  /\ lock' = IF lock = lockConn THEN Free ELSE lock
  /\ Goto(Etl, "idle") /\ lockConn' = 0 /\ jobs' = 0
  /\ UNCHANGED <<mainVars, open, user, queue, webVars>>

(* releaseETLSchedulerLock, with a context of its own *)
Unlock ==
  /\ pc[Etl] = "unlocking"
  /\ lock' = IF lock = lockConn THEN Free ELSE lock
  /\ EndCycle
  /\ UNCHANGED <<mainVars, open, queue, webVars>>

(* The unlock is not answered within 5 s: the driver closes the session.   *)
UnlockTimesOut ==
  /\ pc[Etl] = "unlocking"
  /\ Close(lockConn)
  /\ EndCycle
  /\ UNCHANGED <<mainVars, queue, webVars>>

OtherSession ==
  /\ \/ lock = Free /\ lock' = Other
     \/ lock = Other /\ lock' = Free
  /\ UNCHANGED <<mainVars, poolVars, pc, etlVars, webVars>>

---------------------------------------------------------------------------
(* Shutdown.  The server stops accepting and waits for its requests, 10 s  *)
(* at most; then main closes the pool, which waits for every connection,   *)
(* and exits.                                                              *)
Signal ==
  /\ ~ctxDone
  /\ phase # "over"
  /\ ctxDone' = TRUE
  /\ UNCHANGED <<phase, attempts, poolVars, lock, pc, etlVars, webVars>>

StopServing ==
  /\ phase = "serving"
  /\ ctxDone
  /\ phase' = "draining"
  /\ UNCHANGED <<attempts, ctxDone, poolVars, lock, pc, etlVars, webVars>>

ClosePool ==
  /\ phase = "draining"
  /\ phase' = "closing"
  /\ UNCHANGED <<attempts, ctxDone, poolVars, lock, pc, etlVars, webVars>>

Exit ==
  /\ phase = "closing"
  /\ FreeSlots = Slots
  /\ phase' = "over"
  /\ open' = [s \in Slots |-> FALSE]
  /\ queue' = <<>>
  /\ pc' = [c \in Clients |-> "idle"]
  /\ req' = [r \in Requests |-> NoRequest]
  /\ status' = [r \in Requests |-> 0]
  /\ IF lock \in Slots THEN lock' \in {Free, Other} ELSE UNCHANGED lock
  /\ UNCHANGED <<attempts, ctxDone, user, etlVars>>

Connect == AttemptSucceeds \/ AttemptFails \/ BackoffEnds

CycleStep ==
  \/ PollDone
  \/ TryLock
  \/ StartJob
  \/ JobDone
  \/ CycleInterrupted
  \/ FinishCycle
  \/ Unlock
  \/ UnlockTimesOut

Request(r) ==
  \/ Begin(r)
  \/ Answer(r)
  \/ Interrupt(r)
  \/ Respond(r)

Next ==
  \/ Connect
  \/ \E r \in Requests : Request(r)
  \/ Grant
  \/ GrantFails
  \/ \E c \in Clients : GiveUp(c)
  \/ \E s \in Slots : LoseConnection(s)
  \/ BeginCycle
  \/ CycleStep
  \/ OtherSession
  \/ Signal
  \/ StopServing
  \/ ClosePool
  \/ Exit

(* Every statement ends or loses its connection, the pool serves its       *)
(* queue, and main's own steps happen.  Nothing makes a client go away, a  *)
(* cycle begin or the process be stopped.                                  *)
Fairness ==
  /\ WF_vars(Connect)
  /\ \A r \in Requests : WF_vars(Answer(r) \/ Interrupt(r)) /\ WF_vars(Respond(r))
  /\ WF_vars(Grant \/ GrantFails)
  /\ WF_vars(CycleStep)
  /\ WF_vars(GiveUp(Etl))
  /\ WF_vars(StopServing) /\ WF_vars(ClosePool) /\ WF_vars(Exit)

Spec == Init /\ [][Next]_vars /\ Fairness

---------------------------------------------------------------------------
(* How many connections a client may have at each of its places *)
Leases(place) ==
  CASE place \in {"querying", "polling", "locking", "locked", "workWait", "unlocking"} -> 1
    [] place = "working" -> 2
    [] OTHER -> 0

(* Connections are neither leaked nor shared: whoever is done or waiting   *)
(* has none left but the lock's, on every path, those of errors, deadlines *)
(* and shutdown included, and whoever waits is in line exactly once.       *)
LeasesAccounted ==
  /\ \A c \in Clients : Cardinality(HeldBy(c)) = Leases(pc[c])
  /\ lockConn # 0 <=> pc[Etl] \in {"locking", "locked", "workWait", "working", "unlocking"}
  /\ lockConn # 0 => user[lockConn] = Etl
  /\ IsInjective(queue)
  /\ ToSet(queue) = {c \in Clients : pc[c] \in Waiting}

(* The advisory lock belongs to the session, not to the cycle: it never    *)
(* stays behind on a connection that is back in the pool, where no other   *)
(* instance could get it and this one could take it twice.                 *)
LockOnlyWhileRebuilding ==
  lock \in Slots =>
    /\ lock = lockConn
    /\ open[lock]
    /\ pc[Etl] \in {"locked", "workWait", "working", "unlocking"}

(* With two connections the cycle that holds one for its lock and requests *)
(* that have no timeout never wait for each other for ever.                *)
NobodyWaitsForever == \A c \in Clients : pc[c] \in Waiting ~> pc[c] \notin Waiting

(* A signal ends the process, whatever it finds under way: pool.Close      *)
(* waits for every connection, the lock's too, and each is given back.     *)
ShutdownCompletes == ctxDone ~> phase = "over"

(* The README's limits: a search query of at most 120 characters and a     *)
(* suggest query of 2 to 80 characters is accepted (scaled by the          *)
(* constants).                                                             *)
Characters(query) == Cardinality(Visible(query)) + Joints(query)

DocumentedLengthsAccepted ==
  \A r \in Requests :
    status[r] = 400 /\ Searching(req[r]) /\ req[r].params =>
      Characters(req[r].query) \notin
        (IF req[r].kind = "search" THEN 1 .. MaxSearchLength ELSE 2 .. MaxSuggestLength)
===========================================================================
