----------------------- MODULE ConnectionPool_proofs -----------------------
(* Theorems about ConnectionPool, for any number of requests, connections  *)
(* and jobs, and any inputs.                                               *)
EXTENDS ConnectionPool, SequenceTheorems, FiniteSetTheorems, TLAPS

---------------------------------------------------------------------------
(* The inductive invariant *)

RequestPlaces == {"idle", "waiting", "querying", "answered"}
LockPlaces == {"locking", "locked", "workWait", "working", "unlocking"}
CyclePlaces == {"idle", "pollWait", "polling", "lockWait"} \cup LockPlaces

PoolType ==
  /\ open \in [Slots -> BOOLEAN]
  /\ user \in [Slots -> Clients \cup {Nobody}]
  /\ queue \in Seq(Clients)
  /\ pc \in [Clients -> RequestPlaces \cup CyclePlaces]
  /\ \A r \in Requests : pc[r] \in RequestPlaces
  /\ pc[Etl] \in CyclePlaces
  /\ lockConn \in 0 .. PoolSize
  /\ lockConn # 0 <=> pc[Etl] \in LockPlaces

Line ==
  /\ IsInjective(queue)
  /\ ToSet(queue) = {c \in Clients : pc[c] \in Waiting}

Holds(c) ==
  /\ pc[c] \in {"idle", "waiting", "answered", "pollWait", "lockWait"} => HeldBy(c) = {}
  /\ pc[c] \in {"querying", "polling"} => \E s \in Slots : HeldBy(c) = {s}
  /\ pc[c] \in LockPlaces \ {"working"} => HeldBy(c) = {lockConn}
  /\ pc[c] = "working" => \E s \in Slots \ {lockConn} : HeldBy(c) = {lockConn, s}

Holding == \A c \in Clients : Holds(c)

PoolInvariant == PoolType /\ Line /\ Holding /\ LockOnlyWhileRebuilding

---------------------------------------------------------------------------
(* The line of waiting callers *)

LEMMA ClientsDistinct == Etl \in Clients /\ Nobody \notin Clients /\ Etl \notin Requests
                         /\ Requests \subseteq Clients /\ 0 \notin Slots
                         /\ Slots \subseteq 0 .. PoolSize
                         /\ Free \notin Slots /\ Other \notin Slots
  BY PoolAssumption DEF Clients, Slots

(* A newcomer at the end leaves everybody else in line once.               *)
LEMMA AppendLine ==
  ASSUME NEW c \in Clients, queue \in Seq(Clients), IsInjective(queue),
         c \notin ToSet(queue),
         queue' = Append(queue, c)
  PROVE  /\ queue' \in Seq(Clients)
         /\ IsInjective(queue')
         /\ ToSet(queue') = ToSet(queue) \cup {c}
  <1>1. /\ queue' \in Seq(Clients)
        /\ Len(queue') = Len(queue) + 1
        /\ \A i \in 1 .. Len(queue) : queue'[i] = queue[i]
        /\ queue'[Len(queue) + 1] = c
    BY AppendProperties
  <1>2. Len(queue) \in Nat /\ DOMAIN queue = 1 .. Len(queue)
        /\ DOMAIN queue' = 1 .. Len(queue) + 1
    BY <1>1, LenProperties
  <1>3. \A i \in DOMAIN queue : queue[i] # c
    BY DEF ToSet
  <1>4. IsInjective(queue')
    BY <1>1, <1>2, <1>3 DEF IsInjective
  <1>5. ToSet(queue') = ToSet(queue) \cup {c}
    BY <1>1, <1>2 DEF ToSet
  <1> QED
    BY <1>1, <1>4, <1>5

(* What RemoveAt returns: one element less, those after it one place up.   *)
LEMMA RemoveAtProperties ==
  ASSUME NEW S, NEW s \in Seq(S), NEW i \in 1 .. Len(s)
  PROVE  /\ RemoveAt(s, i) \in Seq(S)
         /\ Len(RemoveAt(s, i)) = Len(s) - 1
         /\ \A j \in 1 .. Len(s) - 1 :
              RemoveAt(s, i)[j] = IF j < i THEN s[j] ELSE s[j + 1]
  <1> DEFINE front == SubSeq(s, 1, i - 1)
             back == SubSeq(s, i + 1, Len(s))
  <1>1. Len(s) \in Nat /\ i \in Int /\ i - 1 \in Int /\ i + 1 \in Int
        /\ \A j \in 1 .. Len(s) : s[j] \in S
    BY LenProperties, ElementOfSeq
  <1>2. \A j \in 1 .. i - 1 : s[j] \in S
    BY <1>1
  <1>3. \A j \in i + 1 .. Len(s) : s[j] \in S
    BY <1>1
  <1>4. /\ front \in Seq(S)
        /\ Len(front) = IF 1 <= i - 1 THEN i - 1 - 1 + 1 ELSE 0
        /\ \A j \in 1 .. i - 1 - 1 + 1 : front[j] = s[1 + j - 1]
    BY <1>1, <1>2, SubSeqProperties
  <1>5. /\ back \in Seq(S)
        /\ Len(back) = IF i + 1 <= Len(s) THEN Len(s) - (i + 1) + 1 ELSE 0
        /\ \A j \in 1 .. Len(s) - (i + 1) + 1 : back[j] = s[i + 1 + j - 1]
    BY <1>1, <1>3, SubSeqProperties
  <1>6. RemoveAt(s, i) = front \o back
    BY DEF RemoveAt
  <1> HIDE DEF front, back
  <1>7. Len(front) = i - 1 /\ \A j \in 1 .. i - 1 : front[j] = s[j]
    BY <1>1, <1>4
  <1>8. Len(back) = Len(s) - i /\ \A j \in 1 .. Len(s) - i : back[j] = s[i + j]
    BY <1>1, <1>5
  <1>9. /\ front \o back \in Seq(S)
        /\ Len(front \o back) = Len(front) + Len(back)
        /\ \A j \in 1 .. Len(front) + Len(back) :
             (front \o back)[j] = IF j <= Len(front) THEN front[j] ELSE back[j - Len(front)]
    BY <1>4, <1>5, ConcatProperties
  <1> QED
    BY <1>1, <1>6, <1>7, <1>8, <1>9

(* Whoever leaves from any place, nobody else is lost or repeated.         *)
LEMMA LeaveLineAt ==
  ASSUME queue \in Seq(Clients), IsInjective(queue), NEW i \in DOMAIN queue,
         queue' = RemoveAt(queue, i)
  PROVE  /\ queue' \in Seq(Clients)
         /\ IsInjective(queue')
         /\ ToSet(queue') = ToSet(queue) \ {queue[i]}
  <1> DEFINE n == Len(queue)
  <1>1. n \in Nat /\ DOMAIN queue = 1 .. n /\ i \in 1 .. n
    BY LenProperties
  <1>2. /\ queue' \in Seq(Clients) /\ Len(queue') = n - 1
        /\ \A j \in 1 .. n - 1 : queue'[j] = IF j < i THEN queue[j] ELSE queue[j + 1]
    BY <1>1, RemoveAtProperties
  <1>3. DOMAIN queue' = 1 .. n - 1
    BY <1>2, LenProperties
  <1> HIDE DEF n
  <1> DEFINE from(j) == IF j < i THEN j ELSE j + 1
  <1>a. \A j \in DOMAIN queue' :
          from(j) \in DOMAIN queue /\ from(j) # i /\ queue'[j] = queue[from(j)]
    BY <1>1, <1>2, <1>3
  <1>b. \A j, k \in DOMAIN queue' : from(j) = from(k) => j = k
    BY <1>1, <1>3
  <1> HIDE DEF from
  <1>4. IsInjective(queue')
    BY <1>a, <1>b DEF IsInjective
  <1>5. \A x \in ToSet(queue') : x \in ToSet(queue) \ {queue[i]}
    BY <1>a DEF ToSet, IsInjective
  <1>6. ASSUME NEW j \in DOMAIN queue, j # i PROVE queue[j] \in ToSet(queue')
    <2>1. CASE j < i
      <3>1. j \in DOMAIN queue' /\ queue'[j] = queue[j]
        BY <1>1, <1>2, <1>3, <1>6, <2>1
      <3> QED
        BY <3>1 DEF ToSet
    <2>2. CASE j > i
      <3>1. j - 1 \in DOMAIN queue' /\ queue'[j - 1] = queue[j]
        BY <1>1, <1>2, <1>3, <1>6, <2>2
      <3> QED
        BY <3>1 DEF ToSet
    <2> QED
      BY <1>1, <1>6, <2>1, <2>2
  <1> QED
    BY <1>2, <1>4, <1>5, <1>6 DEF ToSet

(* Serving the first in line removes it and nobody else.                   *)
LEMMA ServeLine ==
  ASSUME queue \in Seq(Clients), IsInjective(queue), queue # <<>>, queue' = Tail(queue)
  PROVE  /\ Head(queue) \in ToSet(queue)
         /\ queue' \in Seq(Clients)
         /\ IsInjective(queue')
         /\ ToSet(queue') = ToSet(queue) \ {Head(queue)}
  <1>1. /\ Len(queue) \in Nat /\ DOMAIN queue = 1 .. Len(queue) /\ Len(queue) # 0
        /\ Head(queue) = queue[1]
    BY LenProperties, EmptySeq
  <1>2. /\ queue' \in Seq(Clients) /\ Len(queue') = Len(queue) - 1
        /\ \A j \in 1 .. Len(queue) - 1 : queue'[j] = queue[j + 1]
    BY <1>1, HeadTailProperties
  <1>3. DOMAIN queue' = 1 .. Len(queue) - 1
    BY <1>2, LenProperties
  <1>4. IsInjective(queue')
    BY <1>1, <1>2, <1>3 DEF IsInjective
  <1>5. \A x \in ToSet(queue') : x \in ToSet(queue) \ {queue[1]}
    BY <1>1, <1>2, <1>3 DEF ToSet, IsInjective
  <1>6. ASSUME NEW j \in DOMAIN queue, j # 1 PROVE queue[j] \in ToSet(queue')
    <2>1. j - 1 \in DOMAIN queue' /\ queue'[j - 1] = queue[j]
      BY <1>1, <1>2, <1>3, <1>6
    <2> QED
      BY <2>1 DEF ToSet
  <1>7. queue[1] \in ToSet(queue)
    BY <1>1 DEF ToSet
  <1>8. \A x \in ToSet(queue) \ {queue[1]} : x \in ToSet(queue')
    BY <1>6 DEF ToSet
  <1> QED
    BY <1>1, <1>2, <1>4, <1>5, <1>7, <1>8

(* A client takes its place at the end of the line, stays out of it, or    *)
(* leaves it.                                                              *)
LEMMA JoinLine ==
  ASSUME PoolType, Line, NEW c \in Clients, NEW place \in Waiting, pc[c] \notin Waiting,
         Acquire(c, place)
  PROVE  queue' \in Seq(Clients) /\ Line'
  <1>1. c \notin ToSet(queue) /\ queue' = Append(queue, c) /\ pc' = [pc EXCEPT ![c] = place]
    BY DEF Line, Acquire, Goto
  <1>2. /\ queue' \in Seq(Clients)
        /\ IsInjective(queue')
        /\ ToSet(queue') = ToSet(queue) \cup {c}
    BY <1>1, AppendLine DEF PoolType, Line
  <1>3. ToSet(queue') = {d \in Clients : pc'[d] \in Waiting}
    BY <1>1, <1>2 DEF PoolType, Line
  <1> QED
    BY <1>2, <1>3 DEF Line

LEMMA StayOut ==
  ASSUME PoolType, Line, NEW c \in Clients, NEW place, place \notin Waiting,
         pc[c] \notin Waiting, Goto(c, place), queue' = queue
  PROVE  queue' \in Seq(Clients) /\ Line'
  <1>1. {d \in Clients : pc'[d] \in Waiting} = {d \in Clients : pc[d] \in Waiting}
    BY DEF PoolType, Goto
  <1> QED
    BY <1>1 DEF PoolType, Line

LEMMA LeaveLineStep ==
  ASSUME PoolType, Line, NEW c \in Clients, NEW place, place \notin Waiting, LeaveLine(c),
         Goto(c, place)
  PROVE  queue' \in Seq(Clients) /\ Line' /\ pc[c] \in Waiting
  <1>1. PICK i \in DOMAIN queue : queue[i] = c /\ queue' = RemoveAt(queue, i)
    BY DEF LeaveLine
  <1>2. /\ queue' \in Seq(Clients)
        /\ IsInjective(queue')
        /\ ToSet(queue') = ToSet(queue) \ {c}
    BY <1>1, LeaveLineAt DEF PoolType, Line
  <1>3. ToSet(queue') = {d \in Clients : pc'[d] \in Waiting}
    BY <1>2 DEF PoolType, Line, Goto
  <1>4. pc[c] \in Waiting
    BY <1>1 DEF Line, ToSet
  <1> QED
    BY <1>2, <1>3, <1>4 DEF Line

LEMMA ServeLineStep ==
  ASSUME PoolType, Line, queue # <<>>, queue' = Tail(queue),
         NEW place, place \notin Waiting,
         Goto(Head(queue), place)
  PROVE  /\ queue' \in Seq(Clients) /\ Line'
         /\ Head(queue) \in Clients /\ pc[Head(queue)] \in Waiting
  <1>1. /\ Head(queue) \in ToSet(queue)
        /\ queue' \in Seq(Clients)
        /\ IsInjective(queue')
        /\ ToSet(queue') = ToSet(queue) \ {Head(queue)}
    BY ServeLine DEF PoolType, Line
  <1>2. ToSet(queue') = {d \in Clients : pc'[d] \in Waiting}
    BY <1>1 DEF PoolType, Line, Goto
  <1> QED
    BY <1>1, <1>2 DEF Line

---------------------------------------------------------------------------
(* Connections that change hands *)

LEMMA ReleaseHeld ==
  ASSUME PoolType, NEW s \in Slots, Release(s)
  PROVE  /\ user' \in [Slots -> Clients \cup {Nobody}]
         /\ \A d \in Clients : HeldBy(d)' = HeldBy(d) \ {s}
  BY ClientsDistinct DEF PoolType, Release, HeldBy

(* A free connection goes to one caller and is taken from none.            *)
LEMMA GrantHeld ==
  ASSUME PoolType, NEW s \in FreeSlots, NEW c \in Clients, user' = [user EXCEPT ![s] = c]
  PROVE  /\ user' \in [Slots -> Clients \cup {Nobody}]
         /\ HeldBy(c)' = HeldBy(c) \cup {s}
         /\ \A d \in Clients \ {c} : HeldBy(d)' = HeldBy(d)
  BY ClientsDistinct DEF PoolType, FreeSlots, HeldBy

LEMMA HeldSame ==
  ASSUME UNCHANGED user
  PROVE  \A d \in Clients : HeldBy(d)' = HeldBy(d)
  BY DEF HeldBy

(* No connection is acquired by two callers.                               *)
LEMMA HeldDisjoint ==
  ASSUME NEW c \in Clients, NEW d \in Clients, c # d
  PROVE  HeldBy(c) \cap HeldBy(d) = {} /\ HeldBy(c) \subseteq Slots
  BY DEF HeldBy

(* Whoever is not concerned by a step holds what it held. *)
LEMMA HoldingFrame ==
  ASSUME Holding, PoolType, NEW c \in Clients,
         \A d \in Clients \ {c} : pc'[d] = pc[d] /\ HeldBy(d)' = HeldBy(d),
         c = Etl \/ lockConn' = lockConn,
         Holds(c)'
  PROVE  Holding'
  <1> SUFFICES ASSUME NEW d \in Clients, d # c PROVE Holds(d)'
    BY DEF Holding
  <1>1. pc'[d] = pc[d] /\ HeldBy(d)' = HeldBy(d) /\ Holds(d)
    BY DEF Holding
  <1>2. lockConn' = lockConn \/ pc[d] \notin LockPlaces
    BY ClientsDistinct DEF PoolType, RequestPlaces, LockPlaces, Clients
  <1> QED
    BY <1>1, <1>2 DEF Holds, LockPlaces

---------------------------------------------------------------------------
(* What a step has to show: of main and the environment, of a request, and *)
(* of the cycle.                                                           *)

LEMMA QuietStep ==
  ASSUME PoolInvariant, UNCHANGED <<user, queue, pc, lockConn>>,
         open' \in [Slots -> BOOLEAN],
         lock' \notin Slots \/ (lock' = lock /\ (lock \in Slots => open'[lock]))
  PROVE  PoolInvariant'
  <1>1. PoolType' /\ Line'
    BY DEF PoolInvariant, PoolType, Line
  <1>2. Holding'
    BY DEF PoolInvariant, Holding, Holds, HeldBy
  <1>3. LockOnlyWhileRebuilding'
    BY DEF PoolInvariant, LockOnlyWhileRebuilding
  <1> QED
    BY <1>1, <1>2, <1>3 DEF PoolInvariant

(* A step of one request.                                                  *)
LEMMA RequestStep ==
  ASSUME PoolInvariant, NEW r \in Requests, NEW place \in RequestPlaces, Goto(r, place),
         lockConn' = lockConn,
         open' \in [Slots -> BOOLEAN],
         user' \in [Slots -> Clients \cup {Nobody}],
         \A d \in Clients \ {r} : HeldBy(d)' = HeldBy(d),
         queue' \in Seq(Clients), Line',
         Holds(r)',
         lock' \notin Slots \/ (lock' = lock /\ (lock \in Slots => open'[lock]))
  PROVE  PoolInvariant'
  <1>1. r \in Clients /\ r # Etl
    BY ClientsDistinct
  <1>2. \A d \in Clients \ {r} : pc'[d] = pc[d]
    BY DEF Goto, PoolInvariant, PoolType
  <1>3. pc'[Etl] = pc[Etl]
    BY <1>1, <1>2, ClientsDistinct
  <1>4. pc' \in [Clients -> RequestPlaces \cup CyclePlaces] /\ pc'[r] = place
    BY <1>1 DEF Goto, PoolInvariant, PoolType
  <1>5. PoolType'
    BY <1>1, <1>2, <1>3, <1>4, ClientsDistinct DEF PoolInvariant, PoolType
  <1>6. Holding'
    BY <1>1, <1>2, HoldingFrame DEF PoolInvariant
  <1>7. LockOnlyWhileRebuilding'
    BY <1>3 DEF PoolInvariant, LockOnlyWhileRebuilding
  <1> QED
    BY <1>5, <1>6, <1>7 DEF PoolInvariant

(* A step of the scheduler's cycle.                                        *)
LEMMA CycleStepShape ==
  ASSUME PoolInvariant, NEW place \in CyclePlaces, Goto(Etl, place),
         lockConn' \in 0 .. PoolSize, lockConn' # 0 <=> place \in LockPlaces,
         open' \in [Slots -> BOOLEAN],
         user' \in [Slots -> Clients \cup {Nobody}],
         \A d \in Clients \ {Etl} : HeldBy(d)' = HeldBy(d),
         queue' \in Seq(Clients), Line',
         Holds(Etl)', LockOnlyWhileRebuilding'
  PROVE  PoolInvariant'
  <1>1. /\ pc' \in [Clients -> RequestPlaces \cup CyclePlaces] /\ pc'[Etl] = place
        /\ \A d \in Clients \ {Etl} : pc'[d] = pc[d]
    BY ClientsDistinct DEF Goto, PoolInvariant, PoolType
  <1>2. PoolType'
    BY <1>1, ClientsDistinct DEF PoolInvariant, PoolType
  <1>3. Holding'
    BY <1>1, HoldingFrame, ClientsDistinct DEF PoolInvariant
  <1> QED
    BY <1>2, <1>3 DEF PoolInvariant

(* Closing a session never leaves the lock on a closed connection.         *)
LEMMA CloseEffect ==
  ASSUME PoolInvariant, NEW s \in Slots, Close(s)
  PROVE  /\ open' \in [Slots -> BOOLEAN]
         /\ lock' \notin Slots
            \/ (lock' = lock /\ lock # s /\ (lock \in Slots => open'[lock]))
  BY ClientsDistinct DEF PoolInvariant, PoolType, LockOnlyWhileRebuilding, Close

(* Nothing is closed and the lock stays where it is.                       *)
LEMMA SameOpen ==
  ASSUME PoolInvariant, UNCHANGED <<open, lock>>
  PROVE  /\ open' \in [Slots -> BOOLEAN]
         /\ lock' \notin Slots \/ (lock' = lock /\ (lock \in Slots => open'[lock]))
  BY DEF PoolInvariant, PoolType, LockOnlyWhileRebuilding

---------------------------------------------------------------------------
(* Requests *)

LEMMA BeginStep ==
  ASSUME PoolInvariant, NEW r \in Requests, Begin(r)
  PROVE  PoolInvariant'
  <1>1. r \in Clients /\ pc[r] = "idle" /\ UNCHANGED <<open, user, lock, lockConn>>
    BY ClientsDistinct DEF Begin, etlVars
  <1>2. PICK place \in {"answered", "waiting"} :
          \/ place = "answered" /\ Goto(r, place) /\ queue' = queue
          \/ place = "waiting" /\ Acquire(r, place)
    BY DEF Begin, Answered
  <1>3. Goto(r, place) /\ place \in RequestPlaces
    BY <1>2 DEF Acquire, RequestPlaces
  <1>4. queue' \in Seq(Clients) /\ Line'
    BY <1>1, <1>2, StayOut, JoinLine DEF Waiting, PoolInvariant
  <1>5. \A d \in Clients : HeldBy(d)' = HeldBy(d)
    BY <1>1, HeldSame
  <1>6. Holds(r)'
    BY <1>1, <1>2, <1>3, <1>5 DEF PoolInvariant, PoolType, Holding, Holds, Goto, LockPlaces
  <1> QED
    BY <1>1, <1>3, <1>4, <1>5, <1>6, SameOpen, RequestStep DEF PoolInvariant, PoolType

LEMMA QueryEnds ==
  ASSUME PoolInvariant, NEW r \in Requests, pc[r] = "querying", NEW s \in HeldBy(r),
         Release(s), Goto(r, "answered"), UNCHANGED <<queue, lockConn>>,
         open' \in [Slots -> BOOLEAN],
         lock' \notin Slots \/ (lock' = lock /\ (lock \in Slots => open'[lock]))
  PROVE  PoolInvariant'
  <1>1. r \in Clients /\ s \in Slots
    BY ClientsDistinct DEF HeldBy
  <1>2. /\ user' \in [Slots -> Clients \cup {Nobody}]
        /\ \A d \in Clients : HeldBy(d)' = HeldBy(d) \ {s}
    BY <1>1, ReleaseHeld DEF PoolInvariant
  <1>3. HeldBy(r) = {s}
    BY <1>1 DEF PoolInvariant, Holding, Holds
  <1>4. HeldBy(r)' = {} /\ \A d \in Clients \ {r} : HeldBy(d)' = HeldBy(d)
    BY <1>1, <1>2, <1>3, HeldDisjoint
  <1>5. queue' \in Seq(Clients) /\ Line'
    BY <1>1, StayOut DEF Waiting, PoolInvariant
  <1>6. Holds(r)'
    BY <1>1, <1>4 DEF PoolInvariant, PoolType, Holds, Goto, LockPlaces
  <1> QED
    BY <1>2, <1>4, <1>5, <1>6, RequestStep DEF RequestPlaces

LEMMA AnswerStep ==
  ASSUME PoolInvariant, NEW r \in Requests, Answer(r)
  PROVE  PoolInvariant'
  <1>1. PICK s \in HeldBy(r) : Release(s) /\ Goto(r, "answered")
    BY DEF Answer, Answered
  <1>2. pc[r] = "querying" /\ UNCHANGED <<open, queue, lock, lockConn>>
    BY DEF Answer, etlVars
  <1> QED
    BY <1>1, <1>2, SameOpen, QueryEnds

LEMMA InterruptStep ==
  ASSUME PoolInvariant, NEW r \in Requests, Interrupt(r)
  PROVE  PoolInvariant'
  <1>1. PICK s \in HeldBy(r) : Release(s) /\ Close(s)
    BY DEF Interrupt
  <1>2. pc[r] = "querying" /\ Goto(r, "answered") /\ UNCHANGED <<queue, lockConn>>
    BY DEF Interrupt, Answered, etlVars
  <1>3. s \in Slots
    BY DEF HeldBy
  <1> QED
    BY <1>1, <1>2, <1>3, CloseEffect, QueryEnds

LEMMA RespondStep ==
  ASSUME PoolInvariant, NEW r \in Requests, Respond(r)
  PROVE  PoolInvariant'
  <1>1. /\ r \in Clients /\ pc[r] = "answered" /\ Goto(r, "idle")
        /\ UNCHANGED <<open, user, queue, lock, lockConn>>
    BY ClientsDistinct DEF Respond, poolVars, etlVars
  <1>2. queue' \in Seq(Clients) /\ Line'
    BY <1>1, StayOut DEF Waiting, PoolInvariant
  <1>3. \A d \in Clients : HeldBy(d)' = HeldBy(d)
    BY <1>1, HeldSame
  <1>4. Holds(r)'
    BY <1>1, <1>3 DEF PoolInvariant, PoolType, Holding, Holds, Goto, LockPlaces
  <1> QED
    BY <1>1, <1>2, <1>3, <1>4, SameOpen, RequestStep
      DEF PoolInvariant, PoolType, RequestPlaces

---------------------------------------------------------------------------
(* The pool *)

LEMMA GrantStep ==
  ASSUME PoolInvariant, Grant
  PROVE  PoolInvariant'
  <1>1. Head(queue) \in ToSet(queue)
    BY ServeLine DEF Grant, PoolInvariant, PoolType, Line
  <1>2. PICK c \in Clients : c = Head(queue) /\ pc[c] \in Waiting
    BY <1>1 DEF PoolInvariant, Line
  <1>3. PICK place : place = Granted(pc[c])
    OBVIOUS
  <1>4. /\ queue # <<>> /\ queue' = Tail(queue) /\ Goto(c, place) /\ lock' = lock
        /\ PoolType /\ Line /\ Holding /\ LockOnlyWhileRebuilding
    BY <1>2, <1>3 DEF Grant, PoolInvariant
  <1>5. PICK s \in FreeSlots :
          /\ user' = [user EXCEPT ![s] = c]
          /\ open' = [open EXCEPT ![s] = TRUE]
          /\ lockConn' = IF pc[c] = "lockWait" THEN s ELSE lockConn
    BY <1>2 DEF Grant
  <1>6. \/ pc[c] = "waiting" /\ place = "querying"
        \/ pc[c] = "pollWait" /\ place = "polling"
        \/ pc[c] = "lockWait" /\ place = "locking"
        \/ pc[c] = "workWait" /\ place = "working"
    BY <1>2, <1>3 DEF Waiting, Granted
  <1>7. place \notin Waiting
    BY <1>6 DEF Waiting
  <1>8. queue' \in Seq(Clients) /\ Line'
    BY <1>2, <1>4, <1>7, ServeLineStep
  <1>9. /\ user' \in [Slots -> Clients \cup {Nobody}]
        /\ HeldBy(c)' = HeldBy(c) \cup {s}
        /\ \A d \in Clients \ {c} : HeldBy(d)' = HeldBy(d)
    BY <1>2, <1>4, <1>5, GrantHeld
  <1>10. s \in Slots /\ s \notin HeldBy(c) /\ s \in 1 .. PoolSize
    BY <1>2, <1>5, ClientsDistinct DEF FreeSlots, HeldBy, Slots
  <1>11. /\ open' \in [Slots -> BOOLEAN]
         /\ lock' \notin Slots \/ (lock' = lock /\ (lock \in Slots => open'[lock]))
    BY <1>4, <1>5, <1>10 DEF PoolType, LockOnlyWhileRebuilding
  <1>12. pc'[c] = place
    BY <1>2, <1>4 DEF Goto, PoolType
  <1>13. CASE pc[c] = "waiting"
    <2>1. c \in Requests /\ place \in RequestPlaces /\ lockConn' = lockConn
      BY <1>2, <1>4, <1>5, <1>6, <1>13 DEF PoolType, Clients, CyclePlaces, LockPlaces,
        RequestPlaces
    <2>2. Holds(c)'
      BY <1>2, <1>4, <1>6, <1>9, <1>10, <1>12, <1>13 DEF Holding, Holds, LockPlaces
    <2> QED
      BY <1>4, <1>8, <1>9, <1>11, <2>1, <2>2, RequestStep
  <1>14. CASE pc[c] # "waiting"
    <2>1. c = Etl
      BY <1>2, <1>4, <1>14 DEF PoolType, Clients, RequestPlaces, Waiting
    <2>2. /\ place \in CyclePlaces
          /\ lockConn' \in 0 .. PoolSize
          /\ lockConn' # 0 <=> place \in LockPlaces
      BY <1>4, <1>5, <1>6, <1>10, <1>14, <2>1 DEF PoolType, CyclePlaces, LockPlaces, Slots
    <2>3. LockOnlyWhileRebuilding'
      BY <1>4, <1>5, <1>6, <1>11, <1>12, <1>14, <2>1 DEF LockOnlyWhileRebuilding
    <2>4. Holds(c)'
      <3>1. CASE pc[c] = "pollWait"
        BY <1>2, <1>4, <1>6, <1>9, <1>10, <1>12, <3>1 DEF Holding, Holds, LockPlaces
      <3>2. CASE pc[c] = "lockWait"
        BY <1>2, <1>4, <1>5, <1>6, <1>9, <1>10, <1>12, <3>2 DEF Holding, Holds, LockPlaces
      <3>3. CASE pc[c] = "workWait"
        <4>1. HeldBy(c) = {lockConn} /\ lockConn' = lockConn
          BY <1>2, <1>4, <1>5, <3>3 DEF Holding, Holds, LockPlaces
        <4>2. pc'[c] = "working"
          BY <1>6, <1>12, <3>3
        <4>3. s # lockConn' /\ HeldBy(c)' = {lockConn', s}
          BY <1>9, <1>10, <4>1
        <4> QED
          BY <1>10, <4>2, <4>3 DEF Holds, LockPlaces
      <3> QED
        BY <1>6, <1>14, <3>1, <3>2, <3>3
    <2> QED
      BY <1>4, <1>8, <1>9, <1>11, <2>1, <2>2, <2>3, <2>4, CycleStepShape
  <1> QED
    BY <1>13, <1>14

LEMMA AcquireErrorStep ==
  ASSUME PoolInvariant, NEW c \in Clients, NEW codes, AcquireError(c, codes)
  PROVE  PoolInvariant'
  <1>1. /\ LeaveLine(c) /\ UNCHANGED <<open, user, lock, lockConn>>
        /\ PoolType /\ Line /\ Holding /\ LockOnlyWhileRebuilding
    BY DEF AcquireError, etlVars, PoolInvariant
  <1>2. \A d \in Clients : HeldBy(d)' = HeldBy(d)
    BY <1>1, HeldSame
  <1>3. CASE c = Etl
    <2> DEFINE place == IF pc[Etl] = "workWait" THEN "unlocking" ELSE "idle"
    <2>1. Goto(Etl, place)
      BY <1>3 DEF AcquireError
    <2>2. place \notin Waiting /\ place \in CyclePlaces
      BY DEF Waiting, CyclePlaces, LockPlaces
    <2>3. queue' \in Seq(Clients) /\ Line' /\ pc[Etl] \in Waiting
      BY <1>1, <1>3, <2>1, <2>2, LeaveLineStep
    <2>4. pc'[Etl] = place
      BY <1>1, <1>3, <2>1 DEF Goto, PoolType
    <2>5. lockConn' # 0 <=> place \in LockPlaces
      BY <1>1, <2>3 DEF PoolType, Waiting, LockPlaces
    <2>6. Holds(Etl)'
      BY <1>1, <1>2, <1>3, <2>3, <2>4 DEF Holding, Holds, LockPlaces, Waiting
    <2>7. LockOnlyWhileRebuilding'
      BY <1>1, <2>3, <2>4 DEF LockOnlyWhileRebuilding, Waiting
    <2> QED
      BY <1>1, <1>2, <2>1, <2>2, <2>3, <2>5, <2>6, <2>7, CycleStepShape DEF PoolType
  <1>4. CASE c # Etl
    <2>1. c \in Requests /\ Goto(c, "answered")
      BY <1>4 DEF AcquireError, Answered, Clients
    <2>2. queue' \in Seq(Clients) /\ Line' /\ pc[c] \in Waiting
      BY <1>1, <2>1, LeaveLineStep DEF Waiting
    <2>3. pc'[c] = "answered" /\ pc[c] = "waiting"
      BY <1>1, <2>1, <2>2 DEF Goto, PoolType, Waiting, RequestPlaces
    <2>4. Holds(c)'
      BY <1>1, <1>2, <2>3 DEF Holding, Holds, LockPlaces
    <2> QED
      BY <1>1, <1>2, <2>1, <2>2, <2>4, SameOpen, RequestStep DEF PoolType, RequestPlaces
  <1> QED
    BY <1>3, <1>4

LEMMA GrantFailsStep ==
  ASSUME PoolInvariant, GrantFails
  PROVE  PoolInvariant'
  <1>1. queue # <<>> /\ queue \in Seq(Clients)
    BY DEF GrantFails, PoolInvariant, PoolType
  <1>2. Head(queue) \in Clients
    BY <1>1, HeadTailProperties
  <1> QED
    BY <1>2, AcquireErrorStep DEF GrantFails

LEMMA GiveUpStep ==
  ASSUME PoolInvariant, NEW c \in Clients, GiveUp(c)
  PROVE  PoolInvariant'
  BY AcquireErrorStep DEF GiveUp

LEMMA LoseConnectionStep ==
  ASSUME PoolInvariant, NEW s \in Slots, LoseConnection(s)
  PROVE  PoolInvariant'
  BY CloseEffect, QuietStep DEF LoseConnection, etlVars

---------------------------------------------------------------------------
(* The scheduler's cycles *)

LEMMA CycleWaits ==
  ASSUME PoolInvariant, NEW place,
         \/ pc[Etl] = "idle" /\ place = "pollWait"
         \/ pc[Etl] = "locked" /\ place = "workWait",
         Acquire(Etl, place), UNCHANGED <<open, user, lock, lockConn>>
  PROVE  PoolInvariant'
  <1>1. Etl \in Clients /\ Goto(Etl, place) /\ place \in CyclePlaces
    BY ClientsDistinct DEF Acquire, CyclePlaces, LockPlaces
  <1>2. queue' \in Seq(Clients) /\ Line'
    BY <1>1, JoinLine DEF Waiting, PoolInvariant
  <1>3. \A d \in Clients : HeldBy(d)' = HeldBy(d)
    BY HeldSame
  <1>4. pc'[Etl] = place
    BY <1>1 DEF Goto, PoolInvariant, PoolType
  <1>5. Holds(Etl)'
    BY <1>1, <1>3, <1>4 DEF PoolInvariant, Holding, Holds, LockPlaces
  <1>6. lockConn' \in 0 .. PoolSize /\ (lockConn' # 0 <=> place \in LockPlaces)
    BY DEF PoolInvariant, PoolType, LockPlaces
  <1>7. LockOnlyWhileRebuilding'
    BY <1>4 DEF PoolInvariant, LockOnlyWhileRebuilding
  <1> QED
    BY <1>1, <1>2, <1>3, <1>5, <1>6, <1>7, CycleStepShape DEF PoolInvariant, PoolType

LEMMA BeginCycleStep ==
  ASSUME PoolInvariant, BeginCycle
  PROVE  PoolInvariant'
  BY CycleWaits DEF BeginCycle, etlVars

LEMMA StartJobStep ==
  ASSUME PoolInvariant, StartJob
  PROVE  PoolInvariant'
  BY CycleWaits DEF StartJob

(* A query of the poll ends, or is interrupted. *)
LEMMA PollEnds ==
  ASSUME PoolInvariant, pc[Etl] = "polling", NEW s \in HeldBy(Etl), Release(s),
         \/ Goto(Etl, "idle") /\ queue' = queue
         \/ Acquire(Etl, "lockWait"),
         lockConn' = 0, open' \in [Slots -> BOOLEAN],
         lock' \notin Slots \/ (lock' = lock /\ (lock \in Slots => open'[lock]))
  PROVE  PoolInvariant'
  <1>1. Etl \in Clients /\ s \in Slots
    BY ClientsDistinct DEF HeldBy
  <1>2. PICK place \in {"idle", "lockWait"} :
          \/ place = "idle" /\ Goto(Etl, place) /\ queue' = queue
          \/ place = "lockWait" /\ Acquire(Etl, place)
    OBVIOUS
  <1>3. Goto(Etl, place) /\ place \in CyclePlaces /\ place \notin LockPlaces
    BY <1>2 DEF Acquire, CyclePlaces, LockPlaces
  <1>4. queue' \in Seq(Clients) /\ Line'
    BY <1>1, <1>2, StayOut, JoinLine DEF Waiting, PoolInvariant
  <1>5. /\ user' \in [Slots -> Clients \cup {Nobody}]
        /\ \A d \in Clients : HeldBy(d)' = HeldBy(d) \ {s}
    BY <1>1, ReleaseHeld DEF PoolInvariant
  <1>6. HeldBy(Etl) = {s}
    BY <1>1 DEF PoolInvariant, Holding, Holds
  <1>7. HeldBy(Etl)' = {} /\ \A d \in Clients \ {Etl} : HeldBy(d)' = HeldBy(d)
    BY <1>1, <1>5, <1>6, HeldDisjoint
  <1>8. pc'[Etl] = place
    BY <1>1, <1>3 DEF Goto, PoolInvariant, PoolType
  <1>9. Holds(Etl)'
    BY <1>2, <1>7, <1>8 DEF Holds, LockPlaces
  <1>10. LockOnlyWhileRebuilding'
    BY DEF PoolInvariant, LockOnlyWhileRebuilding
  <1>11. 0 \in 0 .. PoolSize
    BY PoolAssumption
  <1> QED
    BY <1>3, <1>4, <1>5, <1>7, <1>9, <1>10, <1>11, CycleStepShape

LEMMA PollDoneStep ==
  ASSUME PoolInvariant, PollDone
  PROVE  PoolInvariant'
  <1>1. PICK s \in HeldBy(Etl) : Release(s)
    BY DEF PollDone
  <1>2. lockConn' = 0
    BY DEF PollDone, etlVars, PoolInvariant, PoolType, LockPlaces
  <1>3. UNCHANGED <<open, lock>>
    BY DEF PollDone
  <1> QED
    BY <1>1, <1>2, <1>3, SameOpen, PollEnds DEF PollDone

(* The connection of the lock goes back to the pool. *)
LEMMA LockReturned ==
  ASSUME PoolInvariant, pc[Etl] \in {"locking", "unlocking"}, Release(lockConn),
         Goto(Etl, "idle"), lockConn' = 0, queue' = queue,
         open' \in [Slots -> BOOLEAN], lock' \notin Slots
  PROVE  PoolInvariant'
  <1>1. Etl \in Clients /\ HeldBy(Etl) = {lockConn}
    BY ClientsDistinct DEF PoolInvariant, Holding, Holds, LockPlaces
  <1>2. lockConn \in Slots
    BY <1>1 DEF HeldBy
  <1>3. /\ user' \in [Slots -> Clients \cup {Nobody}]
        /\ \A d \in Clients : HeldBy(d)' = HeldBy(d) \ {lockConn}
    BY <1>2, ReleaseHeld DEF PoolInvariant
  <1>4. HeldBy(Etl)' = {} /\ \A d \in Clients \ {Etl} : HeldBy(d)' = HeldBy(d)
    BY <1>1, <1>3, HeldDisjoint
  <1>5. queue' \in Seq(Clients) /\ Line'
    BY <1>1, StayOut DEF Waiting, PoolInvariant
  <1>6. pc'[Etl] = "idle"
    BY <1>1 DEF Goto, PoolInvariant, PoolType
  <1>7. Holds(Etl)'
    BY <1>4, <1>6 DEF Holds, LockPlaces
  <1>8. LockOnlyWhileRebuilding'
    BY DEF LockOnlyWhileRebuilding
  <1>9. 0 \in 0 .. PoolSize /\ "idle" \in CyclePlaces /\ "idle" \notin LockPlaces
    BY PoolAssumption DEF CyclePlaces, LockPlaces
  <1> QED
    BY <1>3, <1>4, <1>5, <1>7, <1>8, <1>9, CycleStepShape

(* The cycle goes on under the lock. *)
LEMMA LockKept ==
  ASSUME PoolInvariant, pc[Etl] \in {"locking", "locked"},
         NEW place \in {"locked", "unlocking"},
         Goto(Etl, place), UNCHANGED <<open, user, queue, lockConn>>,
         lock' = lock \/ (lock' = lockConn /\ open[lockConn])
  PROVE  PoolInvariant'
  <1>1. Etl \in Clients /\ HeldBy(Etl) = {lockConn}
    BY ClientsDistinct DEF PoolInvariant, Holding, Holds, LockPlaces
  <1>2. \A d \in Clients : HeldBy(d)' = HeldBy(d)
    BY HeldSame
  <1>3. queue' \in Seq(Clients) /\ Line'
    BY <1>1, StayOut DEF Waiting, PoolInvariant
  <1>4. pc'[Etl] = place
    BY <1>1 DEF Goto, PoolInvariant, PoolType
  <1>5. Holds(Etl)'
    BY <1>1, <1>2, <1>4 DEF Holds, LockPlaces
  <1>6. LockOnlyWhileRebuilding'
    BY <1>4 DEF PoolInvariant, LockOnlyWhileRebuilding
  <1>7. /\ place \in CyclePlaces /\ place \in LockPlaces
        /\ lockConn' \in 0 .. PoolSize /\ lockConn' # 0
    BY DEF PoolInvariant, PoolType, CyclePlaces, LockPlaces
  <1> QED
    BY <1>2, <1>3, <1>5, <1>6, <1>7, CycleStepShape DEF PoolInvariant, PoolType

LEMMA TryLockStep ==
  ASSUME PoolInvariant, TryLock
  PROVE  PoolInvariant'
  <1>1. pc[Etl] = "locking" /\ UNCHANGED <<open, queue>>
    BY DEF TryLock
  <1>2. CASE open[lockConn] /\ ~ctxDone /\ lock \in {Free, lockConn}
    BY <1>1, <1>2, LockKept DEF TryLock
  <1>3. CASE ~(open[lockConn] /\ ~ctxDone /\ lock \in {Free, lockConn})
    <2>1. lock' \notin Slots
      BY <1>1, <1>3 DEF TryLock, PoolInvariant, LockOnlyWhileRebuilding
    <2> QED
      BY <1>1, <1>3, <2>1, LockReturned DEF TryLock, PoolInvariant, PoolType
  <1> QED
    BY <1>2, <1>3

LEMMA FinishCycleStep ==
  ASSUME PoolInvariant, FinishCycle
  PROVE  PoolInvariant'
  BY LockKept DEF FinishCycle, poolVars, etlVars

LEMMA UnlockStep ==
  ASSUME PoolInvariant, Unlock
  PROVE  PoolInvariant'
  <1>1. lock' \notin Slots
    BY ClientsDistinct DEF Unlock, PoolInvariant, LockOnlyWhileRebuilding
  <1> QED
    BY <1>1, LockReturned DEF Unlock, EndCycle, PoolInvariant, PoolType

LEMMA UnlockTimesOutStep ==
  ASSUME PoolInvariant, UnlockTimesOut
  PROVE  PoolInvariant'
  <1>1. HeldBy(Etl) = {lockConn}
    BY ClientsDistinct DEF UnlockTimesOut, PoolInvariant, Holding, Holds, LockPlaces
  <1>2. lockConn \in Slots
    BY <1>1 DEF HeldBy
  <1>3. open' \in [Slots -> BOOLEAN]
    BY <1>2, CloseEffect DEF UnlockTimesOut
  <1>4. lock' \notin Slots
    BY <1>2, CloseEffect DEF UnlockTimesOut, PoolInvariant, LockOnlyWhileRebuilding
  <1> QED
    BY <1>3, <1>4, LockReturned DEF UnlockTimesOut, EndCycle

(* A job under the lock ends, well or not. *)
LEMMA WorkConnection ==
  ASSUME PoolInvariant, pc[Etl] = "working"
  PROVE  WorkConn \in Slots \ {lockConn} /\ HeldBy(Etl) = {lockConn, WorkConn}
  <1>1. PICK s \in Slots \ {lockConn} : HeldBy(Etl) = {lockConn, s}
    BY ClientsDistinct DEF PoolInvariant, Holding, Holds
  <1>2. WorkConn \in HeldBy(Etl) /\ WorkConn # lockConn
    BY <1>1 DEF WorkConn
  <1> QED
    BY <1>1, <1>2

(* The connection of a job is given back; the lock's is kept.              *)
LEMMA WorkEnds ==
  ASSUME PoolInvariant, pc[Etl] = "working", NEW s, s = WorkConn, Release(s),
         NEW place \in {"locked", "unlocking"}, Goto(Etl, place),
         UNCHANGED <<queue, lockConn>>,
         open' \in [Slots -> BOOLEAN],
         lock' \notin Slots \/ (lock' = lock /\ (lock \in Slots => open'[lock]))
  PROVE  PoolInvariant'
  <1>1. Etl \in Clients /\ s \in Slots \ {lockConn} /\ HeldBy(Etl) = {lockConn, s}
    BY WorkConnection, ClientsDistinct
  <1>2. /\ user' \in [Slots -> Clients \cup {Nobody}]
        /\ \A d \in Clients : HeldBy(d)' = HeldBy(d) \ {s}
    BY <1>1, ReleaseHeld DEF PoolInvariant
  <1>3. HeldBy(Etl)' = {lockConn'} /\ \A d \in Clients \ {Etl} : HeldBy(d)' = HeldBy(d)
    BY <1>1, <1>2, HeldDisjoint
  <1>4. queue' \in Seq(Clients) /\ Line'
    BY <1>1, StayOut DEF Waiting, PoolInvariant
  <1>5. pc'[Etl] = place
    BY <1>1 DEF Goto, PoolInvariant, PoolType
  <1>6. Holds(Etl)'
    BY <1>3, <1>5 DEF Holds, LockPlaces
  <1>7. LockOnlyWhileRebuilding'
    BY <1>5 DEF PoolInvariant, LockOnlyWhileRebuilding
  <1>8. /\ place \in CyclePlaces /\ place \in LockPlaces
        /\ lockConn' \in 0 .. PoolSize /\ lockConn' # 0
    BY DEF PoolInvariant, PoolType, CyclePlaces, LockPlaces
  <1> QED
    BY <1>2, <1>3, <1>4, <1>6, <1>7, <1>8, CycleStepShape

LEMMA JobDoneStep ==
  ASSUME PoolInvariant, JobDone
  PROVE  PoolInvariant'
  <1>1. PICK place \in {"locked", "unlocking"} : Goto(Etl, place)
    BY DEF JobDone
  <1>2. /\ pc[Etl] = "working" /\ Release(WorkConn)
        /\ UNCHANGED <<open, queue, lock, lockConn>>
    BY DEF JobDone, etlVars
  <1> QED
    BY <1>1, <1>2, SameOpen, WorkEnds

LEMMA CycleInterruptedStep ==
  ASSUME PoolInvariant, CycleInterrupted
  PROVE  PoolInvariant'
  <1>1. CASE pc[Etl] = "working"
    <2>1. PICK s : s = WorkConn
      OBVIOUS
    <2>2. /\ Release(s) /\ Close(s) /\ Goto(Etl, "unlocking")
          /\ UNCHANGED <<queue, lockConn>>
      BY <1>1, <2>1 DEF CycleInterrupted
    <2>3. s \in Slots
      BY <1>1, <2>1, WorkConnection
    <2> QED
      BY <1>1, <2>1, <2>2, <2>3, CloseEffect, WorkEnds
  <1>2. CASE pc[Etl] # "working"
    <2>1. PICK s : s = CHOOSE t \in HeldBy(Etl) : TRUE
      OBVIOUS
    <2>2. /\ Release(s) /\ Close(s) /\ Goto(Etl, "idle") /\ lockConn' = 0 /\ queue' = queue
          /\ pc[Etl] \in {"polling", "locking"}
      BY <1>2, <2>1 DEF CycleInterrupted
    <2>3. CASE pc[Etl] = "polling"
      <3>1. s \in HeldBy(Etl)
        BY <2>1, <2>3, ClientsDistinct DEF PoolInvariant, Holding, Holds
      <3>2. s \in Slots
        BY <3>1 DEF HeldBy
      <3> QED
        BY <2>2, <2>3, <3>1, <3>2, CloseEffect, PollEnds
    <2>4. CASE pc[Etl] = "locking"
      <3>1. HeldBy(Etl) = {lockConn}
        BY <2>4, ClientsDistinct DEF PoolInvariant, Holding, Holds, LockPlaces
      <3>2. s = lockConn /\ s \in Slots
        BY <2>1, <3>1 DEF HeldBy
      <3>3. open' \in [Slots -> BOOLEAN]
        BY <2>2, <3>2, CloseEffect
      <3>4. lock' \notin Slots
        BY <2>2, <2>4, <3>2, CloseEffect DEF PoolInvariant, LockOnlyWhileRebuilding
      <3>5. Release(lockConn)
        BY <2>2, <3>2
      <3> QED
        BY <2>2, <2>4, <3>3, <3>4, <3>5, LockReturned
    <2> QED
      BY <2>2, <2>3, <2>4
  <1> QED
    BY <1>1, <1>2

---------------------------------------------------------------------------
(* Main, other sessions, and the exit *)

LEMMA ConnectStep ==
  ASSUME PoolInvariant, Connect
  PROVE  PoolInvariant'
  <1>1. UNCHANGED <<open, user, queue, lock, pc, lockConn>>
    BY DEF Connect, AttemptSucceeds, AttemptFails, BackoffEnds, poolVars, etlVars
  <1> QED
    BY <1>1, SameOpen, QuietStep

LEMMA OtherSessionStep ==
  ASSUME PoolInvariant, OtherSession
  PROVE  PoolInvariant'
  <1>1. UNCHANGED <<open, user, queue, pc, lockConn>> /\ lock' \notin Slots
    BY ClientsDistinct DEF OtherSession, poolVars, etlVars
  <1> QED
    BY <1>1, QuietStep DEF PoolInvariant, PoolType

LEMMA ShutdownStep ==
  ASSUME PoolInvariant, Signal \/ StopServing \/ ClosePool
  PROVE  PoolInvariant'
  <1>1. UNCHANGED <<open, user, queue, lock, pc, lockConn>>
    BY DEF Signal, StopServing, ClosePool, poolVars, etlVars
  <1> QED
    BY <1>1, SameOpen, QuietStep

(* The pool is closed: nobody is in line.                                  *)
LEMMA NobodyInLine ==
  ASSUME queue' = <<>>, pc' = [c \in Clients |-> "idle"]
  PROVE  queue' \in Seq(Clients) /\ Line'
  <1>1. queue' \in Seq(Clients) /\ DOMAIN queue' = {}
    BY EmptySeq, LenProperties
  <1>2. IsInjective(queue') /\ ToSet(queue') = {}
    BY <1>1 DEF IsInjective, ToSet
  <1>3. {c \in Clients : pc'[c] \in Waiting} = {}
    BY DEF Waiting
  <1> QED
    BY <1>1, <1>2, <1>3 DEF Line

(* The pool has every connection back when the process ends. *)
LEMMA ExitStep ==
  ASSUME PoolInvariant, Exit
  PROVE  PoolInvariant'
  <1>1. /\ FreeSlots = Slots /\ UNCHANGED <<user, lockConn>>
        /\ open' = [s \in Slots |-> FALSE]
        /\ pc' = [c \in Clients |-> "idle"] /\ queue' = <<>>
    BY DEF Exit, etlVars
  <1>2. \A d \in Clients : HeldBy(d) = {} /\ HeldBy(d)' = {}
    BY <1>1, ClientsDistinct DEF FreeSlots, HeldBy
  <1>3. Holding /\ PoolType
    BY DEF PoolInvariant
  <1>4. pc[Etl] \notin LockPlaces
    BY <1>2, <1>3, ClientsDistinct DEF Holding, Holds, LockPlaces
  <1>5. lockConn' = 0
    BY <1>1, <1>3, <1>4 DEF PoolType
  <1>6. queue' \in Seq(Clients) /\ Line'
    BY <1>1, NobodyInLine
  <1>7. "idle" \in RequestPlaces \cap CyclePlaces /\ "idle" \notin LockPlaces
    BY DEF RequestPlaces, CyclePlaces, LockPlaces
  <1>8. PoolType'
    BY <1>1, <1>3, <1>5, <1>6, <1>7, ClientsDistinct DEF PoolType
  <1>9. Holding'
    BY <1>1, <1>2 DEF Holding, Holds, LockPlaces
  <1>10. LockOnlyWhileRebuilding'
    BY ClientsDistinct DEF Exit, LockOnlyWhileRebuilding
  <1> QED
    BY <1>6, <1>8, <1>9, <1>10 DEF PoolInvariant

---------------------------------------------------------------------------
(* The invariant holds at the start and is preserved by every step. *)

LEMMA InitInvariant == Init => PoolInvariant
  <1> SUFFICES ASSUME Init PROVE PoolInvariant
    OBVIOUS
  <1>1. queue \in Seq(Clients) /\ DOMAIN queue = {}
    BY EmptySeq, LenProperties DEF Init
  <1>2. IsInjective(queue) /\ ToSet(queue) = {}
    BY <1>1 DEF IsInjective, ToSet
  <1>3. {c \in Clients : pc[c] \in Waiting} = {}
    BY DEF Init, Waiting
  <1>4. PoolType
    BY <1>1, PoolAssumption, ClientsDistinct
      DEF Init, PoolType, RequestPlaces, CyclePlaces, LockPlaces
  <1>5. \A c \in Clients : HeldBy(c) = {} /\ pc[c] = "idle"
    BY ClientsDistinct DEF Init, HeldBy
  <1>6. Holding
    BY <1>5 DEF Holding, Holds, LockPlaces
  <1>7. LockOnlyWhileRebuilding
    BY ClientsDistinct DEF Init, LockOnlyWhileRebuilding
  <1> QED
    BY <1>2, <1>3, <1>4, <1>6, <1>7 DEF PoolInvariant, Line

LEMMA CycleStepPreserves ==
  ASSUME PoolInvariant, CycleStep
  PROVE  PoolInvariant'
  BY PollDoneStep, TryLockStep, StartJobStep, JobDoneStep, CycleInterruptedStep,
     FinishCycleStep, UnlockStep, UnlockTimesOutStep
  DEF CycleStep

LEMMA RequestPreserves ==
  ASSUME PoolInvariant, NEW r \in Requests, Request(r)
  PROVE  PoolInvariant'
  BY BeginStep, AnswerStep, InterruptStep, RespondStep DEF Request

(* Every step preserves the invariant: one case per action of Next.        *)
LEMMA StepInvariant == PoolInvariant /\ [Next]_vars => PoolInvariant'
  <1> SUFFICES ASSUME PoolInvariant, [Next]_vars PROVE PoolInvariant'
    OBVIOUS
  <1>1. CASE Connect
    BY <1>1, ConnectStep
  <1>2. CASE \E r \in Requests : Request(r)
    BY <1>2, RequestPreserves
  <1>3. CASE Grant
    BY <1>3, GrantStep
  <1>4. CASE GrantFails
    BY <1>4, GrantFailsStep
  <1>5. CASE \E c \in Clients : GiveUp(c)
    BY <1>5, GiveUpStep
  <1>6. CASE \E s \in Slots : LoseConnection(s)
    BY <1>6, LoseConnectionStep
  <1>7. CASE BeginCycle
    BY <1>7, BeginCycleStep
  <1>8. CASE CycleStep
    BY <1>8, CycleStepPreserves
  <1>9. CASE OtherSession
    BY <1>9, OtherSessionStep
  <1>10. CASE Signal \/ StopServing \/ ClosePool
    BY <1>10, ShutdownStep
  <1>11. CASE Exit
    BY <1>11, ExitStep
  <1>12. CASE UNCHANGED vars
    BY <1>12, SameOpen, QuietStep DEF vars, poolVars, etlVars
  <1> QED
    BY <1>1, <1>2, <1>3, <1>4, <1>5, <1>6, <1>7, <1>8, <1>9, <1>10, <1>11, <1>12 DEF Next

---------------------------------------------------------------------------
(* What follows from the invariant *)

LEMMA HeldCounts ==
  ASSUME PoolInvariant, NEW c \in Clients
  PROVE  Cardinality(HeldBy(c)) = Leases(pc[c])
  <1>1. Holds(c) /\ pc[c] \in RequestPlaces \cup CyclePlaces
    BY DEF PoolInvariant, Holding, PoolType
  <1>2. CASE pc[c] \in {"idle", "waiting", "answered", "pollWait", "lockWait"}
    BY <1>1, <1>2, FS_EmptySet DEF Holds, Leases
  <1>3. CASE pc[c] \in {"querying", "polling"}
    <2>1. PICK s \in Slots : HeldBy(c) = {s}
      BY <1>1, <1>3 DEF Holds
    <2> QED
      BY <1>3, <2>1, FS_Singleton DEF Leases
  <1>4. CASE pc[c] \in LockPlaces \ {"working"}
    <2>1. HeldBy(c) = {lockConn}
      BY <1>1, <1>4 DEF Holds
    <2> QED
      BY <1>4, <2>1, FS_Singleton DEF Leases, LockPlaces
  <1>5. CASE pc[c] = "working"
    <2>1. PICK s \in Slots \ {lockConn} : HeldBy(c) = {lockConn, s}
      BY <1>1, <1>5 DEF Holds
    <2>2. IsFiniteSet({s}) /\ Cardinality({s}) = 1
      BY FS_Singleton
    <2>3. Cardinality({s} \cup {lockConn}) = 2
      BY <2>1, <2>2, FS_AddElement
    <2>4. HeldBy(c) = {s} \cup {lockConn}
      BY <2>1
    <2> QED
      BY <1>5, <2>3, <2>4 DEF Leases
  <1> QED
    BY <1>1, <1>2, <1>3, <1>4, <1>5 DEF RequestPlaces, CyclePlaces, LockPlaces

(* The sets held, counted.                                                 *)
LEMMA InvariantAccounts == PoolInvariant => LeasesAccounted
  <1> SUFFICES ASSUME PoolInvariant PROVE LeasesAccounted
    OBVIOUS
  <1>1. \A c \in Clients : Cardinality(HeldBy(c)) = Leases(pc[c])
    BY HeldCounts
  <1>2. lockConn # 0 <=> pc[Etl] \in LockPlaces
    BY DEF PoolInvariant, PoolType
  <1>3. ASSUME lockConn # 0 PROVE user[lockConn] = Etl
    <2>1. lockConn \in HeldBy(Etl)
      BY <1>2, <1>3, ClientsDistinct DEF PoolInvariant, Holding, Holds, LockPlaces
    <2> QED
      BY <2>1 DEF HeldBy
  <1> QED
    BY <1>1, <1>2, <1>3 DEF LeasesAccounted, PoolInvariant, Line, LockPlaces

(* Of every process with any number of connections: what each caller holds *)
(* and who stands in line is as its place in the code says.                *)
THEOREM PoolInvariance == Spec => []PoolInvariant
  BY InitInvariant, StepInvariant, PTL DEF Spec

(* Connections are neither leaked nor shared, on any path, and whoever     *)
(* waits is in line exactly once, for any pool size and any requests.      *)
THEOREM ConnectionsAccounted == Spec => []LeasesAccounted
  BY PoolInvariance, InvariantAccounts, PTL

(* No connection goes back to the pool with the advisory lock, whatever    *)
(* fails, is lost or is interrupted.                                       *)
THEOREM LockStaysWithCycle == Spec => []LockOnlyWhileRebuilding
  <1>1. PoolInvariant => LockOnlyWhileRebuilding
    BY DEF PoolInvariant
  <1> QED
    BY <1>1, PoolInvariance, PTL
===========================================================================
