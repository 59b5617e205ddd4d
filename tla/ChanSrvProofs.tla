---------------------------- MODULE ChanSrvProofs -----------------------------
(* Theorems about ChanSrv, for any number of connections, addresses and permits. *)
EXTENDS ChanSrv, FiniteSetTheorems, TLAPS

\* The types, but for the upper bound of free, which follows from the accounting.
BaseType ==
    /\ srv \in {"up", "dropped"}
    /\ loop \in [Listeners -> {"run", "abort", "gone"}]
    /\ conn \in [Conns -> ConnStates]
    /\ doomed \in SUBSET Conns
    /\ free \in Nat
    /\ queue \in Seq(Conns)
    /\ req \in [Conns -> {"idle", "auth", "body", "run"}]
    /\ cred \in [Conns -> Creds]
    /\ job \in [Conns -> JobStates]
    /\ keys \in SUBSET Creds
    /\ seen \in [Conns -> SUBSET BOOLEAN]

-----------------------------------------------------------------------------
(* Lemmas about the queue and the permits. *)

\* Without(q, i) is a queue, and holds what q holds at the places other than i.
LEMMA WithoutFacts ==
  ASSUME NEW S, NEW q \in Seq(S), NEW i \in DOMAIN q
  PROVE  /\ Without(q, i) \in Seq(S)
         /\ DOMAIN Without(q, i) = 1 .. Len(q) - 1
         /\ \A j \in DOMAIN Without(q, i) :
                Without(q, i)[j] = IF j < i THEN q[j] ELSE q[j + 1]
<1> DEFINE n == Len(q) - 1
<1>1. Len(q) \in Nat /\ DOMAIN q = 1 .. Len(q) /\ n \in Nat
  OBVIOUS
<1>2. \A j \in 1 .. n : (IF j < i THEN q[j] ELSE q[j + 1]) \in S
  BY <1>1
<1>3. Without(q, i) \in [1 .. n -> S]
  BY <1>2 DEF Without
<1>4. Without(q, i) \in Seq(S)
  BY <1>1, <1>3
<1> QED
  BY <1>3, <1>4 DEF Without

\* A sequence that is not empty has a first place and a tail.
LEMMA TailFacts ==
  ASSUME NEW S, NEW q \in Seq(S), q # <<>>
  PROVE  /\ 1 \in DOMAIN q /\ Head(q) = q[1] /\ Head(q) \in S
         /\ Tail(q) \in Seq(S)
         /\ DOMAIN Tail(q) = 1 .. Len(q) - 1
         /\ \A j \in DOMAIN Tail(q) : Tail(q)[j] = q[j + 1]
OBVIOUS

\* Holders and waiters are finite sets of connections.
LEMMA HoldersFinite ==
  IsFiniteSet(Holders) /\ Cardinality(Holders) \in Nat
<1>1. Holders \in SUBSET Conns
  BY DEF Holders
<1> QED
  BY <1>1, ChanConstants, FS_Subset, FS_CardinalityType

\* A change of conn and of the permits keeps the three in their types.
PermitType ==
    /\ conn \in [Conns -> ConnStates]
    /\ free \in Nat
    /\ queue \in Seq(Conns)

LEMMA LeaveQueueType ==
  ASSUME PermitType, NEW c \in Conns, NEW s \in ConnStates, LeaveQueue(c, s)
  PROVE  PermitType'
<1>1. PICK i \in DOMAIN queue : queue' = Without(queue, i)
  BY DEF LeaveQueue
<1>2. queue' \in Seq(Conns)
  BY <1>1, WithoutFacts DEF PermitType
<1> QED
  BY <1>2 DEF PermitType, LeaveQueue

LEMMA ReleaseType ==
  ASSUME PermitType, NEW c \in Conns, Release(c)
  PROVE  PermitType'
<1>1. CASE queue = <<>>
  BY <1>1 DEF PermitType, Release, ConnStates
<1>2. CASE queue # <<>>
  <2>1. Head(queue) \in Conns /\ Tail(queue) \in Seq(Conns)
    BY <1>2, TailFacts DEF PermitType
  <2> QED
    BY <1>2, <2>1 DEF PermitType, Release, ConnStates
<1> QED
  BY <1>1, <1>2

\* Dropping a request and answering one keep the variables of requests in their types.
RequestType ==
    /\ req \in [Conns -> {"idle", "auth", "body", "run"}]
    /\ cred \in [Conns -> Creds]
    /\ job \in [Conns -> JobStates]
    /\ keys \in SUBSET Creds
    /\ seen \in [Conns -> SUBSET BOOLEAN]

LEMMA DropRequestType ==
  ASSUME RequestType, NEW c \in Conns, DropRequest(c) \/ Answer(c)
  PROVE  RequestType'
BY DEF RequestType, DropRequest, Answer, JobStates

\* Every step keeps the types.
LEMMA BaseTypeStep == BaseType /\ [Next]_vars => BaseType'
<1> SUFFICES ASSUME BaseType, [Next]_vars PROVE BaseType'
  OBVIOUS
<1> USE DEF server, permits, requests
<1>1. PermitType /\ RequestType
  BY DEF BaseType, PermitType, RequestType
<1>2. ASSUME NEW c \in Conns, ConnStep(c) PROVE BaseType'
  <2>1. CASE Connect(c)
    BY <2>1 DEF Connect, BaseType, ConnStates
  <2>2. CASE Accept(c)
    BY <2>2 DEF Accept, BaseType, ConnStates
  <2>3. CASE AcceptErr(c)
    BY <2>3 DEF AcceptErr, BaseType, ConnStates
  <2>4. CASE Acquire(c)
    BY SMTT(30), <2>4 DEF Acquire, BaseType, ConnStates
  <2>5. CASE TakePermit(c)
    BY <2>5 DEF TakePermit, BaseType, ConnStates
  <2>6. CASE Expire(c)
    <3>1. PermitType'
      BY <1>1, <2>6, LeaveQueueType DEF Expire, ConnStates
    <3> QED
      BY <2>6, <3>1 DEF Expire, BaseType, PermitType
  <2>7. CASE CloseConn(c)
    <3>1. PermitType'
      <4>1. CASE Release(c)
        BY <1>1, <4>1, ReleaseType
      <4>2. CASE conn' = [conn EXCEPT ![c] = "gone"] /\ UNCHANGED permits
        BY <1>1, <4>2 DEF PermitType, ConnStates
      <4> QED
        BY <2>7, <4>1, <4>2 DEF CloseConn
    <3>2. RequestType'
      BY <1>1, <2>7, DropRequestType DEF CloseConn
    <3> QED
      BY <2>7, <3>1, <3>2 DEF CloseConn, BaseType, PermitType, RequestType
  <2>8. CASE Cancel(c)
    <3>1. PermitType'
      <4>1. CASE Release(c)
        BY <1>1, <4>1, ReleaseType
      <4>2. CASE conn' = [conn EXCEPT ![c] = "gone"] /\ UNCHANGED permits
        BY <1>1, <4>2 DEF PermitType, ConnStates
      <4>3. CASE LeaveQueue(c, "gone")
        BY <1>1, <4>3, LeaveQueueType DEF ConnStates
      <4> QED
        BY <2>8, <4>1, <4>2, <4>3 DEF Cancel
    <3>2. RequestType'
      BY <1>1, <2>8, DropRequestType DEF Cancel
    <3> QED
      BY <2>8, <3>1, <3>2 DEF Cancel, BaseType, PermitType, RequestType
  <2> QED
    BY <1>2, <2>1, <2>2, <2>3, <2>4, <2>5, <2>6, <2>7, <2>8 DEF ConnStep
<1>3. ASSUME NEW c \in Conns, RequestStep(c) PROVE BaseType'
  <2>1. CASE \E k \in Creds : Receive(c, k)
    BY <2>1 DEF Receive, BaseType, JobStates
  <2>2. CASE RunJob(c)
    <3>1. job' \in [Conns -> JobStates]
      BY <2>2 DEF RunJob, BaseType, JobStates
    <3> QED
      BY <2>2, <3>1 DEF RunJob, BaseType
  <2>3. CASE Authorize(c)
    <3>1. RequestType'
      BY <1>1, <2>3, DropRequestType DEF Authorize, RequestType, JobStates
    <3> QED
      BY <2>3, <3>1 DEF Authorize, BaseType, RequestType
  <2>4. CASE Dispatch(c)
    BY <2>4 DEF Dispatch, BaseType, JobStates
  <2>5. CASE BodyAnswered(c) \/ Respond(c)
    <3>1. RequestType'
      BY <1>1, <2>5, DropRequestType DEF BodyAnswered, Respond
    <3> QED
      BY <2>5, <3>1 DEF BodyAnswered, Respond, BaseType, RequestType
  <2> QED
    BY <1>3, <2>1, <2>2, <2>3, <2>4, <2>5 DEF RequestStep
<1>4. ASSUME NEW l \in Listeners, EndLoop(l) PROVE BaseType'
  BY <1>4 DEF EndLoop, BaseType, ConnStates, TasksOf, Tasks
<1>5. ASSUME NEW k \in Creds, ChangeKeys(k) PROVE BaseType'
  <2>1. keys' \in SUBSET Creds
    BY <1>5 DEF ChangeKeys, BaseType
  <2>2. \A c \in Conns : {(cred[c] \in keys')} \in SUBSET BOOLEAN
    OBVIOUS
  <2>3. \A c \in Conns : seen[c] \union {(cred[c] \in keys')} \in SUBSET BOOLEAN
    BY <2>2 DEF BaseType
  <2>4. seen' \in [Conns -> SUBSET BOOLEAN]
    BY <1>5, <2>3, Zenon DEF ChangeKeys, BaseType
  <2> QED
    BY <1>5, <2>1, <2>4 DEF ChangeKeys, BaseType
<1>6. CASE DropSrv
  BY <1>6 DEF DropSrv, BaseType
<1>7. CASE UNCHANGED vars
  BY <1>7 DEF vars, BaseType
<1> QED
  BY <1>2, <1>3, <1>4, <1>5, <1>6, <1>7 DEF Next

LEMMA BaseTyping == Spec => []BaseType
<1>1. Init => BaseType
  BY ChanConstants DEF Init, BaseType, ConnStates, JobStates
<1> QED
  BY <1>1, BaseTypeStep, PTL DEF Spec

-----------------------------------------------------------------------------
(* Where permits and tasks go. *)

LEMMA SameAccounts ==
  ASSUME PermitAccounting, Holders' = Holders, Waiters' = Waiters, UNCHANGED permits
  PROVE  PermitAccounting'
BY DEF PermitAccounting, permits

\* A task that is not queued and has no permit may change to another such state.
LEMMA BystanderStep ==
  ASSUME PermitType, PermitAccounting, UNCHANGED permits,
         NEW c \in Conns, conn[c] \notin {"queued", "granted", "open"},
         NEW s, s \notin {"queued", "granted", "open"},
         conn' = [conn EXCEPT ![c] = s]
  PROVE  PermitAccounting'
<1>1. Holders' = Holders /\ Waiters' = Waiters
  BY DEF PermitType, Holders, Waiters
<1> QED
  BY <1>1, SameAccounts

LEMMA AcquireAccounts ==
  ASSUME PermitType, PermitAccounting, NEW c \in Conns, Acquire(c)
  PROVE  PermitAccounting'
<1>1. c \notin Holders /\ c \notin Waiters
  BY DEF Acquire, Holders, Waiters
<1>2. CASE free > 0
  <2>1. queue = <<>> /\ queue' = queue /\ free' = free - 1
    BY <1>2 DEF Acquire, PermitAccounting, PermitType
  <2>2. Holders' = Holders \union {c} /\ Waiters' = Waiters
    BY <1>2 DEF Acquire, PermitType, Holders, Waiters
  <2>3. Cardinality(Holders') = Cardinality(Holders) + 1
    BY <1>1, <2>2, HoldersFinite, FS_AddElement
  <2> QED
    BY <2>1, <2>2, <2>3, HoldersFinite DEF PermitAccounting, PermitType
<1>3. CASE ~(free > 0)
  <2>1. free = 0 /\ free' = free /\ queue' = Append(queue, c)
    BY <1>3 DEF Acquire, PermitType
  <2>2. Holders' = Holders /\ Waiters' = Waiters \union {c}
    BY <1>3 DEF Acquire, PermitType, Holders, Waiters
  <2>3. /\ DOMAIN queue' = 1 .. Len(queue) + 1 /\ DOMAIN queue = 1 .. Len(queue)
        /\ Len(queue) \in Nat
        /\ queue'[Len(queue) + 1] = c
        /\ \A i \in DOMAIN queue : queue'[i] = queue[i]
    BY <2>1 DEF PermitType
  <2>4. \A i \in DOMAIN queue : queue[i] # c
    BY <1>1 DEF PermitAccounting
  <2>5. {queue'[i] : i \in DOMAIN queue'} = Waiters'
    BY <2>2, <2>3 DEF PermitAccounting
  <2>6. \A i, j \in DOMAIN queue' : queue'[i] = queue'[j] => i = j
    BY <2>3, <2>4 DEF PermitAccounting
  <2> QED
    BY <2>1, <2>2, <2>5, <2>6 DEF PermitAccounting
<1> QED
  BY <1>2, <1>3

LEMMA LeaveQueueAccounts ==
  ASSUME PermitType, PermitAccounting, NEW c \in Conns, conn[c] = "queued",
         NEW s, s \notin {"queued", "granted", "open"}, LeaveQueue(c, s)
  PROVE  PermitAccounting'
<1>1. PICK k \in DOMAIN queue : queue[k] = c /\ queue' = Without(queue, k)
  BY DEF LeaveQueue
<1>2. free' = free /\ Holders' = Holders /\ Waiters' = Waiters \ {c}
  BY DEF LeaveQueue, PermitType, Holders, Waiters
<1>3. /\ DOMAIN queue' = 1 .. Len(queue) - 1 /\ DOMAIN queue = 1 .. Len(queue)
      /\ Len(queue) \in Nat
      /\ \A j \in DOMAIN queue' : queue'[j] = IF j < k THEN queue[j] ELSE queue[j + 1]
  BY <1>1, WithoutFacts DEF PermitType
<1>4. queue # <<>>
  BY <1>1
<1>5. {queue'[i] : i \in DOMAIN queue'} = Waiters'
  <2>1. ASSUME NEW j \in DOMAIN queue' PROVE queue'[j] \in Waiters /\ queue'[j] # c
    BY <1>1, <1>3 DEF PermitAccounting
  <2>2. ASSUME NEW d \in Waiters, d # c PROVE \E j \in DOMAIN queue' : queue'[j] = d
    <3>1. PICK i \in DOMAIN queue : queue[i] = d
      BY <2>2 DEF PermitAccounting
    <3>2. CASE i < k
      BY <1>1, <1>3, <3>1, <3>2
    <3>3. CASE i > k
      <4>1. i - 1 \in DOMAIN queue' /\ ~(i - 1 < k) /\ (i - 1) + 1 = i
        BY <1>1, <1>3, <3>3
      <4> QED
        BY <1>3, <3>1, <4>1
    <3> QED
      BY <1>1, <1>3, <2>2, <3>1, <3>2, <3>3
  <2> QED
    BY <1>2, <2>1, <2>2
<1>6. \A i, j \in DOMAIN queue' : queue'[i] = queue'[j] => i = j
  BY <1>1, <1>3 DEF PermitAccounting
<1> QED
  BY <1>2, <1>4, <1>5, <1>6 DEF PermitAccounting

LEMMA ReleaseAccounts ==
  ASSUME PermitType, PermitAccounting, NEW c \in Holders, Release(c)
  PROVE  PermitAccounting'
<1>1. c \in Conns /\ c \notin Waiters
  BY DEF Holders, Waiters
<1>2. Cardinality(Holders \ {c}) = Cardinality(Holders) - 1 /\ IsFiniteSet(Holders \ {c})
  BY HoldersFinite, FS_RemoveElement
<1>3. CASE queue = <<>>
  <2>1. Holders' = Holders \ {c} /\ Waiters' = Waiters
    BY <1>1, <1>3 DEF Release, PermitType, Holders, Waiters
  <2>2. free' = free + 1 /\ queue' = queue
    BY <1>3 DEF Release
  <2> QED
    BY <1>2, <1>3, <2>1, <2>2, HoldersFinite DEF PermitAccounting, PermitType
<1>4. CASE queue # <<>>
  <2> DEFINE h == Head(queue)
  <2>1. /\ 1 \in DOMAIN queue /\ h = queue[1]
        /\ DOMAIN queue = 1 .. Len(queue) /\ Len(queue) \in Nat
        /\ DOMAIN Tail(queue) = 1 .. Len(queue) - 1
        /\ \A j \in DOMAIN Tail(queue) : Tail(queue)[j] = queue[j + 1]
    BY <1>4, TailFacts DEF PermitType
  <2>2. h \in Waiters
    BY <2>1 DEF PermitAccounting
  <2>3. h \in Conns /\ h # c /\ h \notin Holders
    BY <1>1, <2>2 DEF Holders, Waiters
  <2>4. /\ conn' = [conn EXCEPT ![c] = "gone", ![h] = "granted"]
        /\ queue' = Tail(queue) /\ free' = free
    BY <1>4 DEF Release
  <2> HIDE DEF h
  <2>5. Holders' = (Holders \ {c}) \union {h} /\ Waiters' = Waiters \ {h}
    BY <1>1, <2>3, <2>4 DEF PermitType, Holders, Waiters
  <2>6. Cardinality(Holders') = Cardinality(Holders)
    <3>1. h \notin Holders \ {c}
      BY <2>3
    <3>2. Cardinality((Holders \ {c}) \union {h}) = Cardinality(Holders \ {c}) + 1
      BY <1>2, <3>1, FS_AddElement
    <3> QED
      BY <1>2, <2>5, <3>2, HoldersFinite
  <2>7. {queue'[i] : i \in DOMAIN queue'} = Waiters'
    <3>1. ASSUME NEW j \in DOMAIN queue' PROVE queue'[j] \in Waiters /\ queue'[j] # h
      <4>1. j + 1 \in DOMAIN queue /\ queue'[j] = queue[j + 1] /\ j + 1 # 1
        BY <2>1, <2>4
      <4> QED
        BY <2>1, <4>1 DEF PermitAccounting
    <3>2. ASSUME NEW d \in Waiters, d # h PROVE \E j \in DOMAIN queue' : queue'[j] = d
      <4>1. PICK i \in DOMAIN queue : queue[i] = d
        BY DEF PermitAccounting
      <4>2. i - 1 \in DOMAIN queue' /\ (i - 1) + 1 = i
        BY <2>1, <2>4, <3>2, <4>1
      <4> QED
        BY <2>1, <2>4, <4>1, <4>2
    <3> QED
      BY <2>5, <3>1, <3>2
  <2>8. \A i, j \in DOMAIN queue' : queue'[i] = queue'[j] => i = j
    BY <2>1, <2>4 DEF PermitAccounting
  <2> QED
    BY <1>4, <2>4, <2>6, <2>7, <2>8 DEF PermitAccounting
<1> QED
  BY <1>3, <1>4

-----------------------------------------------------------------------------
(* The accounting holds, and what follows from it. *)

LEMMA AccountingStep ==
  BaseType /\ PermitAccounting /\ [Next]_vars => PermitAccounting'
<1> SUFFICES ASSUME BaseType, PermitAccounting, [Next]_vars PROVE PermitAccounting'
  OBVIOUS
<1>1. PermitType
  BY DEF BaseType, PermitType
<1>2. CASE UNCHANGED <<conn, permits>>
  BY <1>2, SameAccounts DEF Holders, Waiters
<1>3. ASSUME NEW c \in Conns, ConnStep(c) PROVE PermitAccounting'
  <2>1. CASE Connect(c) \/ Accept(c) \/ AcceptErr(c)
    BY <1>1, <2>1, BystanderStep DEF Connect, Accept, AcceptErr
  <2>2. CASE Acquire(c)
    BY <1>1, <2>2, AcquireAccounts
  <2>3. CASE TakePermit(c)
    <3>1. Holders' = Holders /\ Waiters' = Waiters
      BY <1>1, <2>3 DEF TakePermit, PermitType, Holders, Waiters
    <3> QED
      BY <2>3, <3>1, SameAccounts DEF TakePermit
  <2>4. CASE Expire(c)
    BY <1>1, <2>4, LeaveQueueAccounts DEF Expire
  <2>5. CASE CloseConn(c)
    <3>1. CASE conn[c] = "open" /\ Release(c)
      BY <1>1, <3>1, ReleaseAccounts DEF Holders
    <3>2. CASE conn[c] = "refused" /\ conn' = [conn EXCEPT ![c] = "gone"] /\ UNCHANGED permits
      BY <1>1, <3>2, BystanderStep
    <3> QED
      BY <2>5, <3>1, <3>2 DEF CloseConn
  <2>6. CASE Cancel(c)
    <3>1. CASE conn[c] \in {"granted", "open"} /\ Release(c)
      BY <1>1, <3>1, ReleaseAccounts DEF Holders
    <3>2. CASE conn[c] \in {"task", "refused"} /\ conn' = [conn EXCEPT ![c] = "gone"] /\ UNCHANGED permits
      BY <1>1, <3>2, BystanderStep
    <3>3. CASE conn[c] = "queued" /\ LeaveQueue(c, "gone")
      BY <1>1, <3>3, LeaveQueueAccounts
    <3> QED
      BY <2>6, <3>1, <3>2, <3>3 DEF Cancel
  <2> QED
    BY <1>3, <2>1, <2>2, <2>3, <2>4, <2>5, <2>6 DEF ConnStep
<1>4. ASSUME NEW l \in Listeners, EndLoop(l) PROVE PermitAccounting'
  <2>1. Holders' = Holders /\ Waiters' = Waiters
    BY <1>1, <1>4 DEF EndLoop, PermitType, Holders, Waiters
  <2> QED
    BY <1>4, <2>1, SameAccounts DEF EndLoop
<1>5. ASSUME NEW c \in Conns, RequestStep(c) PROVE UNCHANGED <<conn, permits>>
  BY <1>5 DEF RequestStep, Receive, RunJob, Authorize, Dispatch, BodyAnswered, Respond
<1>6. ASSUME NEW k \in Creds, ChangeKeys(k) PROVE UNCHANGED <<conn, permits>>
  BY <1>6 DEF ChangeKeys
<1>7. CASE DropSrv
  BY <1>2, <1>7 DEF DropSrv
<1>8. CASE UNCHANGED vars
  BY <1>2, <1>8 DEF vars, permits
<1> QED
  BY <1>2, <1>3, <1>4, <1>5, <1>6, <1>7, <1>8 DEF Next

\* Every permit is free or held by one connection task, the queue is the tasks that
\* wait, and nobody waits while a permit is free: permits come back however a task of
\* serve_connection ends, and go to the next one that waits.
THEOREM PermitsAccounted == Spec => []PermitAccounting
<1>1. Init => PermitAccounting
  <2> SUFFICES ASSUME Init PROVE PermitAccounting
    OBVIOUS
  <2>1. Holders = {} /\ Waiters = {}
    BY DEF Init, Holders, Waiters
  <2>2. queue = <<>> /\ free = MaxConns /\ DOMAIN queue = {}
    BY DEF Init
  <2> QED
    BY <2>1, <2>2, FS_EmptySet, ChanConstants DEF PermitAccounting
<1> QED
  BY <1>1, BaseTyping, AccountingStep, PTL DEF Spec

\* Types of the variables of ChanSrv; there are never more permits than MAX_CONNS.
THEOREM ChanTyping == Spec => []ChanTypeOK
<1>1. BaseType /\ PermitAccounting => ChanTypeOK
  <2> SUFFICES ASSUME BaseType, PermitAccounting PROVE ChanTypeOK
    OBVIOUS
  <2>1. free \in 0 .. MaxConns
    BY HoldersFinite, ChanConstants DEF BaseType, PermitAccounting
  <2> QED
    BY <2>1 DEF BaseType, ChanTypeOK
<1> QED
  BY <1>1, BaseTyping, PermitsAccounted, PTL

\* serve_connection refuses a connection (503) only while MAX_CONNS others hold a permit.
THEOREM RefusalsNeedFull == Spec => RefusedOnlyWhenFull
<1>1. BaseType /\ PermitAccounting /\ [Next]_vars =>
        [\A c \in Conns : conn[c] # "refused" /\ conn'[c] = "refused" =>
            /\ c \notin Holders
            /\ Cardinality(Holders) = MaxConns]_vars
  <2> SUFFICES ASSUME BaseType, PermitAccounting, Next,
                      NEW c \in Conns, conn[c] # "refused", conn'[c] = "refused"
               PROVE  c \notin Holders /\ Cardinality(Holders) = MaxConns
    OBVIOUS
  <2>1. conn[c] = "queued"
    <3>1. ASSUME NEW d \in Conns, ConnStep(d) PROVE conn[c] = "queued"
      <4>1. CASE Expire(d)
        BY <4>1 DEF Expire, LeaveQueue, BaseType
      <4>2. CASE CloseConn(d)
        BY <4>2 DEF CloseConn, Release, BaseType
      <4>3. CASE Cancel(d)
        BY <4>3 DEF Cancel, Release, LeaveQueue, BaseType
      <4> QED
        BY <3>1, <4>1, <4>2, <4>3
        DEF ConnStep, Connect, Accept, AcceptErr, Acquire, TakePermit, BaseType
    <3>2. ASSUME NEW l \in Listeners, EndLoop(l) PROVE FALSE
      BY <3>2 DEF EndLoop, BaseType
    <3>3. ASSUME NEW d \in Conns, RequestStep(d) PROVE FALSE
      BY <3>3 DEF RequestStep, Receive, RunJob, Authorize, Dispatch, BodyAnswered, Respond
    <3>4. ASSUME NEW k \in Creds, ChangeKeys(k) PROVE FALSE
      BY <3>4 DEF ChangeKeys
    <3>5. ~DropSrv
      BY DEF DropSrv
    <3> QED
      BY <3>1, <3>2, <3>3, <3>4, <3>5 DEF Next
  <2>2. queue # <<>>
    <3>1. c \in {queue[i] : i \in DOMAIN queue}
      BY <2>1 DEF PermitAccounting, Waiters
    <3> QED
      BY <3>1
  <2> QED
    BY <2>1, <2>2, HoldersFinite DEF PermitAccounting, Holders, BaseType
<1> QED
  BY <1>1, BaseTyping, PermitsAccounted, PTL DEF Spec, RefusedOnlyWhenFull

-----------------------------------------------------------------------------
(* Authorization. *)

\* A request is on an open connection, what there is to say of its key is in seen, and
\* a statement whose task is there is the one its request waits for.
AuthAt(c) ==
    /\ job[c] = "present" \/ req[c] \in {"body", "run"} => TRUE \in seen[c]
    /\ job[c] = "absent" => FALSE \in seen[c]
    /\ req[c] # "idle" => conn[c] = "open"
    /\ req[c] = "auth" => (cred[c] \in keys) \in seen[c]
    /\ job[c] = "lookup" /\ conn[c] # "gone" => req[c] = "auth"
    /\ job[c] \in LookupResults => req[c] = "auth"

AuthInv == \A c \in Conns : AuthAt(c)

\* A connection step leaves the other connections' being open or gone as it is.
LEMMA OthersUntouched ==
  ASSUME PermitType, PermitAccounting, NEW c \in Conns, ConnStep(c), NEW d \in Conns, d # c
  PROVE  (conn'[d] = "open" <=> conn[d] = "open") /\ (conn'[d] = "gone" <=> conn[d] = "gone")
<1>1. CASE Release(c)
  <2>1. CASE queue = <<>>
    BY <1>1, <2>1 DEF Release, PermitType
  <2>2. CASE queue # <<>>
    <3>1. Head(queue) = queue[1] /\ 1 \in DOMAIN queue
      BY <2>2, TailFacts DEF PermitType
    <3>2. Head(queue) \in Waiters
      BY <3>1 DEF PermitAccounting
    <3> QED
      BY <1>1, <2>2, <3>2 DEF Release, PermitType, Waiters
  <2> QED
    BY <2>1, <2>2
<1>2. CASE \E s : LeaveQueue(c, s)
  BY <1>2 DEF LeaveQueue, PermitType
<1>3. CASE \E s : conn' = [conn EXCEPT ![c] = s]
  BY <1>3 DEF PermitType
<1> QED
  BY <1>1, <1>2, <1>3
  DEF ConnStep, Connect, Accept, AcceptErr, Acquire, TakePermit, Expire, CloseConn, Cancel

\* What AuthAt says of a connection stays true while its request does not change.
LEMMA AuthKept ==
  ASSUME NEW c \in Conns, AuthAt(c), req'[c] = req[c], cred'[c] = cred[c],
         job'[c] = job[c], seen'[c] = seen[c], keys' = keys,
         conn[c] = "open" => conn'[c] = "open",
         conn'[c] # "gone" => conn[c] # "gone"
  PROVE  AuthAt(c)'
BY DEF AuthAt

\* Nor when the request is dropped as its connection goes.
LEMMA AuthDropped ==
  ASSUME BaseType, NEW c \in Conns, DropRequest(c), conn'[c] = "gone"
  PROVE  AuthAt(c)'
<1>1. req'[c] = "idle" /\ job'[c] \in {"lookup", "statement", "none"}
  BY DEF DropRequest, BaseType
<1> QED
  BY <1>1 DEF AuthAt, LookupResults

\* A connection that is closed or cancelled is gone.
LEMMA EndsGone ==
  ASSUME PermitType, PermitAccounting, NEW c \in Conns, CloseConn(c) \/ Cancel(c)
  PROVE  conn'[c] = "gone"
<1>1. CASE conn[c] \in {"granted", "open"} /\ Release(c)
  <2>1. CASE queue = <<>>
    BY <1>1, <2>1 DEF Release, PermitType
  <2>2. CASE queue # <<>>
    <3>1. Head(queue) = queue[1] /\ 1 \in DOMAIN queue
      BY <2>2, TailFacts DEF PermitType
    <3>2. Head(queue) # c
      BY <1>1, <3>1 DEF PermitAccounting, Waiters
    <3> QED
      BY <1>1, <2>2, <3>2 DEF Release, PermitType
  <2> QED
    BY <2>1, <2>2
<1>2. CASE ~(conn[c] \in {"granted", "open"})
  BY <1>2 DEF CloseConn, Cancel, LeaveQueue, PermitType
<1> QED
  BY <1>1, <1>2 DEF CloseConn, Cancel

LEMMA AuthStep ==
  BaseType /\ PermitAccounting /\ AuthInv /\ [Next]_vars => AuthInv'
<1> SUFFICES ASSUME BaseType, PermitAccounting, AuthInv, [Next]_vars, NEW c \in Conns
             PROVE  AuthAt(c)'
  BY DEF AuthInv
<1>1. PermitType /\ AuthAt(c)
  BY DEF BaseType, PermitType, AuthInv
<1>2. ASSUME UNCHANGED <<conn, requests>> PROVE AuthAt(c)'
  BY <1>1, <1>2, AuthKept DEF requests
<1>3. ASSUME NEW d \in Conns, ConnStep(d) PROVE AuthAt(c)'
  <2>1. CASE UNCHANGED requests /\ ~(CloseConn(d) \/ Cancel(d))
    <3>1. (conn[c] = "open" => conn'[c] = "open") /\ (conn'[c] # "gone" => conn[c] # "gone")
      <4>1. CASE d # c
        BY <1>1, <1>3, <4>1, OthersUntouched
      <4>2. CASE d = c
        BY <1>1, <1>3, <2>1, <4>2
        DEF ConnStep, Connect, Accept, AcceptErr, Acquire, TakePermit, Expire, LeaveQueue, PermitType
      <4> QED
        BY <4>1, <4>2
    <3> QED
      BY <1>1, <2>1, <3>1, AuthKept DEF requests
  <2>2. CASE CloseConn(d) \/ Cancel(d)
    <3>1. DropRequest(d)
      BY <2>2 DEF CloseConn, Cancel
    <3>2. CASE d = c
      <4>1. conn'[c] = "gone"
        BY <1>1, <2>2, <3>2, EndsGone
      <4> QED
        BY <3>1, <3>2, <4>1, AuthDropped
    <3>3. CASE d # c
      <4>1. (conn[c] = "open" => conn'[c] = "open") /\ (conn'[c] # "gone" => conn[c] # "gone")
        BY <1>1, <1>3, <3>3, OthersUntouched
      <4> QED
        BY <1>1, <3>1, <3>3, <4>1, AuthKept DEF DropRequest, BaseType
    <3> QED
      BY <3>2, <3>3
  <2>3. UNCHANGED requests \/ CloseConn(d) \/ Cancel(d)
    BY <1>3 DEF ConnStep, Connect, Accept, AcceptErr, Acquire, TakePermit, Expire
  <2> QED
    BY <2>1, <2>2, <2>3
<1>4. ASSUME NEW d \in Conns, RequestStep(d) PROVE AuthAt(c)'
  <2>1. conn' = conn /\ keys' = keys
    BY <1>4 DEF RequestStep, Receive, RunJob, Authorize, Dispatch, BodyAnswered, Respond, Answer
  <2>2. CASE d # c
    <3>1. req'[c] = req[c] /\ cred'[c] = cred[c] /\ job'[c] = job[c] /\ seen'[c] = seen[c]
      BY <1>4, <2>2
      DEF RequestStep, Receive, RunJob, Authorize, Dispatch, BodyAnswered, Respond, Answer, BaseType
    <3> QED
      BY <1>1, <2>1, <3>1, AuthKept
  <2>3. CASE d = c
    <3>1. CASE \E k \in Creds : Receive(c, k)
      BY <3>1 DEF Receive, AuthAt, BaseType, LookupResults
    <3>2. CASE RunJob(c)
      <4>1. CASE conn[c] = "gone" \/ job[c] = "statement"
        <5>1. job'[c] \in {"none", "done"}
          BY <3>2, <4>1 DEF RunJob, BaseType
        <5> QED
          BY <1>1, <3>2, <5>1 DEF RunJob, AuthAt, LookupResults
      <4>2. CASE conn[c] # "gone" /\ job[c] = "lookup" /\ cred[c] \in keys
        <5>1. req[c] = "auth" /\ TRUE \in seen[c]
          BY <1>1, <4>2 DEF AuthAt
        <5>2. job'[c] \in {"present", "failed"}
          BY <3>2, <4>2 DEF RunJob, BaseType
        <5> QED
          BY <1>1, <3>2, <4>2, <5>1, <5>2 DEF RunJob, AuthAt
      <4>3. CASE conn[c] # "gone" /\ job[c] = "lookup" /\ cred[c] \notin keys
        <5>1. req[c] = "auth" /\ FALSE \in seen[c]
          <6>1. (cred[c] \in keys) = FALSE
            BY <4>3
          <6>2. req[c] = "auth" /\ (cred[c] \in keys) \in seen[c]
            BY <1>1, <4>3 DEF AuthAt
          <6> QED
            BY <6>1, <6>2, Zenon
        <5>2. job'[c] \in {"absent", "failed"}
          BY <3>2, <4>3 DEF RunJob, BaseType
        <5> QED
          BY <1>1, <3>2, <4>3, <5>1, <5>2 DEF RunJob, AuthAt
      <4> QED
        BY <3>2, <4>1, <4>2, <4>3 DEF RunJob
    <3>3. CASE Authorize(c)
      BY <1>1, <3>3 DEF Authorize, Answer, AuthAt, BaseType, LookupResults
    <3>4. CASE Dispatch(c)
      BY <1>1, <3>4 DEF Dispatch, AuthAt, BaseType, LookupResults
    <3>5. CASE BodyAnswered(c) \/ Respond(c)
      BY <1>1, <3>5 DEF BodyAnswered, Respond, Answer, AuthAt, BaseType, LookupResults
    <3> QED
      BY <1>4, <2>3, <3>1, <3>2, <3>3, <3>4, <3>5 DEF RequestStep
  <2> QED
    BY <2>2, <2>3
<1>5. ASSUME NEW l \in Listeners, EndLoop(l) PROVE AuthAt(c)'
  <2>1. (conn[c] = "open" => conn'[c] = "open") /\ (conn'[c] # "gone" => conn[c] # "gone")
    BY <1>1, <1>5 DEF EndLoop, PermitType
  <2> QED
    BY <1>1, <1>5, <2>1, AuthKept DEF EndLoop, requests
<1>6. ASSUME NEW k \in Creds, ChangeKeys(k) PROVE AuthAt(c)'
  <2>1. seen'[c] = IF req[c] = "auth" THEN seen[c] \union {(cred[c] \in keys')} ELSE seen[c]
    BY <1>6 DEF ChangeKeys
  <2>2. UNCHANGED <<conn, req, cred, job>>
    BY <1>6 DEF ChangeKeys
  <2> QED
    BY <1>1, <2>1, <2>2 DEF AuthAt, LookupResults
<1>7. CASE DropSrv
  BY <1>2, <1>7 DEF DropSrv
<1>8. CASE UNCHANGED vars
  BY <1>2, <1>8 DEF vars, requests
<1> QED
  BY <1>3, <1>4, <1>5, <1>6, <1>7, <1>8 DEF Next

\* handle_request asks for the key of every request anew: it is handled only if its key
\* was in the database at a moment since it arrived.
THEOREM RequestsAuthorizedAnew == Spec => []AuthorizedAnew
<1>1. Init => AuthInv
  BY DEF Init, AuthInv, AuthAt, LookupResults
<1>2. AuthInv => AuthorizedAnew
  BY DEF AuthInv, AuthAt, AuthorizedAnew
<1> QED
  BY <1>1, <1>2, AuthStep, BaseTyping, PermitsAccounted, PTL DEF Spec
=============================================================================
