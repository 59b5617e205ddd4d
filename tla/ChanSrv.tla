-------------------------------- MODULE ChanSrv --------------------------------
(***************************************************************************)
(* The channel server (rs/v-m-io-chan): its accept loops, a task for each   *)
(* connection, the permits they hold, and the requests on them.             *)
(*                                                                          *)
(* A step is what a task does between two awaits.  A database statement     *)
(* runs on the blocking pool: once handed over it runs, even if the task    *)
(* that waits for it is gone.  Dropping the server only flags its tasks; a  *)
(* flagged task may finish the poll it is in before it is cancelled.        *)
(*                                                                          *)
(* Connections are http/1: one request at a time.  What the server answers  *)
(* without awaiting anything (401 without a header, 503 on a connection     *)
(* without a permit) leaves the state as it is and is no step.              *)
(***************************************************************************)
EXTENDS Integers, Sequences, FiniteSets

CONSTANTS Conns,      \* connections, each made once
          Listeners,  \* bound addresses, each with an accept loop
          ListenerOf, \* the address a connection is made to
          MaxConns,   \* permits (MAX_CONNS)
          Creds       \* api keys that clients present

ASSUME ChanConstants ==
    /\ IsFiniteSet(Conns)
    /\ ListenerOf \in [Conns -> Listeners]
    /\ MaxConns \in Nat \ {0}

VARIABLES
    srv,    \* "up", or "dropped"
    loop,   \* accept loops: "run", "abort" (flagged), "gone"
    conn,   \* connections, see ConnStates
    doomed, \* connection tasks that are flagged
    free,   \* permits nobody holds
    queue,  \* tasks that wait for a permit, in order
    req,    \* the request on a connection: "idle", "auth", "body", "run"
    cred,   \* the api key it carries
    job,    \* its database statement, see JobStates
    keys    \* the api keys in the database

\* History, read by properties only.
VARIABLE seen  \* was the key of a request there?  Each answer there was to that
               \* from its arrival to the end of its authorization

vars == <<srv, loop, conn, doomed, free, queue, req, cred, job, keys, seen>>
permits == <<free, queue>>
requests == <<req, cred, job, keys, seen>>
server == <<srv, loop, doomed>>

\* none: not made yet.  backlog: not accepted yet.  task: spawned, not polled.
\* queued, granted: waiting for a permit, and given one but not polled since.
\* open: being served.  refused: being told 503.  gone: closed.
ConnStates == {"none", "backlog", "task", "queued", "granted", "open", "refused", "gone"}

\* lookup, statement: on the blocking pool.  The others are results: of a lookup
\* present, absent or failed, and done of a statement.
JobStates == {"none", "lookup", "present", "absent", "failed", "statement", "done"}

-----------------------------------------------------------------------------
Tasks == {c \in Conns : conn[c] \in {"task", "queued", "granted", "open", "refused"}}
Holders == {c \in Conns : conn[c] \in {"granted", "open"}}
Waiters == {c \in Conns : conn[c] = "queued"}

\* The queue without its i-th place.
Without(q, i) == [j \in 1 .. Len(q) - 1 |-> IF j < i THEN q[j] ELSE q[j + 1]]

Init ==
    /\ srv = "up"
    /\ loop = [l \in Listeners |-> "run"]
    /\ conn = [c \in Conns |-> "none"]
    /\ doomed = {}
    /\ free = MaxConns
    /\ queue = <<>>
    /\ req = [c \in Conns |-> "idle"]
    /\ cred \in [Conns -> Creds]
    /\ job = [c \in Conns |-> "none"]
    /\ keys \in SUBSET Creds
    /\ seen = [c \in Conns |-> {}]

-----------------------------------------------------------------------------
(* Connections. *)

\* A client connects to a listener that has not been closed.
Connect(c) ==
    /\ conn[c] = "none"
    /\ loop[ListenerOf[c]] # "gone"
    /\ conn' = [conn EXCEPT ![c] = "backlog"]
    /\ UNCHANGED <<server, permits, requests>>

\* The accept loop spawns a task for a connection.
Accept(c) ==
    /\ conn[c] = "backlog"
    /\ loop[ListenerOf[c]] # "gone"
    /\ conn' = [conn EXCEPT ![c] = "task"]
    /\ UNCHANGED <<server, permits, requests>>

\* accept returns an error instead of the connection; the loop goes on.
AcceptErr(c) ==
    /\ conn[c] = "backlog"
    /\ loop[ListenerOf[c]] # "gone"
    /\ conn' = [conn EXCEPT ![c] = "gone"]
    /\ UNCHANGED <<server, permits, requests>>

\* The first poll of a task takes a permit, or a place in the queue.
Acquire(c) ==
    /\ conn[c] = "task"
    /\ IF free > 0
       THEN /\ conn' = [conn EXCEPT ![c] = "open"]
            /\ free' = free - 1
            /\ queue' = queue
       ELSE /\ conn' = [conn EXCEPT ![c] = "queued"]
            /\ queue' = Append(queue, c)
            /\ free' = free
    /\ UNCHANGED <<server, requests>>

\* A task that was given a permit goes on, however long it waited: the timeout
\* polls the permit before the clock.
TakePermit(c) ==
    /\ conn[c] = "granted"
    /\ conn' = [conn EXCEPT ![c] = "open"]
    /\ UNCHANGED <<server, permits, requests>>

\* The place of a task in the queue is given up, and the task is in state s.
LeaveQueue(c, s) ==
    \E i \in DOMAIN queue :
        /\ queue[i] = c
        /\ queue' = Without(queue, i)
        /\ free' = free
        /\ conn' = [conn EXCEPT ![c] = s]

\* A task gives its permit back, which goes to the first in the queue, and is gone.
Release(c) ==
    IF queue = <<>>
    THEN /\ free' = free + 1
         /\ queue' = queue
         /\ conn' = [conn EXCEPT ![c] = "gone"]
    ELSE /\ free' = free
         /\ queue' = Tail(queue)
         /\ conn' = [conn EXCEPT ![c] = "gone", ![Head(queue)] = "granted"]

\* Mutation: acquire_owned is awaited without a timeout.
ExpireNever(c) == FALSE

\* Mutation: the future that waits for a permit lives on while 503 is answered.
ExpireKeepsPlace(c) ==
    /\ conn[c] = "queued"
    /\ conn' = [conn EXCEPT ![c] = "refused"]
    /\ UNCHANGED <<server, permits, requests>>

\* CONN_WAIT has passed without a permit.
Expire(c) ==
    /\ conn[c] = "queued"
    /\ LeaveQueue(c, "refused")
    /\ UNCHANGED <<server, requests>>

\* The future that handles a request is dropped; its statement is not.
DropRequest(c) ==
    /\ req' = [req EXCEPT ![c] = "idle"]
    /\ job' = [job EXCEPT ![c] = IF @ \in {"lookup", "statement"} THEN @ ELSE "none"]
    /\ seen' = [seen EXCEPT ![c] = {}]
    /\ UNCHANGED <<cred, keys>>

\* Mutation: the permit is forgotten, and never given back.
CloseConnLeak(c) ==
    /\ conn[c] \in {"open", "refused"}
    /\ conn' = [conn EXCEPT ![c] = "gone"]
    /\ DropRequest(c)
    /\ UNCHANGED <<server, permits>>

\* Mutation: a permit is added for each connection that ends.
CloseConnAdds(c) ==
    /\ conn[c] \in {"open", "refused"}
    /\ Release(c)
    /\ DropRequest(c)
    /\ UNCHANGED server

\* A connection comes to its end: its client closed it, or it failed.
CloseConn(c) ==
    /\ \/ conn[c] = "open" /\ Release(c)
       \/ conn[c] = "refused" /\ conn' = [conn EXCEPT ![c] = "gone"] /\ UNCHANGED permits
    /\ DropRequest(c)
    /\ UNCHANGED server

-----------------------------------------------------------------------------
(* The end of the server. *)

\* ChanSrv is dropped, and with it the set of the accept loops.
DropSrv ==
    /\ srv = "up"
    /\ srv' = "dropped"
    /\ loop' = [l \in Listeners |-> IF loop[l] = "run" THEN "abort" ELSE loop[l]]
    /\ UNCHANGED <<conn, doomed, permits, requests>>

\* Mutation: connection tasks are spawned on the runtime, not in the loop's set.
TasksOfNone(l) == {}

\* The tasks in the set of an accept loop.
TasksOf(l) == {c \in Tasks : ListenerOf[c] = l}

\* An accept loop is cancelled: its listener closes, and the set of its
\* connection tasks is dropped.
EndLoop(l) ==
    /\ loop[l] = "abort"
    /\ loop' = [loop EXCEPT ![l] = "gone"]
    /\ conn' = [c \in Conns |-> IF ListenerOf[c] = l /\ conn[c] = "backlog"
                                THEN "gone" ELSE conn[c]]
    /\ doomed' = doomed \union TasksOf(l)
    /\ UNCHANGED <<srv, permits, requests>>

\* A flagged connection task is cancelled.
Cancel(c) ==
    /\ c \in doomed
    /\ \/ conn[c] \in {"task", "refused"} /\ conn' = [conn EXCEPT ![c] = "gone"] /\ UNCHANGED permits
       \/ conn[c] = "queued" /\ LeaveQueue(c, "gone")
       \/ conn[c] \in {"granted", "open"} /\ Release(c)
    /\ DropRequest(c)
    /\ UNCHANGED server

-----------------------------------------------------------------------------
(* Requests. *)

\* Mutation: the key of the request before is taken as authorized.
ReceiveRemembered(c, k) ==
    /\ conn[c] = "open"
    /\ req[c] = "idle"
    /\ req' = [req EXCEPT ![c] = "auth"]
    /\ cred' = [cred EXCEPT ![c] = k]
    /\ job' = [job EXCEPT ![c] = IF cred[c] = k THEN "present" ELSE "lookup"]
    /\ seen' = [seen EXCEPT ![c] = {(k \in keys)}]
    /\ UNCHANGED <<server, conn, permits, keys>>

\* A request with an api key arrives, and the auth callback looks the key up.
Receive(c, k) ==
    /\ conn[c] = "open"
    /\ req[c] = "idle"
    /\ req' = [req EXCEPT ![c] = "auth"]
    /\ cred' = [cred EXCEPT ![c] = k]
    /\ job' = [job EXCEPT ![c] = "lookup"]
    /\ seen' = [seen EXCEPT ![c] = {(k \in keys)}]
    /\ UNCHANGED <<server, conn, permits, keys>>

\* The blocking pool runs a statement, and the result is kept if its task waits.
RunJob(c) ==
    /\ \E result \in JobStates :
        /\ \/ job[c] = "statement" /\ result = "done"
           \/ job[c] = "lookup" /\ result = IF cred[c] \in keys THEN "present" ELSE "absent"
           \/ job[c] = "lookup" /\ result = "failed"
        /\ job' = [job EXCEPT ![c] = IF conn[c] = "gone" THEN "none" ELSE result]
    /\ UNCHANGED <<server, conn, permits, req, cred, keys, seen>>

\* Mutation: an error of the lookup is not handled.
LookupResultsNoError == {"present", "absent"}

\* What a lookup can return.
LookupResults == {"present", "absent", "failed"}

\* A request is answered.
Answer(c) ==
    /\ req' = [req EXCEPT ![c] = "idle"]
    /\ job' = [job EXCEPT ![c] = "none"]
    /\ seen' = [seen EXCEPT ![c] = {}]
    /\ UNCHANGED <<cred, keys>>

\* The lookup has returned.  An absent key is answered 401 and an error 500; with
\* the key, the next await is the body, and before it are the answers 404 and 413.
Authorize(c) ==
    /\ req[c] = "auth"
    /\ job[c] \in LookupResults
    /\ \/ /\ job[c] = "present"
          /\ req' = [req EXCEPT ![c] = "body"]
          /\ job' = [job EXCEPT ![c] = "none"]
          /\ UNCHANGED <<cred, keys, seen>>
       \/ Answer(c)
    /\ UNCHANGED <<server, conn, permits>>

\* The body is complete, and its handler has a statement to run.
Dispatch(c) ==
    /\ req[c] = "body"
    /\ req' = [req EXCEPT ![c] = "run"]
    /\ job' = [job EXCEPT ![c] = "statement"]
    /\ UNCHANGED <<server, conn, permits, cred, keys, seen>>

\* The body is too large or cannot be read, or its handler has nothing to run.
BodyAnswered(c) ==
    /\ req[c] = "body"
    /\ Answer(c)
    /\ UNCHANGED <<server, conn, permits>>

\* The statement is done, and the request is answered 200 or 500.
Respond(c) ==
    /\ req[c] = "run"
    /\ job[c] = "done"
    /\ Answer(c)
    /\ UNCHANGED <<server, conn, permits>>

\* An api key is put into the database, or pruned from it.
ChangeKeys(k) ==
    /\ keys' = IF k \in keys THEN keys \ {k} ELSE keys \union {k}
    /\ seen' = [c \in Conns |-> IF req[c] = "auth" THEN seen[c] \union {(cred[c] \in keys')}
                                                   ELSE seen[c]]
    /\ UNCHANGED <<server, conn, permits, req, cred, job>>

-----------------------------------------------------------------------------
ConnStep(c) ==
    \/ Connect(c) \/ Accept(c) \/ AcceptErr(c)
    \/ Acquire(c) \/ TakePermit(c) \/ Expire(c)
    \/ CloseConn(c) \/ Cancel(c)

RequestStep(c) ==
    \/ \E k \in Creds : Receive(c, k)
    \/ RunJob(c) \/ Authorize(c) \/ Dispatch(c) \/ BodyAnswered(c) \/ Respond(c)

Next ==
    \/ \E c \in Conns : ConnStep(c) \/ RequestStep(c)
    \/ \E l \in Listeners : EndLoop(l)
    \/ \E k \in Creds : ChangeKeys(k)
    \/ DropSrv

Spec == Init /\ [][Next]_vars

\* The runtime polls a task that can go on, fires timers and runs statements, and
\* accept hands out a connection that is there.  Clients owe nothing.
Fairness ==
    /\ \A c \in Conns :
        /\ WF_vars(Accept(c)) /\ WF_vars(Acquire(c)) /\ WF_vars(TakePermit(c))
        /\ WF_vars(Expire(c)) /\ WF_vars(Cancel(c))
        /\ WF_vars(RunJob(c)) /\ WF_vars(Authorize(c)) /\ WF_vars(Respond(c))
    /\ \A l \in Listeners : WF_vars(EndLoop(l))

FairSpec == Spec /\ Fairness

-----------------------------------------------------------------------------
(* Properties. *)

\* Types: the states above, and as many permits as there are (the server's
\* state in ChanSrv, accept_loop and serve_connection).
ChanTypeOK ==
    /\ srv \in {"up", "dropped"}
    /\ loop \in [Listeners -> {"run", "abort", "gone"}]
    /\ conn \in [Conns -> ConnStates]
    /\ doomed \in SUBSET Conns
    /\ free \in 0 .. MaxConns
    /\ queue \in Seq(Conns)
    /\ req \in [Conns -> {"idle", "auth", "body", "run"}]
    /\ cred \in [Conns -> Creds]
    /\ job \in [Conns -> JobStates]
    /\ keys \in SUBSET Creds
    /\ seen \in [Conns -> SUBSET BOOLEAN]

\* Every permit is free, or held by one connection task (the _permit of
\* serve_connection), however tasks end; the queue is the tasks that wait, once
\* each; and nobody waits while a permit is free.
PermitAccounting ==
    /\ free + Cardinality(Holders) = MaxConns
    /\ {queue[i] : i \in DOMAIN queue} = Waiters
    /\ \A i, j \in DOMAIN queue : queue[i] = queue[j] => i = j
    /\ queue # <<>> => free = 0

\* A connection is refused (503, serve_connection's Err of the timeout) only at a
\* moment when MaxConns other connections hold a permit.
RefusedOnlyWhenFull ==
    [][\A c \in Conns : conn[c] # "refused" /\ conn'[c] = "refused" =>
            /\ c \notin Holders
            /\ Cardinality(Holders) = MaxConns]_vars

\* handle_request asks for the key of each request anew, also on a connection it
\* has authorized before: a request is handled only if its key was in the database
\* at some moment since it arrived, and answered 401 only if at some moment it was not.
AuthorizedAnew ==
    \A c \in Conns :
        /\ job[c] = "present" \/ req[c] \in {"body", "run"} => TRUE \in seen[c]
        /\ job[c] = "absent" => FALSE \in seen[c]

\* A connection that reached a listener is served, refused or closed in the end:
\* CONN_WAIT bounds the wait for a permit.
ConnsDecided ==
    \A c \in Conns :
        conn[c] \in {"backlog", "task", "queued", "granted"} ~>
            conn[c] \in {"open", "refused", "gone"}

\* A request whose next step is the server's gets an answer, or its connection ends.
RequestsAnswered ==
    \A c \in Conns : req[c] \in {"auth", "run"} ~> req[c] \in {"idle", "body"}

\* What shares the handlers, and with them the database: accept loops, connection
\* tasks and statements.
DbHeld ==
    \/ \E l \in Listeners : loop[l] # "gone"
    \/ Tasks # {}
    \/ \E c \in Conns : job[c] # "none"

\* "Dropping the server aborts its accept loops and all in-flight connections"
\* (ChanSrv): in the end nothing of it is left.
DropEndsAll == srv = "dropped" ~> ~DbHeld
=============================================================================
