------------------------------ MODULE EntryReads ------------------------------
(***************************************************************************)
(* The reads of VmIoDb (rs/v-m-io-db/src/sql.rs): list with its filters and  *)
(* limit, the pool of read connections they take turns with, and a client   *)
(* that pages through the entries by modified_at_micros while they change.  *)
(*                                                                          *)
(* The table is that of one class.  A read runs on a blocking thread to its *)
(* end, whether or not anyone still waits for it, and its SELECT is one     *)
(* step: it sees one snapshot.  A statement of the writer is one step too.  *)
(***************************************************************************)
EXTENDS Integers, FiniteSets, Sequences

CONSTANTS Chars,    \* characters, the wildcards of GLOB among them
          Keys,     \* entry keys, sequences of characters
          KeyRank,  \* the order of keys, by key
          Expiring, \* keys of entries that have an expiry
          Stamps,   \* values of modified_at_micros
          Conns,    \* read connections: three in Sql::new
          Readers,  \* tasks that read
          Pager,    \* the one that pages, the others list by prefix
          PageSize, \* limit of the pager's lists
          Prefixes, \* prefixes the others ask for
          Sorts,    \* sorts the others ask for
          Limits,   \* limits the others ask for
          NoConn,   \* no connection
          NoReader  \* the mutex is free

ASSUME ReadsConstants ==
    /\ KeyRank \in [Keys -> Int]
    /\ Stamps \subseteq Int
    /\ IsFiniteSet(Conns)
    /\ Pager \in Readers
    /\ PageSize \in Nat \ {0}
    /\ Sorts \subseteq {"KeyAsc", "KeyDesc", "ModifiedAtMicrosAsc", "ModifiedAtMicrosDesc"}
    /\ Limits \subseteq Nat \ {0}
    /\ NoConn \notin Conns
    /\ NoReader \notin Readers

\* (A NUL is not among them: sqlite reads a pattern up to its first one.)
ASSUME CharsOK ==
    /\ {"*", "?", "[", "]"} \subseteq Chars
    /\ Keys \subseteq Seq(Chars) /\ Prefixes \subseteq Seq(Chars)

Row == [key : Keys, mod : Stamps]

VARIABLES
    rows,   \* the entries: at most one of each key, and of each timestamp
    pool,   \* the channel of idle connections
    mutex,  \* the reader that holds checkout_rx
    reader, \* progress of each reader, its connection, request and result
    cursor  \* the timestamps the pager has been through, as the start of a range

\* History, read by properties only.
VARIABLES
    seen, \* the rows the pager has received, the last of each key
    owed  \* the rows there were when it began, but those pruned since

vars == <<rows, pool, mutex, reader, cursor, seen, owed>>

-----------------------------------------------------------------------------
(* Filters, sorts and limits *)

\* Mutation: an open bracket is an ordinary character.
GlobPatternNoBracket(prefix) ==
    LET pattern[i \in 0 .. Len(prefix)] ==
          IF i = 0 THEN <<>>
          ELSE pattern[i - 1] \o (IF prefix[i] \in {"*", "?"} THEN <<"[", prefix[i], "]">>
                                  ELSE <<prefix[i]>>)
    IN  pattern[Len(prefix)] \o <<"*">>

\* glob_prefix_pattern: each wildcard in a class of its own, then a star.
GlobPattern(prefix) ==
    LET pattern[i \in 0 .. Len(prefix)] ==
          IF i = 0 THEN <<>>
          ELSE pattern[i - 1] \o (IF prefix[i] \in {"*", "?", "["} THEN <<"[", prefix[i], "]">>
                                  ELSE <<prefix[i]>>)
    IN  pattern[Len(prefix)] \o <<"*">>

\* GLOB of sqlite: a star is any characters, a question mark is one, brackets hold
\* the characters there may be (the first of them may be a closing one).  left[i] are
\* the places of s from which on it is matched by what p has from i on.
GlobMatches(p, s) ==
    LET Close(i) == {k \in i + 2 .. Len(p) : p[k] = "]" /\ \A l \in i + 2 .. k - 1 : p[l] # "]"}
        left[i \in 1 .. Len(p) + 1] ==
          IF i > Len(p) THEN {Len(s) + 1}
          ELSE IF p[i] = "*" THEN {j \in 1 .. Len(s) + 1 : \E n \in left[i + 1] : j <= n}
          ELSE {j \in 1 .. Len(s) :
                  CASE p[i] = "?" -> j + 1 \in left[i + 1]
                    [] p[i] = "[" -> \E k \in Close(i) :
                                        /\ \E l \in i + 1 .. k - 1 : p[l] = s[j]
                                        /\ j + 1 \in left[k + 1]
                    [] OTHER -> p[i] = s[j] /\ j + 1 \in left[i + 1]}
    IN  1 \in left[1]

\* Mutation: an excluded start is included.
MatchesIncluded(filter, a) ==
    CASE filter.by = "prefix" -> GlobMatches(GlobPattern(filter.prefix), a.key)
      [] filter.by = "from"   -> a.mod >= 0
      [] filter.by = "after"  -> a.mod >= filter.mod

\* VmIoDbListFilter, as the WHERE clause makes it.  A range without a start starts
\* at 0; its end is open, which is i64::MAX.
Matches(filter, a) ==
    CASE filter.by = "prefix" -> GlobMatches(GlobPattern(filter.prefix), a.key)
      [] filter.by = "from"   -> a.mod >= 0
      [] filter.by = "after"  -> a.mod > filter.mod

\* VmIoDbListSort
Before(sort, a, b) ==
    CASE sort = "KeyAsc"  -> KeyRank[a.key] < KeyRank[b.key]
      [] sort = "KeyDesc" -> KeyRank[a.key] > KeyRank[b.key]
      [] sort = "ModifiedAtMicrosAsc"  -> a.mod < b.mod
      [] sort = "ModifiedAtMicrosDesc" -> a.mod > b.mod

\* The rows of M that a list returns: all up to the limit, and none that comes after
\* one it leaves out.
IsPage(P, M, sort, limit) ==
    /\ Cardinality(P) <= limit
    /\ Cardinality(P) = limit \/ P = M
    /\ \A a \in P, b \in M \ P : ~Before(sort, b, a)

-----------------------------------------------------------------------------
NoAsk == [filter |-> [by |-> "none"], sort |-> "KeyAsc", limit |-> 0]

\* What the channel of a new pool may hold: each connection once.
PoolOrders == {s \in [1 .. Cardinality(Conns) -> Conns] :
                 /\ \A c \in Conns : \E i \in DOMAIN s : s[i] = c
                 /\ \A i, j \in DOMAIN s : s[i] = s[j] => i = j}

\* Sql::new opens the connections and puts them into the pool.  The file may hold
\* entries of an earlier process.
Init ==
    /\ rows \in SUBSET Row
    /\ \A a, b \in rows : a.key = b.key \/ a.mod = b.mod => a = b
    /\ pool \in PoolOrders
    /\ mutex = NoReader
    /\ reader = [r \in Readers |-> [pc |-> "idle", conn |-> NoConn, ask |-> NoAsk, got |-> {}]]
    /\ cursor = [by |-> "from"]
    /\ seen = {}
    /\ owed = {}

-----------------------------------------------------------------------------
(* The writer *)

\* Mutation: modified_at_micros is not UNIQUE.
UpsertNotUnique(k, t) ==
    /\ \A r \in rows : r.key = k => r.mod < t
    /\ rows' = {r \in rows : r.key # k} \cup {[key |-> k, mod |-> t]}
    /\ UNCHANGED <<pool, mutex, reader, cursor, seen, owed>>

\* An upsert that has an effect: newer than the row of its key, and the only one of
\* its timestamp.
Upsert(k, t) ==
    /\ \A r \in rows : r.key = k => r.mod < t
    /\ \A r \in rows : r.key # k => r.mod # t
    /\ rows' = {r \in rows : r.key # k} \cup {[key |-> k, mod |-> t]}
    /\ UNCHANGED <<pool, mutex, reader, cursor, seen, owed>>

\* prune_expired
Prune(k) ==
    /\ k \in Expiring
    /\ \E r \in rows : r.key = k
    /\ rows' = {r \in rows : r.key # k}
    /\ owed' = {r \in owed : r.key # k}
    /\ UNCHANGED <<pool, mutex, reader, cursor, seen>>

-----------------------------------------------------------------------------
(* A read: Sql::list, RingPool::get, and the guard *)

PageAsk == [filter |-> cursor, sort |-> "ModifiedAtMicrosAsc", limit |-> PageSize]

\* A list is asked for.  The pager asks for what is after its cursor.
Start(r) ==
    /\ reader[r].pc = "idle"
    /\ IF r = Pager
       THEN /\ reader' = [reader EXCEPT ![r].pc = "lock", ![r].ask = PageAsk]
            /\ owed' = IF cursor.by = "from" THEN rows ELSE owed
       ELSE /\ \E p \in Prefixes, s \in Sorts, n \in Limits :
                  reader' = [reader EXCEPT ![r].pc = "lock",
                               ![r].ask = [filter |-> [by |-> "prefix", prefix |-> p],
                                           sort |-> s, limit |-> n]]
            /\ UNCHANGED owed
    /\ UNCHANGED <<rows, pool, mutex, cursor, seen>>

\* get locks the receiver ...
Lock(r) ==
    /\ reader[r].pc = "lock"
    /\ mutex = NoReader
    /\ mutex' = r
    /\ reader' = [reader EXCEPT ![r].pc = "recv"]
    /\ UNCHANGED <<rows, pool, cursor, seen, owed>>

\* Mutation: the lock is held on.
RecvKeepsLock(r) ==
    /\ reader[r].pc = "recv"
    /\ pool # <<>>
    /\ reader' = [reader EXCEPT ![r].pc = "query", ![r].conn = Head(pool)]
    /\ pool' = Tail(pool)
    /\ UNCHANGED <<rows, mutex, cursor, seen, owed>>

\* ... and waits, with the lock, for a connection.
Recv(r) ==
    /\ reader[r].pc = "recv"
    /\ pool # <<>>
    /\ reader' = [reader EXCEPT ![r].pc = "query", ![r].conn = Head(pool)]
    /\ pool' = Tail(pool)
    /\ mutex' = NoReader
    /\ UNCHANGED <<rows, cursor, seen, owed>>

\* The statement runs.
Query(r) ==
    /\ reader[r].pc = "query"
    /\ LET ask == reader[r].ask
           M == {a \in rows : Matches(ask.filter, a)}
       IN  \E P \in SUBSET M :
              /\ IsPage(P, M, ask.sort, ask.limit)
              /\ reader' = [reader EXCEPT ![r].pc = "ok", ![r].got = P]
    /\ UNCHANGED <<rows, pool, mutex, cursor, seen, owed>>

\* Mutation: the connection goes back only after a success.
QueryErrLosesConn(r) ==
    /\ reader[r].pc = "query"
    /\ reader' = [reader EXCEPT ![r].pc = "failed", ![r].conn = NoConn]
    /\ UNCHANGED <<rows, pool, mutex, cursor, seen, owed>>

\* The statement fails, and the error is returned.
QueryErr(r) ==
    /\ reader[r].pc = "query"
    /\ reader' = [reader EXCEPT ![r].pc = "err"]
    /\ UNCHANGED <<rows, pool, mutex, cursor, seen, owed>>

\* The next page starts after the last row of this one.
MoveCursor(P) ==
    IF P = {} THEN UNCHANGED cursor
    ELSE \E last \in P : /\ \A a \in P : a.mod <= last.mod
                         /\ cursor' = [by |-> "after", mod |-> last.mod]

\* The guard is dropped: the connection goes back, and the result to the caller.
\* The pager asks for another page until one is not full.
Return(r) ==
    /\ reader[r].pc \in {"ok", "err"}
    /\ pool' = Append(pool, reader[r].conn)
    /\ LET got == reader[r].got
           next == CASE reader[r].pc = "err" -> "failed"
                     [] r = Pager /\ Cardinality(got) = PageSize -> "idle"
                     [] OTHER -> "done"
       IN  /\ reader' = [reader EXCEPT ![r].pc = next, ![r].conn = NoConn, ![r].ask = NoAsk,
                                       ![r].got = {}]
           /\ IF r = Pager
              THEN /\ seen' = got \cup {a \in seen : \A b \in got : b.key # a.key}
                   /\ MoveCursor(got)
              ELSE UNCHANGED <<seen, cursor>>
    /\ UNCHANGED <<rows, mutex, owed>>

Read(r) == Start(r) \/ Lock(r) \/ Recv(r) \/ Query(r) \/ QueryErr(r) \/ Return(r)

Next ==
    \/ \E r \in Readers : Read(r)
    \/ \E k \in Keys : (\E t \in Stamps : Upsert(k, t)) \/ Prune(k)

Spec == Init /\ [][Next]_vars

\* The threads run: each read that can take a step does so in the end.
FairSpec == Spec /\ \A r \in Readers : WF_vars(Read(r))

-----------------------------------------------------------------------------
(* Properties *)

Held == {"query", "ok", "err"}

Cursors == [by : {"from"}] \cup [by : {"after"}, mod : Stamps]

Asks == [filter : Cursors \cup [by : {"none"}] \cup [by : {"prefix"}, prefix : Prefixes],
         sort : Sorts \cup {"KeyAsc", "ModifiedAtMicrosAsc"}, limit : Nat]

ReaderState ==
    [pc : Held \cup {"idle", "lock", "recv", "done", "failed"}, conn : Conns \cup {NoConn},
     ask : Asks, got : SUBSET Row]

\* Every variable has its type; a reader has a connection while its guard lives, and
\* the mutex while it waits for one.
ReadsTypeOK ==
    /\ rows \subseteq Row
    /\ pool \in Seq(Conns)
    /\ mutex \in Readers \cup {NoReader}
    /\ reader \in [Readers -> ReaderState]
    /\ \A r \in Readers :
          /\ reader[r].pc \in Held <=> reader[r].conn # NoConn
          /\ reader[r].pc = "recv" <=> mutex = r
    /\ cursor \in Cursors
    /\ seen \subseteq Row
    /\ owed \subseteq Row

\* "RingPool": every connection is in the pool once, or held by one reader; none is
\* lost, and no two reads share one, whatever fails.
EachConnOnce ==
    \A c \in Conns :
       /\ \A i, j \in DOMAIN pool : pool[i] = c /\ pool[j] = c => i = j
       /\ \A r \in Readers : reader[r].conn = c =>
             /\ \A i \in DOMAIN pool : pool[i] # c
             /\ \A q \in Readers \ {r} : reader[q].conn # c
       /\ \/ \E i \in DOMAIN pool : pool[i] = c
          \/ \E r \in Readers : reader[r].conn = c

\* "modified_at_micros must be unique so paging by filter range works": a client that
\* has paged to the end has received each entry that was there all the time, in the
\* version it had at the start or a later one, whatever was upserted between its
\* pages -- except an entry of a negative timestamp, which no range starts at.
PagesCover ==
    reader[Pager].pc = "done" =>
       \A a \in owed : a.mod >= 0 => \E b \in seen : b.key = a.key /\ b.mod >= a.mod

\* A list by prefix returns entries whose keys start with that prefix, whatever
\* wildcards it holds, and all of them when it returns fewer than its limit.
ListsByPrefix ==
    [][\A r \in Readers \ {Pager} :
          reader[r].pc = "query" /\ reader'[r].pc = "ok" =>
             LET p == reader[r].ask.filter.prefix
                 starts == {a \in rows : Len(a.key) >= Len(p) /\ SubSeq(a.key, 1, Len(p)) = p}
             IN  /\ reader'[r].got \subseteq starts
                 /\ Cardinality(reader'[r].got) < reader[r].ask.limit => reader'[r].got = starts
      ]_vars

\* A read that starts ends, and so does the paging, although entries move ahead of
\* the cursor: no reader waits for a connection for ever.
ReadsEnd == \A r \in Readers : <>(reader[r].pc \in {"done", "failed"})
=============================================================================
