--------------------------- MODULE EntryReadsProofs ---------------------------
(* Theorems about EntryReads, for every value of its constants. *)
EXTENDS EntryReads, NatRecursion, FiniteSetTheorems, SequenceTheorems, TLAPS

\* What a new pool holds is a sequence of the connections.
LEMMA NewPool == \A s \in PoolOrders : s \in Seq(Conns)
<1>1. Cardinality(Conns) \in Nat
  BY ReadsConstants, FS_CardinalityType
<1> QED
  BY <1>1 DEF PoolOrders

\* A reader that moves on, with a record of the type, keeps the readers in theirs.
LEMMA ReaderUpdate ==
  ASSUME ReadsTypeOK, NEW r \in Readers, NEW c \in ReaderState,
         reader' = [reader EXCEPT ![r] = c]
  PROVE  /\ reader' \in [Readers -> ReaderState]
         /\ reader'[r] = c
         /\ \A q \in Readers \ {r} : reader'[q] = reader[q]
BY DEF ReadsTypeOK

\* Every step keeps every variable in its type, and the mutex and the connections
\* with the readers that are waiting or reading.
LEMMA TypeStep == ReadsTypeOK /\ [Next]_vars => ReadsTypeOK'
<1> SUFFICES ASSUME ReadsTypeOK, [Next]_vars PROVE ReadsTypeOK'
  OBVIOUS
<1> USE ReadsConstants DEF ReadsTypeOK
<1>1. ASSUME NEW r \in Readers, Start(r) PROVE ReadsTypeOK'
  <2>1. PICK a \in Asks : reader' = [reader EXCEPT ![r].pc = "lock", ![r].ask = a]
    <3>1. CASE r = Pager
      BY <1>1, <3>1 DEF Start, PageAsk, Asks
    <3>2. CASE r # Pager
      <4>1. PICK p \in Prefixes, s \in Sorts, n \in Limits :
               reader' = [reader EXCEPT ![r].pc = "lock",
                            ![r].ask = [filter |-> [by |-> "prefix", prefix |-> p],
                                        sort |-> s, limit |-> n]]
        BY <1>1, <3>2 DEF Start
      <4>2. [filter |-> [by |-> "prefix", prefix |-> p], sort |-> s, limit |-> n] \in Asks
        BY DEF Asks
      <4> QED
        BY <4>1, <4>2
    <3> QED
      BY <3>1, <3>2
  <2> DEFINE c == [reader[r] EXCEPT !.pc = "lock", !.ask = a]
  <2>2. /\ c \in ReaderState /\ c.pc = "lock" /\ c.conn = reader[r].conn
        /\ reader' = [reader EXCEPT ![r] = c]
    BY <2>1 DEF ReaderState
  <2>3. owed' \subseteq Row
    BY <1>1 DEF Start
  <2> HIDE DEF c
  <2> QED
    BY <1>1, <2>2, <2>3, ReaderUpdate DEF Start, Held
<1>2. ASSUME NEW r \in Readers, Lock(r) PROVE ReadsTypeOK'
  <2> DEFINE c == [reader[r] EXCEPT !.pc = "recv"]
  <2>2. /\ c \in ReaderState /\ c.pc = "recv" /\ c.conn = reader[r].conn
        /\ reader' = [reader EXCEPT ![r] = c]
    BY <1>2 DEF Lock, ReaderState
  <2> HIDE DEF c
  <2> QED
    BY <1>2, <2>2, ReaderUpdate DEF Lock, Held
<1>3. ASSUME NEW r \in Readers, Recv(r) PROVE ReadsTypeOK'
  <2> DEFINE c == [reader[r] EXCEPT !.pc = "query", !.conn = Head(pool)]
  <2>1. Head(pool) \in Conns /\ Tail(pool) \in Seq(Conns)
    BY <1>3, HeadTailProperties DEF Recv
  <2>2. /\ c \in ReaderState /\ c.pc = "query" /\ c.conn = Head(pool)
        /\ reader' = [reader EXCEPT ![r] = c]
    BY <1>3, <2>1 DEF Recv, ReaderState, Held
  <2> HIDE DEF c
  <2> QED
    BY <1>3, <2>1, <2>2, ReaderUpdate DEF Recv, Held
<1>4. ASSUME NEW r \in Readers, Query(r) PROVE ReadsTypeOK'
  <2>1. PICK P \in SUBSET rows : reader' = [reader EXCEPT ![r].pc = "ok", ![r].got = P]
    BY <1>4 DEF Query
  <2>3. P \subseteq Row
    BY <2>1
  <2> DEFINE c == [reader[r] EXCEPT !.pc = "ok", !.got = P]
  <2>2. /\ c \in ReaderState /\ c.pc = "ok" /\ c.conn = reader[r].conn
        /\ reader' = [reader EXCEPT ![r] = c]
    BY <2>1, <2>3 DEF ReaderState, Held
  <2> HIDE DEF c
  <2> QED
    BY <1>4, <2>2, ReaderUpdate DEF Query, Held
<1>5. ASSUME NEW r \in Readers, QueryErr(r) PROVE ReadsTypeOK'
  <2> DEFINE c == [reader[r] EXCEPT !.pc = "err"]
  <2>2. /\ c \in ReaderState /\ c.pc = "err" /\ c.conn = reader[r].conn
        /\ reader' = [reader EXCEPT ![r] = c]
    BY <1>5 DEF QueryErr, ReaderState, Held
  <2> HIDE DEF c
  <2> QED
    BY <1>5, <2>2, ReaderUpdate DEF QueryErr, Held
<1>6. ASSUME NEW r \in Readers, Return(r) PROVE ReadsTypeOK'
  <2> DEFINE got == reader[r].got
             next == CASE reader[r].pc = "err" -> "failed"
                       [] r = Pager /\ Cardinality(got) = PageSize -> "idle"
                       [] OTHER -> "done"
             c == [reader[r] EXCEPT !.pc = next, !.conn = NoConn, !.ask = NoAsk, !.got = {}]
  <2>1. next \in {"failed", "idle", "done"} /\ NoAsk \in Asks
    BY DEF NoAsk, Asks
  <2>7. reader' = [reader EXCEPT ![r].pc = next, ![r].conn = NoConn, ![r].ask = NoAsk,
                                 ![r].got = {}]
    BY <1>6 DEF Return
  <2>3. seen' \subseteq Row /\ cursor' \in Cursors
    BY <1>6 DEF Return, MoveCursor, ReaderState, Cursors, Row
  <2>4. pool' \in Seq(Conns)
    BY <1>6, AppendProperties DEF Return, Held, ReaderState
  <2> HIDE DEF next
  <2>2. reader' = [reader EXCEPT ![r] = c]
    BY <2>7
  <2>5. c \in ReaderState /\ c.pc = next /\ c.conn = NoConn
    BY <2>1 DEF ReaderState, Held
  <2> HIDE DEF c
  <2>6. /\ reader' \in [Readers -> ReaderState]
        /\ reader'[r] = c
        /\ \A q \in Readers \ {r} : reader'[q] = reader[q]
    BY <2>2, <2>5, ReaderUpdate
  <2> QED
    BY <1>6, <2>1, <2>3, <2>4, <2>5, <2>6 DEF Return, Held
<1>7. ASSUME NEW k \in Keys, (\E t \in Stamps : Upsert(k, t)) \/ Prune(k)
      PROVE  ReadsTypeOK'
  BY <1>7 DEF Upsert, Prune, Row
<1>8. CASE UNCHANGED vars
  BY <1>8 DEF vars
<1> QED
  BY <1>1, <1>2, <1>3, <1>4, <1>5, <1>6, <1>7, <1>8 DEF Next, Read

\* The types hold in every reachable state.
THEOREM ReadsTyping == Spec => []ReadsTypeOK
<1>1. Init => ReadsTypeOK
  BY ReadsConstants, NewPool
     DEF Init, ReadsTypeOK, ReaderState, Held, Asks, NoAsk, Cursors, Row
<1> QED
  BY <1>1, TypeStep, PTL DEF Spec

-----------------------------------------------------------------------------
(* The pool *)

\* EachConnOnce is inductive: get takes a connection from the pool, the guard that
\* is dropped puts the same one back.
LEMMA EachConnOnceStep ==
  ReadsTypeOK /\ EachConnOnce /\ [Next]_vars => EachConnOnce'
<1> SUFFICES ASSUME ReadsTypeOK, EachConnOnce, [Next]_vars PROVE EachConnOnce'
  OBVIOUS
<1> USE ReadsConstants DEF ReadsTypeOK
<1>1. ASSUME UNCHANGED pool, \A r \in Readers : reader'[r].conn = reader[r].conn
      PROVE  EachConnOnce'
  BY <1>1 DEF EachConnOnce
<1>2. ASSUME NEW r \in Readers, Start(r) \/ Lock(r) \/ Query(r) \/ QueryErr(r)
      PROVE  EachConnOnce'
  <2>1. UNCHANGED pool /\ \A q \in Readers \ {r} : reader'[q] = reader[q]
    BY <1>2 DEF Start, Lock, Query, QueryErr
  <2>2. reader'[r].conn = reader[r].conn
    <3>1. reader[r] \in ReaderState
      OBVIOUS
    <3>2. CASE Start(r)
      BY <3>1, <3>2 DEF Start, ReaderState
    <3>3. CASE Lock(r) \/ QueryErr(r)
      BY <3>1, <3>3 DEF Lock, QueryErr, ReaderState
    <3>4. CASE Query(r)
      <4>1. PICK P : reader' = [reader EXCEPT ![r].pc = "ok", ![r].got = P]
        BY <3>4 DEF Query
      <4> QED
        BY <3>1, <4>1 DEF ReaderState
    <3> QED
      BY <1>2, <3>2, <3>3, <3>4
  <2> QED
    BY <1>1, <2>1, <2>2
<1>3. ASSUME NEW r \in Readers, Recv(r) PROVE EachConnOnce'
  <2> DEFINE c == Head(pool)
  <2>1. /\ pool # <<>> /\ pool' = Tail(pool)
        /\ reader'[r].conn = c /\ reader[r].conn = NoConn
        /\ \A q \in Readers \ {r} : reader'[q] = reader[q]
    BY <1>3 DEF Recv, ReaderState, Held
  <2>2. /\ Len(pool) \in Nat /\ Len(pool) > 0 /\ c = pool[1] /\ c \in Conns
        /\ Len(pool') = Len(pool) - 1
        /\ \A i \in 1 .. Len(pool) - 1 : pool'[i] = pool[i + 1]
        /\ DOMAIN pool = 1 .. Len(pool) /\ DOMAIN pool' = 1 .. Len(pool) - 1
    BY <2>1, HeadTailProperties
  <2> SUFFICES ASSUME NEW d \in Conns
               PROVE  /\ \A i, j \in DOMAIN pool' : pool'[i] = d /\ pool'[j] = d => i = j
                      /\ \A p \in Readers : reader'[p].conn = d =>
                            /\ \A i \in DOMAIN pool' : pool'[i] # d
                            /\ \A q \in Readers \ {p} : reader'[q].conn # d
                      /\ \/ \E i \in DOMAIN pool' : pool'[i] = d
                         \/ \E p \in Readers : reader'[p].conn = d
    BY DEF EachConnOnce
  <2> HIDE DEF c
  <2>3. \A i, j \in DOMAIN pool' : pool'[i] = d /\ pool'[j] = d => i = j
    <3> SUFFICES ASSUME NEW i \in 1 .. Len(pool) - 1, NEW j \in 1 .. Len(pool) - 1,
                        pool'[i] = d, pool'[j] = d
                 PROVE  i = j
      BY <2>2
    <3>1. i + 1 \in DOMAIN pool /\ j + 1 \in DOMAIN pool /\ pool[i + 1] = d /\ pool[j + 1] = d
      BY <2>2
    <3>2. i + 1 = j + 1
      BY <3>1 DEF EachConnOnce
    <3> QED
      BY <3>2
  <2>4. CASE d = c
    <3>1. ASSUME NEW i \in DOMAIN pool' PROVE pool'[i] # d
      <4>1. 1 \in DOMAIN pool /\ i + 1 \in DOMAIN pool /\ i + 1 # 1 /\ pool'[i] = pool[i + 1]
        BY <2>2
      <4>2. pool[1] = d
        BY <2>2, <2>4
      <4> QED
        BY <4>1, <4>2 DEF EachConnOnce
    <3>2. \A q \in Readers : reader[q].conn # d
      BY <2>2, <2>4 DEF EachConnOnce
    <3> QED
      BY <2>1, <2>3, <2>4, <3>1, <3>2
  <2>5. CASE d # c
    <3>1. \A p \in Readers : reader'[p].conn = d => p # r /\ reader[p].conn = d
      BY <2>1, <2>5
    <3>2. ASSUME NEW p \in Readers, reader'[p].conn = d
          PROVE  /\ \A i \in DOMAIN pool' : pool'[i] # d
                 /\ \A q \in Readers \ {p} : reader'[q].conn # d
      <4>1. reader[p].conn = d
        BY <3>1, <3>2
      <4>2. \A i \in DOMAIN pool : pool[i] # d
        BY <4>1 DEF EachConnOnce
      <4>3. \A q \in Readers \ {p} : reader[q].conn # d
        BY <4>1 DEF EachConnOnce
      <4> QED
        BY <2>1, <2>2, <2>5, <4>2, <4>3
    <3>3. \/ \E i \in DOMAIN pool' : pool'[i] = d
          \/ \E p \in Readers : reader'[p].conn = d
      <4>1. CASE \E i \in DOMAIN pool : pool[i] = d
        <5>1. PICK i \in DOMAIN pool : pool[i] = d
          BY <4>1
        <5>2. i # 1 /\ i - 1 \in DOMAIN pool' /\ pool'[i - 1] = pool[(i - 1) + 1]
          BY <2>2, <2>5, <5>1
        <5> QED
          BY <5>1, <5>2
      <4>2. CASE \E p \in Readers : reader[p].conn = d
        BY <2>1, <4>2
      <4> QED
        BY <4>1, <4>2 DEF EachConnOnce
    <3> QED
      BY <2>3, <3>2, <3>3
  <2> QED
    BY <2>4, <2>5
<1>4. ASSUME NEW r \in Readers, Return(r) PROVE EachConnOnce'
  <2> DEFINE c == reader[r].conn
  <2>1. c \in Conns /\ pool' = Append(pool, c)
    BY <1>4 DEF Return, Held, ReaderState
  <2>2. reader'[r].conn = NoConn /\ \A q \in Readers \ {r} : reader'[q] = reader[q]
    <3>1. PICK next : reader' = [reader EXCEPT ![r].pc = next, ![r].conn = NoConn,
                                              ![r].ask = NoAsk, ![r].got = {}]
      BY <1>4 DEF Return
    <3> QED
      BY <3>1 DEF ReaderState
  <2>3. /\ Len(pool) \in Nat
        /\ \A i \in 1 .. Len(pool) : pool'[i] = pool[i]
        /\ pool'[Len(pool) + 1] = c
        /\ DOMAIN pool = 1 .. Len(pool) /\ DOMAIN pool' = 1 .. Len(pool) + 1
    BY <2>1, AppendProperties
  <2>4. \A i \in DOMAIN pool : pool[i] # c
    BY <2>1 DEF EachConnOnce
  <2>5. \A q \in Readers \ {r} : reader[q].conn # c
    BY <2>1 DEF EachConnOnce
  <2> HIDE DEF c
  <2> SUFFICES ASSUME NEW d \in Conns
               PROVE  /\ \A i, j \in DOMAIN pool' : pool'[i] = d /\ pool'[j] = d => i = j
                      /\ \A p \in Readers : reader'[p].conn = d =>
                            /\ \A i \in DOMAIN pool' : pool'[i] # d
                            /\ \A q \in Readers \ {p} : reader'[q].conn # d
                      /\ \/ \E i \in DOMAIN pool' : pool'[i] = d
                         \/ \E p \in Readers : reader'[p].conn = d
    BY DEF EachConnOnce
  <2>6. CASE d = c
    <3>1. \A i \in DOMAIN pool' : pool'[i] = d => i = Len(pool) + 1
      BY <2>3, <2>4, <2>6
    <3>2. Len(pool) + 1 \in DOMAIN pool'
      BY <2>3
    <3>3. \A q \in Readers : reader'[q].conn # d
      BY <2>1, <2>2, <2>5, <2>6
    <3> QED
      BY <2>3, <2>6, <3>1, <3>2, <3>3
  <2>7. CASE d # c
    <3>1. \A i \in DOMAIN pool' : pool'[i] = d => i \in DOMAIN pool /\ pool[i] = d
      BY <2>3, <2>7
    <3>2. \A i \in DOMAIN pool : i \in DOMAIN pool' /\ pool'[i] = pool[i]
      BY <2>3
    <3>3. \A q \in Readers : reader'[q].conn = d <=> reader[q].conn = d
      BY <2>2, <2>7 DEF c
    <3>4. \A i, j \in DOMAIN pool : pool[i] = d /\ pool[j] = d => i = j
      BY DEF EachConnOnce
    <3>5. \A p \in Readers : reader[p].conn = d =>
             /\ \A i \in DOMAIN pool : pool[i] # d
             /\ \A q \in Readers \ {p} : reader[q].conn # d
      BY DEF EachConnOnce
    <3>6. (\E i \in DOMAIN pool : pool[i] = d) \/ (\E p \in Readers : reader[p].conn = d)
      BY DEF EachConnOnce
    <3> QED
      BY <3>1, <3>2, <3>3, <3>4, <3>5, <3>6
  <2> QED
    BY <2>6, <2>7
<1>5. CASE (\E k \in Keys : (\E t \in Stamps : Upsert(k, t)) \/ Prune(k)) \/ UNCHANGED vars
  BY <1>1, <1>5 DEF Upsert, Prune, vars
<1> QED
  BY <1>2, <1>3, <1>4, <1>5 DEF Next, Read

\* No connection is lost or shared, for any number of connections and readers.
THEOREM NoConnLostOrShared == Spec => []EachConnOnce
<1>1. Init => EachConnOnce
  BY ReadsConstants DEF Init, EachConnOnce, PoolOrders
<1> QED
  BY <1>1, EachConnOnceStep, ReadsTyping, PTL DEF Spec

-----------------------------------------------------------------------------
(* Paging *)

\* No two rows of a key, or of a timestamp.
RowsUnique == \A a, b \in rows : a.key = b.key \/ a.mod = b.mod => a = b

\* A row that was there at the start and was not pruned is there, or a newer one of
\* its key.
OwedThere == \A a \in owed : \E b \in rows : b.key = a.key /\ b.mod >= a.mod

\* A list of the pager that runs is one of the rows after its cursor.
AskIsPage == reader[Pager].pc \in {"lock", "recv", "query"} => reader[Pager].ask = PageAsk

\* The pager has, or is about to get, a row of the key of a that is as new.
Pending == reader[Pager].got
Received(a) == \E b \in seen \cup Pending : b.key = a.key /\ b.mod >= a.mod

\* The pager is past a timestamp, or will be when it has its result.
Passed(t) ==
    \/ cursor.by = "after" /\ t <= cursor.mod
    \/ \E b \in Pending : t <= b.mod

\* What the pager is past of the owed rows, it has received; a last page holds the
\* rest of them.
PassedReceived ==
    \A a \in owed, b \in rows :
       b.key = a.key /\ a.mod >= 0 /\ Passed(b.mod) => Received(a)
LastPageReceived ==
    \/ reader[Pager].pc = "ok" /\ Cardinality(reader[Pager].got) # PageSize
    \/ reader[Pager].pc = "done"
    => \A a \in owed : a.mod >= 0 => Received(a)

\* There is a result between the statement and the end of the guard.
PendingWhenOk == reader[Pager].pc # "ok" => Pending = {}

\* A result is no older than the owed row of its key.
PendingNewer == \A a \in owed, b \in Pending : b.key = a.key => b.mod >= a.mod

Paging ==
    /\ RowsUnique /\ OwedThere /\ AskIsPage
    /\ PassedReceived /\ LastPageReceived /\ PendingWhenOk /\ PendingNewer

\* The rows change: what was passed stays passed, and what is owed is there.
LEMMA PagingWriter ==
  ASSUME ReadsTypeOK, Paging, NEW k \in Keys,
         (\E t \in Stamps : Upsert(k, t)) \/ Prune(k)
  PROVE  Paging'
<1> USE ReadsConstants DEF ReadsTypeOK, Row
<1>0. /\ UNCHANGED <<reader, cursor, seen>> /\ UNCHANGED Pending
      /\ \A t : Passed(t)' = Passed(t) /\ \A a : Received(a)' = Received(a)
  BY DEF Upsert, Prune, Pending, Passed, Received
<1>1. /\ AskIsPage' /\ (owed' \subseteq owed)
  BY <1>0 DEF Paging, AskIsPage, PageAsk, Upsert, Prune
<1>2. LastPageReceived' /\ PendingWhenOk' /\ PendingNewer'
  BY <1>0, <1>1 DEF Paging, LastPageReceived, PendingWhenOk, PendingNewer
<1>3. ASSUME NEW t \in Stamps, Upsert(k, t)
      PROVE  RowsUnique' /\ OwedThere' /\ PassedReceived'
  <2> DEFINE n == [key |-> k, mod |-> t]
  <2>1. /\ rows' = {r \in rows : r.key # k} \cup {n}
        /\ \A r \in rows : (r.key = k => r.mod < t) /\ (r.key # k => r.mod # t)
        /\ UNCHANGED owed /\ n.key = k /\ n.mod = t
    BY <1>3 DEF Upsert
  <2> HIDE DEF n
  <2>2. RowsUnique'
    BY <2>1 DEF Paging, RowsUnique
  <2>3. ASSUME NEW a \in owed, a.key = k
        PROVE  /\ t >= a.mod
               /\ a.mod >= 0 /\ Passed(t) => Received(a)
    <3>1. PICK b \in rows : b.key = a.key /\ b.mod >= a.mod
      BY DEF Paging, OwedThere
    <3>2. b.mod < t /\ b.mod \in Int /\ a.mod \in Int /\ t \in Int
      BY <2>1, <2>3, <3>1
    <3>3. Passed(t) => Passed(b.mod)
      <4>1. \A g \in Pending : g.mod \in Int
        BY DEF Pending, ReaderState
      <4>2. cursor.by = "after" => cursor.mod \in Int
        BY DEF Cursors
      <4> QED
        BY <3>2, <4>1, <4>2 DEF Passed
    <3> QED
      BY <3>1, <3>2, <3>3 DEF Paging, PassedReceived
  <2>4. OwedThere'
    <3> SUFFICES ASSUME NEW a \in owed PROVE \E b \in rows' : b.key = a.key /\ b.mod >= a.mod
      BY <2>1 DEF OwedThere
    <3>1. CASE a.key = k
      BY <2>1, <2>3, <3>1
    <3>2. CASE a.key # k
      BY <2>1, <3>2 DEF Paging, OwedThere
    <3> QED
      BY <3>1, <3>2
  <2>5. PassedReceived'
    BY <1>0, <2>1, <2>3 DEF Paging, PassedReceived
  <2> QED
    BY <2>2, <2>4, <2>5
<1>4. ASSUME Prune(k) PROVE RowsUnique' /\ OwedThere' /\ PassedReceived'
  <2>1. /\ rows' = {r \in rows : r.key # k}
        /\ owed' = {r \in owed : r.key # k}
    BY <1>4 DEF Prune
  <2> QED
    BY <1>0, <2>1 DEF Paging, RowsUnique, OwedThere, PassedReceived
<1> QED
  BY <1>1, <1>2, <1>3, <1>4 DEF Paging

\* The pager's statement runs: its page is what comes next.
LEMMA PagingQuery ==
  ASSUME ReadsTypeOK, Paging, Query(Pager)
  PROVE  Paging'
<1> USE ReadsConstants DEF ReadsTypeOK, Row
<1> DEFINE M == {a \in rows : Matches(cursor, a)}
<1>0. \A a \in rows \cup owed : a.mod \in Int
  OBVIOUS
<1>1. /\ reader[Pager].pc = "query" /\ reader[Pager].ask = PageAsk
      /\ UNCHANGED <<rows, cursor, seen, owed>>
  BY DEF Query, Paging, AskIsPage
<1>2. PICK P \in SUBSET M :
         /\ IsPage(P, M, "ModifiedAtMicrosAsc", PageSize)
         /\ reader' = [reader EXCEPT ![Pager].pc = "ok", ![Pager].got = P]
  <2>1. /\ reader[Pager].ask.filter = cursor
        /\ reader[Pager].ask.sort = "ModifiedAtMicrosAsc"
        /\ reader[Pager].ask.limit = PageSize
    BY <1>1 DEF PageAsk
  <2>2. {a \in rows : Matches(reader[Pager].ask.filter, a)} = M
    BY <2>1
  <2> HIDE DEF M
  <2> QED
    BY <2>1, <2>2 DEF Query
<1>3. /\ P = M \/ Cardinality(P) = PageSize
      /\ \A a \in P, b \in M \ P : ~(b.mod < a.mod)
  BY <1>2 DEF IsPage, Before
<1> HIDE DEF M
<1>4. reader'[Pager].pc = "ok" /\ reader'[Pager].got = P
  BY <1>2 DEF ReaderState
<1>5. Pending' = P /\ Pending = {}
  BY <1>1, <1>4 DEF Pending, Paging, PendingWhenOk
<1>6. \A a \in P : a \in rows
  BY <1>2 DEF M
\* A row that is not passed, as new as an owed one, is among those asked for.
<1>7. \A b \in rows : b.mod >= 0 /\ ~Passed(b.mod) => b \in M
  <2> SUFFICES ASSUME NEW b \in rows, b.mod >= 0, ~Passed(b.mod) PROVE Matches(cursor, b)
    BY DEF M
  <2>1. CASE cursor.by = "from"
    BY <2>1 DEF Matches
  <2>2. CASE cursor.by = "after"
    <3>1. cursor.mod \in Int /\ b.mod \in Int
      BY <2>2 DEF Cursors
    <3>2. ~(b.mod <= cursor.mod)
      BY <2>2 DEF Passed
    <3> QED
      BY <2>2, <3>1, <3>2 DEF Matches
  <2> QED
    BY <2>1, <2>2 DEF Cursors
<1>8. \A a : Received(a)' <=> Received(a) \/ \E b \in P : b.key = a.key /\ b.mod >= a.mod
  BY <1>1, <1>5 DEF Received
<1>9. \A a \in owed, b \in rows : b.key = a.key => b.mod >= a.mod
  BY DEF Paging, OwedThere, RowsUnique
<1>10. ASSUME NEW a \in owed, NEW b \in rows, b.key = a.key, a.mod >= 0, Passed(b.mod)'
       PROVE  Received(a)'
  <2>0. b.mod >= a.mod /\ b.mod >= 0 /\ b.mod \in Int
    BY <1>0, <1>9, <1>10
  <2>1. CASE Passed(b.mod)
    BY <1>8, <1>10, <2>1 DEF Paging, PassedReceived
  <2>2. CASE ~Passed(b.mod)
    <3>1. b \in M
      BY <1>7, <2>0, <2>2
    <3>2. PICK g \in P : b.mod <= g.mod
      BY <1>1, <1>5, <1>10, <2>2 DEF Passed
    <3>3. b \in P
      <4> SUFFICES ASSUME b \notin P PROVE FALSE
        OBVIOUS
      <4>1. ~(b.mod < g.mod) /\ g \in rows /\ g.mod \in Int
        BY <1>3, <1>6, <3>1, <3>2
      <4>2. b = g
        BY <2>0, <3>2, <4>1 DEF Paging, RowsUnique
      <4> QED
        BY <3>2, <4>2
    <3> QED
      BY <1>8, <1>10, <2>0, <3>3
  <2> QED
    BY <2>1, <2>2
<1>11. ASSUME Cardinality(P) # PageSize, NEW a \in owed, a.mod >= 0
       PROVE  Received(a)'
  <2>1. PICK b \in rows : b.key = a.key /\ b.mod >= a.mod
    BY DEF Paging, OwedThere
  <2>2. CASE Passed(b.mod)
    BY <1>8, <1>11, <2>1, <2>2 DEF Paging, PassedReceived
  <2>3. CASE ~Passed(b.mod)
    <3>1. b \in P
      BY <1>0, <1>3, <1>7, <1>11, <2>1, <2>3
    <3> QED
      BY <1>8, <2>1, <3>1
  <2> QED
    BY <2>2, <2>3
<1>12. RowsUnique' /\ OwedThere' /\ AskIsPage'
  BY <1>1, <1>4 DEF Paging, RowsUnique, OwedThere, AskIsPage
<1>13. PassedReceived'
  BY <1>1, <1>10 DEF PassedReceived
<1>14. LastPageReceived'
  BY <1>1, <1>4, <1>11 DEF LastPageReceived
<1>15. PendingNewer' /\ PendingWhenOk'
  BY <1>1, <1>4, <1>5, <1>6, <1>9 DEF PendingNewer, PendingWhenOk
<1> QED
  BY <1>12, <1>13, <1>14, <1>15 DEF Paging

\* The pager has its page, and moves its cursor to the end of it.
LEMMA PagingReturn ==
  ASSUME ReadsTypeOK, Paging, Return(Pager)
  PROVE  Paging'
<1> USE ReadsConstants DEF ReadsTypeOK, Row
<1> DEFINE got == reader[Pager].got
<1>1. /\ UNCHANGED <<rows, owed>>
      /\ seen' = got \cup {a \in seen : \A b \in got : b.key # a.key}
      /\ MoveCursor(got)
  BY DEF Return
<1>2. PICK next :
        /\ reader' = [reader EXCEPT ![Pager].pc = next, ![Pager].conn = NoConn,
                                    ![Pager].ask = NoAsk, ![Pager].got = {}]
        /\ next = CASE reader[Pager].pc = "err" -> "failed"
                    [] Pager = Pager /\ Cardinality(got) = PageSize -> "idle"
                    [] OTHER -> "done"
  BY DEF Return
<1>3. reader'[Pager].pc = next /\ next \in {"failed", "idle", "done"}
  BY <1>2 DEF ReaderState
<1>4. next = "done" => reader[Pager].pc = "ok" /\ Cardinality(got) # PageSize
  BY <1>2 DEF Return
<1>5. Pending' = {} /\ Pending = got
  BY <1>2 DEF Pending, ReaderState
<1> HIDE DEF got
<1>6. \A a \in owed : Received(a) => Received(a)'
  <2> SUFFICES ASSUME NEW a \in owed, NEW b \in seen \cup got,
                      b.key = a.key, b.mod >= a.mod
               PROVE  \E d \in seen' : d.key = a.key /\ d.mod >= a.mod
    BY <1>1, <1>5 DEF Received
  <2>1. CASE b \in seen'
    BY <2>1
  <2>2. CASE b \notin seen'
    <3>1. PICK g \in got : g.key = b.key
      BY <1>1, <2>2
    <3>2. g \in seen' /\ g.mod >= a.mod
      BY <1>1, <1>5, <3>1 DEF Paging, PendingNewer
    <3> QED
      BY <3>1, <3>2
  <2> QED
    BY <2>1, <2>2
<1>7. \A b \in rows : Passed(b.mod)' => Passed(b.mod)
  <2> SUFFICES ASSUME NEW b \in rows, Passed(b.mod)' PROVE Passed(b.mod)
    OBVIOUS
  <2>1. CASE got = {}
    BY <1>1, <1>5, <2>1 DEF MoveCursor, Passed
  <2>2. CASE got # {}
    <3>1. PICK last \in got : cursor' = [by |-> "after", mod |-> last.mod]
      BY <1>1, <2>2 DEF MoveCursor
    <3>2. b.mod <= last.mod
      BY <1>5, <3>1 DEF Passed
    <3> QED
      BY <1>5, <3>2 DEF Passed
  <2> QED
    BY <2>1, <2>2
<1>8. RowsUnique' /\ OwedThere' /\ AskIsPage' /\ PendingWhenOk' /\ PendingNewer'
  BY <1>1, <1>3, <1>5 DEF Paging, RowsUnique, OwedThere, AskIsPage, PendingWhenOk, PendingNewer
<1>9. PassedReceived'
  BY <1>1, <1>6, <1>7 DEF Paging, PassedReceived
<1>10. LastPageReceived'
  BY <1>1, <1>3, <1>4, <1>6 DEF got, Paging, LastPageReceived
<1> QED
  BY <1>8, <1>9, <1>10 DEF Paging

\* Paging is inductive.
LEMMA PagingStep == ReadsTypeOK /\ Paging /\ [Next]_vars => Paging'
<1> SUFFICES ASSUME ReadsTypeOK, Paging, [Next]_vars PROVE Paging'
  OBVIOUS
<1> USE ReadsConstants DEF ReadsTypeOK
\* A step of which the pager and the rows see nothing.
<1>1. ASSUME UNCHANGED <<rows, cursor, seen, owed>>,
             reader'[Pager].pc = reader[Pager].pc, reader'[Pager].ask = reader[Pager].ask,
             reader'[Pager].got = reader[Pager].got
      PROVE  Paging'
  BY <1>1 DEF Paging, RowsUnique, OwedThere, AskIsPage, PageAsk, PassedReceived,
     LastPageReceived, PendingWhenOk, PendingNewer, Pending, Received, Passed
<1>2. ASSUME NEW r \in Readers, r # Pager, Read(r) PROVE Paging'
  <2>1. reader'[Pager] = reader[Pager]
    BY <1>2 DEF Read, Start, Lock, Recv, Query, QueryErr, Return
  <2>2. UNCHANGED <<rows, cursor, seen, owed>>
    BY <1>2 DEF Read, Start, Lock, Recv, Query, QueryErr, Return
  <2> QED
    BY <1>1, <2>1, <2>2
<1>3. ASSUME Start(Pager) PROVE Paging'
  <2>1. /\ reader[Pager].pc = "idle"
        /\ reader'[Pager].pc = "lock" /\ reader'[Pager].ask = PageAsk
        /\ reader'[Pager].got = reader[Pager].got
    BY <1>3 DEF Start, ReaderState
  <2>2. UNCHANGED <<rows, cursor, seen>>
    BY <1>3 DEF Start
  <2>3. Pending' = {} /\ Pending = {}
    BY <2>1 DEF Paging, PendingWhenOk, Pending
  <2>4. RowsUnique' /\ AskIsPage' /\ LastPageReceived' /\ PendingWhenOk' /\ PendingNewer'
    BY <2>1, <2>2, <2>3 DEF Paging, RowsUnique, AskIsPage, PageAsk, LastPageReceived,
       PendingWhenOk, PendingNewer
  <2>5. CASE cursor.by = "from"
    <3>1. owed' = rows /\ \A t : ~Passed(t)'
      BY <1>3, <2>2, <2>3, <2>5 DEF Start, Passed
    <3>2. \A a \in rows : a.mod \in Int
      BY DEF Row
    <3>3. \A a \in rows : a.mod >= a.mod
      BY <3>2
    <3> QED
      BY <2>2, <2>4, <3>1, <3>3 DEF Paging, OwedThere, PassedReceived
  <2>6. CASE cursor.by # "from"
    <3>1. UNCHANGED owed
      BY <1>3, <2>6 DEF Start
    <3>2. OwedThere' /\ PassedReceived'
      BY <2>2, <2>3, <3>1 DEF Paging, OwedThere, PassedReceived, Passed, Received
    <3> QED
      BY <2>4, <3>2 DEF Paging
  <2> QED
    BY <2>5, <2>6
<1>4. ASSUME Lock(Pager) \/ Recv(Pager) \/ QueryErr(Pager) PROVE Paging'
  <2>1. /\ reader[Pager].pc \in {"lock", "recv", "query"}
        /\ reader'[Pager].pc \in {"recv", "query", "err"}
        /\ reader'[Pager].ask = reader[Pager].ask /\ reader'[Pager].got = reader[Pager].got
        /\ UNCHANGED <<rows, cursor, seen, owed>>
    BY <1>4 DEF Lock, Recv, QueryErr, ReaderState
  <2> QED
    BY <2>1 DEF Paging, RowsUnique, OwedThere, AskIsPage, PageAsk, PassedReceived,
       LastPageReceived, PendingWhenOk, PendingNewer, Pending, Received, Passed
<1>5. CASE UNCHANGED vars
  BY <1>1, <1>5 DEF vars
<1> QED
  BY <1>2, <1>3, <1>4, <1>5, PagingWriter, PagingQuery, PagingReturn DEF Next, Read

\* A client that pages by modified_at_micros misses no entry of a timestamp from 0 on,
\* however many there are, and whatever is written and pruned between its pages.
THEOREM PagingCovers == Spec => []PagesCover
<1>1. Init => Paging
  BY ReadsConstants DEF Init, Paging, RowsUnique, OwedThere, AskIsPage, PassedReceived,
     LastPageReceived, PendingWhenOk, PendingNewer, Pending
<1>2. Paging => PagesCover
  BY DEF Paging, LastPageReceived, PendingWhenOk, Pending, Received, PagesCover
<1> QED
  BY <1>1, <1>2, PagingStep, ReadsTyping, PTL DEF Spec

-----------------------------------------------------------------------------
(* What GLOB matches: the values of a recursion that looks ahead in the pattern *)

\* The ends of the bracket that opens at i.
Closes(p, i) == {k \in i + 2 .. Len(p) : p[k] = "]" /\ \A l \in i + 2 .. k - 1 : p[l] # "]"}

\* What GlobMatches has at i, when it has t at the places after i.
LeftAt(p, s, t, i) ==
    IF i > Len(p) THEN {Len(s) + 1}
    ELSE IF p[i] = "*" THEN {j \in 1 .. Len(s) + 1 : \E n \in t[i + 1] : j <= n}
    ELSE {j \in 1 .. Len(s) :
            CASE p[i] = "?" -> j + 1 \in t[i + 1]
              [] p[i] = "[" -> \E k \in Closes(p, i) :
                                  /\ \E l \in i + 1 .. k - 1 : p[l] = s[j]
                                  /\ j + 1 \in t[k + 1]
              [] OTHER -> p[i] = s[j] /\ j + 1 \in t[i + 1]}

\* left is the function of GlobMatches.
IsLeft(left, p, s) == \A i \in 1 .. Len(p) + 1 : left[i] = LeftAt(p, s, left, i)

\* It is places of s.
LEMMA LeftType ==
  ASSUME NEW p \in Seq(Chars), NEW s \in Seq(Chars), NEW t, NEW i
  PROVE  LeftAt(p, s, t, i) \in SUBSET (1 .. Len(s) + 1)
<1>1. Len(s) \in Nat
  OBVIOUS
<1>2. CASE i > Len(p)
  BY <1>1, <1>2 DEF LeftAt
<1>3. CASE ~(i > Len(p)) /\ p[i] = "*"
  BY <1>1, <1>3 DEF LeftAt
<1>4. CASE ~(i > Len(p)) /\ p[i] # "*"
  <2>1. LeftAt(p, s, t, i) \subseteq 1 .. Len(s)
    BY <1>4 DEF LeftAt
  <2> QED
    BY <1>1, <2>1
<1> QED
  BY <1>2, <1>3, <1>4

\* It looks at what comes after i.
LEMMA LeftAhead ==
  ASSUME NEW p \in Seq(Chars), NEW s \in Seq(Chars), NEW i \in 1 .. Len(p) + 1, NEW t, NEW u,
         \A k \in i + 1 .. Len(p) + 1 : t[k] = u[k]
  PROVE  LeftAt(p, s, t, i) = LeftAt(p, s, u, i)
<1>1. Len(p) \in Nat /\ Len(s) \in Nat
  OBVIOUS
<1>2. CASE i > Len(p)
  BY <1>2 DEF LeftAt
<1>3. CASE ~(i > Len(p))
  <2>1. i + 1 \in i + 1 .. Len(p) + 1 /\ t[i + 1] = u[i + 1]
    BY <1>1, <1>3
  <2>2. \A k \in Closes(p, i) : k + 1 \in i + 1 .. Len(p) + 1 /\ t[k + 1] = u[k + 1]
    BY <1>1, <1>3 DEF Closes
  <2>3. CASE p[i] = "*"
    BY <1>3, <2>1, <2>3 DEF LeftAt
  <2>4. CASE p[i] = "?"
    BY <1>3, <2>1, <2>4 DEF LeftAt
  <2>5. CASE p[i] = "["
    BY <1>3, <2>2, <2>5 DEF LeftAt
  <2>6. CASE p[i] \notin {"*", "?", "["}
    BY <1>3, <2>1, <2>6 DEF LeftAt
  <2> QED
    BY <2>3, <2>4, <2>5, <2>6
<1> QED
  BY <1>2, <1>3

\* The function that GlobMatches is the first value of.
LEMMA GlobLeft ==
  ASSUME NEW p \in Seq(Chars), NEW s \in Seq(Chars)
  PROVE  \E left : IsLeft(left, p, s) /\ (GlobMatches(p, s) <=> 1 \in left[1])
<1> DEFINE n == Len(p) + 1
           S == SUBSET (1 .. Len(s) + 1)
           step == [i \in 1 .. n |-> [t \in [1 .. n -> S] |-> LeftAt(p, s, t, i)]]
           left[i \in 1 .. n] == LeftAt(p, s, left, i)
<1>1. n \in Nat
  OBVIOUS
<1>2. S # {}
  OBVIOUS
<1>3. step \in Backwards(n, S)
  BY LeftType DEF Backwards
<1>4. LooksAhead(n, S, step)
  <2> SUFFICES ASSUME NEW i \in 1 .. n, NEW t \in [1 .. n -> S], NEW u \in [1 .. n -> S],
                      \A k \in i + 1 .. n : t[k] = u[k]
               PROVE  step[i][t] = step[i][u]
    BY DEF LooksAhead
  <2>1. LeftAt(p, s, t, i) = LeftAt(p, s, u, i)
    BY LeftAhead
  <2> QED
    BY <2>1
<1>5. \A g \in [1 .. n -> S], i \in 1 .. n : step[i][g] = LeftAt(p, s, g, i)
  OBVIOUS
<1> HIDE DEF step
<1>6. PICK g : Solves(g, n, S, step)
  <2> HIDE DEF n, S
  <2> QED
    BY ONLY <1>1, <1>2, <1>3, <1>4, BackwardsDefines
<1>7. g \in [1 .. n -> S] /\ \A i \in 1 .. n : g[i] = LeftAt(p, s, g, i)
  BY <1>5, <1>6 DEF Solves
<1>8. left = [i \in 1 .. n |-> LeftAt(p, s, left, i)]
  <2>1. g = [i \in 1 .. n |-> LeftAt(p, s, g, i)]
    BY <1>7
  <2> QED
    BY <2>1
<1>9. GlobMatches(p, s) <=> 1 \in left[1]
  BY DEF GlobMatches, LeftAt, Closes
<1> HIDE DEF left
<1>10. IsLeft(left, p, s)
  BY <1>8 DEF IsLeft
<1> QED
  BY <1>9, <1>10
\* What glob_prefix_pattern puts for a character.
Piece(c) == IF c \in {"*", "?", "["} THEN <<"[", c, "]">> ELSE <<c>>

\* It is one character, or three.
LEMMA PieceType ==
  ASSUME NEW c \in Chars
  PROVE  /\ Piece(c) \in Seq(Chars)
         /\ c \in {"*", "?", "["} => /\ Len(Piece(c)) = 3
                                     /\ Piece(c)[1] = "[" /\ Piece(c)[2] = c /\ Piece(c)[3] = "]"
         /\ c \notin {"*", "?", "["} => Len(Piece(c)) = 1 /\ Piece(c)[1] = c
<1>1. CASE c \in {"*", "?", "["}
  <2>1. Piece(c) = <<"[", c, "]">>
    BY <1>1 DEF Piece
  <2>2. "[" \in Chars /\ "]" \in Chars
    BY CharsOK
  <2>3. <<"[", c, "]">> \in Seq(Chars) /\ Len(<<"[", c, "]">>) = 3
    BY <2>2
  <2>4. <<"[", c, "]">>[1] = "[" /\ <<"[", c, "]">>[2] = c /\ <<"[", c, "]">>[3] = "]"
    OBVIOUS
  <2> QED
    BY <1>1, <2>1, <2>3, <2>4
<1>2. CASE c \notin {"*", "?", "["}
  <2>1. Piece(c) = <<c>>
    BY <1>2 DEF Piece
  <2> QED
    BY <1>2, <2>1
<1> QED
  BY <1>1, <1>2

\* The pattern of a prefix q: the pieces of its characters, of which the i-th ends at
\* at[i], and a star.
IsPattern(p, q, at) ==
    /\ p \in Seq(Chars)
    /\ at \in [0 .. Len(q) -> Nat] /\ at[0] = 0
    /\ Len(p) = at[Len(q)] + 1 /\ p[at[Len(q)] + 1] = "*"
    /\ \A i \in 1 .. Len(q) : at[i] = at[i - 1] + Len(Piece(q[i])) /\ at[i] <= at[Len(q)]
    /\ \A i \in 1 .. Len(q) : \A k \in 1 .. Len(Piece(q[i])) : p[at[i - 1] + k] = Piece(q[i])[k]

\* glob_prefix_pattern returns that.
LEMMA PatternPieces ==
  ASSUME NEW q \in Seq(Chars)
  PROVE  \E at : IsPattern(GlobPattern(q), q, at)
<1> DEFINE n == Len(q)
           S == Seq(Chars)
           e == <<>>
           step == [i \in 1 .. n |-> [t \in S |-> t \o Piece(q[i])]]
           pattern[i \in 0 .. n] ==
             IF i = 0 THEN <<>>
             ELSE pattern[i - 1] \o (IF q[i] \in {"*", "?", "["} THEN <<"[", q[i], "]">>
                                     ELSE <<q[i]>>)
<1>1. n \in Nat /\ \A i \in 1 .. n : q[i] \in Chars /\ Piece(q[i]) \in S
  <2>1. n \in Nat /\ \A i \in 1 .. n : q[i] \in Chars
    OBVIOUS
  <2> QED
    BY <2>1, PieceType
<1>2. step \in Steps(n, S)
  <2>1. \A i \in 1 .. n : \A t \in S : t \o Piece(q[i]) \in S
    BY <1>1, ConcatProperties
  <2> QED
    BY <2>1 DEF Steps
<1>3. \A i \in 1 .. n : \A t \in S : step[i][t] = t \o Piece(q[i])
  OBVIOUS
<1>4. e \in S
  OBVIOUS
<1> HIDE DEF step
<1>5. PICK g : Follows(g, n, S, e, step)
  <2>1. n \in Nat
    BY <1>1
  <2> HIDE DEF n, S, e
  <2> QED
    BY ONLY <2>1, <1>2, <1>4, RecursionDefines
<1>6. /\ g \in [0 .. n -> S] /\ g[0] = <<>>
      /\ \A i \in 1 .. n : g[i - 1] \in S /\ g[i] = g[i - 1] \o Piece(q[i])
  <2>1. /\ g \in [0 .. n -> S] /\ g[0] = <<>>
        /\ \A i \in 1 .. n : g[i] = step[i][g[i - 1]]
    BY <1>5 DEF Follows
  <2>2. \A i \in 1 .. n : i - 1 \in 0 .. n
    BY <1>1
  <2> QED
    BY <1>3, <2>1, <2>2
<1>7. pattern = [i \in 0 .. n |-> IF i = 0 THEN <<>> ELSE pattern[i - 1] \o
                   (IF q[i] \in {"*", "?", "["} THEN <<"[", q[i], "]">> ELSE <<q[i]>>)]
  <2>1. g = [i \in 0 .. n |-> IF i = 0 THEN <<>> ELSE g[i - 1] \o
               (IF q[i] \in {"*", "?", "["} THEN <<"[", q[i], "]">> ELSE <<q[i]>>)]
    <3>1. ASSUME NEW i \in 0 .. n
          PROVE  g[i] = IF i = 0 THEN <<>> ELSE g[i - 1] \o
                          (IF q[i] \in {"*", "?", "["} THEN <<"[", q[i], "]">> ELSE <<q[i]>>)
      <4>1. i # 0 => i \in 1 .. n
        BY <1>1
      <4> QED
        BY <1>6, <4>1 DEF Piece
    <3> QED
      BY <1>6, <3>1
  <2> QED
    BY <2>1
<1>8. GlobPattern(q) = pattern[n] \o <<"*">>
  BY DEF GlobPattern
<1> HIDE DEF pattern
<1> DEFINE at == [i \in 0 .. n |-> Len(pattern[i])]
           Good(m) == /\ pattern[m] \in S /\ \A i \in 0 .. m : at[i] \in Nat
                      /\ \A i \in 1 .. m :
                            /\ at[i] = at[i - 1] + Len(Piece(q[i])) /\ at[i] <= at[m]
                            /\ \A k \in 1 .. Len(Piece(q[i])) :
                                  pattern[m][at[i - 1] + k] = Piece(q[i])[k]
           T == {m \in 0 .. n : Good(m)}
<1>9. Good(0) /\ at[0] = 0
  BY <1>1, <1>7
<1>10. ASSUME NEW m \in 1 .. n, Good(m - 1) PROVE Good(m)
  <2>1. m \in 0 .. n /\ m - 1 \in 0 .. n /\ m # 0 /\ m - 1 \in Nat
    BY <1>1
  <2>2. pattern[m] = pattern[m - 1] \o Piece(q[m])
    BY <1>7, <2>1 DEF Piece
  <2>3. /\ pattern[m] \in S /\ at[m] = at[m - 1] + Len(Piece(q[m]))
        /\ at[m - 1] \in Nat /\ Len(Piece(q[m])) \in Nat
        /\ \A k \in 1 .. at[m] : pattern[m][k] = IF k <= at[m - 1] THEN pattern[m - 1][k]
                                                 ELSE Piece(q[m])[k - at[m - 1]]
    <3>1. pattern[m - 1] \in Seq(Chars) /\ Piece(q[m]) \in Seq(Chars)
      BY <1>1, <1>10
    <3>2. at[m - 1] = Len(pattern[m - 1]) /\ at[m] = Len(pattern[m])
      BY <2>1
    <3> HIDE DEF at
    <3> DEFINE a == pattern[m - 1]
               c == Piece(q[m])
    <3>3. a \in Seq(Chars) /\ c \in Seq(Chars) /\ pattern[m] = a \o c
      BY <2>2, <3>1
    <3> HIDE DEF a, c
    <3>4. /\ a \o c \in Seq(Chars) /\ Len(a \o c) = Len(a) + Len(c)
          /\ \A k \in 1 .. Len(a) + Len(c) :
                (a \o c)[k] = IF k <= Len(a) THEN a[k] ELSE c[k - Len(a)]
      BY <3>3, ConcatProperties
    <3>5. Len(a) \in Nat /\ Len(c) \in Nat
      BY <3>3
    <3> QED
      BY <3>2, <3>3, <3>4, <3>5 DEF a, c
  <2>4. ASSUME NEW i \in 1 .. m, NEW k \in 1 .. Len(Piece(q[i]))
        PROVE  pattern[m][at[i - 1] + k] = Piece(q[i])[k]
    <3>1. CASE i = m
      <4>1. /\ at[m - 1] + k \in 1 .. at[m] /\ ~(at[m - 1] + k <= at[m - 1])
            /\ (at[m - 1] + k) - at[m - 1] = k
        <5> HIDE DEF at
        <5> QED
          BY <2>3, <2>4, <3>1
      <4> HIDE DEF at
      <4> QED
        BY <2>3, <3>1, <4>1
    <3>2. CASE i # m
      <4>1. i \in 1 .. m - 1 /\ i \in 1 .. n
        BY <2>1, <3>2
      <4>2. /\ at[i] = at[i - 1] + Len(Piece(q[i])) /\ at[i] <= at[m - 1]
            /\ pattern[m - 1][at[i - 1] + k] = Piece(q[i])[k]
        BY <1>10, <2>4, <4>1
      <4>3. at[i - 1] \in Nat /\ Len(Piece(q[i])) \in Nat
        <5>1. i - 1 \in 0 .. m - 1
          BY <4>1
        <5>2. Piece(q[i]) \in S
          BY <1>1, <4>1
        <5> QED
          BY <1>10, <5>1, <5>2
      <4> HIDE DEF at
      <4>4. at[i - 1] + k \in 1 .. at[m] /\ at[i - 1] + k <= at[m - 1]
        <5>1. k \in Int /\ 1 <= k /\ k <= Len(Piece(q[i]))
          BY <2>4, <4>3
        <5>2. at[m - 1] \in Nat /\ at[m - 1] <= at[m] /\ at[m] \in Int
          BY <2>3
        <5>3. at[i] = at[i - 1] + Len(Piece(q[i])) /\ at[i] <= at[m - 1]
          BY <4>2
        <5> QED
          BY ONLY <4>3, <5>1, <5>2, <5>3
      <4> QED
        BY <2>3, <4>2, <4>4
    <3> QED
      BY <3>1, <3>2
  <2>5. ASSUME NEW i \in 1 .. m
        PROVE  at[i] = at[i - 1] + Len(Piece(q[i])) /\ at[i] <= at[m]
    <3>1. CASE i = m
      <4> HIDE DEF at
      <4> QED
        BY <2>3, <3>1
    <3>2. CASE i # m
      <4>1. i \in 1 .. m - 1
        BY <2>1, <3>2
      <4>2. at[i] = at[i - 1] + Len(Piece(q[i])) /\ at[i] <= at[m - 1]
        BY <1>10, <4>1
      <4>3. at[i] \in Int
        <5>1. i \in 0 .. m - 1
          BY <4>1
        <5> QED
          BY <1>10, <5>1
      <4> HIDE DEF at
      <4> QED
        BY <2>3, <4>2, <4>3
    <3> QED
      BY <3>1, <3>2
  <2>6. ASSUME NEW i \in 0 .. m PROVE at[i] \in Nat
    <3>1. i # m => i \in 0 .. m - 1
      OBVIOUS
    <3>2. i # m => at[i] \in Nat
      BY <1>10, <3>1
    <3> HIDE DEF at
    <3> QED
      BY <2>3, <3>2
  <2> QED
    BY <2>3, <2>4, <2>5, <2>6
<1>11. Good(n)
  <2>1. 0 \in T /\ n \in 0 .. n /\ n \in Nat
    BY <1>1, <1>9
  <2>2. \A m \in 1 .. n : m - 1 \in T => m \in T
    <3> HIDE DEF Good
    <3> QED
      BY <1>10
  <2> HIDE DEF T
  <2>3. \A m \in 0 .. n : m \in T
    BY ONLY <2>1, <2>2, UpTo
  <2>4. n \in T
    BY <2>1, <2>3
  <2> QED
    BY <2>4 DEF T
<1>12. at \in [0 .. n -> Nat] /\ at[n] = Len(pattern[n]) /\ n \in 0 .. n
  BY <1>1, <1>11
<1> DEFINE p == GlobPattern(q)
<1>13. /\ p \in Seq(Chars) /\ Len(p) = at[n] + 1 /\ p[at[n] + 1] = "*"
       /\ \A k \in 1 .. at[n] : p[k] = pattern[n][k]
  <2> DEFINE a == pattern[n]
             c == <<"*">>
  <2>1. /\ a \in Seq(Chars) /\ c \in Seq(Chars) /\ Len(c) = 1 /\ c[1] = "*"
        /\ Len(a) = at[n] /\ Len(a) \in Nat /\ p = a \o c
    <3>1. a \in Seq(Chars) /\ Len(a) = at[n] /\ Len(a) \in Nat /\ p = a \o c
      BY <1>8, <1>11, <1>12
    <3>2. "*" \in Chars
      BY CharsOK
    <3>3. c \in Seq(Chars) /\ Len(c) = 1 /\ c[1] = "*"
      BY <3>2
    <3> QED
      BY <3>1, <3>3
  <2> HIDE DEF a, c, at, p
  <2>2. /\ a \o c \in Seq(Chars) /\ Len(a \o c) = Len(a) + Len(c)
        /\ \A k \in 1 .. Len(a) + Len(c) :
              (a \o c)[k] = IF k <= Len(a) THEN a[k] ELSE c[k - Len(a)]
    BY <2>1, ConcatProperties
  <2> QED
    BY <2>1, <2>2 DEF a
<1>14. ASSUME NEW i \in 1 .. n, NEW k \in 1 .. Len(Piece(q[i]))
       PROVE  p[at[i - 1] + k] = Piece(q[i])[k]
  <2>1. /\ at[i] = at[i - 1] + Len(Piece(q[i])) /\ at[i] <= at[n]
        /\ pattern[n][at[i - 1] + k] = Piece(q[i])[k]
    BY <1>11, <1>14
  <2>2. at[i - 1] \in Nat /\ at[n] \in Nat /\ Len(Piece(q[i])) \in Nat
    <3>1. i - 1 \in 0 .. n /\ Piece(q[i]) \in S
      BY <1>1
    <3> QED
      BY <1>12, <3>1
  <2> HIDE DEF at, p
  <2>3. at[i - 1] + k \in 1 .. at[n]
    BY <1>14, <2>1, <2>2
  <2> QED
    BY <1>13, <2>1, <2>3
<1> HIDE DEF at, p
<1>15. IsPattern(p, q, at)
  <2>1. \A i \in 1 .. n : at[i] = at[i - 1] + Len(Piece(q[i])) /\ at[i] <= at[n]
    BY <1>11
  <2> QED
    BY <1>9, <1>12, <1>13, <1>14, <2>1 DEF IsPattern
<1> QED
  BY <1>15 DEF p

\* A piece matches its character and no other.
LEMMA PieceMatches ==
  ASSUME NEW q \in Seq(Chars), NEW s \in Seq(Chars), NEW p, NEW at, IsPattern(p, q, at),
         NEW left, IsLeft(left, p, s),
         NEW i \in 1 .. Len(q), NEW j \in Nat \ {0}
  PROVE  j \in left[at[i - 1] + 1] <=> j <= Len(s) /\ s[j] = q[i] /\ j + 1 \in left[at[i] + 1]
<1> DEFINE c == q[i]
           b == at[i - 1] + 1
<1>1. /\ c \in Chars /\ Len(q) \in Nat /\ Len(s) \in Nat /\ i - 1 \in 0 .. Len(q)
      /\ i \in 0 .. Len(q) /\ Len(q) \in 0 .. Len(q)
  OBVIOUS
<1>2. /\ p \in Seq(Chars) /\ at[i - 1] \in Nat /\ at[i] \in Nat /\ at[Len(q)] \in Nat
      /\ Len(p) = at[Len(q)] + 1 /\ at[i] = at[i - 1] + Len(Piece(c)) /\ at[i] <= at[Len(q)]
      /\ \A k \in 1 .. Len(Piece(c)) : p[at[i - 1] + k] = Piece(c)[k]
  BY <1>1 DEF IsPattern
<1>5. /\ at[i - 1] \in Nat /\ at[i] \in Nat /\ at[Len(q)] \in Nat
      /\ Len(p) = at[Len(q)] + 1 /\ at[i] = at[i - 1] + Len(Piece(c)) /\ at[i] <= at[Len(q)]
  BY <1>2
<1>3. CASE c \in {"*", "?", "["}
  <2>1. /\ Len(Piece(c)) = 3 /\ Piece(c)[1] = "[" /\ Piece(c)[2] = c /\ Piece(c)[3] = "]"
    BY <1>1, <1>3, PieceType
  <2>2. /\ at[i] = b + 2 /\ b \in Nat /\ b >= 1 /\ b + 2 <= Len(p) /\ Len(p) \in Nat
        /\ at[i] + 1 = (b + 2) + 1
    BY ONLY <1>5, <2>1
  <2>3. p[b] = "[" /\ p[b + 1] = c /\ p[b + 2] = "]"
    <3>1. /\ p[at[i - 1] + 1] = "[" /\ p[at[i - 1] + 2] = c /\ p[at[i - 1] + 3] = "]"
      BY <1>2, <2>1
    <3>2. at[i - 1] + 2 = b + 1 /\ at[i - 1] + 3 = b + 2
      BY <1>2
    <3> QED
      BY <3>1, <3>2
  <2> HIDE DEF b, c
  <2>4. \A k : k \in Closes(p, b) <=> k = b + 2
    <3>1. ASSUME NEW k \in Closes(p, b) PROVE k = b + 2
      <4>1. k \in b + 2 .. Len(p) /\ \A l \in b + 2 .. k - 1 : p[l] # "]"
        BY DEF Closes
      <4>2. k # b + 2 => b + 2 \in b + 2 .. k - 1
        BY <2>2, <4>1
      <4> QED
        BY <2>3, <4>1, <4>2
    <3>2. b + 2 \in Closes(p, b)
      BY <2>2, <2>3 DEF Closes
    <3> QED
      BY <3>1, <3>2
  <2>5. \A x : (\E l \in b + 1 .. (b + 2) - 1 : p[l] = x) <=> x = c
    <3>1. \A l \in b + 1 .. (b + 2) - 1 : l = b + 1
      BY <2>2
    <3>2. b + 1 \in b + 1 .. (b + 2) - 1
      BY <2>2
    <3> QED
      BY <2>3, <3>1, <3>2
  <2>6. left[b] = {n \in 1 .. Len(s) : s[n] = c /\ n + 1 \in left[(b + 2) + 1]}
    <3>1. b \in 1 .. Len(p) + 1 /\ ~(b > Len(p))
      BY <2>2
    <3>2. left[b] = LeftAt(p, s, left, b)
      BY <3>1 DEF IsLeft
    <3>3. LeftAt(p, s, left, b) =
            {n \in 1 .. Len(s) : \E k \in Closes(p, b) :
                                   /\ \E l \in b + 1 .. k - 1 : p[l] = s[n]
                                   /\ n + 1 \in left[k + 1]}
      BY <2>3, <3>1 DEF LeftAt
    <3>4. ASSUME NEW n
          PROVE  (\E k \in Closes(p, b) : /\ \E l \in b + 1 .. k - 1 : p[l] = s[n]
                                          /\ n + 1 \in left[k + 1])
                   <=> s[n] = c /\ n + 1 \in left[(b + 2) + 1]
      BY <2>4, <2>5
    <3> QED
      BY <3>2, <3>3, <3>4
  <2>7. j \in 1 .. Len(s) <=> j <= Len(s)
    BY <1>1
  <2> QED
    BY <2>2, <2>6, <2>7 DEF b, c
<1>4. CASE c \notin {"*", "?", "["}
  <2>1. Len(Piece(c)) = 1 /\ Piece(c)[1] = c
    BY <1>1, <1>4, PieceType
  <2>2. at[i] = b /\ b \in Nat /\ b >= 1 /\ b <= Len(p) /\ Len(p) \in Nat
    BY ONLY <1>5, <2>1
  <2>3. p[b] = c
    BY <1>2, <2>1
  <2> HIDE DEF b, c
  <2>4. left[b] = {n \in 1 .. Len(s) : s[n] = c /\ n + 1 \in left[b + 1]}
    <3>1. b \in 1 .. Len(p) + 1 /\ ~(b > Len(p))
      BY <2>2
    <3>2. left[b] = LeftAt(p, s, left, b)
      BY <3>1 DEF IsLeft
    <3> QED
      BY <1>4, <2>3, <3>1, <3>2 DEF LeftAt
  <2>5. j \in 1 .. Len(s) <=> j <= Len(s)
    BY <1>1
  <2> QED
    BY <2>2, <2>4, <2>5 DEF b, c
<1> QED
  BY <1>3, <1>4

\* The pattern of a prefix matches what starts with it: no character of the prefix acts
\* as a wildcard, and the star takes the rest.
LEMMA GlobPrefix ==
  ASSUME NEW q \in Seq(Chars), NEW s \in Seq(Chars)
  PROVE  GlobMatches(GlobPattern(q), s) <=> Len(s) >= Len(q) /\ SubSeq(s, 1, Len(q)) = q
<1> DEFINE p == GlobPattern(q)
           n == Len(q)
<1>1. PICK at : IsPattern(p, q, at)
  BY PatternPieces
<1> HIDE DEF p
<1>2. /\ p \in Seq(Chars) /\ at \in [0 .. n -> Nat] /\ at[0] = 0
      /\ Len(p) = at[n] + 1 /\ p[at[n] + 1] = "*"
  BY <1>1 DEF IsPattern
<1>3. PICK left : IsLeft(left, p, s) /\ (GlobMatches(p, s) <=> 1 \in left[1])
  BY <1>2, GlobLeft
<1>4. n \in Nat /\ Len(s) \in Nat /\ Len(p) \in Nat /\ at[n] \in Nat
  <2>1. n \in Nat /\ Len(s) \in Nat /\ n \in 0 .. n
    OBVIOUS
  <2> QED
    BY <1>2, <2>1
<1> DEFINE Good(i) == i <= Len(s) =>
                        (i + 1 \in left[at[i] + 1] <=>
                           \A l \in i + 1 .. n : l <= Len(s) /\ s[l] = q[l])
           T == {m \in 0 .. n : Good(n - m)}
<1>5. Good(n)
  <2>1. /\ at[n] + 1 \in 1 .. Len(p) + 1 /\ ~(at[n] + 1 > Len(p))
        /\ (at[n] + 1) + 1 \in 1 .. Len(p) + 1 /\ (at[n] + 1) + 1 > Len(p)
    BY <1>2, <1>4
  <2>2. left[(at[n] + 1) + 1] = {Len(s) + 1}
    <3>1. left[(at[n] + 1) + 1] = LeftAt(p, s, left, (at[n] + 1) + 1)
      BY <1>3, <2>1 DEF IsLeft
    <3> QED
      BY <2>1, <3>1 DEF LeftAt
  <2>3. left[at[n] + 1] = {j \in 1 .. Len(s) + 1 : j <= Len(s) + 1}
    <3>1. left[at[n] + 1] = LeftAt(p, s, left, at[n] + 1)
      BY <1>3, <2>1 DEF IsLeft
    <3> QED
      BY <1>2, <2>1, <2>2, <3>1 DEF LeftAt
  <2> QED
    BY <1>4, <2>3
<1>6. ASSUME NEW i \in 1 .. n, Good(i) PROVE Good(i - 1)
  <2> SUFFICES ASSUME i - 1 <= Len(s)
               PROVE  (i - 1) + 1 \in left[at[i - 1] + 1] <=>
                        \A l \in (i - 1) + 1 .. n : l <= Len(s) /\ s[l] = q[l]
    OBVIOUS
  <2>1. (i - 1) + 1 = i /\ i \in Nat \ {0}
    BY <1>4
  <2>2. i \in left[at[i - 1] + 1] <=> i <= Len(s) /\ s[i] = q[i] /\ i + 1 \in left[at[i] + 1]
    <3>1. IsLeft(left, p, s) /\ i \in 1 .. Len(q)
      BY <1>3
    <3> QED
      BY ONLY <1>1, <2>1, <3>1, PieceMatches, q \in Seq(Chars), s \in Seq(Chars)
  <2>3. i .. n = {i} \cup (i + 1 .. n)
    BY <1>4
  <2> QED
    BY <1>6, <2>1, <2>2, <2>3
<1>7. Good(0)
  <2>1. 0 \in T
    <3>1. 0 \in 0 .. n /\ n - 0 = n
      BY <1>4
    <3> HIDE DEF Good
    <3> QED
      BY <1>5, <3>1
  <2>2. \A m \in 1 .. n : m - 1 \in T => m \in T
    <3> SUFFICES ASSUME NEW m \in 1 .. n, m - 1 \in T PROVE m \in T
      OBVIOUS
    <3>1. n - (m - 1) \in 1 .. n /\ (n - (m - 1)) - 1 = n - m /\ m \in 0 .. n
      BY <1>4
    <3> HIDE DEF Good
    <3> QED
      BY <1>6, <3>1
  <2>3. n \in T
    <3>1. n \in 0 .. n
      BY <1>4
    <3>2. n \in Nat
      BY <1>4
    <3> HIDE DEF T, n
    <3>3. \A m \in 0 .. n : m \in T
      BY ONLY <2>1, <2>2, <3>2, UpTo
    <3> QED
      BY <3>1, <3>3
  <2>4. n - n = 0
    BY <1>4
  <2> HIDE DEF Good
  <2> QED
    BY <2>3, <2>4
<1>8. GlobMatches(p, s) <=> \A l \in 1 .. n : l <= Len(s) /\ s[l] = q[l]
  <2>1. 0 <= Len(s) /\ 0 + 1 = 1 /\ at[0] + 1 = 1
    BY <1>2, <1>4
  <2>2. 1 \in left[1] <=> \A l \in 1 .. n : l <= Len(s) /\ s[l] = q[l]
    BY <1>7, <2>1
  <2> QED
    BY <1>3, <2>2
<1>9. (\A l \in 1 .. n : l <= Len(s) /\ s[l] = q[l])
        <=> Len(s) >= n /\ SubSeq(s, 1, n) = q
  <2>1. (\A l \in 1 .. n : l <= Len(s)) <=> n <= Len(s)
    BY <1>4
  <2>2. ASSUME n <= Len(s)
        PROVE  /\ SubSeq(s, 1, n) \in Seq(Chars) /\ Len(SubSeq(s, 1, n)) = n
               /\ \A l \in 1 .. n : SubSeq(s, 1, n)[l] = s[l]
    BY <1>4, <2>2
  <2>3. ASSUME n <= Len(s), \A l \in 1 .. n : s[l] = q[l] PROVE SubSeq(s, 1, n) = q
    BY <2>2, <2>3, SeqEqual
  <2> QED
    BY <1>4, <2>1, <2>2, <2>3
<1> QED
  BY <1>8, <1>9 DEF p

-----------------------------------------------------------------------------
(* Lists by prefix *)

\* The other readers ask for a prefix.
AskIsPrefix ==
    \A r \in Readers \ {Pager} :
        reader[r].pc \in {"lock", "recv", "query"} =>
           \E p \in Prefixes : reader[r].ask.filter = [by |-> "prefix", prefix |-> p]

\* What a reader asks for stays until it has its result.
LEMMA AskStep == ReadsTypeOK /\ AskIsPrefix /\ [Next]_vars => AskIsPrefix'
<1> SUFFICES ASSUME ReadsTypeOK, AskIsPrefix, [Next]_vars,
                    NEW q \in Readers \ {Pager}, reader'[q].pc \in {"lock", "recv", "query"}
             PROVE  \E p \in Prefixes : reader'[q].ask.filter = [by |-> "prefix", prefix |-> p]
  BY DEF AskIsPrefix
<1>1. CASE reader'[q] = reader[q]
  BY <1>1 DEF AskIsPrefix
<1>2. CASE Start(q)
  <2>1. PICK p \in Prefixes, s \in Sorts, n \in Limits :
           reader' = [reader EXCEPT ![q].pc = "lock",
                        ![q].ask = [filter |-> [by |-> "prefix", prefix |-> p],
                                    sort |-> s, limit |-> n]]
    BY <1>2 DEF Start
  <2>2. reader'[q].ask = [filter |-> [by |-> "prefix", prefix |-> p], sort |-> s, limit |-> n]
    BY <2>1 DEF ReadsTypeOK, ReaderState
  <2> QED
    BY <2>2
<1>3. CASE Lock(q) \/ Recv(q)
  <2>1. reader[q].pc \in {"lock", "recv"} /\ reader'[q].ask = reader[q].ask
    BY <1>3 DEF Lock, Recv, ReadsTypeOK, ReaderState
  <2> QED
    BY <2>1 DEF AskIsPrefix
<1>4. CASE Query(q) \/ QueryErr(q) \/ Return(q)
  <2>0. reader \in [Readers -> ReaderState] /\ reader[q] \in ReaderState
    BY DEF ReadsTypeOK
  <2>1. CASE Query(q)
    <3>1. PICK P : reader' = [reader EXCEPT ![q].pc = "ok", ![q].got = P]
      BY <2>1 DEF Query
    <3>2. reader'[q].pc = "ok"
      BY <2>0, <3>1 DEF ReaderState
    <3> QED
      BY <3>2
  <2>2. CASE QueryErr(q)
    <3>1. reader'[q].pc = "err"
      BY <2>0, <2>2 DEF QueryErr, ReaderState
    <3> QED
      BY <3>1
  <2>3. CASE Return(q)
    <3>1. PICK n \in {"failed", "idle", "done"} :
             reader' = [reader EXCEPT ![q].pc = n, ![q].conn = NoConn, ![q].ask = NoAsk,
                                      ![q].got = {}]
      BY <2>3 DEF Return
    <3>2. reader'[q].pc = n
      BY <2>0, <3>1 DEF ReaderState
    <3> QED
      BY <3>2
  <2> QED
    BY <1>4, <2>1, <2>2, <2>3
<1>5. ASSUME NEW r \in Readers, r # q, Read(r) PROVE reader'[q] = reader[q]
  BY <1>5 DEF Read, Start, Lock, Recv, Query, QueryErr, Return, ReadsTypeOK
<1> QED
  BY <1>1, <1>2, <1>3, <1>4, <1>5 DEF Next, Read, Upsert, Prune, vars

\* A list by prefix returns what starts with the prefix, whatever wildcards that holds:
\* the pattern of glob_prefix_pattern matches the keys that start with it and no other.
THEOREM PrefixLists == Spec => ListsByPrefix
<1>1. Init => AskIsPrefix
  BY DEF Init, AskIsPrefix
<1>2. ASSUME ReadsTypeOK, AskIsPrefix, [Next]_vars, NEW r \in Readers \ {Pager},
             reader[r].pc = "query", reader'[r].pc = "ok"
      PROVE  LET p == reader[r].ask.filter.prefix
                 starts == {a \in rows : Len(a.key) >= Len(p) /\ SubSeq(a.key, 1, Len(p)) = p}
             IN  /\ reader'[r].got \subseteq starts
                 /\ Cardinality(reader'[r].got) < reader[r].ask.limit => reader'[r].got = starts
  <2> DEFINE ask == reader[r].ask
             p == ask.filter.prefix
             starts == {a \in rows : Len(a.key) >= Len(p) /\ SubSeq(a.key, 1, Len(p)) = p}
             M == {a \in rows : Matches(ask.filter, a)}
  <2>1. ask.filter = [by |-> "prefix", prefix |-> p] /\ p \in Prefixes
    <3>1. PICK x \in Prefixes : ask.filter = [by |-> "prefix", prefix |-> x]
      BY <1>2 DEF AskIsPrefix
    <3>2. p = x
      BY <3>1
    <3> QED
      BY <3>1, <3>2
  <2>2. Query(r)
    <3>1. ~(UNCHANGED reader)
      BY <1>2
    <3>2. PICK q \in Readers : Read(q)
      BY <1>2, <3>1 DEF Next, Upsert, Prune, vars
    <3>3. q = r
      BY <1>2, <3>2
         DEF Read, Start, Lock, Recv, Query, QueryErr, Return, ReadsTypeOK
    <3>4. ~(Start(r) \/ Lock(r) \/ Recv(r) \/ Return(r))
      BY <1>2 DEF Start, Lock, Recv, Return
    <3>5. ~QueryErr(r)
      BY <1>2 DEF QueryErr, ReadsTypeOK, ReaderState
    <3> QED
      BY <3>2, <3>3, <3>4, <3>5 DEF Read
  <2>3. PICK P \in SUBSET M : /\ IsPage(P, M, ask.sort, ask.limit)
                              /\ reader' = [reader EXCEPT ![r].pc = "ok", ![r].got = P]
    BY <2>2 DEF Query
  <2>4. reader'[r].got = P
    BY <1>2, <2>3 DEF ReadsTypeOK, ReaderState
  <2>5. M = starts
    <3>1. ASSUME NEW a \in rows
          PROVE  Matches(ask.filter, a) <=> Len(a.key) >= Len(p) /\ SubSeq(a.key, 1, Len(p)) = p
      <4> HIDE DEF p
      <4>1. a.key \in Seq(Chars) /\ p \in Seq(Chars)
        BY <1>2, <2>1, CharsOK DEF ReadsTypeOK, Row
      <4>2. Matches(ask.filter, a) <=> GlobMatches(GlobPattern(p), a.key)
        BY <2>1 DEF Matches
      <4> QED
        BY <4>1, <4>2, GlobPrefix
    <3> QED
      BY <3>1
  <2>6. Cardinality(P) = ask.limit \/ P = M
    BY <2>3 DEF IsPage
  <2>7. ask.limit \in Nat
    BY <1>2 DEF ReadsTypeOK, ReaderState, Asks
  <2>8. P \subseteq starts /\ (Cardinality(P) < ask.limit => P = starts)
    <3> HIDE DEF M, starts
    <3> QED
      BY <2>3, <2>5, <2>6, <2>7
  <2> QED
    BY <2>4, <2>8
<1>3. ReadsTypeOK /\ AskIsPrefix /\ [Next]_vars =>
        [\A r \in Readers \ {Pager} :
          reader[r].pc = "query" /\ reader'[r].pc = "ok" =>
             LET p == reader[r].ask.filter.prefix
                 starts == {a \in rows : Len(a.key) >= Len(p) /\ SubSeq(a.key, 1, Len(p)) = p}
             IN  /\ reader'[r].got \subseteq starts
                 /\ Cardinality(reader'[r].got) < reader[r].ask.limit => reader'[r].got = starts
        ]_vars
  BY <1>2
<1> QED
  BY <1>1, <1>3, AskStep, ReadsTyping, PTL DEF Spec, ListsByPrefix
=============================================================================
