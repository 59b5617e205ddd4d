---------------------------- MODULE CfgStoreProofs ----------------------------
(* Theorems about CfgStore, for every value of its constants. *)
EXTENDS CfgStore, TLAPS

\* Adding 1 to an i64 gives an i64, larger unless it was the largest.
LEMMA SuccessorType ==
  ASSUME NEW t \in Micros
  PROVE  Successor(t) \in Micros /\ (t # MaxMicros => Successor(t) = t + 1)
BY CfgConstants DEF Successor, Micros

\* The clock's readings are timestamps.
LEMMA ClockType == 0 .. MaxClock \subseteq Micros /\ 0 \in Micros
BY CfgConstants DEF Micros

\* A call that ends has the type of a call.
LEMMA OverType ==
  ASSUME NEW c \in CallState, NEW pc \in {"applied", "superseded", "err", "lost"}
  PROVE  /\ Over(c, pc) \in CallState
         /\ Over(c, pc).pc = pc /\ Over(c, pc).mod = c.mod
         /\ Over(c, pc).tries = c.tries /\ Over(c, pc).after = {}
<1>1. 0 \in 0 .. MaxClock
  BY CfgConstants
<1> QED
  BY <1>1, ClockType DEF Over, CallState

\* A call that moves on leaves the calls in their type.
LEMMA CallUpdate ==
  ASSUME CfgTypeOK, NEW w \in Writes, NEW c \in CallState,
         c.pc \in Running => c.tries < MaxTries,
         call' = [call EXCEPT ![w] = c]
  PROVE  /\ call' \in [Writes -> CallState]
         /\ \A v \in Writes : call'[v].pc \in Running => call'[v].tries < MaxTries
BY DEF CfgTypeOK

\* Every step keeps every variable in its type.
LEMMA TypeStep == CfgTypeOK /\ [Next]_vars => CfgTypeOK'
<1> SUFFICES ASSUME CfgTypeOK, [Next]_vars PROVE CfgTypeOK'
  OBVIOUS
<1> USE CfgConstants, ClockType DEF CfgTypeOK, process, history
<1>1. ASSUME NEW w \in Writes, NEW m \in Explicit \cup {NoStamp}, NEW x \in BOOLEAN,
             Start(w, m, x)
      PROVE  CfgTypeOK'
  <2> DEFINE c == [pc |-> IF m = NoStamp THEN "clock" ELSE "max",
                   mod |-> IF m = NoStamp THEN 0 ELSE m, stamped |-> (m # NoStamp),
                   expires |-> x, now |-> 0, prev |-> 0, tries |-> 0, after |-> acked]
  <2>1. 0 \in 0 .. MaxClock /\ 0 \in 0 .. MaxTries /\ 0 < MaxTries
    OBVIOUS
  <2>2. c \in CallState /\ c.tries < MaxTries
    BY <2>1 DEF CallState, Running
  <2>3. call' = [call EXCEPT ![w] = c]
    BY <1>1 DEF Start
  <2> HIDE DEF c
  <2> QED
    BY <1>1, <2>2, <2>3, CallUpdate DEF Start
<1>2. ASSUME NEW w \in Writes, Reject(w) PROVE CfgTypeOK'
  <2>1. mode' \in {"serve", "init", "over"}
    BY <1>2 DEF Reject, EndInit
  <2> QED
    BY <1>2, <2>1 DEF Reject, CallState, Running
<1>3. ASSUME NEW w \in Writes, FetchMax(w) PROVE CfgTypeOK'
  BY <1>3 DEF FetchMax, CallState, Running
<1>4. ASSUME NEW w \in Writes, ReadClock(w) PROVE CfgTypeOK'
  <2> DEFINE c == [call[w] EXCEPT !.pc = "load", !.now = clock]
  <2>1. call[w] \in CallState /\ call[w].tries < MaxTries
    BY <1>4 DEF ReadClock, Running
  <2>2. c \in CallState /\ c.tries = call[w].tries
    BY <2>1 DEF CallState, Running
  <2>3. call' = [call EXCEPT ![w] = c]
    BY <1>4 DEF ReadClock
  <2> HIDE DEF c
  <2> QED
    BY <1>4, <2>1, <2>2, <2>3, CallUpdate DEF ReadClock
<1>5. ASSUME NEW w \in Writes, LoadCounter(w) PROVE CfgTypeOK'
  <2> DEFINE c == [call[w] EXCEPT !.pc = "cas", !.prev = counter]
  <2>1. call[w] \in CallState /\ call[w].tries < MaxTries
    BY <1>5 DEF LoadCounter, Running
  <2>2. c \in CallState /\ c.tries = call[w].tries
    BY <2>1 DEF CallState, Running
  <2>3. call' = [call EXCEPT ![w] = c]
    BY <1>5 DEF LoadCounter
  <2> HIDE DEF c
  <2> QED
    BY <1>5, <2>1, <2>2, <2>3, CallUpdate DEF LoadCounter
<1>6. ASSUME NEW w \in Writes, CompareExchange(w) PROVE CfgTypeOK'
  BY SMTT(30), <1>6, SuccessorType DEF CompareExchange, CallState, Running
<1>7. ASSUME NEW w \in Writes, UpsertOk(w) PROVE CfgTypeOK'
  <2>1. call[w] \in CallState
    OBVIOUS
  <2> QED
    BY <1>7, <2>1, OverType DEF UpsertOk, Running
<1>8. ASSUME NEW w \in Writes, UpsertErr(w) PROVE CfgTypeOK'
  <2> DEFINE c == [call[w] EXCEPT !.tries = @ + 1]
  <2>1. c \in CallState /\ c.tries = call[w].tries + 1 /\ c.tries <= MaxTries
    <3>1. call[w] \in CallState /\ call[w].tries < MaxTries
      BY <1>8 DEF UpsertErr, Running
    <3> QED
      BY <3>1 DEF CallState
  <2>4. mode' \in {"serve", "init", "over"}
    BY <1>8 DEF UpsertErr, EndInit
  <2>2. CASE c.stamped \/ c.tries = MaxTries
    <3>1. call' = [call EXCEPT ![w] = Over(c, "err")]
      BY <1>8, <2>2 DEF UpsertErr
    <3> HIDE DEF c
    <3> QED
      BY ZenonT(60), <1>8, <2>1, <2>4, <3>1, OverType DEF UpsertErr, Running
  <2>3. CASE ~(c.stamped \/ c.tries = MaxTries)
    <3>1. call' = [call EXCEPT ![w] = [c EXCEPT !.pc = "clock"]]
      BY <1>8, <2>3 DEF UpsertErr
    <3> HIDE DEF c
    <3>2. /\ [c EXCEPT !.pc = "clock"] \in CallState
          /\ [c EXCEPT !.pc = "clock"].tries = c.tries
      BY <2>1 DEF CallState, Running
    <3>3. c.tries \in 0 .. MaxTries
      BY <2>1 DEF CallState
    <3>4. c.tries < MaxTries
      BY <2>3, <3>3
    <3>5. call' \in [Writes -> CallState]
      BY <3>1, <3>2
    <3>6. \A v \in Writes : call'[v].pc \in Running => call'[v].tries < MaxTries
      BY <3>1, <3>2, <3>4
    <3> QED
      BY <1>8, <2>4, <3>5, <3>6 DEF UpsertErr
  <2> QED
    BY <2>2, <2>3
<1>9. ASSUME NEW w \in Writes, Drop(w) PROVE CfgTypeOK'
  BY <1>9, OverType DEF Drop, Running
<1>10. ASSUME NEW k \in Keys, Prune(k) PROVE CfgTypeOK'
  BY <1>10 DEF Prune
<1>11. ASSUME Tick PROVE CfgTypeOK'
  BY <1>11 DEF Tick
<1>12. ASSUME Restart PROVE CfgTypeOK'
  <2>1. \A w \in Writes : call'[w] \in CallState /\ call'[w].pc \notin Running
    BY <1>12, OverType DEF Restart, Running
  <2> QED
    BY <1>12, <2>1 DEF Restart
<1>13. CASE UNCHANGED vars
  BY <1>13 DEF vars
<1> QED
  BY <1>1, <1>2, <1>3, <1>4, <1>5, <1>6, <1>7, <1>8, <1>9, <1>10, <1>11, <1>12,
     <1>13 DEF Next, Step

\* The types hold in every reachable state.
THEOREM CfgTyping == Spec => []CfgTypeOK
<1>1. Init => CfgTypeOK
  BY CfgConstants, ClockType DEF Init, CfgTypeOK, CallState, NewCall, Running
<1> QED
  BY <1>1, TypeStep, PTL DEF Spec

-----------------------------------------------------------------------------
(* Which write a row holds *)

\* A row is made by a write that was applied, and so keeps its timestamp.
RowsApplied ==
    \A k \in Keys : table[k] # NoWrite => call[table[k]].pc = "applied"

\* What a step does to the calls, for those that made a row: nothing.
LEMMA AppliedStays ==
  ASSUME CfgTypeOK, [Next]_vars, NEW v \in Writes,
         call[v].pc \in {"applied", "superseded"}
  PROVE  call'[v] = call[v]
<1> USE DEF CfgTypeOK, process, history, Running
<1>1. ASSUME NEW w \in Writes, NEW m \in Explicit \cup {NoStamp}, NEW x \in BOOLEAN,
             Start(w, m, x)
      PROVE  call'[v] = call[v]
  BY <1>1 DEF Start
<1>2. ASSUME NEW w \in Writes, Step(w) \/ Reject(w) \/ Drop(w) PROVE call'[v] = call[v]
  <2>1. v # w
    BY <1>2 DEF Step, Reject, Drop, FetchMax, ReadClock, LoadCounter, CompareExchange,
       UpsertOk, UpsertErr
  <2> QED
    BY <1>2, <2>1 DEF Step, Reject, Drop, FetchMax, ReadClock, LoadCounter,
       CompareExchange, UpsertOk, UpsertErr
<1>3. CASE Restart
  BY <1>3 DEF Restart
<1>4. CASE Tick \/ (\E k \in Keys : Prune(k)) \/ UNCHANGED vars
  BY <1>4 DEF Tick, Prune, vars
<1> QED
  BY <1>1, <1>2, <1>3, <1>4 DEF Next

\* What a step does to the table: a statement puts a newer write that nothing
\* collides with in a row, or a row is pruned.
LEMMA TableStep ==
  ASSUME CfgTypeOK, [Next]_vars
  PROVE  \/ UNCHANGED table
         \/ \E w \in Writes : /\ UpsertOk(w) /\ ~Superseded(w) /\ ~Collides(w)
                               /\ call'[w] = Over(call[w], "applied")
                               /\ table' = [table EXCEPT ![KeyOf[w]] = w]
         \/ \E k \in Keys : Prune(k)
BY ZenonT(60) DEF CfgTypeOK, Next, Step, vars, process, history, Start, Reject, FetchMax, ReadClock,
   LoadCounter, CompareExchange, UpsertOk, UpsertErr, Drop, Tick, Restart

\* RowsApplied is inductive: only a statement that succeeds puts a row there.
LEMMA RowsAppliedStep == CfgTypeOK /\ RowsApplied /\ [Next]_vars => RowsApplied'
<1> SUFFICES ASSUME CfgTypeOK, RowsApplied, [Next]_vars,
                    NEW k \in Keys, table'[k] # NoWrite
             PROVE  call'[table'[k]].pc = "applied"
  BY DEF RowsApplied
<1> USE CfgConstants DEF CfgTypeOK
<1>1. CASE table'[k] = table[k]
  BY <1>1, AppliedStays DEF RowsApplied
<1>2. ASSUME NEW w \in Writes, call'[w] = Over(call[w], "applied"),
             table' = [table EXCEPT ![KeyOf[w]] = w]
      PROVE  call'[table'[k]].pc = "applied"
  <2>1. CASE k = KeyOf[w]
    BY <1>2, <2>1 DEF Over
  <2>2. CASE k # KeyOf[w]
    BY <1>1, <1>2, <2>2
  <2> QED
    BY <2>1, <2>2
<1>3. ASSUME NEW j \in Keys, Prune(j) PROVE call'[table'[k]].pc = "applied"
  BY <1>1, <1>3 DEF Prune
<1> QED
  BY <1>1, <1>2, <1>3, TableStep

\* A row is there because upsert_value's statement was applied.
LEMMA RowsAppliedInvariant == Spec => []RowsApplied
<1>1. Init => RowsApplied
  BY DEF Init, RowsApplied
<1> QED
  BY <1>1, RowsAppliedStep, CfgTyping, PTL DEF Spec

\* The row of a key is only replaced by a newer one, unless it is pruned.
LEMMA RowNewer ==
  ASSUME CfgTypeOK, RowsApplied, [Next]_vars, NEW k \in Keys,
         table[k] # NoWrite, k \notin forgot'
  PROVE  table'[k] # NoWrite /\ call'[table'[k]].mod >= call[table[k]].mod
<1> USE CfgConstants DEF CfgTypeOK
<1>0. call[table[k]] \in CallState /\ call[table[k]].mod \in Int
  BY DEF CallState, Micros
<1>1. CASE table'[k] = table[k]
  BY <1>0, <1>1, AppliedStays DEF RowsApplied
<1>2. ASSUME NEW w \in Writes, ~Superseded(w), call'[w] = Over(call[w], "applied"),
             table' = [table EXCEPT ![KeyOf[w]] = w]
      PROVE  table'[k] # NoWrite /\ call'[table'[k]].mod >= call[table[k]].mod
  <2>1. CASE k = KeyOf[w]
    <3>1. ~(call[table[k]].mod >= call[w].mod)
      BY <1>2, <2>1 DEF Superseded
    <3>2. call[w].mod \in Int
      BY DEF CallState, Micros
    <3>3. table'[k] = w /\ call'[w].mod = call[w].mod
      BY <1>2, <2>1 DEF Over
    <3> QED
      BY <1>0, <3>1, <3>2, <3>3
  <2>2. CASE k # KeyOf[w]
    BY <1>1, <1>2, <2>2
  <2> QED
    BY <2>1, <2>2
<1>3. ASSUME NEW j \in Keys, Prune(j)
      PROVE  table'[k] # NoWrite /\ call'[table'[k]].mod >= call[table[k]].mod
  BY <1>1, <1>3 DEF Prune
<1> QED
  BY <1>1, <1>2, <1>3, TableStep

\* A write that has an answer had it before, or has it from this statement.
LEMMA AnswerStep ==
  ASSUME CfgTypeOK, [Next]_vars, NEW w \in Writes,
         call'[w].pc \in {"applied", "superseded"}
  PROVE  \/ call'[w] = call[w]
         \/ UpsertOk(w)
<1> USE DEF CfgTypeOK, process, history, Running
<1>1. ASSUME NEW v \in Writes, NEW m \in Explicit \cup {NoStamp}, NEW x \in BOOLEAN,
             Start(v, m, x)
      PROVE  call'[w] = call[w]
  <2>1. call'[v].pc \in {"clock", "max"}
    BY <1>1 DEF Start
  <2> QED
    BY <1>1, <2>1 DEF Start
<1>2. ASSUME NEW v \in Writes, UpsertErr(v) PROVE call'[w] = call[w]
  <2>1. call'[v].pc \in {"err", "clock"}
    <3> DEFINE c == [call[v] EXCEPT !.tries = @ + 1]
    <3>1. CASE c.stamped \/ c.tries = MaxTries
      <4>1. call' = [call EXCEPT ![v] = Over(c, "err")]
        BY <1>2, <3>1 DEF UpsertErr
      <4> QED
        BY <4>1 DEF Over
    <3>2. CASE ~(c.stamped \/ c.tries = MaxTries)
      <4>1. call' = [call EXCEPT ![v] = [c EXCEPT !.pc = "clock"]]
        BY <1>2, <3>2 DEF UpsertErr
      <4>2. call[v] \in CallState
        OBVIOUS
      <4> QED
        BY <4>1, <4>2 DEF CallState
    <3> QED
      BY <3>1, <3>2
  <2> QED
    BY <1>2, <2>1 DEF UpsertErr
<1>3. ASSUME NEW v \in Writes,
             Reject(v) \/ FetchMax(v) \/ ReadClock(v) \/ LoadCounter(v)
               \/ CompareExchange(v) \/ Drop(v)
      PROVE  call'[w] = call[w]
  <2>1. call'[v].pc \notin {"applied", "superseded"}
    BY <1>3 DEF Reject, FetchMax, ReadClock, LoadCounter, CompareExchange, Drop, Over,
       CallState
  <2> QED
    BY <1>3, <2>1 DEF Reject, FetchMax, ReadClock, LoadCounter, CompareExchange, Drop
<1>4. CASE Restart
  BY <1>4 DEF Restart, Over
<1>5. CASE Tick \/ (\E k \in Keys : Prune(k)) \/ UNCHANGED vars
  BY <1>5 DEF Tick, Prune, vars
<1>6. ASSUME NEW v \in Writes, UpsertOk(v), v # w PROVE call'[w] = call[w]
  BY <1>6 DEF UpsertOk
<1> QED
  BY <1>1, <1>2, <1>3, <1>4, <1>5, <1>6 DEF Next, Step

\* NewestWins is inductive, given that rows were applied.
LEMMA NewestWinsStep ==
  CfgTypeOK /\ RowsApplied /\ NewestWins /\ [Next]_vars => NewestWins'
<1> SUFFICES ASSUME CfgTypeOK, RowsApplied, NewestWins, [Next]_vars,
                    NEW w \in Writes, call'[w].pc \in {"applied", "superseded"},
                    KeyOf[w] \notin forgot'
             PROVE  /\ table'[KeyOf[w]] # NoWrite
                    /\ call'[table'[KeyOf[w]]].mod >= call'[w].mod
  BY DEF NewestWins
<1> DEFINE k == KeyOf[w]
<1>1. CfgTypeOK'
  BY TypeStep
<1>2. k \in Keys /\ k \notin forgot
  BY ZenonT(60), CfgConstants DEF CfgTypeOK, Next, Step, vars, process, history, Start, Reject,
     FetchMax, ReadClock, LoadCounter, CompareExchange, UpsertOk, UpsertErr, Drop,
     Prune, Tick, Restart
<1>3. \A v \in Writes : call[v].mod \in Int /\ call'[v].mod \in Int
  BY <1>1 DEF CfgTypeOK, CallState, Micros
<1>4. table[k] # NoWrite
        => table'[k] # NoWrite /\ call'[table'[k]].mod >= call[table[k]].mod
  BY <1>2, RowNewer
<1>5. CASE call'[w] = call[w]
  <2>1. table[k] # NoWrite /\ call[table[k]].mod >= call[w].mod
    BY <1>2, <1>5 DEF NewestWins
  <2> QED
    BY <1>1, <1>2, <1>3, <1>4, <1>5, <2>1 DEF CfgTypeOK
<1>6. CASE UpsertOk(w) /\ Superseded(w)
  <2>1. table[k] # NoWrite /\ call[table[k]].mod >= call[w].mod
    BY <1>6 DEF Superseded
  <2>2. call'[w].mod = call[w].mod
    BY <1>6 DEF UpsertOk, Over, CfgTypeOK
  <2> QED
    BY <1>1, <1>2, <1>3, <1>4, <2>1, <2>2 DEF CfgTypeOK
<1>7. CASE UpsertOk(w) /\ ~Superseded(w)
  <2>1. table'[k] = w
    BY <1>2, <1>7 DEF UpsertOk, CfgTypeOK
  <2> QED
    BY <1>3, <2>1, CfgConstants
<1> QED
  BY <1>5, <1>6, <1>7, AnswerStep

\* Concurrent writers converge on the newest version: for any number of writes,
\* keys and timestamps, through restarts, failures and overflow of the counter.
THEOREM NewestWriteWins == Spec => []NewestWins
<1>1. Init => NewestWins
  BY DEF Init, NewestWins, NewCall
<1> QED
  BY <1>1, NewestWinsStep, CfgTyping, RowsAppliedInvariant, PTL DEF Spec

\* No two rows share a timestamp.
THEOREM StampsUniqueInTable == Spec => []RowsUnique
<1>1. Init => RowsUnique
  BY DEF Init, RowsUnique
<1>2. CfgTypeOK /\ RowsApplied /\ RowsUnique /\ [Next]_vars => RowsUnique'
  <2> SUFFICES ASSUME CfgTypeOK, RowsApplied, RowsUnique, [Next]_vars PROVE RowsUnique'
    OBVIOUS
  <2> USE CfgConstants DEF CfgTypeOK
  <2>1. \A k \in Keys : table[k] # NoWrite => call'[table[k]] = call[table[k]]
    BY AppliedStays DEF RowsApplied
  <2>2. CASE UNCHANGED table
    BY <2>1, <2>2 DEF RowsUnique
  <2>3. ASSUME NEW w \in Writes, ~Collides(w), call'[w] = Over(call[w], "applied"),
               table' = [table EXCEPT ![KeyOf[w]] = w]
        PROVE  RowsUnique'
    <3>1. call'[w].mod = call[w].mod
      BY <2>3 DEF Over
    <3>2. \A k \in Keys \ {KeyOf[w]} :
             table'[k] = table[k] /\ (table[k] # NoWrite => call[table[k]].mod # call[w].mod)
      BY <2>3 DEF Collides
    <3>3. table'[KeyOf[w]] = w
      BY <2>3
    <3> QED
      BY <2>1, <3>1, <3>2, <3>3 DEF RowsUnique
  <2>4. ASSUME NEW k \in Keys, Prune(k) PROVE RowsUnique'
    BY <2>1, <2>4 DEF Prune, RowsUnique
  <2> QED
    BY <2>2, <2>3, <2>4, TableStep
<1> QED
  BY <1>1, <1>2, CfgTyping, RowsAppliedInvariant, PTL DEF Spec

-----------------------------------------------------------------------------
(* The order of timestamps *)

\* The counter is the largest timestamp of this process, until it wraps.
CounterLeads ==
    /\ counter = 0 \/ counter \in issued
    /\ MaxMicros \in issued \/ \A s \in issued : s <= counter

\* What the calls hold has been issued, and what they come after was answered.
CallsIssued ==
    /\ \A w \in Writes : call[w].pc = "upsert" => call[w].mod \in issued
    /\ \A w \in acked : call[w].pc \in {"applied", "superseded"} /\ call[w].mod \in issued
    /\ \A w \in Writes : call[w].pc \in Running => call[w].after \subseteq acked
    /\ \A w \in Writes : call[w].pc = "max" => call[w].stamped

\* A timestamp of the server is past those of the writes its write comes after.
LaterIsGreater ==
    MaxMicros \in issued \/
       \A w \in Writes : call[w].pc = "upsert" /\ ~call[w].stamped =>
          \A v \in call[w].after : call[v].mod < call[w].mod

\* The compare-exchange that succeeds moves the counter past all that is issued.
LEMMA ExchangePasses ==
  ASSUME CfgTypeOK, CounterLeads, NEW w \in Writes, CompareExchange(w),
         counter = call[w].prev, MaxMicros \notin issued
  PROVE  \A s \in issued : counter' > s
<1> USE CfgConstants
<1>1. counter \in Micros /\ counter # MaxMicros /\ call[w].now \in Int
  BY ClockType DEF CfgTypeOK, CallState, CounterLeads, Micros
<1>2. Successor(counter) = counter + 1
  BY <1>1, SuccessorType
<1>3. counter' > counter
  BY <1>1, <1>2 DEF CompareExchange, Micros
<1>4. counter \in Int /\ counter' \in Int /\ issued \subseteq Int
  BY <1>1, TypeStep DEF CfgTypeOK, Next, Step, Micros
<1> QED
  BY <1>3, <1>4 DEF CounterLeads

\* A call takes its steps alone.
LEMMA OthersStay ==
  ASSUME call \in [Writes -> CallState], NEW v \in Writes, NEW w \in Writes, v # w,
         Step(v) \/ Reject(v) \/ Drop(v)
  PROVE  call'[w] = call[w]
<1>1. CASE Reject(v) \/ Drop(v) \/ FetchMax(v) \/ ReadClock(v) \/ LoadCounter(v)
  BY <1>1 DEF Reject, Drop, FetchMax, ReadClock, LoadCounter
<1>2. CASE CompareExchange(v) \/ UpsertOk(v) \/ UpsertErr(v)
  BY <1>2 DEF CompareExchange, UpsertOk, UpsertErr
<1> QED
  BY <1>1, <1>2 DEF Step

\* CounterLeads is inductive.
LEMMA CounterLeadsStep == CfgTypeOK /\ CounterLeads /\ [Next]_vars => CounterLeads'
<1> SUFFICES ASSUME CfgTypeOK, CounterLeads, [Next]_vars PROVE CounterLeads'
  OBVIOUS
<1>1. counter \in Int /\ issued \subseteq Int
  BY DEF CfgTypeOK, Micros
<1>2. CASE UNCHANGED <<counter, issued>>
  BY <1>2 DEF CounterLeads
<1>3. ASSUME NEW w \in Writes, FetchMax(w) PROVE CounterLeads'
  <2>1. call[w].mod \in Int
    BY DEF CfgTypeOK, CallState, Micros
  <2> QED
    BY <1>1, <1>3, <2>1 DEF FetchMax, CounterLeads
<1>4. ASSUME NEW w \in Writes, CompareExchange(w), counter = call[w].prev
      PROVE  CounterLeads'
  <2>1. issued' = issued \cup {counter'}
    BY <1>4 DEF CompareExchange
  <2>2. CASE MaxMicros \in issued
    BY <2>1, <2>2 DEF CounterLeads
  <2>3. CASE MaxMicros \notin issued
    <3>1. \A s \in issued : counter' > s
      BY <1>4, <2>3, ExchangePasses
    <3>2. counter' \in Int
      BY TypeStep DEF CfgTypeOK, Micros
    <3> QED
      BY <1>1, <2>1, <3>1, <3>2 DEF CounterLeads
  <2> QED
    BY <2>2, <2>3
<1>5. CASE Restart
  BY <1>5 DEF Restart, CounterLeads
<1>6. \/ UNCHANGED <<counter, issued>> \/ Restart
      \/ \E w \in Writes :
            FetchMax(w) \/ (CompareExchange(w) /\ counter = call[w].prev)
  BY ZenonT(60) DEF Next, Step, vars, process, history, Start, Reject, ReadClock, LoadCounter,
     CompareExchange, UpsertOk, UpsertErr, Drop, Prune, Tick
<1> QED
  BY <1>2, <1>3, <1>4, <1>5, <1>6

\* Until i64::MAX the counter is at least every timestamp issued by the process.
LEMMA CounterLeadsInvariant == Spec => []CounterLeads
<1>1. Init => CounterLeads
  BY DEF Init, CounterLeads
<1> QED
  BY <1>1, CounterLeadsStep, CfgTyping, PTL DEF Spec

\* The timestamps next_micros hands out increase, also past those adopted from
\* peers, however the calls interleave, until i64::MAX.
THEOREM StampsAreIncreasing == Spec => StampsIncreaseBelowMax
<1>1. ASSUME CfgTypeOK, CounterLeads, [Next]_vars, NEW w \in Writes,
             call[w].pc = "cas", call'[w].pc = "upsert", MaxMicros \notin issued,
             NEW s \in issued
      PROVE  call'[w].mod > s
  <2> USE DEF CfgTypeOK
  <2>1. CompareExchange(w)
    <3>1. call'[w] # call[w]
      BY <1>1
    <3>2. ASSUME NEW v \in Writes, v # w, Step(v) \/ Reject(v) \/ Drop(v)
          PROVE  call'[w] = call[w]
      BY <1>1, <3>2, OthersStay
    <3>3. ~ \E v \in Writes, m \in Explicit \cup {NoStamp}, x \in BOOLEAN : Start(v, m, x)
      <4> SUFFICES ASSUME NEW v \in Writes, NEW m, NEW x, Start(v, m, x) PROVE FALSE
        OBVIOUS
      <4>1. v # w
        BY <1>1 DEF Start
      <4> QED
        BY <3>1, <4>1 DEF Start
    <3>4. ~Restart /\ ~Tick /\ ~(\E k \in Keys : Prune(k)) /\ ~ UNCHANGED vars
      BY <1>1, <3>1 DEF Restart, Over, Tick, Prune, vars
    <3>5. Step(w) \/ Reject(w) \/ Drop(w)
      BY <1>1, <3>1, <3>2, <3>3, <3>4 DEF Next
    <3> QED
      BY <1>1, <3>5 DEF Step, Reject, Drop, FetchMax, ReadClock, LoadCounter, UpsertOk,
         UpsertErr
  <2>0. call[w] \in CallState /\ call \in [Writes -> CallState]
    BY <1>1
  <2>2. counter = call[w].prev
    <3> SUFFICES ASSUME counter # call[w].prev PROVE FALSE
      OBVIOUS
    <3>1. call' = [call EXCEPT ![w].pc = "load"]
      BY <2>1 DEF CompareExchange
    <3> QED
      BY <1>1, <2>0, <3>1 DEF CallState
  <2>3. call'[w].mod = counter'
    <3> DEFINE next == IF call[w].prev >= call[w].now
                       THEN Successor(call[w].prev) ELSE call[w].now
    <3>1. /\ counter' = next
          /\ call' = [call EXCEPT ![w].pc = "upsert", ![w].mod = next,
                                  ![w].now = 0, ![w].prev = 0]
      BY <2>1, <2>2 DEF CompareExchange
    <3> HIDE DEF next
    <3> QED
      BY <2>0, <3>1 DEF CallState
  <2>4. \A t \in issued : counter' > t
    BY <1>1, <2>1, <2>2, ExchangePasses
  <2> QED
    BY <1>1, <2>3, <2>4
<1>2. CfgTypeOK /\ CounterLeads /\ [Next]_vars =>
        [\A w \in Writes : call[w].pc = "cas" /\ call'[w].pc = "upsert" =>
            MaxMicros \in issued \/ \A s \in issued : call'[w].mod > s]_vars
  BY <1>1
<1> QED
  BY <1>2, CfgTyping, CounterLeadsInvariant, PTL DEF Spec, StampsIncreaseBelowMax

\* CallsIssued is inductive.
LEMMA CallsIssuedStep == CfgTypeOK /\ CallsIssued /\ [Next]_vars => CallsIssued'
<1> SUFFICES ASSUME CfgTypeOK, CallsIssued, [Next]_vars PROVE CallsIssued'
  OBVIOUS
<1>0. call \in [Writes -> CallState] /\ acked \subseteq Writes
  BY DEF CfgTypeOK
<1> USE DEF CallsIssued, process, history, Running
<1>1. ASSUME NEW w \in Writes, NEW m \in Explicit \cup {NoStamp}, NEW x \in BOOLEAN,
             Start(w, m, x)
      PROVE  CallsIssued'
  BY <1>0, <1>1 DEF Start
<1>2. ASSUME NEW w \in Writes, Reject(w) PROVE CallsIssued'
  BY <1>0, <1>2 DEF Reject, CallState
<1>3. ASSUME NEW w \in Writes, FetchMax(w) PROVE CallsIssued'
  BY <1>0, <1>3 DEF FetchMax, CallState
<1>4. ASSUME NEW w \in Writes, ReadClock(w) PROVE CallsIssued'
  BY <1>0, <1>4 DEF ReadClock, CallState
<1>5. ASSUME NEW w \in Writes, LoadCounter(w) PROVE CallsIssued'
  BY <1>0, <1>5 DEF LoadCounter, CallState
<1>6. ASSUME NEW w \in Writes, CompareExchange(w) PROVE CallsIssued'
  BY <1>0, <1>6 DEF CompareExchange, CallState
<1>7. ASSUME NEW w \in Writes, UpsertOk(w) PROVE CallsIssued'
  BY <1>0, <1>7 DEF UpsertOk, Over
<1>8. ASSUME NEW w \in Writes, UpsertErr(w) PROVE CallsIssued'
  BY <1>0, <1>8 DEF UpsertErr, Over, CallState
<1>9. ASSUME NEW w \in Writes, Drop(w) PROVE CallsIssued'
  BY <1>0, <1>9 DEF Drop, Over
<1>10. CASE Restart
  BY <1>0, <1>10 DEF Restart, Over
<1>11. CASE Tick \/ (\E k \in Keys : Prune(k)) \/ UNCHANGED vars
  BY <1>11 DEF Tick, Prune, vars
<1> QED
  BY <1>1, <1>2, <1>3, <1>4, <1>5, <1>6, <1>7, <1>8, <1>9, <1>10, <1>11 DEF Next, Step

\* What a call has seen answered was stamped by this process.
LEMMA CallsIssuedInvariant == Spec => []CallsIssued
<1>1. Init => CallsIssued
  BY DEF Init, CallsIssued, NewCall, Running
<1> QED
  BY <1>1, CallsIssuedStep, CfgTyping, PTL DEF Spec

\* LaterIsGreater is inductive: a call is stamped after what it has seen answered.
LEMMA LaterIsGreaterStep ==
  CfgTypeOK /\ CounterLeads /\ CallsIssued /\ LaterIsGreater /\ [Next]_vars
    => LaterIsGreater'
<1> SUFFICES ASSUME CfgTypeOK, CounterLeads, CallsIssued, LaterIsGreater, [Next]_vars,
                    MaxMicros \notin issued',
                    NEW w \in Writes, call'[w].pc = "upsert", ~call'[w].stamped,
                    NEW v \in call'[w].after
             PROVE  call'[v].mod < call'[w].mod
  BY DEF LaterIsGreater
<1>0. call \in [Writes -> CallState] /\ acked \subseteq Writes
  BY DEF CfgTypeOK
<1>1. ~Restart
  BY DEF Restart, Over, Running
<1>2. MaxMicros \notin issued
  <2>1. issued \subseteq issued'
    BY ZenonT(60), <1>1 DEF Next, Step, vars, process, history, Start, Reject, FetchMax, ReadClock,
       LoadCounter, CompareExchange, UpsertOk, UpsertErr, Drop, Prune, Tick
  <2> QED
    BY <2>1
<1>3. CASE call'[w] = call[w]
  <2>1. v \in acked /\ v \in Writes
    BY <1>0, <1>3 DEF CallsIssued, Running
  <2>2. call'[v] = call[v]
    BY <2>1, AppliedStays DEF CallsIssued
  <2> QED
    BY <1>2, <1>3, <2>2 DEF LaterIsGreater
<1>4. CASE CompareExchange(w) /\ counter = call[w].prev
  <2> DEFINE next == IF call[w].prev >= call[w].now
                     THEN Successor(call[w].prev) ELSE call[w].now
  <2>1. /\ counter' = next
        /\ call' = [call EXCEPT ![w].pc = "upsert", ![w].mod = next,
                                ![w].now = 0, ![w].prev = 0]
        /\ call[w].pc = "cas"
    BY <1>4 DEF CompareExchange
  <2> HIDE DEF next
  <2>2. call'[w].mod = counter' /\ call'[w].after = call[w].after
    BY <1>0, <2>1 DEF CallState
  <2>3. v \in acked /\ v \in Writes
    BY <1>0, <2>1, <2>2 DEF CallsIssued, Running
  <2>4. call'[v] = call[v] /\ call[v].mod \in issued
    BY <2>3, AppliedStays DEF CallsIssued
  <2> QED
    BY <1>2, <1>4, <2>2, <2>4, ExchangePasses DEF CfgTypeOK, Micros
<1>5. call'[w] = call[w] \/ (CompareExchange(w) /\ counter = call[w].prev)
  <2> SUFFICES ASSUME call'[w] # call[w]
               PROVE  CompareExchange(w) /\ counter = call[w].prev
    OBVIOUS
  <2>1. ~ \E u \in Writes, m \in Explicit \cup {NoStamp}, x \in BOOLEAN : Start(u, m, x)
    BY <1>0 DEF Start
  <2>2. ~Tick /\ ~(\E k \in Keys : Prune(k)) /\ ~ UNCHANGED vars
    BY DEF Tick, Prune, vars
  <2>3. Step(w) \/ Reject(w) \/ Drop(w)
    BY <1>0, <1>1, <2>1, <2>2, OthersStay DEF Next
  <2>4. ~Reject(w) /\ ~Drop(w) /\ ~FetchMax(w) /\ ~ReadClock(w) /\ ~LoadCounter(w)
    BY <1>0 DEF Reject, Drop, FetchMax, ReadClock, LoadCounter, Over, CallState,
       CallsIssued
  <2>5. ASSUME UpsertOk(w) PROVE FALSE
    BY <1>0, <2>5 DEF UpsertOk, Over
  <2>8. ASSUME UpsertErr(w) PROVE FALSE
    <3> DEFINE c == [call[w] EXCEPT !.tries = @ + 1]
    <3>1. call'[w] = IF c.stamped \/ c.tries = MaxTries THEN Over(c, "err")
                     ELSE [c EXCEPT !.pc = "clock"]
      BY <1>0, <2>8 DEF UpsertErr
    <3>2. Over(c, "err").pc = "err"
      BY DEF Over
    <3>3. [c EXCEPT !.pc = "clock"].pc = "clock"
      BY <1>0 DEF CallState
    <3> HIDE DEF c
    <3> QED
      BY <3>1, <3>2, <3>3
  <2>6. CompareExchange(w)
    BY <2>3, <2>4, <2>5, <2>8 DEF Step
  <2>7. ASSUME counter # call[w].prev PROVE FALSE
    <3>1. call' = [call EXCEPT ![w].pc = "load"]
      BY <2>6, <2>7 DEF CompareExchange
    <3> QED
      BY <1>0, <3>1 DEF CallState
  <2> QED
    BY <2>6, <2>7
<1> QED
  BY <1>3, <1>4, <1>5

\* A put made after the answer to another put of the same key replaces it: the
\* timestamps of one process order its writes as their callers saw them.
THEOREM LaterPutsWin == Spec => LaterPutWins
<1>1. Init => LaterIsGreater
  BY DEF Init, LaterIsGreater, NewCall
<1>2. Spec => []LaterIsGreater
  BY <1>1, LaterIsGreaterStep, CfgTyping, CounterLeadsInvariant, CallsIssuedInvariant,
     PTL DEF Spec
<1>3. ASSUME CfgTypeOK, CallsIssued, LaterIsGreater, [Next]_vars, NEW w \in Writes,
             call[w].pc = "upsert", call'[w].pc = "superseded", ~call[w].stamped
      PROVE  MaxMicros \in issued \/ table[KeyOf[w]] \notin call[w].after
  <2> SUFFICES ASSUME MaxMicros \notin issued, table[KeyOf[w]] \in call[w].after
               PROVE  FALSE
    OBVIOUS
  <2>1. UpsertOk(w)
    BY <1>3, AnswerStep
  <2>2. Superseded(w)
    BY <1>3, <2>1 DEF UpsertOk, Over, CfgTypeOK
  <2>3. call[table[KeyOf[w]]].mod >= call[w].mod
    BY <2>2 DEF Superseded
  <2>4. call[table[KeyOf[w]]].mod < call[w].mod
    BY <1>3 DEF LaterIsGreater
  <2>5. table[KeyOf[w]] \in Writes
    BY <1>3 DEF CallsIssued, CfgTypeOK, Running
  <2>6. call[table[KeyOf[w]]].mod \in Int /\ call[w].mod \in Int
    BY <1>3, <2>5 DEF CfgTypeOK, CallState, Micros
  <2> QED
    BY <2>3, <2>4, <2>6
<1>4. CfgTypeOK /\ CallsIssued /\ LaterIsGreater /\ [Next]_vars =>
        [\A w \in Writes :
            call[w].pc = "upsert" /\ call'[w].pc = "superseded" /\ ~call[w].stamped
              => MaxMicros \in issued \/ table[KeyOf[w]] \notin call[w].after]_vars
  BY <1>3
<1> QED
  BY <1>2, <1>4, CfgTyping, CallsIssuedInvariant, PTL DEF Spec, LaterPutWins

-----------------------------------------------------------------------------
(* The store implements the register *)

\* A call that runs, or is yet to be made, has no outcome.
LEMMA PendingOutcome ==
  ASSUME NEW w \in Writes, call[w].pc \in Running \cup {"new"}
  PROVE  Outcome(w) = "pending"
BY DEF Outcome, Running

\* The register of a row holds the write that made it.
LEMMA RowRecord ==
  ASSUME NEW k \in Keys, table[k] # NoWrite
  PROVE  RowAsRegister(k)
           = {[by |-> table[k], at |-> call[table[k]].mod, expires |-> call[table[k]].expires]}
<1>1. {table[k]} \ {NoWrite} = {table[k]}
  OBVIOUS
<1> QED
  BY <1>1 DEF RowAsRegister

\* A step that leaves the table alone leaves the registers alone.
LEMMA RegistersStay ==
  ASSUME CfgTypeOK, RowsApplied, [Next]_vars, NEW k \in Keys, table'[k] = table[k]
  PROVE  RowAsRegister(k)' = RowAsRegister(k)
<1>1. CASE table[k] = NoWrite
  BY <1>1 DEF RowAsRegister
<1>2. CASE table[k] # NoWrite
  <2>1. table[k] \in Writes /\ call'[table[k]] = call[table[k]]
    BY <1>2, AppliedStays DEF RowsApplied, CfgTypeOK
  <2> QED
    BY <2>1 DEF RowAsRegister
<1> QED
  BY <1>1, <1>2

\* Calls that end without an answer are writes that fail.
LEMMA RegisterFail ==
  ASSUME CfgTypeOK, RowsApplied, [Next]_vars, UNCHANGED table,
         NEW W \in SUBSET Writes,
         \A w \in W : Outcome(w) = "pending" /\ Outcome(w)' = "failed",
         \A w \in Writes \ W : Outcome(w)' = Outcome(w)
  PROVE  [Register!Next]_(Register!vars)
<1>1. \A k \in Keys : RowAsRegister(k)' = RowAsRegister(k)
  BY RegistersStay
<1>2. CASE W = {}
  BY <1>1, <1>2 DEF Register!vars
<1>3. CASE W # {}
  <2>1. Register!Fail(W)
    BY <1>1, <1>3 DEF Register!Fail
  <2> QED
    BY <2>1 DEF Register!Next
<1> QED
  BY <1>2, <1>3

\* The statement that succeeds is the write's moment: it is superseded, or applied.
LEMMA RegisterWrite ==
  ASSUME CfgTypeOK, RowsApplied, [Next]_vars, NEW w \in Writes, UpsertOk(w)
  PROVE  Register!Next
<1> USE CfgConstants DEF CfgTypeOK
<1>1. Outcome(w) = "pending" /\ KeyOf[w] \in Keys
  BY PendingOutcome DEF UpsertOk, Running
<1>2. \A v \in Writes \ {w} : Outcome(v)' = Outcome(v)
  BY DEF UpsertOk, Outcome
<1>3. CASE Superseded(w)
  <2>1. UNCHANGED table /\ Outcome(w)' = "superseded"
    BY <1>3 DEF UpsertOk, Outcome, Over
  <2>2. RowAsRegister(KeyOf[w]) # {}
    BY <1>1, <1>3, RowRecord DEF Superseded
  <2>3. \A k \in Keys : RowAsRegister(k)' = RowAsRegister(k)
    BY <2>1, RegistersStay
  <2>4. [v \in Writes |-> Outcome(v)]'
          = [[v \in Writes |-> Outcome(v)] EXCEPT ![w] = "superseded"]
    BY <1>2, <2>1
  <2>5. Register!Supersede(w)
    BY <1>1, <2>2, <2>3, <2>4 DEF Register!Supersede
  <2> QED
    BY <2>5 DEF Register!Next
<1>4. CASE ~Superseded(w)
  <2> DEFINE t == call[w].mod
             x == call[w].expires
  <2>1. t \in Micros /\ x \in BOOLEAN
    BY DEF CallState
  <2>2. /\ call'[w] = Over(call[w], "applied")
        /\ table' = [table EXCEPT ![KeyOf[w]] = w]
        /\ ~Collides(w)
    BY <1>4 DEF UpsertOk
  <2>3. Outcome(w)' = "applied"
    BY <2>2 DEF Outcome, Over
  <2>4. [v \in Writes |-> Outcome(v)]' = [[v \in Writes |-> Outcome(v)] EXCEPT ![w] = "applied"]
    BY <1>2, <2>3
  <2>5. RowAsRegister(KeyOf[w])' = {[by |-> w, at |-> t, expires |-> x]}
    BY <1>1, <2>2 DEF RowAsRegister, Over
  <2>6. \A k \in Keys \ {KeyOf[w]} : RowAsRegister(k)' = RowAsRegister(k)
    BY <1>1, <2>2, RegistersStay
  <2>7. [k \in Keys |-> RowAsRegister(k)]'
          = [[k \in Keys |-> RowAsRegister(k)] EXCEPT
               ![KeyOf[w]] = {[by |-> w, at |-> t, expires |-> x]}]
    BY <1>1, <2>5, <2>6
  <2>8. \A r \in RowAsRegister(KeyOf[w]) : r.at < t
    <3> SUFFICES ASSUME table[KeyOf[w]] # NoWrite PROVE call[table[KeyOf[w]]].mod < t
      BY DEF RowAsRegister
    <3>1. ~(call[table[KeyOf[w]]].mod >= t)
      BY <1>4 DEF Superseded
    <3>2. call[table[KeyOf[w]]].mod \in Int /\ t \in Int
      BY <1>1 DEF CallState, Micros
    <3> QED
      BY <3>1, <3>2
  <2>9. \A k \in Keys \ {KeyOf[w]} : \A r \in RowAsRegister(k) : r.at # t
    BY <2>2 DEF Collides, RowAsRegister
  <2>10. Register!Newer(w, t)
    BY <1>1, <2>8, <2>9 DEF Register!Newer
  <2>11. Register!Apply(w)
    BY <1>1, <2>1, <2>4, <2>7, <2>10 DEF Register!Apply
  <2> QED
    BY <2>11 DEF Register!Next
<1> QED
  BY <1>3, <1>4

\* Every step of the store is a step of the register, or none.
LEMMA RegisterStep ==
  ASSUME CfgTypeOK, RowsApplied, [Next]_vars
  PROVE  [Register!Next]_(Register!vars)
<1>0. call \in [Writes -> CallState]
  BY DEF CfgTypeOK
<1> USE DEF process, history
<1>1. ASSUME UNCHANGED table, \A w \in Writes : Outcome(w)' = Outcome(w)
      PROVE  [Register!Next]_(Register!vars)
  <2>1. {} \in SUBSET Writes /\ \A w \in Writes \ {} : Outcome(w)' = Outcome(w)
    BY <1>1
  <2> QED
    BY <1>1, <2>1, RegisterFail
<1>2. ASSUME UNCHANGED table, NEW w \in Writes, call[w].pc \in Running \cup {"new"},
             \A v \in Writes \ {w} : call'[v] = call[v],
             call'[w].pc \in Running \cup {"err", "lost"}
      PROVE  [Register!Next]_(Register!vars)
  <2>1. Outcome(w) = "pending" /\ \A v \in Writes \ {w} : Outcome(v)' = Outcome(v)
    BY <1>2, PendingOutcome DEF Outcome
  <2>2. CASE call'[w].pc \in Running
    <3>1. Outcome(w)' = "pending"
      BY <2>2 DEF Outcome, Running
    <3> QED
      BY <1>1, <1>2, <2>1, <3>1
  <2>3. CASE call'[w].pc \in {"err", "lost"}
    <3>1. Outcome(w)' = "failed"
      BY <2>3 DEF Outcome
    <3> DEFINE W == {w}
    <3>2. /\ W \in SUBSET Writes
          /\ \A v \in W : Outcome(v) = "pending" /\ Outcome(v)' = "failed"
          /\ \A v \in Writes \ W : Outcome(v)' = Outcome(v)
      BY <2>1, <3>1
    <3> HIDE DEF W
    <3> QED
      BY <1>2, <3>2, RegisterFail
  <2> QED
    BY <1>2, <2>2, <2>3
<1>3. ASSUME NEW w \in Writes, NEW m \in Explicit \cup {NoStamp}, NEW x \in BOOLEAN,
             Start(w, m, x)
      PROVE  [Register!Next]_(Register!vars)
  <2>1. call'[w].pc \in {"clock", "max"}
    BY <1>0, <1>3 DEF Start
  <2> QED
    BY <1>0, <1>2, <1>3, <2>1 DEF Start, Running
<1>4. ASSUME NEW w \in Writes,
             FetchMax(w) \/ ReadClock(w) \/ LoadCounter(w) \/ CompareExchange(w)
      PROVE  [Register!Next]_(Register!vars)
  <2>1. /\ call[w].pc \in Running
        /\ \A v \in Writes \ {w} : call'[v] = call[v]
        /\ UNCHANGED table
    BY <1>0, <1>4 DEF FetchMax, ReadClock, LoadCounter, CompareExchange, Running
  <2>2. call'[w].pc \in Running
    BY <1>0, <1>4 DEF FetchMax, ReadClock, LoadCounter, CompareExchange, CallState, Running
  <2> QED
    BY <1>2, <2>1, <2>2
<1>5. ASSUME NEW w \in Writes, UpsertErr(w) PROVE [Register!Next]_(Register!vars)
  <2>1. /\ call[w].pc \in Running
        /\ \A v \in Writes \ {w} : call'[v] = call[v]
        /\ UNCHANGED table
    BY <1>0, <1>5 DEF UpsertErr, Running
  <2>2. call'[w].pc \in Running \cup {"err"}
    <3> DEFINE c == [call[w] EXCEPT !.tries = @ + 1]
    <3>1. call'[w] = IF c.stamped \/ c.tries = MaxTries THEN Over(c, "err")
                     ELSE [c EXCEPT !.pc = "clock"]
      BY <1>0, <1>5 DEF UpsertErr
    <3>2. Over(c, "err").pc = "err"
      BY DEF Over
    <3>3. [c EXCEPT !.pc = "clock"].pc = "clock"
      BY <1>0 DEF CallState
    <3> HIDE DEF c
    <3> QED
      BY <3>1, <3>2, <3>3 DEF Running
  <2> QED
    BY <1>2, <2>1, <2>2
<1>6. ASSUME NEW w \in Writes, Reject(w) \/ Drop(w) PROVE [Register!Next]_(Register!vars)
  <2>1. /\ call[w].pc \in Running \cup {"new"}
        /\ \A v \in Writes \ {w} : call'[v] = call[v]
        /\ UNCHANGED table
    BY <1>0, <1>6 DEF Reject, Drop, Running
  <2>2. call'[w].pc \in {"err", "lost"}
    BY <1>0, <1>6 DEF Reject, Drop, Over, CallState
  <2> QED
    BY <1>2, <2>1, <2>2
<1>7. ASSUME NEW k \in Keys, Prune(k) PROVE [Register!Next]_(Register!vars)
  <2>1. /\ table[k] # NoWrite /\ table[k] \in Writes /\ call[table[k]].expires
        /\ UNCHANGED call
        /\ table' = [table EXCEPT ![k] = NoWrite]
    BY <1>7 DEF Prune, CfgTypeOK
  <2>2. \E r \in RowAsRegister(k) : r.expires
    <3> DEFINE r == [by |-> table[k], at |-> call[table[k]].mod,
                     expires |-> call[table[k]].expires]
    <3>1. r \in RowAsRegister(k)
      BY <2>1, RowRecord
    <3>2. r.expires
      BY <2>1
    <3> QED
      BY <3>1, <3>2
  <2>3. RowAsRegister(k)' = {}
    BY <2>1 DEF RowAsRegister, CfgTypeOK
  <2>4. \A j \in Keys \ {k} : RowAsRegister(j)' = RowAsRegister(j)
    BY <2>1, RegistersStay DEF CfgTypeOK
  <2>5. [j \in Keys |-> RowAsRegister(j)]' = [[j \in Keys |-> RowAsRegister(j)] EXCEPT ![k] = {}]
    BY <2>3, <2>4
  <2>6. UNCHANGED [w \in Writes |-> Outcome(w)]
    BY <2>1 DEF Outcome
  <2>7. Register!Forget(k)
    BY <2>2, <2>5, <2>6 DEF Register!Forget
  <2> QED
    BY <2>7 DEF Register!Next
<1>8. CASE Restart
  <2> DEFINE W == {w \in Writes : call[w].pc \in Running}
  <2>1. \A w \in W : Outcome(w) = "pending" /\ Outcome(w)' = "failed"
    BY <1>8, PendingOutcome DEF Restart, Outcome, Over
  <2>2. \A w \in Writes \ W : Outcome(w)' = Outcome(w)
    BY <1>8 DEF Restart, Outcome
  <2>3. UNCHANGED table /\ W \in SUBSET Writes
    BY <1>8 DEF Restart
  <2> HIDE DEF W
  <2> QED
    BY <2>1, <2>2, <2>3, RegisterFail
<1>9. CASE Tick \/ UNCHANGED vars
  BY <1>1, <1>9 DEF Tick, vars, Outcome
<1> QED
  BY <1>3, <1>4, <1>5, <1>6, <1>7, <1>8, <1>9, RegisterWrite DEF Next, Step

\* upsert_value, with its counter, its retries and the processes that end around it,
\* implements the register: every behaviour of the store is one of the register.
THEOREM RefinesRegister == Spec => ImplementsRegister
<1>1. Init => Register!Init
  <2> SUFFICES ASSUME Init PROVE Register!Init
    OBVIOUS
  <2>1. \A k \in Keys : RowAsRegister(k) = {}
    BY DEF Init, RowAsRegister
  <2>2. \A w \in Writes : Outcome(w) = "pending"
    BY PendingOutcome DEF Init, NewCall
  <2> QED
    BY <2>1, <2>2 DEF Register!Init
<1> QED
  BY <1>1, RegisterStep, CfgTyping, RowsAppliedInvariant, PTL
     DEF Spec, ImplementsRegister, Register!Spec
=============================================================================
