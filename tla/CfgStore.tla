------------------------------- MODULE CfgStore -------------------------------
(***************************************************************************)
(* The config key/value store of the backend (rs/v-m-io-back): how a write  *)
(* gets its modified_at_micros, and which write a row of the entries table  *)
(* ends up holding.                                                         *)
(*                                                                          *)
(* A write is a cfg-put request, an address advertisement, or one value of  *)
(* --init.  It carries the timestamp a peer gave it, or takes one from the  *)
(* process's shared counter.  The counter starts at 0 in every process; the *)
(* table is on disk.  A sqlite statement is one step; the atomic operations *)
(* on the counter and the clock reads are steps of their own.               *)
(***************************************************************************)
EXTENDS Integers, FiniteSets

CONSTANTS Keys,       \* config keys
          Writes,     \* writes, each made once; the value it writes is its name
          KeyOf,      \* the key a write is for
          Inits,      \* the writes that are values of --init
          Explicit,   \* timestamps clients send
          NoStamp,    \* no timestamp sent
          NoWrite,    \* no row in the table
          MaxTries,   \* attempts of a server-stamped write (64)
          MaxMicros,  \* largest timestamp, i64::MAX
          MaxClock,   \* bound on the clock
          StepsBack,  \* may the system clock be set back?
          Faults      \* may a sqlite statement fail for a reason of its own?

Micros == -(MaxMicros + 1) .. MaxMicros

ASSUME CfgConstants ==
    /\ KeyOf \in [Writes -> Keys]
    /\ Inits \subseteq Writes
    /\ NoWrite \notin Writes
    /\ MaxTries \in Nat \ {0}
    /\ MaxMicros \in Nat \ {0}
    /\ MaxClock \in 0 .. MaxMicros
    /\ Explicit \subseteq Micros
    /\ NoStamp \notin Micros
    /\ StepsBack \in BOOLEAN
    /\ Faults \in BOOLEAN

VARIABLES
    mode,    \* what the process is: "serve" (back_srv), "init" (config_init), or
             \* "over", an init that has returned an error
    clock,   \* unix_micros()
    counter, \* the shared AtomicI64
    table,   \* the entries of class cfg: the write that made each row
    call     \* progress of each write

\* History, read by properties only.
VARIABLES
    issued,  \* timestamps this process has handed out or adopted
    acked,   \* writes this process has answered without an error
    forgot   \* keys that have been pruned

process == <<mode, clock, counter>>
history == <<issued, acked, forgot>>
vars == <<mode, clock, counter, table, call, issued, acked, forgot>>

-----------------------------------------------------------------------------
\* i64 addition of 1, in a build without overflow checks.
Successor(t) == IF t = MaxMicros THEN -(MaxMicros + 1) ELSE t + 1

Running == {"clock", "load", "cas", "max", "upsert"}

\* A call that is over keeps its timestamp and expiry, which are those of the
\* row it may have made.
Over(c, pc) ==
    [pc |-> pc, mod |-> c.mod, stamped |-> c.stamped, expires |-> c.expires,
     now |-> 0, prev |-> 0, tries |-> c.tries, after |-> {}]

NewCall == [pc |-> "new", mod |-> 0, stamped |-> FALSE, expires |-> FALSE,
            now |-> 0, prev |-> 0, tries |-> 0, after |-> {}]

Init ==
    /\ mode \in {"serve", "init"}
    /\ clock = 0
    /\ counter = 0
    /\ table = [k \in Keys |-> NoWrite]
    /\ call = [w \in Writes |-> NewCall]
    /\ issued = {}
    /\ acked = {}
    /\ forgot = {}

-----------------------------------------------------------------------------
(* upsert_value *)

\* The process makes such writes; config_init makes one at a time.
Turn(w) ==
    IF w \in Inits THEN mode = "init" /\ \A v \in Writes : call[v].pc \notin Running
    ELSE mode = "serve"

\* A cfg-put handler, the announce task or config_init starts a write, the
\* last without timestamp or expiry.
Start(w, m, x) ==
    /\ call[w].pc = "new"
    /\ Turn(w)
    /\ w \in Inits => m = NoStamp /\ ~x
    /\ call' = [call EXCEPT ![w] =
                  [pc |-> IF m = NoStamp THEN "clock" ELSE "max",
                   mod |-> IF m = NoStamp THEN 0 ELSE m, stamped |-> (m # NoStamp),
                   expires |-> x, now |-> 0, prev |-> 0, tries |-> 0, after |-> acked]]
    /\ UNCHANGED <<process, table, history>>

\* config_init returns at the first write that fails.
EndInit(w) == mode' = IF w \in Inits /\ call'[w].pc = "err" THEN "over" ELSE mode

\* The key or the value is too long.
Reject(w) ==
    /\ call[w].pc = "new"
    /\ Turn(w)
    /\ call' = [call EXCEPT ![w].pc = "err"]
    /\ EndInit(w)
    /\ UNCHANGED <<clock, counter, table, history>>

\* Mutation: the counter does not catch up.
FetchMaxSkipped(w) ==
    /\ call[w].pc = "max"
    /\ call' = [call EXCEPT ![w].pc = "upsert"]
    /\ issued' = issued \cup {call[w].mod}
    /\ UNCHANGED <<process, table, acked, forgot>>

\* A timestamp that was sent is used as it is, after the counter caught up.
FetchMax(w) ==
    /\ call[w].pc = "max"
    /\ counter' = IF call[w].mod > counter THEN call[w].mod ELSE counter
    /\ call' = [call EXCEPT ![w].pc = "upsert"]
    /\ issued' = issued \cup {call[w].mod}
    /\ UNCHANGED <<mode, clock, table, acked, forgot>>

\* next_micros reads the clock once ...
ReadClock(w) ==
    /\ call[w].pc = "clock"
    /\ call' = [call EXCEPT ![w].pc = "load", ![w].now = clock]
    /\ UNCHANGED <<process, table, history>>

\* ... loads the counter ...
LoadCounter(w) ==
    /\ call[w].pc = "load"
    /\ call' = [call EXCEPT ![w].pc = "cas", ![w].prev = counter]
    /\ UNCHANGED <<process, table, history>>

\* Mutation: a plain store instead of the compare-exchange.
StoreCounter(w) ==
    LET c == call[w]
        next == IF c.prev >= c.now THEN Successor(c.prev) ELSE c.now
    IN  /\ c.pc = "cas"
        /\ counter' = next
        /\ call' = [call EXCEPT ![w].pc = "upsert", ![w].mod = next,
                                ![w].now = 0, ![w].prev = 0]
        /\ issued' = issued \cup {next}
        /\ UNCHANGED <<mode, clock, table, acked, forgot>>

\* Mutation: a failed compare-exchange is tried again with the value it had.
CompareExchangeStale(w) ==
    LET c == call[w]
        next == IF c.prev >= c.now THEN Successor(c.prev) ELSE c.now
    IN  /\ c.pc = "cas"
        /\ IF counter = c.prev
           THEN /\ counter' = next
                /\ call' = [call EXCEPT ![w].pc = "upsert", ![w].mod = next,
                                        ![w].now = 0, ![w].prev = 0]
                /\ issued' = issued \cup {next}
           ELSE UNCHANGED <<counter, call, issued>>
        /\ UNCHANGED <<mode, clock, table, acked, forgot>>

\* ... and moves it past that value or to the time it read, or loads it again.
CompareExchange(w) ==
    LET c == call[w]
        next == IF c.prev >= c.now THEN Successor(c.prev) ELSE c.now
    IN  /\ c.pc = "cas"
        /\ IF counter = c.prev
           THEN /\ counter' = next
                /\ call' = [call EXCEPT ![w].pc = "upsert", ![w].mod = next,
                                        ![w].now = 0, ![w].prev = 0]
                /\ issued' = issued \cup {next}
           ELSE /\ call' = [call EXCEPT ![w].pc = "load"]
                /\ UNCHANGED <<counter, issued>>
        /\ UNCHANGED <<mode, clock, table, acked, forgot>>

-----------------------------------------------------------------------------
(* VmIoDb::upsert: INSERT ... ON CONFLICT(class, key) DO UPDATE ... WHERE *)

\* Mutation: the upsert has no WHERE.
NeverSuperseded(w) == FALSE

\* Mutation: a write as new as the row replaces it.
SupersededByNewer(w) ==
    LET v == table[KeyOf[w]]
    IN  v # NoWrite /\ call[v].mod > call[w].mod

\* The row of that key is at least as new, so the statement changes nothing.
Superseded(w) ==
    LET v == table[KeyOf[w]]
    IN  v # NoWrite /\ call[v].mod >= call[w].mod

\* Mutation: no UNIQUE on modified_at_micros.
NeverCollides(w) == FALSE

\* The row of another key has the timestamp: UNIQUE fails.
Collides(w) ==
    \E k \in Keys \ {KeyOf[w]} :
       table[k] # NoWrite /\ call[table[k]].mod = call[w].mod

\* The statement succeeds, with or without effect, and the call returns Ok.
UpsertOk(w) ==
    /\ call[w].pc = "upsert"
    /\ Superseded(w) \/ ~Collides(w)
    /\ IF Superseded(w)
       THEN /\ call' = [call EXCEPT ![w] = Over(@, "superseded")]
            /\ UNCHANGED table
       ELSE /\ call' = [call EXCEPT ![w] = Over(@, "applied")]
            /\ table' = [table EXCEPT ![KeyOf[w]] = w]
    /\ acked' = acked \cup {w}
    /\ UNCHANGED <<process, issued, forgot>>

\* Mutation: one attempt too many.
UpsertErrOnceMore(w) ==
    /\ call[w].pc = "upsert"
    /\ Faults \/ (~Superseded(w) /\ Collides(w))
    /\ LET c == [call[w] EXCEPT !.tries = @ + 1]
       IN  call' = [call EXCEPT ![w] =
                      IF c.stamped \/ c.tries > MaxTries THEN Over(c, "err")
                      ELSE [c EXCEPT !.pc = "clock"]]
    /\ EndInit(w)
    /\ UNCHANGED <<clock, counter, table, history>>

\* The statement fails.  A timestamp that was sent is not retried; otherwise
\* another one is taken, MaxTries times in all.
UpsertErr(w) ==
    /\ call[w].pc = "upsert"
    /\ Faults \/ (~Superseded(w) /\ Collides(w))
    /\ LET c == [call[w] EXCEPT !.tries = @ + 1]
       IN  call' = [call EXCEPT ![w] =
                      IF c.stamped \/ c.tries = MaxTries THEN Over(c, "err")
                      ELSE [c EXCEPT !.pc = "clock"]]
    /\ EndInit(w)
    /\ UNCHANGED <<clock, counter, table, history>>

-----------------------------------------------------------------------------
(* Around the calls *)

\* The prune task of VmIoDb deletes an entry that has an expiry.
Prune(k) ==
    /\ table[k] # NoWrite
    /\ call[table[k]].expires
    /\ table' = [table EXCEPT ![k] = NoWrite]
    /\ forgot' = forgot \cup {k}
    /\ UNCHANGED <<process, call, issued, acked>>

Tick ==
    /\ \E t \in 0 .. MaxClock : t # clock /\ (t > clock \/ StepsBack) /\ clock' = t
    /\ UNCHANGED <<mode, counter, table, call, history>>

\* The connection goes away, and the handler is dropped at an await.  (If the
\* statement was on its way it still runs: UpsertOk with nobody to hear of it.)
Drop(w) ==
    /\ mode = "serve"
    /\ call[w].pc \in {"max", "upsert", "clock"}
    /\ call' = [call EXCEPT ![w] = Over(@, "lost")]
    /\ UNCHANGED <<process, table, history>>

\* The process ends, with the calls it runs, and another one is started: the
\* server, or the server binary with --init.
Restart ==
    /\ mode' \in {"serve", "init"}
    /\ counter' = 0
    /\ call' = [w \in Writes |-> IF call[w].pc \in Running
                                 THEN Over(call[w], "lost") ELSE call[w]]
    /\ issued' = {}
    /\ acked' = {}
    /\ UNCHANGED <<clock, table, forgot>>

Step(w) ==
    \/ FetchMax(w) \/ ReadClock(w) \/ LoadCounter(w) \/ CompareExchange(w)
    \/ UpsertOk(w) \/ UpsertErr(w)

Next ==
    \/ \E w \in Writes :
          \/ \E m \in Explicit \cup {NoStamp}, x \in BOOLEAN : Start(w, m, x)
          \/ Reject(w) \/ Step(w) \/ Drop(w)
    \/ \E k \in Keys : Prune(k)
    \/ Tick \/ Restart

Spec == Init /\ [][Next]_vars

\* Calls run to their end: the runtime polls them, sqlite answers.
FairSpec == Spec /\ \A w \in Writes : WF_vars(Step(w))

-----------------------------------------------------------------------------
(* Properties *)

CallState ==
    [pc : Running \cup {"new", "applied", "superseded", "err", "lost"},
     mod : Micros, stamped : BOOLEAN, expires : BOOLEAN, now : 0 .. MaxClock,
     prev : Micros, tries : 0 .. MaxTries, after : SUBSET Writes]

\* Every variable has its type, timestamps fit an i64, a row names a write of its
\* key, and a call stops after MaxTries attempts.
CfgTypeOK ==
    /\ mode \in {"serve", "init", "over"}
    /\ clock \in 0 .. MaxClock
    /\ counter \in Micros
    /\ table \in [Keys -> Writes \cup {NoWrite}]
    /\ \A k \in Keys : table[k] # NoWrite => KeyOf[table[k]] = k
    /\ call \in [Writes -> CallState]
    /\ \A w \in Writes : call[w].pc \in Running => call[w].tries < MaxTries
    /\ issued \subseteq Micros
    /\ acked \subseteq Writes
    /\ forgot \subseteq Keys

\* "concurrent writers converge on the newest version": whatever the order of
\* the statements, failures and restarts, the row of a key that was never pruned
\* holds the newest write that got an answer.
NewestWins ==
    \A w \in Writes :
       call[w].pc \in {"applied", "superseded"} /\ KeyOf[w] \notin forgot
         => /\ table[KeyOf[w]] # NoWrite
            /\ call[table[KeyOf[w]]].mod >= call[w].mod

\* "modified_at_micros must be unique so paging by filter range works".
RowsUnique ==
    \A j, k \in Keys :
       table[j] # NoWrite /\ table[k] # NoWrite /\ call[table[j]].mod = call[table[k]].mod
         => j = k

\* next_micros hands out a timestamp past all that this process has handed out
\* or adopted from a peer, as long as i64::MAX is not among them.
StampsIncreaseBelowMax ==
    [][\A w \in Writes : call[w].pc = "cas" /\ call'[w].pc = "upsert" =>
          MaxMicros \in issued \/ \A s \in issued : call'[w].mod > s]_vars

\* A write stamped by the server is superseded only by a write it did not come
\* after: a put made after the answer to another one, by the same process, wins,
\* as long as nobody has sent i64::MAX.
LaterPutWins ==
    [][\A w \in Writes :
          call[w].pc = "upsert" /\ call'[w].pc = "superseded" /\ ~call[w].stamped
            => MaxMicros \in issued \/ table[KeyOf[w]] \notin call[w].after]_vars

\* A call that starts ends: the compare-exchange loop and the retries terminate.
CallsEnd == \A w \in Writes : call[w].pc \in Running ~> call[w].pc \notin Running

-----------------------------------------------------------------------------
(* The abstract specification *)

\* The row of a key, as the register it stands for.
RowAsRegister(k) ==
    {[by |-> w, at |-> call[w].mod, expires |-> call[w].expires] :
        w \in {table[k]} \ {NoWrite}}

\* What the caller of a write gets, or will never get, to hear.
Outcome(w) ==
    CASE call[w].pc \in {"applied", "superseded"} -> call[w].pc
      [] call[w].pc \in {"err", "lost"} -> "failed"
      [] OTHER -> "pending"

Register == INSTANCE ConfigRegister WITH
    Stamps <- Micros,
    register <- [k \in Keys |-> RowAsRegister(k)],
    outcome <- [w \in Writes |-> Outcome(w)]

\* upsert_value, the counter and the retries around it are a register per key: a
\* write takes effect once, at the statement that succeeds, and is then the newest
\* of its key and the only one of its timestamp; one that fails has no effect.
ImplementsRegister == Register!Spec

-----------------------------------------------------------------------------
(* What a comment in the code says of config_init *)

\* config_init: "Initialize (or overwrite) the config database with the values".
InitOverwrites == \A w \in Inits : call[w].pc # "superseded"
=============================================================================
