-------------------------------- MODULE AddrAds --------------------------------
(***************************************************************************)
(* The addresses of the server: which ones it binds (ChanSrv::new), and how *)
(* they are advertised as config entries that expire (announce_addrs_task), *)
(* beside the task that prunes expired entries.                             *)
(*                                                                          *)
(* Time passes in ticks.  What expires or sleeps is kept as the time that   *)
(* is left; the system clock is taken to run with the timers.  The          *)
(* advertisement of an address is one upsert, which takes effect.           *)
(***************************************************************************)
EXTENDS Integers, Sequences

CONSTANTS Addrs,    \* socket addresses
          Wildcards,\* those that are unspecified
          Skipped,  \* loopback and link-local ones
          IsV4,     \* the family of each
          Ifaces,   \* the network interfaces: [internal, addr], in their order
          Binds,    \* lists of addresses a server is started with
          Interval, \* CFG_ADDR_INTERVAL, in ticks
          Ttl,      \* CFG_ADDR_TTL
          PruneInterval, \* PRUNE_INTERVAL
          MaxPass,  \* bound on the time the writes of a pass take
          MaxLate   \* bound on the time a sleep takes longer than it should

ASSUME AdsConstants ==
    /\ Wildcards \subseteq Addrs /\ Skipped \subseteq Addrs
    /\ IsV4 \in [Addrs -> BOOLEAN]
    /\ Ifaces \in Seq([internal : BOOLEAN, addr : Seq(Addrs)])
    /\ Binds \subseteq Seq(Addrs)
    /\ Interval \in Nat /\ Ttl \in Nat /\ PruneInterval \in Nat
    /\ MaxPass \in Nat /\ MaxLate \in Nat

\* A lifetime of two intervals, and passes and sleeps that are short beside them.
ASSUME AdsMargin ==
    /\ Ttl = 2 * Interval
    /\ 2 * MaxPass + MaxLate < Interval

\* An interface has no unspecified address: the system assigns none.
ASSUME IfacesSpecified ==
    \A i \in DOMAIN Ifaces : \A j \in DOMAIN Ifaces[i].addr : Ifaces[i].addr[j] \notin Wildcards

VARIABLES
    proc,   \* the server process: "down", "bind" (in ChanSrv::new) or "up"
    asked,  \* the addresses it was started with
    todo,   \* those it has yet to bind
    bound,  \* the local addresses of its listeners
    task,   \* announce_addrs_task: "none", "sleep" or "write"
    timer,  \* what is left of its sleep
    lease,  \* what is left of the lifetime it writes
    queue,  \* the addresses it has yet to write
    prune,  \* what is left of the sleep of prune_task
    ads,    \* the addresses that are advertised
    left    \* what is left of the lifetime of each

\* History, read by properties only.
VARIABLES
    missed, \* passes since the address was last written by this process, up to 2
    gone,   \* time since its advertisement was pruned
    over    \* time the database is open since the advertisement expired

server == <<proc, asked, todo, bound>>
announcer == <<task, timer, lease, queue>>
table == <<ads, left>>
history == <<missed, gone, over>>
vars == <<server, announcer, prune, table, history>>

-----------------------------------------------------------------------------
(* resolve_bind_addrs and expand_bind_addrs *)

\* Concatenation of f[1], f[2], ...
Concat(f) ==
    LET upto[i \in 0 .. Len(f)] == IF i = 0 THEN <<>> ELSE upto[i - 1] \o f[i]
    IN  upto[Len(f)]

\* The addresses of s, in its order, that a peer could connect to in the family of w.
Usable(s, w) ==
    Concat([i \in DOMAIN s |-> IF IsV4[s[i]] = IsV4[w] /\ s[i] \notin Skipped
                               THEN <<s[i]>> ELSE <<>>])

\* The routable addresses of the interfaces that w, a wildcard, covers.
Covered(w) ==
    Concat([i \in DOMAIN Ifaces |->
              IF Ifaces[i].internal THEN <<>> ELSE Usable(Ifaces[i].addr, w)])

\* Mutation: whether an address was found is not reset for the next wildcard.
ExpandFoundOnce(b) ==
    Concat([i \in DOMAIN b |->
              IF b[i] \notin Wildcards THEN <<b[i]>>
              ELSE IF Covered(b[i]) = <<>> /\ \A j \in 1 .. i - 1 :
                                                 b[j] \notin Wildcards \/ Covered(b[j]) = <<>>
              THEN <<b[i]>> ELSE Covered(b[i])])

\* A wildcard is replaced by what it covers, unless that is nothing.
Expand(b) ==
    Concat([i \in DOMAIN b |->
              IF b[i] \notin Wildcards THEN <<b[i]>>
              ELSE IF Covered(b[i]) = <<>> THEN <<b[i]>> ELSE Covered(b[i])])

InSeq(a, s) == \E i \in DOMAIN s : s[i] = a

-----------------------------------------------------------------------------
Init ==
    /\ proc = "down" /\ asked = <<>> /\ todo = <<>> /\ bound = <<>>
    /\ task = "none" /\ timer = 0 /\ lease = 0 /\ queue = <<>>
    /\ prune = 0
    /\ ads = {} /\ left = [a \in Addrs |-> 0]
    /\ missed = [a \in Addrs |-> 2]
    /\ gone = [a \in Addrs |-> 0]
    /\ over = [a \in Addrs |-> 0]

\* The process ends, or ChanSrv::new fails: its tasks and listeners go.
Ended ==
    /\ proc' = "down" /\ asked' = <<>> /\ todo' = <<>> /\ bound' = <<>>
    /\ task' = "none" /\ timer' = 0 /\ lease' = 0 /\ queue' = <<>>
    /\ prune' = 0
    /\ missed' = [a \in Addrs |-> 2]
    /\ gone' = [a \in Addrs |-> 0]
    /\ over' = [a \in Addrs |-> 0]
    /\ UNCHANGED table

\* back_srv opens the database, which starts to prune, and resolves the addresses.
Open(b) ==
    /\ proc = "down"
    /\ proc' = "bind" /\ asked' = b /\ todo' = Expand(b)
    /\ UNCHANGED <<bound, announcer, prune, table, history>>

\* The next address is bound.  An address, with its port, can be bound once.  (Port 0
\* is a new port each time, and stands for as many addresses.)
Bind(a) ==
    /\ proc = "bind"
    /\ todo # <<>>
    /\ a = Head(todo)
    /\ ~InSeq(a, bound)
    /\ bound' = Append(bound, a)
    /\ todo' = Tail(todo)
    /\ UNCHANGED <<proc, asked, announcer, prune, table, history>>

\* Mutation: an address that cannot be bound is left out.
BindFailsAlone ==
    /\ proc = "bind"
    /\ todo # <<>>
    /\ todo' = Tail(todo)
    /\ UNCHANGED <<proc, asked, bound, announcer, prune, table, history>>

\* An address is in use, or bound already: the listeners there are are dropped, and
\* the error ends the process.
BindFails ==
    /\ proc = "bind"
    /\ todo # <<>>
    /\ Ended

\* All are bound, the accept loops and the announce task are spawned.
Serve ==
    /\ proc = "bind"
    /\ todo = <<>>
    /\ proc' = "up"
    /\ task' = "sleep" /\ timer' = 0
    /\ UNCHANGED <<asked, todo, bound, lease, queue, prune, table, history>>

Stop == proc = "up" /\ Ended

-----------------------------------------------------------------------------
(* announce_addrs_task *)

\* Mutation: the expiry is computed once, when the task starts.
BeginOldExpiry ==
    /\ task = "sleep"
    /\ timer <= 0
    /\ task' = "write" /\ timer' = 0 /\ queue' = bound
    /\ lease' = IF \E a \in Addrs : missed[a] < 2 THEN lease ELSE Ttl
    /\ UNCHANGED <<server, prune, table, history>>

\* Mutation: a lifetime of one interval.
BeginShortTtl ==
    /\ task = "sleep"
    /\ timer <= 0
    /\ task' = "write" /\ timer' = 0 /\ lease' = Interval /\ queue' = bound
    /\ UNCHANGED <<server, prune, table, history>>

\* A pass computes the expiry of what it writes.
Begin ==
    /\ task = "sleep"
    /\ timer <= 0
    /\ task' = "write" /\ timer' = 0 /\ lease' = Ttl /\ queue' = bound
    /\ UNCHANGED <<server, prune, table, history>>

\* upsert_value of the next address
Write ==
    /\ task = "write"
    /\ queue # <<>>
    /\ LET a == Head(queue)
       IN  /\ ads' = ads \cup {a}
           /\ left' = [left EXCEPT ![a] = lease]
           /\ missed' = [missed EXCEPT ![a] = 0]
           /\ gone' = [gone EXCEPT ![a] = 0]
           /\ over' = [over EXCEPT ![a] = 0]
    /\ queue' = Tail(queue)
    /\ UNCHANGED <<server, task, timer, lease, prune>>

\* It fails, which ends the pass: the addresses after it are not written either.
WriteFails ==
    /\ task = "write"
    /\ queue # <<>>
    /\ missed' = [a \in Addrs |-> IF InSeq(a, queue) /\ missed[a] < 2
                                  THEN missed[a] + 1 ELSE missed[a]]
    /\ task' = "sleep" /\ timer' = Interval /\ lease' = 0 /\ queue' = <<>>
    /\ UNCHANGED <<server, prune, table, gone, over>>

\* Mutation: the task sleeps for the lifetime.
SleepForTtl ==
    /\ task = "write"
    /\ queue = <<>>
    /\ task' = "sleep" /\ timer' = Ttl /\ lease' = 0
    /\ UNCHANGED <<server, queue, prune, table, history>>

\* All are written.
Sleep ==
    /\ task = "write"
    /\ queue = <<>>
    /\ task' = "sleep" /\ timer' = Interval /\ lease' = 0
    /\ UNCHANGED <<server, queue, prune, table, history>>

-----------------------------------------------------------------------------
(* prune_task, and time *)

\* Mutation: what expires now is kept.
PrunePassLater ==
    LET dead == {a \in ads : left[a] < 0}
    IN  /\ proc # "down"
        /\ prune <= 0
        /\ ads' = ads \ dead
        /\ gone' = [a \in Addrs |-> IF a \in dead THEN 0 ELSE gone[a]]
        /\ over' = [a \in Addrs |-> IF a \in dead THEN 0 ELSE over[a]]
        /\ prune' = PruneInterval
        /\ UNCHANGED <<server, announcer, left, missed>>

\* A pass deletes all that is expired.
PrunePass ==
    LET dead == {a \in ads : left[a] <= 0}
    IN  /\ proc # "down"
        /\ prune <= 0
        /\ ads' = ads \ dead
        /\ gone' = [a \in Addrs |-> IF a \in dead THEN 0 ELSE gone[a]]
        /\ over' = [a \in Addrs |-> IF a \in dead THEN 0 ELSE over[a]]
        /\ prune' = PruneInterval
        /\ UNCHANGED <<server, announcer, left, missed>>

\* It fails; what it missed is for the next one.
PruneFails ==
    /\ proc # "down"
    /\ prune <= 0
    /\ prune' = PruneInterval
    /\ over' = [a \in Addrs |-> 0]
    /\ UNCHANGED <<server, announcer, table, missed, gone>>

\* Histories stop counting past what the properties compare them with.
Later(n, max) == IF n > max THEN n ELSE n + 1

GapBound == 3 * MaxPass + 2 * MaxLate
PruneBound == PruneInterval + MaxLate

\* Time passes, when no task is overdue.
Tick ==
    /\ proc # "down" => prune > -MaxLate
    /\ task = "sleep" => timer > -MaxLate
    /\ task = "write" => lease > Ttl - MaxPass
    /\ timer' = IF task = "sleep" THEN timer - 1 ELSE timer
    /\ lease' = IF task = "write" THEN lease - 1 ELSE lease
    /\ prune' = IF proc = "down" THEN prune ELSE prune - 1
    /\ left' = [a \in Addrs |-> IF a \in ads /\ left[a] > 0 THEN left[a] - 1 ELSE left[a]]
    /\ gone' = [a \in Addrs |-> IF proc = "up" /\ a \notin ads
                                THEN Later(gone[a], GapBound) ELSE gone[a]]
    /\ over' = [a \in Addrs |-> IF proc # "down" /\ a \in ads /\ left[a] = 0
                                THEN Later(over[a], PruneBound) ELSE over[a]]
    /\ UNCHANGED <<server, task, queue, ads, missed>>

Next ==
    \/ \E b \in Binds : Open(b)
    \/ \E a \in Addrs : Bind(a)
    \/ BindFails \/ Serve \/ Stop
    \/ Begin \/ Write \/ WriteFails \/ Sleep
    \/ PrunePass \/ PruneFails \/ Tick

Spec == Init /\ [][Next]_vars

-----------------------------------------------------------------------------
(* Properties *)

\* The times that are left are in their ranges: no task is later, and no pass longer,
\* than the bounds.
TimesOK ==
    /\ proc \in {"down", "bind", "up"}
    /\ bound \in Seq(Addrs)
    /\ task \in {"none", "sleep", "write"}
    /\ task # "none" <=> proc = "up"
    /\ timer \in -MaxLate .. Interval
    /\ lease \in 0 .. Ttl
    /\ task = "write" => lease >= Ttl - MaxPass
    /\ queue \in Seq(Addrs)
    /\ prune \in -MaxLate .. PruneInterval
    /\ ads \subseteq Addrs
    /\ left \in [Addrs -> 0 .. Ttl]
    /\ missed \in [Addrs -> 0 .. 2]
    /\ gone \in [Addrs -> 0 .. GapBound + 1]
    /\ over \in [Addrs -> 0 .. PruneBound + 1]

\* Every variable has its type.
AdsTypeOK == TimesOK /\ asked \in Seq(Addrs) /\ todo \in Seq(Addrs)

\* The server listens on all its addresses or on none: when one of several cannot be
\* bound nothing of the others is left.
BindAllOrNothing ==
    /\ proc = "up" => bound = Expand(asked)
    /\ proc = "down" => bound = <<>>

\* An address that a peer could connect to: one of an interface that is not internal.
Routable(a) ==
    /\ a \notin Skipped
    /\ \E f \in DOMAIN Ifaces : ~Ifaces[f].internal /\ InSeq(a, Ifaces[f].addr)

\* "the wildcard ... is not a routable address a peer could connect to": an address
\* that is bound was asked for, or covered by a wildcard that was; a wildcard is bound
\* only if there is no routable address of its family; and a server that is up is
\* reachable by each address, or family, it was asked to listen on.
BoundReachable ==
    LET Stands(a, w) == a = w \/ (w \in Wildcards /\ Routable(a) /\ IsV4[a] = IsV4[w])
    IN  /\ \A i \in DOMAIN bound :
              /\ \E j \in DOMAIN asked : Stands(bound[i], asked[j])
              /\ bound[i] \in Wildcards =>
                    \A a \in Addrs : IsV4[a] = IsV4[bound[i]] => ~Routable(a)
        /\ proc = "up" =>
              \A j \in DOMAIN asked : \E i \in DOMAIN bound : Stands(bound[i], asked[j])

\* An address this server has written, and missed in no pass since, is advertised at
\* every moment: it is refreshed before it expires, however late its sleeps and slow
\* its writes are within the bounds.
RefreshedInTime == \A a \in Addrs : missed[a] = 0 => a \in ads

\* After one missed refresh an address is missing for no longer than the passes and
\* the sleeps of the two intervals took longer than nothing.
OneMissShortGap ==
    \A a \in Addrs : missed[a] <= 1 /\ a \notin ads => gone[a] <= GapBound

\* "an entry remains readable for up to a minute past this timestamp": what nobody
\* refreshes is pruned within an interval of its expiry, or of a prune that failed.
PrunedInTime == \A a \in ads : over[a] <= PruneBound

\* CFG_ADDR_TTL: "an entry stays valid across a single missed refresh before the db
\* prunes it".
SurvivesOneMiss == \A a \in Addrs : missed[a] <= 1 => a \in ads
=============================================================================
