# Specifications of v-m.io

TLA+ modules of the v-m.io storage and configuration services, the instances TLC checks, and
theorems TLAPS proves about them. Line numbers are those of the files under `src/rs/`; "db"
is `v-m-io-db`, "back" is `v-m-io-back`, "chan" is `v-m-io-chan`.

## The system

| part | where | state | operations |
|---|---|---|---|
| chunk store | db `lib.rs`, `sql.rs`, `sql/*.sql` | sqlite tables `entries` and `entry_file_chunks`; one file per chunk content | `upsert`, `upsert_chunk`, `rm`, `get`, `get_chunk`, `list`; the prune task; the cleanup task |
| blob files | db `blob.rs` | the files, three levels of shard directories above them | `write`, `id_path`, unlink and `remove_dir` by the callers |
| read pool | db `sql.rs:557-609` | three read connections in a channel | `get`, drop of the guard |
| key schedule, encryption | db `key.rs`, `blob.rs` | none | derivation, AEAD |
| config store | back `lib.rs` | an `AtomicI64` of the process, rows of class `cfg` | `cfg-put`, `cfg-get`, `config_init` |
| address advertisement | back `lib.rs:342-382` | rows `cfg-addr~<addr>` with an expiry | a refresh of every address each minute |
| startup and test mode | back `lib.rs:132-245, 516-712` | none | choose between init, serve and test; resolve the key |
| channel server | chan `lib.rs:57-459` | listeners, connections, a semaphore of permits | accept, wait for a permit, authorize, route, read the body, dispatch; drop |
| channel client | chan `lib.rs:461-524`, `cfg.rs` | a connection pool | one http request per call |
| wire types, command line | `v-m-io-types`, `v-m-io-cli` | none | encode, decode, print |

How the parts meet:

* The server calls the authorization callback (a `get` of `cfg-api-key~<token>`) and then a
  handler. Both run in the future of the connection and are dropped with it. The handlers
  and the advertisement share one `VmIoDb` and one counter.
* `VmIoDb` sends each statement or transaction to a blocking thread. Writers share one
  connection behind a mutex; readers take one of three. A blocking call that has started is
  not stopped when its future is dropped.
* The blob files are outside the reach of sqlite's locks. `upsert_chunk` writes the file,
  then the row; `rm`, prune and a replacing `upsert_chunk` change the rows, then unlink the
  files; the cleanup task removes files that are old and have no row. Nothing holds a lock
  from one of these steps to the next.
* `--init` runs in a process before the server, on the same database, with a counter of its
  own.

What is hard: the interleaving of file system calls with transactions, a crash or a dropped
request between any two of them, timestamps taken in one order and written in another, a
counter that starts again at 0, expiries that forget what they delete, and background tasks
on timers.

What makes each part correct:

* chunk store: a chunk row has its entry, and the whole file it names; a file with no row
  goes away; a read of a chunk that exists succeeds. In one word, it is a map.
* config store: the newest write wins, whatever the order of the statements; timestamps are
  unique; a put made after another one's answer replaces it; calls end. In one word, it is a
  register per key.
* advertisement: an address that is served stays listed, and one that is not goes away.
* server: no handler runs for a request that was not authorized, at most 2048 connections
  are served at a time, a permit comes back.
* server start: it listens on all its addresses or on none.
* listing: pages cover all entries that stay, whatever is written between them; a read
  connection is never lost or shared.
* blob files: no two chunks share one, and none loses the directories above it.

## Modules

| module | what it is |
|---|---|
| `ChunkMap` | what the chunk store promises, abstractly |
| `BlobStore` | chunk rows, blob files and everything that moves either, and how they implement `ChunkMap` |
| `MCBlobStore` | instances of it |
| `BlobStoreProofs` | theorems about it |
| `ConfigRegister` | what the config store promises, abstractly |
| `CfgStore` | timestamps and the config rows, and how they implement `ConfigRegister` |
| `MCCfgStore` | instances of it |
| `CfgStoreProofs` | theorems about it |
| `ChanSrv` | accept loops, connections, permits, requests, and the end of the server |
| `MCChanSrv` | an instance of it |
| `ChanSrvProofs` | theorems about it |
| `AddrAds` | the addresses of the server: binding, advertisement, expiry, prune |
| `MCAddrAds` | an instance of it |
| `AddrAdsProofs` | theorems about it |
| `EntryReads` | lists, the pool of read connections, and a client that pages |
| `MCEntryReads` | an instance of it |
| `EntryReadsProofs` | theorems about it |
| `BlobFiles` | the names of blob files, the directories above them, `blob::write` and the walk of the cleanup task |
| `MCBlobFiles` | an instance of it |
| `BlobFilesProofs` | theorems about it |
| `NatRecursion` | lemmas on induction and recursion over numbers, for the proofs |

How they compose. `CfgStore` INSTANCEs `ConfigRegister`, and `BlobStore` INSTANCEs
`ChunkMap`. The others meet where one abstracts what another models: the unlinks of
`BlobFiles` are any at all, and `BlobStore` has the calls that make them; a file of
`BlobStore` has no directories, and `BlobFiles` shows that they are there as long as the
file is; the ids of `BlobStore` are distinct, which is `FrameInjective`; one write of
`AddrAds`, one upsert of `EntryReads` and the key changes of `ChanSrv` are each the last
step of a call of `CfgStore`.

### BlobStore

State: `entries` (there or not, expired or not), `rows` (the blob each chunk row names),
`files` (absent, short, full), `mtime` (an age, see below), the progress of each call of
`upsert_chunk` (`writer`), the unlinks `rm` and prune still have to make (`doomed`,
`pruned`), the cleanup task (`cleaner`), each `get_chunk` (`reader`), and which calls hold a
file open that is unlinked (`detached`).

A transaction is one step: it runs on the one write connection under its mutex, `BEGIN
EXCLUSIVE`. So `CommitChunk`, `Rm` and `PruneExpired` contain all their statements, the
foreign key check and its cascade included. Each file system call is a step: `upsert_chunk`
is

    UpsertChunk  StatBlob   [TruncateBlob  FillBlob]  CommitChunk      [DropReplaced]
                 StatFails   TruncateBlob  FillBlob   CommitChunkErr   [UndoWrite]

and `GiveUp` ends it anywhere (a failed write, a dropped future). `StatFails` is a stat that
returns an error: the code then takes the arm of a file that is missing or short (db
`lib.rs:345`), so a whole file that a row names is truncated, written anew, and unlinked if
the statement fails too. A `get_chunk` is `GetChunkRow`, which ends there without a row or
with one of another finality, then `GetChunkFile`; `GetChunkErr` is any other error of
sqlite or the disk. A reader that finds no file, or a short one, is "lost".
Open-and-truncate and write are two steps, since `tokio::fs::write` is: a crash between them
leaves a short file, and an unlink between them leaves the call writing to a file that has
no name. Every unlink ignores its result, so `BestEffortUnlink` may do nothing.

A blob id is a keyed hash of the class, key, index, content and finality. The model uses
what the code relies on: distinct identities have distinct ids. A blob is a model value that
belongs to one chunk; its content is not modelled beyond being whole. (An empty content, for
which a short file is whole, is left out.)

Time enters through ages. The cleanup task compares a modification time to a cutoff of five
minutes before the pass, and passes start ten minutes apart. `mtime` is "recent" if the file
was written since the last pass began, else "aged". A pass goes over the files that were
there when it began: it may look up each that was not written since (`VisitBlob`), and pass
over any, as too young, gone, or unreadable (`SkipBlob`). `CLEANUP_GRACE` (db
`lib.rs:146-149`) has to exceed the gap between a write and its commit, and nothing in the
code bounds that gap. So nothing in the model keeps a pass from a file in flight: it takes
the ones it should not, and those are overlaps.

Three history variables serve the properties. `raced` holds each blob on which two calls
overlapped: one of them had looked at the file and not committed while another was doing the
same or had an unlink of it pending. `blind` holds each blob that was whole when a call
failed to stat it and went on to write it; a commit of that blob takes it out, for the file
is whole then. Both forget a blob that is at rest, with no row and no call on it (`AtRest`),
so what happened to a removed chunk excuses nothing when it is stored again. `moved` holds
each read whose row changed after it was read.

Properties:

* `RowsHaveFiles`: a committed row has its whole file, unless the blob is in `raced` or
  `blind`. It says what the order "file before row, row before unlink" gives across errors,
  dropped calls, pruning, cleanup and crashes, and where it ends: at two calls that meet on
  a blob, and at one that rewrites a whole file because it could not stat it and then does
  not commit.
* `RowsKeepFiles`: the same with what makes it inductive.
* `WriteOnce`: a whole file is truncated only where calls overlap, or blindly.
* `ForeignKey`: a chunk row has its entry.
* `LostOnlyWhenMoved`: a `get_chunk` that found its row finds the file gone or short only if
  the row changed before it opened the file, or the blob is in `raced` or `blind`. Its other
  errors (finality, sqlite, the disk) are not about what is stored.
* `OrphanCollected`: a file without a row or a call goes away or gets one.
* `ImplementsChunkMap`: all of it is `ChunkMap`.

`ChunkMap` has the entries that are there, a content per chunk, and the puts and reads under
way. A put takes effect at one moment between its call and its answer (`Put`) or never
(`Refuse`); `Remove` takes entries and all of their chunks in the same moment; a read
returns what its chunk held when it began, if that has the finality it asked for, or an
error (`Return`). There are no files in it, and no tasks. What is seen of those is where a
read may find its data lost (`Lose`): its chunk has changed since it began (`outdated`), or
its content is one whose put was disturbed (`spoilt`). Only a content that is being put can
become spoilt, and it ceases to be when it is put or no longer stored. The mapping takes the
rows for the contents, the calls that have not come to their statement for the puts, `moved`
for `outdated`, and `raced` and `blind` together for `spoilt`. `CommitChunk` is the put,
`Rm` and `PruneExpired` are the removals, the calls and tasks on files are not seen, and
`Crash` is `Abandon`, which leaves the map as it is. An expired entry is there until it is
pruned, as it is for `get_chunk`.

### CfgStore

State: `mode` (serve, init, or over once an init met an error), `clock`, `counter`, `table`
(which write made the row of a key), `call` (the progress of each write). A write is
`Start`, then for an explicit timestamp `FetchMax`, or else `ReadClock`, `LoadCounter`,
`CompareExchange` (back to `LoadCounter` when the counter moved), then the statement:
`UpsertOk`, with or without effect, or `UpsertErr`, which goes back to `ReadClock` until
`MaxTries`. The statement is sqlite's upsert: a conflict on the key is looked at first, and
if the row is at least as new nothing happens and nothing fails; otherwise a row of another
key with the same timestamp makes it fail. With `Faults` it may also fail for a reason of
its own, which the code does not tell apart and retries too.

`Successor` wraps at `MaxMicros`, as i64 addition does in a build without overflow checks
(the release profile does not turn them on). The clock may be set back when `StepsBack`.
`Drop` is a request that goes away. `Restart` loses the counter and the calls, keeps the
table, and starts a server or an init. An init runs its writes one after the other, without
timestamps or expiries, and stops at the first error. `Prune` deletes a row that has an
expiry, at any time.

History: `issued`, the timestamps the process gave out or adopted; `acked`, the writes it
has answered; `forgot`, the keys that were pruned; and in each call `after`, the writes that
were answered when it began.

Properties:

* `NewestWins`: for a key that was never pruned, the row is at least as new as any write of
  it that got an answer, however statements, failures and restarts fall.
* `RowsUnique`: no two rows share a timestamp.
* `StampsIncreaseBelowMax`: a compare-exchange that succeeds gives out more than all that
  was given out or adopted, unless i64::MAX was among it.
* `LaterPutWins`: a write the server stamped is not superseded by one that was answered, by
  the same process, before it began (with the same exception).
* `CallsEnd`: a call that starts ends.
* `ImplementsRegister`: all of it is `ConfigRegister`.

`ConfigRegister` has a register per key and an outcome per write. `Apply` sets the register
of a key to a write that is newer than what it holds and shares its moment with no other,
`Supersede` leaves it, `Fail` gives up any set of writes, `Forget` empties it. The mapping
takes the row of a key (its writer, timestamp and expiry) for the register, and the progress
of a call for its outcome: pending, applied, superseded, or failed, which includes lost. So
a write takes effect at one moment, that of the statement that succeeds; a write that
failed, or whose request was dropped before its statement, has no effect, now or later; and
`Restart`, which loses several calls, is one `Fail`. Pruning is the one step after which an
older write may come back, and it is a step of the abstract register too.

### ChanSrv

State: the accept loops (`loop`), the connections (`conn`), the semaphore (`free`, `queue`),
the tasks that are flagged to be cancelled (`doomed`), the request on each connection
(`req`, `cred`), its database statement (`job`), and the api keys there are (`keys`). A step
is what a task does between two awaits:

    Connect  Accept  Acquire ----------------------> open  ... CloseConn
                     Acquire  (queued)  TakePermit > open  ... CloseConn
                     Acquire  (queued)  Expire ----> refused ... CloseConn

    Receive  RunJob  Authorize  Dispatch  RunJob  Respond
                     Authorize                              (401, 404, 413, 500)
                                BodyAnswered                (400, 413, or no statement)

The semaphore is tokio's, modelled from how `serve_connection` uses it: permits go to
waiters in order, a permit handed to a waiter is no longer free, a waiter that leaves takes
its place out of the queue, and one that is cancelled after it was handed a permit passes it
on. The timeout polls the permit before the clock, so a task that was handed one in time
uses it however late it is polled (`TakePermit` has no guard on time), and `Expire` is for
those that were not.

`RunJob` is the blocking pool: it runs a statement whether or not the task that waits for it
is still there. `DropSrv` flags the accept loops, `EndLoop` cancels one, which closes its
listener and flags its connections, and `Cancel` cancels a connection. A flagged task may be
in the middle of a poll, so nothing else is disabled by the flag.

What is answered without an await changes nothing that is modelled: 401 without a header or
a token, and 503 on a refused connection, which stays refused for as long as its client
keeps it, also when permits are free again. Connections are http/1, with one request at a
time, which is what `ChanCli` speaks.

Properties:

* `PermitAccounting`: each permit is free or with one task, the queue is the tasks that
  wait, and nobody waits while a permit is free.
* `RefusedOnlyWhenFull`: a 503 means that at that moment all permits were held by others.
* `AuthorizedAnew`: a request is handled only if its own key was in the database at a moment
  since it arrived, and gets a 401 for its key only if at such a moment it was not. `seen`
  is the history it needs.
* `ConnsDecided`: a connection that reached a listener is served, refused or closed.
* `RequestsAnswered`: a request that waits for the server gets its answer.
* `DropEndsAll`: after the drop nothing is left that holds the handlers.

### EntryReads

State: the rows of one class (`rows`), the channel of idle connections (`pool`), the holder
of the mutex around its receiver (`mutex`), each read (`reader`), and the range from which
the paging client goes on (`cursor`). A read is

    Start  Lock  Recv  Query      Return
                       QueryErr   Return

`Lock` and `Recv` are the two halves of `checkout_rx.lock().unwrap().recv()`: the reader
waits for a connection with the mutex held. `Query` is the whole statement, which sees one
snapshot. `Return` is the drop of the guard, on each path. A read runs on a blocking thread,
so nothing stops it once it has started.

`Matches`, `Before` and `IsPage` are the WHERE, ORDER BY and LIMIT clauses that `Sql::list`
puts together. A range without a start is `>= 0`, as in the code, while timestamps are any
i64. `GlobPattern` is `glob_prefix_pattern` on sequences of characters, and `GlobMatches` is
sqlite's GLOB, restricted to what a pattern of `glob_prefix_pattern` can hold (stars,
question marks, and classes without ranges or negation).

The pager starts without a bound, then asks for what is after the last timestamp it
received, until a page is not full. That is the use the comment on the UNIQUE column names;
no code of the repository pages yet. History: `seen` is what the pager has received, `owed`
what there was when it began and was not pruned since.

Properties:

* `EachConnOnce`: a connection is in the pool once or with one reader.
* `PagesCover`: a pager that is done has received each entry it was owed, in the version of
  its start or a later one, unless its timestamp was negative. Upserts move an entry behind
  the cursor never and ahead of it always, and timestamps are unique: both are needed.
* `ListsByPrefix`: a list by prefix returns entries whose key starts with it, and all of
  them when it returns fewer than the limit.
* `ReadsEnd`: each read ends, and so does the paging.

### AddrAds

State: the process (`proc`, down, binding or up), the addresses it was started with, those
it has yet to bind and those it has bound; the announce task (`task`, `timer`, `lease`,
`queue`); the sleep of the prune task; the advertisements (`ads`) and what is `left` of the
lifetime of each. Time passes in ticks, and everything that is a deadline in the code is the
time that is left, so the state space is finite. `Tick` does not pass over a task that is
more than `MaxLate` overdue, or a pass that has taken `MaxPass`; these two bounds are
assumptions on the runtime and the disk, and the properties name what they cost.

    Open  Bind ... Serve                     Stop
          BindFails
    Begin  Write ... Sleep       PrunePass
           WriteFails            PruneFails

`Begin` computes the expiry that all writes of a pass carry. `WriteFails` ends a pass, so
that the addresses after it are missed with it. `Expand` is `expand_bind_addrs`: a wildcard
covers the routable addresses of its family, in order, and stands for itself when there are
none. A wildcard next to an address that it covers gives that address twice; it cannot be
bound twice, and the start fails, which is what `BindAllOrNothing` then is about. `Ended`
keeps the table: advertisements of a process that is gone stay until they are pruned.

History: `missed`, the passes since an address was last written by this process; `gone`, the
time since its entry was pruned; `over`, the time an entry is over while the database is
open.

Properties:

* `BindAllOrNothing`: a server that is up has bound exactly what its list expands to; one
  that is down has no listener.
* `BoundReachable`: what is bound was asked for or is covered by a wildcard that was; a
  wildcard is bound only when nothing of its family is routable; everything asked for has a
  listener.
* `RefreshedInTime`: an address that was written and missed in no pass is advertised at
  every moment.
* `OneMissShortGap`: after one missed pass it is missing for at most `GapBound`, three
  passes and two late sleeps.
* `PrunedInTime`: an entry that is over is pruned within `PruneBound`, or that after a prune
  that failed.

### BlobFiles

State: the directories there are (`dirs`), the files (`files`), ages of directories
(`stale`, `quiet`, as in `BlobStore`), the recursion of `cleanup_dir` (`stack`: of each call
its directory, what is left of its listing, and whether it was stale when it was looked at),
and the calls of `blob::write` (`writer`).

A step is one system call. `create_dir_all` is the loop of Rust's standard library: it tries
the last directory (`MkDir`), goes up while a parent is missing (`MkDirErr`) and down again,
and takes a directory that is there for its own (`LookAgain`). The file comes after it
(`Create`), and a directory that is gone by then is the NotFound of `Retry`. `VisitDir` is
the listing that comes to a directory and reads its age, `LeaveDir` the end of the recursion
into it and its `remove_dir`, which refuses one that is not empty. A directory made while
its parent is listed may be in the listing or not. `Unlink` is any unlink, at any time.

`Frame` is the encoding of a chunk's identity, on sequences of numbers; an id is its HKDF,
and ids of distinct frames are taken to differ.

Properties:

* `KeptUntilUnlinked`: a chunk that was stored has its file and every directory above it
  until that chunk is unlinked. It holds because `rmdir` refuses what is not empty and
  because no two chunks have one file.
* `RetryIsEnough`: the loop of two tries runs out only if a second cleanup pass begins
  beside it.
* `EmptyShardsGo`: an empty directory is removed, or used again. A removal makes its parent
  young, so a chain of three goes in three passes.

What `RetryIsEnough` does not say: `create_dir_all` may itself fail, when a directory it
found is removed before it looks again, and that error is not retried. The model has that
path (`LookAgain`), and it needs an empty directory older than the grace.

## Runs

Every passing run finishes within three minutes on two workers, most within one.

| run | instance | checks |
|---|---|---|
| `BlobTasks` | a chunk with two contents and an entry without chunks, two writers, a remover, prune in batches of one; 0.5 million states | `TypeOK`, `RowsKeepFiles`, `RowsHaveFiles`, `ForeignKey`, `WriteOnce` |
| `BlobReads` | a chunk with two contents, one of them final, a writer, a remover, a reader, cleanup; 1.6 million | `RowsKeepFiles`, `RowsHaveFiles`, `LostOnlyWhenMoved`, `ImplementsChunkMap` |
| `BlobLiveness` | one chunk with two contents, a writer, cleanup, fairness; 75 thousand | `OrphanCollected` |
| `CfgWrites` | three writes on two keys, clock steps, restarts; 0.7 million | `CfgTypeOK`, `NewestWins`, `RowsUnique`, `StampsIncreaseBelowMax`, `ImplementsRegister` |
| `CfgInits` | three writes on one key, one of them by init, fairness; 0.3 million | `NewestWins`, `LaterPutWins`, `CallsEnd` |
| `ChanConns` | three connections, two addresses, one permit, one api key that comes and goes, fairness; 39 thousand | `ChanTypeOK`, `PermitAccounting`, `AuthorizedAnew`, `RefusedOnlyWhenFull`, `ConnsDecided`, `RequestsAnswered`, `DropEndsAll` |
| `EntryReads` | a pager and a reader share one connection; three keys, four timestamps, fairness; 0.5 million | `ReadsTypeOK`, `EachConnOnce`, `PagesCover`, `ListsByPrefix`, `ReadsEnd` |
| `AddrAds` | three start lists on a host with a routable and a loopback address; ticks of 15 s; 0.25 million | `AdsTypeOK`, `BindAllOrNothing`, `BoundReachable`, `RefreshedInTime`, `OneMissShortGap`, `PrunedInTime` |
| `BlobFiles` | two writers, two chunks, two levels of directories, fairness; 0.6 million with the liveness graph | `FilesTypeOK`, `KeptUntilUnlinked`, `RetryIsEnough`, `EmptyShardsGo` |
| `BlobUnlinked` | two writers and a remover | finds `UnlinkedIsUnreferenced` violated |
| `CfgInitOverwrite` | a write from a peer and one of init | finds `InitOverwrites` violated |
| `AddrMissed` | the lists of `AddrAds` that can be bound | finds `SurvivesOneMiss` violated |

Why the bounds are enough. A loss needs one call that relies on a file and one that takes it
away, so two writers, or a writer and one of the removers, show each way; a third call adds
no new pair. Two contents of a chunk are needed for a replacement, and for the first content
to come back; both safety runs have them. Two entries with a batch of one make prune choose.
Two writers beside the cleanup task, and chunks of two entries, are too many states
together: that they bring nothing new is in the theorems, which hold for all of them.
 In `CfgStore` a collision
needs two keys, an overtaking needs two writes of one key, and a third write comes between;
two attempts show both the retry and its end. `MaxMicros` is large enough never to be
reached (an explicit 3, a clock to 2, and at most two successors per write); what happens at
i64::MAX is in the theorems, whose `MaxMicros` is any, and in their exceptions. `Faults`,
errors of sqlite's own, is off in `CfgWrites`, where collisions make statements fail and be
retried, and on in `CfgInits`. In `ChanSrv` one permit and three connections give a holder
and two that wait, so that order in the queue, a place given up in front of another and a
permit passed on all occur; with two addresses one accept loop ends before the other. Four
connections and two permits (1.3 million states) satisfy the same safety properties; the
theorems cover every number.

In `EntryReads` two readers and one connection give a holder and one that waits with the
mutex, and then two that wait, one of them for the mutex; more connections only make that
rarer. A page of one makes every boundary between entries one between pages; three keys let
one move from before the cursor to after it while another stays; timestamps from -1 on
include one that no range starts at. The keys `[a`, `*` and `b` and the prefix `[` are those
a wrong pattern gets wrong. The last read ends the system (`CHECK_DEADLOCK FALSE`).

In `AddrAds` a tick is 15 seconds: an interval of 4, a lifetime of 8, a prune each 4.
`MaxPass` and `MaxLate` are 1 tick, within `AdsMargin` (two passes and a late sleep take
less than an interval), which `RefreshedInTime` needs. The lists are both wildcards (of
which one covers an address and the other none), a loopback address, and a wildcard with
what it covers.

In `BlobFiles` two levels are enough for a directory that becomes empty by the removal of
the one in it, and for `create_dir_all` to go up and down; the code has three. The two
chunks are class "a" with key "b" and class "ab" with an empty key, the ones the comment on
`frame` names; their shards share the first level only. `writer.passes` stops at 2.

The violations are comments that promise more than the code does:

* `BlobUnlinked`. db `lib.rs:391`: "the sql rows are already gone, so anything we fail to
  remove here is unreferenced". A writer stats the file before `rm` unlinks it, finds it
  whole, skips the write and commits after the entry is put back. The unlink then takes the
  file of a committed row. The comments of prune (107), cleanup (216) and `upsert_chunk`
  (375) say the same of their unlinks, and the property covers all four.
* `CfgInitOverwrite`. back `lib.rs:516`: "Initialize (or overwrite)". An entry that is ahead
  of the clock stays, and `config_init` reports success.
* `AddrMissed`. back `lib.rs:79`: "Twice the advertisement interval, so an entry stays valid
  across a single missed refresh before the db prunes it". The lifetime counts from the
  start of a pass. After a pass that fails the next one writes after two sleeps and the time
  the passes took, so the entry has expired; a prune that falls between takes it, until that
  write puts it back. `OneMissShortGap` is how long that may be.

Three more comments promise more than the code does, and the properties state what is left
of them by an exception. "It cannot truncate a file that a committed row still depends on"
(db `lib.rs:341`): two calls with one chunk may both find no file, and one truncates after
the other has committed, and one call alone does it when its stat fails; `WriteOnce` excepts
blobs in `raced` and `blind`. "Only ours to remove if this call is what put it there" (db
`lib.rs:366`): after a failed stat `wrote` says so of a file that was there, and the undo
takes it from its row; `RowsHaveFiles` excepts `blind`. "Allocate a strictly increasing
microsecond timestamp" (back `lib.rs:113`): any client may send i64::MAX, `fetch_max` adopts
it, and the sum wraps; `StampsIncreaseBelowMax` and `LaterPutWins` except that.

## Fairness

`OrphanCollected` assumes that the cleanup task goes on: passes start and end (weak fairness
on `StartCleanup` and on the end of a complete walk), and, of each file, a walk that again
and again could visit it, look it up and unlink it does so some time (strong fairness, since
errors and crashes end passes early, and a file may be young), while a file that is passed
over is passed over at once (weak fairness on `SkipBlob`). The task is a loop on a timer,
and an error ends a pass only, which justifies the first. Passes are ten minutes apart and
the grace is five, so a file that stays is past the cutoff of each pass but perhaps the
first, and `SkipBlob` cannot win for ever by age; that errors do not strike at the same file
for ever is an assumption on the disk and on sqlite. Nothing is assumed of the calls.

`CallsEnd` assumes weak fairness of each call's steps: the runtime polls it and sqlite
answers. It needs nothing of the clock, and holds although a compare-exchange may fail,
because each failure is another call's progress.

`ConnsDecided`, `RequestsAnswered` and `DropEndsAll` assume weak fairness of what the
runtime does: it polls tasks that can go on, fires timers, cancels flagged tasks and runs
statements, and `accept` hands out a connection that is there. The last is an assumption: a
process without file descriptors gets an error each time, and the loop goes round with
`continue`. Nothing is assumed of clients: no body needs to arrive and no connection needs
to close. So there is no property that a waiting connection is served: the code has no
timeout on bodies or idle connections.

`ReadsEnd` assumes weak fairness of each read: its thread runs. std's mutex promises no
order, so the assumption for `Lock` is that a thread that can take the free mutex again and
again is not passed over for ever; in the model the others run out of reads, so weak
fairness is enough. Nothing is assumed of the writer: the paging ends because the timestamps
it can come to are bounded, and each page moves the cursor up.

`EmptyShardsGo` assumes `PassFairness`: passes are completed again and again. The task is a
loop on a timer, and an error ends one pass only; that not all fail is an assumption on the
disk and on sqlite. Nothing is assumed of the writers, whose steps only put an end to
emptiness.

## Proofs

`BlobStoreProofs` proves, for any number of entries, chunks, contents, calls and any batch
size, from `ConstantsOK` alone: `Typing`, `RowsKeptFiles` (`RowsKeepFiles`), `NoSilentLoss`
(`RowsHaveFiles`), `BlobsWriteOnce`, `ChunksHaveEntries`, `ReadsLostOnlyWhenMoved`,
`RefinesChunkMap`.
`RowsHaveFiles` is not inductive: a step could unlink a referenced file if one was doomed,
or commit a row over no file. `RowsKeepFiles` adds, for each blob outside `raced`, that a
call about to commit has a whole file under it and one filling a file has not lost it
(`WriterReady`), and, outside `blind` too, that a doomed file has no row and that no row
names a blob that is being written (`Undisturbed`). Over steps without an overlap before or
after, `ReadyStep` keeps the first and `UndisturbedStep` the second. A blind write breaks
the second only. `CommitMakes` shows that a commit restores it from the first, and
`RestSound` that a blob at rest has it: that is why the histories may forget there.

`RefinesChunkMap` proves `ImplementsChunkMap`. `Watched` shows that `Note`, which is part of
every step, is the `Watch` of the map; then there is a lemma for each action that is seen.
The one with something to show is `MapGetChunkFile`: a file that is not whole belongs to a
blob in `raced` or `blind` or has no row (`RowsKeepFiles`), and in the second case the read
is known to be outdated (`OutdatedKnown`).

`CfgStoreProofs` proves, for any keys, writes, timestamps, clock and number of attempts,
from `CfgConstants`: `CfgTyping`, `NewestWriteWins`, `StampsUniqueInTable`,
`StampsAreIncreasing`, `LaterPutsWin`. `NewestWins` rests on two facts, that a row was made
by a write that was applied, and that a step replaces a row only by a newer one
(`RowNewer`). The last two rest on `CounterLeads` (the counter is at least all that was
issued), `CallsIssued` (what calls hold was issued, what they come after was answered) and
`LaterIsGreater` (a call's timestamp is past those it comes after).

`ChanSrvProofs` proves, for any finite set of connections, any listeners, permits and keys,
from `ChanConstants`: `PermitsAccounted`, `ChanTyping`, `RefusalsNeedFull`,
`RequestsAuthorizedAnew`. `PermitAccounting` is inductive with the types; the upper bound of
`free` in `ChanTypeOK` follows from it. Its proof has a lemma for each way a task changes
the semaphore (`AcquireAccounts`, `LeaveQueueAccounts`, `ReleaseAccounts`), and every action
is one of those or leaves holders and waiters as they are. A refusal comes from the queue,
which is empty while a permit is free: that is `RefusalsNeedFull`. `AuthorizedAnew` needs
`AuthInv`: a request is on an open connection, its statement is the one it waits for, and
`seen` has the present state of its key.

`RefinesRegister`, in `CfgStoreProofs`, proves `ImplementsRegister`: the initial state maps
to an initial state, and there is a lemma for each kind of step, which maps to a step of the
register or to a stutter. It uses the types and that a row names an applied write of its
key; that no other register has its moment is what `Collides` keeps.

`EntryReadsProofs` proves, for any keys, timestamps, readers and connections, from
`ReadsConstants`: `ReadsTyping`, `NoConnLostOrShared`, `PagingCovers`, and with `CharsOK`
`PrefixLists`. `EachConnOnce` is
inductive with the types. `PagesCover` speaks of the end only. Its invariant says at each
moment that an entry that is owed still has a row (`OwedThere`), that the owed entries whose
rows the cursor, or the page on its way, is past have been received (`PassedReceived`), and
that the page of a pager about to end holds the rest (`LastPageReceived`). The step that
matters is `Return`, which moves the cursor to the last row of a page: what is skipped would
have to share its timestamp. `PrefixLists` (`ListsByPrefix`) rests on `GlobPrefix`: for
every prefix and key, of any length, with wildcards in them or not, the key matches
`glob_prefix_pattern` of the prefix exactly if it starts with it. A pattern is a piece for
each character of the prefix and a star (`PatternPieces`), and each piece matches its
character and nothing else (`PieceMatches`). `CharsOK` says that the wildcards are among the
characters, and keys and prefixes are made of them.

`AddrAdsProofs` proves, for any intervals, bounds, hosts and lists, from `AdsConstants` and
`AdsMargin`: `AdsTypes`, `BoundTogether`, `AdvertisedWhileRefreshed`, `MissingBriefly`,
`ExpiredArePruned`, and with `IfacesSpecified` `Reachable`. `RestOf`
relates, for each address, what is left of its lifetime to what is left of the sleep and the
lease of the task, by whether it was missed and whether it is still in the queue; a step
either moves the task through its cycle or takes one tick from all of them.
`OverWhileAsleep` says that an entry has been over for no longer than the prune task has
slept. `Binding` says that what is bound and what is left to bind are together what the list
expands to, in order; `BoundTogether` (`BindAllOrNothing`) follows. `Reachable`
(`BoundReachable`) adds what `Expand` computes (`ExpandFacts`): each wildcard gives way to
the routable addresses of its family, if there are any, and nothing else changes.
`IfacesSpecified` says that no interface has an unspecified address: an operating system
assigns none, and the code would pass one on.

`BlobFilesProofs` proves `FrameInjective` (two chunks with one frame are equal: the lengths
in front tell where class and key end, `Lead`) for all sequences, and, for any chunks,
depth, names and writers, from `FilesConstants`, `StoredStays`, `FilesTypeCorrect` and
`RetrySuffices`. `KeptUntilUnlinked` needs that the directories are closed under parents and
files (`Closed`), that what is kept has its file (`Stored`), and `FrameInjective`, by which
the unlink of one chunk is never that of another. `Walk` says that each call of
`cleanup_dir` is one level below its caller, in a directory that there is: the one a call
removes is its own, longer than those above it. `RetryIsEnough` adds `Fresh`. A write that
met no pass has its directories, for they go only within a pass (`RestStep`). When it tries
again within one pass its directory is gone, so nothing known of its age is left (`Calm`):
made once more it is not stale, and a pass removes only what is (`CalmStep`).

Induction. `GlobMatches`, and the `Concat` of which `Covered` and `Expand` are made, are
recursions over sequences, written as recursive functions, which TLA+ defines as the CHOOSE
of a function that satisfies the equation. What they compute is proved in two parts: that
there is such a function (`RecursionDefines` for one that goes up, `BackwardsDefines` for
one that goes down), and what each value is, by the least place where it would be otherwise
(`LeastElement`, `UpTo`). `NatRecursion` states these of sets and functions rather than of
operators, from the well-foundedness of the numbers, because the provers cannot instantiate
a theorem that has an operator for a parameter.

Every invariant and every action property that a passing run checks is stated by a theorem,
and so are both refinements. TLC alone checks the liveness properties, which are out of the
prover's reach: `OrphanCollected`, `CallsEnd`, `ConnsDecided`, `RequestsAnswered`,
`DropEndsAll`, `ReadsEnd`, `EmptyShardsGo`; and it finds the violations.

## Not modelled

* Power loss. A crash is the end of the process: completed writes stay. `synchronous =
  NORMAL` and blobs without fsync promise less than that to a machine that loses power.
* Two processes on one directory at a time, and a `VmIoDb` opened again in the process that
  dropped another, whose blocking calls may still be running.
* Contents, encryption, authentication tags, key derivation, bincode, clap.
* `write_all` in parts: a file is short until it is full.
* A NUL in a prefix: sqlite reads patterns and keys up to it.
* HTTP/2, which the server's builder may accept from other clients: several requests on one
  connection, whose tasks outlive it for a while.
* `accept` failing for ever, and the tasks of closed connections, which the accept loop
  reaps when the next connection comes.
* The end of the range of a list and the list of everything (`All`), `get` (a single row by
  its key), and the class, which every statement fixes.
* Names in the root directory that are not shards, and files that are not blobs, which the
  cleanup skips; files other than those of the model's chunks.
* The time a prune pass takes: in `AddrAds` it is one moment.
* The ports of addresses (so the same address with port 0 twice, which binds two ports, is
  two addresses), and an address whose upsert is superseded or retried (`CfgStore`
  has those).
* The end of `--test`: `back_run_test` drops the server and then removes the directory of
  its database, which statements on the blocking pool may outlive; the comment at back
  `lib.rs:679` ("closing the db") promises more than a drop does. The data is a test's.
  Flags, defaults and key parsing around it are straight-line code.
* `ChanCli` and the cfg extension: one http request per call, no state but reqwest's pool,
  no retry.
* The command line client and the wire types: no state.

## Plan

What the first plan named is modelled, and its theorems are proved. What is left, in the
order of what matters most:

1. Two backends that keep their config in step by paging and explicit timestamps, composed
   of `CfgStore` and `EntryReads`, when the code has a caller that does so.
2. An abstract server that `ChanSrv` implements: a request is answered once, by a handler
   that saw it authorized.
