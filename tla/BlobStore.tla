------------------------------ MODULE BlobStore ------------------------------
(***************************************************************************)
(* The entry file chunks of VmIoDb (rs/v-m-io-db): sqlite rows that name   *)
(* blob files, and the blob files themselves.                              *)
(*                                                                         *)
(* A sqlite statement or transaction is one step: every writer goes through*)
(* the single c_write connection behind a mutex, and transactions are      *)
(* exclusive.  The file system is not covered by that lock, so each file   *)
(* system call of VmIoDb is a step of its own, and the calls of several    *)
(* tasks interleave between any two of them.                               *)
(*                                                                         *)
(* A blob id is a keyed hash of (class, key, idx, content hash, is_final). *)
(* It is modelled by what the code relies on: distinct identities have     *)
(* distinct ids, so a blob belongs to one chunk (ChunkOf) and has one      *)
(* content.  A chunk is a (class, key, idx) and belongs to one entry       *)
(* (EntryOf).                                                              *)
(***************************************************************************)
EXTENDS Naturals, FiniteSets

CONSTANTS Keys,       \* (class, key) pairs of entries
          Chunks,     \* (class, key, idx) triples
          Blobs,      \* blob ids, each the identity of one chunk content
          EntryOf,    \* the entry a chunk belongs to
          ChunkOf,    \* the chunk a blob is a content of
          IsFinal,    \* is a blob the last chunk of its entry
          NoBlob,     \* no chunk row, no blob
          Writers,    \* concurrent calls of VmIoDb::upsert_chunk
          Removers,   \* concurrent calls of VmIoDb::rm
          Readers,    \* concurrent calls of VmIoDb::get_chunk
          PruneBatch, \* PRUNE_BATCH
          Tasks       \* the background tasks that take steps

ASSUME ConstantsOK ==
    /\ EntryOf \in [Chunks -> Keys]
    /\ ChunkOf \in [Blobs -> Chunks]
    /\ NoBlob \notin Blobs
    /\ PruneBatch \in Nat \ {0}
    /\ Tasks \subseteq {"prune", "cleanup"}

ASSUME FinalityOK == IsFinal \in [Blobs -> BOOLEAN]

VARIABLES
    entries,  \* the entries table: is a row there, and is it past its expiry
    rows,     \* the entry_file_chunks table: blob_id by primary key
    files,    \* the blob file at id_path(b): absent, shorter than the blob, full
    mtime,    \* age of the file: written since the last cleanup pass began
              \* ("recent"), or before that ("aged")
    detached, \* upsert_chunk calls whose open file has been unlinked
    writer,   \* progress of each upsert_chunk call
    doomed,   \* blob ids an rm call has yet to unlink
    pruned,   \* blob ids the prune task has yet to unlink
    cleaner,  \* progress of the cleanup task
    reader    \* progress of each get_chunk call

\* History, read by properties only.
VARIABLES
    raced,    \* blobs over which two calls overlapped (see Overlap) since they were
              \* last at rest
    blind,    \* blobs that were whole when a call failed to stat them and went on
              \* to write them, until a commit of them or until they are at rest
    moved     \* get_chunk calls under way whose row changed after they read it

tables  == <<entries, rows>>
disk    == <<files, mtime, detached>>
vars    == <<entries, rows, files, mtime, detached, writer, doomed, pruned,
             cleaner, reader, raced, blind, moved>>

-----------------------------------------------------------------------------
(* Who depends on a blob file, and who is about to remove it *)

\* upsert_chunk has looked at the file of b and not yet committed its row.
Using(w, b) == writer[w].pc \in {"write", "fill", "commit"} /\ writer[w].blob = b

\* The unlink of b is decided and has not happened.
Doomed(b) ==
    \/ \E w \in Writers : writer[w].pc \in {"undo", "drop"} /\ writer[w].blob = b
    \/ \E r \in Removers : b \in doomed[r]
    \/ b \in pruned
    \/ cleaner.pc = "unlink" /\ cleaner.blob = b

Referenced(b) == rows[ChunkOf[b]] = b

\* Two calls meet on b: one of them relies on the file while another one is
\* writing it too or is about to remove it.
Overlap(b) ==
    \E w \in Writers :
        /\ Using(w, b)
        /\ Doomed(b) \/ \E v \in Writers \ {w} : Using(v, b)

\* No row names b, no call relies on its file, and none is about to remove it.
AtRest(b) == ~Referenced(b) /\ ~Doomed(b) /\ \A w \in Writers : ~Using(w, b)

\* The history variables follow every step; few change what is written blindly.
History(written) ==
    /\ raced' = {b \in Blobs : Overlap(b)' \/ (b \in raced /\ ~AtRest(b)')}
    /\ blind' = {b \in written : ~AtRest(b)'}
    /\ moved' = {g \in Readers :
                    /\ reader'[g].pc = "file"
                    /\ g \in moved \/ rows'[ChunkOf[reader'[g].blob]] # reader'[g].blob}

Note == History(blind)

-----------------------------------------------------------------------------
(* Blob files *)

\* A call that has the file open goes on writing to the unlinked file.
Unlink(b) ==
    /\ files' = [files EXCEPT ![b] = "absent"]
    /\ mtime' = [mtime EXCEPT ![b] = "recent"]
    /\ detached' = detached \cup
                     {w \in Writers : writer[w].pc = "fill" /\ writer[w].blob = b}

\* tokio::fs::remove_file with the result ignored: the file may stay.
BestEffortUnlink(b) == Unlink(b) \/ UNCHANGED disk

IdleWriter == [pc |-> "idle", blob |-> NoBlob, wrote |-> FALSE]
IdleCleaner == [pc |-> "asleep", blob |-> NoBlob, todo |-> {}]
IdleReader == [pc |-> "idle", blob |-> NoBlob, final |-> FALSE]

Init ==
    /\ entries = [k \in Keys |-> "none"]
    /\ rows = [c \in Chunks |-> NoBlob]
    /\ files = [b \in Blobs |-> "absent"]
    /\ mtime = [b \in Blobs |-> "recent"]
    /\ detached = {}
    /\ writer = [w \in Writers |-> IdleWriter]
    /\ doomed = [r \in Removers |-> {}]
    /\ pruned = {}
    /\ cleaner = IdleCleaner
    /\ reader = [g \in Readers |-> IdleReader]
    /\ raced = {}
    /\ blind = {}
    /\ moved = {}

-----------------------------------------------------------------------------
(* Entries.  Which upsert wins is the subject of another module; here an    *)
(* upsert leaves the row there, expired already or not.                     *)

UpsertEntry(k) ==
    /\ \E s \in {"live", "expired"} : entries' = [entries EXCEPT ![k] = s]
    /\ UNCHANGED <<rows, disk, writer, doomed, pruned, cleaner, reader>>
    /\ Note

\* The clock passes expires_at_micros.
Expire(k) ==
    /\ entries[k] = "live"
    /\ entries' = [entries EXCEPT ![k] = "expired"]
    /\ UNCHANGED <<rows, disk, writer, doomed, pruned, cleaner, reader>>
    /\ Note

\* Mutation: PRAGMA foreign_keys left off.
DeleteEntriesNoCascade(K) ==
    /\ entries' = [k \in Keys |-> IF k \in K THEN "none" ELSE entries[k]]
    /\ UNCHANGED rows

\* DELETE FROM entries, with the chunk rows following by ON DELETE CASCADE.
DeleteEntries(K) ==
    /\ entries' = [k \in Keys |-> IF k \in K THEN "none" ELSE entries[k]]
    /\ rows' = [c \in Chunks |-> IF EntryOf[c] \in K THEN NoBlob ELSE rows[c]]

\* SELECT blob_id FROM entry_file_chunks for the chunks of those entries.
BlobIdsOf(K) == {b \in Blobs : EntryOf[ChunkOf[b]] \in K /\ Referenced(b)}

-----------------------------------------------------------------------------
(* VmIoDb::upsert_chunk *)

\* Validation has passed, the chunk is encrypted and its blob id derived.
UpsertChunk(w, b) ==
    /\ writer[w].pc = "idle"
    /\ writer' = [writer EXCEPT ![w] = [pc |-> "stat", blob |-> b, wrote |-> FALSE]]
    /\ UNCHANGED <<tables, disk, doomed, pruned, cleaner, reader>>
    /\ Note

\* Mutation: always write, as when nonces were random.
StatBlobRewrite(w) ==
    /\ writer[w].pc = "stat"
    /\ writer' = [writer EXCEPT ![w].pc = "write", ![w].wrote = TRUE]
    /\ UNCHANGED <<tables, disk, doomed, pruned, cleaner, reader>>
    /\ Note

\* Mutation: a file that exists is taken to be whole.
StatBlobExists(w) ==
    /\ writer[w].pc = "stat"
    /\ writer' = [writer EXCEPT ![w] =
                    IF files[@.blob] # "absent"
                    THEN [@ EXCEPT !.pc = "commit"]
                    ELSE [@ EXCEPT !.pc = "write", !.wrote = TRUE]]
    /\ UNCHANGED <<tables, disk, doomed, pruned, cleaner, reader>>
    /\ Note

\* The write is skipped when a file of full length is there already.
StatBlob(w) ==
    /\ writer[w].pc = "stat"
    /\ writer' = [writer EXCEPT ![w] =
                    IF files[@.blob] = "full"
                    THEN [@ EXCEPT !.pc = "commit"]
                    ELSE [@ EXCEPT !.pc = "write", !.wrote = TRUE]]
    /\ UNCHANGED <<tables, disk, doomed, pruned, cleaner, reader>>
    /\ Note

\* The stat fails for a reason of its own: what is there is written anew, and counts
\* as put there by this call.
StatFails(w) ==
    /\ writer[w].pc = "stat"
    /\ writer' = [writer EXCEPT ![w].pc = "write", ![w].wrote = TRUE]
    /\ UNCHANGED <<tables, disk, doomed, pruned, cleaner, reader>>
    /\ History(blind \cup {b \in {writer[w].blob} : files[b] = "full"})

\* blob::write opens the file, creating or truncating it ...
TruncateBlob(w) ==
    /\ writer[w].pc = "write"
    /\ writer' = [writer EXCEPT ![w].pc = "fill"]
    /\ files' = [files EXCEPT ![writer[w].blob] = "short"]
    /\ mtime' = [mtime EXCEPT ![writer[w].blob] = "recent"]
    /\ UNCHANGED <<tables, detached, doomed, pruned, cleaner, reader>>
    /\ Note

\* ... and writes the data, to no effect if the file was unlinked in between.
FillBlob(w) ==
    /\ writer[w].pc = "fill"
    /\ writer' = [writer EXCEPT ![w].pc = "commit"]
    /\ IF w \in detached
       THEN UNCHANGED <<files, mtime>>
       ELSE /\ files' = [files EXCEPT ![writer[w].blob] = "full"]
            /\ mtime' = [mtime EXCEPT ![writer[w].blob] = "recent"]
    /\ detached' = detached \ {w}
    /\ UNCHANGED <<tables, doomed, pruned, cleaner, reader>>
    /\ Note

\* Mutation: a row that was not there counts as replaced.
CommitChunkNoRow(w) ==
    LET b == writer[w].blob
        c == ChunkOf[b]
        replaced == rows[c] # b
    IN  /\ writer[w].pc = "commit"
        /\ entries[EntryOf[c]] # "none"
        /\ rows' = [rows EXCEPT ![c] = b]
        /\ writer' = [writer EXCEPT ![w] =
                        IF replaced
                        THEN [pc |-> "drop", blob |-> rows[c], wrote |-> FALSE]
                        ELSE IdleWriter]
        /\ UNCHANGED <<entries, disk, doomed, pruned, cleaner, reader>>
        /\ History(blind \ {b})

\* Mutation: the blob the row named before is returned though it is the same one.
CommitChunkDropsSame(w) ==
    LET b == writer[w].blob
        c == ChunkOf[b]
        replaced == rows[c] # NoBlob
    IN  /\ writer[w].pc = "commit"
        /\ entries[EntryOf[c]] # "none"
        /\ rows' = [rows EXCEPT ![c] = b]
        /\ writer' = [writer EXCEPT ![w] =
                        IF replaced
                        THEN [pc |-> "drop", blob |-> rows[c], wrote |-> FALSE]
                        ELSE IdleWriter]
        /\ UNCHANGED <<entries, disk, doomed, pruned, cleaner, reader>>
        /\ History(blind \ {b})

\* Sql::upsert_chunk commits.  The foreign key needs the entry to be there; a
\* different blob the row named before is returned, to be unlinked.
CommitChunk(w) ==
    LET b == writer[w].blob
        c == ChunkOf[b]
        replaced == rows[c] \notin {NoBlob, b}
    IN  /\ writer[w].pc = "commit"
        /\ entries[EntryOf[c]] # "none"
        /\ rows' = [rows EXCEPT ![c] = b]
        /\ writer' = [writer EXCEPT ![w] =
                        IF replaced
                        THEN [pc |-> "drop", blob |-> rows[c], wrote |-> FALSE]
                        ELSE IdleWriter]
        /\ UNCHANGED <<entries, disk, doomed, pruned, cleaner, reader>>
        /\ History(blind \ {b})

\* Mutation: the file is removed after an error whoever put it there.
CommitChunkErrUndo(w) ==
    /\ writer[w].pc = "commit"
    /\ writer' = [writer EXCEPT ![w].pc = "undo"]
    /\ UNCHANGED <<tables, disk, doomed, pruned, cleaner, reader>>
    /\ Note

\* Sql::upsert_chunk returns an error: the foreign key, or any other failure
\* of the transaction.  A file this call wrote is to be removed again.
CommitChunkErr(w) ==
    /\ writer[w].pc = "commit"
    /\ writer' = [writer EXCEPT ![w] =
                    IF @.wrote THEN [@ EXCEPT !.pc = "undo"] ELSE IdleWriter]
    /\ UNCHANGED <<tables, disk, doomed, pruned, cleaner, reader>>
    /\ Note

\* remove_file of the file just written, after an error.
UndoWrite(w) ==
    /\ writer[w].pc = "undo"
    /\ BestEffortUnlink(writer[w].blob)
    /\ writer' = [writer EXCEPT ![w] = IdleWriter]
    /\ UNCHANGED <<tables, doomed, pruned, cleaner, reader>>
    /\ Note

\* remove_file of the blob the row named before.
DropReplaced(w) ==
    /\ writer[w].pc = "drop"
    /\ BestEffortUnlink(writer[w].blob)
    /\ writer' = [writer EXCEPT ![w] = IdleWriter]
    /\ UNCHANGED <<tables, doomed, pruned, cleaner, reader>>
    /\ Note

\* The call ends early: blob::write fails, or its future is dropped at an await
\* (a blocking call it had started is completed first, as one of the steps above).
GiveUp(w) ==
    /\ writer[w].pc # "idle"
    /\ writer' = [writer EXCEPT ![w] = IdleWriter]
    /\ detached' = detached \ {w}
    /\ UNCHANGED <<tables, files, mtime, doomed, pruned, cleaner, reader>>
    /\ Note

-----------------------------------------------------------------------------
(* VmIoDb::rm and the prune task *)

Rm(r, k) ==
    /\ doomed[r] = {}
    /\ doomed' = [doomed EXCEPT ![r] = BlobIdsOf({k})]
    /\ DeleteEntries({k})
    /\ UNCHANGED <<disk, writer, pruned, cleaner, reader>>
    /\ Note

UnlinkRemoved(r, b) ==
    /\ b \in doomed[r]
    /\ BestEffortUnlink(b)
    /\ doomed' = [doomed EXCEPT ![r] = @ \ {b}]
    /\ UNCHANGED <<tables, writer, pruned, cleaner, reader>>
    /\ Note

Expired == {k \in Keys : entries[k] = "expired"}

\* Mutation: the two statements of prune_expired select different batches.
PruneExpiredUnbounded(K) ==
    /\ "prune" \in Tasks
    /\ pruned = {}
    /\ K \subseteq Expired
    /\ K # {}
    /\ Cardinality(K) <= PruneBatch
    /\ pruned' = BlobIdsOf(Expired)
    /\ DeleteEntries(K)
    /\ UNCHANGED <<disk, writer, doomed, cleaner, reader>>
    /\ Note

\* Sql::prune_expired: the batch selected is the batch deleted.  It may miss
\* what expired since the task read the clock.
PruneExpired(K) ==
    /\ "prune" \in Tasks
    /\ pruned = {}
    /\ K \subseteq Expired
    /\ K # {}
    /\ Cardinality(K) <= PruneBatch
    /\ pruned' = BlobIdsOf(K)
    /\ DeleteEntries(K)
    /\ UNCHANGED <<disk, writer, doomed, cleaner, reader>>
    /\ Note

UnlinkPruned(b) ==
    /\ b \in pruned
    /\ BestEffortUnlink(b)
    /\ pruned' = pruned \ {b}
    /\ UNCHANGED <<tables, writer, doomed, cleaner, reader>>
    /\ Note

-----------------------------------------------------------------------------
(* The cleanup task *)

\* cleanup_task takes its cutoff, CLEANUP_GRACE before now.  Files that come during
\* the pass are passed over as too young, so it is about those that are there.
StartCleanup ==
    /\ "cleanup" \in Tasks
    /\ cleaner.pc = "asleep"
    /\ cleaner' = [pc |-> "walk", blob |-> NoBlob,
                    todo |-> {b \in Blobs : files[b] # "absent"}]
    /\ mtime' = [b \in Blobs |-> IF files[b] = "absent" THEN mtime[b] ELSE "aged"]
    /\ UNCHANGED <<tables, files, detached, writer, doomed, pruned, reader>>
    /\ Note

\* cleanup_dir reads the metadata of the next file, which is at or before the cutoff.
\* The call that wrote the file may be still to commit, for nothing bounds the time a
\* call takes.
VisitBlob(b) ==
    /\ cleaner.pc = "walk"
    /\ b \in cleaner.todo
    /\ files[b] # "absent" /\ mtime[b] = "aged"
    /\ cleaner' = [pc |-> "check", blob |-> b, todo |-> cleaner.todo \ {b}]
    /\ UNCHANGED <<tables, disk, writer, doomed, pruned, reader>>
    /\ Note

\* The file is gone or younger than the cutoff, or its metadata cannot be read.
SkipBlob(b) ==
    /\ cleaner.pc = "walk"
    /\ b \in cleaner.todo
    /\ cleaner' = [cleaner EXCEPT !.todo = @ \ {b}]
    /\ UNCHANGED <<tables, disk, writer, doomed, pruned, reader>>
    /\ Note

\* Mutation: asks for the row of the chunk instead of the row of the blob.
CheckBlobByChunk ==
    /\ cleaner.pc = "check"
    /\ cleaner' = IF rows[ChunkOf[cleaner.blob]] # NoBlob
                  THEN [cleaner EXCEPT !.pc = "walk", !.blob = NoBlob]
                  ELSE [cleaner EXCEPT !.pc = "unlink"]
    /\ UNCHANGED <<tables, disk, writer, doomed, pruned, reader>>
    /\ Note

\* Sql::blob_id_exists
CheckBlob ==
    /\ cleaner.pc = "check"
    /\ cleaner' = IF Referenced(cleaner.blob)
                  THEN [cleaner EXCEPT !.pc = "walk", !.blob = NoBlob]
                  ELSE [cleaner EXCEPT !.pc = "unlink"]
    /\ UNCHANGED <<tables, disk, writer, doomed, pruned, reader>>
    /\ Note

UnlinkUnreferenced ==
    /\ cleaner.pc = "unlink"
    /\ BestEffortUnlink(cleaner.blob)
    /\ cleaner' = [cleaner EXCEPT !.pc = "walk", !.blob = NoBlob]
    /\ UNCHANGED <<tables, writer, doomed, pruned, reader>>
    /\ Note

\* The walk is complete, or an io or sql error aborts the pass.
EndCleanup ==
    /\ cleaner.pc \in {"walk", "check"}
    /\ cleaner' = IdleCleaner
    /\ UNCHANGED <<tables, disk, writer, doomed, pruned, reader>>
    /\ Note

-----------------------------------------------------------------------------
(* VmIoDb::get_chunk *)

\* Mutation: the finality the caller asks for is not compared.
GetChunkRowAnyFinality(g, c, f) ==
    /\ reader[g].pc # "file"
    /\ reader' = [reader EXCEPT ![g] =
                    IF rows[c] = NoBlob THEN IdleReader
                    ELSE [pc |-> "file", blob |-> rows[c], final |-> f]]
    /\ UNCHANGED <<tables, disk, writer, doomed, pruned, cleaner>>
    /\ Note

\* There is no row, or it is of the other finality, which is an error; or there is
\* a file to read.
GetChunkRow(g, c, f) ==
    /\ reader[g].pc # "file"
    /\ reader' = [reader EXCEPT ![g] =
                    IF rows[c] = NoBlob \/ IsFinal[rows[c]] # f THEN IdleReader
                    ELSE [pc |-> "file", blob |-> rows[c], final |-> f]]
    /\ UNCHANGED <<tables, disk, writer, doomed, pruned, cleaner>>
    /\ Note

\* The read of the row or of the file fails for a reason of its own.
GetChunkErr(g) ==
    /\ reader[g].pc # "idle"
    /\ reader' = [reader EXCEPT ![g] = IdleReader]
    /\ UNCHANGED <<tables, disk, writer, doomed, pruned, cleaner>>
    /\ Note

\* fs::read finds no file, or the length check a short one: the data is lost.
GetChunkFile(g) ==
    /\ reader[g].pc = "file"
    /\ reader' = [reader EXCEPT ![g] =
                    IF files[@.blob] = "full" THEN IdleReader
                    ELSE [IdleReader EXCEPT !.pc = "lost"]]
    /\ UNCHANGED <<tables, disk, writer, doomed, pruned, cleaner>>
    /\ Note

-----------------------------------------------------------------------------
\* The process dies: every call and task is gone, sqlite and the files stay as
\* they are.  VmIoDb::new starts the tasks again.
Crash ==
    /\ writer' = [w \in Writers |-> IdleWriter]
    /\ doomed' = [r \in Removers |-> {}]
    /\ pruned' = {}
    /\ cleaner' = IdleCleaner
    /\ reader' = [g \in Readers |-> IdleReader]
    /\ detached' = {}
    /\ UNCHANGED <<tables, files, mtime>>
    /\ Note

Next ==
    \/ \E k \in Keys : UpsertEntry(k) \/ Expire(k)
    \/ \E w \in Writers, b \in Blobs : UpsertChunk(w, b)
    \/ \E w \in Writers :
          \/ StatBlob(w) \/ StatFails(w) \/ TruncateBlob(w) \/ FillBlob(w)
          \/ CommitChunk(w) \/ CommitChunkErr(w)
          \/ UndoWrite(w) \/ DropReplaced(w) \/ GiveUp(w)
    \/ \E r \in Removers, k \in Keys : Rm(r, k)
    \/ \E r \in Removers, b \in Blobs : UnlinkRemoved(r, b)
    \/ \E K \in SUBSET Keys : PruneExpired(K)
    \/ \E b \in Blobs : UnlinkPruned(b) \/ VisitBlob(b) \/ SkipBlob(b)
    \/ StartCleanup \/ CheckBlob \/ UnlinkUnreferenced \/ EndCleanup
    \/ \E g \in Readers, c \in Chunks, f \in BOOLEAN : GetChunkRow(g, c, f)
    \/ \E g \in Readers : GetChunkErr(g) \/ GetChunkFile(g)
    \/ Crash

Spec == Init /\ [][Next]_vars

-----------------------------------------------------------------------------
(* Properties *)

WriterState ==
    [pc : {"idle", "stat", "write", "fill", "commit", "undo", "drop"},
     blob : Blobs \cup {NoBlob}, wrote : BOOLEAN]
CleanerState ==
    [pc : {"asleep", "walk", "check", "unlink"},
     blob : Blobs \cup {NoBlob}, todo : SUBSET Blobs]
ReaderState ==
    [pc : {"idle", "file", "lost"}, blob : Blobs \cup {NoBlob}, final : BOOLEAN]

\* Every variable has its type, a call that runs has a blob, and a chunk row
\* only ever names a content of its own chunk.
TypeOK ==
    /\ entries \in [Keys -> {"none", "live", "expired"}]
    /\ rows \in [Chunks -> Blobs \cup {NoBlob}]
    /\ \A c \in Chunks : rows[c] # NoBlob => ChunkOf[rows[c]] = c
    /\ files \in [Blobs -> {"absent", "short", "full"}]
    /\ mtime \in [Blobs -> {"recent", "aged"}]
    /\ detached \subseteq Writers
    /\ writer \in [Writers -> WriterState]
    /\ \A w \in Writers : writer[w].pc # "idle" => writer[w].blob # NoBlob
    /\ doomed \in [Removers -> SUBSET Blobs]
    /\ pruned \subseteq Blobs
    /\ cleaner \in CleanerState
    /\ cleaner.pc \in {"check", "unlink"} => cleaner.blob # NoBlob
    /\ reader \in [Readers -> ReaderState]
    /\ \A g \in Readers : reader[g].pc = "file" <=> reader[g].blob # NoBlob
    /\ raced \subseteq Blobs
    /\ blind \subseteq Blobs
    /\ moved \subseteq Readers

\* The blob of a committed chunk row is there, whole, across errors, dropped
\* calls, pruning, cleanup and crashes, with two exceptions: two calls overlapped on
\* it, or the stat of it failed while it was whole, the call wrote it anew, and no
\* call has committed it since.  This is what "write the file, then commit the row;
\* delete the row, then unlink the file" achieves, and its limits.
RowsHaveFiles ==
    \A b \in Blobs \ (raced \cup blind) : Referenced(b) => files[b] = "full"

\* A call about to commit a blob has the whole file under it, and a call filling it
\* has the file that is linked.
WriterReady(b) ==
    \A w \in Writers : Using(w, b) =>
        /\ writer[w].pc = "commit" => files[b] = "full"
        /\ writer[w].pc = "fill" => w \notin detached

\* What nobody wrote blindly: a row has its file, a file about to be unlinked has no
\* row, a call about to truncate a file has no whole one to spoil, and no row names
\* a blob while a call writes it.
Undisturbed(b) ==
    /\ Referenced(b) => files[b] = "full"
    /\ Doomed(b) => ~Referenced(b)
    /\ \A w \in Writers : Using(w, b) =>
           /\ writer[w].pc = "write" => files[b] # "full"
           /\ writer[w].wrote => ~Referenced(b)

\* RowsHaveFiles with what makes it inductive: where no two calls overlapped, a file
\* about to get a row is whole, and a commit ends what a blind write began.
RowsKeepFiles ==
    /\ \A b \in Blobs \ raced :
          /\ ~Overlap(b)
          /\ WriterReady(b)
          /\ b \notin blind => Undisturbed(b)
    /\ \A w \in Writers :
          /\ writer[w].pc = "stat" => ~writer[w].wrote
          /\ writer[w].pc \in {"write", "fill"} => writer[w].wrote
          /\ w \in detached => writer[w].pc = "fill"

\* A chunk row has its entry (the foreign key and its cascade).
ForeignKey == \A c \in Chunks : rows[c] # NoBlob => entries[EntryOf[c]] # "none"

\* get_chunk finds no file, or a short one, only if the row changed between the read
\* of the row and the read of the file, two calls overlapped on the blob, or it was
\* written blindly.  (It may also fail on finality, on sqlite and on the disk.)
LostOnlyWhenMoved ==
    [][\A g \in Readers : reader[g].pc = "file" /\ reader'[g].pc = "lost" =>
          reader[g].blob \in raced \cup blind \/ g \in moved]_vars

\* Blobs are write once: a whole file is truncated only by overlapping calls, or by
\* one whose stat of it failed.
WriteOnce ==
    [][\A b \in Blobs : files[b] = "full" /\ files'[b] = "short" =>
          b \in raced' \cup blind']_vars

\* A file nothing refers to, that no call is about to commit.
Orphan(b) ==
    /\ files[b] # "absent"
    /\ ~Referenced(b)
    /\ \A w \in Writers : ~Using(w, b)

\* Whatever the calls fail to remove, the cleanup task collects.
OrphanCollected == \A b \in Blobs : Orphan(b) ~> ~Orphan(b)

\* The cleanup task is a loop on a timer.  Errors and crashes may end any pass,
\* but not every pass at the same blob.  A pass starts every CLEANUP_INTERVAL, twice
\* the grace, so a file that stays is past the cutoff of every pass but the first one,
\* and it is passed over in some passes, not in all of them.
CleanupFairness ==
    /\ WF_vars(StartCleanup)
    /\ WF_vars(cleaner.todo = {} /\ EndCleanup)
    /\ \A b \in Blobs :
          /\ WF_vars(SkipBlob(b))
          /\ SF_vars(VisitBlob(b))
          /\ SF_vars(cleaner.blob = b /\ CheckBlob)
          /\ SF_vars(cleaner.blob = b /\ UnlinkUnreferenced /\ Unlink(b))

FairSpec == Spec /\ CleanupFairness

-----------------------------------------------------------------------------
(* The chunk store is a map *)

\* The content a chunk has, the content a call has yet to commit, and the content
\* a call has found and not yet read, with the finality it asked for.
Stored(c) == {rows[c]} \ {NoBlob}
Putting(w) ==
    IF writer[w].pc \in {"stat", "write", "fill", "commit"} THEN {writer[w].blob} ELSE {}
Reading(g) ==
    IF reader[g].pc = "file"
    THEN {[content |-> reader[g].blob, final |-> reader[g].final]} ELSE {}

Promised == INSTANCE ChunkMap WITH
    Entries <- Keys,
    Contents <- Blobs,
    Puts <- Writers,
    Reads <- Readers,
    present <- {k \in Keys : entries[k] # "none"},
    store <- [c \in Chunks |-> Stored(c)],
    putting <- [w \in Writers |-> Putting(w)],
    reading <- [g \in Readers |-> Reading(g)],
    lost <- {g \in Readers : reader[g].pc = "lost"},
    outdated <- moved,
    spoilt <- raced \cup blind

\* The rows, the files and the tasks that unlink them are a map from chunks to
\* contents: upsert_chunk takes effect at its commit, rm and the prune task take
\* entries and chunks at once, and a get_chunk that finds no whole file had its chunk
\* changed under it, or had a content that two calls met on or one wrote blindly.
ImplementsChunkMap == Promised!Spec

-----------------------------------------------------------------------------
(* What comments in the code say of the files it unlinks or truncates *)

\* The blobs about to be unlinked as unreferenced: upsert_chunk of the blob a row
\* pointed at before, "which is now unreferenced"; rm, "the sql rows are already
\* gone, so anything we fail to remove here is unreferenced"; prune_backlog,
\* "these are unreferenced now"; cleanup_dir, "no row means no reference".
UnlinkedIsUnreferenced ==
    /\ \A w \in Writers : writer[w].pc = "drop" => ~Referenced(writer[w].blob)
    /\ \A b \in pruned \cup UNION {doomed[r] : r \in Removers} : ~Referenced(b)
    /\ cleaner.pc = "unlink" => ~Referenced(cleaner.blob)
=============================================================================
