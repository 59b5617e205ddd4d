--------------------------- MODULE BlobStoreProofs ---------------------------
(* Theorems about BlobStore, for every value of its constants. *)
EXTENDS BlobStore, TLAPS

\* The history keeps its type, whatever is written blindly.
LEMMA HistoryType ==
  ASSUME NEW X \in SUBSET Blobs, History(X)
  PROVE  raced' \subseteq Blobs /\ blind' \subseteq Blobs /\ moved' \subseteq Readers
BY DEF History

LEMMA NoteType ==
  ASSUME TypeOK, Note
  PROVE  raced' \subseteq Blobs /\ blind' \subseteq Blobs /\ moved' \subseteq Readers
BY HistoryType DEF Note, TypeOK

\* An unlink that succeeds or fails keeps the disk in its type.
LEMMA UnlinkType ==
  ASSUME TypeOK, NEW b, BestEffortUnlink(b)
  PROVE  /\ files' \in [Blobs -> {"absent", "short", "full"}]
         /\ mtime' \in [Blobs -> {"recent", "aged"}]
         /\ detached' \subseteq Writers
BY DEF TypeOK, BestEffortUnlink, Unlink, disk

\* Every step keeps every variable in its type.
LEMMA TypeStep == TypeOK /\ [Next]_vars => TypeOK'
<1> SUFFICES ASSUME TypeOK, [Next]_vars PROVE TypeOK'
  OBVIOUS
<1> USE ConstantsOK DEF TypeOK, WriterState, CleanerState, ReaderState, tables, disk
<1>1. ASSUME NEW k \in Keys, UpsertEntry(k) PROVE TypeOK'
  BY <1>1, NoteType DEF UpsertEntry
<1>2. ASSUME NEW k \in Keys, Expire(k) PROVE TypeOK'
  BY <1>2, NoteType DEF Expire
<1>3. ASSUME NEW w \in Writers, NEW b \in Blobs, UpsertChunk(w, b) PROVE TypeOK'
  BY <1>3, NoteType DEF UpsertChunk
<1>4. ASSUME NEW w \in Writers, StatBlob(w) PROVE TypeOK'
  <2>1. writer[w] \in WriterState
    OBVIOUS
  <2>2. CASE files[writer[w].blob] = "full"
    <3>1. writer' = [writer EXCEPT ![w] = [writer[w] EXCEPT !.pc = "commit"]]
      BY <1>4, <2>2 DEF StatBlob
    <3>2. [writer[w] EXCEPT !.pc = "commit"] \in WriterState
      BY <2>1
    <3>3. writer' \in [Writers -> WriterState]
      BY <3>1, <3>2
    <3> QED
      BY <1>4, <3>1, <3>3, NoteType DEF StatBlob
  <2>3. CASE files[writer[w].blob] # "full"
    <3>1. writer' = [writer EXCEPT ![w] =
                       [writer[w] EXCEPT !.pc = "write", !.wrote = TRUE]]
      BY <1>4, <2>3 DEF StatBlob
    <3>2. [writer[w] EXCEPT !.pc = "write", !.wrote = TRUE] \in WriterState
      BY <2>1
    <3>3. writer' \in [Writers -> WriterState]
      BY <3>1, <3>2
    <3> QED
      BY <1>4, <3>1, <3>3, NoteType DEF StatBlob
  <2> QED
    BY <2>2, <2>3
<1>5. ASSUME NEW w \in Writers, TruncateBlob(w) PROVE TypeOK'
  BY <1>5, NoteType DEF TruncateBlob
<1>6. ASSUME NEW w \in Writers, FillBlob(w) PROVE TypeOK'
  BY SMTT(30), <1>6, NoteType DEF FillBlob
<1>7. ASSUME NEW w \in Writers, CommitChunk(w) PROVE TypeOK'
  <2>1. blind \ {writer[w].blob} \in SUBSET Blobs /\ History(blind \ {writer[w].blob})
    BY <1>7 DEF CommitChunk
  <2>2. raced' \subseteq Blobs /\ blind' \subseteq Blobs /\ moved' \subseteq Readers
    BY <2>1, HistoryType
  <2> QED
    BY <1>7, <2>2 DEF CommitChunk, IdleWriter
<1>8. ASSUME NEW w \in Writers, CommitChunkErr(w) PROVE TypeOK'
  <2>1. CASE writer[w].wrote
    BY <1>8, <2>1, NoteType DEF CommitChunkErr
  <2>2. CASE ~writer[w].wrote
    BY <1>8, <2>2, NoteType DEF CommitChunkErr, IdleWriter
  <2> QED
    BY <2>1, <2>2
<1>9. ASSUME NEW w \in Writers, UndoWrite(w) PROVE TypeOK'
  BY <1>9, UnlinkType, NoteType DEF UndoWrite, IdleWriter
<1>10. ASSUME NEW w \in Writers, DropReplaced(w) PROVE TypeOK'
  BY <1>10, UnlinkType, NoteType DEF DropReplaced, IdleWriter
<1>11. ASSUME NEW w \in Writers, GiveUp(w) PROVE TypeOK'
  BY <1>11, NoteType DEF GiveUp, IdleWriter
<1>12. ASSUME NEW r \in Removers, NEW k \in Keys, Rm(r, k) PROVE TypeOK'
  BY <1>12, NoteType DEF Rm, DeleteEntries, BlobIdsOf
<1>13. ASSUME NEW r \in Removers, NEW b \in Blobs, UnlinkRemoved(r, b) PROVE TypeOK'
  BY <1>13, UnlinkType, NoteType DEF UnlinkRemoved
<1>14. ASSUME NEW K \in SUBSET Keys, PruneExpired(K) PROVE TypeOK'
  BY <1>14, NoteType DEF PruneExpired, DeleteEntries, BlobIdsOf
<1>15. ASSUME NEW b \in Blobs, UnlinkPruned(b) PROVE TypeOK'
  BY <1>15, UnlinkType, NoteType DEF UnlinkPruned
<1>16. ASSUME NEW b \in Blobs, VisitBlob(b) PROVE TypeOK'
  BY <1>16, NoteType DEF VisitBlob
<1>17. ASSUME StartCleanup PROVE TypeOK'
  BY <1>17, NoteType DEF StartCleanup
<1>18. ASSUME CheckBlob PROVE TypeOK'
  <2>1. CASE Referenced(cleaner.blob)
    BY <1>18, <2>1, NoteType DEF CheckBlob
  <2>2. CASE ~Referenced(cleaner.blob)
    BY <1>18, <2>2, NoteType DEF CheckBlob
  <2> QED
    BY <2>1, <2>2
<1>19. ASSUME UnlinkUnreferenced PROVE TypeOK'
  BY <1>19, UnlinkType, NoteType DEF UnlinkUnreferenced
<1>20. ASSUME EndCleanup PROVE TypeOK'
  BY <1>20, NoteType DEF EndCleanup, IdleCleaner
<1>21. ASSUME NEW g \in Readers, NEW c \in Chunks, NEW f \in BOOLEAN,
              GetChunkRow(g, c, f)
       PROVE  TypeOK'
  BY <1>21, NoteType DEF GetChunkRow, IdleReader
<1>22. ASSUME NEW g \in Readers, GetChunkFile(g) PROVE TypeOK'
  BY <1>22, NoteType DEF GetChunkFile, IdleReader
<1>23. ASSUME Crash PROVE TypeOK'
  BY <1>23, NoteType DEF Crash, IdleWriter, IdleCleaner, IdleReader
<1>24. ASSUME NEW w \in Writers, StatFails(w) PROVE TypeOK'
  <2>1. writer[w].pc = "stat" /\ writer[w] \in WriterState /\ writer[w].blob \in Blobs
    BY <1>24 DEF StatFails
  <2>2. PICK X \in SUBSET Blobs : History(X)
    BY <1>24, <2>1 DEF StatFails
  <2>3. raced' \subseteq Blobs /\ blind' \subseteq Blobs /\ moved' \subseteq Readers
    BY <2>2, HistoryType
  <2>4. writer' = [writer EXCEPT ![w] = [writer[w] EXCEPT !.pc = "write", !.wrote = TRUE]]
    BY <1>24 DEF StatFails
  <2>5. [writer[w] EXCEPT !.pc = "write", !.wrote = TRUE] \in WriterState
    BY <2>1
  <2>6. writer' \in [Writers -> WriterState]
    BY <2>4, <2>5
  <2> QED
    BY <1>24, <2>1, <2>3, <2>4, <2>6 DEF StatFails
<1>25. ASSUME NEW b \in Blobs, SkipBlob(b) PROVE TypeOK'
  BY <1>25, NoteType DEF SkipBlob
<1>26. ASSUME NEW g \in Readers, GetChunkErr(g) PROVE TypeOK'
  BY <1>26, NoteType DEF GetChunkErr, IdleReader
<1>27. CASE UNCHANGED vars
  BY <1>27 DEF vars
<1> QED
  BY SMTT(30), <1>1, <1>2, <1>3, <1>4, <1>5, <1>6, <1>7, <1>8, <1>9, <1>10, <1>11,
     <1>12, <1>13, <1>14, <1>15, <1>16, <1>17, <1>18, <1>19, <1>20, <1>21, <1>22,
     <1>23, <1>24, <1>25, <1>26, <1>27 DEF Next

\* The types hold in every reachable state.
THEOREM Typing == Spec => []TypeOK
<1>1. Init => TypeOK
  BY ConstantsOK DEF Init, TypeOK, WriterState, CleanerState, ReaderState,
     IdleWriter, IdleCleaner, IdleReader
<1> QED
  BY <1>1, TypeStep, PTL DEF Spec

-----------------------------------------------------------------------------
(* No committed chunk loses its file without an overlap or a blind write *)

WriterFlags ==
    \A w \in Writers :
       /\ writer[w].pc = "stat" => ~writer[w].wrote
       /\ writer[w].pc \in {"write", "fill"} => writer[w].wrote
       /\ w \in detached => writer[w].pc = "fill"

\* Whoever writes says so, and only an open file is detached.
LEMMA FlagsStep == TypeOK /\ WriterFlags /\ [Next]_vars => WriterFlags'
<1> SUFFICES ASSUME TypeOK, WriterFlags, [Next]_vars PROVE WriterFlags'
  OBVIOUS
<1> USE DEF TypeOK, WriterFlags, WriterState, tables, disk
<1>1. ASSUME NEW k \in Keys, UpsertEntry(k) PROVE WriterFlags'
  BY <1>1 DEF UpsertEntry
<1>2. ASSUME NEW k \in Keys, Expire(k) PROVE WriterFlags'
  BY <1>2 DEF Expire
<1>3. ASSUME NEW w \in Writers, NEW x \in Blobs, UpsertChunk(w, x) PROVE WriterFlags'
  BY <1>3 DEF UpsertChunk
<1>4. ASSUME NEW w \in Writers, StatBlob(w) PROVE WriterFlags'
  BY <1>4 DEF StatBlob
<1>5. ASSUME NEW w \in Writers, TruncateBlob(w) PROVE WriterFlags'
  BY <1>5 DEF TruncateBlob
<1>6. ASSUME NEW w \in Writers, FillBlob(w) PROVE WriterFlags'
  BY <1>6 DEF FillBlob
<1>7. ASSUME NEW w \in Writers, CommitChunk(w) PROVE WriterFlags'
  BY <1>7 DEF CommitChunk, IdleWriter
<1>8. ASSUME NEW w \in Writers, CommitChunkErr(w) PROVE WriterFlags'
  BY <1>8 DEF CommitChunkErr, IdleWriter
<1>9. ASSUME NEW w \in Writers, UndoWrite(w) PROVE WriterFlags'
  BY <1>9 DEF UndoWrite, IdleWriter, BestEffortUnlink, Unlink
<1>10. ASSUME NEW w \in Writers, DropReplaced(w) PROVE WriterFlags'
  BY <1>10 DEF DropReplaced, IdleWriter, BestEffortUnlink, Unlink
<1>11. ASSUME NEW w \in Writers, GiveUp(w) PROVE WriterFlags'
  BY <1>11 DEF GiveUp, IdleWriter
<1>12. ASSUME NEW r \in Removers, NEW k \in Keys, Rm(r, k) PROVE WriterFlags'
  BY <1>12 DEF Rm, DeleteEntries, BlobIdsOf
<1>13. ASSUME NEW r \in Removers, NEW x \in Blobs, UnlinkRemoved(r, x) PROVE WriterFlags'
  BY <1>13 DEF UnlinkRemoved, BestEffortUnlink, Unlink
<1>14. ASSUME NEW K \in SUBSET Keys, PruneExpired(K) PROVE WriterFlags'
  BY <1>14 DEF PruneExpired, DeleteEntries, BlobIdsOf
<1>15. ASSUME NEW x \in Blobs, UnlinkPruned(x) PROVE WriterFlags'
  BY <1>15 DEF UnlinkPruned, BestEffortUnlink, Unlink
<1>16. ASSUME NEW x \in Blobs, VisitBlob(x) PROVE WriterFlags'
  BY <1>16 DEF VisitBlob
<1>17. ASSUME StartCleanup PROVE WriterFlags'
  BY <1>17 DEF StartCleanup
<1>18. ASSUME CheckBlob PROVE WriterFlags'
  BY <1>18 DEF CheckBlob
<1>19. ASSUME UnlinkUnreferenced PROVE WriterFlags'
  BY <1>19 DEF UnlinkUnreferenced, BestEffortUnlink, Unlink
<1>20. ASSUME EndCleanup PROVE WriterFlags'
  BY <1>20 DEF EndCleanup, IdleCleaner
<1>21. ASSUME NEW g \in Readers, NEW c \in Chunks, NEW f \in BOOLEAN,
              GetChunkRow(g, c, f)
       PROVE  WriterFlags'
  BY <1>21 DEF GetChunkRow
<1>22. ASSUME NEW g \in Readers, GetChunkFile(g) PROVE WriterFlags'
  BY <1>22 DEF GetChunkFile
<1>23. ASSUME Crash PROVE WriterFlags'
  BY <1>23 DEF Crash, IdleWriter, IdleCleaner
<1>24. ASSUME NEW w \in Writers, StatFails(w) PROVE WriterFlags'
  BY <1>24 DEF StatFails
<1>25. ASSUME NEW x \in Blobs, SkipBlob(x) PROVE WriterFlags'
  BY <1>25 DEF SkipBlob
<1>26. ASSUME NEW g \in Readers, GetChunkErr(g) PROVE WriterFlags'
  BY <1>26 DEF GetChunkErr
<1>27. CASE UNCHANGED vars
  BY <1>27 DEF vars
<1> QED
  BY <1>1, <1>2, <1>3, <1>4, <1>5, <1>6, <1>7, <1>8, <1>9, <1>10, <1>11, <1>12, <1>13,
     <1>14, <1>15, <1>16, <1>17, <1>18, <1>19, <1>20, <1>21, <1>22, <1>23, <1>24,
     <1>25, <1>26, <1>27 DEF Next

\* A call that relies on a blob no two calls overlap on, before and after, stays ready.
LEMMA ReadyStep ==
  ASSUME TypeOK, WriterFlags, [Next]_vars,
         NEW b \in Blobs, WriterReady(b), ~Overlap(b), ~Overlap(b)'
  PROVE  WriterReady(b)'
<1> USE ConstantsOK DEF TypeOK, WriterFlags, WriterState, CleanerState,
        Referenced, WriterReady, Doomed, Using, Overlap, tables, disk
<1>1. ASSUME NEW k \in Keys, UpsertEntry(k) PROVE WriterReady(b)'
  BY <1>1 DEF UpsertEntry
<1>2. ASSUME NEW k \in Keys, Expire(k) PROVE WriterReady(b)'
  BY <1>2 DEF Expire
<1>3. ASSUME NEW w \in Writers, NEW x \in Blobs, UpsertChunk(w, x) PROVE WriterReady(b)'
  BY <1>3 DEF UpsertChunk
<1>4. ASSUME NEW w \in Writers, StatBlob(w) PROVE WriterReady(b)'
  <2>1. /\ UNCHANGED <<rows, files, detached, doomed, pruned, cleaner>>
        /\ \A v \in Writers \ {w} : writer'[v] = writer[v]
        /\ writer[w].pc = "stat" /\ writer'[w].blob = writer[w].blob
    BY <1>4 DEF StatBlob
  <2>2. CASE files[writer[w].blob] = "full"
    <3>1. writer'[w].pc = "commit" /\ writer'[w].wrote = writer[w].wrote
      BY <1>4, <2>2 DEF StatBlob
    <3> QED
      BY <2>1, <2>2, <3>1
  <2>3. CASE files[writer[w].blob] # "full"
    <3>1. writer'[w].pc = "write" /\ writer'[w].wrote
      BY <1>4, <2>3 DEF StatBlob
    <3> QED
      BY <2>1, <2>3, <3>1
  <2> QED
    BY <2>2, <2>3
<1>5. ASSUME NEW w \in Writers, TruncateBlob(w) PROVE WriterReady(b)'
  BY <1>5 DEF TruncateBlob
<1>6. ASSUME NEW w \in Writers, FillBlob(w) PROVE WriterReady(b)'
  BY <1>6 DEF FillBlob
<1>7. ASSUME NEW w \in Writers, CommitChunk(w) PROVE WriterReady(b)'
  <2>1. /\ UNCHANGED <<files, detached>>
        /\ \A v \in Writers \ {w} : writer'[v] = writer[v]
        /\ writer'[w].pc \in {"drop", "idle"}
    BY SMTT(30), <1>7 DEF CommitChunk, IdleWriter
  <2> QED
    BY <2>1
<1>8. ASSUME NEW w \in Writers, CommitChunkErr(w) PROVE WriterReady(b)'
  BY <1>8 DEF CommitChunkErr, IdleWriter
<1>9. ASSUME NEW w \in Writers, UndoWrite(w) PROVE WriterReady(b)'
  BY <1>9 DEF UndoWrite, IdleWriter, BestEffortUnlink, Unlink
<1>10. ASSUME NEW w \in Writers, DropReplaced(w) PROVE WriterReady(b)'
  BY <1>10 DEF DropReplaced, IdleWriter, BestEffortUnlink, Unlink
<1>11. ASSUME NEW w \in Writers, GiveUp(w) PROVE WriterReady(b)'
  BY <1>11 DEF GiveUp, IdleWriter
<1>12. ASSUME NEW r \in Removers, NEW k \in Keys, Rm(r, k) PROVE WriterReady(b)'
  BY <1>12 DEF Rm, DeleteEntries, BlobIdsOf
<1>13. ASSUME NEW r \in Removers, NEW x \in Blobs, UnlinkRemoved(r, x) PROVE WriterReady(b)'
  BY <1>13 DEF UnlinkRemoved, BestEffortUnlink, Unlink
<1>14. ASSUME NEW K \in SUBSET Keys, PruneExpired(K) PROVE WriterReady(b)'
  BY <1>14 DEF PruneExpired, DeleteEntries, BlobIdsOf
<1>15. ASSUME NEW x \in Blobs, UnlinkPruned(x) PROVE WriterReady(b)'
  BY <1>15 DEF UnlinkPruned, BestEffortUnlink, Unlink
<1>16. ASSUME NEW x \in Blobs, VisitBlob(x) PROVE WriterReady(b)'
  BY <1>16 DEF VisitBlob
<1>17. ASSUME StartCleanup PROVE WriterReady(b)'
  BY <1>17 DEF StartCleanup
<1>18. ASSUME CheckBlob PROVE WriterReady(b)'
  BY <1>18 DEF CheckBlob
<1>19. ASSUME UnlinkUnreferenced PROVE WriterReady(b)'
  BY <1>19 DEF UnlinkUnreferenced, BestEffortUnlink, Unlink
<1>20. ASSUME EndCleanup PROVE WriterReady(b)'
  BY <1>20 DEF EndCleanup, IdleCleaner
<1>21. ASSUME NEW g \in Readers, NEW c \in Chunks, NEW f \in BOOLEAN,
              GetChunkRow(g, c, f)
       PROVE  WriterReady(b)'
  BY <1>21 DEF GetChunkRow
<1>22. ASSUME NEW g \in Readers, GetChunkFile(g) PROVE WriterReady(b)'
  BY <1>22 DEF GetChunkFile
<1>23. ASSUME Crash PROVE WriterReady(b)'
  BY <1>23 DEF Crash, IdleWriter, IdleCleaner
<1>24. ASSUME NEW w \in Writers, StatFails(w) PROVE WriterReady(b)'
  <2>1. /\ UNCHANGED <<rows, files, detached, doomed, pruned, cleaner>>
        /\ \A v \in Writers \ {w} : writer'[v] = writer[v]
        /\ writer[w].pc = "stat" /\ writer'[w].blob = writer[w].blob
        /\ writer'[w].pc = "write" /\ writer'[w].wrote
    BY <1>24 DEF StatFails
  <2> QED
    BY <1>24, <2>1
<1>25. ASSUME NEW x \in Blobs, SkipBlob(x) PROVE WriterReady(b)'
  BY <1>25 DEF SkipBlob
<1>26. ASSUME NEW g \in Readers, GetChunkErr(g) PROVE WriterReady(b)'
  BY <1>26 DEF GetChunkErr
<1>27. CASE UNCHANGED vars
  BY <1>27 DEF vars
<1> HIDE DEF TypeOK, WriterFlags, WriterState, CleanerState,
         Referenced, WriterReady, Doomed, Using, Overlap, tables, disk
<1> QED
  BY <1>1, <1>2, <1>3, <1>4, <1>5, <1>6, <1>7, <1>8, <1>9, <1>10, <1>11, <1>12, <1>13,
     <1>14, <1>15, <1>16, <1>17, <1>18, <1>19, <1>20, <1>21, <1>22, <1>23, <1>24,
     <1>25, <1>26, <1>27 DEF Next

\* A commit makes a blob undisturbed, whatever was done to it before: the call has the
\* whole file under it, and no other one relies on it or is about to remove it.
LEMMA CommitMakes ==
  ASSUME TypeOK, NEW b \in Blobs, WriterReady(b), ~Overlap(b),
         NEW w \in Writers, CommitChunk(w), writer[w].blob = b
  PROVE  Undisturbed(b)'
<1> USE ConstantsOK DEF TypeOK, WriterState
<1> DEFINE old == rows[ChunkOf[b]]
<1>1. /\ UNCHANGED <<files, doomed, pruned, cleaner>>
      /\ rows' = [rows EXCEPT ![ChunkOf[b]] = b]
      /\ \A v \in Writers \ {w} : writer'[v] = writer[v]
      /\ writer[w].pc = "commit"
  BY SMTT(30) DEF CommitChunk, disk
<1>2. writer'[w] = IF old \notin {NoBlob, b}
                   THEN [pc |-> "drop", blob |-> old, wrote |-> FALSE]
                   ELSE IdleWriter
  BY SMTT(30) DEF CommitChunk
<1>3. Using(w, b)
  BY <1>1 DEF Using
<1>4. files[b] = "full" /\ ~Doomed(b) /\ \A v \in Writers \ {w} : ~Using(v, b)
  BY <1>1, <1>3 DEF WriterReady, Overlap
<1>5. writer'[w].pc \in {"drop", "idle"} /\ writer'[w].blob # b
  BY <1>2 DEF IdleWriter
<1>6. ~Doomed(b)'
  BY <1>1, <1>4, <1>5 DEF Doomed
<1>7. \A v \in Writers : ~Using(v, b)'
  BY <1>1, <1>4, <1>5 DEF Using
<1> QED
  BY <1>1, <1>4, <1>6, <1>7 DEF Undisturbed, Referenced

\* Such a blob stays undisturbed, unless a stat of it fails while it is whole.
LEMMA UndisturbedStep ==
  ASSUME TypeOK, WriterFlags, [Next]_vars,
         NEW b \in Blobs, WriterReady(b), Undisturbed(b), ~Overlap(b), ~Overlap(b)',
         \A w \in Writers : StatFails(w) => writer[w].blob # b \/ files[b] # "full"
  PROVE  Undisturbed(b)'
<1> USE ConstantsOK DEF TypeOK, WriterFlags, WriterState, CleanerState, Undisturbed,
        Referenced, WriterReady, Doomed, Using, Overlap, tables, disk
<1>1. ASSUME NEW k \in Keys, UpsertEntry(k) PROVE Undisturbed(b)'
  BY <1>1 DEF UpsertEntry
<1>2. ASSUME NEW k \in Keys, Expire(k) PROVE Undisturbed(b)'
  BY <1>2 DEF Expire
<1>3. ASSUME NEW w \in Writers, NEW x \in Blobs, UpsertChunk(w, x) PROVE Undisturbed(b)'
  BY <1>3 DEF UpsertChunk
<1>4. ASSUME NEW w \in Writers, StatBlob(w) PROVE Undisturbed(b)'
  <2>1. /\ UNCHANGED <<rows, files, detached, doomed, pruned, cleaner>>
        /\ \A v \in Writers \ {w} : writer'[v] = writer[v]
        /\ writer[w].pc = "stat" /\ writer'[w].blob = writer[w].blob
    BY <1>4 DEF StatBlob
  <2>2. CASE files[writer[w].blob] = "full"
    <3>1. writer'[w].pc = "commit" /\ ~writer'[w].wrote
      BY <1>4, <2>1, <2>2 DEF StatBlob
    <3>2. Doomed(b)' => Doomed(b)
      BY <2>1, <3>1
    <3>3. \A v \in Writers : Using(v, b)' =>
             /\ writer'[v].pc = "write" => files'[b] # "full"
             /\ writer'[v].wrote => ~Referenced(b)'
      BY <2>1, <3>1
    <3> QED
      BY <2>1, <3>2, <3>3
  <2>3. CASE files[writer[w].blob] # "full"
    <3>1. writer'[w].pc = "write" /\ writer'[w].wrote
      BY <1>4, <2>3 DEF StatBlob
    <3> QED
      BY <2>1, <2>3, <3>1
  <2> QED
    BY <2>2, <2>3
<1>5. ASSUME NEW w \in Writers, TruncateBlob(w) PROVE Undisturbed(b)'
  BY <1>5 DEF TruncateBlob
<1>6. ASSUME NEW w \in Writers, FillBlob(w) PROVE Undisturbed(b)'
  BY <1>6 DEF FillBlob
<1>7. ASSUME NEW w \in Writers, CommitChunk(w) PROVE Undisturbed(b)'
  <2> DEFINE x == writer[w].blob
             old == rows[ChunkOf[x]]
  <2>1. /\ UNCHANGED <<files, detached, doomed, pruned, cleaner>>
        /\ rows' = [rows EXCEPT ![ChunkOf[x]] = x]
        /\ \A v \in Writers \ {w} : writer'[v] = writer[v]
        /\ writer[w].pc = "commit" /\ x \in Blobs
    BY SMTT(30), <1>7 DEF CommitChunk
  <2>2. writer'[w] = IF old \notin {NoBlob, x}
                     THEN [pc |-> "drop", blob |-> old, wrote |-> FALSE]
                     ELSE IdleWriter
    BY SMTT(30), <1>7 DEF CommitChunk
  <2>3. CASE x = b
    BY <1>7, <2>3, CommitMakes
  <2>4. CASE x # b
    <3>1. writer'[w].pc \in {"drop", "idle"}
      BY <2>2 DEF IdleWriter
    <3>2. Referenced(b)' => Referenced(b) /\ ChunkOf[b] # ChunkOf[x]
      BY <2>1, <2>4
    <3>3. Doomed(b)' => Doomed(b) \/ ~Referenced(b)'
      <4>1. writer'[w].blob = b => ~Referenced(b)'
        BY <2>1, <2>2, <2>4 DEF IdleWriter
      <4> QED
        BY <2>1, <4>1
    <3> QED
      BY <2>1, <3>1, <3>2, <3>3
  <2> QED
    BY <2>3, <2>4
<1>8. ASSUME NEW w \in Writers, CommitChunkErr(w) PROVE Undisturbed(b)'
  BY <1>8 DEF CommitChunkErr, IdleWriter
<1>9. ASSUME NEW w \in Writers, UndoWrite(w) PROVE Undisturbed(b)'
  BY <1>9 DEF UndoWrite, IdleWriter, BestEffortUnlink, Unlink
<1>10. ASSUME NEW w \in Writers, DropReplaced(w) PROVE Undisturbed(b)'
  BY <1>10 DEF DropReplaced, IdleWriter, BestEffortUnlink, Unlink
<1>11. ASSUME NEW w \in Writers, GiveUp(w) PROVE Undisturbed(b)'
  BY <1>11 DEF GiveUp, IdleWriter
<1>12. ASSUME NEW r \in Removers, NEW k \in Keys, Rm(r, k) PROVE Undisturbed(b)'
  BY <1>12 DEF Rm, DeleteEntries, BlobIdsOf
<1>13. ASSUME NEW r \in Removers, NEW x \in Blobs, UnlinkRemoved(r, x) PROVE Undisturbed(b)'
  BY <1>13 DEF UnlinkRemoved, BestEffortUnlink, Unlink
<1>14. ASSUME NEW K \in SUBSET Keys, PruneExpired(K) PROVE Undisturbed(b)'
  BY <1>14 DEF PruneExpired, DeleteEntries, BlobIdsOf
<1>15. ASSUME NEW x \in Blobs, UnlinkPruned(x) PROVE Undisturbed(b)'
  BY <1>15 DEF UnlinkPruned, BestEffortUnlink, Unlink
<1>16. ASSUME NEW x \in Blobs, VisitBlob(x) PROVE Undisturbed(b)'
  BY <1>16 DEF VisitBlob
<1>17. ASSUME StartCleanup PROVE Undisturbed(b)'
  BY <1>17 DEF StartCleanup
<1>18. ASSUME CheckBlob PROVE Undisturbed(b)'
  BY <1>18 DEF CheckBlob
<1>19. ASSUME UnlinkUnreferenced PROVE Undisturbed(b)'
  BY <1>19 DEF UnlinkUnreferenced, BestEffortUnlink, Unlink
<1>20. ASSUME EndCleanup PROVE Undisturbed(b)'
  BY <1>20 DEF EndCleanup, IdleCleaner
<1>21. ASSUME NEW g \in Readers, NEW c \in Chunks, NEW f \in BOOLEAN,
              GetChunkRow(g, c, f)
       PROVE  Undisturbed(b)'
  BY <1>21 DEF GetChunkRow
<1>22. ASSUME NEW g \in Readers, GetChunkFile(g) PROVE Undisturbed(b)'
  BY <1>22 DEF GetChunkFile
<1>23. ASSUME Crash PROVE Undisturbed(b)'
  BY <1>23 DEF Crash, IdleWriter, IdleCleaner
<1>24. ASSUME NEW w \in Writers, StatFails(w) PROVE Undisturbed(b)'
  <2>1. /\ UNCHANGED <<rows, files, detached, doomed, pruned, cleaner>>
        /\ \A v \in Writers \ {w} : writer'[v] = writer[v]
        /\ writer[w].pc = "stat" /\ writer'[w].blob = writer[w].blob
        /\ writer'[w].pc = "write" /\ writer'[w].wrote
    <3>1. writer' = [writer EXCEPT ![w] = [writer[w] EXCEPT !.pc = "write", !.wrote = TRUE]]
      BY <1>24 DEF StatFails
    <3>2. /\ UNCHANGED <<rows, files, detached, doomed, pruned, cleaner>>
          /\ writer[w].pc = "stat" /\ writer[w] \in WriterState
      BY <1>24 DEF StatFails
    <3>3. /\ \A v \in Writers \ {w} : writer'[v] = writer[v]
          /\ writer'[w] = [writer[w] EXCEPT !.pc = "write", !.wrote = TRUE]
      BY <3>1
    <3> QED
      BY <3>2, <3>3
  <2>2. writer[w].blob = b => files[b] # "full" /\ ~Referenced(b)
    <3>1. writer[w].blob # b \/ files[b] # "full"
      BY <1>24
    <3> QED
      BY <3>1
  <2>3. Doomed(b)' => Doomed(b)
    BY <2>1
  <2>4. \A v \in Writers : Using(v, b)' =>
           /\ writer'[v].pc = "write" => files'[b] # "full"
           /\ writer'[v].wrote => ~Referenced(b)'
    BY <2>1, <2>2
  <2> QED
    BY <2>1, <2>3, <2>4
<1>25. ASSUME NEW x \in Blobs, SkipBlob(x) PROVE Undisturbed(b)'
  BY <1>25 DEF SkipBlob
<1>26. ASSUME NEW g \in Readers, GetChunkErr(g) PROVE Undisturbed(b)'
  BY <1>26 DEF GetChunkErr
<1>27. CASE UNCHANGED vars
  BY <1>27 DEF vars
<1> HIDE DEF TypeOK, WriterFlags, WriterState, CleanerState, Undisturbed,
         Referenced, WriterReady, Doomed, Using, Overlap, tables, disk
<1> QED
  BY <1>1, <1>2, <1>3, <1>4, <1>5, <1>6, <1>7, <1>8, <1>9, <1>10, <1>11, <1>12, <1>13,
     <1>14, <1>15, <1>16, <1>17, <1>18, <1>19, <1>20, <1>21, <1>22, <1>23, <1>24,
     <1>25, <1>26, <1>27 DEF Next

\* At rest a blob has all that is asked of it.
LEMMA RestSound ==
  ASSUME NEW b, AtRest(b)'
  PROVE  ~Overlap(b)' /\ WriterReady(b)' /\ Undisturbed(b)'
BY DEF AtRest, Overlap, WriterReady, Undisturbed

\* Every step keeps the history, and two of them change what is written blindly.
LEMMA NextHistory == Next => Note \/ \E w \in Writers : StatFails(w) \/ CommitChunk(w)
BY ZenonT(60) DEF Next, UpsertEntry, Expire, UpsertChunk, StatBlob, TruncateBlob, FillBlob,
   CommitChunkErr, UndoWrite, DropReplaced, GiveUp, Rm, UnlinkRemoved,
   PruneExpired, UnlinkPruned, StartCleanup, VisitBlob, SkipBlob, CheckBlob,
   UnlinkUnreferenced, EndCleanup, GetChunkRow, GetChunkErr, GetChunkFile, Crash

LEMMA NextWrites == Next => \E X : History(X)
BY NextHistory DEF Note, StatFails, CommitChunk

\* A blob that is not at rest is forgotten by neither history: it stays raced, ...
LEMMA RacedStep ==
  ASSUME TypeOK, \A x \in Blobs \ raced : ~Overlap(x), [Next]_vars,
         NEW b \in Blobs, ~AtRest(b)', b \notin raced'
  PROVE  b \notin raced /\ ~Overlap(b) /\ ~Overlap(b)'
<1>1. CASE Next
  <2>1. PICK X : History(X)
    BY <1>1, NextWrites
  <2> QED
    BY <2>1 DEF History
<1>2. CASE UNCHANGED vars
  BY <1>2 DEF vars, Overlap, Using, Doomed
<1> QED
  BY <1>1, <1>2

\* ... and stays written blindly unless a call commits it.
LEMMA BlindStep ==
  ASSUME [Next]_vars, NEW b \in Blobs, ~AtRest(b)', b \notin blind'
  PROVE  /\ b \in blind => \E w \in Writers : CommitChunk(w) /\ writer[w].blob = b
         /\ \A w \in Writers : StatFails(w) => writer[w].blob # b \/ files[b] # "full"
<1>1. ASSUME NEW w \in Writers, StatFails(w) PROVE writer[w].blob # b \/ files[b] # "full"
  BY <1>1 DEF StatFails, History
<1>2. ASSUME b \in blind
      PROVE  \E w \in Writers : CommitChunk(w) /\ writer[w].blob = b
  <2>1. CASE Note
    BY <1>2, <2>1 DEF Note, History
  <2>2. CASE UNCHANGED vars
    BY <1>2, <2>2 DEF vars
  <2>3. ASSUME NEW w \in Writers, StatFails(w) PROVE FALSE
    BY <1>2, <2>3 DEF StatFails, History
  <2>4. ASSUME NEW w \in Writers, CommitChunk(w) PROVE writer[w].blob = b
    BY <1>2, <2>4 DEF CommitChunk, History
  <2> QED
    BY <2>1, <2>2, <2>3, <2>4, NextHistory
<1> QED
  BY <1>1, <1>2

\* RowsKeepFiles is inductive.
LEMMA KeepStep == TypeOK /\ RowsKeepFiles /\ [Next]_vars => RowsKeepFiles'
<1> SUFFICES ASSUME TypeOK, RowsKeepFiles, [Next]_vars PROVE RowsKeepFiles'
  OBVIOUS
<1>1. WriterFlags /\ WriterFlags'
  BY FlagsStep DEF RowsKeepFiles, WriterFlags
<1>2. ASSUME NEW b \in Blobs, b \notin raced'
      PROVE  ~Overlap(b)' /\ WriterReady(b)' /\ (b \notin blind' => Undisturbed(b)')
  <2>1. CASE AtRest(b)'
    BY <2>1, RestSound
  <2>2. CASE ~AtRest(b)'
    <3>1. b \notin raced /\ ~Overlap(b) /\ ~Overlap(b)'
      BY <1>2, <2>2, RacedStep DEF RowsKeepFiles
    <3>2. WriterReady(b) /\ (b \notin blind => Undisturbed(b))
      BY <3>1 DEF RowsKeepFiles
    <3>3. WriterReady(b)'
      BY <1>1, <3>1, <3>2, ReadyStep
    <3>4. ASSUME b \notin blind' PROVE Undisturbed(b)'
      <4>1. CASE b \in blind
        BY <2>2, <3>1, <3>2, <3>4, <4>1, BlindStep, CommitMakes
      <4>2. CASE b \notin blind
        BY <1>1, <2>2, <3>1, <3>2, <3>4, <4>2, BlindStep, UndisturbedStep
      <4> QED
        BY <4>1, <4>2
    <3> QED
      BY <3>1, <3>3, <3>4
  <2> QED
    BY <2>1, <2>2
<1> QED
  BY <1>1, <1>2 DEF RowsKeepFiles, WriterFlags

\* Initially nothing is referenced and nothing runs.
LEMMA KeepInit == Init => RowsKeepFiles
BY ConstantsOK DEF Init, RowsKeepFiles, Undisturbed, Overlap, Using, Doomed, Referenced,
   WriterReady, IdleWriter, IdleCleaner

\* What a call relies on is there, and stays there until the call is over: for any
\* number of entries, chunks, contents and callers.
THEOREM RowsKeptFiles == Spec => []RowsKeepFiles
BY KeepInit, KeepStep, Typing, PTL DEF Spec

\* The blob of a committed chunk row is there, whole, unless two calls overlapped on
\* it or one wrote it blindly after a stat that failed, and none committed it since.
THEOREM NoSilentLoss == Spec => []RowsHaveFiles
<1>1. RowsKeepFiles => RowsHaveFiles
  BY DEF RowsKeepFiles, RowsHaveFiles, Undisturbed
<1> QED
  BY <1>1, RowsKeptFiles, PTL
-----------------------------------------------------------------------------
(* Blobs are write once *)

\* Only blob::write truncates, and the call found the file missing or short, or failed
\* to stat it: if it is whole by now, another call is at work on it.
THEOREM BlobsWriteOnce == Spec => WriteOnce
<1>1. ASSUME TypeOK, RowsKeepFiles, [Next]_vars, NEW b \in Blobs,
             files[b] = "full", files'[b] = "short"
      PROVE  b \in raced' \cup blind'
  <2> USE DEF TypeOK, tables, disk
  <2>1. \/ UNCHANGED files
        \/ \E w \in Writers : TruncateBlob(w) \/ FillBlob(w)
        \/ \E x : BestEffortUnlink(x)
    BY ZenonT(60), <1>1 DEF Next, vars, UpsertEntry, Expire, UpsertChunk, StatBlob, StatFails,
       CommitChunk, CommitChunkErr, UndoWrite, DropReplaced, GiveUp, Rm,
       UnlinkRemoved, PruneExpired, UnlinkPruned, StartCleanup, VisitBlob, SkipBlob, CheckBlob,
       UnlinkUnreferenced, EndCleanup, GetChunkRow, GetChunkErr, GetChunkFile, Crash
  <2>2. ~ UNCHANGED files
    BY <1>1
  <2>3. ~ \E w \in Writers : FillBlob(w)
    BY <1>1 DEF FillBlob
  <2>4. ~ \E x : BestEffortUnlink(x)
    BY <1>1 DEF BestEffortUnlink, Unlink
  <2>5. PICK w \in Writers : TruncateBlob(w)
    BY <2>1, <2>2, <2>3, <2>4
  <2>6. writer[w].pc = "write" /\ writer[w].blob = b
    BY <1>1, <2>5 DEF TruncateBlob
  <2>7. b \in raced \cup blind
    BY <1>1, <2>6 DEF RowsKeepFiles, Undisturbed, Using
  <2>8. ~AtRest(b)'
    BY <2>5, <2>6 DEF TruncateBlob, AtRest, Using
  <2> QED
    BY <2>5, <2>7, <2>8 DEF TruncateBlob, Note, History
<1>2. TypeOK /\ RowsKeepFiles /\ [Next]_vars
        => [\A b \in Blobs : files[b] = "full" /\ files'[b] = "short" =>
              b \in raced' \cup blind']_vars
  BY <1>1
<1> QED
  BY <1>2, Typing, RowsKeptFiles, PTL DEF Spec, WriteOnce

-----------------------------------------------------------------------------
(* The tables *)

\* A chunk row has its entry: commits check it, deletions cascade.
THEOREM ChunksHaveEntries == Spec => []ForeignKey
<1>1. Init => ForeignKey
  BY ConstantsOK DEF Init, ForeignKey
<1>2. TypeOK /\ ForeignKey /\ [Next]_vars => ForeignKey'
  <2> SUFFICES ASSUME TypeOK, ForeignKey, [Next]_vars PROVE ForeignKey'
    OBVIOUS
  <2> USE ConstantsOK DEF TypeOK, ForeignKey
  <2>1. CASE UNCHANGED <<entries, rows>>
    BY <2>1
  <2>2. ASSUME NEW k \in Keys, UpsertEntry(k) \/ Expire(k) PROVE ForeignKey'
    BY <2>2 DEF UpsertEntry, Expire
  <2>3. ASSUME NEW w \in Writers, CommitChunk(w) PROVE ForeignKey'
    BY <2>3 DEF CommitChunk, WriterState
  <2>4. ASSUME NEW K, DeleteEntries(K) PROVE ForeignKey'
    BY <2>4 DEF DeleteEntries
  <2>5. \/ UNCHANGED <<entries, rows>>
        \/ \E k \in Keys : UpsertEntry(k) \/ Expire(k)
        \/ \E w \in Writers : CommitChunk(w)
        \/ \E K \in SUBSET Keys : DeleteEntries(K)
    BY ZenonT(60) DEF Next, vars, tables, UpsertChunk, StatBlob, StatFails, TruncateBlob, FillBlob,
       CommitChunkErr, UndoWrite, DropReplaced, GiveUp, Rm, UnlinkRemoved,
       PruneExpired, UnlinkPruned, StartCleanup, VisitBlob, SkipBlob, CheckBlob,
       UnlinkUnreferenced, EndCleanup, GetChunkRow, GetChunkErr, GetChunkFile, Crash
  <2> QED
    BY <2>1, <2>2, <2>3, <2>4, <2>5
<1> QED
  BY <1>1, <1>2, Typing, PTL DEF Spec
-----------------------------------------------------------------------------
(* Reads *)

\* A read under way is known to be outdated once its chunk has another content.
OutdatedKnown ==
    \A g \in Readers : reader[g].pc = "file" /\ ~Referenced(reader[g].blob) => g \in moved

LEMMA OutdatedStep == OutdatedKnown /\ [Next]_vars => OutdatedKnown'
<1>1. ASSUME NEW X, History(X) PROVE OutdatedKnown'
  BY <1>1 DEF History, OutdatedKnown, Referenced
<1>2. CASE UNCHANGED vars
  BY <1>2 DEF vars, OutdatedKnown, Referenced
<1> QED
  BY <1>1, <1>2, NextWrites

\* Only the read of the file may find the data lost: it has a blob in its hands that
\* no row names any more, or one that RowsKeepFiles excepts.
THEOREM ReadsLostOnlyWhenMoved == Spec => LostOnlyWhenMoved
<1>1. Init => OutdatedKnown
  BY DEF Init, OutdatedKnown, IdleReader
<1>2. ASSUME TypeOK, RowsKeepFiles, OutdatedKnown, [Next]_vars,
             NEW g \in Readers, reader[g].pc = "file", reader'[g].pc = "lost"
      PROVE  reader[g].blob \in raced \cup blind \/ g \in moved
  <2> USE DEF TypeOK, ReaderState
  <2>1. \/ UNCHANGED reader
        \/ \E h \in Readers : \/ GetChunkErr(h) \/ GetChunkFile(h)
                             \/ \E c \in Chunks, f \in BOOLEAN : GetChunkRow(h, c, f)
        \/ Crash
    BY ZenonT(60), <1>2 DEF Next, vars, UpsertEntry, Expire, UpsertChunk, StatBlob, StatFails,
       TruncateBlob, FillBlob, CommitChunk, CommitChunkErr, UndoWrite, DropReplaced, GiveUp,
       Rm, UnlinkRemoved, PruneExpired, UnlinkPruned, StartCleanup, VisitBlob, SkipBlob,
       CheckBlob, UnlinkUnreferenced, EndCleanup
  <2>2. ~ UNCHANGED reader
    BY <1>2
  <2>3. ASSUME NEW h \in Readers, NEW c \in Chunks, NEW f \in BOOLEAN, GetChunkRow(h, c, f)
        PROVE  FALSE
    <3>1. h # g
      BY <1>2, <2>3 DEF GetChunkRow
    <3> QED
      BY <1>2, <2>3, <3>1 DEF GetChunkRow
  <2>4. ASSUME NEW h \in Readers, GetChunkErr(h) PROVE FALSE
    BY <1>2, <2>4 DEF GetChunkErr, IdleReader
  <2>5. ~Crash
    BY <1>2 DEF Crash, IdleReader
  <2>6. PICK h \in Readers : GetChunkFile(h)
    BY <2>1, <2>2, <2>3, <2>4, <2>5
  <2>7. h = g
    BY <1>2, <2>6 DEF GetChunkFile
  <2>8. PICK b \in Blobs : reader[g].blob = b
    BY <1>2
  <2>9. files[b] # "full"
    <3>1. ASSUME files[reader[g].blob] = "full" PROVE reader'[g] = IdleReader
      BY <1>2, <2>6, <2>7, <3>1 DEF GetChunkFile
    <3> QED
      BY <1>2, <2>8, <3>1 DEF IdleReader
  <2>10. b \in raced \cup blind \/ ~Referenced(b)
    BY <1>2, <2>9 DEF RowsKeepFiles, Undisturbed
  <2> QED
    BY <1>2, <2>8, <2>10 DEF OutdatedKnown
<1>3. TypeOK /\ RowsKeepFiles /\ OutdatedKnown /\ [Next]_vars
        => [\A g \in Readers : reader[g].pc = "file" /\ reader'[g].pc = "lost" =>
              reader[g].blob \in raced \cup blind \/ g \in moved]_vars
  BY <1>2
<1> QED
  BY <1>1, <1>3, OutdatedStep, Typing, RowsKeptFiles, PTL DEF Spec, LostOnlyWhenMoved

-----------------------------------------------------------------------------
(* The chunk store implements ChunkMap *)

\* A row that names a blob gives its chunk that content.
LEMMA OneContent ==
  ASSUME NEW r, NEW x, x # NoBlob
  PROVE  {r} \ {NoBlob} = {x} <=> r = x
<1>1. CASE r = NoBlob
  <2>1. x \notin {r} \ {NoBlob}
    BY <1>1
  <2> QED
    BY <1>1, <2>1
<1>2. CASE r # NoBlob
  <2>1. {r} \ {NoBlob} = {r}
    BY <1>2
  <2> QED
    BY <2>1
<1> QED
  BY <1>1, <1>2

\* A chunk holds a blob just if the row names it.
LEMMA StoredIs ==
  ASSUME NEW b \in Blobs
  PROVE  /\ [c \in Chunks |-> Stored(c)][ChunkOf[b]] = {b} <=> Referenced(b)
         /\ [c \in Chunks |-> Stored(c)]'[ChunkOf[b]] = {b} <=> Referenced(b)'
<1>1. ChunkOf[b] \in Chunks /\ b # NoBlob
  BY ConstantsOK
<1>2. /\ {rows[ChunkOf[b]]} \ {NoBlob} = {b} <=> rows[ChunkOf[b]] = b
      /\ {rows'[ChunkOf[b]]} \ {NoBlob} = {b} <=> rows'[ChunkOf[b]] = b
  BY ONLY <1>1, OneContent
<1> QED
  BY <1>1, <1>2 DEF Stored, Referenced

\* What a step writes in the history is what the map watches.
LEMMA Watched ==
  ASSUME TypeOK, TypeOK', NEW X, NEW H, History(X), blind \ X \subseteq H,
         \A b \in X \ blind : b \in Blobs /\ \E w \in Writers : Putting(w)' = {b}
  PROVE  Promised!WatchHealing(H)
<1> USE ConstantsOK DEF TypeOK
<1>1. ASSUME NEW b \in (raced \cup blind) \ (raced' \cup blind')
      PROVE  b \in H \/ [c \in Chunks |-> Stored(c)]'[ChunkOf[b]] # {b}
  <2>1. b \in Blobs
    OBVIOUS
  <2>2. CASE AtRest(b)'
    BY <2>1, <2>2, StoredIs DEF AtRest
  <2>3. CASE ~AtRest(b)'
    BY <1>1, <2>1, <2>3 DEF History
  <2> QED
    BY <2>2, <2>3
<1>2. ASSUME NEW b \in (raced' \cup blind') \ (raced \cup blind)
      PROVE  \E w \in Writers : [v \in Writers |-> Putting(v)]'[w] = {b}
  <2>1. PICK w \in Writers : Putting(w)' = {b}
    <3>1. CASE b \in raced'
      <4>1. b \in Blobs /\ Overlap(b)'
        BY <1>2, <3>1 DEF History
      <4>2. PICK w \in Writers : Using(w, b)'
        BY <4>1 DEF Overlap
      <4>3. Putting(w)' = {b}
        BY <4>2 DEF Putting, Using
      <4> QED
        BY <4>3
    <3>2. CASE b \in blind'
      BY <1>2, <3>2 DEF History
    <3> QED
      BY <1>2, <3>1, <3>2
  <2> QED
    BY <2>1
<1>3. ASSUME NEW g \in Readers
      PROVE  g \in moved' <=>
               \E r \in [h \in Readers |-> Reading(h)]'[g] :
                  \/ g \in moved
                  \/ [c \in Chunks |-> Stored(c)]'[ChunkOf[r.content]] # {r.content}
  <2>1. CASE reader'[g].pc # "file"
    <3>1. Reading(g)' = {}
      BY <2>1 DEF Reading
    <3> QED
      BY <2>1, <3>1 DEF History
  <2>2. CASE reader'[g].pc = "file"
    <3>1. PICK x \in Blobs : reader'[g].blob = x
      BY <2>2 DEF ReaderState
    <3>2. PICK f : reader'[g].final = f
      OBVIOUS
    <3>3. Reading(g)' = {[content |-> x, final |-> f]}
      BY <2>2, <3>1, <3>2 DEF Reading
    <3>4. g \in moved' <=> g \in moved \/ ~Referenced(x)'
      BY <2>2, <3>1 DEF History, Referenced
    <3>5. [h \in Readers |-> Reading(h)]'[g] = {[content |-> x, final |-> f]}
      BY <3>3
    <3>6. [c \in Chunks |-> Stored(c)]'[ChunkOf[x]] # {x} <=> ~Referenced(x)'
      BY ONLY StoredIs, <3>1
    <3>7. \A r \in [h \in Readers |-> Reading(h)]'[g] : r.content = x
      BY ONLY <3>5
    <3>8. \E r \in [h \in Readers |-> Reading(h)]'[g] : TRUE
      BY ONLY <3>5
    <3> HIDE DEF TypeOK
    <3> QED
      BY ONLY Zenon, <3>4, <3>6, <3>7, <3>8
  <2> QED
    BY <2>1, <2>2
<1>4. moved' =
        {g \in Readers : \E r \in [h \in Readers |-> Reading(h)]'[g] :
                  \/ g \in moved
                  \/ [c \in Chunks |-> Stored(c)]'[ChunkOf[r.content]] # {r.content}}
  <2>1. moved' \subseteq Readers
    OBVIOUS
  <2> HIDE DEF TypeOK
  <2> QED
    BY <1>3, <2>1
<1> QED
  BY <1>1, <1>2, <1>4 DEF Promised!WatchHealing

\* A step of the writers, the readers or neither, as the map sees it.
LEMMA MapStays ==
  /\ UNCHANGED rows => UNCHANGED [c \in Chunks |-> Stored(c)]
  /\ UNCHANGED writer => UNCHANGED [w \in Writers |-> Putting(w)]
  /\ UNCHANGED reader => /\ UNCHANGED [g \in Readers |-> Reading(g)]
                         /\ UNCHANGED {g \in Readers : reader[g].pc = "lost"}
  /\ UNCHANGED entries => UNCHANGED {k \in Keys : entries[k] # "none"}
BY DEF Stored, Putting, Reading

\* The steps between those of a put are not seen, nor those of the tasks.
LEMMA MapHidden ==
  ASSUME TypeOK, Promised!Watch, UNCHANGED <<rows, reader>>,
         \A k \in Keys : entries'[k] = "none" <=> entries[k] = "none",
         \A w \in Writers : Putting(w)' = Putting(w)
  PROVE  Promised!Spoil
<1>1. UNCHANGED {k \in Keys : entries[k] # "none"}
  OBVIOUS
<1>2. UNCHANGED [w \in Writers |-> Putting(w)]
  OBVIOUS
<1> QED
  BY <1>1, <1>2, MapStays DEF Promised!Spoil

\* A call that changes its writer only, from one content under way to another or none.
LEMMA PuttingChanges ==
  ASSUME NEW w \in Writers, NEW X, Putting(w)' = X,
         \A v \in Writers \ {w} : writer'[v] = writer[v]
  PROVE  [v \in Writers |-> Putting(v)]' = [[v \in Writers |-> Putting(v)] EXCEPT ![w] = X]
<1>1. \A v \in Writers \ {w} : Putting(v)' = Putting(v)
  BY DEF Putting
<1> QED
  BY <1>1

LEMMA ReadingChanges ==
  ASSUME NEW g \in Readers, NEW X, Reading(g)' = X,
         \A h \in Readers \ {g} : reader'[h] = reader[h]
  PROVE  [h \in Readers |-> Reading(h)]' = [[h \in Readers |-> Reading(h)] EXCEPT ![g] = X]
<1>1. \A h \in Readers \ {g} : Reading(h)' = Reading(h)
  BY DEF Reading
<1> QED
  BY <1>1

LEMMA MapUpsertEntry ==
  ASSUME TypeOK, Promised!Watch, NEW k \in Keys, UpsertEntry(k)
  PROVE  Promised!Create(k)
<1>1. {j \in Keys : entries'[j] # "none"} = {j \in Keys : entries[j] # "none"} \cup {k}
  <2>1. PICK s \in {"live", "expired"} : entries' = [entries EXCEPT ![k] = s]
    BY DEF UpsertEntry
  <2> QED
    BY <2>1 DEF TypeOK
<1>2. UNCHANGED <<rows, writer, reader>>
  BY DEF UpsertEntry
<1> QED
  BY <1>1, <1>2, MapStays DEF Promised!Create

LEMMA MapUpsertChunk ==
  ASSUME TypeOK, Promised!Watch, NEW w \in Writers, NEW b \in Blobs, UpsertChunk(w, b)
  PROVE  Promised!BeginPut(w, b)
<1>1. /\ UNCHANGED <<entries, rows, reader>>
      /\ writer[w].pc = "idle"
      /\ writer'[w].pc = "stat" /\ writer'[w].blob = b
      /\ \A v \in Writers \ {w} : writer'[v] = writer[v]
  BY DEF UpsertChunk, tables, TypeOK
<1>2. Putting(w) = {} /\ Putting(w)' = {b}
  BY <1>1 DEF Putting
<1>3. [v \in Writers |-> Putting(v)]' = [[v \in Writers |-> Putting(v)] EXCEPT ![w] = {b}]
  BY <1>1, <1>2, PuttingChanges
<1> QED
  BY <1>1, <1>2, <1>3, MapStays DEF Promised!BeginPut

LEMMA MapCommitChunk ==
  ASSUME TypeOK, TypeOK', NEW w \in Writers, CommitChunk(w)
  PROVE  Promised!Put(w)
<1>1. PICK b \in Blobs : writer[w].blob = b
  BY DEF CommitChunk, TypeOK, WriterState
<1>2. /\ UNCHANGED <<entries, reader>>
      /\ writer[w].pc = "commit"
      /\ entries[EntryOf[ChunkOf[b]]] # "none"
      /\ rows' = [rows EXCEPT ![ChunkOf[b]] = b]
      /\ \A v \in Writers \ {w} : writer'[v] = writer[v]
  BY SMTT(30), <1>1 DEF CommitChunk, TypeOK
<1>3. writer'[w].pc \in {"drop", "idle"}
  BY SMTT(30), <1>1 DEF CommitChunk, TypeOK, IdleWriter
<1>4. Putting(w) = {b} /\ Putting(w)' = {}
  BY <1>1, <1>2, <1>3 DEF Putting
<1>5. [v \in Writers |-> Putting(v)]' = [[v \in Writers |-> Putting(v)] EXCEPT ![w] = {}]
  BY <1>2, <1>4, PuttingChanges
<1>6. ChunkOf[b] \in Chunks /\ EntryOf[ChunkOf[b]] \in Keys /\ b # NoBlob
  BY ConstantsOK
<1>7. [c \in Chunks |-> Stored(c)]' = [[c \in Chunks |-> Stored(c)] EXCEPT ![ChunkOf[b]] = {b}]
  <2>1. Stored(ChunkOf[b])' = {b}
    <3>1. rows'[ChunkOf[b]] = b
      BY <1>2, <1>6 DEF TypeOK
    <3> QED
      BY <1>6, <3>1, OneContent DEF Stored
  <2>2. ASSUME NEW c \in Chunks, c # ChunkOf[b] PROVE Stored(c)' = Stored(c)
    BY <1>2, <2>2 DEF Stored, TypeOK
  <2> QED
    BY <2>1, <2>2
<1>8. [v \in Writers |-> Putting(v)][w] = {b}
  BY <1>4
<1>9. EntryOf[ChunkOf[b]] \in {k \in Keys : entries[k] # "none"}
  BY <1>2, <1>6
<1>10. History(blind \ {b})
  BY <1>1 DEF CommitChunk
<1>11. Promised!WatchHealing({b})
  BY <1>10, Watched
<1> QED
  BY <1>2, <1>5, <1>7, <1>8, <1>9, <1>11, MapStays DEF Promised!Put

\* A call that ends early has had no effect, or had it before.
LEMMA MapEndsEarly ==
  ASSUME TypeOK, Promised!Watch, NEW w \in Writers, CommitChunkErr(w) \/ GiveUp(w)
  PROVE  Promised!Refuse(w) \/ Promised!Spoil
<1>1. /\ UNCHANGED <<entries, rows, reader>>
      /\ \A v \in Writers \ {w} : writer'[v] = writer[v]
  BY DEF CommitChunkErr, GiveUp, tables, TypeOK
<1>2. writer'[w].pc \in {"undo", "idle"}
  BY DEF CommitChunkErr, GiveUp, TypeOK, WriterState, IdleWriter
<1>3. Putting(w)' = {}
  BY <1>2 DEF Putting
<1>4. CASE Putting(w) = {}
  <2>1. \A v \in Writers : Putting(v)' = Putting(v)
    BY <1>1, <1>3, <1>4 DEF Putting
  <2> QED
    BY <1>1, <2>1, MapHidden
<1>5. CASE Putting(w) # {}
  <2>1. [v \in Writers |-> Putting(v)]' = [[v \in Writers |-> Putting(v)] EXCEPT ![w] = {}]
    BY <1>1, <1>3, PuttingChanges
  <2> QED
    BY <1>1, <1>5, <2>1, MapStays DEF Promised!Refuse
<1> QED
  BY <1>4, <1>5

LEMMA MapDeletes ==
  ASSUME TypeOK, Promised!Watch, NEW K, DeleteEntries(K), UNCHANGED <<writer, reader>>
  PROVE  Promised!Remove(K)
<1>1. {k \in Keys : entries'[k] # "none"} = {k \in Keys : entries[k] # "none"} \ K
  BY DEF DeleteEntries
<1>2. ASSUME NEW c \in Chunks
      PROVE  Stored(c)' = IF EntryOf[c] \in K THEN {} ELSE Stored(c)
  BY <1>2 DEF DeleteEntries, Stored
<1>3. [c \in Chunks |-> Stored(c)]' =
        [c \in Chunks |-> IF EntryOf[c] \in K THEN {} ELSE [d \in Chunks |-> Stored(d)][c]]
  BY <1>2
<1> QED
  BY <1>1, <1>3, MapStays DEF Promised!Remove

LEMMA MapGetChunkRow ==
  ASSUME TypeOK, Promised!Watch, NEW g \in Readers, NEW c \in Chunks, NEW f \in BOOLEAN,
         GetChunkRow(g, c, f)
  PROVE  Promised!BeginRead(g, c, f)
<1>1. /\ UNCHANGED <<entries, rows, writer>>
      /\ reader[g].pc # "file"
      /\ \A h \in Readers \ {g} : reader'[h] = reader[h]
  BY DEF GetChunkRow, tables, TypeOK
<1>2. PICK r : rows[c] = r
  OBVIOUS
<1>3. reader'[g] = IF r = NoBlob \/ IsFinal[r] # f THEN IdleReader
                   ELSE [pc |-> "file", blob |-> r, final |-> f]
  BY <1>2 DEF GetChunkRow, TypeOK
<1> DEFINE X == IF r = NoBlob \/ IsFinal[r] # f THEN {} ELSE {[content |-> r, final |-> f]}
<1>4. Reading(g) = {} /\ Reading(g)' = X /\ reader'[g].pc # "lost"
  <2>1. CASE r = NoBlob \/ IsFinal[r] # f
    BY <1>1, <1>3, <2>1 DEF Reading, IdleReader
  <2>2. CASE ~(r = NoBlob \/ IsFinal[r] # f)
    <3>1. reader'[g] = [pc |-> "file", blob |-> r, final |-> f]
      BY <1>3, <2>2
    <3> QED
      BY <1>1, <2>2, <3>1 DEF Reading
  <2> QED
    BY <2>1, <2>2
<1>5. X = {[content |-> b, final |-> f] :
             b \in {d \in [e \in Chunks |-> Stored(e)][c] : IsFinal[d] = f}}
  BY <1>2 DEF Stored
<1>6. [h \in Readers |-> Reading(h)]' = [[h \in Readers |-> Reading(h)] EXCEPT ![g] = X]
  BY <1>1, <1>4, ReadingChanges
<1>7. {h \in Readers : reader'[h].pc = "lost"} = {h \in Readers : reader[h].pc = "lost"} \ {g}
  BY <1>1, <1>4
<1> QED
  BY <1>1, <1>4, <1>5, <1>6, <1>7, MapStays DEF Promised!BeginRead

\* A read that is over, with a content, without one or with an error.
LEMMA MapReadEnds ==
  ASSUME Promised!Watch, NEW g \in Readers, UNCHANGED <<entries, rows, writer>>,
         reader'[g] = IdleReader, \A h \in Readers \ {g} : reader'[h] = reader[h]
  PROVE  Promised!Return(g)
<1>1. Reading(g)' = {} /\ reader'[g].pc # "lost"
  BY DEF Reading, IdleReader
<1>2. [h \in Readers |-> Reading(h)]' = [[h \in Readers |-> Reading(h)] EXCEPT ![g] = {}]
  BY <1>1, ReadingChanges
<1>3. {h \in Readers : reader'[h].pc = "lost"} = {h \in Readers : reader[h].pc = "lost"} \ {g}
  BY <1>1
<1> QED
  BY <1>2, <1>3, MapStays DEF Promised!Return

\* The file is whole, or the read may find its data lost.
LEMMA MapGetChunkFile ==
  ASSUME TypeOK, RowsKeepFiles, OutdatedKnown, Promised!Watch,
         NEW g \in Readers, GetChunkFile(g)
  PROVE  Promised!Return(g) \/ Promised!Lose(g)
<1>1. /\ UNCHANGED <<entries, rows, writer>>
      /\ reader[g].pc = "file"
      /\ \A h \in Readers \ {g} : reader'[h] = reader[h]
  BY DEF GetChunkFile, tables, TypeOK
<1>2. PICK b \in Blobs : reader[g].blob = b
  BY <1>1 DEF TypeOK, ReaderState
<1>3. PICK f : reader[g].final = f
  OBVIOUS
<1>4. CASE files[b] = "full"
  <2>1. reader'[g] = IdleReader
    BY <1>2, <1>4 DEF GetChunkFile, TypeOK
  <2> QED
    BY <1>1, <2>1, MapReadEnds
<1>5. CASE files[b] # "full"
  <2>1. reader'[g].pc = "lost"
    BY <1>1, <1>2, <1>5 DEF GetChunkFile, TypeOK, IdleReader
  <2>2. Reading(g)' = {}
    BY <2>1 DEF Reading
  <2>3. [h \in Readers |-> Reading(h)]' = [[h \in Readers |-> Reading(h)] EXCEPT ![g] = {}]
    BY <1>1, <2>2, ReadingChanges
  <2>4. {h \in Readers : reader'[h].pc = "lost"} =
          {h \in Readers : reader[h].pc = "lost"} \cup {g}
    BY <1>1, <2>1
  <2>5. b \in raced \cup blind \/ ~Referenced(b)
    BY <1>5 DEF RowsKeepFiles, Undisturbed
  <2>6. b \in raced \cup blind \/ g \in moved
    BY <1>1, <1>2, <2>5 DEF OutdatedKnown
  <2>7. [content |-> b, final |-> f] \in [h \in Readers |-> Reading(h)][g]
    BY <1>1, <1>2, <1>3 DEF Reading
  <2>8. \E r \in [h \in Readers |-> Reading(h)][g] : r.content \in raced \cup blind \/ g \in moved
    BY <2>6, <2>7
  <2> QED
    BY <1>1, <2>3, <2>4, <2>8, MapStays DEF Promised!Lose
<1> QED
  BY <1>4, <1>5

LEMMA MapCrash ==
  ASSUME Promised!Watch, Crash
  PROVE  Promised!Abandon
<1>1. UNCHANGED <<entries, rows>>
  BY DEF Crash, tables
<1>2. \A w \in Writers : Putting(w)' = {}
  BY DEF Crash, IdleWriter, Putting
<1>3. \A g \in Readers : Reading(g)' = {} /\ reader'[g].pc # "lost"
  BY DEF Crash, IdleReader, Reading
<1>4. [w \in Writers |-> Putting(w)]' = [w \in Writers |-> {}]
  BY <1>2
<1>5. [g \in Readers |-> Reading(g)]' = [g \in Readers |-> {}]
  BY <1>3
<1>6. {g \in Readers : reader'[g].pc = "lost"} = {}
  BY <1>3
<1> QED
  BY <1>1, <1>4, <1>5, <1>6, MapStays DEF Promised!Abandon

\* A blind write begins: a put is disturbed.
LEMMA MapStatFails ==
  ASSUME TypeOK, TypeOK', NEW w \in Writers, StatFails(w)
  PROVE  Promised!Spoil
<1>1. PICK b \in Blobs : writer[w].blob = b
  BY DEF StatFails, TypeOK, WriterState
<1>2. /\ UNCHANGED <<entries, rows, reader>>
      /\ \A v \in Writers \ {w} : writer'[v] = writer[v]
      /\ writer[w].pc = "stat" /\ writer'[w].pc = "write" /\ writer'[w].blob = b
  BY <1>1 DEF StatFails, tables, TypeOK, WriterState
<1>3. Putting(w) = {b} /\ Putting(w)' = {b}
  BY <1>1, <1>2 DEF Putting
<1>4. \A v \in Writers : Putting(v)' = Putting(v)
  BY <1>2, <1>3 DEF Putting
<1>5. PICK X : History(blind \cup X) /\ X \subseteq {b}
  BY <1>1 DEF StatFails
<1>6. Promised!WatchHealing({})
  <2>1. blind \ (blind \cup X) \subseteq {}
    OBVIOUS
  <2>2. \A x \in (blind \cup X) \ blind : x \in Blobs /\ \E v \in Writers : Putting(v)' = {x}
    BY <1>3, <1>5
  <2> QED
    BY <1>5, <2>1, <2>2, Watched
<1> QED
  BY <1>2, <1>4, <1>6, MapHidden DEF Promised!Watch

\* Every step that writes nothing in the history is a step of the map, or is not seen.
LEMMA MapNoted ==
  ASSUME TypeOK, TypeOK', RowsKeepFiles, OutdatedKnown, Next, Note
  PROVE  Promised!Next
<1>1. Promised!Watch
  BY Watched DEF Note, Promised!Watch
<1>2. ASSUME UNCHANGED <<entries, rows, writer, reader>> PROVE Promised!Next
  <2>1. \A w \in Writers : Putting(w)' = Putting(w)
    BY <1>2 DEF Putting
  <2> QED
    BY <1>1, <1>2, <2>1, MapHidden DEF Promised!Next
<1>3. ASSUME NEW k \in Keys, UpsertEntry(k) PROVE Promised!Next
  BY <1>1, <1>3, MapUpsertEntry DEF Promised!Next
<1>4. ASSUME NEW k \in Keys, Expire(k) PROVE Promised!Next
  <2>1. UNCHANGED <<rows, writer, reader>>
    BY <1>4 DEF Expire
  <2>2. \A j \in Keys : entries'[j] = "none" <=> entries[j] = "none"
    BY <1>4 DEF Expire, TypeOK
  <2>3. \A w \in Writers : Putting(w)' = Putting(w)
    BY <2>1 DEF Putting
  <2> QED
    BY <1>1, <2>1, <2>2, <2>3, MapHidden DEF Promised!Next
<1>5. ASSUME NEW w \in Writers, NEW b \in Blobs, UpsertChunk(w, b) PROVE Promised!Next
  BY <1>1, <1>5, MapUpsertChunk DEF Promised!Next
<1>6. ASSUME NEW w \in Writers,
             StatBlob(w) \/ TruncateBlob(w) \/ FillBlob(w) \/ UndoWrite(w) \/ DropReplaced(w)
      PROVE  Promised!Next
  <2>1. UNCHANGED <<entries, rows, reader>>
    BY <1>6 DEF StatBlob, TruncateBlob, FillBlob, UndoWrite, DropReplaced, tables
  <2>2. \A v \in Writers \ {w} : writer'[v] = writer[v]
    BY <1>6 DEF StatBlob, TruncateBlob, FillBlob, UndoWrite, DropReplaced, TypeOK
  <2>3. Putting(w)' = Putting(w)
    <3>1. CASE StatBlob(w)
      <4>1. writer[w].pc = "stat" /\ writer'[w].pc \in {"write", "commit"}
        <5>1. CASE files[writer[w].blob] = "full"
          BY <3>1, <5>1 DEF StatBlob, TypeOK, WriterState
        <5>2. CASE files[writer[w].blob] # "full"
          BY <3>1, <5>2 DEF StatBlob, TypeOK, WriterState
        <5> QED
          BY <5>1, <5>2
      <4>2. writer'[w].blob = writer[w].blob
        BY <3>1 DEF StatBlob, TypeOK, WriterState
      <4> QED
        BY <4>1, <4>2 DEF Putting
    <3>2. CASE TruncateBlob(w) \/ FillBlob(w)
      <4>1. writer[w].pc \in {"write", "fill"} /\ writer'[w].pc \in {"fill", "commit"}
        BY <3>2 DEF TruncateBlob, FillBlob, TypeOK, WriterState
      <4>2. writer'[w].blob = writer[w].blob
        BY <3>2 DEF TruncateBlob, FillBlob, TypeOK, WriterState
      <4> QED
        BY <4>1, <4>2 DEF Putting
    <3>3. CASE UndoWrite(w) \/ DropReplaced(w)
      <4>1. writer[w].pc \in {"undo", "drop"} /\ writer'[w].pc = "idle"
        BY <3>3 DEF UndoWrite, DropReplaced, TypeOK, IdleWriter
      <4> QED
        BY <4>1 DEF Putting
    <3> QED
      BY <1>6, <3>1, <3>2, <3>3
  <2>4. \A v \in Writers : Putting(v)' = Putting(v)
    BY <2>2, <2>3 DEF Putting
  <2> QED
    BY <1>1, <2>1, <2>4, MapHidden DEF Promised!Next
<1>7. ASSUME NEW w \in Writers, CommitChunk(w) PROVE Promised!Next
  BY <1>7, MapCommitChunk DEF Promised!Next
<1>8. ASSUME NEW w \in Writers, CommitChunkErr(w) \/ GiveUp(w) PROVE Promised!Next
  BY <1>1, <1>8, MapEndsEarly DEF Promised!Next
<1>9. ASSUME NEW K \in SUBSET Keys, DeleteEntries(K), UNCHANGED <<writer, reader>>
      PROVE  Promised!Next
  BY <1>1, <1>9, MapDeletes DEF Promised!Next
<1>10. ASSUME NEW g \in Readers, NEW c \in Chunks, NEW f \in BOOLEAN, GetChunkRow(g, c, f)
       PROVE  Promised!Next
  BY <1>1, <1>10, MapGetChunkRow DEF Promised!Next
<1>11. ASSUME NEW g \in Readers, GetChunkFile(g) PROVE Promised!Next
  BY <1>1, <1>11, MapGetChunkFile DEF Promised!Next
<1>12. ASSUME NEW g \in Readers, GetChunkErr(g) PROVE Promised!Next
  BY <1>1, <1>12, MapReadEnds DEF GetChunkErr, tables, TypeOK, Promised!Next
<1>13. CASE Crash
  BY <1>1, <1>13, MapCrash DEF Promised!Next
<1>14. CASE \E w \in Writers : StatFails(w)
  BY <1>14, MapStatFails DEF Promised!Next
<1>15. \/ UNCHANGED <<entries, rows, writer, reader>>
       \/ \E K \in SUBSET Keys : DeleteEntries(K) /\ UNCHANGED <<writer, reader>>
       \/ \E k \in Keys : UpsertEntry(k) \/ Expire(k)
       \/ \E w \in Writers, b \in Blobs : UpsertChunk(w, b)
       \/ \E w \in Writers :
             \/ StatBlob(w) \/ TruncateBlob(w) \/ FillBlob(w) \/ UndoWrite(w) \/ DropReplaced(w)
             \/ CommitChunk(w)
             \/ CommitChunkErr(w) \/ GiveUp(w)
       \/ \E w \in Writers : StatFails(w)
       \/ \E g \in Readers, c \in Chunks, f \in BOOLEAN : GetChunkRow(g, c, f)
       \/ \E g \in Readers : GetChunkErr(g) \/ GetChunkFile(g)
       \/ Crash
  <2>1. ASSUME NEW r \in Removers, NEW k \in Keys, Rm(r, k)
        PROVE  \E K \in SUBSET Keys : DeleteEntries(K) /\ UNCHANGED <<writer, reader>>
    <3>1. {k} \in SUBSET Keys /\ DeleteEntries({k}) /\ UNCHANGED <<writer, reader>>
      BY <2>1 DEF Rm
    <3> QED
      BY <3>1
  <2> QED
    BY ZenonT(60), <2>1 DEF Next, tables, UnlinkRemoved, PruneExpired, UnlinkPruned, StartCleanup,
       VisitBlob, SkipBlob, CheckBlob, UnlinkUnreferenced, EndCleanup
<1> QED
  BY <1>2, <1>3, <1>4, <1>5, <1>6, <1>7, <1>8, <1>9, <1>10, <1>11, <1>12, <1>13, <1>14, <1>15

\* Every step of the chunk store is a step of the map, or is not seen.
LEMMA MapStep ==
  ASSUME TypeOK, TypeOK', RowsKeepFiles, OutdatedKnown, Next
  PROVE  Promised!Next
<1>1. ASSUME NEW w \in Writers, StatFails(w) PROVE Promised!Next
  BY <1>1, MapStatFails DEF Promised!Next
<1>2. ASSUME NEW w \in Writers, CommitChunk(w) PROVE Promised!Next
  BY <1>2, MapCommitChunk DEF Promised!Next
<1> QED
  BY <1>1, <1>2, MapNoted, NextHistory

\* Nothing is stored and nothing runs.
LEMMA MapInit == Init => Promised!Init
<1> SUFFICES ASSUME Init PROVE Promised!Init
  OBVIOUS
<1>1. \A c \in Chunks : Stored(c) = {}
  BY DEF Init, Stored
<1>2. \A w \in Writers : Putting(w) = {}
  BY DEF Init, Putting, IdleWriter
<1>3. \A g \in Readers : Reading(g) = {} /\ reader[g].pc # "lost"
  BY DEF Init, Reading, IdleReader
<1>4. {k \in Keys : entries[k] # "none"} = {} /\ raced = {} /\ blind = {} /\ moved = {}
  BY DEF Init
<1> QED
  BY <1>1, <1>2, <1>3, <1>4 DEF Promised!Init

\* The rows, the files and the calls are a map from chunks to contents.
THEOREM RefinesChunkMap == Spec => ImplementsChunkMap
<1>1. Init => OutdatedKnown
  BY DEF Init, OutdatedKnown, IdleReader
<1>2. TypeOK /\ TypeOK' /\ RowsKeepFiles /\ OutdatedKnown /\ [Next]_vars
        => [Promised!Next]_(Promised!vars)
  <2>1. CASE UNCHANGED vars
    <3>1. UNCHANGED <<entries, rows, writer, reader, raced, blind, moved>>
      BY <2>1 DEF vars
    <3> QED
      BY <3>1, MapStays DEF Promised!vars
  <2> QED
    BY <2>1, MapStep
<1> QED
  BY <1>1, <1>2, MapInit, OutdatedStep, Typing, RowsKeptFiles, PTL
     DEF Spec, ImplementsChunkMap, Promised!Spec
=============================================================================
