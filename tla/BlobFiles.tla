------------------------------ MODULE BlobFiles ------------------------------
(***************************************************************************)
(* The blob files on disk: what names a file, the shard directories above   *)
(* it, blob::write, which makes them, and the cleanup task, which removes   *)
(* those that are empty.                                                    *)
(*                                                                          *)
(* A step is one call of the file system.  Which files are unlinked, and    *)
(* when, is BlobStore's: here any may be, at any time.                      *)
(***************************************************************************)
EXTENDS Naturals, Sequences

CONSTANTS Chunks,      \* the chunks: [class, key : Seq(Nat), idx, hash, final : Nat]
          ShardsOf(_), \* the names of the directories above the file with an id
          Depth,       \* SHARD_DEPTH
          Names,       \* names of directories
          Writers      \* calls of upsert_chunk

\* Mutation: the fields are put one after the other.
FrameUnframed(c) == c.class \o c.key \o <<c.idx, c.hash, c.final>>

\* The encoding of a chunk's identity: what may vary in length follows its length.
Frame(c) ==
    <<Len(c.class)>> \o c.class \o <<Len(c.key)>> \o c.key \o <<c.idx, c.hash, c.final>>

\* HKDF of the frame.  Ids of different frames are taken to differ.
Id(c) == Frame(c)

Path(c) == ShardsOf(Id(c))
Prefix(c, level) == [i \in 1 .. level |-> Path(c)[i]]
Parent(d) == [i \in 1 .. Len(d) - 1 |-> d[i]]

ASSUME FilesConstants ==
    /\ Chunks \subseteq [class : Seq(Nat), key : Seq(Nat), idx : Nat, hash : Nat, final : {0, 1}]
    /\ Depth \in Nat \ {0}
    /\ \A c \in Chunks : Path(c) \in [1 .. Depth -> Names]

VARIABLES
    dirs,   \* the shard directories there are
    files,  \* the ids of the files there are
    stale,  \* in a pass, the directories last modified before its cutoff
    quiet,  \* those not modified since the last pass began
    stack,  \* cleanup_dir's recursion: [dir, todo, stale] of each call
    writer  \* the calls: [chunk, pc, level, up, try, passes]

\* History, read by properties only: the chunks that were stored and not unlinked.
VARIABLE kept

vars == <<dirs, files, stale, quiet, stack, writer, kept>>

IsDir(d) == d = <<>> \/ d \in dirs
Children(d) == {c \in dirs : Parent(c) = d}
Empty(d) == Children(d) = {} /\ \A c \in Chunks : Id(c) \in files => Path(c) # d

Init ==
    /\ dirs = {} /\ files = {} /\ stale = {} /\ quiet = {}
    /\ stack = <<>>
    /\ writer = [w \in Writers |-> [pc |-> "idle"]]
    /\ kept = {}

\* The directories in ds are modified.
Touch(ds) == stale' = stale \ ds /\ quiet' = quiet \ ds

-----------------------------------------------------------------------------
(* blob::write *)

Running(w) == writer[w].pc \in {"mkdir", "is_dir", "open"}

\* upsert_chunk writes the file unless there is one.
Write(w, c) ==
    /\ writer[w].pc = "idle"
    /\ IF Id(c) \in files
       THEN /\ kept' = kept \cup {c}
            /\ UNCHANGED writer
       ELSE /\ writer' = [writer EXCEPT ![w] =
                [chunk |-> c, pc |-> "mkdir", level |-> Depth, up |-> FALSE, try |-> 1,
                 passes |-> IF stack = <<>> THEN 0 ELSE 1]]
            /\ UNCHANGED kept
    /\ UNCHANGED <<dirs, files, stale, quiet, stack>>

\* create_dir_all is done with a level and goes to the next.
Onward(w) ==
    LET call == writer[w]
    IN  writer' = [writer EXCEPT ![w] =
            IF call.level = Depth THEN [call EXCEPT !.pc = "open", !.up = FALSE]
            ELSE [call EXCEPT !.pc = "mkdir", !.level = call.level + 1, !.up = TRUE]]

\* create_dir_all makes a directory; a listing of its parent may come to it yet.
MkDir(w) ==
    LET d == Prefix(writer[w].chunk, writer[w].level)
    IN  /\ writer[w].pc = "mkdir"
        /\ IsDir(Parent(d)) /\ d \notin dirs
        /\ dirs' = dirs \cup {d}
        /\ Touch({d, Parent(d)})
        /\ \E new \in SUBSET {d} :
              stack' = [i \in DOMAIN stack |->
                          IF stack[i].dir = Parent(d)
                          THEN [stack[i] EXCEPT !.todo = @ \cup new] ELSE stack[i]]
        /\ Onward(w)
        /\ UNCHANGED <<files, kept>>

\* It cannot: on the way up the parent is made first, else what is there is looked at.
MkDirErr(w) ==
    LET call == writer[w]
        d == Prefix(call.chunk, call.level)
    IN  /\ call.pc = "mkdir"
        /\ ~IsDir(Parent(d)) \/ d \in dirs
        /\ writer' = [writer EXCEPT ![w] =
              IF ~IsDir(Parent(d)) /\ ~call.up
              THEN [call EXCEPT !.level = call.level - 1]
              ELSE [call EXCEPT !.pc = "is_dir", !.up = FALSE]]
        /\ UNCHANGED <<dirs, files, stale, quiet, stack, kept>>

\* A directory that is there by now will do; otherwise create_dir_all fails, and the write.
LookAgain(w) ==
    /\ writer[w].pc = "is_dir"
    /\ IF Prefix(writer[w].chunk, writer[w].level) \in dirs
       THEN Onward(w)
       ELSE writer' = [writer EXCEPT ![w] = [pc |-> "idle"]]
    /\ UNCHANGED <<dirs, files, stale, quiet, stack, kept>>

\* The file is made and written.
Create(w) ==
    LET c == writer[w].chunk
    IN  /\ writer[w].pc = "open"
        /\ IsDir(Path(c))
        /\ files' = files \cup {Id(c)}
        /\ Touch(IF Id(c) \in files THEN {} ELSE {Path(c)})
        /\ writer' = [writer EXCEPT ![w] = [pc |-> "idle"]]
        /\ kept' = kept \cup {c}
        /\ UNCHANGED <<dirs, stack>>

\* Mutation: no second try.
RetryNever(w) ==
    /\ writer[w].pc = "open"
    /\ ~IsDir(Path(writer[w].chunk))
    /\ writer' = [writer EXCEPT ![w].pc = "removed"]
    /\ UNCHANGED <<dirs, files, stale, quiet, stack, kept>>

\* Mutation: tries without end.
RetryAlways(w) ==
    /\ writer[w].pc = "open"
    /\ ~IsDir(Path(writer[w].chunk))
    /\ writer[w].try < 3
    /\ writer' = [writer EXCEPT ![w] =
          [@ EXCEPT !.pc = "mkdir", !.level = Depth, !.up = FALSE, !.try = @ + 1]]
    /\ UNCHANGED <<dirs, files, stale, quiet, stack, kept>>

\* The directory is gone: once more, or "blob shard removed during write".
Retry(w) ==
    /\ writer[w].pc = "open"
    /\ ~IsDir(Path(writer[w].chunk))
    /\ writer' = [writer EXCEPT ![w] =
          IF @.try = 1
          THEN [@ EXCEPT !.pc = "mkdir", !.level = Depth, !.up = FALSE, !.try = 2]
          ELSE [@ EXCEPT !.pc = "removed"]]
    /\ UNCHANGED <<dirs, files, stale, quiet, stack, kept>>

\* The error is the caller's.
Fail(w) ==
    /\ writer[w].pc = "removed"
    /\ writer' = [writer EXCEPT ![w] = [pc |-> "idle"]]
    /\ UNCHANGED <<dirs, files, stale, quiet, stack, kept>>

\* rm, the prune task, a replacing upsert_chunk or the cleanup task removes a file.
Unlink(c) ==
    /\ Id(c) \in files
    /\ files' = files \ {Id(c)}
    /\ Touch({Path(c)})
    /\ kept' = kept \ {c}
    /\ UNCHANGED <<dirs, stack, writer>>

-----------------------------------------------------------------------------
(* cleanup_task and cleanup_dir *)

Top == stack[Len(stack)]
Below == [i \in 1 .. Len(stack) - 1 |-> stack[i]]
Listed(c) == [Top EXCEPT !.todo = @ \ {c}]

\* A pass begins.  What is not modified since the last one began is older than the grace
\* period, what was modified since may be.
StartPass ==
    /\ stack = <<>>
    /\ stack' = <<[dir |-> <<>>, todo |-> Children(<<>>), stale |-> FALSE]>>
    /\ \E s \in SUBSET (dirs \ quiet) : stale' = quiet \cup s
    /\ quiet' = dirs
    /\ writer' = [w \in Writers |-> IF Running(w) /\ writer[w].passes < 2
                                    THEN [writer[w] EXCEPT !.passes = @ + 1] ELSE writer[w]]
    /\ UNCHANGED <<dirs, files, kept>>

\* Mutation: directories that hold files are not walked.
VisitShallow(d) ==
    /\ stack # <<>>
    /\ d \in Top.todo
    /\ stack' = IF d \in dirs /\ Len(d) < Depth
                THEN Append(Append(Below, Listed(d)),
                            [dir |-> d, todo |-> Children(d), stale |-> d \in stale])
                ELSE Append(Below, Listed(d))
    /\ UNCHANGED <<dirs, files, stale, quiet, writer, kept>>

\* The listing comes to a directory, whose age is read before the recursion into it.
VisitDir(d) ==
    /\ stack # <<>>
    /\ d \in Top.todo
    /\ stack' = IF d \in dirs
                THEN Append(Append(Below, Listed(d)),
                            [dir |-> d, todo |-> Children(d), stale |-> d \in stale])
                ELSE Append(Below, Listed(d))
    /\ UNCHANGED <<dirs, files, stale, quiet, writer, kept>>

\* The recursion is done: a directory that was stale is removed, if it is empty.
LeaveDir(d) ==
    /\ Len(stack) > 1
    /\ Top.todo = {} /\ Top.dir = d
    /\ stack' = Below
    /\ IF Top.stale /\ Empty(d)
       THEN /\ dirs' = dirs \ {d}
            /\ Touch({d, Parent(d)})
       ELSE UNCHANGED <<dirs, stale, quiet>>
    /\ UNCHANGED <<files, writer, kept>>

\* The pass is done.
EndPass ==
    /\ Len(stack) = 1 /\ Top.todo = {}
    /\ stack' = <<>> /\ stale' = {}
    /\ UNCHANGED <<dirs, files, quiet, writer, kept>>

\* An error of the file system or the database ends the whole pass.
AbortPass ==
    /\ stack # <<>>
    /\ stack' = <<>> /\ stale' = {}
    /\ UNCHANGED <<dirs, files, quiet, writer, kept>>

Dirs == {Prefix(c, n) : c \in Chunks, n \in 1 .. Depth}

Next ==
    \/ \E w \in Writers :
          \/ \E c \in Chunks : Write(w, c)
          \/ MkDir(w) \/ MkDirErr(w) \/ LookAgain(w)
          \/ Create(w) \/ Retry(w) \/ Fail(w)
    \/ \E c \in Chunks : Unlink(c)
    \/ StartPass \/ EndPass \/ AbortPass
    \/ \E d \in Dirs : VisitDir(d) \/ LeaveDir(d)

Spec == Init /\ [][Next]_vars

\* The task never stops, and not all its passes fail: again and again one is done.
PassFairness == []<><<EndPass>>_vars

FairSpec == Spec /\ PassFairness

-----------------------------------------------------------------------------
(* Properties *)

\* Every variable has its type: a write makes at most two tries, and the recursion goes
\* from each directory to one in it.
FilesTypeOK ==
    /\ dirs \subseteq Dirs /\ stale \subseteq dirs /\ quiet \subseteq dirs
    /\ files \subseteq {Id(c) : c \in Chunks}
    /\ kept \subseteq Chunks
    /\ Len(stack) <= Depth + 1
    /\ \A i \in DOMAIN stack : /\ Len(stack[i].dir) = i - 1
                               /\ IsDir(stack[i].dir)
                               /\ stack[i].todo \subseteq Dirs
    /\ \A w \in Writers :
          \/ writer[w].pc = "idle"
          \/ /\ writer[w].pc \in {"mkdir", "is_dir", "open", "removed"}
             /\ writer[w].chunk \in Chunks
             /\ writer[w].level \in 1 .. Depth
             /\ writer[w].try \in 1 .. 2
             /\ writer[w].passes \in 0 .. 2

\* A chunk that was stored has its file, under all its directories, until that chunk
\* is unlinked: no other chunk's unlink takes it, and no pass what it lies in.
KeptUntilUnlinked ==
    \A c \in kept : /\ Id(c) \in files
                    /\ \A n \in 1 .. Depth : Prefix(c, n) \in dirs

\* blob::write: "the cleanup task removes empty shard directories, and can do so
\* between our create_dir_all and our write, so retry once".  Once is enough: the loop
\* runs out only if a second pass begins beside it.
RetryIsEnough ==
    \A w \in Writers : writer[w].pc = "removed" => writer[w].passes = 2

\* An empty shard directory is removed, or used again.
EmptyShardsGo ==
    \A d \in Dirs : (d \in dirs /\ Empty(d)) ~> ~(d \in dirs /\ Empty(d))
=============================================================================
