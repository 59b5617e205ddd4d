---------------------------- MODULE BlobFilesProofs ----------------------------
(* Theorems about BlobFiles, for every set of chunks and every number of levels. *)
EXTENDS BlobFiles, SequenceTheorems, TLAPS

-----------------------------------------------------------------------------
(* The framing of a chunk's identity *)

\* A sequence after its length, and what follows.
Lead(x, y) == <<Len(x)>> \o x \o y

\* Both are read back.
LEMMA Framed ==
  ASSUME NEW s \in Seq(Nat), NEW t \in Seq(Nat), NEW u \in Seq(Nat), NEW v \in Seq(Nat),
         Lead(s, u) = Lead(t, v)
  PROVE  s = t /\ u = v
<1>1. ASSUME NEW x \in Seq(Nat), NEW y \in Seq(Nat)
      PROVE  /\ Len(Lead(x, y)) = 1 + Len(x) + Len(y)
             /\ Lead(x, y)[1] = Len(x)
             /\ \A i \in 1 .. Len(x) : Lead(x, y)[i + 1] = x[i]
             /\ \A i \in 1 .. Len(y) : Lead(x, y)[i + 1 + Len(x)] = y[i]
  <2>1. /\ Len(x) \in Nat /\ Len(y) \in Nat
        /\ <<Len(x)>> \in Seq(Nat) /\ Len(<<Len(x)>>) = 1 /\ <<Len(x)>>[1] = Len(x)
    OBVIOUS
  <2> DEFINE q == <<Len(x)>> \o x
  <2>2. /\ q \in Seq(Nat) /\ Len(q) = 1 + Len(x)
        /\ \A i \in 1 .. 1 + Len(x) : q[i] = IF i <= 1 THEN <<Len(x)>>[i] ELSE x[i - 1]
    BY <2>1, ConcatProperties
  <2> HIDE DEF q
  <2>3. /\ Len(q \o y) = Len(q) + Len(y)
        /\ \A i \in 1 .. Len(q) + Len(y) : (q \o y)[i] = IF i <= Len(q) THEN q[i] ELSE y[i - Len(q)]
    BY <2>2, ConcatProperties
  <2>4. Lead(x, y) = q \o y
    BY DEF q, Lead
  <2>5. Len(Lead(x, y)) = 1 + Len(x) + Len(y)
    BY <2>1, <2>2, <2>3, <2>4
  <2>6. Lead(x, y)[1] = Len(x)
    BY <2>1, <2>2, <2>3, <2>4
  <2>7. ASSUME NEW i \in 1 .. Len(x) PROVE Lead(x, y)[i + 1] = x[i]
    <3>1. i + 1 \in 1 .. Len(q) + Len(y) /\ i + 1 <= Len(q) /\ i + 1 \in 1 .. 1 + Len(x)
          /\ ~(i + 1 <= 1) /\ (i + 1) - 1 = i
      BY <2>1, <2>2
    <3> QED
      BY <2>2, <2>3, <2>4, <3>1
  <2>8. ASSUME NEW i \in 1 .. Len(y) PROVE Lead(x, y)[i + 1 + Len(x)] = y[i]
    <3>1. i + 1 + Len(x) \in 1 .. Len(q) + Len(y) /\ ~(i + 1 + Len(x) <= Len(q))
          /\ (i + 1 + Len(x)) - Len(q) = i
      BY <2>1, <2>2
    <3> QED
      BY <2>3, <2>4, <3>1
  <2> QED
    BY <2>5, <2>6, <2>7, <2>8
<1>2. Lead(s, u) = Lead(t, v)
  OBVIOUS
<1>3. Len(s) \in Nat /\ Len(t) \in Nat /\ Len(u) \in Nat /\ Len(v) \in Nat
  OBVIOUS
<1>a. /\ Len(Lead(s, u)) = 1 + Len(s) + Len(u)
      /\ Lead(s, u)[1] = Len(s)
      /\ \A i \in 1 .. Len(s) : Lead(s, u)[i + 1] = s[i]
      /\ \A i \in 1 .. Len(u) : Lead(s, u)[i + 1 + Len(s)] = u[i]
  BY <1>1
<1>b. /\ Len(Lead(t, v)) = 1 + Len(t) + Len(v)
      /\ Lead(t, v)[1] = Len(t)
      /\ \A i \in 1 .. Len(t) : Lead(t, v)[i + 1] = t[i]
      /\ \A i \in 1 .. Len(v) : Lead(t, v)[i + 1 + Len(t)] = v[i]
  BY <1>1
<1>4. Len(s) = Len(t) /\ Len(u) = Len(v)
  BY <1>a, <1>b, <1>2, <1>3
<1>5. \A i \in 1 .. Len(s) : s[i] = t[i]
  BY <1>a, <1>b, <1>2, <1>4
<1>6. \A i \in 1 .. Len(u) : u[i] = v[i]
  BY <1>a, <1>b, <1>2, <1>4
<1> QED
  BY <1>4, <1>5, <1>6, SeqEqual

\* Three sequences put together either way.
LEMMA Assoc ==
  \A s, t, u \in Seq(Nat) : (s \o t) \o u = s \o (t \o u)
BY ConcatAssociative

\* ChunkId::frame: "distinct identities cannot encode to the same bytes".
THEOREM FrameInjective ==
  ASSUME NEW c \in Chunks, NEW d \in Chunks, Frame(c) = Frame(d)
  PROVE  c = d
<1> DEFINE Rest(x) == <<x.idx, x.hash, x.final>>
           Tail2(x) == Lead(x.key, Rest(x))
<1>1. ASSUME NEW x \in Chunks
      PROVE  /\ x = [class |-> x.class, key |-> x.key, idx |-> x.idx, hash |-> x.hash, final |-> x.final]
             /\ x.class \in Seq(Nat) /\ x.key \in Seq(Nat)
             /\ Rest(x) \in Seq(Nat) /\ Tail2(x) \in Seq(Nat)
             /\ Frame(x) = Lead(x.class, Tail2(x))
  <2>1. x \in [class : Seq(Nat), key : Seq(Nat), idx : Nat, hash : Nat, final : {0, 1}]
    BY FilesConstants
  <2>2. x.class \in Seq(Nat) /\ x.key \in Seq(Nat) /\ Rest(x) \in Seq(Nat)
    BY <2>1
  <2>3. <<Len(x.class)>> \in Seq(Nat) /\ <<Len(x.key)>> \in Seq(Nat)
    BY <2>2
  <2> DEFINE A == <<Len(x.class)>> \o x.class
             K == <<Len(x.key)>>
  <2>4. A \in Seq(Nat) /\ K \in Seq(Nat)
    BY <2>2, <2>3, ConcatProperties
  <2>5. K \o x.key \in Seq(Nat) /\ A \o K \in Seq(Nat)
    BY <2>2, <2>4, ConcatProperties
  <2>6. Tail2(x) \in Seq(Nat)
    BY <2>2, <2>5, ConcatProperties DEF Lead
  <2>7. Frame(x) = ((A \o K) \o x.key) \o Rest(x)
    BY DEF Frame
  <2> HIDE DEF A, K, Rest
  <2>8. (A \o K) \o x.key = A \o (K \o x.key)
    BY ZenonT(60), <2>2, <2>4, Assoc
  <2>9. (A \o (K \o x.key)) \o Rest(x) = A \o ((K \o x.key) \o Rest(x))
    BY ZenonT(60), <2>2, <2>4, <2>5, Assoc
  <2>10. Frame(x) = A \o Tail2(x)
    BY <2>7, <2>8, <2>9 DEF K, Lead
  <2> QED
    BY <2>1, <2>2, <2>6, <2>10 DEF A, Lead
<1> HIDE DEF Rest
<1>2. /\ Frame(c) = Lead(c.class, Tail2(c))
      /\ c.class \in Seq(Nat) /\ Tail2(c) \in Seq(Nat)
      /\ c.key \in Seq(Nat) /\ Rest(c) \in Seq(Nat)
  BY <1>1
<1>3. /\ Frame(d) = Lead(d.class, Tail2(d))
      /\ d.class \in Seq(Nat) /\ Tail2(d) \in Seq(Nat)
      /\ d.key \in Seq(Nat) /\ Rest(d) \in Seq(Nat)
  BY <1>1
<1>4. c.class = d.class /\ Tail2(c) = Tail2(d)
  <2>1. Lead(c.class, Tail2(c)) = Lead(d.class, Tail2(d))
    BY <1>2, <1>3
  <2> HIDE DEF Tail2
  <2> QED
    BY <1>2, <1>3, <2>1, Framed
<1>5. c.key = d.key /\ Rest(c) = Rest(d)
  BY <1>2, <1>3, <1>4, Framed
<1>6. c.idx = d.idx /\ c.hash = d.hash /\ c.final = d.final
  BY <1>5 DEF Rest
<1> QED
  BY <1>1, <1>4, <1>5, <1>6
-----------------------------------------------------------------------------
(* Directories *)

\* The path of a file, by level.
LEMMA Prefixes ==
  ASSUME NEW c \in Chunks, NEW n \in 1 .. Depth
  PROVE  /\ Prefix(c, n) # <<>>
         /\ n < Depth => Parent(Prefix(c, n + 1)) = Prefix(c, n)
         /\ n > 1 => Parent(Prefix(c, n)) = Prefix(c, n - 1)
         /\ Parent(Prefix(c, 1)) = <<>>
         /\ Prefix(c, Depth) = Path(c)
<1>1. Path(c) \in [1 .. Depth -> Names] /\ Depth \in Nat
  BY FilesConstants
<1>2. ASSUME NEW m \in 1 .. Depth PROVE Prefix(c, m) \in Seq(Names) /\ Len(Prefix(c, m)) = m
  <2>1. Prefix(c, m) \in [1 .. m -> Names] /\ m \in Nat
    BY <1>1 DEF Prefix
  <2> QED
    BY <2>1, SeqDef
<1>3. ASSUME NEW m \in 2 .. Depth PROVE Parent(Prefix(c, m)) = Prefix(c, m - 1)
  BY <1>1, <1>2 DEF Parent, Prefix
<1>4. Prefix(c, n) # <<>>
  BY <1>1, <1>2
<1>5. n < Depth => Parent(Prefix(c, n + 1)) = Prefix(c, n)
  <2> SUFFICES ASSUME n < Depth PROVE Parent(Prefix(c, n + 1)) = Prefix(c, n)
    OBVIOUS
  <2>1. n + 1 \in 2 .. Depth /\ (n + 1) - 1 = n
    BY <1>1
  <2> QED
    BY <1>3, <2>1
<1>6. n > 1 => Parent(Prefix(c, n)) = Prefix(c, n - 1)
  BY <1>1, <1>3
<1>7. Prefix(c, Depth) = Path(c)
  BY <1>1 DEF Prefix
<1>8. Parent(Prefix(c, 1)) = <<>>
  <2>1. 1 \in 1 .. Depth
    BY <1>1
  <2> DEFINE d == Prefix(c, 1)
  <2>2. Len(d) = 1
    BY <1>2, <2>1
  <2> HIDE DEF d
  <2>3. Parent(d) \in [1 .. 0 -> Names] /\ 0 \in Nat
    <3>1. Parent(d) = [i \in 1 .. 0 |-> d[i]]
      BY <2>2 DEF Parent
    <3>2. \A i \in 1 .. 0 : d[i] \in Names
      OBVIOUS
    <3> QED
      BY <3>1, <3>2
  <2>4. Parent(d) \in Seq(Names) /\ Len(Parent(d)) = 0
    BY <2>3, SeqDef
  <2> QED
    BY <2>4, EmptySeq DEF d
<1> QED
  BY <1>4, <1>5, <1>6, <1>7, <1>8

\* The states of a call.
Calls ==
    [pc : {"idle"}] \cup
    [chunk : Chunks, pc : {"mkdir", "is_dir", "open", "removed"}, level : 1 .. Depth,
     up : BOOLEAN, try : {1, 2}, passes : 0 .. 2]

\* A directory is in those above it, and so is a file.
Closed ==
    /\ \A c \in Chunks : \A n \in 1 .. Depth : \A m \in 1 .. n :
          Prefix(c, n) \in dirs => Prefix(c, m) \in dirs
    /\ \A c \in Chunks : Id(c) \in files => Path(c) \in dirs

Stored == kept \subseteq Chunks /\ \A c \in kept : Id(c) \in files

\* A step of a write knows its chunk, and stays between the root and the file.
LEMMA WriterStep == writer \in [Writers -> Calls] /\ [Next]_vars => writer' \in [Writers -> Calls]
<1> SUFFICES ASSUME writer \in [Writers -> Calls], [Next]_vars
             PROVE  writer' \in [Writers -> Calls]
  OBVIOUS
<1>0. Depth \in Nat /\ Depth \in 1 .. Depth /\ [pc |-> "idle"] \in Calls
  BY FilesConstants DEF Calls
<1>1. ASSUME NEW v \in Writers, writer[v].pc # "idle"
      PROVE  writer[v] \in [chunk : Chunks, pc : {"mkdir", "is_dir", "open", "removed"},
                             level : 1 .. Depth, up : BOOLEAN, try : {1, 2}, passes : 0 .. 2]
  BY <1>1 DEF Calls
<1>2. ASSUME NEW v \in Writers, writer[v].pc # "idle", Onward(v)
      PROVE  writer' \in [Writers -> Calls]
  <2>1. CASE writer[v].level = Depth
    <3>1. writer' = [writer EXCEPT ![v] = [writer[v] EXCEPT !.pc = "open", !.up = FALSE]]
      BY <1>2, <2>1 DEF Onward
    <3>2. [writer[v] EXCEPT !.pc = "open", !.up = FALSE] \in Calls
      BY <1>1, <1>2 DEF Calls
    <3> QED
      BY <3>1, <3>2
  <2>2. CASE writer[v].level # Depth
    <3>1. writer' = [writer EXCEPT ![v] =
                       [writer[v] EXCEPT !.pc = "mkdir", !.level = writer[v].level + 1,
                                       !.up = TRUE]]
      BY <1>2, <2>2 DEF Onward
    <3>2. writer[v].level + 1 \in 1 .. Depth
      BY <1>0, <1>1, <1>2, <2>2
    <3>3. [writer[v] EXCEPT !.pc = "mkdir", !.level = writer[v].level + 1,
                                       !.up = TRUE] \in Calls
      BY <1>1, <1>2, <3>2 DEF Calls
    <3> QED
      BY <3>1, <3>3
  <2> QED
    BY <2>1, <2>2
<1>3. ASSUME NEW v \in Writers, NEW c \in Chunks, Write(v, c)
      PROVE  writer' \in [Writers -> Calls]
  <2>1. [chunk |-> c, pc |-> "mkdir", level |-> Depth, up |-> FALSE, try |-> 1,
         passes |-> IF stack = <<>> THEN 0 ELSE 1] \in Calls
    BY <1>0 DEF Calls
  <2> QED
    BY <1>3, <2>1 DEF Write
<1>4. ASSUME NEW v \in Writers, MkDir(v) PROVE writer' \in [Writers -> Calls]
  BY <1>2, <1>4 DEF MkDir
<1>5. ASSUME NEW v \in Writers, MkDirErr(v) PROVE writer' \in [Writers -> Calls]
  <2> DEFINE c == writer[v].chunk
             n == writer[v].level
             up == ~IsDir(Parent(Prefix(c, n))) /\ ~writer[v].up
  <2>1. c \in Chunks /\ n \in 1 .. Depth /\ writer[v].pc # "idle"
    BY <1>1, <1>5 DEF MkDirErr
  <2>2. CASE up
    <3>1. writer' = [writer EXCEPT ![v] = [writer[v] EXCEPT !.level = n - 1]]
      BY <1>5, <2>2 DEF MkDirErr
    <3>2. n # 1
      BY <2>1, <2>2, Prefixes DEF IsDir
    <3>3. n - 1 \in 1 .. Depth
      BY <1>0, <2>1, <3>2
    <3>4. [writer[v] EXCEPT !.level = n - 1] \in Calls
      BY <1>1, <2>1, <3>3 DEF Calls
    <3> QED
      BY <3>1, <3>4
  <2>3. CASE ~up
    <3>1. writer' = [writer EXCEPT ![v] = [writer[v] EXCEPT !.pc = "is_dir", !.up = FALSE]]
      BY <1>5, <2>3 DEF MkDirErr
    <3>2. [writer[v] EXCEPT !.pc = "is_dir", !.up = FALSE] \in Calls
      BY <1>1, <2>1 DEF Calls
    <3> QED
      BY <3>1, <3>2
  <2> QED
    BY <2>2, <2>3
<1>6. ASSUME NEW v \in Writers, LookAgain(v) PROVE writer' \in [Writers -> Calls]
  BY <1>0, <1>2, <1>6 DEF LookAgain
<1>7. ASSUME NEW v \in Writers, Create(v) \/ Fail(v) PROVE writer' \in [Writers -> Calls]
  BY <1>0, <1>7 DEF Create, Fail
<1>8. ASSUME NEW v \in Writers, Retry(v) PROVE writer' \in [Writers -> Calls]
  <2>1. writer[v].pc # "idle"
    BY <1>8 DEF Retry
  <2>2. /\ [writer[v] EXCEPT !.pc = "mkdir", !.level = Depth, !.up = FALSE, !.try = 2] \in Calls
        /\ [writer[v] EXCEPT !.pc = "removed"] \in Calls
    BY <1>0, <1>1, <2>1 DEF Calls
  <2> QED
    BY <1>8, <2>2 DEF Retry
<1>9. CASE StartPass
  <2>1. ASSUME NEW w \in Writers
        PROVE  (IF Running(w) /\ writer[w].passes < 2
                THEN [writer[w] EXCEPT !.passes = @ + 1] ELSE writer[w]) \in Calls
    <3>1. CASE Running(w) /\ writer[w].passes < 2
      <4>1. writer[w].pc # "idle"
        BY <3>1 DEF Running
      <4>2. writer[w].passes + 1 \in 0 .. 2
        BY <1>1, <3>1, <4>1
      <4> QED
        BY <1>1, <3>1, <4>1, <4>2 DEF Calls
    <3> QED
      BY <3>1
  <2> QED
    BY <1>9, <2>1 DEF StartPass
<1>10. CASE UNCHANGED writer
  BY <1>10
<1> QED
  BY <1>3, <1>4, <1>5, <1>6, <1>7, <1>8, <1>9, <1>10
     DEF Next, Unlink, EndPass, AbortPass, VisitDir, LeaveDir, vars

-----------------------------------------------------------------------------
(* What was stored stays *)

\* A directory that is made has those above it, one that is removed nothing in it.
LEMMA ClosedStep ==
  ASSUME writer \in [Writers -> Calls], Closed, [Next]_vars
  PROVE  Closed'
<1>1. ASSUME NEW v \in Writers, MkDir(v) PROVE Closed'
  <2> DEFINE e == writer[v].chunk
             k == writer[v].level
             d == Prefix(e, k)
  <2>1. e \in Chunks /\ k \in 1 .. Depth
    BY <1>1 DEF MkDir, Calls
  <2>2. dirs' = dirs \cup {d} /\ files' = files /\ IsDir(Parent(d))
    BY <1>1 DEF MkDir
  <2> HIDE DEF d
  <2>3. ASSUME NEW c \in Chunks, NEW n \in 1 .. Depth, NEW m \in 1 .. n, Prefix(c, n) \in dirs'
        PROVE  Prefix(c, m) \in dirs'
    <3>1. CASE Prefix(c, n) \in dirs
      BY <2>2, <3>1 DEF Closed
    <3>2. CASE Prefix(c, n) = d /\ m # n
      <4>1. n > 1 /\ n - 1 \in 1 .. Depth /\ m \in 1 .. n - 1
        BY <3>2, FilesConstants
      <4>2. Parent(d) = Prefix(c, n - 1) /\ Prefix(c, n - 1) # <<>>
        BY <3>2, <4>1, Prefixes
      <4>3. Prefix(c, n - 1) \in dirs
        BY <2>2, <4>2 DEF IsDir
      <4> QED
        BY <2>2, <4>1, <4>3 DEF Closed
    <3> QED
      BY <2>2, <2>3, <3>1, <3>2
  <2> QED
    BY <2>2, <2>3 DEF Closed
<1>2. ASSUME NEW v \in Writers, Create(v) PROVE Closed'
  <2> DEFINE e == writer[v].chunk
  <2>1. /\ e \in Chunks /\ dirs' = dirs /\ files' = files \cup {Id(e)}
        /\ IsDir(Path(e))
    BY <1>2 DEF Create, Calls
  <2>2. Path(e) \in dirs
    <3>1. Depth \in 1 .. Depth
      BY FilesConstants
    <3>2. Path(e) # <<>>
      BY <2>1, <3>1, Prefixes
    <3> QED
      BY <2>1, <3>2 DEF IsDir
  <2>3. ASSUME NEW c \in Chunks, Id(c) = Id(e) PROVE Path(c) = Path(e)
    BY <2>3 DEF Path
  <2> HIDE DEF e
  <2> QED
    BY <2>1, <2>2, <2>3 DEF Closed
<1>3. ASSUME NEW e \in Chunks, Unlink(e) PROVE Closed'
  BY <1>3 DEF Unlink, Closed
<1>4. ASSUME NEW d, LeaveDir(d) PROVE Closed'
  <2>1. CASE dirs' = dirs
    BY <1>4, <2>1 DEF LeaveDir, Closed
  <2>2. CASE dirs' # dirs
    <3>1. dirs' = dirs \ {d} /\ files' = files /\ Empty(d)
      BY <1>4, <2>2 DEF LeaveDir
    <3>2. ASSUME NEW c \in Chunks, NEW n \in 1 .. Depth, NEW m \in 1 .. n, Prefix(c, n) \in dirs'
          PROVE  Prefix(c, m) \in dirs'
      <4>1. CASE m = n
        BY <3>2, <4>1
      <4>2. CASE m # n
        <5>1. m \in 1 .. Depth /\ m < Depth /\ m + 1 \in 1 .. n
          BY <4>2, FilesConstants
        <5>2. Prefix(c, m) \in dirs /\ Prefix(c, m + 1) \in dirs
          BY <3>1, <3>2, <5>1 DEF Closed
        <5>3. Parent(Prefix(c, m + 1)) = Prefix(c, m)
          BY <5>1, Prefixes
        <5>4. Prefix(c, m) # d
          BY <3>1, <5>2, <5>3 DEF Empty, Children
        <5> QED
          BY <3>1, <5>2, <5>4
      <4> QED
        BY <4>1, <4>2
    <3>3. ASSUME NEW c \in Chunks, Id(c) \in files' PROVE Path(c) \in dirs'
      BY <3>1, <3>3 DEF Empty, Closed
    <3> QED
      BY <3>2, <3>3 DEF Closed
  <2> QED
    BY <2>1, <2>2
<1>5. CASE UNCHANGED <<dirs, files>>
  BY <1>5 DEF Closed
<1> QED
  BY <1>1, <1>2, <1>3, <1>4, <1>5
     DEF Next, Write, MkDirErr, LookAgain, Retry, Fail, StartPass, EndPass, AbortPass,
         VisitDir, vars

\* Only its own unlink takes the file of a chunk.
LEMMA StoredStep ==
  ASSUME writer \in [Writers -> Calls], Stored, [Next]_vars
  PROVE  Stored'
<1>1. ASSUME NEW v \in Writers, NEW c \in Chunks, Write(v, c) PROVE Stored'
  BY <1>1 DEF Write, Stored
<1>2. ASSUME NEW v \in Writers, Create(v) PROVE Stored'
  <2>1. writer[v].chunk \in Chunks
    BY <1>2 DEF Create, Calls
  <2> QED
    BY <1>2, <2>1 DEF Create, Stored
<1>3. ASSUME NEW e \in Chunks, Unlink(e) PROVE Stored'
  <2>1. kept' = kept \ {e} /\ files' = files \ {Id(e)}
    BY <1>3 DEF Unlink
  <2>2. ASSUME NEW c \in kept' PROVE Id(c) # Id(e)
    BY <2>1, <2>2, FrameInjective DEF Id, Stored
  <2> QED
    BY <2>1, <2>2 DEF Stored
<1>4. CASE UNCHANGED <<files, kept>>
  BY <1>4 DEF Stored
<1> QED
  BY <1>1, <1>2, <1>3, <1>4
     DEF Next, MkDir, MkDirErr, LookAgain, Retry, Fail, StartPass, EndPass, AbortPass,
         VisitDir, LeaveDir, vars

\* No other chunk's unlink takes the file of a chunk, and no cleanup pass a directory
\* above it, for every set of chunks and every interleaving of writes and passes.
THEOREM StoredStays == Spec => []KeptUntilUnlinked
<1>1. Init => writer \in [Writers -> Calls] /\ Closed /\ Stored
  BY DEF Init, Calls, Closed, Stored
<1>2. writer \in [Writers -> Calls] /\ Closed /\ Stored /\ [Next]_vars
        => (writer \in [Writers -> Calls] /\ Closed /\ Stored)'
  BY WriterStep, ClosedStep, StoredStep
<1>3. Closed /\ Stored => KeptUntilUnlinked
  <2> SUFFICES ASSUME Closed, Stored, NEW c \in kept
               PROVE  Id(c) \in files /\ \A n \in 1 .. Depth : Prefix(c, n) \in dirs
    BY DEF KeptUntilUnlinked
  <2>1. c \in Chunks /\ Id(c) \in files /\ Path(c) \in dirs
    BY DEF Closed, Stored
  <2>2. Depth \in 1 .. Depth /\ Prefix(c, Depth) = Path(c)
    BY <2>1, FilesConstants, Prefixes
  <2> QED
    BY <2>1, <2>2 DEF Closed
<1> QED
  BY <1>1, <1>2, <1>3, PTL DEF Spec
-----------------------------------------------------------------------------
(* The walk *)

Frames == [dir : Seq(Names), todo : SUBSET Dirs, stale : BOOLEAN]

\* What is on disk, and that what is known of ages is of what is on disk.
Ground ==
    /\ dirs \subseteq Dirs /\ stale \subseteq dirs /\ quiet \subseteq dirs
    /\ files \subseteq {Id(c) : c \in Chunks}

\* Each call of cleanup_dir is one level below its caller, and in a directory that
\* nobody else removes.
Walk ==
    /\ stack \in Seq(Frames)
    /\ \A i \in 1 .. Len(stack) : /\ Len(stack[i].dir) = i - 1
                                  /\ IsDir(stack[i].dir)
                                  /\ \A t \in stack[i].todo : Len(t) = i

\* The length of a path is its level, and that of its parent one less.
LEMMA Lengths ==
  ASSUME NEW d \in Dirs
  PROVE  /\ d \in Seq(Names) /\ Len(d) \in 1 .. Depth
         /\ Len(Parent(d)) = Len(d) - 1
<1>1. PICK c \in Chunks, n \in 1 .. Depth : d = Prefix(c, n)
  BY DEF Dirs
<1>2. Path(c) \in [1 .. Depth -> Names] /\ Depth \in Nat
  BY FilesConstants
<1>3. Prefix(c, n) \in [1 .. n -> Names] /\ n \in Nat
  BY <1>2 DEF Prefix
<1>4. d \in Seq(Names) /\ Len(d) = n
  BY <1>1, <1>3, SeqDef
<1>5. Parent(d) \in [1 .. n - 1 -> Names] /\ n - 1 \in Nat
  BY <1>1, <1>3, <1>4 DEF Parent
<1>6. Len(Parent(d)) = n - 1
  BY <1>5, SeqDef
<1> QED
  BY <1>4, <1>6

\* The innermost call, and the calls it returns to.
LEMMA Popped ==
  ASSUME stack \in Seq(Frames), stack # <<>>
  PROVE  /\ Len(stack) \in Nat \ {0} /\ Top \in Frames
         /\ Below \in Seq(Frames) /\ Len(Below) = Len(stack) - 1
         /\ \A i \in 1 .. Len(stack) - 1 : Below[i] = stack[i]
<1>1. Len(stack) \in Nat \ {0}
  BY EmptySeq
<1>2. Below \in [1 .. Len(stack) - 1 -> Frames] /\ Len(stack) - 1 \in Nat
  BY <1>1 DEF Below
<1>3. Below \in Seq(Frames) /\ Len(Below) = Len(stack) - 1
  BY <1>2, SeqDef
<1> QED
  BY <1>1, <1>3 DEF Top, Below

\* A directory that is made changes the walk only in what is left of the listing it joins.
LEMMA Listings ==
  ASSUME writer \in [Writers -> Calls], stack \in Seq(Frames), NEW v \in Writers, MkDir(v)
  PROVE  LET d == Prefix(writer[v].chunk, writer[v].level)
         IN  /\ stack' \in Seq(Frames) /\ Len(stack') = Len(stack)
             /\ \A i \in 1 .. Len(stack) :
                   /\ stack'[i].dir = stack[i].dir /\ stack'[i].stale = stack[i].stale
                   /\ stack'[i].todo \subseteq stack[i].todo
                         \cup (IF stack[i].dir = Parent(d) THEN {d} ELSE {})
<1> DEFINE d == Prefix(writer[v].chunk, writer[v].level)
<1>1. d \in Dirs
  BY DEF MkDir, Calls, Dirs
<1>2. \E new \in SUBSET {d} :
         stack' = [i \in DOMAIN stack |->
                     IF stack[i].dir = Parent(d)
                     THEN [stack[i] EXCEPT !.todo = @ \cup new] ELSE stack[i]]
  BY DEF MkDir
<1> HIDE DEF d
<1>3. PICK new \in SUBSET {d} :
         stack' = [i \in DOMAIN stack |->
                     IF stack[i].dir = Parent(d)
                     THEN [stack[i] EXCEPT !.todo = @ \cup new] ELSE stack[i]]
  BY <1>2
<1>4. stack \in [1 .. Len(stack) -> Frames] /\ Len(stack) \in Nat
      /\ DOMAIN stack = 1 .. Len(stack)
  OBVIOUS
<1>5. ASSUME NEW i \in 1 .. Len(stack)
      PROVE  /\ stack'[i] \in Frames
             /\ stack'[i].dir = stack[i].dir /\ stack'[i].stale = stack[i].stale
             /\ stack'[i].todo \subseteq stack[i].todo
                   \cup (IF stack[i].dir = Parent(d) THEN {d} ELSE {})
  <2>1. stack[i] \in Frames
    BY <1>4
  <2>2. [stack[i] EXCEPT !.todo = @ \cup new] \in Frames
    BY <1>1, <2>1 DEF Frames
  <2> QED
    BY <1>3, <1>4, <2>1, <2>2 DEF Frames
<1>6. stack' \in [1 .. Len(stack) -> Frames]
  BY <1>3, <1>4, <1>5
<1>7. stack' \in Seq(Frames) /\ Len(stack') = Len(stack)
  BY <1>4, <1>6, SeqDef
<1> QED
  BY <1>5, <1>7 DEF d

\* A step keeps the ages to what there is.
LEMMA GroundStep ==
  ASSUME writer \in [Writers -> Calls], Ground, [Next]_vars
  PROVE  Ground'
<1>1. ASSUME NEW v \in Writers, MkDir(v) PROVE Ground'
  <2>1. Prefix(writer[v].chunk, writer[v].level) \in Dirs
    BY <1>1 DEF MkDir, Calls, Dirs
  <2> QED
    BY <1>1, <2>1 DEF MkDir, Touch, Ground
<1>2. ASSUME NEW v \in Writers, Create(v) PROVE Ground'
  <2>1. writer[v].chunk \in Chunks
    BY <1>2 DEF Create, Calls
  <2> QED
    BY <1>2, <2>1 DEF Create, Touch, Ground
<1>3. ASSUME NEW e \in Chunks, Unlink(e) PROVE Ground'
  BY <1>3 DEF Unlink, Touch, Ground
<1>4. CASE StartPass
  BY <1>4 DEF StartPass, Ground
<1>5. ASSUME NEW d, LeaveDir(d) PROVE Ground'
  BY <1>5 DEF LeaveDir, Touch, Ground
<1>6. CASE EndPass \/ AbortPass
  BY <1>6 DEF EndPass, AbortPass, Ground
<1>7. CASE UNCHANGED <<dirs, files, stale, quiet>>
  BY <1>7 DEF Ground
<1> QED
  BY <1>1, <1>2, <1>3, <1>4, <1>5, <1>6, <1>7
     DEF Next, Write, MkDirErr, LookAgain, Retry, Fail, VisitDir, vars

\* A step keeps the walk in directories that there are: the one it removes is that of
\* the call that returns, below all others.
LEMMA WalkStep ==
  ASSUME writer \in [Writers -> Calls], Ground, Walk, [Next]_vars
  PROVE  Walk'
<1>1. ASSUME NEW v \in Writers, MkDir(v) PROVE Walk'
  <2> DEFINE d == Prefix(writer[v].chunk, writer[v].level)
  <2>1. d \in Dirs /\ dirs' = dirs \cup {d}
    BY <1>1 DEF MkDir, Calls, Dirs
  <2>2. /\ stack' \in Seq(Frames) /\ Len(stack') = Len(stack)
        /\ \A i \in 1 .. Len(stack) :
              /\ stack'[i].dir = stack[i].dir
              /\ stack'[i].todo \subseteq stack[i].todo
                    \cup (IF stack[i].dir = Parent(d) THEN {d} ELSE {})
    <3>1. stack \in Seq(Frames)
      BY DEF Walk
    <3> QED
      BY <1>1, <3>1, Listings
  <2> HIDE DEF d
  <2>3. ASSUME NEW i \in 1 .. Len(stack), NEW t \in stack'[i].todo PROVE Len(t) = i
    <3>1. CASE t \in stack[i].todo
      BY <3>1 DEF Walk
    <3>2. CASE t = d /\ stack[i].dir = Parent(d)
      BY <2>1, <3>2, Lengths DEF Walk
    <3> QED
      BY <2>2, <3>1, <3>2
  <2> QED
    BY <2>1, <2>2, <2>3 DEF Walk, IsDir
<1>2. ASSUME NEW d, VisitDir(d) PROVE Walk'
  <2> DEFINE n == Len(stack)
             f == [dir |-> d, todo |-> Children(d), stale |-> d \in stale]
             below == Append(Below, Listed(d))
  <2>1. stack # <<>> /\ d \in Top.todo /\ dirs' = dirs
        /\ stack' = IF d \in dirs THEN Append(below, f) ELSE below
    BY <1>2 DEF VisitDir
  <2>2. /\ n \in Nat \ {0} /\ Top \in Frames /\ Top = stack[n]
        /\ Below \in Seq(Frames) /\ Len(Below) = n - 1
        /\ \A i \in 1 .. n - 1 : Below[i] = stack[i]
    BY <2>1, Popped DEF Walk, Top
  <2>3. /\ Listed(d) \in Frames /\ Listed(d).dir = stack[n].dir
        /\ Listed(d).todo \subseteq stack[n].todo
    BY <2>2 DEF Listed, Frames
  <2>4. /\ below \in Seq(Frames) /\ Len(below) = n
        /\ below[n] = Listed(d) /\ \A i \in 1 .. n - 1 : below[i] = stack[i]
    <3>1. Len(below) = n /\ below \in Seq(Frames)
      BY <2>2, <2>3, AppendProperties
    <3>2. ASSUME NEW i \in 1 .. n PROVE below[i] = IF i = n THEN Listed(d) ELSE Below[i]
      BY <2>2, <2>3, AppendProperties
    <3> QED
      BY <2>2, <3>1, <3>2
  <2> HIDE DEF below
  <2>5. ASSUME NEW i \in 1 .. n
        PROVE  /\ Len(below[i].dir) = i - 1 /\ IsDir(below[i].dir)
               /\ \A t \in below[i].todo : Len(t) = i
    <3>1. below[i].dir = stack[i].dir /\ below[i].todo \subseteq stack[i].todo
      BY <2>2, <2>3, <2>4
    <3> QED
      BY <3>1 DEF Walk
  <2>6. CASE d \notin dirs
    <3>1. stack' = below
      BY <2>1, <2>6
    <3> QED
      BY <2>1, <2>4, <2>5, <3>1 DEF Walk, IsDir
  <2>7. CASE d \in dirs
    <3>1. d \in Dirs /\ Len(d) = n
      BY <2>1, <2>2, <2>7 DEF Ground, Walk
    <3>2. f \in Frames
      BY <3>1, Lengths DEF Frames, Ground, Children
    <3>3. ASSUME NEW t \in Children(d) PROVE Len(t) = n + 1
      <4>1. t \in Dirs /\ Parent(t) = d
        BY DEF Children, Ground
      <4>2. Len(t) \in Nat
        BY <4>1, Lengths
      <4> QED
        BY <2>2, <3>1, <4>1, <4>2, Lengths
    <3>4. stack' = Append(below, f)
      BY <2>1, <2>7
    <3>5. /\ stack' \in Seq(Frames) /\ Len(stack') = n + 1
          /\ stack'[n + 1] = f /\ \A i \in 1 .. n : stack'[i] = below[i]
      <4> HIDE DEF f
      <4>1. Len(stack') = n + 1 /\ stack' \in Seq(Frames)
        BY <2>4, <3>2, <3>4, AppendProperties
      <4>2. ASSUME NEW i \in 1 .. n + 1 PROVE stack'[i] = IF i = n + 1 THEN f ELSE below[i]
        BY <2>2, <2>4, <3>2, <3>4, AppendProperties
      <4> QED
        BY <2>2, <4>1, <4>2
    <3>6. f.dir = d /\ f.todo = Children(d)
      OBVIOUS
    <3> HIDE DEF f
    <3>7. ASSUME NEW i \in 1 .. n + 1
          PROVE  /\ Len(stack'[i].dir) = i - 1 /\ IsDir(stack'[i].dir)
                 /\ \A t \in stack'[i].todo : Len(t) = i
      <4>1. CASE i = n + 1
        BY <2>2, <2>7, <3>1, <3>3, <3>5, <3>6, <4>1 DEF IsDir
      <4>2. CASE i # n + 1
        <5>1. i \in 1 .. n
          BY <2>2, <4>2
        <5>2. stack'[i] = below[i]
          BY <3>5, <5>1
        <5> QED
          BY <2>5, <5>1, <5>2
      <4> QED
        BY <4>1, <4>2
    <3> QED
      BY <2>1, <3>5, <3>7 DEF Walk, IsDir
  <2> QED
    BY <2>6, <2>7
<1>3. ASSUME NEW d, LeaveDir(d) PROVE Walk'
  <2> DEFINE n == Len(stack)
  <2>1. /\ n > 1 /\ Top.dir = d /\ stack' = Below /\ dirs \ {d} \subseteq dirs'
    BY <1>3 DEF LeaveDir
  <2>2. stack # <<>>
    BY <2>1
  <2>3. /\ n \in Nat \ {0} /\ Top = stack[n]
        /\ Below \in Seq(Frames) /\ Len(Below) = n - 1
        /\ \A i \in 1 .. n - 1 : Below[i] = stack[i]
    BY <2>2, Popped DEF Walk, Top
  <2>4. Len(d) = n - 1
    BY <2>1, <2>3 DEF Walk
  <2>5. ASSUME NEW i \in 1 .. n - 1
        PROVE  /\ stack'[i] = stack[i] /\ Len(stack[i].dir) = i - 1
               /\ stack[i].dir = <<>> \/ stack[i].dir \in dirs'
               /\ \A t \in stack[i].todo : Len(t) = i
    <3>1. i \in 1 .. n /\ i - 1 # n - 1
      BY <2>3
    <3>2. /\ Len(stack[i].dir) = i - 1 /\ IsDir(stack[i].dir)
          /\ \A t \in stack[i].todo : Len(t) = i
      BY <3>1 DEF Walk
    <3>3. stack[i].dir # d
      BY <2>4, <3>1, <3>2
    <3>4. stack'[i] = stack[i]
      BY <2>1, <2>3
    <3>5. stack[i].dir = <<>> \/ stack[i].dir \in dirs'
      BY <2>1, <3>2, <3>3 DEF IsDir
    <3> QED
      BY <3>2, <3>4, <3>5
  <2>6. stack' \in Seq(Frames) /\ Len(stack') = n - 1
    BY <2>1, <2>3
  <2> QED
    BY <2>5, <2>6 DEF Walk, IsDir
<1>4. CASE StartPass
  <2> DEFINE f == [dir |-> <<>>, todo |-> Children(<<>>), stale |-> FALSE]
  <2>1. stack' = <<f>> /\ dirs' = dirs
    BY <1>4 DEF StartPass
  <2>2. f \in Frames
    BY DEF Frames, Children, Ground
  <2>3. ASSUME NEW t \in Children(<<>>) PROVE Len(t) = 1
    <3>1. t \in Dirs /\ Parent(t) = <<>>
      BY DEF Children, Ground
    <3>2. Len(t) \in 1 .. Depth
      BY <3>1, Lengths
    <3>3. Len(Parent(t)) = Len(t) - 1
      BY <3>1, Lengths
    <3>4. Len(Parent(t)) = 0
      BY <3>1
    <3> QED
      BY <3>2, <3>3, <3>4
  <2>4. Len(f.dir) = 0 /\ f.dir = <<>> /\ f.todo = Children(<<>>)
    OBVIOUS
  <2> HIDE DEF f
  <2>5. stack' \in Seq(Frames) /\ Len(stack') = 1 /\ stack'[1] = f
    BY <2>1, <2>2
  <2> QED
    BY <2>3, <2>4, <2>5 DEF Walk, IsDir
<1>5. CASE EndPass \/ AbortPass
  <2>1. stack' = <<>> /\ <<>> \in Seq(Frames) /\ Len(<<>>) = 0
    BY <1>5 DEF EndPass, AbortPass
  <2> QED
    BY <2>1 DEF Walk
<1>6. CASE UNCHANGED <<stack, dirs>>
  BY <1>6 DEF Walk, IsDir
<1> QED
  BY <1>1, <1>2, <1>3, <1>4, <1>5, <1>6
     DEF Next, Write, MkDirErr, LookAgain, Create, Retry, Fail, Unlink, vars

\* The walk goes no deeper than the shards, and a write tries no more than twice.
THEOREM FilesTypeCorrect == Spec => []FilesTypeOK
<1>1. Init => writer \in [Writers -> Calls] /\ Ground /\ Walk /\ Stored
  BY DEF Init, Calls, Ground, Walk, Stored
<1>2. writer \in [Writers -> Calls] /\ Ground /\ Walk /\ Stored /\ [Next]_vars
        => (writer \in [Writers -> Calls] /\ Ground /\ Walk /\ Stored)'
  BY WriterStep, GroundStep, WalkStep, StoredStep
<1>3. writer \in [Writers -> Calls] /\ Ground /\ Walk /\ Stored => FilesTypeOK
  <2> SUFFICES ASSUME writer \in [Writers -> Calls], Ground, Walk, Stored PROVE FilesTypeOK
    OBVIOUS
  <2>1. Len(stack) <= Depth + 1
    <3>1. CASE Len(stack) <= 1
      BY <3>1, FilesConstants
    <3>2. CASE ~(Len(stack) <= 1)
      <4> DEFINE d == stack[Len(stack)].dir
      <4>1. Len(stack) \in Nat /\ Len(stack) \in 1 .. Len(stack)
        BY <3>2 DEF Walk
      <4>2. Len(d) = Len(stack) - 1 /\ IsDir(d)
        BY <4>1 DEF Walk
      <4>3. d \in Dirs
        BY <3>2, <4>1, <4>2 DEF IsDir, Ground
      <4> QED
        BY <4>1, <4>2, <4>3, Lengths, FilesConstants
    <3> QED
      BY <3>1, <3>2
  <2>2. ASSUME NEW i \in DOMAIN stack
        PROVE  Len(stack[i].dir) = i - 1 /\ IsDir(stack[i].dir) /\ stack[i].todo \subseteq Dirs
    <3>1. i \in 1 .. Len(stack) /\ stack[i] \in Frames
      BY DEF Walk
    <3> QED
      BY <3>1 DEF Walk, Frames
  <2>3. ASSUME NEW w \in Writers
        PROVE  \/ writer[w].pc = "idle"
               \/ /\ writer[w].pc \in {"mkdir", "is_dir", "open", "removed"}
                  /\ writer[w].chunk \in Chunks
                  /\ writer[w].level \in 1 .. Depth
                  /\ writer[w].try \in 1 .. 2
                  /\ writer[w].passes \in 0 .. 2
    BY DEF Calls
  <2> QED
    BY <2>1, <2>2, <2>3 DEF FilesTypeOK, Ground, Stored
<1> QED
  BY <1>1, <1>2, <1>3, PTL DEF Spec
-----------------------------------------------------------------------------
(* The retry *)

\* Nothing known of a directory would have the pass remove it.
Calm(l) ==
    /\ l \notin stale
    /\ \A i \in 1 .. Len(stack) : stack[i].dir = l => ~stack[i].stale

\* A write that met no pass has its directories; a second try beside no second pass is
\* of a directory that is new, and so is not removed; and a write whose loop ran out met
\* two passes.
Fresh(w) ==
    LET call == writer[w]
        leaf == Path(call.chunk)
    IN  /\ Running(w) /\ call.passes = 0 =>
              stack = <<>> /\ call.try = 1 /\ (call.pc = "open" => leaf \in dirs)
        /\ Running(w) /\ call.passes = 1 /\ call.try = 2 =>
              Calm(leaf) /\ (call.pc = "open" => leaf \in dirs)
        /\ call.pc = "removed" => call.passes = 2

\* Within a pass a calm directory stays, and stays calm.
LEMMA CalmStep ==
  ASSUME writer \in [Writers -> Calls], Walk, [Next]_vars, ~StartPass, NEW l, Calm(l)
  PROVE  Calm(l)' /\ (l \in dirs => l \in dirs')
<1>1. ASSUME NEW v \in Writers, MkDir(v) PROVE Calm(l)' /\ dirs \subseteq dirs'
  <2>1. /\ Len(stack') = Len(stack)
        /\ \A i \in 1 .. Len(stack) :
              stack'[i].dir = stack[i].dir /\ stack'[i].stale = stack[i].stale
    BY <1>1, Listings DEF Walk
  <2>2. stale' \subseteq stale /\ dirs \subseteq dirs'
    BY <1>1 DEF MkDir, Touch
  <2> QED
    BY <2>1, <2>2 DEF Calm
<1>2. ASSUME NEW d, VisitDir(d) PROVE Calm(l)' /\ dirs \subseteq dirs'
  <2> DEFINE n == Len(stack)
             f == [dir |-> d, todo |-> Children(d), stale |-> d \in stale]
             below == Append(Below, Listed(d))
  <2>1. /\ stack # <<>> /\ dirs' = dirs /\ stale' = stale
        /\ stack' = IF d \in dirs THEN Append(below, f) ELSE below
    BY <1>2 DEF VisitDir
  <2>2. /\ n \in Nat \ {0} /\ Top \in Frames /\ Top = stack[n]
        /\ Below \in Seq(Frames) /\ Len(Below) = n - 1
        /\ \A i \in 1 .. n - 1 : Below[i] = stack[i]
    BY <2>1, Popped DEF Walk, Top
  <2>3. Listed(d).dir = stack[n].dir /\ Listed(d).stale = stack[n].stale
    BY <2>2 DEF Listed, Frames
  <2>4. /\ Len(below) = n
        /\ \A i \in 1 .. n : below[i] = IF i = n THEN Listed(d) ELSE stack[i]
    BY <2>2
  <2> HIDE DEF below
  <2>5. ASSUME NEW i \in 1 .. n, below[i].dir = l PROVE ~below[i].stale
    BY <2>3, <2>4, <2>5 DEF Calm
  <2>6. below \in Seq(Frames)
    <3>1. Listed(d) \in Frames
      BY <2>2 DEF Listed, Frames
    <3> QED
      BY <2>2, <3>1 DEF below
  <2>7. CASE d \notin dirs
    BY <2>1, <2>4, <2>5, <2>7 DEF Calm
  <2>8. CASE d \in dirs
    <3>1. f.dir = l => ~f.stale
      BY DEF Calm
    <3>2. stack' = Append(below, f)
      BY <2>1, <2>8
    <3> HIDE DEF f
    <3>3. /\ Len(stack') = n + 1
          /\ \A i \in 1 .. n + 1 : stack'[i] = IF i = n + 1 THEN f ELSE below[i]
      BY <2>2, <2>4, <2>6, <3>2
    <3>4. ASSUME NEW i \in 1 .. n + 1, stack'[i].dir = l PROVE ~stack'[i].stale
      <4>1. CASE i = n + 1
        BY <3>1, <3>3, <3>4, <4>1
      <4>2. CASE i # n + 1
        <5>1. i \in 1 .. n /\ stack'[i] = below[i]
          BY <2>2, <3>3, <4>2
        <5> QED
          BY <2>5, <3>4, <5>1
      <4> QED
        BY <4>1, <4>2
    <3> QED
      BY <2>1, <3>3, <3>4 DEF Calm
  <2> QED
    BY <2>1, <2>7, <2>8
<1>3. ASSUME NEW d, LeaveDir(d) PROVE Calm(l)' /\ (l \in dirs => l \in dirs')
  <2> DEFINE n == Len(stack)
  <2>1. /\ n > 1 /\ Top.dir = d /\ stack' = Below /\ stale' \subseteq stale
        /\ dirs' = IF Top.stale /\ Empty(d) THEN dirs \ {d} ELSE dirs
    BY <1>3 DEF LeaveDir, Touch
  <2>2. stack # <<>>
    BY <2>1
  <2>3. /\ n \in Nat \ {0} /\ Top = stack[n] /\ Len(Below) = n - 1
        /\ \A i \in 1 .. n - 1 : Below[i] = stack[i]
    BY <2>2, Popped DEF Walk, Top
  <2>4. Top.stale => l # d
    BY <2>1, <2>3 DEF Calm
  <2>5. ASSUME NEW i \in 1 .. n - 1 PROVE stack'[i] = stack[i] /\ i \in 1 .. n
    BY <2>1, <2>3
  <2>6. Len(stack') = n - 1
    BY <2>1, <2>3
  <2> QED
    BY <2>1, <2>4, <2>5, <2>6 DEF Calm
<1>4. CASE EndPass \/ AbortPass
  <2>1. stack' = <<>> /\ stale' = {} /\ dirs' = dirs /\ Len(<<>>) = 0
    BY <1>4 DEF EndPass, AbortPass
  <2> QED
    BY <2>1 DEF Calm
<1>5. CASE UNCHANGED <<dirs, stack>> /\ stale' \subseteq stale
  BY <1>5 DEF Calm
<1> QED
  BY <1>1, <1>2, <1>3, <1>4, <1>5
     DEF Next, Write, MkDirErr, LookAgain, Create, Retry, Fail, Unlink, Touch, vars

\* Between passes no directory goes.
LEMMA RestStep ==
  ASSUME writer \in [Writers -> Calls], Walk, [Next]_vars, ~StartPass, stack = <<>>
  PROVE  stack' = <<>> /\ dirs \subseteq dirs'
<1>1. ASSUME NEW v \in Writers, MkDir(v) PROVE stack' = <<>> /\ dirs \subseteq dirs'
  <2>1. stack' \in Seq(Frames) /\ Len(stack') = 0
    BY <1>1, Listings DEF Walk
  <2> QED
    BY <1>1, <2>1, EmptySeq DEF MkDir
<1>2. ~\E d \in Dirs : VisitDir(d) \/ LeaveDir(d)
  BY DEF VisitDir, LeaveDir
<1> QED
  BY <1>1, <1>2
     DEF Next, Write, MkDirErr, LookAgain, Create, Retry, Fail, Unlink, EndPass, AbortPass, vars

\* A step keeps every call fresh.
LEMMA FreshStep ==
  ASSUME writer \in [Writers -> Calls], writer' \in [Writers -> Calls], Ground, Walk,
         [Next]_vars, NEW w \in Writers, Fresh(w)
  PROVE  Fresh(w)'
<1> DEFINE call == writer[w]
           leaf == Path(call.chunk)
<1>1. ASSUME call.pc # "idle"
      PROVE  call \in [chunk : Chunks, pc : {"mkdir", "is_dir", "open", "removed"},
                       level : 1 .. Depth, up : BOOLEAN, try : {1, 2}, passes : 0 .. 2]
  BY <1>1 DEF Calls
<1>2. CASE StartPass
  <2>1. CASE Running(w) /\ call.passes < 2
    <3>1. writer'[w] = [call EXCEPT !.passes = call.passes + 1]
      BY <1>2, <2>1 DEF StartPass
    <3>2. call.pc # "idle" /\ call.pc # "removed"
      BY <2>1 DEF Running
    <3>3. /\ writer'[w].pc = call.pc /\ writer'[w].try = call.try
          /\ writer'[w].passes = call.passes + 1 /\ call.passes \in 0 .. 2
      BY <1>1, <3>1, <3>2
    <3>4. writer'[w].passes # 0 /\ (writer'[w].passes = 1 => writer'[w].try # 2)
      BY <2>1, <3>3 DEF Fresh
    <3> QED
      BY <3>2, <3>3, <3>4 DEF Fresh
  <2>2. CASE ~(Running(w) /\ call.passes < 2)
    <3>1. writer'[w] = call
      BY <1>2, <2>2 DEF StartPass
    <3>2. Running(w)' => call.passes # 0 /\ call.passes # 1
      BY <2>2, <3>1 DEF Running
    <3> QED
      BY <3>1, <3>2 DEF Fresh
  <2> QED
    BY <2>1, <2>2
<1>3. CASE ~StartPass
  <2>0. PICK l : l = leaf
    OBVIOUS
  <2>1. Calm(l) => Calm(l)' /\ (l \in dirs => l \in dirs')
    BY <1>3, CalmStep
  <2>2. stack = <<>> => stack' = <<>> /\ dirs \subseteq dirs'
    BY <1>3, RestStep
  <2>3. CASE writer'[w] = call
    BY <2>0, <2>1, <2>2, <2>3 DEF Fresh, Running, Calm
  <2>4. ASSUME Running(w), writer'[w].chunk = call.chunk, writer'[w].passes = call.passes,
               writer'[w].try = call.try, writer'[w].pc # "removed",
               writer'[w].pc = "open" => l \in dirs'
        PROVE  Fresh(w)'
    BY <2>0, <2>1, <2>2, <2>4 DEF Fresh, Calm
  <2>5. CASE writer'[w].pc = "idle"
    BY <2>5 DEF Fresh, Running
  <2>6. ASSUME NEW c \in Chunks, Write(w, c), writer'[w] # call PROVE Fresh(w)'
    <3>1. /\ writer'[w] = [chunk |-> c, pc |-> "mkdir", level |-> Depth, up |-> FALSE,
                           try |-> 1, passes |-> IF stack = <<>> THEN 0 ELSE 1]
          /\ stack' = stack
      BY <2>6 DEF Write
    <3>2. /\ writer'[w].pc = "mkdir" /\ writer'[w].try = 1
          /\ writer'[w].passes = IF stack = <<>> THEN 0 ELSE 1
      BY <3>1
    <3> QED
      BY <3>1, <3>2 DEF Fresh
  <2>7. ASSUME Onward(w), Running(w), call.level = Depth => l \in dirs' PROVE Fresh(w)'
    <3>1. call.pc # "idle"
      BY <2>7 DEF Running
    <3>2. CASE call.level = Depth
      <4>1. writer'[w] = [call EXCEPT !.pc = "open", !.up = FALSE]
        BY <2>7, <3>2 DEF Onward
      <4> QED
        BY <1>1, <2>4, <2>7, <3>1, <3>2, <4>1
    <3>3. CASE call.level # Depth
      <4>1. writer'[w] = [call EXCEPT !.pc = "mkdir", !.level = call.level + 1, !.up = TRUE]
        BY <2>7, <3>3 DEF Onward
      <4> QED
        BY <1>1, <2>4, <2>7, <3>1, <4>1
    <3> QED
      BY <3>2, <3>3
  <2>8. CASE MkDir(w)
    <3>1. /\ Running(w) /\ Onward(w)
          /\ Prefix(call.chunk, call.level) \in dirs'
      BY <2>8 DEF MkDir, Running
    <3>2. call.level = Depth => l \in dirs'
      BY <1>1, <2>0, <2>8, <3>1, Prefixes, FilesConstants DEF MkDir
    <3> QED
      BY <2>7, <3>1, <3>2
  <2>9. CASE LookAgain(w)
    <3>1. CASE Prefix(call.chunk, call.level) \in dirs
      <4>1. Running(w) /\ Onward(w) /\ dirs' = dirs
        BY <2>9, <3>1 DEF LookAgain, Running
      <4>2. call.level = Depth => l \in dirs'
        BY <1>1, <2>0, <2>9, <3>1, <4>1, Prefixes, FilesConstants DEF LookAgain
      <4> QED
        BY <2>7, <4>1, <4>2
    <3>2. CASE Prefix(call.chunk, call.level) \notin dirs
      BY <2>5, <2>9, <3>2 DEF LookAgain
    <3> QED
      BY <3>1, <3>2
  <2>10. CASE MkDirErr(w)
    <3>1. /\ Running(w) /\ call.pc # "idle"
          /\ \/ writer'[w] = [call EXCEPT !.level = call.level - 1]
             \/ writer'[w] = [call EXCEPT !.pc = "is_dir", !.up = FALSE]
          /\ call.pc = "mkdir"
      BY <2>10 DEF MkDirErr, Running
    <3> QED
      BY <1>1, <2>4, <3>1
  <2>11. CASE Create(w) \/ Fail(w)
    BY <2>5, <2>11 DEF Create, Fail
  <2>12. CASE Retry(w)
    <3>1. /\ call.pc = "open" /\ Running(w)
          /\ leaf \notin dirs /\ leaf # <<>>
          /\ UNCHANGED <<dirs, stale, stack>>
          /\ writer'[w] = IF call.try = 1
                          THEN [call EXCEPT !.pc = "mkdir", !.level = Depth, !.up = FALSE,
                                            !.try = 2]
                          ELSE [call EXCEPT !.pc = "removed"]
      BY <2>12 DEF Retry, Running, IsDir
    <3>2. call.passes \in 0 .. 2 /\ call.try \in {1, 2} /\ call.passes # 0
      BY <1>1, <3>1 DEF Fresh
    <3>3. Calm(leaf)
      <4>1. ASSUME NEW i \in 1 .. Len(stack) PROVE stack[i].dir # leaf
        BY <3>1 DEF Walk, IsDir
      <4> QED
        BY <3>1, <4>1 DEF Calm, Ground
    <3>4. CASE call.try = 1
      <4>1. writer'[w] = [call EXCEPT !.pc = "mkdir", !.level = Depth, !.up = FALSE, !.try = 2]
        BY <3>1, <3>4
      <4>2. /\ writer'[w].pc = "mkdir" /\ writer'[w].passes = call.passes
            /\ writer'[w].chunk = call.chunk
        BY <1>1, <3>1, <4>1
      <4> QED
        BY <2>0, <2>1, <3>2, <3>3, <4>2 DEF Fresh, Calm
    <3>5. CASE call.try # 1
      <4>1. call.passes = 2
        BY <3>1, <3>2, <3>5 DEF Fresh
      <4>2. writer'[w] = [call EXCEPT !.pc = "removed"]
        BY <3>1, <3>5
      <4>3. writer'[w].pc = "removed" /\ writer'[w].passes = 2
        BY <1>1, <3>1, <4>1, <4>2
      <4> QED
        BY <4>3 DEF Fresh, Running
    <3> QED
      BY <3>4, <3>5
  <2>13. ASSUME NEW v \in Writers, v # w,
                \/ \E c \in Chunks : Write(v, c)
                \/ MkDir(v) \/ MkDirErr(v) \/ LookAgain(v) \/ Create(v) \/ Retry(v) \/ Fail(v)
         PROVE  Fresh(w)'
    <3>1. writer'[w] = call
      BY <2>13 DEF Write, MkDir, MkDirErr, LookAgain, Create, Retry, Fail, Onward
    <3> QED
      BY <2>3, <3>1
  <2>14. CASE UNCHANGED writer
    BY <2>3, <2>14
  <2> QED
    BY <1>3, <2>3, <2>6, <2>8, <2>9, <2>10, <2>11, <2>12, <2>13, <2>14
       DEF Next, Unlink, EndPass, AbortPass, VisitDir, LeaveDir, vars
<1> QED
  BY <1>2, <1>3

\* One retry is enough beside one pass: the loop of blob::write runs out only for a write
\* that two passes of the cleanup task overlap.
THEOREM RetrySuffices == Spec => []RetryIsEnough
<1> DEFINE AllFresh == \A w \in Writers : Fresh(w)
           Inv == writer \in [Writers -> Calls] /\ Ground /\ Walk /\ AllFresh
<1>1. Init => Inv
  BY DEF Init, Calls, Ground, Walk, Fresh, Running
<1>2. Inv /\ [Next]_vars => Inv'
  <2> SUFFICES ASSUME Inv, [Next]_vars PROVE Inv'
    OBVIOUS
  <2>1. writer' \in [Writers -> Calls] /\ Ground' /\ Walk'
    BY WriterStep, GroundStep, WalkStep
  <2>2. ASSUME NEW w \in Writers PROVE Fresh(w)'
    BY <2>1, FreshStep
  <2> QED
    BY <2>1, <2>2
<1>3. Inv => RetryIsEnough
  BY DEF RetryIsEnough, Fresh
<1> QED
  BY <1>1, <1>2, <1>3, PTL DEF Spec
=============================================================================
