------------------------------- MODULE ChunkMap -------------------------------
(***************************************************************************)
(* What the chunk store promises: a map from chunks to contents, where a    *)
(* put takes effect at one moment between its call and its answer, an entry *)
(* goes with all of its chunks, and a read returns what its chunk held when *)
(* it began.                                                                *)
(*                                                                          *)
(* No file, batch, background task or sqlite is seen.  What is seen of them *)
(* is that calls may end with an error, and where the promise ends: a read  *)
(* may find its data lost if its chunk has changed since, or if a put of    *)
(* that content was disturbed and no put of it has taken effect since.      *)
(***************************************************************************)
CONSTANTS Entries,  \* entries
          Chunks,   \* chunks
          Contents, \* contents, each of one chunk
          EntryOf,  \* the entry of a chunk
          ChunkOf,  \* the chunk of a content
          IsFinal,  \* is a content the last one of its entry
          Puts,     \* callers that put, one content at a time
          Reads     \* callers that read, one chunk at a time

VARIABLES
    present,  \* the entries that are there
    store,    \* by chunk: its content, if it has one
    putting,  \* by caller: the content whose put is yet to take effect, if any
    reading,  \* by caller: the content it is about to return, if any, and the
              \* finality it asked for
    lost,     \* the callers whose last read found its data lost
    outdated, \* the callers whose chunk has changed since they began to read
    spoilt    \* the contents whose put was disturbed

vars == <<present, store, putting, reading, lost, outdated, spoilt>>

Init ==
    /\ present = {}
    /\ store = [c \in Chunks |-> {}]
    /\ putting = [p \in Puts |-> {}]
    /\ reading = [g \in Reads |-> {}]
    /\ lost = {}
    /\ outdated = {}
    /\ spoilt = {}

\* Part of every step: a chunk that changes outdates the reads of it, only a content
\* that is being put is spoilt, and only one in healed, or not stored, ceases to be.
WatchHealing(healed) ==
    /\ outdated' = {g \in Reads : \E r \in reading'[g] :
                        g \in outdated \/ store'[ChunkOf[r.content]] # {r.content}}
    /\ \A b \in spoilt \ spoilt' : b \in healed \/ store'[ChunkOf[b]] # {b}
    /\ \A b \in spoilt' \ spoilt : \E p \in Puts : putting'[p] = {b}

Watch == WatchHealing({})

\* A put is disturbed, or nothing happens that can be seen.
Spoil ==
    /\ UNCHANGED <<present, store, putting, reading, lost>>
    /\ Watch

Create(k) ==
    /\ present' = present \cup {k}
    /\ UNCHANGED <<store, putting, reading, lost>>
    /\ Watch

BeginPut(p, b) ==
    /\ putting[p] = {}
    /\ putting' = [putting EXCEPT ![p] = {b}]
    /\ UNCHANGED <<present, store, reading, lost>>
    /\ Watch

\* The put takes effect, and is over.
Put(p) ==
    /\ \E b \in putting[p] :
          /\ EntryOf[ChunkOf[b]] \in present
          /\ store' = [store EXCEPT ![ChunkOf[b]] = {b}]
    /\ putting' = [putting EXCEPT ![p] = {}]
    /\ UNCHANGED <<present, reading, lost>>
    /\ WatchHealing(putting[p])

\* The put is over without an effect.
Refuse(p) ==
    /\ putting[p] # {}
    /\ putting' = [putting EXCEPT ![p] = {}]
    /\ UNCHANGED <<present, store, reading, lost>>
    /\ Watch

\* Entries go, and all of their chunks in the same moment.
Remove(K) ==
    /\ present' = present \ K
    /\ store' = [c \in Chunks |-> IF EntryOf[c] \in K THEN {} ELSE store[c]]
    /\ UNCHANGED <<putting, reading, lost>>
    /\ Watch

\* A read asks for a chunk of a finality; there may be nothing to read.
BeginRead(g, c, f) ==
    /\ reading[g] = {}
    /\ reading' = [reading EXCEPT ![g] =
                      {[content |-> b, final |-> f] : b \in {d \in store[c] : IsFinal[d] = f}}]
    /\ lost' = lost \ {g}
    /\ UNCHANGED <<present, store, putting>>
    /\ Watch

\* The read returns reading[g], or an error.
Return(g) ==
    /\ reading' = [reading EXCEPT ![g] = {}]
    /\ lost' = lost \ {g}
    /\ UNCHANGED <<present, store, putting>>
    /\ Watch

Lose(g) ==
    /\ \E r \in reading[g] : r.content \in spoilt \/ g \in outdated
    /\ reading' = [reading EXCEPT ![g] = {}]
    /\ lost' = lost \cup {g}
    /\ UNCHANGED <<present, store, putting>>
    /\ Watch

\* The process ends: so do all calls, and the map stays as it is.
Abandon ==
    /\ putting' = [p \in Puts |-> {}]
    /\ reading' = [g \in Reads |-> {}]
    /\ lost' = {}
    /\ UNCHANGED <<present, store>>
    /\ Watch

Next ==
    \/ Spoil \/ Abandon
    \/ \E k \in Entries : Create(k)
    \/ \E p \in Puts, b \in Contents : BeginPut(p, b)
    \/ \E p \in Puts : Put(p) \/ Refuse(p)
    \/ \E K \in SUBSET Entries : Remove(K)
    \/ \E g \in Reads, c \in Chunks, f \in BOOLEAN : BeginRead(g, c, f)
    \/ \E g \in Reads : Return(g) \/ Lose(g)

Spec == Init /\ [][Next]_vars
=============================================================================
