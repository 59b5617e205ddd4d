----------------------------- MODULE MCBlobStore -----------------------------
(* Small instances of BlobStore. *)
EXTENDS BlobStore, TLC

CONSTANTS k1, k2, c1, b1, b2

\* One chunk with two contents: it is replaced and put back.  One of them ends the
\* entry and the other one does not.  A second entry, if there is one, has no chunk.
OneChunkEntryOf == c1 :> k1
TwoContentsOf == (b1 :> c1) @@ (b2 :> c1)
OneIsFinal == (b1 :> TRUE) @@ (b2 :> FALSE)
NoneIsFinal == (b1 :> FALSE) @@ (b2 :> FALSE)

\* With no finality to tell them apart the contents are alike, as the calls are.
Symmetry == Permutations(Writers) \cup Permutations(Blobs)
=============================================================================
