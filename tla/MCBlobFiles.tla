------------------------------ MODULE MCBlobFiles ------------------------------
(* BlobFiles with chunks whose classes and keys read the same when put together. *)
EXTENDS BlobFiles

CONSTANTS w1, w2

Chunk(class, key) == [class |-> class, key |-> key, idx |-> 0, hash |-> 7, final |-> 1]

\* Class "a" with key "b", and class "ab" with an empty key, of equal content.
TwoChunks == {Chunk(<<1>>, <<2>>), Chunk(<<1, 2>>, <<>>)}

\* The files of the two are in one directory of the last level but one.
Shards(f) ==
    [i \in 1 .. Depth |-> IF i < Depth THEN "s" ELSE IF f[1] = 1 THEN "s" ELSE "t"]
=============================================================================
