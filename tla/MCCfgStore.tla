------------------------------ MODULE MCCfgStore ------------------------------
(* Small instances of CfgStore. *)
EXTENDS CfgStore, TLC

CONSTANTS k1, k2, w1, w2, w3

\* Two writes of one key and one of another.
KeyOfTwoKeys == w1 :> k1 @@ w2 :> k1 @@ w3 :> k2
\* Three writes of one key, one of them a value of --init.
KeyOfInitKey == w1 :> k1 @@ w2 :> k1 @@ w3 :> k1
\* Two writes of one key.
KeyOfOneKey == w1 :> k1 @@ w2 :> k1

\* Writes of the same key that are all made by the server are alike.
Symmetry == Permutations({w1, w2})
=============================================================================
