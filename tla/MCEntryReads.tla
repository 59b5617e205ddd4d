----------------------------- MODULE MCEntryReads -----------------------------
(* EntryReads on a small instance: two readers that share one connection, and keys *)
(* with wildcards of GLOB.                                                         *)
EXTENDS EntryReads

CONSTANTS c1, pager, r1

ThreeKeys == {<<"[", "a">>, <<"*">>, <<"b">>}
OneKey == {<<"b">>}

\* The order of their bytes.
ByteOrder == [k \in Keys |-> CASE k[1] = "*" -> 1 [] k[1] = "[" -> 2 [] OTHER -> 3]

OnePrefix == {<<"[">>}

NegativeToTwo == -1 .. 2
=============================================================================
