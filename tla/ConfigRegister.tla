---------------------------- MODULE ConfigRegister ----------------------------
(***************************************************************************)
(* What the config store promises: for each key a register that keeps the   *)
(* newest of the writes made to it until it is pruned.                      *)
(*                                                                          *)
(* A write takes effect at one moment between its call and its answer.  No  *)
(* clock, counter, retry, process or sqlite is seen.                        *)
(***************************************************************************)
EXTENDS Integers

CONSTANTS Keys,   \* config keys
          Writes, \* writes, each made once
          KeyOf,  \* the key a write is for
          Stamps  \* timestamps

VARIABLES
    register, \* by key: the write it holds, if any, its moment, and may it expire
    outcome   \* by write: "pending", "applied", "superseded" or "failed"

vars == <<register, outcome>>

Init ==
    /\ register = [k \in Keys |-> {}]
    /\ outcome = [w \in Writes |-> "pending"]

\* A write is newer than what its register holds, and no other register holds a
\* write of the same moment.
Newer(w, t) ==
    /\ \A r \in register[KeyOf[w]] : r.at < t
    /\ \A k \in Keys \ {KeyOf[w]} : \A r \in register[k] : r.at # t

\* It replaces what the register holds.
Apply(w) ==
    /\ outcome[w] = "pending"
    /\ outcome' = [outcome EXCEPT ![w] = "applied"]
    /\ \E t \in Stamps, x \in BOOLEAN :
          /\ Newer(w, t)
          /\ register' = [register EXCEPT ![KeyOf[w]] = {[by |-> w, at |-> t, expires |-> x]}]

\* A write that is not newer changes nothing, and is a success too.
Supersede(w) ==
    /\ outcome[w] = "pending"
    /\ register[KeyOf[w]] # {}
    /\ outcome' = [outcome EXCEPT ![w] = "superseded"]
    /\ UNCHANGED register

\* Writes are refused, or the process that makes them ends: none has any effect.
Fail(W) ==
    /\ W # {}
    /\ \A w \in W : outcome[w] = "pending"
    /\ outcome' = [w \in Writes |-> IF w \in W THEN "failed" ELSE outcome[w]]
    /\ UNCHANGED register

\* A write that has an expiry is pruned.
Forget(k) ==
    /\ \E r \in register[k] : r.expires
    /\ register' = [register EXCEPT ![k] = {}]
    /\ UNCHANGED outcome

Next ==
    \/ \E w \in Writes : Apply(w) \/ Supersede(w)
    \/ \E W \in SUBSET Writes : Fail(W)
    \/ \E k \in Keys : Forget(k)

Spec == Init /\ [][Next]_vars
=============================================================================
