---------------------------- MODULE NatRecursion ----------------------------
(* Induction and recursion over numbers, stated of sets and functions, so that *)
(* they can be used of any formula and definition.                             *)
EXTENDS Integers, WellFoundedInduction, TLAPS

\* A set of numbers has a least one.
LEMMA LeastElement ==
  ASSUME NEW T \in SUBSET Nat, T # {}
  PROVE  \E m \in T : \A k \in T : m <= k
<1>1. PICK m \in T : \A k \in T : <<k, m>> \notin OpToRel(<, Nat)
  BY NatLessThanWellFounded, WFMin
<1>2. \A k \in T : ~(k < m)
  BY <1>1 DEF OpToRel
<1> QED
  BY <1>2

\* A set that has 0, and with each number the next, has all of them.
LEMMA UpTo ==
  ASSUME NEW n \in Nat, NEW T, 0 \in T, \A i \in 1 .. n : i - 1 \in T => i \in T
  PROVE  \A i \in 0 .. n : i \in T
<1> DEFINE U == {i \in 0 .. n : i \notin T}
<1> SUFFICES ASSUME U # {} PROVE FALSE
  OBVIOUS
<1>1. U \in SUBSET Nat
  OBVIOUS
<1>2. PICK m \in U : \A k \in U : m <= k
  BY <1>1, LeastElement
<1>3. m \in 0 .. n /\ m \notin T /\ m # 0
  OBVIOUS
<1>4. m \in 1 .. n /\ m - 1 \in 0 .. n /\ m - 1 \notin U
  <2>1. m \in 1 .. n /\ m - 1 \in 0 .. n /\ ~(m <= m - 1)
    BY <1>3
  <2> QED
    BY <1>2, <2>1
<1> QED
  BY <1>3, <1>4

\* n steps in S, and the function of the numbers up to n that takes them from base.
Steps(n, S) == [1 .. n -> [S -> S]]
Follows(g, n, S, base, step) ==
    /\ g \in [0 .. n -> S]
    /\ g[0] = base
    /\ \A i \in 1 .. n : g[i] = step[i][g[i - 1]]

\* A recursion defines a function.
LEMMA RecursionDefines ==
  ASSUME NEW n \in Nat, NEW S, NEW base \in S, NEW step \in Steps(n, S)
  PROVE  \E g : Follows(g, n, S, base, step)
<1> DEFINE Def(g, m) == g[0] = base /\ \A i \in 1 .. m : g[i] = step[i][g[i - 1]]
           T == {m \in 0 .. n : \E g \in [0 .. m -> S] : Def(g, m)}
<1>1. 0 \in T
  <2> DEFINE g == [i \in 0 .. 0 |-> base]
  <2>1. g \in [0 .. 0 -> S] /\ Def(g, 0)
    OBVIOUS
  <2>2. 0 \in 0 .. n
    OBVIOUS
  <2> HIDE DEF g, Def
  <2> QED
    BY <2>1, <2>2
<1>2. ASSUME NEW m \in 1 .. n, m - 1 \in T PROVE m \in T
  <2>1. PICK g \in [0 .. m - 1 -> S] : Def(g, m - 1)
    BY <1>2
  <2> DEFINE h == [i \in 0 .. m |-> IF i = m THEN step[m][g[m - 1]] ELSE g[i]]
  <2>2. m \in 0 .. n /\ m - 1 \in 0 .. m - 1 /\ g[m - 1] \in S
    OBVIOUS
  <2>3. h \in [0 .. m -> S]
    BY <2>2 DEF Steps
  <2>4. Def(h, m)
    BY <2>1, <2>2
  <2> HIDE DEF h, Def
  <2> QED
    BY <2>2, <2>3, <2>4
<1>3. n \in 0 .. n
  OBVIOUS
<1>4. n \in T
  <2> HIDE DEF T
  <2>1. \A i \in 0 .. n : i \in T
    BY ONLY <1>1, <1>2, UpTo, n \in Nat
  <2> QED
    BY <1>3, <2>1
<1> QED
  BY <1>4 DEF Follows

\* The value of each number up to n, from those of the numbers above it.
Backwards(n, S) == [1 .. n -> [[1 .. n -> S] -> S]]
LooksAhead(n, S, step) ==
    \A i \in 1 .. n : \A t, u \in [1 .. n -> S] :
        (\A k \in i + 1 .. n : t[k] = u[k]) => step[i][t] = step[i][u]
Solves(g, n, S, step) == g \in [1 .. n -> S] /\ \A i \in 1 .. n : g[i] = step[i][g]

\* A recursion over all that comes after defines a function.
LEMMA BackwardsDefines ==
  ASSUME NEW n \in Nat, NEW S, S # {}, NEW step \in Backwards(n, S), LooksAhead(n, S, step)
  PROVE  \E g : Solves(g, n, S, step)
<1> DEFINE F == [1 .. n -> S]
           Def(g, m) == \A i \in 1 .. n : n - i < m => g[i] = step[i][g]
           T == {m \in 0 .. n : \E g \in F : Def(g, m)}
<1>1. 0 \in T
  <2>1. PICK x : x \in S
    OBVIOUS
  <2> DEFINE g == [i \in 1 .. n |-> x]
  <2>2. g \in F /\ Def(g, 0) /\ 0 \in 0 .. n
    BY <2>1
  <2> HIDE DEF g, Def, F
  <2> QED
    BY <2>2
<1>2. ASSUME NEW m \in 1 .. n, m - 1 \in T PROVE m \in T
  <2>1. PICK g \in F : Def(g, m - 1)
    BY <1>2
  <2> DEFINE x == (n - m) + 1
             h == [i \in 1 .. n |-> IF i = x THEN step[x][g] ELSE g[i]]
  <2>2. x \in 1 .. n /\ m \in 0 .. n /\ x \in Int
    OBVIOUS
  <2>3. step[x][g] \in S
    BY <2>2 DEF Backwards
  <2>4. h \in F
    BY <2>3
  <2>5. ASSUME NEW i \in 1 .. n, n - i < m PROVE h[i] = step[i][h]
    <3>1. \A k \in i + 1 .. n : g[k] = h[k]
      BY <2>5
    <3>2. step[i][g] = step[i][h]
      <4> HIDE DEF h, x
      <4> QED
        BY <2>4, <3>1 DEF LooksAhead
    <3>3. i # x => g[i] = step[i][g]
      BY <2>1, <2>5
    <3> QED
      BY <3>2, <3>3
  <2> HIDE DEF h, x, F
  <2> QED
    BY <2>2, <2>4, <2>5
<1>3. n \in T
  <2>1. n \in 0 .. n
    OBVIOUS
  <2> HIDE DEF T
  <2>2. \A i \in 0 .. n : i \in T
    BY ONLY <1>1, <1>2, UpTo, n \in Nat
  <2> QED
    BY <2>1, <2>2
<1>4. PICK g \in F : Def(g, n)
  BY <1>3
<1>5. \A i \in 1 .. n : n - i < n
  OBVIOUS
<1> QED
  BY <1>4, <1>5 DEF Solves
=============================================================================
