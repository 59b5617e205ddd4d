----------------------------- MODULE AddrAdsProofs -----------------------------
(* Theorems about AddrAds, for every value of its constants that leaves the margin *)
(* AdsMargin says.                                                                 *)
EXTENDS AddrAds, NatRecursion, SequenceTheorems, TLAPS

\* Time and the writes keep what is left in its range.
LEMMA TimesStep == TimesOK /\ [Next]_vars => TimesOK'
<1> SUFFICES ASSUME TimesOK, [Next]_vars PROVE TimesOK'
  OBVIOUS
<1> USE AdsConstants, AdsMargin DEF TimesOK, server, announcer, table, history
<1>1. ASSUME NEW b \in Binds, Open(b) PROVE TimesOK'
  BY <1>1 DEF Open
<1>2. ASSUME NEW a \in Addrs, Bind(a) PROVE TimesOK'
  BY <1>2 DEF Bind
<1>3. CASE BindFails \/ Stop
  <2>1. Ended
    BY <1>3 DEF BindFails, Stop
  <2>2. /\ proc' = "down" /\ task' = "none" /\ bound' \in Seq(Addrs) /\ queue' \in Seq(Addrs)
        /\ timer' = 0 /\ lease' = 0 /\ prune' = 0
    BY <2>1 DEF Ended
  <2>3. 0 \in 0 .. Ttl /\ 0 \in -MaxLate .. Interval /\ 0 \in -MaxLate .. PruneInterval
    OBVIOUS
  <2>4. ads' \subseteq Addrs /\ left' \in [Addrs -> 0 .. Ttl]
    BY <2>1 DEF Ended
  <2>5. /\ missed' \in [Addrs -> 0 .. 2]
        /\ gone' \in [Addrs -> 0 .. GapBound + 1]
        /\ over' \in [Addrs -> 0 .. PruneBound + 1]
    BY <2>1 DEF Ended, GapBound, PruneBound
  <2> QED
    BY <2>2, <2>3, <2>4, <2>5
<1>4. CASE Serve
  BY <1>4 DEF Serve
<1>5. CASE Begin
  BY <1>5 DEF Begin
<1>6. CASE Write
  BY SMTT(40), <1>6, HeadTailProperties DEF Write, GapBound, PruneBound
<1>7. CASE WriteFails
  BY <1>7 DEF WriteFails
<1>8. CASE Sleep
  BY <1>8 DEF Sleep
<1>9. CASE PrunePass
  BY <1>9 DEF PrunePass, GapBound, PruneBound
<1>10. CASE PruneFails
  BY <1>10 DEF PruneFails, PruneBound
<1>11. CASE Tick
  BY <1>11 DEF Tick, Later, GapBound, PruneBound
<1>12. CASE UNCHANGED vars
  BY <1>12 DEF vars
<1> QED
  BY <1>1, <1>2, <1>3, <1>4, <1>5, <1>6, <1>7, <1>8, <1>9, <1>10, <1>11, <1>12 DEF Next

\* The tasks keep their times.
LEMMA Times == Spec => []TimesOK
<1>1. Init => TimesOK
  BY AdsConstants, AdsMargin DEF Init, TimesOK, GapBound, PruneBound
<1> QED
  BY <1>1, TimesStep, PTL DEF Spec

-----------------------------------------------------------------------------
(* How long an advertisement lasts *)

\* What is left of an advertisement, negative once it was pruned.
Rest(a) == IF a \in ads THEN left[a] ELSE -gone[a]

\* The longest time from the start of a pass to that of the next.
Cycle == MaxPass + Interval + MaxLate

\* What is left of an advertisement whose last write was the last pass, or the one
\* before it, compared to what is left of the sleep or of the lifetime that is being
\* written.
RestOf(a) ==
    /\ missed[a] < 2 => proc = "up" /\ InSeq(a, bound)
    /\ task = "write" /\ InSeq(a, queue) => InSeq(a, bound)
    /\ missed[a] = 0 /\ task = "sleep" => Rest(a) >= timer + Ttl - MaxPass - Interval
    /\ missed[a] = 0 /\ task = "write" =>
          Rest(a) >= IF InSeq(a, queue) THEN lease - Cycle ELSE lease
    /\ missed[a] = 1 /\ task = "sleep" => Rest(a) >= timer + Ttl - Interval - MaxPass - Cycle
    /\ missed[a] = 1 /\ task = "write" => Rest(a) >= lease - 2 * Cycle /\ InSeq(a, queue)

\* It is a number.
LEMMA RestType ==
  ASSUME TimesOK, NEW a \in Addrs
  PROVE  Rest(a) \in Int /\ gone[a] \in Int /\ gone[a] >= 0
<1>1. gone[a] \in 0 .. GapBound + 1 /\ left[a] \in 0 .. Ttl
  BY DEF TimesOK
<1>2. GapBound \in Int /\ Ttl \in Int
  BY AdsConstants DEF GapBound
<1>3. gone[a] \in Int /\ gone[a] >= 0 /\ left[a] \in Int
  BY <1>1, <1>2
<1> QED
  BY <1>3 DEF Rest

\* What is in a queue is its head or in its tail.
LEMMA InTail ==
  ASSUME NEW S, NEW q \in Seq(S), q # <<>>, NEW a
  PROVE  InSeq(a, q) <=> a = Head(q) \/ InSeq(a, Tail(q))
<1>1. /\ Len(q) \in Nat /\ Len(q) > 0 /\ Head(q) = q[1]
      /\ DOMAIN q = 1 .. Len(q)
  OBVIOUS
<1>2. /\ Tail(q) \in Seq(S) /\ Len(Tail(q)) = Len(q) - 1
      /\ \A i \in 1 .. Len(q) - 1 : Tail(q)[i] = q[i + 1]
  BY HeadTailProperties
<1>3. DOMAIN Tail(q) = 1 .. Len(q) - 1
  BY <1>2
<1>4. ASSUME NEW i \in DOMAIN q, q[i] = a, a # Head(q) PROVE InSeq(a, Tail(q))
  <2>1. i \in 1 .. Len(q) /\ i # 1
    BY <1>1, <1>4
  <2>2. i - 1 \in 1 .. Len(q) - 1 /\ (i - 1) + 1 = i
    BY <1>1, <2>1
  <2> QED
    BY <1>2, <1>3, <1>4, <2>2 DEF InSeq
<1>5. ASSUME NEW j \in DOMAIN Tail(q), Tail(q)[j] = a PROVE InSeq(a, q)
  <2>1. j \in 1 .. Len(q) - 1 /\ j + 1 \in 1 .. Len(q)
    BY <1>1, <1>3, <1>5
  <2> QED
    BY <1>1, <1>2, <1>5, <2>1 DEF InSeq
<1>6. 1 \in DOMAIN q
  BY <1>1
<1> QED
  BY <1>1, <1>4, <1>5, <1>6 DEF InSeq

\* A step of the processes, or of time, keeps what is left of each advertisement.
LEMMA RestStep ==
  ASSUME TimesOK, TimesOK', [Next]_vars, NEW a \in Addrs, RestOf(a)
  PROVE  RestOf(a)'
<1>0. /\ Rest(a) \in Int
      /\ lease \in Int /\ timer \in Int /\ Interval \in Int /\ Ttl \in Int
      /\ MaxPass \in Int /\ MaxLate \in Int
  <2>1. Rest(a) \in Int
    BY RestType
  <2> QED
    BY <2>1, AdsConstants DEF TimesOK
<1>a. Rest(a)' \in Int
  <2>1. gone'[a] \in 0 .. GapBound + 1 /\ left'[a] \in 0 .. Ttl
    BY DEF TimesOK
  <2>2. GapBound \in Int /\ Ttl \in Int
    BY AdsConstants DEF GapBound
  <2>3. gone'[a] \in Int /\ left'[a] \in Int
    BY <2>1, <2>2
  <2> QED
    BY <2>3 DEF Rest
<1> USE AdsConstants, AdsMargin DEF TimesOK, server, announcer, table, history, Cycle
<1>1. ASSUME NEW b \in Binds, Open(b) PROVE RestOf(a)'
  BY <1>1 DEF Open, RestOf
<1>2. ASSUME NEW b \in Addrs, Bind(b) PROVE RestOf(a)'
  BY <1>2 DEF Bind, RestOf
<1>3. CASE BindFails \/ Stop
  BY <1>3 DEF BindFails, Stop, Ended, RestOf
<1>4. CASE Serve
  BY <1>4 DEF Serve, RestOf
<1>5. CASE Begin
  <2>1. Rest(a)' = Rest(a)
    BY <1>5 DEF Begin, Rest
  <2> QED
    BY <1>0, <1>5, <2>1 DEF Begin, RestOf
<1>6. CASE Write
  <2> DEFINE b == Head(queue)
  <2>1. queue \in Seq(Addrs) /\ queue # <<>>
    BY <1>6 DEF Write
  <2>2. /\ missed' = [missed EXCEPT ![b] = 0] /\ left' = [left EXCEPT ![b] = lease]
        /\ gone' = [gone EXCEPT ![b] = 0] /\ ads' = ads \cup {b} /\ queue' = Tail(queue)
        /\ UNCHANGED <<server, task, timer, lease>> /\ task = "write"
    BY <1>6 DEF Write
  <2>3. InSeq(a, queue) <=> a = b \/ InSeq(a, queue')
    BY <2>1, <2>2, InTail
  <2> HIDE DEF b
  <2>4. CASE a = b
    <3>1. Rest(a)' = lease /\ missed'[a] = 0
      BY <2>2, <2>4 DEF Rest
    <3>2. proc = "up" /\ InSeq(a, bound)
      BY <2>2, <2>3, <2>4 DEF RestOf
    <3>3. CASE InSeq(a, queue')
      BY <1>0, <2>2, <3>1, <3>2, <3>3 DEF RestOf
    <3>4. CASE ~InSeq(a, queue')
      BY <1>0, <2>2, <3>1, <3>2, <3>4 DEF RestOf
    <3> QED
      BY <3>3, <3>4
  <2>5. CASE a # b
    <3>1. Rest(a)' = Rest(a) /\ missed'[a] = missed[a]
      BY <2>2, <2>5 DEF Rest
    <3> QED
      BY <2>2, <2>3, <2>5, <3>1 DEF RestOf
  <2> QED
    BY <2>4, <2>5
<1>7. CASE WriteFails
  <2>1. Rest(a)' = Rest(a)
    BY <1>7 DEF WriteFails, Rest
  <2>2. /\ missed'[a] = IF InSeq(a, queue) /\ missed[a] < 2 THEN missed[a] + 1 ELSE missed[a]
        /\ task = "write" /\ task' = "sleep" /\ timer' = Interval
        /\ lease >= Ttl - MaxPass /\ UNCHANGED server
    BY <1>7 DEF WriteFails
  <2>3. missed[a] \in 0 .. 2
    OBVIOUS
  <2> QED
    BY SMTT(40), <1>0, <2>1, <2>2, <2>3 DEF RestOf
<1>8. CASE Sleep
  <2>1. Rest(a)' = Rest(a) /\ ~InSeq(a, queue)
    BY <1>8 DEF Sleep, Rest, InSeq
  <2> QED
    BY <1>0, <1>8, <2>1 DEF Sleep, RestOf
<1>9. CASE PrunePass
  <2>1. Rest(a)' = Rest(a)
    BY <1>9 DEF PrunePass, Rest
  <2> QED
    BY <1>9, <2>1 DEF PrunePass, RestOf
<1>10. CASE PruneFails
  BY <1>10 DEF PruneFails, RestOf, Rest
<1>11. CASE Tick
  <2>1. Rest(a)' >= Rest(a) - 1
    BY <1>11 DEF Tick, Rest, Later, GapBound
  <2>2. /\ timer' = IF task = "sleep" THEN timer - 1 ELSE timer
        /\ lease' = IF task = "write" THEN lease - 1 ELSE lease
        /\ UNCHANGED <<server, task, queue, missed>>
    BY <1>11 DEF Tick
  <2> QED
    BY SMTT(40), <1>0, <1>a, <2>1, <2>2 DEF RestOf
<1>12. CASE UNCHANGED vars
  BY <1>12 DEF vars, RestOf, Rest
<1> QED
  BY <1>1, <1>2, <1>3, <1>4, <1>5, <1>6, <1>7, <1>8, <1>9, <1>10, <1>11, <1>12 DEF Next

\* Rest(a) is at least what RestOf says, from the first state on.
LEMMA Rests == Spec => [](\A a \in Addrs : RestOf(a))
<1>1. Init => \A a \in Addrs : RestOf(a)
  <2> SUFFICES ASSUME Init, NEW a \in Addrs PROVE RestOf(a)
    OBVIOUS
  <2>1. missed[a] = 2 /\ task = "none"
    BY DEF Init
  <2> QED
    BY <2>1 DEF RestOf
<1>2. TimesOK /\ TimesOK' /\ (\A a \in Addrs : RestOf(a)) /\ [Next]_vars
        => (\A a \in Addrs : RestOf(a))'
  BY RestStep
<1> QED
  BY <1>1, <1>2, Times, PTL DEF Spec

\* An address is advertised from its first write on, as long as no refresh fails.
THEOREM AdvertisedWhileRefreshed == Spec => []RefreshedInTime
<1>1. ASSUME TimesOK, NEW a \in Addrs, RestOf(a), missed[a] = 0 PROVE a \in ads
  <2>0. Rest(a) \in Int /\ gone[a] \in Int /\ gone[a] >= 0
    BY <1>1, RestType
  <2> USE AdsConstants, AdsMargin DEF TimesOK
  <2>1. Rest(a) > 0
    <3>1. task \in {"sleep", "write"}
      BY <1>1 DEF RestOf
    <3> QED
      BY <1>1, <2>0, <3>1 DEF RestOf, Cycle
  <2> QED
    BY <2>0, <2>1 DEF Rest
<1>2. TimesOK /\ (\A a \in Addrs : RestOf(a)) => RefreshedInTime
  BY <1>1 DEF RefreshedInTime
<1> QED
  BY <1>2, Times, Rests, PTL

\* After one refresh that failed, an address is missing no longer than GapBound.
THEOREM MissingBriefly == Spec => []OneMissShortGap
<1>1. ASSUME TimesOK, NEW a \in Addrs, RestOf(a), missed[a] <= 1, a \notin ads
      PROVE  gone[a] <= GapBound
  <2>0. Rest(a) \in Int /\ gone[a] \in Int /\ gone[a] >= 0
    BY <1>1, RestType
  <2> USE AdsConstants, AdsMargin DEF TimesOK
  <2>1. Rest(a) >= -GapBound
    <3>1. missed[a] \in 0 .. 2 /\ task \in {"sleep", "write"}
      BY <1>1 DEF RestOf
    <3> QED
      BY SMTT(40), <1>1, <2>0, <3>1 DEF RestOf, Cycle, GapBound
  <2> QED
    BY <1>1, <2>1 DEF Rest, GapBound
<1>2. TimesOK /\ (\A a \in Addrs : RestOf(a)) => OneMissShortGap
  BY <1>1 DEF OneMissShortGap
<1> QED
  BY <1>2, Times, Rests, PTL

\* An advertisement is over no longer than the prune task has slept.
OverWhileAsleep ==
    \A a \in ads : /\ over[a] + prune <= PruneInterval
                   /\ left[a] > 0 => over[a] = 0

\* What is expired, and not refreshed, goes with the next prune that succeeds.
THEOREM ExpiredArePruned == Spec => []PrunedInTime
<1>1. Init => OverWhileAsleep
  BY DEF Init, OverWhileAsleep
<1>2. TimesOK /\ TimesOK' /\ OverWhileAsleep /\ [Next]_vars => OverWhileAsleep'
  <2> SUFFICES ASSUME TimesOK, TimesOK', OverWhileAsleep, [Next]_vars, NEW a \in ads'
               PROVE  over'[a] + prune' <= PruneInterval /\ (left'[a] > 0 => over'[a] = 0)
    BY DEF OverWhileAsleep
  <2> USE DEF server, announcer, table, history
  <2>0. prune' \in Int /\ PruneInterval \in Int /\ prune' <= PruneInterval
    BY AdsConstants DEF TimesOK
  <2>1. /\ a \in Addrs /\ prune \in Int /\ PruneInterval \in Int /\ MaxLate \in Int
        /\ prune' \in Int /\ over[a] \in Int /\ left[a] \in Int
        /\ over \in [Addrs -> 0 .. PruneBound + 1] /\ left \in [Addrs -> 0 .. Ttl]
        /\ Ttl \in Int /\ left[a] >= 0
    BY AdsConstants DEF TimesOK, PruneBound
  <2>b. a \in ads => over[a] + prune <= PruneInterval /\ (left[a] > 0 => over[a] = 0)
    BY DEF OverWhileAsleep
  <2>2. CASE BindFails \/ Stop
    <3>1. over' = [b \in Addrs |-> 0] /\ prune' = 0
      BY <2>2 DEF BindFails, Stop, Ended
    <3>2. over'[a] = 0
      BY <2>1, <2>b, <3>1
    <3> QED
      BY <2>0, <2>1, <3>1, <3>2, AdsConstants
  <2>3. CASE Write
    <3> DEFINE b == Head(queue)
    <3>1. /\ over' = [over EXCEPT ![b] = 0] /\ left' = [left EXCEPT ![b] = lease]
          /\ ads' = ads \cup {b} /\ prune' = prune
      BY <2>3 DEF Write
    <3> HIDE DEF b
    <3>2. CASE a = b
      BY <2>0, <2>1, <2>b, <3>1, <3>2
    <3>3. CASE a # b
      BY <2>1, <2>b, <3>1, <3>3
    <3> QED
      BY <3>2, <3>3
  <2>4. CASE PrunePass
    <3>1. a \in ads /\ ~(left[a] <= 0) /\ over'[a] = over[a] /\ prune' = PruneInterval
          /\ left' = left
      BY <2>1, <2>4 DEF PrunePass
    <3>2. over[a] = 0
      BY <2>1, <2>b, <3>1
    <3> QED
      BY <2>1, <3>1, <3>2
  <2>5. CASE PruneFails
    <3>1. over' = [b \in Addrs |-> 0] /\ prune' = PruneInterval
      BY <2>5 DEF PruneFails
    <3> QED
      BY <2>0, <2>1, <3>1
  <2>6. CASE Tick
    <3>1. /\ a \in ads /\ prune' = IF proc = "down" THEN prune ELSE prune - 1
          /\ left'[a] = IF left[a] > 0 THEN left[a] - 1 ELSE left[a]
          /\ over'[a] = IF proc # "down" /\ left[a] = 0
                        THEN Later(over[a], PruneBound) ELSE over[a]
      BY <2>1, <2>6 DEF Tick
    <3>2. Later(over[a], PruneBound) = over[a] \/ Later(over[a], PruneBound) = over[a] + 1
      BY DEF Later
    <3>3. CASE left[a] > 0
      <4>1. over'[a] = 0 /\ over[a] = 0
        BY <2>1, <2>b, <3>1, <3>3
      <4> QED
        BY <2>0, <2>1, <3>1, <4>1
    <3>4. CASE ~(left[a] > 0)
      <4>1. left[a] = 0 /\ left'[a] = 0
        BY <2>1, <3>1, <3>4
      <4> QED
        BY <2>1, <2>b, <3>1, <3>2, <4>1
    <3> QED
      BY <3>3, <3>4
  <2>7. CASE UNCHANGED <<ads, left, over, prune>>
    BY <2>b, <2>7
  <2> QED
    BY <2>2, <2>3, <2>4, <2>5, <2>6, <2>7
       DEF Next, Open, Bind, Serve, Begin, WriteFails, Sleep, vars
<1>3. TimesOK /\ OverWhileAsleep => PrunedInTime
  BY AdsConstants DEF TimesOK, PrunedInTime, PruneBound, OverWhileAsleep
<1> QED
  BY <1>1, <1>2, <1>3, Times, PTL DEF Spec
-----------------------------------------------------------------------------
(* What the lists of addresses hold *)

\* What two lists have together.
LEMMA InConcat ==
  ASSUME NEW A, NEW s \in Seq(A), NEW t \in Seq(A), NEW a
  PROVE  InSeq(a, s \o t) <=> InSeq(a, s) \/ InSeq(a, t)
<1>1. /\ s \o t \in Seq(A) /\ Len(s \o t) = Len(s) + Len(t)
      /\ \A i \in 1 .. Len(s) + Len(t) :
            (s \o t)[i] = IF i <= Len(s) THEN s[i] ELSE t[i - Len(s)]
  BY ConcatProperties
<1>2. /\ DOMAIN (s \o t) = 1 .. Len(s) + Len(t) /\ DOMAIN s = 1 .. Len(s)
      /\ DOMAIN t = 1 .. Len(t) /\ Len(s) \in Nat /\ Len(t) \in Nat
  BY <1>1
<1>3. ASSUME NEW i \in 1 .. Len(s), s[i] = a PROVE InSeq(a, s \o t)
  BY <1>1, <1>2, <1>3 DEF InSeq
<1>4. ASSUME NEW i \in 1 .. Len(t), t[i] = a PROVE InSeq(a, s \o t)
  <2>1. i + Len(s) \in 1 .. Len(s) + Len(t) /\ ~(i + Len(s) <= Len(s))
        /\ (i + Len(s)) - Len(s) = i
    BY <1>2
  <2> QED
    BY <1>1, <1>2, <1>4, <2>1 DEF InSeq
<1>5. ASSUME NEW i \in 1 .. Len(s) + Len(t), (s \o t)[i] = a PROVE InSeq(a, s) \/ InSeq(a, t)
  <2>1. CASE i <= Len(s)
    BY <1>1, <1>2, <1>5, <2>1 DEF InSeq
  <2>2. CASE ~(i <= Len(s))
    <3>1. i - Len(s) \in 1 .. Len(t)
      BY <1>2, <2>2
    <3> QED
      BY <1>1, <1>2, <1>5, <2>2, <3>1 DEF InSeq
  <2> QED
    BY <2>1, <2>2
<1> QED
  BY <1>2, <1>3, <1>4, <1>5 DEF InSeq

\* Concat has what the lists it is made of have.
LEMMA ConcatFacts ==
  ASSUME NEW A, NEW f \in Seq(Seq(A))
  PROVE  /\ Concat(f) \in Seq(A)
         /\ \A a : InSeq(a, Concat(f)) <=> \E i \in DOMAIN f : InSeq(a, f[i])
<1> DEFINE n == Len(f)
           upto[i \in 0 .. n] == IF i = 0 THEN <<>> ELSE upto[i - 1] \o f[i]
           step == [i \in 1 .. n |-> [s \in Seq(A) |-> s \o f[i]]]
<1>1. n \in Nat /\ DOMAIN f = 1 .. n /\ \A i \in 1 .. n : f[i] \in Seq(A)
  OBVIOUS
<1>2. Concat(f) = upto[n]
  BY DEF Concat
<1>3. upto = [i \in 0 .. n |-> IF i = 0 THEN <<>> ELSE upto[i - 1] \o f[i]]
  <2> DEFINE S == Seq(A)
             e == <<>>
  <2>1. step \in Steps(n, S)
    BY <1>1, ConcatProperties DEF Steps
  <2>2. e \in S
    OBVIOUS
  <2>3. \A i \in 1 .. n : \A s \in S : step[i][s] = s \o f[i]
    BY <1>1
  <2>a. n \in Nat
    BY <1>1
  <2> HIDE DEF n, step, S, e
  <2>4. PICK g : Follows(g, n, S, e, step)
    BY ONLY <2>a, <2>1, <2>2, RecursionDefines
  <2>5. g \in [0 .. n -> S] /\ g[0] = e /\ \A i \in 1 .. n : g[i] = step[i][g[i - 1]]
    BY <2>4 DEF Follows
  <2>6. ASSUME NEW i \in 0 .. n
        PROVE  g[i] = IF i = 0 THEN <<>> ELSE g[i - 1] \o f[i]
    <3>1. i # 0 => i \in 1 .. n /\ g[i - 1] \in S
      BY <1>1, <2>5
    <3> QED
      BY <2>3, <2>5, <3>1 DEF e
  <2>7. g = [i \in 0 .. n |-> IF i = 0 THEN <<>> ELSE g[i - 1] \o f[i]]
    BY <2>5, <2>6
  <2> QED
    BY <2>7
<1> HIDE DEF upto, step
<1> DEFINE Good(i) == /\ upto[i] \in Seq(A)
                      /\ \A a : InSeq(a, upto[i]) <=> \E j \in 1 .. i : InSeq(a, f[j])
           T == {i \in 0 .. n : Good(i)}
<1>4. Good(0)
  <2>1. upto[0] = <<>>
    BY <1>1, <1>3
  <2> QED
    BY <2>1 DEF InSeq
<1>5. ASSUME NEW i \in 1 .. n, Good(i - 1) PROVE Good(i)
  <2>0. i \in 0 .. n /\ i # 0
    BY <1>1
  <2>1. upto[i] = upto[i - 1] \o f[i] /\ f[i] \in Seq(A) /\ upto[i - 1] \in Seq(A)
    BY <1>1, <1>3, <1>5, <2>0
  <2>2. upto[i] \in Seq(A)
    BY <2>1, ConcatProperties
  <2>3. ASSUME NEW a PROVE InSeq(a, upto[i]) <=> \E j \in 1 .. i : InSeq(a, f[j])
    <3>1. InSeq(a, upto[i]) <=> InSeq(a, upto[i - 1]) \/ InSeq(a, f[i])
      BY <2>1, InConcat
    <3>2. 1 .. i = (1 .. i - 1) \cup {i}
      BY <1>1
    <3> QED
      BY <1>5, <3>1, <3>2
  <2> QED
    BY <2>2, <2>3
<1>6. Good(n)
  <2>1. 0 \in T
    BY <1>1, <1>4
  <2>2. \A i \in 1 .. n : i - 1 \in T => i \in T
    <3> HIDE DEF Good
    <3> QED
      BY <1>1, <1>5
  <2> HIDE DEF T
  <2>3. \A i \in 0 .. n : i \in T
    BY <1>1, <2>1, <2>2, UpTo
  <2>4. n \in T
    BY <1>1, <2>3
  <2> QED
    BY <2>4 DEF T
<1> QED
  BY <1>1, <1>2, <1>6

\* What Usable selects.
LEMMA UsableFacts ==
  ASSUME NEW s \in Seq(Addrs), NEW w
  PROVE  /\ Usable(s, w) \in Seq(Addrs)
         /\ \A a : InSeq(a, Usable(s, w)) <=>
                      InSeq(a, s) /\ IsV4[a] = IsV4[w] /\ a \notin Skipped
<1> DEFINE f == [i \in DOMAIN s |-> IF IsV4[s[i]] = IsV4[w] /\ s[i] \notin Skipped
                                    THEN <<s[i]>> ELSE <<>>]
<1>1. f \in Seq(Seq(Addrs)) /\ DOMAIN f = DOMAIN s
  <2>1. \A i \in DOMAIN s : f[i] \in Seq(Addrs)
    OBVIOUS
  <2>2. DOMAIN s = 1 .. Len(s) /\ Len(s) \in Nat
    OBVIOUS
  <2>3. f \in [1 .. Len(s) -> Seq(Addrs)]
    BY <2>1, <2>2
  <2> HIDE DEF f
  <2> QED
    BY <2>2, <2>3
<1>2. ASSUME NEW a, NEW i \in DOMAIN s
      PROVE  InSeq(a, f[i]) <=> a = s[i] /\ IsV4[a] = IsV4[w] /\ a \notin Skipped
  <2>1. CASE IsV4[s[i]] = IsV4[w] /\ s[i] \notin Skipped
    <3>1. f[i] = <<s[i]>>
      BY <2>1
    <3>2. DOMAIN f[i] = {1} /\ f[i][1] = s[i]
      BY <3>1
    <3> QED
      BY <2>1, <3>2 DEF InSeq
  <2>2. CASE ~(IsV4[s[i]] = IsV4[w] /\ s[i] \notin Skipped)
    BY <2>2 DEF InSeq
  <2> QED
    BY <2>1, <2>2
<1>3. Usable(s, w) = Concat(f)
  BY DEF Usable
<1> HIDE DEF f
<1>4. Concat(f) \in Seq(Addrs) /\ \A a : InSeq(a, Concat(f)) <=> \E i \in DOMAIN f : InSeq(a, f[i])
  BY <1>1, ConcatFacts
<1>5. ASSUME NEW a
      PROVE  InSeq(a, Usable(s, w)) <=> InSeq(a, s) /\ IsV4[a] = IsV4[w] /\ a \notin Skipped
  <2>1. InSeq(a, Usable(s, w)) <=> \E i \in DOMAIN s : InSeq(a, f[i])
    BY <1>1, <1>3, <1>4
  <2>2. InSeq(a, s) <=> \E i \in DOMAIN s : a = s[i]
    BY DEF InSeq
  <2> QED
    BY <1>2, <2>1, <2>2
<1> QED
  BY <1>3, <1>4, <1>5

\* Every interface has a list of addresses.
LEMMA IfaceAddrs ==
  /\ DOMAIN Ifaces = 1 .. Len(Ifaces) /\ Len(Ifaces) \in Nat
  /\ \A i \in DOMAIN Ifaces : Ifaces[i].addr \in Seq(Addrs)
<1> DEFINE Iface == [internal : BOOLEAN, addr : Seq(Addrs)]
<1>1. \A x \in Iface : x.addr \in Seq(Addrs)
  OBVIOUS
<1>2. Ifaces \in Seq(Iface)
  BY AdsConstants
<1> HIDE DEF Iface
<1>3. /\ DOMAIN Ifaces = 1 .. Len(Ifaces) /\ Len(Ifaces) \in Nat
      /\ \A i \in DOMAIN Ifaces : Ifaces[i] \in Iface
  BY <1>2
<1> QED
  BY <1>1, <1>3

\* A wildcard covers the routable addresses of its family.
LEMMA CoveredFacts ==
  ASSUME NEW w
  PROVE  /\ Covered(w) \in Seq(Addrs)
         /\ \A a : InSeq(a, Covered(w)) <=> Routable(a) /\ IsV4[a] = IsV4[w]
<1> DEFINE f == [i \in DOMAIN Ifaces |->
                   IF Ifaces[i].internal THEN <<>> ELSE Usable(Ifaces[i].addr, w)]
<1>1. /\ DOMAIN Ifaces = 1 .. Len(Ifaces) /\ Len(Ifaces) \in Nat
      /\ \A i \in DOMAIN Ifaces : Ifaces[i].addr \in Seq(Addrs)
  BY IfaceAddrs
<1>2. ASSUME NEW i \in DOMAIN Ifaces PROVE f[i] \in Seq(Addrs)
  <2>1. Usable(Ifaces[i].addr, w) \in Seq(Addrs)
    BY <1>1, UsableFacts
  <2> QED
    BY <2>1
<1>3. f \in Seq(Seq(Addrs)) /\ DOMAIN f = DOMAIN Ifaces
  <2>1. f \in [1 .. Len(Ifaces) -> Seq(Addrs)]
    BY <1>1, <1>2
  <2> HIDE DEF f
  <2> QED
    BY <1>1, <2>1
<1>4. ASSUME NEW a, NEW i \in DOMAIN Ifaces
      PROVE  InSeq(a, f[i]) <=> /\ ~Ifaces[i].internal /\ InSeq(a, Ifaces[i].addr)
                                /\ IsV4[a] = IsV4[w] /\ a \notin Skipped
  <2>1. CASE Ifaces[i].internal
    BY <2>1 DEF InSeq
  <2>2. CASE ~Ifaces[i].internal
    BY <1>1, <2>2, UsableFacts
  <2> QED
    BY <2>1, <2>2
<1>5. Covered(w) = Concat(f)
  BY DEF Covered
<1> HIDE DEF f
<1>6. Concat(f) \in Seq(Addrs) /\ \A a : InSeq(a, Concat(f)) <=> \E i \in DOMAIN f : InSeq(a, f[i])
  BY <1>3, ConcatFacts
<1> QED
  BY <1>3, <1>4, <1>5, <1>6 DEF Routable

\* What an address that was asked for is replaced by.
Meant(b) == IF b \in Wildcards /\ \E a : Routable(a) /\ IsV4[a] = IsV4[b]
            THEN {a \in Addrs : Routable(a) /\ IsV4[a] = IsV4[b]} ELSE {b}

\* Expand replaces each wildcard by what it covers, if that is something.
LEMMA ExpandFacts ==
  ASSUME NEW b \in Seq(Addrs)
  PROVE  /\ Expand(b) \in Seq(Addrs)
         /\ \A a : InSeq(a, Expand(b)) <=> \E i \in DOMAIN b : a \in Meant(b[i])
<1> DEFINE f == [i \in DOMAIN b |->
                   IF b[i] \notin Wildcards THEN <<b[i]>>
                   ELSE IF Covered(b[i]) = <<>> THEN <<b[i]>> ELSE Covered(b[i])]
<1>1. DOMAIN b = 1 .. Len(b) /\ Len(b) \in Nat /\ \A i \in DOMAIN b : b[i] \in Addrs
  OBVIOUS
<1>2. ASSUME NEW i \in DOMAIN b PROVE f[i] \in Seq(Addrs)
  <2>1. Covered(b[i]) \in Seq(Addrs) /\ <<b[i]>> \in Seq(Addrs)
    BY <1>1, CoveredFacts
  <2> QED
    BY <2>1
<1>3. f \in Seq(Seq(Addrs)) /\ DOMAIN f = DOMAIN b
  <2>1. f \in [1 .. Len(b) -> Seq(Addrs)]
    BY <1>1, <1>2
  <2> HIDE DEF f
  <2> QED
    BY <1>1, <2>1
<1>4. ASSUME NEW a, NEW i \in DOMAIN b PROVE InSeq(a, f[i]) <=> a \in Meant(b[i])
  <2>1. /\ Covered(b[i]) \in Seq(Addrs)
        /\ \A c : InSeq(c, Covered(b[i])) <=> Routable(c) /\ IsV4[c] = IsV4[b[i]]
    BY CoveredFacts
  <2>2. Covered(b[i]) = <<>> <=> ~\E c : InSeq(c, Covered(b[i]))
    <3>1. Covered(b[i]) # <<>> => 1 \in DOMAIN Covered(b[i])
      BY <2>1
    <3> QED
      BY <3>1 DEF InSeq
  <2>3. \A c : InSeq(c, Covered(b[i])) => c \in Addrs
    BY <2>1 DEF InSeq
  <2>4. CASE b[i] \in Wildcards /\ Covered(b[i]) # <<>>
    <3>1. f[i] = Covered(b[i])
      BY <2>4
    <3> QED
      BY <2>1, <2>2, <2>3, <2>4, <3>1 DEF Meant
  <2>5. CASE ~(b[i] \in Wildcards /\ Covered(b[i]) # <<>>)
    <3>1. f[i] = <<b[i]>>
      BY <2>5
    <3>2. DOMAIN f[i] = {1} /\ f[i][1] = b[i]
      BY <3>1
    <3>3. Meant(b[i]) = {b[i]}
      BY <2>1, <2>2, <2>5 DEF Meant
    <3> QED
      BY <3>2, <3>3 DEF InSeq
  <2> QED
    BY <2>4, <2>5
<1>5. Expand(b) = Concat(f)
  BY DEF Expand
<1> HIDE DEF f
<1>6. Concat(f) \in Seq(Addrs) /\ \A a : InSeq(a, Concat(f)) <=> \E i \in DOMAIN f : InSeq(a, f[i])
  BY <1>3, ConcatFacts
<1> QED
  BY <1>3, <1>4, <1>5, <1>6
-----------------------------------------------------------------------------
(* The listeners *)

\* What is bound and what is left to bind make up what was asked for.
Binding ==
    /\ asked \in Seq(Addrs) /\ todo \in Seq(Addrs) /\ bound \in Seq(Addrs)
    /\ proc \in {"down", "bind", "up"}
    /\ proc = "down" => asked = <<>> /\ todo = <<>> /\ bound = <<>>
    /\ proc = "bind" => bound \o todo = Expand(asked)
    /\ proc = "up" => todo = <<>> /\ bound = Expand(asked)

\* A step binds the next address, or ends them all.
LEMMA BindingStep == Binding /\ [Next]_vars => Binding'
<1> SUFFICES ASSUME Binding, [Next]_vars PROVE Binding'
  OBVIOUS
<1>1. ASSUME NEW b \in Binds, Open(b) PROVE Binding'
  <2>1. /\ proc = "down" /\ proc' = "bind" /\ asked' = b /\ todo' = Expand(b)
        /\ bound' = <<>>
    BY <1>1 DEF Open, Binding
  <2>2. b \in Seq(Addrs) /\ Expand(b) \in Seq(Addrs)
    BY AdsConstants, ExpandFacts
  <2>3. <<>> \o Expand(b) = Expand(b)
    BY <2>2
  <2> QED
    BY <2>1, <2>2, <2>3 DEF Binding
<1>2. ASSUME NEW a \in Addrs, Bind(a) PROVE Binding'
  <2>1. /\ proc = "bind" /\ proc' = "bind" /\ asked' = asked /\ todo # <<>> /\ a = Head(todo)
        /\ bound' = Append(bound, a) /\ todo' = Tail(todo)
    BY <1>2 DEF Bind
  <2>2. bound \in Seq(Addrs) /\ todo \in Seq(Addrs) /\ bound \o todo = Expand(asked)
    BY <2>1 DEF Binding
  <2>3. Append(bound, a) \in Seq(Addrs) /\ Tail(todo) \in Seq(Addrs)
    BY <2>1, <2>2
  <2>4. Append(bound, a) \o Tail(todo) = bound \o todo
    <3>1. a \in Addrs /\ <<a>> \in Seq(Addrs) /\ Append(bound, a) = bound \o <<a>>
      BY <2>2, AppendIsConcat
    <3>2. todo = <<a>> \o Tail(todo)
      <4>1. 1 \in 1 .. Len(todo) /\ Len(todo) \in 1 .. Len(todo) /\ a = todo[1]
        BY <2>1, <2>2
      <4>2. SubSeq(todo, 1, Len(todo)) = <<a>> \o SubSeq(todo, 1 + 1, Len(todo))
        BY <2>2, <4>1, SubSeqRecursiveFirst
      <4>3. SubSeq(todo, 1, Len(todo)) = todo /\ SubSeq(todo, 2, Len(todo)) = Tail(todo)
        BY <2>1, <2>2, SubSeqFull, TailIsSubSeq
      <4> QED
        BY <4>2, <4>3
    <3>3. (bound \o <<a>>) \o Tail(todo) = bound \o (<<a>> \o Tail(todo))
      BY <2>2, <2>3, <3>1, ConcatAssociative
    <3> QED
      BY <3>1, <3>2, <3>3
  <2> QED
    BY <2>1, <2>2, <2>3, <2>4 DEF Binding
<1>3. CASE BindFails \/ Stop
  <2>1. proc' = "down" /\ asked' = <<>> /\ todo' = <<>> /\ bound' = <<>>
    BY <1>3 DEF BindFails, Stop, Ended
  <2> QED
    BY <2>1 DEF Binding
<1>4. CASE Serve
  <2>1. /\ proc = "bind" /\ todo = <<>> /\ proc' = "up"
        /\ asked' = asked /\ todo' = todo /\ bound' = bound
    BY <1>4 DEF Serve
  <2>2. bound \o <<>> = bound
    BY ConcatEmptySeq DEF Binding
  <2> QED
    BY <2>1, <2>2 DEF Binding
<1>5. CASE UNCHANGED server
  BY <1>5 DEF server, Binding
<1> QED
  BY <1>1, <1>2, <1>3, <1>4, <1>5
     DEF Next, Begin, Write, WriteFails, Sleep, PrunePass, PruneFails, Tick, vars

\* What it was asked for is bound, address by address.
LEMMA BindingInv == Spec => []Binding
<1>1. Init => Binding
  BY DEF Init, Binding
<1> QED
  BY <1>1, BindingStep, PTL DEF Spec

\* Every variable has its type.
THEOREM AdsTypes == Spec => []AdsTypeOK
<1>1. TimesOK /\ Binding => AdsTypeOK
  BY DEF AdsTypeOK, Binding
<1> QED
  BY <1>1, Times, BindingInv, PTL

\* The server listens on all of its addresses, or on none.
THEOREM BoundTogether == Spec => []BindAllOrNothing
<1>1. Binding => BindAllOrNothing
  BY DEF Binding, BindAllOrNothing
<1> QED
  BY <1>1, BindingInv, PTL

\* Each address that is bound is one that a peer can use, or the best there is, and each
\* that was asked for has one that is bound.
THEOREM Reachable == Spec => []BoundReachable
<1>1. ASSUME Binding PROVE BoundReachable
  <2> DEFINE Stands(a, w) == a = w \/ (w \in Wildcards /\ Routable(a) /\ IsV4[a] = IsV4[w])
  <2>1. asked \in Seq(Addrs) /\ bound \in Seq(Addrs) /\ todo \in Seq(Addrs)
    BY <1>1 DEF Binding
  <2>2. \A a : InSeq(a, Expand(asked)) <=> \E j \in DOMAIN asked : a \in Meant(asked[j])
    BY <2>1, ExpandFacts
  <2>3. ASSUME NEW i \in DOMAIN bound PROVE InSeq(bound[i], Expand(asked))
    <3>1. CASE proc = "bind"
      <4>1. bound \o todo = Expand(asked)
        BY <1>1, <3>1 DEF Binding
      <4>2. InSeq(bound[i], bound)
        BY DEF InSeq
      <4>3. InSeq(bound[i], bound \o todo)
        BY ONLY <2>1, <4>2, InConcat
      <4> QED
        BY <4>1, <4>3
    <3>2. CASE proc = "up"
      BY <1>1, <3>2 DEF Binding, InSeq
    <3> QED
      BY <1>1, <3>1, <3>2 DEF Binding
  <2>4. ASSUME NEW a, Routable(a) PROVE a \notin Wildcards
    BY <2>4, IfacesSpecified DEF Routable, InSeq
  <2>5. ASSUME NEW i \in DOMAIN bound
        PROVE  /\ \E j \in DOMAIN asked : Stands(bound[i], asked[j])
               /\ bound[i] \in Wildcards =>
                     \A a \in Addrs : IsV4[a] = IsV4[bound[i]] => ~Routable(a)
    <3>1. PICK j \in DOMAIN asked : bound[i] \in Meant(asked[j])
      BY <2>2, <2>3
    <3> QED
      BY <2>4, <3>1 DEF Meant
  <2>6. ASSUME proc = "up", NEW j \in DOMAIN asked
        PROVE  \E i \in DOMAIN bound : Stands(bound[i], asked[j])
    <3>1. PICK a : a \in Meant(asked[j])
      <4>1. ASSUME NEW c, Routable(c) PROVE c \in Addrs
        <5>1. PICK f \in DOMAIN Ifaces : InSeq(c, Ifaces[f].addr)
          BY <4>1 DEF Routable
        <5> QED
          BY <5>1, IfaceAddrs DEF InSeq
      <4> QED
        BY <4>1 DEF Meant
    <3>2. InSeq(a, bound)
      BY <1>1, <2>2, <2>6, <3>1 DEF Binding
    <3>3. Stands(a, asked[j])
      BY <3>1 DEF Meant
    <3> QED
      BY <3>2, <3>3 DEF InSeq
  <2> QED
    BY <2>5, <2>6 DEF BoundReachable
<1> QED
  BY <1>1, BindingInv, PTL
=============================================================================
