------------------------- MODULE RateLimiterProofs -------------------------
(* The limiter's promises, for every limit, window and number of callers.  *)
EXTENDS RateLimiter, SequenceTheorems, FiniteSetTheorems, TLAPS

\* A bucket is what is left of the log after some prefix of outdated hits, and
\* holds no more than MaxRequests.
Suffix(i) ==
    /\ Len(hits[i]) <= Len(log[i])
    /\ Len(hits[i]) <= MaxRequests
    /\ \A k \in 1..Len(hits[i]) : hits[i][k] = log[i][Len(log[i]) - Len(hits[i]) + k]
    /\ \A k \in 1..(Len(log[i]) - Len(hits[i])) : log[i][k] < now - Window

\* A refused caller's oldest hit is outdated by the time its refusal is over.
RefusalEnds(i) ==
    due[i] # NotRefused => /\ hits[i] # <<>>
                           /\ hits[i][1] + Window < due[i]

Spread(i) ==
    \A k \in 1..(Len(log[i]) - MaxRequests) : log[i][k + MaxRequests] - log[i][k] > Window

Buckets == \A i \in Identities : Suffix(i) /\ RefusalEnds(i) /\ Spread(i)

Inv == TypeOK /\ Buckets

\* What SubSeq leaves of a sequence whose first n elements go.
LEMMA Rest ==
    ASSUME NEW S, NEW s \in Seq(S), NEW n \in 0..Len(s)
    PROVE  /\ SubSeq(s, n + 1, Len(s)) \in Seq(S)
           /\ Len(SubSeq(s, n + 1, Len(s))) = Len(s) - n
           /\ \A k \in 1..(Len(s) - n) : SubSeq(s, n + 1, Len(s))[k] = s[n + k]
BY SubSeqProperties, LenProperties

\* The rounded-down header plus one second is longer than the wait itself.
LEMMA SecondsCoverTheWait ==
    ASSUME NEW wait \in Nat, NEW T \in Nat \ {0}
    PROVE  wait \div T \in Nat /\ (wait \div T + 1) * T > wait
OBVIOUS

\* Counting from the end of the log is counting from the front of the bucket.
LEMMA Shift ==
    ASSUME NEW h \in Nat, NEW l \in Nat, NEW n \in 0..h, NEW k \in 1..(h - n)
    PROVE  n + k \in 1..h /\ l - h + (n + k) = l - (h - n) + k
OBVIOUS

LEMMA OneOrOther ==
    ASSUME NEW h \in Nat, NEW l \in Nat, NEW n \in 0..h, NEW k \in 1..(l - (h - n))
    PROVE  k <= l - h \/ k > l - h
OBVIOUS

LEMMA ShiftEnd ==
    ASSUME NEW l \in Nat, NEW b \in Nat
    PROVE  l - b + (b + 1) = l + 1
OBVIOUS

LEMMA ShiftBack ==
    ASSUME NEW h \in Nat, NEW l \in Nat, NEW n \in 0..h, h <= l,
           NEW k \in 1..(l - (h - n)), k > l - h
    PROVE  /\ k - (l - h) \in 1..n /\ k - (l - h) \in 1..h
           /\ l - h + (k - (l - h)) = k
OBVIOUS

\* What is left of a bucket after its outdated hits have gone.
LEMMA Trimmed ==
    ASSUME Inv, NEW i \in Identities, NEW n \in 0..Len(hits[i]), Pops(hits[i], n)
    PROVE  LET bucket == SubSeq(hits[i], n + 1, Len(hits[i]))
           IN  /\ bucket \in Seq(0..MaxTime)
               /\ Len(bucket) = Len(hits[i]) - n
               /\ \A k \in 1..Len(bucket) :
                      bucket[k] = log[i][Len(log[i]) - Len(bucket) + k]
               /\ \A k \in 1..(Len(log[i]) - Len(bucket)) : log[i][k] < now - Window
<1> DEFINE bucket == SubSeq(hits[i], n + 1, Len(hits[i]))
<1>1. /\ hits[i] \in Seq(0..MaxTime) /\ log[i] \in Seq(0..MaxTime) /\ now \in 0..MaxTime
      /\ Window \in Nat /\ MaxTime \in Nat /\ Suffix(i)
  BY LimiterConstants DEF Inv, TypeOK, Buckets
<1>2. Len(hits[i]) \in Nat /\ Len(log[i]) \in Nat /\ Len(hits[i]) <= Len(log[i])
  BY <1>1, LenProperties DEF Suffix
<1>3. bucket \in Seq(0..MaxTime)
  BY <1>1, Rest
<1>4. Len(bucket) = Len(hits[i]) - n
  BY <1>1, Rest
<1>5. \A k \in 1..(Len(hits[i]) - n) : bucket[k] = hits[i][n + k]
  BY <1>1, Rest
<1> HIDE DEF bucket
<1>6. ASSUME NEW k \in 1..(Len(hits[i]) - n)
      PROVE  bucket[k] = log[i][Len(log[i]) - (Len(hits[i]) - n) + k]
  <2>1. /\ n + k \in 1..Len(hits[i])
        /\ Len(log[i]) - Len(hits[i]) + (n + k) = Len(log[i]) - (Len(hits[i]) - n) + k
    BY <1>2, Shift
  <2>2. hits[i][n + k] = log[i][Len(log[i]) - Len(hits[i]) + (n + k)]
    BY <1>1, <2>1 DEF Suffix
  <2> QED
    BY <1>5, <2>1, <2>2
<1>7. ASSUME NEW k \in 1..(Len(log[i]) - (Len(hits[i]) - n)) PROVE log[i][k] < now - Window
  <2>1. CASE k <= Len(log[i]) - Len(hits[i])
    <3>1. k \in 1..(Len(log[i]) - Len(hits[i]))
      BY <1>2, <2>1
    <3> QED
      BY <1>1, <3>1 DEF Suffix
  <2>2. CASE k > Len(log[i]) - Len(hits[i])
    <3> DEFINE j == k - (Len(log[i]) - Len(hits[i]))
    <3>1. j \in 1..n /\ j \in 1..Len(hits[i]) /\ Len(log[i]) - Len(hits[i]) + j = k
      BY <1>2, <2>2, ShiftBack
    <3> HIDE DEF j
    <3>2. hits[i][j] = log[i][k]
      BY <1>1, <3>1 DEF Suffix
    <3> QED
      BY <3>1, <3>2 DEF Pops, Outdated
  <2>3. k <= Len(log[i]) - Len(hits[i]) \/ k > Len(log[i]) - Len(hits[i])
    BY <1>2, OneOrOther
  <2> QED
    BY <2>1, <2>2, <2>3
<1> QED
  BY <1>3, <1>4, <1>6, <1>7 DEF bucket

\* The limit on known identities removes only empty buckets: nothing changes.
LEMMA CleanupIsHarmless ==
    ASSUME TypeOK, NEW i \in Identities, NEW bucket \in Seq(0..MaxTime), Admit(i, bucket)
    PROVE  hits' = [hits EXCEPT ![i] = Append(bucket, now)]
<1> DEFINE buckets == [hits EXCEPT ![i] = Append(bucket, now)]
           gone == Cleaned(buckets, known \cup {i})
<1>1. \A j \in gone : buckets[j] = <<>>
  BY DEF Cleaned
<1>2. hits' = [j \in Identities |-> IF j \in gone THEN <<>> ELSE buckets[j]]
  BY DEF Admit
<1>3. buckets = [j \in Identities |-> buckets[j]]
  BY DEF TypeOK
<1> QED
  BY <1>1, <1>2, <1>3

LEMMA TypeStep == TypeOK /\ [Next]_vars => TypeOK'
<1>1. SUFFICES ASSUME TypeOK, [Next]_vars PROVE TypeOK'
  OBVIOUS
<1>2. MaxTime \in Nat /\ TicksPerSecond \in Nat \ {0} /\ Window \in Nat
  BY LimiterConstants
<1>3. ASSUME NEW key \in Presented, NEW host \in Hosts, Request(key, host) PROVE TypeOK'
  <2> DEFINE i == Identity(key, host)
  <2>1. i \in Identities /\ Check(i)
    BY <1>3, LimiterConstants DEF Request, Authorized, Identity, Identities
  <2>2. PICK n \in 0..Len(hits[i]) :
            \/ Refuse(i, SubSeq(hits[i], n + 1, Len(hits[i])))
            \/ Admit(i, SubSeq(hits[i], n + 1, Len(hits[i])))
    BY <2>1 DEF Check
  <2> DEFINE bucket == SubSeq(hits[i], n + 1, Len(hits[i]))
  <2>3. /\ hits[i] \in Seq(0..MaxTime) /\ now \in 0..MaxTime /\ now' = now
        /\ Len(hits[i]) \in Nat
    BY <1>1, <2>1, LenProperties DEF TypeOK, Check
  <2>4. bucket \in Seq(0..MaxTime)
    BY <2>3, Rest
  <2> HIDE DEF bucket
  <2>5. CASE Refuse(i, bucket)
    <3>1. bucket # <<>> /\ Len(bucket) \in Nat /\ 1 \in 1..Len(bucket)
      <4>1. Len(bucket) \in Nat /\ Len(bucket) >= MaxRequests
        BY <2>4, <2>5, LenProperties DEF Refuse
      <4> QED
        BY <2>4, <4>1, LimiterConstants, EmptySeq
    <3>2. bucket[1] \in 0..MaxTime
      BY <2>4, <3>1, ElementOfSeq, EmptySeq
    <3>3. RetryAfterHeader(bucket) \in Int
      <4> DEFINE left == Window - (now - bucket[1])
      <4>1. (IF left > 0 THEN left ELSE 0) \in Nat
        BY <1>2, <2>3, <3>2
      <4>2. (IF left > 0 THEN left ELSE 0) \div TicksPerSecond \in Nat
        BY <1>2, <4>1, SecondsCoverTheWait
      <4> QED
        BY <4>2 DEF RetryAfterHeader
    <3>4. now + (RetryAfterHeader(bucket) + 1) * TicksPerSecond \in Int
      BY <1>2, <2>3, <3>3
    <3> QED
      BY <1>1, <2>1, <2>3, <2>4, <2>5, <3>4 DEF TypeOK, Refuse
  <2>6. CASE Admit(i, bucket)
    <3>1. Append(bucket, now) \in Seq(0..MaxTime) /\ Append(log[i], now) \in Seq(0..MaxTime)
      BY <1>1, <2>1, <2>3, <2>4, AppendProperties DEF TypeOK
    <3>2. hits' = [hits EXCEPT ![i] = Append(bucket, now)]
      BY <1>1, <2>1, <2>4, <2>6, CleanupIsHarmless
    <3>3. \A j \in Identities : hits'[j] # <<>> => j \in known'
      <4>1. hits' = [j \in Identities |->
              IF j \in Cleaned([hits EXCEPT ![i] = Append(bucket, now)], known \cup {i})
              THEN <<>> ELSE [hits EXCEPT ![i] = Append(bucket, now)][j]]
        BY <2>6 DEF Admit
      <4> QED
        BY <1>1, <2>1, <2>6, <4>1 DEF TypeOK, Admit
    <3>4. known' \subseteq Identities /\ due' \in [Identities -> Int]
      BY <1>1, <2>1, <2>6 DEF TypeOK, Admit, NotRefused
    <3>5. hits' \in [Identities -> Seq(0..MaxTime)] /\ log' \in [Identities -> Seq(0..MaxTime)]
      BY <1>1, <2>1, <2>6, <3>1, <3>2 DEF TypeOK, Admit
    <3> QED
      BY <2>3, <3>3, <3>4, <3>5 DEF TypeOK
  <2> QED
    BY <2>2, <2>5, <2>6 DEF bucket
<1>4. CASE Tick
  BY <1>1, <1>2, <1>4 DEF TypeOK, Tick
<1>5. CASE UNCHANGED vars
  BY <1>1, <1>5 DEF TypeOK, vars
<1> QED
  BY <1>1, <1>3, <1>4, <1>5 DEF Next

\* The Retry-After header plus one second outlasts the oldest hit of the bucket.
LEMMA HeaderCovers ==
    ASSUME TypeOK, NEW bucket \in Seq(0..MaxTime), bucket # <<>>
    PROVE  bucket[1] + Window < now + (RetryAfterHeader(bucket) + 1) * TicksPerSecond
<1> DEFINE left == Window - (now - bucket[1])
           wait == IF left > 0 THEN left ELSE 0
<1>1. /\ bucket[1] \in 0..MaxTime /\ now \in Nat /\ Window \in Nat /\ MaxTime \in Nat
      /\ TicksPerSecond \in Nat \ {0}
  <2>1. 1 \in 1..Len(bucket)
    BY EmptySeq
  <2> QED
    BY <2>1, ElementOfSeq, LimiterConstants DEF TypeOK
<1>2. wait \in Nat /\ bucket[1] + Window <= now + wait
  BY <1>1
<1>3. /\ wait \div TicksPerSecond \in Nat
      /\ (wait \div TicksPerSecond + 1) * TicksPerSecond > wait
  BY <1>1, <1>2, SecondsCoverTheWait
<1>4. RetryAfterHeader(bucket) = wait \div TicksPerSecond
  BY DEF RetryAfterHeader
<1> HIDE DEF wait
<1>5. (RetryAfterHeader(bucket) + 1) * TicksPerSecond \in Int
  BY <1>1, <1>3, <1>4
<1> QED
  BY <1>1, <1>2, <1>3, <1>4, <1>5

\* Only the identity that asks has its bucket, log or refusal touched.
LEMMA OthersUntouched ==
    ASSUME TypeOK, NEW i \in Identities, Check(i), NEW j \in Identities, j # i
    PROVE  hits'[j] = hits[j] /\ log'[j] = log[j] /\ due'[j] = due[j] /\ now' = now
<1>1. PICK n \in 0..Len(hits[i]) :
        \/ Refuse(i, SubSeq(hits[i], n + 1, Len(hits[i])))
        \/ Admit(i, SubSeq(hits[i], n + 1, Len(hits[i])))
  BY DEF Check
<1> DEFINE bucket == SubSeq(hits[i], n + 1, Len(hits[i]))
<1>2. bucket \in Seq(0..MaxTime)
  BY Rest DEF TypeOK
<1> HIDE DEF bucket
<1>3. CASE Refuse(i, bucket)
  BY <1>3 DEF TypeOK, Refuse, Check
<1>4. CASE Admit(i, bucket)
  <2>1. hits' = [hits EXCEPT ![i] = Append(bucket, now)]
    BY <1>2, <1>4, CleanupIsHarmless
  <2> QED
    BY <1>4, <2>1 DEF TypeOK, Admit, Check
<1> QED
  BY <1>1, <1>3, <1>4 DEF bucket

\* The step of a caller that is refused or admitted.
LEMMA CheckStep ==
    ASSUME Inv, NEW i \in Identities, Check(i)
    PROVE  (Suffix(i) /\ RefusalEnds(i) /\ Spread(i))'
<1>1. PICK n \in 0..Len(hits[i]) :
        /\ Pops(hits[i], n)
        /\ \/ Refuse(i, SubSeq(hits[i], n + 1, Len(hits[i])))
           \/ Admit(i, SubSeq(hits[i], n + 1, Len(hits[i])))
  BY DEF Check
<1> DEFINE bucket == SubSeq(hits[i], n + 1, Len(hits[i]))
<1>2. TypeOK /\ Suffix(i) /\ Spread(i) /\ now' = now
  BY DEF Inv, Buckets, Check
<1>3. bucket \in Seq(0..MaxTime) /\ Len(bucket) \in Nat /\ Len(hits[i]) \in Nat
  BY <1>2, Rest, LenProperties DEF TypeOK
<1>4. Len(bucket) = Len(hits[i]) - n
  BY <1>1, Trimmed
<1>5. \A k \in 1..Len(bucket) : bucket[k] = log[i][Len(log[i]) - Len(bucket) + k]
  BY <1>1, Trimmed
<1>6. \A k \in 1..(Len(log[i]) - Len(bucket)) : log[i][k] < now - Window
  BY <1>1, Trimmed
<1> HIDE DEF bucket
<1>7. /\ log[i] \in Seq(0..MaxTime) /\ Len(log[i]) \in Nat /\ now \in 0..MaxTime
      /\ MaxRequests \in Nat \ {0} /\ Window \in Nat /\ MaxTime \in Nat
  BY <1>2, LimiterConstants, LenProperties DEF TypeOK
<1>71. /\ now \in Int /\ Window \in Int /\ MaxRequests \in Nat \ {0}
       /\ Len(log[i]) \in Nat /\ Len(bucket) \in Nat /\ Len(hits[i]) \in Nat
  BY <1>3, <1>7
<1>8. Len(bucket) <= MaxRequests /\ Len(bucket) <= Len(log[i])
  <2>1. Len(hits[i]) <= MaxRequests /\ Len(hits[i]) <= Len(log[i])
    BY <1>2 DEF Suffix
  <2> QED
    BY <1>4, <1>71, <2>1
<1>9. CASE Refuse(i, bucket)
  <2>1. hits'[i] = bucket /\ log'[i] = log[i]
    BY <1>2, <1>9 DEF TypeOK, Refuse
  <2>2. Suffix(i)'
    BY <1>2, <1>5, <1>6, <1>8, <2>1 DEF Suffix
  <2>3. bucket # <<>>
    BY <1>3, <1>7, <1>9, EmptySeq DEF Refuse
  <2>4. due'[i] = now + (RetryAfterHeader(bucket) + 1) * TicksPerSecond
    BY <1>2, <1>9 DEF TypeOK, Refuse
  <2>5. RefusalEnds(i)'
    BY <1>2, <1>3, <2>1, <2>3, <2>4, HeaderCovers DEF RefusalEnds
  <2>6. Spread(i)'
    BY <1>2, <2>1 DEF Spread
  <2> QED
    BY <2>2, <2>5, <2>6
<1>10. CASE Admit(i, bucket)
  <2>1. hits'[i] = Append(bucket, now) /\ log'[i] = Append(log[i], now)
    <3>1. hits' = [hits EXCEPT ![i] = Append(bucket, now)]
      BY <1>2, <1>3, <1>10, CleanupIsHarmless
    <3>2. log' = [log EXCEPT ![i] = Append(@, now)]
      BY <1>10 DEF Admit
    <3> QED
      BY <1>2, <3>1, <3>2 DEF TypeOK
  <2>2. Len(hits'[i]) = Len(bucket) + 1 /\ Len(log'[i]) = Len(log[i]) + 1
    BY <1>3, <1>7, <2>1, AppendProperties
  <2>3. \A k \in 1..Len(bucket) : hits'[i][k] = bucket[k]
    BY <1>3, <1>7, <2>1, AppendProperties
  <2>4. \A k \in 1..Len(log[i]) : log'[i][k] = log[i][k]
    BY <1>7, <2>1, AppendProperties
  <2>5. hits'[i][Len(bucket) + 1] = now /\ log'[i][Len(log[i]) + 1] = now
    BY <1>3, <1>7, <2>1, AppendProperties
  <2>6. Len(bucket) + 1 <= MaxRequests
    BY <1>3, <1>7, <1>10 DEF Admit
  <2>7. Suffix(i)'
    <3>1. ASSUME NEW k \in 1..(Len(bucket) + 1)
          PROVE  hits'[i][k] = log'[i][Len(log[i]) - Len(bucket) + k]
      <4>1. CASE k = Len(bucket) + 1
        <5>1. Len(log[i]) - Len(bucket) + k = Len(log[i]) + 1
          BY <1>3, <1>7, <4>1, ShiftEnd
        <5> QED
          BY <2>5, <4>1, <5>1
      <4>2. CASE k # Len(bucket) + 1
        <5>1. /\ k \in 1..Len(bucket)
              /\ Len(log[i]) - Len(bucket) + k \in 1..Len(log[i])
          BY <1>8, <1>71, <4>2
        <5> QED
          BY <1>5, <2>3, <2>4, <5>1
      <4> QED
        BY <4>1, <4>2
    <3>2. ASSUME NEW k \in 1..(Len(log[i]) - Len(bucket)) PROVE log'[i][k] < now - Window
      <4>1. k \in 1..Len(log[i])
        BY <1>3, <1>7
      <4> QED
        BY <1>6, <2>4, <4>1
    <3>3. /\ Len(log'[i]) - Len(hits'[i]) = Len(log[i]) - Len(bucket)
          /\ Len(hits'[i]) <= Len(log'[i]) /\ Len(hits'[i]) <= MaxRequests
      BY <1>3, <1>7, <1>8, <2>2, <2>6
    <3> QED
      BY <1>2, <2>2, <3>1, <3>2, <3>3 DEF Suffix
  <2>8. RefusalEnds(i)'
    BY <1>2, <1>10 DEF TypeOK, Admit, RefusalEnds
  <2>9. Spread(i)'
    <3>1. SUFFICES ASSUME NEW k \in 1..(Len(log'[i]) - MaxRequests)
                   PROVE  log'[i][k + MaxRequests] - log'[i][k] > Window
      BY DEF Spread
    <3> k \in 1..(Len(log[i]) + 1 - MaxRequests)
      BY <1>7, <2>2, <3>1
    <3>2. k \in 1..Len(log[i]) /\ log'[i][k] = log[i][k]
      BY <1>7, <2>4
    <3>3. CASE k + MaxRequests = Len(log[i]) + 1
      <4>1. k \in 1..(Len(log[i]) - Len(bucket))
        BY <1>3, <1>7, <2>6, <3>3
      <4>2. log[i][k] < now - Window /\ log[i][k] \in 0..MaxTime
        BY <1>6, <1>7, <3>2, <4>1, ElementOfSeq
      <4>3. log'[i][k + MaxRequests] = now
        BY <2>5, <3>3
      <4>4. now - log[i][k] > Window
        <5>1. log[i][k] \in Int
          BY <4>2
        <5> QED
          BY <1>71, <4>2, <5>1
      <4> QED
        BY <3>2, <4>3, <4>4
    <3>4. CASE k + MaxRequests # Len(log[i]) + 1
      <4>1. k \in 1..(Len(log[i]) - MaxRequests) /\ k + MaxRequests \in 1..Len(log[i])
        BY <1>7, <3>4
      <4> QED
        BY <1>2, <2>4, <3>2, <4>1 DEF Spread
    <3> QED
      BY <3>3, <3>4
  <2> QED
    BY <2>7, <2>8, <2>9
<1> QED
  BY <1>1, <1>9, <1>10 DEF bucket


LEMMA InvStep == Inv /\ [Next]_vars => Inv'
<1>1. SUFFICES ASSUME Inv, [Next]_vars PROVE Buckets'
  BY TypeStep DEF Inv
<1>2. ASSUME NEW key \in Presented, NEW host \in Hosts, Request(key, host) PROVE Buckets'
  <2> DEFINE i == Identity(key, host)
  <2>1. i \in Identities /\ Check(i)
    BY <1>2, LimiterConstants DEF Request, Authorized, Identity, Identities
  <2>2. ASSUME NEW j \in Identities, j # i PROVE (Suffix(j) /\ RefusalEnds(j) /\ Spread(j))'
    <3>1. hits'[j] = hits[j] /\ log'[j] = log[j] /\ due'[j] = due[j] /\ now' = now
      BY <1>1, <2>1, <2>2, OthersUntouched DEF Inv
    <3>2. Suffix(j) /\ RefusalEnds(j) /\ Spread(j)
      BY <1>1 DEF Inv, Buckets
    <3> QED
      BY <3>1, <3>2 DEF Suffix, RefusalEnds, Spread
  <2> QED
    BY <1>1, <2>1, <2>2, CheckStep DEF Buckets
<1>3. CASE Tick
  <2>1. ASSUME NEW j \in Identities PROVE (Suffix(j) /\ RefusalEnds(j) /\ Spread(j))'
    <3>1. Suffix(j) /\ RefusalEnds(j) /\ Spread(j) /\ log[j] \in Seq(0..MaxTime)
      BY <1>1 DEF Inv, TypeOK, Buckets
    <3>2. now' = now + 1 /\ hits' = hits /\ log' = log /\ due' = due
      BY <1>3 DEF Tick
    <3>3. now \in Nat /\ Window \in Nat /\ MaxTime \in Nat
      BY <1>1, LimiterConstants DEF Inv, TypeOK
    <3>4. ASSUME NEW k \in 1..(Len(log[j]) - Len(hits[j])) PROVE log[j][k] < now' - Window
      <4>1. k \in 1..Len(log[j])
        BY <1>1, <3>1, LenProperties DEF Inv, TypeOK, Suffix
      <4>2. log[j][k] \in 0..MaxTime /\ log[j][k] < now - Window
        BY <3>1, <4>1, ElementOfSeq DEF Suffix
      <4> QED
        BY <3>2, <3>3, <4>2
    <3> QED
      BY <3>1, <3>2, <3>4 DEF Suffix, RefusalEnds, Spread
  <2> QED
    BY <2>1 DEF Buckets
<1>4. CASE UNCHANGED vars
  BY <1>1, <1>4 DEF Inv, Buckets, Suffix, RefusalEnds, Spread, vars
<1> QED
  BY <1>1, <1>2, <1>3, <1>4 DEF Next

LEMMA InvInit == Init => Inv
<1>1. SUFFICES ASSUME Init PROVE Inv
  OBVIOUS
<1>2. <<>> \in Seq(0..MaxTime) /\ Len(<<>>) = 0
  BY EmptySeq
<1>3. TypeOK
  BY <1>1, <1>2, LimiterConstants DEF Init, TypeOK, NotRefused
<1>4. ASSUME NEW i \in Identities PROVE Suffix(i) /\ RefusalEnds(i) /\ Spread(i)
  BY <1>1, <1>2, LimiterConstants DEF Init, Suffix, RefusalEnds, Spread
<1> QED
  BY <1>3, <1>4 DEF Inv, Buckets

\* The limiter's variables keep their types.
THEOREM TypeCorrect == Spec => []TypeOK
<1>1. Inv => TypeOK
  BY DEF Inv
<1> QED
  BY <1>1, InvInit, InvStep, PTL DEF Spec

\* No caller ever gets more than MaxRequests through in a window.
THEOREM WindowIsKept == Spec => []WindowKept
<1>1. Inv => WindowKept
  BY DEF Inv, Buckets, Spread, WindowKept
<1> QED
  BY <1>1, InvInit, InvStep, PTL DEF Spec

\* Whoever waits a second longer than Retry-After says gets in.
THEOREM RetryAfterSuffices == Spec => RetryAfterIsEnough
<1>1. ASSUME Inv, [Next]_vars, NEW j \in Identities, due[j] # NotRefused, now >= due[j]
      PROVE  due'[j] \in {due[j], NotRefused}
  <2>1. ASSUME NEW key \in Presented, NEW host \in Hosts, Request(key, host),
               j = Identity(key, host)
        PROVE  due'[j] = NotRefused
    <3>1. PICK n \in 0..Len(hits[j]) :
            /\ Pops(hits[j], n)
            /\ \/ Refuse(j, SubSeq(hits[j], n + 1, Len(hits[j])))
               \/ Admit(j, SubSeq(hits[j], n + 1, Len(hits[j])))
      BY <2>1 DEF Request, Check
    <3>2. /\ hits[j] \in Seq(0..MaxTime) /\ hits[j] # <<>> /\ hits[j][1] + Window < due[j]
          /\ due \in [Identities -> Int] /\ now \in 0..MaxTime /\ Len(hits[j]) <= MaxRequests
          /\ MaxRequests \in Nat \ {0} /\ Window \in Nat /\ MaxTime \in Nat
      BY <1>1, LimiterConstants DEF Inv, TypeOK, Buckets, RefusalEnds, Suffix
    <3>3. Len(hits[j]) \in Nat \ {0} /\ hits[j][1] \in 0..MaxTime
      BY <3>2, EmptySeq, ElementOfSeq
    <3>4. Outdated(hits[j][1])
      BY <1>1, <3>2, <3>3 DEF Outdated
    <3>5. n # 0
      BY <3>1, <3>3, <3>4 DEF Pops
    <3>6. Len(SubSeq(hits[j], n + 1, Len(hits[j]))) = Len(hits[j]) - n
      BY <3>2, Rest
    <3>7. ~(Len(hits[j]) - n >= MaxRequests)
      BY <3>2, <3>3, <3>5
    <3>8. ~Refuse(j, SubSeq(hits[j], n + 1, Len(hits[j])))
      BY <3>6, <3>7 DEF Refuse
    <3> QED
      BY <3>1, <3>2, <3>8 DEF Admit
  <2>2. ASSUME NEW key \in Presented, NEW host \in Hosts, Request(key, host),
               j # Identity(key, host)
        PROVE  due'[j] = due[j]
    <3>1. Identity(key, host) \in Identities /\ Check(Identity(key, host))
      BY <2>2, LimiterConstants DEF Request, Authorized, Identity, Identities
    <3> QED
      BY <1>1, <2>2, <3>1, OthersUntouched DEF Inv
  <2>3. CASE Tick \/ UNCHANGED vars
    BY <2>3 DEF Tick, vars
  <2> QED
    BY <1>1, <2>1, <2>2, <2>3 DEF Next
<1>2. Inv /\ [Next]_vars =>
        [\A i \in Identities :
           due[i] # NotRefused /\ now >= due[i] => due'[i] \in {due[i], NotRefused}]_vars
  BY <1>1
<1> QED
  BY <1>2, InvInit, InvStep, PTL DEF Spec, RetryAfterIsEnough

-----------------------------------------------------------------------------
\* What is needed beyond Inv to see the promise behind the buckets: the log of an
\* identity grows with the clock.
Timely(i) ==
    \A k \in 1..Len(log[i]) :
        /\ log[i][k] <= now
        /\ \A j \in 1..k : log[i][j] <= log[i][k]

InOrder == \A i \in Identities : Timely(i)

LEMMA InOrderStep == Inv /\ InOrder /\ [Next]_vars => InOrder'
<1>1. SUFFICES ASSUME Inv, InOrder, [Next]_vars, NEW i \in Identities PROVE Timely(i)'
  BY DEF InOrder
<1>2. /\ TypeOK /\ Timely(i) /\ now \in 0..MaxTime /\ MaxTime \in Nat
      /\ log[i] \in Seq(0..MaxTime) /\ Len(log[i]) \in Nat
  BY <1>1, LimiterConstants, LenProperties DEF Inv, InOrder, TypeOK
<1>3. \A k \in 1..Len(log[i]) : log[i][k] \in 0..MaxTime
  BY <1>2, ElementOfSeq
<1>4. ASSUME log'[i] = log[i], now' \in {now, now + 1} PROVE Timely(i)'
  BY <1>2, <1>3, <1>4 DEF Timely
<1>5. ASSUME NEW key \in Presented, NEW host \in Hosts, Request(key, host) PROVE Timely(i)'
  <2> DEFINE who == Identity(key, host)
  <2>1. who \in Identities /\ Check(who) /\ now' = now
    BY <1>5, LimiterConstants DEF Request, Authorized, Identity, Identities, Check
  <2>2. CASE who # i
    BY <1>2, <1>4, <2>1, <2>2, OthersUntouched
  <2>3. CASE who = i
    <3>1. log'[i] = log[i] \/ log'[i] = Append(log[i], now)
      BY <1>2, <2>1, <2>3 DEF Check, Refuse, Admit, TypeOK
    <3>2. CASE log'[i] = Append(log[i], now)
      <4>1. /\ Len(log'[i]) = Len(log[i]) + 1 /\ log'[i][Len(log[i]) + 1] = now
            /\ \A k \in 1..Len(log[i]) : log'[i][k] = log[i][k]
        BY <1>2, <3>2, AppendProperties
      <4>2. ASSUME NEW k \in 1..Len(log'[i])
            PROVE  log'[i][k] <= now' /\ \A j \in 1..k : log'[i][j] <= log'[i][k]
        <5>1. CASE k \in 1..Len(log[i])
          <6>1. \A j \in 1..k : j \in 1..Len(log[i])
            BY <1>2, <5>1
          <6> QED
            BY <1>2, <2>1, <4>1, <5>1, <6>1 DEF Timely
        <5>2. CASE k = Len(log[i]) + 1
          <6>1. log'[i][k] = now
            BY <4>1, <5>2
          <6>2. ASSUME NEW j \in 1..k PROVE log'[i][j] <= now
            <7>1. j = k \/ j \in 1..Len(log[i])
              BY <1>2, <5>2
            <7>2. CASE j \in 1..Len(log[i])
              BY <1>2, <4>1, <7>2 DEF Timely
            <7> QED
              BY <1>2, <6>1, <7>1, <7>2
          <6> QED
            BY <1>2, <2>1, <6>1, <6>2
        <5> QED
          BY <1>2, <4>1, <5>1, <5>2
      <4> QED
        BY <4>2 DEF Timely
    <3> QED
      BY <1>4, <2>1, <3>1, <3>2
  <2> QED
    BY <2>2, <2>3
<1>6. CASE Tick
  BY <1>4, <1>6 DEF Tick
<1>7. CASE UNCHANGED vars
  BY <1>4, <1>7 DEF vars
<1> QED
  BY <1>1, <1>5, <1>6, <1>7 DEF Next

\* The promise counts with the same Cardinality.
LEMMA SameCardinality == ASSUME NEW A PROVE Promise!Cardinality(A) = Cardinality(A)
BY DEF Promise!Cardinality, Cardinality

\* Once its outdated hits have gone, the bucket holds what the promise counts:
\* the end of the log, from the first request that is not too old.
LEMMA BucketIsTheRecent ==
    ASSUME Inv, InOrder, NEW i \in Identities, NEW n \in 0..Len(hits[i]), Pops(hits[i], n)
    PROVE  LET bucket == SubSeq(hits[i], n + 1, Len(hits[i]))
           IN  /\ Promise!Recent(i) = (Len(log[i]) - Len(bucket) + 1)..Len(log[i])
               /\ Promise!Cardinality(Promise!Recent(i)) = Len(bucket)
               /\ bucket # <<>> => ~Outdated(bucket[1])
<1> DEFINE bucket == SubSeq(hits[i], n + 1, Len(hits[i]))
           L == Len(log[i])
           B == Len(bucket)
<1>1. /\ TypeOK /\ hits[i] \in Seq(0..MaxTime) /\ log[i] \in Seq(0..MaxTime)
      /\ Len(hits[i]) <= Len(log[i]) /\ Timely(i)
      /\ now \in 0..MaxTime /\ MaxTime \in Nat /\ Window \in Nat
  BY LimiterConstants DEF Inv, TypeOK, Buckets, Suffix, InOrder
<1>2. /\ Len(hits[i]) \in Nat /\ L \in Nat /\ \A k \in 1..L : log[i][k] \in 0..MaxTime
      /\ DOMAIN log[i] = 1..L
  BY <1>1, LenProperties, ElementOfSeq
<1>3. /\ B = Len(hits[i]) - n
      /\ \A k \in 1..B : bucket[k] = log[i][L - B + k]
      /\ \A k \in 1..(L - B) : log[i][k] < now - Window
  BY Trimmed
<1>4. B > 0 => bucket[1] = hits[i][n + 1]
  <2>1. ASSUME B > 0 PROVE 1 \in 1..(Len(hits[i]) - n)
    BY <1>2, <1>3, <2>1
  <2> QED
    BY <1>1, <2>1, Rest
<1>5. bucket \in Seq(0..MaxTime)
  BY <1>1, Rest
<1> HIDE DEF bucket
<1>6. B \in Nat /\ B <= L /\ (bucket # <<>> => B > 0)
  <2>1. B \in Nat /\ (bucket # <<>> => B # 0)
    BY <1>5, EmptySeq, LenProperties
  <2>2. B <= Len(hits[i])
    BY <1>2, <1>3
  <2> QED
    BY <1>1, <1>2, <2>1, <2>2
<1>7. B > 0 => ~Outdated(bucket[1])
  <2>1. B > 0 => n < Len(hits[i])
    BY <1>2, <1>3
  <2> QED
    BY <1>4, <2>1 DEF Pops
<1> HIDE DEF B, L
<1>8. ASSUME NEW k \in 1..L, k > L - B PROVE log[i][k] >= now - Window
  <2>1. /\ L - B + 1 \in 1..k /\ L - B + 1 \in 1..L /\ 1 \in 1..B /\ B > 0
    BY <1>2, <1>6, <1>8
  <2>2. log[i][L - B + 1] <= log[i][k]
    BY <1>1, <2>1 DEF Timely, L
  <2>3. ~(log[i][L - B + 1] < now - Window)
    BY <1>3, <1>7, <2>1 DEF Outdated
  <2>4. log[i][L - B + 1] \in Int /\ log[i][k] \in Int /\ now - Window \in Int
    <3>1. log[i][L - B + 1] \in 0..MaxTime /\ log[i][k] \in 0..MaxTime
      BY <1>2, <1>8, <2>1
    <3> QED
      BY <1>1, <3>1
  <2> QED
    BY <2>2, <2>3, <2>4
<1>9. Promise!Recent(i) = (L - B + 1)..L
  <2>1. ASSUME NEW k \in 1..L PROVE log[i][k] >= now - Window <=> k > L - B
    <3>1. CASE k \in 1..(L - B)
      <4>1. log[i][k] < now - Window /\ log[i][k] \in Int /\ now - Window \in Int
        BY <1>1, <1>2, <1>3, <3>1
      <4> QED
        BY <1>2, <1>6, <3>1, <4>1
    <3>2. CASE k > L - B
      BY <1>8, <3>2
    <3> QED
      BY <1>2, <1>6, <3>1, <3>2
  <2>2. Promise!Recent(i) = {k \in 1..L : log[i][k] >= now - Window}
    BY <1>2 DEF Promise!Recent
  <2>3. Promise!Recent(i) = {k \in 1..L : k > L - B}
    BY <2>1, <2>2
  <2> QED
    BY <1>2, <1>6, <2>3
<1>10. Promise!Cardinality((L - B + 1)..L) = B
  <2>1. Cardinality((L - B + 1)..L) = IF L - B + 1 > L THEN 0 ELSE L - (L - B + 1) + 1
    BY <1>2, <1>6, FS_Interval
  <2>2. Cardinality((L - B + 1)..L) = B
    BY <1>2, <1>6, <2>1
  <2> QED
    BY <2>2, SameCardinality
<1> QED
  BY <1>6, <1>7, <1>9, <1>10 DEF bucket, B, L

\* The answer of a call is the one the promise gives, the header to the tick.
LEMMA CheckKeepsThePromise ==
    ASSUME Inv, InOrder, NEW i \in Identities, Check(i)
    PROVE  Promise!Admit(i) \/ Promise!Refuse(i)
<1>1. PICK n \in 0..Len(hits[i]) :
        /\ Pops(hits[i], n)
        /\ \/ Refuse(i, SubSeq(hits[i], n + 1, Len(hits[i])))
           \/ Admit(i, SubSeq(hits[i], n + 1, Len(hits[i])))
  BY DEF Check
<1> DEFINE bucket == SubSeq(hits[i], n + 1, Len(hits[i]))
           first == Len(log[i]) - Len(bucket) + 1
<1>2. TypeOK /\ Timely(i) /\ now' = now
  BY DEF Inv, InOrder, Check
<1>3. bucket \in Seq(0..MaxTime) /\ Len(bucket) \in Nat
  BY <1>2, Rest, LenProperties DEF TypeOK
<1>4. /\ Promise!Recent(i) = first..Len(log[i])
      /\ Promise!Cardinality(Promise!Recent(i)) = Len(bucket)
      /\ bucket # <<>> => ~Outdated(bucket[1])
  BY <1>1, BucketIsTheRecent
<1>5. /\ \A k \in 1..Len(bucket) : bucket[k] = log[i][Len(log[i]) - Len(bucket) + k]
      /\ Len(bucket) = Len(hits[i]) - n
  BY <1>1, Trimmed
<1> HIDE DEF bucket
<1>6. /\ log[i] \in Seq(0..MaxTime) /\ Len(log[i]) \in Nat /\ now \in 0..MaxTime
      /\ MaxRequests \in Nat \ {0} /\ Window \in Nat /\ MaxTime \in Nat
      /\ Len(bucket) <= Len(log[i])
  BY <1>2, <1>3, <1>5, LimiterConstants, LenProperties DEF TypeOK, Inv, Buckets, Suffix
<1>7. CASE Admit(i, bucket)
  BY <1>2, <1>4, <1>7 DEF Admit, Promise!Admit
<1>8. CASE Refuse(i, bucket)
  <2>1. Len(bucket) >= 1 /\ bucket # <<>>
    BY <1>3, <1>6, <1>8, EmptySeq DEF Refuse
  <2>2. first \in 1..Len(log[i]) /\ first \in Promise!Recent(i) /\ 1 \in 1..Len(bucket)
    BY <1>3, <1>4, <1>6, <2>1
  <2>3. bucket[1] = log[i][first] /\ bucket[1] \in 0..MaxTime
    BY <1>3, <1>5, <2>2, ElementOfSeq
  <2>4. \A j \in Promise!Recent(i) : log[i][first] <= log[i][j]
    <3>1. \A j \in first..Len(log[i]) : j \in 1..Len(log[i]) /\ first \in 1..j
      BY <1>6, <2>2
    <3> HIDE DEF first
    <3> QED
      BY <1>2, <1>4, <3>1 DEF Timely
  <2> DEFINE wait == log[i][first] + Window - now
  <2>5. RetryAfterHeader(bucket) = wait \div TicksPerSecond
    <3> HIDE DEF first
    <3>1. wait \in Nat /\ Window - (now - bucket[1]) = wait
      <4>1. ~(bucket[1] < now - Window)
        BY <1>4, <2>1 DEF Outdated
      <4>2. bucket[1] \in Int /\ now \in Int /\ Window \in Int
        BY <1>6, <2>3
      <4> QED
        BY <2>3, <4>1, <4>2
    <3>2. (IF wait > 0 THEN wait ELSE 0) = wait
      BY <3>1
    <3> QED
      BY <3>1, <3>2 DEF RetryAfterHeader
  <2>6. /\ due' = [due EXCEPT ![i] = now + (wait \div TicksPerSecond + 1) * TicksPerSecond]
        /\ log' = log
    BY <1>8, <2>5 DEF Refuse
  <2>7. Promise!Cardinality(Promise!Recent(i)) >= MaxRequests
    BY <1>4, <1>8 DEF Refuse
  <2> HIDE DEF first
  <2> QED
    BY <1>2, <2>2, <2>4, <2>6, <2>7 DEF Promise!Refuse
<1> QED
  BY <1>1, <1>7, <1>8 DEF bucket

\* The buckets implement the promise: what each caller is told is what its whole
\* history of admitted requests calls for.
THEOREM ImplementsPromise == Spec => KeepsThePromise
<1>1. Init => Promise!Init /\ Inv /\ InOrder
  <2>1. ASSUME Init PROVE InOrder
    BY <2>1, EmptySeq DEF Init, InOrder, Timely
  <2> QED
    BY <2>1, InvInit DEF Init, Promise!Init
<1>2. Inv /\ InOrder /\ [Next]_vars => [Promise!Next]_(Promise!vars)
  <2>1. SUFFICES ASSUME Inv, InOrder, [Next]_vars PROVE [Promise!Next]_(Promise!vars)
    OBVIOUS
  <2>2. ASSUME NEW key \in Presented, NEW host \in Hosts, Request(key, host)
        PROVE  Promise!Next
    <3>1. Identity(key, host) \in Identities /\ Check(Identity(key, host))
      BY <2>2, LimiterConstants DEF Request, Authorized, Identity, Identities
    <3> QED
      BY <2>1, <3>1, CheckKeepsThePromise DEF Promise!Next
  <2>3. CASE Tick
    BY <2>3 DEF Tick, Promise!Tick, Promise!Next
  <2>4. CASE UNCHANGED vars
    BY <2>4 DEF vars, Promise!vars
  <2> QED
    BY <2>1, <2>2, <2>3, <2>4 DEF Next
<1> QED
  BY <1>1, <1>2, InvStep, InOrderStep, PTL DEF Spec, KeepsThePromise, Promise!Spec

=============================================================================
