------------------------ MODULE ProfileServiceProofs ------------------------
(***************************************************************************)
(* For every number of callers, profiles and tiers: a profile is fetched   *)
(* at most once at a time, a registration never outlives its leader, only  *)
(* a leader aborts its fetch, and the in-process cache is never bypassed   *)
(* nor outgrows its limit.                                                 *)
(***************************************************************************)
EXTENDS ProfileService, TLAPS

\* The part of TypeOK that the control of callers and fetches rests on.
ControlTypes ==
    /\ inflight \in [Profiles -> Callers \cup {NoCaller}]
    /\ pc \in [Callers -> {"away", "arriving", "joining", "leading", "waiting"}]
    /\ profile \in [Callers -> Profiles \cup {NoProfile}]
    /\ refresh \in [Callers -> BOOLEAN]
    /\ cancelled \in [Callers -> BOOLEAN]
    /\ on \in [Callers -> Callers \cup {NoCaller}]
    /\ fetch \in [Callers -> Running \cup Over \cup {"none"}]

\* A registered fetch is led, and a led fetch is registered.
Registered ==
    /\ \A p \in Profiles :
          inflight[p] # NoCaller => pc[inflight[p]] = "leading" /\ profile[inflight[p]] = p
    /\ \A c \in Callers :
          pc[c] = "leading" => profile[c] \in Profiles /\ inflight[profile[c]] = c

\* What the places of a caller say of its profile, its fetch and its refresh.
Places ==
    \A c \in Callers :
        /\ pc[c] # "away" => profile[c] \in Profiles
        /\ fetch[c] \in Running => pc[c] = "leading"
        /\ pc[c] = "joining" /\ backend = "memory" => refresh[c]

IInv == ControlTypes /\ Registered /\ Places

\* The initial states satisfy the invariant.
LEMMA InitInv == Init => IInv
BY ServiceConstants DEF Init, IInv, ControlTypes, Registered, Places, Running, Over

\* A caller leaves: its own entries are reset, and a fetch can only be forgotten.
LEMMA LeaveKeepsTypes ==
    ASSUME NEW c \in Callers, ControlTypes, Leave(c)
    PROVE  /\ pc' = [pc EXCEPT ![c] = "away"]
           /\ profile' = [profile EXCEPT ![c] = NoProfile]
           /\ refresh' = [refresh EXCEPT ![c] = FALSE]
           /\ cancelled' \in [Callers -> BOOLEAN]
           /\ on' \in [Callers -> Callers \cup {NoCaller}]
           /\ fetch' \in [Callers -> Running \cup Over \cup {"none"}]
           /\ \A d \in Callers : fetch'[d] = fetch[d] \/ fetch'[d] = "none"
<1>1. CASE on[c] = NoCaller \/ \E d \in Callers \ {c} : on[d] = on[c]
  BY <1>1 DEF Leave, Go, ControlTypes, fetchVars
<1>2. CASE ~(on[c] = NoCaller \/ \E d \in Callers \ {c} : on[d] = on[c])
  <2>1. on[c] \in Callers
    BY <1>2 DEF ControlTypes
  <2> QED
    BY <1>2, <2>1 DEF Leave, Go, ControlTypes
<1> QED
  BY <1>1, <1>2

\* Leaving from any place but a running lead keeps the invariant, as long as a
\* leader unregisters its fetch.
LEMMA LeaveKeepsInv ==
    ASSUME IInv, NEW c \in Callers, Leave(c), backend' = backend,
           pc[c] # "away",
           fetch[c] \notin Running,
           \/ pc[c] # "leading" /\ inflight' = inflight
           \/ pc[c] = "leading" /\ inflight' = [inflight EXCEPT ![profile[c]] = NoCaller]
    PROVE  IInv'
<1>1. /\ pc' = [pc EXCEPT ![c] = "away"]
      /\ profile' = [profile EXCEPT ![c] = NoProfile]
      /\ refresh' = [refresh EXCEPT ![c] = FALSE]
      /\ cancelled' \in [Callers -> BOOLEAN]
      /\ on' \in [Callers -> Callers \cup {NoCaller}]
      /\ fetch' \in [Callers -> Running \cup Over \cup {"none"}]
      /\ \A d \in Callers : fetch'[d] = fetch[d] \/ fetch'[d] = "none"
  BY LeaveKeepsTypes DEF IInv
<1>2. ControlTypes'
  BY <1>1 DEF IInv, ControlTypes
<1>3. Registered'
  BY <1>1, ServiceConstants DEF IInv, ControlTypes, Registered
<1>4. Places'
  BY <1>1 DEF IInv, ControlTypes, Places, Running
<1> QED
  BY <1>2, <1>3, <1>4 DEF IInv

\* Joining a fetch or launching one keeps the invariant.
LEMMA FetchOnceKeepsInv ==
    ASSUME IInv, NEW c \in Callers, FetchOnce(c), pc[c] \in {"arriving", "joining"},
           UNCHANGED <<backend, profile, cancelled>>
    PROVE  IInv'
<1>0. profile[c] \in Profiles
  BY DEF IInv, Places
<1>1. CASE inflight[profile[c]] = NoCaller /\ Launch(c)
  <2>1. ControlTypes'
    BY <1>0, <1>1 DEF FetchOnce, Launch, Go, IInv, ControlTypes, Running
  <2>2. Registered'
    BY <1>0, <1>1, ServiceConstants DEF Launch, Go, IInv, ControlTypes, Registered
  <2>3. Places'
    BY <1>0, <1>1 DEF FetchOnce, Launch, Go, IInv, ControlTypes, Places
  <2> QED
    BY <2>1, <2>2, <2>3 DEF IInv
<1>2. CASE /\ inflight[profile[c]] # NoCaller
           /\ Go(c, "waiting")
           /\ on' = [on EXCEPT ![c] = inflight[profile[c]]]
           /\ UNCHANGED <<inflight, fetch>>
  <2>1. ControlTypes'
    BY <1>0, <1>2 DEF FetchOnce, Go, IInv, ControlTypes
  <2>2. Registered'
    BY <1>0, <1>2 DEF Go, IInv, ControlTypes, Registered
  <2>3. Places'
    BY <1>0, <1>2 DEF FetchOnce, Go, IInv, ControlTypes, Places
  <2> QED
    BY <2>1, <2>2, <2>3 DEF IInv
<1> QED
  BY <1>1, <1>2 DEF FetchOnce, JoinOrLaunch

\* A step of a fetch leaves the callers alone and starts nothing.
LEMMA FetchStepShape ==
    ASSUME NEW c \in Callers, ControlTypes, FetchStep(c)
    PROVE  /\ UNCHANGED <<backend, callerVars>>
           /\ fetch[c] \in Running
           /\ \/ UNCHANGED fetch
              \/ \E outcome \in Over \cup {"storing"} :
                   /\ fetch' = [fetch EXCEPT ![c] = outcome]
                   /\ outcome = "cancelled" => cancelled[c]
BY DEF FetchStep, TierUseful, Stored, TierDecides, TierFails, TierCrashes, FetchCancelled,
       Trying, Ends, Running, Over, ControlTypes, cacheVars

\* Every step keeps the invariant.
LEMMA StepInv == IInv /\ [Next]_vars => IInv'
<1> SUFFICES ASSUME IInv, [Next]_vars PROVE IInv'
  OBVIOUS
<1>1. ASSUME NEW c \in Callers, NEW p \in Profiles, Arrive(c, p) PROVE IInv'
  <2>1. ControlTypes'
    BY <1>1 DEF Arrive, Go, IInv, ControlTypes, cacheVars, fetchVars
  <2>2. Registered'
    BY <1>1 DEF Arrive, Go, IInv, ControlTypes, Registered, cacheVars, fetchVars
  <2>3. Places'
    BY <1>1 DEF Arrive, Go, IInv, ControlTypes, Places, cacheVars, fetchVars
  <2> QED
    BY <2>1, <2>2, <2>3 DEF IInv
<1>2. ASSUME NEW c \in Callers, CacheHit(c) PROVE IInv'
  BY <1>2, LeaveKeepsInv DEF CacheHit, IInv, Places
<1>3. ASSUME NEW c \in Callers, CacheMiss(c) PROVE IInv'
  <2>1. CASE backend = "memory"
    BY <1>3, <2>1, FetchOnceKeepsInv DEF CacheMiss
  <2>2. CASE backend # "memory"
    BY <1>3, <2>2 DEF CacheMiss, Go, IInv, ControlTypes, Registered, Places
  <2> QED
    BY <2>1, <2>2
<1>4. ASSUME NEW c \in Callers, Join(c) PROVE IInv'
  BY <1>4, FetchOnceKeepsInv DEF Join, cacheVars
<1>5. ASSUME NEW c \in Callers, LeaderWakes(c) PROVE IInv'
  <2>1. fetch[c] \notin Running
    BY <1>5 DEF LeaderWakes, Running, Over
  <2> QED
    BY <1>5, <2>1, LeaveKeepsInv DEF LeaderWakes, cacheVars
<1>6. ASSUME NEW c \in Callers, WaiterWakes(c) PROVE IInv'
  BY <1>6, LeaveKeepsInv DEF WaiterWakes, IInv, Places, cacheVars
<1>7. ASSUME NEW c \in Callers, Cancel(c) PROVE IInv'
  <2>1. CASE pc[c] \in {"arriving", "joining", "waiting"}
    BY <1>7, <2>1, LeaveKeepsInv DEF Cancel, IInv, Places, cacheVars
  <2>2. CASE pc[c] = "leading"
    <3>1. /\ cancelled' = [cancelled EXCEPT ![c] = TRUE]
          /\ UNCHANGED <<backend, inflight, pc, profile, refresh, on, fetch>>
      BY <1>7, <2>2 DEF Cancel, cacheVars, fetchVars
    <3>2. ControlTypes'
      BY <3>1 DEF IInv, ControlTypes
    <3>3. Registered' /\ Places'
      BY <3>1 DEF IInv, Registered, Places
    <3> QED
      BY <3>2, <3>3 DEF IInv
  <2> QED
    BY <1>7, <2>1, <2>2 DEF Cancel
<1>8. ASSUME NEW c \in Callers, FetchStep(c) PROVE IInv'
  <2>1. /\ UNCHANGED <<backend, callerVars>>
        /\ fetch[c] \in Running
        /\ \/ UNCHANGED fetch
           \/ \E outcome \in Over \cup {"storing"} : fetch' = [fetch EXCEPT ![c] = outcome]
    BY <1>8, FetchStepShape DEF IInv
  <2> QED
    BY <2>1 DEF IInv, ControlTypes, Registered, Places, callerVars, Running
<1>9. CASE (\E p \in Profiles : Invalidate(p)) \/ Tick \/ UNCHANGED vars
  BY <1>9 DEF Invalidate, Drop, Tick, vars, cacheVars, callerVars, fetchVars,
              IInv, ControlTypes, Registered, Places
<1> QED
  BY <1>1, <1>2, <1>3, <1>4, <1>5, <1>6, <1>7, <1>8, <1>9 DEF Next, CallerStep

\* The invariant holds in every state.
LEMMA Invariant == Spec => []IInv
BY InitInv, StepInv, PTL DEF Spec

\* However callers join, leave and are cancelled, no profile is fetched twice at
\* a time and no registration outlives the request that launched the fetch.
THEOREM ProfilesFetchedOnce == Spec => []OneFetchPerProfile
<1>1. IInv => OneFetchPerProfile
  <2> SUFFICES ASSUME IInv PROVE OneFetchPerProfile
    OBVIOUS
  <2>1. ASSUME NEW c \in Callers, NEW d \in Callers,
               fetch[c] \in Running, fetch[d] \in Running, profile[c] = profile[d]
        PROVE  c = d
    BY <2>1 DEF IInv, Registered, Places
  <2> QED
    BY <2>1 DEF IInv, Registered, OneFetchPerProfile
<1> QED
  BY <1>1, Invariant, PTL

\* A caller that goes away aborts no fetch but its own.
THEOREM WaitersAreShielded == Spec => WaitersDoNotAbort
<1>1. ASSUME IInv, [Next]_vars, NEW c \in Callers,
             fetch[c] \in Running, fetch'[c] = "cancelled"
      PROVE  cancelled[c]
  <2>0. fetch[c] # "cancelled" /\ "cancelled" # "none"
    BY <1>1 DEF Running
  <2>1. ASSUME NEW d \in Callers, Leave(d) PROVE FALSE
    BY <1>1, <2>0, <2>1, LeaveKeepsTypes DEF IInv
  <2>2. ASSUME NEW d \in Callers, FetchOnce(d) PROVE FALSE
    BY <1>1, <2>0, <2>2 DEF FetchOnce, JoinOrLaunch, Launch, IInv, ControlTypes
  <2>3. ASSUME NEW d \in Callers, FetchStep(d) PROVE cancelled[c]
    BY <1>1, <2>0, <2>3, FetchStepShape DEF IInv, ControlTypes, Running
  <2> QED
    BY <1>1, <2>0, <2>1, <2>2, <2>3
    DEF Next, CallerStep, Arrive, CacheHit, CacheMiss, Join, LeaderWakes, WaiterWakes, Cancel,
        Invalidate, Tick, vars, fetchVars
<1>2. IInv /\ [Next]_vars
        => [\A c \in Callers :
               fetch[c] \in Running /\ fetch'[c] = "cancelled" => cancelled[c]]_vars
  BY <1>1
<1> QED
  BY <1>2, Invariant, PTL DEF Spec, WaitersDoNotAbort

\* With the in-process cache, what the cache can answer is never fetched.
THEOREM CacheIsUsed == Spec => NoWastedFetch
<1>1. ASSUME IInv, [Next]_vars, NEW c \in Callers,
             fetch[c] = "none", fetch'[c] # "none", backend = "memory"
      PROVE  refresh[c] \/ ~Valid(profile[c])
  <2>1. ASSUME NEW d \in Callers, Leave(d) PROVE FALSE
    BY <1>1, <2>1, LeaveKeepsTypes DEF IInv
  <2>2. ASSUME NEW d \in Callers, FetchOnce(d) PROVE c = d
    BY <1>1, <2>2 DEF FetchOnce, JoinOrLaunch, Launch, IInv, ControlTypes
  <2>3. ASSUME NEW d \in Callers, FetchStep(d) PROVE FALSE
    BY <1>1, <2>3, FetchStepShape DEF IInv, ControlTypes, Running
  <2>4. ASSUME NEW d \in Callers, CacheMiss(d) PROVE ~Valid(profile[c])
    BY <1>1, <2>2, <2>4 DEF CacheMiss
  <2>5. ASSUME NEW d \in Callers, Join(d) PROVE refresh[c]
    BY <1>1, <2>2, <2>5 DEF Join, IInv, Places
  <2> QED
    BY <1>1, <2>1, <2>3, <2>4, <2>5
    DEF Next, CallerStep, Arrive, CacheHit, LeaderWakes, WaiterWakes, Cancel,
        Invalidate, Tick, vars, fetchVars
<1>2. IInv /\ [Next]_vars
        => [\A c \in Callers :
               fetch[c] = "none" /\ fetch'[c] # "none" /\ backend = "memory" =>
                   refresh[c] \/ ~Valid(profile[c])]_vars
  BY <1>1
<1> QED
  BY <1>2, Invariant, PTL DEF Spec, NoWastedFetch

-----------------------------------------------------------------------------
(* The cache.                                                              *)

Distinct(seq) == \A i, j \in DOMAIN seq : seq[i] = seq[j] => i = j

CacheTypes ==
    /\ backend \in {"memory", "redis"}
    /\ entries \in Seq(Profiles)
    /\ left \in [Profiles -> 0..Ttl]

\* Removing an entry keeps the others, in order and once each.
LEMMA WithoutIsShorter ==
    ASSUME entries \in Seq(Profiles), Distinct(entries), NEW p \in Profiles
    PROVE  /\ Without(p) \in Seq(Profiles)
           /\ Distinct(Without(p))
           /\ Len(Without(p)) <= Len(entries)
           /\ \A j \in DOMAIN Without(p) : Without(p)[j] # p
<1>1. CASE ~Cached(p)
  BY <1>1 DEF Without, Cached
<1>2. CASE Cached(p)
  <2> DEFINE i == CHOOSE i \in DOMAIN entries : entries[i] = p
             rest == [j \in 1..(Len(entries) - 1) |-> entries[IF j < i THEN j ELSE j + 1]]
  <2>1. i \in 1..Len(entries) /\ entries[i] = p
    BY <1>2 DEF Cached
  <2>2. Without(p) = rest
    BY <1>2 DEF Without
  <2>3. Len(entries) \in Nat /\ Len(entries) - 1 \in Nat
    BY <2>1
  <2> HIDE DEF i
  <2>4. \A j \in 1..(Len(entries) - 1) :
           (IF j < i THEN j ELSE j + 1) \in 1..Len(entries) \ {i}
    BY <2>1, <2>3
  <2>5. \A j \in 1..(Len(entries) - 1) : rest[j] \in Profiles /\ rest[j] # p
    BY <2>1, <2>4 DEF Distinct
  <2>6. rest \in Seq(Profiles) /\ Len(rest) = Len(entries) - 1 /\ DOMAIN rest = 1..(Len(entries) - 1)
    BY <2>3, <2>5
  <2>7. Distinct(rest)
    <3> SUFFICES ASSUME NEW j \in 1..(Len(entries) - 1), NEW k \in 1..(Len(entries) - 1),
                        rest[j] = rest[k]
                 PROVE  j = k
      BY <2>6 DEF Distinct
    <3>1. (IF j < i THEN j ELSE j + 1) = (IF k < i THEN k ELSE k + 1)
      BY <2>4 DEF Distinct
    <3> QED
      BY <2>1, <3>1
  <2> QED
    BY <2>2, <2>3, <2>5, <2>6, <2>7
<1> QED
  BY <1>1, <1>2

\* Putting an entry last keeps the entries distinct.
LEMMA AppendIsDistinct ==
    ASSUME NEW seq \in Seq(Profiles), Distinct(seq), NEW p \in Profiles,
           \A j \in DOMAIN seq : seq[j] # p
    PROVE  /\ Append(seq, p) \in Seq(Profiles)
           /\ Distinct(Append(seq, p))
           /\ Len(Append(seq, p)) = Len(seq) + 1
BY DEF Distinct

\* What is left after an eviction is distinct and within the limit.
LEMMA NewestIsBounded ==
    ASSUME NEW seq \in Seq(Profiles), Distinct(seq), NEW n \in Nat
    PROVE  /\ Newest(seq, n) \in Seq(Profiles)
           /\ Distinct(Newest(seq, n))
           /\ Len(Newest(seq, n)) <= n
<1>1. CASE Len(seq) <= n
  BY <1>1 DEF Newest
<1>2. CASE Len(seq) > n
  <2> DEFINE from == Len(seq) - n + 1
  <2>1. Newest(seq, n) = SubSeq(seq, from, Len(seq)) /\ from \in 1..(Len(seq) + 1) /\ Len(seq) \in Nat
    BY <1>2 DEF Newest
  <2>2. Len(Newest(seq, n)) = n
    BY <2>1
  <2>3. \A j \in 1..n : Newest(seq, n)[j] = seq[from + j - 1] /\ from + j - 1 \in 1..Len(seq)
    BY <2>1
  <2>4. Newest(seq, n) \in Seq(Profiles)
    BY <2>1
  <2>5. Distinct(Newest(seq, n))
    <3> HIDE DEF from
    <3> SUFFICES ASSUME NEW j \in 1..n, NEW k \in 1..n, Newest(seq, n)[j] = Newest(seq, n)[k]
                 PROVE  j = k
      BY <2>2, <2>4 DEF Distinct
    <3>0. \A a, b \in 1..Len(seq) : seq[a] = seq[b] => a = b
      BY DEF Distinct
    <3>1. from + j - 1 = from + k - 1
      <4>1. /\ from + j - 1 \in 1..Len(seq) /\ Newest(seq, n)[j] = seq[from + j - 1]
            /\ from + k - 1 \in 1..Len(seq) /\ Newest(seq, n)[k] = seq[from + k - 1]
        BY <2>3
      <4> QED
        BY <3>0, <4>1
    <3>2. from \in Int /\ j \in Int /\ k \in Int
      BY <2>1
    <3> QED
      BY <3>1, <3>2
  <2> QED
    BY <2>2, <2>4, <2>5
<1> QED
  BY <1>1, <1>2

CacheInv == CacheTypes /\ CacheWithinLimit

\* What an operation of the cache may do, and that it keeps the invariant.
LEMMA CacheOperations ==
    ASSUME CacheInv, NEW p \in Profiles, UNCHANGED backend,
           \/ Look(p) /\ UNCHANGED left
           \/ MayPut(p)
           \/ Drop(p)
    PROVE  CacheInv'
<1>0. Distinct(entries) /\ entries \in Seq(Profiles)
  BY DEF CacheInv, CacheTypes, CacheWithinLimit, Distinct
<1>1. /\ Without(p) \in Seq(Profiles)
      /\ Distinct(Without(p))
      /\ Len(Without(p)) <= Len(entries)
      /\ \A j \in DOMAIN Without(p) : Without(p)[j] # p
  BY <1>0, WithoutIsShorter
<1>2. /\ Append(Without(p), p) \in Seq(Profiles)
      /\ Distinct(Append(Without(p), p))
      /\ Len(Append(Without(p), p)) = Len(Without(p)) + 1
  BY <1>1, AppendIsDistinct
<1>3. /\ Newest(Append(Without(p), p), MaxEntries) \in Seq(Profiles)
      /\ Distinct(Newest(Append(Without(p), p), MaxEntries))
      /\ Len(Newest(Append(Without(p), p), MaxEntries)) <= MaxEntries
  BY <1>2, NewestIsBounded, ServiceConstants
<1>4. CASE Look(p) /\ UNCHANGED left
  <2>1. CASE backend = "memory" /\ Valid(p)
    <3>1. entries' = Append(Without(p), p)
      BY <1>4, <2>1 DEF Look
    <3>2. Len(Without(p)) <= Len(entries) - 1
      BY <1>0, <2>1 DEF Valid, Cached, Without
    <3>3. Len(entries') <= Len(entries)
      BY <1>0, <1>1, <1>2, <3>1, <3>2
    <3>4. Len(entries') <= MaxEntries
      BY <1>0, <1>2, <2>1, <3>1, <3>3, ServiceConstants DEF CacheInv, CacheWithinLimit
    <3>5. entries' \in Seq(Profiles) /\ Distinct(entries')
      BY <1>2, <3>1
    <3> QED
      BY <1>4, <3>4, <3>5 DEF CacheInv, CacheTypes, CacheWithinLimit, Distinct
  <2>2. CASE backend = "memory" /\ ~Valid(p)
    <3>1. entries' = Without(p)
      BY <1>4, <2>2 DEF Look
    <3> QED
      BY <1>0, <1>1, <1>4, <2>2, <3>1, ServiceConstants
      DEF CacheInv, CacheTypes, CacheWithinLimit, Distinct
  <2>3. CASE backend = "redis"
    BY <1>4, <2>3 DEF Look, CacheInv, CacheTypes, CacheWithinLimit
  <2> QED
    BY <2>1, <2>2, <2>3 DEF CacheInv, CacheTypes
<1>5. CASE MayPut(p)
  <2>1. CASE UNCHANGED <<entries, left>>
    BY <2>1 DEF CacheInv, CacheTypes, CacheWithinLimit
  <2>2. CASE Put(p)
    <3>1. left' \in [Profiles -> 0..Ttl]
      BY <2>2, ServiceConstants DEF Put, CacheInv, CacheTypes
    <3>2. CASE backend = "memory"
      <4>1. entries' = Newest(Append(Without(p), p), MaxEntries)
        BY <2>2, <3>2 DEF Put
      <4> QED
        BY <1>3, <3>1, <3>2, <4>1 DEF CacheInv, CacheTypes, CacheWithinLimit, Distinct
    <3>3. CASE backend = "redis"
      <4>1. entries' = Append(Without(p), p)
        BY <2>2, <3>3 DEF Put
      <4> QED
        BY <1>2, <3>1, <3>3, <4>1 DEF CacheInv, CacheTypes, CacheWithinLimit, Distinct
    <3> QED
      BY <3>2, <3>3 DEF CacheInv, CacheTypes
  <2> QED
    BY <1>5, <2>1, <2>2 DEF MayPut
<1>6. CASE Drop(p)
  BY <1>0, <1>1, <1>6, ServiceConstants DEF Drop, CacheInv, CacheTypes, CacheWithinLimit, Distinct
<1> QED
  BY <1>4, <1>5, <1>6

\* The cache keeps its types, its limit and one entry per profile.
LEMMA CacheStep == IInv /\ CacheInv /\ [Next]_vars => CacheInv'
<1> SUFFICES ASSUME IInv, CacheInv, [Next]_vars PROVE CacheInv'
  OBVIOUS
<1>1. ASSUME NEW c \in Callers, CacheHit(c) \/ CacheMiss(c) PROVE CacheInv'
  <2>1. profile[c] \in Profiles
    BY <1>1 DEF CacheHit, CacheMiss, IInv, Places
  <2> QED
    BY <1>1, <2>1, CacheOperations DEF CacheHit, CacheMiss
<1>2. ASSUME NEW c \in Callers, TierUseful(c) PROVE CacheInv'
  <2>1. profile[c] \in Profiles
    BY <1>2 DEF TierUseful, Trying, IInv, Places, Running
  <2> QED
    BY <1>2, <2>1, CacheOperations DEF TierUseful
<1>3. ASSUME NEW p \in Profiles, Invalidate(p) PROVE CacheInv'
  BY <1>3, CacheOperations DEF Invalidate, Drop
<1>4. CASE Tick
  <2>1. left' \in [Profiles -> 0..Ttl]
    BY <1>4, ServiceConstants DEF Tick, CacheInv, CacheTypes
  <2> QED
    BY <1>4, <2>1 DEF Tick, CacheInv, CacheTypes, CacheWithinLimit
<1>5. CASE UNCHANGED cacheVars
  BY <1>5 DEF cacheVars, CacheInv, CacheTypes, CacheWithinLimit
<1> QED
  BY <1>1, <1>2, <1>3, <1>4, <1>5
  DEF Next, CallerStep, FetchStep, Arrive, Join, LeaderWakes, WaiterWakes, Cancel,
      Stored, TierDecides, TierFails, TierCrashes, FetchCancelled, vars, cacheVars

\* The cache's invariant holds in every state.
LEMMA CacheInvariant == Spec => []CacheInv
<1>1. Init => CacheInv
  BY ServiceConstants DEF Init, CacheInv, CacheTypes, CacheWithinLimit
<1> QED
  BY <1>1, CacheStep, Invariant, PTL DEF Spec

\* Whatever is looked up, stored, expired or dropped in whatever order, the
\* in-process cache stays within cache_max_entries and holds no profile twice.
THEOREM CacheStaysWithinLimit == Spec => []CacheWithinLimit
<1>1. CacheInv => CacheWithinLimit
  BY DEF CacheInv
<1> QED
  BY <1>1, CacheInvariant, PTL

\* Every variable keeps its type; a tier is counted no further than the last.
THEOREM TypeCorrect == Spec => []TypeOK
<1> DEFINE Tiers == tier \in [Callers -> 1..NumTiers]
<1>1. Init => Tiers
  BY ServiceConstants DEF Init
<1>2. IInv /\ Tiers /\ [Next]_vars => Tiers'
  <2> SUFFICES ASSUME IInv, Tiers, [Next]_vars PROVE Tiers'
    OBVIOUS
  <2>1. ASSUME NEW c \in Callers, FetchStep(c) PROVE Tiers'
    BY <2>1, ServiceConstants
    DEF FetchStep, TierUseful, Stored, TierDecides, TierFails, TierCrashes, FetchCancelled, Ends
  <2>2. ASSUME NEW c \in Callers, Leave(c) PROVE Tiers'
    BY <2>2, ServiceConstants DEF Leave, fetchVars
  <2> QED
    BY <2>1, <2>2
    DEF Next, CallerStep, Arrive, CacheHit, CacheMiss, Join, LeaderWakes, WaiterWakes, Cancel,
        Invalidate, Tick, vars, fetchVars
<1>3. IInv /\ CacheInv /\ Tiers => TypeOK
  BY DEF IInv, ControlTypes, CacheInv, CacheTypes, TypeOK
<1> HIDE DEF Tiers
<1> QED
  BY <1>1, <1>2, <1>3, Invariant, CacheInvariant, PTL DEF Spec
-----------------------------------------------------------------------------
(* Nobody waits in vain.                                                   *)

\* Whoever awaits a fetch awaits one that there is, a leader its own.
Awaiting ==
    \A c \in Callers :
        /\ pc[c] \in {"leading", "waiting"} => on[c] \in Callers /\ fetch[on[c]] # "none"
        /\ pc[c] \notin {"leading", "waiting"} => on[c] = NoCaller
        /\ pc[c] = "leading" => on[c] = c

\* The shape of a departure: c no longer awaits anything, and a fetch is forgotten
\* only if nobody else awaits it.
LEMMA LeaveForgets ==
    ASSUME ControlTypes, NEW c \in Callers, Leave(c)
    PROVE  /\ pc' = [pc EXCEPT ![c] = "away"] /\ on' = [on EXCEPT ![c] = NoCaller]
           /\ \A d \in Callers : d # on[c] \/ (\E e \in Callers \ {c} : on[e] = d) =>
                /\ fetch'[d] = fetch[d]
                /\ tier \in [Callers -> 1..NumTiers] => tier'[d] = tier[d]
<1>1. pc' = [pc EXCEPT ![c] = "away"] /\ on' = [on EXCEPT ![c] = NoCaller]
  BY DEF Leave, Go
<1>2. CASE on[c] = NoCaller \/ \E d \in Callers \ {c} : on[d] = on[c]
  BY <1>1, <1>2 DEF Leave, fetchVars
<1>3. CASE ~(on[c] = NoCaller \/ \E d \in Callers \ {c} : on[d] = on[c])
  <2>1. /\ fetch' = [fetch EXCEPT ![on[c]] = "none"]
        /\ tier' = [tier EXCEPT ![on[c]] = 1]
    BY <1>3 DEF Leave
  <2>2. \A d \in Callers : d # on[c] => fetch'[d] = fetch[d]
    BY <2>1 DEF ControlTypes
  <2>3. tier \in [Callers -> 1..NumTiers] =>
          \A d \in Callers : d # on[c] => tier'[d] = tier[d]
    BY <2>1
  <2> QED
    BY <1>1, <1>3, <2>2, <2>3
<1> QED
  BY <1>2, <1>3

LEMMA LeaveKeepsAwaiting ==
    ASSUME IInv, Awaiting, NEW c \in Callers, Leave(c)
    PROVE  Awaiting'
<1>1. /\ pc' = [pc EXCEPT ![c] = "away"] /\ on' = [on EXCEPT ![c] = NoCaller]
      /\ \A d \in Callers : d # on[c] \/ (\E e \in Callers \ {c} : on[e] = d) =>
           fetch'[d] = fetch[d]
  BY LeaveForgets DEF IInv
<1>2. ASSUME NEW d \in Callers, d # c
      PROVE  /\ pc'[d] \in {"leading", "waiting"} => on'[d] \in Callers /\ fetch'[on'[d]] # "none"
             /\ pc'[d] \notin {"leading", "waiting"} => on'[d] = NoCaller
             /\ pc'[d] = "leading" => on'[d] = d
  <2>1. pc'[d] = pc[d] /\ on'[d] = on[d]
    BY <1>1, <1>2 DEF IInv, ControlTypes
  <2>2. on[d] \in Callers => fetch'[on[d]] = fetch[on[d]]
    BY <1>1, <1>2
  <2> QED
    BY <2>1, <2>2 DEF Awaiting
<1>3. pc'[c] = "away" /\ on'[c] = NoCaller
  BY <1>1 DEF IInv, ControlTypes
<1> QED
  BY <1>2, <1>3 DEF Awaiting

LEMMA AwaitingStep == IInv /\ Awaiting /\ [Next]_vars => Awaiting'
<1> SUFFICES ASSUME IInv, Awaiting, [Next]_vars PROVE Awaiting'
  OBVIOUS
<1>0. ControlTypes /\ Registered /\ Places /\ NoCaller \notin Callers
  BY ServiceConstants DEF IInv
<1>1. ASSUME NEW c \in Callers, FetchOnce(c), pc[c] \in {"arriving", "joining"} PROVE Awaiting'
  <2>0. profile[c] \in Profiles
    BY <1>0, <1>1 DEF Places
  <2>1. CASE inflight[profile[c]] = NoCaller /\ Launch(c)
    BY <1>0, <1>1, <2>1 DEF Launch, Go, ControlTypes, Awaiting
  <2>2. CASE /\ inflight[profile[c]] # NoCaller
             /\ Go(c, "waiting")
             /\ on' = [on EXCEPT ![c] = inflight[profile[c]]]
             /\ UNCHANGED <<inflight, fetch>>
    <3> DEFINE leader == inflight[profile[c]]
    <3>1. leader \in Callers /\ pc[leader] = "leading"
      BY <1>0, <2>0, <2>2 DEF ControlTypes, Registered
    <3>2. fetch[leader] # "none"
      BY <3>1 DEF Awaiting
    <3> QED
      BY <1>0, <1>1, <2>2, <3>1, <3>2 DEF Go, ControlTypes, Awaiting
  <2> QED
    BY <1>1, <2>1, <2>2 DEF FetchOnce, JoinOrLaunch
<1>2. ASSUME NEW c \in Callers, FetchStep(c) PROVE Awaiting'
  <2>1. /\ UNCHANGED callerVars
        /\ \/ UNCHANGED fetch
           \/ \E outcome \in Over \cup {"storing"} : fetch' = [fetch EXCEPT ![c] = outcome]
    BY <1>0, <1>2, FetchStepShape
  <2>2. \A d \in Callers : fetch[d] # "none" => fetch'[d] # "none"
    BY <1>0, <2>1 DEF ControlTypes, Over
  <2> QED
    BY <2>1, <2>2 DEF Awaiting, callerVars
<1>3. ASSUME NEW c \in Callers, NEW p \in Profiles, Arrive(c, p) PROVE Awaiting'
  BY <1>0, <1>3 DEF Arrive, Go, ControlTypes, Awaiting, fetchVars
<1>4. ASSUME NEW c \in Callers, CacheMiss(c) PROVE Awaiting'
  <2>1. CASE backend = "memory"
    BY <1>1, <1>4, <2>1 DEF CacheMiss
  <2>2. CASE backend # "memory"
    BY <1>0, <1>4, <2>2 DEF CacheMiss, Go, ControlTypes, Awaiting
  <2> QED
    BY <2>1, <2>2
<1>5. ASSUME NEW c \in Callers, Cancel(c) PROVE Awaiting'
  BY <1>5, LeaveKeepsAwaiting DEF Cancel, Awaiting, fetchVars
<1>6. ASSUME NEW c \in Callers, CallerStep(c) PROVE Awaiting'
  BY <1>1, <1>4, <1>6, LeaveKeepsAwaiting DEF CallerStep, CacheHit, Join, LeaderWakes, WaiterWakes
<1>7. CASE (\E p \in Profiles : Invalidate(p)) \/ Tick \/ UNCHANGED vars
  BY <1>7 DEF Invalidate, Tick, vars, callerVars, fetchVars, Awaiting
<1> QED
  BY <1>2, <1>3, <1>5, <1>6, <1>7 DEF Next

LEMMA AwaitingInvariant == Spec => [](IInv /\ Awaiting)
<1>1. Init => Awaiting
  BY DEF Init, Awaiting
<1> QED
  BY <1>1, InitInv, StepInv, AwaitingStep, PTL DEF Spec

\* Whoever awaits a fetch awaits one that has ended, or that still runs under the
\* leader that will see its end: no departure, cancellation or late join leaves a
\* caller with a fetch that is gone.
THEOREM NobodyWaitsInVain ==
    Spec => [](\A c \in Callers : pc[c] \in {"leading", "waiting"} =>
                  \/ fetch[on[c]] \in Over
                  \/ fetch[on[c]] \in Running /\ pc[on[c]] = "leading")
<1>1. IInv /\ Awaiting =>
        \A c \in Callers : pc[c] \in {"leading", "waiting"} =>
             \/ fetch[on[c]] \in Over
             \/ fetch[on[c]] \in Running /\ pc[on[c]] = "leading"
  <2> SUFFICES ASSUME IInv, Awaiting, NEW c \in Callers, pc[c] \in {"leading", "waiting"}
               PROVE  \/ fetch[on[c]] \in Over
                      \/ fetch[on[c]] \in Running /\ pc[on[c]] = "leading"
    OBVIOUS
  <2>1. on[c] \in Callers /\ fetch[on[c]] # "none"
    BY DEF Awaiting
  <2> QED
    BY <2>1 DEF IInv, ControlTypes, Places
<1> QED
  BY <1>1, AwaitingInvariant, PTL

\* The steps a fetch has left: the tiers not yet tried, and the wait for Redis.
FetchLeft(c) ==
    IF fetch[c] = "trying" THEN NumTiers - tier[c] + 2 ELSE IF fetch[c] = "storing" THEN 1 ELSE 0

\* A running fetch comes nearer to its end with each step of its own, and nobody
\* else restarts it, puts it back or forgets it.
FetchComesToAnEnd ==
    [][\A c \in Callers : fetch[c] \in Running =>
          IF FetchStep(c) THEN FetchLeft(c)' < FetchLeft(c) ELSE UNCHANGED <<fetch[c], tier[c]>>]_vars

LEMMA FetchStepIsNearer ==
    ASSUME ControlTypes, tier \in [Callers -> 1..NumTiers], NEW c \in Callers, FetchStep(c)
    PROVE  FetchLeft(c)' < FetchLeft(c)
<1>1. NumTiers \in Nat /\ tier[c] \in 1..NumTiers
  BY ServiceConstants
<1>2. ASSUME fetch[c] = "trying", fetch'[c] = "trying", tier'[c] = tier[c] + 1
      PROVE  FetchLeft(c)' < FetchLeft(c)
  BY <1>1, <1>2 DEF FetchLeft
<1>3. ASSUME fetch[c] = "trying", fetch'[c] \in Over \cup {"storing"}
      PROVE  FetchLeft(c)' < FetchLeft(c)
  BY <1>1, <1>3 DEF FetchLeft, Over
<1>4. ASSUME fetch[c] = "storing", fetch'[c] \in Over PROVE FetchLeft(c)' < FetchLeft(c)
  BY <1>1, <1>4 DEF FetchLeft, Over
<1>5. CASE TierFails(c) /\ tier[c] < NumTiers
  BY <1>2, <1>5 DEF TierFails, Trying
<1>6. CASE TierUseful(c) \/ TierDecides(c) \/ TierCrashes(c) \/ (TierFails(c) /\ ~(tier[c] < NumTiers))
  <2>1. fetch[c] = "trying" /\ \E how \in Over \cup {"storing"} : fetch' = [fetch EXCEPT ![c] = how]
    BY <1>6 DEF TierUseful, TierDecides, TierCrashes, TierFails, Trying, Ends, Over
  <2> QED
    BY <1>3, <2>1 DEF ControlTypes
<1>7. CASE Stored(c) \/ FetchCancelled(c)
  <2>1. fetch[c] \in Running /\ \E how \in Over : fetch' = [fetch EXCEPT ![c] = how]
    BY <1>7 DEF Stored, FetchCancelled, Ends, Over, Running
  <2> QED
    BY <1>3, <1>4, <2>1 DEF ControlTypes, Running
<1> QED
  BY <1>5, <1>6, <1>7 DEF FetchStep

LEMMA OthersLeaveItRunning ==
    ASSUME IInv, Awaiting, tier \in [Callers -> 1..NumTiers], [Next]_vars,
           NEW c \in Callers, fetch[c] \in Running, ~FetchStep(c)
    PROVE  UNCHANGED <<fetch[c], tier[c]>>
<1>1. ControlTypes /\ pc[c] = "leading" /\ on[c] = c
  BY DEF IInv, Places, Awaiting
<1>2. ASSUME NEW d \in Callers, d # c, Leave(d) PROVE UNCHANGED <<fetch[c], tier[c]>>
  BY <1>1, <1>2, LeaveForgets
<1>3. ASSUME NEW d \in Callers, d # c, FetchOnce(d) PROVE fetch'[c] = fetch[c]
  BY <1>1, <1>3 DEF FetchOnce, JoinOrLaunch, Launch, ControlTypes
<1>4. ASSUME NEW d \in Callers, CallerStep(d) \/ Cancel(d) PROVE UNCHANGED <<fetch[c], tier[c]>>
  <2>1. CASE d = c
    <3>1. fetch[c] \notin Over
      BY DEF Running, Over
    <3> QED
      BY <1>1, <1>4, <2>1, <3>1 DEF CallerStep, CacheHit, CacheMiss, Join, LeaderWakes,
                                    WaiterWakes, Cancel, fetchVars
  <2>2. CASE d # c
    BY <1>2, <1>3, <1>4, <2>2 DEF CallerStep, CacheHit, CacheMiss, Join, LeaderWakes,
                                  WaiterWakes, Cancel, fetchVars
  <2> QED
    BY <2>1, <2>2
<1>5. ASSUME NEW d \in Callers, d # c, FetchStep(d) PROVE UNCHANGED <<fetch[c], tier[c]>>
  <2>1. ASSUME NEW how, Ends(d, how) PROVE UNCHANGED <<fetch[c], tier[c]>>
    BY <1>1, <1>5, <2>1 DEF Ends, ControlTypes
  <2>2. CASE TierFails(d) /\ tier[d] < NumTiers
    BY <1>5, <2>2 DEF TierFails
  <2> QED
    BY <1>5, <2>1, <2>2 DEF FetchStep, TierUseful, Stored, TierDecides, TierFails, TierCrashes,
                            FetchCancelled
<1>6. ASSUME \/ \E d \in Callers, p \in Profiles : Arrive(d, p)
             \/ \E p \in Profiles : Invalidate(p)
             \/ Tick \/ UNCHANGED vars
      PROVE  UNCHANGED <<fetch[c], tier[c]>>
  BY <1>6 DEF Arrive, Invalidate, Tick, vars, fetchVars
<1> QED
  BY <1>4, <1>5, <1>6 DEF Next

\* A fetch takes at most one step per tier and one more, for any tiers and
\* whatever its callers do meanwhile (ProfileFetcher.fetch, _fetch_and_store).
THEOREM FetchesEnd == Spec => FetchComesToAnEnd
<1>1. IInv /\ Awaiting /\ TypeOK /\ [Next]_vars =>
        [\A c \in Callers : fetch[c] \in Running =>
          IF FetchStep(c) THEN FetchLeft(c)' < FetchLeft(c) ELSE UNCHANGED <<fetch[c], tier[c]>>]_vars
  BY FetchStepIsNearer, OthersLeaveItRunning DEF TypeOK, IInv
<1> QED
  BY <1>1, AwaitingInvariant, TypeCorrect, PTL DEF Spec, FetchComesToAnEnd
=============================================================================
