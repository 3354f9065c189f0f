------------------------- MODULE SessionPoolProofs -------------------------
(* Theorems about SessionPool, for every number of sessions and every limit. *)
EXTENDS SessionPool, TLAPS, FiniteSetTheorems, WellFoundedInduction

\* A step keeps the type invariant: the shapes the lemmas below rely on.
LEMMA TypeStep == TypeOK /\ [Next]_vars => TypeOK'
<1>1. SUFFICES ASSUME TypeOK, [Next]_vars PROVE TypeOK'
  OBVIOUS
<1>2. /\ CooldownSeconds \in Nat /\ RetryAfters \subseteq Nat
      /\ RequestsPerMinute \in Nat \ {0} /\ Window \in Nat
      /\ MaxConsecutiveErrors \in Nat \ {0} /\ MaxLeases \in Nat \ {0}
      /\ NumSessions \in Nat
  BY PoolConstants
<1>3. ASSUME NEW s \in Sessions, Touch(s) PROVE older' \in [Sessions -> SUBSET Sessions]
  BY <1>1, <1>3 DEF TypeOK, Touch
<1>4. ASSUME NEW s \in Sessions, RecordUse(s)
      PROVE  /\ older' \in [Sessions -> SUBSET Sessions]
             /\ recent' \in [Sessions -> [Ages -> 0..RequestsPerMinute]]
  <2>1. AtMost(RequestsPerMinute, recent[s][0] + 1) \in 0..RequestsPerMinute
    BY <1>1, <1>2 DEF TypeOK, AtMost, Ages
  <2>2. recent' = [recent EXCEPT ![s] = [recent[s] EXCEPT ![0] =
                      AtMost(RequestsPerMinute, recent[s][0] + 1)]]
    BY <1>4 DEF RecordUse
  <2>3. [recent[s] EXCEPT ![0] = AtMost(RequestsPerMinute, recent[s][0] + 1)]
            \in [Ages -> 0..RequestsPerMinute]
    BY <1>1, <2>1 DEF TypeOK
  <2> QED
    BY <1>1, <1>3, <1>4, <2>2, <2>3 DEF TypeOK, RecordUse
<1>5. ASSUME NEW s \in Sessions, MayReturn(s) PROVE leases' \in [Sessions -> 0..MaxLeases]
  BY <1>1, <1>2, <1>5 DEF TypeOK, MayReturn
<1>6. ASSUME NEW s \in Sessions, CountError(s)
      PROVE  consecutive' \in [Sessions -> 0..MaxConsecutiveErrors]
  BY <1>1, <1>2, <1>6 DEF TypeOK, CountError, AtMost
<1>7. ASSUME NEW s \in Sessions, NEW rest \in Rests, CoolDown(s, rest)
      PROVE  state' \in [Sessions -> States] /\ cooldown' \in [Sessions -> Nat]
  BY <1>1, <1>2, <1>7 DEF TypeOK, CoolDown, Rests, States
<1>8. ASSUME NEW s \in Sessions, MarkDead(s)
      PROVE  state' \in [Sessions -> States] /\ cooldown' \in [Sessions -> Nat]
  BY <1>1, <1>8 DEF TypeOK, MarkDead, States
<1>9. ASSUME Revive
      PROVE  /\ state' \in [Sessions -> States] /\ cooldown' \in [Sessions -> Nat]
             /\ consecutive' \in [Sessions -> 0..MaxConsecutiveErrors]
  BY <1>1, <1>2, <1>9 DEF TypeOK, Revive, States
<1>10. ASSUME NEW s \in Sessions, Acquire(s) PROVE TypeOK'
  BY <1>1, <1>2, <1>3, <1>9, <1>10 DEF TypeOK, Acquire, Choose
<1>11. ASSUME NEW s \in Sessions, Report(s) PROVE TypeOK'
  <2>1. /\ older' \in [Sessions -> SUBSET Sessions]
        /\ recent' \in [Sessions -> [Ages -> 0..RequestsPerMinute]]
        /\ leases' \in [Sessions -> 0..MaxLeases]
    BY <1>4, <1>5, <1>11 DEF Report, Verdict, ReportSuccess, ReportFatal,
         ReportThrottled, ReportError, ReportLoginPage
  <2>2. CooldownSeconds \in Rests
    BY DEF Rests
  <2>3. CASE ReportSuccess(s)
    BY <1>1, <1>2, <2>1, <2>3 DEF TypeOK, ReportSuccess
  <2>4. CASE ReportFatal(s)
    BY <1>6, <1>8, <2>1, <2>4 DEF TypeOK, ReportFatal
  <2>5. CASE \E rest \in Rests : ReportThrottled(s, rest)
    BY <1>6, <1>7, <2>1, <2>5 DEF TypeOK, ReportThrottled
  <2>6. CASE ReportError(s)
    BY <1>1, <1>6, <1>7, <2>1, <2>2, <2>6 DEF TypeOK, ReportError
  <2>7. CASE ReportLoginPage(s)
    BY <1>1, <1>2, <1>8, <2>1, <2>7 DEF TypeOK, ReportLoginPage
  <2> QED
    BY <1>11, <2>3, <2>4, <2>5, <2>6, <2>7 DEF Report, Verdict
<1>12. ASSUME NEW s \in Sessions, Return(s) PROVE TypeOK'
  BY <1>1, <1>2, <1>12 DEF TypeOK, Return
<1>13. CASE HealthyCount
  BY <1>1, <1>9, <1>13 DEF TypeOK, HealthyCount
<1>14. CASE Tick
  <2>1. ASSUME NEW s \in Sessions PROVE Aged(recent[s]) \in [Ages -> 0..RequestsPerMinute]
    BY <1>1, <1>2 DEF TypeOK, Aged, Ages
  <2> QED
    BY <1>1, <1>14, <2>1 DEF TypeOK, Tick
<1>15. CASE UNCHANGED vars
  BY <1>1, <1>15 DEF TypeOK, vars
<1> QED
  BY <1>1, <1>10, <1>11, <1>12, <1>13, <1>14, <1>15 DEF Next, HandOut

\* Every state of the pool is well-typed, whatever its callers report and when.
THEOREM TypeCorrect == Spec => []TypeOK
<1>1. Init => TypeOK
  BY PoolConstants DEF Init, TypeOK, States, Sessions, Ages
<1> QED
  BY <1>1, TypeStep, PTL DEF Spec

-----------------------------------------------------------------------------

\* No session stays in service at the failure limit (report_error, is_available).
THEOREM InServiceHolds == Spec => []InService
<1>1. Init => InService
  BY PoolConstants DEF Init, InService
<1>2. TypeOK /\ InService /\ [Next]_vars => InService'
  <2>1. SUFFICES ASSUME TypeOK, InService, [Next]_vars, NEW s \in Sessions,
                        state'[s] = "healthy"
                 PROVE  consecutive'[s] < MaxConsecutiveErrors
    BY DEF InService
  <2>2. MaxConsecutiveErrors \in Nat \ {0}
    BY PoolConstants
  <2>3. CASE Revive
    BY <2>1, <2>2, <2>3 DEF TypeOK, InService, Revive
  <2>4. ASSUME NEW t \in Sessions, Report(t) PROVE consecutive'[s] < MaxConsecutiveErrors
    <3>1. CASE ReportSuccess(t)
      BY <2>1, <2>2, <3>1 DEF TypeOK, InService, ReportSuccess
    <3>2. CASE ReportFatal(t)
      BY <2>1, <3>2 DEF TypeOK, InService, ReportFatal, MarkDead, CountError
    <3>3. CASE \E rest \in Rests : ReportThrottled(t, rest)
      BY <2>1, <3>3 DEF TypeOK, InService, ReportThrottled, CoolDown, CountError
    <3>4. CASE ReportError(t)
      <4>1. CASE consecutive'[t] >= MaxConsecutiveErrors
        BY <2>1, <3>4, <4>1 DEF TypeOK, InService, ReportError, CoolDown, CountError
      <4>2. CASE ~(consecutive'[t] >= MaxConsecutiveErrors)
        <5>1. consecutive'[t] \in Int
          BY <2>1, <2>2, <3>4 DEF TypeOK, ReportError, CountError, AtMost
        <5> QED
          BY <2>1, <2>2, <3>4, <4>2, <5>1 DEF TypeOK, InService, ReportError, CountError
      <4> QED
        BY <4>1, <4>2
    <3>5. CASE ReportLoginPage(t)
      BY <2>1, <2>2, <3>5 DEF TypeOK, InService, ReportLoginPage, MarkDead
    <3> QED
      BY <2>4, <3>1, <3>2, <3>3, <3>4, <3>5 DEF Report, Verdict
  <2>5. CASE UNCHANGED <<state, consecutive>>
    BY <2>1, <2>5 DEF InService
  <2> QED
    BY <2>1, <2>3, <2>4, <2>5 DEF Next, HandOut, Acquire, Choose, Return, HealthyCount, Tick, vars
<1> QED
  BY <1>1, <1>2, TypeCorrect, PTL DEF Spec

-----------------------------------------------------------------------------

\* Moving the used session to the young end keeps the order strict and total.
LEMMA TouchKeepsOrder ==
  ASSUME TypeOK, LruOrder, NEW s \in Sessions, Touch(s) PROVE LruOrder'
<1>1. \A t \in Sessions : older'[t] = IF t = s THEN Sessions \ {s} ELSE older[t] \ {s}
  BY DEF Touch
<1>2. \A t \in Sessions : older[t] \subseteq Sessions
  BY DEF TypeOK
<1>3. ASSUME NEW t \in Sessions PROVE t \notin older'[t]
  <2>1. t \notin older[t]
    BY DEF LruOrder
  <2> QED
    BY <1>1, <2>1
<1>4. ASSUME NEW t \in Sessions, NEW u \in Sessions, t # u
      PROVE  t \in older'[u] <=> u \notin older'[t]
  <2>1. CASE t = s
    <3>1. older'[u] = older[u] \ {s} /\ older'[t] = Sessions \ {s}
      BY <1>1, <1>4, <2>1
    <3> QED
      BY <1>4, <2>1, <3>1
  <2>2. CASE u = s
    <3>1. older'[u] = Sessions \ {s} /\ older'[t] = older[t] \ {s}
      BY <1>1, <1>4, <2>2
    <3> QED
      BY <1>4, <2>2, <3>1
  <2>3. CASE t # s /\ u # s
    <3>1. older'[u] = older[u] \ {s} /\ older'[t] = older[t] \ {s}
      BY <1>1, <2>3
    <3>2. t \in older[u] <=> u \notin older[t]
      BY <1>4 DEF LruOrder
    <3> QED
      BY <2>3, <3>1, <3>2
  <2> QED
    BY <2>1, <2>2, <2>3
<1>5. ASSUME NEW t \in Sessions, NEW u \in Sessions, t \in older'[u]
      PROVE  older'[t] \subseteq older'[u]
  <2>1. t # s /\ older'[t] = older[t] \ {s}
    BY <1>1, <1>5
  <2>2. CASE u = s
    BY <1>1, <1>2, <2>1, <2>2
  <2>3. CASE u # s
    <3>1. older'[u] = older[u] \ {s}
      BY <1>1, <2>3
    <3>2. t \in older[u]
      BY <1>5, <3>1
    <3>3. older[t] \subseteq older[u]
      BY <3>2 DEF LruOrder
    <3> QED
      BY <2>1, <3>1, <3>3
  <2> QED
    BY <2>2, <2>3
<1> QED
  BY <1>3, <1>4, <1>5 DEF LruOrder

\* The last uses always form one strict total order (acquire, record_success,
\* record_error are the only writers of last_used_at).
THEOREM LruOrderHolds == Spec => []LruOrder
<1>1. Init => LruOrder
  BY PoolConstants DEF Init, LruOrder, Sessions
<1>2. TypeOK /\ LruOrder /\ [Next]_vars => LruOrder'
  <2>1. SUFFICES ASSUME TypeOK, LruOrder, [Next]_vars PROVE LruOrder'
    OBVIOUS
  <2>2. CASE UNCHANGED older
    BY <2>1, <2>2 DEF LruOrder
  <2>3. ASSUME NEW s \in Sessions, Acquire(s) \/ Report(s) PROVE LruOrder'
    <3>1. Touch(s)
      BY <2>3 DEF Acquire, Choose, Report, Verdict, ReportSuccess, ReportFatal, ReportThrottled,
           ReportError, ReportLoginPage, RecordUse
    <3> QED
      BY <2>1, <3>1, TouchKeepsOrder
  <2> QED
    BY <2>1, <2>2, <2>3 DEF Next, HandOut, Return, HealthyCount, Tick, vars
<1> QED
  BY <1>1, <1>2, TypeCorrect, PTL DEF Spec

\* Two calls of acquire() in the same state would choose the same session:
\* selection is a function of the health and the order of last uses.
THEOREM ChoiceIsUnique ==
  ASSUME LruOrder, NEW pool \in SUBSET Sessions, NEW s \in Sessions, NEW t \in Sessions,
         LeastRecentlyUsed(s, pool), LeastRecentlyUsed(t, pool)
  PROVE  s = t
BY DEF LruOrder, LeastRecentlyUsed

\* Any candidates at all have a least recently used one: those older than it,
\* among them, would be fewer for each of these than for it.
LEMMA SomeoneIsOldest ==
  ASSUME TypeOK, LruOrder, NEW pool \in SUBSET Sessions, pool # {}
  PROVE  \E s \in pool : LeastRecentlyUsed(s, pool)
<1> DEFINE before == {older[s] \cap pool : s \in pool}
           R == StrictSubsetOrdering(Sessions)
<1>1. IsFiniteSet(Sessions)
  BY PoolConstants, FS_Interval DEF Sessions
<1>2. before \subseteq FiniteSubsetsOf(Sessions)
  <2>1. \A T \in SUBSET Sessions : IsFiniteSet(T)
    BY <1>1, FS_Subset
  <2> QED
    BY <2>1 DEF FiniteSubsetsOf
<1>3. IsWellFoundedOn(R, FiniteSubsetsOf(Sessions))
  BY FS_StrictSubsetOrderingWellFounded
<1>4. PICK fewest \in before : \A other \in before : <<other, fewest>> \notin R
  <2>1. before # {}
    OBVIOUS
  <2> HIDE DEF R, before
  <2> QED
    BY <1>2, <1>3, <2>1, WFMin
<1>5. PICK s \in pool : fewest = older[s] \cap pool
  OBVIOUS
<1>6. ASSUME NEW t \in older[s] \cap pool PROVE FALSE
  <2>1. t \in Sessions /\ s \in Sessions
    OBVIOUS
  <2>2. older[t] \subseteq older[s] /\ t \notin older[t]
    BY <1>6, <2>1 DEF LruOrder
  <2>3. older[t] \cap pool \subseteq fewest /\ older[t] \cap pool # fewest
    BY <1>5, <1>6, <2>2
  <2>4. <<older[t] \cap pool, fewest>> \in R
    BY <1>5, <2>3 DEF StrictSubsetOrdering
  <2> QED
    BY <1>4, <1>6, <2>4
<1> QED
  BY <1>5, <1>6 DEF LeastRecentlyUsed

\* acquire() finds exactly one session whenever there is one to be had: it fails
\* for want of an available session and for nothing else.
THEOREM AcquireSucceeds ==
  Spec => [](Available # {} =>
               \E s \in Sessions :
                 /\ LeastRecentlyUsed(s, Candidates)
                 /\ \A t \in Sessions : LeastRecentlyUsed(t, Candidates) => t = s)
<1>1. TypeOK /\ LruOrder =>
        (Available # {} =>
               \E s \in Sessions :
                 /\ LeastRecentlyUsed(s, Candidates)
                 /\ \A t \in Sessions : LeastRecentlyUsed(t, Candidates) => t = s)
  <2>1. SUFFICES ASSUME TypeOK, LruOrder, Available # {}
                 PROVE  \E s \in Sessions :
                          /\ LeastRecentlyUsed(s, Candidates)
                          /\ \A t \in Sessions : LeastRecentlyUsed(t, Candidates) => t = s
    OBVIOUS
  <2>2. Candidates \subseteq Sessions /\ Candidates # {}
    BY <2>1 DEF Candidates, Available
  <2>3. PICK s \in Candidates : LeastRecentlyUsed(s, Candidates)
    BY <2>1, <2>2, SomeoneIsOldest
  <2> QED
    BY <2>1, <2>2, <2>3, ChoiceIsUnique
<1> QED
  BY <1>1, TypeCorrect, LruOrderHolds, PTL

-----------------------------------------------------------------------------
(* What choosing the least recently used one is for.                       *)

\* Each time acquire() passes over a usable session that nobody holds, one session
\* fewer is older than it, and no other step makes it younger: others are served
\* before it at most as often as there are others.
WaitsItsTurn ==
    [][\A s \in Sessions : Idle(s) /\ leases'[s] = 0 =>
          /\ older'[s] \subseteq older[s]
          /\ HandOut => older'[s] # older[s]]_vars

\* The order of use is fair to every idle session, for any number of them and
\* whatever becomes of the others meanwhile.
THEOREM TurnsComeRound == Spec => WaitsItsTurn
<1>1. ASSUME TypeOK, LruOrder, [Next]_vars, NEW s \in Sessions, Idle(s), leases'[s] = 0
      PROVE  /\ older'[s] \subseteq older[s]
             /\ HandOut => older'[s] # older[s]
  <2>1. ASSUME NEW t \in Sessions, Acquire(t)
        PROVE  older'[s] \subseteq older[s] /\ older'[s] # older[s]
    <3>1. t # s
      BY <1>1, <2>1 DEF TypeOK, Idle, Acquire
    <3>2. s \in Candidates
      BY <1>1 DEF Idle, Candidates, Available, IsAvailable
    <3>3. t \in older[s]
      BY <1>1, <2>1, <3>1, <3>2 DEF Acquire, Choose, LeastRecentlyUsed, LruOrder
    <3>4. older'[s] = older[s] \ {t}
      BY <2>1, <3>1 DEF Acquire, Choose, Touch
    <3> QED
      BY <3>3, <3>4
  <2>2. ASSUME NEW t \in Sessions, Report(t) PROVE older'[s] \subseteq older[s]
    <3>1. t # s
      BY <1>1, <2>2 DEF Idle, Report, MayReturn
    <3>2. Touch(t)
      BY <2>2 DEF Report, Verdict, ReportSuccess, ReportFatal, ReportThrottled, ReportError,
           ReportLoginPage, RecordUse
    <3> QED
      BY <3>1, <3>2 DEF Touch
  <2>3. UNCHANGED older => older'[s] \subseteq older[s]
    OBVIOUS
  <2>4. HandOut => older'[s] \subseteq older[s] /\ older'[s] # older[s]
    BY <2>1 DEF HandOut
  <2>5. HandOut \/ (\E t \in Sessions : Report(t)) \/ UNCHANGED older
    BY <1>1 DEF Next, Return, HealthyCount, Tick, vars
  <2> QED
    BY <2>2, <2>3, <2>4, <2>5
<1>2. TypeOK /\ LruOrder /\ [Next]_vars =>
        [\A s \in Sessions : Idle(s) /\ leases'[s] = 0 =>
          /\ older'[s] \subseteq older[s]
          /\ HandOut => older'[s] # older[s]]_vars
  BY <1>1
<1> QED
  BY <1>2, TypeCorrect, LruOrderHolds, PTL DEF Spec, WaitsItsTurn

-----------------------------------------------------------------------------

\* Service is re-entered only after a rest that ran out (is_available is the
\* only way back, and it clears the error count).
THEOREM ReentryHolds == Spec => ReentryAfterRest
<1>1. ASSUME TypeOK, [Next]_vars, NEW s \in Sessions,
             state[s] # "healthy", state'[s] = "healthy"
      PROVE  state[s] = "cooling" /\ cooldown[s] = 0 /\ consecutive'[s] = 0
  <2>1. CASE Revive
    BY <1>1, <2>1 DEF TypeOK, Revive, Expired
  <2>2. ASSUME NEW t \in Sessions, Report(t) PROVE FALSE
    BY <1>1, <2>2 DEF TypeOK, Report, Verdict, ReportSuccess, ReportFatal, ReportThrottled,
         ReportError, ReportLoginPage, CoolDown, MarkDead
  <2>3. CASE UNCHANGED state
    BY <1>1, <2>3
  <2> QED
    BY <1>1, <2>1, <2>2, <2>3 DEF Next, HandOut, Acquire, Choose, Return, HealthyCount, Tick, vars
<1>2. TypeOK /\ [Next]_vars =>
        [\A s \in Sessions :
          state[s] # "healthy" /\ state'[s] = "healthy" =>
              state[s] = "cooling" /\ cooldown[s] = 0 /\ consecutive'[s] = 0]_vars
  BY <1>1
<1> QED
  BY <1>2, TypeCorrect, PTL DEF Spec, ReentryAfterRest
=============================================================================
