------------------------ MODULE VoyagerClientProofs ------------------------
(***************************************************************************)
(* Theorems about VoyagerClient, for any callers, sessions and limits.     *)
(***************************************************************************)
EXTENDS VoyagerClient, FiniteSetTheorems, TLAPS

Busy == {t \in Tasks : pc[t] \in {"pacing", "sent"}}

\* What the arguments below need of the variables' types.
Shape ==
    /\ state \in [Sessions -> {"healthy", "cooling", "dead"}]
    /\ hasCsrf \in [Sessions -> BOOLEAN]
    /\ bootLock \in Tasks \cup {NoTask}
    /\ permits \in Int
    /\ pc \in [Tasks -> Holding \cup {"idle", "ready", "hop"}]
    /\ kind \in [Tasks -> {"api", "html"}]
    /\ active \in [Tasks -> Sessions \cup {0}]

\* The inductive invariant.  The lock's holder is on its way with an API call,
\* so a call that is on its way without the lock has passed ensure_bootstrapped;
\* a call that waits for the lock is an API call, so that it may take it.
Inv ==
    /\ Shape
    /\ \A t \in Tasks : pc[t] \in Holding => active[t] \in Sessions
    /\ \A t \in Tasks : pc[t] = "booting" => kind[t] = "api"
    /\ LockDiscipline
    /\ ApiCarriesCsrf

\* Where a verdict of the pool leaves the states of the sessions.
LEMMA StatesStay ==
  ASSUME Shape, NEW s \in Sessions,
         \/ Pool!ReportSuccess(s) \/ Pool!ReportFatal(s) \/ Pool!ReportError(s)
         \/ Pool!ReportLoginPage(s) \/ \E rest \in Pool!Rests : Pool!ReportThrottled(s, rest)
         \/ NoReport
  PROVE  /\ state' \in [Sessions -> {"healthy", "cooling", "dead"}]
         /\ \A u \in Sessions : state'[u] = "dead" => state[u] = "dead" \/ u = s
BY DEF Shape, NoReport, sessionVars, Pool!ReportSuccess, Pool!ReportFatal, Pool!ReportError,
       Pool!ReportLoginPage, Pool!ReportThrottled, Pool!MarkDead, Pool!CoolDown

LEMMA ReviveStates ==
  ASSUME Shape, Pool!Revive
  PROVE  /\ state' \in [Sessions -> {"healthy", "cooling", "dead"}]
         /\ \A u \in Sessions : state'[u] = "dead" => state[u] = "dead"
BY DEF Shape, Pool!Revive, Sessions, Pool!Sessions

\* What every answer does: the permit is back, the call of t is the only one
\* moved, no CSRF token is lost, and the lock is either kept by a call on its
\* way or, if t held it, given up.
AnswerStep(t) ==
    /\ pc[t] = "sent"
    /\ permits' = permits + 1
    /\ pc' \in [Tasks -> Holding \cup {"idle", "ready", "hop"}]
    /\ pc'[t] \in {"idle", "ready", "hop", "queued"}
    /\ \A u \in Tasks : u # t => pc'[u] = pc[u] /\ kind'[u] = kind[u] /\ active'[u] = active[u]
    /\ kind' \in [Tasks -> {"api", "html"}]
    /\ active' \in [Tasks -> Sessions \cup {0}]
    /\ pc'[t] = "queued" => active'[t] = active[t] /\ kind'[t] = kind[t] /\ bootLock = t
    /\ \/ bootLock' = bootLock /\ (bootLock = t => pc'[t] = "queued")
       \/ bootLock = t /\ bootLock' = NoTask /\ (pc'[t] = "queued" => hasCsrf'[active[t]])
    /\ hasCsrf' \in [Sessions -> BOOLEAN]
    /\ \A s \in Sessions : hasCsrf[s] => hasCsrf'[s]
    /\ \A s \in Sessions : state[s] # "dead" /\ state'[s] = "dead" =>
                              active[t] = s /\ pc'[t] = "idle"
    /\ state' \in [Sessions -> {"healthy", "cooling", "dead"}]

LEMMA AnswerIsStep ==
  ASSUME Inv, NEW t \in Tasks, Answered(t) \/ NotAnswered(t)
  PROVE  AnswerStep(t)
<1>1. /\ pc[t] = "sent" /\ permits' = permits + 1 /\ Shape
      /\ active[t] \in Sessions /\ t # NoTask
  BY ClientConstants DEF Inv, Answered, NotAnswered, Land, Holding
<1>2. hasCsrf' \in [Sessions -> BOOLEAN] /\ \A s \in Sessions : hasCsrf[s] => hasCsrf'[s]
  BY <1>1 DEF Shape, Answered, NotAnswered, AbsorbCookies
<1>3. ASSUME NEW how, End(t, how)
      PROVE  /\ pc' \in [Tasks -> Holding \cup {"idle", "ready", "hop"}] /\ pc'[t] = "idle"
             /\ \A u \in Tasks : u # t =>
                  pc'[u] = pc[u] /\ kind'[u] = kind[u] /\ active'[u] = active[u]
             /\ kind' \in [Tasks -> {"api", "html"}]
             /\ active' \in [Tasks -> Sessions \cup {0}]
             /\ IF bootLock = t THEN bootLock' = NoTask ELSE bootLock' = bootLock
  BY <1>1, <1>3 DEF Shape, End
<1>4. ASSUME NEW err, Retry(t, err)
      PROVE  /\ pc' \in [Tasks -> Holding \cup {"idle", "ready", "hop"}]
             /\ \A u \in Tasks : u # t =>
                  pc'[u] = pc[u] /\ kind'[u] = kind[u] /\ active'[u] = active[u]
             /\ kind' \in [Tasks -> {"api", "html"}]
             /\ active' \in [Tasks -> Sessions \cup {0}]
             /\ \/ /\ pc'[t] = "idle"
                   /\ IF bootLock = t THEN bootLock' = NoTask ELSE bootLock' = bootLock
                \/ /\ pc'[t] = "queued" /\ bootLock = t /\ bootLock' = bootLock
                   /\ kind' = kind /\ active' = active
                \/ /\ pc'[t] = "ready" /\ bootLock # t /\ bootLock' = bootLock /\ kind' = kind
  <2>1. CASE End(t, err)
    BY <1>3, <2>1
  <2>2. CASE ~End(t, err)
    BY <1>1, <1>4, <2>2 DEF Shape, Retry, Level, Holding
  <2> QED
    BY <2>1, <2>2
<1>5. ASSUME Loaded(t) PROVE AnswerStep(t)
  <2>1. /\ state' \in [Sessions -> {"healthy", "cooling", "dead"}]
        /\ \A u \in Sessions : state'[u] = "dead" => state[u] = "dead" \/ u = active[t]
    BY <1>1, <1>5, StatesStay DEF Loaded
  <2>2. CASE \E how : End(t, how)
    BY <1>1, <1>2, <1>3, <2>1, <2>2 DEF AnswerStep
  <2>3. CASE /\ bootLock = t /\ hasCsrf'[active[t]] /\ BootstrapDone(t)
             /\ Pool!ReportSuccess(active[t])
    BY <1>1, <1>2, <2>1, <2>3 DEF AnswerStep, BootstrapDone, Shape, Holding, Pool!ReportSuccess
  <2> QED
    BY <1>5, <2>2, <2>3 DEF Loaded, Level
<1>6. ASSUME Rejected(t) \/ Refused(t) PROVE AnswerStep(t)
  <2>1. /\ state' \in [Sessions -> {"healthy", "cooling", "dead"}]
        /\ \A u \in Sessions : state'[u] = "dead" => state[u] = "dead" \/ u = active[t]
    BY <1>1, <1>6, StatesStay DEF Rejected, Refused
  <2>2. \E how : End(t, how)
    BY <1>6 DEF Rejected, Refused
  <2> QED
    BY <1>1, <1>2, <1>3, <2>1, <2>2 DEF AnswerStep
<1>7. ASSUME Redirected(t) PROVE AnswerStep(t)
  <2>1. /\ state' \in [Sessions -> {"healthy", "cooling", "dead"}]
        /\ \A u \in Sessions : state'[u] = "dead" => state[u] = "dead" \/ u = active[t]
    BY <1>1, <1>7, StatesStay DEF Redirected
  <2>2. CASE Loops(t)
    BY <1>1, <1>2, <1>3, <1>7, <2>1, <2>2 DEF AnswerStep, Redirected
  <2>3. CASE ~Loops(t)
    <3>1. state' = state
      BY <1>7, <2>3 DEF Redirected, NoReport, sessionVars
    <3> QED
      BY <1>1, <1>2, <1>7, <2>1, <2>3, <3>1 DEF AnswerStep, Redirected, Shape, Holding, Level
  <2> QED
    BY <2>2, <2>3
<1>8. ASSUME BadQueryId(t) \/ Garbled(t) \/ Throttled(t) \/ Failed(t) PROVE AnswerStep(t)
  <2>1. /\ state' \in [Sessions -> {"healthy", "cooling", "dead"}]
        /\ \A u \in Sessions : state'[u] = "dead" => state[u] = "dead"
    BY <1>1, <1>8 DEF Shape, BadQueryId, Garbled, Throttled, Failed, NoReport, sessionVars,
         Pool!ReportThrottled, Pool!ReportError, Pool!CoolDown
  <2>2. \E err : Retry(t, err)
    BY <1>8 DEF BadQueryId, Garbled, Throttled, Failed
  <2> QED
    BY <1>1, <1>2, <1>4, <2>1, <2>2 DEF AnswerStep
<1> QED
  BY <1>5, <1>6, <1>7, <1>8 DEF Answered, NotAnswered

-----------------------------------------------------------------------------

\* Permits and busy calls balance, whether a call joins, leaves or neither.
LEMMA BusyBalance ==
  ASSUME NEW t \in Tasks, permits \in Int,
         permits + Cardinality(Busy) = MaxConcurrent,
         \/ Busy' = Busy /\ permits' = permits
         \/ t \notin Busy /\ Busy' = Busy \cup {t} /\ permits' = permits - 1
         \/ t \in Busy /\ Busy' = Busy \ {t} /\ permits' = permits + 1
  PROVE  permits' + Cardinality(Busy') = MaxConcurrent
<1>1. IsFiniteSet(Busy)
  BY ClientConstants, FS_Subset DEF Busy
<1>2. Cardinality(Busy) \in Nat
  BY <1>1, FS_CardinalityType
<1>3. CASE Busy' = Busy /\ permits' = permits
  BY <1>3
<1>4. CASE t \notin Busy /\ Busy' = Busy \cup {t} /\ permits' = permits - 1
  <2>1. Cardinality(Busy') = Cardinality(Busy) + 1
    BY <1>1, <1>4, FS_AddElement
  <2> QED
    BY <1>2, <1>4, <2>1
<1>5. CASE t \in Busy /\ Busy' = Busy \ {t} /\ permits' = permits + 1
  <2>1. Cardinality(Busy') = Cardinality(Busy) - 1
    BY <1>1, <1>5, FS_RemoveElement
  <2> QED
    BY <1>2, <1>5, <2>1
<1> QED
  BY <1>3, <1>4, <1>5

\* The part of the invariant that does not count.
Guarded ==
    /\ Shape
    /\ \A t \in Tasks : pc[t] \in Holding => active[t] \in Sessions
    /\ \A t \in Tasks : pc[t] = "booting" => kind[t] = "api"
    /\ bootLock # NoTask => pc[bootLock] \in OnTheWay /\ kind[bootLock] = "api"
    /\ ApiCarriesCsrf

Balanced == permits + Cardinality(Busy) = MaxConcurrent

LEMMA InvParts == (Inv <=> Guarded /\ Balanced) /\ (Inv' <=> Guarded' /\ Balanced')
BY DEF Inv, Guarded, Balanced, LockDiscipline, Busy

LEMMA AnswerKeepsInv ==
  ASSUME Inv, NEW t \in Tasks, AnswerStep(t) PROVE Inv'
<1>1. Guarded /\ Balanced /\ t # NoTask
  BY InvParts, ClientConstants
<1>2. Shape'
  BY <1>1 DEF Guarded, Shape, AnswerStep
<1>3. \A u \in Tasks : pc'[u] \in Holding => active'[u] \in Sessions
  <2>1. ASSUME NEW u \in Tasks, pc'[u] \in Holding, u # t PROVE active'[u] \in Sessions
    BY <1>1, <2>1 DEF Guarded, AnswerStep
  <2>2. ASSUME pc'[t] \in Holding PROVE active'[t] \in Sessions
    <3>1. pc'[t] = "queued" /\ pc[t] \in Holding
      BY <2>2 DEF AnswerStep, Holding
    <3> QED
      BY <1>1, <3>1 DEF Guarded, AnswerStep
  <2> QED
    BY <2>1, <2>2
<1>4. \A u \in Tasks : pc'[u] = "booting" => kind'[u] = "api"
  BY <1>1 DEF Guarded, AnswerStep
<1>5. bootLock' # NoTask => pc'[bootLock'] \in OnTheWay /\ kind'[bootLock'] = "api"
  BY <1>1 DEF Guarded, Shape, AnswerStep, OnTheWay
<1>6. ASSUME NEW u \in Tasks, pc'[u] \in OnTheWay, kind'[u] = "api", bootLock' # u
      PROVE  hasCsrf'[active'[u]]
  <2>1. CASE u = t
    <3>1. pc'[t] = "queued" /\ hasCsrf'[active[t]] /\ active'[t] = active[t]
      BY <1>6, <2>1 DEF AnswerStep, OnTheWay
    <3> QED
      BY <2>1, <3>1
  <2>2. CASE u # t
    <3>1. pc[u] \in OnTheWay /\ kind[u] = "api" /\ active'[u] = active[u] /\ bootLock # u
      BY <1>1, <1>6, <2>2 DEF AnswerStep
    <3>2. hasCsrf[active[u]] /\ active[u] \in Sessions
      BY <1>1, <3>1 DEF Guarded, ApiCarriesCsrf, Level, OnTheWay, Holding
    <3> QED
      BY <3>1, <3>2 DEF AnswerStep
  <2> QED
    BY <2>1, <2>2
<1>7. ApiCarriesCsrf'
  BY <1>6 DEF ApiCarriesCsrf, Level
<1>8. Balanced'
  <2>1. t \in Busy /\ Busy' = Busy \ {t}
    BY DEF AnswerStep, Busy
  <2> QED
    BY <1>1, <2>1, BusyBalance DEF Balanced, Guarded, Shape, AnswerStep
<1> QED
  BY <1>2, <1>3, <1>4, <1>5, <1>7, <1>8, InvParts DEF Guarded

LEMMA InvStep == Inv /\ [Next]_vars => Inv'
<1>1. SUFFICES ASSUME Inv, [Next]_vars PROVE Inv'
  OBVIOUS
<1>2. Guarded /\ Balanced /\ Shape
  BY <1>1, InvParts DEF Guarded
<1>3. ASSUME NEW t \in Tasks, StartCall(t) PROVE Inv'
  <2>1. Guarded'
    BY <1>2, <1>3 DEF Guarded, Shape, StartCall, sessionVars, Holding, OnTheWay, ApiCarriesCsrf, Level
  <2>2. Busy' = Busy
    BY <1>2, <1>3 DEF Shape, StartCall, Busy
  <2> QED
    BY <1>2, <1>3, <2>1, <2>2, InvParts DEF Balanced, StartCall
<1>4. ASSUME NEW t \in Tasks, NEW s \in Sessions, AcquireSession(t, s) PROVE Inv'
  <2>1. state' \in [Sessions -> {"healthy", "cooling", "dead"}]
    BY <1>2, <1>4, ReviveStates DEF AcquireSession, Pool!Choose
  <2>2. pc'[t] \in {"booting", "queued"} /\ (pc'[t] = "booting" => kind[t] = "api")
        /\ (pc'[t] = "queued" /\ kind[t] = "api" => hasCsrf[s])
    BY <1>2, <1>4 DEF AcquireSession, BeforeSending, Shape
  <2>3. Guarded'
    <3>1. Shape'
      BY <1>2, <1>4, <2>1, <2>2 DEF Shape, AcquireSession, Holding
    <3> QED
      BY <1>2, <1>4, <2>2, <3>1 DEF Guarded, Shape, AcquireSession, AtLoopTop, Holding, OnTheWay,
         ApiCarriesCsrf, Level
  <2>4. Busy' = Busy
    BY <1>2, <1>4, <2>2 DEF Shape, AcquireSession, AtLoopTop, Busy
  <2> QED
    BY <1>2, <1>4, <2>3, <2>4, InvParts DEF Balanced, AcquireSession
<1>5. ASSUME NEW t \in Tasks, NoHealthySession(t) PROVE Inv'
  <2>1. PICK how : End(t, how)
    BY <1>5 DEF NoHealthySession
  <2>2. bootLock # t
    BY <1>2, <1>5, ClientConstants DEF Guarded, NoHealthySession, AtLoopTop, OnTheWay
  <2>3. Guarded'
    BY <1>2, <1>5, <2>1, <2>2 DEF Guarded, Shape, NoHealthySession, sessionVars, End, Holding,
       OnTheWay, ApiCarriesCsrf, Level
  <2>4. Busy' = Busy
    BY <1>2, <1>5, <2>1 DEF Shape, NoHealthySession, AtLoopTop, End, Busy
  <2> QED
    BY <1>2, <1>5, <2>3, <2>4, InvParts DEF Balanced, NoHealthySession
<1>6. ASSUME NEW t \in Tasks, EnterBootstrap(t) PROVE Inv'
  <2>1. Guarded'
    BY <1>2, <1>6, ClientConstants DEF Guarded, Shape, EnterBootstrap, sessionVars, Holding,
       OnTheWay, ApiCarriesCsrf, Level
  <2>2. Busy' = Busy
    BY <1>2, <1>6 DEF Shape, EnterBootstrap, Busy
  <2> QED
    BY <1>2, <1>6, <2>1, <2>2, InvParts DEF Balanced, EnterBootstrap
<1>7. ASSUME NEW t \in Tasks, TakePermit(t) PROVE Inv'
  <2>1. Guarded'
    BY <1>2, <1>7 DEF Guarded, Shape, TakePermit, sessionVars, Holding, OnTheWay,
       ApiCarriesCsrf, Level
  <2>2. t \notin Busy /\ Busy' = Busy \cup {t} /\ permits' = permits - 1
    BY <1>2, <1>7 DEF Shape, TakePermit, Busy
  <2> QED
    BY <1>2, <2>1, <2>2, BusyBalance, InvParts DEF Balanced, Shape
<1>8. ASSUME NEW t \in Tasks, Send(t) PROVE Inv'
  <2>1. Guarded'
    BY <1>2, <1>8 DEF Guarded, Shape, Send, sessionVars, Holding, OnTheWay, ApiCarriesCsrf, Level
  <2>2. Busy' = Busy
    BY <1>2, <1>8 DEF Shape, Send, Busy
  <2> QED
    BY <1>2, <1>8, <2>1, <2>2, InvParts DEF Balanced, Send
<1>9. ASSUME NEW t \in Tasks, Answered(t) \/ NotAnswered(t) PROVE Inv'
  BY <1>1, <1>9, AnswerIsStep, AnswerKeepsInv
<1>10. CASE HealthProbe \/ Tick \/ UNCHANGED vars
  <2>1. state' \in [Sessions -> {"healthy", "cooling", "dead"}]
    BY <1>2, <1>10, ReviveStates DEF HealthProbe, Tick, Pool!Tick, vars, sessionVars, Shape
  <2>2. UNCHANGED <<hasCsrf, permits, callVars>>
    BY <1>10 DEF HealthProbe, Tick, vars
  <2>3. Guarded'
    BY <1>2, <2>1, <2>2 DEF Guarded, Shape, callVars, ApiCarriesCsrf, Level
  <2>4. Busy' = Busy
    BY <2>2 DEF callVars, Busy
  <2> QED
    BY <1>2, <2>2, <2>3, <2>4, InvParts DEF Balanced
<1> QED
  BY <1>1, <1>3, <1>4, <1>5, <1>6, <1>7, <1>8, <1>9, <1>10 DEF Next, Step

LEMMA InvInit == Init => Inv
<1>1. SUFFICES ASSUME Init PROVE Inv
  OBVIOUS
<1>2. Busy = {}
  BY <1>1 DEF Init, Busy
<1>3. Balanced
  BY <1>1, <1>2, FS_EmptySet, ClientConstants DEF Init, Balanced
<1>4. Guarded
  BY <1>1, ClientConstants DEF Init, Guarded, Shape, Holding, OnTheWay, ApiCarriesCsrf, Pool!Init,
     Sessions, Pool!Sessions
<1> QED
  BY <1>3, <1>4, InvParts

-----------------------------------------------------------------------------

\* No exit path of request() or ensure_bootstrapped leaks a permit or the lock.
THEOREM LocksAreReturned == Spec => []LockDiscipline
<1>1. Inv => LockDiscipline
  BY DEF Inv
<1> QED
  BY <1>1, InvInit, InvStep, PTL DEF Spec

\* No API request is on its way without a CSRF token.
THEOREM CsrfIsCarried == Spec => []ApiCarriesCsrf
<1>1. Inv => ApiCarriesCsrf
  BY DEF Inv
<1> QED
  BY <1>1, InvInit, InvStep, PTL DEF Spec

\* The answer that takes a session out of service ends the call that got it.
THEOREM RejectionsAreFinal == Spec => RejectionEndsTheCall
<1>1. ASSUME Inv, [Next]_vars, NEW s \in Sessions, state[s] # "dead", state'[s] = "dead"
      PROVE  \E t \in Tasks : pc[t] = "sent" /\ active[t] = s /\ pc'[t] = "idle"
  <2>1. ASSUME NEW t \in Tasks, Answered(t) \/ NotAnswered(t)
        PROVE  pc[t] = "sent" /\ active[t] = s /\ pc'[t] = "idle"
    BY <1>1, <2>1, AnswerIsStep DEF AnswerStep
  <2>2. CASE Pool!Revive
    BY <1>1, <2>2, ReviveStates DEF Inv
  <2>3. CASE UNCHANGED state
    BY <1>1, <2>3
  <2> QED
    BY <1>1, <2>1, <2>2, <2>3 DEF Next, Step, StartCall, AcquireSession, Pool!Choose,
       NoHealthySession, EnterBootstrap, TakePermit, Send, HealthProbe, Tick, Pool!Tick,
       sessionVars, vars
<1>2. Inv /\ [Next]_vars =>
        [\A s \in Sessions :
          state[s] # "dead" /\ state'[s] = "dead" =>
              \E t \in Tasks : pc[t] = "sent" /\ active[t] = s /\ pc'[t] = "idle"]_vars
  BY <1>1
<1> QED
  BY <1>2, InvInit, InvStep, PTL DEF Spec, RejectionEndsTheCall

-----------------------------------------------------------------------------
(* Attempts and redirects.                                                 *)

TwoFrames == [call : Frames, boot : Frames]

\* What a call's frames say, wherever it is and whether or not it bootstraps: an
\* attempt counted on a session may be the first; every earlier one has failed,
\* and at the top of the loop so has the last.
FrameInv(f, where, bootstraps) ==
    /\ f \in TwoFrames
    /\ where = "idle" => f = FreshFrames
    /\ where \in {"ready", "hop"} =>
          f.call.attempt <= MaxRetries /\ (f.call.attempt > 0 => f.call.last # "none")
    /\ where \in Holding =>
          f.call.attempt > 0 /\ (f.call.attempt > 1 => f.call.last # "none")
    /\ ~bootstraps => f.boot = Fresh

Outcomes == Errors \cup {"none", "ok", "auth", "profile", "noSession"}

Counted ==
    /\ frame \in [Tasks -> TwoFrames]
    /\ \A t \in Tasks : FrameInv(frame[t], pc[t], bootLock = t)
    /\ result \in [Tasks -> Outcomes]
    /\ permits >= 0

\* A call that is over has fresh frames.
LEMMA FreshIsFine ==
  ASSUME NEW bootstraps
  PROVE  FrameInv(FreshFrames, "idle", bootstraps)
BY ClientConstants DEF FrameInv, FreshFrames, Fresh, TwoFrames, Frames, Errors, Holding

\* A step of t alone keeps the count if it keeps that of t.
LEMMA OneFrame ==
  ASSUME Counted, NEW t \in Tasks, NEW g,
         frame' = [frame EXCEPT ![t] = g],
         \A u \in Tasks \ {t} : pc'[u] = pc[u] /\ (bootLock' = u <=> bootLock = u),
         FrameInv(g, pc'[t], bootLock' = t),
         result' \in [Tasks -> Outcomes], permits' >= 0
  PROVE  Counted'
<1>1. g \in TwoFrames
  BY DEF FrameInv
<1>2. frame' \in [Tasks -> TwoFrames]
  BY <1>1 DEF Counted
<1>3. ASSUME NEW u \in Tasks PROVE FrameInv(frame'[u], pc'[u], bootLock' = u)
  <2>1. CASE u = t
    BY <2>1 DEF Counted
  <2>2. CASE u # t
    <3>1. frame'[u] = frame[u] /\ pc'[u] = pc[u] /\ ((bootLock' = u) <=> (bootLock = u))
      BY <2>2 DEF Counted
    <3> QED
      BY <3>1 DEF Counted, FrameInv
  <2> QED
    BY <2>1, <2>2
<1> QED
  BY <1>2, <1>3 DEF Counted

\* Ending a call keeps the count.
LEMMA EndCounts ==
  ASSUME Inv, Counted, NEW t \in Tasks, NEW how \in Outcomes, End(t, how), permits' >= 0
  PROVE  Counted'
<1>1. /\ frame' = [frame EXCEPT ![t] = FreshFrames]
      /\ pc'[t] = "idle"
      /\ \A u \in Tasks \ {t} : pc'[u] = pc[u] /\ (bootLock' = u <=> bootLock = u)
      /\ result' \in [Tasks -> Outcomes]
  BY ClientConstants DEF End, Inv, Shape, Counted
<1> QED
  BY <1>1, FreshIsFine, OneFrame

\* The bottom of the retry loop: an error is kept, or raised.
LEMMA RetryCounts ==
  ASSUME Inv, Counted, NEW t \in Tasks, NEW err \in Errors, Retry(t, err),
         pc[t] = "sent", permits' >= 0
  PROVE  Counted'
<1>0. /\ frame[t] \in TwoFrames /\ FrameInv(frame[t], "sent", bootLock = t)
      /\ MaxRetries \in Nat /\ t # NoTask
  BY ClientConstants DEF Counted
<1>1. CASE Current(t).attempt > MaxRetries
  BY <1>1, EndCounts DEF Retry, Outcomes
<1>2. CASE ~(Current(t).attempt > MaxRetries) /\ bootLock = t
  <2> DEFINE b == FailedAgain(frame[t].boot, err)
             g == [frame[t] EXCEPT !.boot = b]
  <2>1. /\ pc' = [pc EXCEPT ![t] = "queued"] /\ UNCHANGED <<bootLock, result>>
        /\ frame' = [frame EXCEPT ![t] = g]
    BY <1>2 DEF Retry, Level, Counted, TwoFrames
  <2>2. frame[t].boot.attempt <= MaxRetries
    BY <1>0, <1>2 DEF Current, Level, TwoFrames, Frames
  <2>3. b \in Frames
    BY <1>0, <2>2 DEF TwoFrames, Frames, FailedAgain
  <2>4. g \in TwoFrames /\ g.call = frame[t].call
    BY <1>0, <2>3 DEF TwoFrames
  <2>5. FrameInv(g, "queued", TRUE)
    BY <1>0, <2>4 DEF FrameInv, Holding
  <2>6. pc'[t] = "queued" /\ \A u \in Tasks \ {t} : pc'[u] = pc[u]
    BY <2>1 DEF Inv, Shape
  <2>7. FrameInv(g, pc'[t], bootLock' = t)
    BY <1>2, <2>1, <2>5, <2>6 DEF FrameInv
  <2>8. result' \in [Tasks -> Outcomes]
    BY <2>1 DEF Counted
  <2> HIDE DEF g
  <2> QED
    BY <2>1, <2>6, <2>7, <2>8, OneFrame
<1>3. CASE ~(Current(t).attempt > MaxRetries) /\ bootLock # t
  <2> DEFINE g == [frame[t] EXCEPT !.call = [frame[t].call EXCEPT !.last = err]]
  <2>1. /\ pc' = [pc EXCEPT ![t] = "ready"] /\ UNCHANGED <<bootLock, result>>
        /\ frame' = [frame EXCEPT ![t] = g]
    BY <1>3 DEF Retry, Level, Counted, TwoFrames
  <2>2. frame[t].call.attempt <= MaxRetries
    BY <1>0, <1>3 DEF Current, Level, TwoFrames, Frames
  <2>3. g \in TwoFrames /\ g.boot = frame[t].boot /\ g.call.attempt = frame[t].call.attempt
        /\ g.call.last = err
    BY <1>0 DEF TwoFrames, Frames
  <2>4. err # "none"
    BY DEF Errors
  <2>5. FrameInv(g, "ready", FALSE)
    BY <1>0, <1>3, <2>2, <2>3, <2>4 DEF FrameInv, Holding
  <2>6. pc'[t] = "ready" /\ \A u \in Tasks \ {t} : pc'[u] = pc[u]
    BY <2>1 DEF Inv, Shape
  <2>7. FrameInv(g, pc'[t], bootLock' = t)
    BY <1>3, <2>1, <2>5, <2>6 DEF FrameInv
  <2>8. result' \in [Tasks -> Outcomes]
    BY <2>1 DEF Counted
  <2> HIDE DEF g
  <2> QED
    BY <2>1, <2>6, <2>7, <2>8, OneFrame
<1> QED
  BY <1>1, <1>2, <1>3

\* A redirect: one hop more, and the call's attempt does not count.
LEMMA RedirectCounts ==
  ASSUME Inv, Counted, NEW t \in Tasks, Redirected(t), pc[t] = "sent", permits' >= 0
  PROVE  Counted'
<1>0. /\ frame[t] \in TwoFrames /\ FrameInv(frame[t], "sent", bootLock = t)
      /\ MaxRetries \in Nat /\ MaxRedirects \in Nat /\ t # NoTask
  BY ClientConstants DEF Counted
<1>1. CASE Loops(t)
  BY <1>1, EndCounts DEF Redirected, Outcomes, Errors
<1>2. CASE ~Loops(t) /\ bootLock = t
  <2> DEFINE b == [frame[t].boot EXCEPT !.redirects = @ + 1]
             g == [frame[t] EXCEPT !.boot = b]
  <2>1. /\ pc' = [pc EXCEPT ![t] = "queued"] /\ UNCHANGED <<bootLock, result>>
        /\ frame' = [frame EXCEPT ![t] = g]
    BY <1>2 DEF Redirected, Level, Counted, TwoFrames, Frames
  <2>2. frame[t].boot.redirects < MaxRedirects
    BY <1>0, <1>2 DEF Loops, Current, Level, TwoFrames, Frames
  <2>3. b \in Frames
    BY <1>0, <2>2 DEF TwoFrames, Frames
  <2>4. g \in TwoFrames /\ g.call = frame[t].call
    BY <1>0, <2>3 DEF TwoFrames
  <2>5. FrameInv(g, "queued", TRUE)
    BY <1>0, <2>4 DEF FrameInv, Holding
  <2>6. pc'[t] = "queued" /\ \A u \in Tasks \ {t} : pc'[u] = pc[u]
    BY <2>1 DEF Inv, Shape
  <2>7. FrameInv(g, pc'[t], bootLock' = t)
    BY <1>2, <2>1, <2>5, <2>6 DEF FrameInv
  <2>8. result' \in [Tasks -> Outcomes]
    BY <2>1 DEF Counted
  <2> HIDE DEF g
  <2> QED
    BY <2>1, <2>6, <2>7, <2>8, OneFrame
<1>3. CASE ~Loops(t) /\ bootLock # t
  <2> DEFINE c == HopTaken(frame[t].call)
             g == [frame[t] EXCEPT !.call = c]
  <2>1. /\ pc' = [pc EXCEPT ![t] = "hop"] /\ UNCHANGED <<bootLock, result>>
        /\ frame' = [frame EXCEPT ![t] = g]
    BY <1>3 DEF Redirected, Level, Counted, TwoFrames, Frames
  <2>2. frame[t].call.redirects < MaxRedirects
    BY <1>0, <1>3 DEF Loops, Current, Level, TwoFrames, Frames
  <2>3. frame[t].call.attempt > 0 /\ (frame[t].call.attempt > 1 => frame[t].call.last # "none")
    BY <1>0 DEF FrameInv, Holding
  <2>4. /\ c \in Frames /\ c.attempt = frame[t].call.attempt - 1
        /\ c.last = frame[t].call.last /\ c.attempt <= MaxRetries
    BY <1>0, <2>2, <2>3 DEF TwoFrames, Frames, HopTaken
  <2>5. g \in TwoFrames /\ g.call = c /\ g.boot = frame[t].boot
    BY <1>0, <2>4 DEF TwoFrames
  <2>6. c.attempt > 0 => c.last # "none"
    BY <1>0, <2>3, <2>4 DEF TwoFrames, Frames
  <2> HIDE DEF c, g
  <2>7. FrameInv(g, "hop", FALSE)
    BY <1>0, <1>3, <2>4, <2>5, <2>6 DEF FrameInv, Holding
  <2>8. pc'[t] = "hop" /\ \A u \in Tasks \ {t} : pc'[u] = pc[u]
    BY <2>1 DEF Inv, Shape
  <2>9. FrameInv(g, pc'[t], bootLock' = t)
    BY <1>3, <2>1, <2>7, <2>8 DEF FrameInv
  <2>10. result' \in [Tasks -> Outcomes]
    BY <2>1 DEF Counted
  <2> QED
    BY <2>1, <2>8, <2>9, <2>10, OneFrame
<1> QED
  BY <1>1, <1>2, <1>3

\* The bootstrap is over and the call goes on.
LEMMA BootstrapCounts ==
  ASSUME Inv, Counted, NEW t \in Tasks, BootstrapDone(t), pc[t] = "sent", bootLock = t,
         permits' >= 0
  PROVE  Counted'
<1> DEFINE g == [frame[t] EXCEPT !.boot = Fresh]
<1>0. frame[t] \in TwoFrames /\ FrameInv(frame[t], "sent", bootLock = t) /\ t # NoTask
  BY ClientConstants DEF Counted
<1>1. /\ frame' = [frame EXCEPT ![t] = g] /\ bootLock' = NoTask
      /\ pc' = [pc EXCEPT ![t] = "queued"] /\ UNCHANGED result
  BY DEF BootstrapDone, Counted, TwoFrames
<1>2. Fresh \in Frames
  BY ClientConstants DEF Fresh, Frames
<1>3. g \in TwoFrames /\ g.call = frame[t].call /\ g.boot = Fresh
  BY <1>0, <1>2 DEF TwoFrames
<1> HIDE DEF g
<1>4. FrameInv(g, "queued", FALSE)
  BY <1>0, <1>3 DEF FrameInv, Holding
<1>5. /\ pc'[t] = "queued"
      /\ \A u \in Tasks \ {t} : pc'[u] = pc[u] /\ (bootLock' = u <=> bootLock = u)
  BY <1>1, ClientConstants DEF Inv, Shape
<1>6. FrameInv(g, pc'[t], bootLock' = t)
  BY <1>0, <1>1, <1>4, <1>5 DEF FrameInv
<1>7. result' \in [Tasks -> Outcomes]
  BY <1>1 DEF Counted
<1> QED
  BY <1>1, <1>5, <1>6, <1>7, OneFrame

LEMMA CountedStep == Inv /\ Counted /\ [Next]_vars => Counted'
<1> SUFFICES ASSUME Inv, Counted, [Next]_vars PROVE Counted'
  OBVIOUS
<1>0. permits \in Int /\ permits >= 0
  BY DEF Inv, Shape, Counted
<1>1. ASSUME NEW t \in Tasks, StartCall(t) PROVE Counted'
  <2>1. /\ pc'[t] = "ready" /\ pc[t] = "idle" /\ UNCHANGED <<bootLock, permits>>
        /\ \A u \in Tasks \ {t} : pc'[u] = pc[u]
        /\ result' \in [Tasks -> Outcomes]
    BY <1>1 DEF StartCall, Inv, Shape, Counted, Outcomes
  <2>2. frame' = [frame EXCEPT ![t] = frame[t]]
    BY <1>1 DEF StartCall, Counted
  <2>3. FrameInv(frame[t], "idle", bootLock = t)
    BY <2>1 DEF Counted
  <2>4. FrameInv(frame[t], pc'[t], bootLock' = t)
    BY <2>1, <2>3, ClientConstants DEF FrameInv, FreshFrames, Fresh, Holding
  <2> QED
    BY <1>0, <2>1, <2>2, <2>4, OneFrame
<1>2. ASSUME NEW t \in Tasks, NEW s \in Sessions, AcquireSession(t, s) PROVE Counted'
  <2> DEFINE g == [frame[t] EXCEPT !.call = [frame[t].call EXCEPT !.attempt = @ + 1]]
  <2>0. frame[t] \in TwoFrames /\ MaxRetries \in Nat
    BY ClientConstants DEF Counted
  <2>1. /\ pc'[t] \in Holding /\ pc[t] \in {"ready", "hop"}
        /\ UNCHANGED <<bootLock, permits, result>>
        /\ \A u \in Tasks \ {t} : pc'[u] = pc[u]
    BY <1>2 DEF AcquireSession, AtLoopTop, BeforeSending, Inv, Shape, Holding
  <2>2. frame' = [frame EXCEPT ![t] = g]
    BY <1>2, <2>0 DEF AcquireSession, Counted, TwoFrames, Frames
  <2>3. FrameInv(frame[t], pc[t], bootLock = t)
    BY DEF Counted
  <2>4. frame[t].call.attempt <= MaxRetries
        /\ (frame[t].call.attempt > 0 => frame[t].call.last # "none")
    BY <2>1, <2>3 DEF FrameInv
  <2>5. /\ g \in TwoFrames /\ g.boot = frame[t].boot
        /\ g.call.attempt = frame[t].call.attempt + 1 /\ g.call.last = frame[t].call.last
    BY <2>0, <2>4 DEF TwoFrames, Frames
  <2>6. frame[t].call.attempt \in Nat
    BY <2>0 DEF TwoFrames, Frames
  <2> HIDE DEF g
  <2>7. FrameInv(g, pc'[t], bootLock' = t)
    BY <2>1, <2>3, <2>4, <2>5, <2>6 DEF FrameInv, Holding
  <2>8. result' \in [Tasks -> Outcomes] /\ permits' >= 0
    BY <1>0, <2>1 DEF Counted
  <2> QED
    BY <2>1, <2>2, <2>7, <2>8, OneFrame
<1>3. ASSUME NEW t \in Tasks, NoHealthySession(t) PROVE Counted'
  <2>1. frame[t].call.last \in Errors \cup {"none"}
    BY DEF Counted, TwoFrames, Frames
  <2>2. PICK how \in Outcomes : End(t, how)
    BY <1>3, <2>1 DEF NoHealthySession, Outcomes
  <2>3. permits' >= 0
    BY <1>0, <1>3 DEF NoHealthySession
  <2> QED
    BY <2>2, <2>3, EndCounts
<1>4. ASSUME NEW t \in Tasks, EnterBootstrap(t) PROVE Counted'
  <2>0. /\ frame[t] \in TwoFrames /\ FrameInv(frame[t], "booting", FALSE) /\ t # NoTask
        /\ bootLock = NoTask /\ MaxRetries \in Nat
    BY <1>4, ClientConstants DEF EnterBootstrap, Counted, FrameInv
  <2>1. /\ pc'[t] = "queued" /\ UNCHANGED <<permits, result>>
        /\ \A u \in Tasks \ {t} : pc'[u] = pc[u]
    BY <1>4 DEF EnterBootstrap, Inv, Shape
  <2>2. result' \in [Tasks -> Outcomes] /\ permits' >= 0
    BY <1>0, <2>1 DEF Counted
  <2>3. CASE hasCsrf[active[t]]
    <3>1. UNCHANGED bootLock /\ frame' = [frame EXCEPT ![t] = frame[t]]
      BY <1>4, <2>3 DEF EnterBootstrap, Counted
    <3>2. FrameInv(frame[t], pc'[t], bootLock' = t)
      BY <2>0, <2>1, <3>1 DEF FrameInv, Holding
    <3> QED
      BY <2>1, <2>2, <3>1, <3>2, OneFrame
  <2>4. CASE ~hasCsrf[active[t]]
    <3> DEFINE g == [frame[t] EXCEPT !.boot = [frame[t].boot EXCEPT !.attempt = 1]]
    <3>1. bootLock' = t /\ frame' = [frame EXCEPT ![t] = g]
      BY <1>4, <2>0, <2>4 DEF EnterBootstrap, Counted, TwoFrames, Frames
    <3>2. g \in TwoFrames /\ g.call = frame[t].call
      BY <2>0 DEF TwoFrames, Frames
    <3> HIDE DEF g
    <3>3. FrameInv(g, pc'[t], bootLock' = t)
      BY <2>0, <2>1, <3>1, <3>2 DEF FrameInv, Holding
    <3>4. \A u \in Tasks \ {t} : pc'[u] = pc[u] /\ (bootLock' = u <=> bootLock = u)
      BY <2>0, <2>1, <3>1, ClientConstants
    <3> QED
      BY <2>2, <3>1, <3>3, <3>4, OneFrame
  <2> QED
    BY <2>3, <2>4
<1>5. ASSUME NEW t \in Tasks, TakePermit(t) \/ Send(t) PROVE Counted'
  <2>1. /\ pc'[t] \in {"pacing", "sent"} /\ pc[t] \in {"queued", "pacing"}
        /\ UNCHANGED <<bootLock, result>>
        /\ \A u \in Tasks \ {t} : pc'[u] = pc[u]
        /\ frame' = [frame EXCEPT ![t] = frame[t]]
    BY <1>5 DEF TakePermit, Send, Inv, Shape, Counted
  <2>2. permits' >= 0 /\ result' \in [Tasks -> Outcomes]
    BY <1>0, <1>5 DEF TakePermit, Send, Counted
  <2>3. FrameInv(frame[t], pc[t], bootLock = t)
    BY DEF Counted
  <2>4. FrameInv(frame[t], pc'[t], bootLock' = t)
    BY <2>1, <2>3 DEF FrameInv, Holding
  <2> QED
    BY <2>1, <2>2, <2>4, OneFrame
<1>6. ASSUME NEW t \in Tasks, Answered(t) \/ NotAnswered(t) PROVE Counted'
  <2>1. pc[t] = "sent" /\ permits' >= 0
    BY <1>0, <1>6 DEF Answered, NotAnswered, Land
  <2>2. CASE Loaded(t)
    <3>1. CASE \E how \in {"ok", "auth"} : End(t, how)
      BY <2>1, <3>1, EndCounts DEF Outcomes
    <3>2. CASE BootstrapDone(t) /\ bootLock = t
      BY <2>1, <3>2, BootstrapCounts
    <3> QED
      BY <2>2, <3>1, <3>2 DEF Loaded, Level
  <2>3. CASE Rejected(t) \/ Refused(t)
    BY <2>1, <2>3, EndCounts DEF Rejected, Refused, Outcomes
  <2>4. CASE Redirected(t)
    BY <2>1, <2>4, RedirectCounts
  <2>5. CASE BadQueryId(t) \/ Garbled(t) \/ Throttled(t) \/ Failed(t)
    <3>1. \E err \in Errors : Retry(t, err)
      BY <2>5 DEF BadQueryId, Garbled, Throttled, Failed, Errors
    <3> QED
      BY <2>1, <3>1, RetryCounts
  <2> QED
    BY <1>6, <2>2, <2>3, <2>4, <2>5 DEF Answered, NotAnswered
<1>7. CASE HealthProbe \/ Tick \/ UNCHANGED vars
  BY <1>7 DEF HealthProbe, Tick, vars, callVars, Counted
<1> QED
  BY <1>1, <1>2, <1>3, <1>4, <1>5, <1>6, <1>7 DEF Next, Step

LEMMA CountedInvariant == Spec => [](Inv /\ Counted)
<1>1. Init => Counted
  <2> SUFFICES ASSUME Init PROVE Counted
    OBVIOUS
  <2>1. \A t \in Tasks : frame[t] = FreshFrames /\ pc[t] = "idle"
    BY DEF Init
  <2>2. \A t \in Tasks : FrameInv(frame[t], pc[t], bootLock = t)
    BY <2>1, FreshIsFine
  <2>3. FreshFrames \in TwoFrames
    BY FreshIsFine DEF FrameInv
  <2> QED
    BY <2>2, <2>3, ClientConstants DEF Init, Counted, Outcomes
<1> QED
  BY <1>1, CountedStep, InvInit, InvStep, PTL DEF Spec

\* At the top of the loop every attempt spent has left an error, and neither
\* attempts nor redirects go past their limits, for any limits.
THEOREM AttemptsAreCounted == Spec => []AttemptsAccountedFor
<1>1. Inv /\ Counted => AttemptsAccountedFor
  <2> SUFFICES ASSUME Inv, Counted, NEW t \in Tasks, NEW f \in {frame[t].call, frame[t].boot}
               PROVE  /\ AtLoopTop(t) => f.attempt <= MaxRetries
                      /\ AtLoopTop(t) /\ f.attempt > 0 => f.last # "none"
                      /\ f.attempt <= MaxRetries + 1
                      /\ f.redirects <= MaxRedirects
    BY DEF AttemptsAccountedFor
  <2>1. FrameInv(frame[t], pc[t], bootLock = t) /\ MaxRetries \in Nat /\ MaxRedirects \in Nat
    BY ClientConstants DEF Counted
  <2>2. f \in Frames
    BY <2>1 DEF FrameInv, TwoFrames
  <2>3. AtLoopTop(t) => bootLock # t
    BY ClientConstants DEF Inv, LockDiscipline, AtLoopTop, OnTheWay
  <2>4. f.attempt <= MaxRetries + 1 /\ f.redirects <= MaxRedirects
    BY <2>1, <2>2 DEF Frames
  <2>5. CASE f = frame[t].call
    BY <2>1, <2>4, <2>5 DEF FrameInv, AtLoopTop
  <2>6. CASE f = frame[t].boot
    BY <2>1, <2>3, <2>4, <2>6 DEF FrameInv, Fresh
  <2> QED
    BY <2>5, <2>6
<1> QED
  BY <1>1, CountedInvariant, PTL

\* Every variable keeps its type: no permit more than there are, no attempt past
\* the last.
THEOREM TypeCorrect == Spec => []TypeOK
<1>1. Inv /\ Counted => TypeOK
  <2> SUFFICES ASSUME Inv, Counted PROVE TypeOK
    OBVIOUS
  <2>1. Cardinality(Busy) \in Nat
    BY ClientConstants, FS_Subset, FS_CardinalityType DEF Busy
  <2>2. permits + Cardinality(Busy) = MaxConcurrent
    BY InvParts DEF Balanced
  <2>3. permits \in 0..MaxConcurrent
    BY <2>1, <2>2, ClientConstants DEF Inv, Shape, Counted
  <2> QED
    BY <2>3 DEF TypeOK, Inv, Shape, Counted, TwoFrames, Outcomes
<1> QED
  BY <1>1, CountedInvariant, PTL

-----------------------------------------------------------------------------
(* A call takes boundedly many steps.                                      *)

\* The turns of the retry loop a frame has left: a redirect gives its attempt
\* back, so that it counts for two.
Turns(f) == 2 * (MaxRedirects - f.redirects) + (MaxRetries + 1 - f.attempt)
AllTurns == 2 * MaxRedirects + MaxRetries + 1

\* What is left within a turn, of a bootstrap and of a whole call: a bootstrap
\* takes turns of its own, within one turn of the call.
ToTheAnswer == [queued |-> 3, pacing |-> 2, sent |-> 1]
TurnSteps == 4 * AllTurns + 7
WithinTurn(f, where, bootstraps) ==
    IF where \in {"ready", "hop"} THEN 0
    ELSE IF where = "booting" THEN 4 * AllTurns + 4
    ELSE ToTheAnswer[where] + (IF bootstraps THEN 4 * Turns(f.boot) + 3 ELSE 0)

Left(f, where, bootstraps) ==
    IF where = "idle" THEN 0
    ELSE 1 + TurnSteps * Turns(f.call) + WithinTurn(f, where, bootstraps)

StepsLeft(t) == Left(frame[t], pc[t], bootLock = t)
MostSteps == TurnSteps * (AllTurns + 1)

\* Whatever LinkedIn answers, each step of a call brings it nearer to its end,
\* and no step of another call puts it back.
Nearer ==
    [][\A t \in Tasks :
          IF Step(t) THEN StepsLeft(t)' < StepsLeft(t)
                     ELSE pc[t] # "idle" => StepsLeft(t)' = StepsLeft(t)]_vars

\* A turn outweighs all that can happen within one.
LEMMA TurnOutweighs ==
  ASSUME NEW W \in Nat, NEW a \in Nat, NEW b \in Nat, a < b, NEW x \in 0..(W - 1), NEW y \in Nat
  PROVE  W * a + x < W * b + y
<1> DEFINE d == b - a
<1>1. d \in Nat /\ d >= 1 /\ b = a + d
  OBVIOUS
<1> HIDE DEF d
<1>2. W * b = W * a + W * d /\ W * d >= W /\ W * a \in Nat /\ W * d \in Nat
  BY <1>1
<1> QED
  BY <1>1, <1>2

LEMMA TurnsLeft ==
  ASSUME NEW f \in Frames
  PROVE  Turns(f) \in 0..AllTurns /\ AllTurns \in Nat /\ TurnSteps \in Nat
<1>1. /\ f.redirects \in 0..MaxRedirects /\ f.attempt \in 0..(MaxRetries + 1)
      /\ MaxRedirects \in Nat /\ MaxRetries \in Nat
  BY ClientConstants DEF Frames
<1> QED
  BY <1>1 DEF Turns, AllTurns, TurnSteps

LEMMA WithinIsLess ==
  ASSUME NEW f \in TwoFrames, NEW where \in Holding \cup {"ready", "hop"}, NEW bootstraps
  PROVE  WithinTurn(f, where, bootstraps) \in 0..(TurnSteps - 1)
<1>1. Turns(f.boot) \in 0..AllTurns /\ AllTurns \in Nat
  BY TurnsLeft DEF TwoFrames
<1>2. where \in {"queued", "pacing", "sent"} => ToTheAnswer[where] \in 1..3
  BY DEF ToTheAnswer
<1>3. where \in {"queued", "pacing", "sent", "booting", "ready", "hop"}
  BY DEF Holding
<1> QED
  BY <1>1, <1>2, <1>3 DEF WithinTurn, TurnSteps

\* The measure is a number, nought only when the call is over.
LEMMA LeftBounded ==
  ASSUME NEW f \in TwoFrames, NEW where \in Holding \cup {"idle", "ready", "hop"}, NEW bootstraps
  PROVE  /\ Left(f, where, bootstraps) \in 0..MostSteps
         /\ where # "idle" => Left(f, where, bootstraps) > 0
<1>1. /\ Turns(f.call) \in Nat /\ Turns(f.call) <= AllTurns
      /\ AllTurns \in Nat /\ TurnSteps \in Nat
  BY TurnsLeft DEF TwoFrames
<1>2. CASE where = "idle"
  <2>1. TurnSteps * (AllTurns + 1) \in Nat
    BY <1>1
  <2> QED
    BY <1>2, <2>1 DEF Left, MostSteps
<1>3. CASE where # "idle"
  <2> DEFINE x == WithinTurn(f, where, bootstraps)
  <2>1. x \in 0..(TurnSteps - 1)
    BY <1>3, WithinIsLess
  <2>2. Left(f, where, bootstraps) = 1 + TurnSteps * Turns(f.call) + x
    BY <1>3 DEF Left
  <2> HIDE DEF x
  <2>3. AllTurns + 1 \in Nat /\ Turns(f.call) < AllTurns + 1 /\ 0 \in Nat
    BY <1>1
  <2>4. TurnSteps * Turns(f.call) + x < TurnSteps * (AllTurns + 1) + 0
    BY <1>1, <2>1, <2>3, TurnOutweighs
  <2>5. TurnSteps * Turns(f.call) \in Nat /\ TurnSteps * (AllTurns + 1) \in Nat
    BY <1>1
  <2> QED
    BY <2>1, <2>2, <2>4, <2>5 DEF MostSteps
<1> QED
  BY <1>2, <1>3

\* Two ways to come nearer: a turn less, or less within the same turn.
LEMMA FewerTurns ==
  ASSUME NEW f \in TwoFrames, NEW g \in TwoFrames, Turns(g.call) < Turns(f.call),
         NEW p \in Holding \cup {"ready", "hop"}, NEW q \in Holding \cup {"ready", "hop"},
         NEW a, NEW b
  PROVE  Left(g, q, b) < Left(f, p, a)
<1> DEFINE x == WithinTurn(g, q, b)
           y == WithinTurn(f, p, a)
<1>1. /\ Turns(g.call) \in Nat /\ Turns(f.call) \in Nat /\ TurnSteps \in Nat
  BY TurnsLeft DEF TwoFrames
<1>2. x \in 0..(TurnSteps - 1) /\ y \in 0..(TurnSteps - 1)
  BY WithinIsLess
<1>3. /\ Left(g, q, b) = 1 + TurnSteps * Turns(g.call) + x
      /\ Left(f, p, a) = 1 + TurnSteps * Turns(f.call) + y
  BY DEF Left, Holding
<1> HIDE DEF x, y
<1>4. y \in Nat
  BY <1>1, <1>2
<1>5. TurnSteps * Turns(g.call) + x < TurnSteps * Turns(f.call) + y
  BY <1>1, <1>2, <1>4, TurnOutweighs
<1>6. TurnSteps * Turns(g.call) \in Nat /\ TurnSteps * Turns(f.call) \in Nat
  BY <1>1
<1> QED
  BY <1>2, <1>3, <1>5, <1>6

LEMMA LessOfTheTurn ==
  ASSUME NEW f \in TwoFrames, NEW g \in TwoFrames, Turns(g.call) = Turns(f.call),
         NEW p \in Holding \cup {"ready", "hop"}, NEW q \in Holding \cup {"ready", "hop"},
         NEW a, NEW b, WithinTurn(g, q, b) < WithinTurn(f, p, a)
  PROVE  Left(g, q, b) < Left(f, p, a)
<1> DEFINE x == WithinTurn(g, q, b)
           y == WithinTurn(f, p, a)
           w == TurnSteps * Turns(f.call)
<1>1. Turns(f.call) \in Nat /\ TurnSteps \in Nat
  BY TurnsLeft DEF TwoFrames
<1>2. x \in 0..(TurnSteps - 1) /\ y \in 0..(TurnSteps - 1)
  BY WithinIsLess
<1>3. Left(g, q, b) = 1 + w + x /\ Left(f, p, a) = 1 + w + y /\ x < y
  BY DEF Left, Holding
<1>4. w \in Int
  BY <1>1
<1> HIDE DEF x, y, w
<1> QED
  BY <1>1, <1>2, <1>3, <1>4

\* Within a turn, in the order in which things happen: the wait for the lock,
\* the bootstrap, each of whose answers costs it a turn, the call's own request.
LEMMA BootstrapBegins ==
  ASSUME NEW f \in TwoFrames, NEW g \in TwoFrames, f.boot = Fresh, NEW b \in BOOLEAN,
         g.boot = IF b THEN [Fresh EXCEPT !.attempt = 1] ELSE Fresh
  PROVE  WithinTurn(g, "queued", b) < WithinTurn(f, "booting", FALSE)
<1>1. b => g.boot.attempt = 1 /\ g.boot.redirects = 0
  BY DEF Fresh
<1>2. MaxRedirects \in Nat /\ MaxRetries \in Nat
  BY ClientConstants
<1>3. b => Turns(g.boot) = AllTurns - 1
  BY <1>1, <1>2 DEF Turns, AllTurns
<1>4. AllTurns \in Nat
  BY <1>2 DEF AllTurns
<1> QED
  BY <1>3, <1>4 DEF WithinTurn, ToTheAnswer

LEMMA BootstrapGoesOn ==
  ASSUME NEW f \in TwoFrames, NEW g \in TwoFrames, Turns(g.boot) < Turns(f.boot)
  PROVE  WithinTurn(g, "queued", TRUE) < WithinTurn(f, "sent", TRUE)
<1>1. Turns(f.boot) \in Nat /\ Turns(g.boot) \in Nat /\ AllTurns \in Nat
  BY TurnsLeft DEF TwoFrames
<1> QED
  BY <1>1 DEF WithinTurn, ToTheAnswer

LEMMA BootstrapEnds ==
  ASSUME NEW f \in TwoFrames, NEW g \in TwoFrames
  PROVE  WithinTurn(g, "queued", FALSE) < WithinTurn(f, "sent", TRUE)
<1>1. Turns(f.boot) \in 0..AllTurns /\ AllTurns \in Nat
  BY TurnsLeft DEF TwoFrames
<1> QED
  BY <1>1 DEF WithinTurn, ToTheAnswer

LEMMA RequestMovesOn ==
  ASSUME NEW f \in TwoFrames, NEW b
  PROVE  /\ WithinTurn(f, "pacing", b) < WithinTurn(f, "queued", b)
         /\ WithinTurn(f, "sent", b) < WithinTurn(f, "pacing", b)
         /\ \A where \in {"ready", "hop"} :
              WithinTurn(f, where, FALSE) < WithinTurn(f, "sent", b)
<1>1. Turns(f.boot) \in 0..AllTurns /\ AllTurns \in Nat
  BY TurnsLeft DEF TwoFrames
<1> QED
  BY <1>1 DEF WithinTurn, ToTheAnswer

\* An answer ends the call, costs its bootstrap a turn or ends it, or sends the
\* call back to the top of its loop.
LEMMA EndIsNearer ==
  ASSUME Inv, Counted, NEW t \in Tasks, NEW how, End(t, how), pc[t] # "idle"
  PROVE  StepsLeft(t)' < StepsLeft(t)
<1>1. pc'[t] = "idle" /\ pc[t] \in Holding \cup {"idle", "ready", "hop"} /\ frame[t] \in TwoFrames
  BY DEF End, Inv, Shape, Counted
<1>2. StepsLeft(t) > 0
  BY <1>1, LeftBounded DEF StepsLeft
<1>3. StepsLeft(t)' = 0
  BY <1>1 DEF StepsLeft, Left
<1> QED
  BY <1>2, <1>3

LEMMA RetryIsNearer ==
  ASSUME Inv, Counted, NEW t \in Tasks, NEW err \in Errors, Retry(t, err), pc[t] = "sent", Counted'
  PROVE  StepsLeft(t)' < StepsLeft(t)
<1>0. /\ frame[t] \in TwoFrames /\ frame'[t] \in TwoFrames
      /\ FrameInv(frame[t], "sent", bootLock = t) /\ MaxRetries \in Nat
  BY ClientConstants DEF Counted
<1>1. CASE Current(t).attempt > MaxRetries
  BY <1>1, EndIsNearer DEF Retry
<1>2. CASE ~(Current(t).attempt > MaxRetries) /\ bootLock = t
  <2> DEFINE b == FailedAgain(frame[t].boot, err)
             g == [frame[t] EXCEPT !.boot = b]
  <2>1. pc'[t] = "queued" /\ bootLock' = t /\ frame'[t] = g
    BY <1>2 DEF Retry, Level, Counted, TwoFrames, Inv, Shape
  <2>2. g.call = frame[t].call /\ g.boot = b
    BY <1>0 DEF TwoFrames
  <2>3. frame[t].boot \in Frames /\ b \in Frames
    BY <1>0, <2>1, <2>2 DEF TwoFrames
  <2>4. b.attempt = frame[t].boot.attempt + 1 /\ b.redirects = frame[t].boot.redirects
    BY DEF FailedAgain
  <2> HIDE DEF b, g
  <2>5. Turns(b) < Turns(frame[t].boot)
    <3>1. frame[t].boot.attempt \in Nat /\ frame[t].boot.redirects \in Nat
      BY <2>3 DEF Frames
    <3> QED
      BY <2>4, <3>1, ClientConstants DEF Turns
  <2>6. WithinTurn(g, "queued", TRUE) < WithinTurn(frame[t], "sent", TRUE)
    BY <1>0, <2>1, <2>2, <2>5, BootstrapGoesOn
  <2>7. Left(g, "queued", TRUE) < Left(frame[t], "sent", TRUE)
    BY <1>0, <2>1, <2>2, <2>6, LessOfTheTurn DEF Holding
  <2>8. (bootLock = t) = TRUE /\ (bootLock' = t) = TRUE
    BY <1>2, <2>1
  <2> QED
    BY <2>1, <2>7, <2>8 DEF StepsLeft
<1>3. CASE ~(Current(t).attempt > MaxRetries) /\ bootLock # t
  <2> DEFINE c == [frame[t].call EXCEPT !.last = err]
             g == [frame[t] EXCEPT !.call = c]
  <2>1. pc'[t] = "ready" /\ bootLock' # t /\ frame'[t] = g
    BY <1>3 DEF Retry, Level, Counted, TwoFrames, Inv, Shape
  <2>2. g.call = c /\ g.boot = frame[t].boot
    BY <1>0 DEF TwoFrames
  <2>3. c.attempt = frame[t].call.attempt /\ c.redirects = frame[t].call.redirects
    BY <1>0 DEF TwoFrames, Frames
  <2> HIDE DEF c, g
  <2>4. Turns(g.call) = Turns(frame[t].call)
    BY <2>2, <2>3 DEF Turns
  <2>5. WithinTurn(g, "ready", FALSE) < WithinTurn(frame[t], "sent", FALSE)
    <3>1. WithinTurn(frame[t], "ready", FALSE) < WithinTurn(frame[t], "sent", FALSE)
      BY <1>0, RequestMovesOn
    <3> QED
      BY <3>1 DEF WithinTurn
  <2>6. Left(g, "ready", FALSE) < Left(frame[t], "sent", FALSE)
    BY <1>0, <2>1, <2>4, <2>5, LessOfTheTurn DEF Holding
  <2>7. (bootLock = t) = FALSE /\ (bootLock' = t) = FALSE
    BY <1>3, <2>1
  <2> QED
    BY <2>1, <2>6, <2>7 DEF StepsLeft
<1> QED
  BY <1>1, <1>2, <1>3

\* A redirect of the call gives its attempt back and is still one turn less.
LEMMA RedirectIsNearer ==
  ASSUME Inv, Counted, NEW t \in Tasks, Redirected(t), pc[t] = "sent", Counted'
  PROVE  StepsLeft(t)' < StepsLeft(t)
<1>0. /\ frame[t] \in TwoFrames /\ frame'[t] \in TwoFrames
      /\ MaxRedirects \in Nat /\ MaxRetries \in Nat
  BY ClientConstants DEF Counted
<1>1. CASE Loops(t)
  BY <1>1, EndIsNearer DEF Redirected
<1>2. CASE ~Loops(t) /\ bootLock = t
  <2> DEFINE b == [frame[t].boot EXCEPT !.redirects = @ + 1]
             g == [frame[t] EXCEPT !.boot = b]
  <2>1. pc'[t] = "queued" /\ bootLock' = t /\ frame'[t] = g
    BY <1>2 DEF Redirected, Level, Counted, TwoFrames, Frames, Inv, Shape
  <2>2. g.call = frame[t].call /\ g.boot = b
    BY <1>0 DEF TwoFrames
  <2>3. frame[t].boot \in Frames /\ b.redirects = frame[t].boot.redirects + 1
        /\ b.attempt = frame[t].boot.attempt
    BY <1>0 DEF TwoFrames, Frames
  <2> HIDE DEF b, g
  <2>4. Turns(b) < Turns(frame[t].boot)
    <3>1. frame[t].boot.attempt \in Nat /\ frame[t].boot.redirects \in Nat
      BY <2>3 DEF Frames
    <3> QED
      BY <1>0, <2>3, <3>1 DEF Turns
  <2>5. WithinTurn(g, "queued", TRUE) < WithinTurn(frame[t], "sent", TRUE)
    BY <1>0, <2>1, <2>2, <2>4, BootstrapGoesOn
  <2>6. Left(g, "queued", TRUE) < Left(frame[t], "sent", TRUE)
    BY <1>0, <2>1, <2>2, <2>5, LessOfTheTurn DEF Holding
  <2>7. (bootLock = t) = TRUE /\ (bootLock' = t) = TRUE
    BY <1>2, <2>1
  <2> QED
    BY <2>1, <2>6, <2>7 DEF StepsLeft
<1>3. CASE ~Loops(t) /\ bootLock # t
  <2> DEFINE c == HopTaken(frame[t].call)
             g == [frame[t] EXCEPT !.call = c]
  <2>1. pc'[t] = "hop" /\ bootLock' # t /\ frame'[t] = g
    BY <1>3 DEF Redirected, Level, Counted, TwoFrames, Frames, Inv, Shape
  <2>2. g.call = c
    BY <1>0 DEF TwoFrames
  <2>3. /\ frame[t].call \in Frames /\ c.redirects = frame[t].call.redirects + 1
        /\ c.attempt = frame[t].call.attempt - 1
    BY <1>0 DEF TwoFrames, HopTaken
  <2> HIDE DEF c, g
  <2>4. Turns(g.call) < Turns(frame[t].call)
    <3>1. frame[t].call.attempt \in Nat /\ frame[t].call.redirects \in Nat
      BY <2>3 DEF Frames
    <3> QED
      BY <1>0, <2>2, <2>3, <3>1 DEF Turns
  <2>5. Left(g, "hop", FALSE) < Left(frame[t], "sent", FALSE)
    BY <1>0, <2>1, <2>4, FewerTurns DEF Holding
  <2>6. (bootLock = t) = FALSE /\ (bootLock' = t) = FALSE
    BY <1>3, <2>1
  <2> QED
    BY <2>1, <2>5, <2>6 DEF StepsLeft
<1> QED
  BY <1>1, <1>2, <1>3

LEMMA BootstrapDoneIsNearer ==
  ASSUME Inv, Counted, NEW t \in Tasks, BootstrapDone(t), pc[t] = "sent", bootLock = t, Counted'
  PROVE  StepsLeft(t)' < StepsLeft(t)
<1> DEFINE g == [frame[t] EXCEPT !.boot = Fresh]
<1>1. frame[t] \in TwoFrames /\ frame'[t] \in TwoFrames /\ t # NoTask
  BY ClientConstants DEF Counted
<1>2. pc'[t] = "queued" /\ bootLock' = NoTask /\ frame'[t] = g
  BY DEF BootstrapDone, Counted, TwoFrames, Inv, Shape
<1>3. g.call = frame[t].call
  BY <1>1 DEF TwoFrames
<1> HIDE DEF g
<1>4. WithinTurn(g, "queued", FALSE) < WithinTurn(frame[t], "sent", TRUE)
  BY <1>1, <1>2, BootstrapEnds
<1>5. Left(g, "queued", FALSE) < Left(frame[t], "sent", TRUE)
  BY <1>1, <1>2, <1>3, <1>4, LessOfTheTurn DEF Holding
<1>6. (bootLock = t) = TRUE /\ (bootLock' = t) = FALSE
  BY <1>1, <1>2
<1> QED
  BY <1>2, <1>5, <1>6 DEF StepsLeft

\* A step of a call brings it nearer to its end.
LEMMA StepIsNearer ==
  ASSUME Inv, Counted, NEW t \in Tasks, Step(t), Counted'
  PROVE  StepsLeft(t)' < StepsLeft(t)
<1>0. /\ frame[t] \in TwoFrames /\ frame'[t] \in TwoFrames /\ t # NoTask
      /\ FrameInv(frame[t], pc[t], bootLock = t) /\ FrameInv(frame'[t], pc'[t], bootLock' = t)
      /\ MaxRetries \in Nat /\ MaxRedirects \in Nat
  BY ClientConstants DEF Counted
<1>1. ASSUME NEW s \in Sessions, AcquireSession(t, s) PROVE StepsLeft(t)' < StepsLeft(t)
  <2>1. pc[t] \in {"ready", "hop"} /\ pc'[t] \in Holding
    BY <1>1 DEF AcquireSession, AtLoopTop, BeforeSending, Inv, Shape, Holding
  <2>2. /\ frame'[t].call.attempt = frame[t].call.attempt + 1
        /\ frame'[t].call.redirects = frame[t].call.redirects
    BY <1>0, <1>1 DEF AcquireSession, Counted, TwoFrames, Frames
  <2>3. frame[t].call.attempt \in Nat /\ frame[t].call.redirects \in Nat
    BY <1>0 DEF TwoFrames, Frames
  <2>4. Turns(frame'[t].call) < Turns(frame[t].call)
    BY <1>0, <2>2, <2>3 DEF Turns
  <2>5. Left(frame'[t], pc'[t], bootLock' = t) < Left(frame[t], pc[t], bootLock = t)
    BY <1>0, <2>1, <2>4, FewerTurns
  <2> QED
    BY <2>5 DEF StepsLeft
<1>2. CASE NoHealthySession(t)
  <2>1. \E how : End(t, how)
    BY <1>2 DEF NoHealthySession
  <2> QED
    BY <1>2, <2>1, EndIsNearer DEF NoHealthySession, AtLoopTop
<1>3. CASE EnterBootstrap(t)
  <2> DEFINE b == bootLock' = t
  <2>1. pc[t] = "booting" /\ pc'[t] = "queued" /\ (bootLock = t) = FALSE /\ b \in BOOLEAN
    BY <1>0, <1>3 DEF EnterBootstrap, Inv, Shape
  <2>2. /\ frame'[t].call = frame[t].call /\ frame[t].boot = Fresh
        /\ frame'[t].boot = IF b THEN [Fresh EXCEPT !.attempt = 1] ELSE Fresh
    <3>1. frame[t].boot = Fresh
      BY <1>0, <2>1 DEF FrameInv
    <3>2. CASE hasCsrf[active[t]]
      BY <1>0, <1>3, <2>1, <3>1, <3>2 DEF EnterBootstrap
    <3>3. CASE ~hasCsrf[active[t]]
      BY <1>0, <1>3, <3>1, <3>3 DEF EnterBootstrap, Counted, TwoFrames
    <3> QED
      BY <3>1, <3>2, <3>3
  <2>3. WithinTurn(frame'[t], "queued", b) < WithinTurn(frame[t], "booting", FALSE)
    BY <1>0, <2>1, <2>2, BootstrapBegins
  <2>4. Left(frame'[t], "queued", b) < Left(frame[t], "booting", FALSE)
    BY <1>0, <2>2, <2>3, LessOfTheTurn DEF Holding
  <2> QED
    BY <2>1, <2>4 DEF StepsLeft
<1>4. CASE TakePermit(t) \/ Send(t)
  <2>1. /\ \/ pc[t] = "queued" /\ pc'[t] = "pacing"
           \/ pc[t] = "pacing" /\ pc'[t] = "sent"
        /\ frame' = frame /\ bootLock' = bootLock
    BY <1>4 DEF TakePermit, Send, Inv, Shape
  <2>2. WithinTurn(frame[t], pc'[t], bootLock = t) < WithinTurn(frame[t], pc[t], bootLock = t)
    BY <1>0, <2>1, RequestMovesOn
  <2>3. Left(frame[t], pc'[t], bootLock = t) < Left(frame[t], pc[t], bootLock = t)
    BY <1>0, <2>1, <2>2, LessOfTheTurn DEF Holding
  <2> QED
    BY <2>1, <2>3 DEF StepsLeft
<1>5. CASE Answered(t) \/ NotAnswered(t)
  <2>1. pc[t] = "sent"
    BY <1>5 DEF Answered, NotAnswered, Land
  <2>2. CASE Loaded(t)
    BY <2>1, <2>2, EndIsNearer, BootstrapDoneIsNearer DEF Loaded, Level
  <2>3. CASE Rejected(t) \/ Refused(t)
    BY <2>1, <2>3, EndIsNearer DEF Rejected, Refused
  <2>4. CASE Redirected(t)
    BY <2>1, <2>4, RedirectIsNearer
  <2>5. CASE BadQueryId(t) \/ Garbled(t) \/ Throttled(t) \/ Failed(t)
    <3>1. \E err \in Errors : Retry(t, err)
      BY <2>5 DEF BadQueryId, Garbled, Throttled, Failed, Errors
    <3> QED
      BY <2>1, <3>1, RetryIsNearer
  <2> QED
    BY <1>5, <2>2, <2>3, <2>4, <2>5 DEF Answered, NotAnswered
<1> QED
  BY <1>1, <1>2, <1>3, <1>4, <1>5 DEF Step

\* No step of another call, and none of the pool, touches it.
Untouched(t) ==
    frame'[t] = frame[t] /\ pc'[t] = pc[t] /\ (bootLock' = t <=> bootLock = t)

LEMMA OthersStandStill ==
  ASSUME Inv, Counted, [Next]_vars, NEW t \in Tasks, ~Step(t), pc[t] # "idle"
  PROVE  StepsLeft(t)' = StepsLeft(t)
<1>0. t # NoTask /\ frame \in [Tasks -> TwoFrames] /\ Shape
  BY ClientConstants DEF Counted, Inv
<1>1. ASSUME NEW u \in Tasks, u # t, Step(u) PROVE Untouched(t)
  <2>1. ASSUME NEW how, End(u, how) PROVE Untouched(t)
    BY <1>0, <1>1, <2>1 DEF End, Shape, Untouched
  <2>2. ASSUME NEW err, Retry(u, err) PROVE Untouched(t)
    <3>1. CASE End(u, err)
      BY <2>1, <3>1
    <3>2. CASE ~End(u, err)
      BY <1>0, <1>1, <2>2, <3>2 DEF Retry, Shape, Untouched
    <3> QED
      BY <3>1, <3>2
  <2>3. ASSUME NEW s \in Sessions, AcquireSession(u, s) PROVE Untouched(t)
    BY <1>0, <1>1, <2>3 DEF AcquireSession, Shape, Untouched
  <2>4. CASE EnterBootstrap(u)
    BY <1>0, <1>1, <2>4 DEF EnterBootstrap, Shape, Untouched
  <2>5. CASE TakePermit(u) \/ Send(u)
    BY <1>0, <1>1, <2>5 DEF TakePermit, Send, Shape, Untouched
  <2>6. CASE Redirected(u)
    <3>1. CASE Loops(u)
      BY <2>1, <2>6, <3>1 DEF Redirected
    <3>2. CASE ~Loops(u)
      BY <1>0, <1>1, <2>6, <3>2 DEF Redirected, Shape, Untouched
    <3> QED
      BY <3>1, <3>2
  <2>7. CASE Loaded(u)
    <3>1. ASSUME bootLock = u, BootstrapDone(u) PROVE Untouched(t)
      BY <1>0, <1>1, <3>1 DEF BootstrapDone, Shape, Untouched
    <3> QED
      BY <2>1, <2>7, <3>1 DEF Loaded, Level
  <2>8. CASE Rejected(u) \/ Refused(u) \/ NoHealthySession(u)
    BY <2>1, <2>8 DEF Rejected, Refused, NoHealthySession
  <2>9. CASE BadQueryId(u) \/ Garbled(u) \/ Throttled(u) \/ Failed(u)
    BY <2>2, <2>9 DEF BadQueryId, Garbled, Throttled, Failed
  <2> QED
    BY <1>1, <2>3, <2>4, <2>5, <2>6, <2>7, <2>8, <2>9 DEF Step, Answered, NotAnswered
<1>2. ASSUME NEW u \in Tasks, StartCall(u) PROVE Untouched(t)
  BY <1>0, <1>2 DEF StartCall, Shape, Untouched
<1>3. ASSUME HealthProbe \/ Tick \/ UNCHANGED vars PROVE Untouched(t)
  BY <1>3 DEF HealthProbe, Tick, vars, callVars, Untouched
<1>4. Untouched(t)
  BY <1>1, <1>2, <1>3 DEF Next
<1>5. (bootLock' = t) = (bootLock = t)
  BY <1>4 DEF Untouched
<1> QED
  BY <1>4, <1>5 DEF StepsLeft, Untouched

\* A call takes no more than MostSteps steps, for any callers, sessions and
\* limits and whatever the others do: no endless retry, no endless redirect.
THEOREM CallsAreBounded ==
  Spec => Nearer /\ [](\A t \in Tasks : StepsLeft(t) \in 0..MostSteps)
<1>1. Inv /\ Counted => \A t \in Tasks : StepsLeft(t) \in 0..MostSteps
  BY LeftBounded DEF StepsLeft, Inv, Shape, Counted
<1>2. Inv /\ Counted /\ Counted' /\ [Next]_vars =>
        [\A t \in Tasks :
          IF Step(t) THEN StepsLeft(t)' < StepsLeft(t)
                     ELSE pc[t] # "idle" => StepsLeft(t)' = StepsLeft(t)]_vars
  BY StepIsNearer, OthersStandStill
<1> QED
  BY <1>1, <1>2, CountedInvariant, CountedStep, PTL DEF Spec, Nearer

-----------------------------------------------------------------------------
(* No deadlock.                                                            *)

\* A call goes on by itself: at the top of its loop it finds a session or none,
\* while pacing and in flight its time comes.
CanMove(t) ==
    \/ AtLoopTop(t)
    \/ pc[t] = "booting" /\ bootLock = NoTask
    \/ pc[t] = "queued" /\ permits > 0
    \/ pc[t] \in {"pacing", "sent"}

\* A call waits for another's bootstrap, or for a permit that another has out.
WaitsFor(t, u) ==
    \/ pc[t] = "booting" /\ bootLock = u
    \/ pc[t] = "queued" /\ permits = 0 /\ pc[u] \in {"pacing", "sent"}

\* Two kinds of waiting and no cycle: whom a call waits for can go on, or waits
\* for a permit, whose holder can.
NoDeadlock ==
    \A t \in Tasks : pc[t] # "idle" =>
        \/ CanMove(t)
        \/ \E u \in Tasks : /\ WaitsFor(t, u)
                            /\ CanMove(u) \/ \E w \in Tasks : WaitsFor(u, w) /\ CanMove(w)

\* The lock around the bootstrap and the permits around each request, taken in
\* this order only, never leave the calls waiting for one another, for any
\* callers and any limits.
THEOREM CallsDoNotDeadlock == Spec => []NoDeadlock
<1>1. Inv /\ Counted => NoDeadlock
  <2> SUFFICES ASSUME Inv, Counted, NEW t \in Tasks, pc[t] # "idle", ~CanMove(t)
               PROVE  \E u \in Tasks :
                        /\ WaitsFor(t, u)
                        /\ CanMove(u) \/ \E w \in Tasks : WaitsFor(u, w) /\ CanMove(w)
    BY DEF NoDeadlock
  <2>1. Shape /\ MaxConcurrent \in Nat \ {0} /\ permits \in Int /\ permits >= 0
    BY ClientConstants DEF Inv, Counted, Shape
  <2>2. ASSUME NEW u \in Tasks, pc[u] = "queued", permits = 0
        PROVE  \E w \in Tasks : WaitsFor(u, w) /\ CanMove(w)
    <3>1. Busy # {}
      <4>1. permits + Cardinality(Busy) = MaxConcurrent
        BY InvParts DEF Balanced
      <4>2. Cardinality({}) = 0
        BY FS_EmptySet
      <4> QED
        BY <2>1, <2>2, <4>1, <4>2
    <3>2. PICK w \in Tasks : pc[w] \in {"pacing", "sent"}
      BY <3>1 DEF Busy
    <3> QED
      BY <2>2, <3>2 DEF WaitsFor, CanMove
  <2>3. CASE pc[t] = "queued"
    <3>1. permits = 0
      BY <2>1, <2>3 DEF CanMove
    <3> QED
      BY <2>2, <2>3, <3>1
  <2>4. CASE pc[t] = "booting"
    <3>1. bootLock \in Tasks /\ pc[bootLock] \in OnTheWay /\ WaitsFor(t, bootLock)
      BY <2>1, <2>4 DEF Inv, LockDiscipline, CanMove, Shape, WaitsFor
    <3>2. CASE pc[bootLock] \in {"pacing", "sent"} \/ permits > 0
      BY <3>1, <3>2 DEF CanMove, OnTheWay
    <3>3. CASE pc[bootLock] = "queued" /\ permits = 0
      BY <2>2, <3>1, <3>3
    <3> QED
      BY <2>1, <3>1, <3>2, <3>3 DEF OnTheWay
  <2>5. pc[t] \in {"queued", "booting"}
    BY <2>1 DEF CanMove, AtLoopTop, Shape, Holding
  <2> QED
    BY <2>3, <2>4, <2>5
<1> QED
  BY <1>1, CountedInvariant, PTL

-----------------------------------------------------------------------------
(* The client implements the pool.                                         *)

\* The calls that hold s, and what the pool sees of them.
Held(s) == {t \in Tasks : pc[t] \in Holding /\ active[t] = s}
Leases == [s \in 1..NumSessions |-> Cardinality(Held(s))]

LEMMA HeldIsFinite ==
  ASSUME NEW s
  PROVE  /\ IsFiniteSet(Held(s)) /\ Cardinality(Held(s)) \in Nat
         /\ IsFiniteSet(Held(s)') /\ Cardinality(Held(s)') \in Nat
<1>1. IsFiniteSet(Held(s)) /\ IsFiniteSet(Held(s)')
  BY ClientConstants, FS_Subset DEF Held
<1> QED
  BY <1>1, FS_CardinalityType

\* Every call but t goes on holding what it holds.
Apart(t) == \A u \in Tasks : u # t => (pc'[u] \in Holding <=> pc[u] \in Holding)
                                      /\ active'[u] = active[u]

LEMMA LeaseKept ==
  ASSUME NEW t \in Tasks, Apart(t),
         \/ pc[t] \in Holding /\ pc'[t] \in Holding /\ active'[t] = active[t]
         \/ pc[t] \notin Holding /\ pc'[t] \notin Holding
  PROVE  Leases' = Leases
<1>1. \A s : Held(s)' = Held(s)
  BY DEF Held, Apart
<1> QED
  BY <1>1 DEF Leases

LEMMA LeaseGranted ==
  ASSUME NEW t \in Tasks, Apart(t), NEW s \in Sessions,
         pc[t] \notin Holding, pc'[t] \in Holding, active'[t] = s
  PROVE  /\ Leases' = [Leases EXCEPT ![s] = @ + 1]
         /\ Leases[s] < Cardinality(Tasks)
<1>1. Held(s)' = Held(s) \cup {t} /\ t \notin Held(s)
  BY DEF Held, Apart
<1>2. \A r \in Sessions : r # s => Held(r)' = Held(r)
  BY DEF Held, Apart
<1>3. Cardinality(Held(s)') = Cardinality(Held(s)) + 1
  BY <1>1, HeldIsFinite, FS_AddElement
<1>4. Held(s)' \subseteq Tasks
  BY DEF Held
<1>5. Cardinality(Held(s)') <= Cardinality(Tasks)
  BY <1>4, ClientConstants, FS_Subset
<1>6. Cardinality(Tasks) \in Nat
  BY ClientConstants, FS_CardinalityType
<1>7. Leases[s] = Cardinality(Held(s))
  BY DEF Leases, Sessions
<1>8. Leases[s] < Cardinality(Tasks)
  BY <1>3, <1>5, <1>6, <1>7, HeldIsFinite
<1>9. Leases' = [Leases EXCEPT ![s] = @ + 1]
  BY <1>2, <1>3 DEF Leases, Sessions
<1> QED
  BY <1>8, <1>9

LEMMA LeaseGivenUp ==
  ASSUME NEW t \in Tasks, Apart(t), NEW s \in Sessions,
         pc[t] \in Holding, active[t] = s, pc'[t] \notin Holding
  PROVE  /\ Leases' = [Leases EXCEPT ![s] = @ - 1]
         /\ Leases[s] > 0
<1>1. Held(s)' = Held(s) \ {t} /\ t \in Held(s)
  BY DEF Held, Apart
<1>2. \A r \in Sessions : r # s => Held(r)' = Held(r)
  BY DEF Held, Apart
<1>3. Cardinality(Held(s)') = Cardinality(Held(s)) - 1
  BY <1>1, HeldIsFinite, FS_RemoveElement
<1>4. Leases[s] = Cardinality(Held(s))
  BY DEF Leases, Sessions
<1>5. Leases[s] > 0
  BY <1>3, <1>4, HeldIsFinite
<1>6. Leases' = [Leases EXCEPT ![s] = @ - 1]
  BY <1>2, <1>3 DEF Leases, Sessions
<1> QED
  BY <1>5, <1>6

\* What an answer is to the pool: a verdict on the session, by a call that holds
\* it and may let go of it, or only the letting go.
LEMMA AnswerRefines ==
  ASSUME Inv, NEW t \in Tasks, Answered(t) \/ NotAnswered(t)
  PROVE  Pool!Next \/ UNCHANGED <<sessionVars, Leases>>
<1> DEFINE s == active[t]
<1>1. AnswerStep(t)
  BY AnswerIsStep
<1>2. s \in Sessions /\ pc[t] \in Holding /\ Apart(t)
  BY <1>1 DEF AnswerStep, Inv, Holding, Apart
<1>3. \/ Leases' = Leases
      \/ Leases' = [Leases EXCEPT ![s] = @ - 1]
  <2>1. CASE pc'[t] \in Holding
    BY <1>1, <1>2, <2>1, LeaseKept DEF AnswerStep, Holding
  <2>2. CASE pc'[t] \notin Holding
    BY <1>2, <2>2, LeaseGivenUp
  <2> QED
    BY <2>1, <2>2
<1>4. Leases[s] > 0
  <2>1. t \in Held(s) /\ Leases[s] = Cardinality(Held(s))
    BY <1>2 DEF Held, Leases, Sessions
  <2>2. Held(s) # {}
    BY <2>1
  <2> QED
    BY <2>1, <2>2, HeldIsFinite, FS_EmptySet
<1>5. Pool!Verdict(s) \/ NoReport
  BY <1>2 DEF Answered, NotAnswered, Loaded, Rejected, Refused, Redirected, BadQueryId, Garbled,
       Throttled, Failed, Pool!Verdict
<1>6. CASE Pool!Verdict(s)
  <2>1. Pool!MayReturn(s)
    BY <1>3, <1>4 DEF Pool!MayReturn, Leases, Held
  <2> QED
    BY <1>2, <1>6, <2>1 DEF Pool!Next, Pool!Report, Sessions, Pool!Sessions
<1>7. CASE NoReport /\ Leases' # Leases
  <2>1. Pool!Return(s)
    BY <1>3, <1>4, <1>7 DEF Pool!Return, NoReport, sessionVars, Leases, Held
  <2> QED
    BY <1>2, <2>1 DEF Pool!Next, Sessions, Pool!Sessions
<1> QED
  BY <1>5, <1>6, <1>7 DEF NoReport

LEMMA StepRefines ==
  ASSUME Inv, [Next]_vars
  PROVE  Pool!Next \/ UNCHANGED <<sessionVars, Leases>>
<1>0. Shape
  BY DEF Inv
<1>1. ASSUME NEW t \in Tasks,
             StartCall(t) \/ NoHealthySession(t) \/ EnterBootstrap(t) \/ TakePermit(t) \/ Send(t)
      PROVE  UNCHANGED <<sessionVars, Leases>>
  <2>1. UNCHANGED sessionVars /\ Apart(t)
    BY <1>0, <1>1 DEF StartCall, NoHealthySession, End, EnterBootstrap, TakePermit, Send, Shape, Apart
  <2>2. \/ pc[t] \in Holding /\ pc'[t] \in Holding /\ active'[t] = active[t]
        \/ pc[t] \notin Holding /\ pc'[t] \notin Holding
    BY <1>0, <1>1
    DEF StartCall, NoHealthySession, AtLoopTop, End, EnterBootstrap, TakePermit, Send, Shape, Holding
  <2> QED
    BY <2>1, <2>2, LeaseKept
<1>2. ASSUME NEW t \in Tasks, NEW s \in Sessions, AcquireSession(t, s) PROVE Pool!Next
  <2>1. /\ Apart(t) /\ pc[t] \notin Holding /\ pc'[t] \in Holding /\ active'[t] = s
    BY <1>0, <1>2 DEF AcquireSession, AtLoopTop, BeforeSending, Shape, Holding, Apart
  <2>2. Leases' = [Leases EXCEPT ![s] = @ + 1] /\ Leases[s] < Cardinality(Tasks)
    BY <2>1, LeaseGranted
  <2>3. Pool!Acquire(s)
    BY <1>2, <2>2 DEF Pool!Acquire, AcquireSession, Leases, Held
  <2> QED
    BY <2>3 DEF Pool!Next, Pool!HandOut, Sessions, Pool!Sessions
<1>3. ASSUME UNCHANGED callVars PROVE Leases' = Leases
  BY <1>3 DEF callVars, Leases, Held
<1>4. CASE HealthProbe
  <2>1. Pool!HealthyCount
    BY <1>3, <1>4 DEF HealthProbe, Pool!HealthyCount, Leases, Held
  <2> QED
    BY <2>1 DEF Pool!Next
<1>5. CASE Tick
  BY <1>5 DEF Tick, Pool!Next
<1>6. CASE UNCHANGED vars
  BY <1>3, <1>6 DEF vars
<1> QED
  BY <1>1, <1>2, <1>4, <1>5, <1>6, AnswerRefines DEF Next, Step

\* Whatever calls do, what they do to the sessions is what the pool specifies:
\* sessions are handed out by acquire, reported on by holders, and given back.
THEOREM ClientImplementsPool == Spec => UsesThePool
<1>1. Init => Pool!Init
  BY DEF Init
<1>2. Inv /\ [Next]_vars => [Pool!Next]_(Pool!vars)
  <2> SUFFICES ASSUME Inv, [Next]_vars PROVE [Pool!Next]_(Pool!vars)
    OBVIOUS
  <2>1. Pool!Next \/ UNCHANGED <<sessionVars, Leases>>
    BY StepRefines
  <2>2. UNCHANGED <<sessionVars, Leases>> => UNCHANGED Pool!vars
    BY DEF Pool!vars, sessionVars, Leases, Held
  <2> QED
    BY <2>1, <2>2
<1> QED
  BY <1>1, <1>2, InvInit, InvStep, PTL DEF Spec, UsesThePool, Pool!Spec
=============================================================================
