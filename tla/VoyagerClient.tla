--------------------------- MODULE VoyagerClient ---------------------------
(***************************************************************************)
(* Concurrent calls of VoyagerClient.request (src/app/linkedin/client.py)  *)
(* over one SessionPool: choosing a session, the CSRF bootstrap nested     *)
(* under a lock, the concurrency permits, the classification of LinkedIn's *)
(* answers, redirects and retries.                                         *)
(*                                                                         *)
(* A call is split where it may be suspended: asleep before a retry        *)
(* ("ready"), waiting for the bootstrap lock ("booting"), for a permit     *)
(* ("queued"), for its turn to send ("pacing"), for the answer ("sent");   *)
(* "hop" is the top of the loop after a redirect.  Everything between two  *)
(* of these is one action.  A call that bootstraps runs a second request   *)
(* of its own, pinned to the same session: its "boot" frame.               *)
(***************************************************************************)
EXTENDS Integers, FiniteSets

CONSTANTS
    NumSessions, RequestsPerMinute, Window, CooldownSeconds, RetryAfters,
    MaxConsecutiveErrors,  \* the pool's parameters
    Tasks,                 \* callers of request()
    NoTask,                \* none of them
    MaxRetries,            \* max_retries
    MaxRedirects,          \* MAX_REDIRECTS
    MaxConcurrent          \* max_concurrent, the semaphore's permits

ASSUME ClientConstants ==
    /\ IsFiniteSet(Tasks) /\ Tasks # {} /\ NoTask \notin Tasks
    /\ MaxRetries \in Nat
    /\ MaxRedirects \in Nat
    /\ MaxConcurrent \in Nat \ {0}

VARIABLES
    state, cooldown, consecutive, older, recent,  \* the pool's sessions
    hasCsrf,   \* has_jsessionid of each session
    bootLock,  \* the call that holds _bootstrap_lock, or NoTask
    permits,   \* free permits of _semaphore
    pc,        \* where each call is suspended
    kind,      \* "api" or "html"
    active,    \* the session a call uses, 0 for none yet
    frame,     \* attempt, redirects and last_exc, of the call and of its bootstrap
    result     \* how the caller's last call ended

sessionVars == <<state, cooldown, consecutive, older, recent>>
callVars == <<bootLock, pc, kind, active, frame, result>>
vars == <<sessionVars, hasCsrf, permits, callVars>>

Holding == {"booting", "queued", "pacing", "sent"}

Pool == INSTANCE SessionPool WITH
            MaxLeases <- Cardinality(Tasks),
            leases <- [s \in 1..NumSessions |->
                         Cardinality({t \in Tasks : pc[t] \in Holding /\ active[t] = s})]

Sessions == 1..NumSessions
Errors == {"upstream", "rateLimited", "queryId"}
Frames == [attempt : 0..(MaxRetries + 1), redirects : 0..MaxRedirects, last : Errors \cup {"none"}]
Fresh == [attempt |-> 0, redirects |-> 0, last |-> "none"]
FreshFrames == [call |-> Fresh, boot |-> Fresh]

\* A call bootstraps exactly while it holds the lock.
Level(t) == IF bootLock = t THEN "boot" ELSE "call"
Current(t) == IF Level(t) = "boot" THEN frame[t].boot ELSE frame[t].call

TypeOK ==
    /\ hasCsrf \in [Sessions -> BOOLEAN]
    /\ bootLock \in Tasks \cup {NoTask}
    /\ permits \in 0..MaxConcurrent
    /\ pc \in [Tasks -> Holding \cup {"idle", "ready", "hop"}]
    /\ kind \in [Tasks -> {"api", "html"}]
    /\ active \in [Tasks -> Sessions \cup {0}]
    /\ frame \in [Tasks -> [call : Frames, boot : Frames]]
    /\ result \in [Tasks -> Errors \cup {"none", "ok", "auth", "profile", "noSession"}]

\* An account may or may not come with a configured JSESSIONID.
Init ==
    /\ hasCsrf \in [Sessions -> BOOLEAN]
    /\ bootLock = NoTask
    /\ permits = MaxConcurrent
    /\ pc = [t \in Tasks |-> "idle"]
    /\ kind = [t \in Tasks |-> "api"]
    /\ active = [t \in Tasks |-> 0]
    /\ frame = [t \in Tasks |-> FreshFrames]
    /\ result = [t \in Tasks |-> "none"]
    /\ Pool!Init

-----------------------------------------------------------------------------
(* From the call to the wire.                                              *)

\* get_json or get_html.
StartCall(t) ==
    /\ pc[t] = "idle"
    /\ pc' = [pc EXCEPT ![t] = "ready"]
    /\ \E k \in {"api", "html"} : kind' = [kind EXCEPT ![t] = k]
    /\ result' = [result EXCEPT ![t] = "none"]
    /\ UNCHANGED <<sessionVars, hasCsrf, permits, bootLock, active, frame>>

AtLoopTop(t) == pc[t] \in {"ready", "hop"}

BeforeSendingUnlessBusy(t, s) ==
    IF kind[t] = "api" /\ ~hasCsrf[s] /\ bootLock = NoTask THEN "booting" ELSE "queued"

\* An API call needs a CSRF token, a page load does not.
BeforeSending(t, s) == IF kind[t] = "api" /\ ~hasCsrf[s] THEN "booting" ELSE "queued"

\* The top of the retry loop, once the backoff is over: choose a session.
AcquireSession(t, s) ==
    /\ AtLoopTop(t)
    /\ Pool!Choose(s)
    /\ active' = [active EXCEPT ![t] = s]
    /\ frame' = [frame EXCEPT ![t].call.attempt = @ + 1]
    /\ pc' = [pc EXCEPT ![t] = BeforeSending(t, s)]
    /\ UNCHANGED <<hasCsrf, permits, bootLock, kind, result>>

EndKeepsLock(t, how) ==
    /\ pc' = [pc EXCEPT ![t] = "idle"]
    /\ result' = [result EXCEPT ![t] = how]
    /\ active' = [active EXCEPT ![t] = 0]
    /\ frame' = [frame EXCEPT ![t] = FreshFrames]
    /\ kind' = [kind EXCEPT ![t] = "api"]
    /\ UNCHANGED bootLock

\* The call is over: every lock it held is released.
End(t, how) ==
    /\ pc' = [pc EXCEPT ![t] = "idle"]
    /\ result' = [result EXCEPT ![t] = how]
    /\ bootLock' = IF bootLock = t THEN NoTask ELSE bootLock
    /\ active' = [active EXCEPT ![t] = 0]
    /\ frame' = [frame EXCEPT ![t] = FreshFrames]
    /\ kind' = [kind EXCEPT ![t] = "api"]

\* No session to choose: the error that used the last one up wins.
NoHealthySession(t) ==
    /\ AtLoopTop(t)
    /\ Pool!Available = {}
    /\ LET last == frame[t].call.last
       IN  End(t, IF last = "none" THEN "noSession" ELSE last)
    /\ UNCHANGED <<sessionVars, hasCsrf, permits>>

EnterBootstrapInPermit(t) ==
    /\ pc[t] = "booting"
    /\ bootLock = NoTask
    /\ permits > 0
    /\ pc' = [pc EXCEPT ![t] = "queued"]
    /\ IF hasCsrf[active[t]]
       THEN UNCHANGED <<bootLock, frame, permits>>
       ELSE /\ bootLock' = t
            /\ frame' = [frame EXCEPT ![t].boot.attempt = 1]
            /\ permits' = permits - 1
    /\ UNCHANGED <<sessionVars, hasCsrf, kind, active, result>>

\* ensure_bootstrapped, once the lock is free: another call may have won.
EnterBootstrap(t) ==
    /\ pc[t] = "booting"
    /\ bootLock = NoTask
    /\ pc' = [pc EXCEPT ![t] = "queued"]
    /\ IF hasCsrf[active[t]]
       THEN UNCHANGED <<bootLock, frame>>
       ELSE /\ bootLock' = t
            /\ frame' = [frame EXCEPT ![t].boot.attempt = 1]
    /\ UNCHANGED <<sessionVars, hasCsrf, permits, kind, active, result>>

TakePermitFree(t) ==
    /\ pc[t] = "queued"
    /\ pc' = [pc EXCEPT ![t] = "pacing"]
    /\ UNCHANGED <<sessionVars, hasCsrf, permits, bootLock, kind, active, frame, result>>

\* The semaphore around pacing and sending.
TakePermit(t) ==
    /\ pc[t] = "queued"
    /\ permits > 0
    /\ permits' = permits - 1
    /\ pc' = [pc EXCEPT ![t] = "pacing"]
    /\ UNCHANGED <<sessionVars, hasCsrf, bootLock, kind, active, frame, result>>

\* The pacing gap is over and the request goes out on the session's cookies.
Send(t) ==
    /\ pc[t] = "pacing"
    /\ pc' = [pc EXCEPT ![t] = "sent"]
    /\ UNCHANGED <<sessionVars, hasCsrf, permits, bootLock, kind, active, frame, result>>

-----------------------------------------------------------------------------
(* What an answer does to the call that got it.                            *)

NoReport == UNCHANGED sessionVars

\* A frame whose attempt failed and that begins another at once; and one that
\* follows a redirect, which does not count as an attempt.
FailedAgain(f, err) ==
    [attempt |-> f.attempt + 1, redirects |-> f.redirects, last |-> err]
HopTaken(f) ==
    [attempt |-> f.attempt - 1, redirects |-> f.redirects + 1, last |-> f.last]

\* The bottom of the retry loop.  Attempts left: back off and go round again,
\* the bootstrap on the session it is pinned to, the call on whichever the pool
\* chooses.  Otherwise the error is raised, the bootstrap's through the call.
Retry(t, err) ==
    IF Current(t).attempt > MaxRetries
    THEN End(t, err)
    ELSE /\ IF Level(t) = "boot"
            THEN /\ pc' = [pc EXCEPT ![t] = "queued"]
                 /\ frame' = [frame EXCEPT ![t].boot = FailedAgain(@, err)]
            ELSE /\ pc' = [pc EXCEPT ![t] = "ready"]
                 /\ frame' = [frame EXCEPT ![t].call.last = err]
         /\ active' = IF Level(t) = "boot" THEN active ELSE [active EXCEPT ![t] = 0]
         /\ UNCHANGED <<bootLock, kind, result>>

\* The page loaded and issued a CSRF token: on with the call itself.
BootstrapDone(t) ==
    /\ bootLock' = NoTask
    /\ pc' = [pc EXCEPT ![t] = "queued"]
    /\ frame' = [frame EXCEPT ![t].boot = Fresh]
    /\ UNCHANGED <<kind, active, result>>

\* 200.  A bootstrap looks at what it loaded: the sign-in page kills the
\* session, a page without a token is an authentication error.
Loaded(t) ==
    LET s == active[t]
    IN  \/ /\ Level(t) = "call"
           /\ Pool!ReportSuccess(s)
           /\ End(t, "ok")
        \/ /\ Level(t) = "boot"
           /\ Pool!ReportSuccess(s)
           /\ IF hasCsrf'[s] THEN BootstrapDone(t) ELSE End(t, "auth")
        \/ /\ Level(t) = "boot"
           /\ Pool!ReportLoginPage(s)
           /\ End(t, "auth")

RejectedRetried(t) == Pool!ReportFatal(active[t]) /\ Retry(t, "upstream")

RejectedUnrecorded(t) ==
    /\ Pool!MarkDead(active[t])
    /\ UNCHANGED <<consecutive, older, recent>>
    /\ End(t, "auth")

\* 401, a CSRF 403, a login wall, deleted cookies, a login or checkpoint redirect.
Rejected(t) == Pool!ReportFatal(active[t]) /\ End(t, "auth")

\* A plain 403 or a 404: about the profile, so nothing is reported.
Refused(t) == NoReport /\ End(t, "profile")

LoopsOffByOne(t) == Current(t).redirects > MaxRedirects

\* One hop more would exceed the limit.
Loops(t) == Current(t).redirects >= MaxRedirects

\* A redirect that stays on LinkedIn: the bootstrap keeps its session, the call
\* gives its own up and goes back to the top of the loop.  (The code gets there
\* without suspension; letting other calls step in between only adds behaviours.)
Redirected(t) ==
    IF Loops(t)
    THEN Pool!ReportError(active[t]) /\ End(t, "upstream")
    ELSE /\ NoReport
         /\ IF Level(t) = "boot"
            THEN /\ pc' = [pc EXCEPT ![t] = "queued"]
                 /\ frame' = [frame EXCEPT ![t].boot.redirects = @ + 1]
            ELSE /\ pc' = [pc EXCEPT ![t] = "hop"]
                 /\ frame' = [frame EXCEPT ![t].call = HopTaken(@)]
         /\ UNCHANGED <<bootLock, kind, active, result>>

\* A 400 naming the queryId; any other answer that makes no sense.
BadQueryId(t) == NoReport /\ Retry(t, "queryId")
Garbled(t) == NoReport /\ Retry(t, "upstream")

\* 429 or 999.
Throttled(t) ==
    /\ \E rest \in Pool!Rests : Pool!ReportThrottled(active[t], rest)
    /\ Retry(t, "rateLimited")

\* 5xx or an unexpected status; a timeout or a transport error.
Failed(t) == Pool!ReportError(active[t]) /\ Retry(t, "upstream")

\* The permit is given back before anything else happens to the call.
Land(t) == pc[t] = "sent" /\ permits' = permits + 1

\* Any response may bring a JSESSIONID.
AbsorbCookies(t) == hasCsrf' \in {hasCsrf, [hasCsrf EXCEPT ![active[t]] = TRUE]}

Answered(t) ==
    /\ Land(t)
    /\ AbsorbCookies(t)
    /\ \/ Loaded(t)
       \/ Rejected(t)
       \/ Refused(t)
       \/ Redirected(t)
       \/ BadQueryId(t)
       \/ Garbled(t)
       \/ Throttled(t)
       \/ Failed(t)

NotAnswered(t) == Land(t) /\ Failed(t) /\ UNCHANGED hasCsrf

HealthProbe == Pool!Revive /\ UNCHANGED <<older, recent, hasCsrf, permits, callVars>>

Tick == UNCHANGED <<hasCsrf, permits, callVars>> /\ Pool!Tick

Step(t) ==
    \/ \E s \in Sessions : AcquireSession(t, s)
    \/ NoHealthySession(t)
    \/ EnterBootstrap(t)
    \/ TakePermit(t)
    \/ Send(t)
    \/ Answered(t)
    \/ NotAnswered(t)

Next ==
    \/ \E t \in Tasks : StartCall(t) \/ Step(t)
    \/ HealthProbe
    \/ Tick

Spec == Init /\ [][Next]_vars

\* A sleep ends, a request is answered or times out, the clock moves on; the
\* waiters of asyncio's Lock and Semaphore are woken first come first served.
Fairness ==
    \A t \in Tasks :
        /\ WF_vars((\E s \in Sessions : AcquireSession(t, s)) \/ NoHealthySession(t))
        /\ SF_vars(EnterBootstrap(t))
        /\ SF_vars(TakePermit(t))
        /\ WF_vars(Send(t))
        /\ WF_vars(Answered(t) \/ NotAnswered(t))

FairSpec == Spec /\ Fairness

-----------------------------------------------------------------------------
(* Properties.                                                             *)

OnTheWay == {"queued", "pacing", "sent"}

\* No exit path leaks a permit or the bootstrap lock: permits are out exactly
\* while a request paces or flies, and the lock is held only by an API call
\* whose bootstrap is under way.
LockDiscipline ==
    /\ permits + Cardinality({t \in Tasks : pc[t] \in {"pacing", "sent"}}) = MaxConcurrent
    /\ bootLock # NoTask => pc[bootLock] \in OnTheWay /\ kind[bootLock] = "api"

\* An API request is never on its way without a CSRF token, whichever call
\* bootstrapped the session and whoever won the race for the lock.
ApiCarriesCsrf ==
    \A t \in Tasks :
        pc[t] \in OnTheWay /\ kind[t] = "api" /\ Level(t) = "call" => hasCsrf[active[t]]

\* At the top of the loop every attempt spent has left an error behind, so the
\* loop's final assert holds and "no session" never buries the real cause; and
\* redirects do not let a request be sent more often than the limits say.
AttemptsAccountedFor ==
    \A t \in Tasks : \A f \in {frame[t].call, frame[t].boot} :
        /\ AtLoopTop(t) => f.attempt <= MaxRetries
        /\ AtLoopTop(t) /\ f.attempt > 0 => f.last # "none"
        /\ f.attempt <= MaxRetries + 1
        /\ f.redirects <= MaxRedirects

\* Authentication failures are never retried: the step that takes a session out
\* of service ends the very call that was told so.
RejectionEndsTheCall ==
    [][\A s \in Sessions :
          state[s] # "dead" /\ state'[s] = "dead" =>
              \E t \in Tasks : pc[t] = "sent" /\ active[t] = s /\ pc'[t] = "idle"]_vars

\* The client uses the pool as the pool expects: sessions are handed out by
\* acquire only, reported on only by a call that holds them, and given back.
UsesThePool == Pool!Spec

\* Every call returns: no deadlock between the bootstrap lock and the permits,
\* no endless retry, no endless redirect.
EveryCallReturns == \A t \in Tasks : pc[t] # "idle" ~> pc[t] = "idle"

\* A rejected session stays out of service (report_error's own promise).
RejectedStaysOut ==
    [][\A s \in Sessions : state[s] = "dead" => state'[s] = "dead"]_vars

\* After a redirect the retry carries the cookies just absorbed.
HopKeepsSession ==
    [][\A t \in Tasks : pc[t] = "hop" /\ pc'[t] \in Holding => active'[t] = active[t]]_vars
=============================================================================
