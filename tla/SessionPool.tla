---------------------------- MODULE SessionPool ----------------------------
(***************************************************************************)
(* The pool of LinkedIn sessions (src/app/linkedin/session_pool.py) and    *)
(* the health bookkeeping of one session (src/app/linkedin/session.py).    *)
(*                                                                         *)
(* Time is a clock of whole ticks: a session keeps the ticks left of its   *)
(* rest and the ages of its recent requests rather than timestamps.  Every *)
(* method of the pool runs without an await between its reads and writes,  *)
(* so each is one action.                                                  *)
(***************************************************************************)
EXTENDS Integers, FiniteSets, Functions

CONSTANTS
    NumSessions,          \* length of the configured account list
    RequestsPerMinute,    \* requests_per_minute, the budget of one session
    Window,               \* the minute of that budget, in ticks
    CooldownSeconds,      \* cooldown_seconds, the default rest, in ticks
    RetryAfters,          \* the rests LinkedIn may ask for, in ticks
    MaxConsecutiveErrors, \* max_consecutive_errors
    MaxLeases             \* bound: calls holding one session at a time

ASSUME PoolConstants ==
    /\ NumSessions \in Nat \ {0}
    /\ RequestsPerMinute \in Nat \ {0}
    /\ Window \in Nat
    /\ CooldownSeconds \in Nat \ {0}
    /\ RetryAfters \subseteq Nat \ {0}
    /\ MaxConsecutiveErrors \in Nat \ {0}
    /\ MaxLeases \in Nat \ {0}

VARIABLES
    state,        \* SessionState of each session
    cooldown,     \* ticks left until cooldown_until, 0 unless resting
    consecutive,  \* consecutive_errors, counted up to MaxConsecutiveErrors
    older,        \* older[s]: the sessions whose last_used_at precedes s's
    recent,       \* _recent_requests of each session, counted by age in ticks
    leases        \* calls that hold each session and may still report on it

vars == <<state, cooldown, consecutive, older, recent, leases>>

\* A session is named by its position in the configured list, which is also
\* how min() breaks the tie of sessions that were never used.
Sessions == 1..NumSessions

States == {"healthy", "cooling", "dead"}
Rests == RetryAfters \cup {CooldownSeconds}
Ages == 0..Window

AtMost(limit, n) == IF n > limit THEN limit ELSE n

TypeOK ==
    /\ state \in [Sessions -> States]
    /\ cooldown \in [Sessions -> Nat]
    /\ consecutive \in [Sessions -> 0..MaxConsecutiveErrors]
    /\ older \in [Sessions -> SUBSET Sessions]
    /\ recent \in [Sessions -> [Ages -> 0..RequestsPerMinute]]
    /\ leases \in [Sessions -> 0..MaxLeases]

Init ==
    /\ state = [s \in Sessions |-> "healthy"]
    /\ cooldown = [s \in Sessions |-> 0]
    /\ consecutive = [s \in Sessions |-> 0]
    /\ older = [s \in Sessions |-> 1..(s - 1)]
    /\ recent = [s \in Sessions |-> [a \in Ages |-> 0]]
    /\ leases = [s \in Sessions |-> 0]

-----------------------------------------------------------------------------
(* What one session keeps.                                                 *)

ExpiredEarly(s) == state[s] = "cooling" /\ cooldown[s] <= 1

\* The rest of s is over and only waits to be noticed.
Expired(s) == state[s] = "cooling" /\ cooldown[s] = 0

\* is_available, without its side effect.
IsAvailable(s) == state[s] = "healthy" \/ Expired(s)

UnderQuota(s) == FoldFunction(+, 0, recent[s]) < RequestsPerMinute

\* The side effect of is_available, read on every session: a rest that is over
\* ends there and then, with a clean error count.
Revive ==
    /\ state' = [s \in Sessions |-> IF Expired(s) THEN "healthy" ELSE state[s]]
    /\ consecutive' = [s \in Sessions |-> IF Expired(s) THEN 0 ELSE consecutive[s]]
    /\ UNCHANGED cooldown

TouchForgetsOthers(s) == older' = [older EXCEPT ![s] = Sessions \ {s}]

TouchNothing(s) == older' = older

\* last_used_at = now: every other session is now older than s.
Touch(s) ==
    older' = [t \in Sessions |-> IF t = s THEN Sessions \ {s} ELSE older[t] \ {s}]

\* What record_success and record_error share.
RecordUse(s) ==
    /\ Touch(s)
    /\ recent' = [recent EXCEPT ![s][0] = AtMost(RequestsPerMinute, @ + 1)]

\* The call that reports either lets go of the session or goes on using it.
MayReturn(s) ==
    /\ leases[s] > 0
    /\ leases' \in {leases, [leases EXCEPT ![s] = @ - 1]}

CoolDown(s, rest) ==
    /\ state' = [state EXCEPT ![s] = "cooling"]
    /\ cooldown' = [cooldown EXCEPT ![s] = rest]

MarkDead(s) ==
    /\ state' = [state EXCEPT ![s] = "dead"]
    /\ cooldown' = [cooldown EXCEPT ![s] = 0]

CountError(s) ==
    consecutive' = [consecutive EXCEPT ![s] = AtMost(MaxConsecutiveErrors, @ + 1)]

-----------------------------------------------------------------------------
(* What the pool promises its callers and what they tell it.               *)

Available == {s \in Sessions : IsAvailable(s)}

\* The sessions acquire() chooses among: under budget if any is, else all.
Candidates ==
    LET underQuota == {s \in Available : UnderQuota(s)}
    IN  IF underQuota # {} THEN underQuota ELSE Available

LeastRecentlyUsed(s, pool) == s \in pool /\ older[s] \cap pool = {}

\* acquire(), which fails when no session is available.
Choose(s) ==
    /\ LeastRecentlyUsed(s, Candidates)
    /\ Revive
    /\ Touch(s)
    /\ UNCHANGED recent

Acquire(s) ==
    /\ leases[s] < MaxLeases
    /\ Choose(s)
    /\ leases' = [leases EXCEPT ![s] = @ + 1]

ReportSuccess(s) ==
    /\ RecordUse(s)
    /\ consecutive' = [consecutive EXCEPT ![s] = 0]
    /\ UNCHANGED <<state, cooldown>>

\* report_error(fatal=True): LinkedIn rejected the credential itself.
ReportFatal(s) ==
    /\ RecordUse(s)
    /\ CountError(s)
    /\ MarkDead(s)

\* report_error(cooldown=rest).
ReportThrottled(s, rest) ==
    /\ RecordUse(s)
    /\ CountError(s)
    /\ CoolDown(s, rest)

ReportErrorOffByOne(s) ==
    /\ RecordUse(s)
    /\ CountError(s)
    /\ IF consecutive[s] >= MaxConsecutiveErrors
       THEN CoolDown(s, CooldownSeconds)
       ELSE UNCHANGED <<state, cooldown>>

\* report_error with neither.
ReportError(s) ==
    /\ RecordUse(s)
    /\ CountError(s)
    /\ IF consecutive'[s] >= MaxConsecutiveErrors
       THEN CoolDown(s, CooldownSeconds)
       ELSE UNCHANGED <<state, cooldown>>

\* The bootstrap page loaded, was reported a success, and turned out to be the
\* sign-in page: ensure_bootstrapped then marks the session itself.
ReportLoginPage(s) ==
    /\ RecordUse(s)
    /\ consecutive' = [consecutive EXCEPT ![s] = 0]
    /\ MarkDead(s)

Verdict(s) ==
    \/ ReportSuccess(s)
    \/ ReportFatal(s)
    \/ \E rest \in Rests : ReportThrottled(s, rest)
    \/ ReportError(s)
    \/ ReportLoginPage(s)

Report(s) == MayReturn(s) /\ Verdict(s)

ReturnTwice(s) ==
    /\ leases' = [leases EXCEPT ![s] = @ - 1]
    /\ UNCHANGED <<state, cooldown, consecutive, older, recent>>

\* A call ends, or gives its session up, without reporting on it.
Return(s) ==
    /\ leases[s] > 0
    /\ leases' = [leases EXCEPT ![s] = @ - 1]
    /\ UNCHANGED <<state, cooldown, consecutive, older, recent>>

\* healthy_count and snapshot, called by the health endpoints.
HealthyCount == Revive /\ UNCHANGED <<older, recent, leases>>

\* Requests whose age exceeds the window are dropped by requests_in_last_minute.
Aged(ages) == [a \in Ages |-> IF a = 0 THEN 0 ELSE ages[a - 1]]

Tick ==
    /\ cooldown' = [s \in Sessions |-> IF cooldown[s] > 0 THEN cooldown[s] - 1 ELSE 0]
    /\ recent' = [s \in Sessions |-> Aged(recent[s])]
    /\ UNCHANGED <<state, consecutive, older, leases>>

HandOut == \E s \in Sessions : Acquire(s)

Next ==
    \/ HandOut
    \/ \E s \in Sessions : Report(s) \/ Return(s)
    \/ HealthyCount
    \/ Tick

Spec == Init /\ [][Next]_vars

-----------------------------------------------------------------------------
(* Properties.                                                             *)

\* A session in service has fewer failures in a row than the limit, however the
\* failures, successes and rests of the calls that share it interleave.
InService ==
    \A s \in Sessions : state[s] = "healthy" => consecutive[s] < MaxConsecutiveErrors

\* The last uses of the sessions stay in one strict total order, so that the
\* least recently used of any candidates exists and is unique.
LruOrder ==
    /\ \A s \in Sessions : s \notin older[s]
    /\ \A s, t \in Sessions : s # t => (s \in older[t] <=> t \notin older[s])
    /\ \A s, t \in Sessions : s \in older[t] => older[s] \subseteq older[t]

\* A session re-enters service only from a rest that has run its full length,
\* and then with a clean error count; no step returns a rejected one directly.
ReentryAfterRest ==
    [][\A s \in Sessions :
          state[s] # "healthy" /\ state'[s] = "healthy" =>
              state[s] = "cooling" /\ cooldown[s] = 0 /\ consecutive'[s] = 0]_vars

\* A usable session under its budget that nobody holds.
Idle(s) == state[s] = "healthy" /\ UnderQuota(s) /\ leases[s] = 0

\* As long as sessions keep being handed out, none is passed over for ever: the
\* promise of choosing the least recently used one.
NoStarvation ==
    []<><<HandOut>>_vars => \A s \in Sessions : []<>~Idle(s)
=============================================================================
