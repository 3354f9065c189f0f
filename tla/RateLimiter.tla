---------------------------- MODULE RateLimiter ----------------------------
(***************************************************************************)
(* The door of the API (src/app/api/deps.py): the API key and the sliding  *)
(* window of requests per caller, and the Retry-After header of a refusal  *)
(* (src/app/api/errors.py).  Check runs without an await: it is one step.  *)
(***************************************************************************)
EXTENDS Integers, Sequences, FiniteSets

CONSTANTS
    Presented,       \* what callers send as X-API-Key, "nothing" included
    ApiKeys,         \* settings.api_keys
    RequireKey,      \* settings.require_api_key
    Hosts,           \* request.client.host, or "unknown"
    MaxRequests,     \* max_requests
    Window,          \* window_seconds, in ticks
    TicksPerSecond,  \* Retry-After counts whole seconds
    KnownLimit,      \* 4096 in the code
    MaxTime          \* bound: the clock stops here

ASSUME LimiterConstants ==
    /\ MaxRequests \in Nat \ {0}
    /\ Window \in Nat
    /\ TicksPerSecond \in Nat \ {0}
    /\ KnownLimit \in Nat
    /\ MaxTime \in Nat
    /\ RequireKey \in BOOLEAN

VARIABLES
    now,    \* time.monotonic()
    known,  \* the keys of _hits
    hits,   \* _hits, one bucket of times per identity, empty if not known
    log,    \* history: every request ever admitted
    due     \* history: when the identity's last refusal ends as the caller reads it

vars == <<now, known, hits, log, due>>

Identities == ApiKeys \cup Hosts
NotRefused == -1

TypeOK ==
    /\ now \in 0..MaxTime
    /\ known \subseteq Identities
    /\ hits \in [Identities -> Seq(0..MaxTime)]
    /\ log \in [Identities -> Seq(0..MaxTime)]
    /\ due \in [Identities -> Int]
    /\ \A i \in Identities : hits[i] # <<>> => i \in known

Init ==
    /\ now = 0
    /\ known = {}
    /\ hits = [i \in Identities |-> <<>>]
    /\ log = [i \in Identities |-> <<>>]
    /\ due = [i \in Identities |-> NotRefused]

\* No key configured, none sent, or one that is not configured: a 401 that the
\* window does not count.
Authorized(key) == RequireKey => key \in ApiKeys

Identity(key, host) == IF RequireKey THEN key ELSE host

OutdatedAtTheEdge(t) == t <= now - Window
Outdated(t) == t < now - Window

\* popleft() while the oldest hit is outdated: n hits go.
Pops(bucket, n) ==
    /\ \A k \in 1..n : Outdated(bucket[k])
    /\ n < Len(bucket) => ~Outdated(bucket[n + 1])

\* int() cuts the fraction off, and a zero is not sent, which means the same.
RetryAfterHeader(bucket) ==
    LET wait == Window - (now - bucket[1])
    IN  (IF wait > 0 THEN wait ELSE 0) \div TicksPerSecond

\* A refused request counts as well.
RefuseCounting(i, bucket) ==
    /\ Len(bucket) >= MaxRequests
    /\ hits' = [hits EXCEPT ![i] = Append(bucket, now)]
    /\ known' = known \cup {i}
    /\ due' = [due EXCEPT ![i] = now + (RetryAfterHeader(bucket) + 1) * TicksPerSecond]
    /\ UNCHANGED log

Refuse(i, bucket) ==
    /\ Len(bucket) >= MaxRequests
    /\ hits' = [hits EXCEPT ![i] = bucket]
    /\ known' = known \cup {i}
    /\ due' = [due EXCEPT ![i] = now + (RetryAfterHeader(bucket) + 1) * TicksPerSecond]
    /\ UNCHANGED log

\* The identities the cleanup removes: those whose bucket is empty.
Cleaned(buckets, all) ==
    IF Cardinality(all) > KnownLimit THEN {i \in all : buckets[i] = <<>>} ELSE {}

\* The key is not entered into _hits, as with get() on a plain dict.
AdmitUnknown(i, bucket) ==
    /\ Len(bucket) < MaxRequests
    /\ hits' = [hits EXCEPT ![i] = Append(bucket, now)]
    /\ log' = [log EXCEPT ![i] = Append(@, now)]
    /\ due' = [due EXCEPT ![i] = NotRefused]
    /\ UNCHANGED known

Admit(i, bucket) ==
    LET buckets == [hits EXCEPT ![i] = Append(bucket, now)]
        gone == Cleaned(buckets, known \cup {i})
    IN  /\ Len(bucket) < MaxRequests
        /\ hits' = [j \in Identities |-> IF j \in gone THEN <<>> ELSE buckets[j]]
        /\ known' = (known \cup {i}) \ gone
        /\ log' = [log EXCEPT ![i] = Append(@, now)]
        /\ due' = [due EXCEPT ![i] = NotRefused]

Check(i) ==
    /\ \E n \in 0..Len(hits[i]) :
        /\ Pops(hits[i], n)
        /\ LET bucket == SubSeq(hits[i], n + 1, Len(hits[i]))
           IN  Refuse(i, bucket) \/ Admit(i, bucket)
    /\ UNCHANGED now

Request(key, host) == Authorized(key) /\ Check(Identity(key, host))

Tick ==
    /\ now < MaxTime
    /\ now' = now + 1
    /\ UNCHANGED <<known, hits, log, due>>

Next == Tick \/ \E key \in Presented, host \in Hosts : Request(key, host)

Spec == Init /\ [][Next]_vars

-----------------------------------------------------------------------------

\* Of one caller's admitted requests, any MaxRequests + 1 in a row span more
\* than the window, both ends included: buckets that are trimmed only when the
\* caller asks, and removed only when empty, never forget a hit too early.
WindowKept ==
    \A i \in Identities : \A k \in 1..(Len(log[i]) - MaxRequests) :
        log[i][k + MaxRequests] - log[i][k] > Window

\* A refused caller that waits one second longer than its Retry-After header
\* says (errors.py truncates) is not refused again, however often it and others
\* asked meanwhile, unless a request of its own was admitted since.
RetryAfterIsEnough ==
    [][\A i \in Identities :
          due[i] # NotRefused /\ now >= due[i] => due'[i] \in {due[i], NotRefused}]_vars

Promise == INSTANCE SlidingWindow

\* However buckets are trimmed, refilled and cleaned up, and whoever asks in
\* between, each caller is served as if every request it was ever granted were
\* counted afresh: none too many, none refused without cause, none told too long a wait.
KeepsThePromise == Promise!Spec
=============================================================================
