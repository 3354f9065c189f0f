--------------------------- MODULE ProfileService ---------------------------
(***************************************************************************)
(* ProfileService (src/app/services/profile_service.py) over its response  *)
(* cache (src/app/services/cache.py) and the tier loop of ProfileFetcher   *)
(* (src/app/linkedin/fetcher.py): concurrent requests for a profile share  *)
(* one upstream fetch, a task of its own that outlives every caller but    *)
(* the one that launched it.                                               *)
(*                                                                         *)
(* A caller is "arriving" until the cache has answered it, "joining" when  *)
(* it goes on without the cache, then "leading" the fetch it launched or   *)
(* "waiting" for another's.  A fetch is named by its leader.               *)
(***************************************************************************)
EXTENDS Integers, Sequences, FiniteSets

CONSTANTS
    Profiles,    \* the cache keys: one per public id, lower-cased
    Callers,     \* requests served at the same time
    NoCaller,    \* none of them
    NoProfile,   \* what a caller that is away asks for
    NumTiers,    \* enabled acquisition tiers
    Ttl,         \* cache_ttl_seconds, in ticks
    MaxEntries   \* cache_max_entries of the in-process cache

ASSUME ServiceConstants ==
    /\ NoCaller \notin Callers
    /\ NoProfile \notin Profiles
    /\ NumTiers \in Nat \ {0}
    /\ Ttl \in Nat
    /\ MaxEntries \in Nat

VARIABLES
    backend,    \* "memory" or "redis", as configured
    entries,    \* cached keys, the least recently used first
    left,       \* ticks left until each of them expires
    inflight,   \* _inflight: the leader of each profile's fetch, or NoCaller
    pc,         \* where each caller is
    profile,    \* the profile it asks for
    refresh,    \* whether it bypasses the cache
    cancelled,  \* whether its request has been cancelled
    on,         \* the fetch it awaits, named by its leader
    fetch,      \* the state of the fetch each caller leads
    tier        \* the tier that fetch is trying

cacheVars == <<backend, entries, left>>
callerVars == <<inflight, pc, profile, refresh, cancelled, on>>
fetchVars == <<fetch, tier>>
vars == <<cacheVars, callerVars, fetchVars>>

\* "refused": not found or private.  "session": rejected, or none to choose.
Running == {"trying", "storing"}
Over == {"live", "refused", "session", "allTiersFailed", "crashed", "cancelled"}

TypeOK ==
    /\ backend \in {"memory", "redis"}
    /\ entries \in Seq(Profiles)
    /\ left \in [Profiles -> 0..Ttl]
    /\ inflight \in [Profiles -> Callers \cup {NoCaller}]
    /\ pc \in [Callers -> {"away", "arriving", "joining", "leading", "waiting"}]
    /\ profile \in [Callers -> Profiles \cup {NoProfile}]
    /\ refresh \in [Callers -> BOOLEAN]
    /\ cancelled \in [Callers -> BOOLEAN]
    /\ on \in [Callers -> Callers \cup {NoCaller}]
    /\ fetch \in [Callers -> Running \cup Over \cup {"none"}]
    /\ tier \in [Callers -> 1..NumTiers]

Init ==
    /\ backend \in {"memory", "redis"}
    /\ entries = <<>>
    /\ left = [p \in Profiles |-> 0]
    /\ inflight = [p \in Profiles |-> NoCaller]
    /\ pc = [c \in Callers |-> "away"]
    /\ profile = [c \in Callers |-> NoProfile]
    /\ refresh = [c \in Callers |-> FALSE]
    /\ cancelled = [c \in Callers |-> FALSE]
    /\ on = [c \in Callers |-> NoCaller]
    /\ fetch = [c \in Callers |-> "none"]
    /\ tier = [c \in Callers |-> 1]

-----------------------------------------------------------------------------
(* The cache.                                                              *)

Cached(p) == \E i \in DOMAIN entries : entries[i] = p
Valid(p) == Cached(p) /\ left[p] > 0

\* The entries but that of p, of which there is one at most (CacheWithinLimit).
Without(p) ==
    LET i == CHOOSE i \in DOMAIN entries : entries[i] = p
    IN  IF Cached(p)
        THEN [j \in 1..(Len(entries) - 1) |-> entries[IF j < i THEN j ELSE j + 1]]
        ELSE entries

Newest(seq, n) == IF Len(seq) > n THEN SubSeq(seq, Len(seq) - n + 1, Len(seq)) ELSE seq

PutUnbounded(p) ==
    /\ entries' = Append(Without(p), p)
    /\ left' = [left EXCEPT ![p] = Ttl]

\* InMemoryCache.set evicts the least recently used beyond its limit; Redis has
\* no limit of ours.
Put(p) ==
    /\ entries' = IF backend = "memory"
                  THEN Newest(Append(Without(p), p), MaxEntries)
                  ELSE Append(Without(p), p)
    /\ left' = [left EXCEPT ![p] = Ttl]

\* RedisCache.set: an outage is swallowed.
MayPut(p) == Put(p) \/ (backend = "redis" /\ UNCHANGED <<entries, left>>)

\* InMemoryCache.get moves a hit to the fresh end and drops an expired entry.
Look(p) ==
    \/ backend = "redis" /\ UNCHANGED entries
    \/ backend = "memory" /\ Valid(p) /\ entries' = Append(Without(p), p)
    \/ backend = "memory" /\ ~Valid(p) /\ entries' = Without(p)

Drop(p) == entries' = Without(p) /\ UNCHANGED <<backend, left>>

-----------------------------------------------------------------------------
(* A caller.                                                               *)

Go(c, where) == pc' = [pc EXCEPT ![c] = where]

\* A request comes in.  (The name of a caller whose last fetch is still awaited
\* by others is not used again until they have been woken.)
Arrive(c, p) ==
    /\ pc[c] = "away"
    /\ \A d \in Callers : on[d] # c
    /\ \E r \in BOOLEAN :
         /\ refresh' = [refresh EXCEPT ![c] = r]
         /\ Go(c, IF r THEN "joining" ELSE "arriving")
    /\ profile' = [profile EXCEPT ![c] = p]
    /\ UNCHANGED <<cacheVars, inflight, cancelled, on, fetchVars>>

\* The request of c ends, and with its last caller a fetch is forgotten.
Leave(c) ==
    /\ Go(c, "away")
    /\ IF on[c] = NoCaller \/ \E d \in Callers \ {c} : on[d] = on[c]
       THEN UNCHANGED fetchVars
       ELSE /\ fetch' = [fetch EXCEPT ![on[c]] = "none"]
            /\ tier' = [tier EXCEPT ![on[c]] = 1]
    /\ profile' = [profile EXCEPT ![c] = NoProfile]
    /\ on' = [on EXCEPT ![c] = NoCaller]
    /\ refresh' = [refresh EXCEPT ![c] = FALSE]
    /\ cancelled' = [cancelled EXCEPT ![c] = FALSE]

CacheHit(c) ==
    /\ pc[c] = "arriving"
    /\ Valid(profile[c])
    /\ Look(profile[c])
    /\ Leave(c)
    /\ UNCHANGED <<backend, left, inflight>>

LaunchUnregistered(c) ==
    /\ Go(c, "leading")
    /\ on' = [on EXCEPT ![c] = c]
    /\ fetch' = [fetch EXCEPT ![c] = "trying"]
    /\ UNCHANGED inflight

\* create_task: c leads a fetch of its own.
Launch(c) ==
    /\ Go(c, "leading")
    /\ on' = [on EXCEPT ![c] = c]
    /\ fetch' = [fetch EXCEPT ![c] = "trying"]
    /\ inflight' = [inflight EXCEPT ![profile[c]] = c]

JoinOrLaunch(c) ==
    \/ /\ inflight[profile[c]] = NoCaller
       /\ Launch(c)
    \/ /\ inflight[profile[c]] # NoCaller
       /\ Go(c, "waiting")
       /\ on' = [on EXCEPT ![c] = inflight[profile[c]]]
       /\ UNCHANGED <<inflight, fetch>>

\* _fetch_once, up to its first await; get_profile has done with refresh.
FetchOnce(c) ==
    /\ refresh' = [refresh EXCEPT ![c] = FALSE]
    /\ JoinOrLaunch(c)

CacheMissSuspended(c) ==
    /\ pc[c] = "arriving"
    /\ backend = "redis" \/ ~Valid(profile[c])
    /\ Look(profile[c])
    /\ Go(c, "joining")
    /\ UNCHANGED <<backend, left, inflight, on, fetchVars, profile, refresh, cancelled>>

\* The in-process cache answers without suspending its caller, who goes straight
\* on; Redis, which may also fail, answers later.
CacheMiss(c) ==
    /\ pc[c] = "arriving"
    /\ backend = "redis" \/ ~Valid(profile[c])
    /\ Look(profile[c])
    /\ IF backend = "memory"
       THEN FetchOnce(c)
       ELSE Go(c, "joining") /\ UNCHANGED <<inflight, on, fetch, refresh>>
    /\ UNCHANGED <<backend, left, profile, cancelled, tier>>

Join(c) ==
    /\ pc[c] = "joining"
    /\ FetchOnce(c)
    /\ UNCHANGED <<cacheVars, profile, cancelled, tier>>

LeaderWakesKeeping(c) ==
    /\ pc[c] = "leading"
    /\ fetch[c] \in Over
    /\ inflight' = IF cancelled[c] THEN inflight ELSE [inflight EXCEPT ![profile[c]] = NoCaller]
    /\ Leave(c)
    /\ UNCHANGED cacheVars

\* The leader's await returns or raises; either way its fetch is unregistered.
LeaderWakes(c) ==
    /\ pc[c] = "leading"
    /\ fetch[c] \in Over
    /\ inflight' = [inflight EXCEPT ![profile[c]] = NoCaller]
    /\ Leave(c)
    /\ UNCHANGED cacheVars

\* A waiter is answered by the fetch it waited for.
WaiterWakes(c) ==
    /\ pc[c] = "waiting"
    /\ fetch[on[c]] \in Over
    /\ Leave(c)
    /\ UNCHANGED <<cacheVars, inflight>>

CancelUnshielded(c) ==
    \/ /\ pc[c] \in {"arriving", "joining"}
       /\ Leave(c)
       /\ UNCHANGED <<cacheVars, inflight>>
    \/ /\ pc[c] \in {"leading", "waiting"}
       /\ fetch' = [fetch EXCEPT ![on[c]] = IF @ \in Running THEN "cancelled" ELSE @]
       /\ cancelled' = [cancelled EXCEPT ![c] = TRUE]
       /\ UNCHANGED <<cacheVars, inflight, pc, profile, refresh, on, tier>>

\* The server cancels a request.  A waiter only leaves: shield() keeps the fetch
\* from it.  A leader passes the cancellation on to its fetch and waits on.
Cancel(c) ==
    \/ /\ pc[c] \in {"arriving", "joining", "waiting"}
       /\ Leave(c)
       /\ UNCHANGED <<cacheVars, inflight>>
    \/ /\ pc[c] = "leading"
       /\ cancelled' = [cancelled EXCEPT ![c] = TRUE]
       /\ UNCHANGED <<cacheVars, inflight, pc, profile, refresh, on, fetchVars>>

-----------------------------------------------------------------------------
(* A fetch: ProfileFetcher.fetch, then the cache.                          *)

Trying(c) == fetch[c] = "trying" /\ ~cancelled[c]

\* The fetch ends.
Ends(c, outcome) ==
    /\ fetch' = [fetch EXCEPT ![c] = outcome]
    /\ tier' = [tier EXCEPT ![c] = 1]

\* A tier returned a useful profile.  The in-process cache stores it at once,
\* Redis while the fetch waits.
TierUseful(c) ==
    /\ Trying(c)
    /\ Ends(c, IF backend = "memory" THEN "live" ELSE "storing")
    /\ MayPut(profile[c])
    /\ UNCHANGED <<backend, callerVars>>

Stored(c) ==
    /\ fetch[c] = "storing"
    /\ ~cancelled[c]
    /\ Ends(c, "live")
    /\ UNCHANGED <<cacheVars, callerVars>>

\* The tier answered for the profile or for the credential: no other is tried.
TierDecides(c) ==
    /\ Trying(c)
    /\ \E outcome \in {"refused", "session"} : Ends(c, outcome)
    /\ UNCHANGED <<cacheVars, callerVars>>

TierFailsPastTheLast(c) ==
    /\ Trying(c)
    /\ IF tier[c] <= NumTiers
       THEN tier' = [tier EXCEPT ![c] = @ + 1] /\ UNCHANGED fetch
       ELSE Ends(c, "allTiersFailed")
    /\ UNCHANGED <<cacheVars, callerVars>>

\* Any other LinkedInError, or nothing useful: the next tier, if there is one.
TierFails(c) ==
    /\ Trying(c)
    /\ IF tier[c] < NumTiers
       THEN tier' = [tier EXCEPT ![c] = @ + 1] /\ UNCHANGED fetch
       ELSE Ends(c, "allTiersFailed")
    /\ UNCHANGED <<cacheVars, callerVars>>

\* An exception that is no LinkedInError, from a parser say.
TierCrashes(c) ==
    /\ Trying(c)
    /\ Ends(c, "crashed")
    /\ UNCHANGED <<cacheVars, callerVars>>

FetchCancelled(c) ==
    /\ fetch[c] \in Running
    /\ cancelled[c]
    /\ Ends(c, "cancelled")
    /\ UNCHANGED <<cacheVars, callerVars>>

\* ProfileService.invalidate.
Invalidate(p) == Drop(p) /\ UNCHANGED <<callerVars, fetchVars>>

Tick ==
    /\ left' = [p \in Profiles |-> IF left[p] > 0 THEN left[p] - 1 ELSE 0]
    /\ UNCHANGED <<backend, entries, callerVars, fetchVars>>

FetchStep(c) ==
    \/ TierUseful(c)
    \/ Stored(c)
    \/ TierDecides(c)
    \/ TierFails(c)
    \/ TierCrashes(c)
    \/ FetchCancelled(c)

CallerStep(c) ==
    \/ CacheHit(c)
    \/ CacheMiss(c)
    \/ Join(c)
    \/ LeaderWakes(c)
    \/ WaiterWakes(c)

Next ==
    \/ \E c \in Callers :
         \/ \E p \in Profiles : Arrive(c, p)
         \/ CallerStep(c)
         \/ Cancel(c)
         \/ FetchStep(c)
    \/ \E p \in Profiles : Invalidate(p)
    \/ Tick

Spec == Init /\ [][Next]_vars

\* The event loop runs whatever is ready, and every tier ends: each request of
\* the client does (EveryCallReturns of VoyagerClient).
FairSpec ==
    /\ Spec
    /\ \A c \in Callers : WF_vars(CallerStep(c)) /\ WF_vars(FetchStep(c))

-----------------------------------------------------------------------------
(* Properties.                                                             *)

\* However requests, joins, cancellations and wake-ups interleave, a profile is
\* fetched at most once at a time, and the registration that makes callers join
\* a fetch never outlives the request that launched it.
OneFetchPerProfile ==
    /\ \A c, d \in Callers :
          fetch[c] \in Running /\ fetch[d] \in Running /\ profile[c] = profile[d] => c = d
    /\ \A p \in Profiles :
          inflight[p] # NoCaller => pc[inflight[p]] = "leading" /\ profile[inflight[p]] = p

\* The in-process cache stays within its limit and holds each profile once.
CacheWithinLimit ==
    /\ backend = "memory" => Len(entries) <= MaxEntries
    /\ \A i, j \in DOMAIN entries : entries[i] = entries[j] => i = j

\* With the in-process cache no request goes to LinkedIn for a profile the cache
\* could answer, unless it asked for a refresh: nobody can fill the cache between
\* a caller's look at it and the launch of its fetch.
NoWastedFetch ==
    [][\A c \in Callers :
          fetch[c] = "none" /\ fetch'[c] # "none" /\ backend = "memory" =>
              refresh[c] \/ ~Valid(profile[c])]_vars

\* A caller that goes away does not abort the fetch it shares; only the one that
\* launched it does.
WaitersDoNotAbort ==
    [][\A c \in Callers :
          fetch[c] \in Running /\ fetch'[c] = "cancelled" => cancelled[c]]_vars

\* Every request is answered, also one that joins a fetch about to be aborted.
EveryRequestIsAnswered == \A c \in Callers : pc[c] # "away" ~> pc[c] = "away"
=============================================================================
