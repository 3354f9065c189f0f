----------------------------- MODULE QueryIds -----------------------------
(***************************************************************************)
(* QueryIdResolver (src/app/linkedin/query_ids.py): the GraphQL query ids, *)
(* the file they are loaded from and written back to, and the discovery    *)
(* that concurrent callers of ensure_fresh share under one lock.           *)
(*                                                                         *)
(* LinkedIn's build is a number that grows with each deployment; the id of *)
(* a query is the build it was taken from.  A caller, one run of the       *)
(* GraphQL tier, is "away", "waiting" for the lock, "scanning" LinkedIn's  *)
(* bundles under it, "fresh": back from ensure_fresh, or "resolved": the   *)
(* vanity query answered and the cards are next.                           *)
(***************************************************************************)
EXTENDS Integers, FiniteSets

CONSTANTS
    Queries,         \* REQUIRED_QUERIES
    Vanity, Cards,   \* the two of them the GraphQL tier sends
    Tasks,           \* callers of ensure_fresh
    NoTask,          \* none of them
    Ttl,             \* ttl_seconds, in ticks
    FailureBackoff,  \* the 300 seconds a failed discovery waits, in ticks
    MaxBuilds,       \* bound: deployments of LinkedIn
    MaxRestarts      \* bound: restarts of the service

ASSUME QueryIdConstants ==
    /\ NoTask \notin Tasks
    /\ {Vanity, Cards} \subseteq Queries /\ Vanity # Cards
    /\ Ttl \in Nat \ {0}
    /\ FailureBackoff \in 0..Ttl
    /\ MaxBuilds \in Nat \ {0}
    /\ MaxRestarts \in Nat

VARIABLES
    build,     \* the build LinkedIn serves: ids of other builds are rejected
    ids,       \* _ids, 0 for a query without one
    pinned,    \* the queries whose _source is "override"
    file,      \* query_ids.json: the id of each query it loads, 0 for none
    operator,  \* the queries whose id the operator wrote to the file
    age,       \* ticks since _discovered_at, counted up to Stale
    uptime,    \* ticks since the zero of the monotonic clock, up to Stale
    lock,      \* the caller that holds _lock, or NoTask
    pc,        \* where each caller is
    seen,      \* the build a scanning caller read its page from
    restarts,  \* restarts so far
    rejected   \* history: LinkedIn rejected an id and no scan has begun since

vars == <<build, ids, pinned, file, operator, age, uptime, lock, pc, seen, restarts, rejected>>
callers == <<lock, pc, seen>>
world == <<build, file, operator, restarts>>

Builds == 1..MaxBuilds
Stale == Ttl + 1

TypeOK ==
    /\ build \in Builds
    /\ ids \in [Queries -> Builds \cup {0}]
    /\ pinned \subseteq Queries
    /\ file \in [Queries -> Builds \cup {0}]
    /\ operator \subseteq Queries
    /\ age \in 0..Stale
    /\ uptime \in 0..Stale
    /\ lock \in Tasks \cup {NoTask}
    /\ pc \in [Tasks -> {"away", "waiting", "scanning", "fresh", "resolved"}]
    /\ seen \in [Tasks -> Builds \cup {0}]
    /\ restarts \in 0..MaxRestarts
    /\ rejected \in BOOLEAN

Missing == {q \in Queries : ids[q] = 0}
IsStale == age > Ttl
Needed == IsStale \/ Missing # {}

\* _load_overrides: whatever the file holds becomes an override.
Load(f) ==
    /\ ids' = f
    /\ pinned' = {q \in Queries : f[q] # 0}

\* A first start: the file holds what the operator put there, if anything.
\* _discovered_at = 0.0 lies uptime in the past.
Init ==
    /\ build = 1
    /\ operator \in SUBSET Queries
    /\ file = [q \in Queries |-> IF q \in operator THEN 1 ELSE 0]
    /\ ids = file
    /\ pinned = operator
    /\ uptime \in 0..Stale
    /\ age = uptime
    /\ lock = NoTask
    /\ pc = [t \in Tasks |-> "away"]
    /\ seen = [t \in Tasks |-> 0]
    /\ restarts = 0
    /\ rejected = FALSE

-----------------------------------------------------------------------------
(* ensure_fresh.                                                           *)

Go(t, where) == pc' = [pc EXCEPT ![t] = where]

\* The check outside the lock.
EnsureFresh(t) ==
    /\ pc[t] = "away"
    /\ Go(t, IF Needed THEN "waiting" ELSE "fresh")
    /\ UNCHANGED <<world, ids, pinned, age, uptime, lock, seen, rejected>>

Scan(t) ==
    /\ Go(t, "scanning")
    /\ lock' = t
    /\ seen' = [seen EXCEPT ![t] = build]
    /\ rejected' = FALSE

BeginScanUnchecked(t) ==
    /\ pc[t] = "waiting"
    /\ lock = NoTask
    /\ Scan(t)
    /\ UNCHANGED <<world, ids, pinned, age, uptime>>

\* The check under the lock: another caller may have done the work.  The page
\* read first names the bundles, so it fixes the build that is scanned.
BeginScan(t) ==
    /\ pc[t] = "waiting"
    /\ lock = NoTask
    /\ IF Needed
       THEN Scan(t)
       ELSE Go(t, "fresh") /\ UNCHANGED <<lock, seen, rejected>>
    /\ UNCHANGED <<world, ids, pinned, age, uptime>>

EndScan(t) ==
    /\ pc[t] = "scanning"
    /\ Go(t, "fresh")
    /\ lock' = NoTask
    /\ seen' = [seen EXCEPT ![t] = 0]
    /\ UNCHANGED <<uptime, build, operator, restarts, rejected>>

AdoptMissing(t, found) ==
    /\ ids' = [q \in Queries |-> IF q \in found /\ ids[q] = 0 THEN seen[t] ELSE ids[q]]
    /\ UNCHANGED pinned

\* Every id found replaces the one at hand, unless an override holds its place.
Adopt(t, found) ==
    /\ ids' = [q \in Queries |-> IF q \in found \ pinned THEN seen[t] ELSE ids[q]]
    /\ UNCHANGED pinned

\* What is left of a file whose writing was cut short: no JSON, so no id is loaded.
Torn == [q \in Queries |-> 0]

DiscoveredWritesFound(t) ==
    /\ EndScan(t)
    /\ \E found \in SUBSET Queries \ {{}} :
         /\ Adopt(t, found)
         /\ file' = [q \in Queries |-> IF q \in found \ pinned THEN seen[t] ELSE 0]
    /\ age' = 0

\* Some ids were found: they are adopted, the clock restarts, and all ids are
\* written back to the file.  It is written in place: it may stay as it was, hold
\* them all, or be torn, by an OSError or by the crash that a Restart then is.
Discovered(t) ==
    /\ EndScan(t)
    /\ \E found \in SUBSET Queries \ {{}} : Adopt(t, found)
    /\ age' = 0
    /\ file' \in {file, ids', Torn}

DiscoveredAll(t) == Discovered(t) /\ \A q \in Queries \ pinned : ids'[q] = seen[t]

\* No bundle on the page or no id in the bundles: nothing is noted at all.
FoundNothing(t) ==
    /\ EndScan(t)
    /\ UNCHANGED <<ids, pinned, age, file>>

BackoffSwapped == FailureBackoff - Ttl

BackoffAge == Ttl - FailureBackoff

\* The page could not be loaded: count as stale again after the back-off.
DiscoveryFailed(t) ==
    /\ EndScan(t)
    /\ age' = BackoffAge
    /\ UNCHANGED <<ids, pinned, file>>

-----------------------------------------------------------------------------
(* The use of an id, and the world around.                                 *)

\* LinkedIn knows the ids of its present build only.
Accepted(q) == ids[q] = build

\* Without every required id the tier steps aside; otherwise the vanity query
\* goes first.  Its rejection ends the tier, and that is all it does.
ResolveUrn(t) ==
    /\ pc[t] = "fresh"
    /\ Go(t, IF Missing = {} /\ Accepted(Vanity) THEN "resolved" ELSE "away")
    /\ rejected' = (rejected \/ (Missing = {} /\ ~Accepted(Vanity)))
    /\ UNCHANGED <<world, ids, pinned, age, uptime, lock, seen>>

\* A card's rejection invalidates: the time of discovery becomes zero on the
\* monotonic clock.  Either way the tier is done.
FetchCards(t) ==
    /\ pc[t] = "resolved"
    /\ Go(t, "away")
    /\ age' = IF Accepted(Cards) THEN age ELSE uptime
    /\ rejected' = (rejected \/ ~Accepted(Cards))
    /\ UNCHANGED <<world, ids, pinned, uptime, lock, seen>>

\* LinkedIn deploys: the ids in use rotate.
Deploy ==
    /\ build < MaxBuilds
    /\ build' = build + 1
    /\ UNCHANGED <<ids, pinned, file, operator, age, uptime, restarts, rejected, callers>>

\* The service restarts at any moment; the host, and so the clock, runs on.
Restart ==
    /\ restarts < MaxRestarts
    /\ restarts' = restarts + 1
    /\ Load(file)
    /\ age' = uptime
    /\ lock' = NoTask
    /\ pc' = [t \in Tasks |-> "away"]
    /\ seen' = [t \in Tasks |-> 0]
    /\ rejected' = FALSE
    /\ UNCHANGED <<build, file, operator, uptime>>

Older(ticks) == IF ticks < Stale THEN ticks + 1 ELSE Stale

Tick ==
    /\ age' = Older(age)
    /\ uptime' = Older(uptime)
    /\ UNCHANGED <<world, ids, pinned, rejected, callers>>

Next ==
    \/ \E t \in Tasks :
         \/ EnsureFresh(t)
         \/ BeginScan(t)
         \/ Discovered(t)
         \/ FoundNothing(t)
         \/ DiscoveryFailed(t)
         \/ ResolveUrn(t)
         \/ FetchCards(t)
    \/ Deploy
    \/ Restart
    \/ Tick

Spec == Init /\ [][Next]_vars

\* Requests keep coming, scans end, and a scan that is tried again and again
\* finds each id that LinkedIn publishes.
FairSpec ==
    /\ Spec
    /\ WF_vars(Tick)
    /\ \A t \in Tasks :
         /\ WF_vars(EnsureFresh(t))
         /\ SF_vars(BeginScan(t))
         /\ WF_vars(Discovered(t) \/ FoundNothing(t) \/ DiscoveryFailed(t))
         /\ WF_vars(ResolveUrn(t) \/ FetchCards(t))
         /\ SF_vars(DiscoveredAll(t))

-----------------------------------------------------------------------------

\* The id the operator chose is the one in use, as an override.
Overridden(q) == q \in pinned /\ ids[q] = 1

\* What the operator wrote stays in use through discoveries, failed or not, their
\* write-backs and restarts; the one thing that ends it is a restart that finds
\* the file torn by an earlier write-back.
OperatorWins ==
    [][\A q \in operator :
          Overridden(q) => Overridden(q)' \/ (restarts' # restarts /\ file = Torn)]_vars

\* At most one caller scans LinkedIn's bundles at a time, and one that waited
\* for another's scan does not repeat it when that succeeded.
NoRepeatedScan ==
    [][\A t \in Tasks :
          pc[t] # "scanning" /\ pc'[t] = "scanning" =>
              /\ \A u \in Tasks : pc[u] # "scanning"
              /\ age > Ttl \/ \E q \in Queries : ids[q] = 0]_vars

\* Discovery lets the service heal itself: once LinkedIn's build stays put, every
\* id the operator did not choose becomes and stays the current one.
Heals ==
    \A q \in Queries : <>[](q \in operator \/ ids[q] = build)

\* It does so within one life of the service.
HealsUnlessRestarted == [](restarts = 0) => Heals

\* A rejected id is not used again before discovery has been re-run.
RejectionForcesDiscovery ==
    [][\A t \in Tasks : pc[t] = "away" /\ pc'[t] = "fresh" => ~rejected]_vars
=============================================================================
