--------------------------- MODULE QueryIdsProofs ---------------------------
(***************************************************************************)
(* For all queries, callers, builds and restarts: an id the operator wrote *)
(* is displaced by no discovery, and by a restart only when the file is    *)
(* torn; no two callers scan LinkedIn's bundles at once.                   *)
(***************************************************************************)
EXTENDS QueryIds, TLAPS

\* The constants' part of the types that the steps rest on.
LEMMA Ranges ==
    /\ 1 \in Builds
    /\ BackoffAge \in 0..Stale
    /\ 0 \in 0..Stale
    /\ \A n \in 0..Stale : Older(n) \in 0..Stale
BY QueryIdConstants DEF Builds, BackoffAge, Stale, Older

\* The initial states are well typed.
LEMMA InitTypes == Init => TypeOK
<1> SUFFICES ASSUME Init PROVE TypeOK
  OBVIOUS
<1>1. operator \subseteq Queries /\ uptime \in 0..Stale
  BY DEF Init
<1>2. file \in [Queries -> Builds \cup {0}]
  BY <1>1, Ranges DEF Init
<1>3. build \in Builds /\ restarts \in 0..MaxRestarts
  BY Ranges, QueryIdConstants DEF Init
<1> QED
  BY <1>1, <1>2, <1>3 DEF Init, TypeOK

\* Every step keeps the types.
LEMMA StepTypes == TypeOK /\ [Next]_vars => TypeOK'
<1> SUFFICES ASSUME TypeOK, [Next]_vars PROVE TypeOK'
  OBVIOUS
<1> USE DEF callers, world
<1>1. ASSUME NEW t \in Tasks, EnsureFresh(t) PROVE TypeOK'
  BY <1>1 DEF EnsureFresh, Go, TypeOK
<1>2. ASSUME NEW t \in Tasks, BeginScan(t) PROVE TypeOK'
  <2>1. CASE Needed
    BY <1>2, <2>1 DEF BeginScan, Scan, Go, TypeOK
  <2>2. CASE ~Needed
    BY <1>2, <2>2 DEF BeginScan, Go, TypeOK
  <2> QED
    BY <2>1, <2>2
<1>3. ASSUME NEW t \in Tasks, Discovered(t) PROVE TypeOK'
  <2>1. PICK found \in SUBSET Queries : Adopt(t, found)
    BY <1>3 DEF Discovered
  <2>2. ids' \in [Queries -> Builds \cup {0}] /\ pinned' \subseteq Queries
    BY <2>1 DEF TypeOK, Adopt
  <2>3. file' \in [Queries -> Builds \cup {0}]
    BY <1>3, <2>2 DEF Discovered, Torn, TypeOK
  <2> QED
    BY <1>3, <2>2, <2>3, Ranges DEF Discovered, EndScan, Go, TypeOK
<1>4. ASSUME NEW t \in Tasks, FoundNothing(t) PROVE TypeOK'
  BY <1>4 DEF FoundNothing, EndScan, Go, TypeOK
<1>5. ASSUME NEW t \in Tasks, DiscoveryFailed(t) PROVE TypeOK'
  BY <1>5, Ranges DEF DiscoveryFailed, EndScan, Go, TypeOK
<1>6. ASSUME NEW t \in Tasks, ResolveUrn(t) PROVE TypeOK'
  BY <1>6 DEF ResolveUrn, Go, TypeOK
<1>7. ASSUME NEW t \in Tasks, FetchCards(t) PROVE TypeOK'
  BY <1>7 DEF FetchCards, Go, TypeOK
<1>8. CASE Deploy
  <2>1. build' \in Builds
    BY <1>8, QueryIdConstants DEF Deploy, TypeOK, Builds
  <2> QED
    BY <1>8, <2>1 DEF Deploy, TypeOK
<1>9. CASE Restart
  <2>1. restarts' \in 0..MaxRestarts
    BY <1>9, QueryIdConstants DEF Restart, TypeOK
  <2> QED
    BY <1>9, <2>1 DEF Restart, Load, TypeOK
<1>10. CASE Tick
  BY <1>10, Ranges DEF Tick, TypeOK
<1>11. CASE UNCHANGED vars
  BY <1>11 DEF vars, TypeOK
<1> QED
  BY <1>1, <1>2, <1>3, <1>4, <1>5, <1>6, <1>7, <1>8, <1>9, <1>10, <1>11 DEF Next

\* The variables keep their types.
THEOREM TypeCorrect == Spec => []TypeOK
BY InitTypes, StepTypes, PTL DEF Spec

-----------------------------------------------------------------------------
(* The operator's ids.                                                     *)

\* Whatever of the operator's is in use, the file still holds, unless it is torn.
FileKeepsOverrides == \A q \in operator : Overridden(q) => file[q] = 1 \/ file = Torn

\* A scan passes over every override.
LEMMA AdoptKeepsOverrides ==
    ASSUME TypeOK, NEW t \in Tasks, NEW found \in SUBSET Queries, Adopt(t, found),
           NEW q \in operator
    PROVE  /\ Overridden(q) => Overridden(q)'
           /\ Overridden(q)' => Overridden(q)
<1>1. q \in Queries /\ pinned' = pinned
  BY DEF TypeOK, Adopt
<1>2. q \in pinned => ids'[q] = ids[q]
  BY <1>1 DEF Adopt
<1> QED
  BY <1>1, <1>2 DEF Overridden

\* A step that brings no ids and writes no file.
LEMMA Others ==
    ASSUME TypeOK, [Next]_vars, ~Restart, \A t \in Tasks : ~Discovered(t)
    PROVE  UNCHANGED <<ids, pinned, file, operator>>
BY DEF Next, EnsureFresh, BeginScan, FoundNothing, DiscoveryFailed, EndScan,
       ResolveUrn, FetchCards, Deploy, Tick, vars, world

LEMMA FileStep == TypeOK /\ FileKeepsOverrides /\ [Next]_vars => FileKeepsOverrides'
<1> SUFFICES ASSUME TypeOK, FileKeepsOverrides, [Next]_vars, NEW q \in operator', Overridden(q)'
             PROVE  file'[q] = 1 \/ file' = Torn
  BY DEF FileKeepsOverrides, Torn
<1>1. ASSUME NEW t \in Tasks, Discovered(t) PROVE file'[q] = 1 \/ file' = Torn
  <2>1. operator' = operator /\ file' \in {file, ids', Torn}
    BY <1>1 DEF Discovered, EndScan
  <2>2. PICK found \in SUBSET Queries : Adopt(t, found)
    BY <1>1 DEF Discovered
  <2>3. Overridden(q)
    BY <2>1, <2>2, AdoptKeepsOverrides
  <2> QED
    BY <2>1, <2>3 DEF FileKeepsOverrides, Overridden
<1>2. CASE Restart
  BY <1>2 DEF Restart, Load, Overridden
<1>3. CASE ~Restart /\ \A t \in Tasks : ~Discovered(t)
  BY <1>3, Others DEF FileKeepsOverrides, Overridden
<1> QED
  BY <1>1, <1>2, <1>3

\* In every interleaving of discoveries, write-backs, whole, failed or torn, and
\* restarts (_discover, _persist, _load_overrides) what the operator wrote stays
\* in use until a restart finds the file torn.
THEOREM OverridesWin == Spec => OperatorWins
<1>1. Init => FileKeepsOverrides
  BY DEF Init, FileKeepsOverrides
<1>2. ASSUME TypeOK, FileKeepsOverrides, [Next]_vars, NEW q \in operator, Overridden(q)
      PROVE  Overridden(q)' \/ (restarts' # restarts /\ file = Torn)
  <2>1. ASSUME NEW t \in Tasks, Discovered(t) PROVE Overridden(q)'
    BY <1>2, <2>1, AdoptKeepsOverrides DEF Discovered
  <2>2. CASE Restart
    <3>1. restarts' # restarts
      BY <1>2, <2>2, QueryIdConstants DEF Restart, TypeOK
    <3>2. ASSUME file[q] = 1 PROVE Overridden(q)'
      BY <1>2, <2>2, <3>2 DEF Restart, Load, Overridden, TypeOK
    <3> QED
      BY <1>2, <3>1, <3>2 DEF FileKeepsOverrides
  <2>3. CASE ~Restart /\ \A t \in Tasks : ~Discovered(t)
    BY <1>2, <2>3, Others DEF Overridden
  <2> QED
    BY <2>1, <2>2, <2>3
<1>3. TypeOK /\ FileKeepsOverrides /\ [Next]_vars =>
        [\A q \in operator :
           Overridden(q) => Overridden(q)' \/ (restarts' # restarts /\ file = Torn)]_vars
  BY <1>2
<1> QED
  BY <1>1, <1>3, InitTypes, StepTypes, FileStep, PTL DEF Spec, OperatorWins

\* Whoever scans holds the lock.
ScannerHoldsLock == \A t \in Tasks : pc[t] = "scanning" => lock = t

\* The lock is held throughout a scan.
LEMMA LockStep == TypeOK /\ ScannerHoldsLock /\ [Next]_vars => ScannerHoldsLock'
<1> SUFFICES ASSUME TypeOK, ScannerHoldsLock, [Next]_vars, NEW u \in Tasks, pc'[u] = "scanning"
             PROVE  lock' = u
  BY DEF ScannerHoldsLock
<1> USE QueryIdConstants DEF ScannerHoldsLock, Go
<1>1. ASSUME NEW t \in Tasks,
             EnsureFresh(t) \/ ResolveUrn(t) \/ FetchCards(t)
      PROVE  lock' = u
  BY <1>1 DEF EnsureFresh, ResolveUrn, FetchCards, TypeOK
<1>2. ASSUME NEW t \in Tasks, BeginScan(t) PROVE lock' = u
  BY <1>2 DEF BeginScan, Scan, TypeOK
<1>3. ASSUME NEW t \in Tasks, EndScan(t) PROVE lock' = u
  BY <1>3 DEF EndScan, TypeOK
<1>4. CASE Restart
  BY <1>4 DEF Restart
<1>5. CASE Deploy \/ Tick \/ UNCHANGED vars
  BY <1>5 DEF Deploy, Tick, vars, callers
<1> QED
  BY <1>1, <1>2, <1>3, <1>4, <1>5 DEF Next, Discovered, FoundNothing, DiscoveryFailed

\* A scan begins only when no other is under way and, checked under the lock, it
\* is still needed.
THEOREM ScansAreNotRepeated == Spec => NoRepeatedScan
<1>1. Init => ScannerHoldsLock
  BY DEF Init, ScannerHoldsLock
<1>2. ASSUME TypeOK, ScannerHoldsLock, [Next]_vars, NEW t \in Tasks,
             pc[t] # "scanning", pc'[t] = "scanning"
      PROVE  /\ \A u \in Tasks : pc[u] # "scanning"
             /\ age > Ttl \/ \E q \in Queries : ids[q] = 0
  <2>1. PICK u \in Tasks : BeginScan(u)
    BY <1>2 DEF Next, EnsureFresh, Discovered, FoundNothing, DiscoveryFailed, EndScan,
                ResolveUrn, FetchCards, Deploy, Restart, Tick, vars, callers, Go, TypeOK
  <2>2. Needed
    BY <1>2, <2>1 DEF BeginScan, Go, TypeOK
  <2>3. \A v \in Tasks : pc[v] # "scanning"
    BY <1>2, <2>1, QueryIdConstants DEF BeginScan, ScannerHoldsLock
  <2> QED
    BY <2>2, <2>3 DEF Needed, IsStale, Missing
<1>3. TypeOK /\ ScannerHoldsLock /\ [Next]_vars
        => [\A t \in Tasks :
              pc[t] # "scanning" /\ pc'[t] = "scanning" =>
                  /\ \A u \in Tasks : pc[u] # "scanning"
                  /\ age > Ttl \/ \E q \in Queries : ids[q] = 0]_vars
  BY <1>2
<1> QED
  BY <1>1, <1>3, LockStep, InitTypes, StepTypes, PTL DEF Spec, NoRepeatedScan

-----------------------------------------------------------------------------
(* Ids never go back.                                                      *)

\* No id is newer than LinkedIn's build, none in the file newer than the one in
\* use, and none in use newer than the page that a scan under way has read.
Orderly ==
    /\ \A q \in Queries : file[q] <= ids[q] /\ ids[q] <= build
    /\ \A t \in Tasks : pc[t] = "scanning" =>
          /\ seen[t] <= build
          /\ \A q \in Queries : ids[q] <= seen[t]

\* What a scan brings is at least as new as what it replaces.
LEMMA AdoptAdvances ==
    ASSUME TypeOK, Orderly, NEW t \in Tasks, pc[t] = "scanning", NEW found \in SUBSET Queries,
           Adopt(t, found), NEW q \in Queries
    PROVE  ids[q] <= ids'[q] /\ ids'[q] <= build
<1>1. /\ ids[q] \in Int /\ build \in Int /\ seen[t] \in Int
      /\ ids[q] <= build /\ ids[q] <= seen[t] /\ seen[t] <= build
  BY DEF TypeOK, Orderly, Builds
<1>2. ids'[q] = seen[t] \/ ids'[q] = ids[q]
  BY DEF Adopt, TypeOK
<1> QED
  BY <1>1, <1>2

\* A step that leaves what is known alone, a scan's end included.
LEMMA StaysOrderly ==
    ASSUME TypeOK, Orderly, UNCHANGED <<ids, file, build>>,
           \A t \in Tasks : pc'[t] = "scanning" =>
             \/ pc[t] = "scanning" /\ seen'[t] = seen[t]
             \/ seen'[t] = build
    PROVE  Orderly'
<1>1. build \in Int
  BY DEF TypeOK, Builds
<1> QED
  BY <1>1 DEF Orderly

LEMMA OrderlyStep ==
    TypeOK /\ ScannerHoldsLock /\ Orderly /\ [Next]_vars => Orderly'
<1> SUFFICES ASSUME TypeOK, ScannerHoldsLock, Orderly, [Next]_vars PROVE Orderly'
  OBVIOUS
<1> USE QueryIdConstants DEF Go, world, callers
<1>1. ASSUME NEW t \in Tasks, EnsureFresh(t) \/ ResolveUrn(t) \/ FetchCards(t) PROVE Orderly'
  BY <1>1, StaysOrderly DEF EnsureFresh, ResolveUrn, FetchCards, TypeOK
<1>2. ASSUME NEW t \in Tasks, BeginScan(t) PROVE Orderly'
  BY <1>2, StaysOrderly DEF BeginScan, Scan, TypeOK
<1>3. ASSUME NEW t \in Tasks, FoundNothing(t) \/ DiscoveryFailed(t) PROVE Orderly'
  BY <1>3, StaysOrderly DEF FoundNothing, DiscoveryFailed, EndScan, TypeOK
<1>4. ASSUME NEW t \in Tasks, Discovered(t) PROVE Orderly'
  <2>1. PICK found \in SUBSET Queries : Adopt(t, found)
    BY <1>4 DEF Discovered
  <2>2. pc[t] = "scanning" /\ build' = build /\ file' \in {file, ids', Torn}
    BY <1>4 DEF Discovered, EndScan
  <2>3. \A u \in Tasks : pc'[u] # "scanning"
    BY <1>4 DEF Discovered, EndScan, ScannerHoldsLock, TypeOK
  <2>4. ASSUME NEW q \in Queries PROVE file'[q] <= ids'[q] /\ ids'[q] <= build'
    <3>1. ids[q] <= ids'[q] /\ ids'[q] <= build
      BY <2>1, <2>2, AdoptAdvances
    <3>2. ids[q] \in Int /\ ids'[q] \in Nat /\ file[q] \in Int /\ file[q] <= ids[q]
      BY <2>1 DEF Adopt, TypeOK, Builds, Orderly
    <3>3. file'[q] = file[q] \/ file'[q] = ids'[q] \/ file'[q] = 0
      BY <2>2 DEF Torn
    <3> QED
      BY <2>2, <3>1, <3>2, <3>3
  <2> QED
    BY <2>3, <2>4 DEF Orderly
<1>5. CASE Deploy
  <2>1. /\ build' = build + 1 /\ build \in Int
        /\ UNCHANGED <<ids, file, pc, seen>>
    BY <1>5 DEF Deploy, TypeOK, Builds
  <2>2. ASSUME NEW q \in Queries PROVE ids[q] <= build + 1
    BY <2>1 DEF Orderly, TypeOK, Builds
  <2>3. ASSUME NEW t \in Tasks, pc[t] = "scanning" PROVE seen[t] <= build + 1
    BY <2>1, <2>3 DEF Orderly, TypeOK, Builds
  <2> QED
    BY <2>1, <2>2, <2>3 DEF Orderly
<1>6. CASE Restart
  <2>1. ids' = file /\ file' = file /\ build' = build /\ \A t \in Tasks : pc'[t] = "away"
    BY <1>6 DEF Restart, Load
  <2>2. ASSUME NEW q \in Queries PROVE file[q] <= file[q] /\ file[q] <= build
    BY DEF Orderly, TypeOK, Builds
  <2> QED
    BY <2>1, <2>2 DEF Orderly
<1>7. CASE Tick
  BY <1>7, StaysOrderly DEF Tick
<1>8. CASE UNCHANGED vars
  BY <1>8, StaysOrderly DEF vars
<1> QED
  BY <1>1, <1>2, <1>3, <1>4, <1>5, <1>6, <1>7, <1>8 DEF Next

\* Within one life of the service every id only moves towards LinkedIn's build and
\* never past it, so one that is current stays so until the next deployment,
\* although a page may be read long before what it says is adopted.
IdsNeverGoBack ==
    [][\A q \in Queries : restarts' = restarts => ids[q] <= ids'[q] /\ ids'[q] <= build']_vars

\* No late scan puts an outdated id in the place of a newer one (ensure_fresh,
\* _discover), for any callers, queries and deployments.
THEOREM LateScansDoNoHarm == Spec => IdsNeverGoBack
<1>1. Init => ScannerHoldsLock /\ Orderly
  <2> SUFFICES ASSUME Init PROVE ScannerHoldsLock /\ Orderly
    OBVIOUS
  <2>1. \A q \in Queries : file[q] = ids[q] /\ file[q] \in {0, 1} /\ build = 1
    BY DEF Init
  <2>2. \A q \in Queries : file[q] <= ids[q] /\ ids[q] <= build
    BY <2>1
  <2> QED
    BY <2>2 DEF Init, ScannerHoldsLock, Orderly
<1>2. ASSUME TypeOK, Orderly, Orderly', [Next]_vars, NEW q \in Queries, restarts' = restarts
      PROVE  ids[q] <= ids'[q] /\ ids'[q] <= build'
  <2>1. ids[q] \in Int /\ ids'[q] <= build'
    BY <1>2 DEF TypeOK, Builds, Orderly
  <2>2. CASE UNCHANGED ids
    BY <2>1, <2>2
  <2>3. ASSUME NEW t \in Tasks, Discovered(t) PROVE ids[q] <= ids'[q]
    BY <1>2, <2>3, AdoptAdvances DEF Discovered, EndScan
  <2>4. CASE Restart
    BY <1>2, <2>4, QueryIdConstants DEF Restart, TypeOK
  <2> QED
    BY <1>2, <2>1, <2>2, <2>3, <2>4 DEF Next, EnsureFresh, BeginScan, FoundNothing,
         DiscoveryFailed, ResolveUrn, FetchCards, Deploy, Tick, vars
<1>3. TypeOK /\ Orderly /\ Orderly' /\ [Next]_vars =>
        [\A q \in Queries : restarts' = restarts => ids[q] <= ids'[q] /\ ids'[q] <= build']_vars
  BY <1>2
<1> QED
  BY <1>1, <1>3, LockStep, OrderlyStep, InitTypes, StepTypes, PTL DEF Spec, IdsNeverGoBack
=============================================================================
