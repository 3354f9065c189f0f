---------------------------- MODULE PacerProofs ----------------------------
(* The pacing gap, for every number of callers, delay and jitter.          *)
EXTENDS Pacer, TLAPS

\* Sleeping under the lock is what carries the gap: the invariant adds to the
\* shapes of the variables only that a sleeper holds the lock and that its
\* remaining sleep and the elapsed silence together cover the delay.
Inv == TypeOK /\ GapCovered

LEMMA InvStep == Inv /\ [Next]_vars => Inv'
<1>1. SUFFICES ASSUME TypeOK, GapCovered, [Next]_vars PROVE TypeOK' /\ GapCovered'
  BY DEF Inv
<1>2. /\ NoTask \notin Tasks /\ MinDelay \in Nat /\ Jitter \in Nat
      /\ LongestDelay \in Nat /\ LongestDelay = MinDelay + Jitter
  BY PacerConstants DEF LongestDelay
<1>3. ASSUME NEW t \in Tasks, Arrive(t) PROVE TypeOK' /\ GapCovered'
  BY <1>1, <1>3 DEF TypeOK, GapCovered, Arrive
<1>4. ASSUME NEW t \in Tasks, Enter(t) PROVE TypeOK' /\ GapCovered'
  <2>1. PICK delay \in MinDelay..LongestDelay : sleep' = [sleep EXCEPT ![t] = Remaining(delay)]
    BY <1>4 DEF Enter
  <2>2. Remaining(delay) \in 0..LongestDelay /\ Remaining(delay) + elapsed >= MinDelay
    BY <1>1, <1>2, <2>1 DEF TypeOK, Remaining
  <2>3. TypeOK'
    BY <1>1, <1>4, <2>1, <2>2 DEF TypeOK, Enter
  <2>4. GapCovered'
    BY <1>1, <1>2, <1>4, <2>1, <2>2 DEF TypeOK, GapCovered, Enter
  <2> QED
    BY <2>3, <2>4
<1>5. ASSUME NEW t \in Tasks, Leave(t) PROVE TypeOK' /\ GapCovered'
  <2>1. TypeOK'
    BY <1>1, <1>2, <1>5 DEF TypeOK, Leave
  <2>2. \A u \in Tasks : pc'[u] # "sleeping"
    BY <1>1, <1>5 DEF TypeOK, GapCovered, Leave
  <2> QED
    BY <2>1, <2>2 DEF GapCovered
<1>6. CASE Tick
  <2>1. TypeOK'
    BY <1>1, <1>2, <1>6 DEF TypeOK, Tick
  <2>2. ASSUME NEW u \in Tasks, pc'[u] = "sleeping"
        PROVE  lock' = u /\ sleep'[u] + elapsed' >= MinDelay
    BY <1>1, <1>2, <1>6, <2>2 DEF TypeOK, GapCovered, Tick
  <2> QED
    BY <2>1, <2>2 DEF GapCovered
<1>7. CASE UNCHANGED vars
  BY <1>1, <1>7 DEF TypeOK, GapCovered, vars
<1> QED
  BY <1>1, <1>3, <1>4, <1>5, <1>6, <1>7 DEF Next

LEMMA InvInit == Init => Inv
BY PacerConstants DEF Init, Inv, TypeOK, GapCovered, LongestDelay

\* The variables keep their types: no caller sleeps longer than delay and jitter.
THEOREM TypeCorrect == Spec => []TypeOK
<1>1. Inv => TypeOK
  BY DEF Inv
<1> QED
  BY <1>1, InvInit, InvStep, PTL DEF Spec

\* Sleepers hold the lock and cover the gap (_pace, for any callers and delays).
THEOREM GapIsCovered == Spec => []GapCovered
<1>1. Inv => GapCovered
  BY DEF Inv
<1> QED
  BY <1>1, InvInit, InvStep, PTL DEF Spec

\* No two requests go out closer together than min_delay.
THEOREM GapIsKept == Spec => MinimumGap
<1>1. Inv /\ [Next]_vars => [\A t \in Tasks : Leave(t) => elapsed >= MinDelay]_vars
  <2>1. SUFFICES ASSUME Inv, NEW t \in Tasks, Leave(t) PROVE elapsed >= MinDelay
    OBVIOUS
  <2>2. MinDelay \in Nat /\ elapsed \in Int
    BY <2>1, PacerConstants DEF Inv, TypeOK, LongestDelay
  <2> QED
    BY <2>1, <2>2 DEF Inv, GapCovered, Leave
<1> QED
  BY <1>1, InvInit, InvStep, PTL DEF Spec, MinimumGap

\* The lock is never left behind: whoever waits can enter, or waits for a sleeper
\* who sleeps no longer than delay and jitter.
THEOREM QueueIsNeverBlocked ==
    Spec => [](lock # NoTask => pc[lock] = "sleeping" /\ sleep[lock] \in 0..LongestDelay)
<1> DEFINE Held == lock # NoTask => pc[lock] = "sleeping"
<1>1. Init => Held
  BY DEF Init
<1>2. ASSUME Inv, Held, [Next]_vars PROVE Held'
  <2>1. ASSUME NEW t \in Tasks, Arrive(t) PROVE Held'
    BY <1>2, <2>1 DEF Inv, TypeOK, Arrive
  <2>2. ASSUME NEW t \in Tasks, Enter(t) PROVE Held'
    BY <1>2, <2>2 DEF Inv, TypeOK, Enter
  <2>3. ASSUME NEW t \in Tasks, Leave(t) PROVE Held'
    BY <2>3 DEF Leave
  <2>4. CASE Tick \/ UNCHANGED vars
    BY <1>2, <2>4 DEF Tick, vars
  <2> QED
    BY <1>2, <2>1, <2>2, <2>3, <2>4 DEF Next
<1>3. Inv /\ Held => (lock # NoTask => pc[lock] = "sleeping" /\ sleep[lock] \in 0..LongestDelay)
  BY DEF Inv, TypeOK
<1>4. Inv /\ Held /\ [Next]_vars => Held'
  BY <1>2
<1> HIDE DEF Held
<1> QED
  BY <1>1, <1>3, <1>4, InvInit, InvStep, PTL DEF Spec
=============================================================================
