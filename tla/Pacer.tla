------------------------------- MODULE Pacer -------------------------------
(***************************************************************************)
(* VoyagerClient._pace (src/app/linkedin/client.py): the gap between two   *)
(* requests to LinkedIn.  The callers are those that hold a permit of the  *)
(* client's semaphore, the state called "pacing" in VoyagerClient.         *)
(***************************************************************************)
EXTENDS Integers

CONSTANTS
    Tasks,     \* callers that may pace at the same time
    NoTask,    \* none of them
    MinDelay,  \* min_delay_ms, in ticks
    Jitter     \* jitter_ms, in ticks

ASSUME PacerConstants ==
    /\ NoTask \notin Tasks
    /\ MinDelay \in Nat
    /\ Jitter \in Nat

VARIABLES
    lock,     \* the caller that holds _pace_lock, or NoTask
    pc,       \* "away", "waiting" for the lock, or "sleeping" with it
    sleep,    \* ticks each caller still sleeps
    elapsed   \* ticks since _last_request_at, counted up to LongestDelay

vars == <<lock, pc, sleep, elapsed>>

\* No delay is longer, so a longer silence makes no difference.
LongestDelay == MinDelay + Jitter

TypeOK ==
    /\ lock \in Tasks \cup {NoTask}
    /\ pc \in [Tasks -> {"away", "waiting", "sleeping"}]
    /\ sleep \in [Tasks -> 0..LongestDelay]
    /\ elapsed \in 0..LongestDelay

\* _last_request_at = 0.0 lies far in the past.
Init ==
    /\ lock = NoTask
    /\ pc = [t \in Tasks |-> "away"]
    /\ sleep = [t \in Tasks |-> 0]
    /\ elapsed = LongestDelay

Arrive(t) ==
    /\ pc[t] = "away"
    /\ pc' = [pc EXCEPT ![t] = "waiting"]
    /\ UNCHANGED <<lock, sleep, elapsed>>

RemainingSigned(delay) == delay - elapsed

\* How long a caller that finds this silence must sleep.
Remaining(delay) == IF elapsed < delay THEN delay - elapsed ELSE 0

EnterUnlocked(t) ==
    /\ pc[t] = "waiting"
    /\ lock' = t
    /\ pc' = [pc EXCEPT ![t] = "sleeping"]
    /\ \E delay \in MinDelay..LongestDelay : sleep' = [sleep EXCEPT ![t] = Remaining(delay)]
    /\ UNCHANGED elapsed

\* Under the lock: read the clock, draw the jitter, go to sleep.
Enter(t) ==
    /\ pc[t] = "waiting"
    /\ lock = NoTask
    /\ lock' = t
    /\ pc' = [pc EXCEPT ![t] = "sleeping"]
    /\ \E delay \in MinDelay..LongestDelay : sleep' = [sleep EXCEPT ![t] = Remaining(delay)]
    /\ UNCHANGED elapsed

LeaveLocked(t) ==
    /\ pc[t] = "sleeping"
    /\ sleep[t] = 0
    /\ elapsed' = 0
    /\ pc' = [pc EXCEPT ![t] = "away"]
    /\ UNCHANGED <<lock, sleep>>

\* Awake: stamp the request, which is sent without a further wait, and unlock.
Leave(t) ==
    /\ pc[t] = "sleeping"
    /\ sleep[t] = 0
    /\ elapsed' = 0
    /\ lock' = NoTask
    /\ pc' = [pc EXCEPT ![t] = "away"]
    /\ UNCHANGED sleep

Tick ==
    /\ elapsed' = IF elapsed < LongestDelay THEN elapsed + 1 ELSE LongestDelay
    /\ sleep' = [t \in Tasks |-> IF sleep[t] > 0 THEN sleep[t] - 1 ELSE 0]
    /\ UNCHANGED <<lock, pc>>

Next ==
    \/ \E t \in Tasks : Arrive(t) \/ Enter(t) \/ Leave(t)
    \/ Tick

Spec == Init /\ [][Next]_vars

\* The clock moves on; asyncio wakes the lock's waiters first come first served.
FairSpec ==
    /\ Spec
    /\ WF_vars(Tick)
    /\ \A t \in Tasks : SF_vars(Enter(t)) /\ WF_vars(Leave(t))

-----------------------------------------------------------------------------

\* A caller that sleeps will have slept out the gap when it wakes, whatever
\* silence it found and whoever queues behind it.
GapCovered ==
    \A t \in Tasks :
        pc[t] = "sleeping" => lock = t /\ sleep[t] + elapsed >= MinDelay

\* Two requests to LinkedIn are never closer than the minimum delay, however
\* many callers want to send.
MinimumGap == [][\A t \in Tasks : Leave(t) => elapsed >= MinDelay]_vars

\* Every caller gets its turn.
EveryoneSends == \A t \in Tasks : pc[t] = "waiting" ~> pc[t] = "away"
=============================================================================
