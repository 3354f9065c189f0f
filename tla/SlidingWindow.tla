--------------------------- MODULE SlidingWindow ---------------------------
(***************************************************************************)
(* What the limiter of src/app/api/deps.py promises a caller, told by all  *)
(* of its past: a request is refused exactly if as many as allowed have    *)
(* been admitted within the window, and is told when the first of these    *)
(* will be out of it.                                                      *)
(***************************************************************************)
EXTENDS Integers, Sequences, FiniteSets

CONSTANTS Identities, MaxRequests, Window, TicksPerSecond, NotRefused

VARIABLES
    now,
    log,  \* the times of every request ever admitted
    due   \* until when each identity has been refused, as its header tells it

vars == <<now, log, due>>

Init ==
    /\ now = 0
    /\ log = [i \in Identities |-> <<>>]
    /\ due = [i \in Identities |-> NotRefused]

\* The admitted requests that still count.
Recent(i) == {k \in DOMAIN log[i] : log[i][k] >= now - Window}

Admit(i) ==
    /\ Cardinality(Recent(i)) < MaxRequests
    /\ log' = [log EXCEPT ![i] = Append(@, now)]
    /\ due' = [due EXCEPT ![i] = NotRefused]
    /\ UNCHANGED now

\* A refusal leaves no trace in what counts.  Its header names whole seconds, of
\* which the first may be over already.
Refuse(i) ==
    /\ Cardinality(Recent(i)) >= MaxRequests
    /\ \E k \in Recent(i) :
         /\ \A j \in Recent(i) : log[i][k] <= log[i][j]
         /\ LET wait == log[i][k] + Window - now
            IN  due' = [due EXCEPT ![i] = now + (wait \div TicksPerSecond + 1) * TicksPerSecond]
    /\ UNCHANGED <<now, log>>

Tick == now' = now + 1 /\ UNCHANGED <<log, due>>

Next == Tick \/ \E i \in Identities : Admit(i) \/ Refuse(i)

Spec == Init /\ [][Next]_vars
=============================================================================
