-------------------------- MODULE MCThreadSuspension --------------------------
(* Small instances of ThreadSuspension for TLC, with a bound on the calls  *)
(* that suspend others: a thread that never gets to go on is then blocked, *)
(* not starved by callers that come back for ever.                         *)
EXTENDS ThreadSuspensionInv

CONSTANT MaxCalls

VARIABLE calls  \* how often SuspendAll and SuspendThreadBy... were called

CallsSuspend(t) == SuspendAllLockList(t) \/ \E u \in Threads : BySuspend(t, u)

Counted ==
    /\ calls' = IF \E t \in Threads : CallsSuspend(t) THEN calls + 1 ELSE calls
    /\ calls' <= MaxCalls

BoundedSpec ==
    /\ Init /\ calls = 0
    /\ [][Next /\ Counted]_<<vars, calls>>
    /\ \A t \in Threads : SF_<<vars, calls>>(Continue(t) /\ Counted)
=============================================================================
