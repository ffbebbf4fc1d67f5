------------------------- MODULE ThreadSuspensionInv -------------------------
(***************************************************************************)
(* The inductive invariant behind the properties of ThreadSuspension: what *)
(* has to be known about locks, labels, calls and barriers for the counts  *)
(* and the exclusion to be preserved by every step.                        *)
(***************************************************************************)
EXTENDS ThreadSuspension

ListLockLabels == {"saLock", "saVisit", "saRetry", "saCheck", "raVisit"}
CountLockLabels == {"saVisit", "saCheck", "raVisit"}
Transit == {"leave", "pass", "passDrain", "toRun", "resumeWait", "resumeWoken"}
ByLabels == {"byTry", "byUse", "byResume", "byRelease"}
Returned == {"byUse", "byResume", "byRelease"}
Gone == {"unborn", "unregistered", "deleted"}

(* Types, with the counters still allowed to be negative.                  *)
Types ==
    /\ state \in [Threads -> {"Runnable", "Suspended"}]
    /\ flags \in [Threads -> SUBSET Flags]
    /\ suspendCount \in [Threads -> Int]
    /\ barriers \in [Threads -> SUBSET Threads]
    /\ claimed \in [Threads -> SUBSET Threads]
    /\ pending \in [Threads -> Int]
    /\ suspendAllCount \in Int
    /\ list \in SUBSET Threads /\ nativePeer \in SUBSET Threads
    /\ unregistering \in Int
    /\ listLock \in Threads \cup {None}
    /\ countLock \in Threads \cup {None}
    /\ mutatorLock \in Threads \cup {None}
    /\ pc \in [Threads -> Labels]
    /\ ret \in [Threads -> RunnableLabels \cup SuspendedLabels]
    /\ todo \in SUBSET Threads
    /\ target \in [Threads -> Threads \cup {None}]
    /\ requested \in SUBSET Threads

(* A lock is held exactly by the thread whose label is inside its section. *)
LockInv ==
    \A t \in Threads :
        /\ pc[t] \in ListLockLabels <=> listLock = t
        /\ pc[t] \in CountLockLabels <=> countLock = t
        /\ pc[t] = "exclusive" <=> mutatorLock = t

(* Where a thread is decides whether it is runnable and on the list.       *)
PlaceInv ==
    \A t \in Threads :
        /\ pc[t] \in RunnableLabels \cup {"leave"} => state[t] = "Runnable"
        /\ pc[t] \notin RunnableLabels \cup {"leave", "byBroadcast"} => state[t] = "Suspended"
        /\ pc[t] \in {"toRun", "resumeWait", "resumeWoken"} => ret[t] \in RunnableLabels
        /\ t \in list <=> pc[t] \notin Gone

(* r is between the call and the end of SuspendThreadBy... or Resume.      *)
InBy(r) == pc[r] \in ByLabels \/ (pc[r] \in Transit /\ ret[r] \in ByLabels)
HasReturned(r) == pc[r] \in Returned \/ (pc[r] \in Transit /\ ret[r] \in Returned)

CallInv ==
    /\ \A r \in requested : InBy(r) /\ target[r] \in list
    /\ \A r \in Threads :
        /\ InBy(r) => target[r] \in Threads \ {r}
        /\ HasReturned(r) => r \in requested
        /\ pc[r] \in Visiting \cup {"raVisit"} => todo \subseteq list \ {r}
        /\ pc[r] = "saRetry" => target[r] \in todo
        /\ pc[r] = "saCheck" =>
              target[r] \in (list \ {r}) \ todo /\ r \in barriers[target[r]]

(* r's SuspendAll has reached u and still runs or waits.                   *)
Reached(r, u) ==
    /\ u \in list /\ u # r
    /\ \/ pc[r] \in Visiting /\ u \notin todo
       \/ pc[r] = "saWait"

BarrierInv ==
    \A u \in Threads :
        /\ "ActiveSuspendBarrier" \in flags[u] <=> barriers[u] # {}
        /\ claimed[u] # {} => pc[u] = "passDrain"
        /\ barriers[u] \cap claimed[u] = {}
        /\ \A r \in barriers[u] \cup claimed[u] : Reached(r, u)

(* A runnable thread that a SuspendAll has reached has its barrier; a      *)
(* thread that is out passes it or its owner is about to clear it; once    *)
(* the SuspendAll is through, nobody is runnable; and a thread that        *)
(* SuspendThreadBy... returned is not.                                     *)
StopInv ==
    /\ \A r, u \in Threads :
        /\ r \in barriers[u] =>
              \/ state[u] = "Runnable" \/ pc[u] = "pass"
              \/ pc[r] = "saCheck" /\ target[r] = u
        /\ Reached(r, u) /\ state[u] = "Runnable" => r \in barriers[u]
        /\ pc[r] \in {"saOwn", "exclusive"} /\ u \in list /\ u # r => state[u] # "Runnable"
    /\ \A r \in Threads : HasReturned(r) => state[target[r]] # "Runnable"

Structure == Types /\ LockInv /\ PlaceInv /\ CallInv /\ BarrierInv /\ StopInv

(* Consequences of the counts that the other conjuncts rest on.            *)
HeldMeansFlagged ==
    \A r, u \in Threads : Holds(r, u) => "SuspendRequest" \in flags[u]
ZeroMeansPassed ==
    \A r \in Threads : pc[r] = "saWait" /\ pending[r] <= 0 => Awaited(r) = {}

(* The SuspendAll calls under way.                                         *)
AllCallers == {r \in Threads : pc[r] \in Visiting \cup SuspendedAll}

CountInv ==
    /\ SuspendCountExact
    /\ RequestFlagExact
    /\ suspendAllCount = Cardinality(AllCallers)

PendingInv ==
    /\ PendingExact
    /\ \A r \in Threads : pc[r] \notin Visiting \cup {"saWait"} => pending[r] = 0

IInv == Structure /\ CountInv /\ PendingInv
=============================================================================
