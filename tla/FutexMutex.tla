----------------------------- MODULE FutexMutex -----------------------------
(***************************************************************************)
(* art::Mutex and a ConditionVariable guarded by it, as built on futexes   *)
(* (runtime/base/mutex.h, runtime/base/mutex.cc).                          *)
(*                                                                         *)
(* state_and_contenders_ is one atomic word: the held bit and a count of   *)
(* threads that must be woken.  A load followed by a successful            *)
(* compare-and-swap is one step, since the swap succeeds only on the value *)
(* loaded; every other access to the word and every system call is a step  *)
(* of its own.  A local variable goes back to 0 when it is dead.           *)
(* Waiting on the condition requeues sleepers from the condition's futex   *)
(* to the word's, so both queues are modelled.                             *)
(***************************************************************************)
EXTENDS Locks

CONSTANTS
    Waiters,       \* threads that wait for the condition
    Signallers,    \* threads that signal it
    Recursive,     \* recursive_
    MaxRecursion   \* bound on recursion_count_

ASSUME MutexAssumption ==
    Recursive \in BOOLEAN /\ MaxRecursion \in Nat \ {0}

VARIABLES
    held,        \* state_and_contenders_ & kHeldMask
    contenders,  \* state_and_contenders_ >> kContenderShift
    owner,       \* exclusive_owner_
    recursion,   \* recursion_count_
    sequence,    \* sequence_ of the condition
    numWaiters,  \* num_waiters_
    lockQueue,   \* sleepers on the address of the word
    condQueue,   \* sleepers on the address of sequence_
    pc,
    cur,         \* contenders in the cur_state a thread expects to sleep on
    seen,        \* cur_sequence of a waiting thread
    saved,       \* old_recursion_count of a waiting thread
    inWait,      \* threads inside WaitHoldingLocks
    calls        \* how often a thread has called to lock or to wait

wordVars == <<held, contenders>>
ownVars == <<owner, recursion>>
condVars == <<sequence, numWaiters, seen, saved, inWait>>
queueVars == <<lockQueue, condQueue>>
vars == <<wordVars, ownVars, condVars, queueVars, pc, cur, calls>>

(* Labels at which a thread has set the held bit and not cleared it yet.   *)
Holding == {"own", "in", "requeueOne", "requeueAll", "cvReturn", "release"}
Labels == Holding \cup
    {"out", "lock", "contend", "futex", "asleep", "reread", "decrement",
     "wake", "cvFutex", "cvAsleep"}

Init ==
    /\ held = FALSE /\ contenders = 0
    /\ owner = None /\ recursion = 0
    /\ sequence = 0 /\ numWaiters = 0
    /\ lockQueue = {} /\ condQueue = {}
    /\ pc = [t \in Threads |-> "out"]
    /\ cur = [t \in Threads |-> 0]
    /\ seen = [t \in Threads |-> 0]
    /\ saved = [t \in Threads |-> 0]
    /\ inWait = {}
    /\ calls = 0

Goto(t, label) == pc' = [pc EXCEPT ![t] = label]

-----------------------------------------------------------------------------
(* ExclusiveLock.                                                          *)

Call(t, label) ==
    /\ pc[t] = label /\ calls < MaxCalls
    /\ calls' = calls + 1

ExclusiveLock(t) ==
    /\ Call(t, "out")
    /\ Goto(t, "lock")
    /\ UNCHANGED <<wordVars, ownVars, condVars, queueVars, cur>>

(* ExclusiveTryLock on a free mutex; on a held one it just fails.          *)
ExclusiveTryLock(t) ==
    /\ Call(t, "out")
    /\ IF held THEN UNCHANGED <<held, pc>> ELSE held' = TRUE /\ Goto(t, "own")
    /\ UNCHANGED <<contenders, ownVars, condVars, queueVars, cur>>

(* A recursive mutex that is already ours.                                 *)
LockAgain(t) ==
    /\ Call(t, "in") /\ Recursive /\ owner = t
    /\ recursion < MaxRecursion
    /\ recursion' = recursion + 1
    /\ UNCHANGED <<wordVars, owner, condVars, queueVars, pc, cur>>

(* Mutant: takes the mutex without looking at the held bit.                *)
AcquireAnyway(t) ==
    /\ pc[t] = "lock"
    /\ held' = TRUE
    /\ Goto(t, "own")
    /\ UNCHANGED <<contenders, ownVars, condVars, queueVars, cur, calls>>

Acquire(t) ==
    /\ pc[t] = "lock"
    /\ ~held
    /\ held' = TRUE
    /\ Goto(t, "own")
    /\ UNCHANGED <<contenders, ownVars, condVars, queueVars, cur, calls>>

(* Held: remember the word and spin in WaitBrieflyFor.                     *)
Contend(t) ==
    /\ pc[t] = "lock"
    /\ held
    /\ cur' = [cur EXCEPT ![t] = contenders]
    /\ Goto(t, "contend")
    /\ UNCHANGED <<wordVars, ownVars, condVars, queueVars, calls>>

SpinSucceeds(t) ==
    /\ pc[t] = "contend"
    /\ ~held
    /\ cur' = [cur EXCEPT ![t] = 0]
    /\ Goto(t, "lock")
    /\ UNCHANGED <<wordVars, ownVars, condVars, queueVars, calls>>

IncrementContenders(t) ==
    /\ pc[t] = "contend"
    /\ contenders' = contenders + 1
    /\ cur' = [cur EXCEPT ![t] = @ + 1]
    /\ Goto(t, "futex")
    /\ UNCHANGED <<held, ownVars, condVars, queueVars, calls>>

(* Mutant: sleeps whatever the word is.                                    *)
FutexWaitAnyway(t) ==
    /\ pc[t] = "futex"
    /\ lockQueue' = lockQueue \cup {t} /\ Goto(t, "asleep")
    /\ cur' = [cur EXCEPT ![t] = 0]
    /\ UNCHANGED <<wordVars, ownVars, condVars, condQueue, calls>>

(* FUTEX_WAIT sleeps only on the expected value, else EAGAIN.              *)
FutexWait(t) ==
    /\ pc[t] = "futex"
    /\ IF held /\ contenders = cur[t]
       THEN lockQueue' = lockQueue \cup {t} /\ Goto(t, "asleep")
       ELSE Goto(t, "reread") /\ UNCHANGED lockQueue
    /\ cur' = [cur EXCEPT ![t] = 0]
    /\ UNCHANGED <<wordVars, ownVars, condVars, condQueue, calls>>

(* Loop until the word was seen free.                                      *)
Reread(t) ==
    /\ pc[t] = "reread"
    /\ IF held
       THEN cur' = [cur EXCEPT ![t] = contenders] /\ Goto(t, "futex")
       ELSE Goto(t, "decrement") /\ UNCHANGED cur
    /\ UNCHANGED <<wordVars, ownVars, condVars, queueVars, calls>>

DecrementContenders(t) ==
    /\ pc[t] = "decrement"
    /\ contenders' = contenders - 1
    /\ Goto(t, "lock")
    /\ UNCHANGED <<held, ownVars, condVars, queueVars, cur, calls>>

Own(t) ==
    /\ pc[t] = "own"
    /\ owner' = t
    /\ recursion' = recursion + 1
    /\ Goto(t, IF t \in inWait THEN "cvReturn" ELSE "in")
    /\ UNCHANGED <<wordVars, condVars, queueVars, cur, calls>>

-----------------------------------------------------------------------------
(* ExclusiveUnlock.                                                        *)

(* Mutant: any unlock of a recursive mutex releases it.                    *)
ExclusiveUnlockAll(t) ==
    /\ pc[t] = "in"
    /\ recursion' = recursion - 1
    /\ owner' = None /\ Goto(t, "release")
    /\ UNCHANGED <<wordVars, condVars, queueVars, cur, calls>>

ExclusiveUnlock(t) ==
    /\ pc[t] = "in"
    /\ recursion' = recursion - 1
    /\ IF recursion = 1
       THEN owner' = None /\ Goto(t, "release")
       ELSE UNCHANGED <<owner, pc>>
    /\ UNCHANGED <<wordVars, condVars, queueVars, cur, calls>>

Unlocked(t) == IF t \in inWait THEN "cvFutex" ELSE "out"

Release(t) ==
    /\ pc[t] = "release"
    /\ held' = FALSE
    /\ Goto(t, IF contenders # 0 THEN "wake" ELSE Unlocked(t))
    /\ UNCHANGED <<contenders, ownVars, condVars, queueVars, cur, calls>>

(* Where a sleeper goes on: one that waited for the condition locks again. *)
Awake(u) == IF pc[u] = "asleep" THEN "reread" ELSE "lock"

(* FUTEX_WAKE of one sleeper, if there is one.                             *)
Wake(t) ==
    /\ pc[t] = "wake"
    /\ IF lockQueue = {}
       THEN Goto(t, Unlocked(t)) /\ UNCHANGED lockQueue
       ELSE \E u \in lockQueue :
               /\ lockQueue' = lockQueue \ {u}
               /\ pc' = [pc EXCEPT ![t] = Unlocked(t), ![u] = Awake(u)]
    /\ UNCHANGED <<wordVars, ownVars, condVars, condQueue, cur, calls>>

(* EINTR, or the time-out of TimedWait or of a monitor's mutex.            *)
Interrupted(t) ==
    /\ pc[t] \in {"asleep", "cvAsleep"}
    /\ lockQueue' = lockQueue \ {t}
    /\ condQueue' = condQueue \ {t}
    /\ Goto(t, Awake(t))
    /\ UNCHANGED <<wordVars, ownVars, condVars, cur, calls>>

-----------------------------------------------------------------------------
(* ConditionVariable.                                                      *)

(* Mutant: the waiter does not count as a contender.                       *)
WaitUncounted(t) ==
    /\ Call(t, "in") /\ t \in Waiters
    /\ numWaiters' = numWaiters + 1
    /\ saved' = [saved EXCEPT ![t] = recursion]
    /\ seen' = [seen EXCEPT ![t] = sequence]
    /\ inWait' = inWait \cup {t}
    /\ recursion' = 0 /\ owner' = None
    /\ Goto(t, "release")
    /\ UNCHANGED <<wordVars, sequence, queueVars, cur>>

(* WaitHoldingLocks up to the release: count the waiter and the contender, *)
(* read the sequence, and unlock whatever the recursion.                   *)
WaitHoldingLocks(t) ==
    /\ Call(t, "in") /\ t \in Waiters
    /\ numWaiters' = numWaiters + 1
    /\ contenders' = contenders + 1
    /\ saved' = [saved EXCEPT ![t] = recursion]
    /\ seen' = [seen EXCEPT ![t] = sequence]
    /\ inWait' = inWait \cup {t}
    /\ recursion' = 0 /\ owner' = None
    /\ Goto(t, "release")
    /\ UNCHANGED <<held, sequence, queueVars, cur>>

(* Sleep, unless a signal came between the release and the call.           *)
WaitOnSequence(t) ==
    /\ pc[t] = "cvFutex"
    /\ IF sequence = seen[t]
       THEN condQueue' = condQueue \cup {t} /\ Goto(t, "cvAsleep")
       ELSE Goto(t, "lock") /\ UNCHANGED condQueue
    /\ UNCHANGED <<wordVars, ownVars, condVars, lockQueue, cur, calls>>

WaitReturns(t) ==
    /\ pc[t] = "cvReturn"
    /\ numWaiters' = numWaiters - 1
    /\ contenders' = contenders - 1
    /\ recursion' = saved[t]
    /\ saved' = [saved EXCEPT ![t] = 0] /\ seen' = [seen EXCEPT ![t] = 0]
    /\ inWait' = inWait \ {t}
    /\ Goto(t, "in")
    /\ UNCHANGED <<held, owner, sequence, queueVars, cur, calls>>

(* Mutant: sleepers are requeued but the sequence stays.                   *)
SignalQuietly(t, label) ==
    /\ pc[t] = "in" /\ t \in Signallers
    /\ numWaiters > 0
    /\ Goto(t, label)
    /\ UNCHANGED <<wordVars, ownVars, condVars, queueVars, cur, calls>>

(* RequeueWaiters of Signal and Broadcast; without waiters it does nothing.*)
(* MaxCalls bounds the sequence too.                                       *)
Signal(t, label) ==
    /\ pc[t] = "in" /\ t \in Signallers
    /\ numWaiters > 0
    /\ sequence < MaxCalls
    /\ sequence' = sequence + 1
    /\ Goto(t, label)
    /\ UNCHANGED <<wordVars, ownVars, numWaiters, seen, saved, inWait, queueVars, cur, calls>>

(* FUTEX_REQUEUE of one sleeper, or of all, to the futex of the mutex.     *)
Requeue(t) ==
    /\ pc[t] \in {"requeueOne", "requeueAll"}
    /\ \E moved \in SUBSET condQueue :
        /\ IF pc[t] = "requeueAll" THEN moved = condQueue
           ELSE Cardinality(moved) = IF condQueue = {} THEN 0 ELSE 1
        /\ condQueue' = condQueue \ moved
        /\ lockQueue' = lockQueue \cup moved
    /\ Goto(t, "in")
    /\ UNCHANGED <<wordVars, ownVars, condVars, cur, calls>>

-----------------------------------------------------------------------------
(* What a thread does by itself once it has called.                        *)
Step(t) ==
    \/ Acquire(t) \/ Contend(t) \/ SpinSucceeds(t) \/ IncrementContenders(t)
    \/ FutexWait(t) \/ Reread(t) \/ DecrementContenders(t) \/ Own(t)
    \/ ExclusiveUnlock(t) \/ Release(t) \/ Wake(t)
    \/ WaitOnSequence(t) \/ WaitReturns(t) \/ Requeue(t)

Choose(t) ==
    \/ ExclusiveLock(t) \/ ExclusiveTryLock(t) \/ LockAgain(t)
    \/ WaitHoldingLocks(t) \/ Interrupted(t)
    \/ Signal(t, "requeueOne") \/ Signal(t, "requeueAll")

Next == \E t \in Threads : Step(t) \/ Choose(t)

Spec == Init /\ [][Next]_vars

-----------------------------------------------------------------------------
(* Every variable stays in its type; recursion_count_, num_waiters_ and    *)
(* the contender count never go negative.                                  *)
TypeOK ==
    /\ held \in BOOLEAN /\ contenders \in Nat
    /\ owner \in Threads \cup {None} /\ recursion \in 0 .. MaxRecursion
    /\ sequence \in Nat /\ numWaiters \in Nat
    /\ lockQueue \subseteq Threads /\ condQueue \subseteq Threads
    /\ pc \in [Threads -> Labels]
    /\ cur \in [Threads -> Nat] /\ seen \in [Threads -> Nat]
    /\ saved \in [Threads -> 0 .. MaxRecursion]
    /\ inWait \subseteq Threads
    /\ calls \in 0 .. MaxCalls

(* IsExclusiveHeld, on which recursion and the assertions rest: the owner  *)
(* is a thread exactly while it is inside, with a recursion to undo, both  *)
(* around recursive locks and after a wait.                                *)
OwnerExact ==
    /\ \A t \in Threads :
        owner = t <=> pc[t] \in {"in", "requeueOne", "requeueAll", "cvReturn"}
    /\ recursion > 0 <=> owner # None

(* Mutual exclusion: the held bit is set exactly while one thread is       *)
(* between its acquiring and its releasing compare-and-swap, there is      *)
(* never a second one, and the owner is that thread.                       *)
MutualExclusion ==
    /\ held <=> \E t \in Threads : pc[t] \in Holding
    /\ \A t, u \in Threads : pc[t] \in Holding /\ pc[u] \in Holding => t = u
    /\ OwnerExact

(* The contender count is the number of threads that are or may go to      *)
(* sleep on the word: those inside the contended path of ExclusiveLock and *)
(* those that wait for the condition, which count twice while they do      *)
(* both.  This is what lets an unlock that sees no contenders skip the     *)
(* wake-up.                                                                *)
Contending == {t \in Threads : pc[t] \in {"futex", "asleep", "reread", "decrement"}}
ContendersExact ==
    contenders = Cardinality(Contending) + Cardinality(inWait)

Signalling == \E t \in Threads : pc[t] \in {"requeueOne", "requeueAll"}

(* No lost signal: of the threads that wait when Signal is called, whether *)
(* asleep or still on their way to sleep, one at least returns; and all of *)
(* them when Broadcast is called.                                          *)
SignalDelivered ==
    /\ \A u \in Waiters :
          (/\ u \in inWait
           /\ \/ Signalling /\ inWait = {u}
              \/ \E t \in Threads : pc[t] = "requeueAll")
          ~> u \notin inWait
    /\ \A S \in {W \in SUBSET Waiters : Cardinality(W) > 1} :
          (Signalling /\ inWait = S) ~> (\E u \in S : u \notin inWait)
=============================================================================
