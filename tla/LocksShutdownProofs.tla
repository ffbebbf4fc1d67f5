-------------------------- MODULE LocksShutdownProofs --------------------------
(***************************************************************************)
(* The locks and the shutdown: mutual exclusion of art::Mutex and the      *)
(* exactness of its contender count, for any number of threads, waiters    *)
(* and recursive locks; readers or one writer in art::ReaderWriterMutex;   *)
(* and what follows for the composition that TLC checks.                   *)
(***************************************************************************)
EXTENDS MCLocksShutdown, FiniteSetTheorems, TLAPS

(* Most steps need only first-order reasoning; SMT is cited where one needs *)
(* more.                                                                   *)
USE ZenonT(40)

(* A set with an element more or less has a cardinality one up or down.    *)
LEMMA CardinalityStep ==
    ASSUME NEW S \in SUBSET Threads, NEW x
    PROVE  /\ Cardinality(S) \in Nat
           /\ x \notin S => Cardinality(S \cup {x}) = Cardinality(S) + 1
           /\ x \in S => Cardinality(S \ {x}) = Cardinality(S) - 1
           /\ x \in S => Cardinality(S) > 0
<1>0. IsFiniteSet(S)
    BY LockAssumption, FS_Subset
<1>1. Cardinality(S) \in Nat
    BY <1>0, FS_CardinalityType
<1>2. x \notin S => Cardinality(S \cup {x}) = Cardinality(S) + 1
    BY <1>0, FS_AddElement
<1>3. x \in S => Cardinality(S \ {x}) = Cardinality(S) - 1
    BY <1>0, FS_RemoveElement
<1>4. x \in S => Cardinality(S) # 0
    BY <1>0, FS_EmptySet
<1> QED BY SMT, <1>1, <1>2, <1>3, <1>4

(* What the steps need of arithmetic.                                      *)
LEMMA Numbers ==
    /\ ~(-1 >= 0) /\ -1 # 0
    /\ \A n \in Nat : n + 1 \in Nat /\ (n > 0 => n - 1 \in Nat)
    /\ \A n \in Nat : 0 \in 0 .. n /\ 0 \in -1 .. n /\ -1 \in -1 .. n
    /\ \A n \in Nat : \A m \in 0 .. n : m \in -1 .. n /\ (m < n => m + 1 \in 0 .. n)
BY SMT

USE DEF wordVars, ownVars, condVars, queueVars, Goto, Call, Holding, Labels

-----------------------------------------------------------------------------
(* The inductive invariant.                                                *)

(* A thread inside WaitHoldingLocks is never at the label of a caller, and *)
(* it has a recursion count to restore.                                    *)
WaitInv ==
    \A t \in Threads :
        /\ pc[t] \in {"cvReturn", "cvFutex", "cvAsleep"} => t \in inWait
        /\ pc[t] \in {"out", "in", "requeueOne", "requeueAll"} => t \notin inWait
        /\ t \in inWait => saved[t] > 0

WaitersExact == numWaiters = Cardinality(inWait)

(* Who sleeps is at a label of a sleeper, and only a waiter sleeps on the  *)
(* sequence: so that a wake-up never moves a thread that runs.             *)
QueueInv ==
    /\ \A u \in lockQueue : pc[u] \in {"asleep", "cvAsleep"} /\ u \notin condQueue
    /\ \A u \in condQueue : pc[u] = "cvAsleep"

IInv ==
    /\ TypeOK /\ MutualExclusion /\ ContendersExact /\ WaitersExact
    /\ WaitInv /\ QueueInv

-----------------------------------------------------------------------------
LEMMA InitInv == Init => IInv
<1> SUFFICES ASSUME Init PROVE IInv
    OBVIOUS
<1> USE DEF Init
<1>1. TypeOK
    <2>1. held \in BOOLEAN /\ pc \in [Threads -> Labels]
        OBVIOUS
    <2>2. owner \in Threads \cup {None}
        OBVIOUS
    <2>3. recursion \in 0 .. MaxRecursion /\ saved \in [Threads -> 0 .. MaxRecursion]
        BY SMT, MutexAssumption
    <2>4. cur \in [Threads -> Nat] /\ seen \in [Threads -> Nat] /\ calls \in 0 .. MaxCalls
        BY SMT, LockAssumption
    <2> QED BY <2>1, <2>2, <2>3, <2>4 DEF TypeOK
<1>2. MutualExclusion
    BY SMT, LockAssumption DEF MutualExclusion, OwnerExact
<1>3. Contending = {} /\ inWait = {}
    BY DEF Contending
<1>4. ContendersExact
    BY SMT, <1>3, FS_EmptySet DEF ContendersExact
<1>5. WaitInv
    BY DEF WaitInv
<1>6. QueueInv
    BY DEF QueueInv
<1>7. WaitersExact
    BY <1>3, FS_EmptySet DEF WaitersExact
<1> QED BY <1>1, <1>2, <1>4, <1>5, <1>6, <1>7 DEF IInv

-----------------------------------------------------------------------------
(* The types.                                                              *)
LEMMA TypeStep == IInv /\ [Next]_vars => TypeOK'
<1> SUFFICES ASSUME IInv, [Next]_vars PROVE TypeOK'
    OBVIOUS
<1> USE LockAssumption, MutexAssumption DEF IInv, TypeOK
<1>1. CASE UNCHANGED vars
    BY <1>1 DEF vars
<1> SUFFICES ASSUME NEW t \in Threads, Step(t) \/ Choose(t) PROVE TypeOK'
    BY <1>1 DEF Next
<1>2. CASE Acquire(t)
    BY <1>2 DEF Acquire
<1>3. CASE Contend(t)
    BY <1>3 DEF Contend
<1>4. CASE SpinSucceeds(t)
    BY <1>4 DEF SpinSucceeds
<1>5. CASE IncrementContenders(t)
    BY SMT, <1>5 DEF IncrementContenders
<1>6. CASE FutexWait(t)
    BY <1>6 DEF FutexWait
<1>7. CASE Reread(t)
    BY SMT, <1>7 DEF Reread
<1>8. CASE DecrementContenders(t)
    <2>1. t \in Contending /\ Contending \in SUBSET Threads
        BY <1>8 DEF DecrementContenders, Contending
    <2>2. Cardinality(Contending) \in Nat /\ Cardinality(Contending) > 0
        BY ONLY ZenonT(30), <2>1, CardinalityStep
    <2>3. Cardinality(inWait) \in Nat
        BY ZenonT(30), CardinalityStep
    <2>4. contenders - 1 \in Nat
        BY ONLY <2>2, <2>3, ContendersExact DEF ContendersExact
    <2> QED BY <1>8, <2>4 DEF DecrementContenders
<1>9. CASE Own(t)
    <2>1. recursion = 0
        BY SMT, <1>9 DEF Own, MutualExclusion, OwnerExact
    <2> QED BY SMT, <1>9, <2>1 DEF Own
<1>10. CASE ExclusiveUnlock(t)
    <2>1. recursion > 0
        BY <1>10 DEF ExclusiveUnlock, MutualExclusion, OwnerExact
    <2> QED BY SMT, <1>10, <2>1 DEF ExclusiveUnlock
<1>11. CASE Release(t)
    BY ZenonT(30), <1>11 DEF Release, Unlocked
<1>12. CASE Wake(t)
    BY <1>12 DEF Wake, Unlocked, Awake
<1>13. CASE WaitOnSequence(t)
    BY <1>13 DEF WaitOnSequence
<1>14. CASE WaitReturns(t)
    <2>1. t \in inWait
        BY <1>14 DEF WaitReturns, WaitInv
    <2>2. numWaiters - 1 \in Nat /\ contenders - 1 \in Nat
        <3>1. Cardinality(Contending) \in Nat
            BY ZenonT(30), CardinalityStep DEF Contending
        <3>2. Cardinality(inWait) \in Nat /\ Cardinality(inWait) > 0
            BY ZenonT(30), <2>1, CardinalityStep
        <3> QED BY ONLY <3>1, <3>2, ContendersExact, WaitersExact
                DEF ContendersExact, WaitersExact
    <2> QED BY SMT, <1>14, <2>1, <2>2 DEF WaitReturns
<1>15. CASE Requeue(t)
    BY <1>15 DEF Requeue
<1>16. CASE ExclusiveLock(t)
    BY SMT, <1>16 DEF ExclusiveLock
<1>17. CASE ExclusiveTryLock(t)
    <2>1. held' \in BOOLEAN /\ pc' \in [Threads -> Labels]
        BY <1>17 DEF ExclusiveTryLock
    <2> QED BY SMT, <1>17, <2>1 DEF ExclusiveTryLock
<1>18. CASE LockAgain(t)
    BY SMT, <1>18 DEF LockAgain
<1>19. CASE WaitHoldingLocks(t)
    BY SMT, <1>19 DEF WaitHoldingLocks
<1>20. CASE Interrupted(t)
    BY <1>20 DEF Interrupted, Awake
<1>21. CASE Signal(t, "requeueOne") \/ Signal(t, "requeueAll")
    BY SMT, <1>21 DEF Signal
<1> QED
    BY ZenonT(30), <1>2, <1>3, <1>4, <1>5, <1>6, <1>7, <1>8, <1>9, <1>10, <1>11, <1>12, <1>13, <1>14,
       <1>15, <1>16, <1>17, <1>18, <1>19, <1>20, <1>21 DEF Step, Choose

-----------------------------------------------------------------------------
(* Mutual exclusion.                                                       *)
LEMMA MutualStep == IInv /\ [Next]_vars => MutualExclusion'
<1> SUFFICES ASSUME IInv, [Next]_vars PROVE MutualExclusion'
    OBVIOUS
<1> USE LockAssumption DEF IInv, TypeOK, MutualExclusion, OwnerExact
<1>1. CASE UNCHANGED vars
    BY <1>1 DEF vars
<1> SUFFICES ASSUME NEW t \in Threads, Step(t) \/ Choose(t) PROVE MutualExclusion'
    BY <1>1 DEF Next
<1>2. CASE Acquire(t)
    BY <1>2 DEF Acquire
<1>3. CASE Contend(t)
    BY <1>3 DEF Contend
<1>4. CASE SpinSucceeds(t)
    BY <1>4 DEF SpinSucceeds
<1>5. CASE IncrementContenders(t)
    BY <1>5 DEF IncrementContenders
<1>6. CASE FutexWait(t)
    BY SMT, <1>6 DEF FutexWait
<1>7. CASE Reread(t)
    BY SMT, <1>7 DEF Reread
<1>8. CASE DecrementContenders(t)
    BY <1>8 DEF DecrementContenders
<1>9. CASE Own(t)
    BY SMT, <1>9 DEF Own
<1>10. CASE ExclusiveUnlock(t)
    BY SMT, <1>10 DEF ExclusiveUnlock
<1>11. CASE Release(t)
    BY <1>11 DEF Release, Unlocked
<1>12. CASE Wake(t)
    BY SMT, <1>12 DEF Wake, Unlocked, Awake, QueueInv
<1>13. CASE WaitOnSequence(t)
    BY SMT, <1>13 DEF WaitOnSequence
<1>14. CASE WaitReturns(t)
    BY SMT, <1>14 DEF WaitReturns, WaitInv
<1>15. CASE Requeue(t)
    BY SMT, <1>15 DEF Requeue
<1>16. CASE ExclusiveLock(t)
    BY <1>16 DEF ExclusiveLock
<1>17. CASE ExclusiveTryLock(t)
    BY <1>17 DEF ExclusiveTryLock
<1>18. CASE LockAgain(t)
    BY SMT, <1>18 DEF LockAgain
<1>19. CASE WaitHoldingLocks(t)
    BY SMT, <1>19 DEF WaitHoldingLocks
<1>20. CASE Interrupted(t)
    BY <1>20 DEF Interrupted, Awake
<1>21. CASE Signal(t, "requeueOne") \/ Signal(t, "requeueAll")
    BY SMT, <1>21 DEF Signal
<1> QED
    BY ZenonT(30), <1>2, <1>3, <1>4, <1>5, <1>6, <1>7, <1>8, <1>9, <1>10, <1>11, <1>12, <1>13, <1>14,
       <1>15, <1>16, <1>17, <1>18, <1>19, <1>20, <1>21 DEF Step, Choose

-----------------------------------------------------------------------------
(* The queues.                                                             *)
LEMMA QueueStep == IInv /\ [Next]_vars => QueueInv'
<1> SUFFICES ASSUME IInv, [Next]_vars PROVE QueueInv'
    OBVIOUS
<1> USE LockAssumption DEF IInv, TypeOK, QueueInv
<1>1. CASE UNCHANGED vars
    BY <1>1 DEF vars
<1> SUFFICES ASSUME NEW t \in Threads, Step(t) \/ Choose(t) PROVE QueueInv'
    BY <1>1 DEF Next
<1>2. CASE Acquire(t)
    BY <1>2 DEF Acquire
<1>3. CASE Contend(t)
    BY <1>3 DEF Contend
<1>4. CASE SpinSucceeds(t)
    BY <1>4 DEF SpinSucceeds
<1>5. CASE IncrementContenders(t)
    BY <1>5 DEF IncrementContenders
<1>6. CASE FutexWait(t)
    BY SMT, <1>6 DEF FutexWait
<1>7. CASE Reread(t)
    BY <1>7 DEF Reread
<1>8. CASE DecrementContenders(t)
    BY <1>8 DEF DecrementContenders
<1>9. CASE Own(t)
    BY <1>9 DEF Own
<1>10. CASE ExclusiveUnlock(t)
    BY <1>10 DEF ExclusiveUnlock
<1>11. CASE Release(t)
    BY <1>11 DEF Release, Unlocked
<1>12. CASE Wake(t)
    BY SMT, <1>12 DEF Wake, Unlocked, Awake
<1>13. CASE WaitOnSequence(t)
    BY SMT, <1>13 DEF WaitOnSequence
<1>14. CASE WaitReturns(t)
    BY <1>14 DEF WaitReturns
<1>15. CASE Requeue(t)
    BY <1>15 DEF Requeue
<1>16. CASE ExclusiveLock(t)
    BY <1>16 DEF ExclusiveLock
<1>17. CASE ExclusiveTryLock(t)
    BY <1>17 DEF ExclusiveTryLock
<1>18. CASE LockAgain(t)
    BY <1>18 DEF LockAgain
<1>19. CASE WaitHoldingLocks(t)
    BY <1>19 DEF WaitHoldingLocks
<1>20. CASE Interrupted(t)
    BY <1>20 DEF Interrupted, Awake
<1>21. CASE Signal(t, "requeueOne") \/ Signal(t, "requeueAll")
    BY <1>21 DEF Signal
<1> QED
    BY <1>2, <1>3, <1>4, <1>5, <1>6, <1>7, <1>8, <1>9, <1>10, <1>11, <1>12, <1>13, <1>14,
       <1>15, <1>16, <1>17, <1>18, <1>19, <1>20, <1>21 DEF Step, Choose

-----------------------------------------------------------------------------
(* The threads inside a wait.                                              *)
LEMMA WaitStep == IInv /\ [Next]_vars => WaitInv'
<1> SUFFICES ASSUME IInv, [Next]_vars PROVE WaitInv'
    OBVIOUS
<1> USE LockAssumption DEF IInv, TypeOK, WaitInv
<1>1. CASE UNCHANGED vars
    BY <1>1 DEF vars
<1> SUFFICES ASSUME NEW t \in Threads, Step(t) \/ Choose(t) PROVE WaitInv'
    BY <1>1 DEF Next
<1>2. CASE Acquire(t)
    BY <1>2 DEF Acquire
<1>3. CASE Contend(t)
    BY <1>3 DEF Contend
<1>4. CASE SpinSucceeds(t)
    BY <1>4 DEF SpinSucceeds
<1>5. CASE IncrementContenders(t)
    BY <1>5 DEF IncrementContenders
<1>6. CASE FutexWait(t)
    BY <1>6 DEF FutexWait
<1>7. CASE Reread(t)
    BY <1>7 DEF Reread
<1>8. CASE DecrementContenders(t)
    BY <1>8 DEF DecrementContenders
<1>9. CASE Own(t)
    BY <1>9 DEF Own
<1>10. CASE ExclusiveUnlock(t)
    BY <1>10 DEF ExclusiveUnlock
<1>11. CASE Release(t)
    BY <1>11 DEF Release, Unlocked
<1>12. CASE Wake(t)
    BY SMT, <1>12 DEF Wake, Unlocked, Awake, QueueInv
<1>13. CASE WaitOnSequence(t)
    BY <1>13 DEF WaitOnSequence
<1>14. CASE WaitReturns(t)
    BY <1>14 DEF WaitReturns
<1>15. CASE Requeue(t)
    BY <1>15 DEF Requeue
<1>16. CASE ExclusiveLock(t)
    BY <1>16 DEF ExclusiveLock
<1>17. CASE ExclusiveTryLock(t)
    BY <1>17 DEF ExclusiveTryLock
<1>18. CASE LockAgain(t)
    BY <1>18 DEF LockAgain
<1>19. CASE WaitHoldingLocks(t)
    BY <1>19 DEF WaitHoldingLocks, MutualExclusion, OwnerExact
<1>20. CASE Interrupted(t)
    BY <1>20 DEF Interrupted, Awake
<1>21. CASE Signal(t, "requeueOne") \/ Signal(t, "requeueAll")
    BY <1>21 DEF Signal
<1> QED
    BY ZenonT(30), <1>2, <1>3, <1>4, <1>5, <1>6, <1>7, <1>8, <1>9, <1>10, <1>11, <1>12, <1>13, <1>14,
       <1>15, <1>16, <1>17, <1>18, <1>19, <1>20, <1>21 DEF Step, Choose

-----------------------------------------------------------------------------
(* The counts.                                                             *)

LEMMA CountsKept ==
    ASSUME IInv, Contending' = Contending,
           UNCHANGED <<inWait, contenders, numWaiters>>
    PROVE  ContendersExact' /\ WaitersExact'
BY DEF IInv, ContendersExact, WaitersExact

LEMMA CountStep == IInv /\ [Next]_vars => ContendersExact' /\ WaitersExact'
<1> SUFFICES ASSUME IInv, [Next]_vars PROVE ContendersExact' /\ WaitersExact'
    OBVIOUS
<1>0. TypeOK /\ ContendersExact /\ WaitersExact /\ WaitInv /\ QueueInv
    BY DEF IInv
<1>1. CASE UNCHANGED vars
    <2>1. Contending' = Contending
        BY <1>1 DEF vars, Contending
    <2> QED BY <1>1, <2>1, CountsKept DEF vars
<1> SUFFICES ASSUME NEW t \in Threads, Step(t) \/ Choose(t)
             PROVE  ContendersExact' /\ WaitersExact'
    BY <1>1 DEF Next
<1>a. /\ Cardinality(Contending) \in Nat
      /\ t \notin Contending => Cardinality(Contending \cup {t}) = Cardinality(Contending) + 1
      /\ t \in Contending => Cardinality(Contending \ {t}) = Cardinality(Contending) - 1
    <2>1. Contending \in SUBSET Threads
        BY DEF Contending
    <2> QED BY ONLY ZenonT(30), <2>1, CardinalityStep
<1>b. /\ Cardinality(inWait) \in Nat
      /\ t \notin inWait => Cardinality(inWait \cup {t}) = Cardinality(inWait) + 1
      /\ t \in inWait => Cardinality(inWait \ {t}) = Cardinality(inWait) - 1
    <2>1. inWait \in SUBSET Threads
        BY <1>0 DEF TypeOK
    <2> QED BY ONLY ZenonT(30), <2>1, CardinalityStep
<1>2. CASE Acquire(t)
    <2>1. Contending' = Contending
        BY <1>0, <1>2 DEF Acquire, TypeOK, Contending
    <2> QED BY <1>2, <2>1, CountsKept DEF Acquire
<1>3. CASE Contend(t)
    <2>1. Contending' = Contending
        BY <1>0, <1>3 DEF Contend, TypeOK, Contending
    <2> QED BY <1>3, <2>1, CountsKept DEF Contend
<1>4. CASE SpinSucceeds(t)
    <2>1. Contending' = Contending
        BY <1>0, <1>4 DEF SpinSucceeds, TypeOK, Contending
    <2> QED BY <1>4, <2>1, CountsKept DEF SpinSucceeds
<1>5. CASE IncrementContenders(t)
    <2>1. t \notin Contending /\ Contending' = Contending \cup {t}
        BY <1>0, <1>5 DEF IncrementContenders, TypeOK, Contending
    <2> QED BY SMT, <1>0, <1>a, <1>b, <1>5, <2>1 DEF IncrementContenders, TypeOK, ContendersExact, WaitersExact
<1>6. CASE FutexWait(t)
    <2>1. Contending' = Contending
        BY <1>0, <1>6 DEF FutexWait, TypeOK, Contending
    <2> QED BY <1>6, <2>1, CountsKept DEF FutexWait
<1>7. CASE Reread(t)
    <2>1. Contending' = Contending
        BY <1>0, <1>7 DEF Reread, TypeOK, Contending
    <2> QED BY <1>7, <2>1, CountsKept DEF Reread
<1>8. CASE DecrementContenders(t)
    <2>1. t \in Contending /\ Contending' = Contending \ {t}
        BY <1>0, <1>8 DEF DecrementContenders, TypeOK, Contending
    <2> QED BY SMT, <1>0, <1>a, <1>b, <1>8, <2>1 DEF DecrementContenders, TypeOK, ContendersExact, WaitersExact
<1>9. CASE Own(t)
    <2>1. Contending' = Contending
        BY <1>0, <1>9 DEF Own, TypeOK, Contending
    <2> QED BY <1>9, <2>1, CountsKept DEF Own
<1>10. CASE ExclusiveUnlock(t)
    <2>1. Contending' = Contending
        BY <1>0, <1>10 DEF ExclusiveUnlock, TypeOK, Contending
    <2> QED BY <1>10, <2>1, CountsKept DEF ExclusiveUnlock
<1>11. CASE Release(t)
    <2>1. Contending' = Contending
        BY <1>0, <1>11 DEF Release, Unlocked, TypeOK, Contending
    <2> QED BY <1>11, <2>1, CountsKept DEF Release, Unlocked
<1>12. CASE Wake(t)
    <2>1. Contending' = Contending
        BY <1>0, <1>12 DEF Wake, Unlocked, Awake, TypeOK, Contending, QueueInv
    <2> QED BY <1>12, <2>1, CountsKept DEF Wake, Unlocked, Awake
<1>13. CASE WaitOnSequence(t)
    <2>1. Contending' = Contending
        BY <1>0, <1>13 DEF WaitOnSequence, TypeOK, Contending
    <2> QED BY <1>13, <2>1, CountsKept DEF WaitOnSequence
<1>14. CASE WaitReturns(t)
    <2>1. Contending' = Contending /\ t \in inWait
        BY <1>0, <1>14 DEF WaitReturns, TypeOK, Contending, WaitInv
    <2> QED BY SMT, <1>0, <1>a, <1>b, <1>14, <2>1 DEF WaitReturns, TypeOK, ContendersExact, WaitersExact
<1>15. CASE Requeue(t)
    <2>1. Contending' = Contending
        BY <1>0, <1>15 DEF Requeue, TypeOK, Contending
    <2> QED BY <1>15, <2>1, CountsKept DEF Requeue
<1>16. CASE ExclusiveLock(t)
    <2>1. Contending' = Contending
        BY <1>0, <1>16 DEF ExclusiveLock, TypeOK, Contending
    <2> QED BY <1>16, <2>1, CountsKept DEF ExclusiveLock
<1>17. CASE ExclusiveTryLock(t)
    <2>1. Contending' = Contending
        BY <1>0, <1>17 DEF ExclusiveTryLock, TypeOK, Contending
    <2> QED BY <1>17, <2>1, CountsKept DEF ExclusiveTryLock
<1>18. CASE LockAgain(t)
    <2>1. Contending' = Contending
        BY <1>0, <1>18 DEF LockAgain, TypeOK, Contending
    <2> QED BY <1>18, <2>1, CountsKept DEF LockAgain
<1>19. CASE WaitHoldingLocks(t)
    <2>1. Contending' = Contending /\ t \notin inWait
        BY <1>0, <1>19 DEF WaitHoldingLocks, TypeOK, Contending, WaitInv
    <2> QED BY SMT, <1>0, <1>a, <1>b, <1>19, <2>1 DEF WaitHoldingLocks, TypeOK, ContendersExact, WaitersExact
<1>20. CASE Interrupted(t)
    <2>1. Contending' = Contending
        BY <1>0, <1>20 DEF Interrupted, Awake, TypeOK, Contending
    <2> QED BY <1>20, <2>1, CountsKept DEF Interrupted, Awake
<1>21. CASE Signal(t, "requeueOne") \/ Signal(t, "requeueAll")
    <2>1. Contending' = Contending
        BY <1>0, <1>21 DEF Signal, TypeOK, Contending
    <2> QED BY <1>21, <2>1, CountsKept DEF Signal
<1> QED
    BY <1>2, <1>3, <1>4, <1>5, <1>6, <1>7, <1>8, <1>9, <1>10, <1>11, <1>12, <1>13, <1>14,
       <1>15, <1>16, <1>17, <1>18, <1>19, <1>20, <1>21 DEF Step, Choose

-----------------------------------------------------------------------------
LEMMA Inductive == IInv /\ [Next]_vars => IInv'
BY TypeStep, MutualStep, QueueStep, WaitStep, CountStep DEF IInv

LEMMA Invariance == Spec => []IInv
BY InitInv, Inductive, PTL DEF Spec

(* The variables of a Mutex and its condition keep their types:            *)
(* recursion_count_, num_waiters_ and the contenders in                    *)
(* state_and_contenders_ never go below zero.                              *)
THEOREM TypeCorrect == Spec => []TypeOK
<1>1. IInv => TypeOK
    BY DEF IInv
<1> QED BY <1>1, Invariance, PTL

(* ExclusiveLock, ExclusiveTryLock and the lock that ends a wait let in    *)
(* one thread at a time, and exclusive_owner_ and recursion_count_ tell    *)
(* which one, however often it locks and wherever others wait or signal.   *)
THEOREM Exclusion == Spec => []MutualExclusion
<1>1. IInv => MutualExclusion
    BY DEF IInv
<1> QED BY <1>1, Invariance, PTL

(* The contender count is exactly the number of threads an unlock may have *)
(* to wake, so that ExclusiveUnlock may skip the system call when it is 0. *)
THEOREM ContendersCounted == Spec => []ContendersExact
<1>1. IInv => ContendersExact
    BY DEF IInv
<1> QED BY <1>1, Invariance, PTL

-----------------------------------------------------------------------------
(* The instance counts as this module does.                                *)
LEMMA SameCount ==
    ASSUME NEW S
    PROVE  RW!Cardinality(S) = Cardinality(S)
BY DEF RW!Cardinality, Cardinality

USE SameCount DEF RW!Goto, RW!Return, RW!Holding, RW!Labels, RW!Modes

-----------------------------------------------------------------------------
(* The inductive invariant.                                                *)

(* Only an exclusive call notes and clears the owner.                      *)
ModeInv ==
    \A t \in Threads : rwPc[t] \in {"own", "release"} => rwMode[t] # "shared"

(* Only sleepers are woken.                                                *)
SleepersInv == \A u \in rwQueue : rwPc[u] = "asleep"

RWInv == RW!TypeOK /\ RW!StateExact /\ RW!ContendersExact /\ ModeInv /\ SleepersInv

LEMMA SetsTyped ==
    /\ RW!Readers \in SUBSET Threads /\ RW!Writers \in SUBSET Threads
    /\ RW!Contending \in SUBSET Threads
BY DEF RW!Readers, RW!Writers, RW!Contending

LEMMA SetsTypedNext ==
    RW!Readers' \in SUBSET Threads /\ RW!Writers' \in SUBSET Threads
BY DEF RW!Readers, RW!Writers

LEMMA Bounded ==
    ASSUME NEW S \in SUBSET Threads
    PROVE  /\ Cardinality(S) \in 0 .. Cardinality(Threads)
           /\ Cardinality(S) = 0 <=> S = {}
           /\ Cardinality(Threads) \in Nat
<1>1. IsFiniteSet(S) /\ Cardinality(S) <= Cardinality(Threads)
    BY LockAssumption, FS_Subset
<1>2. Cardinality(S) \in Nat /\ Cardinality(Threads) \in Nat
    BY <1>1, LockAssumption, FS_CardinalityType
<1>3. Cardinality(S) = 0 <=> S = {}
    BY <1>1, FS_EmptySet
<1> QED BY SMT, <1>1, <1>2, <1>3

LEMMA RWInitInv == RW!Init => RWInv
<1> SUFFICES ASSUME RW!Init PROVE RWInv
    OBVIOUS
<1> USE DEF RW!Init
<1>1. RW!Readers = {} /\ RW!Writers = {} /\ RW!Contending = {}
    BY DEF RW!Readers, RW!Writers, RW!Contending
<1>2. Cardinality({}) = 0 /\ Cardinality(Threads) \in Nat
    BY Bounded, FS_EmptySet
<1>3. RW!StateExact /\ RW!ContendersExact
  <2>1. Cardinality(RW!Readers) = 0 /\ Cardinality(RW!Contending) = 0
      BY <1>1, <1>2
  <2> QED BY <1>1, <2>1 DEF RW!StateExact, RW!ContendersExact
<1>4. RW!TypeOK
    BY <1>2, LockAssumption, RWAssumption, Numbers DEF RW!TypeOK
<1>5. ModeInv /\ SleepersInv
    BY DEF ModeInv, SleepersInv
<1> QED BY <1>3, <1>4, <1>5 DEF RWInv

-----------------------------------------------------------------------------
(* The word.                                                               *)

LEMMA RWStateKept ==
    ASSUME RW!StateExact, RW!Readers' = RW!Readers, RW!Writers' = RW!Writers, rwState' = rwState
    PROVE  RW!StateExact'
BY DEF RW!StateExact

-----------------------------------------------------------------------------
(* Readers and writers.                                                    *)
LEMMA RWStateStep == RWInv /\ [RW!Next]_(RW!vars) => RW!StateExact'
<1> SUFFICES ASSUME RWInv, [RW!Next]_(RW!vars) PROVE RW!StateExact'
    OBVIOUS
<1>0. RW!TypeOK /\ RW!StateExact /\ RW!ContendersExact /\ ModeInv /\ SleepersInv
    BY DEF RWInv
<1>c. RW!StateExact
    BY <1>0
<1>1. CASE UNCHANGED RW!vars
    BY <1>0, <1>1, RWStateKept DEF RW!vars, RW!Readers, RW!Writers
<1> SUFFICES ASSUME NEW t \in Threads, RW!Step(t) \/ RW!Choose(t) PROVE RW!StateExact'
    BY <1>1 DEF RW!Next
<1>a. /\ Cardinality(RW!Readers) \in Nat /\ (Cardinality(RW!Readers) = 0 <=> RW!Readers = {})
      /\ t \notin RW!Readers => Cardinality(RW!Readers \cup {t}) = Cardinality(RW!Readers) + 1
      /\ t \in RW!Readers => Cardinality(RW!Readers \ {t}) = Cardinality(RW!Readers) - 1
    <2>1. Cardinality(RW!Readers) = 0 <=> RW!Readers = {}
        BY SetsTyped, Bounded
    <2> QED BY ZenonT(30), <2>1, SetsTyped, CardinalityStep
<1>b. /\ Cardinality({t}) = 1 /\ Cardinality({}) = 0
      /\ Cardinality(RW!Writers) = 1 /\ t \in RW!Writers => RW!Writers = {t}
    <2>1. IsFiniteSet(RW!Writers)
        BY SetsTyped, LockAssumption, FS_Subset
    <2>2. Cardinality({t}) = 1 /\ Cardinality({}) = 0
        BY FS_Singleton, FS_EmptySet
    <2>3. Cardinality(RW!Writers) = 1 => \E x : RW!Writers = {x}
        BY <2>1, FS_Singleton
    <2> QED BY ONLY ZenonT(40), <2>2, <2>3
<1>2. CASE RW!Acquire(t)
    <2>1. CASE rwMode[t] = "shared"
        <3>1. /\ t \notin RW!Readers /\ RW!Readers' = RW!Readers \cup {t} /\ RW!Writers' = RW!Writers
              /\ rwState >= 0 /\ rwState' = rwState + 1
            BY <1>0, <1>2, <2>1 DEF RW!Acquire, RW!Available, RW!TypeOK, RW!Readers, RW!Writers
        <3> QED BY <1>c, <1>a, <3>1, Numbers DEF RW!StateExact
    <2>2. CASE rwMode[t] # "shared"
        <3>1. /\ RW!Readers' = RW!Readers /\ RW!Writers' = RW!Writers \cup {t}
              /\ rwState = 0 /\ rwState' = -1
            BY <1>0, <1>2, <2>2 DEF RW!Acquire, RW!Available, RW!TypeOK, RW!Readers, RW!Writers
        <3>2. RW!Writers = {} /\ RW!Readers = {}
            BY <1>c, <1>a, <3>1, Numbers DEF RW!StateExact
        <3>3. RW!Writers' = {t} /\ RW!Readers' = {}
            BY <3>1, <3>2
        <3> QED BY <1>b, <3>1, <3>3 DEF RW!StateExact
    <2> QED BY <2>1, <2>2
<1>3. CASE RW!Own(t)
    <2>1. RW!Readers' = RW!Readers /\ RW!Writers' = RW!Writers
        BY <1>0, <1>3 DEF RW!Own, RW!TypeOK, RW!Readers, RW!Writers
    <2> QED BY <1>0, <1>3, <2>1, RWStateKept DEF RW!Own
<1>4. CASE RW!Contend(t)
    <2>1. RW!Readers' = RW!Readers /\ RW!Writers' = RW!Writers
        BY <1>0, <1>4 DEF RW!Contend, RW!TypeOK, RW!Readers, RW!Writers
    <2> QED BY <1>0, <1>4, <2>1, RWStateKept DEF RW!Contend
<1>5. CASE RW!SpinSucceeds(t)
    <2>1. RW!Readers' = RW!Readers /\ RW!Writers' = RW!Writers
        BY <1>0, <1>5 DEF RW!SpinSucceeds, RW!TypeOK, RW!Readers, RW!Writers
    <2> QED BY <1>0, <1>5, <2>1, RWStateKept DEF RW!SpinSucceeds
<1>6. CASE RW!IncrementContenders(t)
    <2>1. RW!Readers' = RW!Readers /\ RW!Writers' = RW!Writers
        BY <1>0, <1>6 DEF RW!IncrementContenders, RW!TypeOK, RW!Readers, RW!Writers
    <2> QED BY <1>0, <1>6, <2>1, RWStateKept DEF RW!IncrementContenders
<1>7. CASE RW!FutexWait(t)
    <2>1. RW!Readers' = RW!Readers /\ RW!Writers' = RW!Writers
        BY <1>0, <1>7 DEF RW!FutexWait, RW!TypeOK, RW!Readers, RW!Writers
    <2> QED BY <1>0, <1>7, <2>1, RWStateKept DEF RW!FutexWait
<1>8. CASE RW!DecrementContenders(t)
    <2>1. RW!Readers' = RW!Readers /\ RW!Writers' = RW!Writers
        BY <1>0, <1>8 DEF RW!DecrementContenders, RW!TypeOK, RW!Readers, RW!Writers
    <2> QED BY <1>0, <1>8, <2>1, RWStateKept DEF RW!DecrementContenders
<1>9. CASE RW!SharedUnlock(t)
    <2>1. /\ t \in RW!Readers /\ RW!Readers' = RW!Readers \ {t} /\ RW!Writers' = RW!Writers
          /\ rwState' = rwState - 1
        BY <1>0, <1>9 DEF RW!SharedUnlock, RW!TypeOK, RW!Readers, RW!Writers
    <2> QED BY <1>c, <1>a, <2>1 DEF RW!StateExact
<1>10. CASE RW!ExclusiveUnlock(t)
    <2>1. RW!Readers' = RW!Readers /\ RW!Writers' = RW!Writers
        BY <1>0, <1>10 DEF RW!ExclusiveUnlock, RW!TypeOK, RW!Readers, RW!Writers
    <2> QED BY <1>0, <1>10, <2>1, RWStateKept DEF RW!ExclusiveUnlock
<1>11. CASE RW!Release(t)
    <2>1. /\ t \in RW!Writers /\ RW!Writers' = RW!Writers \ {t} /\ RW!Readers' = RW!Readers
          /\ rwState' = 0
        BY <1>0, <1>11, LockAssumption DEF RW!Release, RW!TypeOK, ModeInv, RW!Readers, RW!Writers
    <2>2. RW!Writers = {t} /\ RW!Readers = {}
        BY <1>c, <1>b, <2>1 DEF RW!StateExact
    <2>3. RW!Writers' = {} /\ RW!Readers' = {}
        BY <2>1, <2>2
    <2>4. Cardinality(RW!Readers') = 0
        BY <1>b, <2>3
    <2> QED BY <2>1, <2>3, <2>4 DEF RW!StateExact
<1>12. CASE RW!CheckContenders(t)
    <2>1. RW!Readers' = RW!Readers /\ RW!Writers' = RW!Writers
        BY <1>0, <1>12 DEF RW!CheckContenders, RW!TypeOK, RW!Readers, RW!Writers
    <2> QED BY <1>0, <1>12, <2>1, RWStateKept DEF RW!CheckContenders
<1>13. CASE RW!Wake(t)
    <2>1. RW!Readers' = RW!Readers /\ RW!Writers' = RW!Writers
        BY <1>0, <1>13 DEF RW!Wake, RW!TypeOK, SleepersInv, RW!Readers, RW!Writers
    <2> QED BY <1>0, <1>13, <2>1, RWStateKept DEF RW!Wake
<1>14. CASE RW!SharedTryLock(t)
    <2>1. CASE rwState >= 0
        <3>1. /\ t \notin RW!Readers /\ RW!Readers' = RW!Readers \cup {t} /\ RW!Writers' = RW!Writers
              /\ rwState' = rwState + 1
            BY <1>0, <1>14, <2>1 DEF RW!SharedTryLock, RW!TypeOK, RW!Readers, RW!Writers
        <3> QED BY <1>c, <1>a, <2>1, <3>1, Numbers DEF RW!StateExact
    <2>2. CASE ~(rwState >= 0)
        BY <1>0, <1>14, <2>2, RWStateKept DEF RW!SharedTryLock, RW!Readers, RW!Writers
    <2> QED BY <2>1, <2>2
<1>15. CASE RW!TimedOut(t)
    <2>1. RW!Readers' = RW!Readers /\ RW!Writers' = RW!Writers
        BY <1>0, <1>15 DEF RW!TimedOut, RW!TypeOK, RW!Readers, RW!Writers
    <2> QED BY <1>0, <1>15, <2>1, RWStateKept DEF RW!TimedOut
<1>16. CASE RW!Interrupted(t)
    <2>1. RW!Readers' = RW!Readers /\ RW!Writers' = RW!Writers
        BY <1>0, <1>16 DEF RW!Interrupted, RW!TypeOK, RW!Readers, RW!Writers
    <2> QED BY <1>0, <1>16, <2>1, RWStateKept DEF RW!Interrupted
<1>17. CASE RW!SleepTimedOut(t)
    <2>1. RW!Readers' = RW!Readers /\ RW!Writers' = RW!Writers
        BY <1>0, <1>17 DEF RW!SleepTimedOut, RW!TypeOK, RW!Readers, RW!Writers
    <2> QED BY <1>0, <1>17, <2>1, RWStateKept DEF RW!SleepTimedOut
<1>18. CASE \E m \in RW!Modes : RW!Lock(t, m)
    <2>1. RW!Readers' = RW!Readers /\ RW!Writers' = RW!Writers
        BY <1>0, <1>18 DEF RW!Lock, RW!TypeOK, RW!Readers, RW!Writers
    <2> QED BY <1>0, <1>18, <2>1, RWStateKept DEF RW!Lock
<1> QED
    BY <1>2, <1>3, <1>4, <1>5, <1>6, <1>7, <1>8, <1>9, <1>10, <1>11, <1>12, <1>13, <1>14, <1>15, <1>16, <1>17, <1>18
    DEF RW!Step, RW!Choose

-----------------------------------------------------------------------------
(* The contenders.                                                         *)

LEMMA RWContendersKept ==
    ASSUME RW!ContendersExact, RW!Contending' = RW!Contending, rwContenders' = rwContenders
    PROVE  RW!ContendersExact'
BY DEF RW!ContendersExact

-----------------------------------------------------------------------------
(* Who may sleep is counted.                                              *)
LEMMA RWContendersStep == RWInv /\ [RW!Next]_(RW!vars) => RW!ContendersExact'
<1> SUFFICES ASSUME RWInv, [RW!Next]_(RW!vars) PROVE RW!ContendersExact'
    OBVIOUS
<1>0. RW!TypeOK /\ RW!StateExact /\ RW!ContendersExact /\ ModeInv /\ SleepersInv
    BY DEF RWInv
<1>1. CASE UNCHANGED RW!vars
    BY <1>0, <1>1, RWContendersKept DEF RW!vars, RW!Contending
<1> SUFFICES ASSUME NEW t \in Threads, RW!Step(t) \/ RW!Choose(t) PROVE RW!ContendersExact'
    BY <1>1 DEF RW!Next
<1>a. /\ Cardinality(RW!Contending) \in Nat
      /\ t \notin RW!Contending => Cardinality(RW!Contending \cup {t}) = Cardinality(RW!Contending) + 1
      /\ t \in RW!Contending => Cardinality(RW!Contending \ {t}) = Cardinality(RW!Contending) - 1
    BY ZenonT(30), SetsTyped, CardinalityStep
<1>2. CASE RW!Acquire(t)
    <2>1. RW!Contending' = RW!Contending
        BY <1>0, <1>2 DEF RW!Acquire, RW!TypeOK, RW!Contending
    <2> QED BY <1>0, <1>2, <2>1, RWContendersKept DEF RW!Acquire
<1>3. CASE RW!Own(t)
    <2>1. RW!Contending' = RW!Contending
        BY <1>0, <1>3 DEF RW!Own, RW!TypeOK, RW!Contending
    <2> QED BY <1>0, <1>3, <2>1, RWContendersKept DEF RW!Own
<1>4. CASE RW!Contend(t)
    <2>1. RW!Contending' = RW!Contending
        BY <1>0, <1>4 DEF RW!Contend, RW!TypeOK, RW!Contending
    <2> QED BY <1>0, <1>4, <2>1, RWContendersKept DEF RW!Contend
<1>5. CASE RW!SpinSucceeds(t)
    <2>1. RW!Contending' = RW!Contending
        BY <1>0, <1>5 DEF RW!SpinSucceeds, RW!TypeOK, RW!Contending
    <2> QED BY <1>0, <1>5, <2>1, RWContendersKept DEF RW!SpinSucceeds
<1>6. CASE RW!IncrementContenders(t)
    <2>1. t \notin RW!Contending /\ RW!Contending' = RW!Contending \cup {t}
        BY <1>0, <1>6 DEF RW!IncrementContenders, RW!TypeOK, RW!Contending
    <2> QED BY <1>0, <1>a, <1>6, <2>1 DEF RW!IncrementContenders, RW!ContendersExact
<1>7. CASE RW!FutexWait(t)
    <2>1. RW!Contending' = RW!Contending
        BY <1>0, <1>7 DEF RW!FutexWait, RW!TypeOK, RW!Contending
    <2> QED BY <1>0, <1>7, <2>1, RWContendersKept DEF RW!FutexWait
<1>8. CASE RW!DecrementContenders(t)
    <2>1. t \in RW!Contending /\ RW!Contending' = RW!Contending \ {t}
        BY <1>0, <1>8 DEF RW!DecrementContenders, RW!TypeOK, RW!Contending
    <2> QED BY <1>0, <1>a, <1>8, <2>1 DEF RW!DecrementContenders, RW!ContendersExact
<1>9. CASE RW!SharedUnlock(t)
    <2>1. RW!Contending' = RW!Contending
        BY <1>0, <1>9 DEF RW!SharedUnlock, RW!TypeOK, RW!Contending
    <2> QED BY <1>0, <1>9, <2>1, RWContendersKept DEF RW!SharedUnlock
<1>10. CASE RW!ExclusiveUnlock(t)
    <2>1. RW!Contending' = RW!Contending
        BY <1>0, <1>10 DEF RW!ExclusiveUnlock, RW!TypeOK, RW!Contending
    <2> QED BY <1>0, <1>10, <2>1, RWContendersKept DEF RW!ExclusiveUnlock
<1>11. CASE RW!Release(t)
    <2>1. RW!Contending' = RW!Contending
        BY <1>0, <1>11 DEF RW!Release, RW!TypeOK, RW!Contending
    <2> QED BY <1>0, <1>11, <2>1, RWContendersKept DEF RW!Release
<1>12. CASE RW!CheckContenders(t)
    <2>1. RW!Contending' = RW!Contending
        BY <1>0, <1>12 DEF RW!CheckContenders, RW!TypeOK, RW!Contending
    <2> QED BY <1>0, <1>12, <2>1, RWContendersKept DEF RW!CheckContenders
<1>13. CASE RW!Wake(t)
    <2>1. RW!Contending' = RW!Contending
        BY <1>0, <1>13 DEF RW!Wake, RW!TypeOK, SleepersInv, RW!Contending
    <2> QED BY <1>0, <1>13, <2>1, RWContendersKept DEF RW!Wake
<1>14. CASE RW!SharedTryLock(t)
    <2>1. RW!Contending' = RW!Contending
        BY <1>0, <1>14 DEF RW!SharedTryLock, RW!TypeOK, RW!Contending
    <2> QED BY <1>0, <1>14, <2>1, RWContendersKept DEF RW!SharedTryLock
<1>15. CASE RW!TimedOut(t)
    <2>1. RW!Contending' = RW!Contending
        BY <1>0, <1>15 DEF RW!TimedOut, RW!TypeOK, RW!Contending
    <2> QED BY <1>0, <1>15, <2>1, RWContendersKept DEF RW!TimedOut
<1>16. CASE RW!Interrupted(t)
    <2>1. RW!Contending' = RW!Contending
        BY <1>0, <1>16 DEF RW!Interrupted, RW!TypeOK, RW!Contending
    <2> QED BY <1>0, <1>16, <2>1, RWContendersKept DEF RW!Interrupted
<1>17. CASE RW!SleepTimedOut(t)
    <2>1. RW!Contending' = RW!Contending
        BY <1>0, <1>17 DEF RW!SleepTimedOut, RW!TypeOK, RW!Contending
    <2> QED BY <1>0, <1>17, <2>1, RWContendersKept DEF RW!SleepTimedOut
<1>18. CASE \E m \in RW!Modes : RW!Lock(t, m)
    <2>1. RW!Contending' = RW!Contending
        BY <1>0, <1>18 DEF RW!Lock, RW!TypeOK, RW!Contending
    <2> QED BY <1>0, <1>18, <2>1, RWContendersKept DEF RW!Lock
<1> QED
    BY <1>2, <1>3, <1>4, <1>5, <1>6, <1>7, <1>8, <1>9, <1>10, <1>11, <1>12, <1>13, <1>14, <1>15, <1>16, <1>17, <1>18
    DEF RW!Step, RW!Choose

-----------------------------------------------------------------------------
(* Modes and sleepers.                                                     *)
LEMMA RWLabelStep == RWInv /\ [RW!Next]_(RW!vars) => ModeInv' /\ SleepersInv'
<1> SUFFICES ASSUME RWInv, [RW!Next]_(RW!vars) PROVE ModeInv' /\ SleepersInv'
    OBVIOUS
<1>0. RW!TypeOK /\ RW!StateExact /\ RW!ContendersExact /\ ModeInv /\ SleepersInv
    BY DEF RWInv
<1> USE LockAssumption DEF RW!TypeOK, ModeInv, SleepersInv
<1>1. CASE UNCHANGED RW!vars
    BY <1>0, <1>1 DEF RW!vars
<1> SUFFICES ASSUME NEW t \in Threads, RW!Step(t) \/ RW!Choose(t) PROVE ModeInv' /\ SleepersInv'
    BY <1>1 DEF RW!Next
<1>2. CASE RW!Acquire(t)
    BY <1>0, <1>2 DEF RW!Acquire
<1>3. CASE RW!Own(t)
    BY <1>0, <1>3 DEF RW!Own
<1>4. CASE RW!Contend(t)
    BY <1>0, <1>4 DEF RW!Contend
<1>5. CASE RW!SpinSucceeds(t)
    BY <1>0, <1>5 DEF RW!SpinSucceeds
<1>6. CASE RW!IncrementContenders(t)
    BY <1>0, <1>6 DEF RW!IncrementContenders
<1>7. CASE RW!FutexWait(t)
    <2>1. ModeInv'
        BY <1>0, <1>7 DEF RW!FutexWait
    <2>2. SleepersInv'
        <3>1. t \notin rwQueue /\ \A u \in Threads \ {t} : rwPc'[u] = rwPc[u]
            BY <1>0, <1>7 DEF RW!FutexWait
        <3>2. rwQueue' = rwQueue \/ (rwQueue' = rwQueue \cup {t} /\ rwPc'[t] = "asleep")
            BY <1>0, <1>7 DEF RW!FutexWait
        <3>3. rwQueue \subseteq Threads /\ \A u \in rwQueue : rwPc[u] = "asleep"
            BY <1>0
        <3>4. ASSUME NEW u \in rwQueue' PROVE rwPc'[u] = "asleep"
            <4>1. CASE u = t
                BY <3>1, <3>2, <3>4, <4>1
            <4>2. CASE u # t
                <5>1. u \in rwQueue
                    BY <3>2, <3>4, <4>2
                <5> QED BY <3>1, <3>3, <4>2, <5>1
            <4> QED BY <4>1, <4>2
        <3> QED BY <3>4
    <2> QED BY <2>1, <2>2
<1>8. CASE RW!DecrementContenders(t)
    BY <1>0, <1>8 DEF RW!DecrementContenders
<1>9. CASE RW!SharedUnlock(t)
    BY <1>0, <1>9 DEF RW!SharedUnlock
<1>10. CASE RW!ExclusiveUnlock(t)
    BY <1>0, <1>10 DEF RW!ExclusiveUnlock
<1>11. CASE RW!Release(t)
    BY <1>0, <1>11 DEF RW!Release
<1>12. CASE RW!CheckContenders(t)
    BY <1>0, <1>12 DEF RW!CheckContenders
<1>13. CASE RW!Wake(t)
    BY <1>0, <1>13 DEF RW!Wake
<1>14. CASE RW!SharedTryLock(t)
    BY <1>0, <1>14 DEF RW!SharedTryLock
<1>15. CASE RW!TimedOut(t)
    BY <1>0, <1>15 DEF RW!TimedOut
<1>16. CASE RW!Interrupted(t)
    BY <1>0, <1>16 DEF RW!Interrupted
<1>17. CASE RW!SleepTimedOut(t)
    BY <1>0, <1>17 DEF RW!SleepTimedOut
<1>18. CASE \E m \in RW!Modes : RW!Lock(t, m)
    BY <1>0, <1>18 DEF RW!Lock
<1> QED
    BY <1>2, <1>3, <1>4, <1>5, <1>6, <1>7, <1>8, <1>9, <1>10, <1>11, <1>12, <1>13, <1>14, <1>15, <1>16, <1>17, <1>18
    DEF RW!Step, RW!Choose

-----------------------------------------------------------------------------
(* The types; the bound on state_ is the number of readers there can be.   *)
LEMMA RWTypeStep == RWInv /\ [RW!Next]_(RW!vars) => RW!TypeOK'
<1> SUFFICES ASSUME RWInv, [RW!Next]_(RW!vars) PROVE RW!TypeOK'
    OBVIOUS
<1>0. RW!TypeOK /\ RW!StateExact /\ RW!ContendersExact /\ ModeInv /\ SleepersInv
    BY DEF RWInv
<1>1. rwState' \in -1 .. Cardinality(Threads)
    <2>1. Cardinality(RW!Readers') \in 0 .. Cardinality(Threads) /\ Cardinality(Threads) \in Nat
        BY SetsTypedNext, Bounded
    <2> QED BY <2>1, RWStateStep, Numbers DEF RW!StateExact
<1> USE LockAssumption, RWAssumption DEF RW!TypeOK
<1>c. CASE UNCHANGED RW!vars
    BY <1>0, <1>c DEF RW!vars
<1> SUFFICES ASSUME NEW t \in Threads, RW!Step(t) \/ RW!Choose(t) PROVE RW!TypeOK'
    BY <1>c DEF RW!Next
<1>a. Cardinality(Threads) \in Nat
    BY Bounded
<1>2. CASE RW!Acquire(t)
    BY <1>0, <1>1, <1>a, Numbers, <1>2 DEF RW!Acquire
<1>3. CASE RW!Own(t)
    BY <1>0, <1>1, <1>a, <1>3 DEF RW!Own
<1>4. CASE RW!Contend(t)
    BY <1>0, <1>1, <1>a, <1>4 DEF RW!Contend
<1>5. CASE RW!SpinSucceeds(t)
    BY <1>0, <1>1, <1>a, <1>5, Numbers DEF RW!SpinSucceeds
<1>6. CASE RW!IncrementContenders(t)
    BY <1>0, <1>1, <1>a, Numbers, <1>6 DEF RW!IncrementContenders
<1>7. CASE RW!FutexWait(t)
    BY <1>0, <1>1, <1>a, Numbers, <1>7 DEF RW!FutexWait
<1>8. CASE RW!DecrementContenders(t)
    <2>1. t \in RW!Contending /\ RW!Contending \in SUBSET Threads
        BY <1>0, <1>8, SetsTyped DEF RW!DecrementContenders, RW!Contending
    <2>2. Cardinality(RW!Contending) \in Nat /\ Cardinality(RW!Contending) > 0
        BY ONLY ZenonT(30), <2>1, CardinalityStep
    <2>3. rwContenders - 1 \in Nat
      <3>1. rwContenders = Cardinality(RW!Contending)
          BY ONLY ZenonT(40), <1>0, SameCount DEF RW!ContendersExact
      <3> QED BY ONLY ZenonT(40), <2>2, <3>1, Numbers
    <2> QED BY <1>0, <1>1, <1>8, <2>3 DEF RW!DecrementContenders
<1>9. CASE RW!SharedUnlock(t)
    BY <1>0, <1>1, <1>a, Numbers, <1>9 DEF RW!SharedUnlock
<1>10. CASE RW!ExclusiveUnlock(t)
    BY <1>0, <1>1, <1>a, <1>10 DEF RW!ExclusiveUnlock
<1>11. CASE RW!Release(t)
    BY <1>0, <1>1, <1>a, Numbers, <1>11 DEF RW!Release
<1>12. CASE RW!CheckContenders(t)
    BY <1>0, <1>1, <1>a, <1>12 DEF RW!CheckContenders
<1>13. CASE RW!Wake(t)
    BY <1>0, <1>1, <1>a, <1>13 DEF RW!Wake
<1>14. CASE RW!SharedTryLock(t)
    BY <1>0, <1>1, <1>a, Numbers, <1>14 DEF RW!SharedTryLock
<1>15. CASE RW!TimedOut(t)
    BY <1>0, <1>1, <1>a, <1>15 DEF RW!TimedOut
<1>16. CASE RW!Interrupted(t)
    BY <1>0, <1>1, <1>a, <1>16 DEF RW!Interrupted
<1>17. CASE RW!SleepTimedOut(t)
    BY <1>0, <1>1, <1>a, <1>17 DEF RW!SleepTimedOut
<1>18. CASE \E m \in RW!Modes : RW!Lock(t, m)
    <2>1. rwCalls' \in 0 .. MaxRWCalls
      <3>1. rwCalls \in 0 .. MaxRWCalls /\ rwCalls < MaxRWCalls /\ rwCalls' = rwCalls + 1
          BY <1>0, <1>18 DEF RW!Lock
      <3> QED BY ONLY ZenonT(40), <3>1, RWAssumption, Numbers
    <2> QED BY <1>0, <1>1, <1>18, <2>1 DEF RW!Lock
<1> QED
    BY <1>2, <1>3, <1>4, <1>5, <1>6, <1>7, <1>8, <1>9, <1>10, <1>11, <1>12, <1>13, <1>14, <1>15, <1>16, <1>17, <1>18
    DEF RW!Step, RW!Choose

-----------------------------------------------------------------------------
LEMMA RWInductive == RWInv /\ [RW!Next]_(RW!vars) => RWInv'
BY RWTypeStep, RWStateStep, RWContendersStep, RWLabelStep DEF RWInv

LEMMA RWInvariance == RW!Spec => []RWInv
BY RWInitInv, RWInductive, PTL DEF RW!Spec

(* state_ says who is inside: SharedLock, SharedTryLock, ExclusiveLock and *)
(* ExclusiveLockWithTimeout let in any number of readers or one writer,    *)
(* whatever others that wait, time out or wake do.                         *)
THEOREM ReadersOrOneWriter == RW!Spec => []RW!StateExact
<1>1. RWInv => RW!StateExact
    BY DEF RWInv
<1> QED BY <1>1, RWInvariance, PTL

(* num_contenders_ is the number of threads that sleep or may go to sleep, *)
(* so that an unlock that reads 0 after its swap has nobody to wake.       *)
THEOREM RWContendersCounted == RW!Spec => []RW!ContendersExact
<1>1. RWInv => RW!ContendersExact
    BY DEF RWInv
<1> QED BY <1>1, RWInvariance, PTL
-----------------------------------------------------------------------------
(* The composition: every step is one of a part's or leaves the part alone. *)
LEMMA PartsSteps ==
    ASSUME [MCNext]_all
    PROVE  [RW!Next]_(RW!vars) /\ [Down!Next]_(Down!vars)
<1> USE DEF all, rwVars, downVars
<1>1. [RW!Next]_(RW!vars)
    BY DEF MCNext, RW!vars
<1>2. [Down!Next]_(Down!vars)
    BY DEF MCNext, Down!vars, Down!runtimeVars, Down!listVars, Down!threadVars
<1> QED BY <1>1, <1>2

(* What TLC checks of the ReaderWriterMutex in the composition, for any    *)
(* threads and any number of calls: state_ and num_contenders_ are exact.  *)
THEOREM Readers == MCSpec => []ReadersOrWriter
<1>1. MCInit => RWInv
    BY RWInitInv DEF MCInit
<1>2. RWInv /\ [MCNext]_all => RWInv'
    BY PartsSteps, RWInductive
<1>3. RWInv => ReadersOrWriter
    BY DEF RWInv, ReadersOrWriter
<1> QED BY <1>1, <1>2, <1>3, PTL DEF MCSpec

-----------------------------------------------------------------------------
(* The shutdown, whose lemmas hold of any threads.                         *)
DownP == INSTANCE RuntimeShutdownProofs WITH Main <- t4, Daemons <- {t1, t2}, NonDaemons <- {t3}

LEMMA ShutdownThreads == DownP!DistinctThreads
<1>1. IsFiniteSet({t1, t2} \cup {t3})
  <2>1. IsFiniteSet({} \cup {t1})
      BY FS_EmptySet, FS_AddElement
  <2>2. IsFiniteSet(({} \cup {t1}) \cup {t2})
      BY <2>1, FS_AddElement
  <2>3. IsFiniteSet((({} \cup {t1}) \cup {t2}) \cup {t3})
      BY <2>2, FS_AddElement
  <2>4. (({} \cup {t1}) \cup {t2}) \cup {t3} = {t1, t2} \cup {t3}
      OBVIOUS
  <2> QED BY <2>3, <2>4
<1> QED BY <1>1, ShutdownAssumption
        DEF DownP!DistinctThreads, DownP!OtherThreads, DownP!IsFiniteSet, IsFiniteSet

LEMMA SameShutdown ==
    /\ Down!Init => DownP!Init
    /\ [Down!Next]_(Down!vars) => [DownP!Next]_(DownP!vars)
    /\ DownP!ShutdownClean => Down!ShutdownClean
<1>1. Down!Init => DownP!Init
    BY DEF Down!Init, DownP!Init, Down!OtherThreads, DownP!OtherThreads
<1>2. Down!Next => DownP!Next
    BY DEF Down!runtimeVars, Down!listVars, Down!threadVars,
           Down!OtherThreads, Down!NonDaemonsGone, Down!Becomes,
           Down!EndThreadBirth, Down!MayCreate, Down!CreateNativeThread,
           Down!CreationFails, Down!CreateCallback, Down!Attach,
           Down!BecomeRunnable, Down!LeaveRunnable, Down!Unregister,
           Down!Destroy, Down!Unlist, Down!Leave, Down!Awake,
           Down!DestroyJavaVM, Down!WaitForOtherNonDaemonThreadsToExit,
           Down!WaitBeforeDestruction, Down!WaitForBirths,
           Down!DetachCurrentThread, Down!WaitInShutDown,
           Down!RequestSuspension, Down!Poll, Down!SetRuntimeDeleted,
           Down!MainStep, Down!ThreadStep, Down!Next, DownP!NonDaemonsGone,
           DownP!runtimeVars, DownP!listVars, DownP!threadVars,
           DownP!OtherThreads, DownP!Becomes, DownP!EndThreadBirth,
           DownP!MayCreate, DownP!CreateNativeThread, DownP!CreationFails,
           DownP!CreateCallback, DownP!Attach, DownP!BecomeRunnable,
           DownP!LeaveRunnable, DownP!Unregister, DownP!Destroy,
           DownP!Unlist, DownP!Leave, DownP!Awake, DownP!DestroyJavaVM,
           DownP!WaitForOtherNonDaemonThreadsToExit,
           DownP!WaitBeforeDestruction, DownP!WaitForBirths,
           DownP!DetachCurrentThread, DownP!WaitInShutDown,
           DownP!RequestSuspension, DownP!Poll, DownP!SetRuntimeDeleted,
           DownP!MainStep, DownP!ThreadStep, DownP!Next
<1>3. [Down!Next]_(Down!vars) => [DownP!Next]_(DownP!vars)
    BY <1>2 DEF Down!vars, Down!runtimeVars, Down!listVars, Down!threadVars,
       DownP!vars, DownP!runtimeVars, DownP!listVars, DownP!threadVars
<1>4. DownP!ShutdownClean => Down!ShutdownClean
    BY DEF Down!ShutdownClean, DownP!ShutdownClean, Down!OtherThreads, DownP!OtherThreads
<1> QED BY <1>1, <1>3, <1>4

(* What TLC checks of the shutdown in the composition: the CHECKs of       *)
(* ~Runtime and ThreadList::ShutDown.                                      *)
THEOREM Clean == MCSpec => []ShutdownClean
<1>1. MCInit => DownP!IInv
    BY SameShutdown, ShutdownThreads, DownP!InitInv DEF MCInit
<1>2. DownP!IInv /\ [MCNext]_all => DownP!IInv'
    BY PartsSteps, SameShutdown, ShutdownThreads, DownP!StepInv
<1>3. DownP!IInv => ShutdownClean
    BY SameShutdown DEF DownP!IInv, ShutdownClean
<1> QED BY <1>1, <1>2, <1>3, PTL DEF MCSpec
=============================================================================
