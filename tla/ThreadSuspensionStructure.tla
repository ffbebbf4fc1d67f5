---------------------- MODULE ThreadSuspensionStructure -----------------------
(***************************************************************************)
(* The structural part of the invariant of ThreadSuspension, Structure, is *)
(* preserved by every step.  First what a step of t can do to the other    *)
(* threads and to what a lock protects; then one lemma for each conjunct.  *)
(* They also use the two consequences of the counts, HeldMeansFlagged and  *)
(* ZeroMeansPassed.                                                        *)
(***************************************************************************)
EXTENDS ThreadSuspensionInv, FiniteSetTheorems, TLAPS

USE DEF wordVars, countVars, barrierVars, listVars, lockVars, callVars, Goto, GotoThen,
        Flags, Labels, RunnableLabels, SuspendedLabels, Visiting, SuspendedAll,
        ListLockLabels, CountLockLabels, Transit, ByLabels, Returned, Gone

(* Most steps need only first-order reasoning; SMT is cited where one      *)
(* needs more.                                                             *)
USE ZenonT(40)

(* The lists and sets that are counted are finite.                         *)
LEMMA ListFinite ==
    ASSUME Types
    PROVE  IsFiniteSet(list) /\ Cardinality(list) \in Nat
BY SMT, ThreadsAssumption, FS_Subset, FS_CardinalityType DEF Types

-----------------------------------------------------------------------------
(* Every step keeps the types.                                             *)
LEMMA TypesStep ==
    ASSUME Structure, HeldMeansFlagged, ZeroMeansPassed, NEW t \in Threads, Continue(t) \/ Begin(t)
    PROVE  Types'
<1> USE ListFinite
<1>1. CASE Transition(t)
    BY SMT, <1>1, ThreadsAssumption DEF Structure, Types, CallInv, InBy,
           Transition, CloseObjectAccess, ClaimBarriers, DrainBarrier,
           PassedBarriers, BecomeRunnable, WaitForResume, Resumed,
           LeaveRunnable
<1>2. CASE CheckSuspend(t)
    BY SMT, <1>2, ThreadsAssumption DEF Structure, Types, CallInv, InBy,
           CheckSuspend, LeaveRunnable
<1>3. CASE SuspendAllLockCount(t)
    BY SMT, <1>3, ThreadsAssumption DEF Structure, Types, CallInv, InBy,
           SuspendAllLockCount
<1>4. CASE SuspendAllVisit(t) \/ SuspendAllRetry(t)
    BY SMT, <1>4, ThreadsAssumption DEF Structure, Types, CallInv, InBy,
           SuspendAllVisit, SuspendAllRetry, InstallOrRetry, InstallBarrier
<1>5. CASE SuspendAllCheck(t)
    BY SMT, <1>5, ThreadsAssumption DEF Structure, Types, CallInv, InBy,
           SuspendAllCheck, ClearSuspendBarrier, IsSuspended
<1>6. CASE SuspendAllUnlock(t) \/ SuspendAllWait(t) \/ SuspendAllOwn(t)
    BY SMT, <1>6, ThreadsAssumption DEF Structure, Types, CallInv, InBy,
           SuspendAllUnlock, SuspendAllWait, SuspendAllOwn
<1>7. CASE ResumeAllStep(t)
  <2>1. CASE ResumeAllDisown(t) \/ ResumeAllLock(t)
      BY SMT, <2>1, ThreadsAssumption DEF Structure, Types, ResumeAllDisown, ResumeAllLock
  <2>2. CASE ResumeAllVisit(t)
      BY SMT, <2>2, ThreadsAssumption DEF Structure, Types, CallInv, ResumeAllVisit, DecrementCount
  <2>3. CASE ResumeAllUnlock(t)
    <3>1. pc' \in [Threads -> Labels]
      <4>1. "native" \in Labels /\ "resumeWoken" \in Labels
          BY DEF Labels
      <4>2. \A u \in Threads : pc[u] \in Labels
          BY DEF Structure, Types
      <4> QED BY <2>3, <4>1, <4>2 DEF ResumeAllUnlock, BroadcastThen
    <3> QED BY <2>3, <3>1 DEF Structure, Types, ResumeAllUnlock
  <2> QED BY <1>7, <2>1, <2>2, <2>3 DEF ResumeAllStep
<1>8. CASE SuspendBy(t)
    BY SMT, <1>8, ThreadsAssumption DEF Structure, Types, CallInv, InBy, SuspendBy,
           ByNotFound, ByYield, ByRequest, ByUse, Resume, ResumeBroadcast,
           ByRound, ByGiveUp, ByKeepOthers, DecrementCount, ByFound,
           IncrementCount, LeaveRunnable, IsSuspended, BroadcastThen
<1>9. CASE Detach(t)
    BY SMT, <1>9, ThreadsAssumption DEF Structure, Types, CallInv, InBy, Detach,
           DestroyClearPeer, DestroyReturn, UnregisterRemove,
           UnregisterSignal, LeaveRunnable, IsSuspended
<1>10. CASE Call(t)
    BY SMT, <1>10, ThreadsAssumption DEF Structure, Types, CallInv, InBy, Call,
           EnterNative, ReturnFromNative, SuspendAllLockList, BySuspend,
           LeaveRunnable
<1>11. CASE Register(t)
    BY SMT, <1>11, ThreadsAssumption DEF Structure, Types, CallInv, InBy, Register
<1>12. CASE Unregister(t) \/ SpuriousWake(t)
    BY SMT, <1>12, ThreadsAssumption DEF Structure, Types, CallInv, InBy,
           Unregister, SpuriousWake
<1>13. CASE ByTimeout(t)
    BY SMT, <1>13, ThreadsAssumption DEF Structure, Types, CallInv, InBy,
           ByTimeout, ByFound, ByRound, ByGiveUp, ByKeepOthers, DecrementCount
<1> QED BY <1>1, <1>2, <1>3, <1>4, <1>5, <1>6, <1>7, <1>8, <1>9, <1>10, <1>11, <1>12, <1>13
           DEF Continue, Begin, SuspendAllStep

-----------------------------------------------------------------------------
(* What a step of t leaves alone: the calls of the other threads.          *)
Frame(t) ==
    \A r \in Threads \ {t} :
        /\ pc'[r] = pc[r] \/ (pc[r] = "resumeWait" /\ pc'[r] = "resumeWoken")
        /\ state'[r] = state[r] /\ ret'[r] = ret[r] /\ target'[r] = target[r]
        /\ r \in requested' <=> r \in requested
        /\ r \in list' <=> r \in list

LEMMA FrameStep ==
    ASSUME Structure, NEW t \in Threads, Continue(t) \/ Begin(t)
    PROVE  Frame(t)
<1>0. /\ pc \in [Threads -> Labels] /\ target \in [Threads -> Threads \cup {None}]
      /\ ret \in [Threads -> RunnableLabels \cup SuspendedLabels]
      /\ state \in [Threads -> {"Runnable", "Suspended"}]
    BY DEF Structure, Types
<1> DEFINE Plain == /\ \/ pc' = pc \/ \E l : pc' = [pc EXCEPT ![t] = l]
                       \/ \E l : BroadcastThen(t, l)
                    /\ ret' = ret \/ \E l : ret' = [ret EXCEPT ![t] = l]
                    /\ target' = target \/ \E u : target' = [target EXCEPT ![t] = u]
                    /\ \/ requested' = requested \/ requested' = requested \cup {t}
                       \/ requested' = requested \ {t}
                    /\ state' = state \/ \E l : state' = [state EXCEPT ![t] = l]
                    /\ list' = list \/ list' = list \cup {t} \/ list' = list \ {t}
<1>1. ASSUME Plain PROVE Frame(t)
  <2>1. \A r \in Threads \ {t} : pc'[r] = pc[r] \/ (pc[r] = "resumeWait" /\ pc'[r] = "resumeWoken")
    <3>1. ASSUME NEW l, BroadcastThen(t, l), NEW r \in Threads \ {t}
          PROVE  pc'[r] = IF pc[r] = "resumeWait" THEN "resumeWoken" ELSE pc[r]
        BY <3>1 DEF BroadcastThen
    <3> QED BY <1>0, <1>1, <3>1
  <2>2. \A r \in Threads \ {t} : ret'[r] = ret[r]
      BY <1>0, <1>1
  <2>3. \A r \in Threads \ {t} : target'[r] = target[r]
      BY <1>0, <1>1
  <2>4. \A r \in Threads \ {t} : r \in requested' <=> r \in requested
      BY <1>1
  <2>5. \A r \in Threads \ {t} : state'[r] = state[r]
      BY <1>0, <1>1
  <2>6. \A r \in Threads \ {t} : r \in list' <=> r \in list
      BY <1>1
  <2> QED BY <2>1, <2>2, <2>3, <2>4, <2>5, <2>6 DEF Frame
<1>2. CASE Transition(t)
    BY <1>1, <1>2 DEF Transition, CloseObjectAccess, LeaveRunnable, ClaimBarriers, DrainBarrier,
       PassedBarriers, BecomeRunnable, WaitForResume, Resumed
<1>3. CASE CheckSuspend(t)
    BY <1>1, <1>3 DEF CheckSuspend, LeaveRunnable
<1>4. CASE SuspendAllLockCount(t) \/ SuspendAllCheck(t) \/ SuspendAllUnlock(t)
           \/ SuspendAllWait(t) \/ SuspendAllOwn(t)
    BY <1>1, <1>4 DEF SuspendAllLockCount, SuspendAllCheck, SuspendAllUnlock, SuspendAllWait,
       SuspendAllOwn
<1>5. CASE SuspendAllVisit(t) \/ SuspendAllRetry(t)
    BY <1>1, <1>5 DEF SuspendAllVisit, SuspendAllRetry, InstallOrRetry
<1>6. CASE ResumeAllStep(t)
    BY <1>1, <1>6 DEF ResumeAllStep, ResumeAllDisown, ResumeAllLock, ResumeAllVisit, ResumeAllUnlock
<1>7. CASE ByNotFound(t) \/ ByYield(t) \/ ByRequest(t) \/ ByTimeout(t)
    BY <1>1, <1>7 DEF ByNotFound, ByYield, ByRequest, ByTimeout, ByGiveUp, ByKeepOthers
<1>8. CASE ByUse(t) \/ Resume(t) \/ ResumeBroadcast(t)
  <2>1. CASE ByUse(t)
      BY <1>1, <2>1 DEF ByUse, LeaveRunnable
  <2>2. CASE Resume(t)
      BY <1>1, <2>2 DEF Resume, ByKeepOthers
  <2>3. CASE ResumeBroadcast(t)
      BY <1>1, <2>3 DEF ResumeBroadcast
  <2> QED BY <1>8, <2>1, <2>2, <2>3
<1>9. CASE Detach(t)
    BY <1>1, <1>9 DEF Detach, DestroyClearPeer, DestroyReturn, LeaveRunnable, UnregisterRemove,
       UnregisterSignal
<1>10. CASE Call(t)
    BY <1>1, <1>10 DEF Call, EnterNative, ReturnFromNative, LeaveRunnable, SuspendAllLockList,
       BySuspend
<1>11. CASE Register(t) \/ Unregister(t) \/ SpuriousWake(t)
    BY <1>1, <1>11 DEF Register, Unregister, SpuriousWake
<1> QED BY <1>2, <1>3, <1>4, <1>5, <1>6, <1>7, <1>8, <1>9, <1>10, <1>11
        DEF Continue, Begin, SuspendAllStep, SuspendBy

(* So the labels of the others still say the same.                         *)
LEMMA FrameShows ==
    ASSUME NEW t \in Threads, Frame(t), NEW r \in Threads \ {t}
    PROVE  /\ pc'[r] \in ListLockLabels <=> pc[r] \in ListLockLabels
           /\ pc'[r] \in CountLockLabels <=> pc[r] \in CountLockLabels
           /\ \A l \in Labels \ {"resumeWait", "resumeWoken"} : pc'[r] = l <=> pc[r] = l
           /\ InBy(r)' <=> InBy(r)
           /\ HasReturned(r)' <=> HasReturned(r)
<1>1. CASE pc'[r] = pc[r]
    BY <1>1 DEF Frame, InBy, HasReturned
<1>2. CASE pc[r] = "resumeWait" /\ pc'[r] = "resumeWoken"
    BY <1>2 DEF Frame, InBy, HasReturned
<1> QED BY <1>1, <1>2 DEF Frame

-----------------------------------------------------------------------------
(* A lock is taken when free, given back, or left alone, and the label     *)
(* says so.                                                                *)
Moved(t, lock, lockNext, inside, insideNext) ==
    \/ lockNext = lock /\ (insideNext <=> inside)
    \/ (lock = None \/ inside) /\ lockNext = t /\ insideNext
    \/ inside /\ lockNext = None /\ ~insideNext

LocksMove(t) ==
    /\ Moved(t, listLock, listLock', pc[t] \in ListLockLabels, pc'[t] \in ListLockLabels)
    /\ Moved(t, countLock, countLock', pc[t] \in CountLockLabels, pc'[t] \in CountLockLabels)
    /\ Moved(t, mutatorLock, mutatorLock', pc[t] = "exclusive", pc'[t] = "exclusive")

LEMMA LocksMoveStep ==
    ASSUME Structure, NEW t \in Threads, Continue(t) \/ Begin(t)
    PROVE  LocksMove(t)
<1>0. /\ pc \in [Threads -> Labels]
      /\ ret[t] \in RunnableLabels \cup SuspendedLabels
    BY DEF Structure, Types
<1> DEFINE Elsewhere(l) == l \notin ListLockLabels \cup CountLockLabels \cup {"exclusive"}
<1>1. ASSUME NEW l, pc' = [pc EXCEPT ![t] = l] \/ BroadcastThen(t, l)
      PROVE  pc'[t] = l
    BY <1>0, <1>1 DEF BroadcastThen
<1>2. ASSUME UNCHANGED lockVars, pc'[t] = pc[t] \/ (Elsewhere(pc[t]) /\ Elsewhere(pc'[t]))
      PROVE  LocksMove(t)
    BY <1>2 DEF LocksMove, Moved
<1>3. CASE Transition(t)
  <2>1. CASE CloseObjectAccess(t) \/ ClaimBarriers(t) \/ WaitForResume(t) \/ Resumed(t)
      BY <1>1, <1>2, <2>1 DEF CloseObjectAccess, LeaveRunnable, ClaimBarriers, WaitForResume, Resumed
  <2>2. CASE DrainBarrier(t)
      BY <1>1, <1>2, <2>2 DEF DrainBarrier
  <2>3. CASE PassedBarriers(t) \/ BecomeRunnable(t)
      BY <1>0, <1>1, <1>2, <2>3 DEF PassedBarriers, BecomeRunnable
  <2> QED BY <1>3, <2>1, <2>2, <2>3 DEF Transition
<1>4. CASE CheckSuspend(t)
    BY <1>1, <1>2, <1>4 DEF CheckSuspend, LeaveRunnable
<1>5. CASE SuspendAllLockCount(t) \/ SuspendAllUnlock(t)
    BY <1>1, <1>5 DEF SuspendAllLockCount, SuspendAllUnlock, LocksMove, Moved
<1>6. CASE SuspendAllCheck(t) \/ SuspendAllWait(t) \/ SuspendAllOwn(t)
    BY <1>1, <1>6 DEF SuspendAllCheck, SuspendAllWait, SuspendAllOwn, LocksMove, Moved
<1>7. CASE SuspendAllVisit(t) \/ SuspendAllRetry(t)
    BY <1>1, <1>7 DEF SuspendAllVisit, SuspendAllRetry, InstallOrRetry, LocksMove, Moved
<1>8. CASE ResumeAllStep(t)
    BY <1>1, <1>2, <1>8 DEF ResumeAllStep, ResumeAllDisown, ResumeAllLock, ResumeAllVisit,
       ResumeAllUnlock, LocksMove, Moved
<1>9. CASE ByNotFound(t) \/ ByYield(t) \/ ByRequest(t) \/ ByTimeout(t)
    BY <1>1, <1>2, <1>9 DEF ByNotFound, ByYield, ByRequest, ByTimeout, ByGiveUp, ByKeepOthers,
       ByFound, ByRound
<1>10. CASE ByUse(t) \/ Resume(t) \/ ResumeBroadcast(t)
  <2>1. CASE ByUse(t)
      BY <1>1, <1>2, <2>1 DEF ByUse, LeaveRunnable
  <2>2. CASE Resume(t)
      BY <1>1, <1>2, <2>2 DEF Resume, ByKeepOthers
  <2>3. CASE ResumeBroadcast(t)
      BY <1>1, <1>2, <2>3 DEF ResumeBroadcast
  <2> QED BY <1>10, <2>1, <2>2, <2>3
<1>11. CASE Detach(t)
    BY <1>1, <1>2, <1>11 DEF Detach, DestroyClearPeer, DestroyReturn, LeaveRunnable,
       UnregisterRemove, UnregisterSignal
<1>12. CASE Call(t)
    BY <1>1, <1>2, <1>12 DEF Call, EnterNative, ReturnFromNative, LeaveRunnable,
       SuspendAllLockList, BySuspend, LocksMove, Moved
<1>13. CASE Register(t) \/ Unregister(t) \/ SpuriousWake(t)
    BY <1>1, <1>2, <1>13 DEF Register, Unregister, SpuriousWake
<1> QED BY <1>3, <1>4, <1>5, <1>6, <1>7, <1>8, <1>9, <1>10, <1>11, <1>12, <1>13
        DEF Continue, Begin, SuspendAllStep, SuspendBy

(* Every step keeps the locks with the labels that hold them.              *)
LEMMA LockInvStep ==
    ASSUME Structure, HeldMeansFlagged, ZeroMeansPassed, NEW t \in Threads, Continue(t) \/ Begin(t)
    PROVE  LockInv'
<1>1. Frame(t) /\ LocksMove(t) /\ None \notin Threads
    BY FrameStep, LocksMoveStep, ThreadsAssumption
<1> SUFFICES ASSUME NEW u \in Threads
             PROVE  /\ pc'[u] \in ListLockLabels <=> listLock' = u
                    /\ pc'[u] \in CountLockLabels <=> countLock' = u
                    /\ pc'[u] = "exclusive" <=> mutatorLock' = u
    BY DEF LockInv
<1>2. /\ pc[u] \in ListLockLabels <=> listLock = u
      /\ pc[u] \in CountLockLabels <=> countLock = u
      /\ pc[u] = "exclusive" <=> mutatorLock = u
    BY DEF Structure, LockInv
<1>3. /\ pc[t] \in ListLockLabels <=> listLock = t
      /\ pc[t] \in CountLockLabels <=> countLock = t
      /\ pc[t] = "exclusive" <=> mutatorLock = t
    BY DEF Structure, LockInv
<1>4. CASE u = t
    BY <1>1, <1>3, <1>4 DEF LocksMove, Moved
<1>5. CASE u # t
  <2>1. /\ pc'[u] \in ListLockLabels <=> pc[u] \in ListLockLabels
        /\ pc'[u] \in CountLockLabels <=> pc[u] \in CountLockLabels
        /\ pc'[u] = "exclusive" <=> pc[u] = "exclusive"
      BY <1>1, <1>5, FrameShows
  <2>2. pc'[u] \in ListLockLabels <=> listLock' = u
      BY <1>1, <1>2, <1>3, <1>5, <2>1 DEF LocksMove, Moved
  <2>3. pc'[u] \in CountLockLabels <=> countLock' = u
      BY <1>1, <1>2, <1>3, <1>5, <2>1 DEF LocksMove, Moved
  <2>4. pc'[u] = "exclusive" <=> mutatorLock' = u
      BY <1>1, <1>2, <1>3, <1>5, <2>1 DEF LocksMove, Moved
  <2> QED BY <2>2, <2>3, <2>4
<1> QED BY <1>4, <1>5

-----------------------------------------------------------------------------
(* Where a step of t takes it.                                             *)
PlaceAt(t) ==
    /\ pc[t] \in RunnableLabels \cup {"leave"} => state[t] = "Runnable"
    /\ pc[t] \notin RunnableLabels \cup {"leave", "byBroadcast"} => state[t] = "Suspended"
    /\ pc[t] \in {"toRun", "resumeWait", "resumeWoken"} => ret[t] \in RunnableLabels
    /\ t \in list <=> pc[t] \notin Gone

(* Every step keeps states and list membership with the labels.            *)
LEMMA PlaceInvStep ==
    ASSUME Structure, HeldMeansFlagged, ZeroMeansPassed, NEW t \in Threads, Continue(t) \/ Begin(t)
    PROVE  PlaceInv'
<1>0. /\ pc \in [Threads -> Labels] /\ ret \in [Threads -> RunnableLabels \cup SuspendedLabels]
      /\ state \in [Threads -> {"Runnable", "Suspended"}]
    BY DEF Structure, Types
<1>1. ASSUME NEW l, pc' = [pc EXCEPT ![t] = l] \/ BroadcastThen(t, l)
      PROVE  pc'[t] = l
    BY <1>0, <1>1 DEF BroadcastThen
<1>2. ASSUME NEW l, ret' = [ret EXCEPT ![t] = l]
      PROVE  ret'[t] = l
    BY <1>0, <1>2
<1>3. ASSUME NEW l, state' = [state EXCEPT ![t] = l]
      PROVE  state'[t] = l
    BY <1>0, <1>3
<1>4. /\ pc[t] \in RunnableLabels \cup {"leave"} => state[t] = "Runnable"
      /\ pc[t] \notin RunnableLabels \cup {"leave", "byBroadcast"} => state[t] = "Suspended"
      /\ pc[t] \in {"toRun", "resumeWait", "resumeWoken"} => ret[t] \in RunnableLabels
      /\ t \in list <=> pc[t] \notin Gone
      /\ state[t] \in {"Runnable", "Suspended"}
      /\ ret[t] \in RunnableLabels \cup SuspendedLabels
    BY <1>0 DEF Structure, PlaceInv
<1>5. ASSUME NEW l, LeaveRunnable(t, l), t \in list
      PROVE  PlaceAt(t)'
    BY <1>1, <1>3, <1>5 DEF LeaveRunnable, PlaceAt
<1>6. PlaceAt(t)'
  <2>1. CASE Transition(t)
    <3>1. CASE CloseObjectAccess(t)
        BY <1>4, <1>5, <3>1 DEF CloseObjectAccess
    <3>2. CASE ClaimBarriers(t) \/ WaitForResume(t) \/ Resumed(t)
        BY <1>1, <1>4, <3>2 DEF ClaimBarriers, WaitForResume, Resumed, PlaceAt
    <3>3. CASE DrainBarrier(t)
        BY <1>1, <1>4, <3>3 DEF DrainBarrier, PlaceAt
    <3>4. CASE PassedBarriers(t)
        BY <1>1, <1>4, <3>4 DEF PassedBarriers, PlaceAt
    <3>5. CASE BecomeRunnable(t)
        BY <1>1, <1>3, <1>4, <3>5 DEF BecomeRunnable, PlaceAt
    <3> QED BY <2>1, <3>1, <3>2, <3>3, <3>4, <3>5 DEF Transition
  <2>2. CASE CheckSuspend(t)
      BY <1>4, <1>5, <2>2 DEF CheckSuspend
  <2>3. CASE SuspendAllLockCount(t) \/ SuspendAllUnlock(t)
      BY <1>1, <1>4, <2>3 DEF SuspendAllLockCount, SuspendAllUnlock, PlaceAt
  <2>4. CASE SuspendAllCheck(t) \/ SuspendAllWait(t) \/ SuspendAllOwn(t)
      BY <1>1, <1>4, <2>4 DEF SuspendAllCheck, SuspendAllWait, SuspendAllOwn, PlaceAt
  <2>5. CASE SuspendAllVisit(t) \/ SuspendAllRetry(t)
    <3>1. pc[t] \in {"saVisit", "saRetry"} /\ pc'[t] \in {"saCheck", "saRetry"}
        BY <1>1, <2>5 DEF SuspendAllVisit, SuspendAllRetry, InstallOrRetry
    <3>2. UNCHANGED <<state, list>>
        BY <2>5 DEF SuspendAllVisit, SuspendAllRetry, InstallOrRetry
    <3> QED BY <1>4, <3>1, <3>2 DEF PlaceAt
  <2>6. CASE ResumeAllStep(t)
      BY <1>1, <1>4, <2>6 DEF ResumeAllStep, ResumeAllDisown, ResumeAllLock, ResumeAllVisit,
         ResumeAllUnlock, PlaceAt
  <2>7. CASE ByNotFound(t) \/ ByYield(t) \/ ByRequest(t) \/ ByTimeout(t)
      BY <1>1, <1>4, <2>7 DEF ByNotFound, ByYield, ByRequest, ByTimeout, ByGiveUp, ByKeepOthers,
         ByFound, ByRound, PlaceAt
  <2>8. CASE ByUse(t)
      BY <1>4, <1>5, <2>8 DEF ByUse
  <2>9. CASE Resume(t)
      BY <1>1, <1>4, <2>9 DEF Resume, ByKeepOthers, PlaceAt
  <2>10. CASE ResumeBroadcast(t)
      BY <1>1, <1>4, <2>10 DEF ResumeBroadcast, PlaceAt
  <2>11. CASE Detach(t)
      BY <1>1, <1>4, <1>5, <2>11 DEF Detach, DestroyClearPeer, DestroyReturn,
         UnregisterRemove, UnregisterSignal, PlaceAt
  <2>12. CASE Call(t)
      BY <1>1, <1>2, <1>3, <1>4, <1>5, <2>12 DEF Call, EnterNative, ReturnFromNative,
         SuspendAllLockList, BySuspend, PlaceAt
  <2>13. CASE Register(t) \/ Unregister(t) \/ SpuriousWake(t)
      BY <1>1, <1>2, <1>4, <2>13 DEF Register, Unregister, SpuriousWake, PlaceAt
  <2> QED BY <2>1, <2>2, <2>3, <2>4, <2>5, <2>6, <2>7, <2>8, <2>9, <2>10, <2>11, <2>12, <2>13
          DEF Continue, Begin, SuspendAllStep, SuspendBy
<1>7. ASSUME NEW u \in Threads \ {t} PROVE PlaceAt(u)'
    BY FrameStep DEF Frame, Structure, PlaceInv, PlaceAt
<1> QED BY <1>6, <1>7 DEF PlaceInv, PlaceAt

-----------------------------------------------------------------------------
(* The acting thread becomes runnable, leaves kRunnable, or stays where it *)
(* was.                                                                    *)
Leaves(t) ==
    \/ CheckSuspend(t) \/ CloseObjectAccess(t) \/ EnterNative(t)
    \/ (\E u \in Threads : BySuspend(t, u)) \/ ByUse(t) \/ DestroyReturn(t)

LEMMA StateStep ==
    ASSUME NEW t \in Threads, Continue(t) \/ Begin(t), ~BecomeRunnable(t), ~Leaves(t)
    PROVE  state' = state
<1>1. CASE Transition(t)
    BY <1>1 DEF Leaves, Transition, ClaimBarriers, DrainBarrier, PassedBarriers, WaitForResume, Resumed
<1>2. CASE SuspendAllStep(t)
    BY <1>2 DEF SuspendAllStep, SuspendAllLockCount, SuspendAllVisit, SuspendAllRetry,
       InstallOrRetry, SuspendAllCheck, SuspendAllUnlock, SuspendAllWait, SuspendAllOwn
<1>3. CASE ResumeAllStep(t)
    BY <1>3 DEF ResumeAllStep, ResumeAllDisown, ResumeAllLock, ResumeAllVisit, ResumeAllUnlock
<1>4. CASE SuspendBy(t) \/ ByTimeout(t)
    BY <1>4 DEF Leaves, SuspendBy, ByNotFound, ByYield, ByRequest, ByTimeout, Resume,
       ResumeBroadcast, ByGiveUp, ByKeepOthers
<1>5. CASE Detach(t)
    BY <1>5 DEF Leaves, Detach, DestroyClearPeer, UnregisterRemove, UnregisterSignal
<1>6. CASE Call(t)
    BY <1>6 DEF Leaves, Call, ReturnFromNative, SuspendAllLockList
<1>7. CASE Register(t) \/ Unregister(t) \/ SpuriousWake(t)
    BY <1>7 DEF Register, Unregister, SpuriousWake
<1>8. ~CheckSuspend(t)
    BY DEF Leaves
<1> QED BY ZenonT(30), <1>1, <1>2, <1>3, <1>4, <1>5, <1>6, <1>7, <1>8 DEF Continue, Begin

-----------------------------------------------------------------------------
(* What a step of t leaves to those who hold a lock or a request.          *)
LEMMA LocksRespected ==
    ASSUME Structure, NEW t \in Threads, Continue(t) \/ Begin(t), NEW r \in Threads \ {t}
    PROVE  /\ pc[r] \in ListLockLabels => UNCHANGED <<todo, list>>
           /\ pc[r] \in CountLockLabels => UNCHANGED barriers
<1>0. /\ pc[t] \in ListLockLabels <=> listLock = t
      /\ pc[t] \in CountLockLabels <=> countLock = t
      /\ pc[r] \in ListLockLabels <=> listLock = r
      /\ pc[r] \in CountLockLabels <=> countLock = r
      /\ None \notin Threads
    BY ThreadsAssumption DEF Structure, LockInv
<1>1. CASE Transition(t)
    BY <1>0, <1>1 DEF Transition, CloseObjectAccess, LeaveRunnable, ClaimBarriers, DrainBarrier,
       PassedBarriers, BecomeRunnable, WaitForResume, Resumed
<1>2. CASE CheckSuspend(t)
    BY <1>2 DEF CheckSuspend, LeaveRunnable
<1>3. CASE SuspendAllStep(t)
    BY <1>0, <1>3 DEF SuspendAllStep, SuspendAllLockCount, SuspendAllVisit, SuspendAllRetry,
       InstallOrRetry, SuspendAllCheck, SuspendAllUnlock, SuspendAllWait, SuspendAllOwn
<1>4. CASE ResumeAllStep(t)
    BY <1>0, <1>4 DEF ResumeAllStep, ResumeAllDisown, ResumeAllLock, ResumeAllVisit, ResumeAllUnlock
<1>5. CASE SuspendBy(t) \/ ByTimeout(t)
    BY <1>5 DEF SuspendBy, ByNotFound, ByYield, ByRequest, ByTimeout, ByUse, LeaveRunnable, Resume,
       ResumeBroadcast, ByGiveUp, ByKeepOthers
<1>6. CASE Detach(t)
    BY <1>0, <1>6 DEF Detach, DestroyClearPeer, DestroyReturn, LeaveRunnable, UnregisterRemove,
       UnregisterSignal
<1>7. CASE Call(t)
    BY <1>7 DEF Call, EnterNative, LeaveRunnable, ReturnFromNative, SuspendAllLockList, BySuspend
<1>8. CASE Register(t) \/ Unregister(t) \/ SpuriousWake(t)
    BY <1>0, <1>8 DEF Register, Unregister, SpuriousWake
<1> QED BY <1>1, <1>2, <1>3, <1>4, <1>5, <1>6, <1>7, <1>8 DEF Continue, Begin

LEMMA HeldStays ==
    ASSUME Structure, HeldMeansFlagged, NEW t \in Threads, Continue(t) \/ Begin(t),
           NEW r \in Threads, NEW u \in Threads, Holds(r, u), u \in list
    PROVE  u \in list'
<1>1. CASE UnregisterRemove(t)
  <2>1. state[t] = "Suspended"
      BY <1>1 DEF UnregisterRemove, Structure, PlaceInv
  <2>2. "SuspendRequest" \notin flags[t]
      BY <1>1, <2>1 DEF UnregisterRemove, IsSuspended
  <2>3. u # t
      BY <2>2 DEF HeldMeansFlagged
  <2> QED BY <1>1, <2>3 DEF UnregisterRemove
<1>2. CASE Register(t)
    BY <1>2 DEF Register
<1>3. CASE Transition(t) \/ CheckSuspend(t)
    BY <1>3 DEF Transition, CloseObjectAccess, LeaveRunnable, ClaimBarriers, DrainBarrier,
       PassedBarriers, BecomeRunnable, WaitForResume, Resumed, CheckSuspend
<1>4. CASE SuspendAllStep(t)
    BY <1>4 DEF SuspendAllStep, SuspendAllLockCount, SuspendAllVisit, SuspendAllRetry,
       InstallOrRetry, SuspendAllCheck, SuspendAllUnlock, SuspendAllWait, SuspendAllOwn
<1>5. CASE ResumeAllStep(t)
    BY <1>5 DEF ResumeAllStep, ResumeAllDisown, ResumeAllLock, ResumeAllVisit, ResumeAllUnlock
<1>6. CASE SuspendBy(t) \/ ByTimeout(t)
    BY <1>6 DEF SuspendBy, ByNotFound, ByYield, ByRequest, ByTimeout, ByUse, LeaveRunnable, Resume,
       ResumeBroadcast, ByGiveUp, ByKeepOthers
<1>7. CASE DestroyClearPeer(t) \/ DestroyReturn(t) \/ UnregisterSignal(t)
    BY <1>7 DEF DestroyClearPeer, DestroyReturn, LeaveRunnable, UnregisterSignal
<1>8. CASE Call(t)
    BY <1>8 DEF Call, EnterNative, LeaveRunnable, ReturnFromNative, SuspendAllLockList, BySuspend
<1>9. CASE Unregister(t) \/ SpuriousWake(t)
    BY <1>9 DEF Unregister, SpuriousWake
<1> QED BY <1>1, <1>2, <1>3, <1>4, <1>5, <1>6, <1>7, <1>8, <1>9 DEF Continue, Begin, Detach

-----------------------------------------------------------------------------
(* The calls: SuspendThreadBy... and the loops over the list.              *)
CallAt(r) ==
    /\ r \in requested => InBy(r) /\ target[r] \in list
    /\ InBy(r) => target[r] \in Threads \ {r}
    /\ HasReturned(r) => r \in requested
    /\ pc[r] \in Visiting \cup {"raVisit"} => todo \subseteq list \ {r}
    /\ pc[r] = "saRetry" => target[r] \in todo
    /\ pc[r] = "saCheck" =>
          target[r] \in (list \ {r}) \ todo /\ r \in barriers[target[r]]

(* A step of t inside its own call of SuspendThreadBy..., or outside any,  *)
(* that leaves the call where it is.                                       *)
SameCall(t) ==
    /\ InBy(t)' <=> InBy(t)
    /\ HasReturned(t)' <=> HasReturned(t)
    /\ t \in requested' <=> t \in requested
    /\ InBy(t) => target'[t] = target[t]

LEMMA SameCallStep ==
    ASSUME Structure, NEW t \in Threads, Continue(t) \/ Begin(t),
           ~ByNotFound(t), ~ByTimeout(t), ~ByRequest(t), ~Resume(t),
           \A u \in Threads : ~BySuspend(t, u)
    PROVE  SameCall(t)
<1>0. /\ pc \in [Threads -> Labels] /\ target \in [Threads -> Threads \cup {None}]
      /\ ret \in [Threads -> RunnableLabels \cup SuspendedLabels]
      /\ ret[t] \in RunnableLabels \cup SuspendedLabels
    BY DEF Structure, Types
<1>1. ASSUME NEW l, pc' = [pc EXCEPT ![t] = l] \/ BroadcastThen(t, l)
      PROVE  pc'[t] = l
    BY <1>0, <1>1 DEF BroadcastThen
<1>2. ASSUME NEW l, ret' = [ret EXCEPT ![t] = l]
      PROVE  ret'[t] = l
    BY <1>0, <1>2
<1>3. ASSUME UNCHANGED <<target, requested, ret>>,
             pc[t] \in Transit, pc'[t] \in Transit \cup {ret[t]}
      PROVE  SameCall(t)
    BY <1>0, <1>3 DEF SameCall, InBy, HasReturned
<1>4. ASSUME UNCHANGED requested,
             pc[t] \notin ByLabels \cup Transit, pc'[t] \notin ByLabels \cup Transit
      PROVE  SameCall(t)
    BY <1>4 DEF SameCall, InBy, HasReturned
<1>5. ASSUME NEW l, UNCHANGED requested, pc[t] \notin ByLabels \cup Transit,
             ret' = [ret EXCEPT ![t] = l], l \notin ByLabels, pc'[t] \in Transit
      PROVE  SameCall(t)
    BY <1>2, <1>5 DEF SameCall, InBy, HasReturned
<1>6. CASE Transition(t)
  <2>1. CASE CloseObjectAccess(t)
      BY <1>0, <1>1, <1>2, <2>1 DEF CloseObjectAccess, LeaveRunnable, SameCall, InBy, HasReturned
  <2>2. CASE ClaimBarriers(t) \/ WaitForResume(t) \/ Resumed(t)
      BY <1>1, <1>3, <2>2 DEF ClaimBarriers, WaitForResume, Resumed
  <2>3. CASE DrainBarrier(t)
      BY <1>1, <1>3, <2>3 DEF DrainBarrier
  <2>4. CASE PassedBarriers(t) \/ BecomeRunnable(t)
      BY <1>1, <1>3, <2>4 DEF PassedBarriers, BecomeRunnable
  <2> QED BY <1>6, <2>1, <2>2, <2>3, <2>4 DEF Transition
<1>7. CASE CheckSuspend(t) \/ ByUse(t)
    BY <1>1, <1>2, <1>7 DEF CheckSuspend, ByUse, LeaveRunnable, SameCall, InBy, HasReturned
<1>8. CASE SuspendAllStep(t)
  <2>1. CASE SuspendAllVisit(t) \/ SuspendAllRetry(t)
      BY <1>1, <1>4, <2>1 DEF SuspendAllVisit, SuspendAllRetry, InstallOrRetry
  <2>2. CASE SuspendAllLockCount(t) \/ SuspendAllCheck(t) \/ SuspendAllUnlock(t)
             \/ SuspendAllWait(t) \/ SuspendAllOwn(t)
      BY <1>1, <1>4, <2>2 DEF SuspendAllLockCount, SuspendAllCheck, SuspendAllUnlock,
         SuspendAllWait, SuspendAllOwn
  <2> QED BY <1>8, <2>1, <2>2 DEF SuspendAllStep
<1>9. CASE ResumeAllStep(t)
    BY <1>1, <1>4, <1>9 DEF ResumeAllStep, ResumeAllDisown, ResumeAllLock, ResumeAllVisit,
       ResumeAllUnlock
<1>10. CASE ByYield(t)
    BY <1>1, <1>2, <1>10 DEF ByYield, ByFound, ByRound, SameCall, InBy, HasReturned
<1>11. CASE ResumeBroadcast(t)
    BY <1>1, <1>4, <1>11 DEF ResumeBroadcast
<1>12. CASE Detach(t)
    BY <1>1, <1>4, <1>5, <1>12 DEF Detach, DestroyClearPeer, DestroyReturn, LeaveRunnable,
       UnregisterRemove, UnregisterSignal
<1>13. CASE EnterNative(t) \/ ReturnFromNative(t) \/ SuspendAllLockList(t)
    BY <1>1, <1>4, <1>5, <1>13 DEF EnterNative, ReturnFromNative, LeaveRunnable, SuspendAllLockList
<1>14. CASE Register(t) \/ Unregister(t) \/ SpuriousWake(t)
    BY <1>1, <1>3, <1>4, <1>5, <1>14 DEF Register, Unregister, SpuriousWake
<1> QED BY <1>6, <1>7, <1>8, <1>9, <1>10, <1>11, <1>12, <1>13, <1>14
        DEF Continue, Begin, SuspendBy, Call

(* Every step keeps what the calls rely on: targets stay on the list, and  *)
(* a loop over the list stays inside it.                                   *)
LEMMA CallInvStep ==
    ASSUME Structure, HeldMeansFlagged, ZeroMeansPassed, NEW t \in Threads, Continue(t) \/ Begin(t)
    PROVE  CallInv'
<1>0. /\ pc \in [Threads -> Labels] /\ target \in [Threads -> Threads \cup {None}]
      /\ ret \in [Threads -> RunnableLabels \cup SuspendedLabels]
      /\ barriers \in [Threads -> SUBSET Threads] /\ list \subseteq Threads
      /\ requested \subseteq Threads /\ Frame(t)
    BY FrameStep DEF Structure, Types
<1>1. ASSUME NEW l, pc' = [pc EXCEPT ![t] = l] \/ BroadcastThen(t, l)
      PROVE  pc'[t] = l
    BY <1>0, <1>1 DEF BroadcastThen
<1>2. ASSUME NEW l, ret' = [ret EXCEPT ![t] = l]
      PROVE  ret'[t] = l
    BY <1>0, <1>2
<1>3. \A r \in Threads : CallAt(r)
    BY DEF Structure, CallInv, CallAt
<1>4. ASSUME NEW r \in Threads, r \in requested PROVE target[r] \in list'
  <2>1. target[r] \in list
      BY <1>3, <1>4 DEF CallAt
  <2>2. Holds(r, target[r])
      BY <1>4 DEF Holds
  <2> QED BY <1>0, <2>1, <2>2, HeldStays
<1>5. ASSUME NEW r \in Threads \ {t} PROVE CallAt(r)'
  <2>1. /\ InBy(r)' <=> InBy(r)
        /\ HasReturned(r)' <=> HasReturned(r)
        /\ \A l \in Visiting \cup {"raVisit"} : pc'[r] = l <=> pc[r] = l
      BY <1>0, FrameShows
  <2>2. target'[r] = target[r] /\ (r \in requested' <=> r \in requested)
      BY <1>0 DEF Frame
  <2>3. /\ pc[r] \in ListLockLabels => UNCHANGED <<todo, list>>
        /\ pc[r] \in CountLockLabels => UNCHANGED barriers
      BY LocksRespected
  <2>4. /\ r \in requested' => InBy(r)' /\ target'[r] \in list'
        /\ InBy(r)' => target'[r] \in Threads \ {r}
        /\ HasReturned(r)' => r \in requested'
      BY <1>3, <1>4, <2>1, <2>2 DEF CallAt
  <2>5. pc'[r] \in Visiting \cup {"raVisit"} => todo' \subseteq list' \ {r}
      BY <1>3, <2>1, <2>3 DEF CallAt
  <2>6. pc'[r] = "saRetry" => target'[r] \in todo'
      BY <1>3, <2>1, <2>2, <2>3 DEF CallAt
  <2>7. pc'[r] = "saCheck" =>
          target'[r] \in (list' \ {r}) \ todo' /\ r \in barriers'[target'[r]]
      BY <1>3, <2>1, <2>2, <2>3 DEF CallAt
  <2> QED BY <2>4, <2>5, <2>6, <2>7 DEF CallAt
<1>6. ASSUME SameCall(t), pc'[t] \notin Visiting \cup {"raVisit"} PROVE CallAt(t)'
    BY <1>3, <1>4, <1>6 DEF CallAt, SameCall
<1>7. CallAt(t)'
  <2>1. CASE ByNotFound(t) \/ ByTimeout(t) \/ Resume(t)
    <3>1. /\ t \notin requested'
          /\ pc'[t] \in {"leave", "byBroadcast", "runnable", "native"}
          /\ pc'[t] = "leave" => ret'[t] = "runnable"
        BY <1>1, <1>2, <2>1 DEF ByNotFound, ByTimeout, ByGiveUp, Resume
    <3> QED BY <3>1 DEF CallAt, InBy, HasReturned
  <2>2. CASE ByRequest(t)
    <3>1. pc[t] = "byTry" /\ target[t] \in list /\ UNCHANGED <<target, list>>
        BY <2>2 DEF ByRequest, ByFound, ByRound, ByKeepOthers
    <3>2. t \in requested' /\ pc'[t] = "leave" /\ ret'[t] \in ByLabels
        BY <1>1, <1>2, <2>2 DEF ByRequest
    <3>3. target[t] \in Threads \ {t}
        BY <1>3, <3>1 DEF CallAt, InBy
    <3> QED BY <3>1, <3>2, <3>3 DEF CallAt, InBy
  <2>3. CASE \E u \in Threads : BySuspend(t, u)
    <3> PICK u \in Threads : BySuspend(t, u)
        BY <2>3
    <3>1. t \notin requested
        BY <1>3 DEF BySuspend, CallAt, InBy
    <3>2. target'[t] = u /\ u # t /\ pc'[t] = "pass" /\ ret'[t] = "byTry" /\ t \notin requested'
        BY <1>0, <1>1, <1>2, <3>1 DEF BySuspend
    <3> QED BY <3>2 DEF CallAt, InBy, HasReturned
  <2>4. ASSUME ~ByNotFound(t), ~ByTimeout(t), ~Resume(t), ~ByRequest(t),
               \A u \in Threads : ~BySuspend(t, u)
        PROVE  CallAt(t)'
    <3>0. SameCall(t)
        BY <2>4, SameCallStep
    <3>1. ASSUME pc[t] \in ListLockLabels \cup {"raLock"},
                 pc'[t] \in Visiting \cup {"raVisit"} => todo' \subseteq list' \ {t},
                 pc'[t] = "saRetry" => target'[t] \in todo',
                 pc'[t] = "saCheck" =>
                   target'[t] \in (list' \ {t}) \ todo' /\ t \in barriers'[target'[t]]
          PROVE  CallAt(t)'
        BY <1>3, <1>4, <3>0, <3>1 DEF CallAt, SameCall
    <3>2. CASE SuspendAllLockCount(t) \/ SuspendAllCheck(t) \/ ResumeAllLock(t)
      <4>1. pc[t] \in ListLockLabels \cup {"raLock"} /\ pc'[t] \in {"saVisit", "raVisit"}
          BY <1>1, <3>2 DEF SuspendAllLockCount, SuspendAllCheck, ResumeAllLock
      <4>2. list' = list /\ (todo' = list \ {t} \/ (pc[t] = "saCheck" /\ todo' = todo))
          BY <3>2 DEF SuspendAllLockCount, SuspendAllCheck, ResumeAllLock
      <4>3. todo' \subseteq list' \ {t}
          BY <1>3, <4>2 DEF CallAt
      <4> QED BY <3>1, <4>1, <4>3
    <3>3. CASE ResumeAllVisit(t)
      <4>1. pc[t] = "raVisit" /\ pc'[t] = "raVisit" /\ list' = list /\ todo' \subseteq todo
          BY <3>3 DEF ResumeAllVisit
      <4>2. todo' \subseteq list' \ {t}
          BY <1>3, <4>1 DEF CallAt
      <4> QED BY <3>1, <4>1, <4>2
    <3>4. CASE SuspendAllVisit(t) \/ SuspendAllRetry(t)
      <4>1. pc[t] \in {"saVisit", "saRetry"} /\ todo \subseteq list \ {t}
          BY <1>3, <3>4 DEF SuspendAllVisit, SuspendAllRetry, CallAt
      <4>2. PICK u \in todo : InstallOrRetry(t, u)
          BY <1>3, <3>4 DEF SuspendAllVisit, SuspendAllRetry, CallAt
      <4>3. u \in Threads \ {t} /\ u \in list
          BY <1>0, <4>1, <4>2
      <4>4. target'[t] = u /\ list' = list
          BY <1>0, <4>2, <4>3 DEF InstallOrRetry
      <4>5. CASE Cardinality(barriers[u]) < MaxSuspendBarriers
        <5>1. /\ barriers' = [barriers EXCEPT ![u] = barriers[u] \cup {t}]
              /\ todo' = todo \ {u} /\ pc'[t] = "saCheck"
            BY <1>1, <4>2, <4>5 DEF InstallOrRetry, InstallBarrier
        <5>2. t \in barriers'[u]
            BY <1>0, <4>3, <5>1
        <5> QED BY <3>1, <4>1, <4>3, <4>4, <5>1, <5>2
      <4>6. CASE ~(Cardinality(barriers[u]) < MaxSuspendBarriers)
        <5>1. todo' = todo /\ pc'[t] = "saRetry"
            BY <1>1, <4>2, <4>6 DEF InstallOrRetry
        <5> QED BY <3>1, <4>1, <4>2, <4>4, <5>1
      <4> QED BY <4>5, <4>6
    <3>5. ASSUME ~SuspendAllLockCount(t), ~SuspendAllCheck(t), ~ResumeAllLock(t),
                 ~ResumeAllVisit(t), ~SuspendAllVisit(t), ~SuspendAllRetry(t)
          PROVE  pc'[t] \notin Visiting \cup {"raVisit"}
      <4>0. ret[t] \in RunnableLabels \cup SuspendedLabels
          BY <1>0
      <4>1. CASE Transition(t)
        <5>1. CASE DrainBarrier(t)
            BY <1>1, <5>1 DEF DrainBarrier
        <5>2. CASE CloseObjectAccess(t) \/ ClaimBarriers(t) \/ WaitForResume(t) \/ Resumed(t)
            BY <1>1, <5>2 DEF CloseObjectAccess, LeaveRunnable, ClaimBarriers, WaitForResume, Resumed
        <5>3. CASE PassedBarriers(t) \/ BecomeRunnable(t)
            BY <1>1, <4>0, <5>3 DEF PassedBarriers, BecomeRunnable
        <5> QED BY <4>1, <5>1, <5>2, <5>3 DEF Transition
      <4>2. CASE CheckSuspend(t) \/ ByUse(t) \/ ByYield(t) \/ ResumeBroadcast(t)
          BY <1>1, <4>2 DEF CheckSuspend, ByUse, ByYield, LeaveRunnable, ResumeBroadcast
      <4>3. CASE SuspendAllUnlock(t) \/ SuspendAllWait(t) \/ SuspendAllOwn(t)
          BY <1>1, <4>3 DEF SuspendAllUnlock, SuspendAllWait, SuspendAllOwn
      <4>4. CASE ResumeAllDisown(t) \/ ResumeAllUnlock(t)
          BY <1>1, <4>4 DEF ResumeAllDisown, ResumeAllUnlock
      <4>5. CASE Detach(t)
          BY <1>1, <4>5 DEF Detach, DestroyClearPeer, DestroyReturn, LeaveRunnable,
             UnregisterRemove, UnregisterSignal
      <4>6. CASE EnterNative(t) \/ ReturnFromNative(t) \/ SuspendAllLockList(t)
          BY <1>1, <4>6 DEF EnterNative, ReturnFromNative, LeaveRunnable, SuspendAllLockList
      <4>7. CASE Register(t) \/ Unregister(t) \/ SpuriousWake(t)
          BY <1>1, <4>7 DEF Register, Unregister, SpuriousWake
      <4> QED BY <2>4, <3>5, <4>1, <4>2, <4>3, <4>4, <4>5, <4>6, <4>7
              DEF Continue, Begin, SuspendAllStep, ResumeAllStep, SuspendBy, Call
    <3> QED BY <1>6, <3>0, <3>2, <3>3, <3>4, <3>5
  <2> QED BY <2>1, <2>2, <2>3, <2>4
<1>8. requested' \subseteq Threads
    BY TypesStep DEF Types
<1> QED BY <1>5, <1>7, <1>8 DEF CallInv, CallAt

-----------------------------------------------------------------------------
(* The barriers.  Most steps touch none.                                   *)
ByBarrier(t) ==
    \/ ClaimBarriers(t) \/ DrainBarrier(t)
    \/ SuspendAllVisit(t) \/ SuspendAllRetry(t) \/ SuspendAllCheck(t)
    \/ SuspendAllUnlock(t) \/ SuspendAllWait(t)

LEMMA NoBarrierStep ==
    ASSUME Structure, NEW t \in Threads, Continue(t) \/ Begin(t), ~ByBarrier(t)
    PROVE  /\ pc[t] \notin Visiting \cup {"saWait", "passDrain"}
           /\ UNCHANGED <<barriers, claimed>>
           /\ \A u \in Threads : "ActiveSuspendBarrier" \in flags'[u]
                                  <=> "ActiveSuspendBarrier" \in flags[u]
<1>0. flags \in [Threads -> SUBSET Flags]
    BY DEF Structure, Types
<1>1. ASSUME NEW v \in Threads, IncrementCount(v) \/ DecrementCount(v)
      PROVE  \A u \in Threads : "ActiveSuspendBarrier" \in flags'[u]
                                  <=> "ActiveSuspendBarrier" \in flags[u]
  <2>1. CASE IncrementCount(v)
      BY <1>0, <2>1 DEF IncrementCount
  <2>2. CASE DecrementCount(v)
    <3>1. \/ flags' = [flags EXCEPT ![v] = flags[v] \ {"SuspendRequest"}]
          \/ flags' = [flags EXCEPT ![v] = flags[v] \cup {"SuspendRequest"}]
        BY <2>2 DEF DecrementCount
    <3> QED BY <1>0, <3>1
  <2> QED BY <1>1, <2>1, <2>2
<1>2. CASE Transition(t)
    BY <1>2 DEF ByBarrier, Transition, CloseObjectAccess, LeaveRunnable, PassedBarriers,
       BecomeRunnable, WaitForResume, Resumed
<1>3. CASE CheckSuspend(t)
    BY <1>3 DEF CheckSuspend, LeaveRunnable
<1>4. CASE SuspendAllStep(t)
    BY <1>4 DEF ByBarrier, SuspendAllStep, SuspendAllLockCount, SuspendAllOwn
<1>5. CASE ResumeAllDisown(t) \/ ResumeAllLock(t) \/ ResumeAllUnlock(t)
    BY <1>5 DEF ResumeAllDisown, ResumeAllLock, ResumeAllUnlock
<1>6. CASE ResumeAllVisit(t)
  <2>1. todo \subseteq Threads
      BY DEF Structure, Types
  <2> QED BY <1>1, <1>6, <2>1 DEF ResumeAllVisit
<1>7. CASE ByNotFound(t) \/ ByRequest(t) \/ ByTimeout(t) \/ Resume(t)
  <2>1. pc[t] \in {"byTry", "byResume", "byRelease"} /\ UNCHANGED <<barriers, claimed>>
      BY <1>7 DEF ByNotFound, ByRequest, ByTimeout, Resume, ByGiveUp, ByFound, ByRound, ByKeepOthers
  <2>2. target[t] \in Threads
      BY <2>1 DEF Structure, CallInv, InBy
  <2>3. \/ UNCHANGED flags
        \/ IncrementCount(target[t]) \/ DecrementCount(target[t])
      BY <1>7 DEF ByNotFound, ByRequest, ByTimeout, Resume
  <2>4. \A u \in Threads : "ActiveSuspendBarrier" \in flags'[u]
                                  <=> "ActiveSuspendBarrier" \in flags[u]
      BY <1>1, <2>2, <2>3
  <2> QED BY <2>1, <2>4
<1>8. CASE ByYield(t) \/ ByUse(t) \/ ResumeBroadcast(t)
    BY <1>8 DEF ByYield, ByFound, ByRound, ByKeepOthers, ByUse, LeaveRunnable, ResumeBroadcast
<1>9. CASE Detach(t)
    BY <1>9 DEF Detach, DestroyClearPeer, DestroyReturn, LeaveRunnable, UnregisterRemove,
       UnregisterSignal
<1>10. CASE Call(t)
    BY <1>10 DEF Call, EnterNative, LeaveRunnable, ReturnFromNative, SuspendAllLockList, BySuspend
<1>11. CASE Register(t)
  <2>1. pc[t] = "unborn" /\ UNCHANGED <<barriers, claimed>>
      BY <1>11 DEF Register
  <2>2. t \notin list
      BY <2>1 DEF Structure, PlaceInv
  <2>3. barriers[t] = {}
      BY <2>2 DEF Structure, BarrierInv, Reached
  <2>4. "ActiveSuspendBarrier" \notin flags[t]
      BY <2>3 DEF Structure, BarrierInv
  <2>5. \A u \in Threads : "ActiveSuspendBarrier" \in flags'[u]
                                  <=> "ActiveSuspendBarrier" \in flags[u]
      BY <1>0, <1>11, <2>4 DEF Register
  <2> QED BY <2>1, <2>5
<1>12. CASE Unregister(t) \/ SpuriousWake(t)
    BY <1>12 DEF Unregister, SpuriousWake
<1> QED BY <1>2, <1>3, <1>4, <1>5, <1>6, <1>7, <1>8, <1>9, <1>10, <1>11, <1>12
        DEF Continue, Begin, ResumeAllStep, SuspendBy

(* What another thread's SuspendAll has reached, it still has.             *)
LEMMA ReachedKept ==
    ASSUME Structure, HeldMeansFlagged, NEW t \in Threads, Continue(t) \/ Begin(t),
           NEW r \in Threads \ {t}, NEW u \in Threads
    PROVE  /\ Reached(r, u) => Reached(r, u)'
           /\ Reached(r, u)' /\ (u # t \/ u \in list) => Reached(r, u)
<1>1. Frame(t)
    BY FrameStep
<1>2. \A l \in Visiting \cup {"saWait"} : pc'[r] = l <=> pc[r] = l
    BY <1>1, FrameShows
<1>3. pc[r] \in Visiting => UNCHANGED <<todo, list>>
    BY LocksRespected
<1>4. Reached(r, u) => u \in list'
  <2>1. Reached(r, u) => Holds(r, u) /\ u \in list
      BY DEF Reached, Holds
  <2> QED BY <2>1, HeldStays
<1>5. u # t => (u \in list' <=> u \in list)
    BY <1>1 DEF Frame
<1> QED BY <1>2, <1>3, <1>4, <1>5 DEF Reached

(* Every step keeps barriers, their flag and their owners together.        *)
LEMMA BarrierInvStep ==
    ASSUME Structure, HeldMeansFlagged, ZeroMeansPassed, NEW t \in Threads, Continue(t) \/ Begin(t)
    PROVE  BarrierInv'
<1>0. /\ pc \in [Threads -> Labels] /\ target \in [Threads -> Threads \cup {None}]
      /\ barriers \in [Threads -> SUBSET Threads] /\ claimed \in [Threads -> SUBSET Threads]
      /\ flags \in [Threads -> SUBSET Flags] /\ list \subseteq Threads
    BY DEF Structure, Types
<1>1. ASSUME NEW l, pc' = [pc EXCEPT ![t] = l]
      PROVE  pc'[t] = l
    BY <1>0, <1>1
<1>2. \A u \in Threads :
        /\ "ActiveSuspendBarrier" \in flags[u] <=> barriers[u] # {}
        /\ claimed[u] # {} => pc[u] = "passDrain"
        /\ barriers[u] \cap claimed[u] = {}
        /\ \A r \in barriers[u] \cup claimed[u] : Reached(r, u)
    BY DEF Structure, BarrierInv
<1>3. \A r \in Threads \ {t}, u \in Threads : Reached(r, u) => Reached(r, u)'
    BY ReachedKept
<1>4. \A u \in Threads \ {t} : pc[u] = "passDrain" => pc'[u] = "passDrain"
    BY FrameStep, FrameShows
<1>5. ASSUME ~ByBarrier(t) PROVE BarrierInv'
  <2>1. /\ pc[t] \notin Visiting \cup {"saWait", "passDrain"}
        /\ UNCHANGED <<barriers, claimed>>
        /\ \A u \in Threads : "ActiveSuspendBarrier" \in flags'[u]
                               <=> "ActiveSuspendBarrier" \in flags[u]
      BY <1>5, NoBarrierStep
  <2>2. \A u \in Threads : t \notin barriers[u] \cup claimed[u]
      BY <1>2, <2>1 DEF Reached
  <2>3. \A u \in Threads : \A r \in barriers[u] \cup claimed[u] : Reached(r, u)'
    <3> SUFFICES ASSUME NEW u \in Threads, NEW r \in barriers[u] \cup claimed[u]
                 PROVE  Reached(r, u)'
        OBVIOUS
    <3>1. r \in Threads \ {t} /\ Reached(r, u)
        BY <1>0, <1>2, <2>2
    <3> QED BY <1>3, <3>1
  <2>4. \A u \in Threads : claimed[u] # {} => pc'[u] = "passDrain"
      BY <1>2, <1>4, <2>1
  <2> QED BY <1>2, <2>1, <2>3, <2>4 DEF BarrierInv
<1>6. CASE ClaimBarriers(t)
  <2>1. /\ pc[t] = "pass" /\ pc'[t] = "passDrain" /\ UNCHANGED <<list, todo>>
        /\ claimed' = [claimed EXCEPT ![t] = barriers[t]]
        /\ barriers' = [barriers EXCEPT ![t] = {}]
        /\ flags' = [flags EXCEPT ![t] = flags[t] \ {"ActiveSuspendBarrier"}]
      BY <1>1, <1>6 DEF ClaimBarriers
  <2>2. \A u \in Threads : t \notin barriers[u] \cup claimed[u]
      BY <1>2, <2>1 DEF Reached
  <2>3. /\ claimed'[t] = barriers[t] /\ barriers'[t] = {}
        /\ "ActiveSuspendBarrier" \notin flags'[t]
      BY <1>0, <2>1
  <2>4. \A u \in Threads \ {t} : /\ claimed'[u] = claimed[u] /\ barriers'[u] = barriers[u]
                                 /\ flags'[u] = flags[u]
      BY <1>0, <2>1
  <2>5. \A u \in Threads : barriers'[u] \cup claimed'[u] \subseteq barriers[u] \cup claimed[u]
      BY <2>3, <2>4
  <2>6. \A u \in Threads : \A r \in barriers'[u] \cup claimed'[u] : Reached(r, u)'
    <3> SUFFICES ASSUME NEW u \in Threads, NEW r \in barriers[u] \cup claimed[u]
                 PROVE  Reached(r, u)'
        BY <2>5
    <3>1. r \in Threads \ {t} /\ Reached(r, u)
        BY <1>0, <1>2, <2>2
    <3> QED BY <1>3, <3>1
  <2> QED BY <1>2, <1>4, <2>1, <2>3, <2>4, <2>6 DEF BarrierInv
<1>7. CASE DrainBarrier(t)
  <2>1. PICK r \in claimed[t] :
            /\ claimed' = [claimed EXCEPT ![t] = claimed[t] \ {r}]
            /\ Goto(t, IF claimed[t] = {r} THEN "pass" ELSE "passDrain")
      BY <1>7 DEF DrainBarrier
  <2>2. pc[t] = "passDrain" /\ UNCHANGED <<barriers, flags>>
      BY <1>7 DEF DrainBarrier
  <2>3. claimed'[t] = claimed[t] \ {r}
      BY <1>0, <2>1
  <2>4. \A u \in Threads \ {t} : claimed'[u] = claimed[u]
      BY <1>0, <2>1
  <2>5. claimed'[t] # {} => pc'[t] = "passDrain"
    <3>1. CASE claimed[t] = {r}
        BY <2>3, <3>1
    <3>2. CASE claimed[t] # {r}
        BY <1>1, <2>1, <3>2
    <3> QED BY <3>1, <3>2
  <2>6. \A u \in Threads : t \notin barriers[u] \cup claimed[u]
      BY <1>2, <2>2 DEF Reached
  <2>7. \A u \in Threads : claimed'[u] \subseteq claimed[u]
      BY <2>3, <2>4
  <2>8. \A u \in Threads : \A q \in barriers'[u] \cup claimed'[u] : Reached(q, u)'
    <3> SUFFICES ASSUME NEW u \in Threads, NEW q \in barriers[u] \cup claimed[u]
                 PROVE  Reached(q, u)'
        BY <2>2, <2>7
    <3>1. q \in Threads \ {t} /\ Reached(q, u)
        BY <1>0, <1>2, <2>6
    <3> QED BY <1>3, <3>1
  <2>9. \A u \in Threads : barriers'[u] \cap claimed'[u] = {}
      BY <1>2, <2>2, <2>7
  <2> QED BY <1>2, <1>4, <2>2, <2>4, <2>5, <2>8, <2>9 DEF BarrierInv
<1>8. CASE SuspendAllVisit(t) \/ SuspendAllRetry(t)
  <2>1. pc[t] \in {"saVisit", "saRetry"} /\ todo \subseteq list \ {t}
      BY <1>8 DEF SuspendAllVisit, SuspendAllRetry, Structure, CallInv
  <2>2. PICK u \in todo : InstallOrRetry(t, u)
      BY <1>8 DEF SuspendAllVisit, SuspendAllRetry, Structure, CallInv
  <2>3. u \in Threads \ {t} /\ u \in list
      BY <1>0, <2>1, <2>2
  <2>4. UNCHANGED <<list, claimed>> /\ todo' \subseteq todo /\ pc'[t] \in Visiting
      BY <1>1, <2>2 DEF InstallOrRetry
  <2>5. \A v \in Threads : Reached(t, v) => Reached(t, v)'
      BY <2>1, <2>4 DEF Reached
  <2>6. \A v \in Threads : \A r \in barriers[v] \cup claimed[v] : Reached(r, v)'
      BY <1>0, <1>2, <1>3, <2>5
  <2>7. \A v \in Threads : claimed'[v] # {} => pc'[v] = "passDrain"
    <3>1. claimed[t] = {}
        BY <1>2, <2>1
    <3> QED BY <1>2, <1>4, <2>4, <3>1
  <2>8. CASE Cardinality(barriers[u]) < MaxSuspendBarriers
    <3>1. /\ barriers' = [barriers EXCEPT ![u] = barriers[u] \cup {t}]
          /\ flags' = [flags EXCEPT ![u] = flags[u] \cup Flags]
          /\ todo' = todo \ {u}
        BY <2>2, <2>8 DEF InstallOrRetry, InstallBarrier
    <3>2. barriers'[u] = barriers[u] \cup {t} /\ "ActiveSuspendBarrier" \in flags'[u]
        BY <1>0, <2>3, <3>1
    <3>3. \A v \in Threads \ {u} : barriers'[v] = barriers[v] /\ flags'[v] = flags[v]
        BY <1>0, <3>1
    <3>4. Reached(t, u)'
        BY <2>3, <2>4, <3>1 DEF Reached
    <3>5. t \notin claimed[u]
        BY <1>2, <2>1, <2>2, <2>3 DEF Reached
    <3>6. \A v \in Threads : \A r \in barriers'[v] \cup claimed'[v] : Reached(r, v)'
        BY <2>4, <2>6, <3>2, <3>3, <3>4
    <3>7. \A v \in Threads : barriers'[v] \cap claimed'[v] = {}
      <4>1. barriers'[u] \cap claimed'[u] = {}
          BY <1>2, <2>3, <2>4, <3>2, <3>5
      <4>2. \A v \in Threads \ {u} : barriers'[v] \cap claimed'[v] = {}
          BY <1>2, <2>4, <3>3
      <4> QED BY <4>1, <4>2
    <3>8. \A v \in Threads : "ActiveSuspendBarrier" \in flags'[v] <=> barriers'[v] # {}
        BY <1>2, <3>2, <3>3
    <3> QED BY <2>7, <3>6, <3>7, <3>8 DEF BarrierInv
  <2>9. CASE ~(Cardinality(barriers[u]) < MaxSuspendBarriers)
    <3>1. UNCHANGED <<barriers, flags>>
        BY <2>2, <2>9 DEF InstallOrRetry
    <3> QED BY <1>2, <2>4, <2>6, <2>7, <3>1 DEF BarrierInv
  <2> QED BY <2>8, <2>9
<1>9. CASE SuspendAllCheck(t)
  <2>1. /\ pc[t] = "saCheck" /\ pc'[t] = "saVisit" /\ UNCHANGED <<list, todo, claimed>>
        /\ target[t] \in Threads
      BY <1>0, <1>1, <1>9 DEF SuspendAllCheck, Structure, CallInv
  <2>2. \A v \in Threads : Reached(t, v) => Reached(t, v)'
      BY <2>1 DEF Reached
  <2>3. \A v \in Threads : \A r \in barriers[v] \cup claimed[v] : Reached(r, v)'
      BY <1>0, <1>2, <1>3, <2>2
  <2>4. \A v \in Threads : claimed'[v] # {} => pc'[v] = "passDrain"
    <3>1. claimed[t] = {}
        BY <1>2, <2>1
    <3> QED BY <1>2, <1>4, <2>1, <3>1
  <2>5. CASE IsSuspended(target[t])
    <3> DEFINE u == target[t]
    <3>1. /\ barriers' = [barriers EXCEPT ![u] = barriers[u] \ {t}]
          /\ flags' = [flags EXCEPT ![u] =
                IF barriers[u] \subseteq {t} THEN flags[u] \ {"ActiveSuspendBarrier"} ELSE flags[u]]
        BY <1>9, <2>5 DEF SuspendAllCheck, ClearSuspendBarrier
    <3>2. /\ barriers'[u] = barriers[u] \ {t}
          /\ flags'[u] = IF barriers[u] \subseteq {t} THEN flags[u] \ {"ActiveSuspendBarrier"}
                                                       ELSE flags[u]
        BY <1>0, <2>1, <3>1
    <3>3. \A v \in Threads \ {u} : barriers'[v] = barriers[v] /\ flags'[v] = flags[v]
        BY <1>0, <3>1
    <3>4. "ActiveSuspendBarrier" \in flags'[u] <=> barriers'[u] # {}
      <4>1. CASE barriers[u] \subseteq {t}
          BY <3>2, <4>1
      <4>2. CASE ~(barriers[u] \subseteq {t})
          BY <1>2, <2>1, <3>2, <4>2
      <4> QED BY <4>1, <4>2
    <3>5. \A v \in Threads : barriers'[v] \subseteq barriers[v]
        BY <3>2, <3>3
    <3>6. \A v \in Threads : "ActiveSuspendBarrier" \in flags'[v] <=> barriers'[v] # {}
        BY <1>2, <3>3, <3>4
    <3> HIDE DEF u
    <3> QED BY <1>2, <2>1, <2>3, <2>4, <3>5, <3>6 DEF BarrierInv
  <2>6. CASE ~IsSuspended(target[t])
    <3>1. UNCHANGED <<barriers, flags>>
        BY <1>9, <2>6 DEF SuspendAllCheck
    <3> QED BY <1>2, <2>1, <2>3, <2>4, <3>1 DEF BarrierInv
  <2> QED BY <2>5, <2>6
<1>10. CASE SuspendAllUnlock(t) \/ SuspendAllWait(t)
  <2>1. /\ pc[t] \in {"saVisit", "saWait"} /\ pc'[t] \in {"saWait", "saOwn"}
        /\ UNCHANGED <<list, todo, barriers, claimed, flags>>
      BY <1>1, <1>10 DEF SuspendAllUnlock, SuspendAllWait
  <2>2. \A v \in Threads : t \in barriers[v] \cup claimed[v] => Reached(t, v)'
    <3>1. CASE SuspendAllUnlock(t)
        BY <1>1, <1>2, <3>1 DEF SuspendAllUnlock, Reached
    <3>2. CASE SuspendAllWait(t)
        BY <3>2 DEF SuspendAllWait, ZeroMeansPassed, Awaited
    <3> QED BY <1>10, <3>1, <3>2
  <2>3. \A v \in Threads : \A r \in barriers[v] \cup claimed[v] : Reached(r, v)'
      BY <1>0, <1>2, <1>3, <2>2
  <2>4. \A v \in Threads : claimed'[v] # {} => pc'[v] = "passDrain"
    <3>1. claimed[t] = {}
        BY <1>2, <2>1
    <3> QED BY <1>2, <1>4, <2>1, <3>1
  <2> QED BY <1>2, <2>1, <2>3, <2>4 DEF BarrierInv
<1> QED BY <1>5, <1>6, <1>7, <1>8, <1>9, <1>10 DEF ByBarrier

-----------------------------------------------------------------------------
(* Stopped threads.  What a step of t does to its own state: it becomes    *)
(* runnable only unflagged, stops being so only on its way through its     *)
(* barriers, and is told of a suspended thread only when there is one.     *)
OwnState(t) ==
    /\ state'[t] = "Runnable" => state[t] = "Runnable" \/ (flags[t] = {} /\ t \in list)
    /\ state[t] = "Runnable" => state'[t] = "Runnable" \/ pc'[t] = "pass"
    /\ pc[t] = "pass" =>
          pc'[t] = "pass" \/ "ActiveSuspendBarrier" \notin flags[t] \/ ClaimBarriers(t)
    /\ HasReturned(t)' => /\ target[t] \in Threads \ {t} /\ target'[t] = target[t]
                          /\ state[target[t]] # "Runnable"

LEMMA OwnStateStep ==
    ASSUME Structure, NEW t \in Threads, Continue(t) \/ Begin(t)
    PROVE  OwnState(t)
<1>0. /\ pc \in [Threads -> Labels] /\ ret \in [Threads -> RunnableLabels \cup SuspendedLabels]
      /\ state \in [Threads -> {"Runnable", "Suspended"}]
    BY DEF Structure, Types
<1>1. ASSUME NEW l, pc' = [pc EXCEPT ![t] = l]
      PROVE  pc'[t] = l
    BY <1>0, <1>1
<1>2. ASSUME NEW l, ret' = [ret EXCEPT ![t] = l]
      PROVE  ret'[t] = l
    BY <1>0, <1>2
<1>3. state'[t] = "Runnable" => state[t] = "Runnable" \/ (flags[t] = {} /\ t \in list)
  <2>1. CASE BecomeRunnable(t)
      BY <2>1 DEF BecomeRunnable, Structure, PlaceInv
  <2>2. CASE Leaves(t)
    <3>1. state' = [state EXCEPT ![t] = "Suspended"]
        BY <2>2 DEF Leaves, CheckSuspend, CloseObjectAccess, EnterNative, BySuspend, ByUse,
           DestroyReturn, LeaveRunnable
    <3> QED BY <1>0, <3>1
  <2> QED BY <2>1, <2>2, StateStep
<1>4. state[t] = "Runnable" => state'[t] = "Runnable" \/ pc'[t] = "pass"
  <2>1. CASE BecomeRunnable(t)
      BY <1>0, <2>1 DEF BecomeRunnable
  <2>2. CASE Leaves(t)
    <3>1. pc' = [pc EXCEPT ![t] = "pass"]
        BY <2>2 DEF Leaves, CheckSuspend, CloseObjectAccess, EnterNative, BySuspend, ByUse,
           DestroyReturn, LeaveRunnable
    <3> QED BY <1>0, <3>1
  <2> QED BY <2>1, <2>2, StateStep
<1>5. pc[t] = "pass" =>
          pc'[t] = "pass" \/ "ActiveSuspendBarrier" \notin flags[t] \/ ClaimBarriers(t)
  <2> SUFFICES ASSUME pc[t] = "pass" PROVE PassedBarriers(t) \/ ClaimBarriers(t)
      BY DEF PassedBarriers
  <2>1. ~SuspendAllStep(t) /\ ~ResumeAllStep(t)
      BY DEF SuspendAllStep, SuspendAllLockCount, SuspendAllVisit, SuspendAllRetry, SuspendAllCheck,
         SuspendAllUnlock, SuspendAllWait, SuspendAllOwn, ResumeAllStep, ResumeAllDisown,
         ResumeAllLock, ResumeAllVisit, ResumeAllUnlock
  <2>2. ~SuspendBy(t) /\ ~ByTimeout(t) /\ ~CheckSuspend(t)
      BY DEF SuspendBy, ByNotFound, ByYield, ByRequest, ByUse, Resume, ResumeBroadcast, ByTimeout,
         ByFound, ByRound, CheckSuspend
  <2>3. ~Detach(t) /\ ~Call(t) /\ ~Register(t) /\ ~Unregister(t) /\ ~SpuriousWake(t)
      BY DEF Detach, DestroyClearPeer, DestroyReturn, UnregisterRemove, UnregisterSignal,
         Call, EnterNative, ReturnFromNative, SuspendAllLockList, BySuspend, Register, Unregister,
         SpuriousWake
  <2>4. Transition(t)
      BY <2>1, <2>2, <2>3 DEF Continue, Begin
  <2> QED BY <2>4 DEF Transition, CloseObjectAccess, DrainBarrier, BecomeRunnable, WaitForResume,
             Resumed
<1>6. HasReturned(t)' => /\ target[t] \in Threads \ {t} /\ target'[t] = target[t]
                         /\ state[target[t]] # "Runnable"
  <2>1. CASE ByNotFound(t) \/ ByTimeout(t) \/ Resume(t)
    <3>1. /\ pc'[t] \in {"leave", "byBroadcast", "runnable", "native"}
          /\ pc'[t] = "leave" => ret'[t] = "runnable"
        BY <1>1, <1>2, <2>1 DEF ByNotFound, ByTimeout, ByGiveUp, Resume
    <3> QED BY <3>1 DEF HasReturned
  <2>2. CASE ByRequest(t)
    <3>1. pc[t] = "byTry" /\ UNCHANGED target
        BY <2>2 DEF ByRequest, ByFound, ByRound
    <3>2. target[t] \in Threads \ {t}
        BY <3>1 DEF Structure, CallInv, InBy
    <3>3. pc'[t] = "leave" /\ (state[target[t]] = "Runnable" => ret'[t] = "byTry")
        BY <1>1, <1>2, <2>2 DEF ByRequest
    <3> QED BY <3>1, <3>2, <3>3 DEF HasReturned
  <2>3. CASE \E u \in Threads : BySuspend(t, u)
    <3>1. pc'[t] = "pass" /\ ret'[t] = "byTry"
        BY <1>1, <1>2, <2>3 DEF BySuspend
    <3> QED BY <3>1 DEF HasReturned
  <2>4. ASSUME SameCall(t), HasReturned(t)'
        PROVE  /\ target[t] \in Threads \ {t} /\ target'[t] = target[t]
               /\ state[target[t]] # "Runnable"
    <3>1. HasReturned(t) /\ InBy(t)
        BY <2>4 DEF SameCall, HasReturned, InBy
    <3> QED BY <2>4, <3>1 DEF SameCall, Structure, CallInv, StopInv
  <2> QED BY <2>1, <2>2, <2>3, <2>4, SameCallStep
<1> QED BY <1>3, <1>4, <1>5, <1>6 DEF OwnState

(* The steps that lead into a SuspendAll that runs, waits or is through.   *)
LEMMA VisitingSteps ==
    ASSUME Structure, NEW t \in Threads, Continue(t) \/ Begin(t),
           pc'[t] \in Visiting \cup {"saWait", "saOwn", "exclusive"}
    PROVE  \/ SuspendAllLockCount(t) /\ pc'[t] = "saVisit"
           \/ SuspendAllVisit(t) \/ SuspendAllRetry(t) \/ SuspendAllCheck(t)
           \/ SuspendAllUnlock(t) \/ SuspendAllWait(t)
           \/ SuspendAllOwn(t) /\ pc'[t] = "exclusive"
<1>0. pc \in [Threads -> Labels] /\ ret[t] \in RunnableLabels \cup SuspendedLabels
    BY DEF Structure, Types
<1>1. ASSUME NEW l, pc' = [pc EXCEPT ![t] = l] \/ BroadcastThen(t, l)
      PROVE  pc'[t] = l
    BY <1>0, <1>1 DEF BroadcastThen
<1>2. ~Transition(t)
  <2>1. ~DrainBarrier(t)
      BY <1>1 DEF DrainBarrier
  <2>2. ~CloseObjectAccess(t) /\ ~ClaimBarriers(t) /\ ~WaitForResume(t) /\ ~Resumed(t)
      BY <1>1 DEF CloseObjectAccess, LeaveRunnable, ClaimBarriers, WaitForResume, Resumed
  <2>3. ~PassedBarriers(t) /\ ~BecomeRunnable(t)
      BY <1>0, <1>1 DEF PassedBarriers, BecomeRunnable
  <2> QED BY <2>1, <2>2, <2>3 DEF Transition
<1>3. ~CheckSuspend(t) /\ ~ByUse(t) /\ ~ByYield(t) /\ ~ResumeBroadcast(t)
    BY <1>1 DEF CheckSuspend, ByUse, ByYield, LeaveRunnable, ResumeBroadcast
<1>4. ~ByNotFound(t) /\ ~ByRequest(t) /\ ~ByTimeout(t) /\ ~Resume(t)
    BY <1>1 DEF ByNotFound, ByRequest, ByTimeout, ByGiveUp, Resume
<1>5. ~ResumeAllStep(t)
    BY <1>1 DEF ResumeAllStep, ResumeAllDisown, ResumeAllLock, ResumeAllVisit, ResumeAllUnlock
<1>6. ~Detach(t)
    BY <1>1 DEF Detach, DestroyClearPeer, DestroyReturn, LeaveRunnable, UnregisterRemove,
       UnregisterSignal
<1>7. ~Call(t)
    BY <1>1 DEF Call, EnterNative, ReturnFromNative, LeaveRunnable, SuspendAllLockList, BySuspend
<1>8. ~Register(t) /\ ~Unregister(t) /\ ~SpuriousWake(t)
    BY <1>1 DEF Register, Unregister, SpuriousWake
<1>9. SuspendAllStep(t)
    BY <1>2, <1>3, <1>4, <1>5, <1>6, <1>7, <1>8 DEF Continue, Begin, SuspendBy
<1>10. SuspendAllLockCount(t) => pc'[t] = "saVisit"
    BY <1>1 DEF SuspendAllLockCount
<1>11. SuspendAllOwn(t) => pc'[t] = "exclusive"
    BY <1>1 DEF SuspendAllOwn
<1> QED BY <1>9, <1>10, <1>11 DEF SuspendAllStep

(* Every step keeps stopped threads stopped.                               *)
LEMMA StopInvStep ==
    ASSUME Structure, HeldMeansFlagged, ZeroMeansPassed, NEW t \in Threads, Continue(t) \/ Begin(t)
    PROVE  StopInv'
<1>0. /\ pc \in [Threads -> Labels] /\ target \in [Threads -> Threads \cup {None}]
      /\ barriers \in [Threads -> SUBSET Threads] /\ list \subseteq Threads
      /\ state \in [Threads -> {"Runnable", "Suspended"}]
    BY DEF Structure, Types
<1>1. ASSUME NEW l, pc' = [pc EXCEPT ![t] = l]
      PROVE  pc'[t] = l
    BY <1>0, <1>1
<1>2. OwnState(t) /\ Frame(t)
    BY OwnStateStep, FrameStep
<1>3. \A r, u \in Threads :
        /\ r \in barriers[u] =>
              \/ state[u] = "Runnable" \/ pc[u] = "pass"
              \/ pc[r] = "saCheck" /\ target[r] = u
        /\ Reached(r, u) /\ state[u] = "Runnable" => r \in barriers[u]
        /\ pc[r] \in {"saOwn", "exclusive"} /\ u \in list /\ u # r => state[u] # "Runnable"
    BY DEF Structure, StopInv
<1>4. \A u \in Threads :
        /\ "ActiveSuspendBarrier" \in flags[u] <=> barriers[u] # {}
        /\ \A r \in barriers[u] : Reached(r, u)
    BY DEF Structure, BarrierInv
<1>5. /\ \A r \in Threads : r # t => target'[r] = target[r]
      /\ \A r \in Threads : r # t => state'[r] = state[r]
      /\ \A r \in Threads : r # t => (r \in list' <=> r \in list)
    BY <1>2 DEF Frame
<1>a. /\ \A r \in Threads : r # t => (pc'[r] = "saCheck" <=> pc[r] = "saCheck")
      /\ \A r \in Threads : r # t => (pc'[r] = "saOwn" <=> pc[r] = "saOwn")
      /\ \A r \in Threads : r # t => (pc'[r] = "exclusive" <=> pc[r] = "exclusive")
      /\ \A r \in Threads : r # t => (pc'[r] = "pass" <=> pc[r] = "pass")
    BY <1>2, FrameShows
(* Nobody becomes runnable while another thread's request is in force.     *)
<1>6. ASSUME NEW r \in Threads, Holds(r, t), state'[t] = "Runnable" PROVE state[t] = "Runnable"
    BY <1>2, <1>6 DEF OwnState, HeldMeansFlagged
<1>7. \A r \in Threads : HasReturned(r)' => state'[target'[r]] # "Runnable"
  <2>1. ASSUME HasReturned(t)' PROVE state'[target'[t]] # "Runnable"
    <3>1. /\ target[t] \in Threads /\ target[t] # t /\ target'[t] = target[t]
          /\ state[target[t]] # "Runnable"
        BY <1>2, <2>1 DEF OwnState
    <3>2. state'[target[t]] = state[target[t]]
        BY <1>5, <3>1
    <3> QED BY <3>1, <3>2
  <2>2. ASSUME NEW r \in Threads \ {t}, HasReturned(r)' PROVE state'[target'[r]] # "Runnable"
    <3>1. HasReturned(r) /\ target'[r] = target[r]
        BY <1>2, <1>5, <2>2, FrameShows
    <3>2. r \in requested /\ target[r] \in Threads /\ state[target[r]] # "Runnable"
        BY <3>1 DEF Structure, CallInv, StopInv, HasReturned, InBy
    <3>3. CASE target[r] = t
      <4>1. Holds(r, t)
          BY <3>2, <3>3 DEF Holds
      <4> QED BY <1>6, <3>1, <3>2, <3>3, <4>1
    <3>4. CASE target[r] # t
        BY <1>5, <3>1, <3>2, <3>4
    <3> QED BY <3>3, <3>4
  <2> QED BY <2>1, <2>2
(* The threads that a SuspendAll by another thread has passed.             *)
<1>8. ASSUME NEW r \in Threads \ {t}, NEW u \in Threads,
             pc'[r] \in {"saOwn", "exclusive"}, u \in list', u # r
      PROVE  state'[u] # "Runnable"
  <2>1. pc[r] \in {"saOwn", "exclusive"}
      BY <1>8, <1>a
  <2>2. CASE u # t
      BY <1>3, <1>5, <1>8, <2>1, <2>2
  <2>3. CASE u = t
    <3> SUFFICES ASSUME state'[t] = "Runnable" PROVE FALSE
        BY <2>3
    <3>1. t \in list
        BY <1>2 DEF OwnState, Structure, PlaceInv
    <3>2. Holds(r, t)
        BY <1>8, <2>1, <2>3, <3>1 DEF Holds
    <3> QED BY <1>3, <1>6, <1>8, <2>1, <2>3, <3>1, <3>2
  <2> QED BY <2>2, <2>3
(* A runnable thread that another SuspendAll has reached.                  *)
<1>9. ASSUME NEW r \in Threads \ {t}, NEW u \in Threads, Reached(r, u)', state'[u] = "Runnable"
      PROVE  r \in barriers[u] /\ state[u] = "Runnable"
  <2>1. CASE u # t
    <3>1. Reached(r, u) /\ state[u] = "Runnable"
        BY <1>5, <1>9, <2>1, ReachedKept
    <3> QED BY <1>3, <3>1
  <2>2. CASE u = t
    <3>1. t \in list
        BY <1>2, <1>9, <2>2 DEF OwnState, Structure, PlaceInv
    <3>2. Reached(r, t)
        BY <1>9, <2>2, <3>1, ReachedKept
    <3>3. Holds(r, t)
        BY <3>2 DEF Reached, Holds
    <3> QED BY <1>3, <1>6, <1>9, <2>2, <3>2, <3>3
  <2> QED BY <2>1, <2>2
(* A thread that has another's barrier still runs, or passes it.           *)
<1>10. ASSUME NEW r \in Threads \ {t}, NEW u \in Threads, r \in barriers[u], r \in barriers'[u]
       PROVE  \/ state'[u] = "Runnable" \/ pc'[u] = "pass"
              \/ pc'[r] = "saCheck" /\ target'[r] = u
  <2>1. CASE u # t
    <3>1. state'[u] = state[u] /\ target'[r] = target[r]
        BY <1>5, <2>1
    <3>2. (pc'[u] = "pass" <=> pc[u] = "pass") /\ (pc'[r] = "saCheck" <=> pc[r] = "saCheck")
        BY <1>a, <2>1
    <3> QED BY <1>3, <1>10, <3>1, <3>2
  <2>2. CASE u = t
    <3>1. "ActiveSuspendBarrier" \in flags[t]
        BY <1>4, <1>10, <2>2
    <3>2. ~ClaimBarriers(t)
        BY <1>0, <1>10, <2>2 DEF ClaimBarriers
    <3>3. target'[r] = target[r] /\ (pc'[r] = "saCheck" <=> pc[r] = "saCheck")
        BY <1>5, <1>a
    <3>4. \/ state[t] = "Runnable" \/ pc[t] = "pass"
          \/ pc[r] = "saCheck" /\ target[r] = t
        BY <1>3, <1>10, <2>2
    <3>5. state[t] = "Runnable" \/ pc[t] = "pass" => state'[t] = "Runnable" \/ pc'[t] = "pass"
        BY <1>2, <3>1, <3>2 DEF OwnState
    <3> QED BY <2>2, <3>3, <3>4, <3>5
  <2> QED BY <2>1, <2>2
(* What is left to show is about t's own SuspendAll.                       *)
<1> DEFINE Own(u) == /\ t \in barriers'[u] =>
                          \/ state'[u] = "Runnable" \/ pc'[u] = "pass"
                          \/ pc'[t] = "saCheck" /\ target'[t] = u
                     /\ Reached(t, u)' /\ state'[u] = "Runnable" => t \in barriers'[u]
                     /\ pc'[t] \in {"saOwn", "exclusive"} /\ u \in list' /\ u # t
                           => state'[u] # "Runnable"
           Others(u) == \A r \in Threads \ {t} :
                          /\ r \in barriers'[u] => r \in barriers[u]
                          /\ r \in barriers[u] /\ state[u] = "Runnable" => r \in barriers'[u]
<1>11. ASSUME \A u \in Threads : Own(u) /\ Others(u) PROVE StopInv'
  <2> SUFFICES ASSUME NEW r \in Threads, NEW u \in Threads
               PROVE  /\ r \in barriers'[u] =>
                            \/ state'[u] = "Runnable" \/ pc'[u] = "pass"
                            \/ pc'[r] = "saCheck" /\ target'[r] = u
                      /\ Reached(r, u)' /\ state'[u] = "Runnable" => r \in barriers'[u]
                      /\ pc'[r] \in {"saOwn", "exclusive"} /\ u \in list' /\ u # r
                            => state'[u] # "Runnable"
      BY <1>7 DEF StopInv
  <2>1. CASE r = t
      BY <1>11, <2>1
  <2>2. CASE r # t
    <3>1. r \in barriers'[u] =>
              \/ state'[u] = "Runnable" \/ pc'[u] = "pass"
              \/ pc'[r] = "saCheck" /\ target'[r] = u
        BY <1>10, <1>11, <2>2
    <3>2. Reached(r, u)' /\ state'[u] = "Runnable" => r \in barriers'[u]
        BY <1>9, <1>11, <2>2
    <3>3. pc'[r] \in {"saOwn", "exclusive"} /\ u \in list' /\ u # r => state'[u] # "Runnable"
        BY <1>8, <2>2
    <3> QED BY <3>1, <3>2, <3>3
  <2> QED BY <2>1, <2>2
<1> HIDE DEF Own, Others
<1>12. ASSUME ~ByBarrier(t) PROVE StopInv'
  <2>1. /\ pc[t] \notin Visiting \cup {"saWait", "passDrain"} /\ UNCHANGED <<barriers, claimed>>
      BY <1>12, NoBarrierStep
  <2>2. \A u \in Threads : t \notin barriers[u]
      BY <1>4, <2>1 DEF Reached
  <2>3. pc'[t] \in Visiting \cup {"saWait"} => SuspendAllLockCount(t)
      BY <1>12, VisitingSteps DEF ByBarrier
  <2>4. pc'[t] \in {"saOwn", "exclusive"} => SuspendAllOwn(t)
      BY <1>12, VisitingSteps DEF ByBarrier
  <2>5. \A u \in Threads : ~Reached(t, u)'
    <3>1. SuspendAllLockCount(t) => pc'[t] = "saVisit" /\ todo' = list \ {t} /\ list' = list
        BY <1>1 DEF SuspendAllLockCount
    <3> QED BY <2>3, <3>1 DEF Reached
  <2>6. ASSUME NEW u \in Threads, SuspendAllOwn(t), u \in list', u # t PROVE state'[u] # "Runnable"
      BY <1>3, <1>5, <2>6 DEF SuspendAllOwn
  <2>7. \A u \in Threads : Own(u) /\ Others(u)
      BY <2>1, <2>2, <2>4, <2>5, <2>6 DEF Own, Others
  <2> QED BY <1>11, <2>7
<1>13. CASE ClaimBarriers(t) \/ DrainBarrier(t)
  <2>1. /\ pc[t] \in {"pass", "passDrain"} /\ pc'[t] \in {"pass", "passDrain"}
        /\ barriers' = barriers \/ barriers' = [barriers EXCEPT ![t] = {}]
      BY <1>1, <1>13 DEF ClaimBarriers, DrainBarrier
  <2>2. state[t] # "Runnable"
      BY <2>1 DEF Structure, PlaceInv
  <2>3. \A u \in Threads : barriers'[u] = barriers[u] \/ (u = t /\ barriers'[u] = {})
      BY <1>0, <2>1
  <2>4. \A u \in Threads : t \notin barriers[u] /\ ~Reached(t, u)'
      BY <1>4, <2>1 DEF Reached
  <2>5. \A u \in Threads : Own(u) /\ Others(u)
      BY <2>1, <2>2, <2>3, <2>4 DEF Own, Others
  <2> QED BY <1>11, <2>5
<1>14. CASE SuspendAllVisit(t) \/ SuspendAllRetry(t)
  <2>1. pc[t] \in {"saVisit", "saRetry"} /\ todo \subseteq list \ {t}
      BY <1>14 DEF SuspendAllVisit, SuspendAllRetry, Structure, CallInv
  <2>2. PICK u \in todo : InstallOrRetry(t, u)
      BY <1>14 DEF SuspendAllVisit, SuspendAllRetry, Structure, CallInv
  <2>3. u \in Threads \ {t} /\ u \in list
      BY <1>0, <2>1, <2>2
  <2>4. UNCHANGED <<list, state>> /\ target'[t] = u /\ pc'[t] \in {"saCheck", "saRetry"}
      BY <1>0, <1>1, <2>2, <2>3 DEF InstallOrRetry
  <2>5. \A v \in Threads : t \in barriers[v] => v # t
      BY <1>4 DEF Reached
  <2>6. \A v \in Threads : t \in barriers[v] => state'[v] = "Runnable" \/ pc'[v] = "pass"
      BY <1>3, <1>a, <2>1, <2>4, <2>5
  <2>7. CASE Cardinality(barriers[u]) < MaxSuspendBarriers
    <3>1. /\ barriers' = [barriers EXCEPT ![u] = barriers[u] \cup {t}]
          /\ todo' = todo \ {u} /\ pc'[t] = "saCheck"
        BY <1>1, <2>2, <2>7 DEF InstallOrRetry, InstallBarrier
    <3>2. barriers'[u] = barriers[u] \cup {t}
        BY <1>0, <2>3, <3>1
    <3>3. \A v \in Threads \ {u} : barriers'[v] = barriers[v]
        BY <1>0, <3>1
    <3>4. \A v \in Threads \ {u} : Reached(t, v)' /\ state'[v] = "Runnable" => t \in barriers[v]
        BY <1>3, <2>1, <2>4, <3>1 DEF Reached
    <3>5. \A v \in Threads : Own(v)
        BY <2>4, <2>6, <3>1, <3>2, <3>3, <3>4 DEF Own
    <3>6. \A v \in Threads : Others(v)
        BY <3>2, <3>3 DEF Others
    <3> QED BY <1>11, <3>5, <3>6
  <2>8. CASE ~(Cardinality(barriers[u]) < MaxSuspendBarriers)
    <3>1. UNCHANGED <<barriers, todo>> /\ pc'[t] = "saRetry"
        BY <1>1, <2>2, <2>8 DEF InstallOrRetry
    <3>2. \A v \in Threads : Reached(t, v)' /\ state'[v] = "Runnable" => t \in barriers[v]
        BY <1>3, <2>1, <2>4, <3>1 DEF Reached
    <3>3. \A v \in Threads : Own(v) /\ Others(v)
        BY <2>6, <3>1, <3>2 DEF Own, Others
    <3> QED BY <1>11, <3>3
  <2> QED BY <2>7, <2>8
<1>15. CASE SuspendAllCheck(t)
  <2> DEFINE u == target[t]
  <2>1. /\ pc[t] = "saCheck" /\ pc'[t] = "saVisit" /\ UNCHANGED <<list, todo, state, target>>
        /\ u \in Threads \ {t} /\ u \in list /\ u \notin todo
      BY <1>0, <1>1, <1>15 DEF SuspendAllCheck, Structure, CallInv
  <2>2. "SuspendRequest" \in flags[u]
    <3>1. Holds(t, u)
        BY <2>1 DEF Holds
    <3> QED BY <2>1, <3>1 DEF HeldMeansFlagged
  <2>3. \A v \in Threads : Reached(t, v)' => Reached(t, v)
      BY <2>1 DEF Reached
  <2>4. \A v \in Threads : t \in barriers[v] => v # t
      BY <1>4 DEF Reached
  <2>5. CASE IsSuspended(u)
    <3>1. barriers' = [barriers EXCEPT ![u] = barriers[u] \ {t}]
        BY <1>15, <2>5 DEF SuspendAllCheck, ClearSuspendBarrier
    <3>2. barriers'[u] = barriers[u] \ {t} /\ state[u] # "Runnable"
        BY <1>0, <2>1, <2>5, <3>1 DEF IsSuspended
    <3>3. \A v \in Threads \ {u} : barriers'[v] = barriers[v]
        BY <1>0, <3>1
    <3>4. \A v \in Threads \ {u} : t \in barriers[v] => state'[v] = "Runnable" \/ pc'[v] = "pass"
        BY <1>3, <1>a, <2>1, <2>4
    <3> HIDE DEF u
    <3>5. \A v \in Threads : Own(v)
        BY <1>3, <2>1, <2>3, <3>2, <3>3, <3>4 DEF Own
    <3>6. \A v \in Threads : Others(v)
        BY <3>2, <3>3 DEF Others
    <3> QED BY <1>11, <3>5, <3>6
  <2>6. CASE ~IsSuspended(u)
    <3>1. UNCHANGED barriers /\ state[u] = "Runnable"
        BY <1>15, <2>2, <2>6 DEF SuspendAllCheck, IsSuspended
    <3>2. \A v \in Threads : t \in barriers[v] => state'[v] = "Runnable" \/ pc'[v] = "pass"
        BY <1>3, <1>a, <2>1, <2>4, <3>1
    <3> HIDE DEF u
    <3>3. \A v \in Threads : Own(v) /\ Others(v)
        BY <1>3, <2>1, <2>3, <3>1, <3>2 DEF Own, Others
    <3> QED BY <1>11, <3>3
  <2> QED BY <2>5, <2>6
<1>16. CASE SuspendAllUnlock(t)
  <2>1. /\ pc[t] = "saVisit" /\ pc'[t] = "saWait" /\ todo = {}
        /\ UNCHANGED <<list, state, barriers>>
      BY <1>1, <1>16 DEF SuspendAllUnlock
  <2>2. \A v \in Threads : t \in barriers[v] => v # t
      BY <1>4 DEF Reached
  <2>3. \A v \in Threads : t \in barriers[v] => state'[v] = "Runnable" \/ pc'[v] = "pass"
      BY <1>3, <1>a, <2>1, <2>2
  <2>4. \A v \in Threads : Reached(t, v)' => Reached(t, v)
      BY <2>1 DEF Reached
  <2>5. \A v \in Threads : Own(v) /\ Others(v)
      BY <1>3, <2>1, <2>3, <2>4 DEF Own, Others
  <2> QED BY <1>11, <2>5
<1>17. CASE SuspendAllWait(t)
  <2>1. /\ pc[t] = "saWait" /\ pc'[t] = "saOwn" /\ UNCHANGED <<list, state, barriers>>
      BY <1>1, <1>17 DEF SuspendAllWait
  <2>2. \A v \in Threads : t \notin barriers[v]
      BY <1>17 DEF SuspendAllWait, ZeroMeansPassed, Awaited
  <2>3. \A v \in Threads : v \in list /\ v # t => state[v] # "Runnable"
      BY <1>3, <2>1, <2>2 DEF Reached
  <2>4. \A v \in Threads : ~Reached(t, v)'
      BY <2>1 DEF Reached
  <2>5. \A v \in Threads : Own(v) /\ Others(v)
      BY <2>1, <2>2, <2>3, <2>4 DEF Own, Others
  <2> QED BY <1>11, <2>5
<1> QED BY <1>12, <1>13, <1>14, <1>15, <1>16, <1>17 DEF ByBarrier
=============================================================================
