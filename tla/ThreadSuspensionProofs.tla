------------------------ MODULE ThreadSuspensionProofs ------------------------
(***************************************************************************)
(* The theorems about ThreadSuspension.  IInv of ThreadSuspensionInv is    *)
(* inductive: ThreadSuspensionStructure shows that every step preserves    *)
(* its structural part; here every step keeps the suspend counts exact,    *)
(* then the barriers' pending counts.  The properties follow from it.      *)
(***************************************************************************)
EXTENDS ThreadSuspensionStructure

USE DEF wordVars, countVars, barrierVars, listVars, lockVars, callVars, Goto, GotoThen,
        Flags, Labels, RunnableLabels, SuspendedLabels, Visiting, SuspendedAll,
        ListLockLabels, CountLockLabels, Transit, ByLabels, Returned, Gone

(* Most steps need only first-order reasoning; SMT is cited where one needs *)
(* more.                                                                   *)
USE ZenonT(40)

(* The suspend counts.                                                     *)

(* A set with an element more or less has a cardinality one up or down.    *)
LEMMA CardinalityStep ==
    ASSUME NEW S, IsFiniteSet(S), NEW x
    PROVE  /\ Cardinality(S) \in Nat
           /\ x \notin S => Cardinality(S \cup {x}) = Cardinality(S) + 1
           /\ x \in S => Cardinality(S \ {x}) = Cardinality(S) - 1
           /\ x \in S => Cardinality(S) > 0
<1>1. Cardinality(S) \in Nat
    BY FS_CardinalityType
<1>2. x \notin S => Cardinality(S \cup {x}) = Cardinality(S) + 1
    BY FS_AddElement
<1>3. x \in S => Cardinality(S \ {x}) = Cardinality(S) - 1
    BY FS_RemoveElement
<1>4. x \in S => Cardinality(S) # 0
    BY FS_EmptySet
<1> QED BY SMT, <1>1, <1>2, <1>3, <1>4

LEMMA CountedFinite ==
    /\ IsFiniteSet(AllCallers)
    /\ \A u \in Threads : IsFiniteSet(Holders(u)) /\ IsFiniteSet(Awaited(u))
BY ThreadsAssumption, FS_Subset DEF AllCallers, Holders, Awaited

LEMMA CountedFiniteNext ==
    /\ IsFiniteSet(AllCallers')
    /\ \A u \in Threads : IsFiniteSet(Holders(u)') /\ IsFiniteSet(Awaited(u)')
BY ThreadsAssumption, FS_Subset DEF AllCallers, Holders, Awaited

(* A request in force shows in the flag.                                   *)
LEMMA CountsShow ==
    ASSUME Types, CountInv
    PROVE  HeldMeansFlagged
<1> SUFFICES ASSUME NEW r \in Threads, NEW u \in Threads, Holds(r, u)
             PROVE  "SuspendRequest" \in flags[u]
    BY DEF HeldMeansFlagged
<1>1. r \in Holders(u)
    BY DEF Holders
<1>2. Cardinality(Holders(u)) > 0
    BY ZenonT(30), <1>1, CountedFinite, CardinalityStep
<1> QED BY <1>2 DEF CountInv, SuspendCountExact, RequestFlagExact

(* A counter at zero means that every thread has passed.                   *)
LEMMA ZeroShows ==
    ASSUME Types, PendingInv
    PROVE  ZeroMeansPassed
<1> SUFFICES ASSUME NEW r \in Threads, pc[r] = "saWait", pending[r] <= 0,
                    NEW u \in Awaited(r)
             PROVE  FALSE
    BY DEF ZeroMeansPassed
<1>1. Cardinality(Awaited(r)) \in Nat /\ Cardinality(Awaited(r)) > 0
    BY ZenonT(30), CountedFinite, CardinalityStep
<1> QED BY SMT, <1>1 DEF PendingInv, PendingExact

(* What a step can do to the requests in force: nothing, one more by r on  *)
(* u, or one less.                                                         *)
CallersKept == AllCallers' = AllCallers /\ suspendAllCount' = suspendAllCount

RequestsKept ==
    /\ \A v \in Threads : /\ Holders(v)' = Holders(v)
                          /\ "SuspendRequest" \in flags'[v] <=> "SuspendRequest" \in flags[v]
    /\ suspendCount' = suspendCount

RequestRaised(r, u) ==
    /\ r \notin Holders(u) /\ Holders(u)' = Holders(u) \cup {r}
    /\ suspendCount' = [suspendCount EXCEPT ![u] = @ + 1]
    /\ "SuspendRequest" \in flags'[u]
    /\ \A v \in Threads \ {u} :
          /\ Holders(v)' = Holders(v)
          /\ "SuspendRequest" \in flags'[v] <=> "SuspendRequest" \in flags[v]

RequestLowered(r, u) ==
    /\ r \in Holders(u) /\ Holders(u)' = Holders(u) \ {r}
    /\ suspendCount' = [suspendCount EXCEPT ![u] = @ - 1]
    /\ "SuspendRequest" \in flags'[u] <=> suspendCount[u] # 1
    /\ \A v \in Threads \ {u} :
          /\ Holders(v)' = Holders(v)
          /\ "SuspendRequest" \in flags'[v] <=> "SuspendRequest" \in flags[v]

(* Each of the three keeps the counts and the flags exact.                 *)
LEMMA RequestsExact ==
    ASSUME Types, SuspendCountExact, RequestFlagExact,
           NEW r \in Threads, NEW u \in Threads,
           RequestsKept \/ RequestRaised(r, u) \/ RequestLowered(r, u)
    PROVE  SuspendCountExact' /\ RequestFlagExact'
<1> USE DEF SuspendCountExact, RequestFlagExact
<1>0. \A v \in Threads : IsFiniteSet(Holders(v)) /\ Cardinality(Holders(v)) \in Nat
    BY CountedFinite, FS_CardinalityType
<1>1. CASE RequestsKept
    BY <1>1, <1>0 DEF RequestsKept, Types
<1>2. CASE RequestRaised(r, u)
  <2>1. Cardinality(Holders(u)') = Cardinality(Holders(u)) + 1
      BY <1>0, <1>2, CardinalityStep DEF RequestRaised
  <2>2. suspendCount'[u] = suspendCount[u] + 1
      BY <1>2 DEF RequestRaised, Types
  <2>3. \A v \in Threads \ {u} : suspendCount'[v] = suspendCount[v]
      BY <1>2 DEF RequestRaised, Types
  <2>4. SuspendCountExact'
      BY ZenonT(30), <1>0, <1>2, <2>1, <2>2, <2>3 DEF RequestRaised
  <2>5. suspendCount[u] + 1 > 0
      BY SMT, <1>0
  <2>6. RequestFlagExact'
      BY <1>2, <2>2, <2>3, <2>5 DEF RequestRaised
  <2> QED BY <2>4, <2>6
<1>3. CASE RequestLowered(r, u)
  <2>1. /\ Cardinality(Holders(u)') = Cardinality(Holders(u)) - 1
        /\ Cardinality(Holders(u)) > 0
      BY <1>0, <1>3, CardinalityStep DEF RequestLowered
  <2>2. suspendCount'[u] = suspendCount[u] - 1
      BY <1>3 DEF RequestLowered, Types
  <2>3. \A v \in Threads \ {u} : suspendCount'[v] = suspendCount[v]
      BY <1>3 DEF RequestLowered, Types
  <2>4. SuspendCountExact'
      BY ZenonT(30), <1>0, <1>3, <2>1, <2>2, <2>3 DEF RequestLowered
  <2>5. suspendCount[u] - 1 > 0 <=> suspendCount[u] # 1
      BY SMT, <1>0, <2>1
  <2>6. RequestFlagExact'
      BY <1>3, <2>2, <2>3, <2>5 DEF RequestLowered
  <2> QED BY <2>4, <2>6
<1> QED BY <1>1, <1>2, <1>3

(* Most steps leave every request in force and every caller where it was.  *)
LEMMA RequestsUntouched ==
    ASSUME Structure, HeldMeansFlagged, NEW t \in Threads,
           \/ Transition(t) \/ CheckSuspend(t)
           \/ SuspendAllCheck(t) \/ SuspendAllUnlock(t) \/ SuspendAllWait(t) \/ SuspendAllOwn(t)
           \/ ResumeAllDisown(t) \/ ResumeAllUnlock(t)
           \/ ByYield(t) \/ ByUse(t) \/ ResumeBroadcast(t)
           \/ Detach(t) \/ Call(t) \/ Unregister(t) \/ SpuriousWake(t)
    PROVE  RequestsKept /\ CallersKept
<1> DEFINE Kept == /\ \A r, v \in Threads : Holds(r, v)' <=> Holds(r, v)
                   /\ \A v \in Threads :
                         "SuspendRequest" \in flags'[v] <=> "SuspendRequest" \in flags[v]
                   /\ \A r \in Threads : r \in AllCallers' <=> r \in AllCallers
                   /\ suspendCount' = suspendCount /\ suspendAllCount' = suspendAllCount
<1>1. SUFFICES Kept
  <2>1. ASSUME Kept PROVE \A v \in Threads : Holders(v)' = Holders(v)
      BY <2>1 DEF Holders
  <2>2. ASSUME Kept PROVE AllCallers' = AllCallers
      BY <2>2 DEF AllCallers
  <2> QED BY <2>1, <2>2 DEF RequestsKept, CallersKept
<1>0. /\ pc \in [Threads -> Labels] /\ flags \in [Threads -> SUBSET Flags]
      /\ ret[t] \in RunnableLabels \cup SuspendedLabels
    BY DEF Structure, Types
<1>a. ASSUME NEW l, pc' = [pc EXCEPT ![t] = l] \/ BroadcastThen(t, l)
      PROVE  pc'[t] = l
    BY <1>0, <1>a DEF BroadcastThen
<1>b. Frame(t)
  <2>1. Continue(t) \/ Begin(t)
      BY DEF Continue, Begin, SuspendAllStep, ResumeAllStep, SuspendBy
  <2> QED BY <2>1, FrameStep
<1> DEFINE SameFlag(v) == "SuspendRequest" \in flags'[v] <=> "SuspendRequest" \in flags[v]
<1> DEFINE SamePhase(r) == /\ pc'[r] \in Visiting <=> pc[r] \in Visiting
                           /\ pc'[r] \in SuspendedAll <=> pc[r] \in SuspendedAll
                           /\ pc'[r] = "raVisit" <=> pc[r] = "raVisit"
<1> DEFINE Idle(l) == l \notin Visiting \cup SuspendedAll \cup {"raVisit"}
<1>c. \A r \in Threads \ {t} : SamePhase(r)
    BY <1>b, FrameShows
<1>2. ASSUME UNCHANGED <<suspendCount, suspendAllCount, list, todo, target, requested>>,
             \A v \in Threads : SameFlag(v) /\ SamePhase(v)
      PROVE  Kept
    BY <1>2 DEF Holds, AllCallers
<1>d. ASSUME UNCHANGED <<suspendCount, suspendAllCount, flags, list, todo, target, requested>>,
             SamePhase(t)
      PROVE  Kept
    BY <1>2, <1>c, <1>d
<1>e. ASSUME UNCHANGED <<suspendCount, suspendAllCount, flags, list, todo, target, requested>>,
             Idle(pc[t]), Idle(pc'[t])
      PROVE  Kept
    BY <1>d, <1>e
<1> HIDE DEF Kept
<1>3. CASE Transition(t)
  <2>1. CASE CloseObjectAccess(t)
      BY <1>a, <1>e, <2>1 DEF CloseObjectAccess, LeaveRunnable
  <2>2. CASE ClaimBarriers(t)
    <3>1. Idle(pc[t]) /\ Idle(pc'[t])
        BY <1>a, <2>2 DEF ClaimBarriers
    <3>2. \A v \in Threads : SameFlag(v)
        BY <1>0, <2>2 DEF ClaimBarriers
    <3>3. \A v \in Threads : SamePhase(v)
        BY <1>c, <3>1
    <3> QED BY <1>2, <2>2, <3>2, <3>3 DEF ClaimBarriers
  <2>3. CASE DrainBarrier(t)
    <3>1. Idle(pc[t]) /\ Idle(pc'[t])
        BY <1>a, <2>3 DEF DrainBarrier
    <3> QED BY <1>e, <2>3, <3>1 DEF DrainBarrier
  <2>4. CASE PassedBarriers(t) \/ BecomeRunnable(t)
    <3>1. Idle(pc[t]) /\ Idle(pc'[t])
        BY <1>0, <1>a, <2>4 DEF PassedBarriers, BecomeRunnable
    <3> QED BY <1>e, <2>4, <3>1 DEF PassedBarriers, BecomeRunnable
  <2>5. CASE WaitForResume(t) \/ Resumed(t)
      BY <1>a, <1>e, <2>5 DEF WaitForResume, Resumed
  <2> QED BY <1>3, <2>1, <2>2, <2>3, <2>4, <2>5 DEF Transition
<1>4. CASE CheckSuspend(t)
    BY <1>a, <1>e, <1>4 DEF CheckSuspend, LeaveRunnable
<1>5. CASE SuspendAllCheck(t)
  <2>1. \A v \in Threads : SameFlag(v)
    <3>1. PICK u \in Threads : u = target[t]
        BY <1>5 DEF SuspendAllCheck, Structure, Types, CallInv
    <3>2. CASE flags' = flags
        BY <3>2
    <3>3. CASE flags' = [flags EXCEPT ![u] = @ \ {"ActiveSuspendBarrier"}]
      <4>1. flags'[u] = flags[u] \ {"ActiveSuspendBarrier"}
          BY <1>0, <3>3
      <4>2. \A v \in Threads \ {u} : flags'[v] = flags[v]
          BY <1>0, <3>3
      <4> QED BY <4>1, <4>2
    <3>4. flags' = [flags EXCEPT ![u] = flags[u]] => flags' = flags
        BY <1>0
    <3> QED BY <1>5, <3>1, <3>2, <3>3, <3>4 DEF SuspendAllCheck, ClearSuspendBarrier
  <2>2. \A v \in Threads : SamePhase(v)
      BY <1>a, <1>c, <1>5 DEF SuspendAllCheck
  <2> QED BY <1>2, <1>5, <2>1, <2>2 DEF SuspendAllCheck
<1>6. CASE SuspendAllUnlock(t)
  <2>1. t \notin requested
      BY <1>6 DEF SuspendAllUnlock, Structure, CallInv, InBy
  <2>2. /\ pc[t] = "saVisit" /\ pc'[t] = "saWait" /\ todo = {}
        /\ UNCHANGED <<suspendCount, suspendAllCount, flags, list, todo, requested>>
      BY <1>a, <1>6 DEF SuspendAllUnlock
  <2>3. \A r \in Threads \ {t} : target'[r] = target[r]
      BY <1>b DEF Frame
  <2>4. \A v \in Threads : Holds(t, v)' <=> Holds(t, v)
      BY <2>1, <2>2 DEF Holds
  <2>5. \A r \in Threads \ {t}, v \in Threads : Holds(r, v)' <=> Holds(r, v)
      BY <1>c, <2>2, <2>3 DEF Holds
  <2>6. \A r \in Threads : r \in AllCallers' <=> r \in AllCallers
      BY <1>c, <2>2 DEF AllCallers
  <2> QED BY <2>2, <2>4, <2>5, <2>6 DEF Kept
<1>7. CASE SuspendAllWait(t) \/ SuspendAllOwn(t) \/ ResumeAllDisown(t)
    BY <1>a, <1>d, <1>7 DEF SuspendAllWait, SuspendAllOwn, ResumeAllDisown
<1>8. CASE ResumeAllUnlock(t)
  <2>1. /\ pc[t] = "raVisit" /\ pc'[t] = "native" /\ todo = {}
        /\ UNCHANGED <<suspendCount, suspendAllCount, flags, list, todo, target, requested>>
      BY <1>a, <1>8 DEF ResumeAllUnlock
  <2>2. \A v \in Threads : Holds(t, v)' <=> Holds(t, v)
      BY <2>1 DEF Holds
  <2>3. \A r \in Threads \ {t}, v \in Threads : Holds(r, v)' <=> Holds(r, v)
      BY <1>c, <2>1 DEF Holds
  <2>4. \A r \in Threads : r \in AllCallers' <=> r \in AllCallers
      BY <1>c, <2>1 DEF AllCallers
  <2> QED BY <2>1, <2>2, <2>3, <2>4 DEF Kept
<1>9. CASE ByYield(t) \/ ByUse(t)
    BY <1>a, <1>e, <1>9 DEF ByYield, ByFound, ByRound, ByKeepOthers, ByUse, LeaveRunnable
<1>10. CASE ResumeBroadcast(t)
  <2>1. Idle(pc[t]) /\ Idle(pc'[t])
      BY <1>a, <1>10 DEF ResumeBroadcast
  <2> QED BY <1>e, <1>10, <2>1 DEF ResumeBroadcast
<1>11. CASE Detach(t)
  <2>1. CASE DestroyClearPeer(t) \/ DestroyReturn(t) \/ UnregisterSignal(t)
      BY <1>a, <1>e, <2>1 DEF DestroyClearPeer, DestroyReturn, LeaveRunnable, UnregisterSignal
  <2>2. CASE UnregisterRemove(t)
    <3>1. \A r \in Threads : ~Holds(r, t)
      <4>1. state[t] = "Suspended"
          BY <2>2 DEF UnregisterRemove, Structure, PlaceInv
      <4>2. "SuspendRequest" \notin flags[t]
          BY <2>2, <4>1 DEF UnregisterRemove, IsSuspended
      <4> QED BY <4>2 DEF HeldMeansFlagged
    <3>2. Idle(pc[t]) /\ Idle(pc'[t]) /\ UNCHANGED flags
        BY <1>a, <2>2 DEF UnregisterRemove
    <3>3. \A v \in Threads : SamePhase(v)
        BY <1>c, <3>2
    <3>4. list' = list \ {t} /\ UNCHANGED <<suspendCount, suspendAllCount, todo, target, requested>>
        BY <2>2 DEF UnregisterRemove
    <3>5. \A r, v \in Threads : Holds(r, v)' <=> Holds(r, v)
        BY <3>1, <3>3, <3>4 DEF Holds
    <3>6. \A r \in Threads : r \in AllCallers' <=> r \in AllCallers
        BY <3>3 DEF AllCallers
    <3> QED BY <3>2, <3>4, <3>5, <3>6 DEF Kept
  <2> QED BY <1>11, <2>1, <2>2 DEF Detach
<1>12. CASE Call(t)
  <2>1. CASE EnterNative(t) \/ ReturnFromNative(t) \/ SuspendAllLockList(t)
      BY <1>a, <1>e, <2>1 DEF EnterNative, ReturnFromNative, LeaveRunnable, SuspendAllLockList
  <2>2. ASSUME NEW u \in Threads, BySuspend(t, u) PROVE Kept
    <3>1. t \notin requested
        BY <2>2 DEF BySuspend, Structure, CallInv, InBy
    <3>2. \A r \in Threads \ {t} : target'[r] = target[r]
        BY <1>b DEF Frame
    <3>3. Idle(pc[t]) /\ Idle(pc'[t])
        BY <1>a, <2>2 DEF BySuspend
    <3>4. \A v \in Threads : SamePhase(v)
        BY <1>c, <3>3
    <3>5. UNCHANGED <<suspendCount, suspendAllCount, flags, list, todo, requested>>
        BY <2>2 DEF BySuspend
    <3>6. \A r, v \in Threads : Holds(r, v)' <=> Holds(r, v)
        BY <3>1, <3>2, <3>4, <3>5 DEF Holds
    <3>7. \A r \in Threads : r \in AllCallers' <=> r \in AllCallers
        BY <3>4 DEF AllCallers
    <3> QED BY <3>5, <3>6, <3>7 DEF Kept
  <2> QED BY <1>12, <2>1, <2>2 DEF Call
<1>13. CASE Unregister(t) \/ SpuriousWake(t)
    BY <1>a, <1>e, <1>13 DEF Unregister, SpuriousWake
<1> QED BY <1>3, <1>4, <1>5, <1>6, <1>7, <1>8, <1>9, <1>10, <1>11, <1>12, <1>13

(* The others make one request of the acting thread, or take one back, or  *)
(* change nothing.                                                         *)
Makes(t) == SuspendAllVisit(t) \/ SuspendAllRetry(t) \/ ByRequest(t)
TakesBack(t) == ResumeAllVisit(t) \/ ByNotFound(t) \/ ByTimeout(t) \/ Resume(t)

LEMMA CallersStay ==
    ASSUME Structure, NEW t \in Threads, Makes(t) \/ TakesBack(t)
    PROVE  CallersKept
<1>1. pc \in [Threads -> Labels]
    BY DEF Structure, Types
<1>2. CASE SuspendAllVisit(t) \/ SuspendAllRetry(t) \/ ResumeAllVisit(t)
    BY <1>1, <1>2 DEF CallersKept, AllCallers, SuspendAllVisit, SuspendAllRetry,
       InstallOrRetry, ResumeAllVisit
<1>3. CASE ByNotFound(t) \/ ByRequest(t) \/ ByTimeout(t) \/ Resume(t)
    BY ZenonT(30), <1>1, <1>3 DEF CallersKept, AllCallers, ByNotFound, ByRequest, ByTimeout, Resume,
       ByRound, ByFound, ByGiveUp, ByKeepOthers
<1> QED BY <1>2, <1>3 DEF Makes, TakesBack

LEMMA RequestMade ==
    ASSUME Structure, NEW t \in Threads, Makes(t)
    PROVE  RequestsKept \/ \E u \in Threads : RequestRaised(t, u)
<1>1. ASSUME NEW u \in todo, pc[t] \in {"saVisit", "saRetry"}, InstallOrRetry(t, u)
      PROVE  RequestsKept \/ RequestRaised(t, u)
  <2> USE <1>1 DEF Structure, Types, InstallOrRetry
  <2>1. CASE ~(Cardinality(barriers[u]) < MaxSuspendBarriers)
      BY SMT, <2>1 DEF RequestsKept, Holders, Holds, CallInv, InBy
  <2>2. CASE Cardinality(barriers[u]) < MaxSuspendBarriers
    <3>1. u \in list /\ u # t
        BY DEF CallInv
    <3>2. \A r \in Threads : Holds(r, u)' <=> Holds(r, u) \/ r = t
        BY SMT, <2>2, <3>1 DEF InstallBarrier, Holds, CallInv, InBy, LockInv
    <3>3. ~Holds(t, u)
        BY <3>1 DEF Holds, CallInv, InBy
    <3>4. \A r \in Threads, v \in Threads \ {u} : Holds(r, v)' <=> Holds(r, v)
        BY SMT, <2>2, <3>1 DEF InstallBarrier, Holds, CallInv, InBy, LockInv
    <3>5. Holders(u)' = Holders(u) \cup {t} /\ t \notin Holders(u)
        BY SMT, <3>2, <3>3 DEF Holders
    <3>6. \A v \in Threads \ {u} : Holders(v)' = Holders(v)
        BY <3>4 DEF Holders
    <3> QED BY SMT, <2>2, <3>5, <3>6 DEF InstallBarrier, RequestRaised
  <2> QED BY <2>1, <2>2
<1>2. CASE SuspendAllVisit(t)
    BY <1>1, <1>2 DEF SuspendAllVisit, Structure, Types
<1>3. CASE SuspendAllRetry(t)
    BY <1>1, <1>3 DEF SuspendAllRetry, CallInv, Structure, Types
<1>4. CASE ByRequest(t)
  <2> USE <1>4 DEF ByRequest, ByFound, ByRound, ByKeepOthers, Structure, Types
  <2>1. PICK u \in Threads : u = target[t]
      OBVIOUS
  <2>2. \A r, v \in Threads : r # t \/ v # u => (Holds(r, v)' <=> Holds(r, v))
      BY <2>1 DEF Holds
  <2>3. Holds(t, u)'
      BY <2>1 DEF Holds
  <2>4. CASE t \in requested
      BY SMT, <2>1, <2>2, <2>3, <2>4 DEF RequestsKept, Holders, Holds
  <2>5. CASE t \notin requested
    <3>1. ~Holds(t, u)
        BY <2>1, <2>5 DEF Holds
    <3>2. t \notin Holders(u) /\ Holders(u)' = Holders(u) \cup {t}
        BY <2>2, <2>3, <3>1 DEF Holders
    <3>3. \A v \in Threads \ {u} : Holders(v)' = Holders(v)
        BY <2>2 DEF Holders
    <3>4. IncrementCount(u)
        BY <2>1, <2>5
    <3>5. RequestRaised(t, u)
        BY <3>2, <3>3, <3>4 DEF RequestRaised, IncrementCount
    <3> QED BY <3>5
  <2> QED BY <2>4, <2>5
<1> QED BY <1>2, <1>3, <1>4 DEF Makes

LEMMA RequestTakenBack ==
    ASSUME Structure, HeldMeansFlagged, NEW t \in Threads, TakesBack(t)
    PROVE  RequestsKept \/ \E u \in Threads : RequestLowered(t, u)
<1>1. ASSUME NEW u \in Threads, DecrementCount(u), Holds(t, u), ~Holds(t, u)',
             \A r, v \in Threads : r # t \/ v # u => (Holds(r, v)' <=> Holds(r, v))
      PROVE  RequestLowered(t, u)
  <2>1. t \in Holders(u) /\ Holders(u)' = Holders(u) \ {t}
      BY <1>1 DEF Holders
  <2>2. \A v \in Threads \ {u} : Holders(v)' = Holders(v)
      BY <1>1 DEF Holders
  <2> QED BY <1>1, <2>1, <2>2 DEF RequestLowered, DecrementCount, Structure, Types
<1>2. CASE ResumeAllVisit(t)
  <2>1. PICK u \in todo : DecrementCount(u) /\ todo' = todo \ {u}
      BY <1>2 DEF ResumeAllVisit
  <2>2. u \in Threads /\ Holds(t, u) /\ ~Holds(t, u)'
      BY <1>2, <2>1 DEF ResumeAllVisit, Holds, Structure, Types, CallInv, InBy
  <2>3. \A r, v \in Threads : r # t \/ v # u => (Holds(r, v)' <=> Holds(r, v))
      BY <1>2, <2>1 DEF ResumeAllVisit, Holds, Structure, Types, LockInv
  <2> QED BY <1>1, <2>1, <2>2, <2>3
<1>3. CASE ByNotFound(t) \/ ByTimeout(t) \/ Resume(t)
  <2>1. PICK u \in Threads : u = target[t]
      BY ZenonT(30), <1>3 DEF ByNotFound, ByTimeout, Resume, ByFound, ByRound, Structure, CallInv, InBy
  <2>2. t \in requested' <=> FALSE
      BY <1>3 DEF ByNotFound, ByTimeout, Resume, ByGiveUp
  <2>0. pc \in [Threads -> Labels] /\ target \in [Threads -> Threads \cup {None}]
      BY DEF Structure, Types
  <2>3. ~Holds(t, u)'
      BY ZenonT(30), <1>3, <2>0, <2>2 DEF ByNotFound, ByTimeout, Resume, ByGiveUp, Holds
  <2>4. \A r, v \in Threads : r # t \/ v # u => (Holds(r, v)' <=> Holds(r, v))
    <3>1. UNCHANGED <<list, todo>> /\ requested' = requested \ {t}
        BY <1>3 DEF ByNotFound, ByTimeout, Resume, ByGiveUp, ByKeepOthers
    <3>2. \A r \in Threads \ {t} : pc'[r] = pc[r] /\ target'[r] = target[r]
        BY ZenonT(30), <1>3, <2>0 DEF ByNotFound, ByTimeout, Resume, ByGiveUp
    <3>3. pc[t] \in ByLabels /\ pc'[t] \notin Visiting \cup SuspendedAll \cup {"raVisit"}
        BY ZenonT(30), <1>3, <2>0 DEF ByNotFound, ByTimeout, Resume, ByGiveUp, ByRound, ByFound
    <3> QED BY ZenonT(30), <2>1, <3>1, <3>2, <3>3 DEF Holds
  <2>5. CASE t \in requested
    <3>1. Holds(t, u)
        BY ZenonT(30), <2>1, <2>5 DEF Holds
    <3>2. DecrementCount(u)
        BY <1>3, <2>1, <2>5, <3>1 DEF ByNotFound, ByTimeout, Resume, ByRound, ByFound,
           IsSuspended, Structure, CallInv, StopInv, HasReturned, HeldMeansFlagged
    <3>3. RequestLowered(t, u)
        BY <1>1, <2>3, <2>4, <3>1, <3>2
    <3> QED BY <3>3
  <2>6. CASE t \notin requested
    <3>0. ~Holds(t, u)
        BY ZenonT(30), <1>3, <2>6 DEF ByNotFound, ByTimeout, Resume, ByRound, ByFound, Holds
    <3>1. \A r, v \in Threads : Holds(r, v)' <=> Holds(r, v)
        BY <2>3, <2>4, <3>0
    <3>2. flags' = flags /\ suspendCount' = suspendCount
        BY ZenonT(30), <1>3, <2>6 DEF ByNotFound, ByTimeout, Resume, ByRound, ByFound, Structure, CallInv,
           HasReturned
    <3> QED BY <3>1, <3>2 DEF RequestsKept, Holders
  <2> QED BY <2>5, <2>6
<1> QED BY <1>2, <1>3 DEF TakesBack

(* A SuspendAll that begins or a ResumeAll that begins raises and lowers   *)
(* nothing yet; a new thread is held by the callers under way.             *)
LEMMA RequestsAtEnds ==
    ASSUME Structure, NEW t \in Threads, SuspendAllLockCount(t) \/ ResumeAllLock(t)
    PROVE  RequestsKept
<1> USE DEF Structure, Types
<1>1. CASE SuspendAllLockCount(t)
  <2>1. \A r, v \in Threads : Holds(r, v)' <=> Holds(r, v)
      BY SMT, <1>1 DEF SuspendAllLockCount, Holds, CallInv, LockInv, InBy
  <2> QED BY <1>1, <2>1 DEF SuspendAllLockCount, RequestsKept, Holders
<1>2. CASE ResumeAllLock(t)
  <2> USE <1>2 DEF ResumeAllLock
  <2>1. \A r \in Threads : pc[r] \notin ListLockLabels
      BY ThreadsAssumption DEF LockInv
  <2>2. \A v \in Threads : Holds(t, v)' <=> Holds(t, v)
      BY DEF Holds
  <2>3. \A r \in Threads \ {t}, v \in Threads : Holds(r, v)' <=> Holds(r, v)
      BY <2>1 DEF Holds
  <2>4. \A r, v \in Threads : Holds(r, v)' <=> Holds(r, v)
      BY <2>2, <2>3
  <2>5. \A v \in Threads : Holders(v)' = Holders(v)
      BY <2>4 DEF Holders
  <2> QED BY <2>5 DEF RequestsKept
<1> QED BY <1>1, <1>2

LEMMA RequestsAtBirth ==
    ASSUME Structure, NEW t \in Threads, Register(t)
    PROVE  /\ Holders(t)' = AllCallers /\ Holders(t) = {}
           /\ \A v \in Threads \ {t} : Holders(v)' = Holders(v)
<1> USE DEF Register, Structure, Types
<1>1. \A r \in Threads, v \in Threads \ {t} : Holds(r, v)' <=> Holds(r, v)
    BY DEF Holds
<1>2. \A r \in Threads : Holds(r, t)' <=> r \in AllCallers
    BY DEF Holds, AllCallers, LockInv, PlaceInv, CallInv
<1>3. \A r \in Threads : ~Holds(r, t)
    BY DEF Holds, PlaceInv, CallInv
<1>4. Holders(t)' = AllCallers
    BY <1>2 DEF Holders, AllCallers
<1>5. Holders(t) = {}
    BY <1>3 DEF Holders
<1>6. \A v \in Threads \ {t} : Holders(v)' = Holders(v)
    BY <1>1 DEF Holders
<1> QED BY <1>4, <1>5, <1>6

(* Every step keeps the counts exact.                                      *)
LEMMA CountInvStep ==
    ASSUME Structure, CountInv, NEW t \in Threads, Continue(t) \/ Begin(t)
    PROVE  CountInv'
<1>0. Types /\ HeldMeansFlagged
    BY CountsShow DEF Structure
<1>1. ASSUME CallersKept,
             RequestsKept \/ \E u \in Threads : RequestRaised(t, u) \/ RequestLowered(t, u)
      PROVE  CountInv'
  <2>1. SuspendCountExact' /\ RequestFlagExact'
      BY <1>0, <1>1, RequestsExact DEF CountInv
  <2> QED BY <1>1, <2>1 DEF CountInv, CallersKept
<1>2. CASE SuspendAllLockCount(t)
  <2> USE <1>2 DEF SuspendAllLockCount, Structure, Types
  <2>1. RequestsKept
      BY RequestsAtEnds
  <2>2. AllCallers' = AllCallers \cup {t} /\ t \notin AllCallers
      BY DEF AllCallers
  <2>3. suspendAllCount' = Cardinality(AllCallers')
      BY <2>2, CountedFinite, CardinalityStep DEF CountInv
  <2>4. SuspendCountExact' /\ RequestFlagExact'
      BY <1>0, <2>1, RequestsExact DEF CountInv
  <2> QED BY <2>3, <2>4 DEF CountInv
<1>3. CASE ResumeAllLock(t)
  <2> USE <1>3 DEF ResumeAllLock, Structure, Types
  <2>1. RequestsKept
      BY RequestsAtEnds
  <2>2. AllCallers' = AllCallers \ {t} /\ t \in AllCallers
      BY DEF AllCallers
  <2>3. suspendAllCount' = Cardinality(AllCallers')
      BY <2>2, CountedFinite, CardinalityStep DEF CountInv
  <2>4. SuspendCountExact' /\ RequestFlagExact'
      BY <1>0, <2>1, RequestsExact DEF CountInv
  <2> QED BY <2>3, <2>4 DEF CountInv
<1>4. CASE Register(t)
  <2> USE <1>4 DEF Register, Structure, Types
  <2>3. AllCallers' = AllCallers
      BY DEF AllCallers
  <2>4. Holders(t)' = AllCallers /\ \A v \in Threads \ {t} : Holders(v)' = Holders(v)
      BY RequestsAtBirth
  <2>6. SuspendCountExact'
      BY <2>4 DEF CountInv, SuspendCountExact
  <2>7. RequestFlagExact'
      BY DEF CountInv, RequestFlagExact
  <2> QED BY <2>3, <2>6, <2>7 DEF CountInv
<1>5. CASE ~(SuspendAllLockCount(t) \/ ResumeAllLock(t) \/ Register(t))
    BY <1>0, <1>1, <1>5, RequestsUntouched, CallersStay, RequestMade, RequestTakenBack
       DEF Continue, Begin, SuspendAllStep, ResumeAllStep, SuspendBy, Makes, TakesBack
<1> QED BY <1>2, <1>3, <1>4, <1>5

-------------------------------------------------------------------------------
(***************************************************************************)
(* pending_threads.                                                        *)
(***************************************************************************)
Waits(r) == pc[r] \in Visiting \cup {"saWait"}

AwaitedKept ==
    /\ pending' = pending
    /\ \A r \in Threads : Awaited(r)' = Awaited(r) /\ (Waits(r)' <=> Waits(r))

(* One thread fewer is waited for, by r.                                   *)
AwaitedLowered(r) ==
    /\ pending' = [pending EXCEPT ![r] = @ - 1]
    /\ Waits(r)
    /\ \E u \in Awaited(r) : Awaited(r)' = Awaited(r) \ {u}
    /\ \A q \in Threads \ {r} : Awaited(q)' = Awaited(q)
    /\ \A q \in Threads : Waits(q)' <=> Waits(q)

LEMMA AwaitedExact ==
    ASSUME Types, PendingInv,
           AwaitedKept \/ \E r \in Threads : AwaitedLowered(r)
    PROVE  PendingInv'
<1>1. CASE AwaitedKept
    BY <1>1 DEF AwaitedKept, PendingInv, PendingExact, Waits
<1>2. ASSUME NEW r \in Threads, AwaitedLowered(r) PROVE PendingInv'
  <2>1. PICK u \in Awaited(r) : Awaited(r)' = Awaited(r) \ {u}
      BY <1>2 DEF AwaitedLowered
  <2>2. Cardinality(Awaited(r)') = Cardinality(Awaited(r)) - 1
    <3>1. IsFiniteSet(Awaited(r))
        BY <1>2, CountedFinite
    <3>2. Cardinality(Awaited(r) \ {u}) = Cardinality(Awaited(r)) - 1
        BY <3>1, CardinalityStep
    <3> QED BY <2>1, <3>2
  <2>3. pending'[r] = pending[r] - 1 /\ \A q \in Threads \ {r} : pending'[q] = pending[q]
      BY <1>2 DEF AwaitedLowered, Types
  <2>4. pending[r] = Cardinality(Awaited(r))
      BY <1>2 DEF AwaitedLowered, PendingInv, PendingExact, Waits
  <2>5. \A q \in Threads : Waits(q)' => pending'[q] = Cardinality(Awaited(q)')
      BY <1>2, <2>2, <2>3, <2>4 DEF AwaitedLowered, PendingInv, PendingExact, Waits
  <2>6. \A q \in Threads : ~Waits(q)' => pending'[q] = 0
      BY <1>2, <2>3 DEF AwaitedLowered, PendingInv, Waits
  <2> QED BY <2>5, <2>6 DEF PendingInv, PendingExact, Waits
<1> QED BY <1>1, <1>2

(* Nothing happens to barriers and counters, and nobody begins or ends to  *)
(* wait.                                                                   *)
Quiet ==
    /\ UNCHANGED barrierVars
    /\ todo' = todo \/ \A r \in Threads : pc[r] \notin Visiting
    /\ \A r \in Threads : (Waits(r)' <=> Waits(r)) /\ (pc'[r] \in Visiting <=> pc[r] \in Visiting)

(* Only four steps change what anybody waits for.                          *)
LEMMA AwaitedUntouched ==
    ASSUME Structure, NEW t \in Threads, Continue(t) \/ Begin(t),
           ~(SuspendAllLockCount(t) \/ SuspendAllCheck(t) \/ SuspendAllWait(t)
             \/ DrainBarrier(t))
    PROVE  AwaitedKept
<1>0. pc \in [Threads -> Labels] /\ ret \in [Threads -> RunnableLabels \cup SuspendedLabels]
    BY DEF Structure, Types
<1>1. ASSUME Quiet PROVE AwaitedKept
    BY <1>1 DEF Quiet, AwaitedKept, Awaited, Waits
<1>2. CASE Transition(t)
  <2>1. CASE CloseObjectAccess(t) \/ PassedBarriers(t)
      BY <1>0, <1>1, <2>1 DEF CloseObjectAccess, LeaveRunnable, PassedBarriers, Quiet, Waits
  <2>2. CASE ClaimBarriers(t)
    <3>1. claimed[t] = {} /\ barriers \in [Threads -> SUBSET Threads]
          /\ claimed \in [Threads -> SUBSET Threads]
        BY <2>2 DEF ClaimBarriers, BarrierInv, Structure, Types
    <3>2. \A u \in Threads : barriers'[u] \cup claimed'[u] = barriers[u] \cup claimed[u]
        BY <2>2, <3>1 DEF ClaimBarriers
    <3> QED BY <1>0, <2>2, <3>2 DEF ClaimBarriers, AwaitedKept, Awaited, Waits
  <2>3. CASE BecomeRunnable(t)
    <3>1. ret[t] \in RunnableLabels
        BY <2>3 DEF BecomeRunnable, Structure, PlaceInv
    <3> QED BY <1>0, <1>1, <2>3, <3>1 DEF BecomeRunnable, Quiet, Waits
  <2>4. CASE WaitForResume(t) \/ Resumed(t)
      BY <1>0, <1>1, <2>4 DEF WaitForResume, Resumed, Quiet, Waits
  <2> QED BY <1>2, <2>1, <2>2, <2>3, <2>4 DEF Transition
<1>3. CASE CheckSuspend(t)
    BY <1>0, <1>1, <1>3 DEF CheckSuspend, LeaveRunnable, Quiet, Waits
<1>4. ASSUME NEW u \in todo, pc[t] \in {"saVisit", "saRetry"}, InstallOrRetry(t, u)
      PROVE  AwaitedKept
  <2> USE <1>0, <1>4 DEF InstallOrRetry
  <2>1. CASE ~(Cardinality(barriers[u]) < MaxSuspendBarriers)
      BY <1>1, <2>1 DEF Quiet, Waits
  <2>2. CASE Cardinality(barriers[u]) < MaxSuspendBarriers
    <3>1. barriers \in [Threads -> SUBSET Threads] /\ u \in Threads
        BY DEF Structure, Types
    <3>2. \A r \in Threads \ {t} : pc[r] \notin Visiting /\ pc'[r] = pc[r]
        BY <2>2 DEF Structure, LockInv
    <3>3. \A r \in Threads : Waits(r)' <=> Waits(r)
        BY <2>2 DEF Waits
    <3>4. Awaited(t)' = Awaited(t)
        BY SMT, <2>2, <3>1 DEF Awaited, InstallBarrier
    <3>5. \A r \in Threads \ {t} : Awaited(r)' = Awaited(r)
        BY SMT, <2>2, <3>1, <3>2 DEF Awaited, InstallBarrier
    <3> QED BY <2>2, <3>3, <3>4, <3>5 DEF AwaitedKept
  <2> QED BY <2>1, <2>2
<1>5. CASE SuspendAllVisit(t)
    BY <1>4, <1>5 DEF SuspendAllVisit
<1>6. CASE SuspendAllRetry(t)
    BY <1>4, <1>6 DEF SuspendAllRetry, Structure, CallInv
<1>7. CASE SuspendAllUnlock(t)
    BY <1>0, <1>7 DEF SuspendAllUnlock, AwaitedKept, Awaited, Waits
<1>8. CASE SuspendAllOwn(t) \/ ResumeAllDisown(t) \/ ResumeAllUnlock(t)
    BY <1>0, <1>1, <1>8 DEF SuspendAllOwn, ResumeAllDisown, ResumeAllUnlock, BroadcastThen,
       Quiet, Waits
<1>9. CASE ResumeAllLock(t) \/ ResumeAllVisit(t)
  <2>1. \A r \in Threads : pc[r] \notin Visiting
      BY <1>0, <1>9, ThreadsAssumption DEF ResumeAllLock, ResumeAllVisit, Structure, LockInv
  <2> QED BY <1>0, <1>1, <1>9, <2>1 DEF ResumeAllLock, ResumeAllVisit, Quiet, Waits
<1>10. CASE ByNotFound(t) \/ ByYield(t) \/ ByRequest(t) \/ ByTimeout(t)
    BY <1>0, <1>1, <1>10 DEF ByNotFound, ByYield, ByRequest, ByTimeout, ByRound, ByFound,
       ByGiveUp, ByKeepOthers, Quiet, Waits
<1>11. CASE ByUse(t) \/ Resume(t) \/ ResumeBroadcast(t)
    BY <1>0, <1>1, <1>11 DEF ByUse, Resume, ResumeBroadcast, BroadcastThen, LeaveRunnable,
       ByKeepOthers, Quiet, Waits
<1>12. CASE Detach(t)
    BY <1>0, <1>1, <1>12 DEF Detach, DestroyClearPeer, DestroyReturn, LeaveRunnable,
       UnregisterRemove, UnregisterSignal, Quiet, Waits
<1>13. CASE Call(t)
    BY <1>0, <1>1, <1>13 DEF Call, EnterNative, ReturnFromNative, LeaveRunnable,
       SuspendAllLockList, BySuspend, Quiet, Waits
<1>14. CASE Register(t) \/ Unregister(t) \/ SpuriousWake(t)
    BY <1>0, <1>1, <1>14 DEF Register, Unregister, SpuriousWake, Quiet, Waits
<1> QED BY <1>2, <1>3, <1>5, <1>6, <1>7, <1>8, <1>9, <1>10, <1>11, <1>12, <1>13, <1>14
        DEF Continue, Begin, SuspendAllStep, ResumeAllStep, SuspendBy

(* Every step keeps pending_threads exact.                                 *)
LEMMA PendingInvStep ==
    ASSUME Structure, PendingInv, NEW t \in Threads, Continue(t) \/ Begin(t)
    PROVE  PendingInv'
<1>1. CASE SuspendAllLockCount(t)
  <2> USE <1>1 DEF SuspendAllLockCount, Structure, Types
  <2>1. Awaited(t)' = list \ {t} /\ t \in list
      BY SMT DEF Awaited, BarrierInv, Reached, PlaceInv
  <2>2. Cardinality(list \ {t}) = Cardinality(list) - 1
      BY <2>1, ListFinite, CardinalityStep
  <2>3. \A r \in Threads \ {t} : Awaited(r)' = Awaited(r)
      BY DEF Awaited, LockInv
  <2>4. \A r \in Threads \ {t} : pending'[r] = pending[r] /\ pc'[r] = pc[r]
      OBVIOUS
  <2>5. pending'[t] = Cardinality(list) - 1 /\ pc'[t] = "saVisit"
      OBVIOUS
  <2> QED BY ONLY <2>1, <2>2, <2>3, <2>4, <2>5, PendingInv DEF PendingInv, PendingExact
<1>2. CASE SuspendAllCheck(t)
  <2> USE <1>2 DEF SuspendAllCheck, Structure, Types
  <2>1. \A r \in Threads : Waits(r)' <=> Waits(r)
      BY DEF Waits
  <2>2. CASE IsSuspended(target[t])
    <3>1. PICK u \in Threads : u = target[t]
        BY DEF CallInv
    <3>2. u \in Awaited(t) /\ Awaited(t)' = Awaited(t) \ {u}
        BY SMT, <2>2, <3>1 DEF ClearSuspendBarrier, Awaited, CallInv, BarrierInv
    <3>3. \A q \in Threads \ {t} : Awaited(q)' = Awaited(q)
        BY SMT, <2>2 DEF ClearSuspendBarrier, Awaited, LockInv
    <3>4. pending' = [pending EXCEPT ![t] = @ - 1] /\ Waits(t)
        BY <2>2 DEF Waits
    <3>5. AwaitedLowered(t)
        BY <2>1, <3>2, <3>3, <3>4 DEF AwaitedLowered
    <3> QED BY <3>5, AwaitedExact
  <2>3. CASE ~IsSuspended(target[t])
    <3>1. AwaitedKept
        BY <2>1, <2>3 DEF AwaitedKept, Awaited
    <3> QED BY <3>1, AwaitedExact
  <2> QED BY <2>2, <2>3
<1>3. CASE SuspendAllWait(t)
  <2> USE <1>3 DEF SuspendAllWait, Structure, Types
  <2>1. pending[t] = 0
    <3>1. Cardinality(Awaited(t)) \in Nat
        BY ZenonT(30), CountedFinite, CardinalityStep
    <3> QED BY SMT, <3>1 DEF PendingInv, PendingExact
  <2>2. \A r \in Threads \ {t} : Awaited(r)' = Awaited(r) /\ pc'[r] = pc[r]
      BY DEF Awaited
  <2> QED BY SMT, <2>1, <2>2 DEF PendingInv, PendingExact
<1>4. CASE DrainBarrier(t)
  <2> USE <1>4 DEF DrainBarrier, Structure, Types
  <2>1. PICK r \in claimed[t] :
            /\ pending' = [pending EXCEPT ![r] = @ - 1]
            /\ claimed' = [claimed EXCEPT ![t] = @ \ {r}]
            /\ Goto(t, IF claimed[t] = {r} THEN "pass" ELSE "passDrain")
      OBVIOUS
  <2>2. r \in Threads /\ Reached(r, t) /\ r \notin barriers[t]
      BY DEF BarrierInv
  <2>3. \A q \in Threads : Waits(q)' <=> Waits(q)
      BY SMT, <2>1 DEF Waits
  <2>4. Waits(r)
      BY <2>2 DEF Waits, Reached
  <2>5. t \in Awaited(r) /\ Awaited(r)' = Awaited(r) \ {t}
      BY SMT, <2>1, <2>2 DEF Awaited, Reached
  <2>6. \A q \in Threads \ {r} : Awaited(q)' = Awaited(q)
      BY SMT, <2>1 DEF Awaited
  <2>7. AwaitedLowered(r)
      BY ZenonT(30), <2>1, <2>3, <2>4, <2>5, <2>6 DEF AwaitedLowered
  <2> QED BY <2>2, <2>7, AwaitedExact
<1>5. CASE ~(SuspendAllLockCount(t) \/ SuspendAllCheck(t) \/ SuspendAllWait(t)
             \/ DrainBarrier(t))
    BY <1>5, AwaitedUntouched, AwaitedExact DEF Structure
<1> QED BY <1>1, <1>2, <1>3, <1>4, <1>5
-----------------------------------------------------------------------------
(* The invariant holds at the start, and every step keeps it.              *)
LEMMA InvInit ==
    Init => IInv
<1> SUFFICES ASSUME Init PROVE IInv
    OBVIOUS
<1> USE ThreadsAssumption DEF Init
<1>1. Types
    BY SMT DEF Types, Labels
<1>2. LockInv /\ PlaceInv
    BY DEF LockInv, PlaceInv
<1>3. CallInv
    BY DEF CallInv, InBy, HasReturned
<1>4. BarrierInv /\ StopInv
    BY DEF BarrierInv, StopInv, Reached, HasReturned
<1>5. AllCallers = {} /\ \A u \in Threads : Holders(u) = {}
    BY DEF AllCallers, Holders, Holds
<1>6. CountInv
    BY SMT, <1>5, FS_EmptySet DEF CountInv, SuspendCountExact, RequestFlagExact
<1>7. PendingInv
    BY DEF PendingInv, PendingExact
<1> QED BY <1>1, <1>2, <1>3, <1>4, <1>6, <1>7 DEF IInv, Structure

LEMMA InvNext ==
    ASSUME IInv, [Next]_vars
    PROVE  IInv'
<1>1. CASE Next
  <2>1. PICK t \in Threads : Continue(t) \/ Begin(t)
      BY <1>1 DEF Next
  <2>2. Structure /\ HeldMeansFlagged /\ ZeroMeansPassed
      BY CountsShow, ZeroShows DEF IInv, Structure
  <2>3. Types' /\ LockInv' /\ PlaceInv'
      BY <2>1, <2>2, TypesStep, LockInvStep, PlaceInvStep
  <2>4. CallInv' /\ BarrierInv' /\ StopInv'
      BY <2>1, <2>2, CallInvStep, BarrierInvStep, StopInvStep
  <2>5. CountInv' /\ PendingInv'
      BY <2>1, <2>2, CountInvStep, PendingInvStep DEF IInv
  <2> QED BY <2>3, <2>4, <2>5 DEF IInv, Structure
<1>2. CASE UNCHANGED vars
  <2> USE <1>2 DEF IInv, Structure, vars
  <2>1. Types' /\ LockInv' /\ PlaceInv'
      BY DEF Types, LockInv, PlaceInv
  <2>2. CallInv' /\ BarrierInv'
      BY DEF CallInv, InBy, HasReturned, BarrierInv, Reached
  <2>3. StopInv'
      BY DEF StopInv, InBy, HasReturned, Reached
  <2>4. CountInv'
      BY DEF CountInv, SuspendCountExact, RequestFlagExact, Holders, Holds, AllCallers
  <2>5. PendingInv'
      BY DEF PendingInv, PendingExact, Awaited
  <2> QED BY <2>1, <2>2, <2>3, <2>4, <2>5
<1> QED BY <1>1, <1>2

(* The inductive invariant of thread suspension: places, locks, barriers   *)
(* and counts agree in every reachable state, for any number of threads.   *)
THEOREM Invariance == Spec => []IInv
<1>1. Init => IInv
    BY InvInit
<1>2. IInv /\ [Next]_vars => IInv'
    BY InvNext
<1> QED BY <1>1, <1>2, PTL DEF Spec

LEMMA CountsNatural ==
    ASSUME IInv
    PROVE  \A u \in Threads : suspendCount[u] \in Nat
<1>1. \A u \in Threads : Cardinality(Holders(u)) \in Nat
    BY ZenonT(30), CountedFinite, CardinalityStep
<1> QED BY <1>1 DEF IInv, CountInv, SuspendCountExact

(* Type correctness; in particular no suspend count, no pending_threads    *)
(* and no suspend_all_count_ ever goes negative.                           *)
THEOREM TypeCorrect == Spec => []TypeOK
<1>1. IInv => TypeOK
  <2> SUFFICES ASSUME IInv PROVE TypeOK
      OBVIOUS
  <2> USE DEF IInv, Structure, Types
  <2>1. suspendAllCount \in Nat
      BY ZenonT(30), CountedFinite, CardinalityStep DEF CountInv
  <2>2. \A u \in Threads : suspendCount[u] \in Nat
      BY CountsNatural
  <2>3. \A r \in Threads : Cardinality(Awaited(r)) \in Nat
      BY ZenonT(30), CountedFinite, CardinalityStep
  <2>4. \A r \in Threads : pending[r] \in Nat
      BY SMT, <2>3 DEF PendingInv, PendingExact
  <2> QED BY <2>1, <2>2, <2>4 DEF TypeOK
<1> QED BY <1>1, Invariance, PTL

(* Mutator exclusion, whatever attaches, leaves or asks at the same time.  *)
THEOREM MutatorsExcluded == Spec => []MutatorExclusion
<1>1. IInv => MutatorExclusion
    BY ZenonT(30) DEF IInv, Structure, PlaceInv, StopInv, MutatorExclusion
<1> QED BY <1>1, Invariance, PTL

(* The suspend count is the number of requests in force, and the request   *)
(* flag is set exactly while it is positive.                               *)
THEOREM CountsExact == Spec => [](SuspendCountExact /\ RequestFlagExact)
<1>1. IInv => SuspendCountExact /\ RequestFlagExact
    BY DEF IInv, CountInv
<1> QED BY <1>1, Invariance, PTL

(* pending_threads is the number of threads a SuspendAll still waits for.  *)
THEOREM PendingCountExact == Spec => []PendingExact
<1>1. IInv => PendingExact
    BY ZenonT(30) DEF IInv, PendingInv
<1> QED BY <1>1, Invariance, PTL

(* No thread decrements the pending_threads of a SuspendAll that has gone  *)
(* on, and none that waits to be resumed keeps a barrier.                  *)
THEOREM BarriersPassed == Spec => [](NoLateDecrement /\ NoBarrierOnceOut)
<1>1. IInv => NoLateDecrement
    BY DEF IInv, Structure, BarrierInv, Reached, NoLateDecrement
<1>2. IInv => NoBarrierOnceOut
    BY SMT, ThreadsAssumption
       DEF IInv, Structure, Types, LockInv, StopInv, NoBarrierOnceOut
<1> QED BY <1>1, <1>2, Invariance, PTL

(* What SuspendThreadByPeer and SuspendThreadByThreadId promise: the       *)
(* thread they return stays suspended and on the list until Resume.        *)
THEOREM StaysSuspended == Spec => []SuspendedUntilResume
<1>1. IInv => SuspendedUntilResume
  <2> SUFFICES ASSUME IInv, NEW r \in Threads, HasSuspended(r)
               PROVE  IsSuspended(target[r]) /\ target[r] \in list
      BY DEF SuspendedUntilResume
  <2> USE DEF IInv, Structure
  <2>1. HasReturned(r) /\ r \in requested
      BY DEF HasSuspended, HasReturned, CallInv, InBy
  <2>2. target[r] \in list /\ target[r] \in Threads
      BY <2>1 DEF CallInv, Types
  <2>3. "SuspendRequest" \in flags[target[r]]
      BY <2>1, <2>2, CountsShow DEF HeldMeansFlagged, Holds
  <2> QED BY <2>1, <2>2, <2>3 DEF StopInv, IsSuspended
<1> QED BY <1>1, Invariance, PTL

(* A thread somebody has a request or a barrier on does not leave list_.   *)
THEOREM StaysOnList == Spec => []RequestedStaysOnList
<1>1. IInv => RequestedStaysOnList
  <2> SUFFICES ASSUME IInv, NEW u \in Threads, suspendCount[u] > 0 \/ barriers[u] # {}
               PROVE  u \in list
      BY DEF RequestedStaysOnList
  <2> USE DEF IInv, Structure
  <2>1. CASE barriers[u] # {}
      BY <2>1 DEF BarrierInv, Reached, Types
  <2>2. CASE suspendCount[u] > 0
    <3>1. Holders(u) # {}
        BY SMT, <2>2, FS_EmptySet DEF CountInv, SuspendCountExact
    <3>2. PICK r \in Threads : Holds(r, u)
        BY <3>1 DEF Holders
    <3> QED BY <3>2 DEF Holds, CallInv
  <2> QED BY <2>1, <2>2
<1> QED BY <1>1, Invariance, PTL

(* No thread becomes runnable while a request is in force on it.           *)
THEOREM RunsUnrequested == Spec => RunsOnlyWithoutRequest
<1> DEFINE Safe == \A t \in Threads :
        state[t] # "Runnable" /\ state'[t] = "Runnable" => suspendCount[t] = 0
<1>1. ASSUME IInv, [Next]_vars PROVE [Safe]_vars
  <2> SUFFICES ASSUME Next, NEW u \in Threads, state[u] # "Runnable", state'[u] = "Runnable"
               PROVE  suspendCount[u] = 0
      BY <1>1
  <2>1. PICK t \in Threads : Continue(t) \/ Begin(t)
      BY DEF Next
  <2>2. Frame(t) /\ OwnState(t)
      BY <1>1, <2>1, FrameStep, OwnStateStep DEF IInv
  <2>3. flags[u] = {}
      BY <2>2 DEF Frame, OwnState
  <2> QED BY SMT, <1>1, <2>3, CountsNatural DEF IInv, CountInv, RequestFlagExact
<1> QED BY <1>1, Invariance, PTL DEF Spec, RunsOnlyWithoutRequest

-----------------------------------------------------------------------------
(* No cycle of requests.                                                   *)

(* Requests are only taken back, and those that stay keep their target.    *)
NoNewRequest == requested' \subseteq requested /\ \A r \in requested' : target'[r] = target[r]

(* A thread that nobody has asked to suspend asks for its target.          *)
NewRequest(t) ==
    /\ requested' = requested \cup {t} /\ target' = target
    /\ t \notin requested /\ suspendCount[t] = 0 /\ InBy(t)

LEMMA RequestOfTheUnasked ==
    ASSUME Structure, NEW t \in Threads, Continue(t) \/ Begin(t)
    PROVE  NoNewRequest \/ NewRequest(t)
<1>0. Frame(t) /\ requested \subseteq Threads
    BY FrameStep DEF Structure, Types
<1>1. ASSUME UNCHANGED <<requested, target>> PROVE NoNewRequest
    BY <1>1 DEF NoNewRequest
<1>2. ASSUME requested' = requested \ {t} \/ (requested' = requested /\ t \notin requested)
      PROVE  NoNewRequest
    BY <1>0, <1>2 DEF Frame, NoNewRequest
<1>3. CASE Transition(t) \/ CheckSuspend(t)
    BY <1>1, <1>3 DEF Transition, CloseObjectAccess, LeaveRunnable, ClaimBarriers, DrainBarrier,
       PassedBarriers, BecomeRunnable, WaitForResume, Resumed, CheckSuspend
<1>4. CASE SuspendAllLockCount(t) \/ SuspendAllCheck(t) \/ SuspendAllWait(t) \/ SuspendAllOwn(t)
    BY <1>1, <1>4 DEF SuspendAllLockCount, SuspendAllCheck, SuspendAllWait, SuspendAllOwn
<1>5. CASE SuspendAllVisit(t) \/ SuspendAllRetry(t) \/ SuspendAllUnlock(t)
           \/ \E u \in Threads : BySuspend(t, u)
  <2>1. t \notin requested
      BY <1>5 DEF SuspendAllVisit, SuspendAllRetry, SuspendAllUnlock, BySuspend, Structure,
         CallInv, InBy
  <2>2. requested' = requested
      BY <1>5 DEF SuspendAllVisit, SuspendAllRetry, InstallOrRetry, SuspendAllUnlock, BySuspend
  <2> QED BY <1>2, <2>1, <2>2
<1>6. CASE ResumeAllStep(t)
    BY <1>1, <1>6 DEF ResumeAllStep, ResumeAllDisown, ResumeAllLock, ResumeAllVisit, ResumeAllUnlock
<1>7. CASE ByNotFound(t) \/ ByTimeout(t) \/ Resume(t)
    BY <1>2, <1>7 DEF ByNotFound, ByTimeout, ByGiveUp, Resume
<1>8. CASE ByYield(t) \/ ByUse(t) \/ ResumeBroadcast(t)
    BY <1>1, <1>8 DEF ByYield, ByUse, LeaveRunnable, ResumeBroadcast
<1>9. CASE ByRequest(t)
  <2>1. CASE t \in requested
    <3>1. requested' = requested /\ target' = target
        BY <1>9, <2>1 DEF ByRequest
    <3> QED BY <1>1, <3>1
  <2>2. CASE t \notin requested
      BY <1>9, <2>2 DEF ByRequest, ByFound, ByRound, NewRequest, InBy
  <2> QED BY <2>1, <2>2
<1>10. CASE Detach(t)
    BY <1>1, <1>10 DEF Detach, DestroyClearPeer, DestroyReturn, LeaveRunnable, UnregisterRemove,
       UnregisterSignal
<1>11. CASE EnterNative(t) \/ ReturnFromNative(t) \/ SuspendAllLockList(t)
    BY <1>1, <1>11 DEF EnterNative, ReturnFromNative, LeaveRunnable, SuspendAllLockList
<1>12. CASE Register(t) \/ Unregister(t) \/ SpuriousWake(t)
    BY <1>1, <1>12 DEF Register, Unregister, SpuriousWake
<1> QED BY ZenonT(30), <1>3, <1>4, <1>5, <1>6, <1>7, <1>8, <1>9, <1>10, <1>11, <1>12
        DEF Continue, Begin, SuspendAllStep, SuspendBy, Call

LEMMA NoCycleStep ==
    ASSUME IInv, NoRequestCycle, [Next]_vars
    PROVE  NoRequestCycle'
<1>1. ASSUME NoNewRequest PROVE NoRequestCycle'
  <2> SUFFICES ASSUME NEW S \in SUBSET requested', S # {}
               PROVE  \E r \in S : target'[r] \notin S
      BY DEF NoRequestCycle
  <2>1. PICK r \in S : target[r] \notin S
      BY <1>1 DEF NoNewRequest, NoRequestCycle
  <2> QED BY <1>1, <2>1 DEF NoNewRequest
<1>2. ASSUME NEW t \in Threads, NewRequest(t) PROVE NoRequestCycle'
  <2> SUFFICES ASSUME NEW S \in SUBSET (requested \cup {t}), S # {}
               PROVE  \E r \in S : target[r] \notin S
      BY <1>2 DEF NoRequestCycle, NewRequest
  <2>1. target[t] # t
      BY <1>2 DEF NewRequest, IInv, Structure, CallInv
  <2>2. \A r \in requested : target[r] # t
    <3> SUFFICES ASSUME NEW r \in requested, target[r] = t PROVE FALSE
        OBVIOUS
    <3>1. r \in Threads /\ Holds(r, t)
        BY DEF Holds, IInv, Structure, Types
    <3>2. "SuspendRequest" \in flags[t]
        BY <3>1, CountsShow DEF IInv, Structure, HeldMeansFlagged
    <3>3. suspendCount[t] > 0
        BY <3>2 DEF IInv, CountInv, RequestFlagExact
    <3> QED BY SMT, <1>2, <3>3 DEF NewRequest
  <2>3. CASE S \ {t} = {}
      BY <2>1, <2>3
  <2>4. CASE S \ {t} # {}
    <3>1. PICK r \in S \ {t} : target[r] \notin S \ {t}
        BY <2>4 DEF NoRequestCycle
    <3> QED BY <2>2, <3>1
  <2> QED BY <2>3, <2>4
<1>3. CASE UNCHANGED vars
    BY <1>1, <1>3 DEF vars, NoNewRequest
<1>4. CASE Next
    BY <1>1, <1>2, <1>4, RequestOfTheUnasked DEF Next, IInv
<1> QED BY <1>3, <1>4

(* Threads never wait in a circle for each other's suspension: a thread    *)
(* that finds a request in force on it lets the other go first.            *)
THEOREM NoCircle == Spec => []NoRequestCycle
<1>1. Init => NoRequestCycle
    BY DEF Init, NoRequestCycle
<1>2. IInv /\ NoRequestCycle /\ [Next]_vars => NoRequestCycle'
    BY NoCycleStep
<1> QED BY <1>1, <1>2, Invariance, PTL DEF Spec

-----------------------------------------------------------------------------
(* The promise to the callers.                                             *)

(* What r was told is true, and r has a request in force.                  *)
ToldTrue == \A r, u \in Threads : Told(r, u) => Holds(r, u) /\ state[u] # "Runnable"

LEMMA ToldIsTrue == IInv => ToldTrue
<1> SUFFICES ASSUME IInv, NEW r \in Threads, NEW u \in Threads, Told(r, u)
             PROVE  Holds(r, u) /\ state[u] # "Runnable"
    BY DEF ToldTrue
<1>1. CASE pc[r] = "exclusive" /\ u \in list \ {r}
    BY <1>1 DEF Holds, IInv, Structure, StopInv
<1>2. CASE HasSuspended(r) /\ target[r] = u
  <2>1. r \in requested /\ HasReturned(r)
      BY <1>2 DEF HasSuspended, HasReturned, IInv, Structure, CallInv, InBy
  <2> QED BY <1>2, <2>1 DEF Holds, IInv, Structure, StopInv
<1> QED BY <1>1, <1>2 DEF Told

ToldKept == \A r, u \in Threads : Told(r, u)' <=> Told(r, u)
ToldMore == \A r, u \in Threads : Told(r, u) => Told(r, u)'
ToldLess == \A r, u \in Threads : Told(r, u)' => Told(r, u)

(* The acting thread is the only one that can be told more or less.        *)
LEMMA ToldByOwn ==
    ASSUME NEW t \in Threads, Frame(t)
    PROVE  \A r \in Threads \ {t} : /\ HasSuspended(r)' <=> HasSuspended(r)
                                    /\ target'[r] = target[r]
                                    /\ pc'[r] = "exclusive" <=> pc[r] = "exclusive"
BY DEF Frame, HasSuspended

LEMMA ToldUntouched ==
    ASSUME Structure, HeldMeansFlagged, NEW t \in Threads, Continue(t) \/ Begin(t),
           ~(SuspendAllOwn(t) \/ Register(t) \/ ByRequest(t) \/ ResumeAllDisown(t) \/ Resume(t))
    PROVE  ToldKept
<1>0. /\ pc \in [Threads -> Labels] /\ target \in [Threads -> Threads \cup {None}]
      /\ ret \in [Threads -> RunnableLabels \cup SuspendedLabels]
    BY DEF Structure, Types
<1>1. Frame(t)
    BY FrameStep
<1> DEFINE SameOwn == pc'[t] = "exclusive" <=> pc[t] = "exclusive"
<1> DEFINE OwnCall == /\ HasSuspended(t)' <=> HasSuspended(t)
                      /\ HasSuspended(t) => target'[t] = target[t]
<1>2. ASSUME SameOwn, OwnCall, list' = list PROVE ToldKept
    BY <1>1, <1>2, ToldByOwn DEF ToldKept, Told
<1>3. ASSUME t \notin requested, requested' = requested \/ requested' = requested \ {t} PROVE OwnCall
    BY <1>3 DEF HasSuspended
<1>4. CASE Transition(t)
  <2>1. UNCHANGED <<list, requested, target>>
      BY <1>4 DEF Transition, CloseObjectAccess, LeaveRunnable, ClaimBarriers, DrainBarrier,
         PassedBarriers, BecomeRunnable, WaitForResume, Resumed
  <2>2. CASE CloseObjectAccess(t)
      BY <1>0, <1>2, <2>1, <2>2 DEF CloseObjectAccess, LeaveRunnable, HasSuspended
  <2>3. CASE ClaimBarriers(t)
      BY <1>0, <1>2, <2>1, <2>3 DEF ClaimBarriers, HasSuspended
  <2>4. CASE DrainBarrier(t)
      BY <1>0, <1>2, <2>1, <2>4 DEF DrainBarrier, HasSuspended
  <2>5. CASE PassedBarriers(t)
      BY <1>0, <1>2, <2>1, <2>5 DEF PassedBarriers, HasSuspended
  <2>6. CASE BecomeRunnable(t)
    <3>1. ret[t] \in RunnableLabels
        BY <2>6 DEF BecomeRunnable, Structure, PlaceInv
    <3> QED BY <1>0, <1>2, <2>1, <2>6, <3>1 DEF BecomeRunnable, HasSuspended
  <2>7. CASE WaitForResume(t) \/ Resumed(t)
      BY <1>0, <1>2, <2>1, <2>7 DEF WaitForResume, Resumed, HasSuspended
  <2> QED BY <1>4, <2>2, <2>3, <2>4, <2>5, <2>6, <2>7 DEF Transition
<1>5. CASE CheckSuspend(t)
    BY <1>0, <1>2, <1>5 DEF CheckSuspend, LeaveRunnable, HasSuspended
<1>6. CASE \/ SuspendAllLockCount(t) \/ SuspendAllVisit(t) \/ SuspendAllRetry(t)
           \/ SuspendAllCheck(t) \/ SuspendAllUnlock(t) \/ SuspendAllWait(t)
  <2>1. t \notin requested
      BY <1>6 DEF SuspendAllLockCount, SuspendAllVisit, SuspendAllRetry, SuspendAllCheck,
         SuspendAllUnlock, SuspendAllWait, Structure, CallInv, InBy
  <2>2. UNCHANGED <<list, requested>>
      BY <1>6 DEF SuspendAllLockCount, SuspendAllVisit, SuspendAllRetry, InstallOrRetry,
         SuspendAllCheck, SuspendAllUnlock, SuspendAllWait
  <2>3. SameOwn
      BY <1>0, <1>6 DEF SuspendAllLockCount, SuspendAllVisit, SuspendAllRetry, InstallOrRetry,
         SuspendAllCheck, SuspendAllUnlock, SuspendAllWait
  <2> QED BY <1>2, <1>3, <2>1, <2>2, <2>3
<1>7. CASE ResumeAllLock(t) \/ ResumeAllVisit(t) \/ ResumeAllUnlock(t)
  <2>1. t \notin requested
      BY <1>7 DEF ResumeAllLock, ResumeAllVisit, ResumeAllUnlock, Structure, CallInv, InBy
  <2>2. UNCHANGED <<list, requested>>
      BY <1>7 DEF ResumeAllLock, ResumeAllVisit, ResumeAllUnlock
  <2>3. SameOwn
      BY <1>0, <1>7 DEF ResumeAllLock, ResumeAllVisit, ResumeAllUnlock, BroadcastThen
  <2> QED BY <1>2, <1>3, <2>1, <2>2, <2>3
<1>8. CASE ByNotFound(t) \/ ByTimeout(t)
  <2>1. pc[t] = "byTry" /\ t \notin requested' /\ list' = list
      BY <1>8 DEF ByNotFound, ByTimeout, ByFound, ByRound, ByGiveUp, ByKeepOthers
  <2>2. pc'[t] = "leave"
      BY <1>0, <1>8 DEF ByNotFound, ByTimeout, ByGiveUp
  <2>3. ~HasSuspended(t) /\ ~HasSuspended(t)'
      BY <2>1 DEF HasSuspended
  <2> QED BY <1>2, <2>1, <2>2, <2>3
<1>9. CASE ByYield(t)
  <2>1. /\ pc[t] = "byTry" /\ UNCHANGED <<list, target>>
        /\ t \notin requested /\ requested' = requested
      BY <1>9 DEF ByYield, ByFound, ByRound, ByKeepOthers
  <2>2. pc'[t] = "leave"
      BY <1>0, <1>9 DEF ByYield
  <2> QED BY <1>2, <1>3, <2>1, <2>2
<1>10. CASE ByUse(t)
    BY <1>0, <1>2, <1>10 DEF ByUse, LeaveRunnable, HasSuspended
<1>11. CASE ResumeBroadcast(t)
  <2>1. t \notin requested /\ UNCHANGED <<list, requested>> /\ pc[t] = "byBroadcast"
      BY <1>11 DEF ResumeBroadcast, Structure, CallInv, InBy
  <2>2. pc'[t] \in {"runnable", "native"}
      BY <1>11 DEF ResumeBroadcast, BroadcastThen
  <2> QED BY <1>2, <1>3, <2>1, <2>2
<1>12. CASE Detach(t)
  <2>0. t \notin requested /\ requested' = requested
    <3>1. DestroyReturn(t) \/ DestroyClearPeer(t) \/ UnregisterRemove(t) \/ UnregisterSignal(t)
        BY <1>12 DEF Detach
    <3>2. pc[t] \in {"destroy", "unregister", "unregistered"}
        BY <3>1 DEF DestroyReturn, DestroyClearPeer, UnregisterRemove, UnregisterSignal
    <3>3. requested' = requested
        BY <3>1 DEF DestroyReturn, DestroyClearPeer, LeaveRunnable, UnregisterRemove, UnregisterSignal
    <3> QED BY <3>2, <3>3 DEF Structure, CallInv, InBy
  <2>1. CASE DestroyReturn(t) \/ DestroyClearPeer(t) \/ UnregisterSignal(t)
      BY <1>0, <1>2, <1>3, <2>0, <2>1 DEF DestroyReturn, DestroyClearPeer, LeaveRunnable, UnregisterSignal
  <2>2. CASE UnregisterRemove(t)
    <3>1. list' = list \ {t} /\ SameOwn /\ pc[t] = "unregister"
        BY <1>0, <2>2 DEF UnregisterRemove
    <3>2. OwnCall
        BY <1>3, <2>0
    <3>3. "SuspendRequest" \notin flags[t]
        BY <2>2 DEF UnregisterRemove, IsSuspended, Structure, PlaceInv
    <3>4. \A r \in Threads \ {t} : t \in list => pc[r] # "exclusive"
        BY <3>3 DEF HeldMeansFlagged, Holds
    <3> QED BY <1>1, <3>1, <3>2, <3>4, ToldByOwn DEF ToldKept, Told
  <2> QED BY <1>12, <2>1, <2>2 DEF Detach
<1>13. CASE Call(t)
  <2>1. CASE EnterNative(t) \/ ReturnFromNative(t) \/ SuspendAllLockList(t)
    <3>1. t \notin requested /\ UNCHANGED <<list, requested>>
        BY <2>1 DEF EnterNative, ReturnFromNative, LeaveRunnable, SuspendAllLockList, Structure,
           CallInv, InBy
    <3>2. SameOwn
        BY <1>0, <2>1 DEF EnterNative, ReturnFromNative, LeaveRunnable, SuspendAllLockList
    <3> QED BY <1>2, <1>3, <3>1, <3>2
  <2>2. ASSUME NEW u \in Threads, BySuspend(t, u) PROVE ToldKept
    <3>1. t \notin requested /\ UNCHANGED <<list, requested>>
        BY <2>2 DEF BySuspend, Structure, CallInv, InBy
    <3>2. SameOwn
        BY <1>0, <2>2 DEF BySuspend
    <3> QED BY <1>2, <1>3, <3>1, <3>2
  <2> QED BY <1>13, <2>1, <2>2 DEF Call
<1>14. CASE Unregister(t) \/ SpuriousWake(t)
  <2>1. UNCHANGED <<list, requested, target>> /\ SameOwn
      BY <1>0, <1>14 DEF Unregister, SpuriousWake
  <2>2. CASE Unregister(t)
    <3>1. t \notin requested
        BY <2>2 DEF Unregister, Structure, CallInv, InBy
    <3> QED BY <1>2, <1>3, <2>1, <3>1
  <2>3. CASE SpuriousWake(t)
      BY <1>0, <1>2, <2>1, <2>3 DEF SpuriousWake, HasSuspended
  <2> QED BY <1>14, <2>2, <2>3
<1> QED BY ZenonT(30), <1>4, <1>5, <1>6, <1>7, <1>8, <1>9, <1>10, <1>11, <1>12, <1>13, <1>14
        DEF Continue, Begin, SuspendAllStep, ResumeAllStep, SuspendBy

(* The requests in force, by pairs.                                        *)
HoldsMore == \A r, u \in Threads : Holds(r, u) => Holds(r, u)'
HoldsLess == \A r, u \in Threads : Holds(r, u)' => Holds(r, u)
HoldsKept == HoldsMore /\ HoldsLess

LEMMA HoldersHold ==
    /\ RequestsKept => HoldsKept
    /\ \A r, u \in Threads : RequestRaised(r, u) => HoldsMore
    /\ \A r, u \in Threads : RequestLowered(r, u) => HoldsLess
<1>1. \A r, u \in Threads : /\ r \in Holders(u) <=> Holds(r, u)
                            /\ r \in Holders(u)' <=> Holds(r, u)'
    BY DEF Holders
<1>2. RequestsKept => HoldsKept
    BY <1>1 DEF RequestsKept, HoldsKept, HoldsMore, HoldsLess
<1>3. ASSUME NEW r \in Threads, NEW u \in Threads, RequestRaised(r, u) PROVE HoldsMore
    BY <1>1, <1>3 DEF RequestRaised, HoldsMore
<1>4. ASSUME NEW r \in Threads, NEW u \in Threads, RequestLowered(r, u) PROVE HoldsLess
    BY <1>1, <1>4 DEF RequestLowered, HoldsLess
<1> QED BY <1>2, <1>3, <1>4

(* Steps of the contract, in terms of what holds and what was told.        *)
LEMMA ContractSteps ==
    ASSUME Types, ToldTrue',
           \/ UNCHANGED state /\ HoldsMore /\ ToldMore
           \/ UNCHANGED state /\ HoldsLess /\ ToldLess
           \/ /\ HoldsKept /\ ToldKept
              /\ \E t \in Threads : state' = [state EXCEPT ![t] = "Suspended"]
           \/ /\ HoldsKept /\ ToldKept
              /\ \E t \in Threads : /\ state' = [state EXCEPT ![t] = "Runnable"]
                                    /\ \A r \in Threads : ~Holds(r, t)
    PROVE  [Contract!Next]_(Contract!vars)
<1>0. state \in [Threads -> {"Runnable", "Suspended"}]
    BY DEF Types
<1>1. Stopped' \subseteq InForce' /\ InForce' \subseteq Contract!Pairs
    BY DEF ToldTrue, Stopped, InForce, Contract!Pairs
<1>2. CASE UNCHANGED state /\ HoldsMore /\ ToldMore
  <2>1. InForce \subseteq InForce'
      BY <1>2 DEF HoldsMore, InForce
  <2>2. Stopped \subseteq Stopped'
      BY <1>2 DEF ToldMore, Stopped
  <2>3. \A p \in Stopped' : p[2] \notin Running
      BY <1>2 DEF ToldTrue, Stopped, Running
  <2>4. Running' = Running
      BY <1>2 DEF Running
  <2> QED BY <1>1, <2>1, <2>2, <2>3, <2>4 DEF Contract!Next, Contract!Ask
<1>3. CASE UNCHANGED state /\ HoldsLess /\ ToldLess
  <2>1. InForce' \subseteq InForce
      BY <1>3 DEF HoldsLess, InForce
  <2>2. Stopped' \subseteq Stopped
      BY <1>3 DEF ToldLess, Stopped
  <2>3. Running' = Running
      BY <1>3 DEF Running
  <2> QED BY <1>1, <2>1, <2>2, <2>3 DEF Contract!Next, Contract!TakeBack
<1>4. ASSUME HoldsKept, ToldKept PROVE UNCHANGED <<InForce, Stopped>>
  <2>1. InForce' = InForce
      BY <1>4 DEF HoldsKept, HoldsMore, HoldsLess, InForce
  <2>2. Stopped' = Stopped
      BY <1>4 DEF ToldKept, Stopped
  <2> QED BY <2>1, <2>2
<1>5. ASSUME NEW t \in Threads, HoldsKept, ToldKept, state' = [state EXCEPT ![t] = "Suspended"]
      PROVE  [Contract!Next]_(Contract!vars)
  <2>1. Running' = Running \ {t}
      BY <1>0, <1>5 DEF Running
  <2>2. CASE t \in Running
      BY <1>4, <1>5, <2>1, <2>2 DEF Contract!Next, Contract!Leave
  <2>3. CASE t \notin Running
    <3>1. Running' = Running
        BY <2>1, <2>3
    <3> QED BY <1>4, <1>5, <3>1 DEF Contract!vars
  <2> QED BY <2>2, <2>3
<1>6. ASSUME NEW t \in Threads, HoldsKept, ToldKept, state' = [state EXCEPT ![t] = "Runnable"],
             \A r \in Threads : ~Holds(r, t)
      PROVE  [Contract!Next]_(Contract!vars)
  <2>1. Running' = Running \cup {t}
      BY <1>0, <1>6 DEF Running
  <2>2. CASE t \notin Running
    <3>1. \A p \in InForce : p[2] # t
        BY <1>6 DEF InForce
    <3> QED BY <1>4, <1>6, <2>1, <2>2, <3>1 DEF Contract!Next, Contract!Run
  <2>3. CASE t \in Running
    <3>1. Running' = Running
        BY <2>1, <2>3
    <3> QED BY <1>4, <1>6, <3>1 DEF Contract!vars
  <2> QED BY <2>2, <2>3
<1> QED BY <1>2, <1>3, <1>5, <1>6

(* Every step is a step of the contract or changes nothing that it shows.  *)
LEMMA RefinementStep ==
    ASSUME IInv, ToldTrue', NEW t \in Threads, Continue(t) \/ Begin(t)
    PROVE  [Contract!Next]_(Contract!vars)
<1>0. Types /\ Structure /\ HeldMeansFlagged
    BY CountsShow DEF IInv, Structure
<1>1. Frame(t)
    BY <1>0, FrameStep
<1>2. ASSUME ~BecomeRunnable(t), ~Leaves(t) PROVE state' = state
    BY <1>2, StateStep
<1>3. CASE BecomeRunnable(t)
  <2>1. HoldsKept
      BY <1>0, <1>3, RequestsUntouched, HoldersHold DEF Transition
  <2>2. ToldKept
      BY <1>0, <1>3, ToldUntouched DEF BecomeRunnable, SuspendAllOwn, Register, ByRequest, ByFound,
         ByRound, ResumeAllDisown, Resume
  <2>3. \A r \in Threads : ~Holds(r, t)
      BY <1>0, <1>3 DEF BecomeRunnable, HeldMeansFlagged
  <2> QED BY <1>0, <1>3, <2>1, <2>2, <2>3, ContractSteps DEF BecomeRunnable
<1>4. CASE Leaves(t)
  <2>1. HoldsKept
      BY <1>0, <1>4, RequestsUntouched, HoldersHold DEF Leaves, Transition, Call, Detach
  <2>2. ToldKept
      BY <1>0, <1>4, ToldUntouched DEF Leaves, CheckSuspend, CloseObjectAccess, EnterNative, BySuspend,
         ByUse, DestroyReturn, SuspendAllOwn, Register, ByRequest, ByFound, ByRound,
         ResumeAllDisown, Resume
  <2>3. state' = [state EXCEPT ![t] = "Suspended"]
      BY <1>4 DEF Leaves, CheckSuspend, CloseObjectAccess, EnterNative, BySuspend,
         ByUse, DestroyReturn, LeaveRunnable
  <2> QED BY <1>0, <2>1, <2>2, <2>3, ContractSteps
<1>5. CASE SuspendAllLockCount(t) \/ ResumeAllLock(t)
  <2>1. HoldsKept
      BY <1>0, <1>5, RequestsAtEnds, HoldersHold
  <2>2. state' = state
      BY <1>5 DEF SuspendAllLockCount, ResumeAllLock
  <2>3. ToldKept
      BY <1>0, <1>5, ToldUntouched DEF SuspendAllLockCount, ResumeAllLock, SuspendAllOwn, Register,
         ByRequest, ByFound, ByRound, ResumeAllDisown, Resume
  <2> QED BY <1>0, <2>1, <2>2, <2>3, ContractSteps DEF HoldsKept, ToldKept, ToldMore
<1>6. CASE Register(t)
  <2>1. HoldsMore
      BY <1>0, <1>6, RequestsAtBirth DEF HoldsMore, Holders
  <2>2. state' = state /\ list' = list \cup {t}
      BY <1>6 DEF Register
  <2>3. t \notin requested /\ requested' = requested /\ pc[t] = "unborn"
      BY <1>0, <1>6 DEF Register, Structure, CallInv, InBy
  <2>4. ToldMore
      BY <1>1, <2>2, <2>3, ToldByOwn DEF ToldMore, Told, HasSuspended
  <2> QED BY <1>0, <2>1, <2>2, <2>4, ContractSteps
<1>7. CASE Makes(t)
  <2>1. HoldsMore
      BY <1>0, <1>7, RequestMade, HoldersHold DEF HoldsKept
  <2>2. state' = state
      BY <1>7 DEF Makes, SuspendAllVisit, SuspendAllRetry, InstallOrRetry, ByRequest, ByKeepOthers
  <2>3. CASE ByRequest(t)
    <3>1. ~HasSuspended(t) /\ list' = list /\ pc[t] # "exclusive"
        BY <2>3 DEF ByRequest, ByFound, ByRound, ByKeepOthers, HasSuspended
    <3>2. ToldMore
        BY <1>1, <3>1, ToldByOwn DEF ToldMore, Told
    <3> QED BY <1>0, <2>1, <2>2, <3>2, ContractSteps
  <2>4. CASE SuspendAllVisit(t) \/ SuspendAllRetry(t)
    <3>1. ToldKept
        BY <1>0, <2>4, ToldUntouched DEF SuspendAllVisit, SuspendAllRetry, SuspendAllOwn, Register,
           ByRequest, ByFound, ByRound, ResumeAllDisown, Resume
    <3> QED BY <1>0, <2>1, <2>2, <3>1, ContractSteps DEF ToldKept, ToldMore
  <2> QED BY <1>7, <2>3, <2>4 DEF Makes
<1>8. CASE TakesBack(t)
  <2>1. HoldsLess
      BY <1>0, <1>8, RequestTakenBack, HoldersHold DEF HoldsKept
  <2>2. state' = state
      BY <1>8 DEF TakesBack, ResumeAllVisit, ByNotFound, ByTimeout, ByGiveUp, Resume, ByKeepOthers
  <2>3. CASE Resume(t)
    <3>1. t \notin requested' /\ list' = list
        BY <2>3 DEF Resume, ByKeepOthers
    <3>2. pc'[t] # "exclusive"
        BY <1>0, <2>3 DEF Resume, Types
    <3>3. ToldLess
        BY <1>1, <3>1, <3>2, ToldByOwn DEF ToldLess, Told, HasSuspended
    <3> QED BY <1>0, <2>1, <2>2, <3>3, ContractSteps
  <2>4. CASE ResumeAllVisit(t) \/ ByNotFound(t) \/ ByTimeout(t)
    <3>1. pc[t] \in {"raVisit", "byTry"}
        BY <2>4 DEF ResumeAllVisit, ByNotFound, ByTimeout, ByFound, ByRound
    <3>2. pc[t] = "byTry" => t \notin requested'
        BY <2>4 DEF ResumeAllVisit, ByNotFound, ByTimeout, ByGiveUp
    <3>4. ~ByRequest(t)
        BY <3>1, <3>2 DEF ByRequest, ByFound, ByRound
    <3>3. ToldKept
        BY <1>0, <3>1, <3>4, ToldUntouched DEF SuspendAllOwn, Register, ResumeAllDisown, Resume
    <3> QED BY <1>0, <2>1, <2>2, <3>3, ContractSteps DEF ToldKept, ToldLess
  <2> QED BY <1>8, <2>3, <2>4 DEF TakesBack
<1>9. CASE SuspendAllOwn(t) \/ ResumeAllDisown(t)
  <2>1. HoldsKept
      BY <1>0, <1>9, RequestsUntouched, HoldersHold
  <2>2. state' = state /\ list' = list /\ requested' = requested
      BY <1>9 DEF SuspendAllOwn, ResumeAllDisown
  <2>3. t \notin requested
      BY <1>0, <1>9 DEF SuspendAllOwn, ResumeAllDisown, Structure, CallInv, InBy
  <2>4. CASE SuspendAllOwn(t)
    <3>1. ToldMore
        BY <1>1, <2>2, <2>3, <2>4, ToldByOwn DEF SuspendAllOwn, ToldMore, Told, HasSuspended
    <3> QED BY <1>0, <2>1, <2>2, <3>1, ContractSteps DEF HoldsKept
  <2>5. CASE ResumeAllDisown(t)
    <3>1. pc'[t] # "exclusive"
        BY <1>0, <2>5 DEF ResumeAllDisown, Types
    <3>2. ToldLess
        BY <1>1, <2>2, <2>3, <3>1, ToldByOwn DEF ToldLess, Told, HasSuspended
    <3> QED BY <1>0, <2>1, <2>2, <3>2, ContractSteps DEF HoldsKept
  <2> QED BY <1>9, <2>4, <2>5
<1>10. CASE /\ ~BecomeRunnable(t) /\ ~Leaves(t) /\ ~SuspendAllLockCount(t) /\ ~ResumeAllLock(t)
            /\ ~Register(t) /\ ~Makes(t) /\ ~TakesBack(t) /\ ~SuspendAllOwn(t) /\ ~ResumeAllDisown(t)
  <2>1. RequestsKept
      BY ZenonT(30), <1>0, <1>10, RequestsUntouched
         DEF Makes, TakesBack, Continue, Begin, SuspendAllStep, ResumeAllStep, SuspendBy
  <2>2. ToldKept
      BY <1>0, <1>10, ToldUntouched DEF Makes, TakesBack
  <2> QED BY <1>0, <1>2, <1>10, <2>1, <2>2, HoldersHold, ContractSteps DEF HoldsKept, ToldKept, ToldMore
<1> QED BY <1>3, <1>4, <1>5, <1>6, <1>7, <1>8, <1>9, <1>10

(* Flags, counts and barriers keep the promise of SuspendRequests: no      *)
(* thread starts to run while a request is in force on it, and whoever is  *)
(* told by SuspendAll or SuspendThreadBy... that a thread is suspended can *)
(* rely on it until it takes its request back.                             *)
THEOREM Refinement == Spec => ImplementsSuspendRequests
<1>1. Init => Contract!Init
  <2> SUFFICES ASSUME Init PROVE Contract!Init
      OBVIOUS
  <2>1. Running = {}
      BY DEF Init, Running
  <2>2. InForce = {} /\ Stopped = {}
      BY DEF Init, InForce, Stopped, Holds, Told, HasSuspended
  <2> QED BY <2>1, <2>2 DEF Contract!Init
<1>2. IInv' => ToldTrue'
    BY ToldIsTrue, PTL
<1>3. ASSUME IInv, [Next]_vars PROVE [Contract!Next]_(Contract!vars)
  <2>1. IInv'
      BY <1>3, InvNext
  <2>2. ASSUME NEW t \in Threads, Continue(t) \/ Begin(t) PROVE [Contract!Next]_(Contract!vars)
      BY <1>2, <1>3, <2>1, <2>2, RefinementStep
  <2>3. CASE UNCHANGED vars
    <3>1. UNCHANGED <<Running, InForce, Stopped>>
        BY <2>3 DEF vars, Running, InForce, Stopped, Holds, Told, HasSuspended
    <3> QED BY <3>1 DEF Contract!vars
  <2> QED BY <1>3, <2>2, <2>3 DEF Next
<1> QED BY <1>1, <1>3, Invariance, PTL DEF Spec, ImplementsSuspendRequests, Contract!Spec
=============================================================================
