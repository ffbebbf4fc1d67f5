-------------------------- MODULE ThreadSuspension --------------------------
(***************************************************************************)
(* Thread suspension: the state_and_flags word of a Thread, its suspend    *)
(* count, the suspend barriers, and the operations of ThreadList that      *)
(* stop and restart threads (runtime/thread-inl.h, runtime/thread.cc,      *)
(* runtime/thread_list.cc).                                                *)
(*                                                                         *)
(* Every thread runs the code as a process.  One step is one access to     *)
(* the atomic state_and_flags word or one critical section of              *)
(* thread_suspend_count_lock_; where the code changes several words inside *)
(* a critical section and another thread can see the change half done, the *)
(* section is split.  Every state other than kRunnable is "Suspended":     *)
(* the protocol only ever tests for kRunnable.                             *)
(***************************************************************************)
EXTENDS Integers, FiniteSets

CONSTANTS
    Threads,              \* every Thread object that ever exists
    Attached,             \* those on list_ when the model starts
    SuspendAllers,        \* threads that may call SuspendAll and ResumeAll
    ByIdSuspenders,       \* threads that may inflate another thread's lock
    ByPeerSuspenders,     \* threads that may call SuspendThreadByPeer
    Detachers,            \* threads that may call Unregister
    MaxSuspendBarriers,   \* kMaxSuspendBarriers
    None                  \* no thread

ASSUME ThreadsAssumption ==
    /\ IsFiniteSet(Threads)
    /\ None \notin Threads
    /\ Attached \subseteq Threads
    /\ MaxSuspendBarriers \in Nat \ {0}

VARIABLES
    state,           \* state_and_flags: the state half
    flags,           \* state_and_flags: the flags half
    suspendCount,    \* tls32_.suspend_count
    barriers,        \* active_suspend_barriers, named by their SuspendAll caller
    claimed,         \* pass_barriers of PassActiveSuspendBarriers(Thread*)
    pending,         \* the caller's pending_threads
    suspendAllCount, \* suspend_all_count_
    list,            \* list_
    nativePeer,      \* threads whose java.lang.Thread still points at them
    unregistering,   \* unregistering_count_
    listLock,        \* holder of thread_list_lock_
    countLock,       \* holder of thread_suspend_count_lock_
    mutatorLock,     \* holder of mutator_lock_ in exclusive mode
    pc,              \* where each thread is
    ret,             \* where it goes once its state transition is done
    todo,            \* rest of the loop over list_ of the thread_list_lock_ holder
    target,          \* the thread a loop visits, or SuspendThreadBy... is about
    requested        \* callers of SuspendThreadBy... whose suspended_thread is set

wordVars == <<state, flags>>
countVars == <<suspendCount, suspendAllCount>>
barrierVars == <<barriers, claimed, pending>>
listVars == <<list, nativePeer, unregistering>>
lockVars == <<listLock, countLock, mutatorLock>>
callVars == <<todo, target, requested>>
vars == <<wordVars, countVars, barrierVars, listVars, lockVars, pc, ret, callVars>>

Flags == {"SuspendRequest", "ActiveSuspendBarrier"}
RunnableLabels == {"runnable", "destroy", "byTry", "byUse", "byResume"}
SuspendedLabels == {"native", "unregister", "byRelease"}
Labels == RunnableLabels \cup SuspendedLabels \cup
    {"unborn", "unregistered", "deleted", "leave", "pass", "passDrain",
     "toRun", "resumeWait", "resumeWoken",
     "saLock", "saVisit", "saRetry", "saCheck", "saWait", "saOwn",
     "exclusive", "raLock", "raVisit", "byBroadcast"}

Init ==
    /\ state = [t \in Threads |-> "Suspended"]
    /\ flags = [t \in Threads |-> {}]
    /\ suspendCount = [t \in Threads |-> 0]
    /\ barriers = [t \in Threads |-> {}]
    /\ claimed = [t \in Threads |-> {}]
    /\ pending = [t \in Threads |-> 0]
    /\ suspendAllCount = 0
    /\ list = Attached
    /\ nativePeer = Threads
    /\ unregistering = 0
    /\ listLock = None /\ countLock = None /\ mutatorLock = None
    /\ pc = [t \in Threads |-> IF t \in Attached THEN "native" ELSE "unborn"]
    /\ ret = [t \in Threads |-> "native"]
    /\ todo = {}
    /\ target = [t \in Threads |-> None]
    /\ requested = {}

-----------------------------------------------------------------------------
(* The parts of a Thread that other threads touch.                         *)

(* Mutant: any requested thread counts as suspended.                       *)
IsSuspendedByFlag(t) == "SuspendRequest" \in flags[t]

IsSuspended(t) == state[t] # "Runnable" /\ "SuspendRequest" \in flags[t]

Goto(t, label) == pc' = [pc EXCEPT ![t] = label]
GotoThen(t, label, next) == Goto(t, label) /\ ret' = [ret EXCEPT ![t] = next]

(* ModifySuspendCount(+1, nullptr) on u.                                   *)
IncrementCount(u) ==
    /\ suspendCount' = [suspendCount EXCEPT ![u] = @ + 1]
    /\ flags' = [flags EXCEPT ![u] = @ \cup {"SuspendRequest"}]

(* ModifySuspendCount(-1, nullptr) on u: the request flag goes with the    *)
(* last count.                                                             *)
DecrementCount(u) ==
    /\ suspendCount' = [suspendCount EXCEPT ![u] = @ - 1]
    /\ flags' = [flags EXCEPT ![u] =
          IF suspendCount[u] = 1 THEN @ \ {"SuspendRequest"}
                                 ELSE @ \cup {"SuspendRequest"}]

(* ModifySuspendCount(+1, &pending_threads of r) on u, given a free slot.  *)
InstallBarrier(r, u) ==
    /\ barriers' = [barriers EXCEPT ![u] = @ \cup {r}]
    /\ suspendCount' = [suspendCount EXCEPT ![u] = @ + 1]
    /\ flags' = [flags EXCEPT ![u] = @ \cup Flags]

(* r clears its own barrier on u; the flag goes with the last barrier.     *)
ClearSuspendBarrier(r, u) ==
    /\ barriers' = [barriers EXCEPT ![u] = @ \ {r}]
    /\ flags' = [flags EXCEPT ![u] =
          IF barriers[u] \subseteq {r} THEN @ \ {"ActiveSuspendBarrier"} ELSE @]

(* resume_cond_->Broadcast(), with the broadcaster going on to label.      *)
BroadcastThen(t, label) ==
    pc' = [u \in Threads |->
              IF u = t THEN label
              ELSE IF pc[u] = "resumeWait" THEN "resumeWoken" ELSE pc[u]]

-----------------------------------------------------------------------------
(* State transitions of the thread itself.                                 *)

(* The CAS of TransitionToSuspendedAndRunCheckpoints.                      *)
LeaveRunnable(t, next) ==
    /\ state' = [state EXCEPT ![t] = "Suspended"]
    /\ GotoThen(t, "pass", next)
    /\ UNCHANGED <<flags, countVars, barrierVars, listVars, lockVars, callVars>>

(* A JNI call or any other ScopedThreadSuspension that stays out.          *)
EnterNative(t) ==
    /\ pc[t] = "runnable"
    /\ LeaveRunnable(t, "native")

(* CheckSuspend at a suspend point: FullSuspendCheck leaves and returns.   *)
CheckSuspend(t) ==
    /\ pc[t] \in {"runnable", "destroy", "byUse"}
    /\ "SuspendRequest" \in flags[t]
    /\ LeaveRunnable(t, pc[t])

(* End of a ScopedObjectAccess opened by SuspendThreadBy... or Destroy.    *)
CloseObjectAccess(t) ==
    /\ pc[t] = "leave"
    /\ LeaveRunnable(t, ret[t])

(* PassActiveSuspendBarriers(self) in the loop that follows: under         *)
(* thread_suspend_count_lock_ take every installed barrier and clear the   *)
(* flag.                                                                   *)
ClaimBarriers(t) ==
    /\ pc[t] = "pass"
    /\ "ActiveSuspendBarrier" \in flags[t]
    /\ countLock = None
    /\ claimed' = [claimed EXCEPT ![t] = barriers[t]]
    /\ barriers' = [barriers EXCEPT ![t] = {}]
    /\ flags' = [flags EXCEPT ![t] = @ \ {"ActiveSuspendBarrier"}]
    /\ Goto(t, "passDrain")
    /\ UNCHANGED <<state, countVars, pending, listVars, lockVars, ret, callVars>>

(* Outside the lock, decrement one claimed pending_threads.  The futex     *)
(* wake that follows a decrement to zero is left out: it passes on the     *)
(* address only, maybe of a frame that its owner has left by then, and     *)
(* whoever sleeps there reads the count again (SuspendAllWait).            *)
DrainBarrier(t) ==
    /\ pc[t] = "passDrain"
    /\ \E r \in claimed[t] :
        /\ pending' = [pending EXCEPT ![r] = @ - 1]
        /\ claimed' = [claimed EXCEPT ![t] = @ \ {r}]
        /\ Goto(t, IF claimed[t] = {r} THEN "pass" ELSE "passDrain")
    /\ UNCHANGED <<wordVars, countVars, barriers, listVars, lockVars, ret, callVars>>

(* The loop ends; a scope that left kRunnable only for a moment turns back.*)
PassedBarriers(t) ==
    /\ pc[t] = "pass"
    /\ "ActiveSuspendBarrier" \notin flags[t]
    /\ Goto(t, IF ret[t] \in SuspendedLabels THEN ret[t] ELSE "toRun")
    /\ UNCHANGED <<wordVars, countVars, barrierVars, listVars, lockVars, ret, callVars>>

ReturnFromNative(t) ==
    /\ pc[t] = "native"
    /\ GotoThen(t, "toRun", "runnable")
    /\ UNCHANGED <<wordVars, countVars, barrierVars, listVars, lockVars, callVars>>

(* The fast path of TransitionFromSuspendedToRunnable: one CAS.            *)
BecomeRunnable(t) ==
    /\ pc[t] = "toRun"
    /\ flags[t] = {}
    /\ state' = [state EXCEPT ![t] = "Runnable"]
    /\ Goto(t, ret[t])
    /\ UNCHANGED <<flags, countVars, barrierVars, listVars, lockVars, ret, callVars>>

(* resume_cond_->Wait under thread_suspend_count_lock_, entered first from *)
(* toRun and again after every wake-up that still finds the flag.  The     *)
(* branch of the code that passes a barrier here finds none to claim: see  *)
(* NoBarrierOnceOut.                                                       *)
WaitForResume(t) ==
    /\ pc[t] \in {"toRun", "resumeWoken"}
    /\ countLock = None
    /\ "SuspendRequest" \in flags[t]
    /\ Goto(t, "resumeWait")
    /\ UNCHANGED <<wordVars, countVars, barrierVars, listVars, lockVars, ret, callVars>>

Resumed(t) ==
    /\ pc[t] = "resumeWoken"
    /\ countLock = None
    /\ "SuspendRequest" \notin flags[t]
    /\ Goto(t, "toRun")
    /\ UNCHANGED <<wordVars, countVars, barrierVars, listVars, lockVars, ret, callVars>>

SpuriousWake(t) ==
    /\ pc[t] = "resumeWait"
    /\ Goto(t, "resumeWoken")
    /\ UNCHANGED <<wordVars, countVars, barrierVars, listVars, lockVars, ret, callVars>>

-----------------------------------------------------------------------------
(* SuspendAll and ResumeAll.  The caller is not runnable.                  *)

SuspendAllLockList(t) ==
    /\ pc[t] = "native" /\ t \in SuspendAllers
    /\ listLock = None
    /\ listLock' = t
    /\ Goto(t, "saLock")
    /\ UNCHANGED <<wordVars, countVars, barrierVars, listVars, countLock, mutatorLock, ret, callVars>>

(* Mutant: the caller is not left out of pending_threads.                  *)
SuspendAllLockCountSelf(t) ==
    /\ pc[t] = "saLock"
    /\ countLock = None
    /\ countLock' = t
    /\ suspendAllCount' = suspendAllCount + 1
    /\ pending' = [pending EXCEPT ![t] = Cardinality(list)]
    /\ todo' = list \ {t}
    /\ Goto(t, "saVisit")
    /\ UNCHANGED <<wordVars, suspendCount, barriers, claimed, listVars,
                   listLock, mutatorLock, ret, target, requested>>

SuspendAllLockCount(t) ==
    /\ pc[t] = "saLock"
    /\ countLock = None
    /\ countLock' = t
    /\ suspendAllCount' = suspendAllCount + 1
    /\ pending' = [pending EXCEPT ![t] = Cardinality(list) - 1]
    /\ todo' = list \ {t}
    /\ Goto(t, "saVisit")
    /\ UNCHANGED <<wordVars, suspendCount, barriers, claimed, listVars,
                   listLock, mutatorLock, ret, target, requested>>

(* One ModifySuspendCount of the loop.  With no free slot it gives up the  *)
(* suspend count lock, but not thread_list_lock_, and sleeps.              *)
InstallOrRetry(t, u) ==
    /\ target' = [target EXCEPT ![t] = u]
    /\ IF Cardinality(barriers[u]) < MaxSuspendBarriers
       THEN /\ InstallBarrier(t, u)
            /\ todo' = todo \ {u}
            /\ countLock' = t
            /\ Goto(t, "saCheck")
       ELSE /\ countLock' = None
            /\ Goto(t, "saRetry")
            /\ UNCHANGED <<barriers, suspendCount, flags, todo>>
    /\ UNCHANGED <<state, suspendAllCount, claimed, pending, listVars,
                   listLock, mutatorLock, ret, requested>>

SuspendAllVisit(t) ==
    /\ pc[t] = "saVisit"
    /\ \E u \in todo : InstallOrRetry(t, u)

(* A retry that again finds no slot changes nothing and is left out.       *)
SuspendAllRetry(t) ==
    /\ pc[t] = "saRetry"
    /\ countLock = None
    /\ Cardinality(barriers[target[t]]) < MaxSuspendBarriers
    /\ InstallOrRetry(t, target[t])

(* Only after the barrier is installed, look whether u is suspended.       *)
SuspendAllCheck(t) ==
    /\ pc[t] = "saCheck"
    /\ IF IsSuspended(target[t])
       THEN /\ ClearSuspendBarrier(t, target[t])
            /\ pending' = [pending EXCEPT ![t] = @ - 1]
       ELSE UNCHANGED <<flags, barriers, pending>>
    /\ Goto(t, "saVisit")
    /\ UNCHANGED <<state, countVars, claimed, listVars, lockVars, ret, callVars>>

SuspendAllUnlock(t) ==
    /\ pc[t] = "saVisit"
    /\ todo = {}
    /\ listLock' = None /\ countLock' = None
    /\ target' = [target EXCEPT ![t] = None]
    /\ Goto(t, "saWait")
    /\ UNCHANGED <<wordVars, countVars, barrierVars, listVars, mutatorLock,
                   ret, todo, requested>>

(* Mutant: the last thread is not waited for.                              *)
SuspendAllWaitOff(t) ==
    /\ pc[t] = "saWait"
    /\ pending[t] <= 1
    /\ Goto(t, "saOwn")
    /\ UNCHANGED <<wordVars, countVars, barrierVars, listVars, lockVars, ret, callVars>>

SuspendAllWait(t) ==
    /\ pc[t] = "saWait"
    /\ pending[t] <= 0
    /\ Goto(t, "saOwn")
    /\ UNCHANGED <<wordVars, countVars, barrierVars, listVars, lockVars, ret, callVars>>

(* mutator_lock_->ExclusiveLock: runnable threads do not show up in it.    *)
SuspendAllOwn(t) ==
    /\ pc[t] = "saOwn"
    /\ mutatorLock = None
    /\ mutatorLock' = t
    /\ Goto(t, "exclusive")
    /\ UNCHANGED <<wordVars, countVars, barrierVars, listVars, listLock, countLock,
                   ret, callVars>>

ResumeAllDisown(t) ==
    /\ pc[t] = "exclusive"
    /\ mutatorLock' = None
    /\ Goto(t, "raLock")
    /\ UNCHANGED <<wordVars, countVars, barrierVars, listVars, listLock, countLock,
                   ret, callVars>>

ResumeAllLock(t) ==
    /\ pc[t] = "raLock"
    /\ listLock = None /\ countLock = None
    /\ listLock' = t /\ countLock' = t
    /\ suspendAllCount' = suspendAllCount - 1
    /\ todo' = list \ {t}
    /\ Goto(t, "raVisit")
    /\ UNCHANGED <<wordVars, suspendCount, barrierVars, listVars, mutatorLock,
                   ret, target, requested>>

ResumeAllVisit(t) ==
    /\ pc[t] = "raVisit"
    /\ \E u \in todo :
        /\ DecrementCount(u)
        /\ todo' = todo \ {u}
    /\ UNCHANGED <<state, suspendAllCount, barrierVars, listVars, lockVars,
                   pc, ret, target, requested>>

ResumeAllUnlock(t) ==
    /\ pc[t] = "raVisit"
    /\ todo = {}
    /\ listLock' = None /\ countLock' = None
    /\ BroadcastThen(t, "native")
    /\ UNCHANGED <<wordVars, countVars, barrierVars, listVars, mutatorLock, ret, callVars>>

-----------------------------------------------------------------------------
(* SuspendThreadByThreadId, as Monitor::InflateThinLocked calls it, and    *)
(* SuspendThreadByPeer, as VMStack and Thread.setNativeName call it.       *)

BySuspend(t, u) ==
    /\ pc[t] = "runnable" /\ t \in ByIdSuspenders \cup ByPeerSuspenders
    /\ u # t
    /\ target' = [target EXCEPT ![t] = u]
    /\ state' = [state EXCEPT ![t] = "Suspended"]
    /\ GotoThen(t, "pass", "byTry")
    /\ UNCHANGED <<flags, countVars, barrierVars, listVars, lockVars, todo, requested>>

(* The locks that every round of the loop takes, with the caller runnable. *)
ByRound(t) ==
    /\ pc[t] = "byTry"
    /\ listLock = None /\ countLock = None

ByKeepOthers == UNCHANGED <<state, suspendAllCount, barrierVars, listVars, lockVars, todo>>

(* The loop ends without a thread.                                         *)
ByGiveUp(t) ==
    /\ target' = [target EXCEPT ![t] = None]
    /\ requested' = requested \ {t}
    /\ GotoThen(t, "leave", "runnable")
    /\ ByKeepOthers

(* No such thread.  By id: it has left list_.  By peer: its nativePeer is  *)
(* zero, and a request already made is taken back, or it is not attached.  *)
ByNotFound(t) ==
    /\ ByRound(t)
    /\ IF t \in ByPeerSuspenders
       THEN target[t] \in nativePeer => target[t] \notin list
       ELSE target[t] \notin list
    /\ IF t \in requested /\ target[t] \notin nativePeer
       THEN DecrementCount(target[t])
       ELSE UNCHANGED <<suspendCount, flags>>
    /\ ByGiveUp(t)

ByFound(t) ==
    /\ ByRound(t)
    /\ target[t] \in list
    /\ t \in ByPeerSuspenders => target[t] \in nativePeer

(* Somebody wants this thread suspended: start the loop again.             *)
ByYield(t) ==
    /\ ByFound(t)
    /\ t \notin requested
    /\ suspendCount[t] > 0
    /\ GotoThen(t, "leave", "byTry")
    /\ UNCHANGED <<flags, suspendCount, target, requested>>
    /\ ByKeepOthers

(* Mutant: asks although somebody asks for this thread.                    *)
ByRequestAnyway(t) ==
    /\ ByFound(t)
    /\ IF t \in requested
       THEN UNCHANGED <<suspendCount, flags>>
       ELSE IncrementCount(target[t])
    /\ requested' = requested \cup {t}
    /\ GotoThen(t, "leave",
           IF state[target[t]] = "Runnable" THEN "byTry"
           ELSE IF t \in ByPeerSuspenders THEN "byUse" ELSE "byResume")
    /\ UNCHANGED target
    /\ ByKeepOthers

(* Raise the count once, then look whether the thread is suspended.        *)
ByRequest(t) ==
    /\ ByFound(t)
    /\ IF t \in requested
       THEN UNCHANGED <<suspendCount, flags>>
       ELSE suspendCount[t] = 0 /\ IncrementCount(target[t])
    /\ requested' = requested \cup {t}
    /\ GotoThen(t, "leave",
           IF state[target[t]] = "Runnable" THEN "byTry"
           ELSE IF t \in ByPeerSuspenders THEN "byUse" ELSE "byResume")
    /\ UNCHANGED target
    /\ ByKeepOthers

(* thread_suspend_timeout_ns_ has passed and the thread still runs: take   *)
(* the request back (by peer this aborts).                                 *)
ByTimeout(t) ==
    /\ ByFound(t)
    /\ t \notin ByPeerSuspenders
    /\ state[target[t]] = "Runnable"
    /\ IF t \in requested
       THEN DecrementCount(target[t])
       ELSE suspendCount[t] = 0 /\ UNCHANGED <<suspendCount, flags>>
    /\ ByGiveUp(t)

(* The stack is walked, or the name set, with the caller runnable.         *)
ByUse(t) ==
    /\ pc[t] = "byUse"
    /\ LeaveRunnable(t, "byRelease")

(* Resume: two critical sections, the count first, the broadcast after.    *)
Resume(t) ==
    /\ pc[t] \in {"byResume", "byRelease"}
    /\ listLock = None /\ countLock = None
    /\ IF IsSuspended(target[t]) /\ target[t] \in list
       THEN DecrementCount(target[t]) /\ Goto(t, "byBroadcast")
       ELSE /\ Goto(t, IF pc[t] = "byResume" THEN "runnable" ELSE "native")
            /\ UNCHANGED <<suspendCount, flags>>
    /\ target' = [target EXCEPT ![t] = None]
    /\ requested' = requested \ {t}
    /\ UNCHANGED <<ret>>
    /\ ByKeepOthers

(* Mutant: the second critical section of Resume is missing.               *)
ResumeBroadcastMissing(t) ==
    /\ pc[t] = "byBroadcast"
    /\ countLock = None
    /\ Goto(t, IF state[t] = "Runnable" THEN "runnable" ELSE "native")
    /\ UNCHANGED <<wordVars, countVars, barrierVars, listVars, lockVars, ret, callVars>>

ResumeBroadcast(t) ==
    /\ pc[t] = "byBroadcast"
    /\ countLock = None
    /\ BroadcastThen(t, IF state[t] = "Runnable" THEN "runnable" ELSE "native")
    /\ UNCHANGED <<wordVars, countVars, barrierVars, listVars, lockVars, ret, callVars>>

-----------------------------------------------------------------------------
(* Attaching and detaching.                                                *)

(* Mutant: a new thread does not inherit the SuspendAll requests.          *)
RegisterUncounted(t) ==
    /\ pc[t] = "unborn"
    /\ listLock = None /\ countLock = None
    /\ list' = list \cup {t}
    /\ Goto(t, "native")
    /\ UNCHANGED <<wordVars, countVars, barrierVars, nativePeer, unregistering,
                   lockVars, ret, callVars>>

(* A new thread starts in kNative with the requests of every SuspendAll    *)
(* that is under way.                                                      *)
Register(t) ==
    /\ pc[t] = "unborn"
    /\ listLock = None /\ countLock = None
    /\ suspendCount' = [suspendCount EXCEPT ![t] = suspendAllCount]
    /\ flags' = [flags EXCEPT ![t] = IF suspendAllCount > 0 THEN {"SuspendRequest"} ELSE {}]
    /\ list' = list \cup {t}
    /\ Goto(t, "native")
    /\ UNCHANGED <<state, suspendAllCount, barrierVars, nativePeer, unregistering,
                   lockVars, ret, callVars>>

(* Unregister counts itself, then Destroy runs managed code.               *)
Unregister(t) ==
    /\ pc[t] = "native" /\ t \in Detachers
    /\ listLock = None
    /\ unregistering' = unregistering + 1
    /\ GotoThen(t, "toRun", "destroy")
    /\ UNCHANGED <<wordVars, countVars, barrierVars, list, nativePeer, lockVars, callVars>>

DestroyClearPeer(t) ==
    /\ pc[t] = "destroy"
    /\ t \in nativePeer
    /\ nativePeer' = nativePeer \ {t}
    /\ UNCHANGED <<wordVars, countVars, barrierVars, list, unregistering, lockVars,
                   pc, ret, callVars>>

DestroyReturn(t) ==
    /\ pc[t] = "destroy"
    /\ t \notin nativePeer
    /\ LeaveRunnable(t, "unregister")

(* Mutant: leaves the list whoever wants it suspended.                     *)
UnregisterRemoveAnyway(t) ==
    /\ pc[t] = "unregister"
    /\ listLock = None /\ countLock = None
    /\ list' = list \ {t}
    /\ Goto(t, "unregistered")
    /\ UNCHANGED <<wordVars, countVars, barrierVars, nativePeer, unregistering, lockVars,
                   ret, callVars>>

(* Off the list, unless somebody holds a suspend request: then try again.  *)
UnregisterRemove(t) ==
    /\ pc[t] = "unregister"
    /\ listLock = None /\ countLock = None
    /\ ~IsSuspended(t)
    /\ list' = list \ {t}
    /\ Goto(t, "unregistered")
    /\ UNCHANGED <<wordVars, countVars, barrierVars, nativePeer, unregistering, lockVars,
                   ret, callVars>>

UnregisterSignal(t) ==
    /\ pc[t] = "unregistered"
    /\ listLock = None
    /\ unregistering' = unregistering - 1
    /\ Goto(t, "deleted")
    /\ UNCHANGED <<wordVars, countVars, barrierVars, list, nativePeer, lockVars, ret, callVars>>

-----------------------------------------------------------------------------
Transition(t) ==
    \/ CloseObjectAccess(t)
    \/ ClaimBarriers(t) \/ DrainBarrier(t) \/ PassedBarriers(t)
    \/ BecomeRunnable(t) \/ WaitForResume(t) \/ Resumed(t)

SuspendAllStep(t) ==
    \/ SuspendAllLockCount(t) \/ SuspendAllVisit(t) \/ SuspendAllRetry(t)
    \/ SuspendAllCheck(t) \/ SuspendAllUnlock(t) \/ SuspendAllWait(t) \/ SuspendAllOwn(t)

ResumeAllStep(t) ==
    \/ ResumeAllDisown(t) \/ ResumeAllLock(t) \/ ResumeAllVisit(t) \/ ResumeAllUnlock(t)

SuspendBy(t) ==
    \/ ByNotFound(t) \/ ByYield(t) \/ ByRequest(t) \/ ByUse(t)
    \/ Resume(t) \/ ResumeBroadcast(t)

Detach(t) ==
    \/ DestroyClearPeer(t) \/ DestroyReturn(t)
    \/ UnregisterRemove(t) \/ UnregisterSignal(t)

(* What a thread does once it has begun: the code goes on by itself.       *)
Continue(t) ==
    \/ Transition(t) \/ CheckSuspend(t) \/ SuspendAllStep(t) \/ ResumeAllStep(t)
    \/ SuspendBy(t) \/ Detach(t)

(* What it may or may not begin, and what may happen to it.                *)
Call(t) ==
    \/ EnterNative(t) \/ ReturnFromNative(t)
    \/ SuspendAllLockList(t) \/ (\E u \in Threads : BySuspend(t, u))

Begin(t) ==
    Call(t) \/ Register(t) \/ Unregister(t) \/ SpuriousWake(t) \/ ByTimeout(t)

Next == \E t \in Threads : Continue(t) \/ Begin(t)

Spec == Init /\ [][Next]_vars

(* Every thread keeps running, and one that waits for a mutex which is     *)
(* released again and again gets it in the end.                            *)
Fairness == \A t \in Threads : SF_vars(Continue(t))

FairSpec == Spec /\ Fairness

-----------------------------------------------------------------------------
(* Properties.                                                             *)

(* Every variable stays in its type: the state and the flags are those of  *)
(* the word, locks are held by threads, barriers name SuspendAll callers.  *)
TypeOK ==
    /\ state \in [Threads -> {"Runnable", "Suspended"}]
    /\ flags \in [Threads -> SUBSET Flags]
    /\ suspendCount \in [Threads -> Nat]
    /\ barriers \in [Threads -> SUBSET Threads]
    /\ claimed \in [Threads -> SUBSET Threads]
    /\ pending \in [Threads -> Nat]
    /\ suspendAllCount \in Nat
    /\ list \subseteq Threads /\ nativePeer \subseteq Threads
    /\ unregistering \in Int
    /\ {listLock, countLock, mutatorLock} \subseteq Threads \cup {None}
    /\ pc \in [Threads -> Labels]
    /\ ret \in [Threads -> RunnableLabels \cup SuspendedLabels]
    /\ todo \subseteq Threads
    /\ target \in [Threads -> Threads \cup {None}]
    /\ requested \subseteq Threads

Visiting == {"saVisit", "saRetry", "saCheck"}
SuspendedAll == {"saWait", "saOwn", "exclusive", "raLock"}

(* r has raised u's suspend count and not lowered it yet.                  *)
Holds(r, u) ==
    \/ r \in requested /\ target[r] = u
    \/ /\ r # u /\ u \in list
       /\ \/ pc[r] \in Visiting /\ u \notin todo
          \/ pc[r] \in SuspendedAll
          \/ pc[r] = "raVisit" /\ u \in todo

(* Mutator exclusion: while a SuspendAll caller is between SuspendAll and  *)
(* ResumeAll, no other thread is runnable, those that attached meanwhile   *)
(* and those on their way out included.                                    *)
MutatorExclusion ==
    \A r \in Threads : pc[r] = "exclusive" =>
        \A u \in Threads \ {r} : state[u] # "Runnable"

Holders(u) == {r \in Threads : Holds(r, u)}

(* The suspend count of a thread is the number of requests in force on it: *)
(* no operation loses a count, returns it twice or leaves it behind, and a *)
(* thread that attaches during a SuspendAll is counted like the others.    *)
SuspendCountExact ==
    \A u \in Threads : suspendCount[u] = Cardinality(Holders(u))

(* kSuspendRequest is set exactly while the count is positive, although    *)
(* state transitions read the flag without the lock of the count.          *)
RequestFlagExact ==
    \A u \in Threads : "SuspendRequest" \in flags[u] <=> suspendCount[u] > 0

(* The threads r still waits for, or will wait for.                        *)
Awaited(r) ==
    {u \in Threads :
        \/ pc[r] \in Visiting /\ u \in todo
        \/ r \in barriers[u] \cup claimed[u]}

(* pending_threads counts the threads that have not yet passed: those the  *)
(* loop has not reached and those that have the barrier, installed or      *)
(* claimed.  It never goes negative (the CHECKs of SuspendAllInternal and  *)
(* PassActiveSuspendBarriers).                                             *)
PendingExact ==
    \A r \in Threads : pc[r] \in Visiting \cup {"saWait"} =>
        pending[r] = Cardinality(Awaited(r))

(* pending_threads lives in the frame of SuspendAllInternal: once its      *)
(* owner has gone on nobody decrements it, for nobody has it installed, or *)
(* taken in PassActiveSuspendBarriers with the decrement still to come.    *)
NoLateDecrement ==
    \A r, u \in Threads :
        r \in barriers[u] \cup claimed[u] => pc[r] \in Visiting \cup {"saWait"}

(* A thread that is out of kRunnable and has passed its barriers has none  *)
(* left whenever thread_suspend_count_lock_ is free, so waiting for        *)
(* resume_cond_ keeps no SuspendAll waiting.                               *)
NoBarrierOnceOut ==
    countLock = None =>
        \A t \in Threads :
            barriers[t] # {} => state[t] = "Runnable" \/ pc[t] = "pass"

(* The caller to whom SuspendThreadBy... returned t's address: from the    *)
(* return on until Resume.                                                 *)
HasSuspended(r) ==
    /\ r \in requested
    /\ \/ pc[r] \in {"byUse", "byResume", "byRelease"}
       \/ pc[r] \notin RunnableLabels /\ ret[r] \in {"byUse", "byResume", "byRelease"}

(* What SuspendThreadBy... promises: from its return until Resume the      *)
(* thread is suspended, on the list and with its Thread object alive, so   *)
(* Resume never reports failure.                                           *)
SuspendedUntilResume ==
    \A r \in Threads : HasSuspended(r) =>
        IsSuspended(target[r]) /\ target[r] \in list

(* A thread with a request in force stays on the list: nobody is left with *)
(* a pointer to a deleted Thread.                                          *)
RequestedStaysOnList ==
    \A u \in Threads : suspendCount[u] > 0 \/ barriers[u] # {} => u \in list

(* No cycle of threads that asked for each other's suspension.             *)
NoRequestCycle ==
    \A S \in SUBSET requested : S # {} => \E r \in S : target[r] \notin S

(* A thread only ever becomes runnable with no request in force on it.     *)
RunsOnlyWithoutRequest ==
    [][\A t \in Threads :
          state[t] # "Runnable" /\ state'[t] = "Runnable" => suspendCount[t] = 0]_vars

(* A SuspendAll that found every barrier slot taken gets one in the end.   *)
RetryEnds ==
    \A r \in Threads : pc[r] = "saRetry" ~> pc[r] # "saRetry"

(* A thread that has begun to detach is gone in the end.                   *)
UnregisterCompletes ==
    \A t \in Threads : pc[t] = "destroy" ~> pc[t] = "deleted"

-----------------------------------------------------------------------------
(* The promise to the callers, SuspendRequests.                            *)
Running == {t \in Threads : state[t] = "Runnable"}
InForce == {p \in Threads \X Threads : Holds(p[1], p[2])}

(* r has been told that u is suspended.                                    *)
Told(r, u) ==
    \/ pc[r] = "exclusive" /\ u \in list \ {r}
    \/ HasSuspended(r) /\ target[r] = u

Stopped == {p \in Threads \X Threads : Told(p[1], p[2])}

Contract == INSTANCE SuspendRequests WITH
    running <- Running, inForce <- InForce, stopped <- Stopped

(* Suspension by flags, counts and barriers implements the promise.        *)
ImplementsSuspendRequests == Contract!Spec

=============================================================================
