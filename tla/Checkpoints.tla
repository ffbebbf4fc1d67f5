---------------------------- MODULE Checkpoints ----------------------------
(***************************************************************************)
(* Checkpoints: RunCheckpoint has a closure run once for every thread, by  *)
(* the thread itself while it is runnable and on its behalf while it is    *)
(* kept suspended; RequestSynchronousCheckpoint does so for one thread and *)
(* waits (runtime/thread_list.cc, runtime/thread.cc, runtime/thread-inl.h, *)
(* runtime/barrier.cc).                                                    *)
(*                                                                         *)
(* A closure is known by the thread that requests it; the closures of the  *)
(* callers of RunCheckpoint pass a Barrier the caller then waits for, as   *)
(* in Heap::TrimIndirectReferenceTables.  No thread flip is under way, so  *)
(* EnsureFlipFunctionStarted has nothing to do.                            *)
(*                                                                         *)
(* thread_list_lock_ and thread_suspend_count_lock_ are taken together     *)
(* where the code takes one right after the other: nobody waits for        *)
(* anything while holding the second.                                      *)
(***************************************************************************)
EXTENDS Integers, Sequences, FiniteSets

CONSTANTS
    Threads,
    AllRequesters,   \* threads that call RunCheckpoint
    SyncRequesters,  \* threads that call RequestSynchronousCheckpoint
    MaxCalls,        \* bound on the calls of either
    None

VARIABLES
    state,         \* state_and_flags: the state, Runnable or not
    flags,         \* state_and_flags: the flags
    suspendCount,  \* tls32_.suspend_count
    pending,       \* checkpoint_function, then checkpoint_overflow_
    list,          \* ThreadList::list_
    listLock,      \* owner of thread_list_lock_
    countLock,     \* owner of thread_suspend_count_lock_
    pc,
    ret,           \* the label to become runnable at, or native
    back,          \* where the thread that runs a closure goes on
    closure,       \* the requester whose closure the thread runs
    target,        \* the thread a requester deals with
    todo,          \* threads RunCheckpoint has yet to visit
    kept,          \* suspended_count_modified_threads
    asked,         \* the list when RunCheckpoint counted it
    barrier,       \* count_ of the requester's Barrier
    ran,           \* how often the requester's closure has run for whom
    calls

wordVars == <<state, flags, suspendCount, pending>>
lockVars == <<listLock, countLock>>
callVars == <<target, todo, kept, asked>>
runVars == <<back, closure, barrier, ran>>
vars == <<wordVars, list, lockVars, pc, ret, callVars, runVars, calls>>

Flags == {"SuspendRequest", "CheckpointRequest"}

(* Labels of a thread on its way out of Runnable, and where it arrives.    *)
Leaving == {"leave", "leaveNative", "cpLeave", "syLeave", "sySpinLeave"}
Arrival == [l \in Leaving |->
    CASE l = "leave" -> "toRun" [] l = "leaveNative" -> "native"
      [] l = "cpLeave" -> "cpBarrier" [] l = "syLeave" -> "syBarrier"
      [] l = "sySpinLeave" -> "sySpin"]

Labels == Leaving \cup
    {"runnable", "native", "toRun", "resumeWait", "closure", "exit", "gone",
     "cpLock", "cpVisit", "cpRaise", "cpCheck", "cpAgain", "cpSelf", "cpRun", "cpRunning",
     "cpLower", "cpBroadcast", "cpBarrier", "cpWait",
     "syTry", "syRaise", "sySpin", "syRun", "syRunning", "syLower", "syBarrier", "syWait"}

Nobody == [u \in Threads |-> 0]

Init ==
    /\ state = [t \in Threads |-> "Suspended"]
    /\ flags = [t \in Threads |-> {}]
    /\ suspendCount = [t \in Threads |-> 0]
    /\ pending = [t \in Threads |-> <<>>]
    /\ list = Threads
    /\ listLock = None /\ countLock = None
    /\ pc = [t \in Threads |-> "native"]
    /\ ret = [t \in Threads |-> "native"]
    /\ back = [t \in Threads |-> None]
    /\ closure = [t \in Threads |-> None]
    /\ target = [t \in Threads |-> None]
    /\ todo = {}
    /\ kept = [t \in Threads |-> {}]
    /\ asked = [t \in Threads |-> {}]
    /\ barrier = [t \in Threads |-> 0]
    /\ ran = [t \in Threads |-> Nobody]
    /\ calls = 0

Goto(t, label) == pc' = [pc EXCEPT ![t] = label]

IsSuspended(u) == state[u] # "Runnable" /\ "SuspendRequest" \in flags[u]

(* ModifySuspendCount by +1 and -1, without a barrier.                     *)
Raise(u) ==
    /\ suspendCount' = [suspendCount EXCEPT ![u] = @ + 1]
    /\ flags' = [flags EXCEPT ![u] = @ \cup {"SuspendRequest"}]
Lower(u) ==
    /\ suspendCount' = [suspendCount EXCEPT ![u] = @ - 1]
    /\ flags' = [flags EXCEPT ![u] =
          IF suspendCount[u] = 1 THEN @ \ {"SuspendRequest"} ELSE @]

(* RequestCheckpoint on a runnable thread; on another one it fails.        *)
Install(r, u) ==
    /\ state[u] = "Runnable"
    /\ pending' = [pending EXCEPT ![u] = Append(@, r)]

(* resume_cond_->Broadcast, with the broadcaster going on to label.        *)
BroadcastThen(t, label) ==
    pc' = [u \in Threads |-> IF u = t THEN label
                             ELSE IF pc[u] = "resumeWait" THEN "toRun" ELSE pc[u]]

-----------------------------------------------------------------------------
(* The targets.                                                            *)

EnterNative(t) ==
    /\ pc[t] = "runnable"
    /\ Goto(t, "leaveNative")
    /\ UNCHANGED <<wordVars, list, lockVars, ret, callVars, runVars, calls>>

ReturnFromNative(t) ==
    /\ pc[t] = "native"
    /\ Goto(t, "toRun")
    /\ ret' = [ret EXCEPT ![t] = "runnable"]
    /\ UNCHANGED <<wordVars, list, lockVars, callVars, runVars, calls>>

(* CheckSuspend: checkpoints first, then a suspension.                     *)
CheckSuspend(t) ==
    /\ pc[t] = "runnable"
    /\ "SuspendRequest" \in flags[t] /\ "CheckpointRequest" \notin flags[t]
    /\ Goto(t, "leave")
    /\ ret' = [ret EXCEPT ![t] = "runnable"]
    /\ UNCHANGED <<wordVars, list, lockVars, callVars, runVars, calls>>

(* RunCheckpointFunction up to the call of the closure, from CheckSuspend  *)
(* or on the way out of Runnable: the flag goes with the last closure.     *)
RunCheckpointFunction(t) ==
    /\ pc[t] \in {"runnable"} \cup Leaving
    /\ "CheckpointRequest" \in flags[t]
    /\ countLock = None
    /\ closure' = [closure EXCEPT ![t] = Head(pending[t])]
    /\ pending' = [pending EXCEPT ![t] = Tail(@)]
    /\ flags' = [flags EXCEPT ![t] =
          IF Len(pending[t]) = 1 THEN @ \ {"CheckpointRequest"} ELSE @]
    /\ back' = [back EXCEPT ![t] = pc[t]]
    /\ Goto(t, "closure")
    /\ UNCHANGED <<state, suspendCount, list, lockVars, ret, callVars, barrier, ran, calls>>

(* The closure of r has run for u, and passes the barrier.                 *)
Pass(r, u) ==
    /\ ran' = [ran EXCEPT ![r][u] = @ + 1]
    /\ barrier' = [barrier EXCEPT ![r] = @ - 1]

ClosureReturns(t) ==
    /\ pc[t] = "closure"
    /\ Pass(closure[t], t)
    /\ closure' = [closure EXCEPT ![t] = None]
    /\ back' = [back EXCEPT ![t] = None]
    /\ Goto(t, back[t])
    /\ UNCHANGED <<wordVars, list, lockVars, ret, callVars, calls>>

(* The swap of TransitionToSuspendedAndRunCheckpoints: none pending.       *)
LeaveRunnable(t) ==
    /\ pc[t] \in Leaving
    /\ "CheckpointRequest" \notin flags[t]
    /\ state' = [state EXCEPT ![t] = "Suspended"]
    /\ Goto(t, Arrival[pc[t]])
    /\ UNCHANGED <<flags, suspendCount, pending, list, lockVars, ret, callVars, runVars, calls>>

BecomeRunnable(t) ==
    /\ pc[t] = "toRun"
    /\ "SuspendRequest" \notin flags[t]
    /\ state' = [state EXCEPT ![t] = "Runnable"]
    /\ Goto(t, ret[t])
    /\ UNCHANGED <<flags, suspendCount, pending, list, lockVars, ret, callVars, runVars, calls>>

WaitForResume(t) ==
    /\ pc[t] = "toRun"
    /\ countLock = None
    /\ "SuspendRequest" \in flags[t]
    /\ Goto(t, "resumeWait")
    /\ UNCHANGED <<wordVars, list, lockVars, ret, callVars, runVars, calls>>

Exit(t) ==
    /\ pc[t] = "native"
    /\ Goto(t, "exit")
    /\ UNCHANGED <<wordVars, list, lockVars, ret, callVars, runVars, calls>>

(* Unregister takes a thread off the list unless it is kept suspended.     *)
Unregister(t) ==
    /\ pc[t] = "exit"
    /\ listLock = None /\ countLock = None
    /\ ~IsSuspended(t)
    /\ list' = list \ {t}
    /\ Goto(t, "gone")
    /\ UNCHANGED <<wordVars, lockVars, ret, callVars, runVars, calls>>

-----------------------------------------------------------------------------
(* RunCheckpoint.                                                          *)

(* The caller is runnable, or a collector that is not.                     *)
RunCheckpoint(r) ==
    /\ r \in AllRequesters /\ pc[r] \in {"runnable", "native"}
    /\ calls < MaxCalls
    /\ calls' = calls + 1
    /\ ret' = [ret EXCEPT ![r] = pc[r]]
    /\ ran' = [ran EXCEPT ![r] = Nobody]
    /\ Goto(r, "cpLock")
    /\ UNCHANGED <<wordVars, list, lockVars, callVars, back, closure, barrier>>

LockAndCount(r) ==
    /\ pc[r] = "cpLock"
    /\ listLock = None /\ countLock = None
    /\ listLock' = r /\ countLock' = r
    /\ asked' = [asked EXCEPT ![r] = list]
    /\ todo' = list \ {r}
    /\ Goto(r, "cpVisit")
    /\ UNCHANGED <<wordVars, list, ret, target, kept, runVars, calls>>

(* The next thread runs the closure itself if it is runnable.              *)
VisitRunnable(r) ==
    /\ pc[r] = "cpVisit"
    /\ \E u \in todo :
        /\ Install(r, u)
        /\ flags' = [flags EXCEPT ![u] = @ \cup {"CheckpointRequest"}]
        /\ todo' = todo \ {u}
    /\ UNCHANGED <<state, suspendCount, list, lockVars, pc, ret, target, kept, asked, runVars,
                   calls>>

VisitSuspended(r) ==
    /\ pc[r] = "cpVisit"
    /\ \E u \in todo :
        /\ state[u] # "Runnable"
        /\ target' = [target EXCEPT ![r] = u]
        /\ todo' = todo \ {u}
    /\ Goto(r, "cpRaise")
    /\ UNCHANGED <<wordVars, list, lockVars, ret, kept, asked, runVars, calls>>

RaiseCount(r) ==
    /\ pc[r] = "cpRaise"
    /\ Raise(target[r])
    /\ Goto(r, "cpCheck")
    /\ UNCHANGED <<state, pending, list, lockVars, ret, callVars, runVars, calls>>

Keep(r) ==
    /\ kept' = [kept EXCEPT ![r] = @ \cup {target[r]}]
    /\ target' = [target EXCEPT ![r] = None]
    /\ Goto(r, "cpVisit")
    /\ UNCHANGED <<wordVars, list, lockVars, ret, todo, asked, runVars, calls>>

(* Mutant: does not look whether the thread became runnable meanwhile.     *)
CheckSuspendedAnyway(r) ==
    /\ pc[r] = "cpCheck"
    /\ Keep(r)

(* Still suspended after the request, so it stays so; or it raced us.      *)
CheckSuspended(r) ==
    /\ pc[r] = "cpCheck"
    /\ \/ IsSuspended(target[r]) /\ Keep(r)
       \/ /\ ~IsSuspended(target[r])
          /\ Goto(r, "cpAgain")
          /\ UNCHANGED <<wordVars, list, lockVars, ret, callVars, runVars, calls>>

(* Runnable: it runs the closure, and the suspend request is taken back.   *)
(* Suspended again: it honours the request now.                            *)
TryAgain(r) ==
    /\ pc[r] = "cpAgain"
    /\ \/ /\ Install(r, target[r])
          /\ suspendCount' = [suspendCount EXCEPT ![target[r]] = @ - 1]
          /\ flags' = [flags EXCEPT ![target[r]] =
                (IF suspendCount[target[r]] = 1 THEN @ \ {"SuspendRequest"} ELSE @)
                    \cup {"CheckpointRequest"}]
          /\ target' = [target EXCEPT ![r] = None]
          /\ Goto(r, "cpVisit")
          /\ UNCHANGED <<state, list, lockVars, ret, todo, kept, asked, runVars, calls>>
       \/ state[target[r]] # "Runnable" /\ Keep(r)

UnlockAll(r) ==
    /\ pc[r] = "cpVisit"
    /\ todo = {}
    /\ listLock' = None /\ countLock' = None
    /\ Goto(r, "cpSelf")
    /\ UNCHANGED <<wordVars, list, ret, callVars, runVars, calls>>

RunSelf(r) ==
    /\ pc[r] = "cpSelf"
    /\ Pass(r, r)
    /\ Goto(r, "cpRun")
    /\ UNCHANGED <<wordVars, list, lockVars, ret, callVars, back, closure, calls>>

RunFor(r) ==
    /\ pc[r] = "cpRun"
    /\ \E u \in kept[r] : target' = [target EXCEPT ![r] = u]
    /\ Goto(r, "cpRunning")
    /\ UNCHANGED <<wordVars, list, lockVars, ret, todo, kept, asked, runVars, calls>>

RanFor(r) ==
    /\ pc[r] = "cpRunning"
    /\ Pass(r, target[r])
    /\ Goto(r, "cpLower")
    /\ UNCHANGED <<wordVars, list, lockVars, ret, callVars, back, closure, calls>>

LowerCount(r) ==
    /\ pc[r] = "cpLower"
    /\ countLock = None
    /\ Lower(target[r])
    /\ kept' = [kept EXCEPT ![r] = @ \ {target[r]}]
    /\ target' = [target EXCEPT ![r] = None]
    /\ Goto(r, "cpRun")
    /\ UNCHANGED <<state, pending, list, lockVars, ret, todo, asked, runVars, calls>>

(* Where the caller goes to wait for the threads that run it themselves.   *)
AfterBroadcast(r) == IF state[r] = "Runnable" THEN "cpLeave" ELSE "cpBarrier"

Broadcast(r) ==
    /\ pc[r] = "cpRun" /\ kept[r] = {}
    /\ countLock = None
    /\ BroadcastThen(r, AfterBroadcast(r))
    /\ UNCHANGED <<wordVars, list, lockVars, ret, callVars, runVars, calls>>

(* Barrier::Increment by the count RunCheckpoint returned.                 *)
Increment(r) ==
    /\ pc[r] = "cpBarrier"
    /\ barrier' = [barrier EXCEPT ![r] = @ + Cardinality(asked[r])]
    /\ Goto(r, "cpWait")
    /\ UNCHANGED <<wordVars, list, lockVars, ret, callVars, back, closure, ran, calls>>

(* Mutant: a spurious wake-up ends the wait.                               *)
AllPassedSpurious(r) ==
    /\ pc[r] \in {"cpWait", "syWait"}
    /\ Goto(r, IF ret[r] = "native" THEN "native" ELSE "toRun")
    /\ target' = [target EXCEPT ![r] = None]
    /\ asked' = [asked EXCEPT ![r] = {}]
    /\ ran' = [ran EXCEPT ![r] = Nobody]
    /\ UNCHANGED <<wordVars, list, lockVars, ret, todo, kept, back, closure, barrier, calls>>

AllPassed(r) ==
    /\ pc[r] \in {"cpWait", "syWait"}
    /\ barrier[r] = 0
    /\ Goto(r, IF ret[r] = "native" THEN "native" ELSE "toRun")
    /\ target' = [target EXCEPT ![r] = None]
    /\ asked' = [asked EXCEPT ![r] = {}]
    /\ ran' = [ran EXCEPT ![r] = Nobody]
    /\ UNCHANGED <<wordVars, list, lockVars, ret, todo, kept, back, closure, barrier, calls>>

-----------------------------------------------------------------------------
(* RequestSynchronousCheckpoint.                                           *)

(* Called runnable, with the list locked and u found on it.                *)
RequestSynchronousCheckpoint(r, u) ==
    /\ r \in SyncRequesters /\ pc[r] = "runnable"
    /\ calls < MaxCalls
    /\ listLock = None /\ u \in list \ {r}
    /\ listLock' = r
    /\ calls' = calls + 1
    /\ target' = [target EXCEPT ![r] = u]
    /\ asked' = [asked EXCEPT ![r] = {u}]
    /\ ret' = [ret EXCEPT ![r] = "runnable"]
    /\ Goto(r, "syTry")
    /\ UNCHANGED <<wordVars, list, countLock, todo, kept, runVars>>

SyncInstall(r) ==
    /\ pc[r] = "syTry"
    /\ countLock = None
    /\ Install(r, target[r])
    /\ flags' = [flags EXCEPT ![target[r]] = @ \cup {"CheckpointRequest"}]
    /\ listLock' = None
    /\ Goto(r, "syLeave")
    /\ UNCHANGED <<state, suspendCount, list, countLock, ret, callVars, runVars, calls>>

SyncFails(r) ==
    /\ pc[r] = "syTry"
    /\ state[target[r]] # "Runnable"
    /\ Goto(r, "syRaise")
    /\ UNCHANGED <<wordVars, list, lockVars, ret, callVars, runVars, calls>>

SyncRaise(r) ==
    /\ pc[r] = "syRaise"
    /\ countLock = None
    /\ Raise(target[r])
    /\ listLock' = None
    /\ Goto(r, "sySpinLeave")
    /\ UNCHANGED <<state, pending, list, countLock, ret, callVars, runVars, calls>>

SyncSpin(r) ==
    /\ pc[r] = "sySpin"
    /\ state[target[r]] # "Runnable"
    /\ ret' = [ret EXCEPT ![r] = "syRun"]
    /\ Goto(r, "toRun")
    /\ UNCHANGED <<wordVars, list, lockVars, callVars, runVars, calls>>

SyncRun(r) ==
    /\ pc[r] = "syRun"
    /\ Goto(r, "syRunning")
    /\ UNCHANGED <<wordVars, list, lockVars, ret, callVars, runVars, calls>>

SyncRan(r) ==
    /\ pc[r] = "syRunning"
    /\ ran' = [ran EXCEPT ![r][target[r]] = @ + 1]
    /\ Goto(r, "syLower")
    /\ UNCHANGED <<wordVars, list, lockVars, ret, callVars, back, closure, barrier, calls>>

SyncLower(r) ==
    /\ pc[r] = "syLower"
    /\ listLock = None /\ countLock = None
    /\ Lower(target[r])
    /\ BroadcastThen(r, "runnable")
    /\ target' = [target EXCEPT ![r] = None]
    /\ asked' = [asked EXCEPT ![r] = {}]
    /\ ran' = [ran EXCEPT ![r] = Nobody]
    /\ UNCHANGED <<state, pending, list, lockVars, ret, todo, kept, back, closure, barrier, calls>>

(* Mutant: waits without counting the closure.                             *)
SyncIncrementNothing(r) ==
    /\ pc[r] = "syBarrier"
    /\ Goto(r, "syWait")
    /\ UNCHANGED <<wordVars, list, lockVars, ret, callVars, runVars, calls>>

SyncIncrement(r) ==
    /\ pc[r] = "syBarrier"
    /\ barrier' = [barrier EXCEPT ![r] = @ + 1]
    /\ Goto(r, "syWait")
    /\ UNCHANGED <<wordVars, list, lockVars, ret, callVars, back, closure, ran, calls>>

-----------------------------------------------------------------------------
(* What a thread does by itself: a runnable one comes to suspend checks.   *)
Step(t) ==
    \/ CheckSuspend(t) \/ RunCheckpointFunction(t) \/ ClosureReturns(t) \/ LeaveRunnable(t)
    \/ BecomeRunnable(t) \/ WaitForResume(t) \/ Unregister(t)
    \/ LockAndCount(t) \/ VisitRunnable(t) \/ VisitSuspended(t) \/ RaiseCount(t)
    \/ CheckSuspended(t) \/ TryAgain(t) \/ UnlockAll(t) \/ RunSelf(t) \/ RunFor(t) \/ RanFor(t)
    \/ LowerCount(t) \/ Broadcast(t) \/ Increment(t) \/ AllPassed(t)
    \/ SyncInstall(t) \/ SyncFails(t) \/ SyncRaise(t) \/ SyncSpin(t) \/ SyncRun(t)
    \/ SyncRan(t) \/ SyncLower(t) \/ SyncIncrement(t)

Choose(t) ==
    \/ EnterNative(t) \/ ReturnFromNative(t) \/ Exit(t)
    \/ RunCheckpoint(t)
    \/ \E u \in Threads : RequestSynchronousCheckpoint(t, u)

Next == \E t \in Threads : Step(t) \/ Choose(t)

Spec == Init /\ [][Next]_vars

FairSpec == Spec /\ \A t \in Threads : WF_vars(Step(t))

-----------------------------------------------------------------------------
(* No thread is suspended with a checkpoint pending, the case              *)
(* PassActiveSuspendBarriers calls impossible: else nobody would run it,   *)
(* or the next requester would run its own closure out of turn.            *)
SuspendedHasNone ==
    \A u \in Threads :
        state[u] # "Runnable" => pending[u] = <<>> /\ "CheckpointRequest" \notin flags[u]

(* A closure runs on behalf of a thread only while that thread stays       *)
(* suspended, and never beside another run of a closure by the thread.     *)
StaysSuspended ==
    \A r \in Threads : pc[r] \in {"cpRunning", "syRunning"} =>
        state[target[r]] # "Runnable" /\ target[r] \in list

(* A closure, which lives on its requester's stack, is pending or running  *)
(* only while the requester is still in its call.                          *)
ClosureAlive ==
    \A u, r \in Threads :
        r = closure[u] \/ (\E i \in DOMAIN pending[u] : pending[u][i] = r) =>
            u \in asked[r]

(* The closure has run exactly once for every thread that was on the list, *)
(* and for no other, when the requester's wait is over.                    *)
RanExactlyOnce ==
    \A r \in Threads :
        pc[r] \in {"cpWait", "syWait"} /\ barrier[r] = 0 =>
            ran[r] = [u \in Threads |-> IF u \in asked[r] THEN 1 ELSE 0]

(* suspend_count is the number of requesters that keep the thread          *)
(* suspended or are about to, and the flag says whether it is 0.           *)
Holders(u) ==
    {r \in Threads :
        \/ u \in kept[r]
        \/ target[r] = u /\ pc[r] \in {"cpCheck", "cpAgain", "sySpinLeave", "sySpin", "syRun",
                                        "syRunning", "syLower"}
        \/ target[r] = u /\ ret[r] = "syRun" /\ pc[r] \in {"toRun", "resumeWait"}
        \/ target[r] = u /\ pc[r] = "closure" /\ back[r] = "sySpinLeave"}
SuspendCountExact ==
    \A u \in Threads :
        /\ suspendCount[u] = Cardinality(Holders(u))
        /\ "SuspendRequest" \in flags[u] <=> suspendCount[u] > 0

(* RequestSynchronousCheckpoint waits for the closure to be run, and       *)
(* returns.                                                                *)
SyncCheckpointReturns ==
    \A r \in SyncRequesters : pc[r] = "syTry" ~> pc[r] = "runnable"
=============================================================================
