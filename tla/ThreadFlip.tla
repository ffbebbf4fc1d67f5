----------------------------- MODULE ThreadFlip -----------------------------
(***************************************************************************)
(* The thread flip of the concurrent collectors: with all mutators stopped *)
(* the collector gives every thread a flip function, which must run once   *)
(* before the thread touches the heap again.  The thread itself, the       *)
(* collector or a third thread runs it, whoever comes first                *)
(* (ThreadList::FlipThreadRoots in runtime/thread_list.cc,                 *)
(* Thread::EnsureFlipFunctionStarted and its callers in runtime/thread.cc  *)
(* and thread-inl.h).  Threads in JNI critical sections hold the flip off  *)
(* (Heap::IncrementDisableThreadFlip and others in runtime/gc/heap.cc).    *)
(*                                                                         *)
(* SuspendAll is taken from ThreadSuspension: here it raises the suspend   *)
(* counts and waits until no mutator is runnable.  What happens under      *)
(* thread_suspend_count_lock_ is one step.  Threads do not attach or       *)
(* detach.                                                                 *)
(***************************************************************************)
EXTENDS Integers, FiniteSets

CONSTANTS
    Mutators,
    Collector,
    Helpers,       \* mutators that call GetPeerFromOtherThread
    MaxCalls       \* bound on flips, critical sections and suspend requests

ASSUME FlipAssumption ==
    /\ IsFiniteSet(Mutators) /\ Collector \notin Mutators /\ Helpers \subseteq Mutators
    /\ MaxCalls \in Nat

VARIABLES
    state,          \* state_and_flags: the state
    flags,          \* state_and_flags: the flags
    suspendCount,   \* tls32_.suspend_count
    flipFunction,   \* threads whose tlsPtr_.flip_function is set
    pc,
    subject,        \* whose flip function the thread deals with
    after,          \* where the thread that runs a flip function goes on
    todo,           \* threads the collector's loop has yet to visit
    others,         \* other_threads of FlipThreadRoots
    runs,           \* how often a thread's flip function ran in this flip
    flipRunning,    \* thread_flip_running_
    disableCount,   \* disable_thread_flip_count_
    critical,       \* tls32_.disable_thread_flip_count
    requested,      \* threads somebody else holds a suspend request on
    resumed,        \* threads for which somebody else has yet to broadcast
    calls

wordVars == <<state, flags, suspendCount, flipFunction>>
callVars == <<todo, others, runs>>
critVars == <<flipRunning, disableCount, critical>>
otherVars == <<requested, resumed>>
vars == <<wordVars, pc, subject, after, callVars, critVars, otherVars, calls>>

Threads == Mutators \cup {Collector}
Flags == {"SuspendRequest", "Pending", "Running", "Waiting"}
FlipFunctionFlags == {"Pending", "Running", "Waiting"}
States == {"Runnable", "Native", "WaitingForGcThreadFlip"}
Labels ==
    {"runnable", "native", "toRun", "resumeWait", "resumeWoken", "flipCheck", "flipWait",
     "take", "flip", "clear", "notify", "helpWait", "critWait",
     "idle", "begin", "suspendWait", "callback", "end", "others",
     "lower", "barrier"}
(* A mutator at these labels may touch the heap.                           *)
Managed == {"runnable", "helpWait"}

Init ==
    /\ state = [t \in Threads |-> "Native"]
    /\ flags = [t \in Threads |-> {}]
    /\ suspendCount = [t \in Threads |-> 0]
    /\ flipFunction = {}
    /\ pc = [t \in Threads |-> IF t = Collector THEN "idle" ELSE "native"]
    /\ subject = [t \in Threads |-> t]
    /\ after = [t \in Threads |-> "native"]
    /\ todo = {} /\ others = {}
    /\ runs = [t \in Threads |-> 0]
    /\ flipRunning = FALSE /\ disableCount = 0
    /\ critical = [t \in Threads |-> 0]
    /\ requested = {} /\ resumed = {}
    /\ calls = 0

Goto(t, label) == pc' = [pc EXCEPT ![t] = label]

Call == calls < MaxCalls /\ calls' = calls + 1

(* ModifySuspendCountInternal by +1 fails while a flip function is set.    *)
Raise(u) ==
    /\ u \notin flipFunction
    /\ suspendCount' = [suspendCount EXCEPT ![u] = @ + 1]
    /\ flags' = [flags EXCEPT ![u] = @ \cup {"SuspendRequest"}]

LoweredFlags(u) ==
    IF suspendCount[u] = 1 THEN flags[u] \ {"SuspendRequest"} ELSE flags[u]

(* Where resume_cond_->Broadcast sends a thread.                           *)
Woken(u) ==
    CASE pc[u] = "resumeWait" -> "resumeWoken"
      [] pc[u] = "flipWait" -> "flipCheck"
      [] OTHER -> pc[u]

BroadcastThen(t, label) == pc' = [u \in Threads |-> IF u = t THEN label ELSE Woken(u)]

-----------------------------------------------------------------------------
(* Running a flip function.                                                *)

(* Mutant: the flip stays pending while it runs.                           *)
StartFlipPending(r, u, next) ==
    /\ "Pending" \in flags[u]
    /\ flags' = [flags EXCEPT ![u] = @ \cup {"Running"}]
    /\ subject' = [subject EXCEPT ![r] = u]
    /\ after' = [after EXCEPT ![r] = next]
    /\ Goto(r, "take")

(* The swap of EnsureFlipFunctionStarted makes r the one that runs u's;    *)
(* a thread that does so for itself becomes runnable with it.              *)
StartFlip(r, u, next) ==
    /\ "Pending" \in flags[u]
    /\ flags' = [flags EXCEPT ![u] = (@ \ {"Pending"}) \cup {"Running"}]
    /\ subject' = [subject EXCEPT ![r] = u]
    /\ after' = [after EXCEPT ![r] = next]
    /\ Goto(r, "take")

TakeFunction(r) ==
    /\ pc[r] = "take"
    /\ flipFunction' = flipFunction \ {subject[r]}
    /\ Goto(r, "flip")
    /\ UNCHANGED <<state, flags, suspendCount, subject, after, callVars, critVars, otherVars, calls>>

RunFunction(r) ==
    /\ pc[r] = "flip"
    /\ runs' = [runs EXCEPT ![subject[r]] = @ + 1]
    /\ Goto(r, "clear")
    /\ UNCHANGED <<wordVars, subject, after, todo, others, critVars, otherVars, calls>>

(* Mutant: does not look for threads that wait.                            *)
ClearFlagsQuietly(r) ==
    /\ pc[r] = "clear"
    /\ flags' = [flags EXCEPT ![subject[r]] = @ \ {"Running", "Waiting"}]
    /\ Goto(r, after[r])
    /\ UNCHANGED <<state, suspendCount, flipFunction, subject, after, callVars, critVars,
                   otherVars, calls>>

ClearFlags(r) ==
    /\ pc[r] = "clear"
    /\ flags' = [flags EXCEPT ![subject[r]] = @ \ {"Running", "Waiting"}]
    /\ Goto(r, IF "Waiting" \in flags[subject[r]] THEN "notify" ELSE after[r])
    /\ UNCHANGED <<state, suspendCount, flipFunction, subject, after, callVars, critVars,
                   otherVars, calls>>

Notify(r) ==
    /\ pc[r] = "notify"
    /\ BroadcastThen(r, after[r])
    /\ UNCHANGED <<wordVars, subject, after, callVars, critVars, otherVars, calls>>

-----------------------------------------------------------------------------
(* The mutators.                                                           *)

EnterNative(t) ==
    /\ pc[t] = "runnable"
    /\ state' = [state EXCEPT ![t] = "Native"]
    /\ Goto(t, "native")
    /\ UNCHANGED <<flags, suspendCount, flipFunction, subject, after, callVars, critVars,
                   otherVars, calls>>

ReturnFromNative(t) ==
    /\ pc[t] = "native"
    /\ Goto(t, "toRun")
    /\ UNCHANGED <<wordVars, subject, after, callVars, critVars, otherVars, calls>>

CheckSuspend(t) ==
    /\ pc[t] = "runnable"
    /\ "SuspendRequest" \in flags[t]
    /\ state' = [state EXCEPT ![t] = "Native"]
    /\ Goto(t, "toRun")
    /\ UNCHANGED <<flags, suspendCount, flipFunction, subject, after, callVars, critVars,
                   otherVars, calls>>

(* Mutant: a flip under way does not keep the thread from running.         *)
BecomeRunnableAnyway(t) ==
    /\ pc[t] = "toRun"
    /\ {"SuspendRequest", "Pending"} \cap flags[t] = {}
    /\ state' = [state EXCEPT ![t] = "Runnable"]
    /\ Goto(t, "runnable")
    /\ UNCHANGED <<flags, suspendCount, flipFunction, subject, after, callVars, critVars,
                   otherVars, calls>>

BecomeRunnable(t) ==
    /\ pc[t] = "toRun"
    /\ flags[t] = {}
    /\ state' = [state EXCEPT ![t] = "Runnable"]
    /\ Goto(t, "runnable")
    /\ UNCHANGED <<flags, suspendCount, flipFunction, subject, after, callVars, critVars,
                   otherVars, calls>>

WaitForResume(t) ==
    /\ pc[t] \in {"toRun", "resumeWoken"}
    /\ "SuspendRequest" \in flags[t]
    /\ Goto(t, "resumeWait")
    /\ UNCHANGED <<wordVars, subject, after, callVars, critVars, otherVars, calls>>

Resumed(t) ==
    /\ pc[t] = "resumeWoken"
    /\ "SuspendRequest" \notin flags[t]
    /\ Goto(t, "toRun")
    /\ UNCHANGED <<wordVars, subject, after, callVars, critVars, otherVars, calls>>

StartOwnFlip(t) ==
    /\ pc[t] = "toRun"
    /\ "SuspendRequest" \notin flags[t]
    /\ StartFlip(t, t, "runnable")
    /\ state' = [state EXCEPT ![t] = "Runnable"]
    /\ UNCHANGED <<suspendCount, flipFunction, callVars, critVars, otherVars, calls>>

SeeFlip(t) ==
    /\ pc[t] = "toRun"
    /\ "SuspendRequest" \notin flags[t] /\ "Running" \in flags[t]
    /\ Goto(t, "flipCheck")
    /\ UNCHANGED <<wordVars, subject, after, callVars, critVars, otherVars, calls>>

(* WaitForFlipFunction: check, mark and sleep under the lock.              *)
WaitForFlipFunction(t) ==
    /\ pc[t] = "flipCheck"
    /\ IF "Running" \in flags[t]
       THEN /\ flags' = [flags EXCEPT ![t] = @ \cup {"Waiting"}]
            /\ Goto(t, "flipWait")
       ELSE Goto(t, "toRun") /\ UNCHANGED flags
    /\ UNCHANGED <<state, suspendCount, flipFunction, subject, after, callVars, critVars,
                   otherVars, calls>>

(* GetPeerFromOtherThread: runs u's flip function unless somebody does,    *)
(* and waits until it is done without ever passing a suspend check.        *)
HelpFlip(t, u) ==
    /\ t \in Helpers /\ pc[t] = "runnable"
    /\ \/ /\ StartFlip(t, u, "helpWait")
          /\ UNCHANGED <<state, suspendCount, flipFunction>>
       \/ /\ "Pending" \notin flags[u] /\ flags[u] \cap FlipFunctionFlags # {}
          /\ subject' = [subject EXCEPT ![t] = u]
          /\ Goto(t, "helpWait")
          /\ UNCHANGED <<wordVars, after>>
    /\ UNCHANGED <<callVars, critVars, otherVars, calls>>

HelpDone(t) ==
    /\ pc[t] = "helpWait"
    /\ flags[subject[t]] \cap FlipFunctionFlags = {}
    /\ subject' = [subject EXCEPT ![t] = t]
    /\ Goto(t, "runnable")
    /\ UNCHANGED <<wordVars, after, callVars, critVars, otherVars, calls>>

-----------------------------------------------------------------------------
(* JNI critical sections.                                                  *)

(* Only the outermost entry waits for a flip, in a state of its own.       *)
EnterCritical(t) ==
    /\ pc[t] = "runnable" /\ Call
    /\ critical' = [critical EXCEPT ![t] = @ + 1]
    /\ IF critical[t] = 0
       THEN /\ state' = [state EXCEPT ![t] = "WaitingForGcThreadFlip"]
            /\ Goto(t, "critWait")
       ELSE UNCHANGED <<state, pc>>
    /\ UNCHANGED <<flags, suspendCount, flipFunction, subject, after, callVars, flipRunning,
                   disableCount, otherVars>>

(* Mutant: enters although a flip runs.                                    *)
IncrementDisableAnyway(t) ==
    /\ pc[t] = "critWait"
    /\ disableCount' = disableCount + 1
    /\ Goto(t, "toRun")
    /\ UNCHANGED <<wordVars, subject, after, callVars, flipRunning, critical, otherVars, calls>>

IncrementDisableThreadFlip(t) ==
    /\ pc[t] = "critWait"
    /\ ~flipRunning
    /\ disableCount' = disableCount + 1
    /\ Goto(t, "toRun")
    /\ UNCHANGED <<wordVars, subject, after, callVars, flipRunning, critical, otherVars, calls>>

DecrementDisableThreadFlip(t) ==
    /\ pc[t] = "runnable" /\ critical[t] > 0
    /\ critical' = [critical EXCEPT ![t] = @ - 1]
    /\ disableCount' = IF critical[t] = 1 THEN disableCount - 1 ELSE disableCount
    /\ UNCHANGED <<wordVars, pc, subject, after, callVars, flipRunning, otherVars, calls>>

-----------------------------------------------------------------------------
(* FlipThreadRoots.                                                        *)

ThreadFlipBegin ==
    /\ pc[Collector] = "idle" /\ Call
    /\ flipRunning' = TRUE
    /\ runs' = [t \in Threads |-> 0]
    /\ Goto(Collector, "begin")
    /\ UNCHANGED <<wordVars, subject, after, todo, others, disableCount, critical, otherVars>>

(* No thread is in a critical section: raise every suspend count, under    *)
(* the locks.                                                              *)
SuspendAll ==
    /\ pc[Collector] = "begin"
    /\ disableCount = 0
    /\ Mutators \cap flipFunction = {}
    /\ suspendCount' = [u \in Threads |-> IF u \in Mutators THEN suspendCount[u] + 1
                                          ELSE suspendCount[u]]
    /\ flags' = [u \in Threads |-> IF u \in Mutators THEN flags[u] \cup {"SuspendRequest"}
                                   ELSE flags[u]]
    /\ Goto(Collector, "suspendWait")
    /\ UNCHANGED <<state, flipFunction, subject, after, callVars, critVars, otherVars, calls>>

(* The barrier has been passed and the mutator lock is ours.               *)
AllSuspended ==
    /\ pc[Collector] = "suspendWait"
    /\ \A t \in Mutators : state[t] # "Runnable"
    /\ Goto(Collector, "callback")
    /\ UNCHANGED <<wordVars, subject, after, callVars, critVars, otherVars, calls>>

(* IsTransitioningToRunnable: the thread waits, or has been woken, inside  *)
(* TransitionFromSuspendedToRunnable.                                      *)
ResumesEarly(u) ==
    /\ u # Collector
    /\ state[u] = "WaitingForGcThreadFlip" \/ pc[u] \in {"resumeWait", "resumeWoken"}
    /\ suspendCount[u] = 1

Early == {u \in Threads : ResumesEarly(u)}

(* Mutant: a thread resumed early gets no flip function.                   *)
SetFlipFunctionsLate ==
    /\ pc[Collector] = "callback"
    /\ flipFunction' = Threads \ Early
    /\ flags' = [u \in Threads |-> IF u \in Early THEN LoweredFlags(u)
                                   ELSE flags[u] \cup {"Pending"}]
    /\ suspendCount' = [u \in Threads |-> IF u \in Early THEN suspendCount[u] - 1
                                          ELSE suspendCount[u]]
    /\ others' = Mutators \ Early
    /\ BroadcastThen(Collector, "end")
    /\ UNCHANGED <<state, subject, after, todo, runs, critVars, otherVars, calls>>

(* After flip_callback, with both locks: a flip function for every thread, *)
(* an early resume for those that only wait for this flip, and the         *)
(* broadcast.  None of these can move before the locks are released: they  *)
(* wait on resume_cond_, or for thread_flip_running_.                      *)
SetFlipFunctions ==
    /\ pc[Collector] = "callback"
    /\ flipFunction' = Threads
    /\ flags' = [u \in Threads |->
          (IF u \in Early THEN LoweredFlags(u) ELSE flags[u]) \cup {"Pending"}]
    /\ suspendCount' = [u \in Threads |-> IF u \in Early THEN suspendCount[u] - 1
                                          ELSE suspendCount[u]]
    /\ others' = Mutators \ Early
    /\ BroadcastThen(Collector, "end")
    /\ UNCHANGED <<state, subject, after, todo, runs, critVars, otherVars, calls>>

ThreadFlipEnd ==
    /\ pc[Collector] = "end"
    /\ flipRunning' = FALSE
    /\ todo' = others \cup {Collector}
    /\ Goto(Collector, "others")
    /\ UNCHANGED <<wordVars, subject, after, others, runs, disableCount, critical, otherVars, calls>>

(* EnsureFlipFunctionStarted for other_threads, then for the collector.    *)
FlipOther ==
    /\ pc[Collector] = "others"
    /\ \E u \in todo :
        /\ u = Collector => todo = {Collector}
        /\ todo' = todo \ {u}
        /\ \/ StartFlip(Collector, u, "others")
           \/ "Pending" \notin flags[u] /\ UNCHANGED <<flags, subject, after, pc>>
    /\ UNCHANGED <<state, suspendCount, flipFunction, others, runs, critVars, otherVars, calls>>

(* The mutator lock is free again.                                         *)
AllStarted ==
    /\ pc[Collector] = "others" /\ todo = {}
    /\ Goto(Collector, "lower")
    /\ UNCHANGED <<wordVars, subject, after, callVars, critVars, otherVars, calls>>

ResumeOthers ==
    /\ pc[Collector] = "lower"
    /\ suspendCount' = [u \in Threads |-> IF u \in others THEN suspendCount[u] - 1
                                          ELSE suspendCount[u]]
    /\ flags' = [u \in Threads |-> IF u \in others THEN LoweredFlags(u) ELSE flags[u]]
    /\ others' = {}
    /\ BroadcastThen(Collector, "barrier")
    /\ UNCHANGED <<state, flipFunction, subject, after, todo, runs, critVars, otherVars, calls>>

(* The collector waits on gc_barrier_ for as many flip functions as        *)
(* FlipThreadRoots returned.                                               *)
AllFlipped ==
    /\ pc[Collector] = "barrier"
    /\ \A t \in Threads : runs[t] > 0
    /\ Goto(Collector, "idle")
    /\ UNCHANGED <<wordVars, subject, after, callVars, critVars, otherVars, calls>>

-----------------------------------------------------------------------------
(* Somebody else suspends a mutator for a while; not while the collector   *)
(* holds thread_list_lock_.                                                *)
OtherRequest(u) ==
    /\ u \notin requested /\ Call
   
    /\ Raise(u)
    /\ requested' = requested \cup {u}
    /\ UNCHANGED <<resumed, state, flipFunction, pc, subject, after, callVars, critVars>>

(* The two critical sections of Resume.                                    *)
OtherResume(u) ==
    /\ u \in requested /\ state[u] # "Runnable"
   
    /\ suspendCount' = [suspendCount EXCEPT ![u] = @ - 1]
    /\ flags' = [flags EXCEPT ![u] = LoweredFlags(u)]
    /\ requested' = requested \ {u}
    /\ resumed' = resumed \cup {u}
    /\ UNCHANGED <<state, flipFunction, pc, subject, after, callVars, critVars, calls>>

OtherBroadcast(u) ==
    /\ u \in resumed
    /\ resumed' = resumed \ {u}
    /\ pc' = [t \in Threads |-> Woken(t)]
    /\ UNCHANGED <<wordVars, subject, after, callVars, critVars, requested, calls>>

-----------------------------------------------------------------------------
Flipping(t) == TakeFunction(t) \/ RunFunction(t) \/ ClearFlags(t) \/ Notify(t)

MutatorStep(t) ==
    \/ Flipping(t)
    \/ CheckSuspend(t) \/ BecomeRunnable(t) \/ WaitForResume(t) \/ Resumed(t)
    \/ StartOwnFlip(t) \/ SeeFlip(t) \/ WaitForFlipFunction(t) \/ HelpDone(t)
    \/ IncrementDisableThreadFlip(t) \/ DecrementDisableThreadFlip(t)
    \/ critical[t] > 0 /\ ReturnFromNative(t)

CollectorStep ==
    \/ Flipping(Collector)
    \/ SuspendAll \/ AllSuspended \/ SetFlipFunctions
    \/ ThreadFlipEnd \/ FlipOther \/ AllStarted
    \/ ResumeOthers \/ AllFlipped

Next ==
    \/ \E t \in Mutators :
        \/ MutatorStep(t)
        \/ EnterNative(t) \/ ReturnFromNative(t) \/ EnterCritical(t)
        \/ \E u \in Threads \ {t} : HelpFlip(t, u)
        \/ OtherRequest(t) \/ OtherResume(t) \/ OtherBroadcast(t)
    \/ CollectorStep \/ ThreadFlipBegin

Spec == Init /\ [][Next]_vars

(* Threads go on running, leave their critical sections, and requests of   *)
(* others are given back.                                                  *)
Fairness ==
    /\ \A t \in Mutators : WF_vars(MutatorStep(t)) /\ WF_vars(OtherResume(t) \/ OtherBroadcast(t))
    /\ \A t \in Mutators : SF_vars(DecrementDisableThreadFlip(t))
    /\ WF_vars(CollectorStep)

FairSpec == Spec /\ Fairness

-----------------------------------------------------------------------------
(* The to-space invariant of the thread's roots: a thread that may touch   *)
(* the heap has no flip function left to run and none under way, and one   *)
(* run by somebody else finds its thread stopped (the check in             *)
(* ThreadFlipVisitor::Run).                                                *)
FlippedBeforeUse ==
    /\ \A t \in Mutators :
        pc[t] \in Managed => t \notin flipFunction /\ {"Pending", "Running"} \cap flags[t] = {}
    /\ \A r \in Threads : pc[r] \in {"take", "flip"} /\ subject[r] # r =>
        state[subject[r]] # "Runnable"

(* The world is stopped for flip_callback: no mutator is runnable, and     *)
(* none is inside a JNI critical section, whatever its state.              *)
StoppedForFlip ==
    pc[Collector] = "callback" =>
        \A t \in Mutators : state[t] # "Runnable" /\ (critical[t] > 0 => pc[t] = "critWait")

(* A flip function is run by one thread at a time and once in a flip, and  *)
(* the next flip finds no trace of it: the assertions of SetFlipFunction.  *)
FlippedOnce ==
    /\ \A t \in Threads : runs[t] <= 1
    /\ \A r, s \in Threads :
        pc[r] \in {"take", "flip", "clear"} /\ pc[s] \in {"take", "flip", "clear"}
            /\ subject[r] = subject[s] => r = s
    /\ pc[Collector] = "callback" =>
        \A t \in Threads : t \notin flipFunction /\ flags[t] \cap FlipFunctionFlags = {}

(* Every flip the collector begins is completed, and every thread on its   *)
(* way to runnable gets there: nobody waits for a flip nobody runs.        *)
FlipCompletes ==
    /\ []<>(pc[Collector] = "idle")
    /\ \A t \in Mutators : []<>(pc[t] \in {"runnable", "native"})
=============================================================================
