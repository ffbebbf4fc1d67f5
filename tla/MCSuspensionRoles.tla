------------------------- MODULE MCSuspensionRoles -------------------------
(* Suspension and checkpoints for TLC.  The first state chooses one of     *)
(* three ways to cast three threads in ThreadSuspension, or Checkpoints;   *)
(* what is not chosen stays as it is.  The constants are those of the      *)
(* first cast: one SuspendAll caller and two threads that inflate each     *)
(* other's locks, one of which detaches.                                   *)
EXTENDS ThreadSuspensionInv

CONSTANTS gc, m1, m2

VARIABLES
    roles,
    cpState, cpFlags, cpSuspendCount, cpPending, cpList, cpListLock, cpCountLock,
    cpPc, cpRet, cpBack, cpClosure, cpTarget, cpTodo, cpKept, cpAsked, cpBarrier,
    cpRan, cpCalls

cpVars ==
    <<cpState, cpFlags, cpSuspendCount, cpPending, cpList, cpListLock, cpCountLock,
      cpPc, cpRet, cpBack, cpClosure, cpTarget, cpTodo, cpKept, cpAsked, cpBarrier,
      cpRan, cpCalls>>

(* m2 attaches and detaches while two others call SuspendAll and one of    *)
(* them takes stack traces.                                                *)
Attach == INSTANCE ThreadSuspension WITH
    Attached <- {gc, m1}, SuspendAllers <- {gc, m1},
    ByIdSuspenders <- {}, ByPeerSuspenders <- {m1}, Detachers <- {m2}

(* Two SuspendAll callers that compete for one barrier slot per thread,    *)
(* and a mutator that detaches.                                            *)
Barriers == INSTANCE ThreadSuspension WITH
    Attached <- Threads, SuspendAllers <- {gc, m1},
    ByIdSuspenders <- {}, ByPeerSuspenders <- {}, Detachers <- {m2},
    MaxSuspendBarriers <- 1

(* Two callers of RunCheckpoint, one of which may call                     *)
(* RequestSynchronousCheckpoint instead.                                   *)
Cp == INSTANCE Checkpoints WITH
    AllRequesters <- {gc, m1}, SyncRequesters <- {m1}, MaxCalls <- 2,
    state <- cpState, flags <- cpFlags, suspendCount <- cpSuspendCount,
    pending <- cpPending, list <- cpList, listLock <- cpListLock,
    countLock <- cpCountLock, pc <- cpPc, ret <- cpRet, back <- cpBack,
    closure <- cpClosure, target <- cpTarget, todo <- cpTodo, kept <- cpKept,
    asked <- cpAsked, barrier <- cpBarrier, ran <- cpRan, calls <- cpCalls

MCInit ==
    /\ Cp!Init
    /\ \/ roles \in {"requests", "checkpoints"} /\ Init
       \/ roles = "attach" /\ Attach!Init
       \/ roles = "barriers" /\ Barriers!Init

(* The only way for Checkpoints to stop: every thread has exited.          *)
AllGone == \A t \in Threads : cpPc[t] = "gone"

MCNext ==
    \/ roles = "requests" /\ Next /\ UNCHANGED <<roles, cpVars>>
    \/ roles = "attach" /\ Attach!Next /\ UNCHANGED <<roles, cpVars>>
    \/ roles = "barriers" /\ Barriers!Next /\ UNCHANGED <<roles, cpVars>>
    \/ roles = "checkpoints" /\ Cp!Next /\ UNCHANGED <<roles, vars>>
    \/ AllGone /\ UNCHANGED <<roles, vars, cpVars>>

MCContinue(t) ==
    \/ roles = "requests" /\ Continue(t) /\ UNCHANGED <<roles, cpVars>>
    \/ roles = "attach" /\ Attach!Continue(t) /\ UNCHANGED <<roles, cpVars>>
    \/ roles = "barriers" /\ Barriers!Continue(t) /\ UNCHANGED <<roles, cpVars>>

(* The lock that a suspended thread takes is fair to it (see               *)
(* ThreadSuspension!FairSpec); a checkpoint needs no more than that every  *)
(* thread goes on.                                                         *)
MCSpec ==
    /\ MCInit /\ [][MCNext]_<<roles, vars, cpVars>>
    /\ \A t \in Threads : SF_<<roles, vars, cpVars>>(MCContinue(t))
    /\ \A t \in Threads :
          WF_<<roles, vars, cpVars>>
              (roles = "checkpoints" /\ Cp!Step(t) /\ UNCHANGED <<roles, vars>>)

-----------------------------------------------------------------------------
(* A checkpoint's closure runs on behalf of a thread only while the thread *)
(* stays suspended, which nobody is with a closure of its own to run, and  *)
(* the suspend counts are those of the requesters (see Checkpoints).       *)
StaysSuspended == Cp!StaysSuspended /\ Cp!SuspendedHasNone /\ Cp!SuspendCountExact

(* The closure is pending or running only while its requester's frame is   *)
(* there.                                                                  *)
ClosureAlive == Cp!ClosureAlive

(* It has run exactly once for every thread that was on the list, and for  *)
(* no other, when the requester's wait is over.                            *)
RanExactlyOnce == Cp!RanExactlyOnce

(* Nobody waits for ever.  Every SuspendAll ends, and no thread sleeps on  *)
(* resume_cond_ for ever (SuspendAllInternal, ResumeAll, Resume), except   *)
(* that a thread that exits while its stack trace is taken may, which is a *)
(* run of its own.  Every RunCheckpoint, the wait after it included, every *)
(* RequestSynchronousCheckpoint and every closure ends.                    *)
Waits(t) ==
    \/ roles # "attach" /\ pc[t] \in Visiting \cup {"saLock", "saWait", "resumeWait"}
    \/ roles = "checkpoints" /\ cpPc[t] \notin {"runnable", "native", "gone"}
CallsReturn == \A t \in Threads : []<>~Waits(t)
=============================================================================
