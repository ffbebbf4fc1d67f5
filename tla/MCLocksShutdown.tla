-------------------------- MODULE MCLocksShutdown ---------------------------
(* Three components for TLC that do not touch each other: a Mutex with its *)
(* condition, a ReaderWriterMutex, and the shutdown of the runtime with    *)
(* two daemons and one other thread.  The first state chooses the one that *)
(* runs; the others stay as they are.                                      *)
EXTENDS FutexMutex

CONSTANTS
    t1, t2, t3, t4,
    MaxRWCalls   \* bound on the calls to lock the ReaderWriterMutex

ASSUME RWAssumption == MaxRWCalls \in Nat
ASSUME ShutdownAssumption == t3 \notin {t1, t2} /\ t4 \notin {t1, t2, t3}

VARIABLES part
\* of the ReaderWriterMutex
VARIABLES rwState, rwContenders, rwOwner, rwQueue, rwPc, rwMode, rwCur, rwCalls
\* of the shutdown
VARIABLES main, asleep, started, down, born, list, unregistering, life, runnable,
          requested, allSuspended

rwVars == <<rwState, rwContenders, rwOwner, rwQueue, rwPc, rwMode, rwCur, rwCalls>>
downVars == <<main, asleep, started, down, born, list, unregistering, life, runnable,
              requested, allSuspended>>
all == <<part, vars, rwVars, downVars>>

RW == INSTANCE ReaderWriterMutex WITH
    MaxCalls <- MaxRWCalls,
    state <- rwState, contenders <- rwContenders, owner <- rwOwner, queue <- rwQueue,
    pc <- rwPc, mode <- rwMode, cur <- rwCur, calls <- rwCalls

Down == INSTANCE RuntimeShutdown WITH Main <- t4, Daemons <- {t1, t2}, NonDaemons <- {t3}

-----------------------------------------------------------------------------
MCInit ==
    /\ part \in {"Mutex", "ReaderWriterMutex", "shutdown"}
    /\ Init /\ RW!Init /\ Down!Init

MCNext ==
    \/ part = "Mutex" /\ Next /\ UNCHANGED <<part, rwVars, downVars>>
    \/ part = "ReaderWriterMutex" /\ RW!Next /\ UNCHANGED <<part, vars, downVars>>
    \/ part = "shutdown" /\ Down!Next /\ UNCHANGED <<part, vars, rwVars>>

(* The fairness of the parts, by thread                                    *)
DownGo(t) ==
    \/ t # t4 /\ Down!ThreadStep(t)
    \/ t = t3 /\ Down!LeaveRunnable(t)
    \/ t = t4 /\ Down!MainStep

Go(t) ==
    \/ part = "Mutex" /\ t # t4 /\ Step(t) /\ UNCHANGED <<part, rwVars, downVars>>
    \/ part = "ReaderWriterMutex" /\ t # t4 /\ RW!Step(t) /\ UNCHANGED <<part, vars, downVars>>
    \/ part = "shutdown" /\ DownGo(t) /\ UNCHANGED <<part, vars, rwVars>>

MCSpec ==
    /\ MCInit /\ [][MCNext]_all
    /\ \A t \in {t1, t2, t3, t4} : WF_all(Go(t))
    /\ SF_all(part = "shutdown" /\ Down!Unregister(t3) /\ UNCHANGED <<part, vars, rwVars>>)

-----------------------------------------------------------------------------
(* Of the ReaderWriterMutex: state_ is the number of readers, or -1 for    *)
(* one writer and nobody else, and num_contenders_ the number of threads   *)
(* that sleep or may go to sleep, those that give up included.             *)
ReadersOrWriter == RW!StateExact /\ RW!ContendersExact

(* The CHECKs of ~Runtime and ThreadList::ShutDown hold: no thread is born *)
(* once the runtime shuts down, only daemons are left to be suspended, and *)
(* those seen suspended stay so.                                           *)
ShutdownClean == part = "shutdown" => Down!ShutdownClean

(* No thread sleeps on: one that went to sleep on the word of the Mutex, a *)
(* waiter requeued to it included, is woken; every call to lock the        *)
(* ReaderWriterMutex ends, inside or with a time-out; and DestroyJavaVM    *)
(* ends when the threads that are no daemons exit.                         *)
NobodySleepsOn ==
    /\ \A t \in Threads : []<>(t \notin lockQueue /\ rwPc[t] \in {"in", "out"})
    /\ Down!ShutdownCompletes
=============================================================================
