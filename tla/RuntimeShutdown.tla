-------------------------- MODULE RuntimeShutdown ---------------------------
(* The end of the runtime: DestroyJavaVM (runtime/jni/java_vm_ext.cc),     *)
(* ~Runtime (runtime/runtime.cc) and ThreadList::ShutDown                  *)
(* (runtime/thread_list.cc), against threads that are created, attach,     *)
(* run, exit and refuse to stop (runtime/thread.cc).  Main is the thread   *)
(* that destroys the runtime.  runtime_shutdown_lock_ and                  *)
(* thread_list_lock_ are held within a step.                               *)
EXTENDS Naturals, FiniteSets

CONSTANTS Main, Daemons, NonDaemons

VARIABLES
    main,           \* where Main is
    asleep,         \* Main is in a Wait on shutdown_cond_ or thread_exit_cond_
    started, down,  \* shutting_down_started_, shutting_down_
    born,           \* threads_being_born_
    list,           \* list_
    unregistering,  \* unregistering_count_
    life,           \* [thread -> where it is in its life]
    runnable,       \* the threads in state kRunnable
    requested,      \* the threads with a suspend count above zero
    allSuspended    \* of SuspendAllDaemonThreadsForShutdown

runtimeVars == <<started, down, born>>
listVars == <<list, unregistering>>
threadVars == <<life, runnable, requested>>
vars == <<main, asleep, runtimeVars, listVars, threadVars, allSuspended>>

OtherThreads == Daemons \cup NonDaemons

TypeOK ==
    /\ main \in {"run", "destroy", "births", "detach", "wait", "suspend", "poll",
                 "quiesce", "deleted"}
    /\ {asleep, started, down, allSuspended} \subseteq BOOLEAN
    /\ born \in 0..Cardinality(OtherThreads) /\ unregistering \in 0..Cardinality(OtherThreads)
    /\ list \subseteq OtherThreads \cup {Main}
    /\ life \in [OtherThreads -> {"none", "starting", "in", "destroy", "unlist", "leave", "gone"}]
    /\ runnable \subseteq OtherThreads /\ requested \subseteq OtherThreads

Init ==
    /\ main = "run" /\ asleep = FALSE /\ started = FALSE /\ down = FALSE /\ born = 0
    /\ list = {Main} /\ unregistering = 0
    /\ life = [t \in OtherThreads |-> "none"] /\ runnable = {} /\ requested = {}
    /\ allSuspended = FALSE

-----------------------------------------------------------------------------
Becomes(t, where) == life' = [life EXCEPT ![t] = where]

(* Mutant: the last birth does not wake the shutdown.                      *)
EndThreadBirthQuietly == born' = born - 1 /\ UNCHANGED asleep

(* EndThreadBirth, whose broadcast wakes the shutdown                      *)
EndThreadBirth ==
    /\ born' = born - 1
    /\ asleep' = (asleep /\ ~(main = "births" /\ started /\ born = 1))

(* CreateNativeThread, by Main or a thread that runs code: refused when    *)
(* the runtime is shutting down.                                           *)
MayCreate(parent) == parent \in runnable \/ (parent = Main /\ main = "run")

CreateNativeThread(t) ==
    /\ life[t] = "none" /\ \E parent \in OtherThreads \cup {Main} : MayCreate(parent)
    /\ \/ ~down /\ born' = born + 1 /\ Becomes(t, "starting")
       \/ down /\ Becomes(t, "gone") /\ UNCHANGED born
    /\ UNCHANGED <<main, asleep, started, down, listVars, runnable, requested, allSuspended>>

(* pthread_create or the allocation of the JNIEnv failed.                  *)
CreationFails(t) ==
    /\ life[t] = "starting" /\ EndThreadBirth /\ Becomes(t, "gone")
    /\ UNCHANGED <<main, started, down, listVars, runnable, requested, allSuspended>>

(* CreateCallback, up to EndThreadBirth                                    *)
CreateCallback(t) ==
    /\ life[t] = "starting" /\ EndThreadBirth /\ Becomes(t, "in")
    /\ list' = list \cup {t}
    /\ UNCHANGED <<main, started, down, unregistering, runnable, requested, allSuspended>>

(* Attach: the birth starts and ends under the lock; Init may fail.        *)
Attach(t) ==
    /\ life[t] = "none"
    /\ \/ ~down /\ list' = list \cup {t} /\ Becomes(t, "in")
       \/ Becomes(t, "gone") /\ UNCHANGED list
    /\ UNCHANGED <<main, asleep, runtimeVars, unregistering, runnable, requested, allSuspended>>

(* A thread that is asked to suspend does not become runnable; one that is *)
(* runnable may take its time.                                             *)
BecomeRunnable(t) ==
    /\ life[t] = "in" /\ t \notin runnable \cup requested
    /\ runnable' = runnable \cup {t}
    /\ UNCHANGED <<main, asleep, runtimeVars, listVars, life, requested, allSuspended>>

LeaveRunnable(t) ==
    /\ t \in runnable /\ runnable' = runnable \ {t}
    /\ UNCHANGED <<main, asleep, runtimeVars, listVars, life, requested, allSuspended>>

(* Unregister: Destroy runs managed code, and so waits while the thread is *)
(* to be suspended; a suspended thread is not taken off the list.          *)
Unregister(t) ==
    /\ life[t] = "in" /\ t \notin runnable /\ Becomes(t, "destroy")
    /\ unregistering' = unregistering + 1
    /\ UNCHANGED <<main, asleep, runtimeVars, list, runnable, requested, allSuspended>>

Destroy(t) ==
    /\ life[t] = "destroy" /\ t \notin requested /\ Becomes(t, "unlist")
    /\ UNCHANGED <<main, asleep, runtimeVars, listVars, runnable, requested, allSuspended>>

Unlist(t) ==
    /\ life[t] = "unlist" /\ t \notin requested /\ Becomes(t, "leave")
    /\ list' = list \ {t}
    /\ UNCHANGED <<main, asleep, runtimeVars, unregistering, runnable, requested, allSuspended>>

Leave(t) ==
    /\ life[t] = "leave" /\ Becomes(t, "gone")
    /\ unregistering' = unregistering - 1
    /\ asleep' = (asleep /\ main \notin {"destroy", "wait"})
    /\ UNCHANGED <<main, runtimeVars, list, runnable, requested, allSuspended>>

-----------------------------------------------------------------------------
(* WaitForOtherNonDaemonThreadsToExit, from DestroyJavaVM and again from   *)
(* ShutDown: the first call sleeps and looks again while threads are born. *)
Awake(where) == main = where /\ ~asleep
NonDaemonsGone == unregistering = 0 /\ list \cap NonDaemons = {}

DestroyJavaVM ==
    /\ main = "run" /\ main' = "destroy"
    /\ UNCHANGED <<asleep, runtimeVars, listVars, threadVars, allSuspended>>

WaitForOtherNonDaemonThreadsToExit(next) ==
    /\ main' = IF NonDaemonsGone THEN next ELSE main
    /\ asleep' = ~NonDaemonsGone
    /\ UNCHANGED <<runtimeVars, listVars, threadVars, allSuspended>>

WaitBeforeDestruction ==
    Awake("destroy") /\ born = 0 /\ WaitForOtherNonDaemonThreadsToExit("births")

(* Mutant: the shutdown does not wait for births.                          *)
SetShuttingDownAtOnce ==
    /\ Awake("births") /\ started' = TRUE /\ down' = TRUE /\ main' = "detach"
    /\ UNCHANGED <<asleep, born, listVars, threadVars, allSuspended>>

(* ~Runtime: no thread may be half born when shutting_down_ is set.        *)
WaitForBirths ==
    /\ Awake("births") /\ started' = TRUE
    /\ asleep' = (born > 0)
    /\ down' = (born = 0)
    /\ main' = IF born > 0 THEN "births" ELSE "detach"
    /\ UNCHANGED <<born, listVars, threadVars, allSuspended>>

(* ShutDown: Main detaches itself.                                         *)
DetachCurrentThread ==
    /\ main = "detach" /\ main' = "wait" /\ list' = list \ {Main}
    /\ UNCHANGED <<asleep, runtimeVars, unregistering, threadVars, allSuspended>>

WaitInShutDown == Awake("wait") /\ WaitForOtherNonDaemonThreadsToExit("suspend")

(* SuspendAllDaemonThreadsForShutdown: the requests, the polling, which    *)
(* may time out, and the last look at the list.                            *)
RequestSuspension ==
    /\ main = "suspend" /\ requested' = list
    /\ main' = IF list = {} THEN "deleted" ELSE "poll"
    /\ UNCHANGED <<asleep, runtimeVars, listVars, life, runnable, allSuspended>>

Poll ==
    /\ main = "poll"
    /\ \/ list \cap runnable = {} /\ allSuspended' = TRUE
       \/ list \cap runnable # {} /\ UNCHANGED allSuspended  \* timed out
    /\ main' = "quiesce"
    /\ UNCHANGED <<asleep, runtimeVars, listVars, threadVars>>

SetRuntimeDeleted ==
    /\ main = "quiesce" /\ main' = "deleted"
    /\ UNCHANGED <<asleep, runtimeVars, listVars, threadVars, allSuspended>>

MainStep ==
    \/ WaitBeforeDestruction \/ WaitForBirths \/ DetachCurrentThread \/ WaitInShutDown
    \/ RequestSuspension \/ Poll \/ SetRuntimeDeleted

ThreadStep(t) ==
    \/ CreationFails(t) \/ CreateCallback(t) \/ Destroy(t) \/ Unlist(t) \/ Leave(t)

Next ==
    \/ DestroyJavaVM \/ MainStep
    \/ \E t \in OtherThreads :
        \/ CreateNativeThread(t) \/ Attach(t) \/ BecomeRunnable(t) \/ LeaveRunnable(t)
        \/ Unregister(t) \/ ThreadStep(t)

(* Main goes on; a thread that is born is born or fails; one that exits    *)
(* exits; and those that are no daemons exit some day.                     *)
Fairness ==
    /\ WF_vars(MainStep)
    /\ \A t \in OtherThreads : WF_vars(ThreadStep(t))
    /\ \A t \in NonDaemons : WF_vars(LeaveRunnable(t)) /\ SF_vars(Unregister(t))

Spec == Init /\ [][Next]_vars /\ Fairness

-----------------------------------------------------------------------------
(* The CHECKs of the shutdown hold: shutting_down_ is set while no thread  *)
(* is being born (CreateCallback) and none is born after it; the threads   *)
(* left to be suspended are daemons; and when all were seen suspended none *)
(* is runnable later.                                                      *)
ShutdownClean ==
    /\ down => born = 0 /\ \A t \in OtherThreads : life[t] # "starting"
    /\ main \in {"suspend", "poll", "quiesce"} => list \subseteq Daemons
    /\ main = "quiesce" /\ allSuspended => list \cap runnable = {}

(* The runtime goes down when all threads that are no daemons exit.        *)
ShutdownCompletes == []<>(main \in {"run", "deleted"})
=============================================================================
