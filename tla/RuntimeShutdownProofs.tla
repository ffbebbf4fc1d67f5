----------------------- MODULE RuntimeShutdownProofs ------------------------
(***************************************************************************)
(* The CHECKs of the shutdown hold for any number of threads.              *)
(***************************************************************************)
EXTENDS RuntimeShutdown, FiniteSetTheorems, TLAPS

USE DEF runtimeVars, listVars, threadVars, Becomes, OtherThreads

(* What the proofs ask of the constants.                                   *)
DistinctThreads ==
    IsFiniteSet(OtherThreads) /\ Main \notin OtherThreads /\ Daemons \cap NonDaemons = {}

-----------------------------------------------------------------------------
(* The inductive invariant: threads_being_born_ is the number of threads   *)
(* between StartThreadBirth and EndThreadBirth, so that none is there when *)
(* shutting_down_ is set; from then on list_ only shrinks; and every       *)
(* thread on it has its suspend request once the polling begins.           *)
Starting == {t \in OtherThreads : life[t] = "starting"}
BirthsExact == born = Cardinality(Starting)

Detached == {"wait", "suspend", "poll", "quiesce", "deleted"}

Typed ==
    /\ list \subseteq OtherThreads \cup {Main}
    /\ life \in [OtherThreads -> {"none", "starting", "in", "destroy", "unlist", "leave", "gone"}]

Stages ==
    /\ main \in {"detach"} \cup Detached => down
    /\ main \in Detached => Main \notin list
    /\ main \in {"poll", "quiesce"} => list \subseteq requested
    /\ allSuspended => main \in {"quiesce", "deleted"}

IInv == Typed /\ BirthsExact /\ Stages /\ ShutdownClean

-----------------------------------------------------------------------------
(* The births are counted right.                                           *)
LEMMA BirthsCount ==
    ASSUME DistinctThreads, NEW S \in SUBSET OtherThreads, NEW t
    PROVE  /\ Cardinality(S) \in Nat
           /\ Cardinality(S) = 0 <=> S = {}
           /\ t \notin S => Cardinality(S \cup {t}) = Cardinality(S) + 1
           /\ t \in S => Cardinality(S \ {t}) = Cardinality(S) - 1
<1>0. IsFiniteSet(S)
    BY FS_Subset DEF DistinctThreads
<1>1. Cardinality(S) \in Nat
    BY <1>0, FS_CardinalityType
<1>2. Cardinality(S) = 0 <=> S = {}
    BY <1>0, FS_EmptySet
<1>3. t \notin S => Cardinality(S \cup {t}) = Cardinality(S) + 1
    BY <1>0, FS_AddElement
<1>4. t \in S => Cardinality(S \ {t}) = Cardinality(S) - 1
    BY <1>0, FS_RemoveElement
<1> QED BY <1>1, <1>2, <1>3, <1>4

LEMMA InitInv == DistinctThreads /\ Init => IInv
<1> SUFFICES ASSUME DistinctThreads, Init PROVE IInv
    OBVIOUS
<1>1. Typed /\ Stages
    BY DEF Init, Typed, Stages, Detached
<1>2. Starting = {}
    BY DEF Init, Starting
<1>3. BirthsExact
    BY <1>2, FS_EmptySet DEF Init, BirthsExact
<1>4. ShutdownClean
    BY DEF Init, ShutdownClean
<1> QED BY <1>1, <1>3, <1>4 DEF IInv

(* A step that neither begins nor ends a birth.                            *)
LEMMA BirthsKept ==
    ASSUME IInv, born' = born, Starting' = Starting
    PROVE  BirthsExact'
BY DEF IInv, BirthsExact

(* A thread goes from one stage of its life to another that is no birth.   *)
LEMMA StartingKept ==
    ASSUME IInv, NEW t \in OtherThreads, NEW where, where # "starting",
           life[t] # "starting", Becomes(t, where)
    PROVE  Starting' = Starting
BY DEF IInv, Typed, Starting

-----------------------------------------------------------------------------
LEMMA BirthStep == DistinctThreads /\ IInv /\ [Next]_vars => BirthsExact'
<1> SUFFICES ASSUME DistinctThreads, IInv, [Next]_vars PROVE BirthsExact'
    OBVIOUS
<1>0. Starting \in SUBSET OtherThreads
    BY DEF Starting
<1>1. ASSUME UNCHANGED <<born, life>> PROVE BirthsExact'
    BY <1>1, BirthsKept DEF Starting
<1>2. ASSUME NEW t \in OtherThreads, CreateNativeThread(t) PROVE BirthsExact'
    <2>1. t \notin Starting
        BY <1>2 DEF CreateNativeThread, Starting
    <2>2. CASE ~down /\ born' = born + 1 /\ Becomes(t, "starting")
        <3>1. Starting' = Starting \cup {t}
            BY <2>2 DEF IInv, Typed, Starting
        <3> QED BY <2>1, <2>2, <3>1, <1>0, BirthsCount DEF IInv, BirthsExact
    <2>3. CASE down /\ Becomes(t, "gone") /\ UNCHANGED born
        <3>1. Starting' = Starting
            BY ZenonT(30), <1>2, <2>3, StartingKept DEF CreateNativeThread
        <3> QED BY <2>3, <3>1, BirthsKept
    <2> QED BY <1>2, <2>2, <2>3 DEF CreateNativeThread
<1>3. ASSUME NEW t \in OtherThreads, CreationFails(t) \/ CreateCallback(t) PROVE BirthsExact'
    <2>1. t \in Starting /\ born' = born - 1
        BY <1>3 DEF CreationFails, CreateCallback, EndThreadBirth, Starting
    <2>2. Starting' = Starting \ {t}
        BY <1>3 DEF CreationFails, CreateCallback, IInv, Typed, Starting
    <2> QED BY <2>1, <2>2, <1>0, BirthsCount DEF IInv, BirthsExact
<1>4. ASSUME NEW t \in OtherThreads, Attach(t) PROVE BirthsExact'
    <2>1. Starting' = Starting
        BY <1>4, StartingKept DEF Attach
    <2> QED BY <1>4, <2>1, BirthsKept DEF Attach
<1>5. ASSUME NEW t \in OtherThreads, Unregister(t) \/ Destroy(t) \/ Unlist(t) \/ Leave(t)
      PROVE  BirthsExact'
    <2>1. Starting' = Starting
        BY <1>5, StartingKept DEF Unregister, Destroy, Unlist, Leave
    <2> QED BY <1>5, <2>1, BirthsKept DEF Unregister, Destroy, Unlist, Leave
<1>6. ASSUME NEW t \in OtherThreads, BecomeRunnable(t) \/ LeaveRunnable(t) PROVE BirthsExact'
    BY <1>1, <1>6 DEF BecomeRunnable, LeaveRunnable
<1>7. CASE DestroyJavaVM \/ MainStep
    BY <1>1, <1>7 DEF DestroyJavaVM, MainStep, WaitBeforeDestruction, WaitForBirths,
       DetachCurrentThread, WaitInShutDown, WaitForOtherNonDaemonThreadsToExit,
       RequestSuspension, Poll, SetRuntimeDeleted
<1>8. CASE UNCHANGED vars
    BY <1>1, <1>8 DEF vars
<1> QED BY <1>2, <1>3, <1>4, <1>5, <1>6, <1>7, <1>8 DEF Next, ThreadStep

-----------------------------------------------------------------------------
(* A step of a thread: what it adds to list_ it adds before the shutdown,  *)
(* and a thread that is asked to suspend does not become runnable.         *)
LEMMA ThreadKeeps ==
    ASSUME IInv, NEW t \in OtherThreads,
           UNCHANGED <<main, down, requested, allSuspended>>, Typed', BirthsExact',
           DistinctThreads,
           list' \subseteq list \/ (~down /\ list' = list \cup {t}),
           runnable' \subseteq runnable \/ (runnable' = runnable \cup {t} /\ t \notin requested /\ list' = list),
           down => Starting' \subseteq Starting
    PROVE  Stages' /\ ShutdownClean'
<1>1. Stages'
    BY DEF IInv, Stages, Detached, DistinctThreads
<1>2. ASSUME down PROVE born' = 0 /\ \A u \in OtherThreads : life'[u] # "starting"
    <2>1. Starting' = {}
        BY <1>2 DEF IInv, ShutdownClean, Starting
    <2> QED BY <2>1, FS_EmptySet DEF BirthsExact, Starting
<1>3. main \in {"suspend", "poll", "quiesce"} => list' \subseteq Daemons
    BY DEF IInv, ShutdownClean, Stages, Detached
<1>4. main = "quiesce" /\ allSuspended => list' \cap runnable' = {}
    BY DEF IInv, ShutdownClean, Stages, Detached
<1> QED BY <1>1, <1>2, <1>3, <1>4 DEF ShutdownClean

LEMMA ThreadInv ==
    ASSUME DistinctThreads, IInv, BirthsExact', NEW t \in OtherThreads,
           \/ CreateNativeThread(t) \/ Attach(t) \/ BecomeRunnable(t) \/ LeaveRunnable(t)
           \/ Unregister(t) \/ ThreadStep(t)
    PROVE  IInv'
<1>1. CASE CreateNativeThread(t)
    <2>1. Typed' /\ (down => Starting' \subseteq Starting)
        BY <1>1 DEF CreateNativeThread, IInv, Typed, Starting
    <2> QED BY <1>1, <2>1, ThreadKeeps DEF CreateNativeThread, IInv
<1>2. CASE CreationFails(t) \/ CreateCallback(t)
    <2>1. Typed' /\ (down => Starting' \subseteq Starting)
        BY <1>2 DEF CreationFails, CreateCallback, IInv, Typed, Starting
    <2>2. ~down
        BY <1>2 DEF CreationFails, CreateCallback, IInv, ShutdownClean
    <2> QED BY <1>2, <2>1, <2>2, ThreadKeeps DEF CreationFails, CreateCallback, IInv
<1>3. CASE Attach(t)
    <2>1. Typed' /\ (down => Starting' \subseteq Starting)
        BY <1>3 DEF Attach, IInv, Typed, Starting
    <2> QED BY <1>3, <2>1, ThreadKeeps DEF Attach, IInv
<1>4. CASE BecomeRunnable(t) \/ LeaveRunnable(t)
    <2>1. Typed' /\ (down => Starting' \subseteq Starting)
        BY <1>4 DEF BecomeRunnable, LeaveRunnable, IInv, Typed, Starting
    <2> QED BY <1>4, <2>1, ThreadKeeps DEF BecomeRunnable, LeaveRunnable, IInv
<1>5. CASE Unregister(t) \/ Destroy(t) \/ Unlist(t) \/ Leave(t)
    <2>1. Typed' /\ (down => Starting' \subseteq Starting)
        BY <1>5 DEF Unregister, Destroy, Unlist, Leave, IInv, Typed, Starting
    <2> QED BY <1>5, <2>1, ThreadKeeps DEF Unregister, Destroy, Unlist, Leave, IInv
<1> QED BY <1>1, <1>2, <1>3, <1>4, <1>5 DEF ThreadStep

(* A step of the thread that destroys the runtime                          *)
LEMMA MainInv ==
    ASSUME DistinctThreads, IInv, BirthsExact', DestroyJavaVM \/ MainStep
    PROVE  IInv'
<1>1. Typed'
    BY DEF IInv, Typed, DestroyJavaVM, MainStep, WaitBeforeDestruction, WaitForBirths,
       DetachCurrentThread, WaitInShutDown, WaitForOtherNonDaemonThreadsToExit,
       RequestSuspension, Poll, SetRuntimeDeleted
<1>2. CASE DestroyJavaVM \/ WaitBeforeDestruction
    BY <1>1, <1>2 DEF DestroyJavaVM, WaitBeforeDestruction, Awake,
       WaitForOtherNonDaemonThreadsToExit, IInv, Stages, Detached, ShutdownClean
<1>3. CASE WaitForBirths
    <2>1. born = 0 => \A t \in OtherThreads : life[t] # "starting"
        <3>1. Cardinality(Starting) = 0 <=> Starting = {}
            BY ZenonT(30), BirthsCount DEF Starting
        <3> QED BY <3>1 DEF IInv, BirthsExact, Starting
    <2>2. born \in Nat
        BY ZenonT(30), BirthsCount DEF IInv, BirthsExact, Starting
    <2>3. /\ down' <=> born = 0
          /\ main' = "births" \/ (main' = "detach" /\ ~(born > 0))
        BY ZenonT(30), <1>3 DEF WaitForBirths
    <2>4. UNCHANGED <<born, list, life, runnable, requested, allSuspended>>
        BY <1>3 DEF WaitForBirths
    <2>5. Stages'
        BY <1>3, <2>2, <2>3, <2>4 DEF WaitForBirths, Awake, IInv, Stages, Detached
    <2>6. ShutdownClean'
        BY <2>1, <2>3, <2>4 DEF ShutdownClean
    <2> QED BY <1>1, <2>5, <2>6 DEF IInv
<1>4. CASE DetachCurrentThread
    BY <1>1, <1>4 DEF DetachCurrentThread, IInv, Stages, Detached, ShutdownClean
<1>5. CASE WaitInShutDown
    BY <1>1, <1>5 DEF WaitInShutDown, Awake, WaitForOtherNonDaemonThreadsToExit,
       NonDaemonsGone, IInv, Typed, Stages, Detached, ShutdownClean
<1>6. CASE RequestSuspension
    <2>1. Stages'
        BY <1>6 DEF RequestSuspension, IInv, Stages, Detached
    <2>2. ShutdownClean'
        BY <1>6 DEF RequestSuspension, IInv, ShutdownClean
    <2> QED BY <1>1, <2>1, <2>2 DEF IInv
<1>7. CASE Poll
    <2>1. Stages'
        BY <1>7 DEF Poll, IInv, Stages, Detached
    <2>2. ShutdownClean'
        <3>1. main = "poll" /\ main' = "quiesce" /\ UNCHANGED <<down, born, life, list, runnable>>
            BY <1>7 DEF Poll
        <3>2. list \cap runnable = {} \/ (list \cap runnable # {} /\ allSuspended' = allSuspended)
            BY <1>7 DEF Poll
        <3>3. main' = "quiesce" /\ allSuspended' => list' \cap runnable' = {}
            BY ZenonT(30), <3>1, <3>2, <1>7 DEF Poll, IInv, Stages
        <3> QED BY <3>1, <3>3 DEF IInv, ShutdownClean
    <2> QED BY <1>1, <2>1, <2>2 DEF IInv
<1>8. CASE SetRuntimeDeleted
    BY <1>1, <1>8 DEF SetRuntimeDeleted, IInv, Stages, Detached, ShutdownClean
<1> QED BY <1>2, <1>3, <1>4, <1>5, <1>6, <1>7, <1>8 DEF MainStep

LEMMA StepInv == DistinctThreads /\ IInv /\ [Next]_vars => IInv'
<1> SUFFICES ASSUME DistinctThreads, IInv, [Next]_vars PROVE IInv'
    OBVIOUS
<1>1. BirthsExact'
    BY BirthStep
<1>2. CASE UNCHANGED vars
    BY <1>1, <1>2 DEF vars, IInv, Typed, Stages, Detached, ShutdownClean
<1> QED BY <1>1, <1>2, MainInv, ThreadInv DEF Next

-----------------------------------------------------------------------------
(* The CHECKs of ~Runtime, Thread::CreateCallback and ThreadList::ShutDown *)
(* hold whatever the number of threads: none is being born when the        *)
(* runtime is shutting down, only daemons are left to be suspended, and    *)
(* those that were seen suspended stay so.                                 *)
THEOREM CleanShutdown == DistinctThreads => (Spec => []ShutdownClean)
<1> SUFFICES ASSUME DistinctThreads PROVE Spec => []ShutdownClean
    OBVIOUS
<1>1. Init => IInv
    BY InitInv
<1>2. IInv /\ [Next]_vars => IInv'
    BY StepInv
<1>3. IInv => ShutdownClean
    BY DEF IInv
<1> QED BY <1>1, <1>2, <1>3, PTL DEF Spec

(* threads_being_born_ counts the threads between StartThreadBirth and     *)
(* EndThreadBirth, so that EndThreadBirth never goes below zero and the    *)
(* wait for births ends only when there are none.                          *)
THEOREM BirthsCounted == DistinctThreads => (Spec => []BirthsExact)
<1> SUFFICES ASSUME DistinctThreads PROVE Spec => []BirthsExact
    OBVIOUS
<1>1. Init => IInv
    BY InitInv
<1>2. IInv /\ [Next]_vars => IInv'
    BY StepInv
<1>3. IInv => BirthsExact
    BY DEF IInv
<1> QED BY <1>1, <1>2, <1>3, PTL DEF Spec
=============================================================================
