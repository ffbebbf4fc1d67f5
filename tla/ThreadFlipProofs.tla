-------------------------- MODULE ThreadFlipProofs --------------------------
(***************************************************************************)
(* The safety properties of ThreadFlip for any number of mutators.         *)
(***************************************************************************)
EXTENDS ThreadFlip, FiniteSetTheorems, TLAPS

-----------------------------------------------------------------------------
(* The inductive invariant.                                                *)

FlipLabels == {"take", "flip", "clear"}
Inside == {"take", "flip", "clear", "notify"}
Stopping == {"suspendWait", "callback"}

TypeOK ==
    /\ state \in [Threads -> States]
    /\ flags \in [Threads -> SUBSET Flags]
    /\ suspendCount \in [Threads -> Nat]
    /\ flipFunction \subseteq Threads
    /\ pc \in [Threads -> Labels]
    /\ subject \in [Threads -> Threads]
    /\ after \in [Threads -> {"native", "runnable", "helpWait", "others"}]
    /\ todo \subseteq Threads
    /\ others \subseteq Mutators
    /\ runs \in [Threads -> Nat]
    /\ flipRunning \in BOOLEAN
    /\ disableCount \in Nat
    /\ critical \in [Threads -> Nat]
    /\ requested \subseteq Mutators
    /\ resumed \subseteq Mutators

(* The state in the word is what the label says; the collector is never    *)
(* runnable.                                                               *)
MutatorLabels ==
    {"runnable", "native", "toRun", "resumeWait", "resumeWoken", "flipCheck", "flipWait",
     "helpWait", "critWait"} \cup Inside
CollectorLabels ==
    {"idle", "begin", "suspendWait", "callback", "end", "others", "lower", "barrier"} \cup Inside

Places ==
    /\ pc[Collector] \in CollectorLabels /\ state[Collector] = "Native"
    /\ pc[Collector] \in Inside => after[Collector] = "others"
    /\ \A t \in Mutators :
        /\ pc[t] \in MutatorLabels
        /\ state[t] = "Runnable" <=> pc[t] \in Managed \cup Inside
        /\ pc[t] = "critWait" => state[t] = "WaitingForGcThreadFlip" /\ critical[t] > 0
        /\ pc[t] \in Inside => after[t] \in Managed

(* Running is set while one thread, and no other, runs the function; until *)
(* it takes the function, the function is set.                             *)
Runs(r, u) == pc[r] \in FlipLabels /\ subject[r] = u

Runners ==
    /\ \A r, s, u \in Threads : Runs(r, u) /\ Runs(s, u) => r = s
    /\ \A r, u \in Threads : Runs(r, u) => "Running" \in flags[u] /\ "Pending" \notin flags[u]
    /\ \A u \in Threads : "Running" \in flags[u] => \E r \in Threads : Runs(r, u)
    /\ \A u \in Threads : "Waiting" \in flags[u] => "Running" \in flags[u]
    /\ \A u \in Threads : "Pending" \in flags[u] => u \in flipFunction
    /\ \A u \in flipFunction :
        "Pending" \in flags[u] \/ \E r \in Threads : Runs(r, u) /\ pc[r] = "take"

(* A function that ran is not set and not about to run, so that none is    *)
(* left from the flip before; a runnable thread has none but the one it    *)
(* runs itself.                                                            *)
Started(u) == u \in flipFunction \/ \E r \in Threads : Runs(r, u) /\ pc[r] \in {"take", "flip"}

Once ==
    /\ \A u \in Threads : runs[u] = 0 \/ (runs[u] = 1 /\ ~Started(u))
    /\ pc[Collector] \in {"idle", "begin"} \cup Stopping => \A u \in Threads : ~Started(u)
    /\ pc[Collector] \in {"begin"} \cup Stopping => \A u \in Threads : runs[u] = 0
    /\ \A t \in Mutators : state[t] = "Runnable" =>
        "Pending" \notin flags[t] /\ ("Running" \in flags[t] => Runs(t, t))

(* The suspend requests in force on a mutator: the collector's and one of  *)
(* somebody else.                                                          *)
Held == IF pc[Collector] \in Stopping THEN Mutators ELSE others

Counts ==
    /\ suspendCount[Collector] = 0
    /\ \A u \in Mutators : suspendCount[u] =
        (IF u \in requested THEN 1 ELSE 0) + (IF u \in Held THEN 1 ELSE 0)
    /\ \A u \in Threads : "SuspendRequest" \in flags[u] <=> suspendCount[u] > 0
    /\ pc[Collector] \in {"idle", "begin", "barrier"} \cup Stopping => others = {}
    /\ pc[Collector] = "callback" => \A t \in Mutators : state[t] # "Runnable"

(* disable_thread_flip_count_ is the number of threads in critical         *)
(* sections, those that wait to enter one excluded.                        *)
InCritical == {t \in Mutators : critical[t] > 0 /\ pc[t] # "critWait"}

CriticalExact ==
    /\ flipRunning <=> pc[Collector] \in {"begin", "end"} \cup Stopping
    /\ disableCount = Cardinality(InCritical)
    /\ pc[Collector] \in Stopping => InCritical = {}

IInv == TypeOK /\ Places /\ Runners /\ Once /\ Counts /\ CriticalExact

USE DEF wordVars, callVars, critVars, otherVars, Goto

(* Most steps need only first-order reasoning; SMT is cited where one needs *)
(* more.                                                                   *)
USE ZenonT(40)

(* A set of mutators with an element more or less has a cardinality one up *)
(* or down.                                                                *)
LEMMA CardinalityStep ==
    ASSUME NEW S \in SUBSET Mutators, NEW x
    PROVE  /\ Cardinality(S) \in Nat
           /\ Cardinality(S) = 0 <=> S = {}
           /\ x \notin S => Cardinality(S \cup {x}) = Cardinality(S) + 1
           /\ x \in S => Cardinality(S \ {x}) = Cardinality(S) - 1
           /\ x \in S => Cardinality(S) > 0
<1>0. IsFiniteSet(S)
    BY FlipAssumption, FS_Subset
<1>1. Cardinality(S) \in Nat
    BY <1>0, FS_CardinalityType
<1>2. Cardinality(S) = 0 <=> S = {}
    BY <1>0, FS_EmptySet
<1>3. x \notin S => Cardinality(S \cup {x}) = Cardinality(S) + 1
    BY <1>0, FS_AddElement
<1>4. x \in S => Cardinality(S \ {x}) = Cardinality(S) - 1
    BY <1>0, FS_RemoveElement
<1> QED BY SMT, <1>1, <1>2, <1>3, <1>4

-----------------------------------------------------------------------------
(***************************************************************************)
(* What steps have in common.  A calm step starts, takes, runs and ends no *)
(* flip function.                                                          *)
(***************************************************************************)
Calm ==
    /\ flipFunction' = flipFunction
    /\ \A u \in Threads : flags'[u] \cap FlipFunctionFlags = flags[u] \cap FlipFunctionFlags
    /\ \A r \in Threads : pc[r] \in FlipLabels \/ pc'[r] \in FlipLabels =>
        pc'[r] = pc[r] /\ subject'[r] = subject[r]

Moves(t) ==
    \/ EnterNative(t) \/ ReturnFromNative(t) \/ CheckSuspend(t) \/ BecomeRunnable(t)
    \/ WaitForResume(t) \/ Resumed(t) \/ SeeFlip(t) \/ HelpDone(t)

EntersOrLeaves(t) ==
    \/ EnterCritical(t) \/ IncrementDisableThreadFlip(t) \/ DecrementDisableThreadFlip(t)

Others(t) == OtherRequest(t) \/ OtherResume(t) \/ OtherBroadcast(t)

CalmCollector ==
    \/ ThreadFlipBegin \/ SuspendAll \/ AllSuspended \/ ThreadFlipEnd \/ AllStarted
    \/ ResumeOthers \/ AllFlipped

(* All steps, by what they do to flip functions.                           *)
LEMMA Steps ==
    ASSUME [Next]_vars
    PROVE  \/ \E t \in Threads : Flipping(t)
           \/ \E t \in Mutators : StartOwnFlip(t) \/ WaitForFlipFunction(t)
           \/ \E t \in Mutators, u \in Threads : u # t /\ HelpFlip(t, u)
           \/ \E t \in Mutators : Moves(t) \/ EntersOrLeaves(t) \/ Others(t)
           \/ SetFlipFunctions \/ FlipOther \/ CalmCollector
           \/ UNCHANGED vars
BY DEF Next, MutatorStep, CollectorStep, Moves, EntersOrLeaves, Others, CalmCollector, Threads

LEMMA MovesCalm == ASSUME IInv, NEW t \in Mutators, Moves(t) PROVE Calm
<1> USE DEF IInv, TypeOK, Threads, FlipLabels, Calm
<1>1. CASE EnterNative(t) \/ ReturnFromNative(t) \/ CheckSuspend(t) \/ BecomeRunnable(t)
    BY <1>1 DEF EnterNative, ReturnFromNative, CheckSuspend, BecomeRunnable
<1>2. CASE WaitForResume(t) \/ Resumed(t) \/ SeeFlip(t) \/ HelpDone(t)
    BY <1>2 DEF WaitForResume, Resumed, SeeFlip, HelpDone
<1> QED BY <1>1, <1>2 DEF Moves

LEMMA OtherCalm ==
    ASSUME IInv, NEW t \in Mutators, EntersOrLeaves(t) \/ Others(t)
    PROVE  Calm
<1> USE DEF IInv, TypeOK, Threads, FlipLabels, FlipFunctionFlags, Calm
<1>1. CASE EntersOrLeaves(t)
    BY <1>1 DEF EntersOrLeaves, EnterCritical, IncrementDisableThreadFlip, DecrementDisableThreadFlip
<1>2. CASE OtherRequest(t)
    BY <1>2 DEF OtherRequest, Raise
<1>3. CASE OtherResume(t)
    BY <1>3 DEF OtherResume, LoweredFlags
<1>4. CASE OtherBroadcast(t)
    BY <1>4 DEF OtherBroadcast, Woken
<1> QED BY <1>1, <1>2, <1>3, <1>4 DEF Others

LEMMA CollectorCalm == ASSUME IInv, CalmCollector PROVE Calm
<1> USE DEF IInv, TypeOK, Threads, FlipLabels, FlipFunctionFlags, Calm
<1>1. CASE ThreadFlipBegin \/ AllSuspended \/ ThreadFlipEnd \/ AllStarted \/ AllFlipped
    BY <1>1 DEF ThreadFlipBegin, AllSuspended, ThreadFlipEnd, AllStarted, AllFlipped
<1>2. CASE SuspendAll
    BY <1>2 DEF SuspendAll
<1>3. CASE ResumeOthers
    BY <1>3 DEF ResumeOthers, LoweredFlags, BroadcastThen, Woken
<1> QED BY <1>1, <1>2, <1>3 DEF CalmCollector

LEMMA NotifyCalm == ASSUME IInv, NEW t \in Threads, Notify(t) PROVE Calm
BY DEF IInv, TypeOK, FlipLabels, Calm, Notify, BroadcastThen, Woken, Places, Inside, Managed, Threads

-----------------------------------------------------------------------------
(* Types: no suspend count and no count of critical sections goes below    *)
(* zero, whoever lowers it.                                                *)
LEMMA TypeStep == IInv /\ [Next]_vars => TypeOK'
<1> SUFFICES ASSUME IInv, [Next]_vars PROVE TypeOK'
    OBVIOUS
<1> USE FlipAssumption DEF IInv, TypeOK, Threads, Labels
<1>1. ASSUME NEW t \in Threads, Flipping(t) PROVE TypeOK'
    <2>1. pc[t] \in Inside => after[t] \in Labels
        BY DEF Places, Managed
    <2>2. CASE TakeFunction(t) \/ RunFunction(t)
        BY SMT, <2>2 DEF TakeFunction, RunFunction
    <2>3. CASE ClearFlags(t)
        BY <2>1, <2>3 DEF ClearFlags, Inside
    <2>4. CASE Notify(t)
        BY <2>1, <2>4 DEF Notify, BroadcastThen, Woken, Inside
    <2> QED BY <1>1, <2>2, <2>3, <2>4 DEF Flipping
<1>2. ASSUME NEW t \in Mutators, StartOwnFlip(t) \/ WaitForFlipFunction(t) PROVE TypeOK'
    BY SMT, <1>2 DEF StartOwnFlip, StartFlip, WaitForFlipFunction, States, Flags
<1>3. ASSUME NEW t \in Mutators, NEW u \in Threads, HelpFlip(t, u) PROVE TypeOK'
    BY SMT, <1>3 DEF HelpFlip, StartFlip, Flags
<1>4. ASSUME NEW t \in Mutators, Moves(t) PROVE TypeOK'
    BY SMT, <1>4 DEF Moves, EnterNative, ReturnFromNative, CheckSuspend, BecomeRunnable,
       WaitForResume, Resumed, SeeFlip, HelpDone, States
<1>5. ASSUME NEW t \in Mutators, EnterCritical(t) \/ IncrementDisableThreadFlip(t) PROVE TypeOK'
    BY SMT, <1>5 DEF EnterCritical, IncrementDisableThreadFlip, States
<1>6. ASSUME NEW t \in Mutators, DecrementDisableThreadFlip(t) PROVE TypeOK'
    <2>1. InCritical \in SUBSET Mutators /\ t \in InCritical
        BY <1>6 DEF DecrementDisableThreadFlip, InCritical
    <2>2. Cardinality(InCritical) \in Nat /\ Cardinality(InCritical) > 0
        BY <2>1, CardinalityStep
    <2>3. disableCount - 1 \in Nat
        BY SMT, <2>2 DEF CriticalExact
    <2> QED BY SMT, <1>6, <2>3 DEF DecrementDisableThreadFlip
<1>7. ASSUME NEW t \in Mutators, Others(t) PROVE TypeOK'
    <2>1. CASE OtherRequest(t)
        BY SMT, <2>1 DEF OtherRequest, Raise, Flags
    <2>2. CASE OtherResume(t)
        <3>1. suspendCount[t] - 1 \in Nat
            BY SMT, <2>2 DEF OtherResume, Counts
        <3> QED BY <2>2, <3>1 DEF OtherResume, LoweredFlags
    <2>3. CASE OtherBroadcast(t)
        BY <2>3 DEF OtherBroadcast, Woken
    <2> QED BY <1>7, <2>1, <2>2, <2>3 DEF Others
<1>8. CASE SetFlipFunctions
    BY SMT, <1>8 DEF SetFlipFunctions, Early, ResumesEarly, LoweredFlags, BroadcastThen, Woken, Flags
<1>9. CASE FlipOther
    BY SMT, <1>9 DEF FlipOther, StartFlip, Flags
<1>10. CASE CalmCollector
    <2>1. CASE AllSuspended \/ AllStarted \/ AllFlipped
        BY SMT, <2>1 DEF AllSuspended, AllStarted, AllFlipped
    <2>5. CASE ThreadFlipEnd
        BY ZenonT(30), <2>5 DEF ThreadFlipEnd
    <2>2. CASE ThreadFlipBegin
        BY <2>2 DEF ThreadFlipBegin
    <2>4. CASE SuspendAll
        BY SMT, <2>4 DEF SuspendAll, Flags
    <2>3. CASE ResumeOthers
        <3>1. \A u \in others : suspendCount[u] - 1 \in Nat
            BY SMT, <2>3 DEF ResumeOthers, Counts, Held, Stopping
        <3> QED BY <2>3, <3>1 DEF ResumeOthers, LoweredFlags, BroadcastThen, Woken
    <2> QED BY <1>10, <2>1, <2>2, <2>3, <2>4, <2>5 DEF CalmCollector
<1>11. CASE UNCHANGED vars
    BY <1>11 DEF vars
<1> QED BY ZenonT(30), <1>1, <1>2, <1>3, <1>4, <1>5, <1>6, <1>7, <1>8, <1>9, <1>10, <1>11, Steps
        DEF EntersOrLeaves

-----------------------------------------------------------------------------
(* The state in state_and_flags goes with the label.  A thread that runs a *)
(* flip function, its own or as a helper, is runnable throughout.          *)
LEMMA PlacesStep == IInv /\ [Next]_vars => Places'
<1> SUFFICES ASSUME IInv, [Next]_vars PROVE Places'
    OBVIOUS
<1> USE FlipAssumption DEF IInv, TypeOK, Threads, Places, MutatorLabels, CollectorLabels,
        Inside, Managed
<1>1. ASSUME NEW t \in Threads, Flipping(t) PROVE Places'
    <2>1. CASE TakeFunction(t) \/ RunFunction(t)
        BY SMT, <2>1 DEF TakeFunction, RunFunction
    <2>2. CASE ClearFlags(t)
        BY <2>2 DEF ClearFlags
    <2>3. CASE Notify(t)
        BY <2>3 DEF Notify, BroadcastThen, Woken
    <2> QED BY <1>1, <2>1, <2>2, <2>3 DEF Flipping
<1>2. ASSUME NEW t \in Mutators, StartOwnFlip(t) \/ WaitForFlipFunction(t) PROVE Places'
    BY SMT, <1>2 DEF StartOwnFlip, StartFlip, WaitForFlipFunction
<1>3. ASSUME NEW t \in Mutators, NEW u \in Threads, HelpFlip(t, u) PROVE Places'
    BY SMT, <1>3 DEF HelpFlip, StartFlip
<1>4. ASSUME NEW t \in Mutators, Moves(t) PROVE Places'
    <2>1. CASE EnterNative(t) \/ ReturnFromNative(t) \/ CheckSuspend(t) \/ BecomeRunnable(t)
        BY SMT, <2>1 DEF EnterNative, ReturnFromNative, CheckSuspend, BecomeRunnable
    <2>2. CASE WaitForResume(t) \/ Resumed(t) \/ SeeFlip(t) \/ HelpDone(t)
        BY SMT, <2>2 DEF WaitForResume, Resumed, SeeFlip, HelpDone
    <2> QED BY <1>4, <2>1, <2>2 DEF Moves
<1>5. ASSUME NEW t \in Mutators, EntersOrLeaves(t) PROVE Places'
    BY SMT, <1>5 DEF EntersOrLeaves, EnterCritical, IncrementDisableThreadFlip,
       DecrementDisableThreadFlip
<1>6. ASSUME NEW t \in Mutators, Others(t) PROVE Places'
    BY SMT, <1>6 DEF Others, OtherRequest, OtherResume, OtherBroadcast, Woken
<1>7. CASE SetFlipFunctions
    BY <1>7 DEF SetFlipFunctions, BroadcastThen, Woken
<1>8. CASE FlipOther
    BY <1>8 DEF FlipOther, StartFlip
<1>9. CASE CalmCollector
    <2>1. CASE ThreadFlipBegin \/ AllSuspended \/ ThreadFlipEnd \/ AllStarted \/ AllFlipped
        BY SMT, <2>1 DEF ThreadFlipBegin, AllSuspended, ThreadFlipEnd, AllStarted, AllFlipped
    <2>2. CASE SuspendAll
        BY <2>2 DEF SuspendAll
    <2>3. CASE ResumeOthers
        BY <2>3 DEF ResumeOthers, BroadcastThen, Woken
    <2> QED BY <1>9, <2>1, <2>2, <2>3 DEF CalmCollector
<1>10. CASE UNCHANGED vars
    BY <1>10 DEF vars
<1> QED BY ZenonT(30), <1>1, <1>2, <1>3, <1>4, <1>5, <1>6, <1>7, <1>8, <1>9, <1>10, Steps

-----------------------------------------------------------------------------
(* The flip bits of state_and_flags and tlsPtr_.flip_function.  Only the   *)
(* swap of Pending for Running in EnsureFlipFunctionStarted makes a runner *)
(* and only the runner clears Running; new functions are given out when no *)
(* mutator is runnable, so that none is inside one.                        *)
LEMMA RunnersCalm == ASSUME IInv, Calm PROVE Runners'
<1>1. \A r, u \in Threads : Runs(r, u)' <=> Runs(r, u)
    BY DEF IInv, TypeOK, Calm, Runs
<1>2. \A r, u \in Threads : Runs(r, u) => pc'[r] = pc[r]
    BY DEF Calm, Runs
<1>3. \A u \in Threads :
          /\ "Running" \in flags'[u] <=> "Running" \in flags[u]
          /\ "Pending" \in flags'[u] <=> "Pending" \in flags[u]
          /\ "Waiting" \in flags'[u] <=> "Waiting" \in flags[u]
    BY DEF Calm, FlipFunctionFlags
<1>4. flipFunction' = flipFunction
    BY DEF Calm
<1> QED BY SMT, <1>1, <1>2, <1>3, <1>4 DEF IInv, TypeOK, Runners

LEMMA RunnersStart ==
    ASSUME IInv, NEW r \in Threads, NEW u \in Threads, NEW next,
           pc[r] \notin FlipLabels, StartFlip(r, u, next), flipFunction' = flipFunction
    PROVE  Runners'
BY SMT DEF IInv, TypeOK, Runners, Runs, FlipLabels, StartFlip

LEMMA RunnersStep == IInv /\ [Next]_vars => Runners'
<1> SUFFICES ASSUME IInv, [Next]_vars PROVE Runners'
    OBVIOUS
<1>1. ASSUME NEW t \in Threads, Flipping(t) PROVE Runners'
    <2> USE DEF IInv, TypeOK, Runners, Runs, FlipLabels
    <2>1. CASE TakeFunction(t)
        BY SMT, <2>1 DEF TakeFunction
    <2>2. CASE RunFunction(t)
        BY SMT, <2>2 DEF RunFunction
    <2>3. CASE ClearFlags(t)
        <3>1. pc[t] = "clear" /\ pc'[t] \notin FlipLabels
            BY <2>3 DEF ClearFlags, Places, Inside, Managed, Threads
        <3>2. \A r \in Threads : r # t => pc'[r] = pc[r]
            BY SMT, <2>3 DEF ClearFlags
        <3> QED BY SMT, <2>3, <3>1, <3>2 DEF ClearFlags
    <2>4. CASE Notify(t)
        BY <2>4, NotifyCalm, RunnersCalm
    <2> QED BY <1>1, <2>1, <2>2, <2>3, <2>4 DEF Flipping
<1>2. ASSUME NEW t \in Mutators, StartOwnFlip(t) PROVE Runners'
    BY <1>2, RunnersStart DEF StartOwnFlip, FlipLabels, Threads
<1>3. ASSUME NEW t \in Mutators, WaitForFlipFunction(t) PROVE Runners'
    <2>1. \A r, u \in Threads : Runs(r, u)' <=> Runs(r, u)
        BY <1>3 DEF WaitForFlipFunction, IInv, TypeOK, Threads, Runs, FlipLabels
    <2>2. \A r, u \in Threads : Runs(r, u) => pc'[r] = pc[r]
        BY <1>3 DEF WaitForFlipFunction, IInv, TypeOK, Runs, FlipLabels
    <2>3. /\ flipFunction' = flipFunction
          /\ \A u \in Threads : \/ flags'[u] = flags[u]
                                \/ "Running" \in flags[u] /\ flags'[u] = flags[u] \cup {"Waiting"}
        BY SMT, <1>3 DEF WaitForFlipFunction, IInv, TypeOK, Threads
    <2>4. \A u \in Threads :
              /\ "Running" \in flags'[u] <=> "Running" \in flags[u]
              /\ "Pending" \in flags'[u] <=> "Pending" \in flags[u]
              /\ "Waiting" \in flags'[u] => "Running" \in flags[u]
        BY SMT, <2>3 DEF IInv, Runners
    <2> QED BY SMT, <2>1, <2>2, <2>3, <2>4 DEF IInv, TypeOK, Runners
<1>4. ASSUME NEW t \in Mutators, NEW u \in Threads, HelpFlip(t, u) PROVE Runners'
    <2>1. CASE StartFlip(t, u, "helpWait") /\ UNCHANGED <<state, suspendCount, flipFunction>>
        BY <1>4, <2>1, RunnersStart DEF HelpFlip, FlipLabels, Threads
    <2>2. CASE UNCHANGED wordVars
        <3>1. Calm
            BY SMT, <1>4, <2>2 DEF HelpFlip, StartFlip, Calm, IInv, TypeOK, Threads, FlipLabels
        <3> QED BY <3>1, RunnersCalm
    <2> QED BY <1>4, <2>1, <2>2 DEF HelpFlip
<1>5. CASE SetFlipFunctions
    <2>1. \A r \in Threads : pc[r] \notin FlipLabels /\ pc'[r] \notin FlipLabels
        BY <1>5 DEF SetFlipFunctions, BroadcastThen, Woken, IInv, TypeOK, Places, Counts,
           Managed, Inside, FlipLabels, Threads
    <2>2. \A u \in Threads : {"Running", "Waiting"} \cap flags'[u] = {}
        BY <1>5, <2>1 DEF SetFlipFunctions, LoweredFlags, IInv, TypeOK, Runners, Runs
    <2> QED BY <1>5, <2>1, <2>2 DEF SetFlipFunctions, IInv, TypeOK, Runners, Runs
<1>6. CASE FlipOther
    <2>1. PICK u \in todo :
            \/ StartFlip(Collector, u, "others")
            \/ "Pending" \notin flags[u] /\ UNCHANGED <<flags, subject, after, pc>>
        BY <1>6 DEF FlipOther
    <2>2. CASE StartFlip(Collector, u, "others")
        BY <1>6, <2>2, RunnersStart DEF FlipOther, FlipLabels, Threads, IInv, TypeOK
    <2>3. CASE UNCHANGED <<flags, subject, after, pc>>
        BY <1>6, <2>3, RunnersCalm DEF FlipOther, Calm
    <2> QED BY <2>1, <2>2, <2>3
<1>7. CASE UNCHANGED vars
    BY <1>7, RunnersCalm DEF vars, Calm
<1> QED BY <1>1, <1>2, <1>3, <1>4, <1>5, <1>6, <1>7, Steps, RunnersCalm, MovesCalm, OtherCalm,
           CollectorCalm

-----------------------------------------------------------------------------
(* A function runs at most once.  The collector begins the next flip when  *)
(* every function has run, so that none is set or started then; and no     *)
(* thread becomes runnable with one that is not its own to run.            *)
LEMMA StartedCalm ==
    ASSUME IInv, Calm
    PROVE  \A u \in Threads : /\ Started(u)' <=> Started(u)
                              /\ Runs(u, u)' <=> Runs(u, u)
                              /\ "Running" \in flags'[u] <=> "Running" \in flags[u]
                              /\ "Pending" \in flags'[u] <=> "Pending" \in flags[u]
<1>1. \A r, u \in Threads : Runs(r, u)' <=> Runs(r, u)
    BY DEF IInv, TypeOK, Calm, Runs
<1>2. \A r, u \in Threads : Runs(r, u) => pc'[r] = pc[r]
    BY DEF Calm, Runs
<1>3. flipFunction' = flipFunction
    BY DEF Calm
<1>4. \A u \in Threads : Started(u)' <=> Started(u)
    BY <1>1, <1>2, <1>3 DEF Started
<1> QED BY <1>1, <1>4 DEF Calm, FlipFunctionFlags

(* A calm step that makes no thread runnable and leaves the collector      *)
(* outside the stretch between two flips, or where it is.                  *)
LEMMA OnceCalm ==
    ASSUME IInv, Calm, runs' = runs,
           \A t \in Mutators : state'[t] = "Runnable" => state[t] = "Runnable" \/ flags[t] = {},
           \/ pc'[Collector] = pc[Collector]
           \/ pc'[Collector] \notin {"idle", "begin"} \cup Stopping
           \/ pc[Collector] \in {"begin"} \cup Stopping /\ pc'[Collector] \in Stopping
    PROVE  Once'
BY StartedCalm DEF IInv, Once, Stopping, Threads

LEMMA OnceStart ==
    ASSUME IInv, NEW r \in Threads, NEW u \in Threads, NEW next,
           pc[r] \notin FlipLabels, StartFlip(r, u, next), UNCHANGED <<flipFunction, runs>>,
           \A t \in Mutators : state'[t] = "Runnable" => state[t] = "Runnable" \/ t = u,
           state'[u] = "Runnable" => r = u,
           pc'[Collector] = pc[Collector] \/ r = Collector
    PROVE  Once'
<1> USE DEF IInv, TypeOK, Runs, FlipLabels, StartFlip
<1>1. u \in flipFunction
    BY DEF Runners
<1>2. \A v \in Threads : Started(v)' <=> Started(v)
    BY <1>1 DEF Started
<1>3. \A v \in Threads : runs'[v] = 0 \/ (runs'[v] = 1 /\ ~Started(v)')
    BY <1>2 DEF Once
<1>4. /\ pc'[Collector] \in {"idle", "begin"} \cup Stopping => \A v \in Threads : ~Started(v)'
      /\ pc'[Collector] \in {"begin"} \cup Stopping => \A v \in Threads : runs'[v] = 0
    BY <1>2 DEF Once, Stopping, Threads
<1>5. ASSUME NEW t \in Mutators, state'[t] = "Runnable"
      PROVE  "Pending" \notin flags'[t] /\ ("Running" \in flags'[t] => Runs(t, t)')
    BY <1>5 DEF Once, Threads
<1> QED BY <1>3, <1>4, <1>5 DEF Once

LEMMA OnceStep == IInv /\ [Next]_vars => Once'
<1> SUFFICES ASSUME IInv, [Next]_vars PROVE Once'
    OBVIOUS
<1> USE FlipAssumption
<1>1. ASSUME NEW t \in Threads, Flipping(t) PROVE Once'
    <2> USE DEF IInv, TypeOK, Runs, FlipLabels
    <2>1. CASE TakeFunction(t)
        BY SMT, <2>1 DEF TakeFunction, Runners, Once, Started, Stopping, Threads
    <2>2. CASE RunFunction(t)
        <3>1. Started(subject[t]) /\ subject[t] \notin flipFunction
            BY <2>2 DEF RunFunction, Runners, Started
        <3>2. \A r \in Threads : r # t => pc'[r] = pc[r] /\ ~Runs(r, subject[t])
            BY SMT, <2>2 DEF RunFunction, Runners
        <3> QED BY SMT, <2>2, <3>1, <3>2 DEF RunFunction, Once, Started, Stopping, Threads
    <2>3. CASE ClearFlags(t)
        <3>1. pc'[t] \in {"notify", "runnable", "helpWait", "others"}
            BY <2>3 DEF ClearFlags, Places, Inside, Managed, Threads
        <3>2. \A r \in Threads : r # t => pc'[r] = pc[r] /\ ~Runs(r, subject[t])
            BY SMT, <2>3 DEF ClearFlags, Runners
        <3> QED BY SMT, <2>3, <3>1, <3>2 DEF ClearFlags, Once, Started, Stopping, Threads
    <2>4. CASE Notify(t)
        BY <2>4, NotifyCalm, OnceCalm
           DEF Notify, BroadcastThen, Woken, Places, Inside, Managed, Stopping, Threads
    <2> QED BY <1>1, <2>1, <2>2, <2>3, <2>4 DEF Flipping
<1>2. ASSUME NEW t \in Mutators, StartOwnFlip(t) PROVE Once'
    BY ZenonT(30), <1>2, OnceStart DEF StartOwnFlip, StartFlip, FlipLabels, Threads, IInv, TypeOK
<1>3. ASSUME NEW t \in Mutators, WaitForFlipFunction(t) PROVE Once'
    BY SMT, <1>3 DEF WaitForFlipFunction, IInv, TypeOK, Once, Started, Runs, FlipLabels, Stopping, Threads
<1>4. ASSUME NEW t \in Mutators, NEW u \in Threads, u # t, HelpFlip(t, u) PROVE Once'
    <2>1. CASE StartFlip(t, u, "helpWait") /\ UNCHANGED <<state, suspendCount, flipFunction>>
        <3>1. state[u] # "Runnable"
            BY <2>1 DEF StartFlip, IInv, Once, Places, Threads
        <3> QED BY ZenonT(30), <1>4, <2>1, <3>1, OnceStart
                DEF HelpFlip, StartFlip, FlipLabels, Threads, IInv, TypeOK
    <2>2. CASE UNCHANGED wordVars
        <3>1. Calm
            BY SMT, <1>4, <2>2 DEF HelpFlip, StartFlip, Calm, IInv, TypeOK, Threads, FlipLabels
        <3> QED BY <1>4, <2>2, <3>1, OnceCalm DEF HelpFlip, StartFlip, IInv, TypeOK, Threads
    <2> QED BY ZenonT(30), <1>4, <2>1, <2>2 DEF HelpFlip
<1>5. ASSUME NEW t \in Mutators, Moves(t) PROVE Once'
    <2>1. /\ UNCHANGED <<runs, pc[Collector]>>
          /\ \A u \in Mutators : state'[u] = "Runnable" => state[u] = "Runnable" \/ flags[u] = {}
        BY <1>5 DEF Moves, EnterNative, ReturnFromNative, CheckSuspend, BecomeRunnable,
           WaitForResume, Resumed, SeeFlip, HelpDone, IInv, TypeOK, Threads
    <2> QED BY <1>5, <2>1, MovesCalm, OnceCalm
<1>6. ASSUME NEW t \in Mutators, EntersOrLeaves(t) \/ Others(t) PROVE Once'
    <2>1. /\ UNCHANGED <<runs, pc[Collector]>>
          /\ \A u \in Mutators : state'[u] = "Runnable" => state[u] = "Runnable" \/ flags[u] = {}
        BY <1>6 DEF EntersOrLeaves, EnterCritical, IncrementDisableThreadFlip,
           DecrementDisableThreadFlip, Others, OtherRequest, OtherResume, OtherBroadcast, Woken,
           IInv, TypeOK, Places, CollectorLabels, Inside, Threads
    <2> QED BY ZenonT(30), <1>6, <2>1, OtherCalm, OnceCalm
<1>7. CASE SetFlipFunctions
    BY ZenonT(30), <1>7 DEF SetFlipFunctions, BroadcastThen, IInv, Once, Counts, Stopping, Threads
<1>8. CASE FlipOther
    <2>1. PICK u \in todo :
            \/ StartFlip(Collector, u, "others")
            \/ "Pending" \notin flags[u] /\ UNCHANGED <<flags, subject, after, pc>>
        BY <1>8 DEF FlipOther
    <2>2. CASE StartFlip(Collector, u, "others")
        <3>1. state[u] # "Runnable"
            BY <2>2 DEF StartFlip, IInv, TypeOK, Once, Places, Threads
        <3> QED BY <1>8, <2>2, <3>1, OnceStart DEF FlipOther, FlipLabels, Threads, IInv, TypeOK
    <2>3. CASE UNCHANGED <<flags, subject, after, pc>>
        BY <1>8, <2>3, OnceCalm DEF FlipOther, Calm
    <2> QED BY <2>1, <2>2, <2>3
<1>9. CASE CalmCollector
    <2>1. CASE ThreadFlipBegin
        BY ZenonT(30), <1>9, <2>1, StartedCalm, CollectorCalm DEF ThreadFlipBegin, IInv, TypeOK, Once, Stopping, Threads
    <2>2. CASE AllFlipped
        BY SMT, <1>9, <2>2, StartedCalm, CollectorCalm DEF AllFlipped, IInv, TypeOK, Once, Stopping, Threads
    <2>3. CASE SuspendAll \/ AllSuspended \/ ThreadFlipEnd \/ AllStarted \/ ResumeOthers
        <3>1. /\ UNCHANGED <<runs, state>>
              /\ \/ pc'[Collector] \notin {"idle", "begin"} \cup Stopping
                 \/ pc[Collector] \in {"begin"} \cup Stopping /\ pc'[Collector] \in Stopping
            BY <2>3 DEF SuspendAll, AllSuspended, ThreadFlipEnd, AllStarted, ResumeOthers,
               BroadcastThen, IInv, TypeOK, Stopping, Threads
        <3> QED BY <1>9, <3>1, CollectorCalm, OnceCalm
    <2> QED BY <1>9, <2>1, <2>2, <2>3 DEF CalmCollector
<1>10. CASE UNCHANGED vars
    BY ZenonT(30), <1>10, OnceCalm DEF vars, Calm
<1> QED BY <1>1, <1>2, <1>3, <1>4, <1>5, <1>6, <1>7, <1>8, <1>9, <1>10, Steps

-----------------------------------------------------------------------------
(* The suspend counts.  What FlipThreadRoots lowers is what SuspendAll     *)
(* raised: the threads resumed early at once, the others at the end.  A    *)
(* step that leaves them alone:                                            *)
LEMMA CountsKept ==
    ASSUME IInv, UNCHANGED <<suspendCount, requested, others>>,
           \A u \in Threads : "SuspendRequest" \in flags'[u] <=> "SuspendRequest" \in flags[u],
           \A t \in Mutators :
               state'[t] = "Runnable" => state[t] = "Runnable" \/ "SuspendRequest" \notin flags[t],
           pc'[Collector] = pc[Collector]
    PROVE  Counts'
<1>1. ASSUME pc[Collector] = "callback", NEW t \in Mutators PROVE state'[t] # "Runnable"
    <2>1. "SuspendRequest" \in flags[t]
        BY SMT, <1>1 DEF IInv, Counts, Held, Stopping, Threads
    <2> QED BY <1>1, <2>1 DEF IInv, Counts
<1> QED BY ZenonT(30), <1>1 DEF IInv, Counts, Held

LEMMA CountsStep == IInv /\ [Next]_vars => Counts'
<1> SUFFICES ASSUME IInv, [Next]_vars PROVE Counts'
    OBVIOUS
<1> USE FlipAssumption DEF IInv, TypeOK, Threads
<1>1. ASSUME NEW t \in Threads, Flipping(t) PROVE Counts'
    <2>1. CASE t = Collector
        <3>1. /\ UNCHANGED <<suspendCount, requested, others>>
              /\ pc[Collector] \in Inside /\ pc'[Collector] \in Inside \cup {"others"}
              /\ \A u \in Threads : "SuspendRequest" \in flags'[u] <=> "SuspendRequest" \in flags[u]
            BY SMT, <1>1, <2>1 DEF Flipping, TakeFunction, RunFunction, ClearFlags, Notify,
               BroadcastThen, Places, Inside
        <3> QED BY <3>1 DEF Counts, Held, Stopping, Inside
    <2>2. CASE t # Collector
        <3>1. /\ UNCHANGED <<suspendCount, requested, others, state, pc[Collector]>>
              /\ \A u \in Threads : "SuspendRequest" \in flags'[u] <=> "SuspendRequest" \in flags[u]
            BY SMT, <1>1, <2>2 DEF Flipping, TakeFunction, RunFunction, ClearFlags, Notify,
               BroadcastThen, Woken, Places, CollectorLabels, Inside
        <3> QED BY ZenonT(30), <3>1, CountsKept
    <2> QED BY <2>1, <2>2
<1>2. ASSUME NEW t \in Mutators, StartOwnFlip(t) \/ WaitForFlipFunction(t) PROVE Counts'
    BY SMT, <1>2, CountsKept DEF StartOwnFlip, StartFlip, WaitForFlipFunction
<1>3. ASSUME NEW t \in Mutators, NEW u \in Threads, HelpFlip(t, u) PROVE Counts'
    BY SMT, <1>3, CountsKept DEF HelpFlip, StartFlip
<1>4. ASSUME NEW t \in Mutators, Moves(t) PROVE Counts'
    BY ZenonT(30), <1>4, CountsKept DEF Moves, EnterNative, ReturnFromNative, CheckSuspend, BecomeRunnable,
       WaitForResume, Resumed, SeeFlip, HelpDone
<1>5. ASSUME NEW t \in Mutators, EntersOrLeaves(t) PROVE Counts'
    BY SMT, <1>5, CountsKept DEF EntersOrLeaves, EnterCritical, IncrementDisableThreadFlip,
       DecrementDisableThreadFlip
<1>6. ASSUME NEW t \in Mutators, Others(t) PROVE Counts'
    <2>1. CASE OtherRequest(t)
        BY SMT, <2>1 DEF OtherRequest, Raise, Counts, Held
    <2>2. CASE OtherResume(t)
        BY SMT, <2>2 DEF OtherResume, LoweredFlags, Counts, Held
    <2>3. CASE OtherBroadcast(t)
        BY <2>3, CountsKept DEF OtherBroadcast, Woken, Places, CollectorLabels, Inside
    <2> QED BY <1>6, <2>1, <2>2, <2>3 DEF Others
<1>7. CASE SetFlipFunctions
    BY SMT, <1>7 DEF SetFlipFunctions, Early, ResumesEarly, LoweredFlags, BroadcastThen, Counts,
       Held, Stopping
<1>8. CASE FlipOther
    BY SMT, <1>8 DEF FlipOther, StartFlip, Counts, Held, Stopping
<1>9. CASE CalmCollector
    <2>1. CASE ThreadFlipBegin \/ AllSuspended \/ ThreadFlipEnd \/ AllStarted \/ AllFlipped
        BY <2>1 DEF ThreadFlipBegin, AllSuspended, ThreadFlipEnd, AllStarted, AllFlipped, Counts,
           Held, Stopping
    <2>2. CASE SuspendAll
        BY SMT, <2>2 DEF SuspendAll, Counts, Held, Stopping
    <2>3. CASE ResumeOthers
        BY SMT, <2>3 DEF ResumeOthers, LoweredFlags, BroadcastThen, Counts, Held, Stopping
    <2> QED BY <1>9, <2>1, <2>2, <2>3 DEF CalmCollector
<1>10. CASE UNCHANGED vars
    BY <1>10, CountsKept DEF vars
<1> QED BY <1>1, <1>2, <1>3, <1>4, <1>5, <1>6, <1>7, <1>8, <1>9, <1>10, Steps

-----------------------------------------------------------------------------
(* The count of critical sections.  It is zero when SuspendAll begins and  *)
(* cannot grow while thread_flip_running_ is set.  A step that leaves it   *)
(* alone:                                                                  *)
LEMMA CriticalKept ==
    ASSUME IInv, UNCHANGED <<disableCount, critical>>,
           \A t \in Mutators : pc'[t] = "critWait" <=> pc[t] = "critWait",
           flipRunning' <=> pc'[Collector] \in {"begin", "end"} \cup Stopping,
           pc'[Collector] \in Stopping => pc[Collector] \in Stopping \/ InCritical = {}
    PROVE  CriticalExact'
<1>1. InCritical' = InCritical
    BY DEF InCritical
<1> QED BY <1>1 DEF IInv, CriticalExact

LEMMA CriticalStep == IInv /\ [Next]_vars => CriticalExact'
<1> SUFFICES ASSUME IInv, [Next]_vars PROVE CriticalExact'
    OBVIOUS
<1> USE FlipAssumption DEF IInv, TypeOK, Threads
<1>0. /\ InCritical \in SUBSET Mutators
      /\ flipRunning <=> pc[Collector] \in {"begin", "end"} \cup Stopping
    BY DEF InCritical, CriticalExact
<1>1. ASSUME NEW t \in Threads, Flipping(t) PROVE CriticalExact'
    <2>1. /\ pc'[Collector] = pc[Collector]
             \/ {pc[Collector], pc'[Collector]} \subseteq Inside \cup {"others"}
          /\ UNCHANGED <<disableCount, critical, flipRunning>>
          /\ \A u \in Mutators : pc'[u] = "critWait" <=> pc[u] = "critWait"
      <3>0. CASE TakeFunction(t) \/ RunFunction(t)
          BY SMT, <3>0 DEF TakeFunction, RunFunction, Inside
      <3>1. CASE ClearFlags(t)
        <4>1. pc' = [pc EXCEPT ![t] = pc'[t]] /\ pc'[t] \in {"notify", after[t]}
            BY <3>1 DEF ClearFlags
        <4>2. UNCHANGED <<disableCount, critical, flipRunning>> /\ pc[t] = "clear"
            BY <3>1 DEF ClearFlags
        <4>3. t = Collector => after[t] = "others"
            BY <4>2 DEF Places, Inside
        <4> QED BY <4>1, <4>2, <4>3 DEF Inside
      <3>2. CASE Notify(t)
          BY SMT, <3>2 DEF Notify, BroadcastThen, Woken, Places, CollectorLabels, Inside, Managed
      <3> QED BY <1>1, <3>0, <3>1, <3>2 DEF Flipping
    <2> QED BY ZenonT(30), <1>0, <2>1, CriticalKept DEF Inside, Stopping
<1>2. ASSUME NEW t \in Mutators, StartOwnFlip(t) \/ WaitForFlipFunction(t) PROVE CriticalExact'
    BY SMT, <1>0, <1>2, CriticalKept DEF StartOwnFlip, StartFlip, WaitForFlipFunction
<1>3. ASSUME NEW t \in Mutators, NEW u \in Threads, HelpFlip(t, u) PROVE CriticalExact'
    BY <1>0, <1>3, CriticalKept DEF HelpFlip, StartFlip
<1>4. ASSUME NEW t \in Mutators, Moves(t) PROVE CriticalExact'
    BY SMT, <1>0, <1>4, CriticalKept DEF Moves, EnterNative, ReturnFromNative, CheckSuspend,
       BecomeRunnable, WaitForResume, Resumed, SeeFlip, HelpDone
<1>5. ASSUME NEW t \in Mutators, EnterCritical(t) PROVE CriticalExact'
    <2>1. InCritical' = InCritical
        BY SMT, <1>5 DEF EnterCritical, InCritical
    <2> QED BY <1>5, <2>1 DEF EnterCritical, CriticalExact
<1>6. ASSUME NEW t \in Mutators, IncrementDisableThreadFlip(t) PROVE CriticalExact'
    <2>1. t \notin InCritical /\ InCritical' = InCritical \cup {t}
        BY SMT, <1>6 DEF IncrementDisableThreadFlip, InCritical, Places
    <2>2. Cardinality(InCritical') = Cardinality(InCritical) + 1
        BY <1>0, <2>1, CardinalityStep
    <2> QED BY <1>6, <2>2 DEF IncrementDisableThreadFlip, CriticalExact, Stopping
<1>7. ASSUME NEW t \in Mutators, DecrementDisableThreadFlip(t) PROVE CriticalExact'
    <2>1. t \in InCritical
        BY <1>7 DEF DecrementDisableThreadFlip, InCritical
    <2>2. InCritical' = IF critical[t] = 1 THEN InCritical \ {t} ELSE InCritical
        BY SMT, <1>7 DEF DecrementDisableThreadFlip, InCritical
    <2>3. Cardinality(InCritical \ {t}) = Cardinality(InCritical) - 1
        BY <1>0, <2>1, CardinalityStep
    <2> QED BY <1>7, <2>1, <2>2, <2>3 DEF DecrementDisableThreadFlip, CriticalExact
<1>8. ASSUME NEW t \in Mutators, Others(t) PROVE CriticalExact'
    BY SMT, <1>0, <1>8, CriticalKept DEF Others, OtherRequest, OtherResume, OtherBroadcast, Woken,
       Places, CollectorLabels, Inside
<1>9. CASE SetFlipFunctions \/ FlipOther
    <2>1. CASE SetFlipFunctions
        BY SMT, <1>0, <2>1, CriticalKept DEF SetFlipFunctions, BroadcastThen, Woken, Stopping
    <2>2. CASE FlipOther
      <3>1. UNCHANGED <<disableCount, critical, flipRunning>>
          BY <2>2 DEF FlipOther
      <3>2. pc[Collector] = "others" /\ pc'[Collector] \in {"take", "others"}
          BY <2>2 DEF FlipOther, StartFlip
      <3>3. \A t \in Mutators : pc'[t] = pc[t]
          BY <2>2 DEF FlipOther, StartFlip
      <3> QED BY <1>0, <3>1, <3>2, <3>3, CriticalKept DEF Stopping
    <2> QED BY <1>9, <2>1, <2>2
<1>10. CASE CalmCollector
    <2>1. SuspendAll => InCritical = {}
        BY ZenonT(30), <1>0, CardinalityStep DEF SuspendAll, CriticalExact
    <2> QED BY SMT, <1>0, <1>10, <2>1, CriticalKept DEF CalmCollector, ThreadFlipBegin, SuspendAll,
            AllSuspended, ThreadFlipEnd, AllStarted, ResumeOthers, AllFlipped, BroadcastThen,
            Woken, Stopping
<1>11. CASE UNCHANGED vars
    BY <1>0, <1>11, CriticalKept DEF vars
<1> QED BY <1>1, <1>2, <1>3, <1>4, <1>5, <1>6, <1>7, <1>8, <1>9, <1>10, <1>11, Steps
        DEF EntersOrLeaves

-----------------------------------------------------------------------------
(* The invariant holds at first: all threads are native and no flip runs.  *)
LEMMA InitInv == Init => IInv
<1> SUFFICES ASSUME Init PROVE IInv
    OBVIOUS
<1> USE FlipAssumption DEF Init, Threads
<1>1. TypeOK
    BY ZenonT(30) DEF TypeOK, States, Flags, Labels
<1>2. Places
    BY DEF Places, CollectorLabels, MutatorLabels, Inside, Managed
<1>3. Runners /\ Once
    BY DEF Runners, Once, Runs, Started, FlipLabels, Stopping
<1>4. Counts
    BY SMT DEF Counts, Held, Stopping
<1>5. InCritical = {}
    BY SMT DEF InCritical
<1>6. CriticalExact
    BY <1>5, FS_EmptySet DEF CriticalExact, Stopping
<1> QED BY <1>1, <1>2, <1>3, <1>4, <1>6 DEF IInv

(* The invariant holds in every reachable state, for any finite set of     *)
(* mutators and any bound on the calls.                                    *)
THEOREM Invariance == Spec => []IInv
<1>1. IInv /\ [Next]_vars => IInv'
    BY TypeStep, PlacesStep, RunnersStep, OnceStep, CountsStep, CriticalStep DEF IInv
<1> QED BY InitInv, <1>1, PTL DEF Spec

(* No mutator touches the heap with a flip function left to run or under   *)
(* way, and a function that another thread runs (the collector, or a       *)
(* caller of GetPeerFromOtherThread) finds its thread not runnable, as     *)
(* ThreadFlipVisitor::Run checks.                                          *)
THEOREM FlippedFirst == Spec => []FlippedBeforeUse
<1>1. IInv => FlippedBeforeUse
    <2> SUFFICES ASSUME IInv PROVE FlippedBeforeUse
        OBVIOUS
    <2> USE FlipAssumption DEF IInv, TypeOK, Threads, Places, Inside, Managed
    <2>1. ASSUME NEW t \in Mutators, pc[t] \in Managed
          PROVE  t \notin flipFunction /\ {"Pending", "Running"} \cap flags[t] = {}
        BY SMT, <2>1 DEF Runners, Runs, FlipLabels, Once
    <2>2. ASSUME NEW r \in Threads, pc[r] \in {"take", "flip"}, subject[r] # r
          PROVE  state[subject[r]] # "Runnable"
        BY SMT, <2>2 DEF Runners, Runs, FlipLabels, Once
    <2> QED BY <2>1, <2>2 DEF FlippedBeforeUse
<1> QED BY <1>1, Invariance, PTL

(* While flip_callback runs no mutator is runnable and none is inside a    *)
(* JNI critical section.                                                   *)
THEOREM WorldStopped == Spec => []StoppedForFlip
<1>1. IInv => StoppedForFlip
    BY ZenonT(30) DEF IInv, StoppedForFlip, Counts, CriticalExact, InCritical, Stopping
<1> QED BY <1>1, Invariance, PTL

(* A flip function runs once in a flip and on one thread at a time, and    *)
(* flip_callback finds no trace of the last: what SetFlipFunction asserts. *)
THEOREM EachFlippedOnce == Spec => []FlippedOnce
<1>1. IInv => FlippedOnce
    <2> SUFFICES ASSUME IInv PROVE FlippedOnce
        OBVIOUS
    <2> USE FlipAssumption DEF IInv, TypeOK, Threads, Runners, Runs, FlipLabels
    <2>1. \A t \in Threads : runs[t] <= 1
        BY SMT DEF Once
    <2>2. ASSUME pc[Collector] = "callback", NEW t \in Threads
          PROVE  t \notin flipFunction /\ flags[t] \cap FlipFunctionFlags = {}
        <3>1. t \notin flipFunction
            BY <2>2 DEF Once, Started, Stopping
        <3>2. \A r \in Threads : pc[r] \notin FlipLabels
            BY <2>2 DEF Counts, Places, Inside
        <3> QED BY SMT, <3>1, <3>2 DEF FlipFunctionFlags
    <2> QED BY SMT, <2>1, <2>2 DEF FlippedOnce
<1> QED BY <1>1, Invariance, PTL
=============================================================================
