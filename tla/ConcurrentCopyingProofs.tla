---------------------- MODULE ConcurrentCopyingProofs ----------------------
(***************************************************************************)
(* The safety properties of ConcurrentCopying for any number of mutators,  *)
(* any heap and any program of the mutators.                               *)
(***************************************************************************)
EXTENDS ConcurrentCopying, TLAPS

-----------------------------------------------------------------------------
(* The inductive invariant.                                                *)

Reading == {"state", "gray", "plain", "test", "cas", "push"}
Waiting == {"check", "slowLock", "slowCheck", "slowEc", "slowWait", "waiting",
            "lock", "lockEc", "lockSleep", "asleep"}
Labels == {"idle", "native"} \cup Reading \cup Waiting

Asking == {"ecBroadcast", "ecWake", "ecWait"}
LocalLabels == {"revoke", "setup", "switch"}
SharedLabels == {"pause", "ecAsk", "exclusive"} \cup Asking
EndLabels == {"reenable", "rebroadcast", "disable"}
ExclusiveLabels == {"markingDone", "clear", "assign", "clearingDone", "finalizers"} \cup EndLabels
GcLabels == LocalLabels \cup SharedLabels \cup ExclusiveLabels \cup {"drainRevoked", "drain", "done"}

Values == Objects \cup {None}

TypeOK ==
    /\ field \in [Objects -> Values] /\ referent \in [References -> Values]
    /\ gray \in SUBSET Objects /\ bit \in SUBSET Objects
    /\ pc \in [Mutators -> Labels] /\ op \in [Mutators -> Operations \cup {None}]
    /\ holder \in [Mutators -> Values] /\ ref \in [Mutators -> Values]
    /\ held \in [Mutators -> SUBSET Objects] /\ local \in [Mutators -> SUBSET Objects]
    /\ enabled \in [Mutators -> BOOLEAN] /\ marking \in [Mutators -> BOOLEAN]
    /\ sinceNull \in [Mutators -> BOOLEAN] /\ nulled \in SUBSET References
    /\ asked \in SUBSET Mutators /\ waitFor \in SUBSET Mutators
    /\ gcPc \in GcLabels /\ mode \in {"local", "shared", "exclusive", "off"}
    /\ gcStack \in SUBSET Objects /\ revoked \in SUBSET Objects
    /\ scanned \in Values /\ found \in BOOLEAN
    /\ rpState \in {"off", "starting", "markingDone", "clearingDone"}
    /\ weakQueue \in SUBSET References
    /\ current \in [ref : References \cup {None}, to : Values]

(* A mutator in an operation reads from an object it holds.                *)
Operating ==
    \A m \in Mutators :
        /\ pc[m] \in Reading \cup Waiting =>
            /\ holder[m] \in held[m]
            /\ op[m] \in {"load", "get", "lockedGet", "clear"}
            /\ op[m] = "load" => pc[m] \in Reading
            /\ op[m] # "load" => holder[m] \in References
        /\ pc[m] \in {"test", "cas", "push"} => ref[m] \in Objects

(* Where the collector is, what the flags are and which stacks are empty.  *)
Disabled == (mode = "shared" /\ gcPc # "pause") \/
            (mode = "exclusive" /\ gcPc \notin {"rebroadcast", "disable"})
Phases ==
    /\ gcPc \in LocalLabels => mode = "local"
    /\ gcPc \in SharedLabels => mode = "shared"
    /\ gcPc \in ExclusiveLabels => mode = "exclusive"
    /\ gcPc = "drainRevoked" => mode \in {"local", "shared"}
    /\ gcPc = "done" <=> mode = "off"
    /\ mode = "local" => rpState = IF gcPc = "switch" THEN "starting" ELSE "off"
    /\ mode = "shared" \/ gcPc = "markingDone" => rpState = "starting"
    /\ gcPc \in {"clear", "assign"} => rpState \in {"markingDone", "clearingDone"}
    /\ gcPc = "clearingDone" => rpState = "markingDone"
    /\ gcPc \in EndLabels \cup {"finalizers", "done"} => rpState = "clearingDone"
    /\ gcPc = "drain" /\ mode = "exclusive" => rpState = "clearingDone"
Flags ==
    /\ \A m \in Mutators : enabled[m] <=> ~Disabled
    /\ \A m \in Mutators : ~marking[m] => gcPc \in {"disable", "done"}
    /\ asked = IF gcPc \in Asking THEN waitFor ELSE {}
Stacks ==
    /\ gcPc \notin {"revoke", "drainRevoked"} => revoked = {}
    /\ mode \in {"exclusive", "off"} \/ Disabled => \A m \in Mutators : local[m] = {}
    /\ gcPc = "exclusive" \/ (mode \in {"exclusive", "off"} /\ gcPc # "drain") => gcStack = {}
    /\ gcPc \notin {"drain", "drainRevoked"} => scanned = None
    /\ gcPc \in EndLabels \cup {"clearingDone", "finalizers", "done"} => weakQueue = {}

(* While weak reference access is disabled, the mutators read only fields. *)
OnlyLoads ==
    Disabled /\ rpState # "clearingDone" =>
        \A m \in Mutators : pc[m] \in Reading => op[m] = "load"

Queued(r) == r \in weakQueue \/ (gcPc = "assign" /\ r = current.ref)

(* A gray object is on exactly one stack, about to be pushed, about to be  *)
(* blackened, or a queued Reference.                                       *)
GrayTracked ==
    \A o \in gray :
        \/ o \in gcStack \cup revoked
        \/ \E m \in Mutators : o \in local[m] \/ (pc[m] = "push" /\ o = ref[m])
        \/ o = scanned \/ Queued(o)
StacksGray ==
    /\ gcStack \subseteq gray /\ revoked \subseteq gray /\ gcStack \cap revoked = {}
    /\ scanned # None => scanned \in gray \cap bit /\ scanned \notin gcStack \cup revoked
    /\ \A m \in Mutators :
        /\ local[m] \subseteq gray /\ local[m] \cap (gcStack \cup revoked \cup {scanned}) = {}
        /\ pc[m] = "push" => /\ ref[m] \in gray
                             /\ ref[m] \notin gcStack \cup revoked \cup {scanned}
    /\ \A m, n \in Mutators :
        /\ pc[m] = "push" => ref[m] \notin local[n]
        /\ m # n /\ pc[m] = "push" /\ pc[n] = "push" => ref[m] # ref[n]
        /\ m # n => local[m] \cap local[n] = {}

(* An object that has been scanned refers to marked objects, and so does a *)
(* Reference, unless it is gray and in the queue.                          *)
Visited(o) ==
    /\ o \in Marked
    /\ o \notin gray \/ (o \in bit /\ o \notin Moving) \/ o = scanned \/ Queued(o)
Scanned ==
    /\ \A o \in Objects : Visited(o) => field[o] \in Marked \cup {None}
    /\ \A r \in References :
        Visited(r) => referent[r] \in Marked \cup {None} \/ (Queued(r) /\ r \in gray)
    /\ \A r \in References : Queued(r) => r \in bit
    /\ gcPc = "assign" => current.ref \in References /\ referent[current.ref] = current.to

(* What is read from an object that was not gray is marked.                *)
PlainMarked ==
    \A m \in Mutators : pc[m] = "plain" =>
        IF op[m] = "load" THEN field[holder[m]] \in Marked \cup {None}
        ELSE referent[holder[m]] \in Marked \cup {None}

(* A mutator that will not gray anything, unless it reads from an object   *)
(* that another mutator has just made gray.                                *)
Clean(m) ==
    /\ pc[m] \notin {"cas", "push"}
    /\ pc[m] = "test" => ref[m] \in bit
    /\ pc[m] = "gray" => field[holder[m]] \in bit \cup {None}

(* An empty checkpoint flushes the mutators: those that have answered are  *)
(* clean, unless something was pushed or is going to be before its end.    *)
Flushed ==
    gcPc \in Asking /\ gcStack = {} =>
        \/ \A m \in Mutators \ waitFor : Clean(m)
        \/ \E m \in waitFor : pc[m] = "push"

(* So they all are when the collector has found nothing after it.          *)
Quiescent ==
    \/ gcPc = "drain" /\ mode = "shared" /\ ~found /\ gcStack = {}
    \/ gcPc = "exclusive" \/ mode = "exclusive"
AllClean ==
    Quiescent /\ rpState # "clearingDone" => \A m \in Mutators : Clean(m)

(* From then on the mutators stay within a set of objects that the         *)
(* collector is done with, while it marks for the finalizers.              *)
Within(S) ==
    /\ S \subseteq Marked \ gray
    /\ \A o \in S : field[o] \in S \cup {None}
    /\ \A r \in References \cap S : referent[r] \in S \cup {None}
    /\ \A m \in Mutators :
        /\ held[m] \subseteq S
        /\ pc[m] \notin {"cas", "push"}
        /\ pc[m] = "test" => ref[m] \in S
Confined == rpState = "clearingDone" => \E S \in SUBSET Objects : Within(S)

(* A Reference for which null was returned has no referent, or one that is *)
(* going to be cleared.                                                    *)
NullKept ==
    /\ nulled \subseteq Marked
    /\ \A r \in nulled :
        referent[r] = None \/ (rpState = "markingDone" /\ referent[r] \notin Marked)
CalledSince ==
    \A m \in Mutators : sinceNull[m] =>
        /\ holder[m] \in nulled /\ op[m] # "load"
        /\ pc[m] \notin {"idle", "native", "test", "cas", "push"}

IInv ==
    /\ TypeOK /\ Operating /\ Phases /\ Flags /\ Stacks /\ OnlyLoads
    /\ GrayTracked /\ StacksGray /\ Scanned /\ PlainMarked
    /\ Flushed /\ AllClean /\ Confined /\ NullKept /\ CalledSince /\ ToSpaceInvariant

USE DEF heapVars, callVars, flagVars, lockVars, drainVars, rpVars, gcVars, heapAndGc, mutatorVars,
        gcOnly, Goto

-----------------------------------------------------------------------------
(* What the steps do to the heap, the mark stacks and the mutators.        *)

(* Nothing, but that mutators outside an operation or waiting in one may   *)
(* move on.                                                                *)
SamePlace(m) ==
    \/ pc'[m] = pc[m]
    \/ pc[m] \in Waiting /\ pc'[m] \in Waiting
    \/ pc[m] \in {"idle", "native"} /\ pc'[m] \in {"idle", "native"}
HeapKept ==
    UNCHANGED <<field, referent, gray, bit, op, holder, ref, held, local, gcStack, revoked,
                scanned, weakQueue, current, nulled, sinceNull>>
Control ==
    /\ HeapKept
    /\ gcPc' = "assign" <=> gcPc = "assign"
    /\ pc' \in [Mutators -> Labels] /\ \A m \in Mutators : SamePlace(m)

Value(m) == IF op[m] = "load" THEN field[holder[m]] ELSE referent[holder[m]]
CollectorKept == UNCHANGED <<flagVars, gcVars>>

(* The mutator reads on.                                                   *)
Reads(m) ==
    /\ UNCHANGED <<heapVars, op, holder, sinceNull, held, local, gcStack, nulled>>
    /\ CollectorKept
    /\ pc' = [pc EXCEPT ![m] = pc'[m]]
    /\ \/ /\ pc[m] = "state" /\ pc'[m] = IF holder[m] \in gray THEN "gray" ELSE "plain"
          /\ UNCHANGED ref
       \/ /\ pc[m] = "gray" /\ pc'[m] = "test" /\ Value(m) # None /\ marking[m]
          /\ ref' = [ref EXCEPT ![m] = Value(m)]
       \/ pc[m] = "test" /\ pc'[m] = "cas" /\ ref[m] \notin bit /\ UNCHANGED ref
       \/ /\ pc[m] \in {"check", "slowCheck"} /\ pc'[m] = "state"
          /\ enabled[m] \/ rpState = "clearingDone"
          /\ UNCHANGED ref

(* It returns v.                                                           *)
Returns(m, v) ==
    /\ Finish(m, v)
    /\ UNCHANGED <<field, gray, bit, local, gcStack>>
    /\ CollectorKept
    /\ \/ /\ pc[m] \in {"gray", "plain"} /\ v = Value(m)
          /\ v = None \/ pc[m] = "plain" \/ ~marking[m]
          /\ UNCHANGED referent
       \/ /\ pc[m] = "test" /\ v = ref[m] /\ ref[m] \in bit /\ UNCHANGED referent
       \/ /\ pc[m] = "cas" /\ v = ref[m] /\ ref[m] \in Marked /\ UNCHANGED referent
       \/ /\ pc[m] = "check" /\ v = None /\ referent[holder[m]] = None /\ UNCHANGED referent
       \/ /\ pc[m] = "slowCheck" /\ op[m] = "clear" /\ enabled[m] /\ v = None
          /\ referent' = [referent EXCEPT ![holder[m]] = None]
       \/ /\ pc[m] = "slowCheck" /\ op[m] # "clear" /\ rpState = "markingDone"
          /\ v = Predicted(holder[m]) /\ UNCHANGED referent

(* It makes an object gray, and pushes it.                                 *)
Grays(m) ==
    /\ pc[m] = "cas" /\ CanGray(ref[m])
    /\ gray' = gray \cup {ref[m]} /\ bit' = bit \cup ({ref[m]} \cap Moving)
    /\ Goto(m, "push")
    /\ UNCHANGED <<field, referent, op, holder, ref, sinceNull, held, local, gcStack, nulled>>
    /\ CollectorKept

(* It begins to read from o, or stores into it.                            *)
Begins(m) ==
    \E o \in held[m], operation \in {"load", "get", "lockedGet", "clear"} :
        /\ pc[m] = "idle"
        /\ operation # "load" => o \in References
        /\ \E l \in {"state", "check", "lock", "slowLock"} :
            Goto(m, l) /\ (operation = "load" <=> l = "state")
        /\ op' = [op EXCEPT ![m] = operation]
        /\ holder' = [holder EXCEPT ![m] = o]
        /\ sinceNull' = [sinceNull EXCEPT ![m] = operation # "load" /\ o \in nulled]
        /\ UNCHANGED <<heapVars, ref, held, local, gcStack, nulled>>
        /\ CollectorKept
Stores(m) ==
    \E o \in held[m], v \in held[m] \cup {None} :
        /\ pc[m] = "idle"
        /\ field' = [field EXCEPT ![o] = v]
        /\ UNCHANGED <<pc, referent, gray, bit, op, holder, ref, sinceNull, held, local, gcStack,
                       nulled>>
        /\ CollectorKept

(* Most steps need only first-order reasoning; SMT is cited where one needs *)
(* more.                                                                   *)
USE ZenonT(40)

LEMMA ContinueSteps ==
    ASSUME TypeOK, Operating, NEW m \in Mutators, Continue(m)
    PROVE  \/ Control /\ UNCHANGED <<enabled, marking, gcPc, mode, found, rpState>>
              /\ (CollectorKept \/ AnswerRequest(m))
           \/ Reads(m) \/ (\E v \in Values : Returns(m, v)) \/ Grays(m)
           \/ PushOntoMarkStack(m)
<1> USE DEF CollectorKept
<1>1. CASE ReadState(m)
    BY <1>1 DEF ReadState, Reads, TypeOK
<1>2. CASE ReadField(m)
    <2>0. Value(m) \in Values
        BY ZenonT(30), <1>2 DEF ReadField, Value, TypeOK, Operating, Values, Reading
    <2>1. CASE /\ Finish(m, Value(m))
               /\ Value(m) = None \/ pc[m] = "plain" \/ ~marking[m]
        <3>1. Returns(m, Value(m))
            BY <2>1, <1>2 DEF ReadField, Returns, Value
        <3> QED BY <2>0, <3>1
    <2>2. CASE /\ Value(m) # None /\ pc[m] = "gray" /\ marking[m]
               /\ Goto(m, "test") /\ ref' = [ref EXCEPT ![m] = Value(m)]
               /\ UNCHANGED <<op, holder, calls, sinceNull, held, lockVars, nulled>>
        BY <2>2, <1>2 DEF ReadField, Reads, TypeOK
    <2> QED BY <2>1, <2>2, <1>2 DEF ReadField, Value
<1>3. CASE TestBit(m)
    BY <1>3 DEF TestBit, Returns, Reads, TypeOK, Values
<1>4. CASE SetGray(m)
    BY <1>4 DEF SetGray, Returns, Grays, CanGray, Marked, TypeOK, Values
<1>5. CASE CheckAccess(m)
    BY ZenonT(30), <1>5 DEF CheckAccess, Returns, Reads, TypeOK, Values, Control, HeapKept, SamePlace, Labels, Waiting
<1>6. CASE SlowLock(m) \/ SlowWait(m) \/ LockMutex(m) \/ NoRequest(m)
    BY <1>6 DEF SlowLock, SlowWait, LockMutex, NoRequest, TypeOK, Control, HeapKept, SamePlace,
                Labels, Waiting
<1>7. CASE SlowCheck(m)
    <2>0. None \in Values /\ Predicted(holder[m]) \in Values
        BY <1>7 DEF SlowCheck, Values, Predicted, Operating, Waiting, TypeOK, Marked
    <2>1. CASE op[m] = "clear" /\ enabled[m]
        BY <2>0, <2>1, <1>7 DEF SlowCheck, Returns
    <2>2. CASE op[m] # "clear" /\ (enabled[m] \/ rpState = "clearingDone")
        BY <2>2, <1>7 DEF SlowCheck, Reads, TypeOK
    <2>3. CASE op[m] # "clear" /\ ~enabled[m] /\ rpState = "markingDone"
        BY <2>0, <2>3, <1>7 DEF SlowCheck, Returns
    <2>4. CASE Goto(m, "slowEc") /\ UNCHANGED <<referent, callVars, held, lockVars, nulled>>
        BY <2>4, <1>7 DEF SlowCheck, TypeOK, Control, HeapKept, SamePlace, Labels, Waiting
    <2> QED BY <2>1, <2>2, <2>3, <2>4, <1>7 DEF SlowCheck
<1>8. CASE AnswerRequest(m)
    BY <1>8 DEF AnswerRequest, RunEmptyCheckpoint, TypeOK, Control, HeapKept, SamePlace
<1> QED BY <1>1, <1>2, <1>3, <1>4, <1>5, <1>6, <1>7, <1>8 DEF Continue

(* The effect of Begins and Reads on each mutator.                         *)
LEMMA BeginsEffect ==
    ASSUME TypeOK, NEW m \in Mutators, Begins(m)
    PROVE  /\ UNCHANGED <<heapVars, ref, held, local, gcStack, nulled, rpState>>
           /\ pc'[m] \in {"state", "check", "lock", "slowLock"}
           /\ sinceNull'[m] => holder'[m] \in nulled /\ op'[m] # "load"
           /\ \A n \in Mutators : n # m =>
                UNCHANGED <<pc[n], op[n], holder[n], sinceNull[n]>>
<1>1. PICK o \in held[m], operation \in {"load", "get", "lockedGet", "clear"},
           l \in {"state", "check", "lock", "slowLock"} :
        /\ Goto(m, l) /\ op' = [op EXCEPT ![m] = operation]
        /\ holder' = [holder EXCEPT ![m] = o]
        /\ sinceNull' = [sinceNull EXCEPT ![m] = operation # "load" /\ o \in nulled]
    BY DEF Begins
<1>2. UNCHANGED <<heapVars, ref, held, local, gcStack, nulled, rpState>>
    BY DEF Begins, CollectorKept
<1>3. pc'[m] = l /\ op'[m] = operation /\ holder'[m] = o
      /\ (sinceNull'[m] => operation # "load" /\ o \in nulled)
    BY <1>1 DEF TypeOK
<1>4. \A n \in Mutators : n # m => UNCHANGED <<pc[n], op[n], holder[n], sinceNull[n]>>
    BY <1>1 DEF TypeOK
<1> QED BY <1>2, <1>3, <1>4

LEMMA FinishEffect ==
    ASSUME TypeOK, NEW m \in Mutators, NEW v \in Values, Finish(m, v)
    PROVE  /\ pc'[m] = "idle" /\ held'[m] = held[m] \cup ({v} \ {None})
           /\ \A n \in Mutators : n # m =>
                /\ pc'[n] = pc[n] \/ (pc[n] = "asleep" /\ pc'[n] = "lock")
                /\ UNCHANGED <<held[n], holder[n], ref[n], op[n], sinceNull[n]>>
BY DEF Finish, TypeOK

LEMMA ReadsEffect ==
    ASSUME TypeOK, NEW m \in Mutators, Reads(m)
    PROVE  /\ UNCHANGED <<heapVars, op, holder, held, sinceNull, nulled, rpState>>
           /\ pc[m] \in {"state", "gray", "test", "check", "slowCheck"}
           /\ pc'[m] \in {"gray", "plain", "test", "cas", "state"}
           /\ pc'[m] = "test" => pc[m] = "gray" /\ Value(m) # None
           /\ pc'[m] = "cas" => pc[m] = "test"
           /\ \A n \in Mutators : n # m => UNCHANGED <<pc[n], ref[n]>>
BY DEF TypeOK, Reads, CollectorKept

LEMMA BeginSteps ==
    ASSUME TypeOK, NEW m \in Mutators, BeginOperation(m)
    PROVE  Begins(m) \/ Stores(m) \/ (Control /\ CollectorKept)
<1> USE DEF CollectorKept
<1>1. CASE Load(m)
    BY <1>1 DEF Load, Access, Begin, Begins
<1>2. CASE Store(m)
    BY <1>2 DEF Store, Begin, Stores
<1>3. CASE GetReferent(m)
    BY <1>3 DEF GetReferent, Access, Begin, Begins
<1>4. CASE ClearReferent(m)
    BY <1>4 DEF ClearReferent, Access, Begin, Begins
<1>5. CASE ToNative(m) \/ FromNative(m)
    BY <1>5 DEF ToNative, FromNative, Begin, TypeOK, Control, HeapKept, SamePlace, Labels
<1> QED BY <1>1, <1>2, <1>3, <1>4, <1>5 DEF BeginOperation

(* The steps of the collector that only decide what it does next.          *)
Decides ==
    \/ EndOfRevoked \/ EndOfOnce \/ Setup \/ SwitchMode \/ RequestEmptyCheckpoint
    \/ BroadcastForSlowPath \/ WakeupToRespond \/ WaitForBarrier \/ SwitchToGcExclusive
    \/ AdvanceRpState \/ ReenableWeakRefAccess \/ BroadcastForAccess \/ DisableMarking

LEMMA DecidesControl == ASSUME TypeOK, Decides PROVE Control
<1> USE DEF TypeOK, Control, HeapKept, SamePlace, Labels, Waiting
<1>1. CASE EndOfRevoked \/ EndOfOnce \/ Setup \/ SwitchMode
    BY <1>1 DEF EndOfRevoked, EndOfOnce, Setup, SwitchMode
<1>2. CASE RequestEmptyCheckpoint \/ WaitForBarrier \/ SwitchToGcExclusive
    BY <1>2 DEF RequestEmptyCheckpoint, WaitForBarrier, SwitchToGcExclusive
<1>3. CASE BroadcastForSlowPath \/ WakeupToRespond \/ BroadcastForAccess
    BY <1>3 DEF BroadcastForSlowPath, WakeupToRespond, BroadcastForAccess, Broadcast
<1>4. CASE AdvanceRpState
    BY SMT, <1>4 DEF AdvanceRpState, Broadcast
<1>5. CASE ReenableWeakRefAccess \/ DisableMarking
    BY <1>5 DEF ReenableWeakRefAccess, DisableMarking
<1> QED BY <1>1, <1>2, <1>3, <1>4, <1>5 DEF Decides

(* All that the steps do to the heap.                                      *)
MutatorStep ==
    \E m \in Mutators :
        \/ Reads(m) \/ (\E v \in Values : Returns(m, v)) \/ Grays(m) \/ PushOntoMarkStack(m)
        \/ Begins(m) \/ Stores(m)
CollectorStep ==
    \/ RevokeThreadLocalMarkStack \/ ProcessMarkStackRef \/ Blacken \/ DisableWeakRefAccess
    \/ DequeueReference \/ ClearWhiteReference \/ EnqueueFinalizerReferences
Idles ==
    /\ Control /\ UNCHANGED <<enabled, marking, gcPc, mode, found, rpState>>
    /\ CollectorKept \/ \E m \in Mutators : AnswerRequest(m)

LEMMA Steps == IInv /\ [Next]_vars => MutatorStep \/ Idles \/ CollectorStep \/ Decides
<1> SUFFICES ASSUME IInv, [Next]_vars PROVE MutatorStep \/ Idles \/ CollectorStep \/ Decides
    OBVIOUS
<1>0. TypeOK /\ Operating
    BY DEF IInv
<1>1. ASSUME NEW m \in Mutators, Continue(m) PROVE MutatorStep \/ Idles
    BY <1>0, <1>1, ContinueSteps DEF MutatorStep, Idles
<1>2. ASSUME NEW m \in Mutators, BeginOperation(m) PROVE MutatorStep \/ Idles
    BY <1>0, <1>2, BeginSteps DEF MutatorStep, Idles, CollectorKept
<1>3. CASE Collector
    BY <1>3 DEF Collector, CollectorStep, Decides
<1>4. CASE UNCHANGED vars
    BY <1>0, <1>4 DEF vars, Idles, CollectorKept, Control, HeapKept, SamePlace, TypeOK
<1> QED BY <1>1, <1>2, <1>3, <1>4 DEF Next

-----------------------------------------------------------------------------
(* The invariant is kept, one part after the other.                        *)

LEMMA DecidesTyped ==
    ASSUME TypeOK, Decides
    PROVE  /\ enabled' \in [Mutators -> BOOLEAN] /\ marking' \in [Mutators -> BOOLEAN]
           /\ asked' \in SUBSET Mutators /\ waitFor' \in SUBSET Mutators
           /\ gcPc' \in GcLabels /\ mode' \in {"local", "shared", "exclusive", "off"}
           /\ found' \in BOOLEAN
           /\ rpState' \in {"off", "starting", "markingDone", "clearingDone"}
<1>0. /\ enabled \in [Mutators -> BOOLEAN] /\ marking \in [Mutators -> BOOLEAN]
      /\ asked \in SUBSET Mutators /\ waitFor \in SUBSET Mutators
      /\ gcPc \in GcLabels /\ mode \in {"local", "shared", "exclusive", "off"}
      /\ found \in BOOLEAN
      /\ rpState \in {"off", "starting", "markingDone", "clearingDone"}
    BY DEF TypeOK
<1> USE <1>0 DEF GcLabels, LocalLabels, SharedLabels, ExclusiveLabels, EndLabels, Asking
<1>1. CASE EndOfRevoked \/ Setup \/ SwitchMode
    BY <1>1 DEF EndOfRevoked, Setup, SwitchMode
<1>2. CASE EndOfOnce
    BY <1>2 DEF EndOfOnce, MarkStackDone
<1>3. CASE RequestEmptyCheckpoint \/ WaitForBarrier \/ SwitchToGcExclusive
    BY <1>3 DEF RequestEmptyCheckpoint, WaitForBarrier, SwitchToGcExclusive
<1>4. CASE BroadcastForSlowPath \/ WakeupToRespond \/ BroadcastForAccess
    BY <1>4 DEF BroadcastForSlowPath, WakeupToRespond, BroadcastForAccess
<1>5. CASE AdvanceRpState \/ ReenableWeakRefAccess
    BY <1>5 DEF AdvanceRpState, ReenableWeakRefAccess
<1>6. CASE DisableMarking
    BY <1>6 DEF DisableMarking
<1> QED BY <1>1, <1>2, <1>3, <1>4, <1>5, <1>6 DEF Decides

LEMMA TypeStep == IInv /\ [Next]_vars => TypeOK'
<1> SUFFICES ASSUME IInv, [Next]_vars PROVE TypeOK'
    OBVIOUS
<1>0. TypeOK /\ Operating
    BY DEF IInv
<1> USE <1>0, CopyingAssumption DEF TypeOK, Values
<1>1. ASSUME NEW m \in Mutators, Reads(m) \/ Grays(m) PROVE TypeOK'
    BY SMT, <1>1 DEF Reads, Grays, CollectorKept, Value, Labels, Reading, Operating
<1>2. ASSUME NEW m \in Mutators, NEW v \in Values, Returns(m, v) PROVE TypeOK'
    <2>1. pc' \in [Mutators -> Labels] /\ held' \in [Mutators -> SUBSET Objects]
        BY <1>2 DEF Returns, Finish, Labels, Waiting
    <2>2. holder' \in [Mutators -> Values] /\ ref' \in [Mutators -> Values]
          /\ op' \in [Mutators -> Operations \cup {None}] /\ sinceNull' \in [Mutators -> BOOLEAN]
        BY <1>2 DEF Returns, Finish
    <2>3. nulled' \in SUBSET References /\ referent' \in [References -> Values]
        BY SMT, <1>2 DEF Returns, Finish, Operating, Reading, Waiting
    <2> QED BY <1>2, <2>1, <2>2, <2>3 DEF Returns, CollectorKept
<1>3. ASSUME NEW m \in Mutators, PushOntoMarkStack(m) PROVE TypeOK'
    <2>1. pc' \in [Mutators -> Labels] /\ held' \in [Mutators -> SUBSET Objects]
        BY SMT, <1>3 DEF PushOntoMarkStack, Finish, Labels, Waiting, Operating
    <2>2. holder' \in [Mutators -> Values] /\ ref' \in [Mutators -> Values]
          /\ op' \in [Mutators -> Operations \cup {None}] /\ sinceNull' \in [Mutators -> BOOLEAN]
        BY <1>3 DEF PushOntoMarkStack, Finish
    <2>3. nulled' = nulled
        BY ZenonT(30), <1>3 DEF PushOntoMarkStack, Finish, Operating
    <2> QED BY SMT, <1>3, <2>1, <2>2, <2>3 DEF PushOntoMarkStack, Operating
<1>4. ASSUME NEW m \in Mutators, Begins(m) PROVE TypeOK'
    BY SMT, <1>4 DEF Begins, CollectorKept, Labels, Reading, Waiting, Operations
<1>10. ASSUME NEW m \in Mutators, Stores(m) PROVE TypeOK'
    <2>1. field' \in [Objects -> Values]
        BY SMT, <1>10 DEF Stores
    <2> QED BY SMT, <1>10, <2>1 DEF Stores, CollectorKept
<1>5. CASE Idles
    BY ZenonT(30), <1>5 DEF Idles, Control, HeapKept, CollectorKept, AnswerRequest, RunEmptyCheckpoint
<1>6. CASE RevokeThreadLocalMarkStack
    BY SMT, <1>6 DEF RevokeThreadLocalMarkStack, GcLabels
<1>11. CASE DisableWeakRefAccess
    <2>1. UNION {local[m] : m \in Mutators} \subseteq Objects
        BY SMT
    <2> QED BY <1>11, <2>1 DEF DisableWeakRefAccess, GcLabels
<1>7. CASE ProcessMarkStackRef
    <2>1. PICK o \in Objects, stack \in SUBSET Objects : Scan(o, stack)
        BY <1>7 DEF ProcessMarkStackRef
    <2>2. gray' \in SUBSET Objects /\ bit' \in SUBSET Objects /\ gcStack' \in SUBSET Objects
          /\ weakQueue' \in SUBSET References
        BY SMT, <2>1 DEF Scan
    <2>3. found' \in BOOLEAN /\ revoked' \in SUBSET Objects
        BY ZenonT(30), <1>7 DEF ProcessMarkStackRef
    <2> QED BY <2>1, <2>2, <2>3 DEF Scan
<1>8. CASE Blacken \/ DequeueReference \/ ClearWhiteReference \/ EnqueueFinalizerReferences
    BY SMT, <1>8 DEF Blacken, DequeueReference, ClearWhiteReference, EnqueueFinalizerReferences,
                GcLabels, ExclusiveLabels, EndLabels
<1>9. CASE Decides
    <2>1. Control
        BY <1>9, DecidesControl
    <2> QED BY <1>9, <2>1, DecidesTyped DEF Control, HeapKept
<1> QED BY <1>1, <1>2, <1>3, <1>4, <1>5, <1>6, <1>7, <1>8, <1>9, <1>10, <1>11,
         Steps DEF MutatorStep, CollectorStep

(* What the collector leaves to the mutators.                              *)
LEMMA CollectorKeeps ==
    ASSUME CollectorStep
    PROVE  UNCHANGED <<field, pc, op, holder, ref, held, nulled, sinceNull, marking, mode, rpState>>
BY DEF CollectorStep, RevokeThreadLocalMarkStack, ProcessMarkStackRef, Scan, Blacken,
       DisableWeakRefAccess, DequeueReference, ClearWhiteReference, EnqueueFinalizerReferences

LEMMA OperatingStep == IInv /\ [Next]_vars => Operating'
<1> SUFFICES ASSUME IInv, [Next]_vars PROVE Operating'
    OBVIOUS
<1>0. TypeOK /\ Operating
    BY DEF IInv
<1> USE <1>0 DEF TypeOK, Operating, Reading, Waiting
<1>1. ASSUME NEW m \in Mutators, Reads(m) PROVE Operating'
    BY SMT, <1>1, CopyingAssumption DEF Reads, Value, Values
<1>2. ASSUME NEW m \in Mutators, NEW v \in Values, Returns(m, v) \/ PushOntoMarkStack(m) PROVE Operating'
    BY SMT, <1>2 DEF Returns, PushOntoMarkStack, Finish
<1>3. ASSUME NEW m \in Mutators, Grays(m) PROVE Operating'
    BY ZenonT(30), <1>3 DEF Grays
<1>4. ASSUME NEW m \in Mutators, Begins(m) \/ Stores(m) PROVE Operating'
    BY SMT, <1>4 DEF Begins, Stores
<1>5. CASE Control
    BY ZenonT(30), <1>5 DEF Control, HeapKept, SamePlace
<1>6. CASE CollectorStep
    BY ZenonT(30), <1>6, CollectorKeeps
<1> QED BY <1>1, <1>2, <1>3, <1>4, <1>5, <1>6, DecidesControl, Steps DEF MutatorStep, Idles, Values

(* What the mutators leave to the collector.                               *)
LEMMA MutatorKept ==
    ASSUME MutatorStep \/ Idles
    PROVE  UNCHANGED <<enabled, marking, gcPc, mode, revoked, scanned, found, emptyPrev, rpState,
                       weakQueue, current>>
BY ZenonT(30) DEF MutatorStep, Idles, Reads, Returns, Grays, PushOntoMarkStack, Begins, Stores, CollectorKept,
       AnswerRequest, RunEmptyCheckpoint

LEMMA PhasesStep == IInv /\ [Next]_vars => Phases'
<1> SUFFICES ASSUME IInv, [Next]_vars PROVE Phases'
    OBVIOUS
<1>0. Phases
    BY DEF IInv
<1> USE <1>0 DEF Phases, LocalLabels, SharedLabels, ExclusiveLabels, EndLabels, Asking
<1>1. CASE MutatorStep \/ Idles
    BY <1>1, MutatorKept
<1>2. CASE CollectorStep
    <2>1. CASE RevokeThreadLocalMarkStack \/ DisableWeakRefAccess
        BY <2>1 DEF RevokeThreadLocalMarkStack, DisableWeakRefAccess
    <2>2. CASE ProcessMarkStackRef \/ Blacken
        BY ZenonT(30), <2>2 DEF ProcessMarkStackRef, Scan, Blacken
    <2>3. CASE DequeueReference \/ ClearWhiteReference \/ EnqueueFinalizerReferences
        BY <2>3 DEF DequeueReference, ClearWhiteReference, EnqueueFinalizerReferences
    <2> QED BY <1>2, <2>1, <2>2, <2>3 DEF CollectorStep
<1>3. CASE Decides
    <2>1. CASE EndOfRevoked
        BY <2>1 DEF EndOfRevoked
    <2>2. CASE EndOfOnce
        <3>1. mode \in {"local", "shared", "exclusive"} /\ rpState' = rpState /\ mode' = mode
            BY <2>2 DEF EndOfOnce, IInv, TypeOK
        <3> QED BY <2>2, <3>1 DEF EndOfOnce
    <2>3. CASE Setup \/ SwitchMode \/ SwitchToGcExclusive
        BY <2>3 DEF Setup, SwitchMode, SwitchToGcExclusive
    <2>4. CASE RequestEmptyCheckpoint \/ BroadcastForSlowPath \/ WakeupToRespond \/ WaitForBarrier
        BY <2>4 DEF RequestEmptyCheckpoint, BroadcastForSlowPath, WakeupToRespond, WaitForBarrier
    <2>5. CASE AdvanceRpState
        BY <2>5 DEF AdvanceRpState
    <2>6. CASE ReenableWeakRefAccess \/ BroadcastForAccess \/ DisableMarking
        BY <2>6 DEF ReenableWeakRefAccess, BroadcastForAccess, DisableMarking
    <2> QED BY <1>3, <2>1, <2>2, <2>3, <2>4, <2>5, <2>6 DEF Decides
<1> QED BY <1>1, <1>2, <1>3, Steps

LEMMA MutatorAnswers ==
    ASSUME MutatorStep \/ Idles
    PROVE  \/ UNCHANGED <<asked, waitFor>>
           \/ \E m \in Mutators : m \in asked /\ asked' = asked \ {m} /\ waitFor' = waitFor \ {m}
<1>1. CASE Idles
    BY <1>1 DEF Idles, AnswerRequest, RunEmptyCheckpoint, CollectorKept
<1>2. CASE MutatorStep
    <2>1. PICK m \in Mutators :
            \/ Reads(m) \/ (\E v \in Values : Returns(m, v)) \/ Grays(m) \/ PushOntoMarkStack(m)
            \/ Begins(m) \/ Stores(m)
        BY <1>2 DEF MutatorStep
    <2>2. CASE PushOntoMarkStack(m)
        BY <2>2 DEF PushOntoMarkStack
    <2>3. CollectorKept \/ PushOntoMarkStack(m)
        BY <2>1 DEF Reads, Returns, Grays, Begins, Stores
    <2> QED BY <2>2, <2>3 DEF CollectorKept
<1> QED BY <1>1, <1>2

LEMMA FlagsStep == IInv /\ [Next]_vars => Flags'
<1> SUFFICES ASSUME IInv, [Next]_vars PROVE Flags'
    OBVIOUS
<1>0. Phases /\ Flags /\ TypeOK
    BY DEF IInv
<1> USE <1>0 DEF Phases, LocalLabels, SharedLabels, ExclusiveLabels, EndLabels, Asking, Flags, Disabled, TypeOK
<1>1. CASE MutatorStep \/ Idles
    BY <1>1, MutatorKept, MutatorAnswers
<1>2. CASE CollectorStep
    <2>1. CASE RevokeThreadLocalMarkStack
        BY <2>1 DEF RevokeThreadLocalMarkStack
    <2>2. CASE DisableWeakRefAccess
        BY <2>2 DEF DisableWeakRefAccess
    <2>3. CASE ProcessMarkStackRef \/ Blacken
        BY ZenonT(30), <2>3 DEF ProcessMarkStackRef, Scan, Blacken
    <2>4. CASE DequeueReference \/ ClearWhiteReference \/ EnqueueFinalizerReferences
        BY <2>4 DEF DequeueReference, ClearWhiteReference, EnqueueFinalizerReferences
    <2> QED BY <1>2, <2>1, <2>2, <2>3, <2>4 DEF CollectorStep
<1>3. CASE Decides
    <2>1. CASE EndOfRevoked
        BY <2>1 DEF EndOfRevoked
    <2>2. CASE EndOfOnce
        BY <2>2 DEF EndOfOnce
    <2>3. CASE Setup \/ SwitchMode \/ SwitchToGcExclusive
        BY <2>3 DEF Setup, SwitchMode, SwitchToGcExclusive
    <2>4. CASE RequestEmptyCheckpoint \/ BroadcastForSlowPath \/ WakeupToRespond \/ WaitForBarrier
        BY <2>4 DEF RequestEmptyCheckpoint, BroadcastForSlowPath, WakeupToRespond, WaitForBarrier
    <2>5. CASE AdvanceRpState
        BY <2>5 DEF AdvanceRpState
    <2>6. CASE ReenableWeakRefAccess \/ BroadcastForAccess
        BY <2>6 DEF ReenableWeakRefAccess, BroadcastForAccess
    <2>7. CASE DisableMarking
        BY <2>7 DEF DisableMarking
    <2> QED BY <1>3, <2>1, <2>2, <2>3, <2>4, <2>5, <2>6, <2>7 DEF Decides
<1> QED BY <1>1, <1>2, <1>3, Steps

LEMMA StacksStep == IInv /\ [Next]_vars => Stacks'
<1> SUFFICES ASSUME IInv, [Next]_vars PROVE Stacks'
    OBVIOUS
<1>0. Phases /\ Stacks /\ TypeOK /\ AllClean
    BY DEF IInv
<1> USE <1>0 DEF Phases, LocalLabels, SharedLabels, ExclusiveLabels, EndLabels, Asking, Stacks, Disabled
<1>1. CASE MutatorStep \/ Idles
    <2>1. UNCHANGED <<gcPc, mode, revoked, scanned, rpState, weakQueue>>
        BY <1>1, MutatorKept
    <2>2. CASE UNCHANGED <<local, gcStack>>
        BY <2>1, <2>2
    <2>3. ASSUME NEW m \in Mutators, PushOntoMarkStack(m) PROVE Stacks'
        <3>1. gcPc # "exclusive" /\ mode \in {"local", "shared"}
            BY <2>3 DEF PushOntoMarkStack, AllClean, Quiescent, Clean
        <3> QED BY <2>1, <2>3, <3>1 DEF PushOntoMarkStack
    <2> QED BY ZenonT(30), <2>2, <2>3, <1>1 DEF MutatorStep, Idles, Reads, Returns, Grays, Begins, Stores, Control, HeapKept
<1>2. CASE CollectorStep
    <2>1. CASE RevokeThreadLocalMarkStack
        BY <2>1 DEF RevokeThreadLocalMarkStack
    <2>2. CASE DisableWeakRefAccess
        BY <2>2 DEF DisableWeakRefAccess
    <2>3. CASE ProcessMarkStackRef
        BY <2>3 DEF ProcessMarkStackRef, Scan
    <2>4. CASE Blacken
        BY <2>4 DEF Blacken
    <2>5. CASE DequeueReference \/ ClearWhiteReference \/ EnqueueFinalizerReferences
        BY <2>5 DEF DequeueReference, ClearWhiteReference, EnqueueFinalizerReferences
    <2> QED BY <1>2, <2>1, <2>2, <2>3, <2>4, <2>5 DEF CollectorStep
<1>3. CASE Decides
    <2>0. UNCHANGED <<local, gcStack, revoked, scanned, weakQueue>>
        BY <1>3, DecidesControl DEF Control, HeapKept
    <2>1. CASE EndOfRevoked
        BY <2>0, <2>1 DEF EndOfRevoked
    <2>2. CASE EndOfOnce
        BY <2>0, <2>2 DEF EndOfOnce, TypeOK
    <2>3. CASE Setup \/ SwitchMode \/ SwitchToGcExclusive
        BY <2>0, <2>3 DEF Setup, SwitchMode, SwitchToGcExclusive
    <2>4. CASE RequestEmptyCheckpoint \/ BroadcastForSlowPath \/ WakeupToRespond \/ WaitForBarrier
        BY <2>0, <2>4 DEF RequestEmptyCheckpoint, BroadcastForSlowPath, WakeupToRespond, WaitForBarrier
    <2>5. CASE AdvanceRpState
        BY <2>0, <2>5 DEF AdvanceRpState
    <2>6. CASE ReenableWeakRefAccess \/ BroadcastForAccess
        BY <2>0, <2>6 DEF ReenableWeakRefAccess, BroadcastForAccess
    <2>7. CASE DisableMarking
        BY <2>0, <2>7 DEF DisableMarking
    <2> QED BY <1>3, <2>1, <2>2, <2>3, <2>4, <2>5, <2>6, <2>7 DEF Decides
<1> QED BY <1>1, <1>2, <1>3, Steps

(* Weak reference access is enabled again only when it was disabled by a   *)
(* pause, and after the references have been processed.                    *)
LEMMA DisabledStep ==
    ASSUME IInv, [Next]_vars, Disabled', rpState' # "clearingDone"
    PROVE  rpState # "clearingDone" /\ (Disabled \/ DisableWeakRefAccess)
<1>0. Phases /\ TypeOK
    BY DEF IInv
<1> USE <1>0 DEF Phases, LocalLabels, SharedLabels, ExclusiveLabels, EndLabels, Asking, Disabled
<1>1. CASE MutatorStep \/ Idles
    BY <1>1, MutatorKept
<1>2. CASE CollectorStep
    <2>1. CASE RevokeThreadLocalMarkStack \/ DisableWeakRefAccess
        BY <2>1 DEF RevokeThreadLocalMarkStack, DisableWeakRefAccess
    <2>2. CASE ProcessMarkStackRef \/ Blacken
        BY <2>2 DEF ProcessMarkStackRef, Scan, Blacken
    <2>3. CASE DequeueReference \/ ClearWhiteReference \/ EnqueueFinalizerReferences
        BY <2>3 DEF DequeueReference, ClearWhiteReference, EnqueueFinalizerReferences
    <2> QED BY <1>2, <2>1, <2>2, <2>3 DEF CollectorStep
<1>3. CASE Decides
    <2>1. CASE EndOfRevoked \/ EndOfOnce
        BY <2>1 DEF EndOfRevoked, EndOfOnce
    <2>2. CASE Setup \/ SwitchMode \/ SwitchToGcExclusive
        BY <2>2 DEF Setup, SwitchMode, SwitchToGcExclusive
    <2>3. CASE RequestEmptyCheckpoint \/ BroadcastForSlowPath \/ WakeupToRespond \/ WaitForBarrier
        BY <2>3 DEF RequestEmptyCheckpoint, BroadcastForSlowPath, WakeupToRespond, WaitForBarrier
    <2>4. CASE AdvanceRpState \/ ReenableWeakRefAccess \/ BroadcastForAccess \/ DisableMarking
        BY <2>4 DEF AdvanceRpState, ReenableWeakRefAccess, BroadcastForAccess, DisableMarking
    <2> QED BY <1>3, <2>1, <2>2, <2>3, <2>4 DEF Decides
<1> QED BY <1>1, <1>2, <1>3, Steps

LEMMA OnlyLoadsStep == IInv /\ [Next]_vars => OnlyLoads'
<1> SUFFICES ASSUME IInv, [Next]_vars, Disabled', rpState' # "clearingDone"
             PROVE  \A m \in Mutators : pc'[m] \in Reading => op'[m] = "load"
    BY DEF OnlyLoads
<1>0. TypeOK /\ OnlyLoads /\ Flags /\ Operating
    BY DEF IInv
<1>1. CASE DisableWeakRefAccess
    BY <1>0, <1>1 DEF DisableWeakRefAccess, AtSuspendPoint, Reading
<1>2. CASE Disabled /\ rpState # "clearingDone"
    <2>0. \A m \in Mutators : (pc[m] \in Reading => op[m] = "load") /\ ~enabled[m]
        BY <1>0, <1>2 DEF OnlyLoads, Flags
    <2> USE <2>0, <1>0 DEF TypeOK, Reading
    <2>1. ASSUME NEW m \in Mutators, Reads(m) \/ Grays(m) \/ Begins(m) \/ Stores(m)
          PROVE  \A n \in Mutators : pc'[n] \in Reading => op'[n] = "load"
        BY ZenonT(30), <1>2, <2>1 DEF Reads, Grays, Begins, Stores
    <2>2. ASSUME NEW m \in Mutators, NEW v \in Values, Returns(m, v) \/ PushOntoMarkStack(m)
          PROVE  \A n \in Mutators : pc'[n] \in Reading => op'[n] = "load"
        BY SMT, <2>2 DEF Returns, PushOntoMarkStack, Finish
    <2>3. CASE Control
        BY <2>3 DEF Control, HeapKept, SamePlace, Waiting
    <2>4. CASE CollectorStep
        BY <2>4, CollectorKeeps
    <2> QED BY <2>1, <2>2, <2>3, <2>4, DecidesControl, Steps DEF MutatorStep, Idles, Values
<1> QED BY <1>1, <1>2, DisabledStep

-----------------------------------------------------------------------------
(* Marked objects stay marked.                                             *)
LEMMA MarkedGrows == ASSUME IInv, [Next]_vars PROVE Marked \subseteq Marked'
<1>0. TypeOK /\ StacksGray /\ Scanned /\ CopyingAssumption
    BY CopyingAssumption DEF IInv
<1>1. CASE MutatorStep
    BY ZenonT(30), <1>1 DEF MutatorStep, Reads, Returns, Grays, PushOntoMarkStack, Begins, Stores, Marked
<1>2. CASE Control
    BY <1>2 DEF Control, HeapKept, Marked
<1>3. CASE RevokeThreadLocalMarkStack \/ DisableWeakRefAccess \/ DequeueReference
    BY <1>3 DEF RevokeThreadLocalMarkStack, DisableWeakRefAccess, DequeueReference, Marked
<1>4. CASE ProcessMarkStackRef \/ EnqueueFinalizerReferences
    BY <1>4 DEF ProcessMarkStackRef, Scan, EnqueueFinalizerReferences, Marked
<1>5. CASE Blacken
    BY <1>0, <1>5 DEF Blacken, StacksGray, Marked
<1>6. CASE ClearWhiteReference
    <2>1. current.ref \in bit
        BY <1>0, <1>6 DEF ClearWhiteReference, Scanned, Queued
    <2> QED BY <1>6, <2>1 DEF ClearWhiteReference, Marked
<1> QED BY <1>1, <1>2, <1>3, <1>4, <1>5, <1>6, DecidesControl, <1>0, Steps DEF Idles, CollectorStep

LEMMA GrayTrackedStep == IInv /\ [Next]_vars => GrayTracked'
<1> SUFFICES ASSUME IInv, [Next]_vars PROVE GrayTracked'
    OBVIOUS
<1>0. TypeOK /\ GrayTracked /\ CopyingAssumption
    BY CopyingAssumption DEF IInv
<1> USE <1>0 DEF TypeOK, GrayTracked, Queued
<1>1. ASSUME NEW m \in Mutators, Reads(m) \/ Begins(m) \/ Stores(m) PROVE GrayTracked'
    BY SMT, <1>1 DEF Reads, Begins, Stores, CollectorKept
<1>2. ASSUME NEW m \in Mutators, NEW v \in Values, Returns(m, v) PROVE GrayTracked'
    BY <1>2 DEF Returns, Finish, CollectorKept
<1>3. ASSUME NEW m \in Mutators, Grays(m) PROVE GrayTracked'
    BY ZenonT(30), <1>3 DEF Grays, CollectorKept
<1>4. ASSUME NEW m \in Mutators, PushOntoMarkStack(m) PROVE GrayTracked'
    BY SMT, <1>4 DEF PushOntoMarkStack, Finish
<1>5. CASE Control
    BY ZenonT(30), <1>5 DEF Control, HeapKept, SamePlace, Waiting
<1>6. CASE RevokeThreadLocalMarkStack
    BY <1>6 DEF RevokeThreadLocalMarkStack
<1>7. CASE DisableWeakRefAccess
    BY SMT, <1>7 DEF DisableWeakRefAccess
<1>8. CASE ProcessMarkStackRef
    BY SMT, <1>8 DEF ProcessMarkStackRef, Scan
<1>9. CASE Blacken
    <2>1. scanned \in References /\ referent[scanned] \notin Marked \cup {None} => Queued(scanned)
        BY <1>9 DEF Blacken, IInv, Scanned, StacksGray, Visited, Marked
    <2> QED BY ZenonT(30), <1>9, <2>1 DEF Blacken
<1>10. CASE DequeueReference \/ ClearWhiteReference \/ EnqueueFinalizerReferences
    BY SMT, <1>10 DEF DequeueReference, ClearWhiteReference, EnqueueFinalizerReferences
<1> QED BY <1>1, <1>2, <1>3, <1>4, <1>5, <1>6, <1>7, <1>8, <1>9, <1>10, DecidesControl, Steps
        DEF MutatorStep, Idles, CollectorStep

(* While the collector processes the references, no mutator pushes.        *)
LEMMA NoPush == ASSUME IInv, mode = "exclusive" \/ rpState = "clearingDone"
                PROVE  \A m \in Mutators : pc[m] \notin {"cas", "push"}
BY DEF IInv, AllClean, Quiescent, Clean, Confined, Within

LEMMA StacksGrayStep == IInv /\ [Next]_vars => StacksGray'
<1> SUFFICES ASSUME IInv, [Next]_vars PROVE StacksGray'
    OBVIOUS
<1>0. TypeOK /\ StacksGray /\ CopyingAssumption
    BY CopyingAssumption DEF IInv
<1> USE <1>0 DEF TypeOK, StacksGray
<1>1. ASSUME NEW m \in Mutators, Reads(m) \/ Begins(m) \/ Stores(m) PROVE StacksGray'
    BY SMT, <1>1 DEF Reads, Begins, Stores, CollectorKept
<1>2. ASSUME NEW m \in Mutators, NEW v \in Values, Returns(m, v) PROVE StacksGray'
    <2>1. UNCHANGED <<gray, bit, gcStack, revoked, scanned, local>>
        BY <1>2 DEF Returns, CollectorKept
    <2>2. \A n \in Mutators : pc'[n] = "push" => pc[n] = "push" /\ ref'[n] = ref[n]
        BY <1>2, FinishEffect DEF Returns
    <2> QED BY <2>1, <2>2
<1>3. ASSUME NEW m \in Mutators, Grays(m) PROVE StacksGray'
    <2>1. ref[m] \in Objects \ gray
        BY <1>3 DEF Grays, CanGray, IInv, Operating
    <2> QED BY SMT, <1>3, <2>1 DEF Grays, CollectorKept
<1>4. ASSUME NEW m \in Mutators, PushOntoMarkStack(m) PROVE StacksGray'
    BY SMT, <1>4 DEF PushOntoMarkStack, Finish
<1>5. CASE Control
    BY <1>5 DEF Control, HeapKept, SamePlace, Waiting
<1>6. CASE RevokeThreadLocalMarkStack
    BY SMT, <1>6 DEF RevokeThreadLocalMarkStack
<1>7. CASE DisableWeakRefAccess
    BY SMT, <1>7 DEF DisableWeakRefAccess, AtSuspendPoint
<1>8. CASE ProcessMarkStackRef
    BY SMT, <1>8 DEF ProcessMarkStackRef, Scan, Marked
<1>9. CASE Blacken
    BY SMT, <1>9 DEF Blacken
<1>10. CASE ClearWhiteReference
    <2>1. gcStack = {} /\ revoked = {} /\ scanned = None /\ \A m \in Mutators : local[m] = {}
        BY <1>10 DEF ClearWhiteReference, IInv, Stacks, Phases, ExclusiveLabels
    <2>2. \A m \in Mutators : pc[m] # "push"
        BY <1>10, NoPush DEF ClearWhiteReference, IInv, Phases, ExclusiveLabels
    <2> QED BY <1>10, <2>1, <2>2 DEF ClearWhiteReference
<1>11. CASE DequeueReference
    BY <1>11 DEF DequeueReference
<1>12. CASE EnqueueFinalizerReferences
    BY <1>12 DEF EnqueueFinalizerReferences, Marked
<1> QED BY <1>1, <1>2, <1>3, <1>4, <1>5, <1>6, <1>7, <1>8, <1>9, <1>10, <1>11, <1>12,
           DecidesControl, Steps DEF MutatorStep, Idles, CollectorStep

(* Steps that leave the objects that are gray, marked or queued alone.     *)
LEMMA ScannedKept ==
    ASSUME IInv, UNCHANGED <<field, referent, gray, bit, scanned>>,
           \A o \in Objects : Queued(o)' <=> Queued(o),
           gcPc' = "assign" => gcPc = "assign" /\ current' = current
    PROVE  Scanned'
BY CopyingAssumption DEF IInv, TypeOK, Scanned, Visited, Marked

LEMMA ScannedStep == IInv /\ [Next]_vars => Scanned'
<1> SUFFICES ASSUME IInv, [Next]_vars PROVE Scanned'
    OBVIOUS
<1>0. TypeOK /\ Scanned /\ StacksGray /\ CopyingAssumption /\ Marked \subseteq Marked'
    BY CopyingAssumption, MarkedGrows DEF IInv
<1> USE <1>0 DEF TypeOK, Queued
<1>1. ASSUME NEW m \in Mutators, Reads(m) \/ Begins(m) \/ PushOntoMarkStack(m) PROVE Scanned'
    BY <1>1, ScannedKept DEF Reads, Begins, PushOntoMarkStack, CollectorKept
<1>2. ASSUME NEW m \in Mutators, NEW v \in Values, Returns(m, v) PROVE Scanned'
    <2>1. CASE UNCHANGED referent
        BY <1>2, <2>1, ScannedKept DEF Returns, CollectorKept
    <2>2. CASE enabled[m] /\ holder[m] \in References /\ referent' = [referent EXCEPT ![holder[m]] = None]
        <3>1. gcPc # "assign"
            BY <2>2 DEF IInv, Flags, Disabled, Phases, ExclusiveLabels
        <3> QED BY SMT, <1>2, <2>2, <3>1 DEF Returns, CollectorKept, Scanned, Visited, Marked
    <2> QED BY <1>2, <2>1, <2>2 DEF Returns, IInv, Operating, Waiting
<1>3. ASSUME NEW m \in Mutators, Grays(m) PROVE Scanned'
    <2>1. \A o \in Objects : Visited(o)' => Visited(o) /\ (o \notin gray => o # ref[m] \/ o \in bit)
        BY SMT, <1>3 DEF Grays, CollectorKept, CanGray, Visited, Marked, StacksGray, Scanned
    <2> QED BY <1>3, <2>1 DEF Grays, CollectorKept, CanGray, Scanned, Visited
<1>4. ASSUME NEW m \in Mutators, Stores(m) PROVE Scanned'
    <2>1. \A o \in Objects : field'[o] = field[o] \/ field'[o] \in Marked \cup {None}
        BY SMT, <1>4 DEF Stores, IInv, ToSpaceInvariant
    <2> QED BY ZenonT(30), <1>4, <2>1 DEF Stores, CollectorKept, Scanned, Visited, Marked
<1>5. CASE Control
    BY <1>5, ScannedKept DEF Control, HeapKept
<1>6. CASE RevokeThreadLocalMarkStack \/ DisableWeakRefAccess
    BY <1>6, ScannedKept DEF RevokeThreadLocalMarkStack, DisableWeakRefAccess
<1>7. CASE ProcessMarkStackRef
    <2>1. PICK o \in gray, stack \in SUBSET Objects : Scan(o, stack)
        BY <1>7 DEF ProcessMarkStackRef, StacksGray
    <2>2. gcPc # "assign" /\ gcPc' # "assign" /\ scanned = None
        BY <1>7 DEF ProcessMarkStackRef, Scan
    <2>3. \A x \in Objects : x # o /\ Visited(x)' => Visited(x)
        BY <2>1, <2>2 DEF Scan, Visited, Marked, Scanned
    <2>4. field'[o] \in Marked' \cup {None}
        BY <2>1, <2>2 DEF Scan, Visited, Marked, Scanned
    <2>5. o \in References => referent'[o] \in Marked' \cup {None} \/ (Queued(o)' /\ o \in gray')
        BY <2>1, <2>2 DEF Scan, Visited, Marked, Scanned
    <2> QED BY <2>1, <2>2, <2>3, <2>4, <2>5 DEF Scan, Scanned
<1>8. CASE Blacken
    <2>1. \A o \in Objects : Visited(o)' => Visited(o)
        BY <1>8 DEF Blacken, Visited, Marked, StacksGray
    <2> QED BY ZenonT(30), <1>8, <2>1 DEF Blacken, Scanned, Marked, Visited
<1>9. CASE DequeueReference
    BY SMT, <1>9 DEF DequeueReference, Scanned, Visited, Marked
<1>10. CASE ClearWhiteReference
    <2>1. /\ current.ref \in References /\ referent[current.ref] = current.to /\ Visited(current.ref)
        BY <1>10 DEF ClearWhiteReference, Scanned, Visited, Marked
    <2>2. \A o \in Objects : Visited(o)' => Visited(o)
        BY <1>10, <2>1 DEF ClearWhiteReference, Visited, Marked
    <2>3. referent'[current.ref] \in Marked \cup {None}
        BY <1>10, <2>1 DEF ClearWhiteReference
    <2>4. \A r \in References : r # current.ref => referent'[r] = referent[r]
        BY <1>10, <2>1 DEF ClearWhiteReference
    <2> QED BY ZenonT(30), <1>10, <2>1, <2>2, <2>3, <2>4 DEF ClearWhiteReference, Scanned
<1>11. CASE EnqueueFinalizerReferences
    <2>1. \A o \in Objects : Visited(o)' => Visited(o)
        BY SMT, <1>11 DEF EnqueueFinalizerReferences, Visited, Marked, StacksGray, Scanned
    <2> QED BY <1>11, <2>1 DEF EnqueueFinalizerReferences, Scanned
<1> QED BY <1>1, <1>2, <1>3, <1>4, <1>5, <1>6, <1>7, <1>8, <1>9, <1>10, <1>11, DecidesControl, Steps
        DEF MutatorStep, Idles, CollectorStep

LEMMA PlainMarkedStep == IInv /\ [Next]_vars => PlainMarked'
<1> SUFFICES ASSUME IInv, [Next]_vars PROVE PlainMarked'
    OBVIOUS
<1>0. TypeOK /\ PlainMarked /\ Operating /\ CopyingAssumption /\ Marked \subseteq Marked'
    BY CopyingAssumption, MarkedGrows DEF IInv
<1> USE <1>0 DEF TypeOK, PlainMarked
<1>1. ASSUME NEW m \in Mutators, Reads(m) PROVE PlainMarked'
    <2>1. pc[m] = "state" /\ holder[m] \notin gray =>
            IF op[m] = "load" THEN field[holder[m]] \in Marked \cup {None}
            ELSE referent[holder[m]] \in Marked \cup {None}
        BY DEF Operating, Reading, IInv, ToSpaceInvariant, Scanned, Visited
    <2> QED BY ZenonT(30), <1>1, <2>1 DEF Reads
<1>2. ASSUME NEW m \in Mutators, NEW v \in Values, Returns(m, v) \/ PushOntoMarkStack(m)
      PROVE  PlainMarked'
    <2>1. field' = field /\ \A r \in References : referent'[r] \in {referent[r], None}
        BY SMT, <1>2 DEF Returns, PushOntoMarkStack
    <2>2. PICK w \in Values : Finish(m, w)
        BY <1>2 DEF Returns, PushOntoMarkStack, Operating
    <2>3. \A n \in Mutators : pc'[n] = "plain" =>
            pc[n] = "plain" /\ holder'[n] = holder[n] /\ op'[n] = op[n]
        BY <2>2, FinishEffect
    <2> QED BY ZenonT(30), <2>1, <2>2, <2>3 DEF Operating, Reading
<1>3. ASSUME NEW m \in Mutators, Grays(m) \/ Begins(m) PROVE PlainMarked'
    BY SMT, <1>3 DEF Grays, Begins
<1>4. ASSUME NEW m \in Mutators, Stores(m) PROVE PlainMarked'
    <2>1. \A o \in Objects : field'[o] = field[o] \/ field'[o] \in Marked \cup {None}
        BY SMT, <1>4 DEF Stores, IInv, ToSpaceInvariant
    <2> QED BY ZenonT(30), <1>4, <2>1 DEF Stores, Operating, Reading
<1>5. CASE Control
    BY <1>5 DEF Control, HeapKept, SamePlace, Waiting
<1>6. CASE CollectorStep
    <2>1. \A r \in References : referent'[r] = referent[r] \/ referent'[r] \in Marked \cup {None}
        <3>1. CASE ClearWhiteReference
            BY <3>1 DEF ClearWhiteReference
        <3> QED BY <3>1, <1>6
                DEF CollectorStep, RevokeThreadLocalMarkStack, ProcessMarkStackRef, Scan, Blacken,
                    DisableWeakRefAccess, DequeueReference, EnqueueFinalizerReferences
    <2> QED BY <1>6, <2>1, CollectorKeeps DEF Operating, Reading
<1> QED BY <1>1, <1>2, <1>3, <1>4, <1>5, <1>6, DecidesControl, Steps DEF MutatorStep, Idles, Values

(* Where the collector has stopped marking, what a mutator reads through a *)
(* gray object is marked, too.                                             *)
LEMMA ToSpaceStep == IInv /\ [Next]_vars => ToSpaceInvariant'
<1> SUFFICES ASSUME IInv, [Next]_vars PROVE ToSpaceInvariant'
    OBVIOUS
<1>0. TypeOK /\ ToSpaceInvariant /\ Operating /\ CopyingAssumption /\ Marked \subseteq Marked'
    BY CopyingAssumption, MarkedGrows DEF IInv
<1> USE <1>0 DEF TypeOK, ToSpaceInvariant
<1>1. CASE UNCHANGED held
    BY <1>1
<1>2. ASSUME NEW m \in Mutators, NEW v \in Marked \cup {None}, Finish(m, v) PROVE ToSpaceInvariant'
    <2>1. /\ held'[m] = held[m] \cup ({v} \ {None})
          /\ \A n \in Mutators : n # m => held'[n] = held[n]
        BY <1>2, FinishEffect DEF Values, Marked
    <2>2. \A n \in Mutators : held'[n] \subseteq Marked
        BY SMT, <2>1
    <2> QED BY <2>2
<1>3. ASSUME NEW m \in Mutators, NEW v \in Values, Returns(m, v) PROVE ToSpaceInvariant'
    <2>1. pc[m] = "plain" /\ v = Value(m) => v \in Marked \cup {None}
        BY DEF IInv, PlainMarked, Value
    <2>2. ASSUME pc[m] = "gray", v = Value(m), ~marking[m] PROVE v \in Marked \cup {None}
        <3>1. rpState = "clearingDone"
            BY <2>2 DEF IInv, Flags, Phases, EndLabels
        <3>2. PICK S \in SUBSET Objects : Within(S)
            BY <3>1 DEF IInv, Confined
        <3> QED BY <2>2, <3>2 DEF Within, Value, Operating, Reading
    <2>3. pc[m] = "test" /\ ref[m] \in bit => ref[m] \in Marked
        BY DEF Marked
    <2>4. v \in Marked \cup {None}
        BY <1>3, <2>1, <2>2, <2>3 DEF Returns, Predicted
    <2> QED BY <1>2, <1>3, <2>4 DEF Returns
<1>4. ASSUME NEW m \in Mutators, PushOntoMarkStack(m) PROVE ToSpaceInvariant'
    <2>1. ref[m] \in Marked
        BY <1>4 DEF PushOntoMarkStack, IInv, StacksGray, Marked
    <2> QED BY <1>2, <1>4, <2>1 DEF PushOntoMarkStack
<1> QED BY <1>1, <1>3, <1>4, DecidesControl, CollectorKeeps, Steps
        DEF MutatorStep, Idles, Control, HeapKept, Reads, Grays, Begins, Stores

-----------------------------------------------------------------------------
(* The end of marking.                                                     *)

(* With nothing on the stacks and nobody about to push, the mark bits are  *)
(* set and all marked objects have been visited.                           *)
LEMMA AllVisited ==
    ASSUME IInv, gcStack = {}, gcPc \in Asking \/ Quiescent,
           \A m \in Mutators : pc[m] # "push"
    PROVE  /\ Marked \subseteq bit
           /\ \A o \in Marked : field[o] \in bit \cup {None}
<1>0. TypeOK /\ Stacks /\ Phases /\ StacksGray /\ Scanned /\ CopyingAssumption
    BY CopyingAssumption DEF IInv
<1>1. revoked = {} /\ \A m \in Mutators : local[m] = {}
    BY <1>0 DEF Stacks, Phases, Disabled, Quiescent, Asking, SharedLabels, LocalLabels
<1>2. \A o \in gray : o = scanned \/ Queued(o)
    BY <1>1 DEF IInv, GrayTracked
<1>3. \A o \in Objects : Queued(o) => o \in bit
    BY ZenonT(30), <1>0 DEF Scanned, Queued, TypeOK
<1>4. Marked \subseteq bit
    BY SMT, <1>0, <1>2, <1>3 DEF StacksGray, TypeOK, Marked
<1>5. \A o \in Marked : Visited(o)
    BY <1>2 DEF Visited
<1> QED BY <1>0, <1>4, <1>5 DEF Scanned, TypeOK, Marked

(* What a mutator that is clean does then keeps it and the others clean.   *)
LEMMA CleanKept ==
    ASSUME IInv, gcStack = {}, gcPc \in Asking \/ Quiescent, rpState # "clearingDone",
           \A n \in Mutators : pc[n] # "push",
           NEW m \in Mutators, NEW v \in Values,
           Reads(m) \/ Returns(m, v) \/ Begins(m) \/ Stores(m),
           NEW n \in Mutators, Clean(n)
    PROVE  Clean(n)'
<1>0. TypeOK /\ Operating /\ CopyingAssumption /\ ToSpaceInvariant
    BY CopyingAssumption DEF IInv
<1>1. Marked \subseteq bit /\ \A o \in Marked : field[o] \in bit \cup {None}
    BY AllVisited
<1>2. pc[m] \in Reading => op[m] = "load"
    BY DEF IInv, OnlyLoads, Phases, Disabled, Quiescent, SharedLabels, Asking, EndLabels
<1> USE <1>0, <1>1 DEF TypeOK, Clean
<1>3. CASE Reads(m)
    <2>1. holder[n] \in Marked \/ pc[n] \notin Reading
        BY DEF IInv, Operating, ToSpaceInvariant
    <2>2. CASE n # m
        BY SMT, <1>3, <2>2 DEF Reads
    <2>3. CASE n = m
        <3>1. CASE pc[m] = "gray" /\ pc'[m] = "test"
            <4>1. Value(m) \in bit \cup {None}
                BY <1>2, <2>3, <3>1 DEF Value, Reading
            <4>2. ref'[m] = Value(m) /\ Value(m) # None /\ bit' = bit
                BY SMT, <1>3, <3>1 DEF Reads
            <4> QED BY <2>3, <3>1, <4>1, <4>2
        <3> QED BY <1>3, <2>1, <2>3, <3>1 DEF Reads, Reading
    <2> QED BY <2>2, <2>3
<1>4. CASE Returns(m, v)
    BY <1>4 DEF Returns, Finish
<1>5. CASE Begins(m)
    <2>1. /\ field' = field /\ bit' = bit /\ ref' = ref
          /\ \/ pc'[n] \in {"state", "check", "lock", "slowLock"}
             \/ pc'[n] = pc[n] /\ holder'[n] = holder[n]
        BY <1>5, BeginsEffect
    <2> QED BY <2>1
<1>6. CASE Stores(m)
    <2>1. PICK o \in held[m], w \in held[m] \cup {None} : field' = [field EXCEPT ![o] = w]
        BY <1>6 DEF Stores
    <2>2. w \in bit \cup {None}
        BY <2>1 DEF ToSpaceInvariant
    <2>3. \A x \in Objects : field'[x] = field[x] \/ field'[x] \in bit \cup {None}
        BY <2>1, <2>2
    <2> QED BY <1>6, <2>3 DEF Stores, IInv, Operating, Reading
<1> QED BY <1>3, <1>4, <1>5, <1>6

LEMMA CleanControl ==
    ASSUME TypeOK, Control, NEW m \in Mutators, Clean(m) PROVE Clean(m)'
BY DEF Control, HeapKept, SamePlace, Waiting, Clean

LEMMA FlushedStep == IInv /\ [Next]_vars => Flushed'
<1> SUFFICES ASSUME IInv, [Next]_vars, gcPc' \in Asking, gcStack' = {}
             PROVE  \/ \A m \in Mutators \ waitFor' : Clean(m)'
                    \/ \E m \in waitFor' : pc'[m] = "push"
    BY DEF Flushed
<1>0. TypeOK /\ Phases /\ Flushed
    BY DEF IInv
<1> DEFINE Goal == \/ \A m \in Mutators \ waitFor' : Clean(m)'
                   \/ \E m \in waitFor' : pc'[m] = "push"
<1>1. CASE MutatorStep \/ Idles
    <2>0. gcPc \in Asking /\ mode = "shared" /\ rpState # "clearingDone"
        BY <1>0, <1>1, MutatorKept DEF Phases, SharedLabels
    <2>1. ASSUME NEW m \in Mutators, PushOntoMarkStack(m) PROVE FALSE
        BY <2>0, <2>1 DEF PushOntoMarkStack
    <2>2. ASSUME NEW m \in Mutators, Grays(m) PROVE Goal
        <3>1. gcStack = {} /\ pc'[m] = "push" /\ waitFor' = waitFor /\ pc[m] = "cas"
              /\ \A n \in Mutators : n # m => pc'[n] = pc[n]
            BY <2>2, <1>0 DEF Grays, TypeOK, CollectorKept
        <3> QED BY SMT, <3>1, <2>0, <1>0 DEF Flushed, Clean, TypeOK
    <2>3. ASSUME NEW m \in Mutators, NEW v \in Values, Reads(m) \/ Returns(m, v) \/ Begins(m) \/ Stores(m)
          PROVE  Goal
        <3>1. gcStack = {} /\ waitFor' = waitFor
            BY <2>3 DEF Reads, Returns, Begins, Stores, CollectorKept
        <3>2. CASE \E n \in waitFor : pc[n] = "push"
            BY SMT, <2>3, <3>1, <3>2, <1>0 DEF Reads, Returns, Finish, Begins, Stores, TypeOK
        <3>3. CASE \A n \in waitFor : pc[n] # "push"
            <4>1. \A n \in Mutators \ waitFor : Clean(n)
                BY <3>1, <3>3, <2>0, <1>0 DEF Flushed
            <4>2. \A n \in Mutators : pc[n] # "push"
                BY <4>1, <3>3 DEF Clean
            <4> QED BY <4>1, <4>2, <3>1, <2>0, <2>3, CleanKept
        <3> QED BY <3>2, <3>3
    <2>4. CASE Idles
        <3>1. gcStack = {} /\ Control
            BY <2>4 DEF Idles, Control, HeapKept
        <3>2. waitFor' = waitFor \/ \E m \in Mutators : AnswerRequest(m)
            BY <2>4 DEF Idles, CollectorKept
        <3>3. CASE waitFor' = waitFor
            BY <3>1, <3>3, <2>0, <1>0, CleanControl DEF Flushed, Control, SamePlace, Waiting, TypeOK
        <3>4. ASSUME NEW m \in Mutators, AnswerRequest(m) PROVE Goal
            <4>1. waitFor' = waitFor \ {m} /\ pc' = pc /\ pc[m] # "push"
                BY <3>4 DEF AnswerRequest, RunEmptyCheckpoint
            <4>2. Clean(m)'
                BY <3>4 DEF AnswerRequest, Clean
            <4> QED BY <4>1, <4>2, <3>1, <2>0, <1>0, CleanControl DEF Flushed, TypeOK
        <3> QED BY <3>2, <3>3, <3>4
    <2> QED BY <1>1, <2>1, <2>2, <2>3, <2>4 DEF MutatorStep, Values
<1>2. CASE CollectorStep
    BY <1>2 DEF CollectorStep, RevokeThreadLocalMarkStack, ProcessMarkStackRef, Scan, Blacken,
                DisableWeakRefAccess, DequeueReference, ClearWhiteReference,
                EnqueueFinalizerReferences, Asking, IInv, Stacks
<1>3. CASE Decides
    <2>1. Control /\ gcStack = {}
        BY <1>0, <1>3, DecidesControl DEF Control, HeapKept
    <2>2. CASE RequestEmptyCheckpoint
        <3>1. \A m \in Mutators \ waitFor' : pc'[m] = "native"
            BY <2>2 DEF RequestEmptyCheckpoint
        <3> QED BY <3>1 DEF Clean
    <2>3. CASE gcPc \in Asking /\ waitFor' = waitFor
        BY <2>1, <2>3, <1>0, CleanControl DEF Flushed, Control, SamePlace, Waiting, TypeOK
    <2> QED BY <1>3, <2>2, <2>3
            DEF Decides, EndOfRevoked, EndOfOnce, Setup, SwitchMode, BroadcastForSlowPath,
                WakeupToRespond, WaitForBarrier, SwitchToGcExclusive, AdvanceRpState,
                ReenableWeakRefAccess, BroadcastForAccess, DisableMarking, Asking
<1> QED BY <1>1, <1>2, <1>3, Steps

LEMMA AllCleanStep == IInv /\ [Next]_vars => AllClean'
<1> SUFFICES ASSUME IInv, [Next]_vars, Quiescent', rpState' # "clearingDone", NEW m \in Mutators
             PROVE  Clean(m)'
    BY DEF AllClean
<1>0. TypeOK /\ Phases /\ AllClean /\ Flushed /\ Stacks
    BY DEF IInv
<1> USE <1>0
<1>1. CASE MutatorStep \/ Idles
    <2>0. UNCHANGED <<gcPc, mode, found, rpState>>
        BY <1>1, MutatorKept
    <2>1. ASSUME NEW n \in Mutators, PushOntoMarkStack(n) PROVE Quiescent
        BY <2>0, <2>1 DEF PushOntoMarkStack, Quiescent
    <2>2. Quiescent
        BY ZenonT(30), <2>0, <2>1, <1>1 DEF MutatorStep, Idles, Control, HeapKept, Reads, Returns, Grays, Begins,
                                Stores, Quiescent
    <2>3. \A n \in Mutators : Clean(n)
        BY <2>0, <2>2 DEF AllClean
    <2>4. ASSUME NEW n \in Mutators, NEW v \in Values, Reads(n) \/ Returns(n, v) \/ Begins(n) \/ Stores(n)
          PROVE  Clean(m)'
        <3>1. gcStack = {}
            BY <2>0, <2>2 DEF Quiescent, Stacks, Phases
        <3> QED BY <2>0, <2>2, <2>3, <2>4, <3>1, CleanKept DEF Clean
    <2>5. CASE Idles
        BY <2>3, <2>5, CleanControl DEF Idles
    <2> QED BY <1>1, <2>3, <2>4, <2>5 DEF MutatorStep, Grays, PushOntoMarkStack, Clean, Values
<1>2. CASE CollectorStep
    <2>1. Quiescent /\ rpState # "clearingDone" /\ bit' = bit
        <3>1. CASE RevokeThreadLocalMarkStack \/ DisableWeakRefAccess
            BY <3>1 DEF RevokeThreadLocalMarkStack, DisableWeakRefAccess, Quiescent, Phases,
                        LocalLabels, SharedLabels
        <3>2. CASE ProcessMarkStackRef
            BY <3>2 DEF ProcessMarkStackRef, Scan, Quiescent, Phases
        <3>3. CASE Blacken \/ DequeueReference \/ ClearWhiteReference
            BY SMT, <3>3 DEF Blacken, DequeueReference, ClearWhiteReference, Quiescent, Phases,
                        ExclusiveLabels
        <3>4. CASE EnqueueFinalizerReferences
            BY <3>4 DEF EnqueueFinalizerReferences, Phases
        <3> QED BY <1>2, <3>1, <3>2, <3>3, <3>4 DEF CollectorStep
    <2> QED BY <1>2, <2>1, CollectorKeeps DEF AllClean, Clean
<1>3. CASE Decides
    <2>1. Control
        BY <1>3, DecidesControl
    <2>2. CASE WaitForBarrier /\ mode # "exclusive"
        <3>1. gcStack = {} /\ waitFor = {} /\ gcPc \in Asking
            BY <2>2 DEF WaitForBarrier, Quiescent, Asking
        <3>2. Clean(m)
            BY <3>1 DEF Flushed
        <3> QED BY <2>1, <3>2, CleanControl
    <2>3. \/ Quiescent /\ rpState # "clearingDone"
          \/ WaitForBarrier /\ mode # "exclusive"
        <3>1. CASE EndOfOnce
            BY <3>1 DEF EndOfOnce, MarkStackDone, Quiescent, Phases, TypeOK
        <3>5. CASE EndOfRevoked
            BY <3>5 DEF EndOfRevoked, Quiescent, Phases
        <3>2. CASE Setup \/ SwitchMode \/ SwitchToGcExclusive
            BY <3>2 DEF Setup, SwitchMode, SwitchToGcExclusive, Quiescent, Phases, LocalLabels, SharedLabels
        <3>3. CASE RequestEmptyCheckpoint \/ BroadcastForSlowPath \/ WakeupToRespond \/ WaitForBarrier
            BY <3>3 DEF RequestEmptyCheckpoint, BroadcastForSlowPath, WakeupToRespond, WaitForBarrier,
                        Quiescent, Phases, SharedLabels, Asking
        <3>4. CASE AdvanceRpState \/ ReenableWeakRefAccess \/ BroadcastForAccess \/ DisableMarking
            BY <3>4 DEF AdvanceRpState, ReenableWeakRefAccess, BroadcastForAccess, DisableMarking,
                        Quiescent, Phases, ExclusiveLabels, EndLabels
        <3> QED BY <1>3, <3>1, <3>2, <3>3, <3>4, <3>5 DEF Decides
    <2> QED BY <2>1, <2>2, <2>3, CleanControl DEF AllClean
<1> QED BY <1>1, <1>2, <1>3, Steps

(* The collector has marked all it is going to, but for the finalizers:    *)
(* the marked objects are the set within which the mutators stay.          *)
LEMMA ConfinedFrom ==
    ASSUME IInv, gcPc = "clearingDone", Control PROVE Within(Marked)'
<1>0. TypeOK /\ Scanned /\ Stacks /\ Phases /\ ToSpaceInvariant /\ AllClean /\ CopyingAssumption
    BY CopyingAssumption DEF IInv
<1>1. mode = "exclusive" /\ rpState = "markingDone"
    BY <1>0 DEF Phases, ExclusiveLabels
<1>2. gcStack = {} /\ revoked = {} /\ weakQueue = {} /\ scanned = None
      /\ \A m \in Mutators : local[m] = {}
    BY <1>0, <1>1 DEF Stacks
<1>3. \A m \in Mutators : Clean(m)
    BY <1>0, <1>1 DEF AllClean, Quiescent
<1>4. gray = {}
    BY SMT, <1>0, <1>2, <1>3 DEF IInv, GrayTracked, Queued, Clean, TypeOK
<1>5. \A o \in Objects : Marked = Marked' /\ (o \in Marked => Visited(o))
    BY <1>4 DEF Visited, Control, HeapKept, Marked
<1>6. \A o \in Marked : field[o] \in Marked \cup {None}
    BY <1>0, <1>5 DEF Scanned, Marked, TypeOK
<1>7. \A r \in References \cap Marked : referent[r] \in Marked \cup {None}
    BY <1>0, <1>4, <1>5 DEF Scanned
<1>8. \A m \in Mutators : Clean(m)'
    BY <1>0, <1>3, CleanControl
<1>9. \A m \in Mutators : (held[m] \subseteq Marked)' /\ pc'[m] \notin {"cas", "push"}
                          /\ (pc'[m] = "test" => ref'[m] \in bit)
    BY <1>0, <1>8 DEF Clean, ToSpaceInvariant, Control, HeapKept, Marked
<1> QED BY <1>4, <1>6, <1>7, <1>9 DEF Within, Control, HeapKept, Marked

LEMMA ConfinedStep == IInv /\ [Next]_vars => Confined'
<1> SUFFICES ASSUME IInv, [Next]_vars, rpState' = "clearingDone"
             PROVE  \E S \in SUBSET Objects : Within(S)'
    BY DEF Confined
<1>0. TypeOK /\ Operating /\ CopyingAssumption /\ Scanned /\ StacksGray /\ Marked \subseteq Marked'
    BY CopyingAssumption, MarkedGrows DEF IInv
<1>1. CASE rpState # "clearingDone"
    <2>1. gcPc = "clearingDone" /\ Decides
        BY <1>1, Steps, MutatorKept, CollectorKeeps
           DEF Decides, EndOfRevoked, EndOfOnce, Setup, SwitchMode, RequestEmptyCheckpoint,
               BroadcastForSlowPath, WakeupToRespond, WaitForBarrier, SwitchToGcExclusive,
               AdvanceRpState, ReenableWeakRefAccess, BroadcastForAccess, DisableMarking
    <2>2. Within(Marked)'
        BY <1>0, <2>1, DecidesControl, ConfinedFrom
    <2>3. TypeOK'
        BY TypeStep
    <2> QED BY <2>2, <2>3 DEF TypeOK, Marked
<1>2. CASE rpState = "clearingDone"
    <2>1. PICK S \in SUBSET Objects : Within(S)
        BY <1>2 DEF IInv, Confined
    <2> SUFFICES Within(S)'
        OBVIOUS
    <2>2. Within(S)
        BY <2>1
    <2> USE <1>0, <2>2 DEF Within, TypeOK
    <2>3. ASSUME NEW m \in Mutators, Reads(m) PROVE Within(S)'
        <3>1. pc[m] = "gray" => Value(m) \in S \cup {None}
            BY DEF Value, Operating, Reading
        <3>2. pc[m] = "test" => ref[m] \in bit
            BY DEF Marked
        <3>3. \A n \in Mutators : pc'[n] \notin {"cas", "push"} /\ (pc'[n] = "test" => ref'[n] \in S)
            BY SMT, <2>3, <3>1, <3>2 DEF Reads
        <3> QED BY <2>3, <3>3 DEF Reads, Marked
    <2>4. ASSUME NEW m \in Mutators, NEW v \in Values, Returns(m, v) PROVE Within(S)'
        <3>0. pc[m] \in {"gray", "plain"} => Value(m) \in S \cup {None}
            BY DEF Value, Operating, Reading
        <3>1. v \in S \cup {None}
            BY ZenonT(30), <1>2, <2>4, <3>0 DEF Returns
        <3>2. \A n \in Mutators : held'[n] \subseteq S /\ pc'[n] \notin {"cas", "push"}
                                  /\ (pc'[n] = "test" => ref'[n] \in S)
            BY ZenonT(30), <2>4, <3>1 DEF Returns, Finish
        <3>3. \A r \in References : referent'[r] \in {referent[r], None}
            BY ZenonT(30), <2>4 DEF Returns
        <3> QED BY <2>4, <3>2, <3>3 DEF Returns, Marked
    <2>5. ASSUME NEW m \in Mutators, Begins(m) PROVE Within(S)'
        BY <2>5, BeginsEffect DEF Marked
    <2>6. ASSUME NEW m \in Mutators, Stores(m) PROVE Within(S)'
        <3>1. \A o \in Objects : field'[o] = field[o] \/ field'[o] \in S \cup {None}
            BY SMT, <2>6 DEF Stores
        <3> QED BY <2>6, <3>1 DEF Stores, Marked
    <2>7. CASE Control
        BY <2>7 DEF Control, HeapKept, SamePlace, Waiting, Marked
    <2>8. CASE CollectorStep
        <3>1. gray' \cap S = {}
            BY <2>8 DEF CollectorStep, RevokeThreadLocalMarkStack, ProcessMarkStackRef, Scan,
                        Blacken, DisableWeakRefAccess, DequeueReference, ClearWhiteReference,
                        EnqueueFinalizerReferences, Marked
        <3>2. \A r \in References : referent'[r] \in {referent[r], None}
            <4>1. CASE ClearWhiteReference
                BY <4>1 DEF ClearWhiteReference, Scanned
            <4> QED BY <4>1, <2>8
                DEF CollectorStep, RevokeThreadLocalMarkStack, ProcessMarkStackRef, Scan, Blacken,
                    DisableWeakRefAccess, DequeueReference, EnqueueFinalizerReferences
        <3> QED BY <2>8, <3>1, <3>2, CollectorKeeps
    <2>9. \A m \in Mutators : ~Grays(m) /\ ~PushOntoMarkStack(m)
        BY <2>1 DEF Within, Grays, PushOntoMarkStack
    <2> QED BY <2>3, <2>4, <2>5, <2>6, <2>7, <2>8, <2>9, DecidesControl, Steps
            DEF MutatorStep, Idles
<1> QED BY <1>1, <1>2

(* Nothing is marked between the clearing of the first references and the  *)
(* marking for the finalizers.                                             *)
LEMMA NothingMarked ==
    ASSUME IInv, [Next]_vars, rpState = "markingDone"
    PROVE  Marked' = Marked /\ Disabled /\ \A m \in Mutators : pc[m] \in Reading => op[m] = "load"
<1>0. Phases /\ TypeOK /\ Scanned /\ CopyingAssumption
    BY CopyingAssumption DEF IInv
<1>1. mode = "exclusive" /\ gcPc \notin {"drain", "drainRevoked", "finalizers"} \cup EndLabels
    BY <1>0 DEF Phases, TypeOK, EndLabels, ExclusiveLabels
<1>2. Disabled
    BY <1>1 DEF Disabled, EndLabels
<1>3. Marked' = Marked
    <2>1. CASE MutatorStep
        BY ZenonT(30), <1>1, <2>1, NoPush
           DEF MutatorStep, Reads, Returns, Grays, PushOntoMarkStack, Begins, Stores, Marked
    <2>2. CASE Control
        BY <2>2 DEF Control, HeapKept, Marked
    <2>3. CASE ClearWhiteReference
        BY <1>0, <2>3 DEF ClearWhiteReference, Marked, Scanned, Queued
    <2>4. CASE CollectorStep /\ ~ClearWhiteReference
        BY <1>1, <2>4 DEF CollectorStep, RevokeThreadLocalMarkStack, DisableWeakRefAccess, DequeueReference,
                   ProcessMarkStackRef, Blacken, EnqueueFinalizerReferences, Marked, IInv, Stacks
    <2> QED BY <1>0, <2>1, <2>2, <2>3, <2>4, DecidesControl, Steps DEF Idles
<1> QED BY <1>2, <1>3 DEF IInv, OnlyLoads

LEMMA NullStep == IInv /\ [Next]_vars => NullKept' /\ CalledSince'
<1> SUFFICES ASSUME IInv, [Next]_vars PROVE NullKept' /\ CalledSince'
    OBVIOUS
<1>0. TypeOK /\ Operating /\ NullKept /\ CalledSince /\ CopyingAssumption /\ ToSpaceInvariant
      /\ Marked \subseteq Marked'
    BY CopyingAssumption, MarkedGrows DEF IInv
<1> USE <1>0 DEF TypeOK
<1>1. UNCHANGED <<nulled, referent, rpState>> => NullKept'
    BY NothingMarked DEF NullKept, CalledSince
<1>2. ASSUME NEW m \in Mutators, Reads(m) PROVE NullKept' /\ CalledSince'
    <2>1. sinceNull[m] => pc[m] # "gray" \/ Value(m) = None
        BY ZenonT(30), NothingMarked DEF NullKept, CalledSince, Value, Reading
    <2>2. CalledSince'
        <3>1. /\ UNCHANGED <<op, holder, sinceNull, nulled>>
              /\ pc'[m] \in {"gray", "plain", "test", "cas", "state"}
              /\ pc'[m] = "test" => pc[m] = "gray" /\ Value(m) # None
              /\ pc'[m] = "cas" => pc[m] = "test"
              /\ \A n \in Mutators : n # m => pc'[n] = pc[n]
            BY <1>2, ReadsEffect
        <3>2. \A n \in Mutators : sinceNull[n] =>
                pc'[n] \notin {"idle", "native", "test", "cas", "push"}
            BY <2>1, <3>1 DEF CalledSince
        <3> QED BY <3>1, <3>2 DEF CalledSince
    <2> QED BY <1>1, <1>2, <2>2 DEF Reads, CollectorKept
<1>3. ASSUME NEW m \in Mutators, NEW v \in Values, Returns(m, v) PROVE NullKept' /\ CalledSince'
    <2>1. CalledSince'
        BY ZenonT(30), <1>3 DEF Returns, Finish, NullKept, CalledSince
    <2>2. \A r \in References : referent'[r] \in {referent[r], None}
        BY <1>3 DEF Returns
    <2>3. \A r \in nulled : referent'[r] = None
              \/ (rpState' = "markingDone" /\ referent'[r] \notin Marked')
        BY <1>3, <2>2, NothingMarked DEF Returns, CollectorKept, NullKept, CalledSince
    <2>4. CASE nulled' = nulled
        BY <2>1, <2>3, <2>4 DEF NullKept, CalledSince
    <2>5. CASE op[m] \in {"get", "lockedGet"} /\ v = None /\ nulled' = nulled \cup {holder[m]}
        <3>1. holder[m] \in Marked
            BY <1>3 DEF Returns, Operating, Reading, Waiting, ToSpaceInvariant
        <3>2. referent[holder[m]] = None \/ (rpState = "markingDone" /\ referent[holder[m]] \notin Marked)
            BY ZenonT(30), <1>3, <2>5 DEF Returns, Value, Operating, Predicted
        <3>3. holder[m] \in References
            BY <1>3, <2>5 DEF Returns, Operating, Reading, Waiting
        <3>4. rpState' = rpState
            BY <1>3 DEF Returns, CollectorKept
        <3> QED BY ZenonT(30), <2>1, <2>2, <2>3, <2>5, <3>1, <3>2, <3>3, <3>4, NothingMarked DEF NullKept, CalledSince
    <2> QED BY <1>3, <2>4, <2>5 DEF Returns, Finish
<1>4. ASSUME NEW m \in Mutators, Grays(m) \/ Stores(m) PROVE NullKept' /\ CalledSince'
    <2>1. CalledSince'
        <3>1. UNCHANGED <<sinceNull, holder, nulled, op>>
            BY <1>4 DEF Grays, Stores
        <3>2. \A n \in Mutators : pc'[n] = pc[n] \/ (n = m /\ pc[m] = "cas")
            BY <1>4 DEF Grays, Stores
        <3> QED BY <3>1, <3>2 DEF CalledSince
    <2> QED BY <1>1, <1>4, <2>1 DEF Grays, Stores, CollectorKept
<1>11. ASSUME NEW m \in Mutators, Begins(m) PROVE NullKept' /\ CalledSince'
    <2>1. CalledSince'
        <3> SUFFICES ASSUME NEW n \in Mutators, sinceNull'[n]
                     PROVE  /\ holder'[n] \in nulled' /\ op'[n] # "load"
                            /\ pc'[n] \notin {"idle", "native", "test", "cas", "push"}
            BY DEF CalledSince
        <3>1. CASE n = m
            BY <1>11, <3>1, BeginsEffect
        <3>2. CASE n # m
            BY <1>11, <3>2, BeginsEffect DEF CalledSince
        <3> QED BY <3>1, <3>2
    <2> QED BY <1>1, <1>11, <2>1, BeginsEffect
<1>5. ASSUME NEW m \in Mutators, PushOntoMarkStack(m) PROVE NullKept' /\ CalledSince'
    <2>1. CalledSince'
        BY ZenonT(30), <1>5 DEF PushOntoMarkStack, Finish, NullKept, CalledSince
    <2> QED BY ZenonT(30), <1>1, <1>5, <2>1 DEF PushOntoMarkStack, Finish, Operating
<1>6. Control => CalledSince'
    BY ZenonT(30) DEF Control, HeapKept, SamePlace, Waiting, NullKept, CalledSince
<1>7. CASE Idles
    BY <1>1, <1>6, <1>7 DEF Idles, Control, HeapKept
<1>8. CASE CollectorStep
    <2>1. CalledSince'
        BY ZenonT(30), <1>8, CollectorKeeps DEF NullKept, CalledSince
    <2>2. CASE ClearWhiteReference
        <3>1. \A r \in References : referent'[r] \in {referent[r], None}
            BY <2>2 DEF ClearWhiteReference, IInv, Scanned
        <3>2. UNCHANGED <<nulled, rpState>> /\ Marked' = Marked
            BY <2>2, NothingMarked DEF ClearWhiteReference, Marked
        <3> QED BY <2>1, <3>1, <3>2 DEF NullKept
    <2>3. CASE ~ClearWhiteReference
        <3>1. UNCHANGED <<nulled, referent, rpState>>
            BY <1>8, <2>3
               DEF CollectorStep, RevokeThreadLocalMarkStack, ProcessMarkStackRef, Scan, Blacken,
                   DisableWeakRefAccess, DequeueReference, EnqueueFinalizerReferences
        <3> QED BY <1>1, <2>1, <3>1
    <2> QED BY <2>2, <2>3
<1>9. CASE Decides
    <2>1. Control
        BY <1>9, DecidesControl
    <2>2. UNCHANGED <<nulled, referent>> /\ Marked' = Marked
        BY <2>1 DEF Control, HeapKept, Marked
    <2>3. CASE gcPc = "clearingDone"
        <3>1. Within(Marked)'
            BY <2>1, <2>3, ConfinedFrom
        <3>2. \A r \in nulled : referent[r] \in Marked \cup {None}
            BY <2>2, <3>1 DEF Within, NullKept, CalledSince
        <3> QED BY <1>6, <2>1, <2>2, <3>2 DEF NullKept, CalledSince
    <2>4. CASE gcPc # "clearingDone"
        <3>1. rpState' = rpState \/ rpState \in {"off", "starting"}
            BY <1>9, <2>4
               DEF Decides, EndOfRevoked, EndOfOnce, Setup, SwitchMode, RequestEmptyCheckpoint,
                   BroadcastForSlowPath, WakeupToRespond, WaitForBarrier, SwitchToGcExclusive,
                   AdvanceRpState, ReenableWeakRefAccess, BroadcastForAccess, DisableMarking,
                   IInv, Phases, LocalLabels
        <3> QED BY <1>6, <2>1, <2>2, <3>1 DEF NullKept, CalledSince
    <2> QED BY <2>3, <2>4
<1> QED BY <1>2, <1>3, <1>4, <1>5, <1>7, <1>8, <1>9, <1>11, Steps DEF MutatorStep

-----------------------------------------------------------------------------
(* The theorems.                                                           *)

LEMMA InitInv == Init => IInv
<1> SUFFICES ASSUME Init PROVE IInv
    OBVIOUS
<1> USE CopyingAssumption
<1>1. PICK s \in Scenarios :
        LET roots == UNION {s.roots[m] : m \in Mutators} IN
        /\ may = s.may /\ field = s.field /\ referent = s.referent
        /\ gray = roots /\ bit = roots \cap Moving /\ gcStack = roots /\ held = s.roots
    BY DEF Init
<1>2. /\ gray \in SUBSET Objects /\ gcStack = gray /\ bit \subseteq gray /\ bit = gray \cap Moving
      /\ held \in [Mutators -> SUBSET Objects] /\ \A m \in Mutators : held[m] \subseteq gray
    BY SMT, <1>1
<1>3. field \in [Objects -> Values] /\ referent \in [References -> Values]
    BY <1>1 DEF Values
<1>4. /\ pc = [m \in Mutators |-> "idle"] /\ op = [m \in Mutators |-> None]
      /\ ref = [m \in Mutators |-> None] /\ holder = [m \in Mutators |-> None]
      /\ local = [m \in Mutators |-> {}] /\ enabled = [m \in Mutators |-> TRUE]
      /\ marking = [m \in Mutators |-> TRUE] /\ asked = {}
      /\ gcPc = "revoke" /\ mode = "local" /\ waitFor = Mutators
      /\ revoked = {} /\ scanned = None /\ found = FALSE
      /\ rpState = "off" /\ weakQueue = {} /\ current = [ref |-> None, to |-> None]
      /\ nulled = {} /\ sinceNull = [m \in Mutators |-> FALSE]
    BY DEF Init
<1>5. TypeOK
    BY <1>2, <1>3, <1>4 DEF TypeOK, Values, Labels, GcLabels, LocalLabels
<1>6. Operating /\ OnlyLoads /\ PlainMarked /\ CalledSince /\ NullKept
    BY <1>4 DEF Operating, OnlyLoads, PlainMarked, CalledSince, NullKept, Reading, Waiting, Disabled
<1>7. Phases /\ Stacks
    BY <1>4 DEF Phases, Stacks, Disabled, LocalLabels, SharedLabels, ExclusiveLabels, EndLabels, Asking
<1>8. Flags
    BY <1>4 DEF Flags, Disabled, Asking
<1>9. GrayTracked /\ StacksGray /\ ToSpaceInvariant
    BY <1>2, <1>4 DEF GrayTracked, StacksGray, ToSpaceInvariant, Marked
<1>10. \A o \in Objects : ~Queued(o) /\ ~Visited(o)
    BY <1>2, <1>4 DEF Queued, Visited, Marked
<1>11. Scanned
    BY <1>4, <1>10 DEF Scanned
<1>12. Flushed /\ AllClean /\ Confined
    BY <1>4 DEF Flushed, AllClean, Quiescent, Confined, Asking
<1> QED BY <1>5, <1>6, <1>7, <1>8, <1>9, <1>11, <1>12 DEF IInv

(* Whatever the mutators and the collector do, the invariant holds.        *)
THEOREM Invariance == Spec => []IInv
<1>1. IInv /\ [Next]_vars => IInv'
    BY TypeStep, OperatingStep, PhasesStep, FlagsStep, StacksStep, OnlyLoadsStep, GrayTrackedStep,
       StacksGrayStep, ScannedStep, PlainMarkedStep, FlushedStep, AllCleanStep, ConfinedStep,
       NullStep, ToSpaceStep DEF IInv
<1> QED BY InitInv, <1>1, PTL DEF Spec

(* The to-space invariant of the read barrier (ReadBarrier::Barrier,       *)
(* ConcurrentCopying::Mark): mutators only hold marked objects.            *)
THEOREM ToSpace == Spec => []ToSpaceInvariant
<1>1. IInv => ToSpaceInvariant
    BY DEF IInv
<1> QED BY <1>1, Invariance, PTL

(* ProcessMarkStack ends when marking is complete, although mutators mark  *)
(* at the same time and the decision takes one empty checkpoint round.     *)
THEOREM MarkingEnds == Spec => []MarkingComplete
<1>1. IInv => MarkingComplete
    <2> SUFFICES ASSUME IInv PROVE MarkingComplete
        OBVIOUS
    <2>0. TypeOK /\ Stacks /\ Phases /\ Scanned /\ CopyingAssumption
        BY CopyingAssumption DEF IInv
    <2>1. mode \in {"exclusive", "off"} =>
            \A m \in Mutators : pc[m] # "push" /\ local[m] = {}
        BY <2>0, NoPush DEF Stacks, Phases
    <2>2. mode \in {"exclusive", "off"} => revoked = {} /\ (gcPc # "drain" => gcStack = {})
        BY <2>0 DEF Stacks, Phases, LocalLabels
    <2>3. ASSUME gcPc \in {"disable", "done"}
          PROVE  /\ gray = {} /\ \A o \in Marked : field[o] \in Marked \cup {None}
                 /\ \A r \in References \cap Marked : referent[r] \in Marked \cup {None}
        <3>1. mode \in {"exclusive", "off"} /\ weakQueue = {} /\ scanned = None /\ gcPc # "assign"
            BY <2>0, <2>3 DEF Stacks, Phases, ExclusiveLabels, EndLabels
        <3>2. gray = {}
            BY SMT, <2>1, <2>2, <2>3, <3>1, <2>0 DEF IInv, GrayTracked, Queued, TypeOK
        <3>3. \A o \in Marked : o \in Objects /\ Visited(o)
            BY <2>0, <3>2 DEF Visited, Marked, TypeOK
        <3> QED BY <2>0, <3>2, <3>3 DEF Scanned
    <2> QED BY <2>1, <2>2, <2>3 DEF MarkingComplete
<1> QED BY <1>1, Invariance, PTL

(* GetReferent never gets the referent again after it has returned null,   *)
(* be it by prediction, while ClearWhiteReferences is on its way.          *)
THEOREM NullStaysNull == Spec => NullIsFinal
<1>1. IInv /\ [Next]_vars => [\A m \in Mutators : sinceNull[m] => held'[m] = held[m]]_vars
    <2> SUFFICES ASSUME IInv, [Next]_vars, NEW m \in Mutators, sinceNull[m] PROVE held'[m] = held[m]
        OBVIOUS
    <2>0. TypeOK /\ Operating /\ NullKept /\ CalledSince /\ CopyingAssumption
        BY CopyingAssumption DEF IInv
    <2> USE <2>0 DEF TypeOK
    <2>1. ASSUME NEW n \in Mutators, NEW v \in Values, Returns(n, v) PROVE held'[m] = held[m]
        <3>1. n = m => v = None
            BY <2>1, NothingMarked DEF Returns, NullKept, CalledSince, Value, Predicted, Reading
        <3> QED BY <2>1, <3>1 DEF Returns, Finish
    <2>2. ASSUME NEW n \in Mutators, PushOntoMarkStack(n) PROVE held'[m] = held[m]
        BY ZenonT(30), <2>2 DEF PushOntoMarkStack, Finish, CalledSince
    <2>3. CASE UNCHANGED held
        BY <2>3
    <2> QED BY <2>1, <2>2, <2>3, DecidesControl, CollectorKeeps, Steps
            DEF MutatorStep, Idles, Control, HeapKept, Reads, Grays, Begins, Stores
<1> QED BY <1>1, Invariance, PTL DEF NullIsFinal, Spec

(* ClearWhiteReferences writes without a compare-and-set, but never        *)
(* restores a referent that Reference.clear has removed.                   *)
THEOREM ClearsAreKept == Spec => ClearedStaysCleared
<1>1. IInv /\ [Next]_vars =>
        [\A r \in References : referent[r] = None => referent'[r] = None]_vars
    <2> SUFFICES ASSUME IInv, [Next]_vars, NEW r \in References, referent[r] = None
                 PROVE  referent'[r] = None
        OBVIOUS
    <2>0. TypeOK /\ Scanned /\ CopyingAssumption
        BY CopyingAssumption DEF IInv
    <2>1. CASE UNCHANGED referent
        BY <2>1
    <2>2. ASSUME NEW m \in Mutators, NEW v \in Values, Returns(m, v) PROVE referent'[r] = None
        BY ZenonT(30), <2>0, <2>2 DEF Returns, TypeOK
    <2>3. CASE ClearWhiteReference
        BY ZenonT(30), <2>0, <2>3 DEF ClearWhiteReference, Scanned, TypeOK, Marked
    <2>4. CASE CollectorStep /\ ~ClearWhiteReference
        BY <2>4 DEF CollectorStep, RevokeThreadLocalMarkStack, ProcessMarkStackRef, Scan, Blacken,
                    DisableWeakRefAccess, DequeueReference, EnqueueFinalizerReferences
    <2>5. CASE MutatorStep
        BY <2>1, <2>2, <2>5
           DEF MutatorStep, Reads, Grays, PushOntoMarkStack, Begins, Stores
    <2>6. CASE Control
        BY <2>1, <2>6 DEF Control, HeapKept
    <2> QED BY <2>0, <2>3, <2>4, <2>5, <2>6, DecidesControl, Steps DEF Idles
<1> QED BY <1>1, Invariance, PTL DEF ClearedStaysCleared, Spec
=============================================================================
