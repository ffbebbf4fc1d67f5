------------------------- MODULE ConcurrentCopying -------------------------
(***************************************************************************)
(* The concurrent part of a collection of the concurrent copying collector *)
(* with Baker read barriers, from the thread flip to the end of marking:   *)
(* mutators mark what they read from gray objects, the collector marks     *)
(* through the mark stacks, stops access to weak references, decides that  *)
(* marking is complete, processes the references and allows access again   *)
(* (gc/collector/concurrent_copying{-inl.h,.cc}, gc/reference_processor.cc,*)
(* gc/reference_queue.cc, read_barrier-inl.h, ThreadList::RunEmptyCheck-   *)
(* point).                                                                 *)
(*                                                                         *)
(* An object stands for its from-space and its to-space copy: it is marked *)
(* once it is gray or its mark bit (bitmap, or forwarding address) is set. *)
(* Every object has one strong field; References have a referent as well,  *)
(* and they are WeakReferences.  The generational mode, soft and phantom   *)
(* references, immune spaces and allocation are left out.  Suspending all  *)
(* threads and checkpoints happen at the suspend points of the mutators;   *)
(* how the threads get there is modelled in ThreadSuspension, Checkpoints. *)
(***************************************************************************)
EXTENDS Naturals, FiniteSets

CONSTANTS
    Mutators,
    Objects,
    Moving,        \* objects of regions that are evacuated
    References,    \* the WeakReference instances
    Finalizable,   \* objects with a FinalizerReference
    Scenarios,     \* heaps and mutator programs to start from
    None

Operations == {"load", "store", "get", "lockedGet", "clear", "native"}

ASSUME CopyingAssumption ==
    /\ IsFiniteSet(Mutators) /\ IsFiniteSet(Objects)
    /\ Moving \subseteq Objects /\ References \subseteq Objects
    /\ Finalizable \subseteq Objects
    /\ None \notin Mutators \cup Objects
    /\ \A s \in Scenarios :
          /\ s.field \in [Objects -> Objects \cup {None}]
          /\ s.referent \in [References -> Objects \cup {None}]
          /\ s.roots \in [Mutators -> SUBSET Objects]
          /\ s.may \in [Mutators -> SUBSET Operations]
          /\ s.calls \in [Mutators -> Nat]  \* bound on the operations

VARIABLES
    may,           \* what each mutator does
    field,         \* the strong field of each object
    referent,      \* Reference.referent
    gray,          \* objects whose read barrier state is gray
    bit,           \* objects in a mark bitmap, or with a forwarding address
    pc, op,        \* of a mutator: its step, its operation,
    holder, ref,   \* the object it reads from, the value it has read
    held,          \* objects a mutator has references to
    local,         \* thread-local mark stacks
    enabled,       \* tls32_.weak_ref_access_enabled
    marking,       \* tls32_.is_gc_marking
    asked,         \* threads with kEmptyCheckpointRequest set
    calls,         \* operations the mutator may still begin
    gcPc, mode,    \* the step of the collector; mark_stack_mode_
    gcStack,       \* gc_mark_stack_
    revoked,       \* contents of revoked_mark_stacks_
    scanned,       \* the object ProcessMarkStackRef is about to blacken
    found, emptyPrev, \* count # 0 and empty_prev of ProcessMarkStack
    waitFor,       \* mutators a checkpoint still waits for
    rpState, weakQueue,  \* of the ReferenceProcessor
    current,       \* the Reference and referent ClearWhiteReferences is at
    rpLock,        \* owner of reference_processor_lock_
    dexLock,       \* owner of a mutex expected on weak reference access
    nulled,        \* References GetReferent has returned null for ...
    sinceNull      \* ... before the mutator's GetReferent of them began

heapVars == <<field, referent, gray, bit>>
callVars == <<op, holder, ref, calls, sinceNull>>
flagVars == <<enabled, marking, asked>>
lockVars == <<rpLock, dexLock>>
drainVars == <<revoked, scanned, found, emptyPrev>>
rpVars == <<rpState, weakQueue, current>>
gcVars == <<gcPc, mode, drainVars, waitFor, rpVars>>
vars == <<may, heapVars, pc, callVars, held, local, flagVars, gcStack, gcVars,
          lockVars, nulled>>

Marked == gray \cup bit

-----------------------------------------------------------------------------
(* After FlipThreadRoots: the roots of the threads are marked, gray and on *)
(* the collector's mark stack; every thread has its marking flag set.      *)
Init ==
    \E s \in Scenarios :
       LET roots == UNION {s.roots[m] : m \in Mutators} IN
       /\ may = s.may /\ field = s.field /\ referent = s.referent
       /\ gray = roots /\ bit = roots \cap Moving /\ gcStack = roots
       /\ pc = [m \in Mutators |-> "idle"] /\ op = [m \in Mutators |-> None]
       /\ ref = [m \in Mutators |-> None] /\ holder = [m \in Mutators |-> None]
       /\ held = s.roots /\ local = [m \in Mutators |-> {}]
       /\ enabled = [m \in Mutators |-> TRUE]
       /\ marking = [m \in Mutators |-> TRUE] /\ asked = {}
       /\ calls = s.calls
       /\ gcPc = "revoke" /\ mode = "local" /\ waitFor = Mutators
       /\ revoked = {} /\ scanned = None /\ found = FALSE /\ emptyPrev = FALSE
       /\ rpState = "off" /\ weakQueue = {}
       /\ current = [ref |-> None, to |-> None]
       /\ rpLock = None /\ dexLock = None
       /\ nulled = {} /\ sinceNull = [m \in Mutators |-> FALSE]

-----------------------------------------------------------------------------
(* Mutators.                                                               *)

Goto(m, l) == pc' = [pc EXCEPT ![m] = l]

(* m begins an operation, from a suspend point; Access is one that reads   *)
(* from object o.                                                          *)
Begin(m, operation) ==
    /\ pc[m] = "idle" /\ operation \in may[m] /\ calls[m] > 0
    /\ calls' = [calls EXCEPT ![m] = @ - 1]
    /\ UNCHANGED <<ref, referent, gray, bit, may, held, local, flagVars,
                   gcStack, gcVars, lockVars, nulled>>

Access(m, operation, o, l) ==
    /\ Begin(m, operation) /\ Goto(m, l)
    /\ op' = [op EXCEPT ![m] = operation]
    /\ holder' = [holder EXCEPT ![m] = o]
    /\ sinceNull' = [sinceNull EXCEPT ![m] = operation # "load" /\ o \in nulled]
    /\ UNCHANGED field

Load(m) == \E o \in held[m] : Access(m, "load", o, "state")

(* The stored value is one the mutator holds: there is no write barrier.   *)
Store(m) ==
    \E o \in held[m], v \in held[m] \cup {None} :
       /\ Begin(m, "store") /\ field' = [field EXCEPT ![o] = v]
       /\ UNCHANGED <<pc, op, holder, sinceNull>>

GetReferent(m) ==
    \E r \in held[m] \cap References :
       Access(m, "get", r, "check") \/ Access(m, "lockedGet", r, "lock")

ClearReferent(m) ==
    \E r \in held[m] \cap References : Access(m, "clear", r, "slowLock")

(* The operation ends with value v; the locks of m are released.           *)
Finish(m, v) ==
    LET get == op[m] \in {"get", "lockedGet"} IN
    /\ pc' = [n \in Mutators |-> IF n = m THEN "idle"
                                 ELSE IF dexLock = m /\ pc[n] = "asleep"
                                      THEN "lock" ELSE pc[n]]
    /\ held' = [held EXCEPT ![m] = @ \cup ({v} \ {None})]
    /\ nulled' = IF get /\ v = None THEN nulled \cup {holder[m]} ELSE nulled
    /\ sinceNull' = [sinceNull EXCEPT ![m] = FALSE]
    /\ rpLock' = IF rpLock = m THEN None ELSE rpLock
    /\ dexLock' = IF dexLock = m THEN None ELSE dexLock
    /\ holder' = [holder EXCEPT ![m] = None] /\ ref' = [ref EXCEPT ![m] = None]
    /\ op' = [op EXCEPT ![m] = None] /\ UNCHANGED calls

-----------------------------------------------------------------------------
(* The read barrier.                                                       *)

(* Barrier reads whether the holder is gray before it reads the field.     *)
ReadState(m) ==
    /\ pc[m] = "state"
    /\ Goto(m, IF holder[m] \in gray THEN "gray" ELSE "plain")
    /\ UNCHANGED <<may, heapVars, callVars, held, local, flagVars, gcStack,
                   gcVars, lockVars, nulled>>

ReadField(m) ==
    LET v == IF op[m] = "load" THEN field[holder[m]] ELSE referent[holder[m]] IN
    /\ pc[m] \in {"gray", "plain"}
    /\ \/ /\ v = None \/ pc[m] = "plain" \/ ~marking[m]
          /\ Finish(m, v)
       \/ /\ v # None /\ pc[m] = "gray" /\ marking[m]
          /\ Goto(m, "test") /\ ref' = [ref EXCEPT ![m] = v]
          /\ UNCHANGED <<op, holder, calls, sinceNull, held, lockVars, nulled>>
    /\ UNCHANGED <<may, heapVars, local, flagVars, gcStack, gcVars>>

(* Mark: nothing to do for an object with its mark bit set ...             *)
TestBit(m) ==
    /\ pc[m] = "test"
    /\ \/ ref[m] \in bit /\ Finish(m, ref[m])
       \/ /\ ref[m] \notin bit /\ Goto(m, "cas")
          /\ UNCHANGED <<callVars, held, lockVars, nulled>>
    /\ UNCHANGED <<may, heapVars, local, flagVars, gcStack, gcVars>>

(* ... otherwise the thread that makes it gray pushes it.  An object that  *)
(* is not moved can be made gray again after it has been blackened.        *)
CanGray(o) == o \notin gray /\ ~(o \in Moving /\ o \in bit)

SetGray(m) ==
    /\ pc[m] = "cas"
    /\ \/ /\ CanGray(ref[m])
          /\ gray' = gray \cup {ref[m]} /\ bit' = bit \cup ({ref[m]} \cap Moving)
          /\ Goto(m, "push")
          /\ UNCHANGED <<callVars, held, lockVars, nulled>>
       \/ /\ ~CanGray(ref[m]) /\ Finish(m, ref[m]) /\ UNCHANGED <<gray, bit>>
    /\ UNCHANGED <<may, field, referent, local, flagVars, gcStack, gcVars>>

(* In the exclusive mode the runtime aborts: the mutator is left here.     *)
PushOntoMarkStack(m) ==
    /\ pc[m] = "push" /\ mode \in {"local", "shared"}
    /\ IF mode = "local"
       THEN local' = [local EXCEPT ![m] = @ \cup {ref[m]}] /\ UNCHANGED gcStack
       ELSE gcStack' = gcStack \cup {ref[m]} /\ UNCHANGED local
    /\ Finish(m, ref[m])
    /\ UNCHANGED <<may, heapVars, flagVars, gcVars>>

-----------------------------------------------------------------------------
(* Weak reference access: GetReferent and ClearReferent.                   *)

heapAndGc == <<may, heapVars, local, gcStack, gcVars>>

(* The fast path, and the null test before reference_processor_lock_.      *)
CheckAccess(m) ==
    /\ pc[m] = "check"
    /\ \/ enabled[m] /\ Goto(m, "state")
          /\ UNCHANGED <<callVars, held, lockVars, nulled>>
       \/ ~enabled[m] /\ referent[holder[m]] = None /\ Finish(m, None)
       \/ ~enabled[m] /\ referent[holder[m]] # None /\ Goto(m, "slowLock")
          /\ UNCHANGED <<callVars, held, lockVars, nulled>>
    /\ UNCHANGED <<heapAndGc, flagVars>>

SlowLock(m) ==
    /\ pc[m] = "slowLock" /\ rpLock = None
    /\ rpLock' = m /\ Goto(m, "slowCheck")
    /\ UNCHANGED <<heapAndGc, callVars, held, flagVars, dexLock, nulled>>

(* What GetReferent predicts once the initial marking is done (IsMarked).  *)
Predicted(r) == IF referent[r] \in Marked THEN referent[r] ELSE None

(* Mutant of SlowCheck: ClearReferent does not wait for the processing.    *)
SlowCheckClearsAtOnce(m) ==
    /\ pc[m] = "slowCheck" /\ op[m] = "clear"
    /\ referent' = [referent EXCEPT ![holder[m]] = None]
    /\ Finish(m, None)
    /\ UNCHANGED <<may, field, gray, bit, local, gcStack, gcVars, flagVars>>

(* The loop under the lock, once per wakeup.                               *)
SlowCheck(m) ==
    LET access == enabled[m] \/ rpState = "clearingDone" IN
    /\ pc[m] = "slowCheck"
    /\ \/ /\ op[m] = "clear" /\ enabled[m]
          /\ referent' = [referent EXCEPT ![holder[m]] = None]
          /\ Finish(m, None)
       \/ /\ op[m] # "clear" /\ access /\ Goto(m, "state")
          /\ UNCHANGED <<referent, callVars, held, lockVars, nulled>>
       \/ /\ op[m] # "clear" /\ ~access /\ rpState = "markingDone"
          /\ Finish(m, Predicted(holder[m])) /\ UNCHANGED referent
       \/ /\ IF op[m] = "clear" THEN ~enabled[m]
                                ELSE ~access /\ rpState = "starting"
          /\ Goto(m, "slowEc")
          /\ UNCHANGED <<referent, callVars, held, lockVars, nulled>>
    /\ UNCHANGED <<may, field, gray, bit, local, gcStack, gcVars, flagVars>>

(* Waiting for condition_ releases the lock; the mutator stays Runnable.   *)
SlowWait(m) ==
    /\ pc[m] = "slowWait" /\ rpLock' = None /\ Goto(m, "waiting")
    /\ UNCHANGED <<heapAndGc, callVars, held, flagVars, dexLock, nulled>>

(* The caller's mutex: Mutex::ExclusiveLock, with the contention path that *)
(* answers empty checkpoints before it sleeps on the futex.                *)
LockMutex(m) ==
    /\ \/ /\ pc[m] = "lock" /\ dexLock = None
          /\ dexLock' = m /\ Goto(m, "check")
       \/ pc[m] = "lock" /\ dexLock # None /\ Goto(m, "lockEc") /\ UNCHANGED dexLock
       \/ /\ pc[m] = "lockSleep" /\ UNCHANGED dexLock
          /\ Goto(m, IF dexLock = None THEN "lock" ELSE "asleep")
    /\ UNCHANGED <<heapAndGc, callVars, held, flagVars, rpLock, nulled>>

(* Thread::RunEmptyCheckpoint and the barrier it passes.                   *)
RunEmptyCheckpoint(m) ==
    /\ asked' = asked \ {m} /\ waitFor' = waitFor \ {m}
    /\ UNCHANGED <<may, heapVars, callVars, held, local, enabled, marking,
                   gcStack, gcPc, mode, drainVars, rpVars, lockVars, nulled>>

(* Threads look for the request at suspend points and before they block.   *)
AnswerRequest(m) ==
    /\ m \in asked /\ pc[m] \in {"idle", "slowEc", "lockEc"}
    /\ RunEmptyCheckpoint(m) /\ UNCHANGED pc

NoRequest(m) ==
    /\ m \notin asked
    /\ \/ pc[m] = "slowEc" /\ Goto(m, "slowWait")
       \/ pc[m] = "lockEc" /\ Goto(m, "lockSleep")
    /\ UNCHANGED <<heapAndGc, callVars, held, flagVars, lockVars, nulled>>

(* TransitionToSuspendedAndRunCheckpoints, and the way back.               *)
ToNative(m) ==
    /\ m \notin asked /\ Begin(m, "native") /\ Goto(m, "native")
    /\ UNCHANGED <<field, op, holder, sinceNull>>

FromNative(m) ==
    /\ pc[m] = "native" /\ Goto(m, "idle")
    /\ UNCHANGED <<heapAndGc, callVars, held, flagVars, lockVars, nulled>>

-----------------------------------------------------------------------------
(* The collector.                                                          *)

AtSuspendPoint(m) == pc[m] \in {"idle", "native"}
mutatorVars == <<may, callVars, held, dexLock, nulled>>

(* RevokeThreadLocalMarkStackCheckpoint, run by m or on behalf of it.      *)
RevokeThreadLocalMarkStack ==
    /\ gcPc = "revoke"
    /\ \/ \E m \in waitFor :
             /\ AtSuspendPoint(m)
             /\ revoked' = revoked \cup local[m]
             /\ local' = [local EXCEPT ![m] = {}]
             /\ waitFor' = waitFor \ {m} /\ UNCHANGED gcPc
       \/ /\ waitFor = {} /\ gcPc' = "drainRevoked"
          /\ UNCHANGED <<revoked, local, waitFor>>
    /\ UNCHANGED <<mutatorVars, heapVars, pc, flagVars, gcStack, mode, scanned,
                   found, emptyPrev, rpVars, rpLock>>

(* ProcessMarkStackRef, the first half: set the mark bit and, unless it    *)
(* was set, scan the object; a Reference with an unmarked referent is      *)
(* queued (DelayReferenceReferent).                                        *)
Scan(o, stack) ==
    LET scan == o \in Moving \/ o \notin bit
        new == IF scan THEN {field[o]} \ (Marked \cup {None}) ELSE {}
    IN  /\ gray' = gray \cup new
        /\ bit' = bit \cup {o} \cup (new \cap Moving)
        /\ gcStack' = stack \cup new
        /\ weakQueue' =
              IF scan /\ o \in References /\ referent[o] \notin gray' \cup bit' \cup {None}
              THEN weakQueue \cup {o} ELSE weakQueue
        /\ scanned' = o
        /\ UNCHANGED <<mutatorVars, field, referent, pc, local, flagVars, gcPc,
                       mode, emptyPrev, waitFor, rpState, current, rpLock>>

ProcessMarkStackRef ==
    /\ scanned = None
    /\ \/ /\ gcPc = "drainRevoked"
          /\ \E o \in revoked : /\ Scan(o, gcStack) /\ revoked' = revoked \ {o}
                                /\ found' = (mode = "local")
       \/ /\ gcPc = "drain"
          /\ \E o \in gcStack : /\ Scan(o, gcStack \ {o}) /\ found' = TRUE
                                /\ UNCHANGED revoked

(* Mutant of Blacken: References are treated like other objects.           *)
BlackenReference ==
    /\ scanned # None /\ scanned' = None /\ gray' = gray \ {scanned}
    /\ UNCHANGED <<mutatorVars, field, referent, bit, pc, local, flagVars, gcPc,
                   gcStack, mode, revoked, found, emptyPrev, waitFor, rpVars,
                   rpLock>>

(* The second half: a queued Reference stays gray, so that reading its     *)
(* referent takes the slow path of the read barrier.                       *)
Blacken ==
    /\ scanned # None /\ scanned' = None
    /\ gray' = IF scanned \in References
                  /\ referent[scanned] \notin Marked \cup {None}
               THEN gray ELSE gray \ {scanned}
    /\ UNCHANGED <<mutatorVars, field, referent, bit, pc, local, flagVars, gcPc,
                   gcStack, mode, revoked, found, emptyPrev, waitFor, rpVars,
                   rpLock>>

gcOnly == <<mutatorVars, heapVars, local, gcStack, drainVars, rpVars>>

(* ProcessMarkStack ends when ProcessMarkStackOnce has found nothing twice *)
(* in a row; each time it begins by a checkpoint or an empty checkpoint.   *)
MarkStackDone == emptyPrev /\ ~found

EndOfRevoked ==
    /\ gcPc = "drainRevoked" /\ scanned = None /\ revoked = {}
    /\ gcPc' = IF mode = "local" THEN "drain" ELSE "ecAsk"
    /\ UNCHANGED <<gcOnly, pc, flagVars, mode, waitFor, rpLock>>

EndOfOnce ==
    /\ gcPc = "drain" /\ scanned = None /\ gcStack = {}
    /\ gcPc' = IF mode = "exclusive" THEN "clear"
               ELSE IF MarkStackDone
                    THEN IF mode = "local" THEN "setup" ELSE "exclusive"
                    ELSE IF mode = "local" THEN "revoke" ELSE "ecAsk"
    /\ waitFor' = IF gcPc' = "revoke" THEN Mutators ELSE waitFor
    /\ emptyPrev' = (~found /\ ~MarkStackDone) /\ found' = FALSE
    /\ UNCHANGED <<mutatorVars, heapVars, pc, local, flagVars, gcStack, mode,
                   revoked, scanned, rpVars, rpLock>>

(* condition_.Broadcast(), with reference_processor_lock_ held.            *)
Broadcast ==
    /\ rpLock = None
    /\ pc' = [m \in Mutators |-> IF pc[m] = "waiting" THEN "slowLock" ELSE pc[m]]

(* ReferenceProcessor::Setup.                                              *)
Setup ==
    /\ gcPc = "setup" /\ rpLock = None
    /\ rpState' = "starting" /\ gcPc' = "switch"
    /\ UNCHANGED <<mutatorVars, heapVars, pc, local, flagVars, gcStack, mode,
                   drainVars, waitFor, weakQueue, current, rpLock>>

(* SwitchToSharedMarkStackMode: the mode is set, then all threads are      *)
(* suspended to disable weak reference access and revoke their stacks.     *)
SwitchMode ==
    /\ gcPc = "switch" /\ mode' = "shared" /\ gcPc' = "pause"
    /\ UNCHANGED <<gcOnly, pc, flagVars, waitFor, rpLock>>

DisableWeakRefAccess ==
    /\ gcPc = "pause" /\ \A m \in Mutators : AtSuspendPoint(m)
    /\ enabled' = [m \in Mutators |-> FALSE]
    /\ revoked' = revoked \cup UNION {local[m] : m \in Mutators}
    /\ local' = [m \in Mutators |-> {}] /\ gcPc' = "drainRevoked"
    /\ UNCHANGED <<mutatorVars, heapVars, pc, marking, asked, gcStack, mode,
                   scanned, found, emptyPrev, waitFor, rpVars, rpLock>>

(* ThreadList::RunEmptyCheckpoint: flag the runnable threads, wake those   *)
(* that wait for access, then those that wait for a mutex, periodically.   *)
RequestEmptyCheckpoint ==
    /\ gcPc = "ecAsk" /\ gcPc' = "ecBroadcast"
    /\ asked' = {m \in Mutators : pc[m] # "native"} /\ waitFor' = asked'
    /\ UNCHANGED <<gcOnly, pc, enabled, marking, mode, rpLock>>

BroadcastForSlowPath ==
    /\ gcPc = "ecBroadcast" /\ Broadcast /\ gcPc' = "ecWake"
    /\ UNCHANGED <<gcOnly, flagVars, mode, waitFor, rpLock>>

WakeupToRespond ==
    /\ gcPc = "ecWake" /\ gcPc' = "ecWait"
    /\ pc' = [m \in Mutators |-> IF pc[m] = "asleep" THEN "lock" ELSE pc[m]]
    /\ UNCHANGED <<gcOnly, flagVars, mode, waitFor, rpLock>>

(* Mutant of WaitForBarrier: the collector goes on at once.                *)
WaitForNobody ==
    /\ gcPc = "ecWait" /\ gcPc' = "drain"
    /\ UNCHANGED <<gcOnly, pc, flagVars, mode, waitFor, rpLock>>

(* Mutant of WaitForBarrier: the mutexes are woken once only.              *)
WaitWithoutTimeout ==
    /\ gcPc = "ecWait" /\ waitFor = {} /\ gcPc' = "drain"
    /\ UNCHANGED <<gcOnly, pc, flagVars, mode, waitFor, rpLock>>

WaitForBarrier ==
    /\ gcPc = "ecWait" /\ gcPc' = IF waitFor = {} THEN "drain" ELSE "ecWake"
    /\ UNCHANGED <<gcOnly, pc, flagVars, mode, waitFor, rpLock>>

(* ProcessReferences advances rp_state_ and clears the white references,   *)
(* once before and once after it marks what finalizers can reach.          *)
SwitchToGcExclusive ==
    /\ gcPc = "exclusive" /\ mode' = "exclusive" /\ gcPc' = "markingDone"
    /\ UNCHANGED <<gcOnly, pc, flagVars, waitFor, rpLock>>

(* Mutant of AdvanceRpState: finalizers are marked before the clearing.    *)
FinalizersFirst ==
    /\ gcPc \in {"markingDone", "clearingDone"} /\ rpState' = gcPc
    /\ IF gcPc = "markingDone" THEN Broadcast ELSE rpLock = None /\ UNCHANGED pc
    /\ gcPc' = "finalizers"
    /\ UNCHANGED <<mutatorVars, heapVars, local, flagVars, gcStack, mode,
                   drainVars, waitFor, weakQueue, current, rpLock>>

AdvanceRpState ==
    /\ gcPc \in {"markingDone", "clearingDone"} /\ rpState' = gcPc
    /\ IF gcPc = "markingDone" THEN Broadcast ELSE rpLock = None /\ UNCHANGED pc
    /\ gcPc' = IF gcPc = "markingDone" THEN "clear" ELSE "finalizers"
    /\ UNCHANGED <<mutatorVars, heapVars, local, flagVars, gcStack, mode,
                   drainVars, waitFor, weakQueue, current, rpLock>>

(* ClearWhiteReferences reads the referent, and then writes back its new   *)
(* address or null without a compare-and-set.                              *)
DequeueReference ==
    /\ gcPc = "clear"
    /\ \/ \E r \in weakQueue :
             /\ weakQueue' = weakQueue \ {r} /\ gcPc' = "assign"
             /\ current' = [ref |-> r, to |-> referent[r]]
       \/ /\ weakQueue = {} /\ UNCHANGED <<weakQueue, current>>
          /\ gcPc' = IF rpState = "markingDone" THEN "clearingDone" ELSE "reenable"
    /\ UNCHANGED <<mutatorVars, heapVars, pc, local, flagVars, gcStack, mode,
                   drainVars, waitFor, rpState, rpLock>>

ClearWhiteReference ==
    LET r == current.ref
        to == current.to
    IN  /\ gcPc = "assign" /\ gcPc' = "clear"
        /\ referent' = IF to \in Marked /\ to \in Moving
                       THEN [referent EXCEPT ![r] = to]
                       ELSE IF to \in Marked \cup {None} THEN referent
                       ELSE [referent EXCEPT ![r] = None]
        /\ gray' = gray \ {r}
        /\ UNCHANGED <<mutatorVars, field, bit, pc, local, flagVars, gcStack,
                       mode, drainVars, waitFor, rpVars, rpLock>>

EnqueueFinalizerReferences ==
    LET new == Finalizable \ Marked IN
    /\ gcPc = "finalizers" /\ gcPc' = "drain"
    /\ gray' = gray \cup new /\ bit' = bit \cup (new \cap Moving)
    /\ gcStack' = gcStack \cup new
    /\ UNCHANGED <<mutatorVars, field, referent, pc, local, flagVars, mode,
                   drainVars, waitFor, rpVars, rpLock>>

(* ReenableWeakRefAccess sets the flags, then wakes the waiters.           *)
ReenableWeakRefAccess ==
    /\ gcPc = "reenable" /\ gcPc' = "rebroadcast"
    /\ enabled' = [m \in Mutators |-> TRUE]
    /\ UNCHANGED <<gcOnly, pc, marking, asked, mode, waitFor, rpLock>>

BroadcastForAccess ==
    /\ gcPc = "rebroadcast" /\ Broadcast
    /\ gcPc' = "disable" /\ waitFor' = Mutators
    /\ UNCHANGED <<gcOnly, flagVars, mode, rpLock>>

(* DisableMarking: a checkpoint clears the marking flag of every thread.   *)
DisableMarking ==
    /\ gcPc = "disable"
    /\ \/ \E m \in waitFor :
             /\ AtSuspendPoint(m) /\ marking' = [marking EXCEPT ![m] = FALSE]
             /\ waitFor' = waitFor \ {m} /\ UNCHANGED <<gcPc, mode>>
       \/ /\ waitFor = {} /\ mode' = "off" /\ gcPc' = "done"
          /\ UNCHANGED <<marking, waitFor>>
    /\ UNCHANGED <<gcOnly, pc, enabled, asked, rpLock>>

-----------------------------------------------------------------------------
Collector ==
    \/ RevokeThreadLocalMarkStack \/ ProcessMarkStackRef \/ Blacken
    \/ EndOfRevoked \/ EndOfOnce \/ Setup \/ SwitchMode \/ DisableWeakRefAccess
    \/ RequestEmptyCheckpoint \/ BroadcastForSlowPath \/ WakeupToRespond
    \/ WaitForBarrier \/ SwitchToGcExclusive \/ AdvanceRpState
    \/ DequeueReference \/ ClearWhiteReference \/ EnqueueFinalizerReferences
    \/ ReenableWeakRefAccess \/ BroadcastForAccess \/ DisableMarking

(* What a mutator does once it has begun an operation.                     *)
Continue(m) ==
    \/ ReadState(m) \/ ReadField(m) \/ TestBit(m) \/ SetGray(m)
    \/ PushOntoMarkStack(m) \/ CheckAccess(m) \/ SlowLock(m) \/ SlowCheck(m)
    \/ SlowWait(m) \/ LockMutex(m) \/ AnswerRequest(m) \/ NoRequest(m)

BeginOperation(m) ==
    \/ Load(m) \/ Store(m) \/ GetReferent(m) \/ ClearReferent(m)
    \/ ToNative(m) \/ FromNative(m)

Next == Collector \/ \E m \in Mutators : Continue(m) \/ BeginOperation(m)

Spec == Init /\ [][Next]_vars

(* The collector and a mutator in the middle of an operation are scheduled;*)
(* the barrier wait times out; a running thread gets to suspend points.    *)
FairSpec ==
    /\ Spec /\ WF_vars(Collector)
    /\ \A m \in Mutators : WF_vars(Continue(m))

-----------------------------------------------------------------------------
(* The to-space invariant: a mutator never holds a reference to an object  *)
(* that is not marked, whichever way it has read it, until the end of the  *)
(* collection reclaims the objects that are not marked.                    *)
ToSpaceInvariant == \A m \in Mutators : held[m] \subseteq Marked

(* Marking is complete when the collector says so: once it has the mark    *)
(* stack for itself no mutator is about to push and the stacks are empty   *)
(* (CheckEmptyMarkStack, and the CHECKs of PushOntoMarkStack), and when it *)
(* stops marking nothing is gray and marked objects have marked fields.    *)
MarkingComplete ==
    /\ mode \in {"exclusive", "off"} =>
          /\ \A m \in Mutators : pc[m] # "push" /\ local[m] = {}
          /\ revoked = {}
          /\ gcPc # "drain" => gcStack = {}
    /\ gcPc \in {"disable", "done"} =>
          /\ gray = {}
          /\ \A o \in Marked : field[o] \in Marked \cup {None}
          /\ \A r \in References \cap Marked : referent[r] \in Marked \cup {None}

(* Clearing a Reference is atomic for the mutators: after GetReferent has  *)
(* returned null, no later call gets the referent, although the collector  *)
(* clears it at some point between its answers by prediction.              *)
NullIsFinal == [][\A m \in Mutators : sinceNull[m] => held'[m] = held[m]]_vars

(* A cleared referent stays cleared: ClearWhiteReferences, which writes    *)
(* without a compare-and-set, never restores one that clear() has removed. *)
ClearedStaysCleared ==
    [][\A r \in References : referent[r] = None => referent'[r] = None]_vars
=============================================================================
