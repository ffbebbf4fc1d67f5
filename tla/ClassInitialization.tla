------------------------ MODULE ClassInitialization ------------------------
(***************************************************************************)
(* ClassLinker::InitializeClass and the callbacks that make initialized    *)
(* classes visibly initialized (runtime/class_linker.cc, Class::SetStatus  *)
(* in runtime/mirror/class.cc).                                            *)
(*                                                                         *)
(* Threads initialize classes whose superclasses, interfaces and class     *)
(* initializers need other classes, possibly in a cycle.  On a weakly      *)
(* ordered processor an initialized class may be used without a check only *)
(* once every thread sees its static data: classes are collected in        *)
(* batches, and a membarrier() or a checkpoint of all threads comes before *)
(* their last change of status.                                            *)
(*                                                                         *)
(* What is done under the lock of a class, or of the callbacks, is one     *)
(* step.  Classes are verified before; a class in MayThrow may fail in its *)
(* initializer, and an initializer does not catch what a class it uses     *)
(* throws.                                                                 *)
(***************************************************************************)
EXTENDS Integers, Sequences, SequencesExt, FiniteSets

CONSTANTS
    Threads, Classes,
    Scenarios,  \* records [needs, calls, membarrier]: what each class needs,
                \* in order; what each thread asks for; is membarrier() there?
    MayThrow,
    MaxClasses, \* kMaxClasses
    None

VARIABLES
    scenario, calls,
    status, clinitThread,
    frames,    \* the invocations of InitializeClass on a thread's stack that
               \* initialize a class: [klass, todo]
    pc, req,   \* the class asked for
    batch,     \* visibly_initialized_callback_: its classes
    callbacks, \* running_visibly_initialized_callbacks_: [classes, todo, counter]
    mine,      \* the classes of the callback a thread has to run, else {}
    waitFor,   \* callbacks a thread waits for, or None
    knows      \* the classes whose static data a thread is sure to see

classVars == <<status, clinitThread>>
threadVars == <<frames, pc, req, calls>>
visibleVars == <<batch, callbacks, mine, waitFor>>
vars == <<scenario, classVars, threadVars, visibleVars, knows>>

IsInitialized(c) == status[c] \in {"initialized", "visible"}
InitializedClasses == {c \in Classes : IsInitialized(c)}

Init ==
    /\ scenario \in Scenarios /\ calls = scenario.calls
    /\ status = [c \in Classes |-> "verified"]
    /\ clinitThread = [c \in Classes |-> None]
    /\ frames = [t \in Threads |-> <<>>]
    /\ pc = [t \in Threads |-> "idle"] /\ req = [t \in Threads |-> None]
    /\ batch = {} /\ callbacks = {}
    /\ mine = [t \in Threads |-> {}] /\ waitFor = [t \in Threads |-> None]
    /\ knows = [t \in Threads |-> {}]

Knows(t, S) == knows' = [knows EXCEPT ![t] = @ \cup S]

-----------------------------------------------------------------------------
(* InitializeClass.                                                        *)

(* InitializeClass returns, to the initialization that asked for it or to  *)
(* the caller outside.                                                     *)
Return(t, outer, ok) ==
    /\ frames' = [frames EXCEPT ![t] = outer]
    /\ req' = [req EXCEPT ![t] = None]
    /\ IF outer = <<>>
       THEN pc' = [pc EXCEPT ![t] = "idle"] /\ calls' = [calls EXCEPT ![t] = Tail(@)]
       ELSE pc' = [pc EXCEPT ![t] = IF ok THEN "body" ELSE "failed"] /\ UNCHANGED calls

Call(t) ==
    /\ pc[t] = "idle" /\ calls[t] # <<>> /\ Head(calls[t]) \in Classes
    /\ req' = [req EXCEPT ![t] = Head(calls[t])]
    /\ pc' = [pc EXCEPT ![t] = "enter"]
    /\ UNCHANGED <<scenario, classVars, frames, calls, visibleVars, knows>>

(* The first look, under the lock of the class: it is done, or it failed,  *)
(* or we are initializing it further up the stack, or somebody else is, or *)
(* it is ours to initialize.                                               *)
Enter(t) ==
    LET c == req[t] IN
    /\ pc[t] = "enter"
    /\ \/ /\ IsInitialized(c)
          /\ Knows(t, {c})
          /\ Return(t, frames[t], TRUE)
          /\ UNCHANGED classVars
       \/ /\ status[c] = "error"
          /\ Return(t, frames[t], FALSE)
          /\ UNCHANGED <<classVars, knows>>
       \/ /\ status[c] = "initializing" /\ clinitThread[c] = t
          /\ Return(t, frames[t], TRUE)
          /\ UNCHANGED <<classVars, knows>>
       \/ /\ status[c] = "initializing" /\ clinitThread[c] # t
          /\ pc' = [pc EXCEPT ![t] = "asleep"]
          /\ UNCHANGED <<classVars, frames, req, calls, knows>>
       \/ /\ status[c] = "verified"
          /\ clinitThread' = [clinitThread EXCEPT ![c] = t]
          /\ status' = [status EXCEPT ![c] = "initializing"]
          /\ frames' = [frames EXCEPT ![t] =
                            Append(@, [klass |-> c, todo |-> scenario.needs[c]])]
          /\ req' = [req EXCEPT ![t] = None]
          /\ pc' = [pc EXCEPT ![t] = "body"]
          /\ UNCHANGED <<calls, knows>>
    /\ UNCHANGED <<scenario, visibleVars>>

(* Mutant: a failure in another thread is taken for success.               *)
WaitIgnoringErrors(t) ==
    LET c == req[t] IN
    /\ pc[t] = "notified"
    /\ IF status[c] = "initializing"
       THEN pc' = [pc EXCEPT ![t] = "asleep"] /\ UNCHANGED <<frames, req, calls, knows>>
       ELSE /\ Return(t, frames[t], TRUE)
            /\ Knows(t, IF IsInitialized(c) THEN {c} ELSE {})
    /\ UNCHANGED <<scenario, classVars, visibleVars>>

(* The loop of WaitForInitializeClass after a wake-up, spurious or not.    *)
WaitForInitializeClass(t) ==
    LET c == req[t] IN
    /\ pc[t] = "notified"
    /\ IF status[c] = "initializing"
       THEN pc' = [pc EXCEPT ![t] = "asleep"] /\ UNCHANGED <<frames, req, calls, knows>>
       ELSE /\ Return(t, frames[t], IsInitialized(c))
            /\ Knows(t, IF IsInitialized(c) THEN {c} ELSE {})
    /\ UNCHANGED <<scenario, classVars, visibleVars>>

SpuriousWake(t) ==
    /\ pc[t] = "asleep"
    /\ pc' = [pc EXCEPT ![t] = "notified"]
    /\ UNCHANGED <<scenario, classVars, frames, req, calls, visibleVars, knows>>

(* Mutant: the waiters are not told.                                       *)
SetStatusQuietly(c, new, f) ==
    /\ status' = [status EXCEPT ![c] = new]
    /\ pc' = f

(* Class::SetStatus with its NotifyAll; f is pc after the caller's step.   *)
SetStatus(c, new, f) ==
    /\ status' = [status EXCEPT ![c] = new]
    /\ pc' = [u \in Threads |->
                IF f[u] = "asleep" /\ req[u] = c THEN "notified" ELSE f[u]]

(* The superclass, the interfaces, and what the class initializer uses.    *)
InitializeNeeded(t) ==
    LET top == Last(frames[t]) IN
    /\ pc[t] = "body" /\ top.todo # <<>>
    /\ frames' = [frames EXCEPT ![t] =
                      Append(Front(@), [top EXCEPT !.todo = Tail(@)])]
    /\ IF IsInitialized(Head(top.todo))
       THEN Knows(t, {Head(top.todo)}) /\ UNCHANGED <<pc, req>>
       ELSE /\ req' = [req EXCEPT ![t] = Head(top.todo)]
            /\ pc' = [pc EXCEPT ![t] = "enter"]
            /\ UNCHANGED knows
    /\ UNCHANGED <<scenario, classVars, calls, visibleVars>>

(* The class initializer has run to its end: kInitialized, and then the    *)
(* class joins the batch.                                                  *)
MarkClassInitialized(t) ==
    /\ pc[t] = "body" /\ Last(frames[t]).todo = <<>>
    /\ SetStatus(Last(frames[t]).klass, "initialized", [pc EXCEPT ![t] = "addClass"])
    /\ Knows(t, {Last(frames[t]).klass})
    /\ UNCHANGED <<scenario, clinitThread, frames, req, calls, visibleVars>>

(* Something needed could not be initialized, or the initializer throws.   *)
Fail(t) ==
    /\ \/ pc[t] = "failed"
       \/ pc[t] = "body" /\ Last(frames[t]).todo = <<>> /\ Last(frames[t]).klass \in MayThrow
    /\ LET outer == Front(frames[t]) IN
       /\ frames' = [frames EXCEPT ![t] = outer]
       /\ SetStatus(Last(frames[t]).klass, "error",
                    [pc EXCEPT ![t] = IF outer = <<>> THEN "idle" ELSE "failed"])
       /\ calls' = IF outer = <<>> THEN [calls EXCEPT ![t] = Tail(@)] ELSE calls
    /\ UNCHANGED <<scenario, clinitThread, req, visibleVars, knows>>

-----------------------------------------------------------------------------
(* Visibly initialized classes.                                            *)

NewCallback(S) == [classes |-> S, todo |-> {}, counter |-> 0]

(* The second half of MarkClassInitialized: a full batch is ours to run.   *)
AddClass(t) ==
    LET full == batch \cup {Last(frames[t]).klass} IN
    /\ pc[t] = "addClass"
    /\ IF Cardinality(full) = MaxClasses
       THEN /\ batch' = {}
            /\ callbacks' = callbacks \cup {NewCallback(full)}
            /\ mine' = [mine EXCEPT ![t] = full]
            /\ pc' = [pc EXCEPT ![t] = "visible"]
            /\ UNCHANGED <<frames, req, calls>>
       ELSE /\ batch' = full
            /\ Return(t, Front(frames[t]), TRUE)
            /\ UNCHANGED <<callbacks, mine>>
    /\ UNCHANGED <<scenario, classVars, waitFor, knows>>

(* MakeInitializedClassesVisiblyInitialized, with wait or without: run an  *)
(* unfinished batch, and wait for every callback that runs.                *)
Flush(t) ==
    /\ pc[t] = "idle" /\ calls[t] # <<>> /\ Head(calls[t]) \in {"flush", "flushAndWait"}
    /\ batch' = {}
    /\ callbacks' = IF batch = {} THEN callbacks ELSE callbacks \cup {NewCallback(batch)}
    /\ mine' = [mine EXCEPT ![t] = batch]
    /\ waitFor' = [waitFor EXCEPT ![t] =
                       IF Head(calls[t]) = "flush" THEN {} ELSE {cb.classes : cb \in callbacks'}]
    /\ pc' = [pc EXCEPT ![t] = IF batch = {} THEN "barrier" ELSE "visible"]
    /\ UNCHANGED <<scenario, classVars, frames, req, calls, knows>>

BarrierPassed(t) ==
    /\ pc[t] = "barrier"
    /\ \A cb \in callbacks : cb.classes \notin waitFor[t]
    /\ waitFor' = [waitFor EXCEPT ![t] = None]
    /\ pc' = [pc EXCEPT ![t] = "idle"]
    /\ calls' = [calls EXCEPT ![t] = Tail(@)]
    /\ UNCHANGED <<scenario, classVars, frames, req, batch, callbacks, mine, knows>>

(* Mutant: an adjustment that leaves the counter below zero also counts.   *)
AdjustTooEarly(old, cb, adjustment) ==
    IF cb.counter + adjustment <= 0
    THEN /\ status' = [c \in Classes |-> IF c \in cb.classes THEN "visible" ELSE status[c]]
         /\ callbacks' = callbacks \ {old}
    ELSE /\ callbacks' = (callbacks \ {old})
                 \cup {[cb EXCEPT !.counter = @ + adjustment]}
         /\ UNCHANGED status

(* AdjustThreadVisibilityCounter: whoever brings the counter to zero marks *)
(* the classes (without a notification) and retires the callback.  cb may  *)
(* have changed in the step already: old is the one to replace.            *)
AdjustThreadVisibilityCounter(old, cb, adjustment) ==
    IF cb.counter + adjustment = 0
    THEN /\ status' = [c \in Classes |-> IF c \in cb.classes THEN "visible" ELSE status[c]]
         /\ callbacks' = callbacks \ {old}
    ELSE /\ callbacks' = (callbacks \ {old})
                 \cup {[cb EXCEPT !.counter = @ + adjustment]}
         /\ UNCHANGED status

(* MakeVisible: with membarrier() at once, else RunCheckpoint, in which    *)
(* the thread also runs the closure for itself.                            *)
MakeVisible(t) ==
    /\ pc[t] = "visible"
    /\ \E cb \in callbacks :
        /\ cb.classes = mine[t]
        /\ IF scenario.membarrier
           THEN /\ knows' = [u \in Threads |-> knows[u] \cup InitializedClasses]
                /\ AdjustThreadVisibilityCounter(cb, cb, 0)
           ELSE /\ Knows(t, InitializedClasses)
                /\ AdjustThreadVisibilityCounter(cb, [cb EXCEPT !.todo = Threads \ {t}], -1)
    /\ pc' = [pc EXCEPT ![t] = "adjust"]
    /\ UNCHANGED <<scenario, clinitThread, frames, req, calls, batch, mine, waitFor>>

(* The checkpoint of another thread, by itself or on its behalf.           *)
RunClosure(u) ==
    /\ \E cb \in callbacks :
        /\ u \in cb.todo
        /\ Knows(u, InitializedClasses)
        /\ AdjustThreadVisibilityCounter(cb, [cb EXCEPT !.todo = @ \ {u}], -1)
    /\ UNCHANGED <<scenario, clinitThread, threadVars, batch, mine, waitFor>>

(* The requester adds the number of threads, and goes on.                  *)
Adjust(t) ==
    /\ pc[t] = "adjust"
    /\ IF scenario.membarrier
       THEN UNCHANGED <<status, callbacks>>
       ELSE \E cb \in callbacks :
              cb.classes = mine[t] /\ AdjustThreadVisibilityCounter(cb, cb, Cardinality(Threads))
    /\ mine' = [mine EXCEPT ![t] = {}]
    /\ IF waitFor[t] # None
       THEN pc' = [pc EXCEPT ![t] = "barrier"] /\ UNCHANGED <<frames, req, calls>>
       ELSE Return(t, Front(frames[t]), TRUE)
    /\ UNCHANGED <<scenario, clinitThread, batch, waitFor, knows>>

-----------------------------------------------------------------------------
Step(t) ==
    \/ Enter(t) \/ WaitForInitializeClass(t) \/ InitializeNeeded(t) \/ MarkClassInitialized(t)
    \/ Fail(t) \/ AddClass(t) \/ MakeVisible(t) \/ Adjust(t) \/ BarrierPassed(t)

Next ==
    \E t \in Threads : Step(t) \/ RunClosure(t) \/ Call(t) \/ Flush(t) \/ SpuriousWake(t)

Spec == Init /\ [][Next]_vars

(* Threads run, class initializers end, and checkpoints are reached.       *)
Fairness == \A t \in Threads : WF_vars(Step(t) \/ RunClosure(t))

-----------------------------------------------------------------------------
(* A class is initialized only when everything it needs is, or is being    *)
(* initialized by the same thread further up its stack (and may then still *)
(* fail): nobody takes another thread's failed or unfinished               *)
(* initialization for a finished one.                                      *)
InitOrder ==
    \A c \in InitializedClasses : \A d \in ToSet(scenario.needs[c]) :
        \/ IsInitialized(d)
        \/ clinitThread[d] = clinitThread[c] /\ status[d] \in {"initializing", "error"}

(* Compiled code uses a visibly initialized class without a barrier: every *)
(* thread must already be sure to see its static data, whichever thread    *)
(* ran the callback and in whatever order the closures and the requester   *)
(* moved thread_visibility_counter_.                                       *)
VisibleToAll ==
    \A c \in Classes : status[c] = "visible" => \A t \in Threads : c \in knows[t]
=============================================================================
