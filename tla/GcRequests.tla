----------------------------- MODULE GcRequests -----------------------------
(***************************************************************************)
(* Who runs a collection and when (runtime/gc/heap.cc, heap.h) and the     *)
(* queue of heap tasks behind it (runtime/gc/task_processor.cc).           *)
(*                                                                         *)
(* Collections are numbered: gcs_completed_ counts the finished ones and   *)
(* max_gc_requested_ is the highest number asked for; both are unsigned    *)
(* and wrap around.  A request for a concurrent collection compares the    *)
(* number its caller observed with max_gc_requested_ and leaves a task to  *)
(* the heap task daemon; allocations and System.gc() collect by            *)
(* themselves.  One collection runs at a time, under                       *)
(* collector_type_running_, and never while a critical section forbids     *)
(* moving objects.                                                         *)
(*                                                                         *)
(* Everything between two releases of gc_complete_lock_ or of the task     *)
(* processor's lock_ is one step; so is every access to                    *)
(* max_gc_requested_.  Time is abstract: a delayed task becomes due.       *)
(***************************************************************************)
EXTENDS Integers, Sequences, FiniteSets

CONSTANTS
    Mutators,
    Daemon,     \* the thread that runs the heap tasks
    Programs,   \* possible calls of the mutators: [Mutators -> Seq(operation)]
    Modulus,    \* 2^32
    FirstGc,    \* gcs_completed_ at the start
    None

Threads == Mutators \cup {Daemon}

VARIABLES
    completed,     \* gcs_completed_
    maxRequested,  \* max_gc_requested_
    running,       \* collector_type_running_: None, "gc" or "trim"
    noMoving,      \* disable_moving_gc_count_
    gcDisabled,    \* gc_disabled_for_shutdown_
    shuttingDown,  \* Runtime::IsShuttingDown
    tasks,         \* tasks_ of the processor: [kind, num, due]
    isRunning,     \* is_running_ of the processor
    pendingTrim,   \* pending_heap_trim_ is set
    pc, purpose,   \* why a thread waits for the running collection
    observed,      \* observed_gc_num of a request
    loaded,        \* max_gc_requested of a request
    want,          \* requested_gc_num of a collection
    current,       \* the task the daemon runs, else None
    program,       \* the calls a mutator has still to make
    owed           \* the observed_gc_num of a request that returned true,
                   \* until a later collection has completed

numVars == <<completed, maxRequested>>
gcVars == <<running, noMoving, gcDisabled, shuttingDown>>
taskVars == <<tasks, isRunning, pendingTrim, current>>
localVars == <<purpose, observed, loaded, want>>
vars == <<numVars, gcVars, taskVars, localVars, pc, program, owed>>

Init ==
    /\ completed = FirstGc /\ maxRequested = FirstGc
    /\ running = None /\ noMoving = 0 /\ gcDisabled = FALSE /\ shuttingDown = FALSE
    /\ tasks = {} /\ isRunning = TRUE /\ pendingTrim = FALSE /\ current = None
    /\ pc = [t \in Threads |-> IF t = Daemon THEN "get" ELSE "call"]
    /\ purpose = [t \in Threads |-> None]
    /\ observed = [m \in Mutators |-> None] /\ loaded = [m \in Mutators |-> None]
    /\ want = [t \in Threads |-> None]
    /\ program \in Programs
    /\ owed = [m \in Mutators |-> None]

(* GC_NUM_ANY is the largest number, and so also a number like the others. *)
GC_NUM_ANY == Modulus - 1
NextGc(n) == (n + 1) % Modulus

(* Mutant: a comparison that does not survive wrapping.                    *)
GCNumberLtPlain(a, b) == a < b

(* The unsigned comparison that survives wrapping.                         *)
GCNumberLt(a, b) ==
    LET difference == (b - a) % Modulus IN
    difference > 0 /\ difference <= Modulus \div 2

Goto(t, label) == pc' = [pc EXCEPT ![t] = label]

(* A collection has completed: those that asked for a later one than they  *)
(* had observed have got it.                                               *)
Complete ==
    /\ completed' = NextGc(completed)
    /\ owed' = [m \in Mutators |->
                    IF owed[m] # None /\ GCNumberLt(owed[m], completed')
                    THEN None ELSE owed[m]]

-----------------------------------------------------------------------------
(* TaskProcessor.                                                          *)

(* Mutant: the daemon is left asleep.                                      *)
AddTaskQuietly(task, f) ==
    /\ tasks' = tasks \cup {task}
    /\ pc' = f

(* AddTask signals the only thread that waits on cond_.  f is pc after the *)
(* step of the caller.                                                     *)
AddTask(task, f) ==
    /\ tasks' = tasks \cup {task}
    /\ pc' = IF f[Daemon] \in {"sleep", "timedSleep"} THEN [f EXCEPT ![Daemon] = "get"] ELSE f

(* One turn of GetTask: run what is due, or anything once stopped; sleep   *)
(* until the first task is due or for a signal; leave when stopped with    *)
(* nothing left.                                                           *)
GetTask ==
    /\ pc[Daemon] = "get"
    /\ \/ /\ tasks = {}
          /\ Goto(Daemon, IF isRunning THEN "sleep" ELSE "gone")
          /\ UNCHANGED <<tasks, current>>
       \/ \E task \in tasks :
            /\ task.due \/ ~isRunning
            /\ tasks' = tasks \ {task}
            /\ current' = task
            /\ Goto(Daemon, "run")
       \/ /\ tasks # {} /\ isRunning /\ \A task \in tasks : ~task.due
          /\ Goto(Daemon, "timedSleep")
          /\ UNCHANGED <<tasks, current>>
    /\ UNCHANGED <<numVars, gcVars, isRunning, pendingTrim, localVars, program, owed>>

TimePasses ==
    /\ \E task \in tasks :
        ~task.due /\ tasks' = (tasks \ {task}) \cup {[task EXCEPT !.due = TRUE]}
    /\ pc' = IF pc[Daemon] = "timedSleep" THEN [pc EXCEPT ![Daemon] = "get"] ELSE pc
    /\ UNCHANGED <<numVars, gcVars, isRunning, pendingTrim, current, localVars, program, owed>>

(* The Java side stops the daemon before a fork and starts it afterwards.  *)
Start ==
    /\ pc[Daemon] = "gone" /\ ~shuttingDown
    /\ isRunning' = TRUE
    /\ Goto(Daemon, "get")
    /\ UNCHANGED <<numVars, gcVars, tasks, pendingTrim, current, localVars, program, owed>>

CanAddHeapTask == ~shuttingDown

-----------------------------------------------------------------------------
(* One collection at a time.                                               *)

(* Wait for the collection that runs, and then go on for a purpose.        *)
WaitFor(t, why, number) ==
    /\ purpose' = [purpose EXCEPT ![t] = why]
    /\ want' = [want EXCEPT ![t] = number]
    /\ Goto(t, "enter")

(* A thread is done with what it waited for.                               *)
Finish(t) ==
    /\ purpose' = [purpose EXCEPT ![t] = None]
    /\ want' = [want EXCEPT ![t] = None]
    /\ Goto(t, IF t = Daemon THEN "endTask" ELSE "call")
    /\ program' = IF t = Daemon THEN program ELSE [program EXCEPT ![t] = Tail(@)]

(* The loop of WaitForGcToCompleteLocked.                                  *)
Sleep(t) ==
    /\ pc[t] = "enter" /\ running # None
    /\ Goto(t, "asleep")
    /\ UNCHANGED <<numVars, gcVars, taskVars, localVars, program, owed>>

Entered(t, why) == pc[t] = "enter" /\ running = None /\ purpose[t] = why

(* CollectGarbageInternal when the collection cannot run: counted all the  *)
(* same, for those who wait for it.                                        *)
Skip(t) ==
    /\ noMoving > 0 \/ gcDisabled
    /\ Complete
    /\ Finish(t)
    /\ UNCHANGED running

(* CollectGarbageInternal up to the collection: already done by somebody   *)
(* else, skipped, or started.  kGcTypePartial without a zygote space does  *)
(* nothing and is followed by a full one.                                  *)
CollectGarbageInternal(t) ==
    /\ Entered(t, "collect")
    /\ LET pruned == want[t] # GC_NUM_ANY /\ ~GCNumberLt(completed, want[t]) IN
       \/ pruned /\ Finish(t) /\ UNCHANGED <<completed, owed, running>>
       \/ ~pruned /\ Skip(t)
       \/ /\ ~pruned /\ noMoving = 0 /\ ~gcDisabled
          /\ running' = "gc"
          /\ Goto(t, "collect")
          /\ UNCHANGED <<completed, owed, purpose, want, program>>
    /\ UNCHANGED <<maxRequested, noMoving, gcDisabled, shuttingDown, taskVars, observed, loaded>>

(* At most one trim is asked for at a time.  f is pc afterwards.           *)
RequestTrim(f) ==
    IF CanAddHeapTask /\ ~pendingTrim
    THEN pendingTrim' = TRUE /\ AddTask([kind |-> "trim", num |-> None, due |-> FALSE], f)
    ELSE pc' = f /\ UNCHANGED <<tasks, pendingTrim>>

(* The collector runs, and asks for a trim.                                *)
Collect(t) ==
    /\ pc[t] = "collect" /\ running = "gc"
    /\ RequestTrim([pc EXCEPT ![t] = "finish"])
    /\ UNCHANGED <<numVars, gcVars, isRunning, current, localVars, program, owed>>

Trim(t) ==
    /\ pc[t] = "collect" /\ running = "trim"
    /\ Goto(t, "finish")
    /\ UNCHANGED <<numVars, gcVars, taskVars, localVars, program, owed>>

(* FinishGC wakes everybody; only a real collection counts.                *)
FinishGC(t) ==
    /\ pc[t] = "finish"
    /\ running' = None
    /\ IF running = "gc" THEN Complete ELSE UNCHANGED <<completed, owed>>
    /\ pc' = [u \in Threads |->
                IF u = t THEN (IF t = Daemon THEN "endTask" ELSE "call")
                ELSE IF pc[u] = "asleep" THEN "enter" ELSE pc[u]]
    /\ purpose' = [purpose EXCEPT ![t] = None] /\ want' = [want EXCEPT ![t] = None]
    /\ program' = IF t = Daemon THEN program ELSE [program EXCEPT ![t] = Tail(@)]
    /\ UNCHANGED <<maxRequested, noMoving, gcDisabled, shuttingDown, taskVars, observed, loaded>>

-----------------------------------------------------------------------------
(* The tasks of the daemon.                                                *)

(* ConcurrentGCTask::Run does nothing at shutdown.                         *)
RunTask ==
    /\ pc[Daemon] = "run"
    /\ IF current.kind = "trim" THEN WaitFor(Daemon, "trim", None)
       ELSE IF shuttingDown THEN Goto(Daemon, "endTask") /\ UNCHANGED <<purpose, want>>
       ELSE WaitFor(Daemon, "concurrent", current.num)
    /\ UNCHANGED <<numVars, gcVars, taskVars, observed, loaded, program, owed>>

(* ConcurrentGC once no collection runs.                                   *)
ConcurrentGC ==
    /\ Entered(Daemon, "concurrent")
    /\ IF GCNumberLt(completed, current.num)
       THEN purpose' = [purpose EXCEPT ![Daemon] = "collect"] /\ UNCHANGED <<pc, want, program>>
       ELSE Finish(Daemon)
    /\ UNCHANGED <<numVars, gcVars, taskVars, observed, loaded, owed>>

(* StartGC of TrimSpaces.                                                  *)
StartGC ==
    /\ Entered(Daemon, "trim")
    /\ running' = "trim"
    /\ Goto(Daemon, "collect")
    /\ UNCHANGED <<numVars, noMoving, gcDisabled, shuttingDown, taskVars, localVars, program, owed>>

(* ClearPendingTrim, and the task is deleted.                              *)
EndTask ==
    /\ pc[Daemon] = "endTask"
    /\ pendingTrim' = (pendingTrim /\ current.kind # "trim")
    /\ current' = None
    /\ Goto(Daemon, "get")
    /\ UNCHANGED <<numVars, gcVars, tasks, isRunning, localVars, program, owed>>

-----------------------------------------------------------------------------
(* The mutators.                                                           *)

Calls(m, op) == pc[m] = "call" /\ program[m] # <<>> /\ Head(program[m]) = op
Return(m) ==
    /\ Goto(m, "call")
    /\ program' = [program EXCEPT ![m] = Tail(@)]

(* The number is read before the caller decides that it needs a GC.        *)
Observe(m) ==
    /\ Calls(m, "request")
    /\ observed' = [observed EXCEPT ![m] = completed]
    /\ Goto(m, "load")
    /\ UNCHANGED <<numVars, gcVars, taskVars, purpose, loaded, want, program, owed>>

(* RequestConcurrentGC has returned true.                                  *)
Ensured(m) ==
    /\ owed' = [owed EXCEPT ![m] =
                   IF GCNumberLt(observed[m], completed) THEN None ELSE observed[m]]
    /\ observed' = [observed EXCEPT ![m] = None]
    /\ loaded' = [loaded EXCEPT ![m] = None]

(* Somebody asked already, nobody may ask any more, or we try.             *)
LoadMax(m) ==
    /\ pc[m] = "load"
    /\ \/ GCNumberLt(observed[m], maxRequested) /\ Ensured(m) /\ Return(m)
       \/ /\ ~GCNumberLt(observed[m], maxRequested) /\ ~CanAddHeapTask
          /\ observed' = [observed EXCEPT ![m] = None]
          /\ Return(m)
          /\ UNCHANGED <<loaded, owed>>
       \/ /\ ~GCNumberLt(observed[m], maxRequested) /\ CanAddHeapTask
          /\ loaded' = [loaded EXCEPT ![m] = maxRequested]
          /\ Goto(m, "cas")
          /\ UNCHANGED <<observed, program, owed>>
    /\ UNCHANGED <<numVars, gcVars, taskVars, purpose, want>>

(* If the swap fails, somebody else is taken to have asked.                *)
CasMax(m) ==
    /\ pc[m] = "cas"
    /\ IF maxRequested = loaded[m]
       THEN /\ maxRequested' = NextGc(observed[m])
            /\ Goto(m, "add")
            /\ UNCHANGED <<observed, loaded, program, owed>>
       ELSE Ensured(m) /\ Return(m) /\ UNCHANGED maxRequested
    /\ UNCHANGED <<completed, gcVars, taskVars, purpose, want>>

AddGcTask(m) ==
    /\ pc[m] = "add"
    /\ AddTask([kind |-> "gc", num |-> NextGc(observed[m]), due |-> TRUE],
               [pc EXCEPT ![m] = "call"])
    /\ Ensured(m)
    /\ program' = [program EXCEPT ![m] = Tail(@)]
    /\ UNCHANGED <<numVars, gcVars, isRunning, pendingTrim, current, purpose, want>>

(* System.gc() does not prune; an allocation that failed waits, and then   *)
(* wants the next collection.                                              *)
CollectGarbage(m) ==
    /\ \/ Calls(m, "explicit") /\ WaitFor(m, "collect", GC_NUM_ANY)
       \/ Calls(m, "alloc") /\ WaitFor(m, "alloc", None)
    /\ UNCHANGED <<numVars, gcVars, taskVars, observed, loaded, program, owed>>

(* The wait is over and the lock released; the number is read after that,  *)
(* and the allocation is tried again before another collection.            *)
AllocateInternalWithGc(m) ==
    \/ /\ Entered(m, "alloc")
       /\ Goto(m, "retry")
       /\ UNCHANGED <<numVars, gcVars, taskVars, localVars, program, owed>>
    \/ /\ pc[m] = "retry"
       /\ Finish(m) \/ (WaitFor(m, "collect", NextGc(completed)) /\ UNCHANGED program)
       /\ UNCHANGED <<numVars, gcVars, taskVars, observed, loaded, owed>>

(* Mutant: does not wait for the collection that runs.                     *)
IncrementWithoutWaiting(m) ==
    /\ Calls(m, "critical")
    /\ noMoving' = noMoving + 1
    /\ Goto(m, "critical") /\ UNCHANGED <<purpose, want>>
    /\ UNCHANGED <<numVars, running, gcDisabled, shuttingDown, taskVars, observed, loaded,
                   program, owed>>

IncrementDisableMovingGC(m) ==
    /\ Calls(m, "critical")
    /\ noMoving' = noMoving + 1
    /\ IF running = "gc" THEN WaitFor(m, "critical", None)
       ELSE Goto(m, "critical") /\ UNCHANGED <<purpose, want>>
    /\ UNCHANGED <<numVars, running, gcDisabled, shuttingDown, taskVars, observed, loaded,
                   program, owed>>

EnterCritical(m) ==
    /\ Entered(m, "critical")
    /\ purpose' = [purpose EXCEPT ![m] = None]
    /\ Goto(m, "critical")
    /\ UNCHANGED <<numVars, gcVars, taskVars, observed, loaded, want, program, owed>>

DecrementDisableMovingGC(m) ==
    /\ pc[m] = "critical"
    /\ noMoving' = noMoving - 1
    /\ Return(m)
    /\ UNCHANGED <<numVars, running, gcDisabled, shuttingDown, taskVars, localVars, owed>>

Stop(m) ==
    /\ Calls(m, "stop")
    /\ isRunning' = FALSE
    /\ pc' = IF pc[Daemon] \in {"sleep", "timedSleep"} THEN [pc EXCEPT ![Daemon] = "get"] ELSE pc
    /\ program' = [program EXCEPT ![m] = Tail(@)]
    /\ UNCHANGED <<numVars, gcVars, tasks, pendingTrim, current, localVars, owed>>

(* Runtime::~Runtime: forbid collections, let the running one complete,    *)
(* and only then let everybody know.                                       *)
DisableGCForShutdown(m) ==
    /\ Calls(m, "shutdown")
    /\ gcDisabled' = TRUE
    /\ WaitFor(m, "shutdown", None)
    /\ UNCHANGED <<numVars, running, noMoving, shuttingDown, taskVars, observed, loaded, program,
                   owed>>

SetShuttingDown(m) ==
    /\ Entered(m, "shutdown")
    /\ shuttingDown' = TRUE
    /\ Finish(m)
    /\ UNCHANGED <<numVars, running, noMoving, gcDisabled, taskVars, observed, loaded, owed>>

-----------------------------------------------------------------------------
(* What a thread does by itself inside a call.                             *)
Waiting(t) ==
    Sleep(t) \/ CollectGarbageInternal(t) \/ Collect(t) \/ Trim(t) \/ FinishGC(t)

Inside(m) ==
    \/ Waiting(m) \/ LoadMax(m) \/ CasMax(m) \/ AddGcTask(m) \/ AllocateInternalWithGc(m)
    \/ EnterCritical(m) \/ DecrementDisableMovingGC(m) \/ SetShuttingDown(m)

DaemonStep ==
    Waiting(Daemon) \/ GetTask \/ RunTask \/ ConcurrentGC \/ StartGC \/ EndTask \/ Start

Call(m) ==
    \/ Observe(m) \/ CollectGarbage(m) \/ IncrementDisableMovingGC(m)
    \/ Stop(m) \/ DisableGCForShutdown(m)

Next ==
    \/ \E m \in Mutators : Inside(m) \/ Call(m)
    \/ DaemonStep
    \/ TimePasses

Spec == Init /\ [][Next]_vars

(* Calls come to their end, the daemon is scheduled and started again, and *)
(* time passes.                                                            *)
Fairness ==
    /\ \A m \in Mutators : WF_vars(Inside(m))
    /\ WF_vars(DaemonStep)
    /\ WF_vars(TimePasses)

-----------------------------------------------------------------------------
(* No collection that may move objects runs while a thread is in a         *)
(* critical section, whether the collection or the section came first, nor *)
(* after Runtime's destructor has waited for the last one.                 *)
CollectionExcluded ==
    running = "gc" => ~shuttingDown /\ \A m \in Mutators : pc[m] # "critical"

(* "A value of gcs_completed + 1 indicates that another collection is      *)
(* needed or in progress": whatever number was recorded in                 *)
(* max_gc_requested_ is reached, by the task that was added for it or by   *)
(* somebody else's collection, across stops and starts of the daemon,      *)
(* critical sections and wrapping numbers; only shutdown ends the          *)
(* obligation.  It is the CHECK in ConcurrentGCTask::Run, and more.        *)
Requested == maxRequested = NextGc(completed)
RequestServed == Requested ~> (~Requested \/ shuttingDown)

(* What heap.h promises of RequestConcurrentGC: when it has returned true, *)
(* gcs_completed_ is eventually incremented beyond observed_gc_num.        *)
PromiseKept == \A m \in Mutators : owed[m] # None ~> (owed[m] = None \/ shuttingDown)
=============================================================================
