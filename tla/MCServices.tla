----------------------------- MODULE MCServices -----------------------------
(* Four components for TLC that do not touch each other: the copying       *)
(* collector, the thread pool, the requests for collections and the        *)
(* initialization of classes.  The first state chooses the one that runs;  *)
(* variables of the same name are used by whichever it is.  Those of the   *)
(* collector stay as they are when it is another, and the rest stay None.  *)
EXTENDS MCConcurrentCopying, Sequences

CONSTANTS t2, t3, t4, ka, kb, kc

VARIABLES part, at, shuttingDown, tasks, program
\* of the thread pool
VARIABLES started, waitingCount, maxActive, threads, task, done, dropped, promised
\* of the heap and its task daemon
VARIABLES completed, maxRequested, running, noMoving, gcDisabled, isRunning, pendingTrim,
          purpose, observed, loaded, want, inTask, owed
\* of the class linker
VARIABLES scenario, todo, status, clinitThread, frames, req, batch, callbacks, mine,
          waitsFor, knows

poolVars == <<started, waitingCount, maxActive, threads, task, done, dropped, promised>>
requestVars == <<completed, maxRequested, running, noMoving, gcDisabled, isRunning, pendingTrim,
                 purpose, observed, loaded, want, inTask, owed>>
queueVars == <<shuttingDown, tasks, program>>
classVars == <<scenario, todo, status, clinitThread, frames, req, batch, callbacks, mine,
               waitsFor, knows>>
all == <<part, vars, at, queueVars, poolVars, requestVars, classVars>>

Two(first, second) == [t \in {t1, t2} |-> IF t = t1 THEN first ELSE second]

-----------------------------------------------------------------------------
(* Two clients and two workers: tasks are added before and after the       *)
(* workers start, by clients and by tasks; clients help or only wait, and  *)
(* stop, empty, shut down or limit the pool meanwhile.                     *)
Pool == INSTANCE ThreadPool WITH
    pc <- at, Clients <- {t1, t2}, Workers <- {t3, t4}, MaxTasks <- 3,
    Programs <- {Two(<<"add", "limit", "start", "work", "stop">>, <<>>),
                 Two(<<"start", "add", "work">>, <<"add", "wait">>),
                 Two(<<"start", "add", "delete", "create", "add">>, <<"wait">>),
                 Two(<<"start", "add", "stop", "work">>, <<"add", "remove">>)}

(* Two mutators: requests beside explicit and failed-allocation            *)
(* collections, critical sections, a stopped daemon and the shutdown.      *)
(* Collection numbers wrap at 8 after two collections.                     *)
Gc == INSTANCE GcRequests WITH
    pc <- at, current <- inTask, Mutators <- {t1, t2}, Daemon <- t3, Modulus <- 8, FirstGc <- 6,
    Programs <- {Two(<<"request", "request">>, <<"explicit", "request">>),
                 Two(<<"request", "critical">>, <<"alloc", "stop">>),
                 Two(<<"critical", "shutdown">>, <<"request", "request">>)}

Needs(ofA, ofB, ofC) ==
    [k \in {ka, kb, kc} |-> CASE k = ka -> ofA [] k = kb -> ofB [] k = kc -> ofC]
Chain == Needs(<<>>, <<ka>>, <<ka, kb>>)
Cycle == Needs(<<kb>>, <<ka>>, <<kb>>)
Asks(needs, of1, of2, of3, membarrier) ==
    [needs |-> needs, membarrier |-> membarrier,
     calls |-> [t \in {t1, t2, t3} |-> CASE t = t1 -> of1 [] t = t2 -> of2 [] t = t3 -> of3]]

(* Three threads and three classes that need each other in a chain or in a *)
(* cycle, with and without membarrier().                                   *)
Class == INSTANCE ClassInitialization WITH
    pc <- at, calls <- todo, waitFor <- waitsFor, Threads <- {t1, t2, t3},
    Classes <- {ka, kb, kc}, MayThrow <- {ka}, MaxClasses <- 2,
    Scenarios <- {Asks(Chain, <<kc, "flushAndWait">>, <<kb, "flush">>, <<ka>>, FALSE),
                  Asks(Chain, <<kc>>, <<kb, "flushAndWait">>, <<ka>>, TRUE),
                  Asks(Cycle, <<ka, "flushAndWait">>, <<kc>>, <<kb>>, FALSE)}

-----------------------------------------------------------------------------
NoQueue ==
    /\ shuttingDown = None /\ tasks = None /\ program = None

NoPool ==
    /\ started = None /\ waitingCount = None /\ maxActive = None /\ threads = None
    /\ task = None /\ done = None /\ dropped = None /\ promised = None

NoRequests ==
    /\ completed = None /\ maxRequested = None /\ running = None /\ noMoving = None
    /\ gcDisabled = None /\ isRunning = None /\ pendingTrim = None /\ purpose = None
    /\ observed = None /\ loaded = None /\ want = None /\ inTask = None
    /\ owed = None

NoClass ==
    /\ scenario = None /\ todo = None /\ status = None /\ clinitThread = None
    /\ frames = None /\ req = None /\ batch = None /\ callbacks = None
    /\ mine = None /\ waitsFor = None /\ knows = None

MCInit ==
    /\ Init /\ (part = "copying" \/ field = StrongPath.field)
    /\ \/ part = "copying" /\ at = None /\ NoQueue /\ NoPool /\ NoRequests /\ NoClass
       \/ part = "pool" /\ Pool!Init /\ NoRequests /\ NoClass
       \/ part = "gc" /\ Gc!Init /\ NoPool /\ NoClass
       \/ part = "class" /\ Class!Init /\ NoQueue /\ NoPool /\ NoRequests

notCopying == <<part, at, queueVars, poolVars, requestVars, classVars>>
notPool == <<part, vars, requestVars, classVars>>
notGc == <<part, vars, poolVars, classVars>>
notClass == <<part, vars, queueVars, poolVars, requestVars>>

MCNext ==
    \/ part = "copying" /\ Next /\ UNCHANGED notCopying
    \/ part = "pool" /\ Pool!Next /\ UNCHANGED notPool
    \/ part = "gc" /\ Gc!Next /\ UNCHANGED notGc
    \/ part = "class" /\ Class!Next /\ UNCHANGED notClass

(* The fairness of the parts: that of ConcurrentCopying (t3 is the         *)
(* collector), Pool!Fairness, Gc!Fairness (t4 stands for the time that     *)
(* passes) and Class!Fairness.                                             *)
CopyingGo(t) ==
    \/ t \in Mutators /\ Continue(t)
    \/ t = t3 /\ Collector

GcGo(t) ==
    \/ t \in {t1, t2} /\ Gc!Inside(t)
    \/ t = t3 /\ Gc!DaemonStep
    \/ t = t4 /\ Gc!TimePasses

Go(t) ==
    \/ part = "copying" /\ CopyingGo(t) /\ UNCHANGED notCopying
    \/ part = "pool" /\ Pool!Step(t) /\ UNCHANGED notPool
    \/ part = "gc" /\ GcGo(t) /\ UNCHANGED notGc
    \/ /\ part = "class" /\ t # t4
       /\ Class!Step(t) \/ Class!RunClosure(t)
       /\ UNCHANGED notClass

MCSpec ==
    /\ MCInit /\ [][MCNext]_all
    /\ \A t \in {t1, t2, t3, t4} : WF_all(Go(t))

-----------------------------------------------------------------------------
(* ThreadPool::Wait keeps its promise: whatever was queued or running at   *)
(* the call has been run when it returns (see ThreadPool).                 *)
WaitCompletes == [][part = "pool" => Pool!Completes]_all

(* No moving collection beside a critical section of                       *)
(* IncrementDisableMovingGC, nor after DisableGCForShutdown has waited.    *)
CollectionExcluded == part = "gc" => Gc!CollectionExcluded

(* InitializeClass initializes a class after what it needs, and a class    *)
(* that is visibly initialized is so to every thread.                      *)
ClassesReady == part = "class" => Class!InitOrder /\ Class!VisibleToAll

(* The collection ends, although empty checkpoints are sent to threads     *)
(* that block without leaving Runnable, on weak reference access or on a   *)
(* mutex whose owner does; and the blocked threads get their access.       *)
CollectionEnds ==
    /\ []<>(part = "copying" => gcPc = "done")
    /\ \A m \in Mutators : []<>(part = "copying" => pc[m] \in {"idle", "native"})

(* Nothing that was promised is forgotten: no queued task and no client in *)
(* Wait or DeleteThreads of the thread pool; no number recorded in         *)
(* max_gc_requested_; no EnsureInitialized or                              *)
(* MakeInitializedClassesVisiblyInitialized, when the classes do not need  *)
(* each other in a cycle.                                                  *)
Owed(t) ==
    \/ part = "pool" /\ t # t3 /\ at[t] # "call"
    \/ part = "pool" /\ t = t3 /\ Pool!HasOutstandingTasks /\ ~shuttingDown
    \/ part = "gc" /\ t = t3 /\ Gc!Requested /\ ~shuttingDown
    \/ part = "class" /\ at[t] # "idle" /\ scenario.needs # Cycle
NothingForgotten == \A t \in {t1, t2, t3} : []<>~Owed(t)
=============================================================================
