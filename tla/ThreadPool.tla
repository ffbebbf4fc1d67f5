----------------------------- MODULE ThreadPool -----------------------------
(***************************************************************************)
(* art::ThreadPool (runtime/thread_pool.cc, runtime/thread_pool.h): a      *)
(* queue of tasks, workers that take them, a limit on the active workers,  *)
(* and clients that add tasks, start and stop the workers, wait for        *)
(* completion, help while they wait, and delete and create the threads.    *)
(*                                                                         *)
(* Everything between two releases of task_queue_lock_ is one step.  A     *)
(* wait on a condition is two: the sleeper gives the lock up, and once     *)
(* woken takes it again.  Sleepers may wake for no reason.                 *)
(***************************************************************************)
EXTENDS Integers, Sequences, FiniteSets

CONSTANTS
    Workers,   \* threads_ while they exist
    Clients,
    Programs,  \* possible calls of the clients: [Clients -> Seq(operation)]
    MaxTasks,  \* bound on the tasks ever added
    None

VARIABLES
    started, shuttingDown, waitingCount, tasks, maxActive,
    threads,   \* the workers that exist: GetThreadCount() is their number
    pc,        \* of workers and clients
    task,      \* the task a worker or client runs, else None
    program,   \* the calls a client has still to make, its current one first
    done,      \* tasks that were run and finalized
    dropped,   \* tasks that left the queue without being run
    promised   \* the tasks that were queued or running when a client called
               \* Wait and that the pool has not been told to leave alone since

poolVars == <<started, shuttingDown, tasks, maxActive, threads>>
taskVars == <<done, dropped>>
vars == <<poolVars, waitingCount, pc, task, program, taskVars, promised>>

Threads == Workers \cup Clients
Added == Len(tasks) + Cardinality(done) + Cardinality(dropped)
            + Cardinality({t \in Threads : task[t] # None})

Queued == {tasks[i] : i \in 1 .. Len(tasks)}
RunByWorkers == {task[w] : w \in Workers} \ {None}

Init ==
    /\ started = FALSE /\ shuttingDown = FALSE /\ waitingCount = 0 /\ tasks = <<>>
    /\ maxActive = Cardinality(Workers) /\ threads = Workers
    /\ pc = [t \in Threads |-> IF t \in Workers THEN "get" ELSE "call"]
    /\ task = [t \in Threads |-> None]
    /\ program \in Programs
    /\ done = {} /\ dropped = {}
    /\ promised = [c \in Clients |-> {}]

HasOutstandingTasks == started /\ tasks # <<>>

-----------------------------------------------------------------------------
(* The conditions.                                                         *)

(* Signal of task_queue_condition_: one sleeper, if there is one.          *)
SignalQueue ==
    LET asleep == {w \in Workers : pc[w] = "asleep"} IN
    IF asleep = {} THEN UNCHANGED pc
    ELSE \E w \in asleep : pc' = [pc EXCEPT ![w] = "woken"]

AllAwake(f, S) ==
    [t \in Threads |-> IF t \in S /\ f[t] = "asleep" THEN "woken" ELSE f[t]]

(* A sleeper wakes without having been signalled.                          *)
SpuriousWake(t) ==
    /\ pc[t] = "asleep"
    /\ pc' = [pc EXCEPT ![t] = "woken"]
    /\ UNCHANGED <<poolVars, waitingCount, task, program, taskVars, promised>>

-----------------------------------------------------------------------------
(* ThreadPoolWorker::Run and GetTask.                                      *)

(* Mutant: a woken worker stays counted.                                   *)
StillWaiting(w) == waitingCount

(* waiting_count_ once a woken worker no longer counts.                    *)
OthersWaiting(w) == waitingCount - (IF pc[w] = "woken" THEN 1 ELSE 0)

(* One turn of the loop in GetTask: leave, take a task if the limit on     *)
(* active workers allows one more, or sleep; the last one to sleep with    *)
(* nothing left to do wakes the clients that wait for completion.          *)
GetTask(w) ==
    LET others == OthersWaiting(w)
        active == Cardinality(threads) - others IN
    /\ pc[w] \in {"get", "woken"}
    /\ IF shuttingDown
       THEN pc' = [pc EXCEPT ![w] = "gone"] /\ waitingCount' = others
            /\ UNCHANGED <<tasks, task>>
       ELSE IF active <= maxActive /\ HasOutstandingTasks
       THEN /\ task' = [task EXCEPT ![w] = Head(tasks)]
            /\ tasks' = Tail(tasks)
            /\ pc' = [pc EXCEPT ![w] = "run"]
            /\ waitingCount' = others
       ELSE /\ waitingCount' = others + 1
            /\ LET asleep == [pc EXCEPT ![w] = "asleep"] IN
               pc' = IF others + 1 = Cardinality(threads) /\ ~HasOutstandingTasks
                     THEN AllAwake(asleep, Clients) ELSE asleep
            /\ UNCHANGED <<tasks, task>>
    /\ UNCHANGED <<started, shuttingDown, maxActive, threads, program, taskVars, promised>>

(* task->Run(self); task->Finalize(), by a worker or a helping client.     *)
RunTask(t) ==
    /\ pc[t] = "run"
    /\ done' = done \cup {task[t]}
    /\ task' = [task EXCEPT ![t] = None]
    /\ pc' = [pc EXCEPT ![t] = IF t \in Workers THEN "get" ELSE "help"]
    /\ UNCHANGED <<poolVars, waitingCount, program, dropped, promised>>

(* AddTask.  The caller is a client, or a task that splits its work.       *)
Enqueue ==
    /\ Added < MaxTasks
    /\ tasks' = Append(tasks, Added + 1)

(* Mutant: the signal is left to StartWorkers.                             *)
AddTaskQuietly ==
    /\ Enqueue
    /\ UNCHANGED pc

AddTask ==
    /\ Enqueue
    /\ IF started /\ waitingCount # 0 THEN SignalQueue ELSE UNCHANGED pc

SplitTask(t) ==
    /\ pc[t] = "run" /\ task[t] = 1
    /\ AddTask
    /\ UNCHANGED <<started, shuttingDown, maxActive, threads, waitingCount, task, program,
                   taskVars, promised>>

-----------------------------------------------------------------------------
(* The clients.                                                            *)

Calls(c, op) == pc[c] = "call" /\ program[c] # <<>> /\ Head(program[c]) = op
Return(c) == program' = [program EXCEPT ![c] = Tail(@)]
NothingRuns == UNCHANGED <<task, taskVars>>

ClientAddsTask(c) ==
    /\ Calls(c, "add")
    /\ AddTask
    /\ Return(c)
    /\ NothingRuns
    /\ UNCHANGED <<started, shuttingDown, maxActive, threads, waitingCount, promised>>

StartWorkers(c) ==
    /\ Calls(c, "start")
    /\ started' = TRUE
    /\ pc' = AllAwake(pc, Workers)
    /\ Return(c)
    /\ NothingRuns
    /\ UNCHANGED <<shuttingDown, tasks, maxActive, threads, waitingCount, promised>>

(* What is queued is no longer owed to those who wait.                     *)
StopWorkers(c) ==
    /\ Calls(c, "stop")
    /\ started' = FALSE
    /\ promised' = [k \in Clients |-> promised[k] \ Queued]
    /\ Return(c)
    /\ NothingRuns
    /\ UNCHANGED <<shuttingDown, tasks, maxActive, threads, waitingCount, pc>>

SetMaxActiveWorkers(c) ==
    /\ Calls(c, "limit") /\ threads # {}
    /\ maxActive' = Cardinality(threads) - 1
    /\ Return(c)
    /\ NothingRuns
    /\ UNCHANGED <<started, shuttingDown, tasks, threads, waitingCount, pc, promised>>

(* TryGetTask and Finalize while the pool is started, then clear().        *)
RemoveAllTasks(c) ==
    /\ Calls(c, "remove")
    /\ IF HasOutstandingTasks
       THEN tasks' = Tail(tasks) /\ dropped' = dropped \cup {Head(tasks)}
            /\ promised' = [k \in Clients |-> promised[k] \ {Head(tasks)}]
            /\ UNCHANGED program
       ELSE tasks' = <<>> /\ dropped' = dropped \cup Queued
            /\ promised' = [k \in Clients |-> promised[k] \ Queued]
            /\ Return(c)
    /\ UNCHANGED <<started, shuttingDown, maxActive, threads, waitingCount, pc, task, done>>

(* Wait: with do_work the client first runs tasks itself.                  *)
Wait(c) ==
    /\ Calls(c, "wait") \/ Calls(c, "work")
    /\ pc' = [pc EXCEPT ![c] = IF Head(program[c]) = "work" THEN "help" ELSE "check"]
    /\ promised' = [promised EXCEPT ![c] =
                        IF shuttingDown THEN {}
                        ELSE RunByWorkers \cup (IF started THEN Queued ELSE {})]
    /\ NothingRuns
    /\ UNCHANGED <<poolVars, waitingCount, program>>

Help(c) ==
    /\ pc[c] = "help"
    /\ IF HasOutstandingTasks
       THEN /\ task' = [task EXCEPT ![c] = Head(tasks)]
            /\ tasks' = Tail(tasks)
            /\ pc' = [pc EXCEPT ![c] = "run"]
       ELSE pc' = [pc EXCEPT ![c] = "check"] /\ UNCHANGED <<tasks, task>>
    /\ UNCHANGED <<started, shuttingDown, maxActive, threads, waitingCount, program, taskVars,
                   promised>>

(* The loop on completion_condition_.                                      *)
Busy == ~shuttingDown /\ (waitingCount # Cardinality(threads) \/ HasOutstandingTasks)

CheckCompletion(c) ==
    /\ pc[c] \in {"check", "woken"} /\ Head(program[c]) \in {"wait", "work"}
    /\ IF Busy
       THEN pc' = [pc EXCEPT ![c] = "asleep"] /\ UNCHANGED <<program, promised>>
       ELSE /\ pc' = [pc EXCEPT ![c] = "call"]
            /\ promised' = [promised EXCEPT ![c] = {}]
            /\ Return(c)
    /\ NothingRuns
    /\ UNCHANGED <<poolVars, waitingCount>>

(* DeleteThreads: tell everybody, then join.                               *)
DeleteThreads(c) ==
    /\ Calls(c, "delete")
    /\ shuttingDown' = TRUE
    /\ pc' = [AllAwake(pc, Threads) EXCEPT ![c] = "join"]
    /\ promised' = [k \in Clients |-> {}]
    /\ NothingRuns
    /\ UNCHANGED <<started, tasks, maxActive, threads, waitingCount, program>>

Join(c) ==
    /\ pc[c] = "join"
    /\ \A w \in threads : pc[w] = "gone"
    /\ threads' = {}
    /\ pc' = [pc EXCEPT ![c] = "call"]
    /\ Return(c)
    /\ NothingRuns
    /\ UNCHANGED <<started, shuttingDown, tasks, maxActive, waitingCount, promised>>

(* CreateThreads brings back max_active_workers_ threads.                  *)
CreateThreads(c) ==
    /\ Calls(c, "create") /\ threads = {}
    /\ shuttingDown' = FALSE
    /\ \E S \in SUBSET Workers :
        /\ Cardinality(S) = maxActive
        /\ threads' = S
        /\ pc' = [t \in Threads |-> IF t \in S THEN "get" ELSE pc[t]]
    /\ Return(c)
    /\ NothingRuns
    /\ UNCHANGED <<started, tasks, maxActive, waitingCount, promised>>

-----------------------------------------------------------------------------
(* What goes on by itself: workers, and clients inside a call.             *)
Step(t) ==
    \/ t \in Workers /\ GetTask(t)
    \/ RunTask(t)
    \/ t \in Clients /\ (Help(t) \/ CheckCompletion(t) \/ Join(t))

ClientCalls(c) ==
    \/ ClientAddsTask(c) \/ StartWorkers(c) \/ StopWorkers(c) \/ SetMaxActiveWorkers(c)
    \/ RemoveAllTasks(c) \/ Wait(c) \/ DeleteThreads(c) \/ CreateThreads(c)

Next ==
    \/ \E t \in Threads : Step(t) \/ SplitTask(t) \/ SpuriousWake(t)
    \/ \E c \in Clients : ClientCalls(c)

Spec == Init /\ [][Next]_vars

(* Threads are scheduled, and a task that runs comes to its end.           *)
Fairness == \A t \in Threads : WF_vars(Step(t))

-----------------------------------------------------------------------------
(* Wait keeps its promise: when it returns, every task that was queued or  *)
(* that a worker was running at the call has been run, unless the pool was *)
(* stopped, emptied or shut down meanwhile, or another client took the     *)
(* task to help.  It rests on waiting_count_ being the number of workers   *)
(* that run nothing although woken workers, spurious wake-ups and the      *)
(* limit on active workers all pass through it.                            *)
Completes ==
    \A c \in Clients : program'[c] # program[c] =>
        promised[c] \subseteq done \cup {task[k] : k \in Clients}
WaitCompletes == [][Completes]_vars

(* No task and no client is forgotten: a client in Wait or DeleteThreads   *)
(* returns, and a task that is queued in a started pool leaves the queue,  *)
(* unless the pool is stopped or shuts down.  One Signal per added task is *)
(* enough even when the worker it wakes may not become active.             *)
PoolProgress ==
    /\ \A c \in Clients : pc[c] \in {"check", "join"} ~> pc[c] = "call"
    /\ HasOutstandingTasks ~> (~HasOutstandingTasks \/ shuttingDown)
=============================================================================
