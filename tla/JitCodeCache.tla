---------------------------- MODULE JitCodeCache ----------------------------
(* runtime/jit/jit_code_cache.cc, with what jit.cc, the compiler driver    *)
(* and cha.cc do to it: compilations reserve, commit and publish code; a   *)
(* compilation that finds no room collects the code that is neither an     *)
(* entry point nor on a stack; class linking invalidates the code that     *)
(* took a virtual method to have one implementation only.                  *)
(*                                                                         *)
(* An address of the cache is a number, its code a record, None when no    *)
(* code is committed there.  An entry point that is not in the cache (the  *)
(* interpreter, the generic JNI trampoline) is None.  All native methods   *)
(* share one JNI stub.  jit_lock_ and cha_lock_ are held within a step,    *)
(* except for jit_lock_ in Commit, between the check under cha_lock_ and   *)
(* the update of the entry point.                                          *)
EXTENDS Naturals, Sequences, FiniteSets

CONSTANTS Mutators, Compilers, Loader, JavaMethods, NativeMethods,
          InitialCapacity, ReservedCapacity, MaxCapacity, OneMB, MaxDepth, Scenarios,
          MayAllocate(_),  \* which of the free addresses mspace_memalign may return
          None

VARIABLES
    entry,       \* [method -> address or None], the entry points
    code,        \* [address -> committed code or None]: method_code_map_ and the stub
    stub,        \* the entry of jni_stubs_map_: its code and methods, or None
    osr,         \* osr_code_map_
    profile,     \* profiling_infos_: "none", or whether the counter has changed
    capacity, lastIncreased, garbageCollect,
    collecting, live,  \* collection_in_progress_, live_bitmap_
    compiling,   \* current_*_compilations_: pairs of a method and a kind
    tasks,       \* [method -> how many more compilations of it may be asked for]
    jitLock,     \* the thread inside Commit that holds jit_lock_, or None
    waiting,     \* threads in lock_cond_.Wait
    single,      \* HasSingleImplementation of the virtual method
    deps,        \* cha_dependency_map_ of it: pairs of a method and an address
    headers,     \* the loader's headers still to invalidate, in any order
    header,      \* the one whose OSR code it is about to look for, or None
    doomed,      \* the loader's dependent_method_headers
    unseen,      \* history: those of them whose code was not in the maps yet
    marking, deoptimizing,  \* threads that have yet to run a checkpoint
    pc, job,     \* of compilers and the loader
    hand,        \* the code a mutator is about to jump to, or None
    stack        \* [mutator -> its frames of compiled code]

cacheVars == <<entry, code, stub, osr, profile>>
sizeVars == <<capacity, lastIncreased, garbageCollect>>
gcVars == <<collecting, live, marking>>
chaVars == <<single, deps, headers, header, doomed, unseen, deoptimizing>>
mutatorVars == <<hand, stack>>
compilerVars == <<pc, job, compiling, tasks, jitLock, waiting>>
vars == <<cacheVars, sizeVars, gcVars, chaVars, mutatorVars, compilerVars>>

Methods == JavaMethods \cup NativeMethods
Kinds == {"baseline", "optimized", "osr"}
Addresses == 1..MaxCapacity
Threads == Mutators \cup Compilers \cup {Loader}
CompilerLabels ==
    {"idle", "notify", "register", "profile", "profileAgain", "compile", "reserve", "commit",
     "publish", "free", "done", "release", "gc", "gcWaited", "collect", "checkpoint", "remove",
     "finish"}
LoaderLabels == {"idle", "invalidate", "invalidateOsr", "deoptimize", "linked"}

Codes == [method : Methods, kind : Kinds, cha : BOOLEAN]
Stubs == [code : Addresses \cup {None}, methods : SUBSET NativeMethods]
Targets == [at : Addresses, method : Methods]
Frames == [at : Addresses, method : Methods, deoptimize : BOOLEAN]
Jobs == [method : Methods \cup {None}, kind : Kinds \cup {None}, at : Addresses \cup {None},
         cha : BOOLEAN, then : {"reserve", "profileAgain", None}]
NoJob == [method |-> None, kind |-> None, at |-> None, cha |-> FALSE, then |-> None]

ASSUME JitAssumption ==
    /\ JavaMethods \cap NativeMethods = {} /\ Mutators \cap Compilers = {}
    /\ Loader \notin Mutators \cup Compilers
    /\ None \notin Methods \cup Kinds \cup Threads \cup {"reserve", "profileAgain"}
    /\ MaxCapacity \in Nat /\ None \notin Addresses \cup Codes \cup Stubs \cup Targets
    /\ InitialCapacity \in Addresses /\ OneMB \in Nat /\ MaxDepth \in Nat
    /\ \A free \in SUBSET Addresses : MayAllocate(free) \subseteq free
    /\ Scenarios \subseteq [tasks : [Methods -> Nat], collect : BOOLEAN, single : BOOLEAN]

TypeOK ==
    /\ entry \in [Methods -> Addresses \cup {None}]
    /\ code \in [Addresses -> Codes \cup {None}]
    /\ stub \in Stubs \cup {None}
    /\ osr \in [JavaMethods -> Addresses \cup {None}]
    /\ profile \in [JavaMethods -> {"none", "unchanged", "changed"}]
    /\ capacity \in Addresses /\ lastIncreased \in BOOLEAN /\ garbageCollect \in BOOLEAN
    /\ collecting \in BOOLEAN /\ live \subseteq Addresses
    /\ compiling \subseteq Methods \X Kinds /\ tasks \in [Methods -> Nat]
    /\ jitLock \in Compilers \cup {None} /\ waiting \subseteq Compilers
    /\ single \in BOOLEAN /\ deps \subseteq JavaMethods \X Addresses
    /\ headers \subseteq JavaMethods \X Addresses
    /\ header \in (JavaMethods \X Addresses) \cup {None}
    /\ doomed \subseteq Addresses /\ unseen \subseteq Addresses
    /\ marking \subseteq Threads /\ deoptimizing \subseteq Threads
    /\ pc \in [Compilers \cup {Loader} -> CompilerLabels \cup LoaderLabels]
    /\ job \in [Compilers -> Jobs]
    /\ hand \in [Mutators -> Targets \cup {None}]
    /\ stack \in [Mutators -> Seq(Frames)]

Init ==
    /\ entry = [m \in Methods |-> None] /\ osr = [m \in JavaMethods |-> None]
    /\ code = [a \in Addresses |-> None] /\ stub = None
    /\ profile = [m \in JavaMethods |-> "none"]
    /\ capacity = InitialCapacity /\ lastIncreased = FALSE
    /\ collecting = FALSE /\ live = {} /\ marking = {}
    /\ compiling = {} /\ jitLock = None /\ waiting = {}
    /\ \E s \in Scenarios :
        tasks = s.tasks /\ garbageCollect = s.collect /\ single = s.single
    /\ deps = {} /\ headers = {} /\ header = None /\ doomed = {} /\ unseen = {} /\ deoptimizing = {}
    /\ pc = [t \in Compilers \cup {Loader} |-> "idle"]
    /\ job = [t \in Compilers |-> NoJob]
    /\ hand = [t \in Mutators |-> None] /\ stack = [t \in Mutators |-> <<>>]

-----------------------------------------------------------------------------
(* Mutators.  Between loading an entry point and having a frame there is   *)
(* no suspend point.                                                       *)
Invoke(t, m) ==
    /\ hand[t] = None /\ Len(stack[t]) < MaxDepth
    /\ entry[m] # None
    /\ hand' = [hand EXCEPT ![t] = [at |-> entry[m], method |-> m]]
    /\ UNCHANGED <<cacheVars, sizeVars, gcVars, chaVars, stack, compilerVars>>

(* PrepareForOsr, from the interpreter                                     *)
PrepareForOsr(t, m) ==
    /\ hand[t] = None /\ Len(stack[t]) < MaxDepth /\ jitLock = None
    /\ entry[m] # None /\ osr[m] # None
    /\ hand' = [hand EXCEPT ![t] = [at |-> osr[m], method |-> m]]
    /\ UNCHANGED <<cacheVars, sizeVars, gcVars, chaVars, stack, compilerVars>>

(* Baseline code counts its executions.                                    *)
Enter(t) ==
    /\ hand[t] # None
    /\ stack' = [stack EXCEPT ![t] = Append(@, [at |-> hand[t].at, method |-> hand[t].method,
                                                deoptimize |-> FALSE])]
    /\ hand' = [hand EXCEPT ![t] = None]
    /\ profile' = IF code[hand[t].at].kind = "baseline"
                  THEN [profile EXCEPT ![hand[t].method] = "changed"] ELSE profile
    /\ UNCHANGED <<entry, code, stub, osr, sizeVars, gcVars, chaVars, compilerVars>>

InFrame(t) == hand[t] = None /\ stack[t] # <<>>
Top(t) == stack[t][Len(stack[t])]
Pop(t) == stack' = [stack EXCEPT ![t] = SubSeq(@, 1, Len(@) - 1)]

Return(t) ==
    /\ InFrame(t) /\ Pop(t)
    /\ UNCHANGED <<cacheVars, sizeVars, gcVars, chaVars, hand, compilerVars>>

(* InvalidateCompiledCodeFor, from the deoptimization of a single frame    *)
(* and from class linking: first the entry point, read without a lock,     *)
(* and only if it is another one the map of the OSR code.                  *)
IsEntryPoint(m, a) == entry[m] = a
ResetEntry(m) == entry' = [entry EXCEPT ![m] = None] /\ UNCHANGED <<code, stub, osr, profile>>
EraseOsr(m, a) ==
    /\ jitLock = None
    /\ osr' = IF osr[m] = a THEN [osr EXCEPT ![m] = None] ELSE osr
    /\ UNCHANGED <<entry, code, stub, profile>>

(* Optimized code deoptimizes when its should_deoptimize flag is set or    *)
(* another of its guards fails; OSR code has no such guards.               *)
Deoptimize(t) ==
    /\ InFrame(t) /\ Top(t).method \in JavaMethods /\ code[Top(t).at].kind = "optimized"
    /\ IF IsEntryPoint(Top(t).method, Top(t).at)
       THEN ResetEntry(Top(t).method) ELSE EraseOsr(Top(t).method, Top(t).at)
    /\ Pop(t)
    /\ UNCHANGED <<sizeVars, gcVars, chaVars, hand, compilerVars>>

(* AddCompileTask: a method is queued once for each kind.  The scenario    *)
(* bounds the tasks of a method.                                           *)
AddCompileTask(m, kind) ==
    /\ jitLock = None /\ compiling' = compiling \cup {<<m, kind>>}
    /\ tasks[m] > 0
    /\ tasks' = IF <<m, kind>> \in compiling THEN tasks ELSE [tasks EXCEPT ![m] = @ - 1]
    /\ UNCHANGED <<pc, job, jitLock, waiting>>

(* IsOsrCompiled is asked before and may have changed since.               *)
MaybeEnqueueCompilation(m) ==
    /\ \/ entry[m] # None /\ m \in JavaMethods /\ AddCompileTask(m, "osr")
       \/ entry[m] = None /\ m \in JavaMethods /\ AddCompileTask(m, "baseline")
       \/ entry[m] = None /\ m \in NativeMethods /\ AddCompileTask(m, "optimized")
    /\ UNCHANGED <<cacheVars, sizeVars, gcVars, chaVars, mutatorVars>>

(* Hot baseline code resets its counter and asks for optimized code.       *)
EnqueueOptimizedCompilation(t) ==
    /\ InFrame(t) /\ code[Top(t).at].kind = "baseline"
    /\ AddCompileTask(Top(t).method, "optimized")
    /\ profile' = [profile EXCEPT ![Top(t).method] = "unchanged"]
    /\ UNCHANGED <<entry, code, stub, osr, sizeVars, gcVars, chaVars, mutatorVars>>

-----------------------------------------------------------------------------
(* Mutant: a compiler in Commit stays runnable while it waits.             *)
RunsWhileItWaits(t) ==
    IF t \in Mutators THEN FALSE
    ELSE pc[t] \in {"idle", "reserve", "gc", "gcWaited", "remove", "release", "deoptimize",
                   "linked"}

(* Checkpoints.  ThreadList::RunCheckpoint runs the closure for threads    *)
(* that are suspended, among them those that wait for a collection, for    *)
(* room or for the barrier; the others run it at their next suspend point. *)
Suspended(t) ==
    IF t \in Mutators THEN FALSE
    ELSE pc[t] \in {"idle", "reserve", "gc", "gcWaited", "remove", "release", "deoptimize",
                   "linked"} \/ t \in waiting

AtSuspendPoint(t) ==
    IF t \in Mutators THEN hand[t] = None ELSE Suspended(t) \/ pc[t] = "compile"

OnStack(t) == IF t \in Mutators THEN {stack[t][i].at : i \in DOMAIN stack[t]} ELSE {}

-----------------------------------------------------------------------------
(* Compilations.  JitCompileTask takes a queued method; the order of the   *)
(* queue is ThreadPool's matter.                                           *)
Goto(t, label) == pc' = [pc EXCEPT ![t] = label]
Method(t) == job[t].method
Kind(t) == job[t].kind
InHands(m, kind) == \E t \in Compilers : Method(t) = m /\ Kind(t) = kind

RunTask(t) ==
    /\ pc[t] = "idle"
    /\ \E mk \in compiling :
        /\ ~InHands(mk[1], mk[2])
        /\ job' = [job EXCEPT ![t].method = mk[1], ![t].kind = mk[2]]
    /\ Goto(t, "notify")
    /\ UNCHANGED <<cacheVars, sizeVars, gcVars, chaVars, mutatorVars, compiling, tasks,
                   jitLock, waiting>>

(* NotifyCompilationOf: whether there is code of this kind already, read   *)
(* from the header at the entry point.                                     *)
AlreadyCompiled(m, kind) ==
    /\ kind # "osr" /\ entry[m] # None
    /\ (code[entry[m]].kind = "baseline") = (kind = "baseline")

NotifyCompilationOf(t) ==
    /\ pc[t] = "notify"
    /\ Goto(t, IF AlreadyCompiled(Method(t), Kind(t)) THEN "release" ELSE "register")
    /\ UNCHANGED <<cacheVars, sizeVars, gcVars, chaVars, mutatorVars, job, compiling, tasks,
                   jitLock, waiting>>

(* Its second part for native methods: the entry of the stub is created,   *)
(* or the stub revived, which a running collection must not then free.     *)
Revived == stub # None /\ stub.code # None
ReviveUnmarked == live  \* mutant: the revived stub is not marked
ReviveMarks == IF collecting /\ Revived THEN live \cup {stub.code} ELSE live

RegisterNative(t) ==
    /\ pc[t] = "register" /\ jitLock = None /\ Method(t) \in NativeMethods
    /\ LET methods == {Method(t)} \cup IF stub = None THEN {} ELSE stub.methods IN
        /\ stub' = [code |-> IF stub = None THEN None ELSE stub.code, methods |-> methods]
        /\ entry' = [m \in Methods |-> IF Revived /\ m \in methods THEN stub.code ELSE entry[m]]
    /\ live' = ReviveMarks
    /\ Goto(t, IF stub = None THEN "compile" ELSE "release")
    /\ UNCHANGED <<code, osr, profile, sizeVars, collecting, marking, chaVars, mutatorVars, job,
                   compiling, tasks, jitLock, waiting>>

(* And for the others: OSR code that is there is not compiled again, and   *)
(* baseline code needs a ProfilingInfo.                                    *)
RegisterJava(t) ==
    /\ pc[t] = "register" /\ jitLock = None /\ Method(t) \in JavaMethods
    /\ Goto(t, CASE Kind(t) = "osr" /\ osr[Method(t)] # None -> "release"
                 [] Kind(t) = "baseline" /\ profile[Method(t)] = "none" -> "profile"
                 [] OTHER -> "compile")
    /\ UNCHANGED <<cacheVars, sizeVars, gcVars, chaVars, mutatorVars, job, compiling, tasks,
                   jitLock, waiting>>

(* AddProfilingInfo: if there is no room for the data it collects the      *)
(* cache once and tries again.                                             *)
AddProfilingInfo(t) ==
    /\ pc[t] \in {"profile", "profileAgain"} /\ jitLock = None
    /\ \/ /\ Goto(t, "compile")
          /\ profile' = [profile EXCEPT ![Method(t)] = IF @ = "none" THEN "unchanged" ELSE @]
          /\ UNCHANGED job
       \/ /\ profile[Method(t)] = "none"
          /\ Goto(t, IF pc[t] = "profile" THEN "gc" ELSE "release")
          /\ job' = [job EXCEPT ![t].then = IF pc[t] = "profile" THEN "profileAgain" ELSE None]
          /\ UNCHANGED profile
    /\ UNCHANGED <<entry, code, stub, osr, sizeVars, gcVars, chaVars, mutatorVars, compiling,
                   tasks, jitLock, waiting>>

(* The compiler proper: only optimized code inlines a virtual call, if the *)
(* method has a single implementation at this moment.                      *)
Compile(t) ==
    /\ pc[t] = "compile" /\ Goto(t, "reserve")
    /\ job' = [job EXCEPT ![t].cha = Method(t) \in JavaMethods /\ Kind(t) = "optimized" /\ single]
    /\ UNCHANGED <<cacheVars, sizeVars, gcVars, chaVars, mutatorVars, compiling, tasks,
                   jitLock, waiting>>

(* WaitForPotentialCollectionToComplete, and its variant for a runnable    *)
(* thread, which suspends itself to wait.  GarbageCollectCache remembers   *)
(* that it waited.                                                         *)
WaitForCollection(t) ==
    /\ pc[t] \in {"reserve", "commit", "gc", "gcWaited"} /\ t \notin waiting
    /\ jitLock = None /\ collecting
    /\ waiting' = waiting \cup {t}
    /\ Goto(t, IF pc[t] = "gc" THEN "gcWaited" ELSE pc[t])
    /\ UNCHANGED <<cacheVars, sizeVars, gcVars, chaVars, mutatorVars, job, compiling, tasks,
                   jitLock>>

Ready(t, label) == pc[t] = label /\ t \notin waiting /\ jitLock = None

(* Reserve.  Which of the free addresses it gets is the allocator's        *)
(* choice.                                                                 *)
Used == {a \in Addresses : code[a] # None \/ \E t \in Compilers : job[t].at = a}
IsAtMaxCapacity == capacity = MaxCapacity

Reserve(t) ==
    /\ Ready(t, "reserve") /\ ~collecting
    /\ \/ /\ Cardinality(Used) < capacity
          /\ Goto(t, "commit")
          /\ \E a \in MayAllocate(Addresses \ Used) : job' = [job EXCEPT ![t].at = a]
       \/ /\ Cardinality(Used) >= capacity
          /\ Goto(t, IF IsAtMaxCapacity THEN "done" ELSE "gc")
          /\ job' = [job EXCEPT ![t].then = IF IsAtMaxCapacity THEN None ELSE "reserve"]
    /\ UNCHANGED <<cacheVars, sizeVars, gcVars, chaVars, mutatorVars, compiling, tasks,
                   jitLock, waiting>>

(* Commit up to the release of cha_lock_.  The caches may fail to be       *)
(* flushed.                                                                *)
Commit(t) ==
    /\ Ready(t, "commit") /\ ~collecting
    /\ \/ /\ job[t].cha => single
          /\ deps' = IF job[t].cha THEN deps \cup {<<Method(t), job[t].at>>} ELSE deps
          /\ jitLock' = t /\ Goto(t, "publish")
       \/ /\ Goto(t, "free") /\ UNCHANGED <<deps, jitLock>>
    /\ UNCHANGED <<cacheVars, sizeVars, gcVars, single, headers, header, doomed, unseen,
                   deoptimizing, mutatorVars, job, compiling, tasks, waiting>>

(* The rest of Commit: the code gets into the maps and becomes the entry   *)
(* point of its method, or of all methods of the stub.                     *)
Publish(t) ==
    /\ pc[t] = "publish"
    /\ LET a == job[t].at  m == Method(t)  native == m \in NativeMethods IN
        /\ code' = [code EXCEPT ![a] = [method |-> m, kind |-> Kind(t), cha |-> job[t].cha]]
        /\ stub' = IF native THEN [stub EXCEPT !.code = a] ELSE stub
        /\ osr' = IF Kind(t) = "osr" THEN [osr EXCEPT ![m] = a] ELSE osr
        /\ entry' = IF native
                    THEN [n \in Methods |-> IF n \in stub.methods THEN a ELSE entry[n]]
                    ELSE IF Kind(t) = "osr" THEN entry ELSE [entry EXCEPT ![m] = a]
        /\ live' = IF collecting THEN live \cup {a} ELSE live
    /\ jitLock' = None /\ Goto(t, "done") /\ job' = [job EXCEPT ![t].at = None]
    /\ UNCHANGED <<profile, sizeVars, collecting, marking, chaVars, mutatorVars, compiling, tasks,
                   waiting>>

Free(t) ==
    /\ Ready(t, "free") /\ Goto(t, "done") /\ job' = [job EXCEPT ![t].at = None]
    /\ UNCHANGED <<cacheVars, sizeVars, gcVars, chaVars, mutatorVars, compiling, tasks,
                   jitLock, waiting>>

(* DoneCompiling removes the entry of a stub that was not compiled.        *)
DoneCompiling(t) ==
    /\ Ready(t, "done") /\ Goto(t, "release")
    /\ stub' = IF Method(t) \in NativeMethods /\ stub.code = None THEN None ELSE stub
    /\ UNCHANGED <<entry, code, osr, profile, sizeVars, gcVars, chaVars, mutatorVars, job,
                   compiling, tasks, jitLock, waiting>>

(* The destructor of ScopedCompilation, with the task                      *)
RemoveMethodBeingCompiled(t) ==
    /\ Ready(t, "release") /\ Goto(t, "idle")
    /\ compiling' = compiling \ {<<Method(t), Kind(t)>>}
    /\ job' = [job EXCEPT ![t] = NoJob]
    /\ UNCHANGED <<cacheVars, sizeVars, gcVars, chaVars, mutatorVars, tasks, jitLock, waiting>>

-----------------------------------------------------------------------------
(* GarbageCollectCache, by a thread that finds no collection going on      *)
Smaller(x, y) == IF x < y THEN x ELSE y
Increased ==
    Smaller(IF capacity < OneMB THEN 2 * capacity ELSE capacity + OneMB, MaxCapacity)

ShouldDoFullCollection(size, increased) ==
    size = MaxCapacity \/ (size >= ReservedCapacity /\ increased)

GarbageCollectCache(t) ==
    /\ Ready(t, "gc") /\ ~collecting
    /\ \/ /\ ~garbageCollect
          /\ capacity' = Increased /\ Goto(t, job[t].then)
          /\ UNCHANGED <<collecting, live>>
       \/ /\ garbageCollect
          /\ collecting' = TRUE /\ live' = {} /\ Goto(t, "collect")
          /\ UNCHANGED capacity
    /\ UNCHANGED <<cacheVars, lastIncreased, garbageCollect, marking, chaVars, mutatorVars, job,
                   compiling, tasks, jitLock, waiting>>

(* DoCollection: baseline code that has not run since the counters were    *)
(* reset is no longer an entry point; entry points are marked; OSR code    *)
(* is not offered any more.                                                *)
Cold(m) == /\ m \in JavaMethods /\ profile[m] = "unchanged"
           /\ entry[m] # None /\ code[entry[m]].kind = "baseline"
WarmEntries == [m \in Methods |-> IF Cold(m) THEN None ELSE entry[m]]
NoOsr == [m \in JavaMethods |-> None]

DoCollection(t) ==
    /\ Ready(t, "collect") /\ Goto(t, "checkpoint")
    /\ entry' = WarmEntries
    /\ live' = live \cup ({WarmEntries[m] : m \in Methods} \ {None})
    /\ osr' = NoOsr
    /\ UNCHANGED <<code, stub, profile, sizeVars, collecting, marking, chaVars, mutatorVars, job,
                   compiling, tasks, jitLock, waiting>>

(* MarkCompiledCodeOnThreadStacks: the checkpoint is requested of all.     *)
MarkCompiledCodeOnThreadStacks(t) ==
    /\ pc[t] = "checkpoint" /\ Goto(t, "remove")
    /\ marking' = {u \in Threads \ {t} : ~Suspended(u)}
    /\ UNCHANGED <<cacheVars, sizeVars, collecting, live, chaVars, mutatorVars, job, compiling,
                   tasks, jitLock, waiting>>

(* RemoveUnmarkedCode: what is freed is erased from the maps, and from the *)
(* dependencies of class hierarchy analysis first.                         *)
Removable(a) == code[a] # None /\ a \notin live

(* Mutant: an entry without code is erased too.                            *)
SweptStub == IF stub # None /\ (stub.code = None \/ Removable(stub.code)) THEN None ELSE stub

(* The entry of a stub that is being compiled stays.                       *)
KeptStub == IF Revived /\ Removable(stub.code) THEN None ELSE stub

RemoveUnmarkedCode(t) ==
    /\ Ready(t, "remove") /\ marking = {} /\ Goto(t, "finish")
    /\ code' = [a \in Addresses |-> IF Removable(a) THEN None ELSE code[a]]
    /\ stub' = KeptStub
    /\ deps' = {d \in deps : ~Removable(d[2])}
    /\ UNCHANGED <<entry, osr, profile, sizeVars, gcVars, single, headers, header, doomed, unseen,
                   deoptimizing, mutatorVars, job, compiling, tasks, jitLock, waiting>>

(* The end of GarbageCollectCache.  Before a full collection the counters  *)
(* are reset and native methods go back to the generic trampoline.         *)
FinishCollection(t) ==
    /\ Ready(t, "finish") /\ Goto(t, job[t].then)
    /\ LET full == ShouldDoFullCollection(capacity, lastIncreased)
           nextFull == ShouldDoFullCollection(capacity', lastIncreased') IN
        /\ lastIncreased' = ~full
        /\ capacity' = IF full THEN capacity ELSE Increased
        /\ profile' = [m \in JavaMethods |->
                        IF nextFull /\ profile[m] = "changed" THEN "unchanged" ELSE profile[m]]
        /\ entry' = [m \in Methods |->
                        IF nextFull /\ Revived /\ m \in stub.methods /\ entry[m] = stub.code
                        THEN None ELSE entry[m]]
    /\ collecting' = FALSE /\ live' = {} /\ waiting' = {}
    /\ UNCHANGED <<code, stub, osr, garbageCollect, marking, chaVars, mutatorVars, job,
                   compiling, tasks, jitLock>>

(* Who waited for a collection of another thread does not collect.         *)
CollectedByOther(t) ==
    /\ Ready(t, "gcWaited") /\ ~collecting /\ Goto(t, job[t].then)
    /\ UNCHANGED <<cacheVars, sizeVars, gcVars, chaVars, mutatorVars, job, compiling, tasks,
                   jitLock, waiting>>

-----------------------------------------------------------------------------
(* InvalidateSingleImplementationMethods, when a class that overrides the  *)
(* virtual method is linked.                                               *)
LinkClass ==
    /\ pc[Loader] = "idle" /\ single
    /\ single' = FALSE /\ headers' = deps /\ doomed' = {d[2] : d \in deps}
    /\ unseen' = {d[2] : d \in {d \in deps : code[d[2]] = None}}
    /\ deps' = {}
    /\ Goto(Loader, IF deps = {} THEN "linked" ELSE "invalidate")
    /\ UNCHANGED <<cacheVars, sizeVars, gcVars, header, deoptimizing, mutatorVars, job,
                   compiling, tasks, jitLock, waiting>>

InvalidateCompiledCodeFor ==
    /\ pc[Loader] = "invalidate"
    /\ \E d \in headers :
        /\ headers' = headers \ {d}
        /\ IF IsEntryPoint(d[1], d[2])
           THEN ResetEntry(d[1]) /\ UNCHANGED <<pc, header>>
           ELSE header' = d /\ Goto(Loader, "invalidateOsr") /\ UNCHANGED cacheVars
    /\ UNCHANGED <<sizeVars, gcVars, single, deps, doomed, unseen, deoptimizing, mutatorVars, job,
                   compiling, tasks, jitLock, waiting>>

InvalidateOsrCode ==
    /\ pc[Loader] = "invalidateOsr" /\ Goto(Loader, "invalidate")
    /\ EraseOsr(header[1], header[2]) /\ header' = None
    /\ UNCHANGED <<sizeVars, gcVars, single, deps, headers, doomed, unseen, deoptimizing,
                   mutatorVars, job, compiling, tasks, jitLock, waiting>>

(* The CHACheckpoint is requested of all, and waited for.                  *)
RequestDeoptimization ==
    /\ pc[Loader] = "invalidate" /\ headers = {} /\ Goto(Loader, "deoptimize")
    /\ deoptimizing' = {u \in Threads \ {Loader} : ~Suspended(u)}
    /\ UNCHANGED <<cacheVars, sizeVars, gcVars, single, deps, headers, header, doomed, unseen,
                   mutatorVars, job, compiling, tasks, jitLock, waiting>>

(* Mutant: nobody waits for the checkpoint.                                *)
LinkedAtOnce ==
    /\ pc[Loader] = "deoptimize" /\ Goto(Loader, "linked")
    /\ UNCHANGED <<cacheVars, sizeVars, gcVars, chaVars, mutatorVars, job, compiling, tasks,
                   jitLock, waiting>>

Linked ==
    /\ pc[Loader] = "deoptimize" /\ deoptimizing = {} /\ Goto(Loader, "linked")
    /\ UNCHANGED <<cacheVars, sizeVars, gcVars, chaVars, mutatorVars, job, compiling, tasks,
                   jitLock, waiting>>

-----------------------------------------------------------------------------
RunMarkCodeClosure(t) ==
    /\ t \in marking /\ AtSuspendPoint(t)
    /\ live' = live \cup OnStack(t) /\ marking' = marking \ {t}
    /\ UNCHANGED <<cacheVars, sizeVars, collecting, chaVars, mutatorVars, compilerVars>>

MustDeoptimize(f) == f.at \in doomed /\ code[f.at].cha

RunCHACheckpoint(t) ==
    /\ t \in deoptimizing /\ AtSuspendPoint(t)
    /\ deoptimizing' = deoptimizing \ {t}
    /\ stack' = [u \in Mutators |->
            [i \in DOMAIN stack[u] |->
                IF u = t /\ MustDeoptimize(stack[u][i])
                THEN [stack[u][i] EXCEPT !.deoptimize = TRUE] ELSE stack[u][i]]]
    /\ UNCHANGED <<cacheVars, sizeVars, gcVars, single, deps, headers, header, doomed, unseen,
                   hand, compilerVars>>

RunCheckpoint(t) == RunMarkCodeClosure(t) \/ RunCHACheckpoint(t)

-----------------------------------------------------------------------------
Mutate(t) ==
    \/ Enter(t) \/ Return(t) \/ Deoptimize(t) \/ EnqueueOptimizedCompilation(t)
    \/ \E m \in Methods : Invoke(t, m)
    \/ \E m \in JavaMethods : PrepareForOsr(t, m)

CompilerStep(t) ==
    \/ NotifyCompilationOf(t) \/ RegisterNative(t) \/ RegisterJava(t) \/ AddProfilingInfo(t)
    \/ Compile(t) \/ Reserve(t) \/ Commit(t) \/ Publish(t) \/ Free(t) \/ DoneCompiling(t)
    \/ RemoveMethodBeingCompiled(t) \/ WaitForCollection(t) \/ CollectedByOther(t)
    \/ GarbageCollectCache(t) \/ DoCollection(t) \/ MarkCompiledCodeOnThreadStacks(t)
    \/ RemoveUnmarkedCode(t) \/ FinishCollection(t)

LoaderStep ==
    InvalidateCompiledCodeFor \/ InvalidateOsrCode \/ RequestDeoptimization \/ Linked

Next ==
    \/ \E t \in Mutators : Mutate(t)
    \/ \E m \in Methods : MaybeEnqueueCompilation(m)
    \/ \E t \in Compilers : RunTask(t) \/ CompilerStep(t)
    \/ LinkClass \/ LoaderStep
    \/ \E t \in Threads : RunCheckpoint(t)

(* Threads inside the runtime go on, and one that comes to suspend points  *)
(* again and again runs the closure it was given there.                    *)
Fairness ==
    /\ \A t \in Compilers : WF_vars(CompilerStep(t))
    /\ WF_vars(LoaderStep)
    /\ \A t \in Mutators : WF_vars(Enter(t))
    /\ \A t \in Threads : SF_vars(RunCheckpoint(t))

Spec == Init /\ [][Next]_vars /\ Fairness

-----------------------------------------------------------------------------
IsCodeOf(a, m) ==
    code[a] # None /\ (code[a].method = m \/ {code[a].method, m} \subseteq NativeMethods)

(* A collection frees no code that is still an entry point, is offered for *)
(* on-stack replacement, is on a stack, or is what a thread is about to    *)
(* jump to; nor has its address been given to code of another method.      *)
(* DoCollection relies on this: "they cannot change to a code cache entry  *)
(* that is not marked".                                                    *)
CodeAlive ==
    /\ \A m \in Methods : entry[m] # None => IsCodeOf(entry[m], m)
    /\ \A m \in JavaMethods : osr[m] # None => IsCodeOf(osr[m], m)
    /\ \A t \in Mutators :
        /\ hand[t] # None => IsCodeOf(hand[t].at, hand[t].method)
        /\ \A i \in DOMAIN stack[t] : IsCodeOf(stack[t][i].at, stack[t][i].method)

(* What NotifyCompilationOf set up is there when Commit and DoneCompiling  *)
(* come back to it, whatever collections and other compilations ran        *)
(* meanwhile: the entry of the stub with the method in it, and room in the *)
(* maps for the new code (the DCHECKs at 752, 755 and 1809, and Put).      *)
CommitFindsEntry ==
    \A t \in Compilers :
        /\ (/\ Method(t) \in NativeMethods
            /\ pc[t] \in {"compile", "reserve", "gc", "gcWaited", "collect", "checkpoint",
                          "remove", "finish", "commit", "publish", "free", "done"})
           => stub # None /\ Method(t) \in stub.methods
        /\ pc[t] = "publish" =>
            /\ code[job[t].at] = None
            /\ Kind(t) = "osr" => osr[Method(t)] = None

(* Once the class is linked, code that relies on the single implementation *)
(* and was visible before is no entry point, no thread is about to jump to *)
(* it, and its frames will deoptimize.                                     *)
CodeInvalidated ==
    pc[Loader] = "linked" =>
        \A a \in Addresses \ unseen :
            code[a] # None /\ code[a].cha =>
                /\ \A m \in Methods : entry[m] # a
                /\ \A t \in Mutators :
                    /\ hand[t] # None => hand[t].at # a
                    /\ \A i \in DOMAIN stack[t] : stack[t][i].at = a => stack[t][i].deoptimize

(* No such code at all is an entry point, as cha.h has it: "Registering    *)
(* CHA dependency and making compiled code visible also need to be atomic. *)
(* Otherwise, we may miss invalidating CHA dependents or making compiled   *)
(* code visible even after it is invalidated."                             *)
InvalidatedCodeHidden ==
    pc[Loader] = "linked" => \A m \in Methods : entry[m] # None => ~code[entry[m]].cha

(* Every compilation ends, however often it has to collect or to wait for  *)
(* the collection of another thread, and so does the linking of the class: *)
(* the tasks being bounded, all threads are done in the end.               *)
CompilationEnds ==
    <>[](/\ \A t \in Compilers : pc[t] = "idle"
         /\ pc[Loader] \in {"idle", "linked"})
=============================================================================
