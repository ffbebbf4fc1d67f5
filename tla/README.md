# Models and proofs of the Android runtime (ART)

This directory keeps TLA+ specifications of the concurrent core of ART beside
the code: the protocols by which the threads of the runtime stop each other,
lock, hand each other work, collect garbage, compile, wait for each other and
shut down, and `odrefresh`, which must survive crashes. Each module is written
from the C++ source; definitions keep the names of the code, and `PROJECT.json`
("map") gives for each definition the lines it stands for. TLC checks small
instances; TLAPS proves the central results for any number of threads.

To run a check or a proof, in this directory:

    tlc -workers 2 -config LocksShutdown.cfg MCLocksShutdown
    tlapm ThreadSuspensionProofs.tla

Paths below are relative to the repository's root.

## The system and its parts

ART is a managed runtime: dex bytecode is loaded, linked, verified, interpreted,
compiled (ahead of time by dex2oat, at run time by the JIT) and garbage
collected. What makes it hard to test is below all this: managed threads touch
the heap without a lock while they are `kRunnable`, and collector, debugger, JIT
and other threads stop them, run code on their behalf or wait for them through
one atomic word per thread and a handful of futex-based locks.

| part | where | module | run |
|---|---|---|---|
| Thread state, suspension, attach, detach | `runtime/thread*.{h,cc}`, `runtime/thread_list.cc` | `ThreadSuspension` (abstractly `SuspendRequests`) | `suspension` |
| Checkpoints | `runtime/thread.cc`, `runtime/thread_list.cc`, `runtime/barrier.cc` | `Checkpoints` | `suspension` |
| Mutex, ConditionVariable | `runtime/base/mutex*` | `FutexMutex` (on `Locks`) | `locks_shutdown` |
| ReaderWriterMutex | `runtime/base/mutex*` | `ReaderWriterMutex` (on `Locks`) | `locks_shutdown` |
| Runtime shutdown | `runtime/runtime.cc`, `runtime/thread_list.cc` | `RuntimeShutdown` | `locks_shutdown` |
| Monitors, lock words, hash codes, park and unpark | `runtime/monitor.cc`, `runtime/lock_word.h`, `runtime/thread.cc` | `Monitor` | `monitor` |
| Thread flip, JNI critical sections | `runtime/thread_list.cc`, `runtime/thread.cc`, `runtime/gc/heap.cc` | `ThreadFlip` | `flip_refresh` |
| Concurrent copying: marking, read barriers, weak references, empty checkpoints | `runtime/gc/collector/concurrent_copying*`, `runtime/gc/reference_*.cc` | `ConcurrentCopying` | `services` |
| Thread pool | `runtime/thread_pool.cc` | `ThreadPool` | `services` |
| Which collection runs; heap tasks | `runtime/gc/heap.cc`, `runtime/gc/task_processor.cc` | `GcRequests` | `services` |
| Class initialization | `runtime/class_linker.cc` | `ClassInitialization` | `services` |
| On-device refresh | `odrefresh/odrefresh.cc` | `OnDeviceRefresh` | `flip_refresh` |
| JIT code cache, class hierarchy analysis | `runtime/jit/jit_code_cache.cc`, `runtime/jit/jit.cc`, `runtime/cha.cc` | `JitCodeCache` | `jit` |

`PROJECT.json` lists every part, the ones left out with the reason, and the
hazards with the line where each bites and the properties that guard it.

How the modelled parts interact: `FutexMutex` and `ReaderWriterMutex` are the
locks everything else uses; the other modules take a lock as a variable that
names its owner, or as the extent of a step. `ThreadSuspension` is the protocol
of the thread word. `Checkpoints` and `ThreadFlip` use the same word, count and
`resume_cond_` and add their own flags; `Monitor` (inflation of the lock of a
suspended owner), `ConcurrentCopying`, `ClassInitialization` and `JitCodeCache`
(checkpoints) and `RuntimeShutdown` rest on what those are shown to promise: a
thread asked to suspend does not run until it is resumed, and a checkpoint runs
once for every thread, at a suspend point. Each module says in its header what
it takes for granted.

Parts that do not touch each other share a run: the first state chooses the part
(the variable `part`, or `roles`), and the others stay as they are. `MCServices`,
`MCFlipRefresh`, `MCLocksShutdown` and `MCSuspensionRoles` are such sums; in them a property is
that of the module, restricted to the part it belongs to.

## Thread suspension

Modules `ThreadSuspension`, `SuspendRequests` (the abstract promise),
`ThreadSuspensionInv` (the inductive invariant), `ThreadSuspensionStructure` and
`ThreadSuspensionProofs` (its proof), `MCThreadSuspension`.

### What is modelled

Every `Thread` has an atomic word `state_and_flags`. The state half decides
whether the thread may touch the managed heap (`kRunnable`); all other states
mean "suspended" to this protocol and are one value. The flags half has, among
others, `kSuspendRequest` (set while `suspend_count` is positive) and
`kActiveSuspendBarrier` (set while somebody waits for this thread to pass a
barrier). A thread changes its own state by compare-and-swap, without a lock;
others change its flags and its count under `thread_suspend_count_lock_`.

| code | model |
|---|---|
| `state_and_flags` | `state`, `flags` |
| `suspend_count`, `suspend_all_count_` | `suspendCount`, `suspendAllCount` |
| `active_suspend_barriers` of a thread, each a pointer to the `pending_threads` of a `SuspendAllInternal` frame | `barriers[u]`, named by the caller whose frame it is |
| local copy in `PassActiveSuspendBarriers` | `claimed[u]` |
| `pending_threads` | `pending[r]` |
| `list_`, `unregistering_count_`, `java.lang.Thread.nativePeer` | `list`, `unregistering`, `nativePeer` |
| `thread_list_lock_`, `thread_suspend_count_lock_`, `mutator_lock_` held exclusively | `listLock`, `countLock`, `mutatorLock` |
| the local variables of the operations | `pc`, `ret`, `todo`, `target`, `requested` |

`mutator_lock_` in shared mode is the runnable state itself: the code pretends
to hold it and so does the model.

A step of the model is one access to the atomic word, or one critical section of
`thread_suspend_count_lock_`. Where another thread can see a critical section
half done, because it reads the word without the lock, the section is cut:
`SuspendAllVisit` raises the count and installs the barrier, `SuspendAllCheck`
looks at the state only afterwards, `ResumeAllVisit` lowers one count at a time.
`ClaimBarriers` empties the slots under the lock and `DrainBarrier` decrements
the counters outside it, as the code does. The futex wake after a decrement to
zero is left out. It passes the kernel the address of `pending_threads`, which
may by then be that of a frame that is gone, since the owner may have read zero
and returned; nothing is written there, and whoever sleeps at that address reads
its counter again. So `NoLateDecrement` says that nobody decrements the counter
of a call that has gone on, not that nobody mentions its address.

Actions and code:

* transitions: `EnterNative`, `CheckSuspend` and `CloseObjectAccess` are
  `TransitionFromRunnableToSuspended` from three places, followed by
  `ClaimBarriers`, `DrainBarrier`, `PassedBarriers`
  (`PassActiveSuspendBarriers`); `ReturnFromNative`, `BecomeRunnable`,
  `WaitForResume`, `Resumed`, `SpuriousWake` are
  `TransitionFromSuspendedToRunnable` with its wait on `resume_cond_`;
* `SuspendAll…` and `ResumeAll…` are `ThreadList::SuspendAll`,
  `SuspendAllInternal` and `ResumeAll`, with the retry of `ModifySuspendCount`
  when all `kMaxSuspendBarriers` slots are taken;
* `By…` is the loop of `SuspendThreadByThreadId` (as
  `Monitor::InflateThinLocked` calls it) and `SuspendThreadByPeer` (as
  `GetThreadStack` and `Thread.setNativeName` call it); `Resume` and
  `ResumeBroadcast` are its two critical sections;
* `Register`, `Unregister…`, `Destroy…` are attaching and detaching.

A retry of a loop that finds nothing changed (`UnregisterRemove` while suspended,
`ModifySuspendCount` without a slot, `SuspendThreadBy…` with the target still
runnable and the request made) is a step that changes nothing or is left out;
sleeping is not modelled.

Left out: suspend counts for user code (`kForUserCode`), the timeouts of
`SuspendAll` and `SuspendThreadByPeer` (they abort the process),
`VisitRootsForSuspendedThreads` (used on the way to an abort),
`SuspendAllDaemonThreadsForShutdown` (in `RuntimeShutdown`).

### What is checked

Run `suspension` (module `MCSuspensionRoles`) uses three threads: with fewer, no
third party can interfere between a requester and its target; the proofs cover
any number. The first state chooses one of four casts:

* `requests`: one SuspendAll caller, two threads that suspend each other to
  inflate locks, one of which detaches;
* `attach`: two SuspendAll callers, one of which also takes stack traces, and a
  thread that attaches and detaches meanwhile;
* `barriers`: two SuspendAll callers and `kMaxSuspendBarriers` = 1, so that the
  slots do run out;
* `checkpoints`: see the next section.

Of the first three it checks `MutatorExclusion`, `SuspendedUntilResume`,
`NoRequestCycle`, `SuspendCountExact`, `PendingExact`, `NoLateDecrement`, that
the protocol implements `SuspendRequests` (`ImplementsSuspendRequests`, the
refinement is a list of who is suspended by whom), and `CallsReturn`: every
SuspendAll ends and a thread whose last request is gone does not sleep on. Two
runs show a disagreement: `suspension_slots_full` (`RetryEnds` fails) and
`suspension_peer_exit` (`UnregisterCompletes` fails), see below. They bound the
calls that suspend others (`MaxCalls`, three and one), so that the thread which
never goes on is blocked, and not starved by callers that come back for ever.

Fairness is strong fairness of what a thread does once it has begun an operation
(`Continue`): the kernel schedules every thread, and a thread that waits for a
mutex which is released again and again gets it in the end. The code's mutexes
are not fair queues, and weak fairness lets one thread starve at a mutex, so
this is an assumption about the scheduler that the code makes too. Beginning an
operation, spurious wake-ups and timeouts are never required.

### Two disagreements

*Retry with the list locked.* If all barrier slots of a thread are taken,
`ModifySuspendCount` releases `thread_suspend_count_lock_` "to avoid deadlock"
and tries again, but its caller `SuspendAllInternal` still holds
`thread_list_lock_`. If the target is runnable inside
`SuspendThreadByThreadId` it waits for `thread_list_lock_`, never reaches a
suspend point, and its slots stay taken. It needs more simultaneous
`SuspendAll` calls than there are slots (three), with a target at exactly that
place; the run has one slot and two callers.

*A request taken back silently.* `SuspendThreadByPeer` lowers the count of a
thread whose peer has been cleared, so that it can exit, but does not
broadcast `resume_cond_`. If the thread meanwhile waits there, nothing wakes
it until the next broadcast by somebody else.

### What is proved

`ThreadSuspensionStructure` shows that the first layer of the invariant is
preserved; `ThreadSuspensionProofs` adds the other two, puts them together and
draws the conclusions. They prove, for every finite set of threads and every
number of slots: `TypeOK`, `MutatorExclusion`, `SuspendCountExact`,
`RequestFlagExact`, `PendingExact`, `NoLateDecrement`, `NoBarrierOnceOut`,
`SuspendedUntilResume`, `NoRequestCycle`, `RequestedStaysOnList`,
`RunsOnlyWithoutRequest`, and that the protocol implements `SuspendRequests`. The
only assumptions are `ThreadsAssumption` (the threads are finitely many, `None`
is none of them, there is at least one slot).

None of these is inductive alone. The invariant `IInv` has three layers.

* `Structure` says where everybody is: which labels hold which lock, which are
  runnable, which are on the list; that a thread has the barrier flag exactly
  while it has a barrier; that a barrier belongs to a `SuspendAll` that has
  reached this thread and still waits; and that a runnable thread which a
  `SuspendAll` has reached does have its barrier (`StopInv`).
* `CountInv` says that counts are cardinalities: `suspendCount[u]` of the set
  of requests in force on `u`, `suspendAllCount` of the set of calls under way.
* `PendingInv` says the same of `pending_threads` and the set of threads still
  waited for.

The layers need each other: that a waiting `SuspendAll` with its counter at
zero has nobody runnable follows from `PendingInv`; that a requested thread has
its flag set, hence does not become runnable, follows from `CountInv`; and
that a step changes a cardinality by exactly one follows from `Structure`. So
each conjunct is shown to be preserved from the whole of `Structure` and two
consequences of the counts (`HeldMeansFlagged`, `ZeroMeansPassed`), one lemma
per conjunct and one case per action. Most cases are short because
`FrameStep` says once what no step of a thread `t` touches: the label, target,
request and return address of the others, apart from a wake-up by a broadcast.

`NoRequestCycle` is preserved because a request is made, under
`thread_suspend_count_lock_`, only by a thread whose own count is zero
(`RequestOfTheUnasked`): the new edge starts at a thread no edge leads to, so no
circle goes through it, and an edge taken back closes none.

The refinement maps `running` to the set of runnable threads, `inForce` to the
pairs of `Holds` (requester, target), and `stopped` to the pairs where the
requester has been told that the target is suspended (`Told`): it owns the mutator lock,
or its `SuspendThreadBy…` has returned. Each action is shown to make a request
(`NewRequest`), to take some back, to tell a requester, to start or stop one
thread, or to change none of the three. The two steps with something to show are
becoming runnable, where `RunsUnrequested` gives that no request is in force,
and being told, where `ToldTrue` gives that the targets are not runnable.

Only model-checked: liveness.

## Checkpoints

Module `Checkpoints`. A closure is known by its requester. `pending[u]` is the
closure in `tlsPtr_.checkpoint_function` followed by `checkpoint_overflow_`;
`kept` is `suspended_count_modified_threads`; `barrier` is the `Barrier` that
the requester's closure passes.

| code | actions |
|---|---|
| `ThreadList::RunCheckpoint` | `RunCheckpoint`, the visit of each thread (ask it, or raise its count, look again and keep or try again), running the closure for those kept, lowering their counts, the broadcast |
| `Thread::RequestSynchronousCheckpoint` | `RequestSynchronousCheckpoint` and the `Sync...` actions |
| `Thread::RunCheckpointFunction` and its callers in `TransitionFromRunnableToSuspended` and `CheckSuspend` | `RunCheckpointFunction`, `LeaveRunnable`, `CheckSuspend` |
| `Barrier` | `Increment`, `SyncIncrement`, the pass at the end of a closure |
| `ThreadList::Unregister` | `Exit` |

Run `suspension`, cast `checkpoints`: three threads, two calls; one thread calls
`RunCheckpoint`, the other either that or a synchronous one. Two closures on one
thread give the overflow list. Checked: `StaysSuspended` (a closure runs on a
thread's behalf only while that thread cannot run, no thread leaves the runnable
state with a closure pending, and the counts are those of the requesters),
`ClosureAlive`, `RanExactlyOnce`, and in `CallsReturn` that both kinds of call
return, under weak fairness of every thread's steps.

Run `checkpoint_mutual`: two threads that request a synchronous checkpoint of
each other can wait for each other for ever. Each raises the other's count
after having seen it suspended, and has to become runnable itself before it
gives the count back. `runtime/mutator_gc_coord.md` promises that the call waits
for the closure to be run and runs it on behalf of a suspended thread, and lists
how deadlock is avoided; this cycle is not among the cases.

Left out: a thread flip under way, empty checkpoints (in `ConcurrentCopying`),
calls with `suspend_state` `kRunnable`.

## The locks

### Mutex and ConditionVariable

Module `FutexMutex`. `state_and_contenders_` is `held` and `contenders`; the
kernel's queues at the address of the word and of `sequence_` are `lockQueue`
and `condQueue`. `FUTEX_WAIT` compares and sleeps in one step, `FUTEX_WAKE`
takes any sleeper, `FUTEX_REQUEUE` moves one thread that waits for the
condition, or all of them, to the queue of the mutex and wakes none.

| code | actions |
|---|---|
| `Mutex::ExclusiveLock`, `ExclusiveTryLock` | `ExclusiveLock`, `Acquire`, the steps of the contended path, `ExclusiveTryLock`, `LockAgain` (recursion) |
| `Mutex::ExclusiveUnlock` | `ExclusiveUnlock`, `Release`, `Wake` |
| `ConditionVariable::WaitHoldingLocks` and `TimedWait` | `WaitHoldingLocks`, `WaitOnSequence`, `WaitReturns` |
| `Signal`, `Broadcast` | `Signal`, `Requeue` |

A load followed by a successful compare-and-swap is one step. A weak swap that
fails only repeats the load. Left out: the pthread build, lock levels and
contention logging (no effect on the lock), and answering an empty checkpoint
while contending (in `ConcurrentCopying`).

### ReaderWriterMutex

Module `ReaderWriterMutex`. `state` is the signed word, `contenders` a word of
its own, so the release of the mutex (`Release`, `SharedUnlock`) and the look at
the count (`CheckContenders`) are two steps, and so are the count's increment
and the sleep. `TimedOut`, `SleepTimedOut` and `Interrupted` are the error
returns of `ExclusiveLockWithTimeout` and of the futex.

### What is checked

Run `locks_shutdown`. The mutex: three threads, two that wait and one that
signals, recursion to depth two, five calls in all. That is enough for a waiter
to be requeued behind a thread that contends while a third unlocks. The
reader-writer mutex: three threads and four calls, any mix of shared, exclusive
and timed: a writer sleeps on two readers, or a reader and a writer sleep on a
writer while a timed writer gives up. Checked:

* `MutualExclusion`: one holder, and owner and recursion count are right through
  recursion and waits;
* `ContendersExact`: the count an unlock trusts when it skips the wake-up is the
  number of threads in the contended path plus the number inside a wait;
* `ReadersOrWriter`: the same two facts for the reader-writer mutex;
* `NobodySleepsOn`: every sleeper is woken, requeued ones included, and every
  call returns; `SignalDelivered`: no `Signal` or `Broadcast` is lost.

Fairness is weak fairness of the steps a thread takes once it has begun a call,
the unlock of a held mutex included; a time-out is never required to happen. All
calls are bounded by `MaxCalls`, so the system stops when they are used up and
deadlock is not checked; the liveness properties take its place.

### What is proved

`LocksShutdownProofs` proves `TypeOK`, `MutualExclusion`, `ContendersExact` and,
for the reader-writer mutex, `StateExact` and `ContendersExact`, for every finite
set of threads and any number of calls (`LockAssumption`, `RWAssumption`), and
from these `ReadersOrWriter` of the composition. For the mutex the invariant
says who is where: which labels hold the mutex; that the queue of the word and
the queue of the condition hold only threads at the labels of a sleeper; which
threads are inside a wait. The contender count is then the cardinality of
the set of threads at contending labels plus those inside a wait, and every step
changes it by one or not at all. Exclusion needs only its own part. For the
reader-writer mutex `state_` is the cardinality of the set of readers or -1
when the set of writers is a singleton; that both sets cannot be inhabited
follows from the value swapped. Waking and signalling are only model-checked.

## Runtime shutdown

Module `RuntimeShutdown`. `main` is the place of the thread that calls
`DestroyJavaVM`: it waits for the threads that are no daemons (`destroy`), in
`~Runtime` for threads that are being born (`births`), detaches, waits again
(`wait`), asks the daemons to suspend, polls until all are seen suspended or the
time is over (`poll`), sets the functions of the deleted runtime. `life` is the
stage of every other thread: `CreateNativeThread`, `CreateCallback` or its
failure, `Attach`, `Unregister` in four steps (`destroy` runs managed code,
`unlist` takes it off the list, `leave` counts it out).

Run `locks_shutdown`, part `shutdown`: two daemons and one other thread, each of
which may be created or attach at any time. `ShutdownClean` are the CHECKs of the
code: no thread is being born or registers itself once `shutting_down_` is set,
only daemons are left to be suspended, and those that were seen suspended do not
run again. `NobodySleepsOn` contains that `DestroyJavaVM` ends. Fairness: the
main thread and a thread in the middle of its birth or exit go on; a thread that
is no daemon stops running some day and (strongly) exits; a daemon need not.

`RuntimeShutdownProofs` proves `ShutdownClean` for any finite set of threads
(`DistinctThreads`: finitely many, the main thread is none of them, no thread is
daemon and not). The invariant adds that `threads_being_born_` is the number of
threads in the stage `starting` (`BirthsExact`, a theorem of its own), which is
why zero means none; that `down` holds from `detach` on, so that the list only
shrinks; and that from `poll` on all on the list have a request, so that none
becomes runnable. `LocksShutdownProofs` draws the conclusion for the composition
(`ShutdownAssumption`: the four threads are distinct).

Left out: `Daemons.stop` (Java code: daemons may exit at any time), the deletion
of pools, agents and data structures, a detached thread that attaches again.

## Monitors, park and unpark

Module `Monitor`: one object. `word` is its lock word (unlocked, hash, thin,
fat), the other variables are the fields of its `Monitor` and of the threads.

| code | actions |
|---|---|
| `Monitor::MonitorEnter`, `MonitorExit` on a thin lock | `ThinLock`, `ContendThin`, `MonitorExit` |
| `Inflate`, `InflateThinLocked` | `InflateOwn`; `SuspendOwner`, `OwnerStopped` or `SuspendTimesOut`, `InflateOther`, `ResumeOwner` |
| `Monitor::Lock`, `TryLock`, `Unlock`, `SignalWaiterAndReleaseMonitorLock` | `LockFree`, `LockAgain`, `LockBusy`, `LockBlocked`, `SignalNext`, `CheckWaiting`, `WakeCond`, `NobodyToSignal` |
| `Monitor::Wait`, `Notify`, `NotifyAll` | `Wait`, `AppendToWaitSet`, `Sleep`, `Woken`, `WakeUp`, `Notify` |
| `Deflate`, `Object::IdentityHashCode` | `Deflate`, `HashCode` |
| `Thread::Interrupt`, `Park`, `Unpark` | `Interrupt`, `Park`, `FutexPark`, `Unparked`, `Unpark`, `FutexWake` |

Run `monitor`: three threads in one of three programs (lock and hash; two wait and
one notifies or interrupts; park and unpark), four to seven calls, a thin lock
that can recurse once (`kThinLockMaxCount` = 1, so that inflation by overflow
happens). Checked: `LockCountExact` (the lock word, `owner_` and `lock_count_`
agree with what the program holds, through inflation on behalf of a suspended
owner and deflation), `NoDeflatedUse`, `OneHashCode`, and under weak fairness
`NotifiedWakes` (whoever sleeps in `Wait` and is no longer in the wait set, or was
interrupted, wakes; `Notify` only moves it to the wake set, from which a later
release takes and signals it) and `PermitWakes`.

`MonitorProofs` proves `LockCountExact`, `NoDeflatedUse` and `OneHashCode` for
every finite set of threads and any bound on recursion and calls
(`MonitorAssumption`). The invariant adds to them that a thread inside `Wait`
keeps the recursion count it will restore (`Places`); that the owner of a fat
lock holds `monitor_lock_`, and whoever else holds it is about to release it or
to become the owner (`Owners`); that `num_waiters_` is the number of blocked
contenders plus the number of threads inside `Wait` (`WaitersExact`), so that
`Deflate`, which looks only at the owner and this count, finds nobody inside;
and that a hash code once told is in the lock word or in the monitor it points
to (`HashKept`). The wake-ups are only model-checked.

Seen while modelling: `Interrupt` returns early for a thread already interrupted
(`thread.cc`, 2853-2863); a notification may be consumed by a waiter that then
throws `InterruptedException`, as the language allows.

Left out: calls of a thread that does not own the lock, contention logging, the
pool monitors are allocated from, more than one object.

## Thread flip

Module `ThreadFlip`. The collector stops all mutators, gives each a flip
function and lets them go; the function must run once per thread, before the
thread touches the heap. Flags `Pending`, `Running`, `Waiting` are those of the
thread word; the swap from pending to running in `EnsureFlipFunctionStarted`
(`StartFlip`) decides who runs the function: the thread itself (`StartOwnFlip`),
the collector (`FlipOther`), or a thread that wants the peer of another
(`HelpFlip`). `TakeFunction`, `RunFunction`, `ClearFlags`, `Notify` are
`RunFlipFunction`. `IncrementDisableThreadFlip`, `DecrementDisableThreadFlip`,
`ThreadFlipBegin`, `ThreadFlipEnd` are those of `Heap`. `SuspendAll` is reduced
to what `ThreadSuspension` shows of it: counts are raised, and the pause begins
when nobody is runnable. `OtherRequest` and `OtherResume` are suspend requests
from elsewhere that hit a thread with a flip to run.

Run `flip_refresh`, part `flip`: two mutators and a collector, three calls in all among flips,
(nested) critical sections and requests. Checked: `FlippedBeforeUse`,
`StoppedForFlip` (during the pause no mutator runs and none is in a critical
section), `FlippedOnce`, `FlipCompletes`. Fairness: every thread goes on running,
a request of somebody else is given back, and a thread leaves its critical
section although it may be suspended inside again and again (strong fairness);
without the last a flip would rightly wait for ever.

`ThreadFlipProofs` proves `FlippedBeforeUse`, `StoppedForFlip` and `FlippedOnce`
for every finite set of mutators. The invariant relates three things: how often a
thread's function has run to its flags and to the thread that has taken it (one
runner at most, from the swap to the notification); the suspend count to the
requests in force, so that no thread with one is runnable; and the collector's
place to the critical sections, which cannot begin from `ThreadFlipBegin` on and
are over when the pause starts. `FlipCompletes` is only model-checked.

Seen while modelling: the DCHECK of `WaitForFlipFunction` (`thread.cc`, 1927)
that no flip is pending can fail in a debug build, when between the look at the
flags and the lock the flip ends and the next is set up. The loop around it
copes.

Left out: threads that attach or detach during the flip, what the function does
to the roots, the queue of `thread_flip_cond_` (a wait is a guard).

## Concurrent copying

Module `ConcurrentCopying`: the collection from the flip to `DisableMarking`. An
object stands for both of its copies; it is marked when it is `gray` or its `bit`
is set. The mark stack is a set per mode: thread-local, shared, exclusive to the
collector. A mutator's read barrier is `ReadState`, `ReadField`, `TestBit`,
`SetGray`, `PushOntoMarkStack`: it may be preempted between any two. The
collector switches modes, stops weak reference access (`DisableWeakRefAccess`),
runs an empty checkpoint with its periodic wake-ups, empties the mark stack,
processes weak references and finalizers and allows access again. `GetReferent`
has the fast path, the slow path under `reference_processor_lock_` and the
prediction of null.

Run `services`, part `copying`: two mutators and four objects in one of four heaps, with one or
two operations each: a strong path read and cut while it is marked, an object
only reachable weakly or from a finalizer, threads that hold a mutex while they
block, what is read from a weakly reached object. Checked: `ToSpaceInvariant`
(nobody holds an unmarked object), `MarkingComplete` (when the collector decides
that marking is over, no gray object is left), `NullIsFinal` and
`ClearedStaysCleared` (weak reads), `CollectionEnds` under weak fairness of the
collector and of operations under way.

`ConcurrentCopyingProofs` proves all but the last for every finite set of
mutators, any heap and any programs (`CopyingAssumption`). The invariant follows
the argument of the collector. Every gray object is on one stack, or about to be
pushed by a mutator, or about to be made black, or a Reference in the queue
(`GrayTracked`, `StacksGray`), and an object that has been visited refers to
marked objects (`Scanned`). The empty checkpoint flushes the mutators: those that
have answered will not gray anything unless something is still pushed before its
end (`Flushed`). So when the collector finds nothing afterwards, no mutator is on
its way to push (`AllClean`), and from then on the mutators stay within a set of
objects that the collector is done with, while it goes on marking for the
finalizers (`Confined`: such a set exists; it is not a variable). That a
Reference answered null for has no referent, or one that is unmarked and going
to be cleared (`NullKept`), gives `NullIsFinal`. The proof corrected the model:
`sinceNull`, which remembers that the current call began after an answer of
null, also covered loads of a strong field of the same object, for which the code
promises nothing of the kind.

Seen while modelling: the rule that the stack must be found empty twice is more
than the shared mode needs.

Left out: the generational mode, immune spaces, region accounting, soft and
phantom references, allocation, reclaiming memory; system weaks block in the
same loop and are not actions of their own.

## Services

Run `services` (module `MCServices`) also checks the three components that
follow, each from the first state on.

*`ThreadPool`.* Everything between two releases of `task_queue_lock_` is a step.
Two workers and two clients that add, start, stop, limit, wait, help, remove,
delete and create; at most three tasks, which may add tasks. `WaitCompletes`:
whatever was queued or running when `Wait` was called has been run when it
returns, unless the pool was told otherwise. `NothingForgotten`: no queued task
and no waiting client is left behind. Seen while modelling: of two clients that
help in `Wait(do_work)` one may return while the other still runs a task;
`RemoveAllTasks` on a stopped pool drops tasks without `Finalize`.

*`GcRequests`.* `max_gc_requested_` and `gcs_completed_` wrap (at 8, after two
collections, instead of 2^32). Requests, explicit collections and those of
failed allocations, critical sections, a stopped daemon, the shutdown; the
daemon and its queue of tasks. `CollectionExcluded`: one collection at a time,
none beside a critical section or after `DisableGCForShutdown`.
`NothingForgotten`: a number recorded is reached; that it is still to be reached
is said without the code's own comparison (`GCNumberLt`), which is thus checked,
too. Run `gc_request_lost`:
`PromiseKept`, what `heap.h` says of `RequestConcurrentGC`, fails: its
compare-and-set may fail against an older request. Seen while modelling: a trim
requested while the last one has been popped but is still marked pending is
dropped. Collector transitions are left out.

*`ClassInitialization`.* Three threads, three classes that need each other in a
chain or in a cycle, one of which may fail; batches of classes become visibly
initialized by `membarrier()` or by a checkpoint. `ClassesReady`: a class is
initialized after what it needs, and one that is visibly initialized is so to
every thread. `NothingForgotten`: every call returns unless the classes need each
other in a cycle; then two threads may wait for each other, as the language
specification allows.

Fairness is weak fairness of each thread inside a call, of the workers, of the
daemon and of time. Deadlock is not checked: the programs end.

## On-device refresh

Module `OnDeviceRefresh`: `odrefresh` from the check of what is on `/system` and
`/data` over the cleanup, `RefreshExistingArtifacts` (which unlinks and rewrites
every file that is kept, the cache info included), `WriteCacheInfo` and the
compilations to `MoveOrEraseFiles`, which creates, copies and closes the files of
an artifact one by one. A crash is possible between any two steps, every file
operation and every compilation may fail, and files are removed in any order. A
file that is lost or torn stays so until the next process finds it; odsign, which
is not part of the repository, clears the directory when it finds a torn one.

Run `flip_refresh`, part `odrefresh`: one ISA, both boot images on `/system` and
one jar that is not; factory versions or an update of one module; two files in
an artifact (`NumFiles`), a first and a last; partial compilation on or off. The
disk is empty at the first of three boots (`MaxBoots`), so the second runs over
what a crash or a failure of the first has left, and the third over what a crash
or a failure has left of older artifacts. `ArtifactsSound`: when odrefresh reports
success or that all is up to date, every file on `/data` is whole and was compiled
from what is installed, but for files erased and not unlinked, which are the
matter of the next run; after success there is nothing left to compile; and boot
images come together. Nothing is fair: odrefresh may stop anywhere.

Run `refresh_failed_move`: `FailedMoveGone`, which takes up the comment of
`MoveOrEraseFiles` (`odrefresh.cc`, 143: "all copies of the files are removed"),
fails. When the last file of an artifact cannot be flushed it is truncated and
closed, and can no longer be unlinked; files closed earlier stay as well. The
next check only asks whether the files exist.

Seen while modelling: after everything is compiled on a factory device with a
jar missing on `/system`, the next check removes the boot images on `/data` but
keeps the jar compiled against them.

## JIT code cache

Module `JitCodeCache`. An address of the cache is a number; `code` is what is
committed there, `entry` the entry points, `osr` the map of OSR code, `stub` the
one JNI stub all native methods share. `jit_lock_` is held within a step, but for
`Commit`, which is two: under `cha_lock_` it checks and registers (`Commit`), then
it publishes (`Publish`); `jitLock` names the thread between them.

| code | actions |
|---|---|
| `Jit::MaybeEnqueueCompilation`, `EnqueueOptimizedCompilation`, `ScopedCompilation` | `MaybeEnqueueCompilation`, `EnqueueOptimizedCompilation`, `RunTask`, `RemoveMethodBeingCompiled` |
| `NotifyCompilationOf`, `AddProfilingInfo` | `NotifyCompilationOf`, `RegisterNative`, `RegisterJava`, `AddProfilingInfo` |
| `Reserve`, `Commit`, `Free`, `DoneCompiling` | the same, `Publish` |
| `GarbageCollectCache`, `DoCollection`, `MarkCompiledCodeOnThreadStacks`, `RemoveUnmarkedCode` | the same, `WaitForCollection`, `CollectedByOther`, `FinishCollection`, `RunMarkCodeClosure` |
| `InvalidateSingleImplementationMethods`, `InvalidateCompiledCodeFor`, `CHACheckpoint` | `LinkClass`, `InvalidateCompiledCodeFor`, `InvalidateOsrCode`, `RequestDeoptimization`, `RunCHACheckpoint`, `Linked` |
| compiled code | `Invoke`, `PrepareForOsr`, `Enter`, `Return`, `Deoptimize` |

Run `jit`: a Java method, two native methods, two compilers, one mutator, a
loader; a cache that starts with room for one piece of code and grows to two.
Four scenarios bound the compilations: two of the Java and two of a native method
with collections, so that the stub is dropped and revived under a running
collection; one of each method, so that a compiler meets the stub of another;
three of the Java method while a class is linked; and growth without collections. Checked:
`CodeAlive` (no code is freed or overwritten that is an entry point, offered for
OSR, on a stack or about to be entered), `CommitFindsEntry`, `CodeInvalidated`
(after a class was linked, code that was visible then and relied on the single
implementation is unreachable, and its frames deoptimize), and under fairness
`CompilationEnds`: compilers and the loader go on (weakly), a mutator enters
what it has called, and a thread that passes suspend points again and again runs
its closure (strongly). The tasks are bounded, so that it is enough that in the
end all are done for ever.

Run `jit_cha_commit`: `InvalidatedCodeHidden`, the same without "that was visible
then", fails. `cha.h` asks that registering a dependency and making the code
visible be atomic; `Commit` releases `cha_lock_` in between.

`JitCodeCacheProofs` proves `CodeAlive`, `CommitFindsEntry` and `CodeInvalidated`
for any number of mutators, compilers and methods, any sizes of the cache and
whatever free address the allocator returns (`JitAssumption`). The inductive
invariant `IInv` says, besides the types: no two compilers have the same task
(`Tasks`), so one at most works on the stub (`Stub`) and nobody else makes OSR
code of its method (`OsrAbsent`); nobody collects while another is inside
`Commit` or collects (`Synchronisation`); reserved addresses are free and
distinct (`Reserved`). From `DoCollection` to `RemoveUnmarkedCode` every entry
point is marked (`EntriesMarked`), and so is what a thread holds once it has run
the checkpoint (`HeldMarked`): what it takes afterwards comes from an entry
point. Of the code that relies on the single implementation, all is registered
while there is one (`Registered`); afterwards it is among the headers collected,
or was not in the maps yet, and what is still an entry point has yet to be
invalidated (`Doomed`). With no header left such code cannot be entered, so a
thread that has run the CHA checkpoint keeps no unmarked frame of it (`Progress`).
`CompilationEnds` is only model-checked.

Seen while modelling: the mark that `Commit` sets when a collection is under way
(`jit_code_cache.cc`, 784-788) is never needed, as it has waited for the
collection before.

Left out: the zygote's region and precompiled methods, class unloading and
redefinition, the class-initialization check at entry, fragmentation (an
address is free or not; `MayAllocate` is which of the free ones the allocator
returns, in the runs the lowest), saving of profiles. `InvalidateCompiledCodeFor` reads and
resets an entry point in one step. Whether code is collected is fixed at the
start.

## Disagreements found

Six runs expect a violation, and each shows how the code departs from a comment
or a document it quotes (`PROJECT.json`, "findings"): `suspension_slots_full`,
`suspension_peer_exit`, `checkpoint_mutual`, `gc_request_lost`, `jit_cha_commit`,
`refresh_failed_move`.
Each needs three threads or fewer and an interleaving, or a failing `fsync`, that
is improbable in practice; none is reached by the repository's tests. The temporal ones are
stated under the same fairness as the passing runs.

The shutdown answers one question of the code: the TODO in `ThreadList::ShutDown`
about threads that attach during the shutdown is covered by the check in
`Thread::Attach` (`ShutdownClean`). The other TODO, about daemons that unregister
at the wrong time, remains: only time-outs cover it.

## What is proved and what is only model-checked

Eight modules hold theorems: `ThreadSuspensionStructure` and
`ThreadSuspensionProofs`; `LocksShutdownProofs`; `RuntimeShutdownProofs`;
`MonitorProofs`; `ThreadFlipProofs`; `ConcurrentCopyingProofs`;
`JitCodeCacheProofs`. Their assumptions are `ThreadsAssumption`, `LockAssumption`,
`RWAssumption`, `DistinctThreads`, `MonitorAssumption`, `FlipAssumption`,
`CopyingAssumption` and `JitAssumption`: finite sets of threads where they are
counted, distinct names, and for the JIT the types of its sizes and an allocator
that returns free addresses. They are all laid
out alike: lemmas that say what a step changes, one lemma for each conjunct of
the inductive invariant, `Invariance`, and one theorem for each property.

Only model-checked, in the instances given: everything that must eventually
happen, since the proof system does not reach liveness under fairness; and the
safety properties of `Checkpoints`, `ThreadPool`, `GcRequests`, `ClassInitialization` and
`OnDeviceRefresh`.

## Not modelled

* The interpreter, the entrypoints and the support for each architecture, the
  compiler, dex2oat and the verifier: sequential programs over unbounded data,
  whose correctness is a semantics of bytecode or of machine code. TLC would see
  nothing of it.
* Spaces, allocators, card tables, bitmaps and the other collectors: data
  structures close to memory; `MarkCompact` depends on the order in which the
  kernel delivers page faults.
* Instrumentation: entry points are updated while all threads are suspended,
  which `ThreadSuspension` covers; the rest is a choice among many flags.
* The signal chain: a fixed order of handlers around calls into libc.
* Mirror classes, JNI argument checks, debugging and profiling interfaces:
  layouts, conversions and wrappers of operations modelled above.
* Dex, oat, ELF and profile formats, the inspection tools, the base libraries,
  the service daemon, native loading, launchers, tests and build: parsing, I/O
  and utilities.

These make up most of the lines of the repository; the modelled protocols are a
small share of its text.
