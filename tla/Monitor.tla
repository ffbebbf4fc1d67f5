------------------------------ MODULE Monitor ------------------------------
(***************************************************************************)
(* The lock of one Java object (runtime/monitor.cc, lock_word.h), its      *)
(* identity hash code (runtime/mirror/object.cc), and what else makes the  *)
(* threads that use it sleep and wake: interrupts, park and unpark         *)
(* (runtime/thread.cc).                                                    *)
(*                                                                         *)
(* The lock word is unlocked, a hash code, a thin lock or a pointer to a   *)
(* Monitor.  A load and the successful compare-and-swap on the loaded      *)
(* value are one step; a failed one changes nothing.  A thread that is not *)
(* runnable may be stopped by a request of another thread, and stays not   *)
(* runnable while the request is in force: this is what ThreadSuspension   *)
(* is shown to promise.  A mutex or condition variable is what FutexMutex  *)
(* is shown to be.  The object has at most one Monitor at a time.          *)
(***************************************************************************)
EXTENDS Integers, Sequences, FiniteSets

CONSTANTS
    Threads,
    MaxCount,  \* kThinLockMaxCount
    MaxDepth,  \* bound on nested locking
    Programs,  \* which calls each thread may make, and how many there are in all
    None

ASSUME MonitorAssumption ==
    /\ IsFiniteSet(Threads) /\ None \notin Threads
    /\ MaxCount \in Nat /\ MaxDepth \in Nat

VARIABLES
    word,         \* the lock word; the owner of a hash is the thread that made it
    monitorLock,  \* holder of monitor_lock_
    owner,        \* owner_
    lockCount,    \* lock_count_
    numWaiters,   \* num_waiters_
    waitSet,      \* wait_set_
    wakeSet,      \* wake_set_
    hashCode,     \* hash_code_, named by the thread that made it
    pc,
    op,           \* the call a thread is in
    peer,         \* the other thread a call is about
    saved,        \* prev_lock_count
    inWait,       \* threads between the release and the return of Wait
    waitMonitor,  \* threads whose wait_monitor_ is set
    waitMutex,    \* holder of a thread's wait_mutex_
    interrupted,  \* threads whose interrupted flag is set
    wasInterrupted,
    park,         \* park_state_
    depth,        \* how often the program has entered and not left
    hashes,       \* hash codes that were returned to the program
    program,      \* the element of Programs the threads execute
    calls

wordVars == <<word, hashes>>
monitorVars == <<monitorLock, owner, lockCount, numWaiters, waitSet, wakeSet, hashCode>>
waitVars == <<saved, inWait, waitMonitor, waitMutex, interrupted, wasInterrupted>>
progVars == <<program, calls>>
vars == <<wordVars, monitorVars, waitVars, pc, op, peer, park, depth, progVars>>

Unlocked == [state |-> "unlocked", owner |-> None, count |-> 0]
Hashed(h) == [state |-> "hash", owner |-> h, count |-> 0]
Thin(t, n) == [state |-> "thin", owner |-> t, count |-> n]
Fat == [state |-> "fat", owner |-> None, count |-> 0]

(* Where a thread is runnable; the release of the monitor is executed by   *)
(* Unlock, runnable, and by Wait, which is not.                            *)
Releasing == {"signal", "check", "wakeCond"}
Runnable(t) ==
    \/ pc[t] \in {"enter", "lock", "inflate", "resume", "unpark", "futexWake"}
    \/ pc[t] \in Releasing /\ t \notin inWait

(* Threads whose request for u to be suspended is in force.                *)
NoRequest(u) ==
    \A t \in Threads : pc[t] \in {"awaitOwner", "ownerStopped", "inflate", "resume"} => peer[t] # u

Init ==
    /\ word = Unlocked /\ hashes = {}
    /\ monitorLock = None /\ owner = None /\ lockCount = 0 /\ numWaiters = 0
    /\ waitSet = <<>> /\ wakeSet = <<>> /\ hashCode = None
    /\ pc = [t \in Threads |-> "run"]
    /\ op = [t \in Threads |-> None]
    /\ peer = [t \in Threads |-> None]
    /\ saved = [t \in Threads |-> 0]
    /\ inWait = {} /\ waitMonitor = {} /\ interrupted = {} /\ wasInterrupted = {}
    /\ waitMutex = [t \in Threads |-> None]
    /\ park = [t \in Threads |-> 1]
    /\ depth = [t \in Threads |-> 0]
    /\ program \in Programs /\ calls = 0

Goto(t, label) == pc' = [pc EXCEPT ![t] = label]

Return(t) ==
    /\ Goto(t, "run")
    /\ op' = [op EXCEPT ![t] = None]
    /\ peer' = [peer EXCEPT ![t] = None]

(* A thread between calls, runnable again to make the next one.            *)
May(t) == pc[t] = "run" /\ NoRequest(t)
Count == calls < program.calls /\ calls' = calls + 1 /\ UNCHANGED program
MayCall(t, o) == May(t) /\ o \in program.may[t] /\ Count

Call(t, o) ==
    /\ MayCall(t, o)
    /\ o \in {"enter", "try"} => depth[t] < MaxDepth
    /\ o = "wait" => depth[t] > 0
    /\ op' = [op EXCEPT ![t] = o]
    /\ Goto(t, "enter")
    /\ UNCHANGED <<wordVars, monitorVars, waitVars, peer, park, depth>>

Entering(t) == pc[t] = "enter" /\ op[t] \in {"enter", "try"}
OwnsThin(t) == word.state = "thin" /\ word.owner = t

-----------------------------------------------------------------------------
(* MonitorEnter, MonitorTryEnter and IdentityHashCode on the lock word.    *)

ThinLock(t) ==
    /\ Entering(t)
    /\ \/ word = Unlocked /\ word' = Thin(t, 0)
       \/ OwnsThin(t) /\ word.count < MaxCount /\ word' = Thin(t, word.count + 1)
    /\ depth' = [depth EXCEPT ![t] = @ + 1]
    /\ Return(t)
    /\ UNCHANGED <<hashes, monitorVars, waitVars, park, progVars>>

EnterFat(t) ==
    /\ Entering(t) /\ word = Fat
    /\ Goto(t, "lock")
    /\ UNCHANGED <<wordVars, monitorVars, waitVars, op, peer, park, depth, progVars>>

TryFails(t) ==
    /\ pc[t] = "enter" /\ op[t] = "try"
    /\ word.state = "thin" /\ word.owner # t
    /\ Return(t)
    /\ UNCHANGED <<wordVars, monitorVars, waitVars, park, depth, progVars>>

(* IdentityHashCode of an unlocked, hashed or inflated object.             *)
HashCode(t) ==
    /\ pc[t] = "enter" /\ op[t] = "hash" /\ word.state # "thin"
    /\ LET h == IF word = Unlocked \/ (word = Fat /\ hashCode = None) THEN t
                ELSE IF word = Fat THEN hashCode ELSE word.owner
       IN  /\ hashes' = hashes \cup {h}
           /\ IF word = Fat THEN hashCode' = h /\ UNCHANGED word
              ELSE word' = Hashed(h) /\ UNCHANGED hashCode
    /\ Return(t)
    /\ UNCHANGED <<monitorLock, owner, lockCount, numWaiters, waitSet, wakeSet,
                   waitVars, park, depth, progVars>>

(* A new Monitor, made for owner o, takes over the state of the lock word  *)
(* (Install).  The owner of a thin lock does this itself, or is suspended. *)
Install(o, h) ==
    /\ word' = Fat
    /\ monitorLock' = o /\ owner' = o
    /\ lockCount' = word.count
    /\ hashCode' = h
    /\ numWaiters' = 0 /\ waitSet' = <<>> /\ wakeSet' = <<>>

MadeFor(t) == IF op[t] = "hash" THEN t ELSE None

(* Inflate of a hashed object or of our own thin lock: for its recursion   *)
(* count, for a hash code, or to wait.                                     *)
InflateOwn(t) ==
    /\ pc[t] = "enter"
    /\ \/ word.state = "hash" /\ Entering(t) /\ Install(None, word.owner)
       \/ OwnsThin(t) /\ (Entering(t) => word.count = MaxCount) /\ Install(t, MadeFor(t))
    /\ UNCHANGED <<hashes, waitVars, pc, op, peer, park, depth, progVars>>

(* InflateThinLocked of somebody else's lock: SuspendThreadByThreadId,     *)
(* which asks only while nobody asks for the caller itself.                *)
ContendThin(t) ==
    /\ pc[t] = "enter" /\ op[t] \in {"enter", "hash"}
    /\ word.state = "thin" /\ word.owner # t
    /\ peer' = [peer EXCEPT ![t] = word.owner]
    /\ Goto(t, "suspendOwner")
    /\ UNCHANGED <<wordVars, monitorVars, waitVars, op, park, depth, progVars>>

SuspendOwner(t) ==
    /\ pc[t] = "suspendOwner" /\ NoRequest(t)
    /\ Goto(t, "awaitOwner")
    /\ UNCHANGED <<wordVars, monitorVars, waitVars, op, peer, park, depth, progVars>>

OwnerStopped(t) ==
    /\ \/ pc[t] = "awaitOwner" /\ ~Runnable(peer[t]) /\ Goto(t, "ownerStopped")
       \/ pc[t] = "ownerStopped" /\ Goto(t, "inflate")
    /\ NoRequest(t)
    /\ UNCHANGED <<wordVars, monitorVars, waitVars, op, peer, park, depth, progVars>>

SuspendTimesOut(t) ==
    /\ pc[t] = "awaitOwner" /\ Runnable(peer[t]) /\ NoRequest(t) /\ Count
    /\ peer' = [peer EXCEPT ![t] = None]
    /\ Goto(t, "enter")
    /\ UNCHANGED <<wordVars, monitorVars, waitVars, op, park, depth>>

(* Mutant: the lock word is not read again once the owner is suspended.    *)
InflateOtherUnchecked(t) ==
    /\ pc[t] = "inflate"
    /\ IF word.state = "thin" THEN Install(peer[t], MadeFor(t))
       ELSE UNCHANGED <<word, monitorVars>>
    /\ Goto(t, "resume")
    /\ UNCHANGED <<hashes, waitVars, op, peer, park, depth, progVars>>

InflateOther(t) ==
    /\ pc[t] = "inflate"
    /\ IF OwnsThin(peer[t]) THEN Install(peer[t], MadeFor(t))
       ELSE UNCHANGED <<word, monitorVars>>
    /\ Goto(t, "resume")
    /\ UNCHANGED <<hashes, waitVars, op, peer, park, depth, progVars>>

ResumeOwner(t) ==
    /\ pc[t] = "resume"
    /\ peer' = [peer EXCEPT ![t] = None]
    /\ Goto(t, "enter")
    /\ UNCHANGED <<wordVars, monitorVars, waitVars, op, park, depth, progVars>>

-----------------------------------------------------------------------------
(* Monitor::TryLock and Lock.                                              *)

Without(threads, t) == SelectSeq(threads, LAMBDA u : u # t)

(* What follows once owner_ is ours: Lock returns to MonitorEnter, or to   *)
(* Wait, which restores the recursion and leaves the lists.                *)
Acquired(t, counted) ==
    /\ owner' = t
    /\ numWaiters' = numWaiters - counted - IF t \in inWait THEN 1 ELSE 0
    /\ lockCount' = saved[t]
    /\ waitSet' = Without(waitSet, t) /\ wakeSet' = Without(wakeSet, t)
    /\ depth' = IF t \in inWait THEN depth ELSE [depth EXCEPT ![t] = @ + 1]
    /\ saved' = [saved EXCEPT ![t] = 0]
    /\ inWait' = inWait \ {t}
    /\ Return(t)
    /\ UNCHANGED <<hashCode, waitMonitor, waitMutex, interrupted, wasInterrupted, park, progVars>>

LockFree(t) ==
    /\ pc[t] = "lock" /\ monitorLock = None
    /\ monitorLock' = t
    /\ Acquired(t, 0)
    /\ UNCHANGED wordVars

LockAgain(t) ==
    /\ pc[t] = "lock" /\ owner = t
    /\ lockCount' = lockCount + 1
    /\ depth' = [depth EXCEPT ![t] = @ + 1]
    /\ Return(t)
    /\ UNCHANGED <<wordVars, monitorLock, owner, numWaiters, waitSet, wakeSet, hashCode,
                   waitVars, park, progVars>>

(* Mutant: a contender is not counted before it stops being runnable.      *)
LockBusyUncounted(t) ==
    /\ pc[t] = "lock" /\ monitorLock # None /\ owner # t
    /\ IF op[t] = "try" THEN Return(t) ELSE Goto(t, "blocked") /\ UNCHANGED <<op, peer>>
    /\ UNCHANGED <<wordVars, monitorVars, waitVars, park, depth, progVars>>

(* Count the contender, so that nobody deflates the monitor, then block.   *)
LockBusy(t) ==
    /\ pc[t] = "lock" /\ monitorLock # None /\ owner # t
    /\ IF op[t] = "try"
       THEN Return(t) /\ UNCHANGED numWaiters
       ELSE /\ Goto(t, "blocked") /\ UNCHANGED <<op, peer>>
            /\ numWaiters' = numWaiters + 1
    /\ UNCHANGED <<wordVars, monitorLock, owner, lockCount, waitSet, wakeSet, hashCode,
                   waitVars, park, depth, progVars>>

LockBlocked(t) ==
    /\ pc[t] = "blocked" /\ monitorLock = None
    /\ monitorLock' = t
    /\ Goto(t, "locked")
    /\ UNCHANGED <<wordVars, owner, lockCount, numWaiters, waitSet, wakeSet, hashCode,
                   waitVars, op, peer, park, depth, progVars>>

LockRunnable(t) ==
    /\ pc[t] = "locked" /\ NoRequest(t)
    /\ Acquired(t, 1)
    /\ UNCHANGED <<wordVars, monitorLock>>

-----------------------------------------------------------------------------
(* MonitorExit, Monitor::Unlock and SignalWaiterAndReleaseMonitorLock.     *)

MonitorExit(t) ==
    /\ May(t) /\ depth[t] > 0
    /\ depth' = [depth EXCEPT ![t] = @ - 1]
    /\ CASE word.state = "thin" ->
              /\ word' = IF word.count = 0 THEN Unlocked ELSE Thin(t, word.count - 1)
              /\ UNCHANGED <<owner, lockCount, pc>>
         [] word = Fat /\ lockCount = 0 ->
              owner' = None /\ Goto(t, "signal") /\ UNCHANGED <<word, lockCount>>
         [] word = Fat /\ lockCount > 0 ->
              lockCount' = lockCount - 1 /\ UNCHANGED <<word, owner, pc>>
    /\ UNCHANGED <<hashes, monitorLock, numWaiters, waitSet, wakeSet, hashCode, waitVars,
                   op, peer, park, progVars>>

SignalNext(t) ==
    /\ pc[t] = "signal" /\ wakeSet # <<>>
    /\ peer' = [peer EXCEPT ![t] = Head(wakeSet)]
    /\ wakeSet' = Tail(wakeSet)
    /\ Goto(t, "check")
    /\ UNCHANGED <<wordVars, monitorLock, owner, lockCount, numWaiters, waitSet, hashCode,
                   waitVars, op, park, depth, progVars>>

(* With the other thread's wait mutex: is it still waiting?                *)
CheckWaiting(t) ==
    /\ pc[t] = "check" /\ waitMutex[peer[t]] = None
    /\ IF peer[t] \in waitMonitor
       THEN /\ monitorLock' = None
            /\ waitMutex' = [waitMutex EXCEPT ![peer[t]] = t]
            /\ Goto(t, "wakeCond")
       ELSE Goto(t, "signal") /\ UNCHANGED <<monitorLock, waitMutex>>
    /\ UNCHANGED <<wordVars, owner, lockCount, numWaiters, waitSet, wakeSet, hashCode, saved,
                   inWait, waitMonitor, interrupted, wasInterrupted, op, peer, park, depth, progVars>>

Released(t, p) ==
    /\ pc' = [p EXCEPT ![t] = IF t \in inWait THEN "cond" ELSE "run"]
    /\ peer' = [peer EXCEPT ![t] = None]

Awaken(u) == IF pc[u] = "asleep" THEN [pc EXCEPT ![u] = "woken"] ELSE pc

(* Mutant: the thread taken from wake_set_ is not signalled.               *)
WakeCondMissing(t) ==
    /\ pc[t] = "wakeCond"
    /\ Released(t, pc)
    /\ waitMutex' = [waitMutex EXCEPT ![peer[t]] = None]
    /\ UNCHANGED <<wordVars, monitorVars, saved, inWait, waitMonitor, interrupted,
                   wasInterrupted, op, park, depth, progVars>>

WakeCond(t) ==
    /\ pc[t] = "wakeCond"
    /\ Released(t, Awaken(peer[t]))
    /\ waitMutex' = [waitMutex EXCEPT ![peer[t]] = None]
    /\ UNCHANGED <<wordVars, monitorVars, saved, inWait, waitMonitor, interrupted,
                   wasInterrupted, op, park, depth, progVars>>

NobodyToSignal(t) ==
    /\ pc[t] = "signal" /\ wakeSet = <<>>
    /\ monitorLock' = None
    /\ Released(t, pc)
    /\ UNCHANGED <<wordVars, owner, lockCount, numWaiters, waitSet, wakeSet, hashCode,
                   waitVars, op, park, depth, progVars>>

-----------------------------------------------------------------------------
(* Wait, Notify and NotifyAll.                                             *)

Wait(t) ==
    /\ pc[t] = "enter" /\ op[t] = "wait" /\ word = Fat
    /\ saved' = [saved EXCEPT ![t] = lockCount]
    /\ lockCount' = 0 /\ owner' = None
    /\ numWaiters' = numWaiters + 1
    /\ inWait' = inWait \cup {t}
    /\ Goto(t, "append")
    /\ UNCHANGED <<wordVars, monitorLock, waitSet, wakeSet, hashCode, waitMonitor, waitMutex,
                   interrupted, wasInterrupted, op, peer, park, depth, progVars>>

(* Mutant: Wait releases the monitor without waking a notified thread.     *)
AppendAndRelease(t) ==
    /\ pc[t] = "append" /\ waitMutex[t] = None
    /\ waitMutex' = [waitMutex EXCEPT ![t] = t]
    /\ waitSet' = Append(waitSet, t)
    /\ waitMonitor' = waitMonitor \cup {t}
    /\ monitorLock' = None
    /\ Goto(t, "cond")
    /\ UNCHANGED <<wordVars, owner, lockCount, numWaiters, wakeSet, hashCode, saved, inWait,
                   interrupted, wasInterrupted, op, peer, park, depth, progVars>>

AppendToWaitSet(t) ==
    /\ pc[t] = "append" /\ waitMutex[t] = None
    /\ waitMutex' = [waitMutex EXCEPT ![t] = t]
    /\ waitSet' = Append(waitSet, t)
    /\ waitMonitor' = waitMonitor \cup {t}
    /\ Goto(t, "signal")
    /\ UNCHANGED <<wordVars, monitorLock, owner, lockCount, numWaiters, wakeSet, hashCode,
                   saved, inWait, interrupted, wasInterrupted, op, peer, park, depth, progVars>>

(* IsInterrupted, or else the wait on wait_cond_, which lets the mutex go. *)
Sleep(t) ==
    /\ pc[t] = "cond"
    /\ waitMutex' = [waitMutex EXCEPT ![t] = None]
    /\ IF t \in interrupted
       THEN wasInterrupted' = wasInterrupted \cup {t} /\ Goto(t, "wakeUp")
       ELSE Goto(t, "asleep") /\ UNCHANGED wasInterrupted
    /\ UNCHANGED <<wordVars, monitorVars, saved, inWait, waitMonitor, interrupted, op, peer,
                   park, depth, progVars>>

(* A time-out or a spurious wake-up.                                       *)
WakesAnyway(t) ==
    /\ pc[t] = "asleep"
    /\ Goto(t, "woken")
    /\ UNCHANGED <<wordVars, monitorVars, waitVars, op, peer, park, depth, progVars>>

Woken(t) ==
    /\ pc[t] = "woken" /\ waitMutex[t] = None
    /\ wasInterrupted' = IF t \in interrupted THEN wasInterrupted \cup {t} ELSE wasInterrupted
    /\ Goto(t, "wakeUp")
    /\ UNCHANGED <<wordVars, monitorVars, saved, inWait, waitMonitor, waitMutex, interrupted,
                   op, peer, park, depth, progVars>>

(* Runnable again: no longer waiting for notification.  An InterruptedEx-  *)
(* ception clears the flag, unless the caller ignores interrupts.          *)
WakeUp(t) ==
    /\ pc[t] = "wakeUp" /\ waitMutex[t] = None /\ NoRequest(t)
    /\ waitMonitor' = waitMonitor \ {t}
    /\ \/ UNCHANGED interrupted
       \/ t \in wasInterrupted /\ interrupted' = interrupted \ {t}
    /\ wasInterrupted' = wasInterrupted \ {t}
    /\ Goto(t, "lock")
    /\ UNCHANGED <<wordVars, monitorVars, saved, inWait, waitMutex, op, peer, park, depth, progVars>>

Notify(t) ==
    /\ MayCall(t, "notify") /\ owner = t /\ waitSet # <<>>
    /\ \/ /\ waitSet' = Tail(waitSet)
          /\ wakeSet' = <<Head(waitSet)>> \o wakeSet
       \/ /\ waitSet' = <<>>
          /\ wakeSet' = wakeSet \o waitSet
    /\ UNCHANGED <<wordVars, monitorLock, owner, lockCount, numWaiters, hashCode, waitVars,
                   pc, op, peer, park, depth>>

(* Mutant: the hash code of the monitor is dropped.                        *)
DeflateToUnlocked ==
    /\ \A t \in Threads : ~Runnable(t)
    /\ word = Fat /\ numWaiters = 0 /\ monitorLock = None
    /\ word' = Unlocked
    /\ hashCode' = None
    /\ UNCHANGED <<hashes, monitorLock, owner, lockCount, numWaiters, waitSet, wakeSet,
                   waitVars, pc, op, peer, park, depth, progVars>>

(* DeflateMonitors, with all threads suspended.                            *)
Deflate ==
    /\ \A t \in Threads : ~Runnable(t)
    /\ word = Fat /\ numWaiters = 0 /\ monitorLock = None
    /\ word' = IF hashCode = None THEN Unlocked ELSE Hashed(hashCode)
    /\ hashCode' = None
    /\ UNCHANGED <<hashes, monitorLock, owner, lockCount, numWaiters, waitSet, wakeSet,
                   waitVars, pc, op, peer, park, depth, progVars>>

-----------------------------------------------------------------------------
(* Interrupt, Unpark and Park.                                             *)

Interrupt(t, u) ==
    /\ MayCall(t, "interrupt") /\ waitMutex[u] = None
    /\ u \notin interrupted
    /\ interrupted' = interrupted \cup {u}
    /\ pc' = [(IF u \in waitMonitor THEN Awaken(u) ELSE pc) EXCEPT ![t] = "unpark"]
    /\ peer' = [peer EXCEPT ![t] = u]
    /\ UNCHANGED <<wordVars, monitorVars, saved, inWait, waitMonitor, waitMutex,
                   wasInterrupted, op, park, depth>>

CallUnpark(t, u) ==
    /\ MayCall(t, "unpark")
    /\ peer' = [peer EXCEPT ![t] = u]
    /\ Goto(t, "unpark")
    /\ UNCHANGED <<wordVars, monitorVars, waitVars, op, park, depth>>

(* The exchange, and the system call if there was somebody to wake.        *)
Unpark(t) ==
    /\ pc[t] = "unpark"
    /\ park' = [park EXCEPT ![peer[t]] = 0]
    /\ IF park[peer[t]] = 2 THEN Goto(t, "futexWake") /\ UNCHANGED <<op, peer>> ELSE Return(t)
    /\ UNCHANGED <<wordVars, monitorVars, waitVars, depth, progVars>>

FutexWake(t) ==
    /\ pc[t] = "futexWake"
    /\ pc' = [pc EXCEPT ![t] = "run", ![peer[t]] = IF @ = "parked" THEN "unparked" ELSE @]
    /\ peer' = [peer EXCEPT ![t] = None]
    /\ UNCHANGED <<wordVars, monitorVars, waitVars, op, park, depth, progVars>>

(* The fetch_add consumes a permit or announces the sleeper.  Without time *)
(* to wait the thread goes straight to the end.                            *)
Park(t) ==
    /\ MayCall(t, "park") /\ depth[t] = 0
    /\ park' = [park EXCEPT ![t] = @ + 1]
    /\ \/ park[t] = 0 /\ UNCHANGED pc
       \/ park[t] = 1 /\ \E label \in {"parking", "unparked"} : Goto(t, label)
    /\ UNCHANGED <<wordVars, monitorVars, waitVars, op, peer, depth>>

(* Mutant: sleeps whatever park_state_ is.                                 *)
FutexParkAnyway(t) ==
    /\ pc[t] = "parking"
    /\ Goto(t, "parked")
    /\ UNCHANGED <<wordVars, monitorVars, waitVars, op, peer, park, depth, progVars>>

FutexPark(t) ==
    /\ pc[t] = "parking"
    /\ Goto(t, IF park[t] = 2 THEN "parked" ELSE "unparked")
    /\ UNCHANGED <<wordVars, monitorVars, waitVars, op, peer, park, depth, progVars>>

UnparksAnyway(t) ==
    /\ pc[t] = "parked"
    /\ Goto(t, "unparked")
    /\ UNCHANGED <<wordVars, monitorVars, waitVars, op, peer, park, depth, progVars>>

Unparked(t) ==
    /\ pc[t] = "unparked" /\ NoRequest(t)
    /\ park' = [park EXCEPT ![t] = 1]
    /\ Goto(t, "run")
    /\ UNCHANGED <<wordVars, monitorVars, waitVars, op, peer, depth, progVars>>

-----------------------------------------------------------------------------
(* What a thread does by itself: it goes on, and leaves what it entered.   *)
Step(t) ==
    \/ ThinLock(t) \/ EnterFat(t) \/ TryFails(t) \/ HashCode(t) \/ InflateOwn(t)
    \/ ContendThin(t) \/ SuspendOwner(t) \/ OwnerStopped(t) \/ InflateOther(t) \/ ResumeOwner(t)
    \/ LockFree(t) \/ LockAgain(t) \/ LockBusy(t) \/ LockBlocked(t) \/ LockRunnable(t)
    \/ MonitorExit(t) \/ SignalNext(t) \/ CheckWaiting(t) \/ WakeCond(t) \/ NobodyToSignal(t)
    \/ Wait(t) \/ AppendToWaitSet(t) \/ Sleep(t) \/ Woken(t) \/ WakeUp(t)
    \/ Unpark(t) \/ FutexWake(t) \/ FutexPark(t) \/ Unparked(t)

Choose(t) ==
    \/ \E o \in {"enter", "try", "hash", "wait"} : Call(t, o)
    \/ SuspendTimesOut(t) \/ WakesAnyway(t) \/ Notify(t) \/ Park(t) \/ UnparksAnyway(t)
    \/ \E u \in Threads : Interrupt(t, u) \/ CallUnpark(t, u)

Next == Deflate \/ \E t \in Threads : Step(t) \/ Choose(t)

Spec == Init /\ [][Next]_vars

FairSpec == Spec /\ \A t \in Threads : WF_vars(Step(t))

-----------------------------------------------------------------------------
(* The lock agrees with the program about who has entered it and how       *)
(* often, through recursion, inflation by others, waiting and deflation;   *)
(* so no two threads are ever inside.                                      *)
HeldBy(t) ==
    IF OwnsThin(t) THEN word.count + 1
    ELSE IF word = Fat /\ owner = t THEN lockCount + 1 ELSE 0
LockCountExact ==
    \A t \in Threads :
        /\ HeldBy(t) = IF t \in inWait THEN 0 ELSE depth[t]
        /\ HeldBy(t) > 0 /\ word = Fat => monitorLock = t

(* A monitor is deflated only when no thread is about to use it: neither   *)
(* one that has read the fat lock word, nor a contender or a waiter, nor   *)
(* one that is still releasing it.                                         *)
NoDeflatedUse ==
    \A t \in Threads :
        t \in inWait \/ pc[t] \in {"lock", "blocked", "locked"} \cup Releasing => word = Fat

(* An object has one identity hash code: nobody is ever told another one,  *)
(* however the lock word changes between.                                  *)
OneHashCode == \A g, h \in hashes : g = h

(* Asleep in Wait and no longer in wait_set_: some Notify took the thread  *)
(* out, whether it is still in wake_set_, about to be signalled, or was    *)
(* lost on the way.  An interrupted one is owed a wake-up as well.         *)
OwedWake(t) ==
    \/ pc[t] = "asleep" /\ \A i \in DOMAIN waitSet : waitSet[i] # t
    \/ pc[t] \in {"cond", "asleep"} /\ t \in interrupted

(* No notification is lost: a thread that Notify took out of wait_set_     *)
(* wakes, however many releases, time-outs and interrupts come between,    *)
(* and whoever is to pass the signal on; so does an interrupted one.       *)
NotifiedWakes ==
    \A t \in Threads : []<>~OwedWake(t)

(* A permit given to a thread that parks or is about to sleep is not lost. *)
PermitWakes ==
    \A t \in Threads : []<>~(pc[t] \in {"parking", "parked"} /\ park[t] = 0)
=============================================================================
