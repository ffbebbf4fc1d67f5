------------------------- MODULE ReaderWriterMutex -------------------------
(***************************************************************************)
(* art::ReaderWriterMutex as built on futexes (runtime/base/mutex.h,       *)
(* mutex-inl.h, mutex.cc): one signed word, -1 while a writer holds the    *)
(* mutex and otherwise the number of readers, and beside it a count of the *)
(* threads that may sleep on the word.                                     *)
(*                                                                         *)
(* A load and the compare-and-swap on the loaded value are one step; every *)
(* other access to the word or to num_contenders_ and every system call is *)
(* a step of its own.                                                      *)
(***************************************************************************)
EXTENDS Locks

VARIABLES
    state,       \* state_
    contenders,  \* num_contenders_
    owner,       \* exclusive_owner_
    queue,       \* sleepers on the address of state_
    pc,
    mode,        \* the call a thread is in, None outside
    cur,         \* cur_state of a thread on its way to sleep, else 0
    calls

vars == <<state, contenders, owner, queue, pc, mode, cur, calls>>

Modes == {"shared", "exclusive", "timed"}
(* Labels at which a thread shows in state_.                               *)
Holding == {"own", "in", "release"}
Labels == Holding \cup
    {"out", "lock", "spin", "futex", "asleep", "decrement", "giveUp", "check", "wake"}

Init ==
    /\ state = 0 /\ contenders = 0 /\ owner = None /\ queue = {}
    /\ pc = [t \in Threads |-> "out"]
    /\ mode = [t \in Threads |-> None]
    /\ cur = [t \in Threads |-> 0]
    /\ calls = 0

Goto(t, label) == pc' = [pc EXCEPT ![t] = label]

Return(t) ==
    /\ Goto(t, "out")
    /\ mode' = [mode EXCEPT ![t] = None]

(* What the mutex must look like for t's call to take it.                  *)
Available(t) == IF mode[t] = "shared" THEN state >= 0 ELSE state = 0

-----------------------------------------------------------------------------
(* SharedLock, ExclusiveLock and ExclusiveLockWithTimeout.                 *)

Lock(t, m) ==
    /\ pc[t] = "out" /\ calls < MaxCalls
    /\ calls' = calls + 1
    /\ mode' = [mode EXCEPT ![t] = m]
    /\ Goto(t, "lock")
    /\ UNCHANGED <<state, contenders, owner, queue, cur>>

(* Fails, and leaves everything alone, while there is a writer.            *)
SharedTryLock(t) ==
    /\ pc[t] = "out" /\ calls < MaxCalls
    /\ calls' = calls + 1
    /\ IF state >= 0
       THEN /\ state' = state + 1
            /\ mode' = [mode EXCEPT ![t] = "shared"]
            /\ Goto(t, "in")
       ELSE UNCHANGED <<state, mode, pc>>
    /\ UNCHANGED <<contenders, owner, queue, cur>>

(* Mutant: a writer comes in beside readers.                               *)
AcquireAmongReaders(t) ==
    /\ pc[t] = "lock"
    /\ state >= 0
    /\ IF mode[t] = "shared"
       THEN state' = state + 1 /\ Goto(t, "in")
       ELSE state' = -1 /\ Goto(t, "own")
    /\ UNCHANGED <<contenders, owner, queue, mode, cur, calls>>

(* A reader is in with the swap; a writer still has to note its tid.       *)
Acquire(t) ==
    /\ pc[t] = "lock"
    /\ Available(t)
    /\ IF mode[t] = "shared"
       THEN state' = state + 1 /\ Goto(t, "in")
       ELSE state' = -1 /\ Goto(t, "own")
    /\ UNCHANGED <<contenders, owner, queue, mode, cur, calls>>

Own(t) ==
    /\ pc[t] = "own"
    /\ owner' = t
    /\ Goto(t, "in")
    /\ UNCHANGED <<state, contenders, queue, mode, cur, calls>>

(* Not available: remember the word and spin in WaitBrieflyFor.            *)
Contend(t) ==
    /\ pc[t] = "lock"
    /\ ~Available(t)
    /\ cur' = [cur EXCEPT ![t] = state]
    /\ Goto(t, "spin")
    /\ UNCHANGED <<state, contenders, owner, queue, mode, calls>>

(* The deadline has passed before the thread could try to sleep.           *)
TimedOut(t) ==
    /\ pc[t] = "lock" /\ mode[t] = "timed"
    /\ ~Available(t)
    /\ Return(t)
    /\ UNCHANGED <<state, contenders, owner, queue, cur, calls>>

SpinSucceeds(t) ==
    /\ pc[t] = "spin"
    /\ Available(t)
    /\ cur' = [cur EXCEPT ![t] = 0]
    /\ Goto(t, "lock")
    /\ UNCHANGED <<state, contenders, owner, queue, mode, calls>>

IncrementContenders(t) ==
    /\ pc[t] = "spin"
    /\ contenders' = contenders + 1
    /\ Goto(t, "futex")
    /\ UNCHANGED <<state, owner, queue, mode, cur, calls>>

(* Mutant: sleeps whatever the word is.                                    *)
FutexWaitAnyway(t) ==
    /\ pc[t] = "futex"
    /\ queue' = queue \cup {t} /\ Goto(t, "asleep")
    /\ cur' = [cur EXCEPT ![t] = 0]
    /\ UNCHANGED <<state, contenders, owner, mode, calls>>

(* FUTEX_WAIT sleeps only on the expected value, else EAGAIN.              *)
FutexWait(t) ==
    /\ pc[t] = "futex"
    /\ IF state = cur[t]
       THEN queue' = queue \cup {t} /\ Goto(t, "asleep")
       ELSE Goto(t, "decrement") /\ UNCHANGED queue
    /\ cur' = [cur EXCEPT ![t] = 0]
    /\ UNCHANGED <<state, contenders, owner, mode, calls>>

(* EINTR.                                                                  *)
Interrupted(t) ==
    /\ pc[t] = "asleep"
    /\ queue' = queue \ {t}
    /\ Goto(t, "decrement")
    /\ UNCHANGED <<state, contenders, owner, mode, cur, calls>>

(* ETIMEDOUT.                                                              *)
SleepTimedOut(t) ==
    /\ pc[t] = "asleep" /\ mode[t] = "timed"
    /\ queue' = queue \ {t}
    /\ Goto(t, "giveUp")
    /\ UNCHANGED <<state, contenders, owner, mode, cur, calls>>

(* Back to the start of the loop, or to the caller after a time-out.       *)
DecrementContenders(t) ==
    /\ pc[t] \in {"decrement", "giveUp"}
    /\ contenders' = contenders - 1
    /\ IF pc[t] = "giveUp" THEN Return(t) ELSE Goto(t, "lock") /\ UNCHANGED mode
    /\ UNCHANGED <<state, owner, queue, cur, calls>>

-----------------------------------------------------------------------------
(* SharedUnlock and ExclusiveUnlock.                                       *)

(* Mutant: the last reader leaves the waking to somebody else.             *)
SharedUnlockQuietly(t) ==
    /\ pc[t] = "in" /\ mode[t] = "shared"
    /\ state' = state - 1
    /\ Return(t)
    /\ UNCHANGED <<contenders, owner, queue, cur, calls>>

(* Only the last reader looks for sleepers.                                *)
SharedUnlock(t) ==
    /\ pc[t] = "in" /\ mode[t] = "shared"
    /\ state' = state - 1
    /\ IF state = 1 THEN Goto(t, "check") /\ UNCHANGED mode ELSE Return(t)
    /\ UNCHANGED <<contenders, owner, queue, cur, calls>>

ExclusiveUnlock(t) ==
    /\ pc[t] = "in" /\ mode[t] # "shared"
    /\ owner' = None
    /\ Goto(t, "release")
    /\ UNCHANGED <<state, contenders, queue, mode, cur, calls>>

Release(t) ==
    /\ pc[t] = "release"
    /\ state' = 0
    /\ Goto(t, "check")
    /\ UNCHANGED <<contenders, owner, queue, mode, cur, calls>>

(* The load of num_contenders_, which must not move before the swap.       *)
CheckContenders(t) ==
    /\ pc[t] = "check"
    /\ IF contenders > 0 THEN Goto(t, "wake") /\ UNCHANGED mode ELSE Return(t)
    /\ UNCHANGED <<state, contenders, owner, queue, cur, calls>>

(* FUTEX_WAKE of all sleepers.                                             *)
Wake(t) ==
    /\ pc[t] = "wake"
    /\ queue' = {}
    /\ pc' = [u \in Threads |-> IF u = t THEN "out"
                                ELSE IF u \in queue THEN "decrement" ELSE pc[u]]
    /\ mode' = [mode EXCEPT ![t] = None]
    /\ UNCHANGED <<state, contenders, owner, cur, calls>>

-----------------------------------------------------------------------------
(* What a thread does by itself once it has called.                        *)
Step(t) ==
    \/ Acquire(t) \/ Own(t) \/ Contend(t) \/ SpinSucceeds(t) \/ IncrementContenders(t)
    \/ FutexWait(t) \/ DecrementContenders(t)
    \/ SharedUnlock(t) \/ ExclusiveUnlock(t) \/ Release(t) \/ CheckContenders(t) \/ Wake(t)

Choose(t) ==
    \/ \E m \in Modes : Lock(t, m)
    \/ SharedTryLock(t) \/ TimedOut(t) \/ Interrupted(t) \/ SleepTimedOut(t)

Next == \E t \in Threads : Step(t) \/ Choose(t)

Spec == Init /\ [][Next]_vars

-----------------------------------------------------------------------------
(* Every variable stays in its type; the counts never go negative.         *)
TypeOK ==
    /\ state \in -1 .. Cardinality(Threads) /\ contenders \in Nat
    /\ owner \in Threads \cup {None}
    /\ queue \subseteq Threads
    /\ pc \in [Threads -> Labels]
    /\ mode \in [Threads -> Modes \cup {None}]
    /\ cur \in [Threads -> -1 .. Cardinality(Threads)]
    /\ calls \in 0 .. MaxCalls

Readers == {t \in Threads : pc[t] \in Holding /\ mode[t] = "shared"}
Writers == {t \in Threads : pc[t] \in Holding /\ mode[t] # "shared"}

(* Readers exclude writers and a writer everybody: state_ is the number of *)
(* threads between SharedLock and SharedUnlock, or -1 for exactly one      *)
(* thread between the swaps of ExclusiveLock and ExclusiveUnlock.          *)
StateExact ==
    \/ Writers = {} /\ state = Cardinality(Readers)
    \/ Cardinality(Writers) = 1 /\ Readers = {} /\ state = -1

(* num_contenders_ counts the threads that sleep or may go to sleep, the   *)
(* timed-out ones on their way out included.                               *)
Contending == {t \in Threads : pc[t] \in {"futex", "asleep", "decrement", "giveUp"}}
ContendersExact == contenders = Cardinality(Contending)
=============================================================================
