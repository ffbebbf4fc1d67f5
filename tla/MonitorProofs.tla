---------------------------- MODULE MonitorProofs ----------------------------
(***************************************************************************)
(* The safety properties of Monitor for any number of threads, any         *)
(* programs and any bounds.                                                *)
(***************************************************************************)
EXTENDS Monitor, FiniteSetTheorems, TLAPS

-----------------------------------------------------------------------------
(* The inductive invariant.                                                *)

(* Where a thread is, as far as the lock is concerned: outside; inside     *)
(* Wait without the monitor; with monitor_lock_ but no longer, or not yet, *)
(* the owner; at Lock.                                                     *)
Free == {"run", "enter", "suspendOwner", "awaitOwner", "ownerStopped", "inflate", "resume",
         "unpark", "futexWake", "parking", "parked", "unparked"}
InCall == {"enter", "suspendOwner", "awaitOwner", "ownerStopped", "inflate", "resume"}
Waking == {"cond", "asleep", "woken", "wakeUp"}
Holding == {"append", "signal", "check", "locked"}
Counted == {"blocked", "locked"}
Labels == Free \cup Waking \cup Holding \cup {"wakeCond", "lock", "blocked"}

Words ==
    {Unlocked, Fat} \cup {Hashed(h) : h \in Threads} \cup {Thin(t, n) : t \in Threads, n \in Nat}

TypeOK ==
    /\ word \in Words
    /\ pc \in [Threads -> Labels]
    /\ monitorLock \in Threads \cup {None}
    /\ owner \in Threads \cup {None}
    /\ hashCode \in Threads \cup {None}
    /\ lockCount \in Nat
    /\ numWaiters \in Int
    /\ saved \in [Threads -> Nat]
    /\ depth \in [Threads -> Nat]
    /\ DOMAIN op = Threads
    /\ inWait \subseteq Threads

(* Wait keeps the recursion count that the return restores, and is called  *)
(* by a thread that has entered.                                           *)
Places ==
    \A t \in Threads :
        /\ t \in inWait => op[t] = "wait" /\ pc[t] \notin Free /\ depth[t] = saved[t] + 1
        /\ pc[t] \in Waking \cup {"append"} => t \in inWait
        /\ t \notin inWait => saved[t] = 0
        /\ pc[t] \in InCall /\ op[t] = "wait" => depth[t] > 0

(* The owner holds monitor_lock_, and who holds it otherwise is about to   *)
(* release it or to become the owner.                                      *)
Owners ==
    word = Fat =>
        /\ owner # None => monitorLock = owner
        /\ \A t \in Threads : pc[t] \in Holding => monitorLock = t /\ owner = None

(* num_waiters_ is the number of blocked contenders and of threads in      *)
(* Wait; one that contends to return from Wait counts as both.             *)
Blocked == {t \in Threads : pc[t] \in Counted}
WaitersExact == word = Fat => numWaiters = Cardinality(Blocked) + Cardinality(inWait)

(* The hash code in the lock word or the monitor is the one that was told. *)
HashKept ==
    /\ word.state \in {"unlocked", "thin"} => hashes = {}
    /\ word.state = "hash" => hashes \subseteq {word.owner}
    /\ word = Fat => hashes \subseteq {hashCode} \ {None}

IInv ==
    /\ TypeOK /\ Places /\ Owners /\ WaitersExact /\ HashKept
    /\ LockCountExact /\ NoDeflatedUse

USE DEF wordVars, monitorVars, waitVars, progVars, Goto, Return

-----------------------------------------------------------------------------
(* Most steps leave the lock alone and move a thread among labels that     *)
(* mean the same for it.                                                   *)
Same(t) ==
    \/ pc'[t] = pc[t]
    \/ pc[t] \in Free /\ pc'[t] \in Free
    \/ pc[t] \in Waking /\ pc'[t] \in Waking
    \/ pc[t] \in {"append", "signal", "check"} /\ pc'[t] \in {"signal", "check"}

Quiet ==
    /\ UNCHANGED <<wordVars, monitorLock, owner, lockCount, numWaiters, hashCode, saved,
                   inWait, depth>>
    /\ DOMAIN op' = Threads
    /\ pc' \in [Threads -> Labels]
    /\ \A t \in Threads :
        /\ Same(t)
        /\ t \in inWait => op'[t] = op[t]
        /\ pc'[t] \in InCall /\ op'[t] = "wait" => depth[t] > 0

QuietStep(t) ==
    \/ \E o \in {"enter", "try", "hash", "wait"} : Call(t, o)
    \/ TryFails(t) \/ ContendThin(t) \/ SuspendOwner(t) \/ OwnerStopped(t)
    \/ SuspendTimesOut(t) \/ ResumeOwner(t)
    \/ SignalNext(t) \/ AppendToWaitSet(t) \/ Sleep(t) \/ WakesAnyway(t) \/ Woken(t) \/ Notify(t)
    \/ \E u \in Threads : Interrupt(t, u) \/ CallUnpark(t, u)
    \/ Unpark(t) \/ FutexWake(t) \/ Park(t) \/ FutexPark(t) \/ UnparksAnyway(t) \/ Unparked(t)

(* Most steps need only first-order reasoning; SMT is cited where one needs *)
(* more.                                                                   *)
USE ZenonT(40)

LEMMA QuietSteps == ASSUME IInv, NEW t \in Threads, QuietStep(t) PROVE Quiet
<1> USE DEF IInv, TypeOK, Places, Quiet, Same, Labels, Free, Waking, Holding, InCall
<1>1. ASSUME NEW o \in {"enter", "try", "hash", "wait"}, Call(t, o) PROVE Quiet
    BY <1>1 DEF Call, MayCall, May
<1>2. CASE TryFails(t)
    BY <1>2 DEF TryFails
<1>3. CASE ContendThin(t) \/ SuspendOwner(t)
    BY <1>3 DEF ContendThin, SuspendOwner
<1>4. CASE OwnerStopped(t)
    BY <1>4 DEF OwnerStopped
<1>5. CASE SuspendTimesOut(t) \/ ResumeOwner(t)
    BY SMT, <1>5 DEF SuspendTimesOut, ResumeOwner
<1>6. CASE SignalNext(t) \/ AppendToWaitSet(t)
    BY ZenonT(30), <1>6 DEF SignalNext, AppendToWaitSet
<1>7. CASE Sleep(t) \/ WakesAnyway(t) \/ Woken(t)
    BY SMT, <1>7 DEF Sleep, WakesAnyway, Woken
<1>8. CASE Notify(t)
    BY <1>8 DEF Notify
<1>9. ASSUME NEW u \in Threads, Interrupt(t, u) PROVE Quiet
    BY SMT, <1>9 DEF Interrupt, Awaken, MayCall, May
<1>10. ASSUME NEW u \in Threads, CallUnpark(t, u) PROVE Quiet
    BY <1>10 DEF CallUnpark, MayCall, May
<1>11. CASE Unpark(t)
    BY SMT, <1>11 DEF Unpark
<1>12. CASE FutexWake(t)
    <2>1. /\ pc'[t] \in {"run", "unparked"}
          /\ \A u \in Threads : u # t => pc'[u] = pc[u] \/ (pc[u] = "parked" /\ pc'[u] = "unparked")
        BY SMT, <1>12 DEF FutexWake
    <2>2. pc' \in [Threads -> Labels]
        BY ZenonT(30), <1>12 DEF FutexWake
    <2> QED BY <1>12, <2>1, <2>2 DEF FutexWake
<1>13. CASE Park(t) \/ FutexPark(t)
    BY SMT, <1>13 DEF Park, FutexPark, MayCall, May
<1>14. CASE UnparksAnyway(t) \/ Unparked(t)
    BY SMT, <1>14 DEF UnparksAnyway, Unparked
<1> QED BY ZenonT(30), <1>1, <1>2, <1>3, <1>4, <1>5, <1>6, <1>7, <1>8, <1>9, <1>10, <1>11, <1>12, <1>13,
           <1>14 DEF QuietStep

LEMMA QuietInv == ASSUME IInv, Quiet PROVE IInv'
<1> USE DEF IInv, Quiet
<1>1. TypeOK'
    BY DEF TypeOK
<1>2. Places'
    BY DEF TypeOK, Places, Same, Labels, Free, Waking, Holding, InCall
<1>3. Owners'
    BY DEF TypeOK, Owners, Same, Labels, Free, Waking, Holding
<1>4. Blocked' = Blocked
    BY DEF TypeOK, Blocked, Counted, Same, Free, Waking
<1>5. WaitersExact'
    BY <1>4 DEF WaitersExact
<1>6. HashKept'
    BY DEF HashKept
<1>7. LockCountExact'
    BY DEF LockCountExact, HeldBy, OwnsThin
<1>8. NoDeflatedUse'
    BY DEF TypeOK, NoDeflatedUse, Releasing, Same, Free, Waking, Owners, Places
<1> QED BY <1>1, <1>2, <1>3, <1>5, <1>6, <1>7, <1>8

-----------------------------------------------------------------------------
(* The steps on the lock word.                                             *)

LEMMA CardinalityStep ==
    ASSUME NEW S \in SUBSET Threads, NEW x
    PROVE  /\ Cardinality(S) \in Nat
           /\ Cardinality(S) = 0 <=> S = {}
           /\ x \notin S => Cardinality(S \cup {x}) = Cardinality(S) + 1
           /\ x \in S => Cardinality(S \ {x}) = Cardinality(S) - 1
<1>0. IsFiniteSet(S)
    BY MonitorAssumption, FS_Subset
<1>1. Cardinality(S) \in Nat
    BY <1>0, FS_CardinalityType
<1>2. Cardinality(S) = 0 <=> S = {}
    BY <1>0, FS_EmptySet
<1>3. x \notin S => Cardinality(S \cup {x}) = Cardinality(S) + 1
    BY <1>0, FS_AddElement
<1>4. x \in S => Cardinality(S \ {x}) = Cardinality(S) - 1
    BY <1>0, FS_RemoveElement
<1> QED BY <1>1, <1>2, <1>3, <1>4

(* What a lock word is.                                                    *)
LEMMA WordForms ==
    ASSUME IInv
    PROVE  /\ word.owner \in Threads \cup {None} /\ word.count \in Nat
           /\ word.state = "thin" => word = Thin(word.owner, word.count) /\ word.owner \in Threads
           /\ word.state = "hash" => word = Hashed(word.owner) /\ word.owner \in Threads
           /\ word.state \in {"unlocked", "fat", "thin", "hash"}
           /\ word.state = "unlocked" <=> word = Unlocked
           /\ word.state = "fat" <=> word = Fat
BY SMT DEF IInv, TypeOK, Words, Unlocked, Fat, Hashed, Thin

LEMMA ThinLockInv == ASSUME IInv, NEW t \in Threads, ThinLock(t) PROVE IInv'
<1> USE WordForms, MonitorAssumption DEF IInv
<1>1. TypeOK'
    BY SMT DEF TypeOK, ThinLock, Labels, Free, Words
<1>2. Places'
    BY DEF TypeOK, Places, ThinLock, Entering, Free, Waking, InCall
<1>3. Owners' /\ WaitersExact'
    BY SMT DEF ThinLock, Owners, WaitersExact, Thin, Fat
<1>4. HashKept'
    BY DEF ThinLock, HashKept, Thin, Fat, Unlocked, OwnsThin
<1>5. LockCountExact'
    BY SMT DEF TypeOK, ThinLock, Entering, Places, Free, LockCountExact, HeldBy, OwnsThin, Thin, Fat, Unlocked
<1>6. NoDeflatedUse'
    BY DEF TypeOK, ThinLock, Entering, NoDeflatedUse, Releasing, Thin, Fat, Unlocked, OwnsThin
<1> QED BY <1>1, <1>2, <1>3, <1>4, <1>5, <1>6

LEMMA HashCodeInv == ASSUME IInv, NEW t \in Threads, HashCode(t) PROVE IInv'
<1> USE WordForms, MonitorAssumption DEF IInv
<1>1. TypeOK'
    BY SMT DEF TypeOK, HashCode, Labels, Free, Words
<1>2. Places'
    BY DEF TypeOK, Places, HashCode, Free, Waking, InCall
<1>3. word' = Fat <=> word = Fat
    BY SMT DEF HashCode, Hashed, Fat
<1>4. Owners'
    BY <1>3 DEF TypeOK, HashCode, Owners, Holding, Free
<1>5. Blocked' = Blocked
    BY DEF TypeOK, HashCode, Blocked, Counted
<1>6. WaitersExact'
    BY <1>3, <1>5 DEF HashCode, WaitersExact
<1>7. HashKept'
    BY SMT DEF TypeOK, HashCode, HashKept, Hashed, Fat, Unlocked
<1>8. LockCountExact'
    BY SMT, <1>3 DEF HashCode, LockCountExact, HeldBy, OwnsThin, Hashed
<1>9. NoDeflatedUse'
    BY <1>3 DEF TypeOK, HashCode, NoDeflatedUse, Releasing
<1> QED BY <1>1, <1>2, <1>4, <1>6, <1>7, <1>8, <1>9

(* A monitor takes over the lock word whoever inflates it, and nobody is   *)
(* at a monitor before.                                                    *)
LEMMA InstallInv ==
    ASSUME IInv, NEW o \in Threads \cup {None}, NEW h \in Threads \cup {None}, Install(o, h),
           \/ word.state = "hash" /\ o = None /\ h = word.owner
           \/ OwnsThin(o),
           UNCHANGED <<hashes, op, inWait, saved, depth>>,
           pc' \in [Threads -> Labels],
           \A t \in Threads : pc'[t] = pc[t] \/ (pc[t] = "inflate" /\ pc'[t] = "resume")
    PROVE  IInv'
<1> USE WordForms, MonitorAssumption DEF IInv
<1>1. TypeOK'
    BY SMT DEF TypeOK, Install, Words
<1>2. Places'
    BY DEF TypeOK, Places, Free, Waking, InCall
<1>3. word # Fat
    BY DEF OwnsThin, Fat
<1>4. inWait = {} /\ \A t \in Threads : pc'[t] \in Free
    BY SMT, <1>3 DEF TypeOK, NoDeflatedUse, Places, Labels, Free, Waking, Holding, Releasing
<1>5. Owners'
    BY <1>4 DEF Install, Owners, Free, Holding
<1>6. Blocked' = {} /\ inWait' = {}
    BY <1>4 DEF Blocked, Counted, Free
<1>7. WaitersExact'
    BY SMT, <1>6, FS_EmptySet DEF Install, WaitersExact
<1>8. HashKept'
    BY DEF Install, HashKept, Fat, OwnsThin
<1>9. LockCountExact'
    BY SMT, <1>4 DEF TypeOK, Install, LockCountExact, HeldBy, OwnsThin, Fat, Hashed
<1>10. NoDeflatedUse'
    BY DEF Install, NoDeflatedUse
<1> QED BY <1>1, <1>2, <1>5, <1>7, <1>8, <1>9, <1>10

LEMMA InflateInv ==
    ASSUME IInv, NEW t \in Threads, InflateOwn(t) \/ InflateOther(t)
    PROVE  IInv'
<1> USE WordForms, MonitorAssumption DEF IInv
<1>1. CASE InflateOwn(t)
    BY <1>1, InstallInv DEF InflateOwn, MadeFor, OwnsThin, TypeOK
<1>2. CASE InflateOther(t) /\ OwnsThin(peer[t])
    BY <1>2, InstallInv DEF InflateOther, MadeFor, OwnsThin, TypeOK, Labels, Free
<1>3. CASE InflateOther(t) /\ ~OwnsThin(peer[t])
    <2>1. Quiet
        BY ZenonT(30), <1>3 DEF InflateOther, Quiet, Same, TypeOK, Places, Labels, Free, InCall
    <2> QED BY <2>1, QuietInv
<1> QED BY <1>1, <1>2, <1>3

LEMMA DeflateInv == ASSUME IInv, Deflate PROVE IInv'
<1> USE WordForms, MonitorAssumption DEF IInv
<1>1. TypeOK'
    BY SMT DEF TypeOK, Deflate, Words
<1>2. Places'
    BY ZenonT(30) DEF Places, Deflate
<1>3. word' # Fat
    BY DEF Deflate, Fat, Hashed, Unlocked
<1>4. Owners' /\ WaitersExact'
    BY <1>3 DEF Owners, WaitersExact
<1>5. HashKept'
    BY DEF TypeOK, Deflate, HashKept, Fat, Hashed, Unlocked
<1>6. LockCountExact'
    BY DEF TypeOK, Deflate, Owners, LockCountExact, HeldBy, OwnsThin, Fat, Hashed, Unlocked
<1>7. Blocked = {} /\ inWait = {}
    <2>1. Blocked \in SUBSET Threads /\ inWait \in SUBSET Threads
        BY DEF Blocked, TypeOK
    <2>2. Cardinality(Blocked) \in Nat /\ Cardinality(inWait) \in Nat
        BY ZenonT(30), <2>1, CardinalityStep
    <2>3. Cardinality(Blocked) = 0 /\ Cardinality(inWait) = 0
        BY SMT, <2>2 DEF Deflate, WaitersExact
    <2> QED BY ZenonT(30), <2>1, <2>3, CardinalityStep
<1>8. NoDeflatedUse'
    BY <1>7 DEF Deflate, NoDeflatedUse, Runnable, Releasing, Blocked, Counted
<1> QED BY <1>1, <1>2, <1>4, <1>5, <1>6, <1>8

-----------------------------------------------------------------------------
(* The steps on the monitor, all of which find it inflated.                *)

LEMMA EnterFatInv == ASSUME IInv, NEW t \in Threads, EnterFat(t) \/ WakeUp(t) PROVE IInv'
<1> USE DEF IInv
<1>0. /\ UNCHANGED <<wordVars, monitorVars, saved, inWait, depth, op>>
      /\ pc' = [pc EXCEPT ![t] = "lock"] /\ word = Fat
      /\ pc[t] \in {"enter", "wakeUp"}
    BY DEF EnterFat, Entering, WakeUp, NoDeflatedUse, Places, Waking
<1>1. TypeOK'
    BY <1>0 DEF TypeOK, Labels
<1>2. Places'
    BY <1>0 DEF TypeOK, Places, Free, Waking, InCall
<1>3. Owners'
    BY <1>0 DEF TypeOK, Owners, Holding
<1>4. Blocked' = Blocked
    BY <1>0 DEF TypeOK, Blocked, Counted
<1>5. WaitersExact'
    BY <1>0, <1>4 DEF WaitersExact
<1>6. HashKept' /\ LockCountExact' /\ NoDeflatedUse'
    BY <1>0 DEF HashKept, LockCountExact, HeldBy, OwnsThin, NoDeflatedUse
<1> QED BY <1>1, <1>2, <1>3, <1>5, <1>6

(* Only monitor_lock_ changes hands.                                       *)
LEMMA MonitorLockInv ==
    ASSUME IInv, NEW t \in Threads,
           LockBlocked(t) \/ CheckWaiting(t) \/ WakeCond(t) \/ NobodyToSignal(t)
    PROVE  IInv'
<1> USE MonitorAssumption DEF IInv
<1>0. word = Fat
    BY DEF LockBlocked, CheckWaiting, WakeCond, NobodyToSignal, NoDeflatedUse, Releasing,
           Owners, Holding, Places
<1>a. /\ UNCHANGED <<wordVars, owner, lockCount, numWaiters, hashCode, saved, inWait, depth, op>>
      /\ monitorLock' \in Threads \cup {None}
    BY DEF TypeOK, LockBlocked, CheckWaiting, WakeCond, NobodyToSignal
<1>b. pc' \in [Threads -> Labels]
    BY ZenonT(30) DEF TypeOK, LockBlocked, CheckWaiting, WakeCond, NobodyToSignal, Released, Awaken, Labels,
           Free, Waking, Holding
<1>c. \A u \in Threads : u # t => pc'[u] = pc[u] \/ (pc[u] = "asleep" /\ pc'[u] = "woken")
    BY DEF TypeOK, LockBlocked, CheckWaiting, WakeCond, NobodyToSignal, Released, Awaken
<1>d. \/ pc[t] = "blocked" /\ pc'[t] = "locked"
      \/ pc[t] = "check" /\ pc'[t] \in {"signal", "wakeCond"}
      \/ pc[t] \in {"wakeCond", "signal"} /\ pc'[t] = IF t \in inWait THEN "cond" ELSE "run"
    BY DEF TypeOK, LockBlocked, CheckWaiting, WakeCond, NobodyToSignal, Released, Awaken
<1>1. TypeOK'
    BY <1>a, <1>b DEF TypeOK
<1>2. Places'
    BY SMT, <1>a, <1>c, <1>d DEF TypeOK, Places, Free, Waking, InCall
<1>3. Owners'
    <2>1. CASE LockBlocked(t)
        BY <2>1, <1>0 DEF TypeOK, LockBlocked, Owners, Holding
    <2>2. CASE CheckWaiting(t)
        BY <2>2, <1>0 DEF TypeOK, CheckWaiting, Owners, Holding
    <2>3. CASE WakeCond(t)
        BY ZenonT(30), <2>3, <1>0, <1>c, <1>d DEF TypeOK, WakeCond, Owners, Holding
    <2>4. CASE NobodyToSignal(t)
        BY ZenonT(30), <2>4, <1>0 DEF TypeOK, NobodyToSignal, Released, Owners, Holding
    <2> QED BY <2>1, <2>2, <2>3, <2>4
<1>4. Blocked' = Blocked
    BY <1>c, <1>d DEF TypeOK, Blocked, Counted
<1>5. WaitersExact'
    BY <1>a, <1>4 DEF WaitersExact
<1>6. LockCountExact'
    <2>1. owner = None \/ monitorLock' = monitorLock
        BY <1>0 DEF LockBlocked, CheckWaiting, WakeCond, NobodyToSignal, Owners, Holding, TypeOK
    <2> QED BY SMT, <1>a, <1>0, <2>1 DEF LockCountExact, HeldBy, OwnsThin, Fat
<1>7. HashKept' /\ NoDeflatedUse'
    BY ZenonT(30), <1>a, <1>0 DEF HashKept, NoDeflatedUse
<1> QED BY <1>1, <1>2, <1>3, <1>5, <1>6, <1>7

LEMMA LockAgainInv == ASSUME IInv, NEW t \in Threads, LockAgain(t) PROVE IInv'
<1> USE MonitorAssumption DEF IInv
<1>0. word = Fat
    BY DEF LockAgain, NoDeflatedUse
<1>1. t \notin inWait
    BY SMT, <1>0 DEF LockAgain, LockCountExact, HeldBy, OwnsThin, Fat, TypeOK
<1>2. TypeOK'
    BY SMT DEF LockAgain, TypeOK, Labels, Free
<1>3. Places'
    BY <1>1 DEF LockAgain, TypeOK, Places, Free, Waking, InCall
<1>4. Owners'
    BY DEF LockAgain, TypeOK, Owners, Holding
<1>5. Blocked' = Blocked
    BY DEF LockAgain, TypeOK, Blocked, Counted
<1>6. WaitersExact'
    BY <1>5 DEF LockAgain, WaitersExact
<1>7. HashKept' /\ NoDeflatedUse'
    BY <1>0 DEF LockAgain, HashKept, NoDeflatedUse
<1>8. LockCountExact'
    BY SMT, <1>0, <1>1 DEF LockAgain, LockCountExact, HeldBy, OwnsThin, Fat, TypeOK
<1> QED BY <1>2, <1>3, <1>4, <1>6, <1>7, <1>8

LEMMA LockBusyInv == ASSUME IInv, NEW t \in Threads, LockBusy(t) PROVE IInv'
<1> USE MonitorAssumption DEF IInv
<1>0. word = Fat
    BY DEF LockBusy, NoDeflatedUse
<1>1. TypeOK'
    BY SMT DEF LockBusy, TypeOK, Labels, Free
<1>2. Places'
    BY SMT DEF LockBusy, TypeOK, Places, Free, Waking, InCall
<1>3. Owners'
    BY DEF LockBusy, TypeOK, Owners, Holding
<1>4. Blocked \in SUBSET Threads /\ t \notin Blocked
    BY DEF LockBusy, Blocked, Counted
<1>5. Cardinality(Blocked) \in Nat /\ Cardinality(Blocked \cup {t}) = Cardinality(Blocked) + 1
    BY <1>4, CardinalityStep
<1>6. WaitersExact'
    <2>1. CASE op[t] = "try"
        <3>1. Blocked' = Blocked
            BY <2>1 DEF LockBusy, TypeOK, Blocked, Counted
        <3> QED BY <2>1, <3>1 DEF LockBusy, WaitersExact
    <2>2. CASE op[t] # "try"
        <3>1. Blocked' = Blocked \cup {t}
            BY <2>2 DEF LockBusy, TypeOK, Blocked, Counted
        <3>2. Cardinality(inWait) \in Nat
            BY ZenonT(30), CardinalityStep DEF TypeOK
        <3>3. Cardinality(Blocked') = Cardinality(Blocked) + 1
            BY <3>1, <1>5
        <3> QED BY SMT, <2>2, <3>2, <3>3, <1>5, <1>0 DEF LockBusy, WaitersExact
    <2> QED BY <2>1, <2>2
<1>7. HashKept' /\ NoDeflatedUse' /\ LockCountExact'
    BY <1>0 DEF LockBusy, HashKept, NoDeflatedUse, LockCountExact, HeldBy, OwnsThin
<1> QED BY <1>1, <1>2, <1>3, <1>6, <1>7

LEMMA MonitorExitInv == ASSUME IInv, NEW t \in Threads, MonitorExit(t) PROVE IInv'
<1> USE WordForms, MonitorAssumption DEF IInv
<1>0. t \notin inWait /\ depth[t] > 0 /\ HeldBy(t) = depth[t] /\ pc[t] = "run"
    BY DEF MonitorExit, May, Places, Free, LockCountExact
<1>1. CASE OwnsThin(t)
    <2>1. /\ word' = IF word.count = 0 THEN Unlocked ELSE Thin(t, word.count - 1)
          /\ UNCHANGED <<owner, lockCount, pc>>
        BY ZenonT(30), <1>1 DEF MonitorExit, OwnsThin, Fat
    <2>2. TypeOK'
        BY SMT, <1>0, <1>1, <2>1 DEF MonitorExit, TypeOK, Words
    <2>3. Places'
        BY <1>0, <2>1 DEF MonitorExit, TypeOK, Places, Free, InCall, May
    <2>4. word # Fat /\ word' # Fat
        BY <1>1, <2>1 DEF OwnsThin, Fat, Thin, Unlocked
    <2>5. Owners' /\ WaitersExact' /\ NoDeflatedUse'
        BY <2>1, <2>4 DEF Owners, WaitersExact, NoDeflatedUse, MonitorExit
    <2>6. HashKept'
        BY <1>1, <2>1, <2>4 DEF HashKept, OwnsThin, MonitorExit, Thin, Unlocked
    <2>7. LockCountExact'
        BY SMT, <1>0, <1>1, <2>1, <2>4 DEF LockCountExact, HeldBy, OwnsThin, MonitorExit, Thin, Unlocked, TypeOK
    <2> QED BY <2>2, <2>3, <2>5, <2>6, <2>7
<1>2. CASE ~OwnsThin(t)
    <2>1. word = Fat /\ owner = t /\ depth[t] = lockCount + 1
        BY SMT, <1>0, <1>2 DEF HeldBy
    <2>2. \/ /\ lockCount = 0 /\ owner' = None /\ pc' = [pc EXCEPT ![t] = "signal"]
             /\ UNCHANGED <<word, lockCount>>
          \/ /\ lockCount > 0 /\ lockCount' = lockCount - 1 /\ UNCHANGED <<word, owner, pc>>
        <3>1. word.state # "thin" /\ (lockCount = 0 \/ lockCount > 0)
            BY SMT, <2>1 DEF Fat, TypeOK
        <3>2. CASE lockCount = 0
            BY <3>1, <3>2, <2>1 DEF MonitorExit
        <3>3. CASE lockCount > 0
            <4>1. lockCount # 0
                BY SMT, <3>3
            <4> QED BY <3>1, <3>3, <4>1, <2>1 DEF MonitorExit
        <3> QED BY <3>1, <3>2, <3>3
    <2>3. TypeOK'
        BY SMT, <1>0, <2>1, <2>2 DEF MonitorExit, TypeOK, Labels, Holding
    <2>4. Places'
        BY <1>0, <2>2 DEF MonitorExit, TypeOK, Places, Free, Waking, InCall
    <2>5. Owners'
        BY <2>1, <2>2 DEF MonitorExit, TypeOK, Owners, Holding
    <2>6. Blocked' = Blocked
        BY <1>0, <2>2 DEF TypeOK, Blocked, Counted
    <2>7. WaitersExact' /\ HashKept' /\ NoDeflatedUse'
        BY <2>1, <2>2, <2>6 DEF MonitorExit, WaitersExact, HashKept, NoDeflatedUse
    <2>8. LockCountExact'
        BY SMT, <1>0, <2>1, <2>2 DEF MonitorExit, LockCountExact, HeldBy, OwnsThin, Fat, TypeOK
    <2> QED BY <2>3, <2>4, <2>5, <2>7, <2>8
<1> QED BY <1>1, <1>2

LEMMA WaitInv == ASSUME IInv, NEW t \in Threads, Wait(t) PROVE IInv'
<1> USE MonitorAssumption DEF IInv
<1>0. /\ word = Fat /\ t \notin inWait /\ depth[t] > 0
      /\ owner = t /\ monitorLock = t /\ depth[t] = lockCount + 1
    BY SMT DEF Wait, Places, Free, InCall, LockCountExact, HeldBy, OwnsThin, Fat
<1>1. TypeOK'
    BY SMT DEF Wait, TypeOK, Labels, Holding
<1>2. Places'
    BY <1>0 DEF Wait, TypeOK, Places, Free, Waking, InCall
<1>3. Owners'
    BY <1>0 DEF Wait, TypeOK, Owners, Holding
<1>4. Blocked' = Blocked
    BY DEF Wait, TypeOK, Blocked, Counted
<1>5. Blocked \in SUBSET Threads /\ inWait \in SUBSET Threads
    BY DEF Blocked, TypeOK
<1>6. /\ Cardinality(Blocked) \in Nat /\ Cardinality(inWait) \in Nat
      /\ Cardinality(inWait \cup {t}) = Cardinality(inWait) + 1
    BY <1>0, <1>5, CardinalityStep
<1>7. WaitersExact'
    BY SMT, <1>0, <1>4, <1>6 DEF Wait, WaitersExact
<1>8. HashKept' /\ NoDeflatedUse'
    BY <1>0 DEF Wait, HashKept, NoDeflatedUse
<1>9. LockCountExact'
    BY SMT, <1>0 DEF Wait, LockCountExact, HeldBy, OwnsThin, Fat, TypeOK
<1> QED BY <1>1, <1>2, <1>3, <1>7, <1>8, <1>9

(* Whoever gets monitor_lock_ finds no owner, and becomes the owner with   *)
(* the recursion count it had, if it returns from Wait.                    *)
LEMMA AcquiredInv == ASSUME IInv, NEW t \in Threads, LockFree(t) \/ LockRunnable(t) PROVE IInv'
<1> USE MonitorAssumption DEF IInv
<1>0. word = Fat
    BY DEF LockFree, LockRunnable, NoDeflatedUse
<1>1. owner = None /\ monitorLock' = t /\ pc[t] \in {"lock", "locked"}
    BY <1>0 DEF LockFree, LockRunnable, Owners, Holding
<1>2. owner' = t /\ lockCount' = saved[t] /\ saved' = [saved EXCEPT ![t] = 0]
      /\ depth' = (IF t \in inWait THEN depth ELSE [depth EXCEPT ![t] = @ + 1])
      /\ inWait' = inWait \ {t} /\ pc' = [pc EXCEPT ![t] = "run"]
      /\ op' = [op EXCEPT ![t] = None]
      /\ UNCHANGED <<wordVars, hashCode>>
    BY DEF LockFree, LockRunnable, Acquired
<1>3. numWaiters' = (numWaiters - (IF pc[t] = "locked" THEN 1 ELSE 0))
                    - (IF t \in inWait THEN 1 ELSE 0)
    BY DEF LockFree, LockRunnable, Acquired
<1>4. TypeOK'
    BY SMT, <1>1, <1>2, <1>3 DEF TypeOK, Labels, Free
<1>5. Places'
    BY <1>1, <1>2 DEF TypeOK, Places, Free, Waking, InCall
<1>6. Owners'
    <2>1. \A u \in Threads \ {t} : pc[u] \notin Holding
        BY <1>0, <1>1 DEF LockFree, LockRunnable, Owners, Holding
    <2> QED BY <1>1, <1>2, <2>1 DEF TypeOK, Owners, Holding
<1>7. Blocked' = Blocked \ {t} /\ (t \in Blocked <=> pc[t] = "locked")
    BY <1>1, <1>2 DEF TypeOK, Blocked, Counted
<1>8. Blocked \in SUBSET Threads /\ inWait \in SUBSET Threads
    BY DEF Blocked, TypeOK
<1>9. /\ Cardinality(Blocked) \in Nat
      /\ t \in Blocked => Cardinality(Blocked \ {t}) = Cardinality(Blocked) - 1
    BY <1>8, CardinalityStep
<1>10. /\ Cardinality(inWait) \in Nat
       /\ t \in inWait => Cardinality(inWait \ {t}) = Cardinality(inWait) - 1
    BY <1>8, CardinalityStep
<1>11. Cardinality(Blocked') = Cardinality(Blocked) - IF pc[t] = "locked" THEN 1 ELSE 0
    <2>1. CASE t \in Blocked
        BY <2>1, <1>7, <1>9
    <2>2. CASE t \notin Blocked
        <3>1. Blocked' = Blocked /\ pc[t] # "locked"
            BY <2>2, <1>7
        <3> QED BY SMT, <3>1, <1>9
    <2> QED BY <2>1, <2>2
<1>12. Cardinality(inWait') = Cardinality(inWait) - IF t \in inWait THEN 1 ELSE 0
    <2>1. CASE t \in inWait
        BY <2>1, <1>2, <1>10
    <2>2. CASE t \notin inWait
        <3>1. inWait' = inWait
            BY <2>2, <1>2
        <3> QED BY SMT, <2>2, <3>1, <1>10
    <2> QED BY <2>1, <2>2
<1>13. WaitersExact'
    BY SMT, <1>0, <1>2, <1>3, <1>9, <1>10, <1>11, <1>12 DEF WaitersExact, TypeOK
<1>14. HashKept' /\ NoDeflatedUse'
    BY <1>0, <1>2 DEF HashKept, NoDeflatedUse
<1>15. LockCountExact'
    BY <1>0, <1>1, <1>2 DEF LockCountExact, HeldBy, OwnsThin, Fat, TypeOK, Places
<1> QED BY <1>4, <1>5, <1>6, <1>13, <1>14, <1>15

-----------------------------------------------------------------------------
(* The theorems.                                                           *)

LEMMA InitInv == Init => IInv
<1> SUFFICES ASSUME Init PROVE IInv
    OBVIOUS
<1> USE MonitorAssumption DEF Init
<1>1. TypeOK /\ Places
    BY SMT DEF TypeOK, Words, Labels, Free, Places, Waking, InCall
<1>2. Owners /\ WaitersExact /\ HashKept
    BY DEF Owners, WaitersExact, HashKept, Fat, Unlocked
<1>3. LockCountExact /\ NoDeflatedUse
    BY DEF LockCountExact, HeldBy, OwnsThin, Fat, Unlocked, NoDeflatedUse, Releasing
<1> QED BY <1>1, <1>2, <1>3 DEF IInv

LEMMA StepInv == IInv /\ [Next]_vars => IInv'
<1> SUFFICES ASSUME IInv, [Next]_vars PROVE IInv'
    OBVIOUS
<1>1. CASE Deflate
    BY <1>1, DeflateInv
<1>2. ASSUME NEW t \in Threads, Step(t) PROVE IInv'
    <2>1. CASE QuietStep(t)
        BY <2>1, QuietSteps, QuietInv
    <2>2. CASE ThinLock(t) \/ HashCode(t) \/ InflateOwn(t) \/ InflateOther(t)
        BY <2>2, ThinLockInv, HashCodeInv, InflateInv
    <2>3. CASE EnterFat(t) \/ WakeUp(t) \/ Wait(t) \/ MonitorExit(t)
        BY <2>3, EnterFatInv, WaitInv, MonitorExitInv
    <2>4. CASE LockFree(t) \/ LockAgain(t) \/ LockBusy(t) \/ LockBlocked(t) \/ LockRunnable(t)
        BY <2>4, AcquiredInv, LockAgainInv, LockBusyInv, MonitorLockInv
    <2>5. CASE CheckWaiting(t) \/ WakeCond(t) \/ NobodyToSignal(t)
        BY <2>5, MonitorLockInv
    <2> QED BY <1>2, <2>1, <2>2, <2>3, <2>4, <2>5 DEF Step, QuietStep
<1>3. ASSUME NEW t \in Threads, Choose(t) PROVE IInv'
    <2>1. QuietStep(t)
        BY <1>3 DEF Choose, QuietStep
    <2> QED BY <2>1, QuietSteps, QuietInv
<1>4. CASE UNCHANGED vars
    <2>1. Quiet
        BY <1>4 DEF vars, Quiet, Same, IInv, TypeOK, Places
    <2> QED BY <2>1, QuietInv
<1> QED BY <1>1, <1>2, <1>3, <1>4 DEF Next

(* The inductive invariant holds whatever the threads execute.             *)
THEOREM Invariance == Spec => []IInv
BY InitInv, StepInv, PTL DEF Spec

(* The lock word or the monitor counts exactly what MonitorEnter, Wait and *)
(* MonitorExit did, so that at most one thread is inside.                  *)
THEOREM LockCounted == Spec => []LockCountExact
<1>1. IInv => LockCountExact
    BY DEF IInv
<1> QED BY <1>1, Invariance, PTL

(* Monitor::Deflate never takes a monitor from under a thread that is at   *)
(* Lock, blocked, in Wait, or still in Unlock.                             *)
THEOREM DeflationSafe == Spec => []NoDeflatedUse
<1>1. IInv => NoDeflatedUse
    BY DEF IInv
<1> QED BY <1>1, Invariance, PTL

(* IdentityHashCode answers the same for ever: inflation and deflation     *)
(* carry the hash code along.                                              *)
THEOREM HashCodeStable == Spec => []OneHashCode
<1>1. IInv => OneHashCode
    BY WordForms DEF IInv, HashKept, OneHashCode
<1> QED BY <1>1, Invariance, PTL
=============================================================================
