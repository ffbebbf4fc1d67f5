------------------------ MODULE JitCodeCacheProofs ------------------------
(***************************************************************************)
(* The safety properties of JitCodeCache for any number of mutators,       *)
(* compilers and methods, any sizes of the cache and any depth of the      *)
(* stacks.                                                                 *)
(***************************************************************************)
EXTENDS JitCodeCache, SequenceTheorems, FiniteSetTheorems, TLAPS

-----------------------------------------------------------------------------
(* The inductive invariant.                                                *)

CollectLabels == {"collect", "checkpoint", "remove", "finish"}
GcLabels == {"gc", "gcWaited"} \cup CollectLabels
CompilingLabels == {"compile", "reserve", "commit", "publish", "free", "done"} \cup GcLabels
HolderLabels == {"commit", "publish", "free"}

Native(t) == Method(t) \in NativeMethods
Baseline(t) == Method(t) \in JavaMethods /\ Kind(t) = "baseline"

(* A compiler that is not idle has a task, and no two have the same; only  *)
(* baseline code of a Java method needs a ProfilingInfo.                   *)
HasTask(t) ==
    /\ pc[t] = "idle" => job[t] = NoJob
    /\ pc[t] # "idle" => Method(t) \in Methods /\ Kind(t) \in Kinds
    /\ Native(t) => Kind(t) = "optimized"
    /\ pc[t] \in {"profile", "profileAgain"} => Baseline(t)
    /\ pc[t] \in GcLabels =>
        job[t].then = "reserve" \/ (job[t].then = "profileAgain" /\ Baseline(t))
SameTask(t, u) == Method(t) # None /\ Method(t) = Method(u) /\ Kind(t) = Kind(u)
Tasks ==
    /\ \A mk \in compiling : mk[1] \in NativeMethods => mk[2] = "optimized"
    /\ \A t \in Compilers : HasTask(t)
    /\ \A t, u \in Compilers : t # u => ~SameTask(t, u)

(* Who holds jit_lock_, who collects and who waits: nobody collects while  *)
(* a compiler is inside Commit.                                            *)
Synchronised(t) ==
    /\ t \in waiting => pc[t] \in {"reserve", "commit", "gcWaited"}
    /\ pc[t] = "publish" => jitLock = t
    /\ pc[t] \in CollectLabels => collecting
Synchronisation ==
    /\ collecting => jitLock = None
    /\ \A t \in Compilers : Synchronised(t)
    /\ \A t, u \in Compilers :
        t # u => ~(pc[t] \in CollectLabels /\ pc[u] \in CollectLabels)

(* The addresses that compilers have reserved are free and their own.      *)
Reserved ==
    /\ \A t \in Compilers : pc[t] \in HolderLabels => job[t].at \in Addresses
    /\ \A t \in Compilers : job[t].at # None => code[job[t].at] = None
    /\ \A t, u \in Compilers : t # u /\ job[t].at # None => job[u].at # job[t].at

(* The entry of the stub: one compiler works on it, it has no code before  *)
(* that compiler commits, and that compiler, once it has committed the     *)
(* code, holds up every collection that might free it.                     *)
Sweeping == \E t \in Compilers : pc[t] = "remove"
AtStub(t) == Native(t) /\ pc[t] \in CompilingLabels
StubKnown(t) ==
    AtStub(t) => /\ stub # None /\ Method(t) \in stub.methods
                 /\ pc[t] # "done" => stub.code = None
                 /\ pc[t] = "done" /\ stub.code # None /\ Sweeping => t \in marking
Stub ==
    /\ Revived => code[stub.code] # None /\ code[stub.code].method \in NativeMethods
    /\ \A t \in Compilers : StubKnown(t)
    /\ \A t, u \in Compilers : t # u => ~(AtStub(t) /\ AtStub(u))

(* There is no OSR code of a method while some is compiled.                *)
OsrAbsent ==
    \A t \in Compilers :
        Kind(t) = "osr" /\ pc[t] \in CompilingLabels \ {"done"} => osr[Method(t)] = None

(* What a thread is about to run or runs.                                  *)
Holds(t, a, m) ==
    \/ hand[t] # None /\ hand[t].at = a /\ hand[t].method = m
    \/ \E i \in DOMAIN stack[t] : stack[t][i].at = a /\ stack[t][i].method = m

(* Between DoCollection and RemoveUnmarkedCode the entry points are marked *)
(* and, once it has run the checkpoint, what a thread holds.               *)
EntriesMarked ==
    (\E t \in Compilers : pc[t] \in {"checkpoint", "remove"}) =>
        /\ \A m \in Methods : entry[m] \in live \cup {None}
        /\ \A m \in JavaMethods : osr[m] \in live \cup {None}
HeldMarked ==
    Sweeping => \A t \in Mutators \ marking, a \in Addresses, m \in Methods :
                    Holds(t, a, m) => a \in live

(* Class hierarchy analysis: optimized code of Java methods depends on the *)
(* single implementation, and is registered as long as there is one; when  *)
(* there is none any more it is doomed, unless it came too late, and what  *)
(* is an entry point is still to be invalidated.                           *)
Relies(a) == code[a] # None /\ code[a].cha
ToCommit(t) == pc[t] = "publish" /\ job[t].cha
ChaKinds ==
    /\ \A a \in Addresses : Relies(a) => code[a].kind = "optimized" /\ code[a].method \in JavaMethods
    /\ \A t \in Compilers : job[t].cha => Kind(t) = "optimized" /\ Method(t) \in JavaMethods
    /\ \A m \in JavaMethods : osr[m] # None => code[osr[m]].kind = "osr"
Registered ==
    single =>
        /\ \A a \in Addresses : Relies(a) => <<code[a].method, a>> \in deps
        /\ \A t \in Compilers : ToCommit(t) => <<Method(t), job[t].at>> \in deps
Doomed ==
    ~single =>
        /\ \A a \in Addresses : Relies(a) => a \in doomed \cup unseen
        /\ \A t \in Compilers : ToCommit(t) => job[t].at \in unseen
        /\ \A m \in JavaMethods, a \in Addresses \ unseen :
            entry[m] = a /\ Relies(a) => <<m, a>> \in headers

(* The loader's progress, and what is left of such code on the stacks.     *)
Unflagged(t, a) ==
    \/ hand[t] # None /\ hand[t].at = a
    \/ \E i \in DOMAIN stack[t] : stack[t][i].at = a /\ ~stack[t][i].deoptimize
Progress ==
    /\ pc[Loader] # "idle" => ~single
    /\ pc[Loader] \in {"deoptimize", "linked"} => headers = {}
    /\ pc[Loader] \in {"deoptimize", "linked"} =>
        \A t \in Mutators, a \in Addresses \ unseen :
            Relies(a) /\ Unflagged(t, a) => pc[Loader] = "deoptimize" /\ t \in deoptimizing

Alive ==
    /\ \A m \in Methods : entry[m] # None => IsCodeOf(entry[m], m)
    /\ \A m \in JavaMethods : osr[m] # None => IsCodeOf(osr[m], m)
    /\ \A t \in Mutators, a \in Addresses, m \in Methods : Holds(t, a, m) => IsCodeOf(a, m)

IInv ==
    /\ TypeOK /\ Tasks /\ Synchronisation /\ Reserved /\ Stub /\ OsrAbsent
    /\ Alive /\ EntriesMarked /\ HeldMarked
    /\ ChaKinds /\ Registered /\ Doomed /\ Progress

(* Most steps need only first-order reasoning; SMT is cited where one needs *)
(* more.                                                                   *)
USE ZenonT(40)

-----------------------------------------------------------------------------
(* What the steps of a compiler change.                                    *)

(* The threads and the methods are apart, and None is none of them.        *)
LEMMA Apart ==
    /\ \A t \in Compilers : t # Loader /\ t \notin Mutators /\ t # None /\ t \in Threads
    /\ \A t \in Mutators : t # Loader /\ t \notin Compilers /\ t \in Threads
    /\ \A m \in NativeMethods : m \notin JavaMethods /\ m # None /\ m \in Methods
    /\ \A m \in JavaMethods : m \notin NativeMethods /\ m # None /\ m \in Methods
    /\ \A m \in Methods : m \in JavaMethods \/ m \in NativeMethods
    /\ \A a \in Addresses : a # None
    /\ \A k \in Kinds : k # None
    /\ None # "reserve" /\ None # "profileAgain" /\ Loader \in Threads
BY JitAssumption DEF Threads, Methods

(* Of the functions of compilers a step changes the value of one.          *)
LEMMA AllocatesFree == MayAllocate(Addresses \ Used) \subseteq Addresses \ Used
<1>1. Addresses \ Used \in SUBSET Addresses
  OBVIOUS
<1> QED  BY <1>1, JitAssumption

LEMMA Moved ==
    ASSUME TypeOK, NEW t \in Compilers \cup {Loader}, NEW l, Goto(t, l)
    PROVE  /\ pc'[t] = l
           /\ \A u \in (Compilers \cup {Loader}) \ {t} : pc'[u] = pc[u]
BY SMT DEF TypeOK, Goto

LEMMA SetAt ==
    ASSUME TypeOK, NEW t \in Compilers, NEW x, job' = [job EXCEPT ![t].at = x]
    PROVE  /\ \A u \in Compilers \ {t} : job'[u] = job[u]
           /\ job'[t].at = x /\ job'[t].method = job[t].method /\ job'[t].kind = job[t].kind
           /\ job'[t].cha = job[t].cha /\ job'[t].then = job[t].then
           /\ x \in Addresses \cup {None} => job' \in [Compilers -> Jobs]
<1>1. job \in [Compilers -> Jobs] /\ job[t] \in Jobs
  BY DEF TypeOK
<1>2. /\ \A u \in Compilers \ {t} : job'[u] = job[u]
      /\ job'[t] = [job[t] EXCEPT !.at = x] /\ DOMAIN job' = Compilers
  BY <1>1
<1>3. /\ [job[t] EXCEPT !.at = x].method = job[t].method /\ [job[t] EXCEPT !.at = x].kind = job[t].kind
      /\ [job[t] EXCEPT !.at = x].at = x /\ [job[t] EXCEPT !.at = x].cha = job[t].cha
      /\ [job[t] EXCEPT !.at = x].then = job[t].then
  BY <1>1 DEF Jobs
<1>4. x \in Addresses \cup {None} => [job[t] EXCEPT !.at = x] \in Jobs
  BY <1>1 DEF Jobs
<1>5. x \in Addresses \cup {None} => job' \in [Compilers -> Jobs]
  BY <1>1, <1>2, <1>4
<1> QED  BY <1>2, <1>3, <1>5

LEMMA SetThen ==
    ASSUME TypeOK, NEW t \in Compilers, NEW x, job' = [job EXCEPT ![t].then = x]
    PROVE  /\ \A u \in Compilers \ {t} : job'[u] = job[u]
           /\ job'[t].then = x /\ job'[t].method = job[t].method /\ job'[t].kind = job[t].kind
           /\ job'[t].cha = job[t].cha /\ job'[t].at = job[t].at
           /\ x \in {"reserve", "profileAgain", None} => job' \in [Compilers -> Jobs]
<1>1. job \in [Compilers -> Jobs] /\ job[t] \in Jobs
  BY DEF TypeOK
<1>2. /\ \A u \in Compilers \ {t} : job'[u] = job[u]
      /\ job'[t] = [job[t] EXCEPT !.then = x] /\ DOMAIN job' = Compilers
  BY <1>1
<1>3. /\ [job[t] EXCEPT !.then = x].method = job[t].method /\ [job[t] EXCEPT !.then = x].kind = job[t].kind
      /\ [job[t] EXCEPT !.then = x].at = job[t].at /\ [job[t] EXCEPT !.then = x].cha = job[t].cha
      /\ [job[t] EXCEPT !.then = x].then = x
  BY <1>1 DEF Jobs
<1>4. x \in {"reserve", "profileAgain", None} => [job[t] EXCEPT !.then = x] \in Jobs
  BY <1>1 DEF Jobs
<1>5. x \in {"reserve", "profileAgain", None} => job' \in [Compilers -> Jobs]
  BY <1>1, <1>2, <1>4
<1> QED  BY <1>2, <1>3, <1>5

LEMMA SetCha ==
    ASSUME TypeOK, NEW t \in Compilers, NEW x, job' = [job EXCEPT ![t].cha = x]
    PROVE  /\ \A u \in Compilers \ {t} : job'[u] = job[u]
           /\ job'[t].cha = x /\ job'[t].method = job[t].method /\ job'[t].kind = job[t].kind
           /\ job'[t].then = job[t].then /\ job'[t].at = job[t].at
           /\ x \in BOOLEAN => job' \in [Compilers -> Jobs]
<1>1. job \in [Compilers -> Jobs] /\ job[t] \in Jobs
  BY DEF TypeOK
<1>2. /\ \A u \in Compilers \ {t} : job'[u] = job[u]
      /\ job'[t] = [job[t] EXCEPT !.cha = x] /\ DOMAIN job' = Compilers
  BY <1>1
<1>3. /\ [job[t] EXCEPT !.cha = x].method = job[t].method /\ [job[t] EXCEPT !.cha = x].kind = job[t].kind
      /\ [job[t] EXCEPT !.cha = x].at = job[t].at /\ [job[t] EXCEPT !.cha = x].cha = x
      /\ [job[t] EXCEPT !.cha = x].then = job[t].then
  BY <1>1 DEF Jobs
<1>4. x \in BOOLEAN => [job[t] EXCEPT !.cha = x] \in Jobs
  BY <1>1 DEF Jobs
<1>5. x \in BOOLEAN => job' \in [Compilers -> Jobs]
  BY <1>1, <1>2, <1>4
<1> QED  BY <1>2, <1>3, <1>5

LEMMA SetTask ==
    ASSUME TypeOK, NEW t \in Compilers, NEW m \in Methods, NEW k \in Kinds,
           job' = [job EXCEPT ![t].method = m, ![t].kind = k]
    PROVE  /\ \A u \in Compilers \ {t} : job'[u] = job[u]
           /\ job'[t].method = m /\ job'[t].kind = k /\ job'[t].cha = job[t].cha
           /\ job'[t].then = job[t].then /\ job'[t].at = job[t].at
           /\ job' \in [Compilers -> Jobs]
<1>1. job \in [Compilers -> Jobs] /\ job[t] \in Jobs
  BY DEF TypeOK
<1>2. /\ \A u \in Compilers \ {t} : job'[u] = job[u]
      /\ job'[t] = [job[t] EXCEPT !.method = m, !.kind = k] /\ DOMAIN job' = Compilers
  BY <1>1
<1>3. /\ [job[t] EXCEPT !.method = m, !.kind = k].method = m /\ [job[t] EXCEPT !.method = m, !.kind = k].kind = k
      /\ [job[t] EXCEPT !.method = m, !.kind = k].at = job[t].at /\ [job[t] EXCEPT !.method = m, !.kind = k].cha = job[t].cha
      /\ [job[t] EXCEPT !.method = m, !.kind = k].then = job[t].then
  BY <1>1 DEF Jobs
<1>4. TRUE => [job[t] EXCEPT !.method = m, !.kind = k] \in Jobs
  BY <1>1 DEF Jobs
<1>5. TRUE => job' \in [Compilers -> Jobs]
  BY <1>1, <1>2, <1>4
<1> QED  BY <1>2, <1>3, <1>5

LEMMA SetNoJob ==
    ASSUME TypeOK, NEW t \in Compilers, job' = [job EXCEPT ![t] = NoJob]
    PROVE  /\ \A u \in Compilers \ {t} : job'[u] = job[u]
           /\ job'[t] = NoJob /\ job'[t].method = None /\ job'[t].kind = None
           /\ job'[t].cha = FALSE /\ job'[t].at = None
           /\ job' \in [Compilers -> Jobs]
BY SMT DEF TypeOK, Jobs, NoJob

LEMMA JobTyped ==
    ASSUME TypeOK, NEW t \in Compilers
    PROVE  /\ Method(t) \in Methods \cup {None} /\ Kind(t) \in Kinds \cup {None}
           /\ job[t].at \in Addresses \cup {None} /\ job[t].cha \in BOOLEAN
           /\ job[t].then \in {"reserve", "profileAgain", None}
           /\ pc[t] \in CompilerLabels \cup LoaderLabels
BY SMT DEF TypeOK, Jobs, Method, Kind

-----------------------------------------------------------------------------
(* What the steps of a mutator do to its stack.                            *)

LEMMA StackTyped ==
    ASSUME TypeOK, NEW t \in Mutators
    PROVE  /\ stack[t] \in Seq(Frames) /\ Len(stack[t]) \in Nat /\ DOMAIN stack[t] = 1..Len(stack[t])
           /\ \A i \in DOMAIN stack[t] : stack[t][i] \in Frames
           /\ hand[t] \in Targets \cup {None}
<1>1. stack[t] \in Seq(Frames) /\ hand[t] \in Targets \cup {None}
  BY DEF TypeOK
<1> QED  BY <1>1, LenProperties, ElementOfSeq

LEMMA Pushed ==
    ASSUME TypeOK, NEW t \in Mutators, NEW f \in Frames,
           stack' = [stack EXCEPT ![t] = Append(@, f)]
    PROVE  /\ stack' \in [Mutators -> Seq(Frames)]
           /\ \A u \in Mutators \ {t} : stack'[u] = stack[u]
           /\ \A i \in DOMAIN stack'[t] :
                stack'[t][i] = f \/ (i \in DOMAIN stack[t] /\ stack'[t][i] = stack[t][i])
<1>1. stack[t] \in Seq(Frames) /\ Len(stack[t]) \in Nat /\ DOMAIN stack[t] = 1..Len(stack[t])
  BY StackTyped
<1>2. /\ stack'[t] = Append(stack[t], f) /\ DOMAIN stack' = Mutators
      /\ \A u \in Mutators \ {t} : stack'[u] = stack[u] /\ stack[u] \in Seq(Frames)
  BY DEF TypeOK
<1>3. /\ stack'[t] \in Seq(Frames) /\ Len(stack'[t]) = Len(stack[t]) + 1
      /\ \A i \in 1..Len(stack[t]) : stack'[t][i] = stack[t][i]
      /\ stack'[t][Len(stack[t]) + 1] = f
  BY SMT, <1>1, <1>2, AppendProperties
<1>4. DOMAIN stack'[t] = 1..(Len(stack[t]) + 1)
  BY <1>3, LenProperties
<1>5. \A i \in 1..(Len(stack[t]) + 1) : i \in 1..Len(stack[t]) \/ i = Len(stack[t]) + 1
  BY SMT, <1>1
<1>6. stack' \in [Mutators -> Seq(Frames)]
  BY <1>2, <1>3 DEF TypeOK
<1> QED  BY <1>1, <1>2, <1>3, <1>4, <1>5, <1>6

LEMMA Popped ==
    ASSUME TypeOK, NEW t \in Mutators, stack[t] # <<>>, Pop(t)
    PROVE  /\ stack' \in [Mutators -> Seq(Frames)]
           /\ \A u \in Mutators \ {t} : stack'[u] = stack[u]
           /\ \A i \in DOMAIN stack'[t] : i \in DOMAIN stack[t] /\ stack'[t][i] = stack[t][i]
           /\ Len(stack[t]) \in DOMAIN stack[t] /\ Top(t) \in Frames
<1> DEFINE n == Len(stack[t])
<1>1. stack[t] \in Seq(Frames) /\ n \in Nat \ {0} /\ DOMAIN stack[t] = 1..n
  BY StackTyped, EmptySeq
<1>2. /\ stack'[t] = SubSeq(stack[t], 1, n - 1) /\ DOMAIN stack' = Mutators
      /\ \A u \in Mutators \ {t} : stack'[u] = stack[u] /\ stack[u] \in Seq(Frames)
  BY DEF TypeOK, Pop
<1>3. n \in DOMAIN stack[t] /\ 1 \in Int /\ n - 1 \in Int /\ 1..(n - 1) \subseteq 1..n /\ (n - 1) - 1 + 1 = n - 1
  BY SMT, <1>1
<1>4. \A i \in 1..n : stack[t][i] \in Frames
  BY <1>1, ElementOfSeq
<1>5. /\ stack'[t] \in Seq(Frames)
      /\ Len(stack'[t]) = IF 1 <= n - 1 THEN (n - 1) - 1 + 1 ELSE 0
      /\ \A i \in 1..((n - 1) - 1 + 1) : stack'[t][i] = stack[t][1 + i - 1]
  BY SMT, <1>2, <1>3, <1>4, SubSeqProperties
<1>6. Len(stack'[t]) = n - 1
  BY SMT, <1>1, <1>5
<1>7. \A i \in 1..(n - 1) : 1 + i - 1 = i /\ i \in 1..n
  BY SMT, <1>1
<1>8. DOMAIN stack'[t] = 1..(n - 1)
  BY <1>5, <1>6, LenProperties
<1>9. \A i \in DOMAIN stack'[t] : i \in DOMAIN stack[t] /\ stack'[t][i] = stack[t][i]
  BY <1>1, <1>3, <1>5, <1>7, <1>8
<1>10. stack' \in [Mutators -> Seq(Frames)]
  BY <1>2, <1>5 DEF TypeOK, Pop
<1> QED  BY <1>1, <1>2, <1>3, <1>4, <1>9, <1>10 DEF Top

(* The CHACheckpoint sets flags in place.                                  *)
LEMMA Flagged ==
    ASSUME TypeOK, NEW t \in Threads, RunCHACheckpoint(t)
    PROVE  /\ stack' \in [Mutators -> Seq(Frames)]
           /\ \A u \in Mutators :
                /\ DOMAIN stack'[u] = DOMAIN stack[u]
                /\ \A i \in DOMAIN stack[u] :
                    /\ stack'[u][i].at = stack[u][i].at /\ stack'[u][i].method = stack[u][i].method
                    /\ stack[u][i].deoptimize => stack'[u][i].deoptimize
                    /\ u = t /\ MustDeoptimize(stack[u][i]) => stack'[u][i].deoptimize
<1> DEFINE flag(f) == [f EXCEPT !.deoptimize = TRUE]
<1>1. \A f \in Frames : /\ flag(f) \in Frames /\ flag(f).at = f.at /\ flag(f).method = f.method
                        /\ flag(f).deoptimize
  BY DEF Frames
<1>2. \A u \in Mutators : DOMAIN stack'[u] = DOMAIN stack[u] /\ DOMAIN stack' = Mutators
  BY DEF RunCHACheckpoint
<1>3. \A u \in Mutators : \A i \in DOMAIN stack[u] :
        stack'[u][i] = IF u = t /\ MustDeoptimize(stack[u][i]) THEN flag(stack[u][i]) ELSE stack[u][i]
  BY DEF RunCHACheckpoint
<1> HIDE DEF flag
<1>4. \A u \in Mutators : /\ Len(stack[u]) \in Nat /\ DOMAIN stack[u] = 1..Len(stack[u])
                          /\ \A i \in DOMAIN stack[u] : stack[u][i] \in Frames
  BY StackTyped
<1>5. \A u \in Mutators : stack'[u] \in [1..Len(stack[u]) -> Frames]
  <2> TAKE u \in Mutators
  <2>1. stack'[u] = [i \in DOMAIN stack[u] |-> stack'[u][i]]
    BY DEF RunCHACheckpoint
  <2>2. \A i \in DOMAIN stack[u] : stack'[u][i] \in Frames
    BY <1>1, <1>3, <1>4
  <2> QED  BY <1>4, <2>1, <2>2
<1>6. \A u \in Mutators : stack'[u] \in Seq(Frames)
  BY SMT, <1>4, <1>5 DEF Seq
<1>7. stack' \in [Mutators -> Seq(Frames)]
  <2>1. stack' = [u \in Mutators |-> stack'[u]]
    BY DEF RunCHACheckpoint
  <2> QED  BY <2>1, <1>6
<1> QED  BY <1>1, <1>2, <1>3, <1>4, <1>7

-----------------------------------------------------------------------------
(* Types.                                                                  *)
USE DEF cacheVars, sizeVars, gcVars, chaVars, mutatorVars, compilerVars

LEMMA InitType == Init => TypeOK
<1> SUFFICES ASSUME Init PROVE TypeOK
  OBVIOUS
<1>1. /\ NoJob \in Jobs /\ InitialCapacity \in Addresses
      /\ <<>> \in Seq(Frames)
  BY SMT, JitAssumption DEF NoJob, Jobs
<1>2. tasks \in [Methods -> Nat] /\ garbageCollect \in BOOLEAN /\ single \in BOOLEAN
  BY SMT, JitAssumption DEF Init
<1>3. /\ "idle" \in CompilerLabels /\ "none" \in {"none", "unchanged", "changed"}
  BY DEF CompilerLabels
<1>4. /\ entry \in [Methods -> Addresses \cup {None}] /\ osr \in [JavaMethods -> Addresses \cup {None}]
      /\ code \in [Addresses -> Codes \cup {None}]
      /\ profile \in [JavaMethods -> {"none", "unchanged", "changed"}]
  BY <1>3 DEF Init
<1>5. /\ pc \in [Compilers \cup {Loader} -> CompilerLabels \cup LoaderLabels]
      /\ job \in [Compilers -> Jobs]
  BY <1>1, <1>3 DEF Init
<1>6. hand \in [Mutators -> Targets \cup {None}] /\ stack \in [Mutators -> Seq(Frames)]
  BY <1>1 DEF Init
<1> QED  BY <1>1, <1>2, <1>4, <1>5, <1>6 DEF Init, TypeOK

LEMMA MovedTyped ==
    ASSUME TypeOK, NEW t \in Compilers \cup {Loader}, NEW l \in CompilerLabels \cup LoaderLabels,
           Goto(t, l)
    PROVE  pc' \in [Compilers \cup {Loader} -> CompilerLabels \cup LoaderLabels]
BY DEF TypeOK, Goto

LEMMA MutatorTypes ==
    ASSUME TypeOK, NEW t \in Mutators, Mutate(t)
    PROVE  TypeOK'
<1>1. CASE Enter(t)
  <2>1. hand[t] \in Targets
    BY <1>1, StackTyped DEF Enter
  <2>2. [at |-> hand[t].at, method |-> hand[t].method, deoptimize |-> FALSE] \in Frames
    BY <2>1 DEF Targets, Frames
  <2>3. stack' \in [Mutators -> Seq(Frames)]
    BY <1>1, <2>2, Pushed DEF Enter
  <2>4. hand' \in [Mutators -> Targets \cup {None}]
    BY <1>1 DEF Enter, TypeOK
  <2>5. profile' \in [JavaMethods -> {"none", "unchanged", "changed"}]
    BY <1>1 DEF Enter, TypeOK
  <2> QED  BY <1>1, <2>3, <2>4, <2>5 DEF Enter, TypeOK
<1>2. CASE Return(t)
  BY <1>2, Popped DEF Return, InFrame, TypeOK
<1>3. CASE Deoptimize(t)
  <2>1. stack' \in [Mutators -> Seq(Frames)]
    BY <1>3, Popped DEF Deoptimize, InFrame
  <2>2. entry' \in [Methods -> Addresses \cup {None}] /\ osr' \in [JavaMethods -> Addresses \cup {None}]
    BY <1>3 DEF Deoptimize, ResetEntry, EraseOsr, TypeOK
  <2> QED  BY <1>3, <2>1, <2>2 DEF Deoptimize, ResetEntry, EraseOsr, TypeOK
<1>4. CASE EnqueueOptimizedCompilation(t)
  <2>1. Top(t).method \in Methods
    <3>1. Len(stack[t]) \in DOMAIN stack[t]
      BY SMT, <1>4, StackTyped, EmptySeq DEF EnqueueOptimizedCompilation, InFrame
    <3> QED  BY <3>1, StackTyped DEF Top, Frames
  <2>2. compiling' \subseteq Methods \X Kinds
    BY SMT, <1>4, <2>1 DEF EnqueueOptimizedCompilation, AddCompileTask, TypeOK, Kinds
  <2>3. tasks' \in [Methods -> Nat]
    <3>1. tasks[Top(t).method] - 1 \in Nat
      BY SMT, <1>4, <2>1 DEF EnqueueOptimizedCompilation, AddCompileTask, TypeOK
    <3> QED  BY <1>4, <3>1 DEF EnqueueOptimizedCompilation, AddCompileTask, TypeOK
  <2>4. profile' \in [JavaMethods -> {"none", "unchanged", "changed"}]
    BY <1>4 DEF EnqueueOptimizedCompilation, TypeOK
  <2> QED
    BY <1>4, <2>2, <2>3, <2>4 DEF EnqueueOptimizedCompilation, AddCompileTask, TypeOK
<1>5. ASSUME NEW m \in Methods, Invoke(t, m) PROVE TypeOK'
  <2>1. entry[m] \in Addresses
    BY <1>5 DEF Invoke, TypeOK
  <2>2. [at |-> entry[m], method |-> m] \in Targets
    BY <2>1 DEF Targets
  <2>3. hand' \in [Mutators -> Targets \cup {None}]
    BY <1>5, <2>2 DEF Invoke, TypeOK
  <2> QED  BY <1>5, <2>3 DEF Invoke, TypeOK
<1>6. ASSUME NEW m \in JavaMethods, PrepareForOsr(t, m) PROVE TypeOK'
  <2>1. osr[m] \in Addresses /\ m \in Methods
    BY <1>6 DEF PrepareForOsr, TypeOK, Methods
  <2>2. [at |-> osr[m], method |-> m] \in Targets
    BY <2>1 DEF Targets
  <2>3. hand' \in [Mutators -> Targets \cup {None}]
    BY <1>6, <2>2 DEF PrepareForOsr, TypeOK
  <2> QED  BY <1>6, <2>3 DEF PrepareForOsr, TypeOK
<1> QED  BY <1>1, <1>2, <1>3, <1>4, <1>5, <1>6 DEF Mutate

LEMMA EnqueueTypes ==
    ASSUME TypeOK, NEW m \in Methods, MaybeEnqueueCompilation(m)
    PROVE  TypeOK'
<1>1. PICK kind \in Kinds : AddCompileTask(m, kind)
  BY DEF MaybeEnqueueCompilation, Kinds
<1>2. compiling' \subseteq Methods \X Kinds
  BY SMT, <1>1 DEF AddCompileTask, TypeOK
<1>3. tasks[m] - 1 \in Nat
  BY SMT, <1>1 DEF AddCompileTask, TypeOK
<1>4. tasks' \in [Methods -> Nat]
  BY <1>1, <1>3 DEF AddCompileTask, TypeOK
<1> QED  BY <1>1, <1>2, <1>4 DEF MaybeEnqueueCompilation, AddCompileTask, TypeOK

LEMMA LoaderTypes ==
    ASSUME TypeOK, LinkClass \/ LoaderStep
    PROVE  TypeOK'
<1> DEFINE PCs == [Compilers \cup {Loader} -> CompilerLabels \cup LoaderLabels]
<1>0. \A l \in LoaderLabels : Goto(Loader, l) => pc' \in PCs
  BY MovedTyped
<1> HIDE DEF PCs
<1>1. CASE LinkClass
  <2>1. pc' \in PCs
    BY <1>0, <1>1 DEF LinkClass, LoaderLabels
  <2>2. \A d \in deps : d[2] \in Addresses
    BY SMT DEF TypeOK
  <2>3. headers' = deps /\ deps' = {} /\ doomed' \subseteq Addresses /\ unseen' \subseteq Addresses
    BY <1>1, <2>2 DEF LinkClass
  <2> QED  BY <1>1, <2>1, <2>3 DEF LinkClass, TypeOK, PCs
<1>2. CASE InvalidateCompiledCodeFor
  <2>1. PICK d \in headers :
          /\ headers' = headers \ {d}
          /\ IF IsEntryPoint(d[1], d[2])
             THEN ResetEntry(d[1]) /\ UNCHANGED <<pc, header>>
             ELSE header' = d /\ Goto(Loader, "invalidateOsr") /\ UNCHANGED cacheVars
    BY <1>2 DEF InvalidateCompiledCodeFor
  <2>2. pc' \in PCs
    BY <1>0, <2>1 DEF LoaderLabels, TypeOK, PCs
  <2>3. entry' \in [Methods -> Addresses \cup {None}]
    BY <2>1 DEF ResetEntry, TypeOK
  <2>4. /\ headers' \subseteq JavaMethods \X Addresses
        /\ header' \in (JavaMethods \X Addresses) \cup {None}
    BY <2>1 DEF TypeOK
  <2> QED  BY <1>2, <2>1, <2>2, <2>3, <2>4 DEF InvalidateCompiledCodeFor, ResetEntry, TypeOK, PCs
<1>3. CASE InvalidateOsrCode
  <2>1. pc' \in PCs
    BY <1>0, <1>3 DEF InvalidateOsrCode, LoaderLabels
  <2>2. osr' \in [JavaMethods -> Addresses \cup {None}]
    BY <1>3 DEF InvalidateOsrCode, EraseOsr, TypeOK
  <2> QED  BY <1>3, <2>1, <2>2 DEF InvalidateOsrCode, EraseOsr, TypeOK, PCs
<1>4. CASE RequestDeoptimization
  <2>1. pc' \in PCs
    BY <1>0, <1>4 DEF RequestDeoptimization, LoaderLabels
  <2> QED  BY <1>4, <2>1 DEF RequestDeoptimization, TypeOK, PCs
<1>5. CASE Linked
  <2>1. pc' \in PCs
    BY <1>0, <1>5 DEF Linked, LoaderLabels
  <2> QED  BY <1>5, <2>1 DEF Linked, TypeOK, PCs
<1> QED  BY <1>1, <1>2, <1>3, <1>4, <1>5 DEF LoaderStep

LEMMA CheckpointTypes ==
    ASSUME TypeOK, NEW t \in Threads, RunCheckpoint(t)
    PROVE  TypeOK'
<1>1. CASE RunMarkCodeClosure(t)
  <2>1. OnStack(t) \subseteq Addresses
    BY StackTyped DEF OnStack, Frames
  <2> QED  BY <1>1, <2>1 DEF RunMarkCodeClosure, TypeOK
<1>2. CASE RunCHACheckpoint(t)
  BY <1>2, Flagged DEF RunCHACheckpoint, TypeOK
<1> QED  BY <1>1, <1>2 DEF RunCheckpoint

LEMMA IncreasedTyped ==
    ASSUME TypeOK
    PROVE  Increased \in Addresses
BY SMT, JitAssumption DEF TypeOK, Increased, Smaller, Addresses

LEMMA TaskTypes ==
    ASSUME TypeOK, NEW t \in Compilers, HasTask(t),
           \/ RunTask(t) \/ NotifyCompilationOf(t) \/ RegisterNative(t) \/ RegisterJava(t)
           \/ AddProfilingInfo(t) \/ Compile(t) \/ WaitForCollection(t) \/ Free(t)
           \/ DoneCompiling(t) \/ RemoveMethodBeingCompiled(t)
    PROVE  TypeOK'
<1> DEFINE PCs == [Compilers \cup {Loader} -> CompilerLabels \cup LoaderLabels]
<1>0. \A l \in CompilerLabels : Goto(t, l) => pc' \in PCs
  BY MovedTyped
<1> HIDE DEF PCs
<1>1. CASE RunTask(t)
  <2>1. PICK mk \in compiling : job' = [job EXCEPT ![t].method = mk[1], ![t].kind = mk[2]]
    BY <1>1 DEF RunTask
  <2>2. mk[1] \in Methods /\ mk[2] \in Kinds
    BY SMT DEF TypeOK
  <2>3. job' \in [Compilers -> Jobs]
    BY <2>1, <2>2, SetTask
  <2>4. pc' \in PCs
    BY <1>0, <1>1 DEF RunTask, CompilerLabels
  <2> QED  BY <1>1, <2>3, <2>4 DEF RunTask, TypeOK, PCs
<1>2. CASE NotifyCompilationOf(t)
  <2>1. pc' \in PCs
    BY <1>0, <1>2 DEF NotifyCompilationOf, CompilerLabels
  <2> QED  BY <1>2, <2>1 DEF NotifyCompilationOf, TypeOK, PCs
<1>3. CASE RegisterNative(t)
  <2>1. pc' \in PCs
    BY <1>0, <1>3 DEF RegisterNative, CompilerLabels
  <2>2. stub # None => stub.code \in Addresses \cup {None} /\ stub.methods \subseteq NativeMethods
    BY DEF TypeOK, Stubs
  <2>3. stub' \in Stubs
    BY <1>3, <2>2 DEF RegisterNative, Stubs
  <2>4. entry' \in [Methods -> Addresses \cup {None}]
    BY <1>3, <2>2 DEF RegisterNative, Revived, TypeOK
  <2>5. live' \subseteq Addresses
    BY <1>3, <2>2 DEF RegisterNative, ReviveMarks, Revived, TypeOK
  <2> QED  BY <1>3, <2>1, <2>3, <2>4, <2>5 DEF RegisterNative, TypeOK, PCs
<1>4. CASE RegisterJava(t)
  <2>1. pc' \in PCs
    BY <1>0, <1>4 DEF RegisterJava, CompilerLabels
  <2> QED  BY <1>4, <2>1 DEF RegisterJava, TypeOK, PCs
<1>5. CASE AddProfilingInfo(t)
  <2>1. pc' \in PCs
    BY <1>0, <1>5 DEF AddProfilingInfo, CompilerLabels
  <2>2. profile' \in [JavaMethods -> {"none", "unchanged", "changed"}]
    BY <1>5 DEF AddProfilingInfo, TypeOK
  <2>3. job' \in [Compilers -> Jobs]
    BY <1>5, SetThen DEF AddProfilingInfo, TypeOK
  <2> QED  BY <1>5, <2>1, <2>2, <2>3 DEF AddProfilingInfo, TypeOK, PCs
<1>6. CASE Compile(t)
  <2>1. pc' \in PCs
    BY <1>0, <1>6 DEF Compile, CompilerLabels
  <2>2. job' \in [Compilers -> Jobs]
    BY <1>6, SetCha DEF Compile
  <2> QED  BY <1>6, <2>1, <2>2 DEF Compile, TypeOK, PCs
<1>7. CASE WaitForCollection(t)
  <2>1. pc' \in PCs
    BY <1>0, <1>7 DEF WaitForCollection, CompilerLabels
  <2> QED  BY <1>7, <2>1 DEF WaitForCollection, TypeOK, PCs
<1>8. CASE Free(t)
  <2>1. pc' \in PCs
    BY <1>0, <1>8 DEF Free, CompilerLabels
  <2>2. job' \in [Compilers -> Jobs]
    BY <1>8, SetAt DEF Free
  <2> QED  BY <1>8, <2>1, <2>2 DEF Free, TypeOK, PCs
<1>9. CASE DoneCompiling(t)
  <2>1. pc' \in PCs
    BY <1>0, <1>9 DEF DoneCompiling, CompilerLabels
  <2> QED  BY <1>9, <2>1 DEF DoneCompiling, TypeOK, PCs
<1>10. CASE RemoveMethodBeingCompiled(t)
  <2>1. pc' \in PCs
    BY <1>0, <1>10 DEF RemoveMethodBeingCompiled, CompilerLabels
  <2>2. job' \in [Compilers -> Jobs]
    BY <1>10, SetNoJob DEF RemoveMethodBeingCompiled
  <2> QED  BY <1>10, <2>1, <2>2 DEF RemoveMethodBeingCompiled, TypeOK, PCs
<1> QED  BY <1>1, <1>2, <1>3, <1>4, <1>5, <1>6, <1>7, <1>8, <1>9, <1>10

LEMMA CacheTypes ==
    ASSUME IInv, NEW t \in Compilers,
           \/ Reserve(t) \/ Commit(t) \/ Publish(t) \/ CollectedByOther(t)
           \/ GarbageCollectCache(t) \/ DoCollection(t) \/ MarkCompiledCodeOnThreadStacks(t)
           \/ RemoveUnmarkedCode(t) \/ FinishCollection(t)
    PROVE  TypeOK'
<1> DEFINE PCs == [Compilers \cup {Loader} -> CompilerLabels \cup LoaderLabels]
<1>a. TypeOK /\ HasTask(t)
  BY DEF IInv, Tasks
<1>0. \A l \in CompilerLabels : Goto(t, l) => pc' \in PCs
  BY <1>a, MovedTyped
<1>b. pc[t] \in GcLabels => job[t].then \in CompilerLabels
  BY <1>a DEF HasTask, CompilerLabels
<1>c. pc[t] \in HolderLabels => job[t].at \in Addresses
  BY DEF IInv, Reserved
<1>d. pc[t] # "idle" => Method(t) \in Methods /\ Kind(t) \in Kinds
  BY <1>a DEF HasTask
<1> HIDE DEF PCs
<1>1. CASE Reserve(t)
  <2>1. pc' \in PCs
    BY <1>0, <1>1 DEF Reserve, CompilerLabels
  <2>2. job' \in [Compilers -> Jobs]
    <3>1. CASE \E a \in MayAllocate(Addresses \ Used) : job' = [job EXCEPT ![t].at = a]
      BY <3>1, <1>a, SetAt, AllocatesFree
    <3>2. CASE job' = [job EXCEPT ![t].then = IF IsAtMaxCapacity THEN None ELSE "reserve"]
      BY <3>2, <1>a, SetThen
    <3> QED  BY <1>1, <3>1, <3>2 DEF Reserve
  <2> QED  BY <1>1, <1>a, <2>1, <2>2 DEF Reserve, TypeOK, PCs
<1>2. CASE Commit(t)
  <2>1. pc' \in PCs
    BY <1>0, <1>2 DEF Commit, CompilerLabels
  <2>2. deps' \subseteq JavaMethods \X Addresses
    <3>1. job[t].cha => <<Method(t), job[t].at>> \in JavaMethods \X Addresses
      BY SMT, <1>2, <1>c DEF Commit, Ready, HolderLabels, IInv, ChaKinds
    <3> QED  BY <1>2, <1>a, <3>1 DEF Commit, TypeOK
  <2> QED  BY <1>2, <1>a, <2>1, <2>2 DEF Commit, TypeOK, PCs
<1>3. CASE Publish(t)
  <2> DEFINE a == job[t].at
  <2> DEFINE m == Method(t)
  <2>1. pc' \in PCs
    BY <1>0, <1>3 DEF Publish, CompilerLabels
  <2>2. a \in Addresses /\ m \in Methods /\ Kind(t) \in Kinds /\ job[t].cha \in BOOLEAN
    BY <1>3, <1>a, <1>c, <1>d, JobTyped DEF Publish, HolderLabels
  <2>3. job' \in [Compilers -> Jobs]
    BY <1>3, <1>a, SetAt DEF Publish
  <2>4. code' \in [Addresses -> Codes \cup {None}]
    <3>1. [method |-> m, kind |-> Kind(t), cha |-> job[t].cha] \in Codes
      BY <2>2 DEF Codes
    <3> QED  BY <1>3, <1>a, <2>2, <3>1 DEF Publish, TypeOK
  <2>5. stub' \in Stubs \cup {None}
    <3>1. m \in NativeMethods => stub \in Stubs
      BY <1>3, <1>a DEF Publish, TypeOK, IInv, Stub, StubKnown, AtStub, Native, CompilingLabels
    <3>2. stub \in Stubs => [stub EXCEPT !.code = a] \in Stubs
      BY <2>2 DEF Stubs
    <3> QED  BY <1>3, <1>a, <3>1, <3>2 DEF Publish, TypeOK
  <2>6. osr' \in [JavaMethods -> Addresses \cup {None}]
    BY <1>3, <1>a, <2>2 DEF Publish, TypeOK
  <2>7. entry' \in [Methods -> Addresses \cup {None}]
    BY <1>3, <1>a, <2>2 DEF Publish, TypeOK
  <2>8. live' \subseteq Addresses
    BY <1>3, <1>a, <2>2 DEF Publish, TypeOK
  <2> QED
    BY <1>3, <1>a, <2>1, <2>3, <2>4, <2>5, <2>6, <2>7, <2>8 DEF Publish, TypeOK, PCs
<1>4. CASE CollectedByOther(t)
  <2>1. pc' \in PCs
    BY <1>0, <1>4, <1>b DEF CollectedByOther, Ready, GcLabels
  <2> QED  BY <1>4, <1>a, <2>1 DEF CollectedByOther, TypeOK, PCs
<1>5. CASE GarbageCollectCache(t)
  <2>1. pc' \in PCs
    BY <1>0, <1>5, <1>b DEF GarbageCollectCache, Ready, GcLabels, CompilerLabels
  <2>2. capacity' \in Addresses /\ collecting' \in BOOLEAN /\ live' \subseteq Addresses
    BY <1>5, <1>a, IncreasedTyped DEF GarbageCollectCache, TypeOK
  <2> QED  BY <1>5, <1>a, <2>1, <2>2 DEF GarbageCollectCache, TypeOK, PCs
<1>6. CASE DoCollection(t)
  <2>1. pc' \in PCs
    BY <1>0, <1>6 DEF DoCollection, CompilerLabels
  <2>2. entry' \in [Methods -> Addresses \cup {None}] /\ osr' \in [JavaMethods -> Addresses \cup {None}]
    BY <1>6, <1>a DEF DoCollection, WarmEntries, NoOsr, TypeOK
  <2>3. live' \subseteq Addresses
    <3>1. \A m \in Methods : WarmEntries[m] \in Addresses \cup {None}
      BY <1>a DEF WarmEntries, TypeOK
    <3> QED  BY <1>6, <1>a, <3>1 DEF DoCollection, TypeOK
  <2> QED  BY <1>6, <1>a, <2>1, <2>2, <2>3 DEF DoCollection, TypeOK, PCs
<1>7. CASE MarkCompiledCodeOnThreadStacks(t)
  <2>1. pc' \in PCs
    BY <1>0, <1>7 DEF MarkCompiledCodeOnThreadStacks, CompilerLabels
  <2> QED  BY <1>7, <1>a, <2>1 DEF MarkCompiledCodeOnThreadStacks, TypeOK, PCs
<1>8. CASE RemoveUnmarkedCode(t)
  <2>1. pc' \in PCs
    BY <1>0, <1>8 DEF RemoveUnmarkedCode, CompilerLabels
  <2>2. code' \in [Addresses -> Codes \cup {None}]
    BY <1>8, <1>a DEF RemoveUnmarkedCode, TypeOK
  <2>3. stub' \in Stubs \cup {None} /\ deps' \subseteq JavaMethods \X Addresses
    BY <1>8, <1>a DEF RemoveUnmarkedCode, KeptStub, TypeOK
  <2> QED  BY <1>8, <1>a, <2>1, <2>2, <2>3 DEF RemoveUnmarkedCode, TypeOK, PCs
<1>9. CASE FinishCollection(t)
  <2>1. pc' \in PCs
    BY <1>0, <1>9, <1>b DEF FinishCollection, Ready, GcLabels, CollectLabels
  <2>2. capacity' \in Addresses /\ lastIncreased' \in BOOLEAN
    BY <1>9, <1>a, IncreasedTyped DEF FinishCollection, TypeOK
  <2>3. profile' \in [JavaMethods -> {"none", "unchanged", "changed"}]
    BY <1>9, <1>a DEF FinishCollection, TypeOK
  <2>4. entry' \in [Methods -> Addresses \cup {None}]
    BY <1>9, <1>a DEF FinishCollection, TypeOK
  <2>5. collecting' \in BOOLEAN /\ live' \subseteq Addresses /\ waiting' \subseteq Compilers
    BY <1>9 DEF FinishCollection
  <2> QED  BY <1>9, <1>a, <2>1, <2>2, <2>3, <2>4, <2>5 DEF FinishCollection, TypeOK, PCs
<1> QED  BY <1>1, <1>2, <1>3, <1>4, <1>5, <1>6, <1>7, <1>8, <1>9

-----------------------------------------------------------------------------
(* Where the steps of a compiler lead.                                     *)

Others(t) ==
    /\ \A u \in Compilers \ {t} : pc'[u] = pc[u] /\ job'[u] = job[u]
    /\ pc'[Loader] = pc[Loader]

LEMMA CompilerMoves ==
    ASSUME TypeOK, NEW t \in Compilers, RunTask(t) \/ CompilerStep(t)
    PROVE  Others(t)
<1>0. \A l : Goto(t, l) =>
        pc'[Loader] = pc[Loader] /\ \A u \in Compilers \ {t} : pc'[u] = pc[u]
  BY Moved, Apart
<1>1. ASSUME job' = job, NEW l, Goto(t, l) PROVE Others(t)
  BY <1>0, <1>1 DEF Others
<1>2. CASE RunTask(t)
  <2>1. PICK mk \in compiling : job' = [job EXCEPT ![t].method = mk[1], ![t].kind = mk[2]]
    BY <1>2 DEF RunTask
  <2>2. mk[1] \in Methods /\ mk[2] \in Kinds
    BY SMT DEF TypeOK
  <2>3. \A u \in Compilers \ {t} : job'[u] = job[u]
    BY <2>1, <2>2, SetTask
  <2> QED  BY <1>0, <1>2, <2>3 DEF RunTask, Others
<1>3. CASE NotifyCompilationOf(t)
  BY <1>1, <1>3 DEF NotifyCompilationOf
<1>4. CASE RegisterNative(t)
  BY <1>1, <1>4 DEF RegisterNative
<1>5. CASE RegisterJava(t)
  BY <1>1, <1>5 DEF RegisterJava
<1>6. CASE AddProfilingInfo(t)
  <2>1. \A u \in Compilers \ {t} : job'[u] = job[u]
    BY <1>6, SetThen DEF AddProfilingInfo
  <2> QED  BY <1>0, <1>6, <2>1 DEF AddProfilingInfo, Others
<1>7. CASE Compile(t)
  <2>1. \A u \in Compilers \ {t} : job'[u] = job[u]
    BY <1>7, SetCha DEF Compile
  <2> QED  BY <1>0, <1>7, <2>1 DEF Compile, Others
<1>8. CASE Reserve(t)
  <2>1. \A u \in Compilers \ {t} : job'[u] = job[u]
    BY <1>8, SetAt, SetThen DEF Reserve
  <2> QED  BY <1>0, <1>8, <2>1 DEF Reserve, Others
<1>9. CASE Commit(t)
  BY <1>1, <1>9 DEF Commit
<1>10. CASE Publish(t) \/ Free(t)
  <2>1. \A u \in Compilers \ {t} : job'[u] = job[u]
    BY <1>10, SetAt DEF Publish, Free
  <2> QED  BY <1>0, <1>10, <2>1 DEF Publish, Free, Others
<1>11. CASE DoneCompiling(t)
  BY <1>1, <1>11 DEF DoneCompiling
<1>12. CASE RemoveMethodBeingCompiled(t)
  <2>1. \A u \in Compilers \ {t} : job'[u] = job[u]
    BY <1>12, SetNoJob DEF RemoveMethodBeingCompiled
  <2> QED  BY <1>0, <1>12, <2>1 DEF RemoveMethodBeingCompiled, Others
<1>13. CASE WaitForCollection(t) \/ CollectedByOther(t)
  BY <1>1, <1>13 DEF WaitForCollection, CollectedByOther
<1>14. CASE GarbageCollectCache(t) \/ DoCollection(t)
  BY <1>1, <1>14 DEF GarbageCollectCache, DoCollection
<1>15. CASE MarkCompiledCodeOnThreadStacks(t) \/ RemoveUnmarkedCode(t)
  BY <1>1, <1>15 DEF MarkCompiledCodeOnThreadStacks, RemoveUnmarkedCode
<1>16. CASE FinishCollection(t)
  BY <1>1, <1>16 DEF FinishCollection
<1> QED
  BY <1>2, <1>3, <1>4, <1>5, <1>6, <1>7, <1>8, <1>9, <1>10, <1>11, <1>12, <1>13, <1>14, <1>15,
     <1>16 DEF CompilerStep

(* The label a compiler is at before and after each of its steps.          *)
LEMMA Labels ==
    ASSUME TypeOK, NEW t \in Compilers
    PROVE  /\ RunTask(t) => pc[t] = "idle" /\ pc'[t] = "notify"
           /\ NotifyCompilationOf(t) => pc[t] = "notify" /\ pc'[t] \in {"release", "register"}
           /\ RegisterNative(t) =>
                /\ pc[t] = "register" /\ Native(t)
                /\ pc'[t] = IF stub = None THEN "compile" ELSE "release"
           /\ RegisterJava(t) =>
                /\ pc[t] = "register" /\ pc'[t] \in {"release", "profile", "compile"}
                /\ Method(t) \in JavaMethods
                /\ pc'[t] = "profile" => Kind(t) = "baseline"
                /\ pc'[t] = "compile" /\ Kind(t) = "osr" => osr[Method(t)] = None
           /\ AddProfilingInfo(t) =>
                /\ pc[t] \in {"profile", "profileAgain"} /\ pc'[t] \in {"compile", "gc", "release"}
           /\ Compile(t) => pc[t] = "compile" /\ pc'[t] = "reserve"
           /\ Reserve(t) => pc[t] = "reserve" /\ pc'[t] \in {"commit", "done", "gc"}
           /\ Commit(t) => pc[t] = "commit" /\ pc'[t] \in {"publish", "free"}
           /\ Publish(t) => pc[t] = "publish" /\ pc'[t] = "done"
           /\ Free(t) => pc[t] = "free" /\ pc'[t] = "done"
           /\ DoneCompiling(t) => pc[t] = "done" /\ pc'[t] = "release"
           /\ RemoveMethodBeingCompiled(t) => pc[t] = "release" /\ pc'[t] = "idle"
           /\ WaitForCollection(t) =>
                /\ pc[t] \in {"reserve", "commit", "gc", "gcWaited"}
                /\ pc'[t] = IF pc[t] = "gc" THEN "gcWaited" ELSE pc[t]
           /\ CollectedByOther(t) => pc[t] = "gcWaited" /\ pc'[t] = job[t].then
           /\ GarbageCollectCache(t) =>
                pc[t] = "gc" /\ pc'[t] = IF garbageCollect THEN "collect" ELSE job[t].then
           /\ DoCollection(t) => pc[t] = "collect" /\ pc'[t] = "checkpoint"
           /\ MarkCompiledCodeOnThreadStacks(t) => pc[t] = "checkpoint" /\ pc'[t] = "remove"
           /\ RemoveUnmarkedCode(t) => pc[t] = "remove" /\ pc'[t] = "finish"
           /\ FinishCollection(t) => pc[t] = "finish" /\ pc'[t] = job[t].then
<1>0. \A l : Goto(t, l) => pc'[t] = l
  BY Moved
<1>1. RunTask(t) => pc[t] = "idle" /\ pc'[t] = "notify"
  BY <1>0 DEF RunTask
<1>2. NotifyCompilationOf(t) => pc[t] = "notify" /\ pc'[t] \in {"release", "register"}
  BY <1>0 DEF NotifyCompilationOf
<1>3. RegisterNative(t) =>
        /\ pc[t] = "register" /\ Native(t)
        /\ pc'[t] = IF stub = None THEN "compile" ELSE "release"
  BY <1>0 DEF RegisterNative, Native
<1>4. RegisterJava(t) =>
        /\ pc[t] = "register" /\ pc'[t] \in {"release", "profile", "compile"}
        /\ Method(t) \in JavaMethods
        /\ pc'[t] = "profile" => Kind(t) = "baseline"
        /\ pc'[t] = "compile" /\ Kind(t) = "osr" => osr[Method(t)] = None
  BY <1>0 DEF RegisterJava
<1>5. AddProfilingInfo(t) =>
        /\ pc[t] \in {"profile", "profileAgain"} /\ pc'[t] \in {"compile", "gc", "release"}
  BY <1>0 DEF AddProfilingInfo
<1>6. Compile(t) => pc[t] = "compile" /\ pc'[t] = "reserve"
  BY <1>0 DEF Compile
<1>7. Reserve(t) => pc[t] = "reserve" /\ pc'[t] \in {"commit", "done", "gc"}
  BY <1>0 DEF Reserve, Ready
<1>8. Commit(t) => pc[t] = "commit" /\ pc'[t] \in {"publish", "free"}
  BY <1>0 DEF Commit, Ready
<1>9. Publish(t) => pc[t] = "publish" /\ pc'[t] = "done"
  BY <1>0 DEF Publish
<1>10. Free(t) => pc[t] = "free" /\ pc'[t] = "done"
  BY <1>0 DEF Free, Ready
<1>11. DoneCompiling(t) => pc[t] = "done" /\ pc'[t] = "release"
  BY <1>0 DEF DoneCompiling, Ready
<1>12. RemoveMethodBeingCompiled(t) => pc[t] = "release" /\ pc'[t] = "idle"
  BY <1>0 DEF RemoveMethodBeingCompiled, Ready
<1>13. WaitForCollection(t) =>
        /\ pc[t] \in {"reserve", "commit", "gc", "gcWaited"}
        /\ pc'[t] = IF pc[t] = "gc" THEN "gcWaited" ELSE pc[t]
  BY <1>0 DEF WaitForCollection
<1>14. CollectedByOther(t) => pc[t] = "gcWaited" /\ pc'[t] = job[t].then
  BY <1>0 DEF CollectedByOther, Ready
<1>15. GarbageCollectCache(t) =>
        pc[t] = "gc" /\ pc'[t] = IF garbageCollect THEN "collect" ELSE job[t].then
  BY <1>0 DEF GarbageCollectCache, Ready
<1>16. DoCollection(t) => pc[t] = "collect" /\ pc'[t] = "checkpoint"
  BY <1>0 DEF DoCollection, Ready
<1>17. MarkCompiledCodeOnThreadStacks(t) => pc[t] = "checkpoint" /\ pc'[t] = "remove"
  BY <1>0 DEF MarkCompiledCodeOnThreadStacks
<1>18. RemoveUnmarkedCode(t) => pc[t] = "remove" /\ pc'[t] = "finish"
  BY <1>0 DEF RemoveUnmarkedCode, Ready
<1>19. FinishCollection(t) => pc[t] = "finish" /\ pc'[t] = job[t].then
  BY <1>0 DEF FinishCollection, Ready
<1> QED
  BY <1>1, <1>2, <1>3, <1>4, <1>5, <1>6, <1>7, <1>8, <1>9, <1>10, <1>11, <1>12, <1>13, <1>14,
     <1>15, <1>16, <1>17, <1>18, <1>19

(* What each of its steps does to the job of a compiler.                   *)
TaskKept(t) == Method(t)' = Method(t) /\ Kind(t)' = Kind(t)

LEMMA TaskMoves ==
    ASSUME TypeOK, NEW t \in Compilers, CompilerStep(t), ~RemoveMethodBeingCompiled(t)
    PROVE  /\ TaskKept(t)
           /\ ~Compile(t) => job'[t].cha = job[t].cha
           /\ ~Reserve(t) /\ ~Publish(t) /\ ~Free(t) => job'[t].at = job[t].at
           /\ ~Reserve(t) /\ ~AddProfilingInfo(t) => job'[t].then = job[t].then
<1>1. CASE job' = job
  BY <1>1 DEF TaskKept, Method, Kind
<1>2. CASE AddProfilingInfo(t)
  BY <1>1, <1>2, SetThen DEF AddProfilingInfo, TaskKept, Method, Kind
<1>3. CASE Compile(t)
  BY <1>3, SetCha DEF Compile, TaskKept, Method, Kind
<1>4. CASE Reserve(t)
  BY <1>4, SetAt, SetThen DEF Reserve, TaskKept, Method, Kind
<1>5. CASE Publish(t) \/ Free(t)
  BY <1>5, SetAt DEF Publish, Free, TaskKept, Method, Kind
<1>6. ASSUME ~AddProfilingInfo(t), ~Compile(t), ~Reserve(t), ~Publish(t), ~Free(t)
      PROVE  job' = job
  <2>1. CASE NotifyCompilationOf(t) \/ RegisterNative(t) \/ RegisterJava(t)
    BY <2>1 DEF NotifyCompilationOf, RegisterNative, RegisterJava
  <2>2. CASE Commit(t) \/ DoneCompiling(t) \/ WaitForCollection(t) \/ CollectedByOther(t)
    BY <2>2 DEF Commit, DoneCompiling, WaitForCollection, CollectedByOther
  <2>3. CASE GarbageCollectCache(t) \/ DoCollection(t) \/ MarkCompiledCodeOnThreadStacks(t)
    BY <2>3 DEF GarbageCollectCache, DoCollection, MarkCompiledCodeOnThreadStacks
  <2>4. CASE RemoveUnmarkedCode(t) \/ FinishCollection(t)
    BY <2>4 DEF RemoveUnmarkedCode, FinishCollection
  <2> QED  BY <1>6, <2>1, <2>2, <2>3, <2>4 DEF CompilerStep
<1> QED  BY <1>1, <1>2, <1>3, <1>4, <1>5, <1>6

-----------------------------------------------------------------------------
(* Tasks.                                                                  *)

LEMMA TasksKept ==
    ASSUME Tasks, NEW t \in Compilers, Others(t), HasTask(t)',
           \A mk \in compiling' : mk[1] \in NativeMethods => mk[2] = "optimized",
           TaskKept(t) \/ \A u \in Compilers \ {t} : ~SameTask(t, u)' /\ ~SameTask(u, t)'
    PROVE  Tasks'
<1>1. \A u \in Compilers : HasTask(u)'
  BY DEF Tasks, HasTask, Others, Native, Baseline, Method, Kind
<1>2. \A u, v \in Compilers : u # v /\ u # t /\ v # t => ~SameTask(u, v)'
  <2> SUFFICES ASSUME NEW u \in Compilers \ {t}, NEW v \in Compilers \ {t}, u # v
               PROVE  ~SameTask(u, v)'
    OBVIOUS
  <2>1. job'[u] = job[u] /\ job'[v] = job[v]
    BY DEF Others
  <2>2. SameTask(u, v)' = SameTask(u, v)
    BY <2>1 DEF SameTask, Method, Kind
  <2> QED  BY <2>2 DEF Tasks
<1>3. \A u \in Compilers \ {t} : ~SameTask(t, u)' /\ ~SameTask(u, t)'
  BY DEF Tasks, Others, SameTask, TaskKept, Method, Kind
<1> QED  BY <1>1, <1>2, <1>3 DEF Tasks

LEMMA CompilerTasks ==
    ASSUME TypeOK, Tasks, NEW t \in Compilers, RunTask(t) \/ CompilerStep(t)
    PROVE  Tasks'
<1>a. Others(t) /\ HasTask(t)
  BY CompilerMoves DEF Tasks
<1>1. CASE RunTask(t)
  <2>1. PICK mk \in compiling : /\ ~InHands(mk[1], mk[2])
                                /\ job' = [job EXCEPT ![t].method = mk[1], ![t].kind = mk[2]]
    BY <1>1 DEF RunTask
  <2>2. mk[1] \in Methods /\ mk[2] \in Kinds
    BY SMT DEF TypeOK
  <2>3. Method(t)' = mk[1] /\ Kind(t)' = mk[2]
    <3>1. job[t] \in Jobs
      BY DEF TypeOK
    <3>2. job'[t] = [job[t] EXCEPT !.method = mk[1], !.kind = mk[2]]
      BY <2>1 DEF TypeOK
    <3>3. /\ [job[t] EXCEPT !.method = mk[1], !.kind = mk[2]].method = mk[1]
          /\ [job[t] EXCEPT !.method = mk[1], !.kind = mk[2]].kind = mk[2]
      BY <3>1 DEF Jobs
    <3> QED  BY <3>2, <3>3 DEF Method, Kind
  <2>4. pc'[t] = "notify"
    BY <1>1, Labels
  <2>5. HasTask(t)'
    BY <2>2, <2>3, <2>4 DEF HasTask, Native, Tasks, GcLabels, CollectLabels
  <2>6. \A u \in Compilers \ {t} : ~SameTask(t, u)' /\ ~SameTask(u, t)'
    BY <1>a, <2>1, <2>3 DEF InHands, SameTask, Others, Method, Kind
  <2>7. compiling' = compiling
    BY <1>1 DEF RunTask
  <2> QED  BY <1>a, <2>5, <2>6, <2>7, TasksKept DEF Tasks
<1>2. CASE RemoveMethodBeingCompiled(t)
  <2>1. job'[t] = NoJob /\ Method(t)' = None /\ Kind(t)' = None
    BY <1>2, SetNoJob DEF RemoveMethodBeingCompiled, Method, Kind
  <2>2. pc'[t] = "idle"
    BY <1>2, Labels
  <2>3. HasTask(t)'
    BY <2>1, <2>2, Apart DEF HasTask, Native, GcLabels, CollectLabels
  <2>4. \A u \in Compilers \ {t} : ~SameTask(t, u)' /\ ~SameTask(u, t)'
    BY <2>1 DEF SameTask
  <2>5. compiling' \subseteq compiling
    BY <1>2 DEF RemoveMethodBeingCompiled
  <2> QED  BY <1>a, <2>3, <2>4, <2>5, TasksKept DEF Tasks
<1>3. CASE CompilerStep(t) /\ ~RemoveMethodBeingCompiled(t)
  <2>1. /\ TaskKept(t)
        /\ ~Reserve(t) /\ ~AddProfilingInfo(t) => job'[t].then = job[t].then
    BY <1>3, TaskMoves
  <2>2. HasTask(t)'
    <3> USE DEF GcLabels, CollectLabels
    <3>1. /\ Native(t)' = Native(t) /\ Baseline(t)' = Baseline(t)
          /\ Method(t)' = Method(t) /\ Kind(t)' = Kind(t)
      BY <2>1 DEF TaskKept, Native, Baseline
    <3>2. CASE NotifyCompilationOf(t) \/ RegisterNative(t) \/ Compile(t) \/ Commit(t)
      BY <1>a, <2>1, <3>1, <3>2, Labels DEF HasTask
    <3>3. CASE RegisterJava(t)
      BY <1>a, <2>1, <3>1, <3>3, Labels DEF HasTask, Baseline
    <3>4. CASE AddProfilingInfo(t)
      <4>1. pc'[t] = "gc" => job'[t].then = "profileAgain"
        <5>1. \A l : Goto(t, l) => pc'[t] = l
          BY Moved
        <5>2. pc'[t] = "gc" => job' = [job EXCEPT ![t].then = "profileAgain"]
          BY <3>4, <5>1 DEF AddProfilingInfo
        <5> QED  BY <5>2, SetThen
      <4> QED  BY <1>a, <3>1, <3>4, <4>1, Labels DEF HasTask
    <3>5. CASE Reserve(t)
      <4>1. pc'[t] = "gc" => job'[t].then = "reserve"
        <5>1. \A l : Goto(t, l) => pc'[t] = l
          BY Moved
        <5>2. pc'[t] = "gc" => job' = [job EXCEPT ![t].then = "reserve"]
          BY <3>5, <5>1 DEF Reserve
        <5> QED  BY <5>2, SetThen
      <4> QED  BY <1>a, <3>1, <3>5, <4>1, Labels DEF HasTask
    <3>6. CASE Publish(t) \/ Free(t) \/ DoneCompiling(t)
      BY <1>a, <2>1, <3>1, <3>6, Labels DEF HasTask
    <3>7. CASE WaitForCollection(t)
      BY <1>a, <2>1, <3>1, <3>7, Labels DEF HasTask
    <3>8. CASE CollectedByOther(t) \/ GarbageCollectCache(t) \/ FinishCollection(t)
      <4>1. ~Reserve(t) /\ ~AddProfilingInfo(t)
        BY <3>8, Labels
      <4> QED  BY <1>a, <2>1, <3>1, <3>8, <4>1, Labels DEF HasTask
    <3>9. CASE DoCollection(t) \/ MarkCompiledCodeOnThreadStacks(t) \/ RemoveUnmarkedCode(t)
      <4>1. ~Reserve(t) /\ ~AddProfilingInfo(t)
        BY <3>9, Labels
      <4> QED  BY <1>a, <2>1, <3>1, <3>9, <4>1, Labels DEF HasTask
    <3> QED
      BY <1>3, <3>2, <3>3, <3>4, <3>5, <3>6, <3>7, <3>8, <3>9 DEF CompilerStep
  <2>3. compiling' = compiling
    BY <1>3 DEF CompilerStep, NotifyCompilationOf, RegisterNative, RegisterJava, AddProfilingInfo,
       Compile, Reserve, Commit, Publish, Free, DoneCompiling, WaitForCollection,
       CollectedByOther, GarbageCollectCache, DoCollection, MarkCompiledCodeOnThreadStacks,
       RemoveUnmarkedCode, FinishCollection
  <2> QED  BY <1>a, <2>1, <2>2, <2>3, TasksKept DEF Tasks
<1> QED  BY <1>1, <1>2, <1>3

(* The other threads leave the compilers where they are.                   *)
Quiet ==
    /\ UNCHANGED <<job, jitLock, waiting, collecting>>
    /\ \A u \in Compilers : pc'[u] = pc[u]
OtherStep ==
    \/ \E t \in Mutators : Mutate(t)
    \/ \E m \in Methods : MaybeEnqueueCompilation(m)
    \/ LinkClass \/ LoaderStep
    \/ \E t \in Threads : RunCheckpoint(t)

LEMMA QuietSteps ==
    ASSUME TypeOK, OtherStep
    PROVE  Quiet
<1>1. ASSUME NEW t \in Mutators, Mutate(t) PROVE Quiet
  BY <1>1 DEF Mutate, Enter, Return, Deoptimize, EnqueueOptimizedCompilation, AddCompileTask, Invoke,
     PrepareForOsr, Quiet
<1>2. ASSUME NEW m \in Methods, MaybeEnqueueCompilation(m) PROVE Quiet
  BY <1>2 DEF MaybeEnqueueCompilation, AddCompileTask, Quiet
<1>3. CASE LinkClass \/ LoaderStep
  <2>1. \A l : Goto(Loader, l) => \A u \in Compilers : pc'[u] = pc[u]
    BY Moved, Apart
  <2>2. \A u \in Compilers : pc'[u] = pc[u]
    BY <1>3, <2>1 DEF LinkClass, LoaderStep, InvalidateCompiledCodeFor, InvalidateOsrCode,
       RequestDeoptimization, Linked
  <2>3. UNCHANGED <<job, jitLock, waiting, collecting>>
    BY <1>3 DEF LinkClass, LoaderStep, InvalidateCompiledCodeFor, InvalidateOsrCode,
       RequestDeoptimization, Linked
  <2> QED  BY <2>2, <2>3 DEF Quiet
<1>4. ASSUME NEW t \in Threads, RunCheckpoint(t) PROVE Quiet
  BY <1>4 DEF RunCheckpoint, RunMarkCodeClosure, RunCHACheckpoint, Quiet
<1> QED  BY <1>1, <1>2, <1>3, <1>4 DEF OtherStep

LEMMA NextSteps ==
    ASSUME Next
    PROVE  OtherStep \/ \E t \in Compilers : RunTask(t) \/ CompilerStep(t)
BY DEF Next, OtherStep

LEMMA OtherTasks ==
    ASSUME IInv, OtherStep
    PROVE  Tasks'
<1>1. TypeOK /\ Tasks /\ Quiet
  BY QuietSteps DEF IInv
<1>2. ASSUME \A mk \in compiling' : mk[1] \in NativeMethods => mk[2] = "optimized"
      PROVE  Tasks'
  <2>1. \A u \in Compilers : pc'[u] = pc[u] /\ job' = job
    BY <1>1 DEF Quiet
  <2>2. \A u \in Compilers : HasTask(u)'
    BY <1>1, <2>1 DEF Tasks, HasTask, Native, Baseline, Method, Kind
  <2>3. \A u, v \in Compilers : u # v => ~SameTask(u, v)'
    BY <1>1, <2>1 DEF Tasks, SameTask, Method, Kind
  <2> QED  BY <1>2, <2>2, <2>3 DEF Tasks
<1>3. ASSUME NEW m \in Methods, NEW k, AddCompileTask(m, k), m \in NativeMethods => k = "optimized"
      PROVE  Tasks'
  <2>1. \A mk \in compiling' : mk \in compiling \/ mk = <<m, k>>
    BY <1>3 DEF AddCompileTask
  <2>2. <<m, k>>[1] = m /\ <<m, k>>[2] = k
    OBVIOUS
  <2>3. \A mk \in compiling' : mk[1] \in NativeMethods => mk[2] = "optimized"
    BY <1>1, <1>3, <2>1, <2>2 DEF Tasks
  <2> QED  BY <1>2, <2>3
<1>4. CASE compiling' = compiling
  BY <1>1, <1>2, <1>4 DEF Tasks
<1>5. ASSUME NEW t \in Mutators, Mutate(t) PROVE Tasks'
  <2>1. CASE EnqueueOptimizedCompilation(t)
    <3>1. stack[t] # <<>> /\ AddCompileTask(Top(t).method, "optimized")
      BY <2>1 DEF EnqueueOptimizedCompilation, InFrame
    <3>2. Len(stack[t]) \in DOMAIN stack[t]
      BY SMT, <1>1, <3>1, StackTyped, EmptySeq
    <3>3. Top(t).method \in Methods
      BY <1>1, <3>2, StackTyped DEF Top, Frames
    <3> QED  BY <1>3, <3>1, <3>3
  <2> QED  BY <1>4, <1>5, <2>1 DEF Mutate, Enter, Return, Deoptimize, Invoke, PrepareForOsr
<1>6. ASSUME NEW m \in Methods, MaybeEnqueueCompilation(m) PROVE Tasks'
  BY <1>3, <1>6, Apart DEF MaybeEnqueueCompilation
<1>7. CASE LinkClass \/ LoaderStep
  BY <1>4, <1>7 DEF LinkClass, LoaderStep, InvalidateCompiledCodeFor, InvalidateOsrCode,
     RequestDeoptimization, Linked
<1>8. ASSUME NEW t \in Threads, RunCheckpoint(t) PROVE Tasks'
  BY <1>4, <1>8 DEF RunCheckpoint, RunMarkCodeClosure, RunCHACheckpoint
<1> QED  BY <1>5, <1>6, <1>7, <1>8 DEF OtherStep

-----------------------------------------------------------------------------
(* jit_lock_, collections and waiting.                                     *)

LEMMA SyncMoves ==
    ASSUME Synchronisation, NEW t \in Compilers, Others(t), Synchronised(t)',
           collecting' => jitLock' = None,
           \A u \in Compilers \ {t} :
                /\ u \in waiting' => u \in waiting
                /\ pc[u] = "publish" => jitLock' = u
                /\ pc[u] \in CollectLabels => collecting' /\ pc'[t] \notin CollectLabels
    PROVE  Synchronisation'
<1>1. \A u \in Compilers \ {t} : Synchronised(u)'
  BY DEF Synchronisation, Synchronised, Others
<1>2. \A u \in Compilers \ {t} : ~(pc'[t] \in CollectLabels /\ pc'[u] \in CollectLabels)
  BY DEF Others
<1>3. \A u, v \in Compilers \ {t} : u # v => ~(pc'[u] \in CollectLabels /\ pc'[v] \in CollectLabels)
  BY DEF Others, Synchronisation
<1> QED  BY <1>1, <1>2, <1>3 DEF Synchronisation

LEMMA SyncKept ==
    ASSUME Synchronisation, NEW t \in Compilers, Others(t),
           UNCHANGED <<waiting, jitLock, collecting>>, pc'[t] # "publish",
           t \in waiting => pc'[t] \in {"reserve", "commit", "gcWaited"},
           pc'[t] \in CollectLabels => pc[t] \in CollectLabels
    PROVE  Synchronisation'
<1>1. Synchronised(t)'
  BY DEF Synchronisation, Synchronised
<1> QED  BY <1>1, SyncMoves DEF Synchronisation, Synchronised

LEMMA CompilerSync ==
    ASSUME IInv, NEW t \in Compilers, RunTask(t) \/ CompilerStep(t)
    PROVE  Synchronisation'
<1> USE DEF CollectLabels, GcLabels
<1>0. TypeOK /\ Synchronisation /\ Synchronised(t) /\ Others(t) /\ HasTask(t)
  BY CompilerMoves DEF IInv, Synchronisation, Tasks
<1>1. CASE RunTask(t) \/ NotifyCompilationOf(t) \/ RegisterNative(t) \/ RegisterJava(t)
  <2>1. UNCHANGED <<waiting, jitLock, collecting>>
    BY <1>1 DEF RunTask, NotifyCompilationOf, RegisterNative, RegisterJava
  <2> QED  BY <1>0, <1>1, <2>1, Labels, SyncKept DEF Synchronised
<1>2. CASE AddProfilingInfo(t) \/ Compile(t) \/ Reserve(t)
  <2>1. UNCHANGED <<waiting, jitLock, collecting>>
    BY <1>2 DEF AddProfilingInfo, Compile, Reserve
  <2>2. Reserve(t) => t \notin waiting
    BY DEF Reserve, Ready
  <2> QED  BY <1>0, <1>2, <2>1, <2>2, Labels, SyncKept DEF Synchronised
<1>3. CASE Free(t) \/ DoneCompiling(t) \/ RemoveMethodBeingCompiled(t) \/ CollectedByOther(t)
  <2>1. UNCHANGED <<waiting, jitLock, collecting>>
    BY <1>3 DEF Free, DoneCompiling, RemoveMethodBeingCompiled, CollectedByOther
  <2>2. t \notin waiting
    BY <1>3 DEF Free, DoneCompiling, RemoveMethodBeingCompiled, CollectedByOther, Ready
  <2> QED  BY <1>0, <1>3, <2>1, <2>2, Labels, SyncKept DEF HasTask
<1>4. CASE DoCollection(t) \/ MarkCompiledCodeOnThreadStacks(t) \/ RemoveUnmarkedCode(t)
  <2>1. UNCHANGED <<waiting, jitLock, collecting>>
    BY <1>4 DEF DoCollection, MarkCompiledCodeOnThreadStacks, RemoveUnmarkedCode
  <2> QED  BY <1>0, <1>4, <2>1, Labels, SyncKept DEF Synchronised
<1>5. CASE Commit(t)
  <2>1. jitLock = None /\ ~collecting /\ t \notin waiting /\ UNCHANGED <<waiting, collecting>>
    BY <1>5 DEF Commit, Ready
  <2>2. pc'[t] = "publish" => jitLock' = t
    <3>1. \A l : Goto(t, l) => pc'[t] = l
      BY <1>0, Moved
    <3> QED  BY <1>5, <3>1 DEF Commit
  <2>3. Synchronised(t)' /\ pc'[t] \notin CollectLabels
    BY <1>5, <1>0, <2>1, <2>2, Labels DEF Synchronised
  <2>4. \A u \in Compilers : pc[u] # "publish"
    BY <1>0, <2>1, Apart DEF Synchronisation, Synchronised
  <2> QED  BY <1>0, <2>1, <2>3, <2>4, SyncMoves DEF Synchronisation, Synchronised
<1>6. CASE Publish(t)
  <2>1. jitLock = t /\ jitLock' = None /\ UNCHANGED <<waiting, collecting>>
    BY <1>0, <1>6 DEF Publish, Synchronised
  <2>2. Synchronised(t)' /\ pc'[t] \notin CollectLabels
    BY <1>6, <1>0, <2>1, Labels DEF Synchronised
  <2>3. \A u \in Compilers \ {t} : pc[u] # "publish"
    BY <1>0, <2>1 DEF Synchronisation, Synchronised
  <2> QED  BY <1>0, <2>1, <2>2, <2>3, SyncMoves DEF Synchronisation, Synchronised
<1>7. CASE WaitForCollection(t)
  <2>1. waiting' = waiting \cup {t} /\ UNCHANGED <<jitLock, collecting>>
    BY <1>7 DEF WaitForCollection
  <2>2. Synchronised(t)' /\ pc'[t] \notin CollectLabels
    BY <1>7, <1>0, <2>1, Labels DEF Synchronised
  <2> QED  BY <1>0, <2>1, <2>2, SyncMoves DEF Synchronisation, Synchronised
<1>8. CASE GarbageCollectCache(t)
  <2>1. /\ jitLock = None /\ ~collecting /\ t \notin waiting /\ UNCHANGED <<waiting, jitLock>>
        /\ garbageCollect => collecting'
    BY <1>8 DEF GarbageCollectCache, Ready
  <2>2. Synchronised(t)'
    BY <1>8, <1>0, <2>1, Labels DEF Synchronised, HasTask
  <2> QED  BY <1>0, <2>1, <2>2, SyncMoves DEF Synchronisation, Synchronised
<1>9. CASE FinishCollection(t)
  <2>1. waiting' = {} /\ UNCHANGED jitLock /\ collecting' = FALSE
    BY <1>9 DEF FinishCollection
  <2>2. Synchronised(t)' /\ pc[t] \in CollectLabels
    BY <1>9, <1>0, <2>1, Labels DEF Synchronised, HasTask
  <2> QED  BY <1>0, <2>1, <2>2, SyncMoves DEF Synchronisation, Synchronised
<1> QED  BY <1>1, <1>2, <1>3, <1>4, <1>5, <1>6, <1>7, <1>8, <1>9 DEF CompilerStep

LEMMA OtherSync ==
    ASSUME IInv, OtherStep
    PROVE  Synchronisation'
<1>1. TypeOK /\ Synchronisation
  BY DEF IInv
<1>2. UNCHANGED <<jitLock, waiting, collecting>> /\ \A u \in Compilers : pc'[u] = pc[u]
  BY <1>1, QuietSteps DEF Quiet
<1>3. \A u \in Compilers : Synchronised(u)'
  BY <1>1, <1>2 DEF Synchronisation, Synchronised
<1> QED  BY <1>1, <1>2, <1>3 DEF Synchronisation

-----------------------------------------------------------------------------
(* Which steps change the cache.                                           *)

LEMMA CompilerChanges ==
    ASSUME NEW t \in Compilers, RunTask(t) \/ CompilerStep(t)
    PROVE  /\ code' = code \/ Publish(t) \/ RemoveUnmarkedCode(t)
           /\ \/ stub' = stub
              \/ RegisterNative(t) \/ Publish(t) \/ DoneCompiling(t) \/ RemoveUnmarkedCode(t)
           /\ osr' = osr \/ Publish(t) \/ DoCollection(t)
           /\ entry' = entry \/ RegisterNative(t) \/ Publish(t) \/ DoCollection(t) \/ FinishCollection(t)
           /\ \/ live' = live
              \/ RegisterNative(t) \/ Publish(t) \/ GarbageCollectCache(t) \/ DoCollection(t)
              \/ FinishCollection(t)
           /\ marking' = marking \/ MarkCompiledCodeOnThreadStacks(t)
           /\ deps' = deps \/ Commit(t) \/ RemoveUnmarkedCode(t)
           /\ UNCHANGED <<single, headers, header, doomed, unseen, deoptimizing, hand, stack>>
<1>1. CASE RunTask(t) \/ NotifyCompilationOf(t)
  BY <1>1 DEF RunTask, NotifyCompilationOf
<1>2. CASE RegisterNative(t)
  BY <1>2 DEF RegisterNative
<1>3. CASE RegisterJava(t) \/ AddProfilingInfo(t)
  BY <1>3 DEF RegisterJava, AddProfilingInfo
<1>4. CASE Compile(t) \/ Reserve(t)
  BY <1>4 DEF Compile, Reserve
<1>5. CASE Commit(t)
  BY <1>5 DEF Commit
<1>6. CASE Publish(t)
  BY <1>6 DEF Publish
<1>7. CASE Free(t) \/ DoneCompiling(t)
  BY <1>7 DEF Free, DoneCompiling
<1>8. CASE RemoveMethodBeingCompiled(t) \/ WaitForCollection(t)
  BY <1>8 DEF RemoveMethodBeingCompiled, WaitForCollection
<1>9. CASE CollectedByOther(t) \/ GarbageCollectCache(t)
  BY <1>9 DEF CollectedByOther, GarbageCollectCache
<1>10. CASE DoCollection(t)
  BY <1>10 DEF DoCollection
<1>11. CASE MarkCompiledCodeOnThreadStacks(t)
  BY <1>11 DEF MarkCompiledCodeOnThreadStacks
<1>12. CASE RemoveUnmarkedCode(t)
  BY <1>12 DEF RemoveUnmarkedCode
<1>13. CASE FinishCollection(t)
  BY <1>13 DEF FinishCollection
<1> QED
  BY <1>1, <1>2, <1>3, <1>4, <1>5, <1>6, <1>7, <1>8, <1>9, <1>10, <1>11, <1>12, <1>13
  DEF CompilerStep

(* The other threads only take entry points and OSR code away.             *)
LEMMA OtherChanges ==
    ASSUME TypeOK, OtherStep
    PROVE  /\ code' = code /\ stub' = stub
           /\ \A m \in Methods : entry'[m] = entry[m] \/ entry'[m] = None
           /\ \A m \in JavaMethods : osr'[m] = osr[m] \/ osr'[m] = None
           /\ live \subseteq live'
<1>a. \A m : ResetEntry(m) =>
        /\ code' = code /\ stub' = stub /\ osr' = osr
        /\ \A n \in Methods : entry'[n] = entry[n] \/ entry'[n] = None
  BY DEF TypeOK, ResetEntry
<1>b. \A m, a : EraseOsr(m, a) =>
        /\ code' = code /\ stub' = stub /\ entry' = entry
        /\ \A n \in JavaMethods : osr'[n] = osr[n] \/ osr'[n] = None
  BY DEF TypeOK, EraseOsr
<1>1. ASSUME NEW t \in Mutators, Mutate(t)
      PROVE  /\ code' = code /\ stub' = stub /\ live' = live
             /\ \A m \in Methods : entry'[m] = entry[m] \/ entry'[m] = None
             /\ \A m \in JavaMethods : osr'[m] = osr[m] \/ osr'[m] = None
  <2>1. CASE Deoptimize(t)
    BY <1>a, <1>b, <2>1 DEF Deoptimize
  <2> QED  BY <1>1, <2>1 DEF Mutate, Enter, Return, EnqueueOptimizedCompilation, Invoke, PrepareForOsr
<1>2. ASSUME NEW m \in Methods, MaybeEnqueueCompilation(m)
      PROVE  UNCHANGED <<code, stub, entry, osr, live>>
  BY <1>2 DEF MaybeEnqueueCompilation
<1>3. CASE LinkClass
  BY <1>3 DEF LinkClass
<1>4. CASE LoaderStep
  <2>1. CASE InvalidateCompiledCodeFor
    BY <1>a, <2>1 DEF InvalidateCompiledCodeFor
  <2>2. CASE InvalidateOsrCode
    BY <1>b, <2>2 DEF InvalidateOsrCode
  <2>3. CASE RequestDeoptimization \/ Linked
    BY <2>3 DEF RequestDeoptimization, Linked
  <2> QED  BY <1>4, <2>1, <2>2, <2>3 DEF LoaderStep
<1>5. ASSUME NEW t \in Threads, RunCheckpoint(t)
      PROVE  UNCHANGED <<code, stub, entry, osr>> /\ live \subseteq live'
  BY <1>5 DEF RunCheckpoint, RunMarkCodeClosure, RunCHACheckpoint
<1> QED  BY <1>1, <1>2, <1>3, <1>4, <1>5 DEF OtherStep

(* A task begins with an empty job.                                        *)
LEMMA RunTaskJob ==
    ASSUME TypeOK, NEW t \in Compilers, HasTask(t), RunTask(t)
    PROVE  job'[t].at = None /\ job'[t].cha = FALSE
<1>1. PICK mk \in compiling : job' = [job EXCEPT ![t].method = mk[1], ![t].kind = mk[2]]
  BY DEF RunTask
<1>2. job[t] \in Jobs /\ job'[t] = [job[t] EXCEPT !.method = mk[1], !.kind = mk[2]]
  BY <1>1 DEF TypeOK
<1>3. job'[t].at = job[t].at /\ job'[t].cha = job[t].cha
  BY <1>2 DEF Jobs
<1>4. job[t] = NoJob
  BY DEF HasTask, RunTask
<1>5. NoJob.at = None /\ NoJob.cha = FALSE
  BY DEF NoJob
<1> QED  BY <1>3, <1>4, <1>5

-----------------------------------------------------------------------------
(* Reserved addresses.                                                     *)

LEMMA ReservedMoves ==
    ASSUME TypeOK, Reserved, NEW t \in Compilers, Others(t),
           job'[t].at = job[t].at \/ job'[t].at = None,
           pc'[t] \in HolderLabels => pc[t] \in HolderLabels /\ job'[t].at = job[t].at,
           \A u \in Compilers : job'[u].at # None => code'[job'[u].at] = None
    PROVE  Reserved'
<1>1. \A u \in Compilers : pc'[u] \in HolderLabels => job'[u].at \in Addresses
  BY DEF Reserved, Others
<1>2. \A u \in Compilers : job'[u].at = job[u].at \/ job'[u].at = None
  BY DEF Others
<1>3. \A u, v \in Compilers : u # v /\ job'[u].at # None => job'[v].at # job'[u].at
  BY <1>2 DEF Reserved
<1> QED  BY <1>1, <1>3 DEF Reserved

LEMMA CompilerReserved ==
    ASSUME IInv, NEW t \in Compilers, RunTask(t) \/ CompilerStep(t)
    PROVE  Reserved'
<1> USE DEF HolderLabels
<1>0. TypeOK /\ Reserved /\ Others(t) /\ HasTask(t)
  BY CompilerMoves DEF IInv, Tasks
<1>1. CASE Reserve(t)
  <2>0. code' = code
    BY <1>1 DEF Reserve
  <2>1. ASSUME NEW a \in MayAllocate(Addresses \ Used), job' = [job EXCEPT ![t].at = a]
        PROVE  Reserved'
    <3>0. a \in Addresses /\ a \notin Used
      BY <2>1, AllocatesFree
    <3>1. job'[t].at = a /\ \A u \in Compilers \ {t} : job'[u] = job[u] /\ pc'[u] = pc[u]
      BY <1>0, <2>1, SetAt DEF Others
    <3>2. code[a] = None /\ \A u \in Compilers : job[u].at # a
      BY <3>0 DEF Used
    <3>3. \A u \in Compilers : pc'[u] \in HolderLabels => job'[u].at \in Addresses
      BY <1>0, <3>0, <3>1 DEF Reserved
    <3>4. \A u \in Compilers : job'[u].at # None => code'[job'[u].at] = None
      <4> TAKE u \in Compilers
      <4>1. CASE u = t
        BY <2>0, <3>1, <3>2, <4>1
      <4>2. CASE u # t
        BY <1>0, <2>0, <3>1, <4>2 DEF Reserved
      <4> QED  BY <4>1, <4>2
    <3>5. \A u, v \in Compilers : u # v /\ job'[u].at # None => job'[v].at # job'[u].at
      <4> TAKE u, v \in Compilers
      <4>1. CASE u = t
        BY <3>1, <3>2, <4>1
      <4>2. CASE v = t
        BY <3>1, <3>2, <4>2
      <4>3. CASE u # t /\ v # t
        BY <1>0, <3>1, <4>3 DEF Reserved
      <4> QED  BY <4>1, <4>2, <4>3
    <3> QED  BY <3>3, <3>4, <3>5 DEF Reserved
  <2>2. ASSUME NEW x, job' = [job EXCEPT ![t].then = x], pc'[t] # "commit"
        PROVE  Reserved'
    <3>1. job'[t].at = job[t].at
      BY <1>0, <2>2, SetThen
    <3>2. pc'[t] \notin HolderLabels
      BY <1>0, <1>1, <2>2, Labels
    <3>3. \A u \in Compilers : job'[u].at # None => code'[job'[u].at] = None
      <4> TAKE u \in Compilers
      <4>1. job'[u].at = job[u].at
        BY <1>0, <3>1 DEF Others
      <4> QED  BY <1>0, <2>0, <4>1 DEF Reserved
    <3> QED  BY <1>0, <3>1, <3>2, <3>3, ReservedMoves
  <2>3. \A l : Goto(t, l) => pc'[t] = l
    BY <1>0, Moved
  <2> QED  BY <1>1, <2>1, <2>2, <2>3 DEF Reserve
<1>2. CASE Publish(t)
  <2>1. job'[t].at = None /\ pc'[t] = "done"
    BY <1>0, <1>2, SetAt, Labels DEF Publish
  <2>2. \A b \in Addresses : b # job[t].at => code'[b] = code[b]
    BY <1>0, <1>2 DEF Publish, TypeOK
  <2>3. \A u \in Compilers : job'[u].at # None => code'[job'[u].at] = None
    <3> SUFFICES ASSUME NEW u \in Compilers, job'[u].at # None PROVE code'[job'[u].at] = None
      OBVIOUS
    <3>1. u # t /\ job'[u].at = job[u].at
      BY <1>0, <2>1 DEF Others
    <3>2. job[u].at \in Addresses /\ job[u].at # job[t].at
      BY <1>0, <1>2, <3>1, JobTyped, Apart DEF Publish, Reserved
    <3> QED  BY <1>0, <2>2, <3>1, <3>2 DEF Reserved
  <2> QED  BY <1>0, <2>1, <2>3, ReservedMoves
<1>3. CASE RunTask(t) \/ (CompilerStep(t) /\ ~Reserve(t) /\ ~Publish(t))
  <2>1. \A a \in Addresses : code[a] = None => code'[a] = None
    <3>1. CASE RemoveUnmarkedCode(t)
      BY <3>1 DEF RemoveUnmarkedCode
    <3>2. CASE code' = code
      BY <3>2
    <3> QED  BY <1>0, <1>3, <3>1, <3>2, CompilerChanges, Labels
  <2>2. job'[t].at = job[t].at \/ job'[t].at = None
    <3>1. CASE RunTask(t)
      BY <1>0, <3>1, RunTaskJob
    <3>2. CASE Free(t)
      BY <1>0, <3>2, SetAt DEF Free
    <3>3. CASE RemoveMethodBeingCompiled(t)
      BY <1>0, <3>3, SetNoJob DEF RemoveMethodBeingCompiled
    <3> QED  BY <1>0, <1>3, <3>1, <3>2, <3>3, TaskMoves
  <2>3. pc'[t] \in HolderLabels => pc[t] \in HolderLabels /\ job'[t].at = job[t].at
    <3>1. CASE WaitForCollection(t) \/ Commit(t)
      <4>1. pc[t] # "free" /\ pc[t] # "release" /\ CompilerStep(t)
        BY <1>0, <3>1, Labels DEF CompilerStep
      <4>2. ~Free(t) /\ ~RemoveMethodBeingCompiled(t)
        BY <1>0, <4>1, Labels
      <4> QED  BY <1>0, <1>3, <3>1, <4>1, <4>2, TaskMoves, Labels
    <3>2. ASSUME ~WaitForCollection(t), ~Commit(t) PROVE pc'[t] \notin HolderLabels
      BY <1>0, <1>3, <3>2, Labels DEF CompilerStep, HasTask, GcLabels, CollectLabels
    <3> QED  BY <3>1, <3>2
  <2>4. \A u \in Compilers : job'[u].at # None => code'[job'[u].at] = None
    <3> SUFFICES ASSUME NEW u \in Compilers, job'[u].at # None PROVE code'[job'[u].at] = None
      OBVIOUS
    <3>1. job'[u].at = job[u].at
      BY <1>0, <2>2 DEF Others
    <3> QED  BY <1>0, <2>1, <3>1, JobTyped DEF Reserved
  <2> QED  BY <1>0, <2>2, <2>3, <2>4, ReservedMoves
<1> QED  BY <1>1, <1>2, <1>3

LEMMA OtherReserved ==
    ASSUME IInv, OtherStep
    PROVE  Reserved'
<1>1. TypeOK /\ Reserved
  BY DEF IInv
<1>2. code' = code /\ job' = job /\ \A u \in Compilers : pc'[u] = pc[u]
  BY <1>1, OtherChanges, QuietSteps DEF Quiet
<1> QED  BY <1>1, <1>2 DEF Reserved

-----------------------------------------------------------------------------
(* The entry of the stub.                                                  *)

LEMMA StubMoves ==
    ASSUME Stub, NEW t \in Compilers, Others(t), UNCHANGED <<stub, marking>>,
           Revived => code'[stub.code] = code[stub.code],
           pc'[t] # "remove" /\ (AtStub(t)' => AtStub(t) /\ TaskKept(t) /\ pc[t] # "done")
    PROVE  Stub'
<1>1. /\ Revived' = Revived
      /\ Sweeping' => Sweeping
      /\ \A u \in Compilers \ {t} : AtStub(u)' = AtStub(u) /\ Method(u)' = Method(u)
  BY DEF Revived, Sweeping, Others, AtStub, Native, Method
<1>2. \A u \in Compilers : AtStub(u)' => AtStub(u) /\ Method(u)' = Method(u)
  BY <1>1 DEF TaskKept
<1>3. \A u \in Compilers \ {t} : StubKnown(u)'
  <2> TAKE u \in Compilers \ {t}
  <2>1. pc'[u] = pc[u] /\ AtStub(u)' = AtStub(u) /\ Method(u)' = Method(u) /\ StubKnown(u)
    BY <1>1 DEF Others, Stub
  <2>2. stub' = stub /\ marking' = marking
    OBVIOUS
  <2> QED  BY <1>1, <2>1, <2>2 DEF StubKnown
<1>4. StubKnown(t)'
  BY <1>2 DEF Stub, StubKnown, TaskKept
<1>5. \A u, v \in Compilers : u # v => ~(AtStub(u)' /\ AtStub(v)')
  BY <1>2 DEF Stub
<1>6. Revived' => code'[stub'.code] # None /\ code'[stub'.code].method \in NativeMethods
  <2>1. stub' = stub
    OBVIOUS
  <2> QED  BY <1>1, <2>1 DEF Stub
<1> QED  BY <1>3, <1>4, <1>5, <1>6 DEF Stub

LEMMA CompilerStub ==
    ASSUME IInv, NEW t \in Compilers, RunTask(t) \/ CompilerStep(t)
    PROVE  Stub'
<1>0. TypeOK /\ Stub /\ Others(t) /\ HasTask(t) /\ Synchronisation /\ StubKnown(t)
  BY CompilerMoves DEF IInv, Tasks, Stub
<1>a. Revived => stub.code \in Addresses /\ stub \in Stubs
  BY <1>0 DEF Revived, TypeOK, Stubs
<1>1. CASE RegisterNative(t)
  <2>1. /\ code' = code /\ marking' = marking /\ pc[t] = "register" /\ Native(t)
        /\ pc'[t] = IF stub = None THEN "compile" ELSE "release"
        /\ job' = job /\ stub' \in Stubs
        /\ stub'.code = (IF stub = None THEN None ELSE stub.code)
        /\ stub'.methods = {Method(t)} \cup IF stub = None THEN {} ELSE stub.methods
    <3>1. stub # None => stub.methods \subseteq NativeMethods /\ stub.code \in Addresses \cup {None}
      BY <1>0 DEF TypeOK, Stubs
    <3>2. stub' = [code |-> IF stub = None THEN None ELSE stub.code,
                   methods |-> {Method(t)} \cup IF stub = None THEN {} ELSE stub.methods]
      BY <1>1 DEF RegisterNative
    <3>3. stub' \in Stubs
      <4>1. Method(t) \in NativeMethods
        BY <1>1 DEF RegisterNative
      <4>2. /\ (IF stub = None THEN None ELSE stub.code) \in Addresses \cup {None}
            /\ {Method(t)} \cup (IF stub = None THEN {} ELSE stub.methods) \in SUBSET NativeMethods
        BY <3>1, <4>1
      <4> QED  BY <3>2, <4>2 DEF Stubs
    <3>4. /\ stub'.code = (IF stub = None THEN None ELSE stub.code)
          /\ stub'.methods = {Method(t)} \cup IF stub = None THEN {} ELSE stub.methods
      BY <3>2
    <3> QED  BY <1>0, <1>1, <3>3, <3>4, Labels DEF RegisterNative
  <2>2. stub' # None /\ (Revived' <=> Revived) /\ Method(t)' = Method(t) /\ Native(t)'
    <3>1. stub' # None
      BY <2>1, JitAssumption
    <3> QED  BY <2>1, <3>1 DEF Revived, Method, Native
  <2>3. \A u \in Compilers \ {t} : AtStub(u)' = AtStub(u) /\ Method(u)' = Method(u)
    BY <1>0 DEF Others, AtStub, Native, Method
  <2>4. Sweeping' => Sweeping
    BY <1>0, <2>1 DEF Sweeping, Others
  <2>5. Revived' => code'[stub'.code] # None /\ code'[stub'.code].method \in NativeMethods
    BY <1>0, <2>1, <2>2 DEF Stub, Revived
  <2>6. CASE stub = None
    <3>1. \A u \in Compilers \ {t} : ~AtStub(u)'
      BY <1>0, <2>3, <2>6 DEF Stub, StubKnown
    <3>2. StubKnown(t)'
      BY <2>1, <2>2, <2>6 DEF StubKnown
    <3> QED  BY <2>5, <3>1, <3>2 DEF Stub, StubKnown
  <2>7. CASE stub # None
    <3>1. ~AtStub(t)'
      BY <2>1, <2>7 DEF AtStub, CompilingLabels, GcLabels, CollectLabels
    <3>2. \A u \in Compilers \ {t} : StubKnown(u)'
      BY <1>0, <2>1, <2>2, <2>3, <2>4, <2>7 DEF Stub, StubKnown, Others
    <3> QED  BY <1>0, <2>3, <2>5, <3>1, <3>2 DEF Stub, StubKnown
  <2> QED  BY <2>6, <2>7
<1>2. CASE Publish(t)
  <2>0. /\ job[t].at \in Addresses /\ code[job[t].at] = None /\ pc[t] = "publish"
        /\ pc'[t] = "done" /\ marking' = marking /\ ~collecting
        /\ Method(t)' = Method(t) /\ Native(t)' = Native(t)
        /\ CompilerStep(t) /\ ~RemoveMethodBeingCompiled(t)
    <3>1. pc[t] = "publish" /\ pc'[t] = "done" /\ marking' = marking
      BY <1>0, <1>2, Labels DEF Publish
    <3>2. CompilerStep(t) /\ ~RemoveMethodBeingCompiled(t)
      BY <1>0, <1>2, <3>1, Labels DEF CompilerStep
    <3>3. job[t].at \in Addresses /\ code[job[t].at] = None
      BY <3>1, Apart DEF IInv, Reserved, HolderLabels
    <3>4. ~collecting
      BY <1>0, <3>1, Apart DEF Synchronisation, Synchronised
    <3>5. Method(t)' = Method(t)
      BY <1>0, <3>2, TaskMoves DEF TaskKept
    <3> QED  BY <3>1, <3>2, <3>3, <3>4, <3>5 DEF Native
  <2>1. ~Sweeping'
    BY <1>0, <2>0 DEF Sweeping, Others, Synchronisation, Synchronised, CollectLabels
  <2>2. \A u \in Compilers \ {t} : AtStub(u)' = AtStub(u) /\ Method(u)' = Method(u)
    BY <1>0 DEF Others, AtStub, Native, Method
  <2>3. /\ code'[job[t].at] = [method |-> Method(t), kind |-> Kind(t), cha |-> job[t].cha]
        /\ \A b \in Addresses : b # job[t].at => code'[b] = code[b]
    BY <1>0, <1>2, <2>0 DEF Publish, TypeOK
  <2>4. CASE Native(t)
    <3>1. AtStub(t) /\ stub # None /\ Method(t) \in stub.methods /\ stub \in Stubs
      BY <1>0, <2>0, <2>4 DEF AtStub, StubKnown, CompilingLabels, TypeOK
    <3>2. stub' = [stub EXCEPT !.code = job[t].at]
      BY <1>2, <2>4 DEF Publish, Native
    <3>3. stub'.code = job[t].at /\ stub'.methods = stub.methods /\ stub' \in Stubs
      BY <2>0, <3>1, <3>2 DEF Stubs
    <3>4. stub' # None /\ \A u \in Compilers \ {t} : ~AtStub(u)'
      BY <1>0, <2>2, <3>1, <3>3, JitAssumption DEF Stub
    <3>5. code'[job[t].at] # None /\ code'[job[t].at].method = Method(t)
      <4>1. [method |-> Method(t), kind |-> Kind(t), cha |-> job[t].cha] \in Codes
        BY <1>0, <2>0, JobTyped DEF HasTask, Codes
      <4>2. [method |-> Method(t), kind |-> Kind(t), cha |-> job[t].cha].method = Method(t)
        OBVIOUS
      <4>3. None \notin Codes
        BY JitAssumption
      <4> QED  BY <2>3, <4>1, <4>2, <4>3
    <3>6. StubKnown(t)'
      BY <2>0, <2>1, <3>1, <3>3, <3>4 DEF StubKnown
    <3> QED  BY <2>4, <3>3, <3>4, <3>5, <3>6 DEF Stub, StubKnown, Native
  <2>5. CASE ~Native(t)
    <3>1. stub' = stub /\ ~AtStub(t)'
      BY <1>2, <2>0, <2>5 DEF Publish, Native, AtStub
    <3>2. Revived => code'[stub.code] = code[stub.code]
      BY <1>0, <1>a, <2>0, <2>3 DEF Stub
    <3> QED  BY <1>0, <2>0, <3>1, <3>2, StubMoves
  <2> QED  BY <2>4, <2>5
<1>3. CASE DoneCompiling(t)
  <2>1. pc[t] = "done" /\ pc'[t] = "release" /\ code' = code /\ marking' = marking
    BY <1>0, <1>3, Labels DEF DoneCompiling
  <2>2. ~AtStub(t)'
    BY <2>1 DEF AtStub, CompilingLabels, GcLabels, CollectLabels
  <2>3. CASE stub' = stub
    BY <1>0, <2>1, <2>2, <2>3, StubMoves
  <2>4. CASE stub' # stub
    <3>1. stub' = None /\ Native(t)
      BY <1>3, <2>4 DEF DoneCompiling, Native
    <3>2. AtStub(t)
      BY <2>1, <3>1 DEF AtStub, CompilingLabels
    <3>3. \A u \in Compilers \ {t} : AtStub(u)' = AtStub(u)
      BY <1>0 DEF Others, AtStub, Native, Method
    <3>4. \A u \in Compilers : ~AtStub(u)'
      BY <1>0, <2>2, <3>2, <3>3 DEF Stub
    <3> QED  BY <3>1, <3>4 DEF Stub, StubKnown, Revived
  <2> QED  BY <2>3, <2>4
<1>4. CASE MarkCompiledCodeOnThreadStacks(t)
  <2>1. /\ pc[t] = "checkpoint" /\ pc'[t] = "remove" /\ job' = job /\ UNCHANGED <<code, stub>>
        /\ marking' = {u \in Threads \ {t} : ~Suspended(u)}
    BY <1>0, <1>4, Labels DEF MarkCompiledCodeOnThreadStacks
  <2>2. \A u \in Compilers : AtStub(u)' = AtStub(u) /\ Method(u)' = Method(u)
    BY <1>0, <2>1 DEF Others, AtStub, Native, Method, CompilingLabels, GcLabels, CollectLabels
  <2>3. \A u \in Compilers : pc[u] = "done" => u \in marking'
    BY <1>0, <2>1, Apart DEF Suspended, Synchronisation, Synchronised
  <2>4. \A u \in Compilers : pc'[u] = "done" <=> pc[u] = "done"
    BY <1>0, <2>1 DEF Others
  <2>5. \A u \in Compilers : StubKnown(u)'
    BY <1>0, <2>1, <2>2, <2>3, <2>4 DEF Stub, StubKnown
  <2> QED  BY <1>0, <2>1, <2>2, <2>5 DEF Stub, Revived
<1>5. CASE RemoveUnmarkedCode(t)
  <2>1. /\ pc[t] = "remove" /\ pc'[t] = "finish" /\ job' = job /\ marking = {} /\ marking' = marking
        /\ \A a \in Addresses : ~Removable(a) => code'[a] = code[a]
        /\ stub' = KeptStub /\ TaskKept(t)
    BY <1>0, <1>5, Labels DEF RemoveUnmarkedCode, Ready, TaskKept, Method, Kind
  <2>2. \A u \in Compilers : AtStub(u)' = AtStub(u) /\ Method(u)' = Method(u)
    BY <1>0, <2>1 DEF Others, AtStub, Native, Method, CompilingLabels, GcLabels, CollectLabels
  <2>3. CASE stub' = stub
    <3>1. Revived => code'[stub.code] = code[stub.code]
      BY <1>a, <2>1, <2>3 DEF KeptStub, Revived
    <3> QED  BY <1>0, <2>1, <2>2, <2>3, <3>1, StubMoves
  <2>4. CASE stub' # stub
    <3>1. stub' = None /\ Revived
      BY <2>1, <2>4 DEF KeptStub
    <3>2. \A u \in Compilers : ~AtStub(u)
      BY <1>0, <2>1, <3>1 DEF Stub, StubKnown, Revived, Sweeping
    <3> QED  BY <2>2, <3>1, <3>2 DEF Stub, StubKnown, Revived
  <2> QED  BY <2>3, <2>4
<1>6. CASE RunTask(t) \/ RemoveMethodBeingCompiled(t)
  <2>1. UNCHANGED <<code, stub, marking>>
    BY <1>6 DEF RunTask, RemoveMethodBeingCompiled
  <2>2. pc'[t] # "remove" /\ ~AtStub(t)'
    BY <1>0, <1>6, Labels DEF AtStub, CompilingLabels, GcLabels, CollectLabels
  <2> QED  BY <1>0, <2>1, <2>2, StubMoves
<1>7. CASE /\ CompilerStep(t) /\ ~RegisterNative(t) /\ ~Publish(t) /\ ~DoneCompiling(t)
           /\ ~MarkCompiledCodeOnThreadStacks(t) /\ ~RemoveUnmarkedCode(t)
           /\ ~RemoveMethodBeingCompiled(t)
  <2>1. UNCHANGED <<code, stub, marking>>
    BY <1>7, CompilerChanges
  <2>2. TaskKept(t)
    BY <1>0, <1>7, TaskMoves
  <2>3. pc'[t] # "remove"
    BY <1>0, <1>7, Labels DEF CompilerStep, HasTask, GcLabels, CollectLabels
  <2>4. AtStub(t)' => AtStub(t) /\ pc[t] # "done"
    <3>1. Native(t)' = Native(t) /\ (Native(t) => Method(t) \notin JavaMethods)
      BY <2>2, Apart DEF Native, TaskKept
    <3> QED
      BY <1>0, <1>7, <3>1, Labels DEF CompilerStep, AtStub, HasTask, Baseline, CompilingLabels,
         GcLabels, CollectLabels
  <2> QED  BY <1>0, <2>1, <2>2, <2>3, <2>4, StubMoves
<1> QED  BY <1>1, <1>2, <1>3, <1>4, <1>5, <1>6, <1>7

LEMMA MarkingShrinks ==
    ASSUME OtherStep
    PROVE  marking' = marking \/ \E v \in Threads : RunMarkCodeClosure(v)
<1>1. ASSUME NEW t \in Mutators, Mutate(t) PROVE marking' = marking
  BY <1>1 DEF Mutate, Enter, Return, Deoptimize, EnqueueOptimizedCompilation, Invoke,
     PrepareForOsr
<1>2. ASSUME NEW m \in Methods, MaybeEnqueueCompilation(m) PROVE marking' = marking
  BY <1>2 DEF MaybeEnqueueCompilation
<1>3. CASE LinkClass \/ LoaderStep
  BY <1>3 DEF LinkClass, LoaderStep, InvalidateCompiledCodeFor, InvalidateOsrCode,
     RequestDeoptimization, Linked
<1>4. ASSUME NEW v \in Threads, RunCHACheckpoint(v) PROVE marking' = marking
  BY <1>4 DEF RunCHACheckpoint
<1> QED  BY <1>1, <1>2, <1>3, <1>4 DEF OtherStep, RunCheckpoint

LEMMA OtherStub ==
    ASSUME IInv, OtherStep
    PROVE  Stub'
<1>1. TypeOK /\ Stub /\ Synchronisation
  BY DEF IInv
<1>2. UNCHANGED <<code, stub, job>> /\ \A u \in Compilers : pc'[u] = pc[u]
  BY <1>1, OtherChanges, QuietSteps DEF Quiet
<1>3. \A u \in Compilers : AtStub(u)' = AtStub(u) /\ Method(u)' = Method(u)
  BY <1>2 DEF AtStub, Native, Method
<1>4. Sweeping' = Sweeping /\ Revived' = Revived
  BY <1>2 DEF Sweeping, Revived
<1>5. \A u \in Compilers : pc[u] = "done" /\ u \in marking => u \in marking'
  <2>1. \A u \in Compilers : pc[u] = "done" => ~AtSuspendPoint(u)
    BY <1>1, Apart DEF AtSuspendPoint, Suspended, Synchronisation, Synchronised
  <2>2. ASSUME NEW v \in Threads, RunMarkCodeClosure(v)
        PROVE  \A u \in Compilers : pc[u] = "done" /\ u \in marking => u \in marking'
    BY <2>1, <2>2 DEF RunMarkCodeClosure
  <2> QED  BY <2>2, MarkingShrinks
<1>6. \A u \in Compilers : StubKnown(u)'
  BY <1>1, <1>2, <1>3, <1>4, <1>5 DEF Stub, StubKnown
<1> QED  BY <1>1, <1>2, <1>3, <1>4, <1>6 DEF Stub

-----------------------------------------------------------------------------
(* OSR code that is being compiled.                                        *)

AtOsr(t) == Kind(t) = "osr" /\ pc[t] \in CompilingLabels \ {"done"}

LEMMA OsrMoves ==
    ASSUME OsrAbsent, NEW t \in Compilers, Others(t),
           AtOsr(t)' => osr'[Method(t)'] = None,
           \A u \in Compilers \ {t} : AtOsr(u) /\ osr[Method(u)] = None => osr'[Method(u)] = None
    PROVE  OsrAbsent'
<1>1. \A u \in Compilers \ {t} : AtOsr(u)' = AtOsr(u) /\ Method(u)' = Method(u)
  BY DEF Others, AtOsr, Kind, Method
<1>2. \A u \in Compilers : AtOsr(u)' => osr'[Method(u)'] = None
  BY <1>1 DEF OsrAbsent, AtOsr
<1> QED  BY <1>2 DEF OsrAbsent, AtOsr

LEMMA CompilerOsr ==
    ASSUME IInv, NEW t \in Compilers, RunTask(t) \/ CompilerStep(t)
    PROVE  OsrAbsent'
<1> USE DEF CompilingLabels, GcLabels, CollectLabels
<1>0. TypeOK /\ OsrAbsent /\ Others(t) /\ HasTask(t) /\ Tasks
  BY CompilerMoves DEF IInv, Tasks
<1>1. CASE Publish(t)
  <2>1. ~AtOsr(t)'
    BY <1>0, <1>1, Labels DEF AtOsr
  <2>2. ASSUME NEW u \in Compilers \ {t}, AtOsr(u), osr[Method(u)] = None
        PROVE  osr'[Method(u)] = None
    <3>1. CASE Kind(t) = "osr"
      <4>1. Method(u) # Method(t)
        BY <1>0, <2>2, <3>1, Apart DEF Tasks, SameTask, AtOsr, HasTask
      <4>2. osr' = [osr EXCEPT ![Method(t)] = job[t].at]
        BY <1>1, <3>1 DEF Publish
      <4>3. Method(u) \in JavaMethods
        BY <1>0, <2>2, Apart DEF Tasks, HasTask, Native, AtOsr
      <4> QED  BY <1>0, <2>2, <4>1, <4>2, <4>3 DEF TypeOK
    <3>2. CASE Kind(t) # "osr"
      BY <1>1, <2>2, <3>2 DEF Publish
    <3> QED  BY <3>1, <3>2
  <2> QED  BY <1>0, <2>1, <2>2, OsrMoves
<1>2. CASE DoCollection(t)
  <2>1. \A m \in JavaMethods : osr'[m] = None
    BY <1>2 DEF DoCollection, NoOsr
  <2>2. \A u \in Compilers : AtOsr(u) => Method(u) \in JavaMethods
    BY <1>0, Apart DEF Tasks, HasTask, Native, AtOsr
  <2>3. AtOsr(t)' => AtOsr(t) /\ Method(t)' = Method(t)
    BY <1>0, <1>2, Labels DEF DoCollection, AtOsr, Kind, Method
  <2> QED  BY <1>0, <2>1, <2>2, <2>3, OsrMoves
<1>3. CASE RunTask(t) \/ RemoveMethodBeingCompiled(t)
  <2>1. osr' = osr /\ ~AtOsr(t)'
    BY <1>0, <1>3, Labels DEF RunTask, RemoveMethodBeingCompiled, AtOsr
  <2> QED  BY <1>0, <2>1, OsrMoves
<1>4. CASE CompilerStep(t) /\ ~Publish(t) /\ ~DoCollection(t) /\ ~RemoveMethodBeingCompiled(t)
  <2>1. osr' = osr /\ TaskKept(t)
    BY <1>0, <1>4, CompilerChanges, TaskMoves
  <2>2. AtOsr(t)' => osr[Method(t)] = None
    <3>1. AtOsr(t)' => Kind(t) = "osr"
      BY <2>1 DEF AtOsr, TaskKept
    <3>2. CASE RegisterJava(t)
      BY <1>0, <3>1, <3>2, Labels DEF AtOsr
    <3>3. CASE RegisterNative(t)
      BY <1>0, <3>1, <3>3, Labels DEF HasTask
    <3>4. ASSUME ~RegisterJava(t), ~RegisterNative(t) PROVE AtOsr(t)' => AtOsr(t)
      BY <1>0, <1>4, <3>1, <3>4, Labels DEF CompilerStep, AtOsr, HasTask, Baseline
    <3> QED  BY <1>0, <3>2, <3>3, <3>4 DEF OsrAbsent, AtOsr
  <2> QED  BY <1>0, <2>1, <2>2, OsrMoves DEF TaskKept
<1> QED  BY <1>1, <1>2, <1>3, <1>4

LEMMA OtherOsr ==
    ASSUME IInv, OtherStep
    PROVE  OsrAbsent'
<1>1. TypeOK /\ OsrAbsent /\ Tasks
  BY DEF IInv
<1>2. /\ job' = job
      /\ \A u \in Compilers : pc'[u] = pc[u]
      /\ \A m \in JavaMethods : osr'[m] = osr[m] \/ osr'[m] = None
  BY <1>1, OtherChanges, QuietSteps DEF Quiet
<1>3. \A u \in Compilers : AtOsr(u)' = AtOsr(u) /\ Method(u)' = Method(u)
  BY <1>2 DEF AtOsr, Kind, Method
<1>4. \A u \in Compilers : AtOsr(u) => Method(u) \in JavaMethods
  BY <1>1, Apart DEF Tasks, HasTask, Native, AtOsr, CompilingLabels, GcLabels, CollectLabels
<1>5. \A u \in Compilers : AtOsr(u)' => osr'[Method(u)'] = None
  BY <1>1, <1>2, <1>3, <1>4 DEF OsrAbsent, AtOsr
<1> QED  BY <1>5 DEF OsrAbsent, AtOsr

-----------------------------------------------------------------------------
(* What the threads hold.                                                  *)

Offered(a, m) == entry[m] = a \/ (m \in JavaMethods /\ osr[m] = a)

LEMMA SameHolds ==
    ASSUME NEW t, hand'[t] = hand[t], stack'[t] = stack[t], NEW a
    PROVE  /\ \A m : Holds(t, a, m)' <=> Holds(t, a, m)
           /\ Unflagged(t, a)' <=> Unflagged(t, a)
BY DEF Holds, Unflagged

LEMMA MutatorHolds ==
    ASSUME TypeOK, NEW t \in Mutators, Mutate(t), NEW a \in Addresses
    PROVE  /\ \A u \in Mutators \ {t} : hand'[u] = hand[u] /\ stack'[u] = stack[u]
           /\ \A m \in Methods : Holds(t, a, m)' => Holds(t, a, m) \/ Offered(a, m)
           /\ Unflagged(t, a)' => Unflagged(t, a) \/ \E m \in Methods : Offered(a, m)
<1>1. CASE Enter(t)
  <2> DEFINE f == [at |-> hand[t].at, method |-> hand[t].method, deoptimize |-> FALSE]
  <2>1. hand[t] \in Targets /\ hand[t] # None
    BY <1>1, StackTyped DEF Enter
  <2>2. f \in Frames /\ f.at = hand[t].at /\ f.method = hand[t].method
    BY <2>1 DEF Targets, Frames
  <2>3. stack' = [stack EXCEPT ![t] = Append(@, f)]
    BY <1>1 DEF Enter
  <2> HIDE DEF f
  <2>4. /\ \A u \in Mutators \ {t} : stack'[u] = stack[u]
        /\ \A i \in DOMAIN stack'[t] :
                stack'[t][i] = f \/ (i \in DOMAIN stack[t] /\ stack'[t][i] = stack[t][i])
    BY <2>2, <2>3, Pushed
  <2>5. hand'[t] = None /\ \A u \in Mutators \ {t} : hand'[u] = hand[u]
    BY <1>1 DEF Enter, TypeOK
  <2>6. \A m \in Methods : Holds(t, a, m)' => Holds(t, a, m)
    BY <2>1, <2>2, <2>4, <2>5 DEF Holds
  <2>7. Unflagged(t, a)' => Unflagged(t, a)
    BY <2>1, <2>2, <2>4, <2>5 DEF Unflagged
  <2> QED  BY <2>4, <2>5, <2>6, <2>7
<1>2. CASE Return(t) \/ Deoptimize(t)
  <2>1. stack[t] # <<>> /\ Pop(t) /\ hand' = hand
    BY <1>2 DEF Return, Deoptimize, InFrame
  <2>2. /\ \A u \in Mutators \ {t} : stack'[u] = stack[u]
        /\ \A i \in DOMAIN stack'[t] : i \in DOMAIN stack[t] /\ stack'[t][i] = stack[t][i]
    BY <2>1, Popped
  <2>3. \A m \in Methods : Holds(t, a, m)' => Holds(t, a, m)
    BY <2>1, <2>2 DEF Holds
  <2>4. Unflagged(t, a)' => Unflagged(t, a)
    BY <2>1, <2>2 DEF Unflagged
  <2> QED  BY <2>1, <2>2, <2>3, <2>4
<1>3. CASE EnqueueOptimizedCompilation(t)
  BY <1>3, SameHolds DEF EnqueueOptimizedCompilation
<1>4. ASSUME NEW m \in Methods, NEW b, Offered(b, m), stack' = stack,
             hand' = [hand EXCEPT ![t] = [at |-> b, method |-> m]]
      PROVE  /\ \A u \in Mutators \ {t} : hand'[u] = hand[u] /\ stack'[u] = stack[u]
             /\ \A n \in Methods : Holds(t, a, n)' => Holds(t, a, n) \/ Offered(a, n)
             /\ Unflagged(t, a)' => Unflagged(t, a) \/ \E n \in Methods : Offered(a, n)
  <2>1. /\ hand'[t] = [at |-> b, method |-> m]
        /\ \A u \in Mutators \ {t} : hand'[u] = hand[u] /\ stack'[u] = stack[u]
    BY <1>4 DEF TypeOK
  <2>2. hand'[t].at = b /\ hand'[t].method = m
    <3>1. [at |-> b, method |-> m].at = b /\ [at |-> b, method |-> m].method = m
      OBVIOUS
    <3> QED  BY <2>1, <3>1
  <2>3. \A n \in Methods : Holds(t, a, n)' => Holds(t, a, n) \/ Offered(a, n)
    BY <1>4, <2>2 DEF Holds
  <2>4. Unflagged(t, a)' => Unflagged(t, a) \/ Offered(a, m)
    BY <1>4, <2>2 DEF Unflagged
  <2> QED  BY <1>4, <2>1, <2>3, <2>4
<1>5. ASSUME NEW m \in Methods, Invoke(t, m) PROVE Offered(entry[m], m)
  BY DEF Offered
<1>6. CASE \E m \in Methods : Invoke(t, m)
  BY <1>4, <1>5, <1>6 DEF Invoke
<1>7. CASE \E m \in JavaMethods : PrepareForOsr(t, m)
  BY <1>4, <1>7, Apart DEF PrepareForOsr, Offered
<1> QED  BY <1>1, <1>2, <1>3, <1>6, <1>7 DEF Mutate

(* No thread but the mutator itself changes what it holds; the             *)
(* CHACheckpoint flags frames.                                             *)
LEMMA OtherHolds ==
    ASSUME TypeOK, OtherStep, NEW u \in Mutators, ~Mutate(u), NEW a \in Addresses
    PROVE  /\ \A m \in Methods : Holds(u, a, m)' => Holds(u, a, m)
           /\ Unflagged(u, a)' => Unflagged(u, a)
<1>1. CASE hand'[u] = hand[u] /\ stack'[u] = stack[u]
  BY <1>1, SameHolds
<1>2. ASSUME NEW t \in Mutators, Mutate(t) PROVE hand'[u] = hand[u] /\ stack'[u] = stack[u]
  BY <1>2, MutatorHolds
<1>3. ASSUME NEW m \in Methods, MaybeEnqueueCompilation(m) PROVE hand' = hand /\ stack' = stack
  BY <1>3 DEF MaybeEnqueueCompilation
<1>4. CASE LinkClass \/ LoaderStep
  BY <1>1, <1>4 DEF LinkClass, LoaderStep, InvalidateCompiledCodeFor, InvalidateOsrCode,
     RequestDeoptimization, Linked
<1>5. ASSUME NEW t \in Threads, RunMarkCodeClosure(t) PROVE hand' = hand /\ stack' = stack
  BY <1>5 DEF RunMarkCodeClosure
<1>6. ASSUME NEW t \in Threads, RunCHACheckpoint(t)
      PROVE  /\ \A m \in Methods : Holds(u, a, m)' => Holds(u, a, m)
             /\ Unflagged(u, a)' => Unflagged(u, a)
  <2>1. hand' = hand
    BY <1>6 DEF RunCHACheckpoint
  <2>2. /\ DOMAIN stack'[u] = DOMAIN stack[u]
        /\ \A i \in DOMAIN stack[u] :
            /\ stack'[u][i].at = stack[u][i].at /\ stack'[u][i].method = stack[u][i].method
            /\ stack[u][i].deoptimize => stack'[u][i].deoptimize
    BY <1>6, Flagged
  <2> QED  BY <2>1, <2>2 DEF Holds, Unflagged
<1> QED  BY <1>1, <1>2, <1>3, <1>4, <1>5, <1>6 DEF OtherStep, RunCheckpoint

-----------------------------------------------------------------------------
(* The code that is used is there.                                         *)

NextCodeOf(a, m) ==
    code'[a] # None /\ (code'[a].method = m \/ {code'[a].method, m} \subseteq NativeMethods)

LEMMA AliveMoves ==
    ASSUME TypeOK, Alive,
           \A m \in Methods : entry'[m] \in {entry[m], None} \/ NextCodeOf(entry'[m], m),
           \A m \in JavaMethods : osr'[m] \in {osr[m], None} \/ NextCodeOf(osr'[m], m),
           \A t \in Mutators, a \in Addresses, m \in Methods :
                Holds(t, a, m)' => Holds(t, a, m) \/ Offered(a, m),
           \A a \in Addresses, m \in Methods :
                Offered(a, m) \/ (\E t \in Mutators : Holds(t, a, m)) => code'[a] = code[a]
    PROVE  Alive'
<1>0. None \notin Addresses /\ JavaMethods \subseteq Methods
  BY JitAssumption DEF Methods
<1>1. ASSUME NEW a \in Addresses, NEW m \in Methods, Offered(a, m)
      PROVE  NextCodeOf(a, m)
  <2>1. IsCodeOf(a, m)
    <3>1. CASE entry[m] = a
      BY <1>0, <3>1 DEF Alive
    <3>2. CASE m \in JavaMethods /\ osr[m] = a
      BY <1>0, <3>2 DEF Alive
    <3> QED  BY <1>1, <3>1, <3>2 DEF Offered
  <2>2. code'[a] = code[a]
    BY <1>1
  <2> QED  BY <2>1, <2>2 DEF IsCodeOf, NextCodeOf
<1>2. ASSUME NEW t \in Mutators, NEW a \in Addresses, NEW m \in Methods, Holds(t, a, m)
      PROVE  NextCodeOf(a, m)
  <2>1. IsCodeOf(a, m)
    BY <1>2 DEF Alive
  <2>2. code'[a] = code[a]
    BY <1>2
  <2> QED  BY <2>1, <2>2 DEF IsCodeOf, NextCodeOf
<1>3. ASSUME NEW m \in Methods, entry'[m] # None
      PROVE  NextCodeOf(entry'[m], m)
  <2>1. CASE entry'[m] = entry[m]
    <3>1. entry[m] \in Addresses
      BY <1>3, <2>1 DEF TypeOK
    <3>2. Offered(entry[m], m)
      BY DEF Offered
    <3>3. NextCodeOf(entry[m], m)
      BY <1>1, <3>1, <3>2
    <3> QED  BY <2>1, <3>3
  <2> QED  BY <1>3, <2>1
<1>4. ASSUME NEW m \in JavaMethods, osr'[m] # None
      PROVE  NextCodeOf(osr'[m], m)
  <2>1. CASE osr'[m] = osr[m]
    <3>1. osr[m] \in Addresses
      BY <1>4, <2>1 DEF TypeOK
    <3>2. Offered(osr[m], m)
      BY DEF Offered
    <3>3. NextCodeOf(osr[m], m)
      BY <1>0, <1>1, <3>1, <3>2
    <3> QED  BY <2>1, <3>3
  <2> QED  BY <1>4, <2>1
<1>5. ASSUME NEW t \in Mutators, NEW a \in Addresses, NEW m \in Methods, Holds(t, a, m)'
      PROVE  NextCodeOf(a, m)
  BY <1>1, <1>2, <1>5
<1>6. \A m \in Methods : entry'[m] # None => IsCodeOf(entry[m], m)'
  BY <1>3 DEF NextCodeOf, IsCodeOf
<1>7. \A m \in JavaMethods : osr'[m] # None => IsCodeOf(osr[m], m)'
  BY <1>4 DEF NextCodeOf, IsCodeOf
<1>8. \A t \in Mutators, a \in Addresses, m \in Methods : Holds(t, a, m)' => IsCodeOf(a, m)'
  BY <1>5 DEF NextCodeOf, IsCodeOf
<1> QED  BY <1>6, <1>7, <1>8 DEF Alive

LEMMA CompilerAlive ==
    ASSUME IInv, NEW t \in Compilers, RunTask(t) \/ CompilerStep(t)
    PROVE  Alive'
<1>0. TypeOK /\ Alive /\ Others(t) /\ HasTask(t) /\ Stub
  BY CompilerMoves DEF IInv, Tasks
<1>1. \A u \in Mutators, a \in Addresses, m \in Methods : Holds(u, a, m)' => Holds(u, a, m)
  BY CompilerChanges, SameHolds
<1>2. CASE Publish(t)
  <2> DEFINE a == job[t].at
  <2>1. a \in Addresses /\ code[a] = None /\ Method(t) \in Methods /\ Kind(t) \in Kinds
    BY <1>0, <1>2, Apart DEF Publish, HasTask, IInv, Reserved, HolderLabels
  <2>2. /\ code'[a] = [method |-> Method(t), kind |-> Kind(t), cha |-> job[t].cha]
        /\ \A b \in Addresses : b # a => code'[b] = code[b]
    BY <1>0, <1>2, <2>1 DEF Publish, TypeOK
  <2>3. code'[a] # None /\ code'[a].method = Method(t)
    <3>1. [method |-> Method(t), kind |-> Kind(t), cha |-> job[t].cha] \in Codes
      BY <1>0, <2>1, JobTyped DEF Codes
    <3>2. [method |-> Method(t), kind |-> Kind(t), cha |-> job[t].cha].method = Method(t)
      OBVIOUS
    <3>3. None \notin Codes
      BY JitAssumption
    <3> QED  BY <2>2, <3>1, <3>2, <3>3
  <2>4. NextCodeOf(a, Method(t)) /\ \A n \in NativeMethods : Native(t) => NextCodeOf(a, n)
    BY <2>3 DEF NextCodeOf, Native
  <2>5. ASSUME NEW b \in Addresses, NEW m \in Methods,
               Offered(b, m) \/ \E u \in Mutators : Holds(u, b, m)
        PROVE  code'[b] = code[b]
    <3>1. IsCodeOf(b, m)
      BY <1>0, <2>5, Apart DEF Alive, Offered
    <3> QED  BY <2>1, <2>2, <3>1 DEF IsCodeOf
  <2>6. \A m \in Methods : entry'[m] = entry[m] \/ NextCodeOf(entry'[m], m)
    <3>1. CASE Native(t)
      <4>1. stub # None /\ stub.methods \subseteq NativeMethods
        BY <1>0, <1>2, <3>1 DEF Publish, Stub, StubKnown, AtStub, CompilingLabels, TypeOK, Stubs
      <4>2. entry' = [n \in Methods |-> IF n \in stub.methods THEN a ELSE entry[n]]
        BY <1>2, <3>1 DEF Publish, Native
      <4> TAKE m \in Methods
      <4>3. entry'[m] = IF m \in stub.methods THEN a ELSE entry[m]
        BY <4>2
      <4> QED  BY <2>4, <3>1, <4>1, <4>3
    <3>2. CASE ~Native(t)
      <4>1. entry' = entry \/ entry' = [entry EXCEPT ![Method(t)] = a]
        BY <1>2, <3>2 DEF Publish, Native
      <4> TAKE m \in Methods
      <4>2. entry'[m] = entry[m] \/ (m = Method(t) /\ entry'[m] = a)
        BY <1>0, <4>1 DEF TypeOK
      <4> QED  BY <2>4, <4>2
    <3> QED  BY <3>1, <3>2
  <2>7. \A m \in JavaMethods : osr'[m] = osr[m] \/ NextCodeOf(osr'[m], m)
    <3>1. osr' = osr \/ osr' = [osr EXCEPT ![Method(t)] = a]
      BY <1>2 DEF Publish
    <3> TAKE m \in JavaMethods
    <3>2. osr'[m] = osr[m] \/ (m = Method(t) /\ osr'[m] = a)
      BY <1>0, <3>1 DEF TypeOK
    <3> QED  BY <2>4, <3>2
  <2> QED  BY <1>0, <1>1, <2>5, <2>6, <2>7, AliveMoves
<1>3. CASE RemoveUnmarkedCode(t)
  <2>1. /\ pc[t] = "remove" /\ marking = {} /\ UNCHANGED <<entry, osr>>
        /\ \A a \in Addresses : a \in live => code'[a] = code[a]
    BY <1>3 DEF RemoveUnmarkedCode, Ready, Removable
  <2>2. \A a \in Addresses, m \in Methods :
            Offered(a, m) \/ (\E u \in Mutators : Holds(u, a, m)) => a \in live
    BY <2>1, Apart DEF IInv, EntriesMarked, HeldMarked, Sweeping, Offered
  <2> QED  BY <1>0, <1>1, <2>1, <2>2, AliveMoves
<1>4. CASE ~Publish(t) /\ ~RemoveUnmarkedCode(t)
  <2>1. code' = code
    BY <1>4, CompilerChanges
  <2>2. \A m \in JavaMethods : osr'[m] \in {osr[m], None}
    <3>1. CASE DoCollection(t)
      BY <3>1 DEF DoCollection, NoOsr
    <3> QED  BY <1>4, <3>1, CompilerChanges
  <2>3. \A m \in Methods : entry'[m] \in {entry[m], None} \/ NextCodeOf(entry'[m], m)
    <3>1. CASE RegisterNative(t)
      <4> TAKE m \in Methods
      <4>1. entry'[m] = entry[m] \/ (Revived /\ entry'[m] = stub.code /\ m \in NativeMethods)
        <5>1. stub # None => stub.methods \subseteq NativeMethods
          BY <1>0 DEF TypeOK, Stubs
        <5> QED  BY <3>1, <5>1 DEF RegisterNative, Revived
      <4>2. Revived /\ m \in NativeMethods => IsCodeOf(stub.code, m)
        BY <1>0 DEF Stub, IsCodeOf
      <4>3. Revived /\ m \in NativeMethods /\ entry'[m] = stub.code => NextCodeOf(entry'[m], m)
        BY <2>1, <4>2 DEF IsCodeOf, NextCodeOf
      <4> QED  BY <4>1, <4>3
    <3>2. CASE DoCollection(t)
      BY <3>2 DEF DoCollection, WarmEntries
    <3>3. CASE FinishCollection(t)
      BY <3>3 DEF FinishCollection
    <3> QED  BY <1>4, <3>1, <3>2, <3>3, CompilerChanges
  <2> QED  BY <1>0, <1>1, <2>1, <2>2, <2>3, AliveMoves
<1> QED  BY <1>2, <1>3, <1>4

LEMMA OtherAlive ==
    ASSUME IInv, OtherStep
    PROVE  Alive'
<1>1. TypeOK /\ Alive
  BY DEF IInv
<1>2. /\ code' = code
      /\ \A m \in Methods : entry'[m] \in {entry[m], None}
      /\ \A m \in JavaMethods : osr'[m] \in {osr[m], None}
  BY <1>1, OtherChanges
<1>3. \A t \in Mutators, a \in Addresses, m \in Methods :
        Holds(t, a, m)' => Holds(t, a, m) \/ Offered(a, m)
  BY <1>1, OtherHolds, MutatorHolds
<1> QED  BY <1>1, <1>2, <1>3, AliveMoves

-----------------------------------------------------------------------------
(* What a collection has marked.                                           *)

Marked == \E t \in Compilers : pc[t] \in {"checkpoint", "remove"}

LEMMA CompilerMarked ==
    ASSUME IInv, NEW t \in Compilers, RunTask(t) \/ CompilerStep(t)
    PROVE  EntriesMarked' /\ HeldMarked'
<1> USE DEF CollectLabels, GcLabels
<1>0. TypeOK /\ Synchronisation /\ Others(t) /\ HasTask(t) /\ EntriesMarked /\ HeldMarked
  BY CompilerMoves DEF IInv, Tasks
<1>1. \A u \in Mutators, a \in Addresses, m \in Methods : Holds(u, a, m)' <=> Holds(u, a, m)
  BY CompilerChanges, SameHolds
<1>2. CASE DoCollection(t)
  <2>1. pc[t] = "collect" /\ pc'[t] = "checkpoint"
    BY <1>0, <1>2, Labels
  <2>2. ~Sweeping'
    BY <1>0, <2>1 DEF Sweeping, Others, Synchronisation
  <2>3. \A m \in Methods : entry'[m] \in live' \cup {None}
    BY <1>2 DEF DoCollection
  <2>4. \A m \in JavaMethods : osr'[m] = None
    BY <1>2 DEF DoCollection, NoOsr
  <2> QED  BY <2>2, <2>3, <2>4 DEF EntriesMarked, HeldMarked
<1>3. CASE MarkCompiledCodeOnThreadStacks(t)
  <2>1. /\ pc[t] = "checkpoint" /\ UNCHANGED <<entry, osr, live>>
        /\ marking' = {u \in Threads \ {t} : ~Suspended(u)}
    BY <1>3 DEF MarkCompiledCodeOnThreadStacks
  <2>2. \A u \in Mutators : u \in marking'
    BY <2>1, Apart DEF Suspended
  <2>3. EntriesMarked'
    BY <1>0, <2>1 DEF EntriesMarked
  <2> QED  BY <2>2, <2>3 DEF HeldMarked
<1>4. CASE FinishCollection(t)
  <2>1. pc[t] = "finish" /\ pc'[t] \in {"reserve", "profileAgain"}
    BY <1>0, <1>4, Labels DEF HasTask
  <2>2. ~Marked' /\ ~Sweeping'
    BY <1>0, <2>1 DEF Marked, Sweeping, Others, Synchronisation
  <2> QED  BY <2>2 DEF EntriesMarked, HeldMarked, Marked
<1>5. CASE GarbageCollectCache(t)
  <2>1. ~collecting /\ pc'[t] \in {"collect", "reserve", "profileAgain"}
    BY <1>0, <1>5, Labels DEF GarbageCollectCache, HasTask
  <2>2. ~Marked' /\ ~Sweeping'
    BY <1>0, <2>1 DEF Marked, Sweeping, Others, Synchronisation, Synchronised
  <2> QED  BY <2>2 DEF EntriesMarked, HeldMarked, Marked
<1>6. CASE Publish(t)
  <2>1. ~collecting /\ pc'[t] = "done"
    BY <1>0, <1>6, Labels, Apart DEF Synchronisation, Synchronised
  <2>2. ~Marked' /\ ~Sweeping'
    BY <1>0, <2>1 DEF Marked, Sweeping, Others, Synchronisation, Synchronised
  <2> QED  BY <2>2 DEF EntriesMarked, HeldMarked, Marked
<1>7. CASE RegisterNative(t)
  <2>1. /\ live \subseteq live' /\ UNCHANGED <<osr, marking>>
        /\ \A m \in Methods : entry'[m] = entry[m] \/ (Revived /\ entry'[m] = stub.code)
    BY <1>7 DEF RegisterNative, ReviveMarks
  <2>2. Marked' => Marked /\ collecting
    BY <1>0, <1>7, Labels DEF Marked, Others, Synchronisation, Synchronised
  <2>3. Sweeping' => Sweeping
    BY <1>0, <1>7, Labels DEF Sweeping, Others
  <2>4. collecting /\ Revived => stub.code \in live'
    BY <1>7 DEF RegisterNative, ReviveMarks
  <2>5. EntriesMarked'
    BY <1>0, <2>1, <2>2, <2>4 DEF EntriesMarked, Marked
  <2>6. HeldMarked'
    BY <1>0, <1>1, <2>1, <2>3 DEF HeldMarked
  <2> QED  BY <2>5, <2>6
<1>8. CASE /\ ~DoCollection(t) /\ ~MarkCompiledCodeOnThreadStacks(t) /\ ~FinishCollection(t)
           /\ ~GarbageCollectCache(t) /\ ~Publish(t) /\ ~RegisterNative(t)
  <2>1. UNCHANGED <<entry, osr, live, marking>>
    BY <1>8, CompilerChanges
  <2>2. pc'[t] \notin {"checkpoint", "remove"}
    BY <1>0, <1>8, Labels DEF CompilerStep, HasTask
  <2>3. /\ Marked' => Marked
        /\ Sweeping' => Sweeping
    BY <1>0, <2>2 DEF Marked, Sweeping, Others
  <2> QED  BY <1>0, <1>1, <2>1, <2>3 DEF EntriesMarked, HeldMarked, Marked
<1> QED  BY <1>2, <1>3, <1>4, <1>5, <1>6, <1>7, <1>8

LEMMA OtherMarked ==
    ASSUME IInv, OtherStep
    PROVE  EntriesMarked' /\ HeldMarked'
<1>1. TypeOK /\ EntriesMarked /\ HeldMarked
  BY DEF IInv
<1>2. \A u \in Compilers : pc'[u] = pc[u]
  BY <1>1, QuietSteps DEF Quiet
<1>3. Marked' = Marked /\ Sweeping' = Sweeping
  BY <1>2 DEF Marked, Sweeping
<1>4. /\ \A m \in Methods : entry'[m] = entry[m] \/ entry'[m] = None
      /\ \A m \in JavaMethods : osr'[m] = osr[m] \/ osr'[m] = None
      /\ live \subseteq live'
  BY <1>1, OtherChanges
<1>5. EntriesMarked'
  BY <1>1, <1>3, <1>4 DEF EntriesMarked, Marked
<1>6. HeldMarked'
  <2> SUFFICES ASSUME Sweeping, NEW u \in Mutators \ marking', NEW a \in Addresses,
                      NEW m \in Methods, Holds(u, a, m)'
               PROVE  a \in live'
    BY <1>3 DEF HeldMarked
  <2>1. Offered(a, m) => a \in live
    BY <1>1, Apart DEF EntriesMarked, Sweeping, Offered
  <2>2. CASE u \in marking
    <3>1. RunMarkCodeClosure(u)
      <4>1. ASSUME NEW v \in Threads, RunMarkCodeClosure(v) PROVE u = v
        BY <2>2, <4>1 DEF RunMarkCodeClosure
      <4> QED  BY <2>2, <4>1, MarkingShrinks
    <3>2. hand[u] = None /\ live' = live \cup OnStack(u) /\ hand' = hand /\ stack' = stack
      BY <3>1 DEF RunMarkCodeClosure, AtSuspendPoint
    <3>3. PICK i \in DOMAIN stack[u] : stack[u][i].at = a
      BY <3>2 DEF Holds
    <3> QED  BY <3>2, <3>3 DEF OnStack
  <2>3. CASE u \notin marking
    <3>1. Holds(u, a, m) \/ Offered(a, m)
      BY <1>1, MutatorHolds, OtherHolds
    <3> QED  BY <1>1, <1>4, <2>1, <2>3, <3>1 DEF HeldMarked
  <2> QED  BY <2>2, <2>3
<1> QED  BY <1>5, <1>6

-----------------------------------------------------------------------------
(* Code that relies on the single implementation.                          *)

LEMMA CompilerRelies ==
    ASSUME IInv, NEW t \in Compilers, RunTask(t) \/ CompilerStep(t),
           NEW a \in Addresses, Relies(a)'
    PROVE  \/ /\ Relies(a) /\ code'[a] = code[a]
              /\ \A m : <<m, a>> \in deps => <<m, a>> \in deps'
           \/ /\ Publish(t) /\ a = job[t].at /\ job[t].cha /\ deps' = deps
              /\ code'[a].method = Method(t) /\ code'[a].kind = Kind(t)
<1>0. TypeOK
  BY DEF IInv
<1>1. CASE Publish(t)
  <2> DEFINE c == [method |-> Method(t), kind |-> Kind(t), cha |-> job[t].cha]
  <2>1. deps' = deps /\ code' = [code EXCEPT ![job[t].at] = c]
    BY <1>1 DEF Publish
  <2>2. c.method = Method(t) /\ c.kind = Kind(t) /\ c.cha = job[t].cha
    OBVIOUS
  <2>3. CASE a = job[t].at
    <3>1. code'[a] = c
      BY <1>0, <2>1, <2>3 DEF TypeOK
    <3>2. code'[a].cha
      BY DEF Relies
    <3> QED  BY <1>1, <2>1, <2>2, <2>3, <3>1, <3>2
  <2>4. CASE a # job[t].at
    <3>1. code'[a] = code[a]
      BY <1>0, <2>1, <2>4 DEF TypeOK
    <3> QED  BY <2>1, <3>1 DEF Relies
  <2> QED  BY <2>3, <2>4
<1>2. CASE RemoveUnmarkedCode(t)
  <2>1. /\ code'[a] = IF Removable(a) THEN None ELSE code[a]
        /\ deps' = {d \in deps : ~Removable(d[2])}
    BY <1>2 DEF RemoveUnmarkedCode
  <2>2. ~Removable(a) /\ code'[a] = code[a]
    BY <2>1 DEF Relies
  <2>3. \A m : <<m, a>>[2] = a
    OBVIOUS
  <2>4. \A m : <<m, a>> \in deps => <<m, a>> \in deps'
    BY <2>1, <2>2, <2>3
  <2> QED  BY <2>2, <2>4 DEF Relies
<1>3. CASE ~Publish(t) /\ ~RemoveUnmarkedCode(t)
  <2>1. code' = code
    BY <1>3, CompilerChanges
  <2>2. deps \subseteq deps'
    <3>1. CASE Commit(t)
      BY <3>1 DEF Commit
    <3> QED  BY <1>3, <3>1, CompilerChanges
  <2> QED  BY <2>1, <2>2 DEF Relies
<1> QED  BY <1>1, <1>2, <1>3

LEMMA CompilerToCommit ==
    ASSUME IInv, NEW t \in Compilers, RunTask(t) \/ CompilerStep(t),
           NEW u \in Compilers, ToCommit(u)'
    PROVE  /\ job'[u] = job[u]
           /\ \/ /\ ToCommit(u)
                 /\ <<Method(u), job[u].at>> \in deps => <<Method(u), job[u].at>> \in deps'
              \/ job[u].cha /\ single /\ <<Method(u), job[u].at>> \in deps'
<1>0. TypeOK /\ Others(t) /\ HasTask(t)
  BY CompilerMoves DEF IInv, Tasks
<1>1. CASE u # t
  <2>1. pc'[u] = pc[u] /\ job'[u] = job[u]
    BY <1>0, <1>1 DEF Others
  <2>2. ToCommit(u)
    BY <2>1 DEF ToCommit
  <2>3. <<Method(u), job[u].at>> \in deps => <<Method(u), job[u].at>> \in deps'
    <3>1. CASE RemoveUnmarkedCode(t)
      <4>1. job[u].at \in Addresses /\ code[job[u].at] = None
        BY <2>2, Apart DEF IInv, Reserved, ToCommit, HolderLabels
      <4>2. ~Removable(job[u].at)
        BY <4>1 DEF Removable
      <4>3. <<Method(u), job[u].at>>[2] = job[u].at
        OBVIOUS
      <4>4. deps' = {d \in deps : ~Removable(d[2])}
        BY <3>1 DEF RemoveUnmarkedCode
      <4> QED  BY <4>2, <4>3, <4>4
    <3>2. CASE Commit(t)
      BY <3>2 DEF Commit
    <3> QED  BY <3>1, <3>2, CompilerChanges
  <2> QED  BY <2>1, <2>2, <2>3
<1>2. CASE u = t
  <2>1. pc'[t] = "publish"
    BY <1>2 DEF ToCommit
  <2>2. Commit(t)
    BY <1>0, <2>1, Labels DEF CompilerStep, HasTask, GcLabels, CollectLabels
  <2>3. job'[t] = job[t]
    BY <2>2 DEF Commit
  <2>4. job[t].cha
    BY <1>2, <2>3 DEF ToCommit
  <2>5. pc'[t] # "free"
    BY <2>1
  <2>6. single /\ <<Method(t), job[t].at>> \in deps'
    <3>1. CASE Goto(t, "free")
      BY <1>0, <2>5, <3>1, Moved
    <3> QED  BY <2>2, <2>4, <3>1 DEF Commit
  <2> QED  BY <1>2, <2>3, <2>4, <2>6
<1> QED  BY <1>1, <1>2

LEMMA CompilerChaKinds ==
    ASSUME IInv, NEW t \in Compilers, RunTask(t) \/ CompilerStep(t)
    PROVE  ChaKinds'
<1>0. TypeOK /\ Others(t) /\ HasTask(t) /\ ChaKinds
  BY CompilerMoves DEF IInv, Tasks
<1>1. \A a \in Addresses : Relies(a)' => code'[a].kind = "optimized" /\ code'[a].method \in JavaMethods
  BY <1>0, CompilerRelies DEF ChaKinds
<1>2. \A u \in Compilers : job'[u].cha => Kind(u)' = "optimized" /\ Method(u)' \in JavaMethods
  <2> SUFFICES ASSUME NEW u \in Compilers, job'[u].cha
               PROVE  Kind(u)' = "optimized" /\ Method(u)' \in JavaMethods
    OBVIOUS
  <2>1. CASE u # t
    BY <1>0, <2>1 DEF Others, ChaKinds, Method, Kind
  <2>2. CASE u = t
    <3>1. ~RunTask(t)
      BY <1>0, <2>2, RunTaskJob
    <3>2. ~RemoveMethodBeingCompiled(t)
      BY <1>0, <2>2, SetNoJob DEF RemoveMethodBeingCompiled
    <3>3. TaskKept(t) /\ (~Compile(t) => job'[t].cha = job[t].cha)
      BY <1>0, <3>1, <3>2, TaskMoves
    <3>4. CASE Compile(t)
      <4>1. job'[t].cha = (Method(t) \in JavaMethods /\ Kind(t) = "optimized" /\ single)
        BY <1>0, <3>4, SetCha DEF Compile
      <4> QED  BY <2>2, <3>3, <4>1 DEF TaskKept
    <3>5. CASE ~Compile(t)
      BY <1>0, <2>2, <3>3, <3>5 DEF TaskKept, ChaKinds
    <3> QED  BY <3>4, <3>5
  <2> QED  BY <2>1, <2>2
<1>3. \A m \in JavaMethods : osr'[m] # None => code'[osr'[m]].kind = "osr"
  <2> SUFFICES ASSUME NEW m \in JavaMethods, osr'[m] # None
               PROVE  code'[osr'[m]].kind = "osr"
    OBVIOUS
  <2>1. CASE Publish(t)
    <3> DEFINE c == [method |-> Method(t), kind |-> Kind(t), cha |-> job[t].cha]
    <3>1. /\ job[t].at \in Addresses /\ code[job[t].at] = None
      BY <1>0, <2>1, Apart DEF Publish, IInv, Reserved, HolderLabels
    <3>2. /\ code' = [code EXCEPT ![job[t].at] = c]
          /\ osr' = IF Kind(t) = "osr" THEN [osr EXCEPT ![Method(t)] = job[t].at] ELSE osr
      BY <2>1 DEF Publish
    <3>3. c.kind = Kind(t)
      OBVIOUS
    <3>4. CASE osr'[m] = osr[m]
      <4>1. osr[m] \in Addresses /\ code[osr[m]] # None
        BY <3>4 DEF IInv, TypeOK, Alive, IsCodeOf
      <4>2. code'[osr[m]] = code[osr[m]]
        BY <1>0, <3>1, <3>2, <4>1 DEF TypeOK
      <4> QED  BY <1>0, <3>4, <4>2 DEF ChaKinds
    <3>5. CASE osr'[m] # osr[m]
      <4>1. Kind(t) = "osr" /\ osr'[m] = job[t].at
        BY <1>0, <3>2, <3>5 DEF TypeOK
      <4>2. code'[job[t].at] = c
        BY <1>0, <3>1, <3>2 DEF TypeOK
      <4> QED  BY <3>3, <4>1, <4>2
    <3> QED  BY <3>4, <3>5
  <2>2. CASE RemoveUnmarkedCode(t)
    <3>1. osr' = osr /\ pc[t] = "remove" /\ \A a \in Addresses : a \in live => code'[a] = code[a]
      BY <2>2 DEF RemoveUnmarkedCode, Ready, Removable
    <3>2. osr[m] \in live /\ osr[m] \in Addresses
      BY <1>0, <3>1 DEF IInv, EntriesMarked, TypeOK
    <3>3. code'[osr[m]] = code[osr[m]]
      BY <3>1, <3>2
    <3> QED  BY <1>0, <3>1, <3>3 DEF ChaKinds
  <2>3. CASE DoCollection(t)
    BY <2>3 DEF DoCollection, NoOsr
  <2>4. CASE ~Publish(t) /\ ~RemoveUnmarkedCode(t) /\ ~DoCollection(t)
    <3>1. code' = code /\ osr' = osr
      BY <2>4, CompilerChanges
    <3> QED  BY <1>0, <3>1 DEF ChaKinds
  <2> QED  BY <2>1, <2>2, <2>3, <2>4
<1> QED  BY <1>1, <1>2, <1>3 DEF ChaKinds

LEMMA CompilerRegistered ==
    ASSUME IInv, NEW t \in Compilers, RunTask(t) \/ CompilerStep(t)
    PROVE  Registered'
<1>0. Registered /\ single' = single
  BY CompilerChanges DEF IInv
<1> SUFFICES ASSUME single
             PROVE  /\ \A a \in Addresses : Relies(a)' => <<code'[a].method, a>> \in deps'
                    /\ \A u \in Compilers : ToCommit(u)' => <<Method(u)', job'[u].at>> \in deps'
  BY <1>0 DEF Registered
<1>1. ASSUME NEW a \in Addresses, Relies(a)'
      PROVE  <<code'[a].method, a>> \in deps'
  <2>1. CASE Publish(t) /\ a = job[t].at /\ job[t].cha /\ deps' = deps /\ code'[a].method = Method(t)
    <3>1. ToCommit(t)
      BY <2>1 DEF ToCommit, Publish
    <3> QED  BY <1>0, <2>1, <3>1 DEF Registered
  <2>2. CASE Relies(a) /\ code'[a] = code[a] /\ \A m : <<m, a>> \in deps => <<m, a>> \in deps'
    BY <1>0, <2>2 DEF Registered
  <2> QED  BY <1>1, <2>1, <2>2, CompilerRelies
<1>2. ASSUME NEW u \in Compilers, ToCommit(u)'
      PROVE  <<Method(u)', job'[u].at>> \in deps'
  BY <1>0, <1>2, CompilerToCommit DEF Registered, Method
<1> QED  BY <1>1, <1>2

LEMMA CompilerDoomed ==
    ASSUME IInv, NEW t \in Compilers, RunTask(t) \/ CompilerStep(t)
    PROVE  Doomed'
<1>0. /\ TypeOK /\ Doomed /\ Others(t) /\ HasTask(t)
      /\ single' = single /\ doomed' = doomed /\ unseen' = unseen /\ headers' = headers
  BY CompilerChanges, CompilerMoves DEF IInv, Tasks
<1> SUFFICES ASSUME ~single
             PROVE  /\ \A a \in Addresses : Relies(a)' => a \in doomed \cup unseen
                    /\ \A u \in Compilers : ToCommit(u)' => job'[u].at \in unseen
                    /\ \A m \in JavaMethods, a \in Addresses \ unseen :
                        entry'[m] = a /\ Relies(a)' => <<m, a>> \in headers
  BY <1>0 DEF Doomed
<1>1. ASSUME NEW a \in Addresses, Relies(a)'
      PROVE  a \in unseen \/ Relies(a)
  <2>1. CASE Publish(t) /\ a = job[t].at /\ job[t].cha
    <3>1. ToCommit(t)
      BY <2>1 DEF ToCommit, Publish
    <3> QED  BY <1>0, <2>1, <3>1 DEF Doomed
  <2> QED  BY <1>1, <2>1, CompilerRelies
<1>2. ASSUME NEW a \in Addresses, Relies(a)'
      PROVE  a \in doomed \cup unseen
  BY <1>0, <1>1, <1>2 DEF Doomed
<1>3. ASSUME NEW u \in Compilers, ToCommit(u)'
      PROVE  job'[u].at \in unseen
  BY <1>0, <1>3, CompilerToCommit DEF Doomed
<1>4. ASSUME NEW m \in JavaMethods, NEW a \in Addresses \ unseen, entry'[m] = a, Relies(a)'
      PROVE  <<m, a>> \in headers
  <2>1. Relies(a)
    BY <1>1, <1>4
  <2>2. m \in Methods /\ m \notin NativeMethods /\ a # None
    BY JitAssumption DEF Methods
  <2>3. entry[m] = a
    <3>1. CASE Publish(t)
      <4>1. code[job[t].at] = None
        BY <1>0, <3>1, Apart DEF Publish, IInv, Reserved, HolderLabels
      <4>2. a # job[t].at
        BY <2>1, <4>1 DEF Relies
      <4>3. entry'[m] = entry[m] \/ entry'[m] = job[t].at
        <5>1. CASE Native(t)
          BY <2>2, <3>1, <5>1 DEF Publish, Native
        <5>2. CASE ~Native(t)
          <6>1. entry' = entry \/ entry' = [entry EXCEPT ![Method(t)] = job[t].at]
            BY <3>1, <5>2 DEF Publish, Native
          <6> QED  BY <1>0, <2>2, <6>1 DEF TypeOK
        <5> QED  BY <5>1, <5>2
      <4> QED  BY <1>4, <4>2, <4>3
    <3>2. CASE RegisterNative(t)
      <4>1. {Method(t)} \cup (IF stub = None THEN {} ELSE stub.methods) \subseteq NativeMethods
        BY <1>0, <3>2 DEF RegisterNative, TypeOK, Stubs
      <4> QED  BY <1>4, <2>2, <3>2, <4>1 DEF RegisterNative
    <3>3. CASE DoCollection(t)
      BY <1>4, <2>2, <3>3 DEF DoCollection, WarmEntries
    <3>4. CASE FinishCollection(t)
      BY <1>4, <2>2, <3>4 DEF FinishCollection
    <3> QED  BY <1>4, <3>1, <3>2, <3>3, <3>4, CompilerChanges
  <2> QED  BY <1>0, <1>4, <2>1, <2>3 DEF Doomed
<1> QED  BY <1>2, <1>3, <1>4

LEMMA CompilerProgress ==
    ASSUME IInv, NEW t \in Compilers, RunTask(t) \/ CompilerStep(t)
    PROVE  Progress'
<1>0. /\ TypeOK /\ Progress /\ Doomed /\ pc'[Loader] = pc[Loader]
      /\ single' = single /\ headers' = headers /\ unseen' = unseen
      /\ deoptimizing' = deoptimizing /\ hand' = hand /\ stack' = stack
  BY CompilerChanges, CompilerMoves DEF IInv, Others
<1>1. ASSUME pc[Loader] \in {"deoptimize", "linked"}, NEW u \in Mutators,
             NEW a \in Addresses \ unseen, Relies(a)', Unflagged(u, a)'
      PROVE  pc[Loader] = "deoptimize" /\ u \in deoptimizing
  <2>1. ~single
    BY <1>0, <1>1 DEF Progress
  <2>2. Unflagged(u, a)
    BY <1>0, <1>1, SameHolds
  <2>3. Relies(a)
    <3>1. CASE Publish(t) /\ a = job[t].at /\ job[t].cha
      <4>1. ToCommit(t)
        BY <3>1 DEF ToCommit, Publish
      <4> QED  BY <1>0, <2>1, <3>1, <4>1 DEF Doomed
    <3> QED  BY <1>1, <3>1, CompilerRelies
  <2> QED  BY <1>0, <1>1, <2>2, <2>3 DEF Progress
<1> QED  BY <1>0, <1>1 DEF Progress

LEMMA LoaderMoves ==
    ASSUME TypeOK
    PROVE  /\ LinkClass => pc[Loader] = "idle" /\ pc'[Loader] = IF deps = {} THEN "linked" ELSE "invalidate"
           /\ InvalidateCompiledCodeFor =>
                /\ pc[Loader] = "invalidate"
                /\ pc'[Loader] \in {"invalidate", "invalidateOsr"}
           /\ InvalidateOsrCode => pc[Loader] = "invalidateOsr" /\ pc'[Loader] = "invalidate"
           /\ RequestDeoptimization => pc[Loader] = "invalidate" /\ pc'[Loader] = "deoptimize"
           /\ Linked => pc[Loader] = "deoptimize" /\ pc'[Loader] = "linked"
<1>0. \A l : Goto(Loader, l) => pc'[Loader] = l
  BY DEF Goto, TypeOK
<1>1. LinkClass => pc[Loader] = "idle" /\ pc'[Loader] = IF deps = {} THEN "linked" ELSE "invalidate"
  BY <1>0 DEF LinkClass
<1>2. ASSUME InvalidateCompiledCodeFor
      PROVE  /\ pc[Loader] = "invalidate"
             /\ pc'[Loader] \in {"invalidate", "invalidateOsr"}
  <2>1. PICK d \in headers :
          IF IsEntryPoint(d[1], d[2])
          THEN ResetEntry(d[1]) /\ UNCHANGED <<pc, header>>
          ELSE header' = d /\ Goto(Loader, "invalidateOsr") /\ UNCHANGED cacheVars
    BY <1>2 DEF InvalidateCompiledCodeFor
  <2>2. pc[Loader] = "invalidate"
    BY <1>2 DEF InvalidateCompiledCodeFor
  <2> QED  BY <1>0, <2>1, <2>2
<1>3. InvalidateOsrCode => pc[Loader] = "invalidateOsr" /\ pc'[Loader] = "invalidate"
  BY <1>0 DEF InvalidateOsrCode
<1>4. RequestDeoptimization => pc[Loader] = "invalidate" /\ pc'[Loader] = "deoptimize"
  BY <1>0 DEF RequestDeoptimization
<1>5. Linked => pc[Loader] = "deoptimize" /\ pc'[Loader] = "linked"
  BY <1>0 DEF Linked
<1> QED  BY <1>1, <1>2, <1>3, <1>4, <1>5

LEMMA OtherCha ==
    ASSUME TypeOK, OtherStep
    PROVE  /\ LinkClass \/ UNCHANGED <<single, deps, doomed, unseen>>
           /\ LinkClass \/ InvalidateCompiledCodeFor \/ headers' = headers
           /\ \/ RequestDeoptimization \/ (\E t \in Threads : RunCHACheckpoint(t))
              \/ deoptimizing' = deoptimizing
           /\ LinkClass \/ LoaderStep \/ pc' = pc
<1>1. ASSUME NEW t \in Mutators, Mutate(t)
      PROVE  UNCHANGED <<single, deps, doomed, unseen, headers, deoptimizing, pc>>
  BY <1>1 DEF Mutate, Enter, Return, Deoptimize, EnqueueOptimizedCompilation, AddCompileTask, Invoke,
     PrepareForOsr
<1>2. ASSUME NEW m \in Methods, MaybeEnqueueCompilation(m)
      PROVE  UNCHANGED <<single, deps, doomed, unseen, headers, deoptimizing, pc>>
  BY <1>2 DEF MaybeEnqueueCompilation, AddCompileTask
<1>3. CASE LinkClass
  BY <1>3 DEF LinkClass
<1>4. CASE LoaderStep
  <2>1. CASE InvalidateCompiledCodeFor
    BY <1>4, <2>1 DEF InvalidateCompiledCodeFor
  <2>2. CASE InvalidateOsrCode
    BY <1>4, <2>2 DEF InvalidateOsrCode
  <2>3. CASE RequestDeoptimization
    BY <1>4, <2>3 DEF RequestDeoptimization
  <2>4. CASE Linked
    BY <1>4, <2>4 DEF Linked
  <2> QED  BY <1>4, <2>1, <2>2, <2>3, <2>4 DEF LoaderStep
<1>5. ASSUME NEW t \in Threads, RunMarkCodeClosure(t)
      PROVE  UNCHANGED <<single, deps, doomed, unseen, headers, deoptimizing, pc>>
  BY <1>5 DEF RunMarkCodeClosure
<1>6. ASSUME NEW t \in Threads, RunCHACheckpoint(t)
      PROVE  UNCHANGED <<single, deps, doomed, unseen, headers, pc>>
  BY <1>6 DEF RunCHACheckpoint
<1> QED  BY <1>1, <1>2, <1>3, <1>4, <1>5, <1>6 DEF OtherStep, RunCheckpoint

LEMMA OtherRelies ==
    ASSUME TypeOK, OtherStep
    PROVE  /\ \A a \in Addresses : Relies(a)' <=> Relies(a)
           /\ \A u \in Compilers : ToCommit(u)' <=> ToCommit(u)
           /\ \A u \in Compilers : Method(u)' = Method(u) /\ Kind(u)' = Kind(u)
           /\ code' = code /\ job' = job
<1>1. code' = code
  BY OtherChanges
<1>2. job' = job /\ \A u \in Compilers : pc'[u] = pc[u]
  BY QuietSteps DEF Quiet
<1> QED  BY <1>1, <1>2 DEF Relies, ToCommit, Method, Kind

LEMMA OtherChaKinds ==
    ASSUME IInv, OtherStep
    PROVE  ChaKinds'
<1>1. TypeOK /\ ChaKinds
  BY DEF IInv
<1>2. /\ \A a \in Addresses : Relies(a)' <=> Relies(a)
      /\ \A u \in Compilers : Method(u)' = Method(u) /\ Kind(u)' = Kind(u)
      /\ code' = code /\ job' = job
  BY <1>1, OtherRelies
<1>3. \A m \in JavaMethods : osr'[m] = osr[m] \/ osr'[m] = None
  BY <1>1, OtherChanges
<1>4. \A m \in JavaMethods : osr'[m] # None => code'[osr'[m]].kind = "osr"
  BY <1>1, <1>2, <1>3 DEF ChaKinds
<1> QED  BY <1>1, <1>2, <1>4 DEF ChaKinds

LEMMA OtherRegistered ==
    ASSUME IInv, OtherStep
    PROVE  Registered'
<1>1. TypeOK /\ Registered
  BY DEF IInv
<1>2. CASE LinkClass
  BY <1>2 DEF LinkClass, Registered
<1>3. CASE ~LinkClass
  <2>1. single' = single /\ deps' = deps
    BY <1>1, <1>3, OtherCha
  <2>2. /\ \A a \in Addresses : Relies(a)' <=> Relies(a)
        /\ \A u \in Compilers : ToCommit(u)' <=> ToCommit(u)
        /\ \A u \in Compilers : Method(u)' = Method(u)
        /\ code' = code /\ job' = job
    BY <1>1, OtherRelies
  <2> QED  BY <1>1, <2>1, <2>2 DEF Registered
<1> QED  BY <1>2, <1>3

LEMMA OtherDoomed ==
    ASSUME IInv, OtherStep
    PROVE  Doomed'
<1>1. TypeOK /\ Registered /\ Doomed /\ Alive /\ Reserved
  BY DEF IInv
<1>2. /\ \A a \in Addresses : Relies(a)' <=> Relies(a)
      /\ \A u \in Compilers : ToCommit(u)' <=> ToCommit(u)
      /\ code' = code /\ job' = job
  BY <1>1, OtherRelies
<1>3. \A m \in Methods : entry'[m] = entry[m] \/ entry'[m] = None
  BY <1>1, OtherChanges
<1>4. \A m \in JavaMethods, a \in Addresses : entry'[m] = a => entry[m] = a
  BY <1>3, JitAssumption DEF Methods
<1>5. CASE LinkClass
  <2>1. /\ single /\ headers' = deps /\ doomed' = {d[2] : d \in deps}
        /\ unseen' = {d[2] : d \in {d \in deps : code[d[2]] = None}}
    BY <1>5 DEF LinkClass
  <2>2. \A m, a : <<m, a>>[2] = a
    OBVIOUS
  <2>3. ASSUME NEW a \in Addresses, Relies(a) PROVE a \in doomed'
    <3>1. <<code[a].method, a>> \in deps
      BY <1>1, <2>1, <2>3 DEF Registered
    <3> QED  BY <2>1, <2>2, <3>1
  <2>4. ASSUME NEW u \in Compilers, ToCommit(u) PROVE job[u].at \in unseen'
    <3>1. <<Method(u), job[u].at>> \in deps
      BY <1>1, <2>1, <2>4 DEF Registered
    <3>2. code[job[u].at] = None
      BY <1>1, <2>4, Apart DEF Reserved, ToCommit, HolderLabels
    <3> QED  BY <2>1, <2>2, <3>1, <3>2
  <2>5. ASSUME NEW m \in JavaMethods, NEW a \in Addresses, entry[m] = a, Relies(a)
        PROVE  <<m, a>> \in deps
    <3>1. m \in Methods /\ m \notin NativeMethods /\ a # None
      BY JitAssumption DEF Methods
    <3>2. code[a].method = m
      BY <1>1, <2>5, <3>1 DEF Alive, IsCodeOf
    <3> QED  BY <1>1, <2>1, <2>5, <3>2 DEF Registered
  <2> QED  BY <1>2, <1>4, <2>1, <2>3, <2>4, <2>5 DEF Doomed
<1>6. CASE InvalidateCompiledCodeFor
  <2>1. single' = single /\ doomed' = doomed /\ unseen' = unseen
    BY <1>6 DEF InvalidateCompiledCodeFor
  <2>2. PICK d \in headers :
          /\ headers' = headers \ {d}
          /\ IF IsEntryPoint(d[1], d[2])
             THEN ResetEntry(d[1]) /\ UNCHANGED <<pc, header>>
             ELSE header' = d /\ Goto(Loader, "invalidateOsr") /\ UNCHANGED cacheVars
    BY <1>6 DEF InvalidateCompiledCodeFor
  <2>3. ASSUME NEW m \in JavaMethods, NEW a \in Addresses, entry'[m] = a, <<m, a>> \in headers
        PROVE  <<m, a>> \in headers'
    <3>1. entry[m] = a /\ a # None /\ m \in Methods
      BY <1>4, <2>3, JitAssumption DEF Methods
    <3>2. ASSUME d = <<m, a>> PROVE FALSE
      <4>1. d[1] = m /\ d[2] = a
        BY <3>2
      <4>2. ResetEntry(m)
        BY <2>2, <3>1, <4>1 DEF IsEntryPoint
      <4>3. entry'[m] = None
        BY <1>1, <3>1, <4>2 DEF ResetEntry, TypeOK
      <4> QED  BY <2>3, <3>1, <4>3
    <3> QED  BY <2>2, <2>3, <3>2
  <2> QED  BY <1>1, <1>2, <1>4, <2>1, <2>3 DEF Doomed
<1>7. CASE ~LinkClass /\ ~InvalidateCompiledCodeFor
  <2>1. UNCHANGED <<single, doomed, unseen, headers>>
    BY <1>1, <1>7, OtherCha
  <2> QED  BY <1>1, <1>2, <1>4, <2>1 DEF Doomed
<1> QED  BY <1>5, <1>6, <1>7

(* When all headers are dealt with no thread can get at such code any more. *)
LEMMA NotOffered ==
    ASSUME IInv, ~single, headers = {}, NEW a \in Addresses \ unseen, Relies(a), NEW m \in Methods
    PROVE  ~Offered(a, m)
<1>1. TypeOK /\ Alive /\ ChaKinds /\ Doomed
  BY DEF IInv
<1>2. code[a].kind = "optimized" /\ code[a].method \in JavaMethods /\ code[a].method \notin NativeMethods
  BY <1>1, JitAssumption DEF ChaKinds
<1>3. a # None
  BY JitAssumption
<1>4. ASSUME entry[m] = a PROVE FALSE
  <2>1. CASE m \in JavaMethods
    BY <1>1, <1>4, <2>1 DEF Doomed
  <2>2. CASE m \in NativeMethods
    <3>1. IsCodeOf(a, m)
      BY <1>1, <1>3, <1>4 DEF Alive
    <3> QED  BY <1>2, <2>2, <3>1 DEF IsCodeOf
  <2> QED  BY <2>1, <2>2 DEF Methods
<1>5. ASSUME m \in JavaMethods, osr[m] = a PROVE FALSE
  <2>1. code[osr[m]].kind = "osr"
    BY <1>1, <1>3, <1>5 DEF ChaKinds
  <2> QED  BY <1>2, <1>5, <2>1
<1> QED  BY <1>4, <1>5 DEF Offered

LEMMA OtherProgress ==
    ASSUME IInv, OtherStep
    PROVE  Progress'
<1>0. TypeOK /\ Progress /\ Registered /\ Doomed
  BY DEF IInv
<1>1. \A a \in Addresses : Relies(a)' <=> Relies(a)
  BY <1>0, OtherRelies
<1>2. CASE LinkClass
  <2>1. /\ single /\ single' = FALSE /\ headers' = deps
        /\ pc'[Loader] = IF deps = {} THEN "linked" ELSE "invalidate"
    BY <1>0, <1>2, LoaderMoves DEF LinkClass
  <2>2. deps = {} => \A a \in Addresses : ~Relies(a)
    BY <1>0, <2>1 DEF Registered
  <2> QED  BY <1>1, <2>1, <2>2 DEF Progress
<1>3. CASE InvalidateCompiledCodeFor
  <2>1. /\ single' = single /\ pc[Loader] = "invalidate"
        /\ pc'[Loader] \in {"invalidate", "invalidateOsr"}
    BY <1>0, <1>3, LoaderMoves DEF InvalidateCompiledCodeFor
  <2> QED  BY <1>0, <2>1 DEF Progress
<1>4. CASE InvalidateOsrCode
  <2>1. single' = single /\ pc[Loader] = "invalidateOsr" /\ pc'[Loader] = "invalidate"
    BY <1>0, <1>4, LoaderMoves DEF InvalidateOsrCode
  <2> QED  BY <1>0, <2>1 DEF Progress
<1>5. CASE RequestDeoptimization
  <2>1. /\ pc[Loader] = "invalidate" /\ pc'[Loader] = "deoptimize" /\ single' = single
        /\ headers = {} /\ headers' = headers
        /\ deoptimizing' = {u \in Threads \ {Loader} : ~Suspended(u)}
    BY <1>0, <1>5, LoaderMoves DEF RequestDeoptimization
  <2>2. \A u \in Mutators : u \in deoptimizing'
    BY <2>1, Apart DEF Suspended
  <2> QED  BY <1>0, <2>1, <2>2 DEF Progress
<1>6. CASE Linked
  <2>1. /\ pc[Loader] = "deoptimize" /\ pc'[Loader] = "linked" /\ single' = single
        /\ headers' = headers /\ unseen' = unseen /\ deoptimizing = {}
        /\ hand' = hand /\ stack' = stack
    BY <1>0, <1>6, LoaderMoves DEF Linked
  <2>2. \A u \in Mutators, a \in Addresses : Unflagged(u, a)' <=> Unflagged(u, a)
    BY <2>1, SameHolds
  <2>3. \A u \in Mutators, a \in Addresses \ unseen : ~(Relies(a) /\ Unflagged(u, a))
    BY <1>0, <2>1 DEF Progress
  <2> QED  BY <1>0, <1>1, <2>1, <2>2, <2>3 DEF Progress
<1>7. CASE ~LinkClass /\ ~LoaderStep
  <2>1. UNCHANGED <<single, headers, unseen, pc>>
    BY <1>0, <1>7, OtherCha DEF LoaderStep
  <2>2. ASSUME pc[Loader] \in {"deoptimize", "linked"}, NEW u \in Mutators,
               NEW a \in Addresses \ unseen, Relies(a), Unflagged(u, a)'
        PROVE  pc[Loader] = "deoptimize" /\ u \in deoptimizing'
    <3>1. ~single /\ headers = {}
      BY <1>0, <2>2 DEF Progress
    <3>2. Unflagged(u, a)
      BY <1>0, <2>2, <3>1, MutatorHolds, OtherHolds, NotOffered
    <3>3. pc[Loader] = "deoptimize" /\ u \in deoptimizing
      BY <1>0, <2>2, <3>2 DEF Progress
    <3>4. ASSUME NEW t \in Threads, RunCHACheckpoint(t) PROVE u \in deoptimizing'
      <4>1. deoptimizing' = deoptimizing \ {t} /\ hand' = hand /\ AtSuspendPoint(t)
        BY <3>4 DEF RunCHACheckpoint
      <4>2. ASSUME u = t PROVE FALSE
        <5>1. hand[u] = None
          BY <4>1, <4>2 DEF AtSuspendPoint
        <5>2. PICK i \in DOMAIN stack'[u] : stack'[u][i].at = a /\ ~stack'[u][i].deoptimize
          BY <2>2, <4>1, <5>1 DEF Unflagged
        <5>3. /\ i \in DOMAIN stack[u] /\ stack[u][i].at = a
              /\ ~MustDeoptimize(stack[u][i])
          BY <1>0, <3>4, <4>2, <5>2, Flagged
        <5>4. a \in doomed
          BY <1>0, <2>2, <3>1 DEF Doomed
        <5> QED  BY <2>2, <5>3, <5>4 DEF MustDeoptimize, Relies
      <4> QED  BY <3>3, <4>1, <4>2
    <3> QED  BY <1>0, <1>7, <3>3, <3>4, OtherCha DEF LoaderStep
  <2> QED  BY <1>0, <1>1, <2>1, <2>2 DEF Progress
<1> QED  BY <1>2, <1>3, <1>4, <1>5, <1>6, <1>7 DEF LoaderStep

-----------------------------------------------------------------------------
(* All together.                                                           *)

LEMMA InitInv == Init => IInv
<1> SUFFICES ASSUME Init PROVE IInv
  OBVIOUS
<1>1. TypeOK
  BY InitType
<1>2. /\ \A t \in Compilers : pc[t] = "idle" /\ job[t] = NoJob
      /\ pc[Loader] = "idle"
  BY DEF Init
<1>3. \A t \in Compilers : Method(t) = None /\ Kind(t) = None /\ job[t].at = None /\ ~job[t].cha
  <2>1. NoJob.method = None /\ NoJob.kind = None /\ NoJob.at = None /\ NoJob.cha = FALSE
    BY DEF NoJob
  <2> QED  BY <1>2, <2>1 DEF Method, Kind
<1>4. /\ \A m \in Methods : entry[m] = None
      /\ \A m \in JavaMethods : osr[m] = None
      /\ \A a \in Addresses : code[a] = None
      /\ \A t \in Mutators : hand[t] = None /\ stack[t] = <<>>
  BY DEF Init
<1>5. None \notin Methods /\ None \notin Kinds
  BY JitAssumption
<1>6. DOMAIN <<>> = {}
  BY SMT
<1>7. Tasks
  BY <1>2, <1>3, <1>5 DEF Tasks, HasTask, SameTask, Native, Baseline, GcLabels, CollectLabels, Init, Methods
<1>8. Synchronisation /\ Reserved
  BY <1>2, <1>3 DEF Synchronisation, Synchronised, Reserved, CollectLabels, HolderLabels, Init
<1>9. Stub /\ OsrAbsent
  BY <1>2, <1>3 DEF Stub, StubKnown, AtStub, OsrAbsent, Revived, CompilingLabels, GcLabels,
     CollectLabels, Init
<1>10. \A t \in Mutators, a \in Addresses, m \in Methods : ~Holds(t, a, m)
  BY <1>4, <1>6 DEF Holds
<1>11. Alive /\ EntriesMarked /\ HeldMarked
  BY <1>2, <1>4, <1>10 DEF Alive, EntriesMarked, HeldMarked
<1>12. \A a \in Addresses : ~Relies(a)
  BY <1>4 DEF Relies
<1>13. ChaKinds /\ Registered /\ Doomed /\ Progress
  BY <1>2, <1>3, <1>4, <1>12 DEF ChaKinds, Registered, Doomed, Progress, ToCommit
<1> QED  BY <1>1, <1>7, <1>8, <1>9, <1>11, <1>13 DEF IInv

LEMMA CompilerInv ==
    ASSUME IInv, NEW t \in Compilers, RunTask(t) \/ CompilerStep(t)
    PROVE  IInv'
<1>1. TypeOK /\ Tasks /\ HasTask(t)
  BY DEF IInv, Tasks
<1>2. TypeOK'
  BY <1>1, TaskTypes, CacheTypes DEF CompilerStep
<1>3. Tasks' /\ Synchronisation' /\ Reserved' /\ Stub' /\ OsrAbsent'
  BY <1>1, CompilerTasks, CompilerSync, CompilerReserved, CompilerStub, CompilerOsr
<1>4. Alive' /\ EntriesMarked' /\ HeldMarked'
  BY CompilerAlive, CompilerMarked
<1>5. ChaKinds' /\ Registered' /\ Doomed' /\ Progress'
  BY CompilerChaKinds, CompilerRegistered, CompilerDoomed, CompilerProgress
<1> QED  BY <1>2, <1>3, <1>4, <1>5 DEF IInv

LEMMA OtherInv ==
    ASSUME IInv, OtherStep
    PROVE  IInv'
<1>1. TypeOK
  BY DEF IInv
<1>2. TypeOK'
  BY <1>1, MutatorTypes, EnqueueTypes, LoaderTypes, CheckpointTypes DEF OtherStep
<1>3. Tasks' /\ Synchronisation' /\ Reserved' /\ Stub' /\ OsrAbsent'
  BY OtherTasks, OtherSync, OtherReserved, OtherStub, OtherOsr
<1>4. Alive' /\ EntriesMarked' /\ HeldMarked'
  BY OtherAlive, OtherMarked
<1>5. ChaKinds' /\ Registered' /\ Doomed' /\ Progress'
  BY OtherChaKinds, OtherRegistered, OtherDoomed, OtherProgress
<1> QED  BY <1>2, <1>3, <1>4, <1>5 DEF IInv

LEMMA StutterInv ==
    ASSUME IInv, UNCHANGED vars
    PROVE  IInv'
<1> USE DEF vars
<1>1. TypeOK'
  BY DEF IInv, TypeOK
<1>2. Tasks' /\ Synchronisation'
  BY DEF IInv, Tasks, HasTask, SameTask, Native, Baseline, Method, Kind, Synchronisation, Synchronised
<1>3. Reserved' /\ Stub' /\ OsrAbsent'
  BY DEF IInv, Reserved, Stub, StubKnown, AtStub, Sweeping, Native, Revived, OsrAbsent, Method, Kind
<1>4. Alive' /\ EntriesMarked' /\ HeldMarked'
  <2>1. \A t \in Mutators, a \in Addresses, m \in Methods : Holds(t, a, m)' <=> Holds(t, a, m)
    BY SameHolds
  <2>2. EntriesMarked' /\ HeldMarked'
    BY <2>1 DEF IInv, EntriesMarked, HeldMarked, Sweeping
  <2>3. code' = code /\ entry' = entry /\ osr' = osr
    OBVIOUS
  <2>4. TypeOK /\ Alive
    BY DEF IInv
  <2>5. Alive'
    BY <2>1, <2>3, <2>4, AliveMoves
  <2> QED  BY <2>2, <2>5
<1>5. ChaKinds' /\ Registered' /\ Doomed'
  BY DEF IInv, ChaKinds, Registered, Doomed, Relies, ToCommit, Method, Kind
<1>6. Progress'
  BY DEF IInv, Progress, Relies, Unflagged
<1> QED  BY <1>1, <1>2, <1>3, <1>4, <1>5, <1>6 DEF IInv

LEMMA StepInv == IInv /\ [Next]_vars => IInv'
BY NextSteps, CompilerInv, OtherInv, StutterInv

(* The facts above hold in every state of the cache.                       *)
THEOREM Invariance == Spec => []IInv
BY InitInv, StepInv, PTL DEF Spec

(* DoCollection and RemoveUnmarkedCode free no code that is an entry       *)
(* point, is offered for on-stack replacement, or is run or about to be    *)
(* run by a thread, nor is its address given to other code: the entry      *)
(* points are marked and do not become unmarked code during a collection,  *)
(* a thread that runs the checkpoint marks its stack, and takes only       *)
(* marked code afterwards.                                                 *)
THEOREM JitCodeAlive == Spec => []CodeAlive
<1>1. IInv => CodeAlive
  <2> SUFFICES ASSUME IInv PROVE CodeAlive
    OBVIOUS
  <2>1. TypeOK /\ Alive
    BY DEF IInv
  <2>2. ASSUME NEW t \in Mutators, hand[t] # None
        PROVE  IsCodeOf(hand[t].at, hand[t].method)
    <3>1. hand[t].at \in Addresses /\ hand[t].method \in Methods
      BY <2>1, <2>2 DEF TypeOK, Targets
    <3>2. Holds(t, hand[t].at, hand[t].method)
      BY <2>2 DEF Holds
    <3> QED  BY <2>1, <3>1, <3>2 DEF Alive
  <2>3. ASSUME NEW t \in Mutators, NEW i \in DOMAIN stack[t]
        PROVE  IsCodeOf(stack[t][i].at, stack[t][i].method)
    <3>1. stack[t][i] \in Frames
      BY <2>1, StackTyped
    <3>2. stack[t][i].at \in Addresses /\ stack[t][i].method \in Methods
      BY <3>1 DEF Frames
    <3>3. Holds(t, stack[t][i].at, stack[t][i].method)
      BY DEF Holds
    <3> QED  BY <2>1, <3>2, <3>3 DEF Alive
  <2> QED  BY <2>1, <2>2, <2>3 DEF CodeAlive, Alive
<1> QED  BY <1>1, Invariance, PTL

(* Commit and DoneCompiling find the entry of the stub that                *)
(* NotifyCompilationOf made, the address they reserved free and no OSR     *)
(* code of the method, whatever collections and other compilations ran in  *)
(* between.                                                                *)
THEOREM JitCommitFindsEntry == Spec => []CommitFindsEntry
<1>1. IInv => CommitFindsEntry
  <2> SUFFICES ASSUME IInv, NEW t \in Compilers
               PROVE  /\ (/\ Method(t) \in NativeMethods
                          /\ pc[t] \in {"compile", "reserve", "gc", "gcWaited", "collect",
                                        "checkpoint", "remove", "finish", "commit", "publish",
                                        "free", "done"})
                         => stub # None /\ Method(t) \in stub.methods
                      /\ pc[t] = "publish" =>
                            /\ code[job[t].at] = None
                            /\ Kind(t) = "osr" => osr[Method(t)] = None
    BY DEF CommitFindsEntry
  <2>1. Stub /\ Reserved /\ OsrAbsent
    BY DEF IInv
  <2>2. AtStub(t) => stub # None /\ Method(t) \in stub.methods
    BY <2>1 DEF Stub, StubKnown
  <2>3. pc[t] = "publish" => code[job[t].at] = None
    BY <2>1, Apart DEF Reserved, HolderLabels
  <2>4. pc[t] = "publish" /\ Kind(t) = "osr" => osr[Method(t)] = None
    BY <2>1 DEF OsrAbsent, CompilingLabels
  <2> QED  BY <2>2, <2>3, <2>4 DEF AtStub, Native, CompilingLabels, GcLabels, CollectLabels
<1> QED  BY <1>1, Invariance, PTL

(* When class linking returns, the code that relied on the single          *)
(* implementation and was in the maps when the dependencies were collected *)
(* is no entry point, no thread is about to run it, and its frames will    *)
(* deoptimize: InvalidateCompiledCodeFor has dealt with every header       *)
(* before the CHACheckpoint is requested, so no thread can enter such code *)
(* again once it has run it.                                               *)
THEOREM JitCodeInvalidated == Spec => []CodeInvalidated
<1>1. IInv => CodeInvalidated
  <2> SUFFICES ASSUME IInv, pc[Loader] = "linked", NEW a \in Addresses \ unseen, Relies(a)
               PROVE  /\ \A m \in Methods : entry[m] # a
                      /\ \A t \in Mutators :
                            /\ hand[t] # None => hand[t].at # a
                            /\ \A i \in DOMAIN stack[t] : stack[t][i].at = a => stack[t][i].deoptimize
    BY DEF CodeInvalidated, Relies
  <2>1. ~single /\ headers = {} /\ \A t \in Mutators : ~Unflagged(t, a)
    BY DEF IInv, Progress
  <2>2. \A m \in Methods : entry[m] # a
    BY <2>1, NotOffered DEF Offered
  <2> QED  BY <2>1, <2>2 DEF Unflagged
<1> QED  BY <1>1, Invariance, PTL
=============================================================================
