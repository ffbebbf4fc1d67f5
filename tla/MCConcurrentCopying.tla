------------------------ MODULE MCConcurrentCopying ------------------------
(* Heaps and programs of two threads for the copying collector.            *)
EXTENDS ConcurrentCopying

CONSTANTS t1, a, w, x, y

(* a, held by t1, leads to x and then to y, and w refers to x weakly:      *)
(* the threads read and cut the strong path while the collector marks.     *)
StrongPath ==
    [field |-> [o \in Objects |-> CASE o = a -> x [] o = x -> y [] OTHER -> None],
     referent |-> [r \in References |-> x],
     roots |-> [m \in Mutators |-> IF m = t1 THEN {a, w} ELSE {w}],
     may |-> [m \in Mutators |-> IF m = t1 THEN {"load", "store"} ELSE {"get"}],
     calls |-> [m \in Mutators |-> IF m = t1 THEN 2 ELSE 1]]

(* x is only reachable through w, and from the finalizable y.              *)
WeakOnly ==
    [field |-> [o \in Objects |-> IF o = y THEN x ELSE None],
     referent |-> [r \in References |-> x],
     roots |-> [m \in Mutators |-> {w}],
     may |-> [m \in Mutators |-> IF m = t1 THEN {"get", "clear"}
                                           ELSE {"lockedGet", "native"}],
     calls |-> [m \in Mutators |-> IF m = t1 THEN 2 ELSE 1]]

(* Both threads get the referent with the mutex held.                      *)
UnderMutex ==
    [WeakOnly EXCEPT !.may = [m \in Mutators |-> {"lockedGet"}],
                     !.calls = [m \in Mutators |-> 1]]

(* x, only reachable through w, leads to y: what t1 reads from x has yet   *)
(* to be marked when weak reference access is disabled.                    *)
WeakChain ==
    [field |-> [o \in Objects |-> IF o = x THEN y ELSE None],
     referent |-> [r \in References |-> x],
     roots |-> [m \in Mutators |-> {w}],
     may |-> [m \in Mutators |-> IF m = t1 THEN {"get", "load"} ELSE {"get"}],
     calls |-> [m \in Mutators |-> IF m = t1 THEN 2 ELSE 1]]

MCScenarios == {StrongPath, WeakChain, WeakOnly, UnderMutex}
=============================================================================
