--------------------------- MODULE MCJitCodeCache ---------------------------
(* The JIT code cache for TLC: one Java method, two native methods that    *)
(* share a stub, a mutator, two compilers and a class loader.              *)
EXTENDS JitCodeCache, TLC

CONSTANTS j, n1, n2

(* How many compilations of each method may be asked for, whether the      *)
(* cache is collected, and whether a class that overrides the virtual      *)
(* method may be linked.                                                   *)
Compilations(ofJ, ofN1, ofN2, collect, link) ==
    [tasks |-> (j :> ofJ @@ n1 :> ofN1 @@ n2 :> ofN2), collect |-> collect, single |-> link]

MCScenarios ==
    {Compilations(2, 2, 0, TRUE, FALSE), Compilations(1, 1, 1, TRUE, FALSE),
     Compilations(3, 0, 0, TRUE, TRUE), Compilations(0, 1, 1, FALSE, FALSE)}

(* An allocator that takes the lowest address.                             *)
FirstFit(free) == {a \in free : \A b \in free : a <= b}

LinkScenario == {Compilations(2, 0, 0, FALSE, TRUE)}
=============================================================================
