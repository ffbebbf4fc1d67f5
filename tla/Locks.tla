------------------------------- MODULE Locks -------------------------------
(* What the models of the runtime's two futex locks have in common.        *)
EXTENDS Integers, FiniteSets

CONSTANTS
    Threads,
    MaxCalls,    \* bound on the calls that lock
    None

ASSUME LockAssumption ==
    IsFiniteSet(Threads) /\ None \notin Threads /\ MaxCalls \in Nat
=============================================================================
