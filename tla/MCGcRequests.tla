---------------------------- MODULE MCGcRequests ----------------------------
(* GcRequests for TLC: one mutator requests a concurrent collection while  *)
(* another collects explicitly and then requests one, too.                 *)
EXTENDS GcRequests

CONSTANTS m1, m2

ExplicitBeside == {[m \in Mutators |-> IF m = m1 THEN <<"request">>
                                       ELSE <<"explicit", "request">>]}

FairSpec == Spec /\ Fairness
=============================================================================
