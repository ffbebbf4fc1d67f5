----------------------------- MODULE MCMonitor -----------------------------
(* Instances of Monitor for TLC.                                           *)
EXTENDS Monitor

CONSTANTS t1, t2, t3

(* Threads that lock, and ask for the hash code; two that wait for a third *)
(* to notify or interrupt them; and threads that park and unpark.          *)
MCPrograms ==
    {[calls |-> 4, may |-> [t \in Threads |-> {"enter", "try", "hash"}]],
     [calls |-> 7, may |-> [t \in Threads |->
        IF t = t3 THEN {"enter", "notify", "interrupt"} ELSE {"enter", "wait"}]],
     [calls |-> 4, may |-> [t \in Threads |->
        IF t = t1 THEN {"park"} ELSE {"park", "unpark", "interrupt"}]]}
=============================================================================
