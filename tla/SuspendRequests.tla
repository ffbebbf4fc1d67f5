-------------------------- MODULE SuspendRequests --------------------------
(***************************************************************************)
(* What thread suspension promises to its callers, without flags, counts,  *)
(* barriers or locks: a thread does not start to run while a request is in *)
(* force on it, and a caller is told that a thread has stopped only when   *)
(* it has, which then lasts until the caller takes the request back.       *)
(***************************************************************************)
CONSTANT Threads

VARIABLES
    running,   \* the threads in kRunnable
    inForce,   \* pairs <<r, u>>: r wants u suspended
    stopped    \* pairs <<r, u>>: r has been told that u is suspended

vars == <<running, inForce, stopped>>

Pairs == Threads \X Threads

Init == running = {} /\ inForce = {} /\ stopped = {}

Run(t) ==
    /\ t \notin running
    /\ \A p \in inForce : p[2] # t
    /\ running' = running \cup {t}
    /\ UNCHANGED <<inForce, stopped>>

Leave(t) ==
    /\ t \in running
    /\ running' = running \ {t}
    /\ UNCHANGED <<inForce, stopped>>

(* New requests, and news that threads with a request in force stopped.    *)
Ask ==
    /\ inForce \subseteq inForce' /\ inForce' \subseteq Pairs
    /\ stopped \subseteq stopped' /\ stopped' \subseteq inForce'
    /\ \A p \in stopped' \ stopped : p[2] \notin running
    /\ UNCHANGED running

(* Requests are taken back; a caller forgets before or when it lets go.    *)
TakeBack ==
    /\ inForce' \subseteq inForce
    /\ stopped' \subseteq stopped /\ stopped' \subseteq inForce'
    /\ UNCHANGED running

Next == (\E t \in Threads : Run(t) \/ Leave(t)) \/ Ask \/ TakeBack

Spec == Init /\ [][Next]_vars
=============================================================================
