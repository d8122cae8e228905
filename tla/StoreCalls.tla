------------------------------ MODULE StoreCalls ------------------------------
(***************************************************************************)
(* What a caller of the database manager may rely on: each unit of work is  *)
(* stored as a whole or not at all and ends once, and one that ends without *)
(* an error is stored.  One that ends with an error may be stored or not.   *)
(***************************************************************************)
CONSTANT Units

VARIABLES
    stored,   \* the units whose writes are in the database
    result    \* what the caller of each unit was told

vars == <<stored, result>>

Init == stored = {} /\ result = [u \in Units |-> "none"]

Told(u, answer) ==
    /\ result[u] = "none"
    /\ result' = [result EXCEPT ![u] = answer]

Succeed(u) == u \notin stored /\ stored' = stored \union {u} /\ Told(u, "ok")

\* Committed, but the answer to the commit was lost.
Slip(u) ==
    /\ result[u] = "none" /\ u \notin stored
    /\ stored' = stored \union {u} /\ UNCHANGED result

Raise(u) == Told(u, "error") /\ UNCHANGED stored

Next == \E u \in Units : Succeed(u) \/ Slip(u) \/ Raise(u)

Spec == Init /\ [][Next]_vars
===============================================================================
