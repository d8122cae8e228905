----------------------------- MODULE RunLifecycle -----------------------------
(***************************************************************************)
(* What the server promises about a run, whatever happens to the process   *)
(* or to its database: its record is opened once and closed once, its end  *)
(* is announced at most once and only after the record is closed, and what *)
(* was announced is what the record says for ever after.                   *)
(***************************************************************************)
CONSTANT Runs

VARIABLES
    record,    \* the outcome of each run, once it has one
    announced  \* the ended events that left the process

vars == <<record, announced>>

Outcomes == {"completed", "cancelled", "failed"}

AnnouncedRuns == {a.run : a \in announced}

TypeOK ==
    /\ record \in [Runs -> {"absent", "open"} \union Outcomes]
    /\ announced \subseteq [run : Runs, state : Outcomes]

Init == record = [r \in Runs |-> "absent"] /\ announced = {}

Open(r) ==
    /\ record[r] = "absent"
    /\ record' = [record EXCEPT ![r] = "open"]
    /\ UNCHANGED announced

Close(r, outcome) ==
    /\ record[r] = "open"
    /\ record' = [record EXCEPT ![r] = outcome]
    /\ UNCHANGED announced

\* A completion that was stored without an answer may be stored as a failure.
Revise(r) ==
    /\ record[r] = "completed" /\ r \notin AnnouncedRuns
    /\ record' = [record EXCEPT ![r] = "failed"]
    /\ UNCHANGED announced

\* A restart closes whatever an earlier process left open.
Recover ==
    /\ record' = [r \in Runs |-> IF record[r] = "open" THEN "failed" ELSE record[r]]
    /\ UNCHANGED announced

Announce(r) ==
    /\ record[r] \in Outcomes /\ r \notin AnnouncedRuns
    /\ announced' = announced \union {[run |-> r, state |-> record[r]]}
    /\ UNCHANGED record

Next ==
    \/ \E r \in Runs : \/ Open(r) \/ Revise(r) \/ Announce(r)
                       \/ \E outcome \in Outcomes : Close(r, outcome)
    \/ Recover

Spec == Init /\ [][Next]_vars
=============================================================================
