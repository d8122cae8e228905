------------------------------ MODULE Checkpoint ------------------------------
(***************************************************************************)
(* What the simulation may count on when it awaits a checkpoint, and the   *)
(* server when it sets a flag of the run's control: a worker that waits    *)
(* looks at the flags again whenever they call for something else than     *)
(* waiting.  Nothing is said of how it is woken.                           *)
(***************************************************************************)
VARIABLES
    paused, cancel_requested, delayed,  \* the flags of the control
    pc,                                 \* where the worker is
    at                                  \* which checkpoint it called

vars == <<paused, cancel_requested, delayed, pc, at>>

Undisturbed == ~paused /\ ~cancel_requested
Ended == {"raised", "finished"}

Init ==
    /\ paused = FALSE /\ cancel_requested = FALSE /\ delayed \in BOOLEAN
    /\ pc = "setup" /\ at = "start"

\* The requests of a server whose run has not ended (_pause, _resume, _cancel
\* and _set_move_delay), between two steps of the worker.
Request ==
    /\ pc \notin Ended \union {"checking"} /\ ~cancel_requested
    /\ \/ paused' \in BOOLEAN /\ UNCHANGED <<cancel_requested, delayed>>
       \/ cancel_requested' = TRUE /\ UNCHANGED <<paused, delayed>>
       \/ delayed' \in BOOLEAN /\ UNCHANGED <<paused, cancel_requested>>
    /\ UNCHANGED <<pc, at>>

LooksAtFlags ==
    /\ \/ pc \in {"checking", "blocked", "delaying"}
       \/ pc = "yielding" /\ ~Undisturbed
    /\ pc' = IF cancel_requested THEN "raised"
             ELSE IF paused THEN "blocked"
             ELSE IF delayed /\ at # "start" THEN "delaying" ELSE "yielding"
    /\ UNCHANGED at

DelayExpires == pc = "delaying" /\ pc' = "late" /\ UNCHANGED at

Returns == pc = "late" \/ (pc = "yielding" /\ Undisturbed)

\* Before the episodes; between them; a move; the last move of an episode.
Simulates ==
    \/ pc = "setup" /\ pc' \in {"checking", "finished"} /\ UNCHANGED at
    \/ Returns /\ at = "gap" /\ pc' = "checking" /\ at' = "start"
    \/ Returns /\ at # "gap" /\ pc' = "checking" /\ at' = "move"
    \/ Returns /\ at # "gap" /\ pc' = "episodeEnd" /\ UNCHANGED at
    \/ pc = "episodeEnd" /\ pc' = "checking" /\ at' = "gap"
    \/ pc = "episodeEnd" /\ pc' = "finished" /\ UNCHANGED at

Worker == (LooksAtFlags \/ DelayExpires \/ Simulates)
          /\ UNCHANGED <<paused, cancel_requested, delayed>>

Next == Request \/ Worker

Spec == Init /\ [][Next]_vars /\ WF_vars(Worker)
===============================================================================
