--------------------------- MODULE SimulationControl ---------------------------
(***************************************************************************)
(* SimulationControl: the flags a request sets and the asyncio.Event that   *)
(* wakes a worker waiting in checkpoint, with the calls Simulator makes of  *)
(* checkpoint.  pc = "checking" is the top of checkpoint's loop, which the  *)
(* worker reaches without releasing the thread.                             *)
(***************************************************************************)
EXTENDS Naturals

CONSTANTS
    MAX_MOVE_DELAY_MS,   \* DSnakeLab: largest accepted delay
    MOVE_DELAY_STEP_MS   \* DSnakeLab: delays are multiples of this

ASSUME DelayAssumption ==
    /\ MAX_MOVE_DELAY_MS \in Nat
    /\ MOVE_DELAY_STEP_MS \in Nat \ {0}

VARIABLES
    paused,            \* _paused
    cancel_requested,  \* _cancel_requested
    move_delay_ms,     \* _move_delay_ms
    changed,           \* _changed.is_set()
    pc,                \* where the worker is
    at,                \* which checkpoint it called
    woken,             \* the future its wait() returned has been resolved
    waits,             \* the delay its wait_for() was given
    slips              \* history: moves played since the run was asked to halt

flags == <<paused, cancel_requested, move_delay_ms>>
vars == <<flags, changed, pc, at, woken, waits, slips>>

Delays == {ms \in 0..MAX_MOVE_DELAY_MS : ms % MOVE_DELAY_STEP_MS = 0}
Waits == {"blocked", "delaying"}
Ended == {"raised", "finished"}
Undisturbed == ~paused /\ ~cancel_requested

Init ==
    /\ paused = FALSE /\ cancel_requested = FALSE /\ move_delay_ms \in Delays
    /\ changed \in BOOLEAN
    /\ pc = "setup" /\ at = "start"
    /\ woken = FALSE /\ waits = 0 /\ slips = 0

-----------------------------------------------------------------------------
(* The requests.  The server calls these for a run in the state they need.  *)

\* asyncio.Event.set: the flag, and every future wait() has returned.
SetChanged ==
    /\ changed' = TRUE
    /\ woken' = (woken \/ pc \in Waits)

CanRequest == pc \notin Ended \union {"checking"} /\ ~cancel_requested

Pause ==
    /\ CanRequest /\ ~paused
    /\ paused' = TRUE /\ SetChanged /\ slips' = 0
    /\ UNCHANGED <<cancel_requested, move_delay_ms, pc, at, waits>>

Resume ==
    /\ CanRequest /\ paused
    /\ paused' = FALSE /\ SetChanged
    /\ UNCHANGED <<cancel_requested, move_delay_ms, pc, at, waits, slips>>

\* Mutant of Cancel: the event is not set.
CancelSilently ==
    /\ CanRequest
    /\ cancel_requested' = TRUE
    /\ slips' = IF paused THEN slips ELSE 0
    /\ UNCHANGED <<paused, move_delay_ms, changed, pc, at, woken, waits>>

Cancel ==
    /\ CanRequest
    /\ cancel_requested' = TRUE /\ SetChanged
    /\ slips' = IF paused THEN slips ELSE 0
    /\ UNCHANGED <<paused, move_delay_ms, pc, at, waits>>

\* Mutant of SetMoveDelay: the delay is added to the one there is.
AddMoveDelay(ms) ==
    /\ CanRequest
    /\ move_delay_ms' = move_delay_ms + ms /\ SetChanged
    /\ UNCHANGED <<paused, cancel_requested, pc, at, waits, slips>>

SetMoveDelay(ms) ==
    /\ CanRequest
    /\ move_delay_ms' = ms /\ SetChanged
    /\ UNCHANGED <<paused, cancel_requested, pc, at, waits, slips>>

-----------------------------------------------------------------------------
(* The worker.                                                              *)

\* Mutant of Branch: a pause is looked at before a cancellation.
PauseFirst ==
    IF paused THEN "blocked"
    ELSE IF cancel_requested THEN "raised"
    ELSE IF move_delay_ms > 0 /\ at # "start" THEN "delaying" ELSE "yielding"

\* Mutant of Branch: a delay is looked at before a pause.
DelayFirst ==
    IF cancel_requested THEN "raised"
    ELSE IF move_delay_ms > 0 /\ at # "start" THEN "delaying"
    ELSE IF paused THEN "blocked" ELSE "yielding"

\* Where checkpoint goes after it has read the flags.
Branch ==
    IF cancel_requested THEN "raised"
    ELSE IF paused THEN "blocked"
    ELSE IF move_delay_ms > 0 /\ at # "start" THEN "delaying" ELSE "yielding"

\* One round of checkpoint's loop up to its await: clear, then read the flags.
\* Every wait() that follows finds the event cleared and suspends.
LoopTop ==
    /\ \/ pc = "checking"
       \/ pc \in Waits /\ woken
       \/ pc = "yielding" /\ ~Undisturbed
    /\ changed' = FALSE
    /\ pc' = Branch
    /\ woken' = FALSE
    /\ waits' = move_delay_ms
    /\ UNCHANGED <<flags, at, slips>>

\* wait_for's timer may also win against a wakeup of the same turn of the loop.
DelayExpires ==
    /\ pc = "delaying" /\ pc' = "late"
    /\ UNCHANGED <<flags, changed, at, woken, waits, slips>>

\* Mutant of Returns: the flags are not read again after the yield.
ReturnsAtOnce == pc \in {"late", "yielding"}

Returns == pc = "late" \/ (pc = "yielding" /\ Undisturbed)

Simulates(task, call) ==
    /\ pc' = task /\ at' = call /\ woken' = FALSE
    /\ UNCHANGED <<flags, changed, waits>>

\* The awaits before the first episode.  A run without epochs returns from there.
SetupEnds ==
    /\ pc = "setup"
    /\ Simulates("checking", at) \/ Simulates("finished", at)
    /\ UNCHANGED slips

Move ==
    /\ Returns /\ at # "gap"
    /\ slips' = IF Undisturbed THEN slips ELSE slips + 1
    /\ Simulates("checking", "move") \/ Simulates("episodeEnd", at)

NextEpisode ==
    /\ Returns /\ at = "gap"
    /\ Simulates("checking", "start") /\ UNCHANGED slips

EpisodeEnds ==
    /\ pc = "episodeEnd"
    /\ Simulates("checking", "gap") \/ Simulates("finished", at)
    /\ UNCHANGED slips

Worker == SetupEnds \/ LoopTop \/ DelayExpires \/ Move \/ NextEpisode \/ EpisodeEnds

Next == \/ Pause \/ Resume \/ Cancel \/ \E ms \in Delays : SetMoveDelay(ms)
        \/ Worker

\* The loop resumes a task whose future is resolved, and fires its timers.  Each
\* change of the delay starts the wait anew, so a client that never lets it run
\* out would hold the run back for ever; none does.
Spec == Init /\ [][Next]_vars /\ WF_vars(Worker) /\ SF_vars(DelayExpires)

-----------------------------------------------------------------------------
TypeOK ==
    /\ paused \in BOOLEAN /\ cancel_requested \in BOOLEAN /\ move_delay_ms \in Delays
    /\ changed \in BOOLEAN /\ woken \in BOOLEAN
    /\ pc \in Waits \union Ended \union {"setup", "checking", "yielding", "late", "episodeEnd"}
    /\ at \in {"start", "move", "gap"}
    /\ waits \in Delays /\ slips \in Nat

\* A worker that sleeps has nothing to do: whenever the flags call for anything
\* but the wait it is in, its wakeup is on the way (clear before read, set after
\* write).
NoLostWakeup ==
    pc \in Waits /\ ~woken =>
      /\ ~changed /\ ~cancel_requested
      /\ paused <=> pc = "blocked"
      /\ pc = "delaying" => move_delay_ms = waits /\ waits > 0

\* A run asked to pause or to cancel plays at most one more move: the one whose
\* delay had already run out.
AtMostOneSlip == ~Undisturbed => slips <= 1

\* The event, with its clears, serves the waits as the other modules assume:
\* same steps, and no wakeup is lost for ever.
Abstract == INSTANCE Checkpoint WITH delayed <- move_delay_ms > 0
ImplementsCheckpoint == Abstract!Spec

\* A cancellation is served by whatever wait the worker is in.
CancelServed == cancel_requested ~> pc \in Ended
=============================================================================
