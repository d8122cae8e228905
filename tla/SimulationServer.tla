--------------------------- MODULE SimulationServer ---------------------------
(***************************************************************************)
(* The lifecycle of simulation runs in the Snake Lab server: the request   *)
(* handlers, the serial worker, the persistent store the two of them write *)
(* to, the queue of ended events, orderly shutdown, crash and restart.     *)
(*                                                                         *)
(* The server is one asyncio thread.  An action is the code between two    *)
(* awaits, cut once more after each store call, because the process may    *)
(* die there: while pc is in Holding, or phase is "draining", the thread   *)
(* is not released and only the holder can step.                           *)
(***************************************************************************)
EXTENDS Naturals, Sequences

CONSTANTS
    Runs,        \* the run ids uuid4 may return
    NoRun,       \* None
    Epochs,      \* config["epochs"] of every submitted configuration
    MaxFaults,   \* bound: store calls that raise
    MaxErrors,   \* bound: exceptions raised by the simulation itself
    MaxCrashes   \* bound: deaths of the server process

ASSUME ConstantsAssumption ==
    /\ NoRun \notin Runs
    /\ Epochs \in Nat /\ MaxFaults \in Nat /\ MaxErrors \in Nat /\ MaxCrashes \in Nat

VARIABLES
    phase,            \* where run() is: awaiting a request, a send, its worker...
    stop_event,       \* stop() was called, or run() is in its finally block
    runs,             \* keys of the dict _runs, in insertion order
    state,            \* SimulationRun.state
    completed_epochs, \* SimulationRun.completed_epochs
    control,          \* SimulationRun.control
    run_queue,        \* _run_queue
    pc,               \* where the worker task is
    at,               \* which call of checkpoint the worker is in
    current,          \* the run the worker took from the queue
    db,               \* simulation_runs, with a count of simulation_episodes rows
    ended,            \* every ended event offered to the events publisher...
    sent,             \* ... of which the first sent have left the process
    faults, errors, crashes   \* what the bounds count

memory == <<runs, state, completed_epochs, control, run_queue, pc, at, current>>
bounds == <<faults, errors, crashes>>
vars == <<phase, stop_event, memory, db, ended, sent, bounds>>

-----------------------------------------------------------------------------
Unfinished == {"queued", "running", "paused", "cancelling"}
Terminal == {"completed", "cancelled", "failed"}
Active == {"running", "paused", "cancelling"}
States == Unfinished \union Terminal

Serving == {"polling", "replying"}
Phases == Serving \union {"down", "joining", "draining", "closing", "stopped"}

Holding == {"taking", "checking", "returned", "raised"}
Waiting == {"idle", "setup", "blocked", "delaying", "late", "yielding", "episodeEnd"}
Tasks == Holding \union Waiting \union {"none", "dead"}

Controls == [paused : BOOLEAN, cancel_requested : BOOLEAN, delayed : BOOLEAN]
FreshControl == [paused |-> FALSE, cancel_requested |-> FALSE, delayed |-> FALSE]
Row == [status : {"absent"} \union States, rows : Nat, episode_count : Nat,
        snapshot : BOOLEAN, frames : BOOLEAN]
AbsentRow == [status |-> "absent", rows |-> 0, episode_count |-> 0,
              snapshot |-> FALSE, frames |-> FALSE]
Event == [run : Runs, state : Terminal]

\* The event loop can run something else than the task that holds the thread.
ThreadFree == pc \notin Holding /\ phase # "draining"

-----------------------------------------------------------------------------
(* One transaction of the store.  The connection may be lost before the     *)
(* commit, which then has no effect, or after it, when the caller sees the  *)
(* same error but the row is written.                                       *)
Outcomes == {"ok", "rolledBack", "ackLost"}

Transaction(outcome, r, row) ==
    /\ outcome = "ok" \/ faults < MaxFaults
    /\ faults' = IF outcome = "ok" THEN faults ELSE faults + 1
    /\ db' = IF outcome = "rolledBack" THEN db ELSE [db EXCEPT ![r] = row]

WithStatus(r, s) == [db[r] EXCEPT !.status = s]

\* Mutant of Result: the boards are kept whatever the outcome.
KeepBoards(r, s) ==
    [db[r] EXCEPT !.status = s,
                  !.episode_count = completed_epochs[r],
                  !.snapshot = completed_epochs[r] > 0,
                  !.frames = completed_epochs[r] > 0]

\* SnakeDb.finish_run.  The row is written whole, its last board included; the boards
\* of the best game are in rows of their own, and only a completion writes those.
Result(r, s) ==
    [db[r] EXCEPT !.status = s,
                  !.episode_count = completed_epochs[r],
                  !.snapshot = (s = "completed" /\ completed_epochs[r] > 0),
                  !.frames = IF s = "completed" THEN completed_epochs[r] > 0 ELSE @]

\* Mutant of FinishRun: the event is offered before the result is stored.
AnnounceFirst(r, s, outcome) ==
    /\ Transaction(outcome, r, Result(r, s))
    /\ ended' = Append(ended, [run |-> r, state |-> s])

\* The result and then its event, as _finish_run does it.
FinishRun(r, s, outcome) ==
    /\ Transaction(outcome, r, Result(r, s))
    /\ ended' = IF outcome = "ok" THEN Append(ended, [run |-> r, state |-> s])
                                  ELSE ended

-----------------------------------------------------------------------------
(* Requests.  A request that raises ProtocolError, or finds nothing to do,  *)
(* changes no run: Inquire stands for it.  An error of the store is not a   *)
(* ProtocolError and leaves run() through its finally block.                *)
Handled(outcome) ==
    /\ phase' = IF outcome = "ok" THEN "replying" ELSE "joining"
    /\ stop_event' = (stop_event \/ outcome # "ok")

CanHandle == phase = "polling" /\ ThreadFree

Submit(r) ==
    /\ CanHandle /\ db[r].status = "absent"
    /\ \E outcome \in Outcomes :
         /\ Transaction(outcome, r, [AbsentRow EXCEPT !.status = "queued"])
         /\ Handled(outcome)
         /\ IF outcome = "ok"
            THEN /\ runs' = Append(runs, r)
                 /\ state' = [state EXCEPT ![r] = "queued"]
                 /\ run_queue' = Append(run_queue, r)
            ELSE UNCHANGED <<runs, state, run_queue>>
    /\ UNCHANGED <<completed_epochs, control, pc, at, current, ended, sent, errors, crashes>>

\* Mutant of ChangeStatus: the store is not told.
ChangeInMemory(r, s) ==
    /\ state' = [state EXCEPT ![r] = s]
    /\ Handled("ok")
    /\ UNCHANGED <<runs, completed_epochs, run_queue, pc, at, current,
                   db, ended, sent, bounds>>

\* The part _pause, _resume and the second branch of _cancel share.
ChangeStatus(r, s) ==
    /\ state' = [state EXCEPT ![r] = s]
    /\ \E outcome \in Outcomes :
         /\ Transaction(outcome, r, WithStatus(r, s))
         /\ Handled(outcome)
    /\ UNCHANGED <<runs, completed_epochs, run_queue, pc, at, current,
                   ended, sent, errors, crashes>>

\* Mutant of Pause: a run that has ended is paused too.
PauseAnything(r) ==
    /\ CanHandle /\ state[r] # "absent"
    /\ control' = [control EXCEPT ![r].paused = TRUE]
    /\ ChangeStatus(r, "paused")

Pause(r) ==
    /\ CanHandle /\ state[r] = "running"
    /\ control' = [control EXCEPT ![r].paused = TRUE]
    /\ ChangeStatus(r, "paused")

Resume(r) ==
    /\ CanHandle /\ state[r] = "paused"
    /\ control' = [control EXCEPT ![r].paused = FALSE]
    /\ ChangeStatus(r, "running")

CancelActive(r) ==
    /\ CanHandle /\ state[r] \in {"running", "paused"}
    /\ control' = [control EXCEPT ![r].cancel_requested = TRUE]
    /\ ChangeStatus(r, "cancelling")

CancelQueued(r) ==
    /\ CanHandle /\ state[r] = "queued"
    /\ control' = [control EXCEPT ![r].cancel_requested = TRUE]
    /\ state' = [state EXCEPT ![r] = "cancelled"]
    /\ \E outcome \in Outcomes : FinishRun(r, "cancelled", outcome) /\ Handled(outcome)
    /\ UNCHANGED <<runs, completed_epochs, run_queue, pc, at, current, sent, errors, crashes>>

SetMoveDelay(r) ==
    /\ CanHandle /\ state[r] \in {"queued", "running", "paused"}
    /\ \E delayed \in BOOLEAN : control' = [control EXCEPT ![r].delayed = delayed]
    /\ Handled("ok")
    /\ UNCHANGED <<runs, state, completed_epochs, run_queue, pc, at, current,
                   db, ended, sent, bounds>>

Inquire ==
    /\ CanHandle
    /\ \E outcome \in {"ok", "rolledBack"}, r \in Runs :
         Transaction(outcome, r, db[r]) /\ Handled(outcome)
    /\ UNCHANGED <<memory, ended, sent, errors, crashes>>

Requests ==
    \/ \E r \in Runs : \/ Submit(r) \/ Pause(r) \/ Resume(r) \/ SetMoveDelay(r)
                       \/ CancelActive(r) \/ CancelQueued(r)
    \/ Inquire

-----------------------------------------------------------------------------
(* The worker task, from _worker_loop down to checkpoint.                   *)
CanWork == phase \in Serving

TakeRun ==
    /\ CanWork /\ pc \in {"idle", "taking"} /\ run_queue # <<>>
    /\ run_queue' = Tail(run_queue)
    /\ LET r == Head(run_queue) IN
       IF state[r] = "cancelled"
       THEN /\ pc' = "taking"
            /\ UNCHANGED <<state, current, db, faults>>
       ELSE /\ state' = [state EXCEPT ![r] = "running"]
            /\ current' = r
            /\ \E outcome \in Outcomes :
                 /\ Transaction(outcome, r, WithStatus(r, "running"))
                 /\ pc' = IF outcome = "ok" THEN "setup" ELSE "raised"
    /\ UNCHANGED <<phase, stop_event, runs, completed_epochs, control, at,
                   ended, sent, errors, crashes>>

AwaitRun ==
    /\ CanWork /\ pc = "taking" /\ run_queue = <<>>
    /\ pc' = "idle"
    /\ UNCHANGED <<phase, stop_event, runs, state, completed_epochs, control, run_queue,
                   at, current, db, ended, sent, bounds>>

\* A step of the worker that changes only where the worker is.
WorkerMoves(task, call) ==
    /\ pc' = task /\ at' = call
    /\ UNCHANGED <<phase, stop_event, runs, state, completed_epochs, control, run_queue,
                   current, db, ended, sent, faults, crashes>>

FinishSetup ==
    /\ CanWork /\ pc = "setup"
    /\ IF Epochs = 0 THEN WorkerMoves("returned", at) ELSE WorkerMoves("checking", "start")
    /\ UNCHANGED errors

Flags == control[current]
Undisturbed == ~Flags.cancel_requested /\ ~Flags.paused

\* The worker is about to read the flags at the top of checkpoint's loop.
AtLoopTop ==
    \/ pc \in {"checking", "blocked", "delaying"}
    \/ pc = "yielding" /\ ~Undisturbed

\* The worker ends the current run: the except branches of _worker_loop.
EndRun(s, onSuccess, onError) ==
    /\ state' = [state EXCEPT ![current] = s]
    /\ \E outcome \in Outcomes :
         /\ FinishRun(current, s, outcome)
         /\ pc' = IF outcome = "ok" THEN onSuccess ELSE onError
         /\ current' = IF outcome # "ok" /\ onError = "raised" THEN current ELSE NoRun
    /\ UNCHANGED <<phase, stop_event, runs, completed_epochs, control, run_queue, at,
                   sent, errors, crashes>>

\* Mutant of RaiseCancelled: a spelling the schema of the store does not have.
RaiseCanceled ==
    /\ CanWork /\ AtLoopTop /\ Flags.cancel_requested
    /\ EndRun("canceled", "taking", "dead")

\* Mutant of RaiseCancelled: a pause is looked at before a cancellation.
RaiseUnlessPaused ==
    /\ CanWork /\ AtLoopTop /\ Flags.cancel_requested /\ ~Flags.paused
    /\ EndRun("cancelled", "taking", "dead")

RaiseCancelled ==
    /\ CanWork /\ AtLoopTop /\ Flags.cancel_requested
    /\ EndRun("cancelled", "taking", "dead")

CheckFlags ==
    /\ CanWork /\ AtLoopTop /\ ~Flags.cancel_requested
    /\ WorkerMoves(IF Flags.paused THEN "blocked"
                   ELSE IF Flags.delayed /\ at # "start" THEN "delaying" ELSE "yielding", at)
    /\ UNCHANGED errors

DelayExpires ==
    /\ CanWork /\ pc = "delaying"
    /\ WorkerMoves("late", at)
    /\ UNCHANGED errors

\* checkpoint returns to Simulator without another look at the flags.
Returns == CanWork /\ (pc = "late" \/ (pc = "yielding" /\ Undisturbed))

NextEpisode ==
    /\ Returns /\ at = "gap"
    /\ WorkerMoves("checking", "start")
    /\ UNCHANGED errors

PlayMove ==
    /\ Returns /\ at # "gap"
    /\ WorkerMoves("checking", "move")
    /\ UNCHANGED errors

PlayLastMove ==
    /\ Returns /\ at # "gap"
    /\ WorkerMoves("episodeEnd", at)
    /\ UNCHANGED errors

RecordEpisode ==
    /\ CanWork /\ pc = "episodeEnd"
    /\ LET n == completed_epochs[current] + 1 IN
       /\ completed_epochs' = [completed_epochs EXCEPT ![current] = n]
       /\ \E outcome \in Outcomes :
            /\ Transaction(outcome, current,
                 [db[current] EXCEPT !.rows = @ + 1, !.episode_count = n])
            /\ pc' = IF outcome # "ok" THEN "raised"
                     ELSE IF n < Epochs THEN "checking" ELSE "returned"
       /\ at' = "gap"
    /\ UNCHANGED <<phase, stop_event, runs, state, control, run_queue, current,
                   ended, sent, errors, crashes>>

SimulationFails ==
    /\ Returns \/ (CanWork /\ pc \in {"setup", "episodeEnd"})
    /\ errors < MaxErrors /\ errors' = errors + 1
    /\ WorkerMoves("raised", at)

CompleteRun == CanWork /\ pc = "returned" /\ EndRun("completed", "taking", "raised")

FailRun == CanWork /\ pc = "raised" /\ EndRun("failed", "taking", "dead")

Worker ==
    \/ TakeRun \/ AwaitRun \/ FinishSetup \/ RaiseCancelled \/ CheckFlags \/ DelayExpires
    \/ NextEpisode \/ PlayMove \/ PlayLastMove \/ RecordEpisode \/ SimulationFails
    \/ CompleteRun \/ FailRun

-----------------------------------------------------------------------------
(* The process: start, the service loop, the events task, shutdown, death.  *)
Forget ==
    /\ runs' = <<>> /\ run_queue' = <<>>
    /\ state' = [r \in Runs |-> "absent"]
    /\ completed_epochs' = [r \in Runs |-> 0]
    /\ control' = [r \in Runs |-> FreshControl]
    /\ pc' = "none" /\ at' = "start" /\ current' = NoRun

\* Mutant of Recovered: runs that were only queued are left as they are.
RecoveredActive ==
    [r \in Runs |-> IF db[r].status \in Active THEN WithStatus(r, "failed") ELSE db[r]]

\* Mutant of Recovered: the update lacks its where.
RecoveredAll ==
    [r \in Runs |-> IF db[r].status # "absent" THEN WithStatus(r, "failed") ELSE db[r]]

Recovered ==
    [r \in Runs |-> IF db[r].status \in Unfinished THEN WithStatus(r, "failed") ELSE db[r]]

\* amain: recover_interrupted_runs, then a new server, or an exit on an error.
Start ==
    /\ phase \in {"down", "stopped"}
    /\ \E outcome \in Outcomes :
         /\ outcome = "ok" \/ faults < MaxFaults
         /\ faults' = IF outcome = "ok" THEN faults ELSE faults + 1
         /\ db' = IF outcome = "rolledBack" THEN db ELSE Recovered
         /\ phase' = IF outcome = "ok" THEN "polling" ELSE "down"
         /\ pc' = IF outcome = "ok" THEN "idle" ELSE "none"
    /\ stop_event' = FALSE
    /\ UNCHANGED <<runs, state, completed_epochs, control, run_queue, at, current,
                   ended, sent, errors, crashes>>

Stop ==
    /\ phase \in Serving /\ ThreadFree /\ ~stop_event
    /\ stop_event' = TRUE
    /\ UNCHANGED <<phase, memory, db, ended, sent, bounds>>

\* Mutant of ServiceLoop: stop() is not looked at.
ServeForEver ==
    /\ phase \in Serving /\ ThreadFree
    /\ phase' = IF pc = "dead" THEN "joining" ELSE "polling"
    /\ stop_event' = (stop_event \/ pc = "dead")
    /\ UNCHANGED <<memory, db, ended, sent, bounds>>

\* Mutant of ServiceLoop: _check_worker is not called.
ServeWithoutWorker ==
    /\ phase \in Serving /\ ThreadFree
    /\ phase' = IF stop_event THEN "joining" ELSE "polling"
    /\ UNCHANGED <<stop_event, memory, db, ended, sent, bounds>>

\* The top of run()'s loop, reached after a reply or after poll's 500 ms.
ServiceLoop ==
    /\ phase \in Serving /\ ThreadFree
    /\ LET leave == stop_event \/ pc = "dead" IN
         /\ phase' = IF leave THEN "joining" ELSE "polling"
         /\ stop_event' = leave
    /\ UNCHANGED <<memory, db, ended, sent, bounds>>

\* _shutdown_worker, first half: the task takes CancelledError at its await,
\* and gather discards whatever it raises.
JoinWorker ==
    /\ phase = "joining" /\ phase' = "draining"
    /\ pc' = "none" /\ current' = NoRun
    /\ IF current = NoRun
       THEN UNCHANGED <<state, db, ended, faults>>
       ELSE /\ state' = [state EXCEPT ![current] = "cancelled"]
            /\ \E outcome \in Outcomes : FinishRun(current, "cancelled", outcome)
    /\ UNCHANGED <<stop_event, runs, completed_epochs, control, run_queue, at,
                   sent, errors, crashes>>

\* Mutant of DrainRun: a run cancelled while queued is not skipped.
DrainEveryRun ==
    /\ phase = "draining" /\ run_queue # <<>>
    /\ run_queue' = Tail(run_queue)
    /\ LET r == Head(run_queue) IN
         /\ state' = [state EXCEPT ![r] = "cancelled"]
         /\ \E outcome \in Outcomes :
              /\ FinishRun(r, "cancelled", outcome)
              /\ phase' = IF outcome = "ok" THEN "draining" ELSE "closing"
    /\ UNCHANGED <<stop_event, runs, completed_epochs, control, pc, at, current,
                   sent, errors, crashes>>

\* _shutdown_worker, second half: an error of the store abandons the rest.
DrainRun ==
    /\ phase = "draining" /\ run_queue # <<>>
    /\ run_queue' = Tail(run_queue)
    /\ LET r == Head(run_queue) IN
       IF state[r] = "cancelled"
       THEN UNCHANGED <<phase, state, db, ended, faults>>
       ELSE /\ state' = [state EXCEPT ![r] = "cancelled"]
            /\ \E outcome \in Outcomes :
                 /\ FinishRun(r, "cancelled", outcome)
                 /\ phase' = IF outcome = "ok" THEN "draining" ELSE "closing"
    /\ UNCHANGED <<stop_event, runs, completed_epochs, control, pc, at, current,
                   sent, errors, crashes>>

CloseEvents ==
    /\ phase = "draining" /\ run_queue = <<>>
    /\ phase' = "closing"
    /\ UNCHANGED <<stop_event, memory, db, ended, sent, bounds>>

SendEvent ==
    /\ phase \in Serving \union {"joining", "closing"} /\ ThreadFree
    /\ sent < Len(ended)
    /\ sent' = sent + 1
    /\ UNCHANGED <<phase, stop_event, memory, db, ended, bounds>>

\* Mutant of Exit: close() does not wait for the events task.
ExitAtOnce ==
    /\ phase = "closing"
    /\ phase' = "stopped"
    /\ Forget
    /\ UNCHANGED <<stop_event, db, ended, sent, bounds>>

Exit ==
    /\ phase = "closing" /\ sent = Len(ended)
    /\ phase' = "stopped"
    /\ Forget
    /\ UNCHANGED <<stop_event, db, ended, sent, bounds>>

Crash ==
    /\ phase \notin {"down", "stopped"} /\ crashes < MaxCrashes
    /\ crashes' = crashes + 1
    /\ phase' = "down"
    /\ Forget
    /\ ended' = SubSeq(ended, 1, sent)
    /\ UNCHANGED <<stop_event, db, sent, faults, errors>>

Shutdown == JoinWorker \/ DrainRun \/ CloseEvents \/ Exit

-----------------------------------------------------------------------------
Init ==
    /\ phase = "down" /\ stop_event = FALSE
    /\ runs = <<>> /\ run_queue = <<>>
    /\ state = [r \in Runs |-> "absent"]
    /\ completed_epochs = [r \in Runs |-> 0]
    /\ control = [r \in Runs |-> FreshControl]
    /\ pc = "none" /\ at = "start" /\ current = NoRun
    /\ db = [r \in Runs |-> AbsentRow]
    /\ ended = <<>> /\ sent = 0
    /\ faults = 0 /\ errors = 0 /\ crashes = 0

Next == \/ Requests \/ Worker \/ SendEvent \/ ServiceLoop \/ Shutdown
        \/ Start \/ Stop \/ Crash

Spec == Init /\ [][Next]_vars

\* The event loop runs every ready task, and a rule of the game ends every
\* episode: a move cannot always be followed by another one.
Fairness ==
    /\ WF_vars(Worker) /\ SF_vars(PlayLastMove)
    /\ WF_vars(SendEvent) /\ WF_vars(ServiceLoop) /\ WF_vars(Shutdown)

FairSpec == Spec /\ Fairness

-----------------------------------------------------------------------------
(* Properties.                                                              *)

\* Every variable has the shape the code gives it.
TypeOK ==
    /\ phase \in Phases /\ stop_event \in BOOLEAN
    /\ runs \in Seq(Runs) /\ run_queue \in Seq(Runs)
    /\ state \in [Runs -> {"absent"} \union States]
    /\ completed_epochs \in [Runs -> Nat]
    /\ control \in [Runs -> Controls]
    /\ pc \in Tasks /\ at \in {"start", "move", "gap"} /\ current \in Runs \union {NoRun}
    /\ db \in [Runs -> Row]
    /\ ended \in Seq(Event) /\ sent \in 0..Len(ended)
    /\ faults \in 0..MaxFaults /\ errors \in 0..MaxErrors /\ crashes \in 0..MaxCrashes

Serves == phase \in Serving /\ ThreadFree /\ pc # "dead"

\* No ended event, sent or pending, says anything but what the store holds: the
\* result is stored before it is announced (_finish_run) and, across a lost
\* acknowledgement, a shutdown or a restart, is never stored differently after.
PersistedBeforeEvent ==
    \A i \in 1..Len(ended) : db[ended[i].run].status = ended[i].state

\* A run ends once: cancelling it, the worker, the shutdown and the recovery
\* after a crash never publish a second ended event for it.
AtMostOneEnded ==
    \A i, j \in 1..Len(ended) : ended[i].run = ended[j].run => i = j

\* While the server answers requests, what it says about a run from memory
\* (_run_status) is what the store holds about it.
StoreMirrorsMemory ==
    Serves =>
      \A r \in Runs : state[r] # "absent" =>
        /\ db[r].status = state[r]
        /\ state[r] # "failed" => /\ db[r].rows = completed_epochs[r]
                                  /\ db[r].episode_count = completed_epochs[r]

\* The first element of the sequence s that is in S, or None.
First(s, S) ==
    LET Leads(i) == s[i] \in S /\ \A j \in 1..(i - 1) : s[j] \notin S
    IN IF \E i \in DOMAIN s : Leads(i) THEN s[CHOOSE i \in DOMAIN s : Leads(i)] ELSE NoRun

\* Mutant of ActiveRun: a paused run does not count as active.
RunningRun ==
    LET active == First(runs, {r \in Runs : state[r] \in Active \ {"paused"}})
    IN IF active # NoRun THEN active ELSE First(runs, {r \in Runs : state[r] = "queued"})

\* _active: the first run that is active, else the first that is queued, in
\* the order of the dict.
ActiveRun ==
    LET active == First(runs, {r \in Runs : state[r] \in Active})
    IN IF active # NoRun THEN active ELSE First(runs, {r \in Runs : state[r] = "queued"})

\* The run that discovery reports is the one the worker executes, alone, or else
\* the one it will take next: _runs and _run_queue never disagree.
ActiveIsNext ==
    Serves =>
      IF current # NoRun
      THEN ActiveRun = current /\ \A r \in Runs \ {current} : state[r] \notin Active
      ELSE ActiveRun = First(run_queue, {r \in Runs : state[r] = "queued"})

\* A run the store calls unfinished is in the worker's hands or in its queue:
\* no failed call, cancelled request or earlier process leaves one behind.
NoOrphans ==
    Serves =>
      \A r \in Runs : db[r].status \in Unfinished =>
        r = current \/ \E i \in DOMAIN run_queue : run_queue[i] = r

\* A run is stored as completed with every episode and its boards (SnakeDb.finish_run).
\* No other outcome has a snapshot; the boards of the best game stay behind under a run
\* whose completion was revised to a failure, but never those of a part of a run.  Only
\* the episode whose write failed the run may be counted without being stored.
CompletedIsWhole ==
    \A r \in Runs :
      /\ db[r].status = "completed" => db[r].rows = Epochs /\ db[r].episode_count = Epochs
      /\ db[r].snapshot <=> db[r].status = "completed" /\ Epochs > 0
      /\ db[r].status = "completed" /\ Epochs > 0 => db[r].frames
      /\ db[r].frames => /\ db[r].status \in {"completed", "failed"}
                         /\ Epochs > 0 /\ db[r].rows = Epochs
      /\ db[r].episode_count # db[r].rows =>
           db[r].status = "failed" /\ db[r].episode_count = db[r].rows + 1

\* What the server says of a run is what the run's control tells the simulation: a
\* run that is shown as running is not held, one that is shown as paused or cancelling is.
FlagsAgree ==
    \A r \in Runs :
      /\ control[r].paused => state[r] \notin {"absent", "queued", "running"}
      /\ control[r].cancel_requested =>
           state[r] \notin {"absent", "queued", "running", "paused"}
      /\ state[r] = "paused" => control[r].paused
      /\ state[r] = "cancelling" => control[r].cancel_requested

\* What the server answers from memory is what the store would say and what the worker
\* obeys, and what it reports as active is what the worker has in hand or will take next.
AnswersAreTrue == StoreMirrorsMemory /\ ActiveIsNext /\ FlagsAgree

\* The store is never left saying what no process will correct: an unfinished run
\* is in somebody's hands, and a finished one has all that its outcome entitles it to.
StoreIsWhole == NoOrphans /\ CompletedIsWhole

\* An orderly stop of a server whose store never failed leaves nothing
\* unfinished and nothing unannounced.
CleanStop ==
    phase = "stopped" /\ faults = 0 /\ crashes = 0 =>
      \A r \in Runs : db[r].status # "absent" =>
        /\ db[r].status \in Terminal
        /\ \E i \in 1..sent : ended[i].run = r

\* A stored outcome is final, also for the recovery at the next start.  Its one
\* revision is the worker's: a completion whose answer was lost becomes a failure.
OutcomeIsFinal ==
    [][\A r \in Runs : db[r].status \in Terminal /\ db'[r] # db[r] =>
         /\ r = current /\ pc = "raised"
         /\ db[r].status = "completed" /\ db'[r].status = "failed"]_vars

\* What the abstract specification promises.
Outcome(r) == IF db[r].status \in Unfinished THEN "open" ELSE db[r].status
Abstract == INSTANCE RunLifecycle WITH
    record <- [r \in Runs |-> Outcome(r)],
    announced <- {ended[i] : i \in 1..sent}
ImplementsRunLifecycle == Abstract!Spec

\* "Active work first enters cancelling and later reaches cancelled"
\* (pages/control-protocol.md).
CancellingEndsCancelled ==
    [][\A r \in Runs : state[r] = "cancelling" =>
         state'[r] \in {"cancelling", "cancelled", "absent"}]_vars

\* A cancellation is never forgotten: a run that is cancelling ends, unless its
\* process does.
CancellingEnds ==
    \A r \in Runs : state[r] = "cancelling" ~> state[r] \in Terminal \union {"absent"}

\* A stop, a dead worker or a failed request ends the process: no wait of the
\* shutdown is for ever.
StopEnds == stop_event ~> phase \in {"stopped", "down"}

\* Clients that pause a run do resume it in the end.
PausesEnd == \A r \in Runs : <>[](state[r] # "paused")

\* Every queued run is served, and its end is stored and then announced, as
\* long as no pause lasts for ever; or the process ends.
QueuedEndsAnnounced ==
    PausesEnd =>
      \A r \in Runs : state[r] = "queued" ~>
        \/ db[r].status \in Terminal /\ \E i \in 1..sent : ended[i].run = r
        \/ phase \in {"stopped", "down"}

=============================================================================
