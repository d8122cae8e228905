----------------------------- MODULE ClientControls -----------------------------
(***************************************************************************)
(* The control half of the Textual client: which run it shows, the state it *)
(* shows of it, and the requests it sends for it.  What it shows comes from *)
(* three sides that overtake one another: telemetry, the answers to its own *)
(* requests, and the Changed events of its own delay selection.  The server *)
(* is what SimulationServer makes of requests, without store and shutdown.  *)
(***************************************************************************)
EXTENDS Naturals, Sequences, FiniteSets

CONSTANTS
    MaxRuns,      \* bound: submissions
    Delays,       \* the choices of the move delay
    MaxBacklog,   \* bound: telemetry under way, the oldest is dropped
    MaxPresses,   \* bound: what the user does
    MaxStatuses   \* bound: statuses of runs that the server publishes

ASSUME ClientAssumption ==
    /\ MaxRuns \in Nat /\ MaxBacklog \in Nat \ {0}
    /\ MaxPresses \in Nat /\ MaxStatuses \in Nat
    /\ 0 \in Delays /\ Delays \subseteq Nat

Runs == 1..MaxRuns     \* in the order of their submission
NoRun == 0

VARIABLES
    state, delay,      \* the server's: of each run
    telemetry,         \* sent to the client and not handled yet
    calls,             \* requests in the order of AsyncLabClient's lock
    answer,            \* the answer to the first of them, once there is one
    abandoned,         \* requests that timed out and may yet be handled
    active_run, run_state, move_delay_ms, control_busy,
    controls,          \* what _refresh_controls last made of the buttons
    select,            \* the value of the delay selection
    changes,           \* its Changed events on their way to the application
    task,              \* the control task created and not started
    results,           \* the posted ControlResult messages
    dialog,            \* the run that an open CancelRunScreen names
    presses,
    \* history: the statuses published, the newest one received, whether one was lost or
    \* the discovery of a run was given up, and whether an answer was shown that telemetry had overtaken: one that is older
    \* than what was received, or about another run than the live one on show
    clock, seen, lost, overtaken

server_vars == <<state, delay, telemetry, abandoned, clock, lost>>
call_vars == <<calls, answer>>
heard_vars == <<seen, overtaken>>
shown_vars == <<run_state, move_delay_ms, controls, select, changes>>
view_vars == <<active_run, shown_vars, heard_vars>>
user_vars == <<dialog, presses>>
client_vars == <<call_vars, view_vars, control_busy, task, results, user_vars>>
vars == <<server_vars, client_vars>>
\* What no control that is begun touches.
calm_vars == <<server_vars, call_vars, active_run, run_state, move_delay_ms, select, heard_vars,
               results>>

Live == {"running", "paused", "cancelling"}
Ended == {"completed", "cancelled"}   \* a failed run is shown as a completed one is
States == {"absent", "queued"} \union Live \union Ended
ControlOps == {"pause", "resume", "cancel", "delay"}

-----------------------------------------------------------------------------
(* The server.                                                              *)
ActiveRuns == {r \in Runs : state[r] \in Live}
QueuedRuns == {r \in Runs : state[r] = "queued"}
First(runs) == CHOOSE r \in runs : \A q \in runs : r <= q

\* Mutant of Publish: the queue of the publisher has no limit.
PublishUnbounded(message) ==
    telemetry' = Append(telemetry, message) /\ UNCHANGED lost

\* What is under way to the client, TelemetryPublisher's queue included.
Publish(message) ==
    LET full == Len(telemetry) = MaxBacklog
    IN /\ telemetry' = Append(IF full THEN Tail(telemetry) ELSE telemetry, message)
       /\ lost' = (lost \/ (full /\ Head(telemetry).topic = "run"))

\* _publish_run, and the messages of _worker_loop that say the same.
PublishRun(r, s, d) ==
    /\ clock < MaxStatuses /\ clock' = clock + 1
    /\ Publish([topic |-> "run", run |-> r, state |-> s, delay |-> d, at |-> clock'])

\* The states in which an operation is accepted, and the one it leads to.
Accepts(op, s) ==
    s \in CASE op \in {"pause", "resume"} -> {"running", "paused"}
            [] op = "cancel" -> {"queued", "cancelled"} \union Live
            [] op = "delay" -> {"queued", "running", "paused"}

Controlled(op, s) ==
    CASE op = "pause" -> "paused"
      [] op = "resume" -> "running"
      [] op = "cancel" -> IF s \in {"queued", "cancelled"} THEN "cancelled" ELSE "cancelling"
      [] op = "delay" -> s

\* The run that a request is about: a submission's is new.
Target(q) ==
    CASE q.op = "discover" -> IF ActiveRuns # {} THEN First(ActiveRuns)
                              ELSE IF QueuedRuns # {} THEN First(QueuedRuns) ELSE NoRun
      [] q.op = "submit" -> First({r \in Runs : state[r] = "absent"})
      [] OTHER -> q.run

\* The state and the delay of that run once the request is handled.
NewStatus(q) ==
    LET r == Target(q)
    IN CASE r = NoRun -> [state |-> "absent", delay |-> 0]
         [] q.op = "submit" -> [state |-> "queued", delay |-> 0]
         [] q.op \in ControlOps -> [state |-> Controlled(q.op, state[r]),
                                    delay |-> IF q.op = "delay" THEN q.delay ELSE delay[r]]
         [] q.op = "discover" /\ r # NoRun -> [state |-> state[r], delay |-> delay[r]]

Granted(q) == q.op \in ControlOps => Accepts(q.op, state[q.run])

Answer(q) == [ok |-> Granted(q), run |-> Target(q),
              state |-> NewStatus(q).state, delay |-> NewStatus(q).delay, at |-> clock']

\* What handling it does to the runs and publishes.
Handle(q) ==
    LET r == Target(q)
        new == NewStatus(q)
    IN /\ q.op = "submit" => \E n \in Runs : state[n] = "absent"
       /\ IF q.op = "discover" \/ ~Granted(q)
          THEN UNCHANGED <<state, delay, telemetry, clock, lost>>
          ELSE /\ state' = [state EXCEPT ![r] = new.state]
               /\ delay' = [delay EXCEPT ![r] = new.delay]
               /\ IF q.op = "delay" \/ new.state # state[r]
                  THEN PublishRun(r, new.state, new.delay)
                  ELSE UNCHANGED <<telemetry, clock, lost>>

Reached(r, s) ==
    /\ state' = [state EXCEPT ![r] = s]
    /\ PublishRun(r, s, delay[r])
    /\ UNCHANGED <<delay, abandoned, client_vars>>

\* The worker takes the next run, and ends the one it has.
StartRun ==
    /\ ActiveRuns = {} /\ QueuedRuns # {}
    /\ Reached(First(QueuedRuns), "running")

\* A pause or a cancellation that came after the last checkpoint lets it complete.
EndRun(r) ==
    \/ state[r] \in Live /\ Reached(r, "completed")
    \/ state[r] = "cancelling" /\ Reached(r, "cancelled")

\* A frame, or an episode: telemetry that names its run and no state.  One move may
\* still be played after a pause or a cancellation was accepted.
Play(r) ==
    /\ state[r] \in Live
    /\ Publish([topic |-> "frame", run |-> r])
    /\ UNCHANGED <<state, delay, clock, abandoned, client_vars>>

\* A client elsewhere, of a run it knows.
OtherRequest(q) ==
    /\ q.op \in ControlOps => state[q.run] # "absent"
    /\ Handle(q)
    /\ UNCHANGED <<abandoned, client_vars>>

-----------------------------------------------------------------------------
(* The calls.  One request at a time is on its way; each has a socket of its *)
(* own, so that an answer that comes too late is seen by nobody.             *)
AnswerCall ==
    /\ calls # <<>> /\ answer = <<>>
    /\ Handle(Head(calls))
    /\ answer' = <<Answer(Head(calls))>>
    /\ UNCHANGED <<abandoned, calls, view_vars, control_busy, task, results, user_vars>>

\* The request was received, but its client has stopped waiting.
HandleAbandoned ==
    \E q \in abandoned :
      /\ Handle(q)
      /\ abandoned' = abandoned \ {q}
      /\ UNCHANGED client_vars

\* The end of a call: the ControlResult is posted.
Posted(result) ==
    /\ results' = Append(results, result)
    /\ calls' = Tail(calls) /\ answer' = <<>>
    /\ UNCHANGED <<view_vars, control_busy, task, user_vars>>

ReceiveAnswer ==
    /\ answer # <<>>
    /\ Posted([op |-> Head(calls).op, error |-> FALSE, response |-> answer[1]])
    /\ UNCHANGED server_vars

\* wait_for gives up; the server may have the request, or never receive it.
TimeOut ==
    /\ calls # <<>>
    /\ Posted([op |-> Head(calls).op, error |-> TRUE])
    /\ abandoned' \in {abandoned} \union (IF answer = <<>> THEN {abandoned \union {Head(calls)}}
                                                             ELSE {})
    /\ lost' = (lost \/ (Head(calls).op = "discover" /\ Target(Head(calls)) # NoRun))
    /\ UNCHANGED <<state, delay, telemetry, clock>>

-----------------------------------------------------------------------------
(* The view.                                                                *)

\* What _refresh_controls makes of the two fields it reads.
Controls(s, busy) ==
    [submit |-> ~busy,
     pause |-> IF s = "paused" THEN "resume" ELSE "pause",
     can_pause |-> ~busy /\ s \in {"running", "paused"},
     interactive |-> ~busy /\ s \in {"queued", "running", "paused"}]

\* _show_run; an assignment to the selection that changes it posts a Changed event.
ShowRun(s, d, busy) ==
    /\ run_state' = s /\ move_delay_ms' = d
    /\ controls' = Controls(s, busy)
    /\ select' = d
    /\ changes' = IF select = d THEN changes ELSE Append(changes, d)

\* Mutant of Activates: only the first run is followed of its own accord.
ActivatesFirst(m) == active_run = NoRun

\* Which status makes its run the one on show.
Activates(m) == m.state = "running" \/ active_run = NoRun

\* on_telemetry_received of a run message, once it is not another run's "queued".
SeeRun(m) ==
    LET r == IF Activates(m) THEN m.run ELSE active_run
    IN /\ active_run' = r
       /\ IF m.run = r THEN ShowRun(m.state, m.delay, control_busy)
          ELSE UNCHANGED shown_vars
       /\ seen' = m.at /\ UNCHANGED overtaken

OnTelemetryReceived ==
    /\ telemetry # <<>>
    /\ telemetry' = Tail(telemetry)
    /\ LET m == Head(telemetry)
       IN CASE m.topic = "frame" ->
                 /\ active_run' = m.run
                 /\ UNCHANGED <<shown_vars, heard_vars>>
            [] m.topic = "run" /\ m.state = "queued" /\ active_run \notin {NoRun, m.run} ->
                 /\ seen' = m.at
                 /\ UNCHANGED <<active_run, shown_vars, overtaken>>
            [] OTHER -> SeeRun(m)
    /\ UNCHANGED <<state, delay, abandoned, clock, lost, call_vars, control_busy, task, results,
                   user_vars>>

\* Best effort: a message that never arrives.
LoseTelemetry ==
    /\ telemetry # <<>>
    /\ telemetry' = Tail(telemetry)
    /\ lost' = (lost \/ Head(telemetry).topic = "run")
    /\ UNCHANGED <<state, delay, abandoned, clock, client_vars>>

\* _apply_run_status
ApplyRunStatus(status, busy) ==
    /\ active_run' = status.run
    /\ overtaken' = (overtaken \/ status.at < seen
                       \/ (run_state \in Live /\ status.run # active_run))
    /\ ShowRun(status.state, status.delay, busy)
    /\ seen' = IF status.at > seen THEN status.at ELSE seen

\* Mutant of BusyAfter: any result unlocks the buttons.
BusyAfterAny(m) == FALSE

\* The first lines of on_control_result.
BusyAfter(m) == IF m.op = "discover" THEN control_busy ELSE FALSE

\* Mutant of Refreshed: the branches that show no new status forget the buttons.
RefreshedNever(refreshes, busy) == controls

Refreshed(refreshes, busy) == IF refreshes THEN Controls(run_state, busy) ELSE controls

\* on_control_result
OnControlResult ==
    /\ results # <<>>
    /\ results' = Tail(results)
    /\ LET m == Head(results)
           busy == BusyAfter(m)
           refused == m.error \/ ~m.response.ok
           shown == CASE m.op = "discover" -> m.response.run # NoRun
                      [] m.op = "submit" ->
                           active_run = NoRun \/ run_state \in {"idle"} \union Ended
                      [] OTHER -> TRUE
       IN /\ control_busy' = busy
          /\ IF ~refused /\ shown THEN ApplyRunStatus(m.response, busy)
             ELSE /\ controls' = Refreshed(refused \/ m.op = "submit", busy)
                  /\ UNCHANGED <<active_run, run_state, move_delay_ms, select, changes, heard_vars>>
    /\ UNCHANGED <<server_vars, call_vars, task, user_vars>>

\* _begin_control and _begin_submission: the task is created, not started.
Begin(op, value) ==
    /\ control_busy' = TRUE
    /\ controls' = Controls(run_state, TRUE)
    /\ task' = <<[op |-> op, delay |-> value]>>

\* _send_control reads the run it is about when it starts.
StartTask ==
    /\ task # <<>>
    /\ task' = <<>>
    /\ calls' = Append(calls, [op |-> task[1].op, delay |-> task[1].delay,
                              run |-> IF task[1].op = "submit" THEN NoRun ELSE active_run])
    /\ UNCHANGED <<server_vars, answer, view_vars, control_busy, results, user_vars>>

\* Mutant of FailToLoad: the failure is not posted.
FailSilently ==
    /\ task # <<>> /\ task[1].op = "submit"
    /\ task' = <<>>
    /\ UNCHANGED <<server_vars, call_vars, view_vars, control_busy, results, user_vars>>

\* _send_submission when the file cannot be loaded.
FailToLoad ==
    /\ task # <<>> /\ task[1].op = "submit"
    /\ task' = <<>>
    /\ results' = Append(results, [op |-> "submit", error |-> TRUE])
    /\ UNCHANGED <<server_vars, call_vars, view_vars, control_busy, user_vars>>

\* on_select_changed: the value of the event against the delay that is shown now.
OnSelectChanged ==
    /\ changes # <<>>
    /\ changes' = Tail(changes)
    /\ IF Head(changes) # move_delay_ms /\ active_run # NoRun /\ ~control_busy
       THEN Begin("delay", Head(changes))
       ELSE UNCHANGED <<control_busy, controls, task>>
    /\ UNCHANGED <<calm_vars, user_vars>>

-----------------------------------------------------------------------------
(* The user, where the widgets let him.                                     *)
Press ==
    /\ dialog = NoRun /\ presses < MaxPresses
    /\ presses' = presses + 1

PressPause ==
    /\ Press /\ controls.can_pause /\ active_run # NoRun
    /\ Begin(IF run_state = "paused" THEN "resume" ELSE "pause", 0)
    /\ UNCHANGED <<calm_vars, changes, dialog>>

PressSubmit ==
    /\ Press /\ controls.submit
    /\ Begin("submit", 0)
    /\ UNCHANGED <<calm_vars, changes, dialog>>

PickDelay(d) ==
    /\ Press /\ controls.interactive /\ d # select
    /\ select' = d
    /\ changes' = Append(changes, d)
    /\ UNCHANGED <<server_vars, call_vars, active_run, run_state, move_delay_ms, controls,
                   heard_vars, control_busy, task, results, dialog>>

PressCancel ==
    /\ Press /\ controls.interactive /\ active_run # NoRun
    /\ dialog' = active_run
    /\ UNCHANGED <<server_vars, call_vars, view_vars, control_busy, task, results>>

\* _cancel_confirmed: the answer to the dialog, not the run it names.
CloseDialog(confirmed) ==
    /\ dialog # NoRun /\ dialog' = NoRun
    /\ IF confirmed /\ active_run # NoRun /\ ~control_busy
       THEN Begin("cancel", 0)
       ELSE UNCHANGED <<control_busy, controls, task>>
    /\ UNCHANGED <<calm_vars, changes, presses>>

-----------------------------------------------------------------------------
\* The program may start while a run is under way, which on_mount then discovers;
\* two statuses of that run have gone by.
Init ==
    /\ \E s \in {"absent", "running", "cancelling"} :
         /\ state = [r \in Runs |-> IF r = 1 THEN s ELSE "absent"]
         /\ clock = IF s = "absent" THEN 0 ELSE 2
    /\ delay = [r \in Runs |-> 0]
    /\ telemetry = <<>> /\ abandoned = {}
    /\ calls = <<[op |-> "discover", run |-> NoRun, delay |-> 0]>> /\ answer = <<>>
    /\ active_run = NoRun /\ run_state = "idle" /\ move_delay_ms = 0
    /\ control_busy = FALSE /\ controls = Controls("idle", FALSE)
    /\ select = 0 /\ changes = <<>>
    /\ task = <<>> /\ results = <<>>
    /\ dialog = NoRun /\ presses = 0
    /\ seen = 0 /\ lost = FALSE /\ overtaken = FALSE

Requests == [op : {"submit"}, run : {NoRun}, delay : {0}]
                \union [op : ControlOps \ {"delay"}, run : Runs, delay : {0}]
                \union [op : {"delay"}, run : Runs, delay : Delays]

Server ==
    \/ StartRun \/ \E r \in Runs : EndRun(r) \/ Play(r)
    \/ \E q \in Requests : OtherRequest(q)
    \/ AnswerCall \/ HandleAbandoned

User ==
    \/ PressPause \/ PressSubmit \/ PressCancel
    \/ \E d \in Delays : PickDelay(d)
    \/ \E confirmed \in BOOLEAN : CloseDialog(confirmed)

Next ==
    \/ Server \/ User
    \/ ReceiveAnswer \/ TimeOut \/ LoseTelemetry
    \/ OnTelemetryReceived \/ OnControlResult \/ OnSelectChanged
    \/ StartTask \/ FailToLoad

Spec == Init /\ [][Next]_vars

\* The event loop of the client runs its tasks and handlers, and timers expire;
\* nothing is assumed of the server.
FairSpec ==
    Spec /\ WF_vars(TimeOut) /\ WF_vars(OnControlResult) /\ WF_vars(StartTask)

-----------------------------------------------------------------------------
\* Every variable has the shape the code gives it.
TypeOK ==
    /\ state \in [Runs -> States] /\ delay \in [Runs -> Delays]
    /\ Len(telemetry) <= MaxBacklog
    /\ \A i \in DOMAIN telemetry : telemetry[i].run \in Runs
    /\ active_run \in Runs \union {NoRun}
    /\ run_state \in (States \ {"absent"}) \union {"idle"}
    /\ move_delay_ms \in Delays /\ select \in Delays
    /\ control_busy \in BOOLEAN /\ dialog \in Runs \union {NoRun}
    /\ Len(task) <= 1 /\ Len(answer) <= Len(calls)
    /\ changes \in Seq(Delays)

\* The buttons are locked exactly while one request of the user's is under way:
\* there are never two at once, and no way to fail leaves them locked for nothing.
BusyIsOneRequest ==
    LET own(s) == {i \in DOMAIN s : s[i].op # "discover"}
    IN Len(task) + Cardinality(own(calls)) + Cardinality(own(results))
         = IF control_busy THEN 1 ELSE 0

\* The buttons always show the state and the lock of now, though each of the two
\* is changed by handlers that must remember to refresh them.
ControlsAreFresh == controls = Controls(run_state, control_busy)

\* The buttons offer what may be done now, and are locked for one request at a time.
ControlsAreSound == TypeOK /\ BusyIsOneRequest /\ ControlsAreFresh

\* Two sources in any order: yet when nothing is under way any more, what the view
\* says of its run is so, unless a message about a run was lost, or an answer was shown
\* that telemetry had overtaken.
ViewIsTrueAtRest ==
    telemetry = <<>> /\ calls = <<>> /\ results = <<>> /\ ~lost /\ ~overtaken
      /\ active_run # NoRun =>
        run_state = state[active_run] /\ move_delay_ms = delay[active_run]

\* Whatever the server does, or if there is none, the buttons are unlocked again.
ControlsComeBack == control_busy ~> ~control_busy

\* CancelRunScreen: "Require an explicit confirmation before cancelling a run".
\* It names the run, so a run is cancelled only if the confirmed dialog named it.
CancelIsConfirmed ==
    [][(dialog # NoRun /\ task' # task) => (dialog' = NoRun => dialog = active_run)]_vars

=================================================================================
