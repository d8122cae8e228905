# A formal model of Snake Lab

TLA+ modules about the program in `src/snakelab`: a server that runs snake
learning simulations one at a time, stores their results and tells clients about
them. TLC checks the modules on small instances, and TLAPS proves the most
important properties for every value of the constants.

## 1. The system

Everything on the server runs in **one asyncio thread**. Code between two
`await`s is never interrupted by another task, but the process may die anywhere,
and a store call is a synchronous round trip to MariaDB that may fail.

| component | state it keeps | operations | talks to |
| --- | --- | --- | --- |
| SimulationServer | `_runs` (dict), `_run_queue`, a `SimulationRun` per run, `_stop_event`, the worker task | the requests submit, active, status, pause, resume, cancel, set_move_delay, highscore_*; worker loop; start, service loop, shutdown | all the others |
| SimulationControl | paused, cancel requested, delay, an `asyncio.Event` | pause, resume, cancel, set_move_delay, checkpoint | set by requests, awaited by the Simulator |
| Simulator | game, history, best board, run totals | run, one episode, one move | SnakeGame, ReplayMemory, Trainer, EpsilonAlgo; calls back per episode and per frame |
| SnakeGame, GameRules | snake, direction, food, score, moves | step, reset, would_collide | pure |
| ReplayMemory | stored episodes, the index of windows, the episode in progress | append, sample | fed by the Simulator, read by the Trainer |
| EpsilonAlgo | epsilon, injections of the episode | maybe_random_action, episode_completed | Simulator |
| Trainer, RNNModel | weights, target network, optimiser | train | ReplayMemory |
| SnakeDb, DbMgr | `simulation_runs`, `simulation_episodes`, `configurations`, `simulation_high_score_frames`; one connection, one transaction at a time | create, start, status, record, finish, recover, reads | MariaDB |
| MemorySimulationStore | the same in dicts | the same | - |
| EventsPublisher | a queue of ended events, a task that sends them | publish_event, check, close | ZeroMQ PUB |
| TelemetryPublisher | a bounded queue, a sequence number per topic, the set of frame filters | offer_run, offer_episode, offer_frame, check, close | ZeroMQ XPUB |
| AsyncLabClient | a lock, one REQ socket per request | request with timeouts | server, over REQ/REP |
| client (TUI) | the run it shows, its state, expected sequence numbers, a pending confirmation | telemetry and event handlers, control buttons | AsyncLabClient, TelemetrySubscriber |
| Configuration, JSONValidator | schema defaults | resolve | - |
| LivePlots, SnakeBoard, MyLog, Network, scripts | display, logs, addresses, deployment | - | - |

What is hard in it: the worker's awaits interleave with requests; a pause or a
cancellation wakes a worker that may be anywhere in a wait, a delay or a yield; a
queued run can be ended by a request, by the worker or by the shutdown; a store
call can fail before or after its commit, also while a failure is being recorded;
the process can be stopped or die between any two steps; events are sent by a
third task after the fact; what the client shows comes by three ways that overtake
one another; a request may be handled after its caller has given it up; a connection
may die between any two statements of a transaction; the index of the replay memory must follow its
evictions; the tail of a snake moves away in the step in which the head arrives.
`PROJECT.json` lists each hazard at its line, with the property that covers it.

What makes each component correct:

- server: outcomes are stored before they are announced, once, and never change;
  memory, queue and store agree whenever a client can ask; runs start in order; a
  stop leaves nothing unfinished; every accepted cancellation is served;
- control: no wakeup is lost, a halt is obeyed after at most one move;
- game: the snake stays a path on the board, the food stays off it, an episode ends;
- replay memory: the index names exactly the windows that exist, memory is bounded
  by evicting the oldest episodes and no more than needed;
- simulator: the most recent of the best games is kept whole, episodes are reported
  with their own numbers, the exploration follows its schedule, and training draws
  from the latest games;
- telemetry: per topic order, and the newest state is never the one dropped;
- client: what it shows is so once everything has arrived, its buttons are locked for
  one request at a time and always come back;
- control protocol: an answer reaches the request it is for, or nobody; nothing hangs;
- database manager: a unit of work is stored whole or not at all, and always ends;
- configuration: what is accepted is what the schema describes, and it can be played.

## 2. The modules

| module | models | composed with |
| --- | --- | --- |
| `RunLifecycle` | abstract: what a client may rely on about one run, whatever fails | implemented by `SimulationServer` |
| `SimulationServer` | requests, worker, store, ended events, shutdown, crash and restart | instantiates `RunLifecycle`; its worker follows `Checkpoint` (proved) |
| `MCSimulationServer` | the symmetry of the run ids | extends `SimulationServer` |
| `SimulationServerProofs` | three inductive invariants, eleven theorems | extends `SimulationServer`, `TLAPS` |
| `Checkpoint` | abstract: what `await control.checkpoint()` promises the simulation and the server | implemented by `SimulationControl` |
| `SimulationControl` | the flags, the `asyncio.Event`, the futures and timers under `checkpoint` | instantiates `Checkpoint` |
| `SimulationControlProofs` | four theorems | extends `SimulationControl`, `TLAPS` |
| `SnakeGame` | `SnakeGame` and `GameRules`: one game | - |
| `ReplayMemory` | `ReplayMemory`: episodes, evictions, the index, batches | instantiated by `Simulator` |
| `Simulator` | `Simulator` and `EpsilonAlgo`: episodes, schedule, training, the best game | instantiates `ReplayMemory` as its memory |
| `SimulatorProofs` | recursion, sums, four invariants and five theorems | extends `Simulator`, `TLAPS` |
| `TelemetryPublisher` | `TelemetryPublisher`: queue, numbering, subscriptions, check, close | - |
| `TelemetryPublisherProofs` | the inductive invariant and four theorems | extends `TelemetryPublisher`, `TLAPS` |
| `ClientControls` | the control half of the client: the run on show, the buttons, the requests and their results | has the server and the line as an environment |
| `ClientControlsProofs` | two inductive invariants and two theorems | extends `ClientControls`, `TLAPS` |
| `AsyncLabClient` | `AsyncLabClient`: one call at a time, sockets, timeouts, the end of the program | has a REP server that may stop as an environment |
| `AsyncLabClientProofs` | two inductive invariants and two theorems | extends `AsyncLabClient`, `TLAPS` |
| `StoreCalls` | abstract: what a caller of the database manager may rely on | implemented by `DbMgr` |
| `DbMgr` | `DbMgr`: transactions of several threads on one connection that may die | instantiates `StoreCalls` |
| `DbMgrProofs` | the inductive invariant and three theorems | extends `DbMgr`, `TLAPS` |
| `Configuration` | `Configuration`, `JSONValidator`, the schema, and the constructors that a run passes | - |
| `MCConfiguration` | the documents that the run submits | extends `Configuration` |
| `ConfiguredGameProofs` | an inductive invariant for each of the two, and seven theorems | extends `Configuration`, `SnakeGame`, `TLAPS` |

Operators whose comment begins with "Mutant of" are not part of any
specification. Each is the plausible mistake that its property exists to catch:
with the mutant in the place of the definition, TLC finds the property violated
(`PROJECT.json`, "mutants").

### SimulationServer

An action is the code between two `await`s, cut once more after each store call
because the process may die there. Three variables say who holds the thread:

- `phase` is where `SimulationServer.run` is: `polling` (waiting in `poll` or
  about to), `replying` (the answer is being sent), `joining` (waiting for the
  worker in `_shutdown_worker`), `draining` (emptying the queue, without an await),
  `closing` (waiting in `EventsPublisher.close`), `stopped`, and `down` (no process).
- `pc` is where the worker task is. In the states `Holding` it is between two
  store calls and nobody else runs; in the states `Waiting` it is at an await:
  `idle` (`queue.get`), `setup` (`Simulator.run`'s `asyncio.sleep(0)` and the
  building of the network), `blocked`, `delaying`, `late`, `yielding` (the waits of
  `checkpoint`, a delay that has expired, and its `sleep(0)`), `episodeEnd` (the
  sleep after the last move). `dead` is a task whose exception nobody has read.
- `at` names the `checkpoint` call the worker is in, because the first one of an
  episode does not apply the move delay and the one between episodes plays no move.

| variable | code |
| --- | --- |
| `runs`, `run_queue` | `_runs` (a dict, here its keys in insertion order), `_run_queue` |
| `state`, `completed_epochs`, `control` | the fields of a `SimulationRun` |
| `db` | a row of `simulation_runs` with its snapshot, the count of its rows in `simulation_episodes`, whether it has boards in `simulation_high_score_frames` (`frames`) |
| `ended`, `sent` | every ended event given to `EventsPublisher`; the first `sent` have left |
| `stop_event` | `_stop_event` |

| action | code |
| --- | --- |
| `Submit`, `Pause`, `Resume`, `CancelActive`, `CancelQueued`, `SetMoveDelay` | the handlers of `handle_request` that change a run |
| `Inquire` | every request that only reads, or is rejected |
| `TakeRun`, `AwaitRun` | the top of `_worker_loop` |
| `FinishSetup`, `CheckFlags`, `RaiseCancelled`, `DelayExpires`, `NextEpisode`, `PlayMove`, `PlayLastMove` | `Simulator.run`, `_run_episode` and `checkpoint` |
| `RecordEpisode` | `update_progress` |
| `SimulationFails` | an exception out of the simulation |
| `CompleteRun`, `FailRun` | the ends of a run in `_worker_loop` |
| `Start` | `amain`: recovery of interrupted runs, then a new server |
| `Stop`, `ServiceLoop`, `JoinWorker`, `DrainRun`, `CloseEvents`, `Exit` | `stop`, the loop of `run`, its `finally` |
| `SendEvent` | the task of `EventsPublisher` |
| `Crash` | the death of the process |

A store call is one `Transaction` with three outcomes: it commits; it raises and
nothing is written; or the connection breaks after the commit and the caller sees
the same error while the row is written. The second and third are the two ways in
which `DbMgr.transaction` can raise, and the code cannot tell them apart.

### SimulationControl

`SimulationServer` lets a worker that waits look at its flags at any time.
`SimulationControl` shows why it may: `changed` is the `asyncio.Event`, `woken`
says that the future on which the worker sleeps is resolved, `DelayExpires` is the
timer of `asyncio.wait_for`, which may fire in the turn of the loop in which a
request sets the event. `slips` is a history variable that counts the moves played
since the run was asked to halt. The abstract module `Checkpoint` has the same
flags and program counter but no event: the worker may look whenever the flags
call for something else than its wait, and must do so in the end. Both begin in
`setup`, the awaits of `Simulator.run` before its first `checkpoint`, in which requests
may come already: `SetupEnds`.

### SnakeGame

The snake is one sequence (`snake_head` before `snake_body`), a cell is a pair. A
step is one of five disjoint actions, in the order of the tests of
`GameRules.step`: `RunOut`, `HitWall`, `HitSnake`, `Eat`, `Glide`. Any free cell
may become the food. `Reset` may come at any time, as in the code.

### ReplayMemory

What a frame contains is left out: an episode is an identity and a size, a window
is the identity of its episode and its first frame. `_finalize_episode` is one
action, evictions and the rebuilt index included; `Located` is the bisection. The module has no
next-state relation of its own: `Simulator` is what calls it.

### Simulator

`place` is where `run` is: `between` two episodes, `playing`, `over` (the last move is
made, the episode not recorded yet), `left`. `Step` is one pass of the loop of
`_run_episode`, with the transition given to the memory; the game is any sequence of
moves that end or do not, eat or do not (`SnakeGame` has its rules). `EndEpisode` is
what follows the loop, in the order of the code: `Train` draws a batch if the memory
has windows enough, the result is made, epsilon advances, the game is captured, and
`record` raises the totals. Probabilities are integers: with `Scale` for 1 a random
action is certain, with 0 impossible, between them possible (`MayInject`), and a decay is
the division by a whole number, rounded down. `games` is
history.

### TelemetryPublisher

A message is its topic and the number of its offer. `Offer` is `offer_run`,
`offer_episode` or `offer_frame` with the overflow of `_offer_event`; `TakeEvent`
runs from `queue.get` to the await of `_send`, with the second look at the interest
and the numbering; `SendEvent` ends that await. `Subscribe` and `Unsubscribe` are
external: what viewers do, and the notices XPUB makes of it; `ReadNotice` is a
round of `_subscription_loop`. `SendFails` and `ReadFails` end a task, which
`Check` (the service loop) finds; `Leave` and `Close` are the shutdown. `published`
and `offers` are history. After `Close` nothing is offered, because the server
closes the publisher last.

### ClientControls

A handler of the Textual application is an action; between two of them the terminal's
loop may run any other. What is on its way is explicit: `telemetry` from the server,
`calls` and `answer` over `AsyncLabClient`'s lock, `results` (the `ControlResult`
messages that the control task posts), `changes` (the `Changed` events of the delay
selection, also of assignments made by the program itself), and `task`, the control
task that is created and not started. `SeeRun` is `on_telemetry_received` of a run
message, `OnControlResult` the handler of an answer, `CloseDialog` the confirmation of
a cancellation, `OnSelectChanged` the echo of the selection. The server handles requests
as `SimulationServer` does, in any order with what it publishes by itself; a request
may time out and still be handled later (`abandoned`). `clock`, `seen`, `lost` and
`overtaken` are history.

### AsyncLabClient

A request is known by its task. `waiters` and `lock` are the `asyncio.Lock`, `sockets`
the REQ sockets that are open, `unsent` those whose request has not left the client:
`LINGER` 0 drops it when the socket closes. `called`, the order of the calls, is
history. `Leave` is the way out of a call with its `finally` clause. `Deliver`, `Handle`, `Stop` and `Start` are the line and the server,
`Unmount`, `Cancel` and `Terminate` the end of the program.

### DbMgr

`place` is where the transaction of the thread that holds `_lock` is. `Enter` takes the
lock and the flag; `Begin`, `Reconnect` and `Retry` are the two attempts at `BEGIN`;
`Execute` an operation of the body; `Misuse` a transaction or a close inside a
transaction; `Commit` and `Rollback` the ends. `open` is what the database holds of the
transaction: it forgets it when the connection dies and commits it when another one is
begun. `Lose`, and the failing variants of the other actions, use up `MaxFaults`.
`StoreCalls` is what the three outcomes of `Transaction` in `SimulationServer` assume.

### Configuration

A JSON document is a function of its places: a place is the sequence of the keys that lead
to it, its value `Section` for an object, or a type and a number of ten-thousandths. What
the code does by recursion into objects is said of all places at once: a value of the
target survives the merge unless something above it is replaced by what is no object.
`Rules` are the rules of `simulation-config-v2.schema.json` with their defaults and bounds,
`Place` where its sections are. `Resolve` is the merge into the defaults of the cached
template and all checks, `Start` the constructors that the worker calls with the result.
`Legal` is the reference definition, without defaults or merge. What is submitted is the
constant `Documents`, any documents at all for the proofs; `MCConfiguration` has those of
the run.

## 3. The runs

| run | instance | states | shows |
| --- | --- | --- | --- |
| `SimulationServer` | 2 runs of 2 episodes; 1 failing store call, 1 exception of the simulation, 1 death of the process; the run ids are symmetric | 1.4 million | the safety properties and the refinement of `RunLifecycle` |
| `SimulationServerLive` | 2 runs of 1 episode; 1 failing store call | 216,000 | the liveness properties |
| `SimulationControl` | delays 0, 20 and 40 ms | 909 | no lost wakeup, at most one slip, the refinement of `Checkpoint` with its fairness |
| `SnakeGame` | every game on 3 by 3 cells from a snake of 2, limit 3 moves per cell | 23,000 | the snake, its food and its score fit together; a game ends |
| `Simulator` | 3 games of up to 3 moves, 4 schedules; a memory of 5 frames, windows of 2, batches of 2 | 1.3 million | best game, episodes, schedule; counter, evictions, index and batches of the memory |
| `TelemetryPublisher` | a queue of 2, 3 offers, 2 viewers with 3 prefixes and 3 changes, 1 failing socket call | 464,000 | order, numbering, interest, what may be lost |
| `ClientControls` | 2 runs, delays 0 and 20 ms, 2 presses, 3 statuses, 2 messages on the line; started before any run, or beside one that runs or is being cancelled | 698,000 | the buttons, the view at rest, buttons that come back |
| `AsyncLabClient` | 3 calls, a server that stops once, an end at any moment | 51,000 | whose answer, in what order, what is given up, nothing hangs |
| `DbMgr` | 2 threads, 3 units of 2 statements, 3 faults | 6,700 | all or nothing, the session, the refinement of `StoreCalls`, units end |
| `Configuration` | one override at any place, or two at chosen places, one document after the other | 4,200 | what is accepted, what it means, that it can be played |
| `CancelLate` | 1 run of 1 episode, nothing fails | - | a violation, see below |
| `CancelOther` | 2 runs, 1 press, 4 statuses | - | a violation, see below |

Why the bounds are enough. Two runs make a queue behind a running one, a run
cancelled while it waits, and a submission after both have ended; no action
relates more than two runs. Two episodes put a checkpoint between episodes and
make `completed_epochs` differ from both 0 and its limit. One fault, one error and
one crash meet each other in one behaviour (a completion whose acknowledgement is
lost, then a death, then a restart); that more of them change nothing is the
subject of the proofs for the properties that have one. Where the runs are
symmetric, only safety is checked; the liveness run uses no symmetry. On a board of
3 by 3 a snake can fill the board, can bite itself and can run out of moves. Three
games of one to three moves in a memory of five frames push out one or two others, and
leave one or two games to draw from; a longer game than the memory, which would push
out itself, is not in the instance, but in the proof. Three games also make a tie of the best with a worse
game between. Three offers
overflow a queue of two, and three changes end one of two overlapping filters.

In the client, two runs and three statuses are what it takes to show one run, see
another begin, and have an answer about the first arrive after it; two presses are a
request and another while it is under way. Three calls are one that holds the lock, one
that waits and one that overtakes. Three faults meet in one unit (a lost connection,
a failed reconnection, a refused statement) or in three; three units put a good one
between two that fail.

`CHECK_DEADLOCK FALSE` is set where a system may stop: a run, a game's memory, a
publisher that is closed, calls and units that are made once, and a client whose user
and server have used up their budgets.

What the properties say of the server:

- `PersistedBeforeEvent`, `AtMostOneEnded`, `OutcomeIsFinal`: an outcome is stored,
  then announced, once, and for ever. The one exception, also in `RunLifecycle`
  (`Revise`): when the acknowledgement of "completed" is lost, the worker stores
  "failed" over it. No event can have been sent in between.
- `AnswersAreTrue` (`StoreMirrorsMemory`, `ActiveIsNext`, `FlagsAgree`): whenever a
  client can ask, memory and store agree, discovery names the run the worker executes or
  takes next, and the state on show is what the flags tell the worker: a paused run is
  held, a running one is not, a run that is cancelling has been asked to stop. The first part says nothing of a server that is about to leave its loop, in which a failed
  store call may have put memory ahead of the store.
- `StoreIsWhole` (`NoOrphans`, `CompletedIsWhole`): each unfinished run of the store is
  in the worker's hands or queue; a completed run has all its episodes, its snapshot and
  its boards; no other run has a snapshot. Boards alone may stay under a failed run: when
  the acknowledgement of "completed" is lost, `SnakeDb.finish_run` clears the snapshot of
  the row it revises and leaves the rows of `simulation_high_score_frames`. A run that failed while an episode was stored may count one episode more
  than it has rows, because `update_progress` counts before it stores; the property
  states this exactly.
- `CleanStop`: a stop leaves nothing open and nothing unannounced.
- `CancellingEnds`, `StopEnds`, `QueuedEndsAnnounced`: a cancellation is served, a
  stop ends the process, a queued run is served, stored and announced.

And of the other parts:

- `BoardIsSound`, `MovesAreBounded`, `GamesEnd`: what a move shows is a board of the
  game, and no game outlasts its limit. `ShortSnakesDoNotBite` is the part that a
  collision test which counts the leaving tail would break.
- `BestGameIsKept`, `ResultsAreOfTheirGame`, `EpsilonIsScheduled`: each compares what
  the loop has accumulated with a definition over the whole history of games.
- `MemoryIsExact`, `BatchesAreStored`: the memory is the longest run of latest games
  that fits, its counter and its index are true, and batches lie inside its games.
- `QueueIsNewest`, `SentAsOffered`, `InterestIsKnown`, `NothingIsLost`: the oldest
  message goes first, numbers have no gaps, frames are made exactly if somebody's filter
  matches, and the latest state is sent.
- `ViewIsTrueAtRest`: once nothing is under way, the view is what the server says,
  except where a message was lost, the discovery of a run given up, or an answer shown that
  telemetry had overtaken: the code orders neither against the other, so the property
  names these cases.
  `ControlsAreSound` and `ControlsComeBack`: at most one request of the user's is under
  way, the buttons are those of the state and the lock of now, and no failure leaves
  them locked.
- `AnswersFit`, `GivenUpIsGone`, `NothingHangs`: a late answer reaches nobody, requests
  are handled in the order of their calls and each after the one before has returned,
  unless they were given up, and one that was given up before it reached
  a server is not handled by the next one.
- `AllOrNothing`, `SessionIsSound`, `UnitsEnd` and the refinement of `StoreCalls`: a unit
  is stored whole or not at all, and stored if it is told so; nothing is left open for the next `BEGIN` to commit,
  the lock comes back.
- `AcceptedIsLegal`, `AcceptedIntegersPlay`: a partial document is accepted exactly when
  each of its values is legal at its place, and means its own values and the defaults,
  whatever was submitted before; with integers written as integers it can be played.
  JSON Schema counts 24.0 as an integer, the constructors do not: such a document is
  accepted and its run fails when the worker starts it. The property leaves this case
  out by name.

### What the violations show

- `CancelLate`: `pages/control-protocol.md` says that cancelled active work
  "later reaches `cancelled`". A cancellation that arrives in the sleep after the
  last move of the last episode, or after its delay has expired, is confirmed as
  `cancelling`, and no checkpoint follows that would read it: the run becomes
  `completed`. `CancellingEnds` (the run ends) does hold.
- `CancelOther`: `_cancel_confirmed` is told yes or no, not which run the dialog named
  (`client/__init__.py:662`). When that run ends and telemetry makes the next one the
  run on show while the dialog is open, the confirmation cancels the next one.

Two more disagreements were met and have no run. The schema gives `epochs` no minimum,
so a run of no episodes completes without the board that `pages/developer.md` promises.
And the delay selection's own `Changed` event, when two statuses with different delays
come close together, makes the client send a `set_move_delay` that nobody picked
(`client/__init__.py:690`; the echo is in `ClientControls`).

## 4. Fairness

- `WF(Worker)`, `WF(SendEvent)`, `WF(ServiceLoop)`, `WF(Shutdown)`: the event loop
  runs each task that is ready, and the poll of the service loop returns after
  500 ms at most. Requests, `Stop`, `Start`, `Crash` and faults are under no
  fairness: clients owe the server nothing.
- `SF(PlayLastMove)`: an episode does not go on for ever. The worker chooses between
  another move and the last one; the game decides, and `SnakeGame` shows that it
  ends each game (`MovesAreBounded`, `GamesEnd`). Strong, because the choice is
  disabled while the worker waits in a checkpoint.
- `SF(DelayExpires)` in `SimulationControl`: each change of the delay starts the
  wait anew, and a client that changed it for ever faster than it runs out would hold the
  run back: the code allows it, the model assumes that it ends. A cancellation does not
  need this, because a run that is cancelling takes no change of its delay.
- `PausesEnd` is an assumption of `QueuedEndsAnnounced` alone: behind a run that is
  never resumed the queue stands still, as it is meant to.
- `WF(TakeEvent)`, `WF(SendEvent)`, `WF(Check)`, `WF(Close)` in `TelemetryPublisher`: the
  event loop and the service loop again. Nothing is assumed of the subscriptions.
- `WF(Step)` in `SnakeGame`: the simulation plays its game on.
- `WF(TimeOut)`, `WF(OnControlResult)`, `WF(StartTask)` in `ClientControls`: timers expire and
  the client's loop runs its handlers. Nothing is assumed of the server or the line.
- `WF(Send)`, `WF(Terminate)`, and `WF(Receive or TimeOut)` and `WF(Cancel)` of each task in
  `AsyncLabClient`: the same; the server may never answer.
- `WF` of `Begin`, `Reconnect`, `Retry`, `Execute`, `Commit` and `Rollback` in `DbMgr`: a
  thread goes on, and a call to the database returns or raises. The failing variants
  are actions of their own, under no fairness.

## 5. The proofs

TLAPS checks every theorem for all values of the constants: any set of runs, tasks,
threads or viewers, any number of epochs, faults, errors and crashes, a grid, a queue
or a game of any size. Nothing is assumed but the `ASSUME` of each module (`NoRun` is not a
run, bounds are naturals, a snake fits its grid), which TLC evaluates on every run.
A module's invariant was checked by TLC on its run before it was proved; it is proved
initial, preserved by each action in a lemma of its own, and the theorems follow.

**SimulationServerProofs.** `PersistedBeforeEvent` and `AtMostOneEnded` are not
inductive: a step that stores an outcome for a run keeps them only if that run has
no event yet. `IInv` adds why this is so:

- `WorkerPlace`: the worker has a run exactly while it is inside one, and holds the
  thread only while the server serves;
- `CurrentIsLive`: the run in its hands has ended neither in memory nor in the
  store, but for a completion that could not be confirmed;
- `QueueWaits`: a queued run is there once, is not the current one, and is queued
  or cancelled: the test of `TakeRun` and `DrainRun` for `cancelled` is enough;
- `StoreKnows`: a run that memory calls unfinished is unfinished in the store;
- `EndedIsOver`: a run with an event is in nobody's hands and not unfinished;
- `NothingRemembered`: a process that is not there has no runs, so that recovery
  touches no run of a live one.

The lemmas `Writes`, `EventsKept` and `Finishes` are the facts about a transaction that
the actions share. `TypeCorrect`, `EventsArePersisted` and `EndsAreAnnouncedOnce` follow.
`OutcomesAreFinal` needs one more fact per step, what it may do to a terminal row;
`KeepsThePromise` reuses it to map each step to a step of `RunLifecycle` or to a
stutter, with the events that have been sent as the abstract `announced`.

The second invariant, `JInv`, stands on the first and is about memory and store. Of each
run (`RunIsSound`) it says what the two count while the worker has it (`Counted`), where
it is (`Placed`), that they agree unless an error has yet to be recorded (`Mirrored`),
and that what the store calls unfinished is in somebody's hands (`InHand`); of the
worker, how far its place says it is (`Progress`); of a shutdown, what has been emptied
and announced by then (`Emptied`, `Announced`); of the dict and the queue, that they are
in one order (`Listed`). The third, `FlagsAgree`, is inductive given
`IInv`: each step that changes the state of a run has just set, or tested, its flags. `TheAnswersAreTrue`, `TheStoreIsWhole` and `StopsCleanly` follow.

`RunsFollowCheckpoint` joins the two levels of the model. It sees the run in the worker's
hands as a `Checkpoint`, with the flags of that run: the run begins as `Checkpoint` does
(this needs `FlagsAgree`: no run is paused, or asked to stop, before it is taken), and each step
of the server is a step of `Checkpoint` or one the run does not see, until the run is
left: it is cancelled at a checkpoint, returns or raises, or the server stops. So what
`SimulationControl` is proved to implement is what the server's worker uses.

**SimulationControlProofs.** `NoWakeupIsLost` is inductive
together with the types: each request sets the event after it writes, and the
worker clears it before it reads. `HaltsAfterOneMove` needs `SlipIsSpent`: once a
move has slipped, no expired delay is left that could let another one through.
`StepsOfCheckpoint` maps every step to `Checkpoint`, the safety part of
`ImplementsCheckpoint`.

**DbMgrProofs.** What the database has open is always the first statements of the
unit that holds the lock (`OpenIsExecuted`, `NothingYet`), the lock is held exactly
inside a unit (`HolderIsInside`), and nothing of a unit is stored before its end
(`StoredWhenOver`). With these `SessionIsSound` and `AllOrNothing` are inductive, and each
step is one of `StoreCalls` or a stutter, with the whole units as its `stored`.

**AsyncLabClientProofs.** A request is in one place of its way: unsent, in the inbox, or
handled (`OnTheWay`), its call alone holds lock and socket (`OneAtATime`), and an answer
comes from what was handled (`AnswersAreEarned`). The order of the calls (`called`) is the
subject of a second invariant, `TInv`: those who wait do so in the order in which they
called, and after all who have been let in (`TurnsAreTaken`).

**TelemetryPublisherProofs.** `OlderHasLeft` and `SendingIsBetween` order what is sent,
what is being sent and what is queued; `NumbersAreCounted` ties the counter of a topic to
the number of its messages; `NoticesTellAll` says what the filters become when the pending
notices are read, and that this is what viewers want. `NothingIsGivenUpEarly` is the
safety half of `NothingIsLost`.

**ConfiguredGameProofs.** Of a submission, `ConfigInv` says that the template stays the
schema, and of each state what the check of the document came to. The rest is about
documents, and about any of them: a legal one replaces no section, so the places stay those
of the schema (`LegalMerge`), and one that merges into something valid is legal itself
(`MergedIsLegal`); a valid configuration has its values between the bounds of the schema
(`ValuesOfSections` and its instances), and these are inside the bounds of every constructor
(`IntegersPlay`). The proof shows one thing that the code does not say: with this schema
the checks between fields can refuse nothing (`RulesBetweenFieldsHold`), they matter only
to a schema whose bounds overlap. `ConfigurationAssumption` asks of `Big`, which stands for
no bound, that it is beyond the default of the seed.

Of a game, `BoardIsSound` and `MovesAreBounded` are inductive together, as they
stand. The proofs are about paths: what a new head, a snake that glides and one that grows
keep of a path, that the moves of a path which comes back to its head take five cells
(`BiteTakesFive`), and that a path has no more cells than the board (`PathFits`).

**ClientControlsProofs.** For the buttons, `BusyIsOneRequest` counts the user's requests
wherever they are: in the task, among the calls and among the results; each handler takes
one and puts one. For the view a second invariant is needed, since what it shows
is made good by what is under way: `Sound` says of the telemetry that the last word about
a run is the truth, that a frame is followed by the word of its run's end, and that word
of another run is followed by the start of the live one; `ResponsesAreFresh` that an
answer which is out of date has been passed, or newer word of its run is on its way;
`LiveIsFollowed` and `ShownIsTrue` that the view shows the truth or will be told.

**SimulatorProofs.** `Total` and `Power` are recursive functions: that they exist and
satisfy their equations is proved by least counterexample (`RecursionExists`,
`RecursionIsUnique`). `EInv` is `EpsilonIsScheduled` with its types, and the step needs that
to divide twice is to divide by the product. `IInv` says what a game in progress looks
like and that the board kept is its first best one (`GamesArePlayed`), of which game the
kept frames are (`IsKept`), and what was reported (`AreReported`). `BInv` has the bounds.

The memory has an invariant of its own, `MInv`: the sizes of its episodes are those of
the games from one on, with the counter their sum (`HoldsLatest`), an identity goes with
the age of its episode (`HasIdsByAge`), and the index is made of just these episodes
(`IndexFits`). `PartSplits` says that a sum is the sum of its two parts; with it an end of
an episode keeps `HoldsLatest`, however many games it evicts (`EvictionKeepsLatest`). No two
episodes share an identity, because each has a frame at least and there are no more than
`max_frames` (`HeldAreFew`). The sums of the index grow with every episode (`BeforeGrows`),
so the bisection finds the one owner of a number (`BisectionFindsOwner`): `Located` is
one to one (`LocatedIsStored`) and onto (`StoredIsLocated`), from which both the exact index and
the size of a batch follow.

**Only model-checked.** Liveness, and with it the fairness of `Checkpoint`, is out of the
prover's reach: `CancellingEnds`, `StopEnds`, `QueuedEndsAnnounced`, `CancelServed`,
`GamesEnd`, `LatestIsSent` (the other half of `NothingIsLost`), `ControlsComeBack`,
`NothingHangs`, `UnitsEnd`.

## 6. Limits of the models

- In `SimulationServer` a store call is atomic for its caller, because it is: `DbMgr`
  blocks the event loop. What it may assume of the call is `StoreCalls`, and `DbMgr`
  shows it. Of `SnakeDb` the read methods and the deletion of the benchmark tool are
  not modelled.
- `MemorySimulationStore` is a store that never fails. Only a failing call would show
  where it differs: it drops the boards of a completion that is revised, `SnakeDb` does not.
- A body of a transaction lets an error of its statements propagate, as all of `SnakeDb`'s
  do: `DbMgr.transaction` would commit what is left of one that caught it and went on.
- A snake has two cells at least: `SnakeGame.__init__` takes one of a single cell, which
  `GameRules.step` gives a second one with its first move, but no accepted configuration has
  it (`AcceptedGamesAreAssumed`).
- The result of `asyncio.wait_for` is that of Python 3.12 and later; the version
  before it could lose a cancellation of the task that raced the result.
- ZeroMQ is a channel that accepts what is sent; what the network then loses is
  outside the publishers and inside `ClientControls`. A send that raises is modelled in
  `TelemetryPublisher`, not in the events task.
- `TelemetryPublisher` stands alone: its offers come in any order, more than the
  server makes.
- `Simulator` plays abstract games and `SnakeGame` real ones: nothing in the loop
  depends on the rules but the moves, the score and the end of a game.
- Of the client the display is not modelled (board, records, plots, configuration
  panel, the sequence gaps in the log); nothing of it is sent back to the server.
- `PROJECT.json` gives the reason for each part that is left out.

## 7. The plan

What is left, in order of what it adds:

1. The reads of `SnakeDb` and `MemorySimulationStore` as two implementations of one
   store; the failing send of the events task; the display of the client.
