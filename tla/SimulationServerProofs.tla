----------------------- MODULE SimulationServerProofs -----------------------
(***************************************************************************)
(* Theorems about SimulationServer, for any set of runs, any number of      *)
(* episodes and any number of faults, errors and crashes.                   *)
(***************************************************************************)
EXTENDS SimulationServer, SequenceTheorems, WellFoundedInduction, TLAPS

\* No run is named like None.
LEMMA NoRunIsNoRun == NoRun \notin Runs
BY ConstantsAssumption

-----------------------------------------------------------------------------
(* The inductive invariant: why nothing that has been announced is ever     *)
(* announced, or stored, again.                                             *)

NoCurrent == {"none", "dead", "idle", "taking"}

\* The worker has a run exactly where its code does, and holds the thread only
\* while the server serves.
WorkerPlace ==
    /\ pc \in NoCurrent <=> current = NoRun
    /\ phase \notin Serving => pc \notin Holding

\* The run in the worker's hands has not ended, neither in memory nor in the
\* store, but for a completion that could not be confirmed.
CurrentIsLive ==
    current # NoRun =>
      /\ state[current] \in Active \/ (pc = "raised" /\ state[current] = "completed")
      /\ db[current].status \in Unfinished \/ (pc = "raised" /\ db[current].status = "completed")

\* A run in the queue waits there once, and either waits or was cancelled.
QueueWaits ==
    /\ \A i \in 1..Len(run_queue) :
         /\ run_queue[i] # current
         /\ state[run_queue[i]] \in {"queued", "cancelled"}
    /\ \A i, j \in 1..Len(run_queue) : run_queue[i] = run_queue[j] => i = j

\* The store knows every run of this process, and holds as unfinished every run
\* that memory does.
StoreKnows ==
    \A r \in Runs :
      /\ state[r] # "absent" => db[r].status # "absent"
      /\ state[r] \in Unfinished /\ r # current => db[r].status \in Unfinished

\* A run with an ended event is in nobody's hands.
EndedIsOver ==
    \A i \in 1..Len(ended) : ended[i].run # current /\ state[ended[i].run] \notin Unfinished

\* A process that is not there remembers nothing.
Nobody == {"down", "stopped"}
NothingRemembered ==
    phase \in Nobody => current = NoRun /\ \A r \in Runs : state[r] = "absent"

IInv ==
    /\ TypeOK
    /\ NothingRemembered
    /\ WorkerPlace
    /\ CurrentIsLive
    /\ QueueWaits
    /\ StoreKnows
    /\ EndedIsOver
    /\ PersistedBeforeEvent
    /\ AtMostOneEnded
-----------------------------------------------------------------------------
(* Lemmas about the data: sequences, rows and transactions.                 *)

\* What the type invariant says of the elements of the two sequences.
LEMMA Elements ==
  ASSUME TypeOK
  PROVE  /\ Len(ended) \in Nat /\ Len(run_queue) \in Nat
         /\ \A i \in 1..Len(ended) : ended[i].run \in Runs /\ ended[i].state \in Terminal
         /\ \A i \in 1..Len(run_queue) : run_queue[i] \in Runs
<1>1. ended \in Seq(Event) /\ run_queue \in Seq(Runs)
  BY DEF TypeOK
<1>2. \A i \in 1..Len(ended) : ended[i] \in Event
  BY <1>1, ElementOfSeq
<1>3. \A i \in 1..Len(run_queue) : run_queue[i] \in Runs
  BY <1>1, ElementOfSeq
<1> QED BY <1>1, <1>2, <1>3, LenProperties DEF Event

\* Rows stay rows under the updates of the store.
LEMMA StatusUpdate ==
  ASSUME NEW d \in Row, NEW s \in States
  PROVE  [d EXCEPT !.status = s] \in Row /\ [d EXCEPT !.status = s].status = s
  BY DEF Row

LEMMA EpisodeUpdate ==
  ASSUME NEW d \in Row, NEW n \in Nat
  PROVE  /\ [d EXCEPT !.rows = @ + 1, !.episode_count = n] \in Row
         /\ [d EXCEPT !.rows = @ + 1, !.episode_count = n].status = d.status
<1> DEFINE m == d.rows + 1
<1>1. m \in Nat
  BY DEF Row
<1> HIDE DEF m
<1>2. [d EXCEPT !.rows = m, !.episode_count = n] \in Row
  BY <1>1 DEF Row
<1>3. [d EXCEPT !.rows = m, !.episode_count = n].status = d.status
  BY DEF Row
<1> QED BY <1>2, <1>3 DEF m

\* A transaction writes the row of one run, or nothing.
LEMMA Writes ==
  ASSUME TypeOK, NEW r \in Runs, NEW row \in Row, NEW outcome \in Outcomes,
         Transaction(outcome, r, row)
  PROVE  /\ db' \in [Runs -> Row] /\ faults' \in 0..MaxFaults
         /\ \A q \in Runs : q # r => db'[q] = db[q]
         /\ db'[r] = db[r] \/ db'[r] = row
         /\ outcome = "ok" => db'[r] = row
  BY ConstantsAssumption DEF TypeOK, Transaction, Outcomes

\* What finish_run makes of a row.
LEMMA Results ==
  ASSUME NEW r \in Runs, NEW s \in States, db[r] \in Row, completed_epochs[r] \in Nat
  PROVE  /\ Result(r, s) \in Row
         /\ Result(r, s).status = s
         /\ Result(r, s).rows = db[r].rows
         /\ Result(r, s).episode_count = completed_epochs[r]
         /\ Result(r, s).snapshot <=> s = "completed" /\ completed_epochs[r] > 0
         /\ Result(r, s).frames <=>
              IF s = "completed" THEN completed_epochs[r] > 0 ELSE db[r].frames
<1> DEFINE n == completed_epochs[r]
           b == s = "completed" /\ n > 0
           f == IF s = "completed" THEN n > 0 ELSE db[r].frames
           row == [db[r] EXCEPT !.status = s, !.episode_count = n, !.snapshot = b, !.frames = f]
<1>1. n \in Nat /\ b \in BOOLEAN /\ f \in BOOLEAN
  <2>1. db[r].frames \in BOOLEAN /\ (n > 0) \in BOOLEAN
    BY DEF Row
  <2> QED BY <2>1, Zenon
<1>2. Result(r, s) = row
  BY DEF Result
<1> HIDE DEF n, b, f
<1>3. /\ row \in Row /\ row.status = s /\ row.rows = db[r].rows
      /\ row.episode_count = n /\ row.snapshot = b /\ row.frames = f
  BY <1>1 DEF Row
<1> HIDE DEF row
<1> QED BY <1>2, <1>3 DEF n, b, f

\* Events that stay what they were, about runs whose record stays what it was.
LEMMA EventsKept ==
  ASSUME TypeOK, PersistedBeforeEvent, AtMostOneEnded,
         ended' = ended,
         \A i \in 1..Len(ended) : db'[ended[i].run] = db[ended[i].run]
  PROVE  PersistedBeforeEvent' /\ AtMostOneEnded'
  BY Elements DEF PersistedBeforeEvent, AtMostOneEnded

\* Finishing a run that has no event gives it at most one, which the store
\* confirms.
LEMMA Finishes ==
  ASSUME TypeOK, PersistedBeforeEvent, AtMostOneEnded,
         NEW r \in Runs, NEW s \in Terminal, NEW outcome \in Outcomes,
         FinishRun(r, s, outcome),
         \A i \in 1..Len(ended) : ended[i].run # r
  PROVE  /\ db' \in [Runs -> Row] /\ faults' \in 0..MaxFaults
         /\ ended' \in Seq(Event) /\ Len(ended') \in Nat /\ Len(ended) <= Len(ended')
         /\ \A q \in Runs : q # r => db'[q] = db[q]
         /\ db'[r].status \in {db[r].status, s}
         /\ \A i \in 1..Len(ended') :
              \/ ended'[i].run = r /\ outcome = "ok"
              \/ \E j \in 1..Len(ended) : ended'[i] = ended[j]
         /\ PersistedBeforeEvent' /\ AtMostOneEnded'
<1> DEFINE row == Result(r, s)
           e == [run |-> r, state |-> s]
<1>1. row \in Row /\ row.status = s
  BY Results DEF TypeOK, States
<1>2. Transaction(outcome, r, row)
  BY DEF FinishRun
<1> HIDE DEF row
<1>3. /\ db' \in [Runs -> Row] /\ faults' \in 0..MaxFaults
      /\ \A q \in Runs : q # r => db'[q] = db[q]
      /\ db'[r] = db[r] \/ db'[r] = row
      /\ outcome = "ok" => db'[r] = row
  BY <1>1, <1>2, Writes
<1>4. CASE outcome # "ok"
  <2>1. ended' = ended
    BY <1>4 DEF FinishRun
  <2>2. \A i \in 1..Len(ended) : db'[ended[i].run] = db[ended[i].run]
    BY <1>3, Elements
  <2>3. PersistedBeforeEvent' /\ AtMostOneEnded'
    BY <2>1, <2>2, EventsKept
  <2> QED BY <1>1, <1>3, <2>1, <2>3, Elements DEF TypeOK
<1>5. CASE outcome = "ok"
  <2>1. ended' = Append(ended, e)
    BY <1>5 DEF FinishRun
  <2>2. e \in Event /\ e.run = r /\ e.state = s
    BY DEF Event
  <2> HIDE DEF e
  <2>3. ended \in Seq(Event)
    BY DEF TypeOK
  <2>4. /\ ended' \in Seq(Event) /\ Len(ended') = Len(ended) + 1
        /\ \A i \in 1..Len(ended) : ended'[i] = ended[i]
        /\ ended'[Len(ended) + 1] = e
    BY <2>1, <2>2, <2>3
  <2>5. \A i \in 1..Len(ended') : i \in 1..Len(ended) \/ i = Len(ended) + 1
    BY <2>4, Elements
  <2>6. db'[r].status = s
    BY <1>1, <1>3, <1>5
  <2>7. \A i \in 1..Len(ended) : db'[ended[i].run] = db[ended[i].run]
    BY <1>3, Elements
  <2>8. PersistedBeforeEvent'
    BY <2>2, <2>4, <2>5, <2>6, <2>7 DEF PersistedBeforeEvent
  <2>9. AtMostOneEnded'
    BY <2>2, <2>4, <2>5 DEF AtMostOneEnded
  <2> QED BY <1>3, <1>5, <2>2, <2>4, <2>5, <2>6, <2>8, <2>9, Elements
<1> QED BY <1>4, <1>5

-----------------------------------------------------------------------------
(* Steps that end no run.                                                   *)

\* A step that changes neither the runs nor what is known of them.
LEMMA Quiet ==
  ASSUME IInv, UNCHANGED <<state, db, ended, run_queue, current>>,
         TypeOK', WorkerPlace', pc = "raised" => pc' = "raised", phase' \notin Nobody
  PROVE  IInv'
  BY DEF IInv, NothingRemembered, CurrentIsLive, QueueWaits, StoreKnows, EndedIsOver,
         PersistedBeforeEvent, AtMostOneEnded

\* The steps of the worker between its store calls only move its pc.
LEMMA WorkerMovesInv ==
  ASSUME IInv, FinishSetup \/ CheckFlags \/ DelayExpires \/ NextEpisode \/ PlayMove
               \/ PlayLastMove \/ SimulationFails \/ AwaitRun
  PROVE  IInv'
<1>1. UNCHANGED <<state, db, ended, run_queue, current, runs, completed_epochs, control,
                  phase, stop_event, sent, faults, crashes>>
  BY DEF FinishSetup, CheckFlags, DelayExpires, NextEpisode, PlayMove, PlayLastMove,
         SimulationFails, AwaitRun, WorkerMoves, bounds
<1>2. phase \in Serving /\ pc \in Tasks \ {"none", "dead", "idle", "raised"}
  BY DEF FinishSetup, CheckFlags, DelayExpires, NextEpisode, PlayMove, PlayLastMove,
         SimulationFails, AwaitRun, CanWork, AtLoopTop, Returns, Tasks, Holding, Waiting
<1>3. pc' \in Tasks /\ at' \in {"start", "move", "gap"} /\ errors' \in 0..MaxErrors
  BY ConstantsAssumption
     DEF IInv, TypeOK, FinishSetup, CheckFlags, DelayExpires, NextEpisode, PlayMove,
         PlayLastMove, SimulationFails, AwaitRun, WorkerMoves, Tasks, Holding, Waiting, bounds
<1>4. (pc = "taking" /\ pc' = "idle") \/ (pc \notin NoCurrent /\ pc' \notin NoCurrent)
  <2>1. CASE AwaitRun
    BY <2>1 DEF AwaitRun
  <2>2. CASE FinishSetup
    BY <2>2 DEF FinishSetup, WorkerMoves, NoCurrent
  <2>3. CASE CheckFlags
    BY <2>3 DEF CheckFlags, AtLoopTop, WorkerMoves, NoCurrent
  <2>4. CASE DelayExpires \/ NextEpisode \/ PlayMove \/ PlayLastMove \/ SimulationFails
    BY <2>4 DEF DelayExpires, NextEpisode, PlayMove, PlayLastMove, SimulationFails,
                Returns, WorkerMoves, NoCurrent
  <2> QED BY <2>1, <2>2, <2>3, <2>4
<1>5. TypeOK'
  BY <1>1, <1>3 DEF IInv, TypeOK
<1>6. WorkerPlace'
  BY <1>1, <1>2, <1>4 DEF IInv, WorkerPlace, NoCurrent
<1>7. phase' \notin Nobody
  BY <1>1, <1>2 DEF Serving, Nobody
<1> QED BY <1>1, <1>2, <1>5, <1>6, <1>7, Quiet

\* Requests that change no status.
LEMMA SetMoveDelayInv ==
  ASSUME IInv, NEW r \in Runs, SetMoveDelay(r)
  PROVE  IInv'
<1>1. UNCHANGED <<runs, state, completed_epochs, run_queue, pc, at, current,
                  db, ended, sent, bounds>>
  BY DEF SetMoveDelay
<1>2. control' \in [Runs -> Controls]
  <2>1. control \in [Runs -> Controls]
    BY DEF IInv, TypeOK
  <2>2. PICK delayed \in BOOLEAN : control' = [control EXCEPT ![r].delayed = delayed]
    BY DEF SetMoveDelay
  <2> QED BY <2>1, <2>2 DEF Controls
<1>3. phase = "polling" /\ phase' = "replying" /\ stop_event' = stop_event
  BY DEF SetMoveDelay, CanHandle, Handled, IInv, TypeOK
<1>4. TypeOK'
  BY <1>1, <1>2, <1>3 DEF IInv, TypeOK, bounds, Phases, Serving
<1>5. WorkerPlace'
  BY <1>1, <1>3 DEF IInv, WorkerPlace, Serving
<1> QED BY <1>1, <1>3, <1>4, <1>5, Quiet DEF Nobody

LEMMA InquireInv ==
  ASSUME IInv, Inquire
  PROVE  IInv'
<1>1. UNCHANGED <<memory, ended, sent, errors, crashes>>
  BY DEF Inquire
<1>2. PICK outcome \in {"ok", "rolledBack"}, r \in Runs :
        Transaction(outcome, r, db[r]) /\ Handled(outcome)
  BY DEF Inquire
<1>3. db' = db /\ faults' \in 0..MaxFaults
  BY <1>2, ConstantsAssumption DEF IInv, TypeOK, Transaction
<1>4. phase' \in {"replying", "joining"} /\ stop_event' \in BOOLEAN
  BY <1>2 DEF Handled, IInv, TypeOK
<1>5. pc \notin Holding
  BY DEF Inquire, CanHandle, ThreadFree
<1>6. TypeOK'
  BY <1>1, <1>3, <1>4 DEF IInv, TypeOK, memory, Phases, Serving
<1>7. WorkerPlace'
  BY <1>1, <1>5 DEF IInv, WorkerPlace, memory
<1> QED BY <1>1, <1>3, <1>4, <1>6, <1>7, Quiet DEF memory, Nobody

\* The service loop, the signal handler and the events task.
LEMMA ServiceInv ==
  ASSUME IInv, Stop \/ ServiceLoop \/ CloseEvents \/ SendEvent
  PROVE  IInv'
<1>1. UNCHANGED <<memory, db, ended, bounds>>
  BY DEF Stop, ServiceLoop, CloseEvents, SendEvent
<1>2. phase' \in Phases /\ stop_event' \in BOOLEAN
  BY DEF IInv, TypeOK, Stop, ServiceLoop, CloseEvents, SendEvent, Phases, Serving
<1>3. sent' \in 0..Len(ended')
  BY <1>1, Elements DEF IInv, TypeOK, Stop, ServiceLoop, CloseEvents, SendEvent
<1>4. TypeOK'
  BY <1>1, <1>2, <1>3 DEF IInv, TypeOK, memory, bounds
<1>5. WorkerPlace'
  <2>1. CASE pc \notin Holding
    BY <1>1, <2>1 DEF IInv, WorkerPlace, memory
  <2>2. CASE pc \in Holding
    BY <1>1, <2>2 DEF IInv, WorkerPlace, memory, Stop, ServiceLoop, CloseEvents, SendEvent,
                      ThreadFree, Serving
  <2> QED BY <2>1, <2>2
<1>6. phase' \notin Nobody
  BY DEF Stop, ServiceLoop, CloseEvents, SendEvent, Serving, Nobody
<1> QED BY <1>1, <1>4, <1>5, <1>6, Quiet DEF memory

\* The transitions between running, paused and cancelling.
LEMMA ChangeStatusInv ==
  ASSUME IInv, NEW r \in Runs, NEW s \in Active,
         CanHandle, state[r] \in {"running", "paused"},
         control' \in [Runs -> Controls], ChangeStatus(r, s)
  PROVE  IInv'
<1>1. /\ state' = [state EXCEPT ![r] = s]
      /\ UNCHANGED <<runs, completed_epochs, run_queue, pc, at, current,
                     ended, sent, errors, crashes>>
  BY DEF ChangeStatus
<1>2. PICK outcome \in Outcomes : Transaction(outcome, r, WithStatus(r, s)) /\ Handled(outcome)
  BY DEF ChangeStatus
<1>3. s \in Unfinished /\ s \in States /\ s \notin {"absent"}
  BY DEF Active, Unfinished, States
<1>4. WithStatus(r, s) \in Row /\ WithStatus(r, s).status = s
  BY <1>3, StatusUpdate DEF WithStatus, IInv, TypeOK
<1>5. /\ db' \in [Runs -> Row] /\ faults' \in 0..MaxFaults
      /\ \A q \in Runs : q # r => db'[q] = db[q]
      /\ db'[r].status \in {db[r].status, s}
  BY <1>2, <1>4, Writes DEF IInv
<1>6. phase' \in {"replying", "joining"} /\ stop_event' \in BOOLEAN
  BY <1>2 DEF Handled, IInv, TypeOK
<1>7. pc \notin Holding
  BY DEF CanHandle, ThreadFree
<1>8. state' \in [Runs -> {"absent"} \union States]
      /\ state'[r] = s /\ \A q \in Runs : q # r => state'[q] = state[q]
  BY <1>1, <1>3 DEF IInv, TypeOK
<1>9. state[r] \in Unfinished
  BY DEF Unfinished
<1>10. \A i \in 1..Len(ended) : ended[i].run \in Runs /\ ended[i].run # r
  BY <1>9, Elements DEF IInv, EndedIsOver
<1>11. TypeOK'
  BY <1>1, <1>5, <1>6, <1>8 DEF IInv, TypeOK, Phases, Serving
<1>12. WorkerPlace'
  BY <1>1, <1>7 DEF IInv, WorkerPlace
<1>13. CurrentIsLive'
  <2>1. CASE current = NoRun
    BY <2>1, <1>1 DEF CurrentIsLive
  <2>2. CASE current \in Runs
    BY <2>2, <1>1, <1>3, <1>5, <1>7, <1>8, NoRunIsNoRun DEF IInv, CurrentIsLive, Holding
  <2> QED BY <2>1, <2>2 DEF IInv, TypeOK
<1>14. QueueWaits'
  <2>1. \A i \in 1..Len(run_queue) : run_queue[i] \in Runs /\ run_queue[i] # r
    BY Elements DEF IInv, QueueWaits
  <2> QED BY <2>1, <1>1, <1>8 DEF IInv, QueueWaits
<1>15. StoreKnows'
  BY <1>1, <1>3, <1>5, <1>8, <1>9 DEF IInv, StoreKnows, Unfinished
<1>16. EndedIsOver'
  BY <1>1, <1>8, <1>10 DEF IInv, EndedIsOver
<1>17. PersistedBeforeEvent' /\ AtMostOneEnded'
  BY <1>1, <1>5, <1>10, EventsKept DEF IInv
<1> QED BY <1>6, <1>11, <1>12, <1>13, <1>14, <1>15, <1>16, <1>17
        DEF IInv, NothingRemembered, Nobody

LEMMA ControlRequestsInv ==
  ASSUME IInv, NEW r \in Runs, Pause(r) \/ Resume(r) \/ CancelActive(r)
  PROVE  IInv'
<1>1. control \in [Runs -> Controls]
  BY DEF IInv, TypeOK
<1>2. CASE Pause(r)
  <2>1. control' \in [Runs -> Controls]
    BY <1>1, <1>2 DEF Pause, Controls
  <2> QED BY <1>2, <2>1, ChangeStatusInv DEF Pause, Active
<1>3. CASE Resume(r)
  <2>1. control' \in [Runs -> Controls]
    BY <1>1, <1>3 DEF Resume, Controls
  <2> QED BY <1>3, <2>1, ChangeStatusInv DEF Resume, Active
<1>4. CASE CancelActive(r)
  <2>1. control' \in [Runs -> Controls]
    BY <1>1, <1>4 DEF CancelActive, Controls
  <2> QED BY <1>4, <2>1, ChangeStatusInv DEF CancelActive, Active
<1> QED BY <1>2, <1>3, <1>4

-----------------------------------------------------------------------------
(* Steps that give a run a place, or take it away.                          *)

LEMMA SubmitInv ==
  ASSUME IInv, NEW r \in Runs, Submit(r)
  PROVE  IInv'
<1> DEFINE row == [AbsentRow EXCEPT !.status = "queued"]
<1>1. PICK outcome \in Outcomes :
        /\ Transaction(outcome, r, row)
        /\ Handled(outcome)
        /\ IF outcome = "ok"
           THEN /\ runs' = Append(runs, r)
                /\ state' = [state EXCEPT ![r] = "queued"]
                /\ run_queue' = Append(run_queue, r)
           ELSE UNCHANGED <<runs, state, run_queue>>
  BY DEF Submit
<1>2. db[r].status = "absent" /\ pc \notin Holding
  BY DEF Submit, CanHandle, ThreadFree
<1>3. UNCHANGED <<completed_epochs, control, pc, at, current, ended, sent, errors, crashes>>
  BY DEF Submit
<1>4. row \in Row /\ row.status = "queued"
  BY DEF AbsentRow, Row, States, Unfinished
<1> HIDE DEF row
<1>5. /\ db' \in [Runs -> Row] /\ faults' \in 0..MaxFaults
      /\ \A q \in Runs : q # r => db'[q] = db[q]
      /\ db'[r] = db[r] \/ db'[r] = row
      /\ outcome = "ok" => db'[r] = row
  BY <1>1, <1>4, Writes DEF IInv
<1>6. phase' \in {"replying", "joining"} /\ stop_event' \in BOOLEAN
  BY <1>1 DEF Handled, IInv, TypeOK
<1>7. state[r] = "absent" /\ r # current
  <2>1. state[r] = "absent"
    BY <1>2 DEF IInv, StoreKnows
  <2> QED BY <2>1, <1>2, NoRunIsNoRun DEF IInv, CurrentIsLive, Active, Unfinished
<1>8. \A i \in 1..Len(ended) : ended[i].run \in Runs /\ ended[i].run # r
  BY <1>2, Elements DEF IInv, PersistedBeforeEvent, Terminal
<1>9. \A i \in 1..Len(run_queue) : run_queue[i] \in Runs /\ run_queue[i] # r
  BY <1>7, Elements DEF IInv, QueueWaits
<1>10. PersistedBeforeEvent' /\ AtMostOneEnded'
  BY <1>3, <1>5, <1>8, EventsKept DEF IInv
<1>11. WorkerPlace'
  BY <1>2, <1>3 DEF IInv, WorkerPlace
<1>12. CASE outcome # "ok"
  <2>1. UNCHANGED <<runs, state, run_queue>>
    BY <1>1, <1>12
  <2>2. TypeOK'
    BY <2>1, <1>3, <1>5, <1>6 DEF IInv, TypeOK, Phases, Serving
  <2>3. CurrentIsLive'
    BY <2>1, <1>3, <1>5, <1>7 DEF IInv, TypeOK, CurrentIsLive
  <2>4. QueueWaits' /\ EndedIsOver'
    BY <2>1, <1>3 DEF IInv, QueueWaits, EndedIsOver
  <2>5. StoreKnows'
    BY <2>1, <1>3, <1>4, <1>5, <1>7 DEF IInv, StoreKnows, Unfinished
  <2> QED BY <2>2, <2>3, <2>4, <2>5, <1>6, <1>10, <1>11 DEF IInv, NothingRemembered, Nobody
<1>13. CASE outcome = "ok"
  <2>1. /\ runs' = Append(runs, r) /\ state' = [state EXCEPT ![r] = "queued"]
        /\ run_queue' = Append(run_queue, r) /\ db'[r] = row
    BY <1>1, <1>5, <1>13
  <2>2. /\ state' \in [Runs -> {"absent"} \union States]
        /\ state'[r] = "queued" /\ \A q \in Runs : q # r => state'[q] = state[q]
    BY <2>1 DEF IInv, TypeOK, States, Unfinished
  <2>3. runs \in Seq(Runs) /\ run_queue \in Seq(Runs)
    BY DEF IInv, TypeOK
  <2>4. /\ runs' \in Seq(Runs) /\ run_queue' \in Seq(Runs)
        /\ Len(run_queue') = Len(run_queue) + 1
        /\ run_queue'[Len(run_queue) + 1] = r
        /\ \A i \in 1..Len(run_queue) : run_queue'[i] = run_queue[i]
    BY <2>1, <2>3
  <2>5. \A i \in 1..Len(run_queue') : i \in 1..Len(run_queue) \/ i = Len(run_queue) + 1
    BY <2>4, Elements DEF IInv
  <2>6. TypeOK'
    BY <2>2, <2>4, <1>3, <1>5, <1>6 DEF IInv, TypeOK, Phases, Serving
  <2>7. CurrentIsLive'
    BY <2>2, <1>3, <1>5, <1>7 DEF IInv, TypeOK, CurrentIsLive
  <2>8. QueueWaits'
    <3>1. ASSUME NEW i \in 1..Len(run_queue')
          PROVE  run_queue'[i] # current' /\ state'[run_queue'[i]] \in {"queued", "cancelled"}
      <4>1. CASE i \in 1..Len(run_queue)
        <5>1. run_queue'[i] = run_queue[i] /\ run_queue[i] \in Runs /\ run_queue[i] # r
          BY <4>1, <2>4, <1>9
        <5>2. run_queue[i] # current /\ state[run_queue[i]] \in {"queued", "cancelled"}
          BY <4>1 DEF IInv, QueueWaits
        <5> QED BY <5>1, <5>2, <2>2, <1>3
      <4>2. CASE i = Len(run_queue) + 1
        BY <4>2, <2>2, <2>4, <1>3, <1>7
      <4> QED BY <4>1, <4>2, <2>5
    <3>2. ASSUME NEW i \in 1..Len(run_queue'), NEW j \in 1..Len(run_queue'),
                 run_queue'[i] = run_queue'[j]
          PROVE  i = j
      BY <3>2, <2>4, <2>5, <1>9 DEF IInv, QueueWaits
    <3> QED BY <3>1, <3>2 DEF QueueWaits
  <2>9. StoreKnows'
    BY <2>1, <2>2, <1>3, <1>4, <1>5 DEF IInv, StoreKnows, Unfinished
  <2>10. EndedIsOver'
    BY <2>2, <1>3, <1>8 DEF IInv, EndedIsOver
  <2> QED BY <2>6, <2>7, <2>8, <2>9, <2>10, <1>6, <1>10, <1>11
          DEF IInv, NothingRemembered, Nobody
<1> QED BY <1>12, <1>13

\* The tail of a queue is a queue.
LEMMA TailWaits ==
  ASSUME IInv, run_queue # <<>>
  PROVE  /\ Head(run_queue) \in Runs /\ Tail(run_queue) \in Seq(Runs)
         /\ Len(Tail(run_queue)) = Len(run_queue) - 1
         /\ Head(run_queue) = run_queue[1] /\ 1 \in 1..Len(run_queue)
         /\ \A i \in 1..Len(Tail(run_queue)) :
              /\ i + 1 \in 1..Len(run_queue) /\ Tail(run_queue)[i] = run_queue[i + 1]
              /\ Tail(run_queue)[i] \in Runs /\ Tail(run_queue)[i] # current
              /\ Tail(run_queue)[i] # Head(run_queue)
              /\ state[Tail(run_queue)[i]] \in {"queued", "cancelled"}
         /\ \A i, j \in 1..Len(Tail(run_queue)) :
              Tail(run_queue)[i] = Tail(run_queue)[j] => i = j
<1>1. run_queue \in Seq(Runs)
  BY DEF IInv, TypeOK
<1>2. /\ Head(run_queue) \in Runs /\ Tail(run_queue) \in Seq(Runs)
      /\ Len(Tail(run_queue)) = Len(run_queue) - 1
      /\ \A i \in 1..Len(Tail(run_queue)) : Tail(run_queue)[i] = run_queue[i + 1]
  BY <1>1, HeadTailProperties
<1>3. Len(run_queue) \in Nat /\ Len(run_queue) # 0
  BY <1>1, EmptySeq
<1>4. Head(run_queue) = run_queue[1] /\ 1 \in 1..Len(run_queue)
  BY <1>1, <1>3
<1>5. \A i \in 1..Len(Tail(run_queue)) : i + 1 \in 1..Len(run_queue) /\ i + 1 # 1
  BY <1>2, <1>3
<1>6. \A i \in 1..Len(run_queue) : run_queue[i] \in Runs
  BY Elements DEF IInv
<1> QED BY <1>2, <1>3, <1>4, <1>5, <1>6 DEF IInv, QueueWaits

LEMMA TakeRunInv ==
  ASSUME IInv, TakeRun
  PROVE  IInv'
<1> DEFINE r == Head(run_queue)
<1>1. /\ run_queue' = Tail(run_queue) /\ run_queue # <<>>
      /\ pc \in {"idle", "taking"} /\ phase \in Serving
      /\ UNCHANGED <<phase, stop_event, runs, completed_epochs, control, at,
                     ended, sent, errors, crashes>>
  BY DEF TakeRun, CanWork
<1>2. r \in Runs /\ state[r] \in {"queued", "cancelled"} /\ current = NoRun
  BY <1>1, TailWaits DEF IInv, QueueWaits, WorkerPlace, NoCurrent
<1>3. CASE state[r] = "cancelled"
  <2>1. pc' = "taking" /\ UNCHANGED <<state, current, db, faults>>
    BY <1>3 DEF TakeRun
  <2>2. TypeOK'
    BY <1>1, <2>1, TailWaits DEF IInv, TypeOK, Tasks, Holding
  <2>3. WorkerPlace' /\ CurrentIsLive'
    BY <1>1, <1>2, <2>1 DEF IInv, WorkerPlace, CurrentIsLive, NoCurrent
  <2>4. QueueWaits'
    BY <1>1, <2>1, TailWaits DEF QueueWaits
  <2>5. StoreKnows' /\ EndedIsOver' /\ PersistedBeforeEvent' /\ AtMostOneEnded'
    BY <1>1, <2>1 DEF IInv, StoreKnows, EndedIsOver, PersistedBeforeEvent, AtMostOneEnded
  <2> QED BY <2>2, <2>3, <2>4, <2>5, <1>1 DEF IInv, NothingRemembered, Nobody, Serving
<1>4. CASE state[r] # "cancelled"
  <2>1. /\ state' = [state EXCEPT ![r] = "running"] /\ current' = r
        /\ \E outcome \in Outcomes :
             /\ Transaction(outcome, r, WithStatus(r, "running"))
             /\ pc' = IF outcome = "ok" THEN "setup" ELSE "raised"
    BY <1>4 DEF TakeRun
  <2>2. PICK outcome \in Outcomes : Transaction(outcome, r, WithStatus(r, "running"))
    BY <2>1
  <2>3. pc' \in {"setup", "raised"}
    BY <2>1
  <2>4. WithStatus(r, "running") \in Row /\ WithStatus(r, "running").status = "running"
    BY <1>2, StatusUpdate DEF WithStatus, IInv, TypeOK, States, Unfinished
  <2>5. /\ db' \in [Runs -> Row] /\ faults' \in 0..MaxFaults
        /\ \A q \in Runs : q # r => db'[q] = db[q]
        /\ db'[r].status \in {db[r].status, "running"}
    BY <1>2, <2>2, <2>4, Writes DEF IInv
  <2>6. /\ state' \in [Runs -> {"absent"} \union States]
        /\ state'[r] = "running" /\ \A q \in Runs : q # r => state'[q] = state[q]
    BY <1>2, <2>1 DEF IInv, TypeOK, States, Unfinished
  <2>7. db'[r].status \in Unfinished
    BY <1>2, <1>4, <2>5, NoRunIsNoRun DEF IInv, StoreKnows, Unfinished
  <2>8. \A i \in 1..Len(ended) : ended[i].run \in Runs /\ ended[i].run # r
    BY <1>2, <1>4, Elements DEF IInv, EndedIsOver, Unfinished
  <2> HIDE DEF r
  <2>9. TypeOK'
    BY <1>1, <1>2, <2>1, <2>3, <2>5, <2>6, TailWaits DEF IInv, TypeOK, Tasks, Holding, Waiting
  <2>10. WorkerPlace'
    BY <1>1, <1>2, <2>1, <2>3, NoRunIsNoRun DEF WorkerPlace, NoCurrent
  <2>11. CurrentIsLive'
    BY <2>1, <2>6, <2>7 DEF CurrentIsLive, Active
  <2>12. QueueWaits'
    BY <1>1, <2>1, <2>6, TailWaits DEF QueueWaits, r
  <2>13. StoreKnows'
    BY <1>2, <2>1, <2>5, <2>6, <2>7, NoRunIsNoRun DEF IInv, StoreKnows, Unfinished
  <2>14. EndedIsOver'
    BY <1>1, <2>1, <2>6, <2>8 DEF IInv, EndedIsOver
  <2>15. PersistedBeforeEvent' /\ AtMostOneEnded'
    BY <1>1, <2>5, <2>8, EventsKept DEF IInv
  <2> QED BY <2>9, <2>10, <2>11, <2>12, <2>13, <2>14, <2>15, <1>1
          DEF IInv, NothingRemembered, Nobody, Serving
<1> QED BY <1>3, <1>4

LEMMA RecordEpisodeInv ==
  ASSUME IInv, RecordEpisode
  PROVE  IInv'
<1> DEFINE n == completed_epochs[current] + 1
           row == [db[current] EXCEPT !.rows = @ + 1, !.episode_count = n]
<1>1. /\ pc = "episodeEnd" /\ phase \in Serving /\ at' = "gap"
      /\ completed_epochs' = [completed_epochs EXCEPT ![current] = n]
      /\ UNCHANGED <<phase, stop_event, runs, state, control, run_queue, current,
                     ended, sent, errors, crashes>>
  BY DEF RecordEpisode, CanWork
<1>2. PICK outcome \in Outcomes : Transaction(outcome, current, row)
  BY DEF RecordEpisode
<1>3. pc' \in {"raised", "checking", "returned"}
  BY DEF RecordEpisode
<1>4. current \in Runs
  BY <1>1 DEF IInv, TypeOK, WorkerPlace, NoCurrent
<1>5. n \in Nat /\ completed_epochs' \in [Runs -> Nat]
  BY <1>1, <1>4 DEF IInv, TypeOK
<1>6. row \in Row /\ row.status = db[current].status
  <2>1. db[current] \in Row
    BY <1>4 DEF IInv, TypeOK
  <2> HIDE DEF n
  <2> QED BY <2>1, <1>5, EpisodeUpdate
<1> HIDE DEF row, n
<1>7. /\ db' \in [Runs -> Row] /\ faults' \in 0..MaxFaults
      /\ \A q \in Runs : q # current => db'[q] = db[q]
      /\ db'[current].status = db[current].status
  BY <1>2, <1>4, <1>6, Writes DEF IInv
<1>8. TypeOK'
  BY <1>1, <1>3, <1>5, <1>7 DEF IInv, TypeOK, Tasks, Holding
<1>9. WorkerPlace'
  BY <1>1, <1>3 DEF IInv, WorkerPlace, NoCurrent
<1>10. CurrentIsLive'
  BY <1>1, <1>4, <1>7 DEF IInv, CurrentIsLive
<1>11. QueueWaits' /\ EndedIsOver'
  BY <1>1 DEF IInv, QueueWaits, EndedIsOver
<1>12. StoreKnows'
  BY <1>1, <1>4, <1>7 DEF IInv, StoreKnows
<1>13. PersistedBeforeEvent' /\ AtMostOneEnded'
  <2>1. \A i \in 1..Len(ended) : ended[i].run \in Runs /\ ended[i].run # current
    BY Elements DEF IInv, EndedIsOver
  <2> QED BY <1>1, <1>7, <2>1, EventsKept DEF IInv
<1> QED BY <1>1, <1>8, <1>9, <1>10, <1>11, <1>12, <1>13
        DEF IInv, NothingRemembered, Nobody, Serving

-----------------------------------------------------------------------------
(* Steps that end a run.                                                    *)

\* What the steps that finish a run share, wherever the run was.
LEMMA FinishInv ==
  ASSUME IInv, NEW r \in Runs, NEW s \in Terminal, NEW outcome \in Outcomes,
         FinishRun(r, s, outcome),
         \A i \in 1..Len(ended) : ended[i].run # r,
         db[r].status # "absent",
         state' = [state EXCEPT ![r] = s],
         UNCHANGED <<runs, completed_epochs, at, sent, errors, crashes>>,
         control' \in [Runs -> Controls], run_queue' \in Seq(Runs),
         phase' \in Phases \ Nobody, stop_event' \in BOOLEAN, pc' \in Tasks,
         current' = current \/ (current = r /\ current' = NoRun),
         outcome = "ok" => current' # r,
         WorkerPlace', CurrentIsLive', QueueWaits'
  PROVE  IInv'
<1>1. /\ db' \in [Runs -> Row] /\ faults' \in 0..MaxFaults
      /\ ended' \in Seq(Event) /\ Len(ended') \in Nat /\ Len(ended) <= Len(ended')
      /\ \A q \in Runs : q # r => db'[q] = db[q]
      /\ db'[r].status \in {db[r].status, s}
      /\ \A i \in 1..Len(ended') :
           \/ ended'[i].run = r /\ outcome = "ok"
           \/ \E j \in 1..Len(ended) : ended'[i] = ended[j]
      /\ PersistedBeforeEvent' /\ AtMostOneEnded'
  BY Finishes DEF IInv
<1>2. s \in States /\ s \notin Unfinished /\ s # "absent"
  BY DEF Terminal, Unfinished, States
<1>3. /\ state' \in [Runs -> {"absent"} \union States]
      /\ state'[r] = s /\ \A q \in Runs : q # r => state'[q] = state[q]
  BY <1>2 DEF IInv, TypeOK
<1>4. TypeOK'
  <2>1. sent' \in 0..Len(ended')
    BY <1>1, Elements DEF IInv, TypeOK
  <2>2. current' \in Runs \union {NoRun}
    BY DEF IInv, TypeOK
  <2> QED BY <1>1, <1>3, <2>1, <2>2 DEF IInv, TypeOK
<1>5. StoreKnows'
  BY <1>1, <1>2, <1>3 DEF IInv, StoreKnows
<1>6. EndedIsOver'
  <2>1. ASSUME NEW i \in 1..Len(ended')
        PROVE  ended'[i].run # current' /\ state'[ended'[i].run] \notin Unfinished
    <3>1. CASE ended'[i].run = r /\ outcome = "ok"
      BY <3>1, <1>2, <1>3
    <3>2. CASE \E j \in 1..Len(ended) : ended'[i] = ended[j]
      <4>1. PICK j \in 1..Len(ended) : ended'[i] = ended[j]
        BY <3>2
      <4>2. ended[j].run \in Runs /\ ended[j].run # r
        BY Elements DEF IInv
      <4> QED BY <4>1, <4>2, <1>3, NoRunIsNoRun DEF IInv, EndedIsOver
    <3> QED BY <1>1, <3>1, <3>2
  <2> QED BY <2>1 DEF EndedIsOver
<1> QED BY <1>1, <1>4, <1>5, <1>6 DEF IInv, NothingRemembered

\* A queue that is not touched, when a run outside it ends or one in it is
\* cancelled.
LEMMA QueueKept ==
  ASSUME IInv, NEW r \in Runs, NEW s \in States,
         run_queue' = run_queue, state' = [state EXCEPT ![r] = s],
         current' = current \/ current' = NoRun,
         s = "cancelled" \/ r = current
  PROVE  QueueWaits'
<1>1. \A i \in 1..Len(run_queue) :
        run_queue[i] \in Runs /\ run_queue[i] # current /\ run_queue[i] # NoRun
  BY Elements, NoRunIsNoRun DEF IInv, QueueWaits
<1>2. \A q \in Runs : state'[q] = IF q = r THEN s ELSE state[q]
  BY DEF IInv, TypeOK
<1> QED BY <1>1, <1>2 DEF IInv, QueueWaits

\* Nothing that the worker holds has an event.
LEMMA CurrentUnannounced ==
  ASSUME IInv, current # NoRun
  PROVE  /\ current \in Runs /\ db[current].status # "absent"
         /\ \A i \in 1..Len(ended) : ended[i].run # current
<1>1. current \in Runs
  BY DEF IInv, TypeOK
<1>2. db[current].status # "absent"
  BY DEF IInv, CurrentIsLive, Unfinished
<1> QED BY <1>1, <1>2 DEF IInv, EndedIsOver

LEMMA EndRunInv ==
  ASSUME IInv, CanWork, pc \notin NoCurrent,
         NEW s \in Terminal, NEW onError \in {"raised", "dead"},
         s = "completed" \/ onError = "dead",
         EndRun(s, "taking", onError)
  PROVE  IInv'
<1>1. current \in Runs /\ current # NoRun /\ db[current].status # "absent"
      /\ \A i \in 1..Len(ended) : ended[i].run # current
  BY CurrentUnannounced DEF IInv, WorkerPlace
<1>2. /\ state' = [state EXCEPT ![current] = s]
      /\ UNCHANGED <<phase, stop_event, runs, completed_epochs, control, run_queue, at,
                     sent, errors, crashes>>
  BY DEF EndRun
<1>3. PICK outcome \in Outcomes :
        /\ FinishRun(current, s, outcome)
        /\ pc' = IF outcome = "ok" THEN "taking" ELSE onError
        /\ current' = IF outcome # "ok" /\ onError = "raised" THEN current ELSE NoRun
  BY DEF EndRun
<1>4. pc' \in Tasks /\ phase' \in Phases \ Nobody /\ phase' \in Serving /\ stop_event' \in BOOLEAN
      /\ run_queue' \in Seq(Runs) /\ control' \in [Runs -> Controls]
  BY <1>2, <1>3 DEF IInv, TypeOK, Tasks, Holding, CanWork, Serving, Nobody
<1>5. (current' = current /\ pc' = "raised" /\ outcome # "ok" /\ s = "completed")
      \/ (current' = NoRun /\ pc' \in {"taking", "dead"})
  BY <1>3
<1>6. WorkerPlace'
  BY <1>1, <1>4, <1>5 DEF WorkerPlace, NoCurrent
<1>7. CurrentIsLive'
  <2>1. CASE current' = NoRun
    BY <2>1 DEF CurrentIsLive
  <2>2. CASE current' = current /\ pc' = "raised" /\ s = "completed"
    <3>1. db'[current].status \in {db[current].status, s}
      BY <1>1, <1>3, Finishes DEF IInv
    <3>2. state'[current] = s
      BY <1>1, <1>2 DEF IInv, TypeOK
    <3>3. db[current].status \in Unfinished \union {"completed"}
      BY <1>1 DEF IInv, CurrentIsLive
    <3> QED BY <2>2, <3>1, <3>2, <3>3 DEF CurrentIsLive
  <2> QED BY <1>5, <2>1, <2>2
<1>8. QueueWaits'
  <2>1. s \in States
    BY DEF States
  <2> QED BY <1>1, <1>2, <1>5, <2>1, QueueKept
<1>9. current' = current \/ (current' = NoRun)
  BY <1>5
<1>10. outcome = "ok" => current' # current
  BY <1>1, <1>3
<1> QED BY <1>1, <1>2, <1>3, <1>4, <1>6, <1>7, <1>8, <1>9, <1>10, FinishInv

LEMMA WorkerEndsInv ==
  ASSUME IInv, RaiseCancelled \/ CompleteRun \/ FailRun
  PROVE  IInv'
<1>1. CASE RaiseCancelled
  <2>1. CanWork /\ pc \notin NoCurrent /\ EndRun("cancelled", "taking", "dead")
    BY <1>1 DEF RaiseCancelled, AtLoopTop, NoCurrent
  <2> QED BY <2>1, EndRunInv DEF Terminal
<1>2. CASE CompleteRun
  <2>1. CanWork /\ pc \notin NoCurrent /\ EndRun("completed", "taking", "raised")
    BY <1>2 DEF CompleteRun, NoCurrent
  <2> QED BY <2>1, EndRunInv DEF Terminal
<1>3. CASE FailRun
  <2>1. CanWork /\ pc \notin NoCurrent /\ EndRun("failed", "taking", "dead")
    BY <1>3 DEF FailRun, NoCurrent
  <2> QED BY <2>1, EndRunInv DEF Terminal
<1> QED BY <1>1, <1>2, <1>3

LEMMA CancelQueuedInv ==
  ASSUME IInv, NEW r \in Runs, CancelQueued(r)
  PROVE  IInv'
<1>1. /\ state[r] = "queued" /\ state' = [state EXCEPT ![r] = "cancelled"]
      /\ control' = [control EXCEPT ![r].cancel_requested = TRUE] /\ pc \notin Holding
      /\ UNCHANGED <<runs, completed_epochs, run_queue, pc, at, current, sent, errors, crashes>>
  BY DEF CancelQueued, CanHandle, ThreadFree
<1>2. PICK outcome \in Outcomes : FinishRun(r, "cancelled", outcome) /\ Handled(outcome)
  BY DEF CancelQueued
<1>3. control' \in [Runs -> Controls]
  <2>1. control \in [Runs -> Controls]
    BY DEF IInv, TypeOK
  <2> QED BY <1>1, <2>1 DEF Controls
<1>4. /\ phase' \in Phases \ Nobody /\ stop_event' \in BOOLEAN
      /\ pc' \in Tasks /\ run_queue' \in Seq(Runs)
  BY <1>1, <1>2 DEF Handled, IInv, TypeOK, Phases, Serving, Nobody
<1>5. r # current
  BY <1>1, NoRunIsNoRun DEF IInv, CurrentIsLive, Active
<1>6. \A i \in 1..Len(ended) : ended[i].run # r
  BY <1>1 DEF IInv, EndedIsOver, Unfinished
<1>7. db[r].status # "absent"
  BY <1>1 DEF IInv, StoreKnows
<1>8. WorkerPlace'
  BY <1>1 DEF IInv, WorkerPlace
<1>9. CurrentIsLive'
  <2>1. CASE current = NoRun
    BY <2>1, <1>1 DEF CurrentIsLive
  <2>2. CASE current \in Runs
    <3>1. db'[current] = db[current]
      BY <2>2, <1>2, <1>5, <1>6, Finishes DEF IInv, Terminal
    <3>2. state'[current] = state[current]
      BY <2>2, <1>1, <1>5 DEF IInv, TypeOK
    <3> QED BY <2>2, <1>1, <3>1, <3>2 DEF IInv, CurrentIsLive
  <2> QED BY <2>1, <2>2 DEF IInv, TypeOK
<1>10. QueueWaits'
  BY <1>1, QueueKept DEF States, Terminal
<1>11. "cancelled" \in Terminal /\ current' = current /\ current' # r
  BY <1>1, <1>5 DEF Terminal
<1> QED BY <1>1, <1>2, <1>3, <1>4, <1>6, <1>7, <1>8, <1>9, <1>10, <1>11, FinishInv

LEMMA JoinWorkerInv ==
  ASSUME IInv, JoinWorker
  PROVE  IInv'
<1>1. /\ phase = "joining" /\ phase' = "draining" /\ pc' = "none" /\ current' = NoRun
      /\ UNCHANGED <<stop_event, runs, completed_epochs, control, run_queue, at,
                     sent, errors, crashes>>
  BY DEF JoinWorker
<1>2. /\ phase' \in Phases \ Nobody /\ stop_event' \in BOOLEAN /\ pc' \in Tasks
      /\ run_queue' \in Seq(Runs) /\ control' \in [Runs -> Controls]
  BY <1>1 DEF IInv, TypeOK, Phases, Tasks, Nobody
<1>3. WorkerPlace' /\ CurrentIsLive'
  BY <1>1 DEF WorkerPlace, CurrentIsLive, NoCurrent, Holding
<1>4. CASE current = NoRun
  <2>1. UNCHANGED <<state, db, ended, faults, current>>
    BY <1>1, <1>4 DEF JoinWorker
  <2>2. TypeOK'
    BY <1>1, <1>2, <2>1 DEF IInv, TypeOK
  <2> QED BY <2>1, <2>2, <1>1, <1>3
          DEF IInv, QueueWaits, StoreKnows, EndedIsOver, PersistedBeforeEvent,
              AtMostOneEnded, NothingRemembered, Nobody
<1>5. CASE current # NoRun
  <2>1. current \in Runs /\ db[current].status # "absent"
        /\ \A i \in 1..Len(ended) : ended[i].run # current
    BY <1>5, CurrentUnannounced
  <2>2. state' = [state EXCEPT ![current] = "cancelled"]
    BY <1>5 DEF JoinWorker
  <2>3. PICK outcome \in Outcomes : FinishRun(current, "cancelled", outcome)
    BY <1>5 DEF JoinWorker
  <2>4. QueueWaits'
    BY <1>1, <2>1, <2>2, QueueKept DEF States, Terminal
  <2>5. "cancelled" \in Terminal /\ current' # current
    BY <1>1, <1>5 DEF Terminal
  <2> QED BY <1>1, <1>2, <1>3, <2>1, <2>2, <2>3, <2>4, <2>5, FinishInv
<1> QED BY <1>4, <1>5

LEMMA DrainRunInv ==
  ASSUME IInv, DrainRun
  PROVE  IInv'
<1> DEFINE r == Head(run_queue)
<1>1. /\ phase = "draining" /\ run_queue # <<>> /\ run_queue' = Tail(run_queue)
      /\ UNCHANGED <<stop_event, runs, completed_epochs, control, pc, at, current,
                     sent, errors, crashes>>
  BY DEF DrainRun
<1>2. r \in Runs /\ r # current /\ state[r] \in {"queued", "cancelled"}
  BY <1>1, TailWaits DEF IInv, QueueWaits
<1>3. /\ stop_event' \in BOOLEAN /\ pc' \in Tasks
      /\ run_queue' \in Seq(Runs) /\ control' \in [Runs -> Controls]
  BY <1>1, TailWaits DEF IInv, TypeOK
<1>4. phase' \in Phases \ Nobody /\ phase' \notin Serving
  BY <1>1 DEF DrainRun, Phases, Serving, Nobody
<1>5. WorkerPlace'
  BY <1>1, <1>4 DEF IInv, WorkerPlace, Serving
<1>6. CASE state[r] = "cancelled"
  <2>1. UNCHANGED <<phase, state, db, ended, faults>>
    BY <1>6 DEF DrainRun
  <2>2. TypeOK'
    BY <1>1, <1>3, <2>1 DEF IInv, TypeOK
  <2>3. QueueWaits'
    BY <1>1, <2>1, TailWaits DEF QueueWaits
  <2> QED BY <1>1, <1>4, <1>5, <2>1, <2>2, <2>3
          DEF IInv, CurrentIsLive, StoreKnows, EndedIsOver, PersistedBeforeEvent,
              AtMostOneEnded, NothingRemembered
<1>7. CASE state[r] # "cancelled"
  <2>1. state' = [state EXCEPT ![r] = "cancelled"]
    BY <1>7 DEF DrainRun
  <2>2. PICK outcome \in Outcomes : FinishRun(r, "cancelled", outcome)
    BY <1>7 DEF DrainRun
  <2>3. \A i \in 1..Len(ended) : ended[i].run # r
    BY <1>2, <1>7 DEF IInv, EndedIsOver, Unfinished
  <2>4. db[r].status # "absent"
    BY <1>2 DEF IInv, StoreKnows
  <2>5. CurrentIsLive'
    <3>1. CASE current = NoRun
      BY <3>1, <1>1 DEF CurrentIsLive
    <3>2. CASE current \in Runs
      <4>1. db'[current] = db[current]
        BY <3>2, <1>2, <2>2, <2>3, Finishes DEF IInv, Terminal
      <4>2. state'[current] = state[current]
        BY <3>2, <1>2, <2>1 DEF IInv, TypeOK
      <4> QED BY <3>2, <1>1, <4>1, <4>2 DEF IInv, CurrentIsLive
    <3> QED BY <3>1, <3>2 DEF IInv, TypeOK
  <2>6. \A q \in Runs : state'[q] = IF q = r THEN "cancelled" ELSE state[q]
    BY <2>1 DEF IInv, TypeOK
  <2> HIDE DEF r
  <2>7. QueueWaits'
    BY <1>1, <2>6, TailWaits DEF QueueWaits
  <2>8. "cancelled" \in Terminal /\ current' = current /\ current' # r
    BY <1>1, <1>2 DEF Terminal
  <2> QED BY <1>1, <1>2, <1>3, <1>4, <1>5, <2>1, <2>2, <2>3, <2>4, <2>5, <2>7, <2>8, FinishInv
<1> QED BY <1>6, <1>7

-----------------------------------------------------------------------------
(* The process.                                                             *)

LEMMA StartInv ==
  ASSUME IInv, Start
  PROVE  IInv'
<1>1. /\ phase \in {"down", "stopped"} /\ stop_event' = FALSE
      /\ UNCHANGED <<runs, state, completed_epochs, control, run_queue, at, current,
                     ended, sent, errors, crashes>>
  BY DEF Start
<1>2. PICK outcome \in Outcomes :
        /\ outcome = "ok" \/ faults < MaxFaults
        /\ faults' = IF outcome = "ok" THEN faults ELSE faults + 1
        /\ db' = IF outcome = "rolledBack" THEN db ELSE Recovered
        /\ phase' = IF outcome = "ok" THEN "polling" ELSE "down"
        /\ pc' = IF outcome = "ok" THEN "idle" ELSE "none"
  BY DEF Start
<1>3. \A r \in Runs : /\ WithStatus(r, "failed") \in Row
                      /\ WithStatus(r, "failed").status = "failed"
  BY StatusUpdate DEF WithStatus, IInv, TypeOK, States, Terminal
<1>4. /\ db' \in [Runs -> Row]
      /\ \A r \in Runs : \/ db'[r] = db[r]
                         \/ db[r].status \in Unfinished /\ db'[r].status = "failed"
  BY <1>2, <1>3 DEF Recovered, IInv, TypeOK
<1>5. faults' \in 0..MaxFaults
  BY <1>2, ConstantsAssumption DEF IInv, TypeOK
<1>6. phase' \in Phases /\ pc' \in Tasks /\ pc' \in {"idle", "none"}
  BY <1>2 DEF Phases, Serving, Tasks, Waiting
<1>7. \A i \in 1..Len(ended) : db'[ended[i].run] = db[ended[i].run]
  BY <1>4, Elements DEF IInv, PersistedBeforeEvent, Terminal, Unfinished
<1>8. current = NoRun /\ \A r \in Runs : state[r] = "absent"
  BY <1>1 DEF IInv, NothingRemembered, Nobody
<1>9. TypeOK'
  BY <1>1, <1>4, <1>5, <1>6 DEF IInv, TypeOK
<1>10. WorkerPlace' /\ CurrentIsLive' /\ NothingRemembered'
  BY <1>1, <1>6, <1>8 DEF WorkerPlace, CurrentIsLive, NoCurrent, Holding, NothingRemembered
<1>11. QueueWaits' /\ EndedIsOver'
  BY <1>1 DEF IInv, QueueWaits, EndedIsOver
<1>12. StoreKnows'
  BY <1>1, <1>4, <1>8 DEF IInv, StoreKnows, Unfinished
<1>13. PersistedBeforeEvent' /\ AtMostOneEnded'
  BY <1>1, <1>7, EventsKept DEF IInv
<1> QED BY <1>9, <1>10, <1>11, <1>12, <1>13 DEF IInv

\* Whatever the process leaves behind when it goes is consistent.
LEMMA ForgetInv ==
  ASSUME IInv, Forget, db' = db, phase' \in {"down", "stopped"},
         UNCHANGED <<stop_event, sent, faults, errors>>, crashes' \in 0..MaxCrashes,
         ended' = ended \/ ended' = SubSeq(ended, 1, sent)
  PROVE  IInv'
<1>1. /\ runs' = <<>> /\ run_queue' = <<>> /\ Len(run_queue') = 0
      /\ state' = [r \in Runs |-> "absent"]
      /\ completed_epochs' = [r \in Runs |-> 0]
      /\ control' = [r \in Runs |-> FreshControl]
      /\ pc' = "none" /\ at' = "start" /\ current' = NoRun
  BY EmptySeq DEF Forget
<1>2. ended \in Seq(Event) /\ sent \in 0..Len(ended) /\ Len(ended) \in Nat
  BY Elements DEF IInv, TypeOK
<1>3. /\ ended' \in Seq(Event) /\ sent <= Len(ended') /\ Len(ended') \in Nat
      /\ Len(ended') <= Len(ended)
      /\ \A i \in 1..Len(ended') : i \in 1..Len(ended) /\ ended'[i] = ended[i]
  <2>1. CASE ended' = ended
    BY <2>1, <1>2
  <2>2. CASE ended' = SubSeq(ended, 1, sent)
    <3>1. \A i \in 1..sent : i \in 1..Len(ended) /\ ended[i] \in Event
      BY <1>2, ElementOfSeq
    <3>2. /\ SubSeq(ended, 1, sent) \in Seq(Event)
          /\ Len(SubSeq(ended, 1, sent)) = IF 1 <= sent THEN sent - 1 + 1 ELSE 0
          /\ \A i \in 1..(sent - 1 + 1) : SubSeq(ended, 1, sent)[i] = ended[1 + i - 1]
      BY <1>2, <3>1, SubSeqProperties
    <3>3. Len(ended') = sent
      BY <1>2, <2>2, <3>2
    <3>4. \A i \in 1..sent : ended'[i] = ended[i]
      BY <1>2, <2>2, <3>2
    <3> QED BY <1>2, <2>2, <3>1, <3>2, <3>3, <3>4
  <2> QED BY <2>1, <2>2
<1>4. TypeOK'
  <2>1. runs' \in Seq(Runs) /\ run_queue' \in Seq(Runs)
    BY <1>1, EmptySeq
  <2>2. FreshControl \in Controls
    BY DEF FreshControl, Controls
  <2>3. sent' \in 0..Len(ended')
    BY <1>2, <1>3
  <2> QED BY <1>1, <1>3, <2>1, <2>2, <2>3 DEF IInv, TypeOK, Phases, Tasks, States
<1>5. WorkerPlace' /\ CurrentIsLive' /\ NothingRemembered' /\ QueueWaits'
  BY <1>1 DEF WorkerPlace, CurrentIsLive, NoCurrent, Holding, NothingRemembered, QueueWaits
<1>6. StoreKnows'
  BY <1>1 DEF StoreKnows, Unfinished
<1>7. \A i \in 1..Len(ended') : ended'[i].run \in Runs
  BY <1>3, Elements DEF IInv
<1>8. EndedIsOver'
  BY <1>1, <1>7, NoRunIsNoRun DEF EndedIsOver, Unfinished
<1>9. PersistedBeforeEvent' /\ AtMostOneEnded'
  BY <1>3 DEF IInv, PersistedBeforeEvent, AtMostOneEnded
<1> QED BY <1>4, <1>5, <1>6, <1>8, <1>9 DEF IInv

LEMMA ProcessEndsInv ==
  ASSUME IInv, Exit \/ Crash
  PROVE  IInv'
<1>1. CASE Exit
  <2>1. crashes' \in 0..MaxCrashes
    BY <1>1 DEF Exit, bounds, IInv, TypeOK
  <2> QED BY <1>1, <2>1, ForgetInv DEF Exit, bounds
<1>2. CASE Crash
  <2>1. crashes' \in 0..MaxCrashes
    BY <1>2, ConstantsAssumption DEF Crash, IInv, TypeOK
  <2> QED BY <1>2, <2>1, ForgetInv DEF Crash
<1> QED BY <1>1, <1>2

-----------------------------------------------------------------------------
LEMMA InitInv == Init => IInv
<1> SUFFICES ASSUME Init PROVE IInv
  OBVIOUS
<1>1. Len(ended) = 0 /\ Len(run_queue) = 0
  BY EmptySeq DEF Init
<1>2. TypeOK
  <2>1. runs \in Seq(Runs) /\ run_queue \in Seq(Runs) /\ ended \in Seq(Event)
    BY EmptySeq DEF Init
  <2>2. FreshControl \in Controls /\ AbsentRow \in Row
    BY DEF FreshControl, Controls, AbsentRow, Row
  <2>3. sent \in 0..Len(ended) /\ faults \in 0..MaxFaults /\ errors \in 0..MaxErrors
        /\ crashes \in 0..MaxCrashes
    BY <1>1, ConstantsAssumption DEF Init
  <2>4. /\ state \in [Runs -> {"absent"} \union States]
        /\ completed_epochs \in [Runs -> Nat]
        /\ control \in [Runs -> Controls] /\ db \in [Runs -> Row]
    BY <2>2 DEF Init
  <2>5. /\ phase \in Phases /\ stop_event \in BOOLEAN /\ pc \in Tasks
        /\ at \in {"start", "move", "gap"} /\ current \in Runs \union {NoRun}
    BY DEF Init, Phases, Tasks
  <2> QED BY <2>1, <2>3, <2>4, <2>5 DEF TypeOK
<1>3. WorkerPlace /\ CurrentIsLive /\ NothingRemembered /\ QueueWaits
  BY <1>1 DEF Init, WorkerPlace, CurrentIsLive, NoCurrent, Holding, NothingRemembered, QueueWaits
<1>4. StoreKnows /\ EndedIsOver /\ PersistedBeforeEvent /\ AtMostOneEnded
  BY <1>1 DEF Init, StoreKnows, EndedIsOver, PersistedBeforeEvent, AtMostOneEnded, Unfinished
<1> QED BY <1>2, <1>3, <1>4 DEF IInv

LEMMA NextInv == IInv /\ [Next]_vars => IInv'
<1> SUFFICES ASSUME IInv, [Next]_vars PROVE IInv'
  OBVIOUS
<1>1. CASE Requests
  <2>1. CASE Inquire
    BY <2>1, InquireInv
  <2>2. ASSUME NEW r \in Runs,
               \/ Submit(r) \/ Pause(r) \/ Resume(r) \/ SetMoveDelay(r)
               \/ CancelActive(r) \/ CancelQueued(r)
        PROVE  IInv'
    BY <2>2, SubmitInv, ControlRequestsInv, SetMoveDelayInv, CancelQueuedInv
  <2> QED BY <1>1, <2>1, <2>2 DEF Requests
<1>2. CASE Worker
  BY <1>2, TakeRunInv, WorkerMovesInv, RecordEpisodeInv, WorkerEndsInv DEF Worker
<1>3. CASE Shutdown
  BY <1>3, JoinWorkerInv, DrainRunInv, ServiceInv, ProcessEndsInv DEF Shutdown
<1>4. CASE SendEvent \/ ServiceLoop \/ Stop
  BY <1>4, ServiceInv
<1>5. CASE Start \/ Crash
  BY <1>5, StartInv, ProcessEndsInv
<1>6. CASE UNCHANGED vars
  BY <1>6 DEF vars, memory, bounds, IInv, TypeOK, WorkerPlace, CurrentIsLive, QueueWaits,
              StoreKnows, EndedIsOver, NothingRemembered, PersistedBeforeEvent, AtMostOneEnded
<1> QED BY <1>1, <1>2, <1>3, <1>4, <1>5, <1>6 DEF Next

\* The inductive invariant holds for ever, and with it the type invariant.
THEOREM Invariance == Spec => []IInv
BY InitInv, NextInv, PTL DEF Spec

THEOREM TypeCorrect == Spec => []TypeOK
<1>1. IInv => TypeOK
  BY DEF IInv
<1> QED BY <1>1, Invariance, PTL

\* _finish_run stores a run's end before it offers the event: whatever fails and
\* whenever the process dies, no event says anything but what the store holds.
THEOREM EventsArePersisted == Spec => []PersistedBeforeEvent
<1>1. IInv => PersistedBeforeEvent
  BY DEF IInv
<1> QED BY <1>1, Invariance, PTL

\* Requests, worker, shutdown and recovery never announce the same end twice.
THEOREM EndsAreAnnouncedOnce == Spec => []AtMostOneEnded
<1>1. IInv => AtMostOneEnded
  BY DEF IInv
<1> QED BY <1>1, Invariance, PTL

-----------------------------------------------------------------------------
(* Stored outcomes are final, and the server keeps the promise of           *)
(* RunLifecycle: what one step does to the store and to what was sent.      *)

OthersKept(r) == \A q \in Runs : q # r => db'[q] = db[q]

Opens(r) ==
    db[r].status = "absent" /\ db'[r].status = "queued" /\ OthersKept(r)

Closes(r) ==
    db[r].status \in Unfinished /\ db'[r].status \in Terminal /\ OthersKept(r)

Revises(r) ==
    /\ r = current /\ pc = "raised"
    /\ db[r].status = "completed" /\ db'[r].status = "failed" /\ OthersKept(r)

Continues ==
    \A r \in Runs : \/ db'[r] = db[r]
                    \/ db[r].status \in Unfinished /\ db'[r].status \in Unfinished

Recovers ==
    \A r \in Runs :
      IF db[r].status \in Unfinished THEN db'[r].status = "failed" ELSE db'[r] = db[r]

StoreStep == Continues \/ Recovers \/ \E r \in Runs : Opens(r) \/ Closes(r) \/ Revises(r)

SentKept == sent' = sent /\ \A i \in 1..sent : ended'[i] = ended[i]

\* Finishing a run that the store holds as unfinished closes it, or leaves it.
LEMMA FinishStep ==
  ASSUME IInv, NEW r \in Runs, NEW s \in Terminal, NEW outcome \in Outcomes,
         FinishRun(r, s, outcome), sent' = sent,
         \A i \in 1..Len(ended) : ended[i].run # r,
         \/ db[r].status \in Unfinished
         \/ r = current /\ pc = "raised" /\ db[r].status = "completed" /\ s = "failed"
  PROVE  StoreStep /\ SentKept
<1> DEFINE row == Result(r, s)
<1>1. row.status = s
  BY Results DEF IInv, TypeOK, States
<1>2. Transaction(outcome, r, row)
  BY DEF FinishRun
<1> HIDE DEF row
<1>3. (\A q \in Runs : db'[q] = db[q]) \/ (db'[r].status = s /\ OthersKept(r))
  BY <1>1, <1>2 DEF Transaction, OthersKept, IInv, TypeOK
<1>4. StoreStep
  BY <1>3 DEF StoreStep, Continues, Closes, Revises
<1>5. SentKept
  <2>1. ended \in Seq(Event) /\ sent \in 0..Len(ended) /\ Len(ended) \in Nat
    BY Elements DEF IInv, TypeOK
  <2>2. CASE ended' = ended
    BY <2>1, <2>2 DEF SentKept
  <2>3. CASE ended' = Append(ended, [run |-> r, state |-> s])
    <3>1. [run |-> r, state |-> s] \in Event
      BY DEF Event
    <3>2. \A i \in 1..Len(ended) : ended'[i] = ended[i]
      BY <2>1, <2>3, <3>1
    <3> QED BY <2>1, <3>2 DEF SentKept
  <2> QED BY <2>2, <2>3 DEF FinishRun
<1> QED BY <1>4, <1>5

\* A transaction on a row the store holds as unfinished, that keeps it so.
LEMMA ContinueStep ==
  ASSUME IInv, NEW r \in Runs, NEW row, NEW outcome \in Outcomes,
         Transaction(outcome, r, row),
         db[r].status \in Unfinished, row.status \in Unfinished
  PROVE  StoreStep
  BY DEF Transaction, StoreStep, Continues, IInv, TypeOK

LEMMA RequestStep ==
  ASSUME IInv, Requests
  PROVE  StoreStep /\ SentKept
<1>1. ASSUME NEW r \in Runs, Submit(r)
      PROVE  StoreStep /\ SentKept
  <2> DEFINE row == [AbsentRow EXCEPT !.status = "queued"]
  <2>1. PICK outcome \in Outcomes : Transaction(outcome, r, row)
    BY <1>1 DEF Submit
  <2>2. row.status = "queued"
    BY DEF AbsentRow
  <2> HIDE DEF row
  <2>3. (\A q \in Runs : db'[q] = db[q]) \/ Opens(r)
    BY <1>1, <2>1, <2>2 DEF Submit, Transaction, Opens, OthersKept, IInv, TypeOK
  <2>4. SentKept
    BY <1>1 DEF Submit, SentKept
  <2> QED BY <2>3, <2>4 DEF StoreStep, Continues
<1>2. ASSUME NEW r \in Runs, Pause(r) \/ Resume(r) \/ CancelActive(r)
      PROVE  StoreStep /\ SentKept
  <2>1. PICK s \in Active : ChangeStatus(r, s)
    BY <1>2 DEF Pause, Resume, CancelActive, Active
  <2>2. PICK outcome \in Outcomes : Transaction(outcome, r, WithStatus(r, s))
    BY <2>1 DEF ChangeStatus
  <2>3. WithStatus(r, s).status = s /\ s \in Unfinished
    BY StatusUpdate DEF WithStatus, IInv, TypeOK, Active, States, Unfinished
  <2>4. db[r].status \in Unfinished
    BY <1>2, NoRunIsNoRun
       DEF IInv, StoreKnows, CurrentIsLive, Pause, Resume, CancelActive, CanHandle,
           ThreadFree, Holding, Unfinished
  <2>5. StoreStep
    BY <2>2, <2>3, <2>4, ContinueStep
  <2>6. SentKept
    BY <2>1 DEF ChangeStatus, SentKept
  <2> QED BY <2>5, <2>6
<1>3. ASSUME NEW r \in Runs, CancelQueued(r)
      PROVE  StoreStep /\ SentKept
  <2>1. PICK outcome \in Outcomes : FinishRun(r, "cancelled", outcome)
    BY <1>3 DEF CancelQueued
  <2>2. state[r] = "queued" /\ sent' = sent
    BY <1>3 DEF CancelQueued
  <2>3. r # current
    BY <2>2, NoRunIsNoRun DEF IInv, CurrentIsLive, Active
  <2>4. db[r].status \in Unfinished /\ \A i \in 1..Len(ended) : ended[i].run # r
    BY <2>2, <2>3 DEF IInv, StoreKnows, EndedIsOver, Unfinished
  <2> QED BY <2>1, <2>2, <2>4, FinishStep DEF Terminal
<1>4. ASSUME NEW r \in Runs, SetMoveDelay(r)
      PROVE  StoreStep /\ SentKept
  BY <1>4 DEF SetMoveDelay, StoreStep, Continues, SentKept
<1>5. ASSUME Inquire
      PROVE  StoreStep /\ SentKept
  <2>1. PICK outcome \in {"ok", "rolledBack"}, r \in Runs : Transaction(outcome, r, db[r])
    BY <1>5 DEF Inquire
  <2>2. db' = db
    BY <2>1 DEF Transaction, IInv, TypeOK
  <2> QED BY <1>5, <2>2 DEF Inquire, StoreStep, Continues, SentKept
<1> QED BY <1>1, <1>2, <1>3, <1>4, <1>5 DEF Requests

LEMMA WorkerStep ==
  ASSUME IInv, Worker
  PROVE  StoreStep /\ SentKept
<1>1. CASE TakeRun
  <2> DEFINE r == Head(run_queue)
  <2>1. run_queue # <<>> /\ sent' = sent /\ ended' = ended
    BY <1>1 DEF TakeRun
  <2>2. r \in Runs /\ state[r] \in {"queued", "cancelled"} /\ r # current
    BY <2>1, TailWaits DEF IInv, QueueWaits
  <2>3. SentKept
    BY <2>1 DEF SentKept
  <2>4. CASE state[r] = "cancelled"
    BY <1>1, <2>3, <2>4 DEF TakeRun, StoreStep, Continues
  <2>5. CASE state[r] # "cancelled"
    <3>1. PICK outcome \in Outcomes : Transaction(outcome, r, WithStatus(r, "running"))
      BY <1>1, <2>5 DEF TakeRun
    <3>2. WithStatus(r, "running").status = "running"
      BY <2>2, StatusUpdate DEF WithStatus, IInv, TypeOK, States, Unfinished
    <3>3. db[r].status \in Unfinished
      BY <2>2, <2>5 DEF IInv, StoreKnows, Unfinished
    <3> HIDE DEF r
    <3>4. "running" \in Unfinished
      BY DEF Unfinished
    <3> QED BY <2>2, <2>3, <3>1, <3>2, <3>3, <3>4, ContinueStep
  <2> QED BY <2>4, <2>5
<1>2. CASE RecordEpisode
  <2> DEFINE row == [db[current] EXCEPT !.rows = @ + 1,
                                        !.episode_count = completed_epochs[current] + 1]
  <2>1. PICK outcome \in Outcomes : Transaction(outcome, current, row)
    BY <1>2 DEF RecordEpisode
  <2>2. pc = "episodeEnd" /\ sent' = sent /\ ended' = ended
    BY <1>2 DEF RecordEpisode
  <2>3. current \in Runs /\ db[current].status \in Unfinished
    BY <2>2, CurrentUnannounced DEF IInv, WorkerPlace, CurrentIsLive, NoCurrent
  <2>4. row.status = db[current].status
    BY <2>3 DEF IInv, TypeOK, Row
  <2> HIDE DEF row
  <2> QED BY <2>1, <2>2, <2>3, <2>4, ContinueStep DEF SentKept
<1>3. CASE RaiseCancelled \/ CompleteRun \/ FailRun
  <2>1. PICK s \in Terminal, onError \in {"raised", "dead"} :
          EndRun(s, "taking", onError) /\ (pc = "raised" => s = "failed")
    BY <1>3 DEF RaiseCancelled, CompleteRun, FailRun, AtLoopTop, Terminal
  <2>2. PICK outcome \in Outcomes : FinishRun(current, s, outcome)
    BY <2>1 DEF EndRun
  <2>3. current # NoRun /\ sent' = sent
    BY <1>3, <2>1 DEF IInv, WorkerPlace, NoCurrent, RaiseCancelled, CompleteRun, FailRun,
                      AtLoopTop, EndRun
  <2>4. /\ current \in Runs
        /\ \A i \in 1..Len(ended) : ended[i].run # current
    BY <2>3, CurrentUnannounced
  <2>5. \/ db[current].status \in Unfinished
        \/ pc = "raised" /\ db[current].status = "completed" /\ s = "failed"
    BY <2>1, <2>3 DEF IInv, CurrentIsLive
  <2> QED BY <2>2, <2>3, <2>4, <2>5, FinishStep
<1>4. CASE \/ FinishSetup \/ CheckFlags \/ DelayExpires \/ NextEpisode \/ PlayMove
           \/ PlayLastMove \/ SimulationFails \/ AwaitRun
  BY <1>4 DEF FinishSetup, CheckFlags, DelayExpires, NextEpisode, PlayMove, PlayLastMove,
              SimulationFails, AwaitRun, WorkerMoves, StoreStep, Continues, SentKept
<1> QED BY <1>1, <1>2, <1>3, <1>4 DEF Worker

LEMMA ShutdownStep ==
  ASSUME IInv, Shutdown
  PROVE  StoreStep /\ SentKept
<1>1. CASE JoinWorker
  <2>1. sent' = sent /\ phase = "joining"
    BY <1>1 DEF JoinWorker
  <2>2. CASE current = NoRun
    BY <1>1, <2>1, <2>2 DEF JoinWorker, StoreStep, Continues, SentKept
  <2>3. CASE current # NoRun
    <3>1. PICK outcome \in Outcomes : FinishRun(current, "cancelled", outcome)
      BY <1>1, <2>3 DEF JoinWorker
    <3>2. /\ current \in Runs /\ db[current].status \in Unfinished
          /\ \A i \in 1..Len(ended) : ended[i].run # current
      BY <2>1, <2>3, CurrentUnannounced DEF IInv, CurrentIsLive, WorkerPlace, Holding, Serving
    <3> QED BY <2>1, <3>1, <3>2, FinishStep DEF Terminal
  <2> QED BY <2>2, <2>3
<1>2. CASE DrainRun
  <2> DEFINE r == Head(run_queue)
  <2>1. run_queue # <<>> /\ sent' = sent
    BY <1>2 DEF DrainRun
  <2>2. r \in Runs /\ state[r] \in {"queued", "cancelled"} /\ r # current
    BY <2>1, TailWaits DEF IInv, QueueWaits
  <2>3. CASE state[r] = "cancelled"
    BY <1>2, <2>1, <2>3 DEF DrainRun, StoreStep, Continues, SentKept
  <2>4. CASE state[r] # "cancelled"
    <3>1. PICK outcome \in Outcomes : FinishRun(r, "cancelled", outcome)
      BY <1>2, <2>4 DEF DrainRun
    <3>2. db[r].status \in Unfinished /\ \A i \in 1..Len(ended) : ended[i].run # r
      BY <2>2, <2>4 DEF IInv, StoreKnows, EndedIsOver, Unfinished
    <3> HIDE DEF r
    <3> QED BY <2>1, <2>2, <3>1, <3>2, FinishStep DEF Terminal
  <2> QED BY <2>3, <2>4
<1>3. CASE CloseEvents \/ Exit
  BY <1>3 DEF CloseEvents, Exit, StoreStep, Continues, SentKept
<1> QED BY <1>1, <1>2, <1>3 DEF Shutdown

LEMMA ProcessStep ==
  ASSUME IInv, Start \/ Stop \/ ServiceLoop \/ Crash
  PROVE  StoreStep /\ SentKept
<1>1. CASE Start
  <2>1. db' = db \/ db' = Recovered
    BY <1>1 DEF Start
  <2>2. \A r \in Runs : WithStatus(r, "failed").status = "failed"
    BY StatusUpdate DEF WithStatus, IInv, TypeOK, States, Terminal
  <2>3. db' = Recovered => Recovers
    BY <2>2 DEF Recovered, Recovers
  <2>4. SentKept
    BY <1>1 DEF Start, SentKept
  <2> QED BY <2>1, <2>3, <2>4 DEF StoreStep, Continues
<1>2. CASE Stop \/ ServiceLoop
  BY <1>2 DEF Stop, ServiceLoop, StoreStep, Continues, SentKept
<1>3. CASE Crash
  <2>1. db' = db /\ sent' = sent /\ ended' = SubSeq(ended, 1, sent)
    BY <1>3 DEF Crash
  <2>2. ended \in Seq(Event) /\ sent \in 0..Len(ended) /\ Len(ended) \in Nat
    BY Elements DEF IInv, TypeOK
  <2>3. \A i \in 1..sent : i \in 1..Len(ended) /\ ended[i] \in Event
    BY <2>2, ElementOfSeq
  <2>4. \A i \in 1..(sent - 1 + 1) : SubSeq(ended, 1, sent)[i] = ended[1 + i - 1]
    BY <2>2, <2>3, SubSeqProperties
  <2>5. \A i \in 1..sent : ended'[i] = ended[i]
    BY <2>1, <2>2, <2>4
  <2> QED BY <2>1, <2>5 DEF StoreStep, Continues, SentKept
<1> QED BY <1>1, <1>2, <1>3

LEMMA AnyStep ==
  ASSUME IInv, Next
  PROVE  StoreStep /\ (SentKept \/ SendEvent)
<1>1. SendEvent => StoreStep
  BY DEF SendEvent, StoreStep, Continues
<1> QED BY <1>1, RequestStep, WorkerStep, ShutdownStep, ProcessStep DEF Next

\* A stored outcome is never stored again, by any request, failure or restart,
\* but for the worker's revision of an unconfirmed completion.
THEOREM OutcomesAreFinal == Spec => OutcomeIsFinal
<1>1. ASSUME IInv, [Next]_vars
      PROVE  [\A r \in Runs : db[r].status \in Terminal /\ db'[r] # db[r] =>
                /\ r = current /\ pc = "raised"
                /\ db[r].status = "completed" /\ db'[r].status = "failed"]_vars
  <2>1. CASE Next
    <3>1. StoreStep
      BY <1>1, <2>1, AnyStep
    <3> QED BY <3>1 DEF StoreStep, Continues, Recovers, Opens, Closes, Revises, OthersKept,
                        Terminal, Unfinished
  <2> QED BY <1>1, <2>1
<1> QED BY <1>1, Invariance, PTL DEF Spec, OutcomeIsFinal

\* The server implements the abstract promise of RunLifecycle.
THEOREM KeepsThePromise == Spec => ImplementsRunLifecycle
<1>1. Init => Abstract!Init
  BY DEF Init, Abstract!Init, Outcome, AbsentRow, Unfinished
<1>2. ASSUME IInv, [Next]_vars
      PROVE  [Abstract!Next]_(Abstract!vars)
  <2> DEFINE record == [r \in Runs |-> Outcome(r)]
             announced == {ended[i] : i \in 1..sent}
  <2>1. CASE UNCHANGED vars
    BY <2>1 DEF vars, memory, bounds, Abstract!vars, Outcome
  <2>2. ASSUME SentKept
        PROVE  announced' = announced
    BY <2>2 DEF SentKept
  <2>3. ASSUME SentKept, StoreStep
        PROVE  [Abstract!Next]_(Abstract!vars)
    <3>1. CASE Continues
      <4>1. record' = record
        BY <3>1 DEF Continues, Outcome, Unfinished
      <4> QED BY <4>1, <2>2, <2>3 DEF Abstract!vars
    <3>2. CASE Recovers
      <4>1. Abstract!Recover
        <5>1. \A r \in Runs : db[r].status \in {"absent"} \union States
          BY <1>2 DEF IInv, TypeOK, Row
        <5>2. \A r \in Runs : record[r] = "open" <=> db[r].status \in Unfinished
          BY <5>1 DEF Outcome, States, Unfinished, Terminal
        <5>3. \A r \in Runs : Outcome(r)' = IF record[r] = "open" THEN "failed" ELSE record[r]
          BY <3>2, <5>2 DEF Recovers, Outcome, Unfinished
        <5> QED BY <5>3, <2>2, <2>3 DEF Abstract!Recover
      <4> QED BY <4>1 DEF Abstract!Next
    <3>3. ASSUME NEW r \in Runs, Opens(r)
          PROVE  Abstract!Next
      <4>1. Abstract!Open(r)
        BY <3>3, <2>2, <2>3 DEF Opens, OthersKept, Abstract!Open, Outcome, Unfinished
      <4> QED BY <4>1 DEF Abstract!Next
    <3>4. ASSUME NEW r \in Runs, Closes(r)
          PROVE  Abstract!Next
      <4>1. db'[r].status \in Abstract!Outcomes
        BY <3>4 DEF Closes, Terminal, Abstract!Outcomes
      <4>2. Abstract!Close(r, db'[r].status)
        BY <3>4, <2>2, <2>3
           DEF Closes, OthersKept, Abstract!Close, Outcome, Unfinished, Terminal
      <4> QED BY <4>1, <4>2 DEF Abstract!Next
    <3>5. ASSUME NEW r \in Runs, Revises(r)
          PROVE  Abstract!Next
      <4>1. r \notin Abstract!AnnouncedRuns
        <5>1. sent \in 0..Len(ended) /\ Len(ended) \in Nat
          BY <1>2, Elements DEF IInv, TypeOK
        <5>2. \A i \in 1..Len(ended) : ended[i].run # r
          BY <1>2, <3>5 DEF Revises, IInv, EndedIsOver
        <5>3. \A i \in 1..sent : ended[i].run # r
          BY <5>1, <5>2
        <5> QED BY <5>3 DEF Abstract!AnnouncedRuns
      <4>2. Abstract!Revise(r)
        BY <3>5, <4>1, <2>2, <2>3
           DEF Revises, OthersKept, Abstract!Revise, Outcome, Unfinished
      <4> QED BY <4>2 DEF Abstract!Next
    <3> QED BY <2>3, <3>1, <3>2, <3>3, <3>4, <3>5 DEF StoreStep
  <2>4. CASE SendEvent
    <3> DEFINE e == ended[sent + 1]
    <3>1. /\ sent + 1 \in 1..Len(ended) /\ sent \in Nat /\ sent' = sent + 1
          /\ ended' = ended /\ db' = db
      BY <1>2, <2>4, Elements DEF SendEvent, IInv, TypeOK
    <3>2. e \in Event /\ e.run \in Runs /\ e.state \in Terminal
      BY <1>2, <3>1, Elements, ElementOfSeq DEF IInv, TypeOK, Event
    <3>3. db[e.run].status = e.state
      BY <1>2, <3>1 DEF IInv, PersistedBeforeEvent
    <3>4. record[e.run] = e.state /\ record' = record
      BY <3>1, <3>2, <3>3 DEF Outcome, Terminal, Unfinished
    <3>5. e = [run |-> e.run, state |-> record[e.run]]
      BY <3>2, <3>4 DEF Event
    <3>6. e.run \notin Abstract!AnnouncedRuns
      <4>1. \A i \in 1..sent : i \in 1..Len(ended) /\ ended[i].run # e.run
        BY <1>2, <3>1, Elements DEF IInv, AtMostOneEnded
      <4> QED BY <4>1 DEF Abstract!AnnouncedRuns
    <3>7. announced' = announced \union {e}
      <4>1. 1..(sent + 1) = (1..sent) \union {sent + 1}
        BY <3>1
      <4> QED BY <3>1, <4>1
    <3>8. PICK r \in Runs : r = e.run
      BY <3>2
    <3>9. Abstract!Announce(r)
      BY <3>2, <3>4, <3>5, <3>6, <3>7, <3>8 DEF Abstract!Announce, Abstract!Outcomes, Terminal
    <3> QED BY <3>9 DEF Abstract!Next
  <2> QED BY <1>2, <2>1, <2>3, <2>4, AnyStep
<1> QED BY <1>1, <1>2, Invariance, PTL DEF Spec, ImplementsRunLifecycle, Abstract!Spec

-----------------------------------------------------------------------------
(* The second inductive invariant, on top of IInv: what the server answers  *)
(* from memory is what the store holds, and what the store holds is whole,  *)
(* because the record of a run, its row and its place fit together.         *)

\* No store call has failed in this process whose error is still to end it: the
\* server serves with its worker, or nothing has gone wrong since the beginning.
Tracked == \/ phase \in Serving /\ pc # "dead"
           \/ faults = 0 /\ crashes = 0

InQueue(r) == \E i \in DOMAIN run_queue : run_queue[i] = r

\* A run has played nothing before the worker takes it.
Fresh(r) == state[r] \in {"absent", "queued"} => completed_epochs[r] = 0

\* Memory counts the episodes the store has, and at most the one whose write failed.
Counted(r) ==
    state[r] \in Unfinished \/ r = current =>
      \/ completed_epochs[r] = db[r].rows
      \/ r = current /\ pc = "raised" /\ completed_epochs[r] = db[r].rows + 1

\* An active run is in the worker's hands, a queued one in its queue.
Placed(r) ==
    /\ state[r] \in Active => r = current
    /\ state[r] = "queued" => InQueue(r)

\* What memory and the store say about a run, but for the one whose error the
\* worker has yet to record.
Mirrored(r) ==
    Tracked /\ state[r] # "absent" /\ ~(r = current /\ pc = "raised") =>
      /\ db[r].status = state[r]
      /\ state[r] # "failed" => /\ db[r].rows = completed_epochs[r]
                                /\ db[r].episode_count = completed_epochs[r]

\* What the store calls unfinished is in somebody's hands.
InHand(r) == Tracked /\ db[r].status \in Unfinished => r = current \/ InQueue(r)

Whole(r) ==
    /\ db[r].status = "completed" => db[r].rows = Epochs /\ db[r].episode_count = Epochs
    /\ db[r].snapshot <=> db[r].status = "completed" /\ Epochs > 0
    /\ db[r].status = "completed" /\ Epochs > 0 => db[r].frames
    /\ db[r].frames => /\ db[r].status \in {"completed", "failed"}
                       /\ Epochs > 0 /\ db[r].rows = Epochs
    /\ db[r].episode_count # db[r].rows =>
         db[r].status = "failed" /\ db[r].episode_count = db[r].rows + 1

RunIsSound(r) == Fresh(r) /\ Counted(r) /\ Placed(r) /\ Mirrored(r) /\ InHand(r) /\ Whole(r)

\* Where the worker is tells how many episodes it has played.
Progress ==
    current # NoRun /\ pc # "raised" =>
      CASE pc = "returned" -> completed_epochs[current] = Epochs
        [] pc = "setup" -> completed_epochs[current] = 0
        [] OTHER -> completed_epochs[current] < Epochs

\* The worker is gone before the queue is drained, and a process that has gone, or
\* goes with a store that never failed, leaves no queue behind.
Emptied ==
    /\ phase \in {"draining", "closing", "down", "stopped"} => pc = "none"
    /\ phase \in Nobody \/ (phase = "closing" /\ faults = 0) => run_queue = <<>>
    /\ phase = "stopped" => sent = Len(ended)

\* As long as no call fails and no process dies, every end is announced.
Announced ==
    faults = 0 /\ crashes = 0 =>
      \A r \in Runs : db[r].status \in Terminal =>
        \E i \in 1..Len(ended) : ended[i].run = r

\* The dict holds each run of this process once, and the queue is in its order.
Listed ==
    /\ \A i, j \in 1..Len(runs) : runs[i] = runs[j] => i = j
    /\ \A r \in Runs : state[r] # "absent" <=> \E i \in 1..Len(runs) : runs[i] = r
    /\ \A i, j \in 1..Len(run_queue), k, l \in 1..Len(runs) :
         i < j /\ runs[k] = run_queue[i] /\ runs[l] = run_queue[j] => k < l

JInv ==
    /\ \A r \in Runs : RunIsSound(r)
    /\ Progress
    /\ Emptied
    /\ Announced
    /\ Listed

-----------------------------------------------------------------------------
(* Lemmas about the data.                                                   *)

\* What the type invariant says of one run.
LEMMA Typed ==
  ASSUME IInv, NEW r \in Runs
  PROVE  /\ state[r] \in {"absent"} \union States /\ completed_epochs[r] \in Nat
         /\ db[r] \in Row /\ db[r].status \in {"absent"} \union States
         /\ db[r].rows \in Nat /\ db[r].episode_count \in Nat
         /\ db[r].snapshot \in BOOLEAN /\ db[r].frames \in BOOLEAN
         /\ r # NoRun /\ faults \in Nat /\ crashes \in Nat /\ Epochs \in Nat
         /\ DOMAIN run_queue = 1..Len(run_queue) /\ Len(run_queue) \in Nat
  BY NoRunIsNoRun, ConstantsAssumption DEF IInv, TypeOK, Row

\* A transaction that only sets the status of a row.
LEMMA Restatus ==
  ASSUME IInv, NEW r \in Runs, NEW s \in States, NEW outcome \in Outcomes,
         Transaction(outcome, r, WithStatus(r, s))
  PROVE  /\ \A q \in Runs : q # r => db'[q] = db[q]
         /\ db'[r].rows = db[r].rows /\ db'[r].episode_count = db[r].episode_count
         /\ db'[r].snapshot = db[r].snapshot /\ db'[r].frames = db[r].frames
         /\ db'[r].status \in {db[r].status, s}
         /\ outcome = "ok" => db'[r].status = s /\ faults' = faults
         /\ outcome # "ok" => faults' = faults + 1
<1> DEFINE row == WithStatus(r, s)
<1>1. /\ row.status = s /\ row.rows = db[r].rows
      /\ row.episode_count = db[r].episode_count /\ row.snapshot = db[r].snapshot
      /\ row.frames = db[r].frames
  BY DEF WithStatus, IInv, TypeOK, Row
<1>2. db \in [Runs -> Row] /\ Transaction(outcome, r, row)
  BY DEF IInv, TypeOK
<1> HIDE DEF row
<1>3. /\ \A q \in Runs : q # r => db'[q] = db[q]
      /\ db'[r] = row \/ (outcome # "ok" /\ db'[r] = db[r])
      /\ faults' = IF outcome = "ok" THEN faults ELSE faults + 1
  BY <1>2 DEF Transaction
<1> QED BY <1>1, <1>3

\* The transaction that finishes a run.
LEMMA Finishing ==
  ASSUME IInv, NEW r \in Runs, NEW s \in Terminal, NEW outcome \in Outcomes,
         FinishRun(r, s, outcome)
  PROVE  /\ \A q \in Runs : q # r => db'[q] = db[q]
         /\ db'[r].rows = db[r].rows
         /\ \/ outcome # "ok" /\ db'[r] = db[r]
            \/ /\ db'[r].status = s /\ db'[r].episode_count = completed_epochs[r]
               /\ db'[r].snapshot <=> s = "completed" /\ completed_epochs[r] > 0
               /\ db'[r].frames <=>
                    IF s = "completed" THEN completed_epochs[r] > 0 ELSE db[r].frames
         /\ outcome = "ok" => faults' = faults
         /\ outcome # "ok" => faults' = faults + 1 /\ ended' = ended
<1> DEFINE row == Result(r, s)
<1>1. db \in [Runs -> Row] /\ db[r] \in Row /\ completed_epochs[r] \in Nat /\ s \in States
  BY DEF IInv, TypeOK, States
<1>2. /\ row.status = s /\ row.rows = db[r].rows
      /\ row.episode_count = completed_epochs[r]
      /\ row.snapshot <=> s = "completed" /\ completed_epochs[r] > 0
      /\ row.frames <=> IF s = "completed" THEN completed_epochs[r] > 0 ELSE db[r].frames
  BY <1>1, Results
<1>3. Transaction(outcome, r, row)
  BY DEF FinishRun
<1> HIDE DEF row
<1>4. /\ \A q \in Runs : q # r => db'[q] = db[q]
      /\ db'[r] = row \/ (outcome # "ok" /\ db'[r] = db[r])
      /\ faults' = IF outcome = "ok" THEN faults ELSE faults + 1
  BY <1>1, <1>3 DEF Transaction
<1>5. outcome # "ok" => ended' = ended
  BY DEF FinishRun
<1>6. db'[r].rows = db[r].rows
  BY <1>2, <1>4
<1>7. \/ outcome # "ok" /\ db'[r] = db[r]
      \/ /\ db'[r].status = s /\ db'[r].episode_count = completed_epochs[r]
         /\ db'[r].snapshot <=> s = "completed" /\ completed_epochs[r] > 0
         /\ db'[r].frames <=> IF s = "completed" THEN completed_epochs[r] > 0 ELSE db[r].frames
  BY <1>2, <1>4
<1> QED BY <1>4, <1>5, <1>6, <1>7

-----------------------------------------------------------------------------
(* A step keeps the record of every run that it is not about.               *)

Kept(r) ==
    /\ state'[r] = state[r] /\ db'[r] = db[r] /\ completed_epochs'[r] = completed_epochs[r]
    /\ r = current' <=> r = current
    /\ r = current /\ pc = "raised" => pc' = "raised"
    /\ InQueue(r) => InQueue(r)'

LEMMA KeptIsSound ==
  ASSUME NEW r \in Runs, RunIsSound(r), Kept(r), Tracked' => Tracked
  PROVE  RunIsSound(r)'
<1>1. Fresh(r)' /\ Placed(r)' /\ Whole(r)'
  BY DEF RunIsSound, Fresh, Placed, Whole, Kept
<1>2. Counted(r)'
  BY DEF RunIsSound, Counted, Kept
<1>3. Mirrored(r)' /\ InHand(r)'
  BY DEF RunIsSound, Mirrored, InHand, Kept
<1> QED BY <1>1, <1>2, <1>3 DEF RunIsSound

\* Nothing but a start makes a process whose calls have not failed.
LEMMA TrackedKept ==
  ASSUME IInv, faults' \in {faults, faults + 1}, crashes' \in {crashes, crashes + 1},
         (phase \in Serving /\ pc # "dead") \/ phase' \notin Serving \/ pc' = "dead",
         Tracked'
  PROVE  Tracked
<1>1. faults \in Nat /\ crashes \in Nat
  BY ConstantsAssumption DEF IInv, TypeOK
<1> QED BY <1>1 DEF Tracked

\* A queue that is not touched, or grows, holds the runs that it held.
LEMMA QueueGrows ==
  ASSUME IInv, NEW q \in Runs, NEW r \in Runs,
         run_queue' \in {run_queue, Append(run_queue, q)}, InQueue(r)
  PROVE  InQueue(r)'
<1>1. run_queue \in Seq(Runs) /\ DOMAIN run_queue = 1..Len(run_queue) /\ Len(run_queue) \in Nat
  BY DEF IInv, TypeOK
<1>2. PICK i \in 1..Len(run_queue) : run_queue[i] = r
  BY <1>1 DEF InQueue
<1>3. CASE run_queue' = run_queue
  BY <1>3 DEF InQueue
<1>4. CASE run_queue' = Append(run_queue, q)
  <2>1. /\ DOMAIN run_queue' = 1..(Len(run_queue) + 1)
        /\ run_queue'[i] = run_queue[i]
    BY <1>1, <1>4
  <2>2. i \in DOMAIN run_queue'
    BY <1>1, <2>1
  <2> QED BY <1>2, <2>1, <2>2 DEF InQueue
<1> QED BY <1>3, <1>4

-----------------------------------------------------------------------------
(* Every step keeps the records of all runs sound.                          *)

Sound == \A r \in Runs : RunIsSound(r)

\* Steps that are about no run.
LEMMA QuietSound ==
  ASSUME IInv, JInv, UNCHANGED <<state, db, completed_epochs, run_queue, current>>,
         current # NoRun /\ pc = "raised" => pc' = "raised", Tracked' => Tracked
  PROVE  Sound'
<1>1. \A r \in Runs : RunIsSound(r) /\ Kept(r)
  BY NoRunIsNoRun DEF JInv, Kept, InQueue
<1> QED BY <1>1, KeptIsSound DEF Sound

LEMMA WorkerMovesSound ==
  ASSUME IInv, JInv,
         \/ FinishSetup \/ CheckFlags \/ DelayExpires \/ NextEpisode \/ PlayMove
         \/ PlayLastMove \/ SimulationFails \/ AwaitRun
  PROVE  Sound'
<1>1. UNCHANGED <<state, db, completed_epochs, run_queue, current, phase, faults, crashes>>
  BY DEF FinishSetup, CheckFlags, DelayExpires, NextEpisode, PlayMove, PlayLastMove,
         SimulationFails, AwaitRun, WorkerMoves, bounds
<1>2. phase \in Serving /\ pc \notin {"dead", "raised"}
  BY DEF FinishSetup, CheckFlags, DelayExpires, NextEpisode, PlayMove, PlayLastMove,
         SimulationFails, AwaitRun, CanWork, AtLoopTop, Returns
<1>3. Tracked
  BY <1>2 DEF Tracked
<1> QED BY <1>1, <1>2, <1>3, QuietSound

LEMMA ServiceSound ==
  ASSUME IInv, JInv,
         \/ Stop \/ ServiceLoop \/ CloseEvents \/ SendEvent
         \/ Inquire \/ \E r \in Runs : SetMoveDelay(r)
  PROVE  Sound'
<1>1. UNCHANGED <<state, db, completed_epochs, run_queue, current, pc, crashes>>
  <2>1. CASE Inquire
    BY <2>1 DEF Inquire, Transaction, memory, IInv, TypeOK
  <2>2. CASE Stop \/ ServiceLoop \/ CloseEvents \/ SendEvent
    BY <2>2 DEF Stop, ServiceLoop, CloseEvents, SendEvent, memory, bounds
  <2>3. CASE \E r \in Runs : SetMoveDelay(r)
    BY <2>3 DEF SetMoveDelay, bounds
  <2> QED BY <2>1, <2>2, <2>3
<1>2. faults' \in {faults, faults + 1}
  BY DEF Stop, ServiceLoop, CloseEvents, SendEvent, bounds, Inquire, SetMoveDelay, Transaction
<1>3. phase \in Serving \/ phase' \notin Serving
  BY DEF Stop, ServiceLoop, CloseEvents, SendEvent, Inquire, SetMoveDelay, CanHandle, Serving
<1>4. Tracked' => Tracked
  BY <1>1, <1>2, <1>3, TrackedKept
<1> QED BY <1>1, <1>4, QuietSound

LEMMA SubmitSound ==
  ASSUME IInv, JInv, NEW r \in Runs, Submit(r)
  PROVE  Sound'
<1> DEFINE row == [AbsentRow EXCEPT !.status = "queued"]
<1>1. PICK outcome \in Outcomes :
        /\ Transaction(outcome, r, row)
        /\ Handled(outcome)
        /\ IF outcome = "ok"
           THEN /\ runs' = Append(runs, r)
                /\ state' = [state EXCEPT ![r] = "queued"]
                /\ run_queue' = Append(run_queue, r)
           ELSE UNCHANGED <<runs, state, run_queue>>
  BY DEF Submit
<1>2. /\ db[r].status = "absent" /\ phase = "polling"
      /\ UNCHANGED <<completed_epochs, pc, current, crashes>>
  BY DEF Submit, CanHandle
<1>3. state[r] = "absent" /\ r # current
  <2>1. state[r] = "absent"
    BY <1>2 DEF IInv, StoreKnows
  <2> QED BY <2>1, NoRunIsNoRun DEF IInv, CurrentIsLive, Active
<1>4. /\ row.status = "queued" /\ row.rows = 0 /\ row.episode_count = 0
      /\ row.snapshot = FALSE /\ row.frames = FALSE
  BY DEF AbsentRow
<1> HIDE DEF row
<1>5. /\ \A q \in Runs : q # r => db'[q] = db[q] /\ state'[q] = state[q]
      /\ db'[r] = row \/ (outcome # "ok" /\ db'[r] = db[r])
      /\ faults' = IF outcome = "ok" THEN faults ELSE faults + 1
  BY <1>1 DEF Transaction, IInv, TypeOK
<1>6. /\ outcome = "ok" => state'[r] = "queued" /\ InQueue(r)'
      /\ outcome # "ok" => state'[r] = "absent"
  <2>1. run_queue \in Seq(Runs) /\ state \in [Runs -> {"absent"} \union States]
    BY DEF IInv, TypeOK
  <2>2. CASE outcome = "ok"
    <3>1. /\ DOMAIN run_queue' = 1..(Len(run_queue) + 1) /\ Len(run_queue) \in Nat
          /\ run_queue'[Len(run_queue) + 1] = r
      BY <1>1, <2>1, <2>2
    <3>2. Len(run_queue) + 1 \in DOMAIN run_queue'
      BY <3>1
    <3> QED BY <1>1, <2>1, <2>2, <3>1, <3>2 DEF InQueue
  <2> QED BY <1>1, <1>3, <2>2
<1>7. \A q \in Runs : InQueue(q) => InQueue(q)'
  <2>1. run_queue' \in {run_queue, Append(run_queue, r)}
    BY <1>1
  <2> QED BY <2>1, QueueGrows
<1>8. Tracked' => Tracked /\ outcome = "ok"
  <2>1. Tracked' => Tracked
    BY <1>2, <1>5, TrackedKept, Typed DEF Serving
  <2>2. outcome # "ok" => ~Tracked'
    BY <1>1, <1>5, Typed DEF Handled, Tracked, Serving
  <2> QED BY <2>1, <2>2
<1>9. RunIsSound(r)'
  <2>1. RunIsSound(r)
    BY DEF JInv
  <2>2. completed_epochs[r] = 0
    BY <1>3, <2>1 DEF RunIsSound, Fresh
  <2>3. outcome # "ok" \/ db'[r] = row
    BY <1>5
  <2>4. Fresh(r)' /\ Placed(r)'
    BY <1>2, <1>3, <1>6, <2>2 DEF Fresh, Placed, Active
  <2>5. Counted(r)'
    BY <1>2, <1>3, <1>4, <1>6, <2>2, <2>3 DEF Counted, Unfinished
  <2>6. Mirrored(r)' /\ InHand(r)'
    BY <1>2, <1>4, <1>6, <1>8, <2>2, <2>3 DEF Mirrored, InHand
  <2>7. Whole(r)'
    BY <1>4, <1>5, <2>1, Typed DEF RunIsSound, Whole
  <2> QED BY <2>4, <2>5, <2>6, <2>7 DEF RunIsSound
<1>10. ASSUME NEW q \in Runs, q # r
       PROVE  RunIsSound(q)'
  BY <1>2, <1>5, <1>7, <1>8, <1>10, KeptIsSound DEF JInv, Kept
<1> QED BY <1>9, <1>10 DEF Sound

LEMMA ChangeStatusSound ==
  ASSUME IInv, JInv, NEW r \in Runs, NEW s \in Active,
         CanHandle, state[r] \in {"running", "paused"}, ChangeStatus(r, s)
  PROVE  Sound'
<1>1. /\ state' = [state EXCEPT ![r] = s]
      /\ UNCHANGED <<completed_epochs, run_queue, pc, current, crashes>>
      /\ phase = "polling" /\ pc # "raised"
  BY DEF ChangeStatus, CanHandle, ThreadFree, Holding
<1>2. PICK outcome \in Outcomes : Transaction(outcome, r, WithStatus(r, s)) /\ Handled(outcome)
  BY DEF ChangeStatus
<1>3. s \in Unfinished /\ s \in States
  BY DEF Active, Unfinished, States
<1>4. /\ \A q \in Runs : q # r => db'[q] = db[q]
      /\ db'[r].rows = db[r].rows /\ db'[r].episode_count = db[r].episode_count
      /\ db'[r].snapshot = db[r].snapshot /\ db'[r].frames = db[r].frames
      /\ db'[r].status \in {db[r].status, s}
      /\ outcome = "ok" => db'[r].status = s /\ faults' = faults
      /\ outcome # "ok" => faults' = faults + 1
  BY <1>2, <1>3, Restatus
<1>5. state'[r] = s /\ \A q \in Runs : q # r => state'[q] = state[q]
  BY <1>1 DEF IInv, TypeOK
<1>6. RunIsSound(r) /\ r = current /\ db[r].status \in Unfinished
  <2>1. RunIsSound(r)
    BY DEF JInv
  <2>2. r = current
    BY <2>1 DEF RunIsSound, Placed, Active
  <2> QED BY <2>1, <2>2, <1>1, NoRunIsNoRun DEF IInv, CurrentIsLive
<1>7. Tracked' => Tracked /\ outcome = "ok"
  <2>1. Tracked' => Tracked
    BY <1>1, <1>4, TrackedKept, Typed DEF Serving
  <2>2. outcome # "ok" => ~Tracked'
    BY <1>2, <1>4, Typed DEF Handled, Tracked, Serving
  <2> QED BY <2>1, <2>2
<1>8. RunIsSound(r)'
  <2>1. db[r].episode_count = db[r].rows /\ db[r].rows = completed_epochs[r]
    BY <1>1, <1>6 DEF RunIsSound, Counted, Whole, Unfinished
  <2>2. Fresh(r)' /\ Placed(r)'
    BY <1>1, <1>5, <1>6 DEF Fresh, Placed, Active
  <2>3. Counted(r)'
    BY <1>1, <1>4, <2>1 DEF Counted
  <2>4. Mirrored(r)' /\ InHand(r)'
    BY <1>1, <1>4, <1>5, <1>6, <1>7, <2>1 DEF Mirrored, InHand
  <2>5. Whole(r)'
    BY <1>3, <1>4, <1>6, <2>1 DEF RunIsSound, Whole, Unfinished
  <2> QED BY <2>2, <2>3, <2>4, <2>5 DEF RunIsSound
<1>9. ASSUME NEW q \in Runs, q # r
      PROVE  RunIsSound(q)'
  BY <1>1, <1>4, <1>5, <1>7, <1>9, KeptIsSound DEF JInv, Kept, InQueue
<1> QED BY <1>8, <1>9 DEF Sound

\* The queue without its head holds the runs that it held but for the head.
LEMMA QueueShrinks ==
  ASSUME IInv, run_queue # <<>>, run_queue' = Tail(run_queue),
         NEW q \in Runs, q # Head(run_queue), InQueue(q)
  PROVE  InQueue(q)'
<1>1. /\ run_queue \in Seq(Runs) /\ DOMAIN run_queue = 1..Len(run_queue)
      /\ Len(run_queue) \in Nat
  BY DEF IInv, TypeOK
<1>2. PICK i \in 1..Len(run_queue) : run_queue[i] = q
  BY <1>1 DEF InQueue
<1>3. i # 1
  BY <1>2, TailWaits
<1>4. /\ DOMAIN run_queue' = 1..(Len(run_queue) - 1)
      /\ run_queue'[i - 1] = run_queue[i] /\ i - 1 \in 1..(Len(run_queue) - 1)
  <2>1. Tail(run_queue) \in Seq(Runs) /\ Len(Tail(run_queue)) = Len(run_queue) - 1
    BY TailWaits
  <2>2. i - 1 \in 1..(Len(run_queue) - 1)
    BY <1>1, <1>2, <1>3
  <2>3. \A j \in 1..(Len(run_queue) - 1) : Tail(run_queue)[j] = run_queue[j + 1]
    BY <2>1, TailWaits
  <2>4. run_queue'[i - 1] = run_queue[i - 1 + 1] /\ i - 1 + 1 = i
    BY <1>2, <2>2, <2>3
  <2>5. DOMAIN run_queue' = 1..(Len(run_queue) - 1)
    BY <2>1
  <2> QED BY <2>2, <2>4, <2>5
<1> QED BY <1>2, <1>4 DEF InQueue

LEMMA TakeRunSound ==
  ASSUME IInv, JInv, TakeRun
  PROVE  Sound'
<1>1. /\ run_queue' = Tail(run_queue) /\ run_queue # <<>>
      /\ pc \in {"idle", "taking"} /\ phase \in Serving
      /\ UNCHANGED <<phase, completed_epochs, crashes>>
  BY DEF TakeRun, CanWork
<1>2. PICK r \in Runs : /\ r = Head(run_queue) /\ state[r] \in {"queued", "cancelled"}
                        /\ current = NoRun
  BY <1>1, TailWaits DEF IInv, QueueWaits, WorkerPlace, NoCurrent
<1>3. Tracked
  BY <1>1 DEF Tracked
<1>4. RunIsSound(r)
  BY <1>2 DEF JInv
<1>5. \A q \in Runs : q # r /\ InQueue(q) => InQueue(q)'
  BY <1>1, <1>2, QueueShrinks
<1>6. CASE state[r] = "cancelled"
  <2>1. pc' = "taking" /\ UNCHANGED <<state, current, db, faults>>
    BY <1>2, <1>6 DEF TakeRun
  <2>2. db[r].status = "cancelled"
    BY <1>2, <1>3, <1>4, <1>6, NoRunIsNoRun DEF RunIsSound, Mirrored
  <2>3. RunIsSound(r)'
    BY <1>1, <1>2, <1>3, <1>4, <1>6, <2>1, <2>2, NoRunIsNoRun
       DEF RunIsSound, Fresh, Counted, Placed, Mirrored, InHand, Whole, Active, Unfinished
  <2>4. ASSUME NEW q \in Runs, q # r
        PROVE  RunIsSound(q)'
    <3>1. RunIsSound(q) /\ Kept(q)
      BY <1>1, <1>2, <1>5, <2>1, <2>4, NoRunIsNoRun DEF JInv, Kept
    <3> QED BY <1>3, <3>1, KeptIsSound
  <2> QED BY <2>3, <2>4 DEF Sound
<1>7. CASE state[r] # "cancelled"
  <2>1. PICK outcome \in Outcomes :
          /\ Transaction(outcome, r, WithStatus(r, "running"))
          /\ pc' = IF outcome = "ok" THEN "setup" ELSE "raised"
    BY <1>2, <1>7 DEF TakeRun
  <2>2. current' = r /\ state' = [state EXCEPT ![r] = "running"]
    BY <1>2, <1>7 DEF TakeRun
  <2>3. /\ \A q \in Runs : q # r => db'[q] = db[q]
        /\ db'[r].rows = db[r].rows /\ db'[r].episode_count = db[r].episode_count
        /\ db'[r].snapshot = db[r].snapshot /\ db'[r].frames = db[r].frames
        /\ db'[r].status \in {db[r].status, "running"}
        /\ outcome = "ok" => db'[r].status = "running" /\ faults' = faults
        /\ outcome # "ok" => faults' = faults + 1
    BY <1>2, <2>1, Restatus DEF States, Unfinished
  <2>4. state'[r] = "running" /\ \A q \in Runs : q # r => state'[q] = state[q]
    BY <1>2, <2>2 DEF IInv, TypeOK
  <2>5. db[r].status = "queued" /\ completed_epochs[r] = 0 /\ db[r].rows = 0
        /\ db[r].episode_count = 0
    BY <1>2, <1>3, <1>4, <1>7, NoRunIsNoRun DEF RunIsSound, Mirrored, Fresh
  <2>6. RunIsSound(r)'
    <3>1. Fresh(r)' /\ Counted(r)' /\ Placed(r)' /\ InHand(r)'
      BY <1>1, <2>2, <2>3, <2>4, <2>5 DEF Fresh, Counted, Placed, InHand
    <3>2. Mirrored(r)'
      BY <1>1, <2>1, <2>2, <2>3, <2>4, <2>5 DEF Mirrored
    <3>3. Whole(r)'
      BY <1>4, <2>3, <2>5 DEF RunIsSound, Whole
    <3> QED BY <3>1, <3>2, <3>3 DEF RunIsSound
  <2>7. ASSUME NEW q \in Runs, q # r
        PROVE  RunIsSound(q)'
    <3>1. RunIsSound(q) /\ Kept(q)
      BY <1>1, <1>2, <1>5, <2>2, <2>3, <2>4, <2>7, NoRunIsNoRun DEF JInv, Kept
    <3> QED BY <1>3, <3>1, KeptIsSound
  <2> QED BY <2>6, <2>7 DEF Sound
<1> QED BY <1>6, <1>7

LEMMA RecordEpisodeSound ==
  ASSUME IInv, JInv, RecordEpisode
  PROVE  Sound'
<1> DEFINE n == completed_epochs[current] + 1
           m == db[current].rows + 1
           row == [db[current] EXCEPT !.rows = @ + 1, !.episode_count = n]
<1>1. /\ pc = "episodeEnd" /\ phase \in Serving
      /\ completed_epochs' = [completed_epochs EXCEPT ![current] = n]
      /\ UNCHANGED <<phase, state, run_queue, current, crashes>>
  BY DEF RecordEpisode, CanWork
<1>2. PICK outcome \in Outcomes :
        /\ Transaction(outcome, current, row)
        /\ pc' = IF outcome # "ok" THEN "raised"
                 ELSE IF n < Epochs THEN "checking" ELSE "returned"
  BY DEF RecordEpisode
<1>3. current \in Runs /\ current # NoRun
  BY <1>1, NoRunIsNoRun DEF IInv, TypeOK, WorkerPlace, NoCurrent
<1>4. RunIsSound(current) /\ db[current] \in Row /\ Tracked
  BY <1>1, <1>3, Typed DEF JInv, Tracked
<1>5. /\ completed_epochs'[current] = n
      /\ \A q \in Runs : q # current => completed_epochs'[q] = completed_epochs[q]
  BY <1>1, <1>3 DEF IInv, TypeOK
<1>6. /\ row.rows = m /\ row.episode_count = n /\ row.status = db[current].status
      /\ row.snapshot = db[current].snapshot /\ row.frames = db[current].frames
  BY <1>4 DEF Row
<1> HIDE DEF row
<1>7. /\ \A q \in Runs : q # current => db'[q] = db[q]
      /\ db'[current] = row \/ (outcome # "ok" /\ db'[current] = db[current])
  BY <1>2, <1>3 DEF Transaction, IInv, TypeOK
<1>8. db[current].rows = completed_epochs[current] /\ db[current].episode_count = db[current].rows
      /\ db[current].status \in Unfinished /\ state[current] \in Active
  BY <1>1, <1>3, <1>4
     DEF RunIsSound, Counted, Whole, IInv, CurrentIsLive, Unfinished
<1>9. m = n /\ db[current].rows \in Nat /\ db[current].episode_count \in Nat
  BY <1>3, <1>8, Typed
<1>10. RunIsSound(current)'
  <2>1. Fresh(current)' /\ Placed(current)' /\ InHand(current)'
    BY <1>1, <1>8 DEF Fresh, Placed, InHand, Active
  <2>2. Counted(current)'
    BY <1>1, <1>2, <1>5, <1>6, <1>7, <1>8, <1>9 DEF Counted
  <2>3. Mirrored(current)'
    BY <1>1, <1>2, <1>3, <1>4, <1>5, <1>6, <1>7, <1>8, <1>9
       DEF RunIsSound, Mirrored
  <2>4. Whole(current)'
    BY <1>1, <1>4, <1>6, <1>7, <1>8, <1>9 DEF RunIsSound, Whole, Unfinished
  <2> QED BY <2>1, <2>2, <2>3, <2>4 DEF RunIsSound
<1>11. ASSUME NEW q \in Runs, q # current
       PROVE  RunIsSound(q)'
  <2>1. RunIsSound(q) /\ Kept(q)
    BY <1>1, <1>5, <1>7, <1>11 DEF JInv, Kept, InQueue
  <2> QED BY <1>4, <2>1, KeptIsSound
<1> QED BY <1>1, <1>10, <1>11 DEF Sound

\* What the steps that finish a run share, wherever the run was.
LEMMA FinishSound ==
  ASSUME IInv, JInv, NEW r \in Runs, NEW s \in Terminal, NEW outcome \in Outcomes,
         FinishRun(r, s, outcome),
         state' = [state EXCEPT ![r] = s], UNCHANGED completed_epochs,
         state[r] \in Unfinished \/ r = current,
         db[r].status \in Unfinished \/ (s = "failed" /\ db[r].status = "completed"),
         r = current /\ pc = "raised" => s = "failed",
         s = "completed" => completed_epochs[r] = Epochs,
         r = current' => pc' = "raised" /\ pc # "raised",
         \A q \in Runs : q # r => /\ q = current' <=> q = current
                                  /\ q = current /\ pc = "raised" => pc' = "raised"
                                  /\ InQueue(q) => InQueue(q)',
         Tracked' => Tracked /\ (outcome = "ok" \/ r = current')
  PROVE  Sound'
<1>1. /\ \A q \in Runs : q # r => db'[q] = db[q]
      /\ db'[r].rows = db[r].rows
      /\ \/ outcome # "ok" /\ db'[r] = db[r]
         \/ /\ db'[r].status = s /\ db'[r].episode_count = completed_epochs[r]
            /\ db'[r].snapshot <=> s = "completed" /\ completed_epochs[r] > 0
            /\ db'[r].frames <=>
                 IF s = "completed" THEN completed_epochs[r] > 0 ELSE db[r].frames
  BY Finishing
<1>2. state'[r] = s /\ \A q \in Runs : q # r => state'[q] = state[q]
  BY DEF IInv, TypeOK
<1>3. s \notin Unfinished \union Active \union {"absent", "queued"}
  BY DEF Terminal, Unfinished, Active
<1>4. RunIsSound(r) /\ completed_epochs[r] \in Nat /\ db[r].rows \in Nat /\ Epochs \in Nat
      /\ db'[r].status \in {db[r].status, s}
  BY <1>1, Typed DEF JInv
<1>5. \/ db[r].rows = completed_epochs[r]
      \/ s = "failed" /\ completed_epochs[r] = db[r].rows + 1
  BY <1>4 DEF RunIsSound, Counted
<1>6. s # "failed" => db[r].rows = completed_epochs[r]
  BY <1>4 DEF RunIsSound, Counted
<1>7. RunIsSound(r)'
  <2>1. Fresh(r)' /\ Placed(r)'
    BY <1>2, <1>3 DEF Fresh, Placed
  <2>2. Counted(r)'
    BY <1>1, <1>2, <1>3, <1>4 DEF RunIsSound, Counted
  <2>3. Mirrored(r)'
    BY <1>1, <1>2, <1>4, <1>6 DEF Mirrored
  <2>4. InHand(r)'
    BY <1>1, <1>3 DEF InHand
  <2>5. Whole(r)'
    <3>1. CASE db'[r] = db[r]
      BY <3>1, <1>4 DEF RunIsSound, Whole
    <3>2. CASE /\ db'[r].status = s /\ db'[r].episode_count = completed_epochs[r]
               /\ db'[r].snapshot <=> s = "completed" /\ completed_epochs[r] > 0
               /\ db'[r].frames <=>
                    IF s = "completed" THEN completed_epochs[r] > 0 ELSE db[r].frames
      <4>1. s = "completed" => /\ db'[r].rows = Epochs /\ db'[r].episode_count = Epochs
                               /\ db'[r].snapshot <=> Epochs > 0
                               /\ db'[r].frames <=> Epochs > 0
        BY <3>2, <1>1, <1>6
      <4>3. s # "completed" /\ db'[r].frames =>
              s = "failed" /\ Epochs > 0 /\ db'[r].rows = Epochs
        BY <3>2, <1>1, <1>4 DEF RunIsSound, Whole, Unfinished
      <4>2. db'[r].episode_count # db'[r].rows =>
              s = "failed" /\ db'[r].episode_count = db'[r].rows + 1
        BY <3>2, <1>1, <1>5
      <4> QED BY <3>2, <4>1, <4>2, <4>3 DEF Whole
    <3> QED BY <1>1, <3>1, <3>2
  <2> QED BY <2>1, <2>2, <2>3, <2>4, <2>5 DEF RunIsSound
<1>8. ASSUME NEW q \in Runs, q # r
      PROVE  RunIsSound(q)'
  <2>1. RunIsSound(q) /\ Kept(q)
    <3>1. state'[q] = state[q] /\ db'[q] = db[q] /\ completed_epochs'[q] = completed_epochs[q]
      BY <1>1, <1>2, <1>8
    <3>2. /\ q = current' <=> q = current
          /\ q = current /\ pc = "raised" => pc' = "raised"
          /\ InQueue(q) => InQueue(q)'
      BY <1>8
    <3> QED BY <3>1, <3>2 DEF JInv, Kept
  <2> QED BY <2>1, KeptIsSound
<1> QED BY <1>7, <1>8 DEF Sound

LEMMA WorkerEndsSound ==
  ASSUME IInv, JInv, RaiseCancelled \/ CompleteRun \/ FailRun
  PROVE  Sound'
<1>1. PICK s \in Terminal, onError \in {"raised", "dead"} :
        /\ EndRun(s, "taking", onError)
        /\ pc = "raised" => s = "failed"
        /\ s = "completed" <=> onError = "raised"
        /\ s = "completed" => pc = "returned"
  BY DEF RaiseCancelled, CompleteRun, FailRun, AtLoopTop, Terminal
<1>2. pc \notin NoCurrent /\ phase \in Serving
  BY DEF RaiseCancelled, CompleteRun, FailRun, AtLoopTop, NoCurrent, CanWork
<1>3. PICK r \in Runs : r = current /\ r # NoRun
  BY <1>2, CurrentUnannounced DEF IInv, WorkerPlace
<1>4. PICK outcome \in Outcomes :
        /\ FinishRun(r, s, outcome)
        /\ pc' = IF outcome = "ok" THEN "taking" ELSE onError
        /\ current' = IF outcome # "ok" /\ onError = "raised" THEN current ELSE NoRun
  BY <1>1, <1>3 DEF EndRun
<1>5. /\ state' = [state EXCEPT ![r] = s]
      /\ UNCHANGED <<phase, completed_epochs, run_queue, crashes>>
  BY <1>1, <1>3 DEF EndRun
<1>6. db[r].status \in Unfinished \/ (s = "failed" /\ db[r].status = "completed")
  BY <1>1, <1>3 DEF IInv, CurrentIsLive
<1>7. s = "completed" => completed_epochs[r] = Epochs
  BY <1>1, <1>3 DEF JInv, Progress
<1>8. Tracked /\ (Tracked' => outcome = "ok" \/ r = current')
  <2>1. Tracked
    BY <1>2 DEF Tracked, NoCurrent
  <2>2. outcome # "ok" => faults' # 0
    BY <1>4, Finishing, Typed
  <2> QED BY <2>1, <2>2, <1>3, <1>4 DEF Tracked
<1>9. \A q \in Runs : q # r => /\ q = current' <=> q = current
                               /\ q = current /\ pc = "raised" => pc' = "raised"
                               /\ InQueue(q) => InQueue(q)'
  BY <1>3, <1>4, <1>5, NoRunIsNoRun DEF InQueue
<1>10. r = current' => pc' = "raised" /\ pc # "raised"
  BY <1>1, <1>3, <1>4
<1> QED BY <1>1, <1>3, <1>4, <1>5, <1>6, <1>7, <1>8, <1>9, <1>10, FinishSound

LEMMA CancelQueuedSound ==
  ASSUME IInv, JInv, NEW r \in Runs, CancelQueued(r)
  PROVE  Sound'
<1>1. /\ state[r] = "queued" /\ state' = [state EXCEPT ![r] = "cancelled"] /\ phase = "polling"
      /\ UNCHANGED <<completed_epochs, run_queue, pc, current, crashes>>
  BY DEF CancelQueued, CanHandle
<1>2. PICK outcome \in Outcomes : FinishRun(r, "cancelled", outcome) /\ Handled(outcome)
  BY DEF CancelQueued
<1>3. r # current /\ db[r].status \in Unfinished
  <2>1. r # current
    BY <1>1, NoRunIsNoRun DEF IInv, CurrentIsLive, Active
  <2> QED BY <1>1, <2>1 DEF IInv, StoreKnows, Unfinished
<1>4. faults' = IF outcome = "ok" THEN faults ELSE faults + 1
  BY <1>2, Finishing DEF Terminal
<1>5. Tracked' => Tracked /\ outcome = "ok"
  <2>1. Tracked' => Tracked
    BY <1>1, <1>4, TrackedKept DEF Serving
  <2>2. outcome # "ok" => ~Tracked'
    BY <1>2, <1>4, Typed DEF Handled, Tracked, Serving
  <2> QED BY <2>1, <2>2
<1>6. \A q \in Runs : InQueue(q) => InQueue(q)'
  BY <1>1 DEF InQueue
<1>7. "cancelled" \in Terminal /\ "queued" \in Unfinished
  BY DEF Terminal, Unfinished
<1> QED BY <1>1, <1>2, <1>3, <1>5, <1>6, <1>7, FinishSound

LEMMA JoinWorkerSound ==
  ASSUME IInv, JInv, JoinWorker
  PROVE  Sound'
<1>1. /\ phase = "joining" /\ phase' = "draining" /\ current' = NoRun
      /\ UNCHANGED <<completed_epochs, run_queue, crashes>>
  BY DEF JoinWorker
<1>2. pc # "raised"
  BY <1>1 DEF IInv, WorkerPlace, Serving, Holding
<1>3. CASE current = NoRun
  <2>1. UNCHANGED <<state, db, faults>>
    BY <1>3 DEF JoinWorker
  <2>2. Tracked' => Tracked
    BY <1>1, <2>1 DEF Tracked, Serving
  <2> QED BY <1>1, <1>2, <1>3, <2>1, <2>2, QuietSound
<1>4. CASE current # NoRun
  <2>1. PICK r \in Runs : r = current
    BY <1>4, CurrentUnannounced
  <2>2. state' = [state EXCEPT ![r] = "cancelled"]
    BY <1>4, <2>1 DEF JoinWorker
  <2>3. PICK outcome \in Outcomes : FinishRun(r, "cancelled", outcome)
    BY <1>4, <2>1 DEF JoinWorker
  <2>4. db[r].status \in Unfinished /\ r # NoRun
    BY <1>2, <1>4, <2>1 DEF IInv, CurrentIsLive
  <2>5. faults' = IF outcome = "ok" THEN faults ELSE faults + 1
    BY <2>3, Finishing DEF Terminal
  <2>6. Tracked' => Tracked /\ outcome = "ok"
    BY <1>1, <2>5, Typed, <2>1 DEF Tracked, Serving
  <2>7. \A q \in Runs : q # r => /\ q = current' <=> q = current
                                 /\ InQueue(q) => InQueue(q)'
    BY <1>1, <2>1, NoRunIsNoRun DEF InQueue
  <2>8. "cancelled" \in Terminal
    BY DEF Terminal
  <2> QED BY <1>1, <1>2, <2>1, <2>2, <2>3, <2>4, <2>6, <2>7, <2>8, FinishSound
<1> QED BY <1>3, <1>4

LEMMA DrainRunSound ==
  ASSUME IInv, JInv, DrainRun
  PROVE  Sound'
<1>1. /\ phase = "draining" /\ run_queue # <<>> /\ run_queue' = Tail(run_queue)
      /\ UNCHANGED <<completed_epochs, pc, current, crashes>> /\ phase' \notin Serving
  BY DEF DrainRun, Serving
<1>2. pc = "none" /\ current = NoRun
  BY <1>1 DEF JInv, Emptied, IInv, WorkerPlace, NoCurrent
<1>3. PICK r \in Runs : r = Head(run_queue) /\ state[r] \in {"queued", "cancelled"}
  BY <1>1, TailWaits DEF IInv, QueueWaits
<1>4. \A q \in Runs : q # r /\ InQueue(q) => InQueue(q)'
  BY <1>1, <1>3, QueueShrinks
<1>5. CASE state[r] = "cancelled"
  <2>1. UNCHANGED <<state, db, faults>>
    BY <1>3, <1>5 DEF DrainRun
  <2>2. Tracked' => Tracked
    BY <1>1, <2>1 DEF Tracked
  <2>3. RunIsSound(r)
    BY DEF JInv
  <2>4. RunIsSound(r)'
    BY <1>1, <1>2, <1>5, <2>1, <2>2, <2>3, NoRunIsNoRun
       DEF RunIsSound, Fresh, Counted, Placed, Mirrored, InHand, Whole, Active, Unfinished
  <2>5. ASSUME NEW q \in Runs, q # r
        PROVE  RunIsSound(q)'
    <3>1. RunIsSound(q) /\ Kept(q)
      BY <1>1, <1>2, <1>4, <2>1, <2>5 DEF JInv, Kept
    <3> QED BY <2>2, <3>1, KeptIsSound
  <2> QED BY <2>4, <2>5 DEF Sound
<1>6. CASE state[r] # "cancelled"
  <2>1. state' = [state EXCEPT ![r] = "cancelled"]
    BY <1>3, <1>6 DEF DrainRun
  <2>2. PICK outcome \in Outcomes : FinishRun(r, "cancelled", outcome)
    BY <1>3, <1>6 DEF DrainRun
  <2>3. state[r] \in Unfinished /\ db[r].status \in Unfinished /\ r # current
    BY <1>2, <1>3, <1>6, NoRunIsNoRun DEF IInv, StoreKnows, Unfinished
  <2>4. faults' = IF outcome = "ok" THEN faults ELSE faults + 1
    BY <2>2, Finishing DEF Terminal
  <2>5. Tracked' => Tracked /\ outcome = "ok"
    BY <1>1, <2>4, Typed DEF Tracked
  <2>6. "cancelled" \in Terminal
    BY DEF Terminal
  <2> QED BY <1>1, <1>2, <1>4, <2>1, <2>2, <2>3, <2>5, <2>6, FinishSound
<1> QED BY <1>5, <1>6

LEMMA StartSound ==
  ASSUME IInv, JInv, Start
  PROVE  Sound'
<1>1. /\ phase \in Nobody
      /\ UNCHANGED <<state, completed_epochs, run_queue, current, crashes>>
  BY DEF Start, Nobody
<1>2. PICK outcome \in Outcomes :
        /\ faults' = IF outcome = "ok" THEN faults ELSE faults + 1
        /\ db' = IF outcome = "rolledBack" THEN db ELSE Recovered
        /\ phase' = IF outcome = "ok" THEN "polling" ELSE "down"
  BY DEF Start
<1>3. current = NoRun /\ (\A r \in Runs : state[r] = "absent") /\ run_queue = <<>>
  BY <1>1 DEF IInv, NothingRemembered, JInv, Emptied
<1>4. Tracked' => outcome = "ok"
  BY <1>2, ConstantsAssumption DEF Tracked, Serving, IInv, TypeOK
<1>5. ASSUME NEW r \in Runs
      PROVE  RunIsSound(r)'
  <2>1. RunIsSound(r) /\ db \in [Runs -> Row]
    BY DEF JInv, IInv, TypeOK
  <2>2. \/ db'[r] = db[r] /\ (outcome = "ok" => db[r].status \notin Unfinished)
        \/ /\ db[r].status \in Unfinished /\ db'[r].status = "failed"
           /\ db'[r].rows = db[r].rows /\ db'[r].episode_count = db[r].episode_count
           /\ db'[r].snapshot = db[r].snapshot /\ db'[r].frames = db[r].frames
    <3>1. CASE db' = db /\ outcome = "rolledBack"
      BY <3>1
    <3>2. CASE db' = Recovered
      <4>1. CASE db[r].status \in Unfinished
        BY <2>1, <3>2, <4>1 DEF Recovered, WithStatus, Row
      <4>2. CASE db[r].status \notin Unfinished
        BY <2>1, <3>2, <4>2 DEF Recovered
      <4> QED BY <4>1, <4>2
    <3> QED BY <1>2, <3>1, <3>2
  <2>3. state'[r] = "absent" /\ r # current'
    BY <1>1, <1>3, NoRunIsNoRun
  <2>4. Fresh(r)'
    BY <1>1, <2>1 DEF RunIsSound, Fresh
  <2>5. Counted(r)' /\ Placed(r)' /\ Mirrored(r)'
    BY <2>3 DEF Counted, Placed, Mirrored, Unfinished, Active
  <2>6. InHand(r)'
    BY <1>4, <2>2 DEF InHand, Unfinished
  <2>7. Whole(r)'
    BY <2>1, <2>2 DEF RunIsSound, Whole, Unfinished
  <2> QED BY <2>4, <2>5, <2>6, <2>7 DEF RunIsSound
<1> QED BY <1>5 DEF Sound

\* A process that goes forgets every run.  The store has no unfinished one if
\* nothing ever failed and the process was not killed.
LEMMA ProcessEndsSound ==
  ASSUME IInv, JInv, Exit \/ Crash
  PROVE  Sound'
<1>1. /\ db' = db /\ current' = NoRun
      /\ state' = [r \in Runs |-> "absent"] /\ completed_epochs' = [r \in Runs |-> 0]
      /\ phase' \in {"down", "stopped"} /\ faults' = faults
  BY DEF Exit, Crash, Forget, bounds
<1>2. Tracked' => \A r \in Runs : db[r].status \notin Unfinished
  <2>1. SUFFICES ASSUME Tracked', NEW r \in Runs, db[r].status \in Unfinished
                 PROVE  FALSE
    OBVIOUS
  <2>2. faults' = 0 /\ crashes' = 0
    BY <1>1, <2>1 DEF Tracked, Serving
  <2>3. CASE Crash
    BY <2>2, <2>3, Typed, <2>1 DEF Crash
  <2>4. CASE Exit
    <3>1. faults = 0 /\ crashes = 0 /\ phase = "closing"
      BY <1>1, <2>2, <2>4 DEF Exit, bounds
    <3>2. run_queue = <<>> /\ pc = "none"
      BY <3>1 DEF JInv, Emptied
    <3>3. r = current \/ InQueue(r)
      BY <2>1, <3>1 DEF JInv, RunIsSound, InHand, Tracked
    <3> QED BY <3>2, <3>3, NoRunIsNoRun, EmptySeq DEF InQueue, IInv, WorkerPlace, NoCurrent
  <2> QED BY <2>3, <2>4
<1>3. ASSUME NEW r \in Runs
      PROVE  RunIsSound(r)'
  <2>1. state'[r] = "absent" /\ completed_epochs'[r] = 0 /\ r # current'
    BY <1>1, NoRunIsNoRun
  <2>2. Fresh(r)' /\ Counted(r)' /\ Placed(r)' /\ Mirrored(r)'
    BY <2>1 DEF Fresh, Counted, Placed, Mirrored, Unfinished, Active
  <2>3. InHand(r)'
    BY <1>1, <1>2 DEF InHand
  <2>4. Whole(r)'
    BY <1>1 DEF JInv, RunIsSound, Whole
  <2> QED BY <2>2, <2>3, <2>4 DEF RunIsSound
<1> QED BY <1>3 DEF Sound

LEMMA SoundKept ==
  ASSUME IInv, JInv, [Next]_vars
  PROVE  Sound'
<1>1. CASE Requests
  <2>1. CASE Inquire \/ \E r \in Runs : SetMoveDelay(r)
    BY <2>1, ServiceSound
  <2>2. ASSUME NEW r \in Runs, Submit(r) \/ CancelQueued(r)
        PROVE  Sound'
    BY <2>2, SubmitSound, CancelQueuedSound
  <2>3. ASSUME NEW r \in Runs, Pause(r) \/ Resume(r) \/ CancelActive(r)
        PROVE  Sound'
    BY <2>3, ChangeStatusSound DEF Pause, Resume, CancelActive, Active
  <2> QED BY <1>1, <2>1, <2>2, <2>3 DEF Requests
<1>2. CASE Worker
  BY <1>2, TakeRunSound, WorkerMovesSound, RecordEpisodeSound, WorkerEndsSound DEF Worker
<1>3. CASE Shutdown
  BY <1>3, JoinWorkerSound, DrainRunSound, ServiceSound, ProcessEndsSound DEF Shutdown
<1>4. CASE SendEvent \/ ServiceLoop \/ Stop
  BY <1>4, ServiceSound
<1>5. CASE Start \/ Crash
  BY <1>5, StartSound, ProcessEndsSound
<1>6. CASE UNCHANGED vars
  <2>1. UNCHANGED <<state, db, completed_epochs, run_queue, current, pc, phase, faults, crashes>>
    BY <1>6 DEF vars, memory, bounds
  <2> QED BY <2>1, QuietSound DEF Tracked
<1> QED BY <1>1, <1>2, <1>3, <1>4, <1>5, <1>6 DEF Next

-----------------------------------------------------------------------------
(* The rest of the invariant.                                               *)

LEMMA ProgressKept ==
  ASSUME IInv, JInv, [Next]_vars
  PROVE  Progress'
<1>1. Epochs \in Nat /\ current \in Runs \union {NoRun} /\ completed_epochs \in [Runs -> Nat]
  BY ConstantsAssumption DEF IInv, TypeOK
<1>2. CASE \/ UNCHANGED <<pc, current, completed_epochs>>
           \/ current' = NoRun \/ pc' = "raised"
  BY <1>2 DEF JInv, Progress
<1>3. CASE TakeRun
  <2>1. CASE current' = current
    BY <1>3, <2>1 DEF TakeRun, IInv, WorkerPlace, NoCurrent, Progress
  <2>2. CASE current' # current
    <3>1. PICK r \in Runs : r = Head(run_queue) /\ state[r] = "queued"
      BY <1>3, <2>2, TailWaits DEF TakeRun, IInv, QueueWaits
    <3>2. /\ current' = r /\ completed_epochs' = completed_epochs
          /\ pc' \in {"setup", "raised"}
      BY <1>3, <2>2, <3>1 DEF TakeRun
    <3>3. completed_epochs[r] = 0
      BY <3>1 DEF JInv, RunIsSound, Fresh
    <3> QED BY <3>2, <3>3 DEF Progress
  <2> QED BY <2>1, <2>2
<1>4. CASE FinishSetup \/ CheckFlags \/ DelayExpires \/ NextEpisode \/ PlayMove \/ PlayLastMove
  <2>1. UNCHANGED <<completed_epochs, current>>
    BY <1>4 DEF FinishSetup, CheckFlags, DelayExpires, NextEpisode, PlayMove, PlayLastMove,
                WorkerMoves
  <2>2. CASE FinishSetup
    BY <2>1, <2>2, <1>1, NoRunIsNoRun DEF FinishSetup, WorkerMoves, JInv, Progress
  <2>3. CASE CheckFlags
    BY <2>1, <2>3 DEF CheckFlags, AtLoopTop, WorkerMoves, JInv, Progress
  <2>4. CASE DelayExpires \/ NextEpisode \/ PlayMove \/ PlayLastMove
    BY <2>1, <2>4 DEF DelayExpires, NextEpisode, PlayMove, PlayLastMove, Returns,
                      WorkerMoves, JInv, Progress
  <2> QED BY <1>4, <2>2, <2>3, <2>4
<1>5. CASE RecordEpisode
  <2>1. pc = "episodeEnd" /\ current' = current
    BY <1>5 DEF RecordEpisode
  <2>2. current \in Runs /\ current # NoRun /\ completed_epochs[current] \in Nat
        /\ completed_epochs[current] < Epochs
    BY <1>1, <2>1, NoRunIsNoRun DEF IInv, WorkerPlace, NoCurrent, JInv, Progress
  <2>3. completed_epochs'[current] = completed_epochs[current] + 1
    BY <1>1, <1>5, <2>2 DEF RecordEpisode
  <2>4. \/ pc' = "raised"
        \/ completed_epochs[current] + 1 < Epochs /\ pc' = "checking"
        \/ ~(completed_epochs[current] + 1 < Epochs) /\ pc' = "returned"
    BY <1>5 DEF RecordEpisode
  <2> QED BY <1>1, <2>1, <2>2, <2>3, <2>4 DEF Progress
<1>6. CASE SimulationFails \/ AwaitRun \/ RaiseCancelled \/ CompleteRun \/ FailRun
  <2>1. pc' = "raised" \/ current' = NoRun \/ UNCHANGED <<current, completed_epochs>>
    BY <1>6 DEF SimulationFails, WorkerMoves, AwaitRun, RaiseCancelled, CompleteRun, FailRun,
                EndRun
  <2>2. AwaitRun => current' = NoRun
    BY DEF AwaitRun, IInv, WorkerPlace, NoCurrent
  <2>3. RaiseCancelled \/ CompleteRun \/ FailRun => pc' = "raised" \/ current' = NoRun
    BY DEF RaiseCancelled, CompleteRun, FailRun, EndRun
  <2>4. SimulationFails => pc' = "raised"
    BY DEF SimulationFails, WorkerMoves
  <2> QED BY <1>2, <1>6, <2>2, <2>3, <2>4
<1>7. CASE Requests
  BY <1>2, <1>7 DEF Requests, Submit, Pause, Resume, CancelActive, CancelQueued, ChangeStatus,
                    SetMoveDelay, Inquire, memory
<1>8. CASE Shutdown
  BY <1>2, <1>8 DEF Shutdown, JoinWorker, DrainRun, CloseEvents, Exit, Forget, memory
<1>9. CASE Start
  BY <1>2, <1>9 DEF Start, IInv, NothingRemembered, Nobody
<1>10. CASE SendEvent \/ ServiceLoop \/ Stop \/ Crash \/ UNCHANGED vars
  BY <1>2, <1>10 DEF SendEvent, ServiceLoop, Stop, Crash, Forget, memory, vars
<1> QED BY <1>3, <1>4, <1>5, <1>6, <1>7, <1>8, <1>9, <1>10 DEF Next, Worker

LEMMA EmptiedKept ==
  ASSUME IInv, JInv, [Next]_vars
  PROVE  Emptied'
<1>1. CASE Requests \/ Worker
  <2>1. phase' \in {"polling", "replying", "joining"}
    <3>1. CASE Requests
      BY <3>1 DEF Requests, Submit, Pause, Resume, CancelActive, CancelQueued, ChangeStatus,
                  SetMoveDelay, Inquire, Handled
    <3>2. CASE Worker
      BY <3>2 DEF Worker, TakeRun, AwaitRun, FinishSetup, RaiseCancelled, CheckFlags,
                  DelayExpires, NextEpisode, PlayMove, PlayLastMove, RecordEpisode,
                  SimulationFails, CompleteRun, FailRun, EndRun, WorkerMoves, CanWork, Returns,
                  Serving
    <3> QED BY <1>1, <3>1, <3>2
  <2> QED BY <2>1 DEF Emptied, Nobody
<1>2. CASE SendEvent \/ ServiceLoop \/ Stop \/ UNCHANGED vars
  BY <1>2 DEF SendEvent, ServiceLoop, Stop, vars, memory, bounds, JInv, Emptied, Nobody, Serving
<1>3. CASE JoinWorker
  BY <1>3 DEF JoinWorker, Emptied, Nobody
<1>4. CASE DrainRun
  <2>1. pc' = pc /\ phase = "draining" /\ phase' \in {"draining", "closing"}
    BY <1>4 DEF DrainRun
  <2>2. phase' = "closing" => faults' # 0
    <3>1. SUFFICES ASSUME phase' = "closing" PROVE faults' # 0
      OBVIOUS
    <3>2. PICK outcome \in Outcomes :
            FinishRun(Head(run_queue), "cancelled", outcome) /\ outcome # "ok"
      BY <1>4, <2>1, <3>1 DEF DrainRun
    <3>3. faults' = faults + 1 /\ faults \in Nat
      BY <3>2, ConstantsAssumption DEF FinishRun, Transaction, IInv, TypeOK
    <3> QED BY <3>3
  <2> QED BY <2>1, <2>2 DEF JInv, Emptied, Nobody
<1>5. CASE CloseEvents
  BY <1>5 DEF CloseEvents, memory, JInv, Emptied, Nobody
<1>6. CASE Exit \/ Crash
  BY <1>6 DEF Exit, Crash, Forget, Emptied, Nobody
<1>7. CASE Start
  BY <1>7 DEF Start, JInv, Emptied, Nobody
<1> QED BY <1>1, <1>2, <1>3, <1>4, <1>5, <1>6, <1>7 DEF Next, Shutdown

\* Steps that announce nothing, and end no run unless a call fails.
LEMMA QuietAnnounced ==
  ASSUME IInv, JInv, ended' = ended,
         faults' = 0 /\ crashes' = 0 =>
           /\ faults = 0 /\ crashes = 0
           /\ \A r \in Runs : db'[r].status \in Terminal => db[r].status \in Terminal
  PROVE  Announced'
  BY DEF JInv, Announced

\* A run that is finished without a fault is announced.
LEMMA FinishAnnounced ==
  ASSUME IInv, JInv, NEW r \in Runs, NEW s \in Terminal, NEW outcome \in Outcomes,
         FinishRun(r, s, outcome), crashes' = crashes
  PROVE  Announced'
<1>1. SUFFICES ASSUME faults' = 0, crashes' = 0 PROVE Announced'
  BY DEF Announced
<1>2. outcome = "ok" /\ faults = 0 /\ crashes = 0 /\ \A q \in Runs : q # r => db'[q] = db[q]
  BY <1>1, Finishing, Typed
<1>3. /\ ended \in Seq(Event) /\ Len(ended) \in Nat /\ [run |-> r, state |-> s] \in Event
      /\ ended' = Append(ended, [run |-> r, state |-> s])
  BY <1>2, Elements DEF IInv, TypeOK, Event, FinishRun
<1>4. /\ Len(ended') = Len(ended) + 1 /\ ended'[Len(ended) + 1].run = r
      /\ \A i \in 1..Len(ended) : ended'[i] = ended[i]
  BY <1>3
<1>5. ASSUME NEW q \in Runs, db'[q].status \in Terminal
      PROVE  \E i \in 1..Len(ended') : ended'[i].run = q
  <2>1. CASE q = r
    <3>1. Len(ended) + 1 \in 1..Len(ended')
      BY <1>3, <1>4
    <3> QED BY <2>1, <1>4, <3>1
  <2>2. CASE q # r
    <3>1. PICK i \in 1..Len(ended) : ended[i].run = q
      BY <1>2, <1>5, <2>2 DEF JInv, Announced
    <3>2. i \in 1..Len(ended')
      BY <1>3, <1>4
    <3> QED BY <1>4, <3>1, <3>2
  <2> QED BY <2>1, <2>2
<1> QED BY <1>5 DEF Announced

LEMMA AnnouncedKept ==
  ASSUME IInv, JInv, [Next]_vars
  PROVE  Announced'
<1> USE DEF Terminal
<1>1. faults \in Nat /\ crashes \in Nat /\ db \in [Runs -> Row]
  BY ConstantsAssumption DEF IInv, TypeOK
<1>2. ASSUME NEW r \in Runs, NEW row, NEW outcome \in Outcomes, Transaction(outcome, r, row),
             row.status \notin Terminal \/ row.status = db[r].status,
             crashes' = crashes, ended' = ended
      PROVE  Announced'
  <2>1. \A q \in Runs : db'[q] = db[q] \/ (q = r /\ db'[q] = row)
    BY <1>1, <1>2 DEF Transaction
  <2>2. faults' = 0 => faults = 0
    BY <1>1, <1>2 DEF Transaction
  <2>3. \A q \in Runs : db'[q].status \in Terminal => db[q].status \in Terminal
    BY <1>2, <2>1
  <2> QED BY <1>2, <2>2, <2>3, QuietAnnounced
<1>3. ASSUME UNCHANGED <<db, faults, crashes, ended>>
      PROVE  Announced'
  BY <1>3, QuietAnnounced
<1>4. CASE Requests
  <2>1. ASSUME NEW r \in Runs, Submit(r)
        PROVE  Announced'
    <3>1. [AbsentRow EXCEPT !.status = "queued"].status = "queued"
      BY DEF AbsentRow
    <3> QED BY <2>1, <3>1, <1>2 DEF Submit
  <2>2. ASSUME NEW r \in Runs, Pause(r) \/ Resume(r) \/ CancelActive(r)
        PROVE  Announced'
    <3>1. PICK s \in Active : ChangeStatus(r, s)
      BY <2>2 DEF Pause, Resume, CancelActive, Active
    <3>2. PICK outcome \in Outcomes : Transaction(outcome, r, WithStatus(r, s))
      BY <3>1 DEF ChangeStatus
    <3>3. WithStatus(r, s).status = s /\ s \notin Terminal
      BY StatusUpdate DEF WithStatus, IInv, TypeOK, Active, States, Unfinished
    <3> QED BY <3>1, <3>2, <3>3, <1>2 DEF ChangeStatus
  <2>3. ASSUME NEW r \in Runs, CancelQueued(r)
        PROVE  Announced'
    BY <2>3, FinishAnnounced DEF CancelQueued
  <2>4. CASE Inquire
    <3>1. PICK outcome \in {"ok", "rolledBack"}, r \in Runs : Transaction(outcome, r, db[r])
      BY <2>4 DEF Inquire
    <3> QED BY <2>4, <3>1, <1>2 DEF Inquire, Outcomes
  <2>5. ASSUME NEW r \in Runs, SetMoveDelay(r)
        PROVE  Announced'
    BY <2>5, <1>3 DEF SetMoveDelay, bounds
  <2> QED BY <1>4, <2>1, <2>2, <2>3, <2>4, <2>5 DEF Requests
<1>5. CASE TakeRun
  <2>1. PICK r \in Runs : r = Head(run_queue)
    BY <1>5, TailWaits DEF TakeRun
  <2>2. CASE state[r] = "cancelled"
    BY <1>5, <2>1, <2>2, <1>3 DEF TakeRun
  <2>3. CASE state[r] # "cancelled"
    <3>1. PICK outcome \in Outcomes : Transaction(outcome, r, WithStatus(r, "running"))
      BY <1>5, <2>1, <2>3 DEF TakeRun
    <3>2. WithStatus(r, "running").status = "running"
      BY StatusUpdate DEF WithStatus, IInv, TypeOK, States, Unfinished
    <3> QED BY <1>5, <3>1, <3>2, <1>2 DEF TakeRun
  <2> QED BY <2>2, <2>3
<1>6. CASE RecordEpisode
  <2> DEFINE n == completed_epochs[current] + 1
             row == [db[current] EXCEPT !.rows = @ + 1, !.episode_count = n]
  <2>1. current \in Runs
    BY <1>6, CurrentUnannounced DEF RecordEpisode, IInv, WorkerPlace, NoCurrent
  <2>2. PICK outcome \in Outcomes : Transaction(outcome, current, row)
    BY <1>6 DEF RecordEpisode
  <2>3. row.status = db[current].status
    BY <1>1, <2>1 DEF Row
  <2>4. crashes' = crashes /\ ended' = ended
    BY <1>6 DEF RecordEpisode
  <2> HIDE DEF row
  <2> QED BY <2>1, <2>2, <2>3, <2>4, <1>2
<1>7. CASE RaiseCancelled \/ CompleteRun \/ FailRun
  <2>1. PICK s \in Terminal, onError \in {"raised", "dead"} : EndRun(s, "taking", onError)
    BY <1>7 DEF RaiseCancelled, CompleteRun, FailRun
  <2>2. current \in Runs
    BY <1>7, CurrentUnannounced
       DEF RaiseCancelled, CompleteRun, FailRun, AtLoopTop, IInv, WorkerPlace, NoCurrent
  <2> QED BY <2>1, <2>2, FinishAnnounced DEF EndRun
<1>8. CASE \/ FinishSetup \/ CheckFlags \/ DelayExpires \/ NextEpisode \/ PlayMove
           \/ PlayLastMove \/ SimulationFails \/ AwaitRun
  BY <1>3, <1>8 DEF FinishSetup, CheckFlags, DelayExpires, NextEpisode, PlayMove, PlayLastMove,
                    SimulationFails, AwaitRun, WorkerMoves, bounds
<1>9. CASE JoinWorker
  <2>1. CASE current = NoRun
    BY <1>3, <1>9, <2>1 DEF JoinWorker
  <2>2. CASE current # NoRun
    BY <1>9, <2>2, CurrentUnannounced, FinishAnnounced DEF JoinWorker
  <2> QED BY <2>1, <2>2
<1>10. CASE DrainRun
  <2>1. PICK r \in Runs : r = Head(run_queue)
    BY <1>10, TailWaits DEF DrainRun
  <2>2. CASE state[r] = "cancelled"
    BY <1>3, <1>10, <2>1, <2>2 DEF DrainRun
  <2>3. CASE state[r] # "cancelled"
    BY <1>10, <2>1, <2>3, FinishAnnounced DEF DrainRun
  <2> QED BY <2>2, <2>3
<1>11. CASE CloseEvents \/ Exit \/ SendEvent \/ ServiceLoop \/ Stop \/ UNCHANGED vars
  BY <1>3, <1>11 DEF CloseEvents, Exit, SendEvent, ServiceLoop, Stop, vars, bounds
<1>12. CASE Crash
  BY <1>1, <1>12 DEF Crash, Announced
<1>13. CASE Start
  <2>1. ended' = ended /\ crashes' = crashes /\ phase \in Nobody
    BY <1>13 DEF Start, Nobody
  <2>2. faults' = 0 => faults = 0
    BY <1>1, <1>13 DEF Start
  <2>3. ASSUME faults = 0, crashes = 0
        PROVE  db' = db
    <3>1. current = NoRun /\ run_queue = <<>>
      BY <2>1 DEF IInv, NothingRemembered, JInv, Emptied
    <3>2. \A r \in Runs : db[r].status \notin Unfinished
      BY <2>3, <3>1, NoRunIsNoRun, EmptySeq DEF JInv, RunIsSound, InHand, Tracked, InQueue
    <3>3. Recovered = db
      BY <1>1, <3>2 DEF Recovered
    <3> QED BY <1>13, <3>3 DEF Start
  <2> QED BY <2>1, <2>2, <2>3, QuietAnnounced
<1> QED BY <1>4, <1>5, <1>6, <1>7, <1>8, <1>9, <1>10, <1>11, <1>12, <1>13
        DEF Next, Worker, Shutdown

\* Steps that submit nothing, and take at most the head off the queue.
LEMMA QuietListed ==
  ASSUME IInv, JInv, runs' = runs,
         run_queue' = run_queue \/ (run_queue # <<>> /\ run_queue' = Tail(run_queue)),
         \A r \in Runs : state'[r] = "absent" <=> state[r] = "absent"
  PROVE  Listed'
<1>1. Len(run_queue) \in Nat
  BY DEF IInv, TypeOK
<1>2. /\ \A i, j \in 1..Len(runs') : runs'[i] = runs'[j] => i = j
      /\ \A r \in Runs : state'[r] # "absent" <=> \E i \in 1..Len(runs') : runs'[i] = r
  BY DEF JInv, Listed
<1>3. ASSUME NEW i \in 1..Len(run_queue'), NEW j \in 1..Len(run_queue'),
             NEW k \in 1..Len(runs'), NEW l \in 1..Len(runs'),
             i < j, runs'[k] = run_queue'[i], runs'[l] = run_queue'[j]
      PROVE  k < l
  <2>1. CASE run_queue' = run_queue
    BY <1>3, <2>1 DEF JInv, Listed
  <2>2. CASE run_queue # <<>> /\ run_queue' = Tail(run_queue)
    <3>1. /\ Len(run_queue') = Len(run_queue) - 1
          /\ run_queue'[i] = run_queue[i + 1] /\ i + 1 \in 1..Len(run_queue)
          /\ run_queue'[j] = run_queue[j + 1] /\ j + 1 \in 1..Len(run_queue)
      BY <2>2, TailWaits
    <3>2. i + 1 < j + 1
      BY <1>1, <1>3, <3>1
    <3> QED BY <1>3, <3>1, <3>2 DEF JInv, Listed
  <2> QED BY <2>1, <2>2
<1> QED BY <1>2, <1>3 DEF Listed

LEMMA SubmitListed ==
  ASSUME IInv, JInv, NEW r \in Runs, Submit(r)
  PROVE  Listed'
<1>1. state[r] = "absent"
  BY DEF Submit, IInv, StoreKnows
<1>2. CASE UNCHANGED <<runs, state, run_queue>>
  BY <1>2, QuietListed
<1>3. CASE /\ runs' = Append(runs, r)
           /\ state' = [state EXCEPT ![r] = "queued"]
           /\ run_queue' = Append(run_queue, r)
  <2> DEFINE n == Len(runs)
             m == Len(run_queue)
  <2>1. /\ runs \in Seq(Runs) /\ run_queue \in Seq(Runs) /\ n \in Nat /\ m \in Nat
        /\ state \in [Runs -> {"absent"} \union States]
    BY DEF IInv, TypeOK
  <2>2. /\ Len(runs') = n + 1 /\ runs'[n + 1] = r /\ \A i \in 1..n : runs'[i] = runs[i]
        /\ Len(run_queue') = m + 1 /\ run_queue'[m + 1] = r
        /\ \A i \in 1..m : run_queue'[i] = run_queue[i]
    BY <1>3, <2>1
  <2>3. state'[r] = "queued" /\ \A q \in Runs : q # r => state'[q] = state[q]
    BY <1>3, <2>1
  <2>4. \A i \in 1..n : runs[i] \in Runs /\ runs[i] # r
    BY <1>1, <2>1, ElementOfSeq DEF JInv, Listed
  <2>5. \A i \in 1..m : run_queue[i] # r
    BY <1>1 DEF IInv, QueueWaits
  <2> HIDE DEF n, m
  <2>6. \A i, j \in 1..Len(runs') : runs'[i] = runs'[j] => i = j
    <3>1. \A i \in 1..Len(runs') : i \in 1..n \/ i = n + 1
      BY <2>1, <2>2
    <3> QED BY <2>2, <2>4, <3>1 DEF JInv, Listed, n
  <2>7. \A q \in Runs : state'[q] # "absent" <=> \E i \in 1..Len(runs') : runs'[i] = q
    <3>1. ASSUME NEW q \in Runs, q = r
          PROVE  state'[q] # "absent" /\ \E i \in 1..Len(runs') : runs'[i] = q
      <4>1. n + 1 \in 1..Len(runs')
        BY <2>1, <2>2
      <4> QED BY <2>2, <2>3, <3>1, <4>1
    <3>2. ASSUME NEW q \in Runs, q # r
          PROVE  state'[q] # "absent" <=> \E i \in 1..Len(runs') : runs'[i] = q
      <4>1. state'[q] # "absent" <=> \E i \in 1..n : runs[i] = q
        BY <2>3, <3>2 DEF JInv, Listed, n
      <4>2. \A i \in 1..Len(runs') : runs'[i] = q => i \in 1..n /\ runs[i] = q
        BY <2>1, <2>2, <3>2
      <4>3. \A i \in 1..n : i \in 1..Len(runs') /\ runs'[i] = runs[i]
        BY <2>1, <2>2
      <4> QED BY <4>1, <4>2, <4>3
    <3> QED BY <3>1, <3>2
  <2>8. ASSUME NEW i \in 1..Len(run_queue'), NEW j \in 1..Len(run_queue'),
               NEW k \in 1..Len(runs'), NEW l \in 1..Len(runs'),
               i < j, runs'[k] = run_queue'[i], runs'[l] = run_queue'[j]
        PROVE  k < l
    <3>1. i \in 1..m
      BY <2>1, <2>2, <2>8
    <3>2. run_queue'[i] = run_queue[i] /\ run_queue[i] # r
      BY <2>2, <2>5, <3>1
    <3>3. k \in 1..n /\ runs'[k] = runs[k]
      BY <2>1, <2>2, <2>8, <3>2
    <3>4. CASE l = n + 1
      BY <2>1, <3>3, <3>4
    <3>5. CASE l \in 1..n
      <4>1. runs'[l] = runs[l] /\ runs[l] # r
        BY <2>2, <2>4, <3>5
      <4>2. j \in 1..m \/ j = m + 1
        BY <2>1, <2>2
      <4>3. j \in 1..m /\ run_queue'[j] = run_queue[j]
        BY <2>2, <2>8, <4>1, <4>2
      <4>4. runs[k] = run_queue[i] /\ runs[l] = run_queue[j]
        BY <2>8, <3>2, <3>3, <4>1, <4>3
      <4> QED BY <2>8, <3>1, <3>3, <3>5, <4>3, <4>4 DEF JInv, Listed, n, m
    <3> QED BY <2>1, <2>2, <3>4, <3>5
  <2> QED BY <2>6, <2>7, <2>8 DEF Listed
<1> QED BY <1>2, <1>3 DEF Submit

LEMMA ListedKept ==
  ASSUME IInv, JInv, [Next]_vars
  PROVE  Listed'
<1>1. state \in [Runs -> {"absent"} \union States]
  BY DEF IInv, TypeOK
<1>2. ASSUME runs' = runs,
             run_queue' = run_queue \/ (run_queue # <<>> /\ run_queue' = Tail(run_queue)),
             \/ state' = state
             \/ \E r \in Runs, s \in States :
                  state[r] # "absent" /\ state' = [state EXCEPT ![r] = s]
      PROVE  Listed'
  <2>1. \A s \in States : s # "absent"
    BY DEF States, Unfinished, Terminal
  <2> QED BY <1>1, <1>2, <2>1, QuietListed
<1>3. CASE Requests
  <2>1. ASSUME NEW r \in Runs, Pause(r) \/ Resume(r) \/ CancelActive(r) \/ CancelQueued(r)
        PROVE  Listed'
    BY <2>1, <1>2 DEF Pause, Resume, CancelActive, CancelQueued, ChangeStatus,
                      States, Unfinished, Terminal
  <2>2. ASSUME Inquire \/ \E r \in Runs : SetMoveDelay(r)
        PROVE  Listed'
    BY <2>2, <1>2 DEF Inquire, SetMoveDelay, memory
  <2> QED BY <1>3, <2>1, <2>2, SubmitListed DEF Requests
<1>4. CASE TakeRun \/ DrainRun
  <2>1. /\ run_queue # <<>> /\ run_queue' = Tail(run_queue) /\ runs' = runs
        /\ \/ state' = state
           \/ \E s \in States : state' = [state EXCEPT ![Head(run_queue)] = s]
    BY <1>4 DEF TakeRun, DrainRun, States, Unfinished, Terminal
  <2>2. Head(run_queue) \in Runs /\ state[Head(run_queue)] # "absent"
    BY <2>1, TailWaits DEF IInv, QueueWaits
  <2> QED BY <1>2, <2>1, <2>2
<1>5. CASE RaiseCancelled \/ CompleteRun \/ FailRun \/ JoinWorker
  <2>1. /\ UNCHANGED <<runs, run_queue>>
        /\ \/ state' = state
           \/ current # NoRun /\ \E s \in States : state' = [state EXCEPT ![current] = s]
    <3>1. CASE JoinWorker
      BY <3>1 DEF JoinWorker, States, Terminal
    <3>2. CASE RaiseCancelled \/ CompleteRun \/ FailRun
      BY <3>2 DEF RaiseCancelled, CompleteRun, FailRun, EndRun, AtLoopTop, States, Terminal,
                  IInv, WorkerPlace, NoCurrent
    <3> QED BY <1>5, <3>1, <3>2
  <2>2. current # NoRun => current \in Runs /\ state[current] # "absent"
    BY CurrentUnannounced DEF IInv, CurrentIsLive, Active
  <2> QED BY <1>2, <2>1, <2>2
<1>6. CASE \/ FinishSetup \/ CheckFlags \/ DelayExpires \/ NextEpisode \/ PlayMove
           \/ PlayLastMove \/ SimulationFails \/ AwaitRun \/ RecordEpisode
  BY <1>2, <1>6 DEF FinishSetup, CheckFlags, DelayExpires, NextEpisode, PlayMove, PlayLastMove,
                    SimulationFails, AwaitRun, RecordEpisode, WorkerMoves
<1>7. CASE Exit \/ Crash
  <2>1. runs' = <<>> /\ run_queue' = <<>> /\ \A r \in Runs : state'[r] = "absent"
    BY <1>7 DEF Exit, Crash, Forget
  <2> QED BY <2>1, EmptySeq DEF Listed
<1>8. CASE CloseEvents \/ SendEvent \/ ServiceLoop \/ Stop \/ Start \/ UNCHANGED vars
  BY <1>2, <1>8 DEF CloseEvents, SendEvent, ServiceLoop, Stop, Start, memory, vars
<1> QED BY <1>3, <1>4, <1>5, <1>6, <1>7, <1>8 DEF Next, Worker, Shutdown

LEMMA InitJ == Init => JInv
<1> SUFFICES ASSUME Init PROVE JInv
  OBVIOUS
<1>1. Len(runs) = 0 /\ Len(run_queue) = 0 /\ Len(ended) = 0 /\ Epochs \in Nat
  BY EmptySeq, ConstantsAssumption DEF Init
<1>2. \A r \in Runs : RunIsSound(r)
  BY <1>1, NoRunIsNoRun
     DEF Init, RunIsSound, Fresh, Counted, Placed, Mirrored, InHand, Whole, AbsentRow,
         Unfinished, Active
<1>3. Progress /\ Emptied /\ Announced /\ Listed
  BY <1>1 DEF Init, Progress, Emptied, Announced, Listed, AbsentRow, Terminal
<1> QED BY <1>2, <1>3 DEF JInv

\* The second invariant is inductive, together with the first.
THEOREM StoreInvariance == Spec => [](IInv /\ JInv)
<1>1. Init => IInv /\ JInv
  BY InitInv, InitJ
<1>2. IInv /\ JInv /\ [Next]_vars => (IInv /\ JInv)'
  BY NextInv, SoundKept, ProgressKept, EmptiedKept, AnnouncedKept, ListedKept DEF JInv, Sound
<1> QED BY <1>1, <1>2, PTL DEF Spec

-----------------------------------------------------------------------------
(* What the server says of a run and what its control says.                 *)

\* A run that begins, waits, runs or ends, its control left as it is.
LEMMA StateMoves ==
  ASSUME TypeOK, FlagsAgree, NEW r \in Runs, NEW s, UNCHANGED control,
         state' = [state EXCEPT ![r] = s],
         \/ s \in Terminal
         \/ s = "running" /\ state[r] = "queued"
         \/ s = "queued" /\ state[r] = "absent"
  PROVE  FlagsAgree'
<1> SUFFICES ASSUME NEW q \in Runs
             PROVE  /\ control[q].paused => state'[q] \notin {"absent", "queued", "running"}
                    /\ control[q].cancel_requested =>
                         state'[q] \notin {"absent", "queued", "running", "paused"}
                    /\ state'[q] = "paused" => control[q].paused
                    /\ state'[q] = "cancelling" => control[q].cancel_requested
  BY DEF FlagsAgree
<1>1. state'[q] = IF q = r THEN s ELSE state[q]
  BY DEF TypeOK
<1>2. CASE q = r
  BY <1>1, <1>2 DEF FlagsAgree, Terminal
<1>3. CASE q # r
  BY <1>1, <1>3 DEF FlagsAgree
<1> QED BY <1>2, <1>3

\* The requests that change a control.
LEMMA ControlMoves ==
  ASSUME TypeOK, FlagsAgree, NEW r \in Runs,
         \/ Pause(r) \/ Resume(r) \/ CancelActive(r) \/ CancelQueued(r) \/ SetMoveDelay(r)
  PROVE  FlagsAgree'
<1> SUFFICES ASSUME NEW q \in Runs
             PROVE  /\ control'[q].paused => state'[q] \notin {"absent", "queued", "running"}
                    /\ control'[q].cancel_requested =>
                         state'[q] \notin {"absent", "queued", "running", "paused"}
                    /\ state'[q] = "paused" => control'[q].paused
                    /\ state'[q] = "cancelling" => control'[q].cancel_requested
  BY DEF FlagsAgree
<1>1. /\ control \in [Runs -> Controls] /\ state \in [Runs -> {"absent"} \union States]
      /\ control[r] \in Controls
  BY DEF TypeOK
<1>2. CASE q # r
  <2>1. control'[q] = control[q] /\ state'[q] = state[q]
    BY <1>1, <1>2 DEF Pause, Resume, CancelActive, CancelQueued, SetMoveDelay, ChangeStatus
  <2> QED BY <2>1 DEF FlagsAgree
<1>3. CASE q = r
  <2> DEFINE f == control[r]
             g == control'[r]
  <2>1. CASE Pause(r)
    <3>1. state[r] = "running" /\ state'[r] = "paused"
      BY <1>1, <2>1 DEF Pause, ChangeStatus
    <3>2. g.paused = TRUE /\ g.cancel_requested = f.cancel_requested
      BY <1>1, <2>1 DEF Pause, Controls
    <3> QED BY <1>3, <3>1, <3>2 DEF FlagsAgree
  <2>2. CASE Resume(r)
    <3>1. state[r] = "paused" /\ state'[r] = "running"
      BY <1>1, <2>2 DEF Resume, ChangeStatus
    <3>2. g.paused = FALSE /\ g.cancel_requested = f.cancel_requested
      BY <1>1, <2>2 DEF Resume, Controls
    <3> QED BY <1>3, <3>1, <3>2 DEF FlagsAgree
  <2>3. CASE CancelActive(r)
    <3>1. state'[r] = "cancelling"
      BY <1>1, <2>3 DEF CancelActive, ChangeStatus
    <3>2. g.cancel_requested = TRUE
      BY <1>1, <2>3 DEF CancelActive, Controls
    <3> QED BY <1>3, <3>1, <3>2
  <2>4. CASE CancelQueued(r)
    <3>1. state'[r] = "cancelled"
      BY <1>1, <2>4 DEF CancelQueued
    <3> QED BY <1>3, <3>1
  <2>5. CASE SetMoveDelay(r)
    <3>1. state'[r] = state[r]
      BY <2>5 DEF SetMoveDelay
    <3>2. g.paused = f.paused /\ g.cancel_requested = f.cancel_requested
      BY <1>1, <2>5 DEF SetMoveDelay, Controls
    <3> QED BY <1>3, <3>1, <3>2 DEF FlagsAgree
  <2> QED BY <2>1, <2>2, <2>3, <2>4, <2>5
<1> QED BY <1>2, <1>3

\* What the server says of a run stays what its control says.
LEMMA FlagsKept == IInv /\ FlagsAgree /\ [Next]_vars => FlagsAgree'
<1> SUFFICES ASSUME IInv, FlagsAgree, [Next]_vars PROVE FlagsAgree'
  OBVIOUS
<1> USE DEF IInv
<1>1. CASE UNCHANGED <<state, control>>
  BY <1>1 DEF FlagsAgree
<1>2. ASSUME NEW r \in Runs, Submit(r) PROVE FlagsAgree'
  <2>1. state[r] = "absent"
    BY <1>2 DEF Submit, StoreKnows
  <2>2. UNCHANGED control /\ (state' = state \/ state' = [state EXCEPT ![r] = "queued"])
    BY <1>2 DEF Submit
  <2> QED BY <1>1, <2>1, <2>2, StateMoves
<1>3. CASE TakeRun
  <2>1. UNCHANGED control
    BY <1>3 DEF TakeRun
  <2> DEFINE r == Head(run_queue)
  <2>2. r \in Runs /\ state[r] \in {"queued", "cancelled"}
    <3>1. run_queue # <<>> /\ run_queue \in Seq(Runs)
      BY <1>3 DEF TakeRun, TypeOK
    <3>2. 1 \in 1..Len(run_queue) /\ r = run_queue[1]
      BY <3>1
    <3> QED BY <3>2, Elements DEF QueueWaits
  <2>3. state' = state \/ (state[r] # "cancelled" /\ state' = [state EXCEPT ![r] = "running"])
    BY <1>3 DEF TakeRun
  <2> QED BY <1>1, <2>1, <2>2, <2>3, StateMoves
<1>4. CASE RaiseCancelled \/ CompleteRun \/ FailRun
  <2>1. PICK s \in Terminal : state' = [state EXCEPT ![current] = s] /\ UNCHANGED control
    BY <1>4 DEF RaiseCancelled, CompleteRun, FailRun, EndRun, Terminal
  <2>2. current \in Runs
    <3>1. pc \notin NoCurrent
      BY <1>4 DEF RaiseCancelled, CompleteRun, FailRun, AtLoopTop, NoCurrent
    <3> QED BY <3>1 DEF WorkerPlace, TypeOK
  <2> QED BY <2>1, <2>2, StateMoves
<1>5. CASE JoinWorker
  <2>1. UNCHANGED control
    BY <1>5 DEF JoinWorker
  <2>2. CASE current = NoRun
    BY <1>1, <1>5, <2>1, <2>2 DEF JoinWorker
  <2>3. CASE current # NoRun
    <3>1. current \in Runs /\ state' = [state EXCEPT ![current] = "cancelled"]
      BY <1>5, <2>3 DEF JoinWorker, TypeOK
    <3> QED BY <2>1, <3>1, StateMoves DEF Terminal
  <2> QED BY <2>2, <2>3
<1>6. CASE DrainRun
  <2> DEFINE r == Head(run_queue)
  <2>1. r \in Runs
    <3>1. run_queue # <<>> /\ run_queue \in Seq(Runs)
      BY <1>6 DEF DrainRun, TypeOK
    <3> QED BY <3>1
  <2>2. UNCHANGED control /\ (state' = state \/ state' = [state EXCEPT ![r] = "cancelled"])
    BY <1>6 DEF DrainRun
  <2> QED BY <1>1, <2>1, <2>2, StateMoves DEF Terminal
<1>7. CASE Forget
  <2>1. \A r \in Runs : state'[r] = "absent" /\ control'[r] = FreshControl
    BY <1>7 DEF Forget
  <2>2. \A r \in Runs : ~control'[r].paused /\ ~control'[r].cancel_requested
    BY <2>1 DEF FreshControl
  <2> QED BY <2>1, <2>2 DEF FlagsAgree
<1>8. CASE Requests
  <2>1. CASE Inquire
    BY <1>1, <2>1 DEF Inquire, memory
  <2>2. ASSUME NEW r \in Runs,
               \/ Submit(r) \/ Pause(r) \/ Resume(r) \/ SetMoveDelay(r)
               \/ CancelActive(r) \/ CancelQueued(r)
        PROVE  FlagsAgree'
    BY <1>2, <2>2, ControlMoves
  <2> QED BY <1>8, <2>1, <2>2 DEF Requests
<1>9. CASE Worker
  <2>1. CASE AwaitRun \/ FinishSetup \/ CheckFlags \/ DelayExpires \/ NextEpisode \/ PlayMove
             \/ PlayLastMove \/ RecordEpisode \/ SimulationFails
    BY <1>1, <2>1 DEF AwaitRun, FinishSetup, CheckFlags, DelayExpires, NextEpisode, PlayMove,
                      PlayLastMove, RecordEpisode, SimulationFails, WorkerMoves
  <2> QED BY <1>3, <1>4, <1>9, <2>1 DEF Worker
<1>10. CASE Shutdown
  BY <1>1, <1>5, <1>6, <1>7, <1>10 DEF Shutdown, CloseEvents, Exit, memory
<1>11. CASE SendEvent \/ ServiceLoop \/ Stop \/ Start
  BY <1>1, <1>11 DEF SendEvent, ServiceLoop, Stop, Start, memory
<1>12. CASE Crash
  BY <1>7, <1>12 DEF Crash
<1>13. CASE UNCHANGED vars
  BY <1>1, <1>13 DEF vars, memory
<1> QED BY <1>8, <1>9, <1>10, <1>11, <1>12, <1>13 DEF Next

\* The second invariant needs nothing but the first.
LEMMA FlagsInvariance == Spec => [](IInv /\ FlagsAgree)
<1>1. Init => FlagsAgree
  <2> SUFFICES ASSUME Init PROVE FlagsAgree
    OBVIOUS
  <2>1. ~FreshControl.paused /\ ~FreshControl.cancel_requested
    BY DEF FreshControl
  <2>2. \A r \in Runs : state[r] = "absent" /\ control[r] = FreshControl
    BY DEF Init
  <2> QED BY <2>1, <2>2 DEF FlagsAgree
<1> QED BY <1>1, FlagsKept, Invariance, PTL DEF Spec

-----------------------------------------------------------------------------
(* What follows from the invariant.                                         *)

\* A set of positive integers that is not empty has a least element.
LEMMA LeastIndex ==
  ASSUME NEW T, T \subseteq Nat, T # {}
  PROVE  \E i \in T : \A j \in T : i <= j
<1> DEFINE R == OpToRel(<, Nat)
<1>1. IsWellFoundedOn(R, Nat)
  BY NatLessThanWellFounded
<1>2. \A i, j \in T : j < i => <<j, i>> \in R
  BY DEF OpToRel
<1> HIDE DEF R
<1>3. PICK i \in T : \A j \in T : ~ (<<j, i>> \in R)
  BY <1>1, WFMin
<1>4. \A j \in T : ~ (j < i)
  BY <1>2, <1>3
<1> QED BY <1>4

\* First is the element at the least index, if there is one.
LEMMA FirstIs ==
  ASSUME NEW s \in Seq(Runs), NEW S, NEW i \in 1..Len(s), s[i] \in S,
         \A j \in 1..Len(s) : j < i => s[j] \notin S
  PROVE  First(s, S) = s[i]
<1> DEFINE Leads(k) == s[k] \in S /\ \A j \in 1..(k - 1) : s[j] \notin S
           c == CHOOSE k \in DOMAIN s : Leads(k)
<1>1. DOMAIN s = 1..Len(s) /\ Len(s) \in Nat
  OBVIOUS
<1>2. i \in DOMAIN s /\ Leads(i)
  BY <1>1
<1>3. c \in DOMAIN s /\ Leads(c)
  BY <1>2
<1>4. c = i
  BY <1>1, <1>2, <1>3
<1>5. First(s, S) = s[c]
  BY <1>2 DEF First
<1> QED BY <1>4, <1>5

LEMMA FirstIsNone ==
  ASSUME NEW s \in Seq(Runs), NEW S, \A i \in 1..Len(s) : s[i] \notin S
  PROVE  First(s, S) = NoRun
  BY DEF First

\* While the server serves, memory and the store agree on every run.
LEMMA Mirrors == IInv /\ JInv => StoreMirrorsMemory
<1> SUFFICES ASSUME IInv, JInv, Serves, NEW r \in Runs, state[r] # "absent"
             PROVE  /\ db[r].status = state[r]
                    /\ state[r] # "failed" => /\ db[r].rows = completed_epochs[r]
                                              /\ db[r].episode_count = completed_epochs[r]
  BY DEF StoreMirrorsMemory
<1>1. Tracked /\ pc # "raised"
  BY DEF Serves, ThreadFree, Tracked, Holding
<1> QED BY <1>1 DEF JInv, RunIsSound, Mirrored

\* The dict and the queue agree on the run that comes next.
LEMMA ActiveComesNext == IInv /\ JInv => ActiveIsNext
<1> SUFFICES ASSUME IInv, JInv, Serves
             PROVE  IF current # NoRun
                    THEN ActiveRun = current /\ \A r \in Runs \ {current} : state[r] \notin Active
                    ELSE ActiveRun = First(run_queue, {r \in Runs : state[r] = "queued"})
  BY DEF ActiveIsNext
<1> DEFINE A == {r \in Runs : state[r] \in Active}
           Q == {r \in Runs : state[r] = "queued"}
<1>1. /\ runs \in Seq(Runs) /\ run_queue \in Seq(Runs)
      /\ Len(runs) \in Nat /\ Len(run_queue) \in Nat
  BY DEF IInv, TypeOK
<1>2. \A r \in Runs \ {current} : state[r] \notin Active
  BY DEF JInv, RunIsSound, Placed
<1>3. CASE current # NoRun
  <2>1. current \in Runs /\ state[current] \in Active
    BY <1>3 DEF IInv, TypeOK, CurrentIsLive, Serves, ThreadFree, Holding
  <2>2. PICK i \in 1..Len(runs) : runs[i] = current
    BY <2>1 DEF JInv, Listed, Active
  <2>3. A = {current}
    BY <1>2, <2>1
  <2>4. \A j \in 1..Len(runs) : j < i => runs[j] \notin A
    BY <1>1, <2>2, <2>3 DEF JInv, Listed
  <2> HIDE DEF A
  <2>5. First(runs, A) = current
    BY <1>1, <2>2, <2>3, <2>4, FirstIs
  <2> QED BY <1>2, <1>3, <2>5 DEF ActiveRun, A
<1>4. CASE current = NoRun
  <2>1. First(runs, A) = NoRun
    <3>1. \A i \in 1..Len(runs) : runs[i] \notin A
      BY <1>2, <1>4, NoRunIsNoRun
    <3> HIDE DEF A
    <3> QED BY <1>1, <3>1, FirstIsNone
  <2>2. ActiveRun = First(runs, Q)
    BY <2>1 DEF ActiveRun
  <2>3. CASE Q = {}
    <3> HIDE DEF Q
    <3>1. First(runs, Q) = NoRun /\ First(run_queue, Q) = NoRun
      BY <1>1, <2>3, FirstIsNone
    <3> QED BY <1>4, <2>2, <3>1 DEF Q
  <2>4. CASE Q # {}
    <3> DEFINE T == {i \in 1..Len(run_queue) : run_queue[i] \in Q}
    <3>1. T # {}
      <4>1. PICK r \in Runs : state[r] = "queued"
        BY <2>4
      <4>2. PICK i \in 1..Len(run_queue) : run_queue[i] = r
        BY <1>1, <4>1 DEF JInv, RunIsSound, Placed, InQueue
      <4> QED BY <4>1, <4>2
    <3>2. T \subseteq Nat
      BY <1>1
    <3>3. PICK i \in T : \A j \in T : i <= j
      <4> HIDE DEF T
      <4> QED BY <3>1, <3>2, LeastIndex
    <3>4. /\ i \in 1..Len(run_queue) /\ run_queue[i] \in Q
          /\ \A j \in 1..Len(run_queue) : j < i => run_queue[j] \notin Q
      BY <1>1, <3>3
    <3>5. First(run_queue, Q) = run_queue[i]
      <4> HIDE DEF Q
      <4> QED BY <1>1, <3>4, FirstIs
    <3>6. PICK k \in 1..Len(runs) : runs[k] = run_queue[i]
      BY <3>4 DEF JInv, Listed
    <3>7. ASSUME NEW l \in 1..Len(runs), l < k
          PROVE  runs[l] \notin Q
      <4>1. SUFFICES ASSUME runs[l] \in Q PROVE FALSE
        OBVIOUS
      <4>2. PICK j \in 1..Len(run_queue) : run_queue[j] = runs[l]
        BY <1>1, <4>1 DEF JInv, RunIsSound, Placed, InQueue
      <4>3. i <= j /\ l # k
        BY <1>1, <3>3, <3>7, <4>1, <4>2
      <4>4. i # j
        BY <3>6, <4>2, <4>3 DEF JInv, Listed
      <4>5. i < j
        BY <1>1, <3>4, <4>2, <4>3, <4>4
      <4>6. k < l
        BY <3>4, <3>6, <4>2, <4>5 DEF JInv, Listed
      <4> QED BY <1>1, <3>7, <4>6
    <3>8. First(runs, Q) = runs[k]
      <4> HIDE DEF Q
      <4> QED BY <1>1, <3>4, <3>6, <3>7, FirstIs
    <3> QED BY <1>4, <2>2, <3>5, <3>6, <3>8
  <2> QED BY <2>3, <2>4
<1> QED BY <1>3, <1>4

\* _run_status answers from memory and discovery from the order of _runs, while the
\* worker follows its control, the store and the order of _run_queue: they never disagree.
THEOREM TheAnswersAreTrue == Spec => []AnswersAreTrue
<1>1. IInv /\ JInv /\ FlagsAgree => AnswersAreTrue
  BY Mirrors, ActiveComesNext DEF AnswersAreTrue
<1> QED BY <1>1, StoreInvariance, FlagsInvariance, PTL

\* Whatever fails, no unfinished row is left to nobody while the server serves,
\* and a finished one has the episodes, count, snapshot and boards of its outcome.
THEOREM TheStoreIsWhole == Spec => []StoreIsWhole
<1>1. IInv /\ JInv => StoreIsWhole
  <2> SUFFICES ASSUME IInv, JInv PROVE StoreIsWhole
    OBVIOUS
  <2>1. NoOrphans
    <3>1. Serves => Tracked
      BY DEF Serves, Tracked
    <3> QED BY <3>1 DEF NoOrphans, JInv, RunIsSound, InHand, InQueue
  <2>2. CompletedIsWhole
    BY DEF CompletedIsWhole, JInv, RunIsSound, Whole
  <2> QED BY <2>1, <2>2 DEF StoreIsWhole
<1> QED BY <1>1, StoreInvariance, PTL

\* A server that stops in order, its store never having failed, has finished every
\* run it ever accepted and has sent the event of each.
THEOREM StopsCleanly == Spec => []CleanStop
<1>1. IInv /\ JInv => CleanStop
  <2> SUFFICES ASSUME IInv, JInv, phase = "stopped", faults = 0, crashes = 0,
                      NEW r \in Runs, db[r].status # "absent"
               PROVE  /\ db[r].status \in Terminal
                      /\ \E i \in 1..sent : ended[i].run = r
    BY DEF CleanStop
  <2>1. current = NoRun /\ run_queue = <<>> /\ sent = Len(ended)
    BY DEF IInv, NothingRemembered, JInv, Emptied, Nobody
  <2>2. db[r].status \notin Unfinished
    BY <2>1, NoRunIsNoRun, EmptySeq DEF JInv, RunIsSound, InHand, Tracked, InQueue
  <2>3. db[r].status \in Terminal
    BY <2>2, Typed DEF States
  <2> QED BY <2>1, <2>3 DEF JInv, Announced
<1> QED BY <1>1, StoreInvariance, PTL

-----------------------------------------------------------------------------
(* The run in the worker's hands, while it sets up or plays.                *)
\* The worker is at one of the awaits of its run, or on the way to one.
Simulates ==
    /\ current # NoRun
    /\ pc \in {"setup", "checking", "blocked", "delaying", "late", "yielding", "episodeEnd"}

\* The run and its control, seen as Checkpoint sees them.
Simulation == INSTANCE Checkpoint WITH
    paused <- control[current].paused,
    cancel_requested <- control[current].cancel_requested,
    delayed <- control[current].delayed,
    at <- IF pc = "setup" THEN "start" ELSE at

\* A step of the same run, that Checkpoint describes or that does not concern it.
Follows ==
    /\ Simulates' /\ current' = current
    /\ Simulation!Next \/ UNCHANGED Simulation!vars

\* The run is over: it is cancelled where a checkpoint raises, has returned, or has
\* failed; or the server no longer serves.
Leaves ==
    \/ AtLoopTop /\ Flags.cancel_requested /\ state'[current] = "cancelled"
    \/ pc \in {"setup", "episodeEnd"} /\ pc' = "returned"
    \/ pc' = "raised"
    \/ phase' \notin Serving

\* What the worker does not see.
LEMMA Unseen ==
  ASSUME Simulates, UNCHANGED <<control, pc, at, current>>
  PROVE  Follows
BY DEF Simulates, Follows, Simulation!vars

\* A request between two steps of the worker.
LEMMA RequestFollows ==
  ASSUME IInv, FlagsAgree, Simulates, NEW r \in Runs,
         \/ Pause(r) \/ Resume(r) \/ CancelActive(r) \/ CancelQueued(r) \/ SetMoveDelay(r)
  PROVE  Follows
<1>1. /\ control \in [Runs -> Controls] /\ control[r] \in Controls
      /\ current \in Runs /\ state[current] \in Active
  BY NoRunIsNoRun DEF IInv, TypeOK, Simulates, CurrentIsLive
<1>2. UNCHANGED <<pc, at, current>> /\ Simulates'
  BY DEF Pause, Resume, CancelActive, CancelQueued, SetMoveDelay, ChangeStatus, Simulates
<1>3. CASE r # current
  <2>1. control'[current] = control[current]
    BY <1>1, <1>3 DEF Pause, Resume, CancelActive, CancelQueued, SetMoveDelay
  <2> QED BY <1>2, <2>1 DEF Follows, Simulation!vars
<1>4. CASE r = current
  <2> DEFINE f == control[current]
             g == control'[current]
  <2>1. pc \notin Simulation!Ended \union {"checking"}
    BY DEF Pause, Resume, CancelActive, CancelQueued, SetMoveDelay, CanHandle, ThreadFree,
           Holding, Simulation!Ended, Simulates
  <2>2. state[current] \in {"running", "paused"}
    BY <1>1, <1>4 DEF Pause, Resume, CancelActive, CancelQueued, SetMoveDelay, Active
  <2>3. ~f.cancel_requested
    BY <1>1, <2>2 DEF FlagsAgree
  <2>4. /\ g.paused \in BOOLEAN /\ g.cancel_requested \in BOOLEAN /\ g.delayed \in BOOLEAN
        /\ \/ g.cancel_requested = f.cancel_requested /\ g.delayed = f.delayed
           \/ g.paused = f.paused /\ g.cancel_requested = TRUE /\ g.delayed = f.delayed
           \/ g.paused = f.paused /\ g.cancel_requested = f.cancel_requested
    <3>1. CASE Pause(r)
      BY <1>1, <1>4, <3>1 DEF Pause, Controls
    <3>2. CASE Resume(r)
      BY <1>1, <1>4, <3>2 DEF Resume, Controls
    <3>3. CASE CancelActive(r)
      BY <1>1, <1>4, <3>3 DEF CancelActive, Controls
    <3>4. CASE CancelQueued(r)
      BY <1>1, <1>4, <3>4 DEF CancelQueued, Controls
    <3>5. CASE SetMoveDelay(r)
      BY <1>1, <1>4, <3>5 DEF SetMoveDelay, Controls
    <3> QED BY <3>1, <3>2, <3>3, <3>4, <3>5
  <2>5. Simulation!Request
    <3>1. UNCHANGED <<pc, IF pc = "setup" THEN "start" ELSE at>> /\ current' = current
      BY <1>2
    <3> QED BY <2>1, <2>3, <2>4, <3>1 DEF Simulation!Request
  <2> QED BY <1>2, <2>5 DEF Follows, Simulation!Next
<1> QED BY <1>3, <1>4

\* A step of the worker.
LEMMA WorkerFollows ==
  ASSUME IInv, Simulates, Worker
  PROVE  Follows \/ Leaves
<1>1. ASSUME pc' \in {"setup", "checking", "blocked", "delaying", "late", "yielding",
                      "episodeEnd"},
             UNCHANGED <<control, current>>, Simulation!Worker
      PROVE  Follows
  BY <1>1 DEF Follows, Simulates, Simulation!Next
<1>2. CASE TakeRun \/ AwaitRun \/ CompleteRun \/ FailRun
  BY <1>2 DEF TakeRun, AwaitRun, CompleteRun, FailRun, Simulates
<1>3. CASE FinishSetup
  <2>1. UNCHANGED <<control, current>>
    BY <1>3 DEF FinishSetup, WorkerMoves
  <2>2. CASE Epochs = 0
    BY <1>3, <2>2 DEF FinishSetup, WorkerMoves, Leaves
  <2>3. CASE Epochs # 0
    <3>1. pc = "setup" /\ pc' = "checking" /\ at' = "start"
      BY <1>3, <2>3 DEF FinishSetup, WorkerMoves
    <3>2. Simulation!Simulates
      BY <3>1 DEF Simulation!Simulates
    <3> QED BY <1>1, <2>1, <3>1, <3>2 DEF Simulation!Worker
  <2> QED BY <2>2, <2>3
<1>4. CASE RaiseCancelled
  <2>1. state'[current] = "cancelled"
    BY <1>4, NoRunIsNoRun DEF RaiseCancelled, EndRun, IInv, TypeOK, Simulates
  <2> QED BY <1>4, <2>1 DEF RaiseCancelled, Leaves
<1>5. CASE CheckFlags
  <2>1. /\ UNCHANGED <<control, current, at>> /\ pc \notin {"setup"}
        /\ pc' \in {"blocked", "delaying", "yielding"}
    BY <1>5 DEF CheckFlags, WorkerMoves, AtLoopTop
  <2>2. Simulation!LooksAtFlags
    BY <1>5, <2>1 DEF CheckFlags, WorkerMoves, AtLoopTop, Flags, Undisturbed,
                      Simulation!LooksAtFlags, Simulation!Undisturbed
  <2> QED BY <1>1, <2>1, <2>2 DEF Simulation!Worker
<1>6. CASE DelayExpires
  <2>1. UNCHANGED <<control, current, at>> /\ pc = "delaying" /\ pc' = "late"
    BY <1>6 DEF DelayExpires, WorkerMoves
  <2> QED BY <1>1, <2>1 DEF Simulation!Worker, Simulation!DelayExpires
<1>7. CASE NextEpisode \/ PlayMove \/ PlayLastMove
  <2>1. /\ UNCHANGED <<control, current>> /\ Returns /\ pc # "setup"
        /\ \/ at = "gap" /\ pc' = "checking" /\ at' = "start"
           \/ at # "gap" /\ pc' = "checking" /\ at' = "move"
           \/ at # "gap" /\ pc' = "episodeEnd" /\ at' = at
    BY <1>7 DEF NextEpisode, PlayMove, PlayLastMove, WorkerMoves, Returns
  <2>2. Simulation!Returns
    BY <2>1 DEF Returns, Flags, Undisturbed, Simulation!Returns, Simulation!Undisturbed
  <2>3. Simulation!Simulates
    BY <2>1, <2>2 DEF Simulation!Simulates
  <2> QED BY <1>1, <2>1, <2>3 DEF Simulation!Worker
<1>8. CASE RecordEpisode
  <2>1. /\ UNCHANGED <<control, current>> /\ pc = "episodeEnd" /\ at' = "gap"
        /\ pc' \in {"raised", "checking", "returned"}
    BY <1>8 DEF RecordEpisode
  <2>2. CASE pc' = "checking"
    <3>1. Simulation!Simulates
      BY <2>1, <2>2 DEF Simulation!Simulates
    <3> QED BY <1>1, <2>1, <2>2, <3>1 DEF Simulation!Worker
  <2> QED BY <2>1, <2>2 DEF Leaves
<1>9. CASE SimulationFails
  BY <1>9 DEF SimulationFails, WorkerMoves, Leaves
<1> QED BY <1>2, <1>3, <1>4, <1>5, <1>6, <1>7, <1>8, <1>9 DEF Worker

\* Any step of the server.
LEMMA SimulationFollows ==
  ASSUME IInv, FlagsAgree, [Next]_vars, Simulates
  PROVE  Follows \/ Leaves
<1>1. CASE Requests
  <2>1. CASE Inquire
    BY <2>1, Unseen DEF Inquire, memory
  <2>2. ASSUME NEW r \in Runs, Submit(r) PROVE Follows
    BY <2>2, Unseen DEF Submit
  <2> QED BY <1>1, <2>1, <2>2, RequestFollows DEF Requests
<1>2. CASE Worker
  BY <1>2, WorkerFollows
<1>3. CASE SendEvent \/ ServiceLoop \/ Stop \/ UNCHANGED vars
  BY <1>3, Unseen DEF SendEvent, ServiceLoop, Stop, vars, memory
<1>4. CASE Shutdown \/ Crash
  BY <1>4 DEF Shutdown, JoinWorker, DrainRun, CloseEvents, Exit, Crash, Leaves, Serving
<1>5. CASE Start
  BY <1>5 DEF Start, IInv, NothingRemembered, Nobody, Simulates
<1> QED BY <1>1, <1>2, <1>3, <1>4, <1>5 DEF Next

\* A run is taken into the worker's hands as Checkpoint begins.
LEMMA SimulationBegins ==
  ASSUME IInv, IInv', FlagsAgree', [Next]_vars, ~Simulates, Simulates'
  PROVE  Simulation!Init'
<1>1. pc' = "setup" /\ state'[current'] = "running" /\ current' \in Runs
  <2>1. CASE UNCHANGED <<pc, current>>
    BY <2>1 DEF Simulates
  <2>2. CASE TakeRun
    <3> DEFINE r == Head(run_queue)
    <3>1. r \in Runs
      <4>1. run_queue # <<>> /\ run_queue \in Seq(Runs)
        BY <2>2 DEF TakeRun, IInv, TypeOK
      <4> QED BY <4>1
    <3>2. pc' \in {"taking", "setup", "raised"}
      BY <2>2 DEF TakeRun
    <3>3. pc' = "setup"
      BY <3>2 DEF Simulates
    <3>4. state' = [state EXCEPT ![r] = "running"] /\ current' = r
      BY <2>2, <3>3 DEF TakeRun
    <3> QED BY <3>1, <3>3, <3>4 DEF IInv, TypeOK
  <2>3. CASE AwaitRun \/ CompleteRun \/ FailRun \/ RaiseCancelled
    BY <2>3 DEF AwaitRun, CompleteRun, FailRun, RaiseCancelled, EndRun, Simulates
  <2>4. CASE FinishSetup \/ CheckFlags \/ DelayExpires \/ NextEpisode \/ PlayMove
             \/ PlayLastMove \/ RecordEpisode \/ SimulationFails
    <3>1. pc \in {"setup", "checking", "blocked", "delaying", "late", "yielding", "episodeEnd"}
      BY <2>4 DEF FinishSetup, CheckFlags, DelayExpires, NextEpisode, PlayMove, PlayLastMove,
                  RecordEpisode, SimulationFails, Returns, AtLoopTop
    <3> QED BY <3>1 DEF IInv, WorkerPlace, NoCurrent, Simulates
  <2>5. CASE Requests \/ SendEvent \/ ServiceLoop \/ Stop \/ UNCHANGED vars
    BY <2>1, <2>5 DEF Requests, Submit, Pause, Resume, SetMoveDelay, CancelActive,
                      CancelQueued, ChangeStatus, Inquire, SendEvent, ServiceLoop, Stop,
                      vars, memory
  <2>6. CASE Shutdown \/ Crash \/ Start
    BY <2>6 DEF Shutdown, JoinWorker, DrainRun, CloseEvents, Exit, Crash, Start, Forget,
                Simulates, memory
  <2> QED BY <2>2, <2>3, <2>4, <2>5, <2>6 DEF Next, Worker
<1>2. ~control'[current'].paused /\ ~control'[current'].cancel_requested
  BY <1>1 DEF FlagsAgree
<1>3. /\ control'[current'].paused \in BOOLEAN
      /\ control'[current'].cancel_requested \in BOOLEAN
      /\ control'[current'].delayed \in BOOLEAN
  BY <1>1 DEF IInv, TypeOK, Controls
<1> QED BY <1>1, <1>2, <1>3 DEF Simulation!Init

\* What Checkpoint promises of a simulation and its control is what the server's worker
\* does with the run it has: it begins as Checkpoint does, and every step of the server is
\* one of Checkpoint, or none that the run can see, until the run is over.
THEOREM RunsFollowCheckpoint ==
  Spec => [][/\ ~Simulates /\ Simulates' => Simulation!Init'
             /\ Simulates => Follows \/ Leaves]_vars
<1>1. IInv /\ FlagsAgree /\ IInv' /\ FlagsAgree' /\ [Next]_vars
        => /\ ~Simulates /\ Simulates' => Simulation!Init'
           /\ Simulates => Follows \/ Leaves
  BY SimulationFollows, SimulationBegins
<1> QED BY <1>1, FlagsInvariance, PTL DEF Spec

=============================================================================
