-------------------------- MODULE ClientControlsProofs --------------------------
(***************************************************************************)
(* Theorems about ClientControls, for any number of runs, any choice of     *)
(* delays and any backlog, and however much the user and the server do.     *)
(***************************************************************************)
EXTENDS ClientControls, FiniteSetTheorems, TLAPS

-----------------------------------------------------------------------------
(* The inductive invariant: what is on its way to the view is fit to be     *)
(* shown, and the lock of the buttons counts the user's requests.           *)

Ops == {"discover", "submit"} \union ControlOps

Request == [op : {"discover", "submit"}, run : {NoRun}, delay : Delays]
             \union [op : ControlOps, run : Runs, delay : Delays]
Response ==
    [ok : BOOLEAN, run : Runs \union {NoRun}, state : States, delay : Delays, at : Nat]
Result == [op : Ops, error : {TRUE}]
            \union [op : Ops, error : {FALSE}, response : Response]
Begun == [op : Ops \ {"discover"}, delay : Delays]
Message == [topic : {"frame"}, run : Runs]
             \union [topic : {"run"}, run : Runs, state : States \ {"absent"}, delay : Delays,
                     at : Nat]

\* What the server, the sockets and the event loop hold.
OnTheWay ==
    /\ clock \in Nat /\ abandoned \subseteq Request
    /\ telemetry \in Seq(Message) /\ calls \in Seq(Request)
    /\ answer \in Seq(Response) /\ results \in Seq(Result)
    /\ task \in Seq(Begun)

\* An answer that grants its request names a run that there is, and its state; only
\* a discovery may find none.
Fits(response, op) ==
    response.ok => \/ op = "discover" /\ response.run = NoRun
                   \/ response.run \in Runs /\ response.state # "absent"

\* At most the first of the calls has its answer, and what is posted is as fit.
AnswersFit ==
    /\ Len(answer) <= 1
    /\ answer # <<>> => calls # <<>> /\ Fits(answer[1], calls[1].op)
    /\ \A i \in DOMAIN results : ~results[i].error => Fits(results[i].response, results[i].op)

\* A control is only begun while a run is on show, and a run stays on show.
TaskHasItsRun == task # <<>> /\ task[1].op # "submit" => active_run # NoRun

\* The user's own among the requests of a queue.
Own(s) == {i \in DOMAIN s : s[i].op # "discover"}

IInv ==
    /\ TypeOK
    /\ OnTheWay
    /\ AnswersFit
    /\ TaskHasItsRun
    /\ BusyIsOneRequest
    /\ ControlsAreFresh

-----------------------------------------------------------------------------
(* Lemmas about queues.                                                     *)

LEMMA OwnIsFinite ==
  ASSUME NEW E, NEW s \in Seq(E)
  PROVE  IsFiniteSet(Own(s)) /\ Cardinality(Own(s)) \in Nat
<1>1. IsFiniteSet(1..Len(s))
  <2>1. 1 \in Int /\ Len(s) \in Int
    OBVIOUS
  <2> QED
    BY <2>1, FS_Interval
<1>2. Own(s) \in SUBSET (1..Len(s))
  <2>1. DOMAIN s = 1..Len(s)
    OBVIOUS
  <2> QED
    BY <2>1 DEF Own
<1>3. IsFiniteSet(Own(s))
  BY <1>1, <1>2, FS_Subset
<1> QED
  BY <1>3, FS_CardinalityType

\* A request that joins a queue is one more, if it is the user's.
LEMMA OwnAppended ==
  ASSUME NEW E, NEW s \in Seq(E), NEW e \in E
  PROVE  Cardinality(Own(Append(s, e))) =
           Cardinality(Own(s)) + IF e.op # "discover" THEN 1 ELSE 0
<1> DEFINE n == Len(s)
           a == Append(s, e)
<1>1. /\ n \in Nat /\ DOMAIN s = 1..n /\ DOMAIN a = 1..(n + 1)
      /\ a[n + 1] = e /\ \A i \in 1..n : a[i] = s[i]
  OBVIOUS
<1>2. 1..(n + 1) = (1..n) \union {n + 1} /\ (n + 1) \notin 1..n
  BY <1>1
<1> HIDE DEF a, n
<1>3. IsFiniteSet(Own(s)) /\ Cardinality(Own(s)) \in Nat /\ (n + 1) \notin Own(s)
  BY <1>1, <1>2, OwnIsFinite DEF Own
<1>4. CASE e.op # "discover"
  <2>1. Own(a) = Own(s) \union {n + 1}
    BY <1>1, <1>2, <1>4 DEF Own
  <2>2. Cardinality(Own(s) \union {n + 1}) = Cardinality(Own(s)) + 1
    BY <1>3, FS_AddElement
  <2> QED
    BY <1>4, <2>1, <2>2 DEF a
<1>5. CASE e.op = "discover"
  <2>1. Own(a) = Own(s)
    BY <1>1, <1>2, <1>5 DEF Own
  <2> QED
    BY <1>3, <1>5, <2>1 DEF a
<1> QED
  BY <1>4, <1>5

\* A request that leaves it is one less.
LEMMA OwnTaken ==
  ASSUME NEW E, NEW s \in Seq(E), s # <<>>
  PROVE  Cardinality(Own(s)) =
           Cardinality(Own(Tail(s))) + IF Head(s).op # "discover" THEN 1 ELSE 0
<1> DEFINE n == Len(s)
           t == Tail(s)
           later == Own(s) \ {1}
           f == [i \in later |-> i - 1]
<1>1. /\ n \in Nat \ {0} /\ DOMAIN s = 1..n /\ DOMAIN t = 1..(n - 1) /\ t \in Seq(E)
      /\ Head(s) = s[1] /\ \A i \in 1..(n - 1) : t[i] = s[i + 1]
  OBVIOUS
<1> HIDE DEF n, t
<1>2. \A i \in 1..n : i # 1 => i - 1 \in 1..(n - 1) /\ (i - 1) + 1 = i
  BY <1>1
<1>3. \A i \in 1..(n - 1) : i + 1 \in 1..n /\ i + 1 # 1 /\ (i + 1) - 1 = i
  BY <1>1
<1>4. IsFiniteSet(Own(s)) /\ Cardinality(Own(s)) \in Nat
      /\ IsFiniteSet(Own(t)) /\ Cardinality(Own(t)) \in Nat
  BY <1>1, OwnIsFinite
<1>5. later \subseteq 1..n /\ \A i \in 1..n : i \in later <=> i # 1 /\ s[i].op # "discover"
  BY <1>1 DEF Own
<1>6. \A i \in later : i - 1 \in Own(t)
  BY <1>1, <1>2, <1>5 DEF Own
<1>7. \A i \in Own(t) : i + 1 \in later /\ (i + 1) - 1 = i
  BY <1>1, <1>3, <1>5 DEF Own
<1>8. \A i, j \in later : i - 1 = j - 1 => i = j
  BY <1>1, <1>5
<1> HIDE DEF later
<1>9. f \in Injection(later, Own(t)) /\ f \in Surjection(later, Own(t))
  BY <1>6, <1>7, <1>8 DEF Injection, Surjection, IsInjective
<1>10. IsFiniteSet(later)
  BY <1>4, FS_Subset DEF later
<1>11. Cardinality(later) = Cardinality(Own(t))
  BY <1>4, <1>9, FS_Injection
<1>12. Cardinality(later) = IF 1 \in Own(s) THEN Cardinality(Own(s)) - 1 ELSE Cardinality(Own(s))
  BY <1>4, FS_RemoveElement DEF later
<1>13. 1 \in Own(s) <=> Head(s).op # "discover"
  BY <1>1 DEF Own
<1> QED
  BY <1>4, <1>11, <1>12, <1>13 DEF t

\* A queue loses its first element and keeps its type.
LEMMA TailOf ==
  ASSUME NEW E, NEW s \in Seq(E), s # <<>>
  PROVE  /\ Tail(s) \in Seq(E) /\ Len(Tail(s)) = Len(s) - 1 /\ Len(s) \in Nat \ {0}
         /\ DOMAIN Tail(s) = 1..(Len(s) - 1)
         /\ \A i \in 1..(Len(s) - 1) : i + 1 \in DOMAIN s /\ Tail(s)[i] = s[i + 1]
         /\ Head(s) = s[1] /\ s[1] \in E /\ 1 \in DOMAIN s
OBVIOUS

\* The first of some runs is one of them.
LEMMA FirstIsOne ==
  ASSUME NEW S \in SUBSET Runs, S # {}
  PROVE  First(S) \in S
<1> DEFINE R == OpToRel(<, Nat)
<1>1. IsWellFoundedOn(R, Nat)
  BY NatLessThanWellFounded
<1>2. S \subseteq Nat
  BY ClientAssumption DEF Runs
<1>3. \A i, j \in S : j < i => <<j, i>> \in R
  BY <1>2 DEF OpToRel
<1> HIDE DEF R
<1>4. PICK i \in S : \A j \in S : ~ (<<j, i>> \in R)
  BY <1>1, <1>2, WFMin
<1>5. \A j \in S : i <= j
  <2>1. \A j \in S : ~ (j < i)
    BY <1>3, <1>4
  <2> QED
    BY <1>2, <2>1
<1> QED
  BY <1>4, <1>5 DEF First

-----------------------------------------------------------------------------
(* The server.                                                              *)

\* What is published joins what is under way, within its limit.
LEMMA PublishKeeps ==
  ASSUME TypeOK, telemetry \in Seq(Message), NEW m \in Message, Publish(m)
  PROVE  telemetry' \in Seq(Message) /\ Len(telemetry') <= MaxBacklog
<1> PICK kept : kept = IF Len(telemetry) = MaxBacklog THEN Tail(telemetry) ELSE telemetry
  OBVIOUS
<1>1. telemetry' = Append(kept, m)
  BY DEF Publish
<1>2. MaxBacklog \in Nat \ {0} /\ Len(telemetry) <= MaxBacklog /\ Len(telemetry) \in Nat
  BY ClientAssumption DEF TypeOK
<1>3. kept \in Seq(Message) /\ Len(kept) \in Nat /\ Len(kept) < MaxBacklog
  <2> HIDE DEF Message
  <2>1. CASE Len(telemetry) = MaxBacklog
    <3>1. telemetry # <<>>
      BY <1>2, <2>1
    <3> QED
      BY <1>2, <2>1, <3>1, TailOf
  <2>2. CASE Len(telemetry) # MaxBacklog
    BY <1>2, <2>2
  <2> QED
    BY <2>1, <2>2
<1> QED
  BY <1>1, <1>2, <1>3

LEMMA StatusKeeps ==
  ASSUME TypeOK, OnTheWay, NEW r \in Runs, NEW s \in States \ {"absent"}, NEW d \in Delays,
         PublishRun(r, s, d)
  PROVE  clock' \in Nat /\ telemetry' \in Seq(Message) /\ Len(telemetry') <= MaxBacklog
<1>1. clock' \in Nat
  BY DEF OnTheWay, PublishRun
<1>2. PICK m : m = [topic |-> "run", run |-> r, state |-> s, delay |-> d, at |-> clock']
  OBVIOUS
<1>3. m \in Message
  BY <1>1, <1>2 DEF Message
<1>4. Publish(m)
  BY <1>2 DEF PublishRun
<1> QED
  BY <1>1, <1>3, <1>4, PublishKeeps DEF OnTheWay

\* What the server keeps, and what the client may rely on of it.
ServerOK ==
    /\ state \in [Runs -> States] /\ delay \in [Runs -> Delays]
    /\ clock \in Nat /\ telemetry \in Seq(Message) /\ Len(telemetry) <= MaxBacklog

\* Any request leaves the server sound, and has an answer fit to be shown.
LEMMA HandleIsSound ==
  ASSUME TypeOK, OnTheWay, NEW q \in Request, Handle(q)
  PROVE  ServerOK' /\ Answer(q) \in Response /\ Fits(Answer(q), q.op)
<1> DEFINE r == Target(q)
           new == NewStatus(q)
<1>1. /\ state \in [Runs -> States] /\ delay \in [Runs -> Delays] /\ clock \in Nat
      /\ ActiveRuns \in SUBSET Runs /\ QueuedRuns \in SUBSET Runs
      /\ NoRun \notin Runs /\ 0 \in Delays
  BY ClientAssumption DEF TypeOK, OnTheWay, ActiveRuns, QueuedRuns, Runs, NoRun
<1>2. /\ q.op \in Ops /\ q.delay \in Delays
      /\ (q.op \in ControlOps => q.run \in Runs)
  BY DEF Request, Ops, ControlOps
<1>3. CASE q.op = "submit"
  <2>1. {n \in Runs : state[n] = "absent"} # {}
    BY <1>3 DEF Handle
  <2>2. r \in Runs
    BY <1>3, <2>1, FirstIsOne DEF Target
  <2>3. /\ new = [state |-> "queued", delay |-> 0] /\ Granted(q)
    BY <1>1, <1>3, <2>2 DEF NewStatus, Granted, ControlOps
  <2>4. /\ state' = [state EXCEPT ![r] = new.state] /\ delay' = [delay EXCEPT ![r] = new.delay]
        /\ IF q.op = "delay" \/ new.state # state[r]
           THEN PublishRun(r, new.state, new.delay) ELSE UNCHANGED <<telemetry, clock, lost>>
    BY <1>3, <2>3 DEF Handle
  <2> HIDE DEF r
  <2>5. state' \in [Runs -> States] /\ delay' \in [Runs -> Delays]
    BY <1>1, <2>2, <2>3, <2>4 DEF States
  <2>6. clock' \in Nat /\ telemetry' \in Seq(Message) /\ Len(telemetry') <= MaxBacklog
    <3>1. "queued" \in States \ {"absent"}
      BY DEF States
    <3>2. CASE PublishRun(r, "queued", 0)
      BY <1>1, <2>2, <3>1, <3>2, StatusKeeps
    <3>3. CASE UNCHANGED <<telemetry, clock, lost>>
      BY <3>3 DEF TypeOK, OnTheWay
    <3> QED
      BY <2>3, <2>4, <3>2, <3>3
  <2>7. Answer(q) = [ok |-> TRUE, run |-> r, state |-> "queued", delay |-> 0, at |-> clock']
    BY <2>3 DEF Answer, r
  <2> QED
    BY <1>1, <2>2, <2>5, <2>6, <2>7 DEF ServerOK, Response, Fits, States
<1>4. CASE q.op = "discover"
  <2>1. UNCHANGED <<state, delay, telemetry, clock, lost>>
    BY <1>4 DEF Handle
  <2>2. ServerOK'
    BY <1>1, <2>1 DEF ServerOK, TypeOK, OnTheWay
  <2>3. r = NoRun \/ (r \in Runs /\ state[r] # "absent")
    <3>1. \A S \in SUBSET Runs : S # {} => First(S) \in S
      BY FirstIsOne
    <3>2. CASE ActiveRuns # {}
      BY <1>1, <1>4, <3>1, <3>2 DEF Target, ActiveRuns, Live
    <3>3. CASE ActiveRuns = {} /\ QueuedRuns # {}
      BY <1>1, <1>4, <3>1, <3>3 DEF Target, QueuedRuns
    <3>4. CASE ActiveRuns = {} /\ QueuedRuns = {}
      BY <1>4, <3>4 DEF Target
    <3> QED
      BY <3>2, <3>3, <3>4
  <2>4. r = NoRun => new = [state |-> "absent", delay |-> 0]
    BY <1>4 DEF NewStatus, ControlOps
  <2>5. r \in Runs => new = [state |-> state[r], delay |-> delay[r]]
    BY <1>1, <1>4 DEF NewStatus, ControlOps
  <2>6. Answer(q) = [ok |-> Granted(q), run |-> r, state |-> new.state, delay |-> new.delay,
                     at |-> clock']
    BY DEF Answer
  <2>7. Granted(q)
    BY <1>4 DEF Granted, ControlOps
  <2> HIDE DEF r, new
  <2>8. new.state \in States /\ new.delay \in Delays /\ r \in Runs \union {NoRun}
        /\ (r \in Runs => new.state # "absent")
    BY <1>1, <2>3, <2>4, <2>5 DEF States
  <2>9. Answer(q) \in Response
    BY <2>1, <2>6, <2>7, <2>8, <1>1 DEF Response
  <2>10. Fits(Answer(q), q.op)
    BY <1>4, <2>6, <2>8 DEF Fits
  <2> QED
    BY <2>2, <2>9, <2>10
<1>5. CASE q.op \in ControlOps
  <2>1. r = q.run /\ r \in Runs
    BY <1>2, <1>5 DEF Target, ControlOps
  <2>2. new = [state |-> Controlled(q.op, state[r]),
               delay |-> IF q.op = "delay" THEN q.delay ELSE delay[r]]
    BY <1>1, <1>5, <2>1 DEF NewStatus, ControlOps
  <2>3. Controlled(q.op, state[r]) \in States
    BY <1>1, <1>5, <2>1 DEF Controlled, ControlOps, States, Live, Ended
  <2>4. Granted(q) => Controlled(q.op, state[r]) # "absent"
    <3>1. Granted(q) => Accepts(q.op, state[r])
      BY <1>5, <2>1 DEF Granted
    <3> QED
      BY <1>5, <3>1 DEF Accepts, Controlled, ControlOps, Live
  <2> HIDE DEF r, new
  <2>5. new.state \in States /\ new.delay \in Delays /\ (Granted(q) => new.state # "absent")
    BY <1>1, <1>2, <2>1, <2>2, <2>3, <2>4
  <2>6. CASE ~Granted(q)
    <3>1. UNCHANGED <<state, delay, telemetry, clock, lost>>
      BY <2>6 DEF Handle
    <3>2. ServerOK'
      BY <1>1, <3>1 DEF ServerOK, TypeOK, OnTheWay
    <3>3. Answer(q) = [ok |-> FALSE, run |-> r, state |-> new.state, delay |-> new.delay,
                       at |-> clock']
      BY <2>6 DEF Answer, r, new, Granted
    <3> QED
      BY <1>1, <2>1, <2>5, <3>1, <3>2, <3>3 DEF Response, Fits
  <2>7. CASE Granted(q)
    <3>1. /\ state' = [state EXCEPT ![r] = new.state] /\ delay' = [delay EXCEPT ![r] = new.delay]
          /\ IF q.op = "delay" \/ new.state # state[r]
             THEN PublishRun(r, new.state, new.delay) ELSE UNCHANGED <<telemetry, clock, lost>>
      BY <1>5, <2>7 DEF Handle, ControlOps, r, new
    <3>2. state' \in [Runs -> States] /\ delay' \in [Runs -> Delays]
      BY <1>1, <2>1, <2>5, <3>1
    <3>3. clock' \in Nat /\ telemetry' \in Seq(Message) /\ Len(telemetry') <= MaxBacklog
      <4>1. CASE PublishRun(r, new.state, new.delay)
        BY <2>1, <2>5, <2>7, <4>1, StatusKeeps
      <4>2. CASE UNCHANGED <<telemetry, clock, lost>>
        BY <4>2 DEF TypeOK, OnTheWay
      <4> QED
        BY <3>1, <4>1, <4>2
    <3>4. Answer(q) = [ok |-> TRUE, run |-> r, state |-> new.state, delay |-> new.delay,
                       at |-> clock']
      BY <2>7 DEF Answer, r, new
    <3> QED
      BY <2>1, <2>5, <2>7, <3>2, <3>3, <3>4 DEF ServerOK, Response, Fits
  <2> QED
    BY <2>6, <2>7
<1> QED
  BY <1>2, <1>3, <1>4, <1>5 DEF Ops

-----------------------------------------------------------------------------
(* What the steps have in common.                                           *)

\* The server works on, and the client has not seen it yet.
LEMMA ServerKeeps ==
  ASSUME IInv, ServerOK', abandoned' \subseteq Request, UNCHANGED client_vars
  PROVE  IInv'
<1>1. TypeOK'
  <2>1. \A i \in DOMAIN telemetry' : telemetry'[i].run \in Runs
    <3>1. \A m \in Message : m.run \in Runs
      BY DEF Message
    <3> HIDE DEF Message
    <3> QED
      BY <3>1 DEF ServerOK
  <2> QED
    BY <2>1 DEF IInv, TypeOK, ServerOK, client_vars, call_vars, view_vars, shown_vars, user_vars
<1>2. OnTheWay'
  BY DEF IInv, OnTheWay, ServerOK, client_vars, call_vars
<1>3. AnswersFit' /\ TaskHasItsRun'
  BY DEF IInv, AnswersFit, Fits, TaskHasItsRun, client_vars, call_vars, view_vars
<1>4. BusyIsOneRequest'
  BY DEF IInv, BusyIsOneRequest, client_vars, call_vars
<1>5. ControlsAreFresh'
  BY DEF IInv, ControlsAreFresh, Controls, client_vars, view_vars, shown_vars
<1> QED
  BY <1>1, <1>2, <1>3, <1>4, <1>5 DEF IInv

\* The count of the user's requests, place by place.
LEMMA Count ==
  BusyIsOneRequest <=> Len(task) + Cardinality(Own(calls)) + Cardinality(Own(results))
                         = IF control_busy THEN 1 ELSE 0
BY DEF BusyIsOneRequest, Own

LEMMA CountNext ==
  BusyIsOneRequest' <=> Len(task') + Cardinality(Own(calls')) + Cardinality(Own(results'))
                          = IF control_busy' THEN 1 ELSE 0
BY DEF BusyIsOneRequest, Own

LEMMA CountsAreNat ==
  ASSUME IInv
  PROVE  /\ Len(task) \in Nat /\ Cardinality(Own(calls)) \in Nat
         /\ Cardinality(Own(results)) \in Nat
         /\ ~control_busy => /\ Len(task) = 0 /\ Cardinality(Own(calls)) = 0
                             /\ Cardinality(Own(results)) = 0
<1>1. Len(task) \in Nat
  BY DEF IInv, OnTheWay
<1>2. Cardinality(Own(calls)) \in Nat /\ Cardinality(Own(results)) \in Nat
  BY OwnIsFinite DEF IInv, OnTheWay
<1> QED
  BY <1>1, <1>2, Count DEF IInv

\* A control is begun while no other is under way, and about the run on show.
LEMMA BeginKeeps ==
  ASSUME IInv, NEW op \in Ops \ {"discover"}, NEW value \in Delays, Begin(op, value),
         ~control_busy, op # "submit" => active_run # NoRun,
         UNCHANGED <<server_vars, call_vars, active_run, run_state, move_delay_ms, results>>,
         select' \in Delays, changes' \in Seq(Delays), dialog' \in Runs \union {NoRun}
  PROVE  IInv'
<1>1. PICK t : t = [op |-> op, delay |-> value]
  OBVIOUS
<1>2. /\ task' = <<t>> /\ t \in Begun /\ t.op = op
      /\ control_busy' = TRUE /\ controls' = Controls(run_state, TRUE)
  BY <1>1 DEF Begin, Begun
<1>3. task' \in Seq(Begun) /\ Len(task') = 1
      /\ task'[1] = t
  BY <1>2
<1>4. TypeOK'
  BY <1>2, <1>3 DEF IInv, TypeOK, server_vars, call_vars
<1>5. OnTheWay'
  BY <1>3 DEF IInv, OnTheWay, server_vars, call_vars
<1>6. AnswersFit'
  BY DEF IInv, AnswersFit, Fits, call_vars
<1>7. TaskHasItsRun'
  BY <1>2, <1>3 DEF TaskHasItsRun
<1>8. BusyIsOneRequest'
  BY <1>2, <1>3, CountsAreNat, CountNext DEF call_vars
<1>9. ControlsAreFresh'
  BY <1>2 DEF ControlsAreFresh, Controls
<1> QED
  BY <1>4, <1>5, <1>6, <1>7, <1>8, <1>9 DEF IInv

\* What is posted is posted at the end, and is fit to be shown.
LEMMA PostKeepsResults ==
  ASSUME OnTheWay, AnswersFit, NEW r \in Result, results' = Append(results, r),
         ~r.error => Fits(r.response, r.op)
  PROVE  /\ results' \in Seq(Result)
         /\ \A i \in DOMAIN results' :
               ~results'[i].error => Fits(results'[i].response, results'[i].op)
         /\ Cardinality(Own(results')) =
              Cardinality(Own(results)) + IF r.op # "discover" THEN 1 ELSE 0
<1> HIDE DEF Result, Fits
<1>1. results \in Seq(Result)
  BY DEF OnTheWay
<1>2. /\ results' \in Seq(Result) /\ DOMAIN results = 1..Len(results) /\ Len(results) \in Nat
      /\ DOMAIN results' = 1..(Len(results) + 1)
      /\ results'[Len(results) + 1] = r /\ \A i \in 1..Len(results) : results'[i] = results[i]
  BY <1>1
<1>3. \A i \in 1..(Len(results) + 1) : i \in 1..Len(results) \/ i = Len(results) + 1
  BY <1>2
<1>4. \A i \in DOMAIN results' : ~results'[i].error => Fits(results'[i].response, results'[i].op)
  BY <1>2, <1>3 DEF AnswersFit
<1> QED
  BY <1>1, <1>2, <1>4, OwnAppended

\* A call ends: its answer, or the failure of it, is posted.
LEMMA PostedKeeps ==
  ASSUME IInv, calls # <<>>, NEW r \in Result, Posted(r), r.op = Head(calls).op,
         ~r.error => Fits(r.response, r.op),
         UNCHANGED <<state, delay, telemetry, clock>>, abandoned' \subseteq Request
  PROVE  IInv'
<1>1. /\ results' = Append(results, r) /\ calls' = Tail(calls) /\ answer' = <<>>
      /\ UNCHANGED <<view_vars, control_busy, task, user_vars>>
  BY DEF Posted
<1>2. OnTheWay /\ AnswersFit
  BY DEF IInv
<1>3. /\ results' \in Seq(Result)
      /\ \A i \in DOMAIN results' :
            ~results'[i].error => Fits(results'[i].response, results'[i].op)
      /\ Cardinality(Own(results')) =
           Cardinality(Own(results)) + IF r.op # "discover" THEN 1 ELSE 0
  BY <1>1, <1>2, PostKeepsResults
<1>4. calls' \in Seq(Request) /\ Len(calls') \in Nat
  BY <1>1, <1>2, TailOf DEF OnTheWay
<1>5. TypeOK'
  BY <1>1, <1>4 DEF IInv, TypeOK, view_vars, shown_vars, user_vars
<1>6. OnTheWay'
  BY <1>1, <1>2, <1>3, <1>4 DEF OnTheWay
<1>7. AnswersFit'
  BY <1>1, <1>3 DEF AnswersFit, Fits
<1>8. TaskHasItsRun'
  BY <1>1 DEF IInv, TaskHasItsRun, view_vars
<1>9. BusyIsOneRequest'
  <2>1. Cardinality(Own(calls)) =
          Cardinality(Own(calls')) + IF Head(calls).op # "discover" THEN 1 ELSE 0
    BY <1>1, <1>2, OwnTaken DEF OnTheWay
  <2>2. Cardinality(Own(calls')) \in Nat
    BY <1>4, OwnIsFinite
  <2> QED
    BY <1>1, <1>3, <2>1, <2>2, Count, CountNext, CountsAreNat DEF IInv
<1>10. ControlsAreFresh'
  BY <1>1 DEF IInv, ControlsAreFresh, Controls, view_vars, shown_vars
<1> QED
  BY <1>5, <1>6, <1>7, <1>8, <1>9, <1>10 DEF IInv

-----------------------------------------------------------------------------
(* The handlers of the client.                                              *)

\* What is shown is a state, a delay, and the buttons for them.
LEMMA ShowRunKeeps ==
  ASSUME TypeOK, NEW s \in States \ {"absent"}, NEW d \in Delays, NEW busy, ShowRun(s, d, busy),
         control_busy' = busy
  PROVE  /\ run_state' \in States \ {"absent"} /\ move_delay_ms' \in Delays /\ select' \in Delays
         /\ changes' \in Seq(Delays)
         /\ ControlsAreFresh'
<1>1. /\ run_state' = s /\ move_delay_ms' = d /\ select' = d /\ controls' = Controls(s, busy)
      /\ changes' = IF select = d THEN changes ELSE Append(changes, d)
  BY DEF ShowRun
<1>2. changes' \in Seq(Delays)
  BY <1>1 DEF TypeOK
<1> QED
  BY <1>1, <1>2 DEF ControlsAreFresh, Controls

LEMMA TelemetryKeeps ==
  ASSUME IInv, OnTelemetryReceived
  PROVE  IInv'
<1> PICK m : m = Head(telemetry)
  OBVIOUS
<1>1. /\ telemetry # <<>> /\ telemetry' = Tail(telemetry)
      /\ UNCHANGED <<state, delay, abandoned, clock, lost, call_vars, control_busy, task, results,
                     user_vars>>
  BY DEF OnTelemetryReceived
<1>2. TypeOK /\ OnTheWay /\ ControlsAreFresh
  BY DEF IInv
<1>3. /\ telemetry' \in Seq(Message) /\ Len(telemetry') <= MaxBacklog /\ m \in Message
  <2>1. telemetry' \in Seq(Message) /\ Len(telemetry') = Len(telemetry) - 1 /\ m \in Message
        /\ Len(telemetry) \in Nat
    BY <1>1, <1>2, TailOf DEF OnTheWay
  <2> QED
    BY <1>2, <2>1, ClientAssumption DEF TypeOK
<1>4. \A i \in DOMAIN telemetry' : telemetry'[i].run \in Runs
  <2>1. \A n \in Message : n.run \in Runs
    BY DEF Message
  <2> HIDE DEF Message
  <2> QED
    BY <1>3, <2>1
<1>5. /\ active_run' \in Runs \union {NoRun}
      /\ active_run # NoRun => active_run' # NoRun
      /\ run_state' \in (States \ {"absent"}) \union {"idle"}
      /\ move_delay_ms' \in Delays /\ select' \in Delays /\ changes' \in Seq(Delays)
      /\ ControlsAreFresh'
  <2>0. m.run \in Runs /\ NoRun \notin Runs
    BY <1>3, ClientAssumption DEF Message, Runs, NoRun
  <2>1. CASE UNCHANGED shown_vars /\ active_run' \in {active_run, m.run}
    BY <1>1, <1>2, <2>0, <2>1 DEF shown_vars, TypeOK, ControlsAreFresh, Controls
  <2>2. CASE SeeRun(m) /\ m.topic = "run"
    <3>1. active_run' \in {active_run, m.run}
      BY <2>2 DEF SeeRun
    <3>2. CASE m.run = active_run'
      <4>1. ShowRun(m.state, m.delay, control_busy)
        BY <2>2, <3>2 DEF SeeRun
      <4>2. m.state \in States \ {"absent"} /\ m.delay \in Delays
        BY <1>3, <2>2 DEF Message
      <4> QED
        BY <1>1, <1>2, <2>0, <3>1, <4>1, <4>2, ShowRunKeeps DEF TypeOK
    <3>3. CASE m.run # active_run'
      BY <2>1, <2>2, <3>1, <3>3 DEF SeeRun
    <3> QED
      BY <3>2, <3>3
  <2>3. m.topic \in {"frame", "run"}
    BY <1>3 DEF Message
  <2> QED
    BY <2>1, <2>2, <2>3 DEF OnTelemetryReceived
<1>6. TypeOK'
  BY <1>1, <1>2, <1>3, <1>4, <1>5 DEF TypeOK, call_vars, user_vars
<1>7. OnTheWay'
  BY <1>1, <1>2, <1>3 DEF OnTheWay, call_vars
<1>8. AnswersFit' /\ TaskHasItsRun'
  BY <1>1, <1>5 DEF IInv, AnswersFit, Fits, TaskHasItsRun, call_vars
<1>9. BusyIsOneRequest'
  BY <1>1 DEF IInv, BusyIsOneRequest, call_vars
<1> QED
  BY <1>5, <1>6, <1>7, <1>8, <1>9 DEF IInv

LEMMA ResultKeeps ==
  ASSUME IInv, OnControlResult
  PROVE  IInv'
<1> PICK m : m = Head(results)
  OBVIOUS
<1> PICK busy : busy = BusyAfter(m)
  OBVIOUS
<1>1. /\ results # <<>> /\ results' = Tail(results) /\ control_busy' = busy
      /\ UNCHANGED <<server_vars, call_vars, task, user_vars>>
  BY DEF OnControlResult
<1>2. TypeOK /\ OnTheWay /\ ControlsAreFresh /\ AnswersFit /\ BusyIsOneRequest
  BY DEF IInv
<1>3. /\ results' \in Seq(Result) /\ m = results[1] /\ m \in Result /\ 1 \in DOMAIN results
      /\ \A i \in DOMAIN results' : i + 1 \in DOMAIN results /\ results'[i] = results[i + 1]
  BY <1>1, <1>2, TailOf DEF OnTheWay
<1>4. busy = IF m.op = "discover" THEN control_busy ELSE FALSE
  BY DEF BusyAfter
<1>5. m.op \in Ops /\ m.error \in BOOLEAN /\ (~m.error => m.response \in Response)
  BY <1>3 DEF Result
<1>6. ~m.error => Fits(m.response, m.op)
  BY <1>2, <1>3 DEF AnswersFit
<1>7. NoRun \notin Runs
  BY ClientAssumption DEF Runs, NoRun
<1>8. /\ active_run' \in Runs \union {NoRun}
      /\ active_run # NoRun => active_run' # NoRun
      /\ run_state' \in (States \ {"absent"}) \union {"idle"}
      /\ move_delay_ms' \in Delays /\ select' \in Delays /\ changes' \in Seq(Delays)
      /\ ControlsAreFresh'
  <2>1. CASE ApplyRunStatus(m.response, busy) /\ ~m.error /\ m.response.ok
               /\ (m.op = "discover" => m.response.run # NoRun)
    <3>1. m.response.run \in Runs /\ m.response.state # "absent"
      BY <1>6, <2>1 DEF Fits
    <3>2. m.response.state \in States \ {"absent"} /\ m.response.delay \in Delays
      BY <1>5, <2>1, <3>1 DEF Response
    <3>3. active_run' = m.response.run /\ ShowRun(m.response.state, m.response.delay, busy)
      BY <2>1 DEF ApplyRunStatus
    <3> QED
      BY <1>1, <1>2, <1>7, <3>1, <3>2, <3>3, ShowRunKeeps
  <2>2. CASE /\ UNCHANGED <<active_run, run_state, move_delay_ms, select, changes, heard_vars>>
             /\ \/ controls' = Controls(run_state, busy)
                \/ controls' = controls /\ busy = control_busy
    BY <1>1, <1>2, <2>2 DEF TypeOK, ControlsAreFresh, Controls
  <2>3. CASE m.error \/ ~m.response.ok
    <3>1. /\ controls' = Refreshed(TRUE, busy)
          /\ UNCHANGED <<active_run, run_state, move_delay_ms, select, changes, heard_vars>>
      BY <2>3 DEF OnControlResult
    <3> QED
      BY <2>2, <3>1 DEF Refreshed
  <2>4. CASE ~(m.error \/ ~m.response.ok) /\ m.op = "discover"
    <3>1. CASE m.response.run # NoRun
      BY <2>1, <2>4, <3>1 DEF OnControlResult
    <3>2. CASE m.response.run = NoRun
      <4>1. /\ controls' = Refreshed(FALSE, busy)
            /\ UNCHANGED <<active_run, run_state, move_delay_ms, select, changes, heard_vars>>
        BY <2>4, <3>2 DEF OnControlResult
      <4> QED
        BY <1>4, <2>2, <2>4, <4>1 DEF Refreshed
    <3> QED
      BY <3>1, <3>2
  <2>5. CASE ~(m.error \/ ~m.response.ok) /\ m.op = "submit"
    <3>1. CASE active_run = NoRun \/ run_state \in {"idle"} \union Ended
      BY <2>1, <2>5, <3>1 DEF OnControlResult
    <3>2. CASE ~(active_run = NoRun \/ run_state \in {"idle"} \union Ended)
      <4>1. /\ controls' = Refreshed(TRUE, busy)
            /\ UNCHANGED <<active_run, run_state, move_delay_ms, select, changes, heard_vars>>
        BY <2>5, <3>2 DEF OnControlResult
      <4> QED
        BY <2>2, <4>1 DEF Refreshed
    <3> QED
      BY <3>1, <3>2
  <2>6. CASE ~(m.error \/ ~m.response.ok) /\ m.op \notin {"discover", "submit"}
    BY <2>1, <2>6 DEF OnControlResult
  <2> QED
    BY <2>3, <2>4, <2>5, <2>6
<1>9. TypeOK'
  BY <1>1, <1>2, <1>4, <1>8 DEF TypeOK, server_vars, call_vars, user_vars
<1>10. OnTheWay'
  BY <1>1, <1>2, <1>3 DEF OnTheWay, server_vars, call_vars
<1>11. AnswersFit'
  BY <1>1, <1>2, <1>3 DEF AnswersFit, Fits, call_vars
<1>12. TaskHasItsRun'
  BY <1>1, <1>8 DEF IInv, TaskHasItsRun
<1>13. BusyIsOneRequest'
  <2>1. Cardinality(Own(results)) =
          Cardinality(Own(results')) + IF m.op # "discover" THEN 1 ELSE 0
    BY <1>1, <1>2, OwnTaken DEF OnTheWay
  <2>2. Cardinality(Own(results')) \in Nat
    BY <1>3, OwnIsFinite
  <2>3. UNCHANGED <<calls, task>>
    BY <1>1 DEF call_vars
  <2>4. CASE m.op = "discover"
    BY <1>1, <1>2, <1>4, <2>1, <2>2, <2>3, <2>4, Count, CountNext, CountsAreNat
  <2>5. CASE m.op # "discover"
    <3>1. control_busy
      BY <2>1, <2>2, <2>5, CountsAreNat
    <3>2. Len(task) + Cardinality(Own(calls)) + Cardinality(Own(results)) = 1
      BY <1>2, <3>1, Count
    <3>3. Len(task') + Cardinality(Own(calls')) + Cardinality(Own(results')) = 0
      BY <2>1, <2>2, <2>3, <2>5, <3>2, CountsAreNat
    <3> QED
      BY <1>1, <1>4, <2>5, <3>3, CountNext
  <2> QED
    BY <2>4, <2>5
<1> QED
  BY <1>8, <1>9, <1>10, <1>11, <1>12, <1>13 DEF IInv

\* There is one task at a time.
LEMMA OneTask ==
  ASSUME IInv, task # <<>>
  PROVE  Len(task) = 1 /\ task[1] \in Begun
<1>1. task \in Seq(Begun) /\ Len(task) <= 1
  BY DEF IInv, TypeOK, OnTheWay
<1>2. Len(task) \in Nat \ {0} /\ task[1] \in Begun
  BY <1>1
<1> QED
  BY <1>1, <1>2, SMTT(30)

LEMMA TaskStarts ==
  ASSUME IInv, StartTask
  PROVE  IInv'
<1> PICK t : t = task[1]
  OBVIOUS
<1> PICK q : q = [op |-> t.op, delay |-> t.delay,
                  run |-> IF t.op = "submit" THEN NoRun ELSE active_run]
  OBVIOUS
<1>1. /\ task # <<>> /\ task' = <<>> /\ calls' = Append(calls, q)
      /\ UNCHANGED <<server_vars, answer, view_vars, control_busy, results, user_vars>>
  BY DEF StartTask
<1>2. TypeOK /\ OnTheWay /\ AnswersFit /\ TaskHasItsRun
  BY DEF IInv
<1>3. t.op \in Ops \ {"discover"} /\ t.delay \in Delays /\ Len(task) = 1
  <2>1. Len(task) = 1 /\ t \in Begun
    BY <1>1, OneTask
  <2> QED
    BY <2>1 DEF Begun
<1>4. t.op # "submit" => active_run \in Runs
  BY <1>1, <1>2 DEF TaskHasItsRun, TypeOK
<1>5. q \in Request /\ q.op = t.op
  BY <1>3, <1>4 DEF Request, Ops
<1>6. calls \in Seq(Request)
  BY <1>2 DEF OnTheWay
<1>7. /\ calls' \in Seq(Request) /\ Len(calls') = Len(calls) + 1 /\ Len(calls) \in Nat
      /\ calls # <<>> => calls'[1] = calls[1]
      /\ calls' # <<>>
  <2> HIDE DEF Request
  <2> QED
    BY <1>1, <1>5, <1>6
<1>8. Cardinality(Own(calls')) = Cardinality(Own(calls)) + 1
  BY <1>1, <1>3, <1>5, <1>6, OwnAppended
<1>9. TypeOK'
  BY <1>1, <1>2, <1>7 DEF TypeOK, OnTheWay, server_vars, view_vars, shown_vars, user_vars
<1>10. OnTheWay'
  BY <1>1, <1>2, <1>7 DEF OnTheWay, server_vars
<1>11. AnswersFit'
  BY <1>1, <1>2, <1>7 DEF AnswersFit, Fits
<1>12. TaskHasItsRun'
  BY <1>1 DEF TaskHasItsRun
<1>13. BusyIsOneRequest'
  BY <1>1, <1>3, <1>8, Count, CountNext, CountsAreNat DEF IInv
<1>14. ControlsAreFresh'
  BY <1>1 DEF IInv, ControlsAreFresh, Controls, view_vars, shown_vars
<1> QED
  BY <1>9, <1>10, <1>11, <1>12, <1>13, <1>14 DEF IInv

LEMMA LoadFails ==
  ASSUME IInv, FailToLoad
  PROVE  IInv'
<1> PICK r : r = [op |-> "submit", error |-> TRUE]
  OBVIOUS
<1>1. /\ task # <<>> /\ task[1].op = "submit" /\ task' = <<>> /\ results' = Append(results, r)
      /\ UNCHANGED <<server_vars, call_vars, view_vars, control_busy, user_vars>>
  BY DEF FailToLoad
<1>2. r \in Result /\ r.error /\ r.op = "submit"
  BY DEF Result, Ops
<1>3. TypeOK /\ OnTheWay /\ AnswersFit
  BY DEF IInv
<1>4. /\ results' \in Seq(Result)
      /\ \A i \in DOMAIN results' :
            ~results'[i].error => Fits(results'[i].response, results'[i].op)
      /\ Cardinality(Own(results')) = Cardinality(Own(results)) + 1
  BY <1>1, <1>2, <1>3, PostKeepsResults
<1>5. TypeOK'
  BY <1>1, <1>3 DEF TypeOK, server_vars, call_vars, view_vars, shown_vars, user_vars
<1>6. OnTheWay'
  BY <1>1, <1>3, <1>4 DEF OnTheWay, server_vars, call_vars
<1>7. AnswersFit'
  BY <1>1, <1>3, <1>4 DEF AnswersFit, Fits, call_vars
<1>8. TaskHasItsRun'
  BY <1>1 DEF TaskHasItsRun
<1>9. BusyIsOneRequest'
  <2>1. Len(task) = 1
    BY <1>1, OneTask
  <2> QED
    BY <1>1, <1>4, <2>1, Count, CountNext, CountsAreNat DEF IInv, call_vars
<1>10. ControlsAreFresh'
  BY <1>1 DEF IInv, ControlsAreFresh, Controls, view_vars, shown_vars
<1> QED
  BY <1>5, <1>6, <1>7, <1>8, <1>9, <1>10 DEF IInv

-----------------------------------------------------------------------------
(* The steps of the server and of the user.                                 *)

LEMMA ServerInvariant ==
  ASSUME IInv, Server
  PROVE  IInv'
<1>1. TypeOK /\ OnTheWay /\ AnswersFit /\ abandoned \subseteq Request
  BY DEF IInv, OnTheWay
<1>2. ASSUME NEW r \in Runs, NEW s \in States \ {"absent"}, Reached(r, s)
      PROVE  IInv'
  <2>1. /\ state' = [state EXCEPT ![r] = s] /\ PublishRun(r, s, delay[r])
        /\ UNCHANGED <<delay, abandoned, client_vars>>
    BY <1>2 DEF Reached
  <2>2. /\ state' \in [Runs -> States] /\ delay' \in [Runs -> Delays] /\ delay[r] \in Delays
    BY <1>1, <1>2, <2>1 DEF TypeOK
  <2>3. clock' \in Nat /\ telemetry' \in Seq(Message) /\ Len(telemetry') <= MaxBacklog
    BY <1>1, <1>2, <2>1, <2>2, StatusKeeps
  <2>4. ServerOK'
    BY <2>2, <2>3 DEF ServerOK
  <2> QED
    BY <1>1, <2>1, <2>4, ServerKeeps
<1>3. CASE StartRun
  <2>1. First(QueuedRuns) \in Runs
    BY <1>3, FirstIsOne DEF StartRun, QueuedRuns
  <2>2. "running" \in States \ {"absent"} /\ Reached(First(QueuedRuns), "running")
    BY <1>3 DEF StartRun, States, Live
  <2> QED
    BY <1>2, <2>1, <2>2
<1>4. ASSUME NEW r \in Runs, EndRun(r)
      PROVE  IInv'
  <2>1. {"completed", "cancelled"} \subseteq States \ {"absent"}
    BY DEF States, Ended
  <2> QED
    BY <1>2, <1>4, <2>1 DEF EndRun
<1>5. ASSUME NEW r \in Runs, Play(r)
      PROVE  IInv'
  <2>1. PICK m : m = [topic |-> "frame", run |-> r]
    OBVIOUS
  <2>2. m \in Message /\ Publish(m)
    BY <1>5, <2>1 DEF Message, Play
  <2>3. telemetry' \in Seq(Message) /\ Len(telemetry') <= MaxBacklog
    BY <1>1, <2>2, PublishKeeps DEF OnTheWay
  <2>4. UNCHANGED <<state, delay, clock, abandoned, client_vars>>
    BY <1>5 DEF Play
  <2>5. ServerOK'
    BY <1>1, <2>3, <2>4 DEF ServerOK, TypeOK, OnTheWay
  <2> QED
    BY <1>1, <2>4, <2>5, ServerKeeps
<1>6. ASSUME NEW q \in Requests, OtherRequest(q)
      PROVE  IInv'
  <2>1. q \in Request
    BY ClientAssumption DEF Requests, Request, ControlOps
  <2>2. Handle(q) /\ UNCHANGED <<abandoned, client_vars>>
    BY <1>6 DEF OtherRequest
  <2> QED
    BY <1>1, <2>1, <2>2, HandleIsSound, ServerKeeps
<1>7. CASE HandleAbandoned
  <2>1. PICK q \in abandoned : Handle(q) /\ abandoned' = abandoned \ {q} /\ UNCHANGED client_vars
    BY <1>7 DEF HandleAbandoned
  <2> QED
    BY <1>1, <2>1, HandleIsSound, ServerKeeps
<1>8. CASE AnswerCall
  <2>1. PICK q : q = Head(calls)
    OBVIOUS
  <2>2. /\ calls # <<>> /\ answer = <<>> /\ Handle(q) /\ answer' = <<Answer(q)>>
        /\ UNCHANGED <<abandoned, calls, view_vars, control_busy, task, results, user_vars>>
    BY <1>8, <2>1 DEF AnswerCall
  <2>3. q \in Request /\ q = calls[1] /\ Len(calls) \in Nat \ {0}
    BY <1>1, <2>1, <2>2, TailOf DEF OnTheWay
  <2>4. ServerOK' /\ Answer(q) \in Response /\ Fits(Answer(q), q.op)
    BY <1>1, <2>2, <2>3, HandleIsSound
  <2>5. PICK a : a = Answer(q)
    OBVIOUS
  <2>6. answer' \in Seq(Response) /\ Len(answer') = 1 /\ answer'[1] = a
    <3> HIDE DEF Response
    <3>1. answer' = <<a>> /\ a \in Response
      BY <2>2, <2>4, <2>5
    <3> QED
      BY <3>1
  <2>7. TypeOK'
    <3>1. \A i \in DOMAIN telemetry' : telemetry'[i].run \in Runs
      <4>1. \A m \in Message : m.run \in Runs
        BY DEF Message
      <4> HIDE DEF Message
      <4> QED
        BY <2>4, <4>1 DEF ServerOK
    <3> QED
      BY <1>1, <2>2, <2>3, <2>4, <2>6, <3>1
         DEF TypeOK, ServerOK, view_vars, shown_vars, user_vars
  <2>8. OnTheWay'
    BY <1>1, <2>2, <2>4, <2>6 DEF OnTheWay, ServerOK
  <2>9. AnswersFit'
    <3>1. Fits(a, calls[1].op)
      BY <2>3, <2>4, <2>5
    <3>2. Fits(answer[1], calls[1].op)'
      BY <2>2, <2>6, <3>1 DEF Fits
    <3> QED
      BY <1>1, <2>2, <2>6, <3>2 DEF AnswersFit, Fits
  <2>10. TaskHasItsRun'
    BY <2>2 DEF IInv, TaskHasItsRun, view_vars
  <2>11. BusyIsOneRequest' /\ ControlsAreFresh'
    BY <2>2 DEF IInv, BusyIsOneRequest, ControlsAreFresh, Controls, view_vars, shown_vars
  <2> QED
    BY <2>7, <2>8, <2>9, <2>10, <2>11 DEF IInv
<1> QED
  BY <1>3, <1>4, <1>5, <1>6, <1>7, <1>8 DEF Server

\* The view and the calls stay as they are, except for what the user has in hand.
LEMMA UserKeeps ==
  ASSUME IInv,
         UNCHANGED <<server_vars, call_vars, active_run, run_state, move_delay_ms, controls,
                     control_busy, task, results>>,
         select' \in Delays, changes' \in Seq(Delays), dialog' \in Runs \union {NoRun}
  PROVE  IInv'
<1>1. TypeOK'
  BY DEF IInv, TypeOK, server_vars, call_vars
<1>2. OnTheWay' /\ AnswersFit' /\ TaskHasItsRun'
  BY DEF IInv, OnTheWay, AnswersFit, Fits, TaskHasItsRun, server_vars, call_vars
<1>3. BusyIsOneRequest' /\ ControlsAreFresh'
  BY DEF IInv, BusyIsOneRequest, ControlsAreFresh, Controls, call_vars
<1> QED
  BY <1>1, <1>2, <1>3 DEF IInv

LEMMA UserInvariant ==
  ASSUME IInv, User
  PROVE  IInv'
<1>1. /\ 0 \in Delays /\ select \in Delays /\ changes \in Seq(Delays)
      /\ dialog \in Runs \union {NoRun} /\ active_run \in Runs \union {NoRun}
      /\ control_busy \in BOOLEAN
  BY ClientAssumption DEF IInv, TypeOK
<1>2. controls = Controls(run_state, control_busy)
  BY DEF IInv, ControlsAreFresh
<1>3. /\ controls.submit => ~control_busy
      /\ controls.can_pause => ~control_busy
  BY <1>2 DEF Controls
<1>4. {"pause", "resume", "cancel", "submit"} \subseteq Ops \ {"discover"}
  BY DEF Ops, ControlOps
<1>5. CASE PressPause
  <2>1. PICK op \in {"pause", "resume"} : Begin(op, 0)
    BY <1>5 DEF PressPause
  <2> QED
    BY <1>1, <1>3, <1>4, <1>5, <2>1, BeginKeeps DEF PressPause, calm_vars
<1>6. CASE PressSubmit
  BY <1>1, <1>3, <1>4, <1>6, BeginKeeps DEF PressSubmit, calm_vars
<1>7. CASE PressCancel
  BY <1>1, <1>7, UserKeeps DEF PressCancel, view_vars, shown_vars
<1>8. ASSUME NEW d \in Delays, PickDelay(d)
      PROVE  IInv'
  <2>1. changes' = Append(changes, d) /\ select' = d
    BY <1>8 DEF PickDelay
  <2>2. changes' \in Seq(Delays)
    BY <1>1, <2>1
  <2> QED
    BY <1>1, <1>8, <2>1, <2>2, UserKeeps DEF PickDelay
<1>9. ASSUME NEW confirmed \in BOOLEAN, CloseDialog(confirmed)
      PROVE  IInv'
  <2>1. /\ dialog' \in Runs \union {NoRun}
        /\ UNCHANGED <<calm_vars, changes, presses>>
    BY <1>9 DEF CloseDialog
  <2>2. CASE confirmed /\ active_run # NoRun /\ ~control_busy
    <3>1. Begin("cancel", 0)
      BY <1>9, <2>2 DEF CloseDialog
    <3> QED
      BY <1>1, <1>4, <2>1, <2>2, <3>1, BeginKeeps DEF calm_vars
  <2>3. CASE ~(confirmed /\ active_run # NoRun /\ ~control_busy)
    <3>1. UNCHANGED <<control_busy, controls, task>>
      BY <1>9, <2>3 DEF CloseDialog
    <3> QED
      BY <1>1, <2>1, <3>1, UserKeeps DEF calm_vars
  <2> QED
    BY <2>2, <2>3
<1> QED
  BY <1>5, <1>6, <1>7, <1>8, <1>9 DEF User

LEMMA ChangedKeeps ==
  ASSUME IInv, OnSelectChanged
  PROVE  IInv'
<1> PICK d : d = Head(changes)
  OBVIOUS
<1>1. /\ changes # <<>> /\ changes' = Tail(changes) /\ UNCHANGED <<calm_vars, user_vars>>
  BY DEF OnSelectChanged
<1>2. /\ changes \in Seq(Delays) /\ select \in Delays /\ dialog \in Runs \union {NoRun}
  BY DEF IInv, TypeOK
<1>3. changes' \in Seq(Delays) /\ d \in Delays
  BY <1>1, <1>2, TailOf
<1>4. CASE d # move_delay_ms /\ active_run # NoRun /\ ~control_busy
  <2>1. Begin("delay", d) /\ "delay" \in Ops \ {"discover"}
    BY <1>4 DEF OnSelectChanged, Ops, ControlOps
  <2> QED
    BY <1>1, <1>2, <1>3, <1>4, <2>1, BeginKeeps DEF calm_vars, user_vars
<1>5. CASE ~(d # move_delay_ms /\ active_run # NoRun /\ ~control_busy)
  <2>1. UNCHANGED <<control_busy, controls, task>>
    BY <1>5 DEF OnSelectChanged
  <2> QED
    BY <1>1, <1>2, <1>3, <2>1, UserKeeps DEF calm_vars, user_vars
<1> QED
  BY <1>4, <1>5

-----------------------------------------------------------------------------
(* The invariant holds.                                                     *)

LEMMA InitInvariant == Init => IInv
<1> SUFFICES ASSUME Init PROVE IInv
  OBVIOUS
<1>1. PICK q : q = [op |-> "discover", run |-> NoRun, delay |-> 0]
  OBVIOUS
<1>2. q \in Request /\ q.op = "discover" /\ calls = <<q>> /\ 0 \in Delays /\ MaxBacklog \in Nat
  BY <1>1, ClientAssumption DEF Init, Request
<1>3. calls \in Seq(Request) /\ Len(calls) = 1 /\ DOMAIN calls = {1} /\ calls[1] = q
  <2> HIDE DEF Request
  <2> QED
    BY <1>2
<1>4. TypeOK
  <2>1. state \in [Runs -> States] /\ delay \in [Runs -> Delays]
    BY <1>2 DEF Init, States, Live
  <2>2. /\ telemetry = <<>> /\ active_run = NoRun /\ run_state = "idle" /\ move_delay_ms = 0
        /\ select = 0 /\ control_busy = FALSE /\ dialog = NoRun /\ task = <<>> /\ answer = <<>>
        /\ changes = <<>>
    BY DEF Init
  <2>3. Len(telemetry) <= MaxBacklog /\ DOMAIN telemetry = {}
    BY <1>2, <2>2
  <2>4. Len(task) <= 1 /\ Len(answer) <= Len(calls) /\ changes \in Seq(Delays)
    BY <1>3, <2>2
  <2> QED
    BY <1>2, <2>1, <2>2, <2>3, <2>4 DEF TypeOK
<1>5. OnTheWay
  <2>1. clock \in Nat
    BY DEF Init
  <2> QED
    BY <1>3, <2>1 DEF Init, OnTheWay
<1>6. AnswersFit /\ TaskHasItsRun /\ ControlsAreFresh
  <2>1. /\ answer = <<>> /\ results = <<>> /\ task = <<>> /\ run_state = "idle"
        /\ control_busy = FALSE /\ controls = Controls("idle", FALSE)
    BY DEF Init
  <2>2. Len(answer) <= 1 /\ DOMAIN results = {}
    BY <2>1
  <2> QED
    BY <2>1, <2>2 DEF AnswersFit, TaskHasItsRun, ControlsAreFresh
<1>7. BusyIsOneRequest
  <2>1. Own(calls) = {} /\ Own(results) = {}
    BY <1>2, <1>3 DEF Init, Own
  <2>2. Len(task) = 0 /\ Cardinality(Own(calls)) = 0 /\ Cardinality(Own(results)) = 0
    BY <2>1, FS_EmptySet DEF Init
  <2> QED
    BY <2>2, Count DEF Init
<1> QED
  BY <1>4, <1>5, <1>6, <1>7 DEF IInv

LEMMA StepInvariant == IInv /\ [Next]_vars => IInv'
<1> SUFFICES ASSUME IInv, [Next]_vars PROVE IInv'
  OBVIOUS
<1>1. CASE Server
  BY <1>1, ServerInvariant
<1>2. CASE User
  BY <1>2, UserInvariant
<1>3. CASE ReceiveAnswer
  <2>1. PICK r : r = [op |-> Head(calls).op, error |-> FALSE, response |-> answer[1]]
    OBVIOUS
  <2>2. answer # <<>> /\ Posted(r) /\ UNCHANGED server_vars
    BY <1>3, <2>1 DEF ReceiveAnswer
  <2>3. /\ answer \in Seq(Response) /\ calls \in Seq(Request) /\ abandoned \subseteq Request
        /\ calls # <<>> /\ Fits(answer[1], calls[1].op)
    BY <2>2 DEF IInv, OnTheWay, AnswersFit
  <2>4. answer[1] \in Response /\ Head(calls) = calls[1] /\ calls[1] \in Request
    BY <2>2, <2>3, TailOf
  <2>5. r \in Result /\ r.op = Head(calls).op /\ Fits(r.response, r.op)
    <3>1. Head(calls).op \in Ops
      BY <2>4 DEF Request, Ops
    <3> HIDE DEF Response
    <3> QED
      BY <2>1, <2>3, <2>4, <3>1 DEF Result
  <2> QED
    BY <2>2, <2>3, <2>5, PostedKeeps DEF server_vars
<1>4. CASE TimeOut
  <2>1. PICK r : r = [op |-> Head(calls).op, error |-> TRUE]
    OBVIOUS
  <2>2. /\ calls # <<>> /\ Posted(r) /\ UNCHANGED <<state, delay, telemetry, clock>>
        /\ abandoned' \in {abandoned, abandoned \union {Head(calls)}}
    BY <1>4, <2>1 DEF TimeOut
  <2>3. calls \in Seq(Request) /\ abandoned \subseteq Request
    BY DEF IInv, OnTheWay
  <2>4. Head(calls) \in Request
    BY <2>2, <2>3, TailOf
  <2>5. r \in Result /\ r.op = Head(calls).op /\ r.error
    BY <2>1, <2>4 DEF Request, Result, Ops
  <2> QED
    BY <2>2, <2>3, <2>4, <2>5, PostedKeeps
<1>5. CASE LoseTelemetry
  <2>1. /\ telemetry # <<>> /\ telemetry' = Tail(telemetry)
        /\ UNCHANGED <<state, delay, abandoned, clock, client_vars>>
    BY <1>5 DEF LoseTelemetry
  <2>2. /\ TypeOK /\ OnTheWay /\ MaxBacklog \in Nat
    BY ClientAssumption DEF IInv
  <2>3. telemetry' \in Seq(Message) /\ Len(telemetry') = Len(telemetry) - 1
        /\ Len(telemetry) \in Nat
    BY <2>1, <2>2, TailOf DEF OnTheWay
  <2>4. ServerOK'
    BY <2>1, <2>2, <2>3 DEF ServerOK, TypeOK, OnTheWay
  <2> QED
    BY <2>1, <2>2, <2>4, ServerKeeps DEF OnTheWay
<1>6. CASE OnTelemetryReceived
  BY <1>6, TelemetryKeeps
<1>7. CASE OnControlResult
  BY <1>7, ResultKeeps
<1>8. CASE OnSelectChanged
  BY <1>8, ChangedKeeps
<1>9. CASE StartTask
  BY <1>9, TaskStarts
<1>10. CASE FailToLoad
  BY <1>10, LoadFails
<1>11. CASE UNCHANGED vars
  <2>1. ServerOK /\ abandoned \subseteq Request
    BY DEF IInv, TypeOK, OnTheWay, ServerOK
  <2>2. ServerOK' /\ abandoned' \subseteq Request /\ UNCHANGED client_vars
    BY <1>11, <2>1 DEF vars, server_vars, ServerOK
  <2> QED
    BY <2>2, ServerKeeps
<1> QED
  BY <1>1, <1>2, <1>3, <1>4, <1>5, <1>6, <1>7, <1>8, <1>9, <1>10, <1>11 DEF Next

THEOREM Invariance == Spec => []IInv
BY InitInvariant, StepInvariant, PTL DEF Spec

\* The buttons show the state and the lock of now (_refresh_controls is forgotten on no
\* path), and are locked exactly while one request of the user's is under way: no two
\* of them at once, and no answer, time-out or failure leaves them locked for nothing.
THEOREM ButtonsAreSound == Spec => []ControlsAreSound
BY Invariance, PTL DEF IInv, ControlsAreSound

-----------------------------------------------------------------------------
(* The second invariant: what is under way makes good for what the view has *)
(* not been told yet.  It is stated of the telemetry t, of the states st    *)
(* and delays dl of the runs and of the clock ck.                           *)

Word(m, q) == m.topic = "run" /\ m.run = q
Saying(m, q, s) == Word(m, q) /\ m.state = s

\* One run is live at a time.
OneLive(st) == \A p, q \in Runs : st[p] \in Live /\ st[q] \in Live => p = q

\* Statuses are under way in the order of the clock.
InOrder(t, ck) ==
    \A i \in DOMAIN t : t[i].topic = "run" =>
       /\ t[i].at <= ck
       /\ \A j \in DOMAIN t : i < j /\ t[j].topic = "run" => t[i].at < t[j].at

\* The last word about a run is the truth, and no run comes back from its end.
LastWordIsTrue(t, st, dl) ==
    \A i \in DOMAIN t : t[i].topic = "run" =>
       /\ \/ \E j \in DOMAIN t : i < j /\ Word(t[j], t[i].run)
          \/ t[i].state = st[t[i].run] /\ t[i].delay = dl[t[i].run]
       /\ t[i].state \in Ended => st[t[i].run] \in Ended

\* After a frame of a run comes word of its end, if it has ended.
EndsFollowFrames(t, st) ==
    \A i \in DOMAIN t : t[i].topic = "frame" =>
       st[t[i].run] \in Live \/ \E j \in DOMAIN t : i < j /\ Word(t[j], t[i].run)

\* What is said before the start of run r: of another run, or that r is queued.
Before(m, r) ==
    \/ m.topic = "frame" /\ m.run # r
    \/ m.topic = "run" /\ m.state \in Live /\ m.run # r
    \/ Saying(m, r, "queued")

\* It is followed by word of the start of the run that is live now.
StartsFollow(t, st) ==
    \A i \in DOMAIN t, r \in Runs : st[r] \in Live /\ Before(t[i], r) =>
       \E j \in DOMAIN t : i < j /\ Saying(t[j], r, "running")

Sound(t, st, dl, ck) ==
    /\ OneLive(st)
    /\ InOrder(t, ck)
    /\ LastWordIsTrue(t, st, dl)
    /\ EndsFollowFrames(t, st)
    /\ StartsFollow(t, st)

\* The view has already seen, up to sn, what is newer than response x.
Passed(x, t, sn) == x.at < sn /\ \A i \in DOMAIN t : t[i].topic = "run" => x.at < t[i].at

\* A response that is not the truth any more has been passed, or newer word of its run is
\* under way, word of the start if the run was queued and is live; ls says that word was lost.
Fresh(x, t, st, dl, ck, sn, ls) ==
    x.ok /\ x.run # NoRun =>
      /\ x.at <= ck
      /\ x.state \in Ended => st[x.run] \in Ended
      /\ \/ ls \/ Passed(x, t, sn)
         \/ x.state = st[x.run] /\ x.delay = dl[x.run]
         \/ \E i \in DOMAIN t : Word(t[i], x.run) /\ x.at < t[i].at
      /\ (x.state = "queued" /\ st[x.run] \in Live) =>
           \/ ls \/ Passed(x, t, sn)
           \/ \E i \in DOMAIN t : Saying(t[i], x.run, "running") /\ x.at < t[i].at

IsFresh(x) == Fresh(x, telemetry, state, delay, clock, seen, lost)

ResponsesAreFresh ==
    /\ answer # <<>> => IsFresh(answer[1])
    /\ \A i \in DOMAIN results : ~results[i].error => IsFresh(results[i].response)

\* The discovery that is to find run q live, or has found it so.
Finds(x, q) == x.ok /\ x.run = q /\ x.state \in Live

Discovering(q) ==
    \/ /\ calls # <<>> /\ calls[1].op = "discover"
       /\ answer # <<>> => Finds(answer[1], q)
    \/ \E i \in DOMAIN results :
          results[i].op = "discover" /\ ~results[i].error /\ Finds(results[i].response, q)

WordOf(t, q) == \E i \in DOMAIN t : Word(t[i], q)
StartOf(t, q) == \E i \in DOMAIN t : Saying(t[i], q, "running")

\* The run that is live is on show, or the view is about to hear that it has started.
LiveIsFollowed ==
    \A r \in Runs : state[r] \in Live =>
       \/ StartOf(telemetry, r)
       \/ active_run = r /\ run_state \in Live
       \/ Discovering(r)

\* What is shown of the run on show is so, or is about to be put right.
ShownIsTrue ==
    active_run # NoRun =>
       \/ run_state = state[active_run] /\ move_delay_ms = delay[active_run]
       \/ WordOf(telemetry, active_run)
       \/ state[active_run] \in Live /\ Discovering(active_run)

VInv ==
    /\ lost \in BOOLEAN /\ overtaken \in BOOLEAN /\ seen \in Nat
    /\ Sound(telemetry, state, delay, clock)
    /\ ResponsesAreFresh
    /\ lost \/ overtaken \/ (LiveIsFollowed /\ ShownIsTrue)
-----------------------------------------------------------------------------
(* Lemmas about what is under way.                                          *)

\* What is left when the oldest message is gone: each message one place further to the front.
LEMMA TailPlaces ==
  ASSUME NEW E, NEW t \in Seq(E), t # <<>>
  PROVE  /\ DOMAIN t \subseteq Nat /\ DOMAIN Tail(t) \subseteq Nat /\ 1 \in DOMAIN t
         /\ \A i \in DOMAIN Tail(t) : i + 1 \in DOMAIN t /\ i + 1 # 1 /\ Tail(t)[i] = t[i + 1]
         /\ \A i \in DOMAIN t : i # 1 =>
               i - 1 \in DOMAIN Tail(t) /\ Tail(t)[i - 1] = t[i] /\ 1 < i /\ i = (i - 1) + 1
<1> PICK n, u : n = Len(t) /\ u = Tail(t)
  OBVIOUS
<1>1. /\ n \in Nat \ {0} /\ DOMAIN t = 1..n /\ DOMAIN u = 1..(n - 1)
      /\ \A i \in 1..(n - 1) : u[i] = t[i + 1]
  OBVIOUS
<1>2. \A i \in 1..(n - 1) : i + 1 \in 1..n /\ i + 1 # 1
  BY <1>1
<1>3. \A i \in 1..n : i # 1 => i - 1 \in 1..(n - 1) /\ 1 < i /\ i = (i - 1) + 1
  BY <1>1
<1>4. 1..n \subseteq Nat /\ 1..(n - 1) \subseteq Nat /\ 1 \in 1..n
  BY <1>1
<1> QED
  BY <1>1, <1>2, <1>3, <1>4

\* What is there when a message has joined.
LEMMA AppendPlaces ==
  ASSUME NEW E, NEW t \in Seq(E), NEW m \in E
  PROVE  \E n \in Nat :
           /\ DOMAIN t = 1..n /\ DOMAIN Append(t, m) = (1..n) \union {n + 1}
           /\ Append(t, m)[n + 1] = m /\ \A i \in 1..n : Append(t, m)[i] = t[i] /\ i < n + 1
<1> PICK n, u : n = Len(t) /\ u = Append(t, m)
  OBVIOUS
<1>1. /\ n \in Nat /\ DOMAIN t = 1..n /\ DOMAIN u = 1..(n + 1)
      /\ u[n + 1] = m /\ \A i \in 1..n : u[i] = t[i]
  OBVIOUS
<1>2. 1..(n + 1) = (1..n) \union {n + 1} /\ \A i \in 1..n : i < n + 1
  BY <1>1
<1> QED
  BY <1>1, <1>2

LEMMA TailIsSound ==
  ASSUME NEW t \in Seq(Message), t # <<>>, NEW st, NEW dl, NEW ck, Sound(t, st, dl, ck)
  PROVE  Sound(Tail(t), st, dl, ck)
<1> PICK u : u = Tail(t)
  OBVIOUS
<1>1. /\ DOMAIN t \subseteq Nat /\ DOMAIN u \subseteq Nat
      /\ \A i \in DOMAIN u : i + 1 \in DOMAIN t /\ i + 1 # 1 /\ u[i] = t[i + 1]
      /\ \A i \in DOMAIN t : i # 1 =>
            i - 1 \in DOMAIN u /\ u[i - 1] = t[i] /\ 1 < i /\ i = (i - 1) + 1
  BY TailPlaces
<1>2. \A i, j \in DOMAIN u : i < j => i + 1 < j + 1
  BY <1>1
<1>3. \A i \in DOMAIN u, j \in DOMAIN t : i + 1 < j => j - 1 \in DOMAIN u /\ i < j - 1 /\ u[j - 1] = t[j]
  BY <1>1
<1>4. InOrder(u, ck)
  BY <1>1, <1>2 DEF Sound, InOrder
<1>5. LastWordIsTrue(u, st, dl)
  <2> SUFFICES ASSUME NEW i \in DOMAIN u, u[i].topic = "run"
               PROVE  /\ \/ \E j \in DOMAIN u : i < j /\ Word(u[j], u[i].run)
                         \/ u[i].state = st[u[i].run] /\ u[i].delay = dl[u[i].run]
                      /\ u[i].state \in Ended => st[u[i].run] \in Ended
    BY DEF LastWordIsTrue
  <2> QED
    BY <1>1, <1>3 DEF Sound, LastWordIsTrue
<1>6. EndsFollowFrames(u, st)
  <2> SUFFICES ASSUME NEW i \in DOMAIN u, u[i].topic = "frame", st[u[i].run] \notin Live
               PROVE  \E j \in DOMAIN u : i < j /\ Word(u[j], u[i].run)
    BY DEF EndsFollowFrames
  <2> QED
    BY <1>1, <1>3 DEF Sound, EndsFollowFrames
<1>7. StartsFollow(u, st)
  <2> SUFFICES ASSUME NEW i \in DOMAIN u, NEW r \in Runs, st[r] \in Live, Before(u[i], r)
               PROVE  \E j \in DOMAIN u : i < j /\ Saying(u[j], r, "running")
    BY DEF StartsFollow
  <2> QED
    BY <1>1, <1>3 DEF Sound, StartsFollow
<1> QED
  BY <1>4, <1>5, <1>6, <1>7 DEF Sound

\* The step of a run from state st[r] to state s.
Legal(st, r, s) ==
    /\ s \in Live => \/ st[r] \in Live
                     \/ s = "running" /\ \A q \in Runs : st[q] \notin Live
    /\ s = "queued" => st[r] \in {"absent", "queued"}
    /\ st[r] \in Ended => s \in Ended

\* A status that is published is the last word, and the newest.
LEMMA StatusIsSound ==
  ASSUME NEW t \in Seq(Message), NEW st \in [Runs -> States], NEW dl \in [Runs -> Delays],
         NEW ck \in Nat, Sound(t, st, dl, ck), NEW r \in Runs, NEW s \in States \ {"absent"},
         NEW d \in Delays, Legal(st, r, s),
         NEW m, m = [topic |-> "run", run |-> r, state |-> s, delay |-> d, at |-> ck + 1]
  PROVE  Sound(Append(t, m), [st EXCEPT ![r] = s], [dl EXCEPT ![r] = d], ck + 1)
<1> PICK u, st2, dl2 : /\ u = Append(t, m)
                       /\ st2 = [st EXCEPT ![r] = s] /\ dl2 = [dl EXCEPT ![r] = d]
  OBVIOUS
<1>1. m \in Message
  BY DEF Message
<1>2. PICK n \in Nat : /\ DOMAIN t = 1..n /\ DOMAIN u = (1..n) \union {n + 1}
                       /\ u[n + 1] = m /\ \A i \in 1..n : u[i] = t[i] /\ i < n + 1
  <2> HIDE DEF Message
  <2> QED
    BY <1>1, AppendPlaces
<1>3. /\ st2[r] = s /\ dl2[r] = d
      /\ \A q \in Runs : q # r => st2[q] = st[q] /\ dl2[q] = dl[q]
  OBVIOUS
<1>4. \A i \in 1..n : t[i] \in Message /\ t[i].run \in Runs
  <2>1. \A x \in Message : x.run \in Runs
    BY DEF Message
  <2>2. \A i \in 1..n : t[i] \in Message
    <3> HIDE DEF Message
    <3> QED
      BY <1>2
  <2> QED
    BY <2>1, <2>2
<1>5. m.topic = "run" /\ m.run = r /\ m.state = s /\ m.delay = d /\ m.at = ck + 1
  OBVIOUS
<1>6. OneLive(st2)
  BY <1>3 DEF Sound, OneLive, Legal
<1>7. InOrder(u, ck + 1)
  <2>1. \A i \in 1..n : t[i].topic = "run" => t[i].at \in Nat
    BY <1>4 DEF Message
  <2>2. \A i \in 1..n : t[i].topic = "run" => t[i].at <= ck
    BY <1>2 DEF Sound, InOrder
  <2>3. \A i \in 1..n : t[i].topic = "run" => t[i].at < ck + 1 /\ t[i].at <= ck + 1
    BY <2>1, <2>2
  <2>4. \A i, j \in 1..n : /\ t[i].topic = "run" /\ t[j].topic = "run" /\ i < j
                           => t[i].at < t[j].at
    BY <1>2 DEF Sound, InOrder
  <2>5. \A j \in 1..n : ~ (n + 1 < j)
    OBVIOUS
  <2> SUFFICES ASSUME NEW i \in DOMAIN u, u[i].topic = "run"
               PROVE  /\ u[i].at <= ck + 1
                      /\ \A j \in DOMAIN u : i < j /\ u[j].topic = "run" => u[i].at < u[j].at
    BY DEF InOrder
  <2>6. CASE i \in 1..n
    BY <1>2, <1>5, <2>3, <2>4, <2>6
  <2>7. CASE i = n + 1
    BY <1>2, <1>5, <2>5, <2>7
  <2> QED
    BY <1>2, <2>6, <2>7
<1>8. LastWordIsTrue(u, st2, dl2)
  <2> SUFFICES ASSUME NEW i \in DOMAIN u, u[i].topic = "run"
               PROVE  /\ \/ \E j \in DOMAIN u : i < j /\ Word(u[j], u[i].run)
                         \/ u[i].state = st2[u[i].run] /\ u[i].delay = dl2[u[i].run]
                      /\ u[i].state \in Ended => st2[u[i].run] \in Ended
    BY DEF LastWordIsTrue
  <2>1. CASE i = n + 1
    BY <1>2, <1>3, <1>5, <2>1
  <2>2. CASE i \in 1..n /\ t[i].run = r
    <3>1. i < n + 1 /\ Word(u[n + 1], u[i].run)
      BY <1>2, <1>5, <2>2 DEF Word
    <3>2. u[i].state \in Ended => st[r] \in Ended
      BY <1>2, <2>2 DEF Sound, LastWordIsTrue
    <3> QED
      BY <1>2, <1>3, <2>2, <3>1, <3>2 DEF Legal
  <2>3. CASE i \in 1..n /\ t[i].run # r
    <3>1. u[i] = t[i] /\ st2[t[i].run] = st[t[i].run] /\ dl2[t[i].run] = dl[t[i].run]
      BY <1>2, <1>3, <1>4, <2>3
    <3> QED
      BY <1>2, <2>3, <3>1 DEF Sound, LastWordIsTrue
  <2> QED
    BY <1>2, <2>1, <2>2, <2>3
<1>9. EndsFollowFrames(u, st2)
  <2> SUFFICES ASSUME NEW i \in DOMAIN u, u[i].topic = "frame", st2[u[i].run] \notin Live
               PROVE  \E j \in DOMAIN u : i < j /\ Word(u[j], u[i].run)
    BY DEF EndsFollowFrames
  <2>1. i \in 1..n /\ u[i] = t[i]
    BY <1>2, <1>5
  <2>2. CASE t[i].run = r
    BY <1>2, <1>5, <2>1, <2>2 DEF Word
  <2>3. CASE t[i].run # r
    <3>1. PICK j \in 1..n : i < j /\ Word(t[j], t[i].run)
      BY <1>2, <1>3, <1>4, <2>1, <2>3 DEF Sound, EndsFollowFrames
    <3> QED
      BY <1>2, <2>1, <3>1
  <2> QED
    BY <2>2, <2>3
<1>10. StartsFollow(u, st2)
  <2> SUFFICES ASSUME NEW i \in DOMAIN u, NEW q \in Runs, st2[q] \in Live, Before(u[i], q)
               PROVE  \E j \in DOMAIN u : i < j /\ Saying(u[j], q, "running")
    BY DEF StartsFollow
  <2>1. CASE i = n + 1
    <3>1. r # q => s \notin Live
      BY <1>3, <1>6 DEF OneLive
    <3>2. FALSE
      BY <1>2, <1>3, <1>5, <2>1, <3>1 DEF Before, Saying, Word, Live
    <3> QED
      BY <3>2
  <2>2. CASE i \in 1..n /\ st[q] \in Live
    <3>1. PICK j \in 1..n : i < j /\ Saying(t[j], q, "running")
      BY <1>2, <2>2 DEF Sound, StartsFollow
    <3> QED
      BY <1>2, <2>2, <3>1
  <2>3. CASE i \in 1..n /\ st[q] \notin Live
    <3>1. q = r /\ s = "running"
      BY <1>3, <2>3 DEF Legal
    <3> QED
      BY <1>2, <1>5, <2>3, <3>1 DEF Saying, Word
  <2> QED
    BY <1>2, <2>1, <2>2, <2>3
<1> QED
  BY <1>6, <1>7, <1>8, <1>9, <1>10 DEF Sound

\* A frame says that its run is live.
LEMMA FrameIsSound ==
  ASSUME NEW t \in Seq(Message), NEW st, NEW dl, NEW ck, Sound(t, st, dl, ck),
         NEW r \in Runs, st[r] \in Live, NEW m, m = [topic |-> "frame", run |-> r]
  PROVE  Sound(Append(t, m), st, dl, ck)
<1> PICK u : u = Append(t, m)
  OBVIOUS
<1>1. m \in Message
  BY DEF Message
<1>2. PICK n \in Nat : /\ DOMAIN t = 1..n /\ DOMAIN u = (1..n) \union {n + 1}
                       /\ u[n + 1] = m /\ \A i \in 1..n : u[i] = t[i] /\ i < n + 1
  <2> HIDE DEF Message
  <2> QED
    BY <1>1, AppendPlaces
<1>3. m.topic = "frame" /\ m.run = r
  OBVIOUS
<1>4. InOrder(u, ck)
  BY <1>2, <1>3 DEF Sound, InOrder
<1>5. LastWordIsTrue(u, st, dl)
  <2> SUFFICES ASSUME NEW i \in DOMAIN u, u[i].topic = "run"
               PROVE  /\ \/ \E j \in DOMAIN u : i < j /\ Word(u[j], u[i].run)
                         \/ u[i].state = st[u[i].run] /\ u[i].delay = dl[u[i].run]
                      /\ u[i].state \in Ended => st[u[i].run] \in Ended
    BY DEF LastWordIsTrue
  <2>1. i \in 1..n /\ u[i] = t[i]
    BY <1>2, <1>3
  <2> QED
    BY <1>2, <2>1 DEF Sound, LastWordIsTrue
<1>6. EndsFollowFrames(u, st)
  <2> SUFFICES ASSUME NEW i \in DOMAIN u, u[i].topic = "frame", st[u[i].run] \notin Live
               PROVE  \E j \in DOMAIN u : i < j /\ Word(u[j], u[i].run)
    BY DEF EndsFollowFrames
  <2>1. i \in 1..n /\ u[i] = t[i]
    BY <1>2, <1>3 DEF Live
  <2> QED
    BY <1>2, <2>1 DEF Sound, EndsFollowFrames
<1>7. StartsFollow(u, st)
  <2> SUFFICES ASSUME NEW i \in DOMAIN u, NEW q \in Runs, st[q] \in Live, Before(u[i], q)
               PROVE  \E j \in DOMAIN u : i < j /\ Saying(u[j], q, "running")
    BY DEF StartsFollow
  <2>1. i # n + 1
    BY <1>2, <1>3 DEF Sound, OneLive, Before, Saying, Word, Live
  <2>2. i \in 1..n /\ u[i] = t[i]
    BY <1>2, <2>1
  <2> QED
    BY <1>2, <2>2 DEF Sound, StartsFollow
<1> QED
  BY <1>4, <1>5, <1>6, <1>7 DEF Sound

\* What the view hears, or what is lost, of the oldest message leaves a response as fresh.
LEMMA TailKeepsFresh ==
  ASSUME NEW t \in Seq(Message), t # <<>>, NEW st, NEW dl, NEW ck, Sound(t, st, dl, ck),
         NEW sn \in Nat, NEW ls \in BOOLEAN, NEW sn2 \in Nat, NEW ls2 \in BOOLEAN,
         NEW x \in Response, Fresh(x, t, st, dl, ck, sn, ls),
         ls => ls2,
         IF t[1].topic = "run" THEN ls2 \/ sn2 = t[1].at ELSE sn <= sn2
  PROVE  Fresh(x, Tail(t), st, dl, ck, sn2, ls2)
<1> PICK u : u = Tail(t)
  OBVIOUS
<1>1. /\ DOMAIN t \subseteq Nat /\ DOMAIN u \subseteq Nat /\ 1 \in DOMAIN t
      /\ \A i \in DOMAIN u : i + 1 \in DOMAIN t /\ i + 1 # 1 /\ u[i] = t[i + 1]
      /\ \A i \in DOMAIN t : i # 1 =>
            i - 1 \in DOMAIN u /\ u[i - 1] = t[i] /\ 1 < i /\ i = (i - 1) + 1
  BY TailPlaces
<1> SUFFICES ASSUME x.ok, x.run # NoRun, ~ls2
             PROVE  Fresh(x, u, st, dl, ck, sn2, ls2)
  BY DEF Fresh
<1>2. ~ls /\ (t[1].topic = "run" => sn2 = t[1].at)
  OBVIOUS
<1>3. x.at \in Nat
  BY DEF Response
<1>4. \A i \in DOMAIN u : 1 < i + 1 /\ i + 1 \in DOMAIN t /\ u[i] = t[i + 1]
  BY <1>1
<1>5. Passed(x, t, sn) => Passed(x, u, sn2)
  <2>1. CASE t[1].topic = "run"
    BY <1>1, <1>2, <1>4, <2>1 DEF Passed
  <2>2. CASE t[1].topic # "run"
    <3>1. x.at < sn => x.at < sn2
      BY <1>3, <2>2
    <3> QED
      BY <1>4, <3>1 DEF Passed
  <2> QED
    BY <2>1, <2>2
<1>6. ASSUME t[1].topic = "run", x.at < t[1].at
      PROVE  Passed(x, u, sn2)
  <2>1. x.at < sn2
    BY <1>2, <1>6
  <2>2. ASSUME NEW i \in DOMAIN u, u[i].topic = "run"
        PROVE  x.at < u[i].at
    <3>1. t[1].at < t[i + 1].at
      BY <1>1, <1>4, <1>6, <2>2 DEF Sound, InOrder
    <3>2. t[1] \in Message /\ t[i + 1] \in Message
      <4> HIDE DEF Message
      <4> QED
        BY <1>1, <1>4
    <3>3. t[1].at \in Nat /\ t[i + 1].at \in Nat
      BY <1>4, <1>6, <2>2, <3>2 DEF Message
    <3>4. x.at < t[i + 1].at
      BY <1>3, <1>6, <3>1, <3>3
    <3> QED
      BY <1>4, <3>4
  <2> QED
    BY <2>1, <2>2 DEF Passed
<1>7. ASSUME NEW i \in DOMAIN t, x.at < t[i].at, t[i].topic = "run"
      PROVE  Passed(x, u, sn2) \/ \E j \in DOMAIN u : u[j] = t[i]
  BY <1>1, <1>6, <1>7
<1>8. /\ x.at <= ck
      /\ x.state \in Ended => st[x.run] \in Ended
  BY DEF Fresh
<1>9. \/ Passed(x, u, sn2)
      \/ x.state = st[x.run] /\ x.delay = dl[x.run]
      \/ \E i \in DOMAIN u : Word(u[i], x.run) /\ x.at < u[i].at
  <2>1. CASE Passed(x, t, sn)
    BY <1>5, <2>1
  <2>2. CASE x.state = st[x.run] /\ x.delay = dl[x.run]
    BY <2>2
  <2>3. ASSUME NEW i \in DOMAIN t, Word(t[i], x.run), x.at < t[i].at
        PROVE  \/ Passed(x, u, sn2)
               \/ \E j \in DOMAIN u : Word(u[j], x.run) /\ x.at < u[j].at
    BY <1>7, <2>3, SMTT(30) DEF Word
  <2> QED
    BY <1>2, <2>1, <2>2, <2>3 DEF Fresh
<1>10. ASSUME x.state = "queued", st[x.run] \in Live
       PROVE  \/ Passed(x, u, sn2)
              \/ \E i \in DOMAIN u : Saying(u[i], x.run, "running") /\ x.at < u[i].at
  <2>1. CASE Passed(x, t, sn)
    BY <1>5, <2>1
  <2>2. ASSUME NEW i \in DOMAIN t, Saying(t[i], x.run, "running"), x.at < t[i].at
        PROVE  \/ Passed(x, u, sn2)
               \/ \E j \in DOMAIN u : Saying(u[j], x.run, "running") /\ x.at < u[j].at
    BY <1>7, <2>2 DEF Saying, Word
  <2> QED
    BY <1>2, <1>10, <2>1, <2>2 DEF Fresh
<1> QED
  BY <1>8, <1>9, <1>10 DEF Fresh

\* A status that is published makes good for what a response does not know of.
LEMMA StatusKeepsFresh ==
  ASSUME NEW t \in Seq(Message), NEW st \in [Runs -> States], NEW dl \in [Runs -> Delays],
         NEW ck \in Nat, NEW sn \in Nat, NEW ls \in BOOLEAN,
         NEW r \in Runs, NEW s \in States \ {"absent"}, NEW d \in Delays, Legal(st, r, s),
         NEW m, m = [topic |-> "run", run |-> r, state |-> s, delay |-> d, at |-> ck + 1],
         NEW x \in Response, Fresh(x, t, st, dl, ck, sn, ls)
  PROVE  Fresh(x, Append(t, m), [st EXCEPT ![r] = s], [dl EXCEPT ![r] = d], ck + 1, sn, ls)
<1> PICK u, st2, dl2 : /\ u = Append(t, m)
                       /\ st2 = [st EXCEPT ![r] = s] /\ dl2 = [dl EXCEPT ![r] = d]
  OBVIOUS
<1>1. m \in Message
  BY DEF Message
<1>2. PICK n \in Nat : /\ DOMAIN t = 1..n /\ DOMAIN u = (1..n) \union {n + 1}
                       /\ u[n + 1] = m /\ \A i \in 1..n : u[i] = t[i] /\ i < n + 1
  <2> HIDE DEF Message
  <2> QED
    BY <1>1, AppendPlaces
<1>3. /\ st2[r] = s /\ dl2[r] = d
      /\ \A q \in Runs : q # r => st2[q] = st[q] /\ dl2[q] = dl[q]
  OBVIOUS
<1>4. m.topic = "run" /\ m.run = r /\ m.state = s /\ m.delay = d /\ m.at = ck + 1
  OBVIOUS
<1> SUFFICES ASSUME x.ok, x.run # NoRun
             PROVE  Fresh(x, u, st2, dl2, ck + 1, sn, ls)
  BY DEF Fresh
<1>5. x.at \in Nat /\ x.run \in Runs
  BY DEF Response
<1>6. x.at <= ck /\ (x.state \in Ended => st[x.run] \in Ended)
  BY DEF Fresh
<1>7. x.at <= ck + 1 /\ x.at < ck + 1
  BY <1>5, <1>6
<1>8. x.state \in Ended => st2[x.run] \in Ended
  BY <1>3, <1>5, <1>6 DEF Legal
<1>9. Passed(x, t, sn) => Passed(x, u, sn)
  BY <1>2, <1>4, <1>7 DEF Passed
<1>10. \/ ls \/ Passed(x, u, sn)
       \/ x.state = st2[x.run] /\ x.delay = dl2[x.run]
       \/ \E i \in DOMAIN u : Word(u[i], x.run) /\ x.at < u[i].at
  <2>1. CASE x.run = r
    BY <1>2, <1>4, <1>7, <2>1 DEF Word
  <2>2. CASE x.run # r
    <3>1. \/ ls \/ Passed(x, t, sn)
          \/ x.state = st[x.run] /\ x.delay = dl[x.run]
          \/ \E i \in DOMAIN t : Word(t[i], x.run) /\ x.at < t[i].at
      BY DEF Fresh
    <3> QED
      BY <1>2, <1>3, <1>5, <1>9, <2>2, <3>1
  <2> QED
    BY <2>1, <2>2
<1>11. ASSUME x.state = "queued", st2[x.run] \in Live
       PROVE  \/ ls \/ Passed(x, u, sn)
              \/ \E i \in DOMAIN u : Saying(u[i], x.run, "running") /\ x.at < u[i].at
  <2>1. CASE st[x.run] \in Live
    <3>1. \/ ls \/ Passed(x, t, sn)
          \/ \E i \in DOMAIN t : Saying(t[i], x.run, "running") /\ x.at < t[i].at
      BY <1>11, <2>1 DEF Fresh
    <3> QED
      BY <1>2, <1>9, <3>1
  <2>2. CASE st[x.run] \notin Live
    <3>1. x.run = r /\ s = "running"
      BY <1>3, <1>5, <1>11, <2>2 DEF Legal
    <3> QED
      BY <1>2, <1>4, <1>7, <3>1 DEF Saying, Word
  <2> QED
    BY <2>1, <2>2
<1> QED
  BY <1>7, <1>8, <1>10, <1>11 DEF Fresh

\* A frame says nothing about it, and nor does what else the view hears.
LEMMA FrameKeepsFresh ==
  ASSUME NEW t \in Seq(Message), NEW st, NEW dl, NEW ck, NEW sn, NEW ls, NEW r \in Runs,
         NEW m, m = [topic |-> "frame", run |-> r], NEW x, Fresh(x, t, st, dl, ck, sn, ls)
  PROVE  Fresh(x, Append(t, m), st, dl, ck, sn, ls)
<1> PICK u : u = Append(t, m)
  OBVIOUS
<1>1. m \in Message
  BY DEF Message
<1>2. PICK n \in Nat : /\ DOMAIN t = 1..n /\ DOMAIN u = (1..n) \union {n + 1}
                       /\ u[n + 1] = m /\ \A i \in 1..n : u[i] = t[i] /\ i < n + 1
  <2> HIDE DEF Message
  <2> QED
    BY <1>1, AppendPlaces
<1>3. m.topic = "frame"
  OBVIOUS
<1>4. Passed(x, t, sn) => Passed(x, u, sn)
  BY <1>2, <1>3 DEF Passed
<1>5. /\ \A q : (\E i \in DOMAIN t : Word(t[i], q) /\ x.at < t[i].at)
                 => \E i \in DOMAIN u : Word(u[i], q) /\ x.at < u[i].at
      /\ \A q : (\E i \in DOMAIN t : Saying(t[i], q, "running") /\ x.at < t[i].at)
                 => \E i \in DOMAIN u : Saying(u[i], q, "running") /\ x.at < u[i].at
  BY <1>2
<1> QED
  BY <1>4, <1>5 DEF Fresh

LEMMA HearingKeepsFresh ==
  ASSUME NEW t, NEW st, NEW dl, NEW ck, NEW sn \in Nat, NEW ls, NEW sn2 \in Nat, NEW ls2,
         NEW x \in Response, Fresh(x, t, st, dl, ck, sn, ls), ls => ls2, sn <= sn2
  PROVE  Fresh(x, t, st, dl, ck, sn2, ls2)
<1>1. x.at \in Nat
  BY DEF Response
<1>2. Passed(x, t, sn) => Passed(x, t, sn2)
  BY <1>1 DEF Passed
<1> QED
  BY <1>2 DEF Fresh

-----------------------------------------------------------------------------
(* The steps of the server, and what telemetry loses.                       *)

\* What a step that the view takes no part in does for it.
Tells ==
    /\ lost' \in BOOLEAN /\ (lost => lost')
    /\ Sound(telemetry', state', delay', clock')
    /\ \A x \in Response :
          IsFresh(x) => Fresh(x, telemetry', state', delay', clock', seen, lost')
    /\ ~lost' => \A q \in Runs :
         /\ StartOf(telemetry, q) => StartOf(telemetry', q)
         /\ WordOf(telemetry, q) => WordOf(telemetry', q)
         /\ state'[q] \in Live => state[q] \in Live \/ StartOf(telemetry', q)
         /\ (state'[q] = state[q] /\ delay'[q] = delay[q]) \/ WordOf(telemetry', q)

\* The oldest message goes unheard.
LEMMA LosingTells ==
  ASSUME IInv, VInv, telemetry # <<>>,
         NEW ls, ls = (lost \/ telemetry[1].topic = "run")
  PROVE  /\ ls \in BOOLEAN
         /\ Sound(Tail(telemetry), state, delay, clock)
         /\ \A x \in Response :
               IsFresh(x) => Fresh(x, Tail(telemetry), state, delay, clock, seen, ls)
         /\ ~ls => \A q \in Runs :
              /\ StartOf(telemetry, q) => StartOf(Tail(telemetry), q)
              /\ WordOf(telemetry, q) => WordOf(Tail(telemetry), q)
<1>1. telemetry \in Seq(Message) /\ lost \in BOOLEAN /\ seen \in Nat
      /\ Sound(telemetry, state, delay, clock)
  BY DEF IInv, OnTheWay, VInv
<1>2. ls \in BOOLEAN
  OBVIOUS
<1>3. Sound(Tail(telemetry), state, delay, clock)
  BY <1>1, TailIsSound
<1>4. ASSUME NEW x \in Response, IsFresh(x)
      PROVE  Fresh(x, Tail(telemetry), state, delay, clock, seen, ls)
  <2>1. Fresh(x, telemetry, state, delay, clock, seen, lost)
    BY <1>4 DEF IsFresh
  <2>2. lost => ls
    OBVIOUS
  <2>3. IF telemetry[1].topic = "run" THEN ls \/ seen = telemetry[1].at ELSE seen <= seen
    <3>1. seen <= seen
      BY <1>1
    <3> QED
      BY <3>1, Zenon
  <2> QED
    BY <1>1, <1>2, <2>1, <2>2, <2>3, TailKeepsFresh
<1>5. ASSUME ~ls, NEW q \in Runs
      PROVE  /\ StartOf(telemetry, q) => StartOf(Tail(telemetry), q)
             /\ WordOf(telemetry, q) => WordOf(Tail(telemetry), q)
  <2>1. \A i \in DOMAIN telemetry : i # 1 =>
           i - 1 \in DOMAIN Tail(telemetry) /\ Tail(telemetry)[i - 1] = telemetry[i]
    <3> HIDE DEF Message
    <3> QED
      BY <1>1, TailPlaces
  <2>2. telemetry[1].topic # "run"
    BY <1>5
  <2> QED
    BY <2>1, <2>2 DEF StartOf, WordOf, Saying, Word
<1> QED
  BY <1>2, <1>3, <1>4, <1>5

\* What is published joins what is left, and what was to be said is still said, or lost.
LEMMA PublishDrops ==
  ASSUME IInv, VInv, NEW m \in Message, Publish(m)
  PROVE  \E t \in Seq(Message) :
           /\ telemetry' = Append(t, m)
           /\ lost' \in BOOLEAN /\ (lost => lost')
           /\ Sound(t, state, delay, clock)
           /\ \A x \in Response : IsFresh(x) => Fresh(x, t, state, delay, clock, seen, lost')
           /\ ~lost' => \A q \in Runs : /\ StartOf(telemetry, q) => StartOf(t, q)
                                        /\ WordOf(telemetry, q) => WordOf(t, q)
<1>1. telemetry \in Seq(Message) /\ lost \in BOOLEAN /\ seen \in Nat
      /\ Sound(telemetry, state, delay, clock)
  BY DEF IInv, OnTheWay, VInv
<1>2. CASE Len(telemetry) = MaxBacklog
  <2>1. telemetry # <<>>
    BY <1>2, ClientAssumption
  <2>2. Tail(telemetry) \in Seq(Message) /\ Head(telemetry) = telemetry[1]
    <3> HIDE DEF Message
    <3> QED
      BY <1>1, <2>1, TailOf
  <2>3. /\ telemetry' = Append(Tail(telemetry), m)
        /\ lost' = (lost \/ telemetry[1].topic = "run")
    BY <1>2, <2>2 DEF Publish
  <2>4. PICK ls : ls = (lost \/ telemetry[1].topic = "run")
    OBVIOUS
  <2>5. /\ ls \in BOOLEAN
        /\ Sound(Tail(telemetry), state, delay, clock)
        /\ \A x \in Response :
              IsFresh(x) => Fresh(x, Tail(telemetry), state, delay, clock, seen, ls)
        /\ ~ls => \A q \in Runs :
             /\ StartOf(telemetry, q) => StartOf(Tail(telemetry), q)
             /\ WordOf(telemetry, q) => WordOf(Tail(telemetry), q)
    BY <2>1, <2>4, LosingTells
  <2>6. lost' = ls /\ (lost => ls)
    BY <2>3, <2>4
  <2>7. /\ lost' \in BOOLEAN /\ (lost => lost')
        /\ Sound(Tail(telemetry), state, delay, clock)
        /\ \A x \in Response :
              IsFresh(x) => Fresh(x, Tail(telemetry), state, delay, clock, seen, lost')
        /\ ~lost' => \A q \in Runs :
             /\ StartOf(telemetry, q) => StartOf(Tail(telemetry), q)
             /\ WordOf(telemetry, q) => WordOf(Tail(telemetry), q)
    <3> HIDE DEF Response
    <3> QED
      BY <2>5, <2>6, Zenon
  <2> QED
    BY <2>2, <2>3, <2>7, Zenon
<1>3. CASE Len(telemetry) # MaxBacklog
  <2>1. telemetry' = Append(telemetry, m) /\ lost' = lost
    BY <1>1, <1>3 DEF Publish
  <2> QED
    BY <1>1, <2>1 DEF IsFresh
<1> QED
  BY <1>2, <1>3

LEMMA StatusTells ==
  ASSUME IInv, VInv, NEW r \in Runs, NEW s \in States \ {"absent"}, NEW d \in Delays,
         Legal(state, r, s), PublishRun(r, s, d),
         state' = [state EXCEPT ![r] = s], delay' = [delay EXCEPT ![r] = d]
  PROVE  Tells
<1>1. /\ state \in [Runs -> States] /\ delay \in [Runs -> Delays] /\ clock \in Nat
      /\ seen \in Nat
  BY DEF IInv, TypeOK, OnTheWay, VInv
<1>2. PICK m : m = [topic |-> "run", run |-> r, state |-> s, delay |-> d, at |-> clock + 1]
  OBVIOUS
<1>3. Publish(m) /\ clock' = clock + 1
  BY <1>2 DEF PublishRun
<1>4. m \in Message
  BY <1>1, <1>2 DEF Message
<1>5. PICK t \in Seq(Message) :
        /\ telemetry' = Append(t, m)
        /\ lost' \in BOOLEAN /\ (lost => lost')
        /\ Sound(t, state, delay, clock)
        /\ \A x \in Response : IsFresh(x) => Fresh(x, t, state, delay, clock, seen, lost')
        /\ ~lost' => \A q \in Runs : /\ StartOf(telemetry, q) => StartOf(t, q)
                                     /\ WordOf(telemetry, q) => WordOf(t, q)
  BY <1>3, <1>4, PublishDrops
<1>6. Sound(telemetry', state', delay', clock')
  BY <1>1, <1>2, <1>3, <1>5, StatusIsSound
<1>7. ASSUME NEW x \in Response, IsFresh(x)
      PROVE  Fresh(x, telemetry', state', delay', clock', seen, lost')
  <2>1. Fresh(x, t, state, delay, clock, seen, lost')
    BY <1>5, <1>7
  <2>2. PICK ls \in BOOLEAN : ls = lost'
    BY <1>5
  <2>3. Fresh(x, Append(t, m), [state EXCEPT ![r] = s], [delay EXCEPT ![r] = d], clock + 1,
              seen, ls)
    BY <1>1, <1>2, <2>1, <2>2, StatusKeepsFresh, ZenonT(30)
  <2> QED
    BY <1>3, <1>5, <2>2, <2>3
<1>8. PICK n \in Nat :
        /\ DOMAIN t = 1..n /\ DOMAIN telemetry' = (1..n) \union {n + 1}
        /\ telemetry'[n + 1] = m /\ \A i \in 1..n : telemetry'[i] = t[i]
  <2> HIDE DEF Message
  <2> QED
    BY <1>4, <1>5, AppendPlaces
<1>9. m.topic = "run" /\ m.run = r /\ m.state = s
  BY <1>2
<1>10. /\ \A q \in Runs : StartOf(t, q) => StartOf(telemetry', q)
       /\ \A q \in Runs : WordOf(t, q) => WordOf(telemetry', q)
       /\ WordOf(telemetry', r)
       /\ s = "running" => StartOf(telemetry', r)
  BY <1>8, <1>9 DEF StartOf, WordOf, Saying, Word
<1>11. ASSUME NEW q \in Runs
       PROVE  /\ state'[q] \in Live => state[q] \in Live \/ StartOf(telemetry', q)
              /\ (state'[q] = state[q] /\ delay'[q] = delay[q]) \/ WordOf(telemetry', q)
  <2>1. CASE q = r
    BY <1>1, <1>10, <2>1 DEF Legal
  <2>2. CASE q # r
    BY <1>1, <2>2
  <2> QED
    BY <2>1, <2>2
<1> QED
  BY <1>5, <1>6, <1>7, <1>10, <1>11 DEF Tells

LEMMA FrameTells ==
  ASSUME IInv, VInv, NEW r \in Runs, Play(r)
  PROVE  Tells
<1>1. PICK m : m = [topic |-> "frame", run |-> r]
  OBVIOUS
<1>2. m \in Message
  BY <1>1 DEF Message
<1>3. state[r] \in Live /\ Publish(m) /\ UNCHANGED <<state, delay, clock>>
  BY <1>1 DEF Play
<1>4. PICK t \in Seq(Message) :
        /\ telemetry' = Append(t, m)
        /\ lost' \in BOOLEAN /\ (lost => lost')
        /\ Sound(t, state, delay, clock)
        /\ \A x \in Response : IsFresh(x) => Fresh(x, t, state, delay, clock, seen, lost')
        /\ ~lost' => \A q \in Runs : /\ StartOf(telemetry, q) => StartOf(t, q)
                                     /\ WordOf(telemetry, q) => WordOf(t, q)
  BY <1>2, <1>3, PublishDrops
<1>5. Sound(telemetry', state', delay', clock')
  BY <1>1, <1>3, <1>4, FrameIsSound
<1>6. ASSUME NEW x \in Response, IsFresh(x)
      PROVE  Fresh(x, telemetry', state', delay', clock', seen, lost')
  BY <1>1, <1>3, <1>4, <1>6, FrameKeepsFresh
<1>7. PICK n \in Nat :
        /\ DOMAIN t = 1..n /\ DOMAIN telemetry' = (1..n) \union {n + 1}
        /\ \A i \in 1..n : telemetry'[i] = t[i]
  <2> HIDE DEF Message
  <2> QED
    BY <1>2, <1>4, AppendPlaces
<1>8. /\ \A q \in Runs : StartOf(t, q) => StartOf(telemetry', q)
      /\ \A q \in Runs : WordOf(t, q) => WordOf(telemetry', q)
  BY <1>7 DEF StartOf, WordOf
<1> QED
  BY <1>3, <1>4, <1>5, <1>6, <1>8 DEF Tells

LEMMA NothingTells ==
  ASSUME VInv, UNCHANGED <<state, delay, telemetry, clock>>, lost' \in BOOLEAN, lost => lost'
  PROVE  Tells
<1>1. Sound(telemetry', state', delay', clock')
  BY DEF VInv
<1>2. ASSUME NEW x \in Response, IsFresh(x)
      PROVE  Fresh(x, telemetry', state', delay', clock', seen, lost')
  <2>1. PICK ls : ls = lost'
    OBVIOUS
  <2>2. Fresh(x, telemetry, state, delay, clock, seen, ls)
    <3>1. Fresh(x, telemetry, state, delay, clock, seen, lost) /\ seen \in Nat /\ seen <= seen
      BY <1>2 DEF IsFresh, VInv
    <3> QED
      BY <2>1, <3>1, HearingKeepsFresh
  <2> QED
    BY <2>1, <2>2
<1> QED
  BY <1>1, <1>2 DEF Tells

LEMMA TruthIsFresh ==
  ASSUME NEW x, NEW t, NEW st, NEW dl, NEW ck \in Nat, NEW sn, NEW ls,
         x.at = ck, x.ok /\ x.run # NoRun => x.state = st[x.run] /\ x.delay = dl[x.run]
  PROVE  Fresh(x, t, st, dl, ck, sn, ls)
BY DEF Fresh, Live

\* A request tells the view what it does, and its answer is the truth of now; the answer to
\* a discovery is about the run that is live.
LEMMA HandleTells ==
  ASSUME IInv, VInv, NEW q \in Request, Handle(q)
  PROVE  /\ Tells
         /\ Fresh(Answer(q), telemetry', state', delay', clock', seen, lost')
         /\ q.op = "discover" => \A p \in Runs : state'[p] \in Live => Finds(Answer(q), p)
<1> PICK r, new : r = Target(q) /\ new = NewStatus(q)
  OBVIOUS
<1>1. /\ state \in [Runs -> States] /\ delay \in [Runs -> Delays] /\ clock \in Nat
      /\ ActiveRuns \in SUBSET Runs /\ QueuedRuns \in SUBSET Runs
      /\ NoRun \notin Runs /\ 0 \in Delays
  BY ClientAssumption DEF IInv, TypeOK, OnTheWay, ActiveRuns, QueuedRuns, Runs, NoRun
<1>2. /\ q.op \in Ops /\ q.delay \in Delays
      /\ (q.op \in ControlOps => q.run \in Runs)
  BY DEF Request, Ops, ControlOps
<1>3. Answer(q) = [ok |-> Granted(q), run |-> r, state |-> new.state, delay |-> new.delay,
                   at |-> clock']
  BY DEF Answer
<1>4. UNCHANGED <<state, delay, telemetry, clock, lost>> => Tells
  <2>1. lost \in BOOLEAN /\ VInv
    BY DEF VInv
  <2>2. ASSUME UNCHANGED <<state, delay, telemetry, clock, lost>>
        PROVE  Tells
    <3>1. lost' \in BOOLEAN /\ (lost => lost') /\ UNCHANGED <<state, delay, telemetry, clock>>
      BY <2>1, <2>2
    <3> QED
      BY <2>1, <3>1, NothingTells
  <2> QED
    BY <2>2
<1>5. clock' \in Nat
  BY HandleIsSound DEF IInv, ServerOK
<1>6. ASSUME Granted(q), r \in Runs, Legal(state, r, new.state), new.state \in States \ {"absent"},
             new.delay \in Delays, q.op # "discover",
             q.op # "delay" /\ new.state = state[r] => new.delay = delay[r]
      PROVE  /\ Tells
             /\ Fresh(Answer(q), telemetry', state', delay', clock', seen, lost')
  <2>1. /\ state' = [state EXCEPT ![r] = new.state] /\ delay' = [delay EXCEPT ![r] = new.delay]
        /\ IF q.op = "delay" \/ new.state # state[r]
           THEN PublishRun(r, new.state, new.delay) ELSE UNCHANGED <<telemetry, clock, lost>>
    BY <1>6 DEF Handle
  <2>2. Tells
    <3>1. CASE PublishRun(r, new.state, new.delay)
      BY <1>6, <2>1, <3>1, StatusTells
    <3>2. CASE ~(q.op = "delay" \/ new.state # state[r])
      <4>1. new.state = state[r] /\ new.delay = delay[r]
        BY <1>6, <3>2
      <4>2. state' = state /\ delay' = delay
        BY <1>1, <1>6, <2>1, <4>1
      <4> QED
        BY <1>4, <2>1, <3>2, <4>2
    <3> QED
      BY <2>1, <3>1, <3>2
  <2>3. state'[r] = new.state /\ delay'[r] = new.delay
    BY <1>1, <1>6, <2>1
  <2>4. PICK x : x = Answer(q)
    OBVIOUS
  <2>5. /\ x.at = clock' /\ x.run = r /\ x.state = state'[r] /\ x.delay = delay'[r]
    BY <1>3, <2>3, <2>4
  <2>6. Fresh(x, telemetry', state', delay', clock', seen, lost')
    BY <1>5, <2>5, TruthIsFresh
  <2> QED
    BY <2>2, <2>4, <2>6
<1>7. CASE q.op = "submit"
  <2>1. {n \in Runs : state[n] = "absent"} # {}
    BY <1>7 DEF Handle
  <2>2. r \in {n \in Runs : state[n] = "absent"}
    BY <1>7, <2>1, FirstIsOne DEF Target
  <2>3. /\ new = [state |-> "queued", delay |-> 0] /\ Granted(q)
    BY <1>1, <1>7, <2>2 DEF NewStatus, Granted, ControlOps
  <2>4. Legal(state, r, "queued")
    BY <2>2 DEF Legal, Live, Ended
  <2>5. "queued" \in States \ {"absent"} /\ state[r] # "queued" /\ r \in Runs
        /\ new.state = "queued" /\ new.delay = 0
    BY <2>2, <2>3 DEF States
  <2> QED
    BY <1>1, <1>6, <1>7, <2>3, <2>4, <2>5
<1>8. CASE q.op = "discover"
  <2>1. UNCHANGED <<state, delay, telemetry, clock, lost>>
    BY <1>8 DEF Handle
  <2>2. \A S \in SUBSET Runs : S # {} => First(S) \in S
    BY FirstIsOne
  <2>3. r = NoRun \/ r \in Runs
    BY <1>1, <1>8, <2>2 DEF Target
  <2>4. r \in Runs => new = [state |-> state[r], delay |-> delay[r]]
    BY <1>1, <1>8 DEF NewStatus, ControlOps
  <2>5. PICK x : x = Answer(q)
    OBVIOUS
  <2>6. /\ x.at = clock' /\ x.run = r
        /\ r \in Runs => x.state = state[r] /\ x.delay = delay[r]
        /\ x.ok <=> Granted(q)
    BY <1>3, <2>4, <2>5
  <2>7. Fresh(x, telemetry', state', delay', clock', seen, lost')
    <3>1. x.ok /\ x.run # NoRun => x.state = state'[x.run] /\ x.delay = delay'[x.run]
      BY <2>1, <2>3, <2>6
    <3> QED
      BY <1>5, <2>6, <3>1, TruthIsFresh
  <2>8. ASSUME NEW p \in Runs, state'[p] \in Live
        PROVE  Finds(x, p)
    <3>1. p \in ActiveRuns
      BY <2>1, <2>8 DEF ActiveRuns
    <3>2. r \in ActiveRuns
      BY <1>1, <1>8, <2>2, <3>1 DEF Target
    <3>3. r = p
      BY <3>1, <3>2 DEF VInv, Sound, OneLive, ActiveRuns
    <3>4. Granted(q)
      BY <1>8 DEF Granted, ControlOps
    <3> QED
      BY <2>1, <2>6, <2>8, <3>3, <3>4 DEF Finds
  <2> QED
    BY <1>4, <2>1, <2>5, <2>7, <2>8
<1>9. CASE q.op \in ControlOps
  <2>1. r = q.run /\ r \in Runs /\ q.op # "discover" /\ q.op # "submit"
    BY <1>2, <1>9 DEF Target, ControlOps
  <2>2. new = [state |-> Controlled(q.op, state[r]),
               delay |-> IF q.op = "delay" THEN q.delay ELSE delay[r]]
    BY <1>1, <1>9, <2>1 DEF NewStatus, ControlOps
  <2>3. CASE ~Granted(q)
    <3>1. UNCHANGED <<state, delay, telemetry, clock, lost>>
      BY <2>3 DEF Handle
    <3>2. PICK x : x = Answer(q)
      OBVIOUS
    <3>3. x.at = clock' /\ ~x.ok
      BY <1>3, <2>3, <3>2
    <3>4. Fresh(x, telemetry', state', delay', clock', seen, lost')
      BY <3>3 DEF Fresh
    <3> QED
      BY <1>4, <2>1, <3>1, <3>2, <3>4
  <2>4. CASE Granted(q)
    <3>1. Accepts(q.op, state[r])
      BY <1>9, <2>1, <2>4 DEF Granted
    <3>2. state[r] \in States
      BY <1>1, <2>1
    <3>3. Legal(state, r, Controlled(q.op, state[r]))
      BY <1>9, <3>1, <3>2 DEF Legal, Accepts, Controlled, ControlOps, Live, Ended, States
    <3>4. Controlled(q.op, state[r]) \in States \ {"absent"}
      BY <1>9, <3>1, <3>2 DEF Accepts, Controlled, ControlOps, Live, Ended, States
    <3>5. /\ new.state = Controlled(q.op, state[r]) /\ new.delay \in Delays
          /\ q.op # "delay" => new.delay = delay[r]
      BY <1>1, <1>2, <2>1, <2>2
    <3> QED
      BY <1>6, <2>1, <2>4, <3>3, <3>4, <3>5
  <2> QED
    BY <2>3, <2>4
<1> QED
  BY <1>2, <1>7, <1>8, <1>9 DEF Ops

\* What the view is told keeps the invariant, with an answer of the server's if there is one.
LEMMA TellingKeepsView ==
  ASSUME IInv, VInv, Tells, UNCHANGED <<calls, view_vars, results>>,
         \/ answer' = answer
         \/ \E a : /\ answer = <<>> /\ answer' = <<a>>
                   /\ Fresh(a, telemetry', state', delay', clock', seen, lost')
                   /\ calls[1].op = "discover" =>
                         \A p \in Runs : state'[p] \in Live => Finds(a, p)
  PROVE  VInv'
<1>1. /\ answer \in Seq(Response) /\ results \in Seq(Result) /\ active_run \in Runs \union {NoRun}
      /\ state \in [Runs -> States]
  BY DEF IInv, TypeOK, OnTheWay
<1>2. UNCHANGED <<active_run, run_state, move_delay_ms, seen, overtaken, calls, results>>
  BY DEF view_vars, shown_vars, heard_vars
<1>3. ASSUME NEW x \in Response, IsFresh(x)
      PROVE  Fresh(x, telemetry', state', delay', clock', seen', lost')
  BY <1>2, <1>3 DEF Tells
<1>4. ResponsesAreFresh'
  <2>1. answer' # <<>> =>
           Fresh(answer'[1], telemetry', state', delay', clock', seen', lost')
    <3>1. CASE answer' = answer /\ answer # <<>>
      <4>1. answer[1] \in Response
        <5> HIDE DEF Response
        <5> QED
          BY <1>1, <3>1
      <4> QED
        BY <1>3, <3>1, <4>1 DEF VInv, ResponsesAreFresh
    <3>2. ASSUME NEW a, answer' = <<a>>,
                 Fresh(a, telemetry', state', delay', clock', seen, lost')
          PROVE  Fresh(answer'[1], telemetry', state', delay', clock', seen', lost')
      BY <1>2, <3>2
    <3> QED
      BY <3>1, <3>2
  <2>2. ASSUME NEW i \in DOMAIN results, ~results[i].error
        PROVE  Fresh(results[i].response, telemetry', state', delay', clock', seen', lost')
    <3>1. results[i] \in Result
      <4> HIDE DEF Result
      <4> QED
        BY <1>1
    <3>2. results[i].response \in Response
      BY <2>2, <3>1 DEF Result
    <3>3. IsFresh(results[i].response)
      BY <2>2 DEF VInv, ResponsesAreFresh
    <3> QED
      BY <1>3, <3>2, <3>3
  <2> QED
    BY <1>2, <2>1, <2>2 DEF ResponsesAreFresh, IsFresh
<1>5. ASSUME NEW p \in Runs, state'[p] \in Live, Discovering(p)
      PROVE  Discovering(p)'
  <2>1. CASE answer' = answer
    BY <1>2, <1>5, <2>1 DEF Discovering, Finds
  <2>2. ASSUME NEW a, answer = <<>>, answer' = <<a>>,
               calls[1].op = "discover" => Finds(a, p)
        PROVE  Discovering(p)'
    <3>1. answer'[1] = a
      BY <2>2
    <3> QED
      BY <1>2, <1>5, <2>2, <3>1 DEF Discovering, Finds
  <2> QED
    BY <1>5, <2>1, <2>2
<1>6. ASSUME ~lost', ~overtaken'
      PROVE  LiveIsFollowed' /\ ShownIsTrue'
  <2>1. /\ LiveIsFollowed /\ ShownIsTrue
        /\ \A q \in Runs :
             /\ StartOf(telemetry, q) => StartOf(telemetry', q)
             /\ WordOf(telemetry, q) => WordOf(telemetry', q)
             /\ state'[q] \in Live => state[q] \in Live \/ StartOf(telemetry', q)
             /\ (state'[q] = state[q] /\ delay'[q] = delay[q]) \/ WordOf(telemetry', q)
    BY <1>2, <1>6 DEF VInv, Tells
  <2>2. LiveIsFollowed'
    BY <1>2, <1>5, <2>1 DEF LiveIsFollowed
  <2>3. ShownIsTrue'
    BY <1>1, <1>2, <1>5, <2>1 DEF ShownIsTrue
  <2> QED
    BY <2>2, <2>3
<1> QED
  BY <1>2, <1>4, <1>6 DEF VInv, Tells

-----------------------------------------------------------------------------
(* The steps of the view.                                                   *)

\* A message is heard: what it says is so, or is put right by what follows.
LEMMA HearingKeepsView ==
  ASSUME IInv, VInv, OnTelemetryReceived
  PROVE  VInv'
<1> PICK m : m = Head(telemetry)
  OBVIOUS
<1>1. /\ telemetry # <<>> /\ telemetry' = Tail(telemetry)
      /\ UNCHANGED <<state, delay, clock, lost, calls, answer, results>>
  BY DEF OnTelemetryReceived, call_vars
<1>2. /\ telemetry \in Seq(Message) /\ answer \in Seq(Response) /\ results \in Seq(Result)
      /\ active_run \in Runs \union {NoRun} /\ NoRun \notin Runs
      /\ state \in [Runs -> States] /\ seen \in Nat
      /\ lost \in BOOLEAN /\ overtaken \in BOOLEAN
      /\ Sound(telemetry, state, delay, clock)
  BY ClientAssumption DEF IInv, TypeOK, OnTheWay, VInv, Runs, NoRun
<1>3. m = telemetry[1] /\ m \in Message
  <2> HIDE DEF Message
  <2> QED
    BY <1>1, <1>2, TailOf
<1>4. m.topic \in {"frame", "run"} /\ m.run \in Runs
      /\ (m.topic = "run" => m.at \in Nat /\ m.state \in States \ {"absent"})
  BY <1>3 DEF Message
<1>5. /\ DOMAIN telemetry \subseteq Nat /\ 1 \in DOMAIN telemetry
      /\ \A i \in DOMAIN telemetry : i # 1 =>
            i - 1 \in DOMAIN telemetry' /\ telemetry'[i - 1] = telemetry[i]
  <2> HIDE DEF Message
  <2> QED
    BY <1>1, <1>2, TailPlaces
<1>6. \A i \in DOMAIN telemetry : 1 < i => i # 1
  BY <1>5
<1>7. /\ m.topic = "frame" => seen' = seen
      /\ m.topic = "run" => seen' = m.at
      /\ overtaken' = overtaken
  BY <1>3, <1>4 DEF OnTelemetryReceived, SeeRun, heard_vars
<1>8. Sound(telemetry', state', delay', clock')
  BY <1>1, <1>2, TailIsSound
<1>9. seen' \in Nat
  BY <1>2, <1>4, <1>7
<1>10. ASSUME NEW x \in Response, IsFresh(x)
       PROVE  Fresh(x, telemetry', state', delay', clock', seen', lost')
  <2>1. Fresh(x, telemetry, state, delay, clock, seen, lost)
    BY <1>10 DEF IsFresh
  <2>2. PICK sn \in Nat : sn = seen'
    BY <1>9
  <2>3. IF telemetry[1].topic = "run" THEN lost \/ sn = telemetry[1].at ELSE seen <= sn
    BY <1>2, <1>3, <1>4, <1>7, <2>2
  <2>4. Fresh(x, Tail(telemetry), state, delay, clock, sn, lost)
    BY <1>1, <1>2, <2>1, <2>3, TailKeepsFresh
  <2> QED
    BY <1>1, <2>2, <2>4
<1>11. ResponsesAreFresh'
  <2>1. answer # <<>> => answer[1] \in Response
    <3> HIDE DEF Response
    <3> QED
      BY <1>2
  <2>2. \A i \in DOMAIN results : results[i] \in Result
    <3> HIDE DEF Result
    <3> QED
      BY <1>2
  <2>3. \A y \in Result : ~y.error => y.response \in Response
    BY DEF Result
  <2>4. \A i \in DOMAIN results : ~results[i].error => results[i].response \in Response
    BY <2>2, <2>3
  <2>5. /\ answer # <<>> => IsFresh(answer[1])
        /\ \A i \in DOMAIN results : ~results[i].error => IsFresh(results[i].response)
    BY DEF VInv, ResponsesAreFresh
  <2>6. /\ answer # <<>> =>
             Fresh(answer[1], telemetry', state', delay', clock', seen', lost')
        /\ \A i \in DOMAIN results : ~results[i].error =>
             Fresh(results[i].response, telemetry', state', delay', clock', seen', lost')
    BY <1>10, <2>1, <2>4, <2>5
  <2> QED
    BY <1>1, <2>6 DEF ResponsesAreFresh, IsFresh
<1>12. \A q \in Runs : Discovering(q) => Discovering(q)'
  BY <1>1 DEF Discovering, Finds
\* What the message is, decides what is on show then.
<1>13. /\ \A q : StartOf(telemetry, q) => StartOf(telemetry', q) \/ Saying(m, q, "running")
       /\ \A q : WordOf(telemetry, q) => WordOf(telemetry', q) \/ Word(m, q)
  BY <1>3, <1>5 DEF StartOf, WordOf
<1>14. /\ \A r \in Runs : state[r] \in Live /\ Before(m, r) => StartOf(telemetry', r)
       /\ m.topic = "frame" => state[m.run] \in Live \/ WordOf(telemetry', m.run)
       /\ m.topic = "run" =>
            /\ \/ WordOf(telemetry', m.run)
               \/ m.state = state[m.run] /\ m.delay = delay[m.run]
            /\ m.state \in Ended => state[m.run] \in Ended
  <2>1. \A j \in DOMAIN telemetry : 1 < j =>
           j - 1 \in DOMAIN telemetry' /\ telemetry'[j - 1] = telemetry[j]
    BY <1>5, <1>6
  <2>2. \A r \in Runs : state[r] \in Live /\ Before(m, r) => StartOf(telemetry', r)
    BY <1>2, <1>3, <1>5, <2>1 DEF Sound, StartsFollow, StartOf
  <2>3. m.topic = "frame" => state[m.run] \in Live \/ WordOf(telemetry', m.run)
    BY <1>2, <1>3, <1>5, <2>1 DEF Sound, EndsFollowFrames, WordOf
  <2>4. m.topic = "run" =>
          /\ \/ WordOf(telemetry', m.run)
             \/ m.state = state[m.run] /\ m.delay = delay[m.run]
          /\ m.state \in Ended => state[m.run] \in Ended
    BY <1>2, <1>3, <1>5, <2>1 DEF Sound, LastWordIsTrue, WordOf
  <2> QED
    BY <2>2, <2>3, <2>4
<1>15. ASSUME ~lost, ~overtaken
       PROVE  LiveIsFollowed' /\ ShownIsTrue'
  <2>1. LiveIsFollowed /\ ShownIsTrue
    BY <1>15 DEF VInv
  <2>2. CASE m.topic = "frame"
    <3>1. active_run' = m.run /\ UNCHANGED <<run_state, move_delay_ms>>
      BY <2>2 DEF OnTelemetryReceived, shown_vars
    <3>2. LiveIsFollowed'
      BY <1>1, <1>12, <1>13, <1>14, <2>1, <2>2, <3>1
         DEF LiveIsFollowed, Before, Saying, Word
    <3>3. ShownIsTrue'
      <4>1. /\ \A q : ~ Word(m, q)
            /\ \A q : StartOf(telemetry', q) => WordOf(telemetry', q)
        BY <2>2 DEF StartOf, WordOf, Saying, Word
      <4>2. \A q \in Runs : StartOf(telemetry, q) => WordOf(telemetry', q)
        BY <1>13, <4>1 DEF Saying
      <4>3. CASE active_run = m.run
        BY <1>1, <1>2, <1>4, <1>12, <1>13, <2>1, <3>1, <4>1, <4>3 DEF ShownIsTrue
      <4>4. CASE active_run # m.run
        BY <1>1, <1>4, <1>12, <1>14, <2>1, <2>2, <3>1, <4>2, <4>4
           DEF LiveIsFollowed, ShownIsTrue
      <4> QED
        BY <4>3, <4>4
    <3> QED
      BY <3>2, <3>3
  <2>3. CASE m.topic = "run" /\ m.state = "queued" /\ active_run \notin {NoRun, m.run}
    <3>1. UNCHANGED <<active_run, run_state, move_delay_ms>>
      BY <2>3 DEF OnTelemetryReceived, shown_vars
    <3>2. ~ Word(m, active_run) /\ \A q : ~ Saying(m, q, "running")
      BY <2>3 DEF Saying, Word
    <3> QED
      BY <1>1, <1>2, <1>12, <1>13, <2>1, <3>1, <3>2 DEF LiveIsFollowed, ShownIsTrue
  <2>4. CASE m.topic = "run" /\ ~(m.state = "queued" /\ active_run \notin {NoRun, m.run})
    <3>1. SeeRun(m)
      BY <2>4 DEF OnTelemetryReceived
    <3>2. CASE m.run = active_run'
      <4>1. run_state' = m.state /\ move_delay_ms' = m.delay
        BY <3>1, <3>2 DEF SeeRun, ShowRun
      <4>2. ShownIsTrue'
        BY <1>1, <1>14, <2>4, <3>2, <4>1 DEF ShownIsTrue
      <4>3. ASSUME NEW q \in Runs, state[q] \in Live
            PROVE  \/ StartOf(telemetry', q)
                   \/ active_run' = q /\ run_state' \in Live
                   \/ Discovering(q)'
        <5>1. CASE m.run = q
          <6>1. m.state \notin Ended
            BY <1>14, <2>4, <4>3, <5>1 DEF Live, Ended
          <6>2. CASE m.state \in Live
            BY <3>2, <4>1, <5>1, <6>2
          <6>3. CASE m.state = "queued"
            BY <1>14, <2>4, <4>3, <5>1, <6>3 DEF Before, Saying, Word
          <6> QED
            BY <1>4, <2>4, <6>1, <6>2, <6>3 DEF States
        <5>2. CASE m.run # q /\ m.state \in Live
          BY <1>14, <2>4, <4>3, <5>2 DEF Before
        <5>3. CASE m.run # q /\ m.state \notin Live
          <6>1. active_run # q
            BY <1>2, <3>1, <3>2, <5>3 DEF SeeRun, Activates, Live
          <6>2. ~ Saying(m, q, "running")
            BY <5>3 DEF Saying, Word
          <6> QED
            BY <1>12, <1>13, <2>1, <4>3, <6>1, <6>2 DEF LiveIsFollowed
        <5> QED
          BY <5>1, <5>2, <5>3
      <4>4. LiveIsFollowed'
        BY <1>1, <4>3 DEF LiveIsFollowed
      <4> QED
        BY <4>2, <4>4
    <3>3. CASE m.run # active_run'
      <4>1. m.state # "running" /\ UNCHANGED <<active_run, run_state, move_delay_ms>>
        BY <3>1, <3>3 DEF SeeRun, Activates, shown_vars
      <4>2. ~ Word(m, active_run) /\ \A q : ~ Saying(m, q, "running")
        BY <3>3, <4>1 DEF Saying, Word
      <4> QED
        BY <1>1, <1>2, <1>12, <1>13, <2>1, <4>1, <4>2 DEF LiveIsFollowed, ShownIsTrue
    <3> QED
      BY <3>2, <3>3
  <2> QED
    BY <1>4, <2>2, <2>3, <2>4
<1> QED
  BY <1>1, <1>2, <1>7, <1>8, <1>9, <1>11, <1>15 DEF VInv

\* A result is taken: an answer that is shown is so, or the view is told better yet.
LEMMA ResultKeepsView ==
  ASSUME IInv, VInv, OnControlResult
  PROVE  VInv'
<1> PICK m : m = Head(results)
  OBVIOUS
<1> PICK busy : busy = BusyAfter(m)
  OBVIOUS
<1>1. /\ results # <<>> /\ results' = Tail(results)
      /\ UNCHANGED <<state, delay, telemetry, clock, lost, calls, answer>>
  BY DEF OnControlResult, server_vars, call_vars
<1>2. /\ answer \in Seq(Response) /\ results \in Seq(Result) /\ AnswersFit
      /\ active_run \in Runs \union {NoRun} /\ NoRun \notin Runs
      /\ lost \in BOOLEAN /\ overtaken \in BOOLEAN /\ seen \in Nat
      /\ Sound(telemetry, state, delay, clock)
  BY ClientAssumption DEF IInv, TypeOK, OnTheWay, VInv, Runs, NoRun
<1>3. /\ m = results[1] /\ 1 \in DOMAIN results
      /\ \A i \in DOMAIN results' : i + 1 \in DOMAIN results /\ results'[i] = results[i + 1]
      /\ \A i \in DOMAIN results : i # 1 =>
            i - 1 \in DOMAIN results' /\ results'[i - 1] = results[i]
  <2> HIDE DEF Result
  <2> QED
    BY <1>1, <1>2, TailOf, TailPlaces
<1>4. \A i \in DOMAIN results : ~results[i].error => results[i].response \in Response
  <2>1. \A i \in DOMAIN results : results[i] \in Result
    <3> HIDE DEF Result
    <3> QED
      BY <1>2
  <2>2. \A y \in Result : ~y.error => y.response \in Response
    BY DEF Result
  <2> QED
    BY <2>1, <2>2
<1> PICK x : x = m.response
  OBVIOUS
<1>5. \/ ApplyRunStatus(x, busy) /\ ~m.error /\ x.ok /\ (m.op = "discover" => x.run # NoRun)
      \/ /\ UNCHANGED <<active_run, run_state, move_delay_ms, seen, overtaken>>
         /\ m.op = "discover" => m.error \/ ~x.ok \/ x.run = NoRun
  BY DEF OnControlResult, heard_vars
<1>6. /\ seen' \in Nat /\ seen <= seen' /\ overtaken' \in BOOLEAN /\ (overtaken => overtaken')
  <2>1. CASE ApplyRunStatus(x, busy) /\ ~m.error
    <3>1. x.at \in Nat
      BY <1>3, <1>4, <2>1 DEF Response
    <3>2. seen' = IF x.at > seen THEN x.at ELSE seen
      BY <2>1 DEF ApplyRunStatus
    <3>3. seen' \in Nat /\ seen <= seen'
      BY <1>2, <3>1, <3>2
    <3>4. overtaken' \in BOOLEAN /\ (overtaken => overtaken')
      BY <1>2, <2>1, Zenon DEF ApplyRunStatus
    <3> QED
      BY <3>3, <3>4
  <2>2. CASE UNCHANGED <<seen, overtaken>>
    BY <1>2, <2>2
  <2> QED
    BY <1>5, <2>1, <2>2
<1>7. ASSUME NEW y \in Response, IsFresh(y)
      PROVE  Fresh(y, telemetry', state', delay', clock', seen', lost')
  <2>1. PICK sn \in Nat : sn = seen'
    BY <1>6
  <2>2. Fresh(y, telemetry, state, delay, clock, seen, lost) /\ seen <= sn
    BY <1>6, <1>7, <2>1 DEF IsFresh
  <2>3. Fresh(y, telemetry, state, delay, clock, sn, lost)
    BY <1>2, <2>2, HearingKeepsFresh
  <2> QED
    BY <1>1, <2>1, <2>3
<1>8. ResponsesAreFresh'
  <2>1. answer # <<>> => answer[1] \in Response
    <3> HIDE DEF Response
    <3> QED
      BY <1>2
  <2>2. /\ answer # <<>> => IsFresh(answer[1])
        /\ \A i \in DOMAIN results : ~results[i].error => IsFresh(results[i].response)
    BY DEF VInv, ResponsesAreFresh
  <2>3. /\ answer # <<>> =>
             Fresh(answer[1], telemetry', state', delay', clock', seen', lost')
        /\ \A i \in DOMAIN results : ~results[i].error =>
             Fresh(results[i].response, telemetry', state', delay', clock', seen', lost')
    BY <1>4, <1>7, <2>1, <2>2
  <2> QED
    BY <1>1, <1>3, <2>3 DEF ResponsesAreFresh, IsFresh
<1>9. \A q \in Runs : Discovering(q) =>
         \/ Discovering(q)'
         \/ m.op = "discover" /\ ~m.error /\ Finds(x, q)
  BY <1>1, <1>3 DEF Discovering, Finds
<1>10. ASSUME ~lost, ~overtaken'
       PROVE  LiveIsFollowed' /\ ShownIsTrue'
  <2>1. LiveIsFollowed /\ ShownIsTrue
    BY <1>6, <1>10 DEF VInv
  <2>2. CASE /\ UNCHANGED <<active_run, run_state, move_delay_ms, seen, overtaken>>
             /\ m.op = "discover" => m.error \/ ~x.ok \/ x.run = NoRun
    <3>1. \A q \in Runs : Discovering(q) => Discovering(q)'
      BY <1>2, <1>9, <2>2 DEF Finds
    <3> QED
      BY <1>1, <1>2, <2>1, <2>2, <3>1 DEF LiveIsFollowed, ShownIsTrue
  <2>3. CASE ApplyRunStatus(x, busy) /\ ~m.error /\ x.ok
               /\ (m.op = "discover" => x.run # NoRun)
    <3>1. /\ active_run' = x.run /\ run_state' = x.state /\ move_delay_ms' = x.delay
          /\ ~(x.at < seen) /\ (run_state \in Live => x.run = active_run)
      BY <1>10, <2>3 DEF ApplyRunStatus, ShowRun
    <3>2. x.run \in Runs /\ x.state # "absent" /\ x.state \in States
      <4>1. Fits(x, m.op) /\ x \in Response
        BY <1>2, <1>3, <1>4, <2>3 DEF AnswersFit
      <4> QED
        BY <2>3, <4>1 DEF Fits, Response
    <3>3. Fresh(x, telemetry, state, delay, clock, seen, lost)
      BY <1>3, <2>3 DEF VInv, ResponsesAreFresh, IsFresh
    <3>4. /\ x.state \in Ended => state[x.run] \in Ended
          /\ \/ x.state = state[x.run] /\ x.delay = delay[x.run]
             \/ WordOf(telemetry, x.run)
          /\ x.state = "queued" /\ state[x.run] \in Live => StartOf(telemetry, x.run)
      BY <1>2, <1>10, <2>3, <3>1, <3>2, <3>3 DEF Fresh, Passed, WordOf, StartOf
    <3>5. ShownIsTrue'
      BY <1>1, <3>1, <3>4 DEF ShownIsTrue
    <3>6. ASSUME NEW q \in Runs, state[q] \in Live
          PROVE  \/ StartOf(telemetry', q)
                 \/ active_run' = q /\ run_state' \in Live
                 \/ Discovering(q)'
      <4>1. CASE active_run = q /\ run_state \in Live
        <5>1. x.run = q
          BY <3>1, <4>1
        <5>2. x.state \in Live \/ x.state = "queued"
          BY <3>2, <3>4, <3>6, <5>1 DEF States, Live, Ended
        <5> QED
          BY <1>1, <3>1, <3>4, <3>6, <5>1, <5>2
      <4>2. CASE Discovering(q)
        BY <1>9, <3>1, <4>2 DEF Finds
      <4>3. CASE StartOf(telemetry, q)
        BY <1>1, <4>3
      <4> QED
        BY <2>1, <3>6, <4>1, <4>2, <4>3 DEF LiveIsFollowed
    <3>7. LiveIsFollowed'
      BY <1>1, <3>6 DEF LiveIsFollowed
    <3> QED
      BY <3>5, <3>7
  <2> QED
    BY <1>5, <2>2, <2>3
<1> QED
  BY <1>1, <1>2, <1>6, <1>8, <1>10 DEF VInv

\* What is posted is fresh, and the view and what it is told stay as they are.
LEMMA PostingKeepsView ==
  ASSUME IInv, VInv, NEW r \in Result, results' = Append(results, r),
         ~r.error => IsFresh(r.response),
         UNCHANGED <<state, delay, telemetry, clock, view_vars>>,
         lost' \in BOOLEAN, lost => lost', answer' \in {<<>>, answer},
         ~lost' => \A q \in Runs :
            state[q] \in Live /\ Discovering(q) => Discovering(q)'
  PROVE  VInv'
<1>1. /\ UNCHANGED <<active_run, run_state, move_delay_ms, seen, overtaken>>
      /\ state \in [Runs -> States] /\ active_run \in Runs \union {NoRun}
      /\ lost \in BOOLEAN /\ seen \in Nat /\ overtaken \in BOOLEAN
  BY DEF view_vars, shown_vars, heard_vars, VInv, IInv, TypeOK
<1>2. /\ answer \in Seq(Response) /\ results \in Seq(Result)
      /\ ResponsesAreFresh
  BY DEF IInv, OnTheWay, VInv
<1>3. PICK n \in Nat :
        /\ DOMAIN results = 1..n /\ DOMAIN results' = (1..n) \union {n + 1}
        /\ results'[n + 1] = r /\ \A i \in 1..n : results'[i] = results[i]
  <2> HIDE DEF Result
  <2> QED
    BY <1>2, AppendPlaces
<1>4. Tells
  BY NothingTells
<1>5. \A y \in Response :
         IsFresh(y) => Fresh(y, telemetry', state', delay', clock', seen', lost')
  BY <1>1, <1>4 DEF Tells
<1>6. ResponsesAreFresh'
  <2>1. answer # <<>> => answer[1] \in Response
    <3> HIDE DEF Response
    <3> QED
      BY <1>2
  <2>2. \A i \in DOMAIN results : ~results[i].error => results[i].response \in Response
    <3>1. \A i \in DOMAIN results : results[i] \in Result
      <4> HIDE DEF Result
      <4> QED
        BY <1>2
    <3>2. \A y \in Result : ~y.error => y.response \in Response
      BY DEF Result
    <3> QED
      BY <3>1, <3>2
  <2>3. answer' # <<>> =>
           Fresh(answer'[1], telemetry', state', delay', clock', seen', lost')
    BY <1>2, <1>5, <2>1 DEF ResponsesAreFresh
  <2>4. \A i \in 1..n : ~results[i].error =>
           Fresh(results[i].response, telemetry', state', delay', clock', seen', lost')
    BY <1>2, <1>3, <1>5, <2>2 DEF ResponsesAreFresh
  <2>5. ~r.error => Fresh(r.response, telemetry', state', delay', clock', seen', lost')
    BY <1>5 DEF Result
  <2> QED
    BY <1>3, <2>3, <2>4, <2>5 DEF ResponsesAreFresh, IsFresh
<1>7. ASSUME ~lost', ~overtaken'
      PROVE  LiveIsFollowed' /\ ShownIsTrue'
  <2>1. LiveIsFollowed /\ ShownIsTrue
    BY <1>1, <1>7 DEF VInv
  <2>2. \A q \in Runs : state[q] \in Live /\ Discovering(q) => Discovering(q)'
    BY <1>7
  <2>3. LiveIsFollowed'
    BY <1>1, <2>1, <2>2 DEF LiveIsFollowed
  <2>4. ShownIsTrue'
    BY <1>1, <2>1, <2>2 DEF ShownIsTrue
  <2> QED
    BY <2>3, <2>4
<1> QED
  BY <1>1, <1>4, <1>6, <1>7 DEF VInv, Tells

\* Nothing is heard, and a call at most joins those there are.
LEMMA StillKeepsView ==
  ASSUME IInv, VInv,
         UNCHANGED <<state, delay, telemetry, clock, lost, active_run, run_state,
                     move_delay_ms, heard_vars, answer, results>>,
         calls # <<>> => calls' # <<>> /\ calls'[1] = calls[1]
  PROVE  VInv'
<1>1. UNCHANGED <<seen, overtaken>>
  BY DEF heard_vars
<1>2. Sound(telemetry, state, delay, clock)'
  BY DEF VInv
<1>3. ResponsesAreFresh'
  BY <1>1 DEF VInv, ResponsesAreFresh, IsFresh
<1>4. \A q \in Runs : Discovering(q) => Discovering(q)'
  BY DEF Discovering, Finds
<1>5. (LiveIsFollowed /\ ShownIsTrue) => (LiveIsFollowed /\ ShownIsTrue)'
  <2>1. active_run \in Runs \union {NoRun}
    BY DEF IInv, TypeOK
  <2> QED
    BY <1>4, <2>1 DEF LiveIsFollowed, ShownIsTrue
<1> QED
  BY <1>1, <1>2, <1>3, <1>5 DEF VInv

LEMMA ServerKeepsView ==
  ASSUME IInv, VInv, Server
  PROVE  VInv'
<1>1. /\ state \in [Runs -> States] /\ delay \in [Runs -> Delays]
      /\ calls \in Seq(Request) /\ abandoned \subseteq Request
  BY DEF IInv, TypeOK, OnTheWay
<1>2. ASSUME Tells, UNCHANGED client_vars
      PROVE  VInv'
  BY <1>2, TellingKeepsView DEF client_vars, call_vars
<1>3. ASSUME NEW r \in Runs, NEW s \in States \ {"absent"}, Legal(state, r, s), Reached(r, s)
      PROVE  VInv'
  <2>1. /\ state' = [state EXCEPT ![r] = s] /\ PublishRun(r, s, delay[r])
        /\ UNCHANGED <<delay, client_vars>>
    BY <1>3 DEF Reached
  <2>2. delay[r] \in Delays /\ delay' = [delay EXCEPT ![r] = delay[r]]
    BY <1>1, <2>1
  <2>3. Tells
    BY <1>3, <2>1, <2>2, StatusTells
  <2> QED
    BY <1>2, <2>1, <2>3
<1>4. CASE StartRun
  <2>1. PICK r : r = First(QueuedRuns)
    OBVIOUS
  <2>2. r \in QueuedRuns
    BY <1>4, <2>1, FirstIsOne DEF StartRun, QueuedRuns
  <2>3. r \in Runs /\ state[r] = "queued" /\ \A q \in Runs : state[q] \notin Live
    BY <1>4, <2>2 DEF StartRun, QueuedRuns, ActiveRuns
  <2>4. Legal(state, r, "running") /\ "running" \in States \ {"absent"}
    BY <2>3 DEF Legal, Live, Ended, States
  <2>5. Reached(r, "running")
    BY <1>4, <2>1 DEF StartRun
  <2> QED
    BY <1>3, <2>3, <2>4, <2>5
<1>5. ASSUME NEW r \in Runs, EndRun(r)
      PROVE  VInv'
  <2>1. {"completed", "cancelled"} \subseteq States \ {"absent"}
    BY DEF States, Ended
  <2>2. Legal(state, r, "completed") /\ Legal(state, r, "cancelled")
    BY DEF Legal, Live, Ended
  <2> QED
    BY <1>3, <1>5, <2>1, <2>2 DEF EndRun
<1>6. ASSUME NEW r \in Runs, Play(r)
      PROVE  VInv'
  BY <1>2, <1>6, FrameTells DEF Play
<1>7. ASSUME NEW q \in Requests, OtherRequest(q)
      PROVE  VInv'
  <2>1. q \in Request
    BY ClientAssumption DEF Requests, Request, ControlOps
  <2>2. Handle(q) /\ UNCHANGED client_vars
    BY <1>7 DEF OtherRequest
  <2> QED
    BY <1>2, <2>1, <2>2, HandleTells
<1>8. CASE HandleAbandoned
  <2>1. PICK q \in abandoned : Handle(q) /\ UNCHANGED client_vars
    BY <1>8 DEF HandleAbandoned
  <2> QED
    BY <1>1, <1>2, <2>1, HandleTells
<1>9. CASE AnswerCall
  <2>1. PICK q, a : q = Head(calls) /\ a = Answer(q)
    OBVIOUS
  <2>2. /\ calls # <<>> /\ answer = <<>> /\ Handle(q) /\ answer' = <<a>>
        /\ UNCHANGED <<calls, view_vars, results>>
    BY <1>9, <2>1 DEF AnswerCall
  <2>3. q \in Request /\ q = calls[1]
    <3> HIDE DEF Request
    <3> QED
      BY <1>1, <2>1, <2>2, TailOf
  <2>4. /\ Tells
        /\ Fresh(a, telemetry', state', delay', clock', seen, lost')
        /\ q.op = "discover" => \A p \in Runs : state'[p] \in Live => Finds(a, p)
    BY <2>1, <2>2, <2>3, HandleTells
  <2> QED
    BY <2>2, <2>3, <2>4, TellingKeepsView
<1> QED
  BY <1>4, <1>5, <1>6, <1>7, <1>8, <1>9 DEF Server

\* A call ends with its answer, or without one: the discovery of a live run finds it, unless
\* it is given up.
LEMMA ReceivingKeepsView ==
  ASSUME IInv, VInv, ReceiveAnswer
  PROVE  VInv'
<1>1. PICK r : r = [op |-> Head(calls).op, error |-> FALSE, response |-> answer[1]]
  OBVIOUS
<1>2. /\ answer # <<>> /\ results' = Append(results, r) /\ calls' = Tail(calls)
      /\ answer' = <<>> /\ UNCHANGED <<view_vars, server_vars>>
  BY <1>1 DEF ReceiveAnswer, Posted
<1>3. /\ answer \in Seq(Response) /\ calls \in Seq(Request) /\ results \in Seq(Result)
      /\ calls # <<>> /\ lost \in BOOLEAN /\ ResponsesAreFresh
  BY <1>2 DEF IInv, OnTheWay, AnswersFit, VInv
<1>4. answer[1] \in Response /\ Head(calls) = calls[1] /\ calls[1] \in Request
  <2> HIDE DEF Response, Request
  <2> QED
    BY <1>2, <1>3, TailOf
<1>5. /\ r \in Result /\ r.op = calls[1].op /\ ~r.error /\ r.response = answer[1]
  <2>1. Head(calls).op \in Ops
    BY <1>4 DEF Request, Ops
  <2> HIDE DEF Response
  <2> QED
    BY <1>1, <1>4, <2>1 DEF Result
<1>6. IsFresh(r.response)
  BY <1>2, <1>3, <1>5 DEF ResponsesAreFresh
<1>7. PICK n \in Nat :
        /\ DOMAIN results = 1..n /\ DOMAIN results' = (1..n) \union {n + 1}
        /\ results'[n + 1] = r /\ \A i \in 1..n : results'[i] = results[i]
  <2>1. r \in Result /\ results \in Seq(Result)
    BY <1>3, <1>5
  <2> HIDE DEF Result
  <2>2. \E n \in Nat :
          /\ DOMAIN results = 1..n /\ DOMAIN Append(results, r) = (1..n) \union {n + 1}
          /\ Append(results, r)[n + 1] = r
          /\ \A i \in 1..n : Append(results, r)[i] = results[i]
    BY <2>1, AppendPlaces
  <2> QED
    BY <1>2, <2>2
<1>8. ASSUME NEW q \in Runs, Discovering(q)
      PROVE  Discovering(q)'
  BY <1>2, <1>5, <1>7, <1>8 DEF Discovering, Finds
<1>9. UNCHANGED <<state, delay, telemetry, clock, view_vars, lost>>
  BY <1>2 DEF server_vars
<1>10. lost' \in BOOLEAN /\ (lost => lost') /\ answer' \in {<<>>, answer}
  BY <1>2, <1>3, <1>9
<1> QED
  BY <1>2, <1>5, <1>6, <1>8, <1>9, <1>10, PostingKeepsView

LEMMA TimeOutKeepsView ==
  ASSUME IInv, VInv, TimeOut
  PROVE  VInv'
<1>1. PICK r : r = [op |-> Head(calls).op, error |-> TRUE]
  OBVIOUS
<1>2. /\ calls # <<>> /\ results' = Append(results, r) /\ answer' = <<>>
      /\ UNCHANGED <<view_vars, state, delay, telemetry, clock>>
      /\ lost' = (lost \/ (Head(calls).op = "discover" /\ Target(Head(calls)) # NoRun))
  BY <1>1 DEF TimeOut, Posted
<1>3. calls \in Seq(Request) /\ results \in Seq(Result) /\ lost \in BOOLEAN
  BY DEF IInv, OnTheWay, VInv
<1>4. Head(calls) = calls[1] /\ calls[1] \in Request
  <2> HIDE DEF Request
  <2> QED
    BY <1>2, <1>3, TailOf
<1>5. r \in Result /\ r.error
  BY <1>1, <1>4 DEF Request, Result, Ops
<1>6. PICK n \in Nat :
        /\ DOMAIN results = 1..n /\ DOMAIN results' = (1..n) \union {n + 1}
        /\ \A i \in 1..n : results'[i] = results[i]
  <2> HIDE DEF Result
  <2> QED
    BY <1>2, <1>3, <1>5, AppendPlaces
<1>7. lost' \in BOOLEAN /\ (lost => lost')
  BY <1>2, <1>3, Zenon
<1>8. ASSUME ~lost', NEW q \in Runs, state[q] \in Live, Discovering(q)
      PROVE  Discovering(q)'
  <2>1. calls[1].op # "discover"
    <3>1. SUFFICES ASSUME calls[1].op = "discover" PROVE FALSE
      OBVIOUS
    <3>2. ActiveRuns # {} /\ ActiveRuns \in SUBSET Runs
      BY <1>8 DEF ActiveRuns
    <3>3. Target(calls[1]) \in Runs
      BY <3>1, <3>2, FirstIsOne DEF Target
    <3>4. NoRun \notin Runs
      BY ClientAssumption DEF Runs, NoRun
    <3> QED
      BY <1>2, <1>4, <1>8, <3>1, <3>3, <3>4
  <2> QED
    BY <1>6, <1>8, <2>1 DEF Discovering, Finds
<1> QED
  BY <1>2, <1>5, <1>7, <1>8, PostingKeepsView

LEMMA LoadFailsUnseen ==
  ASSUME IInv, VInv, FailToLoad
  PROVE  VInv'
<1>1. PICK r : r = [op |-> "submit", error |-> TRUE]
  OBVIOUS
<1>2. results' = Append(results, r) /\ UNCHANGED <<server_vars, call_vars, view_vars>>
  BY <1>1 DEF FailToLoad
<1>3. results \in Seq(Result) /\ lost \in BOOLEAN
  BY DEF IInv, OnTheWay, VInv
<1>4. r \in Result /\ r.error
  BY <1>1 DEF Result, Ops
<1>5. PICK n \in Nat :
        /\ DOMAIN results = 1..n /\ DOMAIN results' = (1..n) \union {n + 1}
        /\ \A i \in 1..n : results'[i] = results[i]
  <2> HIDE DEF Result
  <2> QED
    BY <1>2, <1>3, <1>4, AppendPlaces
<1>6. UNCHANGED <<state, delay, telemetry, clock, view_vars, lost, calls, answer>>
  BY <1>2 DEF server_vars, call_vars
<1>7. ASSUME NEW q \in Runs, Discovering(q)
      PROVE  Discovering(q)'
  BY <1>5, <1>6, <1>7 DEF Discovering, Finds
<1>8. lost' \in BOOLEAN /\ (lost => lost') /\ answer' \in {<<>>, answer}
  BY <1>3, <1>6
<1> QED
  BY <1>2, <1>4, <1>6, <1>7, <1>8, PostingKeepsView

-----------------------------------------------------------------------------
(* The view is true.                                                        *)

LEMMA InitView == Init => VInv
<1> SUFFICES ASSUME Init PROVE VInv
  OBVIOUS
<1>1. /\ telemetry = <<>> /\ answer = <<>> /\ results = <<>> /\ active_run = NoRun
      /\ calls = <<[op |-> "discover", run |-> NoRun, delay |-> 0]>>
      /\ seen = 0 /\ lost = FALSE /\ overtaken = FALSE
  BY DEF Init
<1>2. DOMAIN telemetry = {} /\ DOMAIN results = {}
  BY <1>1
<1>3. OneLive(state)
  <2>1. PICK s : state = [r \in Runs |-> IF r = 1 THEN s ELSE "absent"]
    BY DEF Init
  <2> QED
    BY <2>1 DEF OneLive, Live
<1>4. Sound(telemetry, state, delay, clock)
  BY <1>2, <1>3 DEF Sound, InOrder, LastWordIsTrue, EndsFollowFrames, StartsFollow
<1>5. ResponsesAreFresh
  BY <1>1, <1>2 DEF ResponsesAreFresh
<1>6. \A q : Discovering(q)
  BY <1>1 DEF Discovering
<1> QED
  BY <1>1, <1>4, <1>5, <1>6 DEF VInv, LiveIsFollowed, ShownIsTrue

LEMMA StepView == IInv /\ VInv /\ [Next]_vars => VInv'
<1> SUFFICES ASSUME IInv, VInv, [Next]_vars PROVE VInv'
  OBVIOUS
<1>1. CASE Server
  BY <1>1, ServerKeepsView
<1>2. CASE User
  <2>1. UNCHANGED <<state, delay, telemetry, clock, lost, active_run, run_state, move_delay_ms,
                    heard_vars, answer, results, calls>>
    BY <1>2 DEF User, PressPause, PressSubmit, PressCancel, PickDelay, CloseDialog, calm_vars,
                server_vars, call_vars, view_vars, shown_vars
  <2> QED
    BY <2>1, StillKeepsView
<1>3. CASE ReceiveAnswer
  BY <1>3, ReceivingKeepsView
<1>4. CASE TimeOut
  BY <1>4, TimeOutKeepsView
<1>5. CASE LoseTelemetry
  <2>1. /\ telemetry # <<>> /\ telemetry' = Tail(telemetry)
        /\ lost' = (lost \/ Head(telemetry).topic = "run")
        /\ UNCHANGED <<state, delay, clock, client_vars>>
    BY <1>5 DEF LoseTelemetry
  <2>2. Head(telemetry) = telemetry[1] /\ telemetry \in Seq(Message)
    <3>1. telemetry \in Seq(Message)
      BY DEF IInv, OnTheWay
    <3> HIDE DEF Message
    <3> QED
      BY <2>1, <3>1, TailOf
  <2>3. PICK ls : ls = (lost \/ telemetry[1].topic = "run")
    OBVIOUS
  <2>4. /\ ls \in BOOLEAN
        /\ Sound(Tail(telemetry), state, delay, clock)
        /\ \A x \in Response :
              IsFresh(x) => Fresh(x, Tail(telemetry), state, delay, clock, seen, ls)
        /\ ~ls => \A q \in Runs :
             /\ StartOf(telemetry, q) => StartOf(Tail(telemetry), q)
             /\ WordOf(telemetry, q) => WordOf(Tail(telemetry), q)
    BY <2>1, <2>3, LosingTells
  <2>5. lost' = ls /\ (lost => ls)
    BY <2>1, <2>2, <2>3
  <2>6. Tells
    BY <2>1, <2>4, <2>5 DEF Tells
  <2> QED
    BY <2>1, <2>6, TellingKeepsView DEF client_vars, call_vars
<1>6. CASE OnTelemetryReceived
  BY <1>6, HearingKeepsView
<1>7. CASE OnControlResult
  BY <1>7, ResultKeepsView
<1>8. CASE OnSelectChanged
  <2>1. UNCHANGED <<state, delay, telemetry, clock, lost, active_run, run_state, move_delay_ms,
                    heard_vars, answer, results, calls>>
    BY <1>8 DEF OnSelectChanged, calm_vars, server_vars, call_vars
  <2> QED
    BY <2>1, StillKeepsView
<1>9. CASE StartTask
  <2>1. PICK q : calls' = Append(calls, q)
    BY <1>9 DEF StartTask
  <2>2. calls \in Seq(Request)
    BY DEF IInv, OnTheWay
  <2>3. calls # <<>> => calls' # <<>> /\ calls'[1] = calls[1]
    <3> HIDE DEF Request
    <3> QED
      BY <2>1, <2>2
  <2>4. UNCHANGED <<state, delay, telemetry, clock, lost, active_run, run_state, move_delay_ms,
                    heard_vars, answer, results>>
    BY <1>9 DEF StartTask, server_vars, view_vars, shown_vars
  <2> QED
    BY <2>3, <2>4, StillKeepsView
<1>10. CASE FailToLoad
  BY <1>10, LoadFailsUnseen
<1>11. CASE UNCHANGED vars
  BY <1>11, StillKeepsView DEF vars, server_vars, client_vars, call_vars, view_vars, shown_vars
<1> QED
  BY <1>1, <1>2, <1>3, <1>4, <1>5, <1>6, <1>7, <1>8, <1>9, <1>10, <1>11 DEF Next

LEMMA ViewInvariance == Spec => [](IInv /\ VInv)
BY InitInvariant, StepInvariant, InitView, StepView, PTL DEF Spec

\* Whatever order telemetry and the answers to the client's own requests come in: once
\* nothing is under way, the state and the delay on show are those of the run on show,
\* unless a message about a run was lost, the discovery of a run was given up, or an answer
\* was shown that telemetry had overtaken.
THEOREM ViewSettlesOnTheTruth == Spec => []ViewIsTrueAtRest
<1>1. IInv /\ VInv => ViewIsTrueAtRest
  <2> SUFFICES ASSUME IInv, VInv, telemetry = <<>>, calls = <<>>, results = <<>>, ~lost,
                      ~overtaken, active_run # NoRun
               PROVE  run_state = state[active_run] /\ move_delay_ms = delay[active_run]
    BY DEF ViewIsTrueAtRest
  <2>1. DOMAIN telemetry = {} /\ DOMAIN results = {}
    OBVIOUS
  <2>2. ~ WordOf(telemetry, active_run) /\ ~ Discovering(active_run)
    BY <2>1 DEF WordOf, Discovering
  <2> QED
    BY <2>2 DEF VInv, ShownIsTrue
<1> QED
  BY <1>1, ViewInvariance, PTL

=============================================================================
