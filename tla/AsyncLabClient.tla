----------------------------- MODULE AsyncLabClient -----------------------------
(***************************************************************************)
(* AsyncLabClient: requests that tasks of one program make over one client, *)
(* one after the other, each on a socket of its own that closes with it;    *)
(* the REP loop of the server, which may be down, slow or stopped; and the  *)
(* end of the program, which waits for the sockets.  A request is known by  *)
(* the task that makes it, once.                                            *)
(***************************************************************************)
EXTENDS Naturals, Sequences, SequencesExt

CONSTANTS
    Tasks, NoTask,
    MaxStops      \* bound: how often the server stops

ASSUME AsyncLabClientAssumption == NoTask \notin Tasks /\ MaxStops \in Nat

VARIABLES
    task,       \* where the call of each task is
    waiters,    \* the tasks that wait for _lock, in order
    lock,       \* the task that holds it
    sockets,    \* the sockets that are open, each of a task
    unsent,     \* the sockets whose request has not left the client
    inbox,      \* the requests the server has received
    reply,      \* the request that is answered by what waits on each socket
    told,       \* what each call returned or raised
    called,     \* the tasks that have made their call, in order (a history variable)
    handled,    \* the requests the server has handled, in order
    serving, stops,
    closing     \* how far on_unmount is

call_vars == <<task, waiters, lock, sockets, told, called>>
server_vars == <<handled, serving, stops>>
vars == <<call_vars, unsent, inbox, reply, server_vars, closing>>

Init ==
    /\ task = [t \in Tasks |-> "idle"] /\ waiters = <<>> /\ lock = NoTask
    /\ sockets = {} /\ unsent = {} /\ inbox = {}
    /\ reply = [t \in Tasks |-> NoTask] /\ told = [t \in Tasks |-> "nothing"]
    /\ called = <<>> /\ handled = <<>> /\ serving = TRUE /\ stops = 0
    /\ closing = "no"

-----------------------------------------------------------------------------
(* request                                                                  *)
\* Mutant of Call: who calls last is served first.
CallFirst(t) ==
    /\ closing = "no" /\ task[t] = "idle"
    /\ task' = [task EXCEPT ![t] = "waiting"] /\ waiters' = <<t>> \o waiters
    /\ called' = Append(called, t)
    /\ UNCHANGED <<lock, sockets, told, unsent, inbox, reply, server_vars, closing>>

Call(t) ==
    /\ closing = "no" /\ task[t] = "idle"
    /\ task' = [task EXCEPT ![t] = "waiting"] /\ waiters' = Append(waiters, t)
    /\ called' = Append(called, t)
    /\ UNCHANGED <<lock, sockets, told, unsent, inbox, reply, server_vars, closing>>

\* Mutant of Free: the requests are not serialized.
FreeAlways == TRUE

Free == lock = NoTask

\* The lock goes to the first who waits.  A new socket takes the request, whether or not
\* there is a server.
Send ==
    LET t == Head(waiters)
    IN /\ waiters # <<>> /\ Free
       /\ lock' = t /\ waiters' = Tail(waiters)
       /\ task' = [task EXCEPT ![t] = "receiving"]
       /\ sockets' = sockets \union {t} /\ unsent' = unsent \union {t}
       /\ UNCHANGED <<told, called, inbox, reply, server_vars, closing>>

\* Mutant of Leave: an error leaves without the finally clause.
LeaveOpen(t, answer) ==
    /\ task' = [task EXCEPT ![t] = "done"] /\ told' = [told EXCEPT ![t] = answer]
    /\ lock' = NoTask
    /\ sockets' = IF answer = "answer" THEN sockets \ {t} ELSE sockets
    /\ unsent' = unsent \ {t}

\* Mutant of Leave: the lock stays with a call that raises an error.
LeaveLocked(t, answer) ==
    /\ task' = [task EXCEPT ![t] = "done"] /\ told' = [told EXCEPT ![t] = answer]
    /\ lock' = IF answer = "answer" THEN NoTask ELSE lock
    /\ sockets' = sockets \ {t} /\ unsent' = unsent \ {t}

\* Mutant of Leave: the socket lingers, and what it holds is delivered later.
LeaveLingering(t, answer) ==
    /\ task' = [task EXCEPT ![t] = "done"] /\ told' = [told EXCEPT ![t] = answer]
    /\ lock' = NoTask
    /\ sockets' = sockets \ {t} /\ UNCHANGED unsent

\* The socket is closed, and drops what has not left it; the lock is released.
Leave(t, answer) ==
    /\ task' = [task EXCEPT ![t] = "done"] /\ told' = [told EXCEPT ![t] = answer]
    /\ lock' = NoTask
    /\ sockets' = sockets \ {t} /\ unsent' = unsent \ {t}

\* _validate_response
Receive(t) ==
    /\ task[t] = "receiving" /\ reply[t] # NoTask
    /\ Leave(t, IF reply[t] = t THEN "answer" ELSE "mismatch")
    /\ UNCHANGED <<waiters, called, inbox, reply, server_vars, closing>>

TimeOut(t) ==
    /\ task[t] = "receiving"
    /\ Leave(t, "timeout")
    /\ UNCHANGED <<waiters, called, inbox, reply, server_vars, closing>>

-----------------------------------------------------------------------------
(* The line and the server.                                                 *)
Deliver(t) ==
    /\ serving /\ t \in unsent
    /\ unsent' = unsent \ {t} /\ inbox' = inbox \union {t}
    /\ UNCHANGED <<call_vars, reply, server_vars, closing>>

\* Mutant of Addressee: the answer goes to whom the server has accepted last.
AddresseeLast(t) == lock

\* A REP socket answers the peer that it has the request from.
Addressee(t) == t

\* One pass of the service loop.  Requests of different sockets come in any order; the
\* answer to a socket that is closed is dropped.
Handle(t) ==
    /\ serving /\ t \in inbox
    /\ inbox' = inbox \ {t} /\ handled' = Append(handled, t)
    /\ reply' = IF Addressee(t) \in sockets THEN [reply EXCEPT ![Addressee(t)] = t] ELSE reply
    /\ UNCHANGED <<call_vars, unsent, serving, stops, closing>>

\* What the server had received is lost with its socket.
Stop ==
    /\ serving /\ stops < MaxStops
    /\ serving' = FALSE /\ stops' = stops + 1 /\ inbox' = {}
    /\ UNCHANGED <<call_vars, unsent, reply, handled, closing>>

\* A connection is made again by ZeroMQ, for the sockets that are still open.
Start ==
    /\ ~serving /\ serving' = TRUE
    /\ UNCHANGED <<call_vars, unsent, inbox, reply, handled, stops, closing>>

-----------------------------------------------------------------------------
(* on_unmount                                                               *)
Unmount ==
    /\ closing = "no" /\ closing' = "cancelling"
    /\ UNCHANGED <<call_vars, unsent, inbox, reply, server_vars>>

\* Mutant of Without: a call that is cancelled still gets the lock.
WithoutNone(t) == waiters

\* A cancelled wait for the lock gives up its place.
Without(t) == RemoveAt(waiters, CHOOSE i \in DOMAIN waiters : waiters[i] = t)

\* A task that is cancelled leaves its call as by any other error.
Cancel(t) ==
    /\ closing = "cancelling"
    /\ \/ /\ task[t] = "waiting"
          /\ task' = [task EXCEPT ![t] = "done"] /\ told' = [told EXCEPT ![t] = "cancelled"]
          /\ waiters' = Without(t)
          /\ UNCHANGED <<lock, sockets, unsent>>
       \/ /\ task[t] = "receiving"
          /\ Leave(t, "cancelled")
          /\ UNCHANGED waiters
    /\ UNCHANGED <<called, inbox, reply, server_vars, closing>>

\* gather, then term, which waits until no socket is open.
Terminate ==
    /\ closing = "cancelling"
    /\ \A t \in Tasks : task[t] \in {"idle", "done"}
    /\ sockets = {}
    /\ closing' = "closed"
    /\ UNCHANGED <<call_vars, unsent, inbox, reply, server_vars>>

-----------------------------------------------------------------------------
Next ==
    \/ \E t \in Tasks :
         Call(t) \/ Receive(t) \/ TimeOut(t) \/ Cancel(t) \/ Deliver(t) \/ Handle(t)
    \/ Send \/ Stop \/ Start \/ Unmount \/ Terminate

Spec == Init /\ [][Next]_vars

\* The tasks of the program go on and its timers run.  Nothing is assumed of the server.
FairSpec ==
    /\ Spec
    /\ WF_vars(Send) /\ WF_vars(Terminate)
    /\ \A t \in Tasks : WF_vars(Receive(t) \/ TimeOut(t)) /\ WF_vars(Cancel(t))

-----------------------------------------------------------------------------
\* Every variable has the shape the code gives it.
TypeOK ==
    /\ task \in [Tasks -> {"idle", "waiting", "receiving", "done"}]
    /\ IsInjective(waiters) /\ ToSet(waiters) = {t \in Tasks : task[t] = "waiting"}
    /\ lock \in Tasks \union {NoTask}
    /\ sockets \subseteq Tasks /\ unsent \subseteq Tasks /\ inbox \subseteq Tasks
    /\ reply \in [Tasks -> Tasks \union {NoTask}]
    /\ told \in [Tasks -> {"nothing", "answer", "mismatch", "timeout", "cancelled"}]
    /\ called \in Seq(Tasks)
    /\ closing \in {"no", "cancelling", "closed"}

\* A call that returns has the answer to its own request, and none fails because it was
\* given another's: not even when requests that were given up are handled late.
EveryAnswerFits ==
    /\ \A t \in Tasks : told[t] # "mismatch" /\ (told[t] = "answer" => Contains(handled, t))
    /\ \A t \in Tasks : reply[t] \in {t, NoTask}

\* The call of task u came before that of t.
Earlier(u, t) == \E i, j \in DOMAIN called : i < j /\ called[i] = u /\ called[j] = t

\* A request is handled while the caller of one that was handled before it still waits
\* only if it has been given up itself.
HandledInTurn ==
    \A i, j \in DOMAIN handled :
        i < j /\ told[handled[i]] = "nothing" => told[handled[j]] \in {"timeout", "cancelled"}

\* A request is handled after that of a later call only if it has been given up.
HandledInOrder ==
    \A i, j \in DOMAIN handled :
        i < j /\ Earlier(handled[j], handled[i]) => told[handled[j]] \in {"timeout", "cancelled"}

\* Requests whose callers have, or can still have, an answer are handled in the order of
\* their calls, each before the next one has left (the lock of request): only one that
\* was given up can be handled out of turn.
AnsweredInOrder == HandledInTurn /\ HandledInOrder

\* Each caller is answered by its own request, in its turn, or not at all.
AnswersFit == TypeOK /\ EveryAnswerFits /\ AnsweredInOrder

\* What is given up before it has reached a server is not handled by the next one: only
\* a request that waits, or that the server has received, is ever handled.
GivenUpIsGone ==
    [][\A t \in Tasks : t \in inbox' \ inbox => task[t] = "receiving"]_vars

\* No call hangs, whatever the server does.
CallsReturn == \A t \in Tasks : task[t] = "waiting" ~> task[t] = "done"

\* The program can be left at any moment: its end does not hang on an open socket.
ClientCloses == closing = "cancelling" ~> closing = "closed"

\* Neither a call nor the end of the program waits for ever.
NothingHangs == CallsReturn /\ ClientCloses
================================================================================
