--------------------------------- MODULE DbMgr ---------------------------------
(***************************************************************************)
(* DbMgr: one connection shared by threads, transactions that never nest,   *)
(* one reconnection when BEGIN finds the connection dead.  A statement is   *)
(* its unit of work and its number.  The database ends an open transaction  *)
(* by rolling back when its connection dies, and by committing when another *)
(* one is begun on the same connection.                                     *)
(***************************************************************************)
EXTENDS Naturals

CONSTANTS
    Threads, NoThread,
    Units, NoUnit,   \* units of work, each called once by some thread
    Statements,      \* the statements of a unit are 1..Statements
    MaxFaults        \* bound: lost connections and statements that are refused

ASSUME DbMgrAssumption ==
    /\ NoThread \notin Threads /\ NoUnit \notin Units
    /\ Statements \in Nat \ {0} /\ MaxFaults \in Nat

VARIABLES
    closed,            \* _closed
    in_transaction,    \* _in_transaction
    lock,              \* the thread that holds _lock
    connection,        \* "up", "down" or "closed"
    place,             \* where the transaction of the lock's holder is
    unit,              \* the unit it executes, after the first use the last one
    executed,          \* how many of its statements have returned
    open,              \* the statements of the transaction the database has open
    rows,              \* the statements that are committed
    result,            \* what the caller of each unit was told
    faults

session_vars == <<connection, open, rows, faults>>
vars == <<closed, in_transaction, lock, place, unit, executed, result, session_vars>>

Rows(u) == {u} \X (1..Statements)
Whole(u) == Rows(u) \subseteq rows

-----------------------------------------------------------------------------
(* The database and the line to it.                                         *)
Lose ==
    /\ connection = "up" /\ faults < MaxFaults
    /\ faults' = faults + 1
    /\ connection' = "down" /\ open' = {}
    /\ UNCHANGED <<closed, in_transaction, lock, place, unit, executed, result, rows>>

\* BEGIN commits what the same connection has left open.
Begun == open' = {} /\ rows' = rows \union open

-----------------------------------------------------------------------------
(* transaction, from the top.                                               *)
Finish(answer) ==
    /\ in_transaction' = FALSE
    /\ lock' = NoThread /\ place' = "none"
    /\ result' = [result EXCEPT ![unit] = answer]

\* Mutant of Refuses: a closed manager is as good as an open one.
RefusesNothing == FALSE

Refuses == closed

\* A thread opens a transaction, or calls a single operation outside one.
Enter(t, u) ==
    /\ lock = NoThread /\ result[u] = "none"
    /\ IF Refuses
       THEN /\ result' = [result EXCEPT ![u] = "error"]
            /\ UNCHANGED <<closed, in_transaction, lock, place, unit, executed, session_vars>>
       ELSE /\ lock' = t /\ unit' = u /\ executed' = 0
            /\ in_transaction' = TRUE /\ place' = "begin"
            /\ UNCHANGED <<closed, result, session_vars>>

Begin ==
    /\ place = "begin"
    /\ IF connection = "up"
       THEN Begun /\ place' = "body" /\ UNCHANGED connection
       ELSE place' = "reconnect" /\ UNCHANGED <<open, rows, connection>>
    /\ UNCHANGED <<closed, in_transaction, lock, unit, executed, result, faults>>

\* BEGIN is refused for another reason than a dead connection.
BeginFails ==
    /\ place = "begin" /\ connection = "up" /\ faults < MaxFaults
    /\ faults' = faults + 1
    /\ place' = "rollback"
    /\ UNCHANGED <<closed, in_transaction, lock, unit, executed, result, connection, open, rows>>

\* The second attempt, on a new connection; there is no third.
Reconnect ==
    /\ place = "reconnect"
    /\ \/ connection' = "up" /\ place' = "retry" /\ UNCHANGED faults
       \/ /\ faults < MaxFaults /\ faults' = faults + 1
          /\ place' = "rollback" /\ UNCHANGED connection
    /\ UNCHANGED <<closed, in_transaction, lock, unit, executed, result, open, rows>>

Retry ==
    /\ place = "retry"
    /\ IF connection = "up" THEN Begun /\ place' = "body"
       ELSE place' = "rollback" /\ UNCHANGED <<open, rows>>
    /\ UNCHANGED <<closed, in_transaction, lock, unit, executed, result, connection, faults>>

\* Mutant of Execute: a statement on a dead connection gets a new one.
ExecuteAgain ==
    /\ place = "body" /\ executed < Statements
    /\ connection' = "up"
    /\ open' = open \union {<<unit, executed + 1>>} /\ executed' = executed + 1
    /\ UNCHANGED <<closed, in_transaction, lock, place, unit, result, rows, faults>>

\* Mutant of Execute: the body issues one statement too many.
ExecuteOn ==
    /\ place = "body" /\ executed <= Statements /\ connection = "up"
    /\ open' = open \union {<<unit, executed + 1>>} /\ executed' = executed + 1
    /\ UNCHANGED <<closed, in_transaction, lock, place, unit, result, connection, rows, faults>>

\* An operation of the body, inside the transaction that is open.
Execute ==
    /\ place = "body" /\ executed < Statements
    /\ IF connection = "up"
       THEN open' = open \union {<<unit, executed + 1>>} /\ executed' = executed + 1
                 /\ UNCHANGED place
       ELSE place' = "rollback" /\ UNCHANGED <<open, executed>>
    /\ UNCHANGED <<closed, in_transaction, lock, unit, result, connection, rows, faults>>

\* The statement is refused, or the body raises an error of its own, and lets it
\* propagate: transaction would commit what a body did that caught it and went on.
ExecuteFails ==
    /\ place = "body" /\ faults < MaxFaults
    /\ faults' = faults + 1
    /\ place' = "rollback"
    /\ UNCHANGED <<closed, in_transaction, lock, unit, executed, result, connection, open, rows>>

\* Mutant of NestedBegin: the inner transaction begins and ends like an outer one.
NestedBeginAccepted == Begun /\ in_transaction' = FALSE /\ UNCHANGED place

\* Refused before anything is changed.  Its caller catches the error or does not.
NestedBegin == place' \in {"body", "rollback"} /\ UNCHANGED <<open, rows, in_transaction>>

\* The body opens a transaction, or closes the manager.
Misuse ==
    /\ place = "body" /\ in_transaction
    /\ NestedBegin
    /\ UNCHANGED <<closed, lock, unit, executed, result, connection, faults>>

Commit ==
    /\ place = "body" /\ executed = Statements
    /\ IF connection = "up"
       THEN rows' = rows \union open /\ open' = {} /\ Finish("ok")
       ELSE place' = "rollback" /\ UNCHANGED <<rows, open, in_transaction, lock, result>>
    /\ UNCHANGED <<closed, unit, executed, connection, faults>>

\* The database commits and the answer is lost with the connection.
CommitUnanswered ==
    /\ place = "body" /\ executed = Statements
    /\ connection = "up" /\ faults < MaxFaults
    /\ faults' = faults + 1 /\ connection' = "down"
    /\ rows' = rows \union open /\ open' = {}
    /\ place' = "rollback"
    /\ UNCHANGED <<closed, in_transaction, lock, unit, executed, result>>

\* Mutant of Rollback: the error leaves without the finally clause.
RollbackAndKeep ==
    /\ place = "rollback"
    /\ open' = {}
    /\ result' = [result EXCEPT ![unit] = "error"] /\ place' = "none"
    /\ UNCHANGED <<closed, in_transaction, lock, unit, executed, connection, rows, faults>>

\* Mutant of Rollback: the error is dropped with the one of the rollback.
RollbackSilently ==
    /\ place = "rollback"
    /\ open' = {} /\ Finish("ok")
    /\ UNCHANGED <<closed, unit, executed, connection, rows, faults>>

\* The except and finally clauses: an error of the rollback itself is dropped.
Rollback ==
    /\ place = "rollback"
    /\ open' = {}
    /\ Finish("error")
    /\ UNCHANGED <<closed, unit, executed, connection, rows, faults>>

Close ==
    /\ lock = NoThread /\ ~closed
    /\ closed' = TRUE /\ connection' = "closed" /\ open' = {}
    /\ UNCHANGED <<in_transaction, lock, place, unit, executed, result, rows, faults>>

-----------------------------------------------------------------------------
Init ==
    /\ closed = FALSE /\ in_transaction = FALSE /\ lock = NoThread
    /\ connection = "up" /\ open = {} /\ rows = {}
    /\ place = "none" /\ unit = NoUnit /\ executed = 0
    /\ result = [u \in Units |-> "none"]
    /\ faults = 0

Transaction ==
    \/ Begin \/ BeginFails \/ Reconnect \/ Retry
    \/ Execute \/ ExecuteFails \/ Misuse \/ Commit \/ CommitUnanswered \/ Rollback

Next ==
    \/ \E t \in Threads, u \in Units : Enter(t, u)
    \/ Transaction \/ Lose \/ Close

Spec == Init /\ [][Next]_vars

\* A call goes on, an answer comes or times out, and a body issues its statements.
FairSpec ==
    /\ Spec
    /\ WF_vars(Begin) /\ WF_vars(Reconnect) /\ WF_vars(Retry)
    /\ WF_vars(Execute) /\ WF_vars(Commit) /\ WF_vars(Rollback)

-----------------------------------------------------------------------------
\* Every variable has the shape the code gives it.
TypeOK ==
    /\ closed \in BOOLEAN /\ in_transaction \in BOOLEAN
    /\ lock \in Threads \union {NoThread} /\ unit \in Units \union {NoUnit}
    /\ connection \in {"up", "down", "closed"}
    /\ place \in {"none", "begin", "reconnect", "retry", "body", "rollback"}
    /\ executed \in 0..Statements
    /\ open \subseteq UNION {Rows(u) : u \in Units}
    /\ rows \subseteq UNION {Rows(u) : u \in Units}
    /\ result \in [Units -> {"none", "ok", "error"}]
    /\ faults \in 0..MaxFaults

\* No unit is ever stored in part, whatever is lost, refused or misused, and one that is
\* told to have succeeded is stored.
AllOrNothing ==
    \A u \in Units : rows \cap Rows(u) # {} \/ result[u] = "ok" => Whole(u)

\* The flag and the lock go together, and between two units nothing is left open
\* that the next BEGIN would commit: a statement outside a unit belongs to none.
NothingLeftOpen ==
    /\ in_transaction <=> lock # NoThread
    /\ lock = NoThread => open = {}
    /\ \A s \in open : s[1] = unit

\* BEGIN opens a dead connection again, but not one that was closed on purpose.
ClosedForGood == closed => connection = "closed"

\* The flag, the lock, the connection and the open transaction never disagree.
SessionIsSound == TypeOK /\ NothingLeftOpen /\ ClosedForGood

\* A caller may rely on exactly what StoreCalls says; the server's model does.
Contract == INSTANCE StoreCalls WITH stored <- {u \in Units : Whole(u)}
ImplementsStoreCalls == Contract!Spec

\* No unit keeps the lock for ever: each one that has entered ends.
UnitsEnd == lock # NoThread ~> lock = NoThread
================================================================================
