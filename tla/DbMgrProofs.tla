------------------------------ MODULE DbMgrProofs ------------------------------
(***************************************************************************)
(* Theorems about DbMgr, for any threads, any units of any number of        *)
(* statements and any number of faults.                                     *)
(***************************************************************************)
EXTENDS DbMgr, TLAPS

-----------------------------------------------------------------------------
(* The inductive invariant: what the database has open is always the first  *)
(* statements of the unit that holds the lock, and none of them is stored.  *)

\* The holder is inside a unit, which has not been told of its end.
HolderIsInside ==
    /\ lock # NoThread <=> place # "none"
    /\ lock # NoThread => unit \in Units /\ result[unit] = "none"

\* As long as its connection lives, the open transaction holds exactly what the body
\* has executed; a body whose connection has died has nothing open.
OpenIsExecuted ==
    place = "body" =>
      open = IF connection = "up" THEN {unit} \X (1..executed) ELSE {}

\* Before the body nothing has been executed.
NothingYet == place \in {"begin", "reconnect", "retry"} => open = {} /\ executed = 0

\* A manager is closed between two units, and lets nobody in afterwards.
ClosedIsIdle == closed => lock = NoThread

\* Until a unit has been told of its end, or has slipped through the commit, nothing
\* of it is stored.
StoredWhenOver ==
    \A u \in Units : result[u] = "none" /\ (u = unit => place # "rollback") =>
      rows \cap Rows(u) = {}

IInv ==
    /\ SessionIsSound
    /\ HolderIsInside
    /\ OpenIsExecuted
    /\ NothingYet
    /\ ClosedIsIdle
    /\ StoredWhenOver
    /\ AllOrNothing

-----------------------------------------------------------------------------
(* Lemmas about the statements of a unit.                                   *)

\* A unit has at least one statement, and shares none with another.
LEMMA RowsOfUnits ==
  ASSUME NEW u \in Units, NEW v \in Units
  PROVE  /\ <<u, 1>> \in Rows(u)
         /\ u # v => Rows(u) \cap Rows(v) = {}
         /\ Rows(u) \subseteq UNION {Rows(w) : w \in Units}
<1>1. 1 \in 1..Statements
  BY DbMgrAssumption
<1>2. <<u, 1>> \in Rows(u)
  BY <1>1 DEF Rows
<1>3. u # v => Rows(u) \cap Rows(v) = {}
  BY DEF Rows
<1> QED BY <1>2, <1>3

\* What is open in a body belongs to its unit; at its end it is all of the unit.
LEMMA OpenOfBody ==
  ASSUME IInv, place = "body"
  PROVE  /\ unit \in Units /\ result[unit] = "none"
         /\ open \subseteq Rows(unit)
         /\ executed = Statements /\ connection = "up" => open = Rows(unit)
<1>1. unit \in Units /\ result[unit] = "none"
  BY DEF IInv, HolderIsInside
<1>2. executed \in 0..Statements /\ open = IF connection = "up" THEN {unit} \X (1..executed) ELSE {}
  BY DEF IInv, OpenIsExecuted, SessionIsSound, TypeOK
<1>3. 1..executed \subseteq 1..Statements
  BY <1>2, DbMgrAssumption
<1> QED BY <1>1, <1>2, <1>3 DEF Rows

\* A commit stores the whole of a unit of which nothing was stored, and nothing else.
LEMMA StoresWhole ==
  ASSUME IInv, place = "body", executed = Statements, connection = "up", rows' = rows \union open
  PROVE  /\ ~Whole(unit) /\ Rows(unit) \subseteq rows'
         /\ rows' \subseteq UNION {Rows(u) : u \in Units}
         /\ \A u \in Units : u # unit => rows' \cap Rows(u) = rows \cap Rows(u)
<1>1. unit \in Units /\ result[unit] = "none" /\ open = Rows(unit)
  BY OpenOfBody
<1>2. rows \cap Rows(unit) = {}
  BY <1>1 DEF IInv, StoredWhenOver
<1>3. ~Whole(unit)
  BY <1>1, <1>2, RowsOfUnits DEF Whole
<1>4. rows' \subseteq UNION {Rows(u) : u \in Units}
  BY <1>1, RowsOfUnits DEF IInv, SessionIsSound, TypeOK
<1>5. ASSUME NEW u \in Units, u # unit
      PROVE  rows' \cap Rows(u) = rows \cap Rows(u)
  BY <1>1, <1>5, RowsOfUnits
<1> QED BY <1>1, <1>3, <1>4, <1>5

-----------------------------------------------------------------------------
(* The steps.                                                               *)

\* What a step that stores nothing and tells nobody must still keep.
LEMMA Stored ==
  ASSUME IInv, UNCHANGED <<rows, result, unit>>, place = "rollback" => place' = "rollback"
  PROVE  AllOrNothing' /\ StoredWhenOver'
  BY DEF IInv, AllOrNothing, StoredWhenOver, Whole, Rows

\* Up to its commit a transaction stores nothing.
LEMMA QuietSteps ==
  ASSUME IInv, Begin \/ BeginFails \/ Reconnect \/ Retry \/ Execute \/ ExecuteFails
               \/ Misuse \/ Lose \/ Close
  PROVE  IInv' /\ rows' = rows /\ result' = result
<1>1. /\ UNCHANGED <<rows, result, unit>>
      /\ place = "rollback" => place' = "rollback"
  BY DEF Begin, BeginFails, Reconnect, Retry, Execute, ExecuteFails, Misuse, NestedBegin, Lose,
         Close, Begun, IInv, NothingYet
<1>2. AllOrNothing' /\ StoredWhenOver'
  BY <1>1, Stored
<1>3. faults' \in 0..MaxFaults
  BY DbMgrAssumption DEF Begin, BeginFails, Reconnect, Retry, Execute, ExecuteFails, Misuse, Lose,
         Close, IInv, SessionIsSound, TypeOK
<1> USE <1>1, <1>3 DEF IInv, SessionIsSound, TypeOK, NothingLeftOpen, ClosedForGood,
             HolderIsInside, OpenIsExecuted, NothingYet, ClosedIsIdle
<1>4. CASE Begin \/ Retry
  BY <1>2, <1>4 DEF Begin, Retry, Begun
<1>5. CASE BeginFails \/ Reconnect \/ ExecuteFails \/ Misuse
  BY <1>2, <1>5 DEF BeginFails, Reconnect, ExecuteFails, Misuse, NestedBegin
<1>6. CASE Execute
  <2>1. CASE connection = "up"
    <3>1. /\ executed < Statements /\ executed' = executed + 1 /\ executed' \in 1..Statements
          /\ UNCHANGED <<closed, in_transaction, lock, place, connection>>
          /\ open' = open \union {<<unit, executed'>>}
      BY <1>6, <2>1, DbMgrAssumption DEF Execute
    <3>2. 1..executed' = (1..executed) \union {executed'}
      BY <3>1
    <3>3. place = "body" /\ unit \in Units /\ open = {unit} \X (1..executed)
      BY <1>6, <2>1 DEF Execute
    <3>4. open' = {unit} \X (1..executed')
      BY <3>1, <3>2, <3>3
    <3>5. open' \subseteq UNION {Rows(u) : u \in Units}
      BY <3>1, <3>3, OpenOfBody DEF Rows
    <3>6. \A s \in open' : s[1] = unit
      BY <3>4
    <3> HIDE DEF OpenIsExecuted
    <3>7. OpenIsExecuted'
      BY <2>1, <3>1, <3>4 DEF OpenIsExecuted
    <3> QED BY <1>2, <3>1, <3>3, <3>5, <3>6, <3>7
  <2>2. CASE connection # "up"
    BY <1>2, <1>6, <2>2 DEF Execute
  <2> QED BY <2>1, <2>2
<1>7. CASE Lose
  BY <1>2, <1>7 DEF Lose
<1>8. CASE Close
  BY <1>2, <1>8 DEF Close
<1> QED BY <1>1, <1>4, <1>5, <1>6, <1>7, <1>8

\* A unit that may enter has nothing stored; one that is refused has not either.
LEMMA EnterInv ==
  ASSUME IInv, NEW t \in Threads, NEW u \in Units, Enter(t, u)
  PROVE  IInv' /\ rows' = rows
<1>1. rows' = rows /\ open' = open /\ connection' = connection /\ faults' = faults
      /\ closed' = closed
  BY DEF Enter, session_vars
<1>2. lock = NoThread /\ place = "none" /\ result[u] = "none" /\ open = {}
  BY DEF Enter, IInv, HolderIsInside, SessionIsSound, NothingLeftOpen
<1>3. AllOrNothing'
  <2>1. \A v \in Units : result'[v] = "ok" => result[v] = "ok"
    BY DEF Enter, IInv, SessionIsSound, TypeOK
  <2> QED BY <1>1, <2>1 DEF IInv, AllOrNothing, Whole, Rows
<1>4. StoredWhenOver'
  <2>1. \A v \in Units : result'[v] = "none" => result[v] = "none"
    BY DEF Enter, IInv, SessionIsSound, TypeOK
  <2> QED BY <1>1, <1>2, <2>1 DEF IInv, StoredWhenOver, Whole, Rows
<1> USE DEF IInv, SessionIsSound, TypeOK, NothingLeftOpen, ClosedForGood,
             HolderIsInside, OpenIsExecuted, NothingYet, ClosedIsIdle
<1>5. CASE closed
  BY <1>1, <1>2, <1>3, <1>4, <1>5 DEF Enter, Refuses
<1>6. CASE ~closed
  BY <1>1, <1>2, <1>3, <1>4, <1>6, DbMgrAssumption DEF Enter, Refuses
<1> QED BY <1>1, <1>5, <1>6

LEMMA CommitInv ==
  ASSUME IInv, Commit \/ CommitUnanswered
  PROVE  IInv'
<1>1. CASE connection # "up"
  <2>1. Commit /\ UNCHANGED <<rows, result, unit>> /\ place = "body"
    BY <1>1 DEF Commit, CommitUnanswered
  <2>2. AllOrNothing' /\ StoredWhenOver'
    BY <2>1, Stored
  <2> QED BY <1>1, <2>1, <2>2
          DEF Commit, IInv, SessionIsSound, TypeOK, NothingLeftOpen, ClosedForGood,
              HolderIsInside, OpenIsExecuted, NothingYet, ClosedIsIdle
<1>2. CASE connection = "up"
  <2>1. /\ place = "body" /\ executed = Statements /\ rows' = rows \union open /\ open' = {}
        /\ UNCHANGED <<closed, unit, executed>>
    BY <1>2 DEF Commit, CommitUnanswered
  <2>2. /\ ~Whole(unit) /\ Rows(unit) \subseteq rows'
        /\ rows' \subseteq UNION {Rows(u) : u \in Units}
        /\ \A u \in Units : u # unit => rows' \cap Rows(u) = rows \cap Rows(u)
    BY <1>2, <2>1, StoresWhole
  <2>3. unit \in Units /\ result[unit] = "none"
    BY <2>1, OpenOfBody
  <2>4. \A u \in Units : u # unit => result'[u] = result[u]
    BY DEF Commit, CommitUnanswered, Finish, IInv, SessionIsSound, TypeOK
  <2>5. AllOrNothing'
    BY <2>2, <2>4 DEF IInv, AllOrNothing, Whole, Rows
  <2>6. result' \in [Units -> {"none", "ok", "error"}]
    BY <2>3 DEF Commit, CommitUnanswered, Finish, IInv, SessionIsSound, TypeOK
  <2>7. result'[unit] = "none" => place' = "rollback"
    BY <1>2, <2>3 DEF Commit, CommitUnanswered, Finish, IInv, SessionIsSound, TypeOK
  <2>8. StoredWhenOver'
    BY <2>1, <2>2, <2>3, <2>4, <2>7 DEF IInv, StoredWhenOver, Whole, Rows
  <2> USE DEF IInv, SessionIsSound, TypeOK, NothingLeftOpen, ClosedForGood,
              HolderIsInside, OpenIsExecuted, NothingYet, ClosedIsIdle
  <2>9. CASE Commit
    <3>1. lock' = NoThread /\ place' = "none" /\ in_transaction' = FALSE
          /\ connection' = connection /\ faults' = faults
      BY <1>2, <2>9 DEF Commit, Finish
    <3> QED BY <2>1, <2>2, <2>5, <2>6, <2>8, <3>1, DbMgrAssumption
  <2>10. CASE CommitUnanswered
    BY <1>2, <2>1, <2>2, <2>5, <2>6, <2>8, <2>10, DbMgrAssumption DEF CommitUnanswered
  <2> QED BY <2>9, <2>10
<1> QED BY <1>1, <1>2

LEMMA RollbackInv ==
  ASSUME IInv, Rollback
  PROVE  IInv' /\ rows' = rows
<1>1. /\ place = "rollback" /\ open' = {} /\ in_transaction' = FALSE /\ lock' = NoThread
      /\ place' = "none" /\ result' = [result EXCEPT ![unit] = "error"]
      /\ UNCHANGED <<closed, unit, executed, connection, rows, faults>>
  BY DEF Rollback, Finish
<1>2. unit \in Units /\ result[unit] = "none"
  BY <1>1 DEF IInv, HolderIsInside
<1>3. result' \in [Units -> {"none", "ok", "error"}] /\ result'[unit] = "error"
      /\ \A u \in Units : u # unit => result'[u] = result[u]
  BY <1>1, <1>2 DEF IInv, SessionIsSound, TypeOK
<1>4. AllOrNothing' /\ StoredWhenOver'
  BY <1>1, <1>3 DEF IInv, AllOrNothing, StoredWhenOver, Whole, Rows
<1> QED BY <1>1, <1>3, <1>4
        DEF IInv, SessionIsSound, TypeOK, NothingLeftOpen, ClosedForGood,
            HolderIsInside, OpenIsExecuted, NothingYet, ClosedIsIdle

-----------------------------------------------------------------------------
(* The theorems.                                                            *)

LEMMA InitInv == Init => IInv
<1> SUFFICES ASSUME Init PROVE IInv
  OBVIOUS
<1>1. SessionIsSound
  <2>1. open = {} /\ rows = {} /\ executed \in 0..Statements /\ faults \in 0..MaxFaults
    BY DbMgrAssumption DEF Init
  <2>2. open \subseteq UNION {Rows(u) : u \in Units} /\ rows \subseteq UNION {Rows(u) : u \in Units}
    BY <2>1
  <2>3. TypeOK
    BY <2>1, <2>2 DEF Init, TypeOK
  <2>4. NothingLeftOpen /\ ClosedForGood
    BY DEF Init, NothingLeftOpen, ClosedForGood
  <2> QED BY <2>3, <2>4 DEF SessionIsSound
<1>2. HolderIsInside /\ OpenIsExecuted /\ NothingYet /\ ClosedIsIdle
  BY DbMgrAssumption DEF Init, HolderIsInside, OpenIsExecuted, NothingYet, ClosedIsIdle
<1>3. StoredWhenOver /\ AllOrNothing
  BY DEF Init, StoredWhenOver, AllOrNothing, Whole
<1> QED BY <1>1, <1>2, <1>3 DEF IInv

LEMMA NextInv == IInv /\ [Next]_vars => IInv'
<1> SUFFICES ASSUME IInv, [Next]_vars PROVE IInv'
  OBVIOUS
<1>1. ASSUME NEW t \in Threads, NEW u \in Units, Enter(t, u) PROVE IInv'
  BY <1>1, EnterInv
<1>2. CASE Transaction
  BY <1>2, QuietSteps, CommitInv, RollbackInv DEF Transaction
<1>3. CASE Lose \/ Close
  BY <1>3, QuietSteps
<1>4. CASE UNCHANGED vars
  BY <1>4 DEF vars, session_vars, IInv, SessionIsSound, TypeOK, NothingLeftOpen, ClosedForGood,
              HolderIsInside, OpenIsExecuted, NothingYet, ClosedIsIdle, StoredWhenOver,
              AllOrNothing, Whole, Rows
<1> QED BY <1>1, <1>2, <1>3, <1>4 DEF Next

LEMMA Invariance == Spec => []IInv
BY InitInv, NextInv, PTL DEF Spec

\* The flag, the lock and the connection of the manager agree, and nothing is left open
\* between two units for the next BEGIN to commit (DbMgr.transaction and its finally).
THEOREM SessionStaysSound == Spec => []SessionIsSound
<1>1. IInv => SessionIsSound
  BY DEF IInv
<1> QED BY <1>1, Invariance, PTL

\* Whatever is lost, refused or misused, no unit is stored in part, and one that is told
\* to have succeeded is stored (DbMgr.transaction).
THEOREM UnitsAreAtomic == Spec => []AllOrNothing
<1>1. IInv => AllOrNothing
  BY DEF IInv
<1> QED BY <1>1, Invariance, PTL

\* Each step of the manager is one of the contract, or none: what the server's model
\* takes a store call to be is what DbMgr makes of it.
THEOREM KeepsTheContract == Spec => ImplementsStoreCalls
<1> DEFINE stored == {u \in Units : Whole(u)}
<1>1. Init => Contract!Init
  <2> SUFFICES ASSUME Init PROVE stored = {} /\ result = [u \in Units |-> "none"]
    BY DEF Contract!Init
  <2>1. \A u \in Units : ~Whole(u)
    BY RowsOfUnits DEF Init, Whole
  <2> QED BY <2>1 DEF Init
<1>2. ASSUME IInv, [Next]_vars
      PROVE  [Contract!Next]_(Contract!vars)
  <2>1. ASSUME rows' = rows
        PROVE  stored' = stored
    BY <2>1 DEF Whole, Rows
  <2>2. ASSUME NEW t \in Threads, NEW u \in Units, Enter(t, u)
        PROVE  [Contract!Next]_(Contract!vars)
    <3>1. stored' = stored
      BY <1>2, <2>1, <2>2, EnterInv
    <3>2. CASE closed
      <4>1. Contract!Raise(u)
        BY <2>2, <3>1, <3>2 DEF Enter, Refuses, Contract!Raise, Contract!Told
      <4> QED BY <4>1 DEF Contract!Next
    <3>3. CASE ~closed
      BY <2>2, <3>1, <3>3 DEF Enter, Refuses, Contract!vars
    <3> QED BY <3>2, <3>3
  <2>3. CASE Begin \/ BeginFails \/ Reconnect \/ Retry \/ Execute \/ ExecuteFails
             \/ Misuse \/ Lose \/ Close
    BY <1>2, <2>1, <2>3, QuietSteps DEF Contract!vars
  <2>4. CASE Commit \/ CommitUnanswered
    <3>1. CASE connection # "up"
      BY <2>1, <2>4, <3>1 DEF Commit, CommitUnanswered, Contract!vars
    <3>2. CASE connection = "up"
      <4>1. place = "body" /\ executed = Statements /\ rows' = rows \union open
        BY <2>4, <3>2 DEF Commit, CommitUnanswered
      <4>2. unit \in Units /\ result[unit] = "none"
        BY <1>2, <4>1, OpenOfBody
      <4>3. /\ ~Whole(unit) /\ Rows(unit) \subseteq rows'
            /\ \A u \in Units : u # unit => rows' \cap Rows(u) = rows \cap Rows(u)
        BY <1>2, <3>2, <4>1, StoresWhole
      <4>4. \A u \in Units : (Rows(u) \subseteq rows') <=> (Whole(u) \/ u = unit)
        BY <4>3 DEF Whole
      <4>5. stored' = stored \union {unit} /\ unit \notin stored
        BY <4>2, <4>3, <4>4 DEF Whole, Rows
      <4>6. Contract!Succeed(unit) \/ Contract!Slip(unit)
        BY <2>4, <3>2, <4>2, <4>5
           DEF Commit, CommitUnanswered, Finish, Contract!Succeed, Contract!Slip, Contract!Told
      <4> QED BY <4>2, <4>6 DEF Contract!Next
    <3> QED BY <3>1, <3>2
  <2>5. CASE Rollback
    <3>1. stored' = stored
      BY <1>2, <2>1, <2>5, RollbackInv
    <3>2. unit \in Units /\ result[unit] = "none"
      BY <1>2, <2>5 DEF Rollback, IInv, HolderIsInside
    <3>3. Contract!Raise(unit)
      BY <2>5, <3>1, <3>2 DEF Rollback, Finish, Contract!Raise, Contract!Told
    <3> QED BY <3>2, <3>3 DEF Contract!Next
  <2>6. CASE UNCHANGED vars
    BY <2>1, <2>6 DEF vars, session_vars, Contract!vars
  <2> QED BY <1>2, <2>2, <2>3, <2>4, <2>5, <2>6 DEF Next, Transaction
<1> QED BY <1>1, <1>2, Invariance, PTL DEF Spec, ImplementsStoreCalls, Contract!Spec
================================================================================
