-------------------------- MODULE AsyncLabClientProofs --------------------------
(***************************************************************************)
(* Theorems about AsyncLabClient, for any set of tasks and any number of    *)
(* stops of the server.                                                     *)
(***************************************************************************)
EXTENDS AsyncLabClient, SequenceTheorems, TLAPS

-----------------------------------------------------------------------------
(* The inductive invariant: a request exists in one place of the way that   *)
(* it goes, from the socket to the answer, and its call knows how far.      *)

\* One call is on the way at a time: the lock, the socket and the await are its own.
OneAtATime ==
    /\ \A t \in Tasks : task[t] = "receiving" <=> lock = t
    /\ sockets = {t \in Tasks : task[t] = "receiving"}
    /\ unsent \subseteq sockets

\* A request has left its socket before it is received, and is received once.
OnTheWay ==
    /\ inbox \intersect unsent = {}
    /\ \A t \in Tasks : t \in inbox \/ Contains(handled, t) =>
         task[t] \in {"receiving", "done"} /\ t \notin unsent
    /\ \A t \in inbox : ~ Contains(handled, t)

\* An answer comes from the server, and a call is told something when it is over.
AnswersAreEarned ==
    /\ \A t \in Tasks : reply[t] = t => Contains(handled, t)
    /\ \A t \in Tasks : told[t] = "nothing" <=> task[t] # "done"

IInv ==
    /\ waiters \in Seq(Tasks) /\ handled \in Seq(Tasks)
    /\ TypeOK
    /\ OneAtATime
    /\ OnTheWay
    /\ AnswersAreEarned
    /\ EveryAnswerFits
    /\ HandledInTurn

-----------------------------------------------------------------------------
(* Lemmas about the queue of the lock.                                      *)

\* Who waits in the queue is who is waiting.
LEMMA QueueIsWaiting ==
  ASSUME IInv
  PROVE  /\ DOMAIN waiters = 1..Len(waiters) /\ Len(waiters) \in Nat
         /\ \A i \in 1..Len(waiters) : waiters[i] \in Tasks /\ task[waiters[i]] = "waiting"
         /\ \A t \in Tasks : task[t] = "waiting" => \E i \in 1..Len(waiters) : waiters[i] = t
         /\ \A i, j \in 1..Len(waiters) : waiters[i] = waiters[j] => i = j
<1>1. waiters \in Seq(Tasks) /\ ToSet(waiters) = {t \in Tasks : task[t] = "waiting"}
  BY DEF IInv, TypeOK
<1>2. DOMAIN waiters = 1..Len(waiters) /\ Len(waiters) \in Nat
  BY <1>1
<1>3. ToSet(waiters) = {waiters[i] : i \in 1..Len(waiters)}
  BY <1>2 DEF ToSet
<1>4. \A i \in 1..Len(waiters) : waiters[i] \in Tasks /\ task[waiters[i]] = "waiting"
  BY <1>1, <1>3
<1>5. \A t \in Tasks : task[t] = "waiting" => \E i \in 1..Len(waiters) : waiters[i] = t
  BY <1>1, <1>3
<1>6. \A i, j \in 1..Len(waiters) : waiters[i] = waiters[j] => i = j
  BY <1>2 DEF IInv, TypeOK, IsInjective
<1> QED BY <1>2, <1>4, <1>5, <1>6

\* A queue that is described so is what the type invariant asks for.
LEMMA WaitingIsQueue ==
  ASSUME NEW w \in Seq(Tasks), NEW f \in [Tasks -> {"idle", "waiting", "receiving", "done"}],
         \A i \in 1..Len(w) : f[w[i]] = "waiting",
         \A t \in Tasks : f[t] = "waiting" => \E i \in 1..Len(w) : w[i] = t,
         \A i, j \in 1..Len(w) : w[i] = w[j] => i = j
  PROVE  IsInjective(w) /\ ToSet(w) = {t \in Tasks : f[t] = "waiting"}
<1>1. DOMAIN w = 1..Len(w) /\ \A i \in 1..Len(w) : w[i] \in Tasks
  BY ElementOfSeq
<1>2. ToSet(w) = {w[i] : i \in 1..Len(w)}
  BY <1>1 DEF ToSet
<1> QED BY <1>1, <1>2 DEF IsInjective

\* A sequence from which the element at one position is removed.
LEMMA Removed ==
  ASSUME NEW S, NEW w \in Seq(S), NEW i \in 1..Len(w)
  PROVE  /\ RemoveAt(w, i) \in Seq(S) /\ Len(RemoveAt(w, i)) = Len(w) - 1
         /\ \A j \in 1..(Len(w) - 1) : RemoveAt(w, i)[j] = IF j < i THEN w[j] ELSE w[j + 1]
<1> DEFINE a == SubSeq(w, 1, i - 1)
           b == SubSeq(w, i + 1, Len(w))
<1>1. Len(w) \in Nat /\ i \in Nat
  OBVIOUS
<1>2. a \in Seq(S) /\ Len(a) = i - 1 /\ \A j \in 1..(i - 1) : a[j] = w[j]
  <2>1. \A j \in 1..(i - 1) : j \in 1..Len(w) /\ w[j] \in S
    BY <1>1, ElementOfSeq
  <2>2. /\ a \in Seq(S)
        /\ Len(a) = IF 1 <= i - 1 THEN i - 1 - 1 + 1 ELSE 0
        /\ \A j \in 1..(i - 1 - 1 + 1) : a[j] = w[1 + j - 1]
    BY <1>1, <2>1, SubSeqProperties
  <2>3. Len(a) = i - 1
    BY <1>1, <2>2
  <2>4. ASSUME NEW j \in 1..(i - 1) PROVE a[j] = w[j]
    <3>1. j \in 1..(i - 1 - 1 + 1) /\ 1 + j - 1 = j
      BY <1>1
    <3>2. a[j] = w[1 + j - 1]
      BY <2>2, <3>1
    <3> QED BY <3>1, <3>2
  <2> QED BY <2>2, <2>3, <2>4
<1>3. b \in Seq(S) /\ Len(b) = Len(w) - i /\ \A j \in 1..(Len(w) - i) : b[j] = w[i + j]
  <2>1. \A j \in (i + 1)..Len(w) : j \in 1..Len(w) /\ w[j] \in S
    BY <1>1, ElementOfSeq
  <2>2. /\ b \in Seq(S)
        /\ Len(b) = IF i + 1 <= Len(w) THEN Len(w) - (i + 1) + 1 ELSE 0
        /\ \A j \in 1..(Len(w) - (i + 1) + 1) : b[j] = w[(i + 1) + j - 1]
    BY <1>1, <2>1, SubSeqProperties
  <2>3. Len(b) = Len(w) - i
    BY <1>1, <2>2
  <2>4. ASSUME NEW j \in 1..(Len(w) - i) PROVE b[j] = w[i + j]
    <3>1. j \in 1..(Len(w) - (i + 1) + 1) /\ (i + 1) + j - 1 = i + j
      BY <1>1
    <3>2. b[j] = w[(i + 1) + j - 1]
      BY <2>2, <3>1
    <3> QED BY <3>1, <3>2
  <2> QED BY <2>2, <2>3, <2>4
<1> HIDE DEF a, b
<1>4. /\ a \o b \in Seq(S) /\ Len(a \o b) = Len(a) + Len(b)
      /\ \A j \in 1..(Len(a) + Len(b)) :
           (a \o b)[j] = IF j <= Len(a) THEN a[j] ELSE b[j - Len(a)]
  BY <1>2, <1>3, ConcatProperties
<1>5. ASSUME NEW j \in 1..(Len(w) - 1)
      PROVE  (a \o b)[j] = IF j < i THEN w[j] ELSE w[j + 1]
  <2>1. CASE j < i
    BY <1>1, <1>2, <1>3, <1>4, <2>1
  <2>2. CASE ~ (j < i)
    <3>1. (a \o b)[j] = b[j - (i - 1)] /\ j - (i - 1) \in 1..(Len(w) - i)
      BY <1>1, <1>2, <1>3, <1>4, <2>2
    <3>2. i + (j - (i - 1)) = j + 1
      BY <1>1
    <3> QED BY <1>3, <2>2, <3>1, <3>2
  <2> QED BY <2>1, <2>2
<1>6. RemoveAt(w, i) = a \o b
  BY DEF RemoveAt, a, b
<1>7. Len(a \o b) = Len(w) - 1
  BY <1>1, <1>2, <1>3, <1>4
<1> QED BY <1>4, <1>5, <1>6, <1>7

-----------------------------------------------------------------------------
(* Every step keeps the invariant.                                          *)

\* What a step that ends no call and handles nothing leaves alone.
LEMMA AnswersKept ==
  ASSUME IInv, UNCHANGED <<told, reply, handled>>,
         \A t \in Tasks : task'[t] = "done" <=> task[t] = "done"
  PROVE  AnswersAreEarned' /\ EveryAnswerFits' /\ HandledInTurn'
  BY DEF IInv, AnswersAreEarned, EveryAnswerFits, HandledInTurn

LEMMA CallInv ==
  ASSUME IInv, NEW t \in Tasks, Call(t)
  PROVE  IInv'
<1>1. /\ task[t] = "idle" /\ task' = [task EXCEPT ![t] = "waiting"]
      /\ waiters' = Append(waiters, t)
      /\ called' = Append(called, t)
      /\ UNCHANGED <<lock, sockets, told, unsent, inbox, reply, handled, closing>>
  BY DEF Call, server_vars
<1>2. /\ task' \in [Tasks -> {"idle", "waiting", "receiving", "done"}]
      /\ task'[t] = "waiting" /\ \A u \in Tasks : u # t => task'[u] = task[u]
  BY <1>1 DEF IInv, TypeOK
<1>3. /\ waiters' \in Seq(Tasks) /\ Len(waiters') = Len(waiters) + 1
      /\ waiters'[Len(waiters) + 1] = t
      /\ \A i \in 1..Len(waiters) : waiters'[i] = waiters[i]
  BY <1>1 DEF IInv
<1>4. \A i \in 1..Len(waiters) : waiters[i] # t
  BY <1>1, QueueIsWaiting
<1>5. \A i \in 1..Len(waiters') : i \in 1..Len(waiters) \/ i = Len(waiters) + 1
  BY <1>3, QueueIsWaiting
<1>6. IsInjective(waiters') /\ ToSet(waiters') = {u \in Tasks : task'[u] = "waiting"}
  <2>1. \A i \in 1..Len(waiters') : task'[waiters'[i]] = "waiting"
    BY <1>2, <1>3, <1>4, <1>5, QueueIsWaiting
  <2>2. \A u \in Tasks : task'[u] = "waiting" => \E i \in 1..Len(waiters') : waiters'[i] = u
    <3>1. ASSUME NEW u \in Tasks, task'[u] = "waiting"
          PROVE  \E i \in 1..Len(waiters') : waiters'[i] = u
      <4>1. CASE u = t
        BY <1>3, <4>1, QueueIsWaiting
      <4>2. CASE u # t
        <5>1. PICK i \in 1..Len(waiters) : waiters[i] = u
          BY <1>2, <3>1, <4>2, QueueIsWaiting
        <5>2. i \in 1..Len(waiters')
          BY <1>3, QueueIsWaiting
        <5> QED BY <1>3, <5>1, <5>2
      <4> QED BY <4>1, <4>2
    <3> QED BY <3>1
  <2>3. \A i, j \in 1..Len(waiters') : waiters'[i] = waiters'[j] => i = j
    BY <1>3, <1>4, <1>5, QueueIsWaiting
  <2> QED BY <1>2, <1>3, <2>1, <2>2, <2>3, WaitingIsQueue
<1>7. TypeOK'
  BY <1>1, <1>2, <1>6 DEF IInv, TypeOK
<1>8. OneAtATime'
  BY <1>1, <1>2 DEF IInv, OneAtATime
<1>9. OnTheWay'
  BY <1>1, <1>2 DEF IInv, OnTheWay
<1>10. AnswersAreEarned' /\ EveryAnswerFits' /\ HandledInTurn'
  BY <1>1, <1>2, AnswersKept
<1> QED BY <1>1, <1>3, <1>7, <1>8, <1>9, <1>10 DEF IInv

LEMMA SendInv ==
  ASSUME IInv, Send
  PROVE  IInv'
<1>1. /\ waiters # <<>> /\ lock = NoTask /\ waiters' = Tail(waiters)
      /\ UNCHANGED <<told, called, inbox, reply, handled, closing>>
  BY DEF Send, Free, server_vars
<1>2. waiters \in Seq(Tasks) /\ Len(waiters) \in Nat /\ Len(waiters) # 0
  BY <1>1, EmptySeq DEF IInv
<1>3. PICK t \in Tasks :
        /\ t = Head(waiters) /\ t = waiters[1] /\ task[t] = "waiting"
        /\ lock' = t /\ task' = [task EXCEPT ![t] = "receiving"]
        /\ sockets' = sockets \union {t} /\ unsent' = unsent \union {t}
  <2>1. Head(waiters) = waiters[1] /\ 1 \in 1..Len(waiters)
    BY <1>1, <1>2
  <2>2. Head(waiters) \in Tasks /\ task[Head(waiters)] = "waiting"
    BY <2>1, QueueIsWaiting
  <2> QED BY <2>1, <2>2 DEF Send
<1>4. /\ task' \in [Tasks -> {"idle", "waiting", "receiving", "done"}]
      /\ task'[t] = "receiving" /\ \A u \in Tasks : u # t => task'[u] = task[u]
  BY <1>3 DEF IInv, TypeOK
<1>5. /\ waiters' \in Seq(Tasks) /\ Len(waiters') = Len(waiters) - 1
      /\ \A i \in 1..Len(waiters') : waiters'[i] = waiters[i + 1] /\ i + 1 \in 1..Len(waiters)
  BY <1>1, <1>2, HeadTailProperties
<1>6. IsInjective(waiters') /\ ToSet(waiters') = {u \in Tasks : task'[u] = "waiting"}
  <2>1. \A i \in 1..Len(waiters') : i + 1 # 1 /\ waiters'[i] # t /\ waiters'[i] \in Tasks
    BY <1>2, <1>3, <1>5, QueueIsWaiting
  <2>2. \A i \in 1..Len(waiters') : task'[waiters'[i]] = "waiting"
    BY <1>4, <1>5, <2>1, QueueIsWaiting
  <2>3. ASSUME NEW u \in Tasks, task'[u] = "waiting"
        PROVE  \E i \in 1..Len(waiters') : waiters'[i] = u
    <3>1. PICK i \in 1..Len(waiters) : waiters[i] = u /\ u # t
      BY <1>4, <2>3, QueueIsWaiting
    <3>2. i # 1 /\ i - 1 \in 1..Len(waiters')
      BY <1>2, <1>3, <1>5, <3>1
    <3>3. waiters'[i - 1] = waiters[i]
      BY <1>2, <1>5, <3>2
    <3> QED BY <3>1, <3>2, <3>3
  <2>4. \A i, j \in 1..Len(waiters') : waiters'[i] = waiters'[j] => i = j
    <3>1. ASSUME NEW i \in 1..Len(waiters'), NEW j \in 1..Len(waiters'), waiters'[i] = waiters'[j]
          PROVE  i = j
      <4>1. i + 1 = j + 1
        BY <1>5, <3>1, QueueIsWaiting
      <4> QED BY <1>2, <1>5, <4>1
    <3> QED BY <3>1
  <2> QED BY <1>4, <1>5, <2>2, <2>3, <2>4, WaitingIsQueue
<1>7. TypeOK'
  BY <1>1, <1>3, <1>4, <1>6 DEF IInv, TypeOK
<1>8. OneAtATime'
  <2>1. \A u \in Tasks : task[u] # "receiving"
    BY <1>1, AsyncLabClientAssumption DEF IInv, OneAtATime
  <2> QED BY <1>3, <1>4, <2>1 DEF IInv, OneAtATime
<1>9. OnTheWay'
  BY <1>1, <1>3, <1>4 DEF IInv, OnTheWay, TypeOK
<1>10. AnswersAreEarned' /\ EveryAnswerFits' /\ HandledInTurn'
  BY <1>1, <1>3, <1>4, AnswersKept
<1> QED BY <1>1, <1>5, <1>7, <1>8, <1>9, <1>10 DEF IInv

\* What the steps that end a call on the way share.
LEMMA LeaveInv ==
  ASSUME IInv, NEW t \in Tasks, task[t] = "receiving",
         NEW a \in {"answer", "timeout", "cancelled"}, a = "answer" => Contains(handled, t),
         Leave(t, a), UNCHANGED <<waiters, called, inbox, reply, handled, closing>>
  PROVE  IInv'
<1>1. /\ task' \in [Tasks -> {"idle", "waiting", "receiving", "done"}]
      /\ task'[t] = "done" /\ \A u \in Tasks : u # t => task'[u] = task[u]
      /\ told' \in [Tasks -> {"nothing", "answer", "mismatch", "timeout", "cancelled"}]
      /\ told'[t] = a /\ \A u \in Tasks : u # t => told'[u] = told[u]
  BY DEF Leave, IInv, TypeOK
<1>2. lock' = NoTask /\ sockets' = sockets \ {t} /\ unsent' = unsent \ {t}
  BY DEF Leave
<1>3. TypeOK'
  <2>1. {u \in Tasks : task'[u] = "waiting"} = {u \in Tasks : task[u] = "waiting"}
    BY <1>1
  <2>2. IsInjective(waiters') /\ ToSet(waiters') = ToSet(waiters)
    BY DEF IInv, TypeOK
  <2> QED BY <1>1, <1>2, <2>1, <2>2 DEF IInv, TypeOK
<1>4. OneAtATime'
  <2>1. lock = t /\ \A u \in Tasks : u # t => task[u] # "receiving"
    BY DEF IInv, OneAtATime
  <2> QED BY <1>1, <1>2, <2>1, AsyncLabClientAssumption DEF IInv, OneAtATime
<1>5. OnTheWay'
  BY <1>1, <1>2 DEF IInv, OnTheWay
<1>6. AnswersAreEarned' /\ EveryAnswerFits'
  BY <1>1 DEF IInv, AnswersAreEarned, EveryAnswerFits
<1>7. HandledInTurn'
  <2>1. \A i \in DOMAIN handled : handled[i] \in Tasks
    BY DEF IInv
  <2>2. told[t] = "nothing"
    BY DEF IInv, AnswersAreEarned
  <2> QED BY <1>1, <2>1, <2>2 DEF IInv, HandledInTurn
<1> QED BY <1>3, <1>4, <1>5, <1>6, <1>7 DEF IInv

LEMMA CancelInv ==
  ASSUME IInv, NEW t \in Tasks, Cancel(t)
  PROVE  IInv'
<1>1. CASE task[t] = "receiving"
  BY <1>1, LeaveInv DEF Cancel, server_vars
<1>2. CASE task[t] # "receiving"
  <2>1. /\ task[t] = "waiting" /\ task' = [task EXCEPT ![t] = "done"]
        /\ told' = [told EXCEPT ![t] = "cancelled"] /\ waiters' = Without(t)
        /\ UNCHANGED <<lock, sockets, called, unsent, inbox, reply, handled, closing>>
    BY <1>2 DEF Cancel, server_vars
  <2>2. /\ task' \in [Tasks -> {"idle", "waiting", "receiving", "done"}]
        /\ task'[t] = "done" /\ \A u \in Tasks : u # t => task'[u] = task[u]
        /\ told' \in [Tasks -> {"nothing", "answer", "mismatch", "timeout", "cancelled"}]
        /\ told'[t] = "cancelled" /\ \A u \in Tasks : u # t => told'[u] = told[u]
    BY <2>1 DEF IInv, TypeOK
  <2>3. PICK i \in 1..Len(waiters) : waiters[i] = t /\ waiters' = RemoveAt(waiters, i)
    <3>1. \E i \in DOMAIN waiters : waiters[i] = t
      BY <2>1, QueueIsWaiting
    <3>2. DOMAIN waiters = 1..Len(waiters)
      BY QueueIsWaiting
    <3> QED BY <2>1, <3>1, <3>2 DEF Without
  <2>4. /\ waiters' \in Seq(Tasks) /\ Len(waiters') = Len(waiters) - 1
        /\ \A j \in 1..(Len(waiters) - 1) :
             waiters'[j] = IF j < i THEN waiters[j] ELSE waiters[j + 1]
    BY <2>3, Removed DEF IInv
  <2>5. Len(waiters) \in Nat /\ i \in Nat
    BY QueueIsWaiting
  <2>6. IsInjective(waiters') /\ ToSet(waiters') = {u \in Tasks : task'[u] = "waiting"}
    <3>1. ASSUME NEW j \in 1..Len(waiters')
          PROVE  \E k \in 1..Len(waiters) :
                   k # i /\ k = (IF j < i THEN j ELSE j + 1) /\ waiters'[j] = waiters[k]
      <4>1. CASE j < i
        BY <2>4, <2>5, <4>1
      <4>2. CASE ~ (j < i)
        <5>1. j + 1 \in 1..Len(waiters) /\ j + 1 # i
          BY <2>4, <2>5, <4>2
        <5> QED BY <2>4, <4>2, <5>1
      <4> QED BY <4>1, <4>2
    <3>2. ASSUME NEW j \in 1..Len(waiters')
          PROVE  task'[waiters'[j]] = "waiting"
      BY <2>2, <2>3, <3>1, QueueIsWaiting
    <3>3. ASSUME NEW u \in Tasks, task'[u] = "waiting"
          PROVE  \E j \in 1..Len(waiters') : waiters'[j] = u
      <4>1. PICK k \in 1..Len(waiters) : waiters[k] = u /\ k # i
        BY <2>2, <2>3, <3>3, QueueIsWaiting
      <4>2. CASE k < i
        BY <2>4, <2>5, <4>1, <4>2
      <4>3. CASE i < k
        <5>1. k - 1 \in 1..(Len(waiters) - 1) /\ ~ (k - 1 < i) /\ k - 1 + 1 = k
          BY <2>5, <4>3
        <5>2. waiters'[k - 1] = waiters[k]
          BY <2>4, <5>1
        <5> QED BY <2>4, <4>1, <5>1, <5>2
      <4> QED BY <2>5, <4>1, <4>2, <4>3
    <3>4. ASSUME NEW j \in 1..Len(waiters'), NEW k \in 1..Len(waiters'), waiters'[j] = waiters'[k]
          PROVE  j = k
      <4>1. (IF j < i THEN j ELSE j + 1) = (IF k < i THEN k ELSE k + 1)
        BY <3>1, <3>4, QueueIsWaiting
      <4> QED BY <2>4, <2>5, <4>1
    <3> QED BY <2>2, <2>4, <3>2, <3>3, <3>4, WaitingIsQueue
  <2>7. TypeOK'
    BY <2>1, <2>2, <2>6 DEF IInv, TypeOK
  <2>8. OneAtATime' /\ OnTheWay'
    BY <2>1, <2>2 DEF IInv, OneAtATime, OnTheWay
  <2>9. AnswersAreEarned' /\ EveryAnswerFits'
    BY <2>1, <2>2 DEF IInv, AnswersAreEarned, EveryAnswerFits
  <2>10. HandledInTurn'
    <3>1. \A j \in DOMAIN handled : handled[j] \in Tasks /\ handled[j] # t
      <4>1. handled \in Seq(Tasks)
        BY DEF IInv
      <4>2. \A j \in 1..Len(handled) : Contains(handled, handled[j])
        BY DEF Contains
      <4>3. \A j \in DOMAIN handled : task[handled[j]] \in {"receiving", "done"}
        BY <4>1, <4>2 DEF IInv, OnTheWay
      <4> QED BY <2>1, <4>1, <4>3
    <3> QED BY <2>1, <2>2, <3>1 DEF IInv, HandledInTurn
  <2> QED BY <2>1, <2>4, <2>7, <2>8, <2>9, <2>10 DEF IInv
<1> QED BY <1>1, <1>2

LEMMA DeliverInv ==
  ASSUME IInv, NEW t \in Tasks, Deliver(t)
  PROVE  IInv'
<1>1. /\ t \in unsent /\ unsent' = unsent \ {t} /\ inbox' = inbox \union {t}
      /\ UNCHANGED <<task, waiters, lock, sockets, told, called, reply, handled, closing>>
  BY DEF Deliver, call_vars, server_vars
<1>2. task[t] = "receiving" /\ ~ Contains(handled, t)
  BY <1>1 DEF IInv, OneAtATime, OnTheWay
<1>3. TypeOK'
  BY <1>1 DEF IInv, TypeOK
<1>4. OneAtATime'
  BY <1>1 DEF IInv, OneAtATime
<1>5. OnTheWay'
  BY <1>1, <1>2 DEF IInv, OnTheWay
<1>6. AnswersAreEarned' /\ EveryAnswerFits' /\ HandledInTurn'
  BY <1>1, AnswersKept
<1> QED BY <1>1, <1>3, <1>4, <1>5, <1>6 DEF IInv

LEMMA HandleInv ==
  ASSUME IInv, NEW t \in Tasks, Handle(t)
  PROVE  IInv'
<1>1. /\ t \in inbox /\ inbox' = inbox \ {t} /\ handled' = Append(handled, t)
      /\ UNCHANGED <<task, waiters, lock, sockets, told, called, unsent, closing>>
  BY DEF Handle, call_vars
<1>2. /\ reply' \in [Tasks -> Tasks \union {NoTask}]
      /\ reply'[t] \in {t, NoTask} /\ \A u \in Tasks : u # t => reply'[u] = reply[u]
  BY DEF Handle, Addressee, IInv, TypeOK, EveryAnswerFits
<1>3. task[t] \in {"receiving", "done"} /\ t \notin unsent /\ ~ Contains(handled, t)
  BY <1>1 DEF IInv, OnTheWay
<1>4. /\ handled' \in Seq(Tasks) /\ Len(handled) \in Nat /\ Len(handled') = Len(handled) + 1
      /\ handled'[Len(handled) + 1] = t
      /\ \A i \in 1..Len(handled) : handled'[i] = handled[i]
      /\ DOMAIN handled' = 1..(Len(handled) + 1) /\ DOMAIN handled = 1..Len(handled)
  BY <1>1 DEF IInv
<1>5. \A i \in 1..Len(handled') : i \in 1..Len(handled) \/ i = Len(handled) + 1
  BY <1>4
<1>6. \A u \in Tasks : Contains(handled, u)' <=> Contains(handled, u) \/ u = t
  <2>1. Contains(handled, t)'
    BY <1>4 DEF Contains
  <2>2. ASSUME NEW u \in Tasks, Contains(handled, u)
        PROVE  Contains(handled, u)'
    <3>1. PICK i \in 1..Len(handled) : handled[i] = u
      BY <2>2 DEF Contains
    <3>2. i \in 1..Len(handled') /\ handled'[i] = u
      BY <1>4, <3>1
    <3> QED BY <3>2 DEF Contains
  <2>3. ASSUME NEW u \in Tasks, Contains(handled, u)', u # t
        PROVE  Contains(handled, u)
    <3>1. PICK i \in 1..Len(handled') : handled'[i] = u
      BY <2>3 DEF Contains
    <3> QED BY <1>4, <1>5, <2>3, <3>1 DEF Contains
  <2> QED BY <2>1, <2>2, <2>3
<1>7. TypeOK'
  BY <1>1, <1>2 DEF IInv, TypeOK
<1>8. OneAtATime'
  BY <1>1 DEF IInv, OneAtATime
<1>9. OnTheWay'
  <2>1. inbox' \subseteq Tasks
    BY <1>7 DEF TypeOK
  <2> QED BY <1>1, <1>3, <1>6, <2>1 DEF IInv, OnTheWay
<1>10. AnswersAreEarned' /\ EveryAnswerFits'
  BY <1>1, <1>2, <1>6 DEF IInv, AnswersAreEarned, EveryAnswerFits
<1>11. HandledInTurn'
  <2>1. ASSUME NEW i \in 1..Len(handled), told[handled[i]] = "nothing"
        PROVE  told[t] \in {"timeout", "cancelled"}
    <3>1. handled[i] \in Tasks /\ Contains(handled, handled[i])
      BY <1>4, ElementOfSeq DEF Contains, IInv
    <3>2. task[handled[i]] = "receiving" /\ handled[i] # t
      BY <1>3, <2>1, <3>1 DEF IInv, OnTheWay, AnswersAreEarned
    <3>3. task[t] = "done"
      BY <1>3, <3>1, <3>2 DEF IInv, OneAtATime
    <3> QED BY <1>3, <3>3 DEF IInv, TypeOK, AnswersAreEarned, EveryAnswerFits
  <2>2. ASSUME NEW i \in 1..Len(handled'), NEW j \in 1..Len(handled'), i < j,
               told[handled'[i]] = "nothing"
        PROVE  told[handled'[j]] \in {"timeout", "cancelled"}
    <3>1. i \in 1..Len(handled)
      BY <1>4, <2>2
    <3>2. CASE j \in 1..Len(handled)
      BY <1>4, <2>2, <3>1, <3>2 DEF IInv, HandledInTurn
    <3>3. CASE j = Len(handled) + 1
      BY <1>4, <2>1, <2>2, <3>1, <3>3
    <3> QED BY <1>5, <3>2, <3>3
  <2> QED BY <1>1, <1>4, <2>2 DEF HandledInTurn
<1> QED BY <1>1, <1>4, <1>7, <1>8, <1>9, <1>10, <1>11 DEF IInv

\* The server's stops and starts, and the two ends of on_unmount.
LEMMA AroundInv ==
  ASSUME IInv, Stop \/ Start \/ Unmount \/ Terminate
  PROVE  IInv'
<1>1. /\ UNCHANGED <<task, waiters, lock, sockets, told, called, unsent, reply, handled>>
      /\ inbox' \subseteq inbox /\ closing' \in {"no", "cancelling", "closed"}
  BY DEF Stop, Start, Unmount, Terminate, call_vars, server_vars, IInv, TypeOK
<1>2. TypeOK'
  BY <1>1 DEF IInv, TypeOK
<1>3. OneAtATime' /\ OnTheWay'
  BY <1>1 DEF IInv, OneAtATime, OnTheWay
<1>4. AnswersAreEarned' /\ EveryAnswerFits' /\ HandledInTurn'
  BY <1>1, AnswersKept
<1> QED BY <1>1, <1>2, <1>3, <1>4 DEF IInv

LEMMA InitInv == Init => IInv
<1> SUFFICES ASSUME Init PROVE IInv
  OBVIOUS
<1>1. /\ waiters \in Seq(Tasks) /\ Len(waiters) = 0 /\ handled \in Seq(Tasks)
      /\ Len(handled) = 0 /\ DOMAIN handled = 1..0
  BY EmptySeq DEF Init
<1>2. task \in [Tasks -> {"idle", "waiting", "receiving", "done"}]
      /\ \A t \in Tasks : task[t] = "idle"
  BY DEF Init
<1>3. IsInjective(waiters) /\ ToSet(waiters) = {t \in Tasks : task[t] = "waiting"}
  <2>1. (\A i \in 1..Len(waiters) : FALSE) /\ \A t \in Tasks : task[t] # "waiting"
    BY <1>1, <1>2
  <2>2. /\ \A i \in 1..Len(waiters) : task[waiters[i]] = "waiting"
        /\ \A t \in Tasks : task[t] = "waiting" => \E i \in 1..Len(waiters) : waiters[i] = t
        /\ \A i, j \in 1..Len(waiters) : waiters[i] = waiters[j] => i = j
    BY <2>1
  <2> QED BY <1>1, <1>2, <2>2, WaitingIsQueue
<1>4. TypeOK
  BY <1>2, <1>3 DEF Init, TypeOK
<1>5. \A t \in Tasks : ~ Contains(handled, t)
  BY <1>1 DEF Contains
<1>6. OneAtATime /\ OnTheWay
  BY <1>2, <1>5, AsyncLabClientAssumption DEF Init, OneAtATime, OnTheWay
<1>7. AnswersAreEarned /\ EveryAnswerFits /\ HandledInTurn
  BY <1>1, <1>2, AsyncLabClientAssumption
     DEF Init, AnswersAreEarned, EveryAnswerFits, HandledInTurn
<1> QED BY <1>1, <1>4, <1>6, <1>7 DEF IInv

LEMMA NextInv == IInv /\ [Next]_vars => IInv'
<1> SUFFICES ASSUME IInv, [Next]_vars PROVE IInv'
  OBVIOUS
<1>1. ASSUME NEW t \in Tasks, Receive(t)
      PROVE  IInv'
  <2>1. reply[t] = t /\ Leave(t, "answer") /\ task[t] = "receiving"
    BY <1>1 DEF Receive, IInv, EveryAnswerFits
  <2>2. Contains(handled, t)
    BY <2>1 DEF IInv, AnswersAreEarned
  <2> QED BY <1>1, <2>1, <2>2, LeaveInv DEF Receive, server_vars
<1>2. ASSUME NEW t \in Tasks, TimeOut(t)
      PROVE  IInv'
  BY <1>2, LeaveInv DEF TimeOut, server_vars
<1>3. ASSUME NEW t \in Tasks, Call(t) \/ Cancel(t) \/ Deliver(t) \/ Handle(t)
      PROVE  IInv'
  BY <1>3, CallInv, CancelInv, DeliverInv, HandleInv
<1>4. CASE Send \/ Stop \/ Start \/ Unmount \/ Terminate
  BY <1>4, SendInv, AroundInv
<1>5. CASE UNCHANGED vars
  BY <1>5 DEF vars, call_vars, server_vars, IInv, TypeOK, OneAtATime, OnTheWay,
              AnswersAreEarned, EveryAnswerFits, HandledInTurn
<1> QED BY <1>1, <1>2, <1>3, <1>4, <1>5 DEF Next

THEOREM Invariance == Spec => []IInv
BY InitInv, NextInv, PTL DEF Spec

-----------------------------------------------------------------------------
(* The order of the calls, an invariant that stands on the first.           *)

\* Each task calls once, the queue is in the order of the calls, and a request leaves
\* when every earlier call is over.
TurnsAreTaken ==
    /\ \A i, j \in 1..Len(called) : called[i] = called[j] => i = j
    /\ \A t \in Tasks : task[t] # "idle" <=> \E i \in 1..Len(called) : called[i] = t
    /\ \A a, b \in 1..Len(waiters) : a < b => Earlier(waiters[a], waiters[b])
    /\ \A t, u \in Tasks :
         /\ Earlier(u, t)
         /\ task[t] = "receiving" \/ t \in inbox \/ Contains(handled, t)
         => task[u] = "done"

TInv == TurnsAreTaken /\ HandledInOrder

LEMMA CalledIsSeq ==
  ASSUME IInv
  PROVE  /\ called \in Seq(Tasks) /\ Len(called) \in Nat
         /\ DOMAIN called = 1..Len(called) /\ \A i \in 1..Len(called) : called[i] \in Tasks
  BY DEF IInv, TypeOK

\* Of two calls one came first.
LEMMA OneIsEarlier ==
  ASSUME IInv, TurnsAreTaken, NEW t, NEW u, Earlier(u, t)
  PROVE  u # t /\ ~ Earlier(t, u)
<1>1. PICK i, j \in 1..Len(called) : i < j /\ called[i] = u /\ called[j] = t
  BY CalledIsSeq DEF Earlier
<1>2. ASSUME NEW k \in 1..Len(called), NEW l \in 1..Len(called), k < l,
             called[k] = t, called[l] = u
      PROVE  FALSE
  <2>1. k = j /\ l = i
    BY <1>1, <1>2 DEF TurnsAreTaken
  <2> QED BY <1>1, <1>2, <2>1, CalledIsSeq
<1>3. ~ Earlier(t, u)
  BY <1>2, CalledIsSeq DEF Earlier
<1>4. u # t
  BY <1>1, <1>3, CalledIsSeq DEF Earlier
<1> QED BY <1>3, <1>4

\* A step without a call, that takes nobody back and sends nothing new.
LEMMA TurnsKept ==
  ASSUME IInv, TInv, called' = called,
         \A t \in Tasks : /\ task'[t] = "idle" <=> task[t] = "idle"
                          /\ task[t] = "done" => task'[t] = "done"
                          /\ task'[t] = "receiving" => task[t] = "receiving"
                          /\ t \in inbox' => t \in inbox \/ task[t] = "receiving"
                          /\ Contains(handled, t)' => Contains(handled, t) \/ t \in inbox,
         \A a, b \in 1..Len(waiters') : a < b => Earlier(waiters'[a], waiters'[b])
  PROVE  TurnsAreTaken'
<1>1. \A t, u : Earlier(u, t)' <=> Earlier(u, t)
  BY DEF Earlier
<1>2. (\A a, b \in 1..Len(waiters) : a < b => Earlier(waiters[a], waiters[b]))'
  BY DEF Earlier
<1>3. \A t, u \in Tasks :
        /\ Earlier(u, t)'
        /\ task'[t] = "receiving" \/ t \in inbox' \/ Contains(handled, t)'
        => task'[u] = "done"
  BY <1>1 DEF TInv, TurnsAreTaken
<1>4. /\ \A i, j \in 1..Len(called) : called[i] = called[j] => i = j
      /\ \A t \in Tasks : task'[t] # "idle" <=> \E i \in 1..Len(called) : called[i] = t
  BY DEF TInv, TurnsAreTaken
<1> QED BY <1>2, <1>3, <1>4 DEF TurnsAreTaken

\* A step that handles nothing and un-tells nobody.
LEMMA OrderKept ==
  ASSUME IInv, TInv, called' = called, handled' = handled,
         \A t \in Tasks : told[t] # "nothing" => told'[t] = told[t]
  PROVE  HandledInOrder'
<1>1. \A t, u : Earlier(u, t)' <=> Earlier(u, t)
  BY DEF Earlier
<1>2. \A i \in DOMAIN handled : handled[i] \in Tasks
  BY DEF IInv
<1> QED BY <1>1, <1>2 DEF TInv, HandledInOrder

LEMMA CallTurn ==
  ASSUME IInv, TInv, NEW t \in Tasks, Call(t)
  PROVE  TInv'
<1>1. /\ task[t] = "idle" /\ task' = [task EXCEPT ![t] = "waiting"]
      /\ waiters' = Append(waiters, t) /\ called' = Append(called, t)
      /\ UNCHANGED <<told, inbox, handled>>
  BY DEF Call, server_vars
<1>2. task'[t] = "waiting" /\ \A u \in Tasks : u # t => task'[u] = task[u]
  BY <1>1 DEF IInv, TypeOK
<1>3. /\ Len(called') = Len(called) + 1 /\ called'[Len(called) + 1] = t
      /\ \A i \in 1..Len(called) : called'[i] = called[i]
      /\ DOMAIN called' = 1..(Len(called) + 1)
  BY <1>1, CalledIsSeq
<1>4. /\ Len(waiters') = Len(waiters) + 1 /\ waiters'[Len(waiters) + 1] = t
      /\ \A i \in 1..Len(waiters) : waiters'[i] = waiters[i]
  BY <1>1 DEF IInv
<1>5. \A i \in 1..Len(called') : i \in 1..Len(called) \/ i = Len(called) + 1
  BY <1>3, CalledIsSeq
<1>6. \A i \in 1..Len(called) : called[i] # t
  BY <1>1 DEF TInv, TurnsAreTaken
<1>7. ASSUME NEW u \in Tasks, NEW v \in Tasks, Earlier(u, v)', v # t
      PROVE  Earlier(u, v)
  <2>1. PICK i, j \in 1..Len(called') : i < j /\ called'[i] = u /\ called'[j] = v
    BY <1>3, <1>7 DEF Earlier
  <2>2. j \in 1..Len(called) /\ i \in 1..Len(called)
    BY <1>3, <1>5, <1>7, <2>1, CalledIsSeq
  <2> QED BY <1>3, <2>1, <2>2, CalledIsSeq DEF Earlier
<1>8. ASSUME NEW u \in Tasks, NEW v \in Tasks, Earlier(u, v)
      PROVE  Earlier(u, v)'
  <2>1. PICK i, j \in 1..Len(called) : i < j /\ called[i] = u /\ called[j] = v
    BY <1>8, CalledIsSeq DEF Earlier
  <2>2. i \in DOMAIN called' /\ j \in DOMAIN called'
    BY <1>3, CalledIsSeq
  <2> QED BY <1>3, <2>1, <2>2 DEF Earlier
<1>9. ASSUME NEW u \in Tasks, task[u] # "idle"
      PROVE  Earlier(u, t)'
  <2>1. PICK i \in 1..Len(called) : called[i] = u
    BY <1>9 DEF TInv, TurnsAreTaken
  <2>2. i \in DOMAIN called' /\ Len(called) + 1 \in DOMAIN called' /\ i < Len(called) + 1
    BY <1>3, CalledIsSeq
  <2> QED BY <1>3, <2>1, <2>2 DEF Earlier
<1>10. \A i, j \in 1..Len(called') : called'[i] = called'[j] => i = j
  <2>1. \A i, j \in 1..Len(called) : called[i] = called[j] => i = j
    BY DEF TInv, TurnsAreTaken
  <2> QED BY <1>3, <1>5, <1>6, <2>1
<1>11. ASSUME NEW u \in Tasks
       PROVE  task'[u] # "idle" <=> \E i \in 1..Len(called') : called'[i] = u
  <2>1. task[u] # "idle" <=> \E i \in 1..Len(called) : called[i] = u
    BY DEF TInv, TurnsAreTaken
  <2>2. Len(called) + 1 \in 1..Len(called')
        /\ \A i \in 1..Len(called) : i \in 1..Len(called')
    BY <1>3, CalledIsSeq
  <2>3. CASE u = t
    BY <1>2, <1>3, <2>2, <2>3
  <2>4. CASE u # t
    BY <1>2, <1>3, <1>5, <2>1, <2>2, <2>4
  <2> QED BY <2>3, <2>4
<1>12. ASSUME NEW a \in 1..Len(waiters'), NEW b \in 1..Len(waiters'), a < b
       PROVE  Earlier(waiters[a], waiters[b])'
  <2>1. Len(waiters) \in Nat /\ a \in 1..Len(waiters) /\ waiters'[a] = waiters[a]
    BY <1>4, <1>12, QueueIsWaiting
  <2>2. waiters[a] \in Tasks /\ task[waiters[a]] # "idle"
    BY <2>1, QueueIsWaiting
  <2>3. CASE b \in 1..Len(waiters)
    <3>1. waiters[b] \in Tasks /\ Earlier(waiters[a], waiters[b])
      BY <1>12, <2>1, <2>3, QueueIsWaiting DEF TInv, TurnsAreTaken
    <3>2. PICK u \in Tasks, v \in Tasks : u = waiters'[a] /\ v = waiters'[b] /\ Earlier(u, v)
      BY <1>4, <2>1, <2>2, <2>3, <3>1
    <3>3. Earlier(u, v)'
      BY <1>8, <3>2
    <3> QED BY <3>2, <3>3 DEF Earlier
  <2>4. CASE b = Len(waiters) + 1
    <3>1. PICK u \in Tasks : u = waiters'[a] /\ task[u] # "idle"
      BY <2>1, <2>2
    <3>2. Earlier(u, t)' /\ waiters'[b] = t
      BY <1>4, <1>9, <2>4, <3>1
    <3> QED BY <3>1, <3>2 DEF Earlier
  <2> QED BY <1>4, <2>1, <2>3, <2>4
<1>13. ASSUME NEW v \in Tasks, NEW u \in Tasks, Earlier(u, v)',
              task'[v] = "receiving" \/ v \in inbox' \/ Contains(handled, v)'
       PROVE  task'[u] = "done"
  <2>1. v # t
    BY <1>1, <1>2, <1>13 DEF IInv, OnTheWay
  <2>2. task[u] = "done"
    BY <1>1, <1>2, <1>7, <1>13, <2>1 DEF TInv, TurnsAreTaken
  <2> QED BY <1>1, <1>2, <2>2
<1>14. HandledInOrder'
  <2>1. ASSUME NEW i \in DOMAIN handled
        PROVE  handled[i] \in Tasks /\ handled[i] # t
    <3>1. handled[i] \in Tasks /\ Contains(handled, handled[i])
      BY ElementOfSeq DEF Contains, IInv
    <3> QED BY <1>1, <3>1 DEF IInv, OnTheWay
  <2> QED BY <1>1, <1>7, <2>1 DEF TInv, HandledInOrder
<1> QED BY <1>10, <1>11, <1>12, <1>13, <1>14 DEF TInv, TurnsAreTaken

LEMMA SendTurn ==
  ASSUME IInv, TInv, Send
  PROVE  TInv'
<1>1. /\ waiters # <<>> /\ lock = NoTask /\ waiters' = Tail(waiters)
      /\ UNCHANGED <<told, called, inbox, handled>>
      /\ task' = [task EXCEPT ![Head(waiters)] = "receiving"]
  BY DEF Send, Free, server_vars
<1>2. waiters \in Seq(Tasks) /\ Len(waiters) \in Nat /\ Len(waiters) # 0 /\ 1 \in 1..Len(waiters)
  BY <1>1, EmptySeq DEF IInv
<1>3. PICK t \in Tasks : t = Head(waiters) /\ t = waiters[1] /\ task[t] = "waiting"
  BY <1>1, <1>2, QueueIsWaiting
<1>4. task'[t] = "receiving" /\ \A u \in Tasks : u # t => task'[u] = task[u]
  BY <1>1, <1>3 DEF IInv, TypeOK
<1>5. \A i \in 1..Len(waiters') : waiters'[i] = waiters[i + 1] /\ i + 1 \in 1..Len(waiters)
  BY <1>1, <1>2, HeadTailProperties
<1>6. \A v, u : Earlier(u, v)' <=> Earlier(u, v)
  BY <1>1 DEF Earlier
<1>7. ASSUME NEW u \in Tasks, Earlier(u, t)
      PROVE  task[u] = "done" /\ u # t
  <2>1. u # t /\ ~ Earlier(t, u)
    BY <1>7, OneIsEarlier DEF TInv
  <2>2. task[u] # "receiving"
    BY <1>1, AsyncLabClientAssumption DEF IInv, OneAtATime
  <2>3. task[u] # "waiting"
    <3>1. ASSUME NEW k \in 1..Len(waiters), waiters[k] = u
          PROVE  FALSE
      <4>1. k # 1
        BY <1>3, <2>1, <3>1
      <4>2. Earlier(waiters[1], waiters[k])
        BY <1>2, <4>1 DEF TInv, TurnsAreTaken
      <4> QED BY <1>3, <2>1, <3>1, <4>2
    <3> QED BY <3>1, QueueIsWaiting
  <2>4. task[u] # "idle"
    <3>1. \E i \in 1..Len(called) : called[i] = u
      BY <1>7, CalledIsSeq DEF Earlier
    <3> QED BY <3>1 DEF TInv, TurnsAreTaken
  <2> QED BY <2>1, <2>2, <2>3, <2>4 DEF IInv, TypeOK
<1>8. ASSUME NEW v \in Tasks, NEW u \in Tasks, Earlier(u, v),
             task'[v] = "receiving" \/ v \in inbox \/ Contains(handled, v)
      PROVE  task'[u] = "done"
  <2>1. task[u] = "done"
    BY <1>4, <1>7, <1>8 DEF TInv, TurnsAreTaken
  <2> QED BY <1>3, <1>4, <2>1
<1>9. \A a, b \in 1..Len(waiters') : a < b => Earlier(waiters'[a], waiters'[b])
  <2>1. ASSUME NEW a \in 1..Len(waiters'), NEW b \in 1..Len(waiters'), a < b
        PROVE  Earlier(waiters'[a], waiters'[b])
    <3>1. a + 1 < b + 1 /\ a + 1 \in 1..Len(waiters) /\ b + 1 \in 1..Len(waiters)
      BY <1>2, <1>5, <2>1
    <3> QED BY <1>5, <3>1 DEF TInv, TurnsAreTaken
  <2> QED BY <2>1
<1>10. /\ \A i, j \in 1..Len(called) : called[i] = called[j] => i = j
       /\ \A u \in Tasks : task'[u] # "idle" <=> \E i \in 1..Len(called) : called[i] = u
  BY <1>3, <1>4 DEF TInv, TurnsAreTaken
<1>11. TurnsAreTaken'
  BY <1>1, <1>6, <1>8, <1>9, <1>10 DEF TurnsAreTaken, Contains
<1>12. HandledInOrder'
  BY <1>1, OrderKept
<1> QED BY <1>11, <1>12 DEF TInv

\* What the ends of a call share.
LEMMA LeaveTurn ==
  ASSUME IInv, TInv, NEW t \in Tasks, task[t] # "idle", told[t] = "nothing",
         task' = [task EXCEPT ![t] = "done"], NEW a, told' = [told EXCEPT ![t] = a],
         UNCHANGED <<called, inbox, handled>>,
         \A c, d \in 1..Len(waiters') : c < d => Earlier(waiters'[c], waiters'[d])
  PROVE  TInv'
<1>1. /\ task'[t] = "done" /\ \A u \in Tasks : u # t => task'[u] = task[u]
      /\ \A u \in Tasks : u # t => told'[u] = told[u]
  BY DEF IInv, TypeOK
<1>2. \A u : Contains(handled, u)' <=> Contains(handled, u)
  BY DEF Contains
<1>3. TurnsAreTaken'
  BY <1>1, <1>2, TurnsKept
<1>4. HandledInOrder'
  BY <1>1, OrderKept
<1> QED BY <1>3, <1>4 DEF TInv

LEMMA CancelTurn ==
  ASSUME IInv, TInv, NEW t \in Tasks, Cancel(t)
  PROVE  TInv'
<1>1. told[t] = "nothing" /\ task[t] # "idle" /\ UNCHANGED <<called, inbox, handled>>
  BY DEF Cancel, server_vars, IInv, AnswersAreEarned
<1>2. task' = [task EXCEPT ![t] = "done"] /\ told' = [told EXCEPT ![t] = "cancelled"]
  BY DEF Cancel, Leave
<1>3. CASE waiters' = waiters
  BY <1>1, <1>2, <1>3, LeaveTurn DEF TInv, TurnsAreTaken
<1>4. CASE waiters' = Without(t) /\ task[t] = "waiting"
  <2>1. PICK i \in 1..Len(waiters) : waiters[i] = t /\ waiters' = RemoveAt(waiters, i)
    <3>1. \E i \in DOMAIN waiters : waiters[i] = t
      BY <1>4, QueueIsWaiting
    <3>2. DOMAIN waiters = 1..Len(waiters)
      BY QueueIsWaiting
    <3> QED BY <1>4, <3>1, <3>2 DEF Without
  <2>2. /\ Len(waiters') = Len(waiters) - 1
        /\ \A j \in 1..(Len(waiters) - 1) :
             waiters'[j] = IF j < i THEN waiters[j] ELSE waiters[j + 1]
    BY <2>1, Removed DEF IInv
  <2>3. Len(waiters) \in Nat /\ i \in Nat
    BY QueueIsWaiting
  <2>4. ASSUME NEW c \in 1..Len(waiters'), NEW d \in 1..Len(waiters'), c < d
        PROVE  Earlier(waiters'[c], waiters'[d])
    <3> DEFINE k == IF c < i THEN c ELSE c + 1
               l == IF d < i THEN d ELSE d + 1
    <3>1. waiters'[c] = waiters[k] /\ waiters'[d] = waiters[l]
      BY <2>2
    <3>2. k \in 1..Len(waiters) /\ l \in 1..Len(waiters) /\ k < l
      BY <2>2, <2>3, <2>4
    <3> HIDE DEF k, l
    <3> QED BY <3>1, <3>2 DEF TInv, TurnsAreTaken
  <2> QED BY <1>1, <1>2, <2>4, LeaveTurn
<1> QED BY <1>3, <1>4 DEF Cancel

LEMMA HandleTurn ==
  ASSUME IInv, TInv, NEW t \in Tasks, Handle(t)
  PROVE  TInv'
<1>1. /\ t \in inbox /\ inbox' = inbox \ {t} /\ handled' = Append(handled, t)
      /\ UNCHANGED <<task, waiters, told, called>>
  BY DEF Handle, call_vars
<1>2. /\ Len(handled) \in Nat /\ handled'[Len(handled) + 1] = t
      /\ \A i \in 1..Len(handled) : handled'[i] = handled[i]
      /\ DOMAIN handled' = 1..(Len(handled) + 1) /\ DOMAIN handled = 1..Len(handled)
      /\ Len(handled') = Len(handled) + 1
  BY <1>1 DEF IInv
<1>3. \A i \in DOMAIN handled' : i \in 1..Len(handled) \/ i = Len(handled) + 1
  BY <1>2
<1>4. ASSUME NEW u \in Tasks, Contains(handled, u)'
      PROVE  Contains(handled, u) \/ u \in inbox
  <2>1. PICK i \in 1..Len(handled') : handled'[i] = u
    BY <1>4 DEF Contains
  <2> QED BY <1>1, <1>2, <1>3, <2>1 DEF Contains
<1>5. TurnsAreTaken'
  BY <1>1, <1>4, TurnsKept DEF TInv, TurnsAreTaken
<1>6. ASSUME NEW i \in 1..Len(handled), Earlier(t, handled[i])
      PROVE  told[t] \in {"timeout", "cancelled"}
  <2>1. handled[i] \in Tasks /\ Contains(handled, handled[i])
    BY ElementOfSeq DEF Contains, IInv
  <2>2. task[t] = "done"
    BY <1>6, <2>1 DEF TInv, TurnsAreTaken
  <2>3. ~ Contains(handled, t)
    BY <1>1 DEF IInv, OnTheWay
  <2> QED BY <2>2, <2>3 DEF IInv, TypeOK, AnswersAreEarned, EveryAnswerFits
<1>7. \A v, u : Earlier(u, v)' <=> Earlier(u, v)
  BY <1>1 DEF Earlier
<1>8. ASSUME NEW i \in DOMAIN handled', NEW j \in DOMAIN handled', i < j,
             Earlier(handled'[j], handled'[i])
      PROVE  told[handled'[j]] \in {"timeout", "cancelled"}
  <2>1. i \in 1..Len(handled)
    BY <1>2, <1>8
  <2>2. CASE j \in 1..Len(handled)
    BY <1>2, <1>8, <2>1, <2>2 DEF TInv, HandledInOrder
  <2>3. CASE j = Len(handled) + 1
    BY <1>2, <1>6, <1>8, <2>1, <2>3
  <2> QED BY <1>3, <2>2, <2>3
<1>9. HandledInOrder'
  BY <1>1, <1>7, <1>8 DEF HandledInOrder
<1> QED BY <1>5, <1>9 DEF TInv

\* The steps of the line, of the server and of on_unmount.
LEMMA AroundTurn ==
  ASSUME IInv, TInv,
         (\E t \in Tasks : Deliver(t)) \/ Stop \/ Start \/ Unmount \/ Terminate
  PROVE  TInv'
<1>1. UNCHANGED <<task, waiters, told, called, handled>>
  BY DEF Deliver, Stop, Start, Unmount, Terminate, call_vars, server_vars
<1>2. \A t \in Tasks : t \in inbox' => t \in inbox \/ task[t] = "receiving"
  BY DEF Deliver, Stop, Start, Unmount, Terminate, IInv, OneAtATime
<1>3. \A u : Contains(handled, u)' <=> Contains(handled, u)
  BY <1>1 DEF Contains
<1>4. TurnsAreTaken'
  BY <1>1, <1>2, <1>3, TurnsKept DEF TInv, TurnsAreTaken
<1>5. HandledInOrder'
  BY <1>1, OrderKept
<1> QED BY <1>4, <1>5 DEF TInv

LEMMA InitTurn == Init => TInv
<1> SUFFICES ASSUME Init PROVE TInv
  OBVIOUS
<1>1. Len(called) = 0 /\ Len(waiters) = 0 /\ DOMAIN handled = {} /\ DOMAIN called = {}
  BY EmptySeq DEF Init
<1>2. \A t \in Tasks : task[t] = "idle"
  BY DEF Init
<1> QED BY <1>1, <1>2 DEF TInv, TurnsAreTaken, HandledInOrder, Earlier

LEMMA NextTurn == IInv /\ TInv /\ [Next]_vars => TInv'
<1> SUFFICES ASSUME IInv, TInv, [Next]_vars PROVE TInv'
  OBVIOUS
<1>1. ASSUME NEW t \in Tasks, Receive(t) \/ TimeOut(t)
      PROVE  TInv'
  <2>1. PICK a : Leave(t, a) /\ task[t] = "receiving"
    BY <1>1 DEF Receive, TimeOut
  <2>2. UNCHANGED <<called, inbox, handled, waiters>>
    BY <1>1 DEF Receive, TimeOut, server_vars
  <2>3. told[t] = "nothing"
    BY <2>1 DEF IInv, AnswersAreEarned
  <2> QED BY <2>1, <2>2, <2>3, LeaveTurn DEF Leave, TInv, TurnsAreTaken
<1>2. ASSUME NEW t \in Tasks, Call(t) \/ Cancel(t) \/ Handle(t)
      PROVE  TInv'
  BY <1>2, CallTurn, CancelTurn, HandleTurn
<1>3. CASE Send
  BY <1>3, SendTurn
<1>4. CASE (\E t \in Tasks : Deliver(t)) \/ Stop \/ Start \/ Unmount \/ Terminate
  BY <1>4, AroundTurn
<1>5. CASE UNCHANGED vars
  BY <1>5 DEF vars, call_vars, server_vars, TInv, TurnsAreTaken, HandledInOrder, Earlier,
              Contains
<1> QED BY <1>1, <1>2, <1>3, <1>4, <1>5 DEF Next

THEOREM TurnInvariance == Spec => [](IInv /\ TInv)
<1>1. Init => IInv /\ TInv
  BY InitInv, InitTurn
<1>2. IInv /\ TInv /\ [Next]_vars => (IInv /\ TInv)'
  BY NextInv, NextTurn
<1> QED BY <1>1, <1>2, PTL DEF Spec

-----------------------------------------------------------------------------
\* _validate_response never has to refuse an answer: one lock and one socket for each
\* request give every caller the answer to its own, and the server handles the requests
\* that were not given up in the order of their calls.
THEOREM EveryCallerHasItsAnswer == Spec => []AnswersFit
<1>1. IInv /\ TInv => AnswersFit
  BY DEF IInv, TInv, AnswersFit, AnsweredInOrder
<1> QED BY <1>1, TurnInvariance, PTL

\* close(linger=0) takes a request that is given up out of the client: no later server
\* receives it.
THEOREM WhatIsGivenUpIsGone == Spec => GivenUpIsGone
<1>1. ASSUME IInv, [Next]_vars
      PROVE  [\A t \in Tasks : t \in inbox' \ inbox => task[t] = "receiving"]_vars
  <2>1. CASE UNCHANGED vars
    BY <2>1
  <2>2. ASSUME NEW t \in Tasks, Deliver(t)
        PROVE  \A u \in Tasks : u \in inbox' \ inbox => task[u] = "receiving"
    BY <1>1, <2>2 DEF Deliver, IInv, OneAtATime
  <2>3. ASSUME NEW t \in Tasks, Call(t) \/ Receive(t) \/ TimeOut(t) \/ Cancel(t) \/ Handle(t)
        PROVE  inbox' \subseteq inbox
    BY <2>3 DEF Call, Receive, TimeOut, Cancel, Handle
  <2>4. ASSUME Send \/ Stop \/ Start \/ Unmount \/ Terminate
        PROVE  inbox' \subseteq inbox
    BY <2>4 DEF Send, Stop, Start, Unmount, Terminate
  <2> QED BY <1>1, <2>1, <2>2, <2>3, <2>4 DEF Next
<1> QED BY <1>1, Invariance, PTL DEF Spec, GivenUpIsGone

=============================================================================
