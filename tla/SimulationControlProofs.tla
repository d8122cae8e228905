------------------------ MODULE SimulationControlProofs ------------------------
(***************************************************************************)
(* Proofs about SimulationControl, for every maximum and step of the delay: *)
(* no wakeup is lost, a run that is asked to halt plays at most one move    *)
(* more, and every step is a step of Checkpoint.                            *)
(***************************************************************************)
EXTENDS SimulationControl, TLAPS

\* A run that has played its one move since it was asked to halt is past every
\* place that leads to another: it looks at the flags first, or has ended.
SlipIsSpent ==
    ~Undisturbed =>
      \/ slips = 0
      \/ slips = 1 /\ pc \in {"checking", "blocked", "episodeEnd"} \union Ended

IInv == TypeOK /\ NoLostWakeup /\ SlipIsSpent

LEMMA InitInv == Init => IInv
<1> SUFFICES ASSUME Init PROVE IInv
  OBVIOUS
<1>1. 0 \in Delays
  BY DelayAssumption DEF Delays
<1>2. TypeOK
  BY <1>1 DEF Init, TypeOK, Waits, Ended
<1>3. NoLostWakeup /\ SlipIsSpent
  BY DEF Init, NoLostWakeup, SlipIsSpent, Waits, Undisturbed
<1> QED BY <1>2, <1>3 DEF IInv

\* What a request does to the invariant.
LEMMA RequestInv ==
  ASSUME IInv, Pause \/ Resume \/ Cancel \/ \E ms \in Delays : SetMoveDelay(ms)
  PROVE  IInv'
<1>1. TypeOK'
  <2>1. changed' \in BOOLEAN /\ woken' \in BOOLEAN
    BY DEF Pause, Resume, Cancel, SetMoveDelay, SetChanged
  <2>2. paused' \in BOOLEAN /\ cancel_requested' \in BOOLEAN /\ move_delay_ms' \in Delays
    BY DEF IInv, TypeOK, Pause, Resume, Cancel, SetMoveDelay
  <2>3. UNCHANGED <<pc, at, waits>> /\ slips' \in Nat
    BY DEF IInv, TypeOK, Pause, Resume, Cancel, SetMoveDelay
  <2> QED BY <2>1, <2>2, <2>3 DEF IInv, TypeOK
<1>2. NoLostWakeup'
  <2>1. pc \in Waits => woken'
    BY DEF Pause, Resume, Cancel, SetMoveDelay, SetChanged
  <2>2. pc' = pc
    BY DEF Pause, Resume, Cancel, SetMoveDelay
  <2> QED BY <2>1, <2>2 DEF NoLostWakeup
<1>3. SlipIsSpent'
  <2>1. CASE Pause
    BY <2>1 DEF Pause, SlipIsSpent
  <2>2. CASE Resume
    BY <2>2 DEF Resume, CanRequest, SlipIsSpent, Undisturbed
  <2>3. CASE Cancel
    BY <2>3 DEF IInv, Cancel, SlipIsSpent, Undisturbed, Ended
  <2>4. CASE \E ms \in Delays : SetMoveDelay(ms)
    BY <2>4 DEF IInv, SetMoveDelay, SlipIsSpent, Undisturbed, Ended
  <2> QED BY <2>1, <2>2, <2>3, <2>4
<1> QED BY <1>1, <1>2, <1>3 DEF IInv

\* What a step of the worker does to the invariant.
LEMMA WorkerInv ==
  ASSUME IInv, Worker
  PROVE  IInv'
<1>1. CASE LoopTop
  <2>1. TypeOK'
    BY <1>1 DEF IInv, TypeOK, LoopTop, Branch, flags, Waits, Ended
  <2>2. NoLostWakeup'
    BY <1>1 DEF IInv, TypeOK, NoLostWakeup, LoopTop, Branch, flags, Waits, Delays
  <2>3. SlipIsSpent'
    BY <1>1 DEF IInv, SlipIsSpent, LoopTop, Branch, flags, Undisturbed, Ended
  <2> QED BY <2>1, <2>2, <2>3 DEF IInv
<1>2. CASE DelayExpires
  BY <1>2 DEF IInv, TypeOK, NoLostWakeup, SlipIsSpent, DelayExpires, flags, Waits, Ended,
              Undisturbed
<1>3. CASE Move
  <2>1. pc' \in {"checking", "episodeEnd"} /\ UNCHANGED <<flags, changed, waits>>
        /\ woken' = FALSE /\ at' \in {"move", at}
    BY <1>3 DEF Move, Simulates
  <2>2. slips' = (IF Undisturbed THEN slips ELSE slips + 1) /\ pc \in {"late", "yielding"}
    BY <1>3 DEF Move, Returns
  <2>3. TypeOK'
    <3>1. slips' \in Nat
      BY <2>2 DEF IInv, TypeOK
    <3>2. paused' = paused /\ cancel_requested' = cancel_requested
          /\ move_delay_ms' = move_delay_ms /\ changed' = changed /\ waits' = waits
      BY <2>1 DEF flags
    <3> QED BY <2>1, <3>1, <3>2 DEF IInv, TypeOK
  <2>4. NoLostWakeup'
    BY <2>1 DEF NoLostWakeup, Waits
  <2>5. SlipIsSpent'
    BY <2>1, <2>2 DEF IInv, SlipIsSpent, Undisturbed, flags, Ended
  <2> QED BY <2>3, <2>4, <2>5 DEF IInv
<1>4. CASE SetupEnds \/ NextEpisode \/ EpisodeEnds
  <2>1. /\ pc' \in {"checking", "finished"} /\ UNCHANGED <<flags, changed, waits, slips>>
        /\ woken' = FALSE /\ at' \in {"start", "gap", at}
    BY <1>4 DEF SetupEnds, NextEpisode, EpisodeEnds, Simulates
  <2>2. pc \in {"setup", "late", "yielding", "episodeEnd"}
    BY <1>4 DEF SetupEnds, NextEpisode, EpisodeEnds, Returns
  <2>3. TypeOK'
    BY <2>1 DEF IInv, TypeOK, flags, Waits, Ended
  <2>4. NoLostWakeup'
    BY <2>1 DEF NoLostWakeup, Waits
  <2>5. SlipIsSpent'
    BY <2>1, <2>2 DEF IInv, SlipIsSpent, Undisturbed, flags, Ended
  <2> QED BY <2>3, <2>4, <2>5 DEF IInv
<1> QED BY <1>1, <1>2, <1>3, <1>4 DEF Worker

LEMMA NextInv ==
  ASSUME IInv, [Next]_vars
  PROVE  IInv'
<1>1. CASE Next
  BY <1>1, RequestInv, WorkerInv DEF Next
<1>2. CASE UNCHANGED vars
  BY <1>2 DEF vars, flags, IInv, TypeOK, NoLostWakeup, SlipIsSpent, Undisturbed
<1> QED BY <1>1, <1>2

LEMMA Invariance == Spec => []IInv
  BY InitInv, NextInv, PTL DEF Spec

-----------------------------------------------------------------------------
\* The variables have the shape the code gives them.
THEOREM ControlTypeCorrect == Spec => []TypeOK
  BY Invariance, PTL DEF IInv

\* Whatever the order of requests, timers and wakeups, a worker that sleeps has
\* nothing to do (SimulationControl.checkpoint).
THEOREM NoWakeupIsLost == Spec => []NoLostWakeup
  BY Invariance, PTL DEF IInv

\* A pause or a cancellation is obeyed after at most one move.
THEOREM HaltsAfterOneMove == Spec => []AtMostOneSlip
<1>1. IInv => AtMostOneSlip
  BY DEF IInv, SlipIsSpent, AtMostOneSlip
<1> QED BY <1>1, Invariance, PTL

\* Every step of the event and its waits is a step that Checkpoint allows: the
\* safety part of ImplementsCheckpoint.
THEOREM StepsOfCheckpoint == Spec => Abstract!Init /\ [][Abstract!Next]_(Abstract!vars)
<1>1. Init => Abstract!Init
  BY DelayAssumption DEF Init, Abstract!Init
<1>2. ASSUME IInv, [Next]_vars
      PROVE  [Abstract!Next]_(Abstract!vars)
  <2>1. CASE Pause \/ Resume \/ Cancel \/ \E ms \in Delays : SetMoveDelay(ms)
    <3>1. CASE Pause \/ Resume \/ Cancel
      BY <3>1 DEF Pause, Resume, Cancel, CanRequest,
                  Abstract!Next, Abstract!Request, Abstract!Ended, Ended
    <3>2. CASE \E ms \in Delays : SetMoveDelay(ms)
      <4>1. UNCHANGED <<paused, cancel_requested, pc, at>>
        BY <3>2 DEF SetMoveDelay
      <4>2. pc \notin Abstract!Ended \union {"checking"} /\ ~cancel_requested
        BY <3>2 DEF SetMoveDelay, CanRequest, Abstract!Ended, Ended
      <4>3. (move_delay_ms > 0)' \in BOOLEAN
        OBVIOUS
      <4>4. Abstract!Request
        BY <4>1, <4>2, <4>3 DEF Abstract!Request
      <4> QED BY <4>4 DEF Abstract!Next
    <3> QED BY <2>1, <3>1, <3>2
  <2>2. CASE LoopTop
    <3>1. Abstract!LooksAtFlags
      BY <2>2 DEF LoopTop, Branch, Waits, Undisturbed,
                  Abstract!LooksAtFlags, Abstract!Undisturbed
    <3>2. UNCHANGED flags
      BY <2>2 DEF LoopTop
    <3> QED BY <3>1, <3>2 DEF flags, Abstract!Next, Abstract!Worker
  <2>3. CASE DelayExpires
    BY <2>3 DEF DelayExpires, flags, Abstract!DelayExpires, Abstract!Next, Abstract!Worker
  <2>4. CASE SetupEnds \/ Move \/ NextEpisode \/ EpisodeEnds
    <3>1. Abstract!Simulates
      BY <2>4 DEF SetupEnds, Move, NextEpisode, EpisodeEnds, Simulates, Returns, Undisturbed,
                  Abstract!Simulates, Abstract!Returns, Abstract!Undisturbed
    <3>2. UNCHANGED flags
      BY <2>4 DEF SetupEnds, Move, NextEpisode, EpisodeEnds, Simulates
    <3> QED BY <3>1, <3>2 DEF flags, Abstract!Next, Abstract!Worker
  <2>5. CASE UNCHANGED vars
    BY <2>5 DEF vars, flags, Abstract!vars
  <2> QED BY <1>2, <2>1, <2>2, <2>3, <2>4, <2>5 DEF Next, Worker
<1> QED BY <1>1, <1>2, Invariance, PTL DEF Spec
================================================================================
