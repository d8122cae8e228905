------------------------------- MODULE Simulator -------------------------------
(***************************************************************************)
(* Simulator with its EpsilonAlgo and its ReplayMemory: the episodes of one *)
(* run, the exploration schedule, the memory that training draws from, and  *)
(* what is kept of the games: the totals, the most recent of the best games *)
(* and the first board of it that reached its score.  A board is its        *)
(* episode, its number of moves and its score; probabilities are integers   *)
(* of Scale-ths, rounded down; a decay is the division by a whole number.   *)
(***************************************************************************)
EXTENDS Naturals, FiniteSets, Sequences, SequencesExt, FiniteSetsExt

CONSTANTS
    Epochs,
    Scale,        \* stands for the probability 1
    Initials, Minimums, Divisors,   \* the schedules
    Cutoff,       \* DEpsilon.CUTOFF
    MaxMoves,     \* bound: the moves of a game
    sequence_length, batch_size, max_frames

VARIABLES
    schedule,           \* initial, minimum and decay, fixed
    epsilon,            \* EpsilonAlgo._epsilon
    injections,         \* EpsilonAlgo._episode_injections
    total_injections,   \* EpsilonAlgo._total_injections
    place,              \* where run and _run_episode are
    frames,             \* the boards of the game that is played
    current_board,      \* the first of them with their highest score
    episode_epsilon,
    state,              \* SimulationState
    games               \* history: what was played, for the properties only

VARIABLES episodes, current, frame_count, eligible, cumulative, next_id, batch

\* self.replay
Replay == INSTANCE ReplayMemory WITH MaxSteps <- MaxMoves

ASSUME SimulatorAssumption ==
    /\ Epochs \in Nat \ {0} /\ Scale \in Nat \ {0} /\ MaxMoves \in Nat \ {0}
    /\ Cutoff \in 1..Scale
    /\ Initials \subseteq 0..Scale /\ Minimums \subseteq 0..Scale /\ Divisors \subseteq Nat \ {0}
    /\ Replay!ReplayAssumption

replay_vars == <<episodes, current, frame_count, eligible, cumulative, next_id, batch>>
game_vars == <<frames, current_board, episode_epsilon>>
vars == <<schedule, epsilon, injections, total_injections, place, state, games, game_vars,
          replay_vars>>

Board == [episode : 1..Epochs, move_count : 0..MaxMoves, score : 0..MaxMoves]
NoBoard == [episode |-> 0, move_count |-> 0, score |-> 0]
Episode == state.completed_epochs + 1

-----------------------------------------------------------------------------
(* EpsilonAlgo                                                              *)

\* Mutant of NextEpsilon: a value below the cutoff is kept.
NextEpsilonUncut(s, e) == Max({s.minimum, e \div s.divisor})

NextEpsilon(s, e) ==
    LET decayed == Max({s.minimum, e \div s.divisor})
    IN IF s.minimum = 0 /\ decayed < Cutoff THEN 0 ELSE decayed

\* random() < epsilon, for a number from 0 up to but not including 1.
MayInject(inject) == IF inject THEN epsilon > 0 ELSE epsilon < Scale

-----------------------------------------------------------------------------
(* Simulator                                                                *)
Init ==
    /\ schedule \in {s \in [initial : Initials, minimum : Minimums, divisor : Divisors] :
                        s.minimum <= s.initial}
    /\ epsilon = schedule.initial /\ injections = 0 /\ total_injections = 0
    /\ place = "between"
    /\ frames = <<>> /\ current_board = NoBoard /\ episode_epsilon = 0
    /\ state = [completed_epochs |-> 0, total_steps |-> 0, high_score |-> 0,
                total_epsilon_injections |-> 0, episodes |-> <<>>,
                snapshot |-> NoBoard, frames |-> <<>>]
    /\ games = <<>>
    /\ Replay!Init

StartEpisode ==
    /\ place = "between" /\ state.completed_epochs < Epochs
    /\ place' = "playing"
    /\ current_board' = [episode |-> Episode, move_count |-> 0, score |-> 0]
    /\ frames' = <<current_board'>>
    /\ episode_epsilon' = epsilon
    /\ UNCHANGED <<schedule, epsilon, injections, total_injections, state, games, replay_vars>>

\* One pass of the loop.  The game ends at the latest when its moves are used up.
Step(inject, ate, done) ==
    LET board == [Last(frames) EXCEPT !.move_count = @ + 1,
                                      !.score = IF ate THEN @ + 1 ELSE @]
    IN /\ place = "playing"
       /\ MayInject(inject)
       /\ board.move_count = MaxMoves => done
       /\ IF done THEN Replay!FinishEpisode ELSE Replay!AppendTransition
       /\ injections' = injections + IF inject THEN 1 ELSE 0
       /\ total_injections' = total_injections + IF inject THEN 1 ELSE 0
       /\ frames' = Append(frames, board)
       /\ current_board' = IF board.score > current_board.score THEN board ELSE current_board
       /\ place' = IF done THEN "over" ELSE "playing"
       /\ games' = IF done THEN Append(games, [frames |-> frames', injections |-> injections'])
                           ELSE games
       /\ UNCHANGED <<schedule, epsilon, episode_epsilon, state>>

\* Mutant of Result: the episode is counted under the epsilon that follows it.
ResultAfter == [episode |-> Episode, score |-> Last(frames).score,
                steps |-> Last(frames).move_count,
                epsilon |-> NextEpsilon(schedule, epsilon), epsilon_injections |-> injections]

Result == [episode |-> Episode, score |-> Last(frames).score,
           steps |-> Last(frames).move_count,
           epsilon |-> episode_epsilon, epsilon_injections |-> injections]

\* Mutant of Captures: the first of the best games is kept.
CapturesFirst == state.snapshot = NoBoard \/ Last(frames).score > state.high_score

Captures == state.snapshot = NoBoard \/ Last(frames).score >= state.high_score

\* SimulationState.record, after the capture that reads its high score.
Recorded(result) ==
    [completed_epochs |-> state.completed_epochs + 1,
     total_steps |-> state.total_steps + result.steps,
     high_score |-> Max({state.high_score, result.score}),
     total_epsilon_injections |-> state.total_epsilon_injections + result.epsilon_injections,
     episodes |-> Append(state.episodes, result),
     snapshot |-> IF Captures THEN current_board ELSE state.snapshot,
     frames |-> IF Captures THEN frames ELSE state.frames]

\* Trainer.train draws a batch, if there are windows enough for one.
Train ==
    IF Replay!total_windows >= batch_size THEN Replay!Sample ELSE UNCHANGED replay_vars

EndEpisode ==
    /\ place = "over"
    /\ Train
    /\ state' = Recorded(Result)
    /\ epsilon' = NextEpsilon(schedule, epsilon) /\ injections' = 0
    /\ place' = "between"
    /\ UNCHANGED <<schedule, total_injections, games, game_vars>>

\* run returns, or a checkpoint, the training or a callback raises an error.
Leave ==
    /\ place # "left"
    /\ place' = "left"
    /\ UNCHANGED <<schedule, epsilon, injections, total_injections, state, games, game_vars,
                   replay_vars>>

Next ==
    \/ StartEpisode \/ EndEpisode \/ Leave
    \/ \E inject, ate, done \in BOOLEAN : Step(inject, ate, done)

Spec == Init /\ [][Next]_vars

-----------------------------------------------------------------------------
\* Every variable has the shape the code gives it.
TypeOK ==
    /\ epsilon \in 0..Scale /\ episode_epsilon \in 0..Scale
    /\ injections \in 0..MaxMoves /\ total_injections \in 0..(Epochs * MaxMoves)
    /\ place \in {"between", "playing", "over", "left"}
    /\ \A i \in DOMAIN frames : frames[i] \in Board
    /\ current_board \in Board \union {NoBoard}
    /\ state.completed_epochs \in 0..Epochs /\ Len(state.episodes) \in 0..Epochs
    /\ state.snapshot \in Board \union {NoBoard}
    /\ Replay!TypeOK

Finished == SubSeq(games, 1, state.completed_epochs)
Score(game) == Last(game.frames).score
\* The most recent of the games with the highest score.
BestGame ==
    CHOOSE b \in DOMAIN Finished : \A i \in DOMAIN Finished :
        /\ Score(Finished[i]) <= Score(Finished[b])
        /\ Score(Finished[i]) = Score(Finished[b]) => i <= b
\* The first of its boards with that score.
BestBoard(game) ==
    CHOOSE board \in ToSet(game.frames) : board.score = Score(game)
        /\ \A other \in ToSet(game.frames) :
              other.score = Score(game) => board.move_count <= other.move_count

\* What is kept is the whole of the most recent best game, from its first board to its
\* last, and the first position of it with the run's high score.
BestGameIsKept ==
    Finished # <<>> =>
        /\ state.frames = Finished[BestGame].frames
        /\ state.snapshot = BestBoard(Finished[BestGame])
        /\ state.high_score = state.snapshot.score

\* An episode is reported with the score, the moves, the epsilon and the injections of
\* its own game, and the totals of the run are the sums of what was reported.
ResultsAreOfTheirGame ==
    /\ Len(state.episodes) = state.completed_epochs
    /\ \A i \in DOMAIN state.episodes :
          LET result == state.episodes[i]  game == Finished[i]
          IN /\ result.score = Score(game) /\ result.steps = Len(game.frames) - 1
             /\ result.epsilon_injections = game.injections
             /\ result.epsilon = 0 => result.epsilon_injections = 0
             /\ result.epsilon = Scale => result.epsilon_injections = result.steps
    /\ LET Sum(field) == Replay!Total([i \in DOMAIN state.episodes |-> state.episodes[i][field]])
       IN /\ state.total_steps = Sum("steps")
          /\ state.total_epsilon_injections = Sum("epsilon_injections")

Power(d, n) ==
    LET power[k \in 0..n] == IF k = 0 THEN 1 ELSE d * power[k - 1]
    IN power[n]

\* The value of the schedule after n episodes, without the steps in between.
Scheduled(n) ==
    LET decayed == schedule.initial \div Power(schedule.divisor, n)
    IN IF n = 0 THEN schedule.initial
       ELSE IF decayed < Cutoff /\ schedule.minimum = 0 THEN 0
       ELSE Max({schedule.minimum, decayed})

\* Step by step the schedule arrives where its formula is: exponential down to the floor,
\* and to 0, for good, once it falls below the cutoff and there is no floor.
EpsilonIsScheduled == epsilon = Scheduled(state.completed_epochs)

\* What training may draw from is the longest run of latest games that fits the limit of
\* frames, whole: a game that is played is not in it, an evicted one leaves nothing, and
\* the counter that drives the evictions never drifts from the frames there are.
MemoryIsOfLatestGames ==
    LET sizes == [i \in DOMAIN games |-> Len(games[i].frames) - 1]
        Moves(n) == Replay!Total(SubSeq(sizes, n, Len(sizes)))
    IN /\ \E n \in 1..(Len(sizes) + 1) :
            /\ [i \in DOMAIN episodes |-> episodes[i].size] = SubSeq(sizes, n, Len(sizes))
            /\ frame_count = Moves(n) /\ frame_count <= max_frames
            /\ n > 1 => Moves(n - 1) > max_frames
       /\ place = "playing" => current = Len(frames) - 1
       /\ place = "over" => current = 0

\* The index, kept apart from the games and searched by bisection, names every window in
\* memory once, and none that is gone or crosses two games: the choice is uniform.
IndexIsExact == Replay!IndexIsExact

\* The memory and its index are those of the games that were played.
MemoryIsExact == TypeOK /\ MemoryIsOfLatestGames /\ IndexIsExact

\* What an episode is trained on is, when it is drawn, as many different windows as asked
\* for, each inside one game in memory.
BatchesAreStored ==
    [][batch' # batch =>
         batch' \subseteq Replay!Stored /\ Cardinality(batch') = batch_size]_vars
================================================================================
