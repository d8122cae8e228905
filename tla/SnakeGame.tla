------------------------------- MODULE SnakeGame -------------------------------
(***************************************************************************)
(* One game of snake: SnakeGame and the pure rules of GameRules.  A cell is *)
(* a pair <<x, y>>, y growing downwards; the snake is the sequence of its   *)
(* cells from the head.  Rewards and the observation are left out, the      *)
(* random cell of the food is any free one.                                 *)
(***************************************************************************)
EXTENDS Integers, Sequences

CONSTANTS
    Width, Height,        \* grid_size
    InitialLength,        \* initial_snake_length
    MaxMovesMultiplier,   \* max_moves_multiplier
    NoFood                \* None, where a board has no free cell

\* Mutant of Contains: the far edges are one cell too far.
ContainsEdge(cell) == cell[1] \in 0..Width /\ cell[2] \in 0..Height

Contains(cell) == cell[1] \in 0..(Width - 1) /\ cell[2] \in 0..(Height - 1)

Board == (0..(Width - 1)) \X (0..(Height - 1))

\* What SnakeGame.__init__ demands of its arguments, and two cells at least: the
\* constructor would take a snake of one cell, which GameRules.step gives a second one with
\* its first move, but no accepted configuration has it.
ASSUME GameAssumption ==
    /\ Width \in Nat \ {0} /\ Height \in Nat \ {0}
    /\ InitialLength \in 2..Width /\ InitialLength < Width * Height
    /\ MaxMovesMultiplier \in Nat \ {0}
    /\ NoFood \notin Board

VARIABLES
    snake,       \* snake_head followed by snake_body
    direction,   \* where the snake last moved
    food,        \* food_position
    score,
    move_count,
    done,        \* SnakeGame._done
    outcome      \* what the last step returned, "none" before the first

vars == <<snake, direction, food, score, move_count, done, outcome>>

Directions == {<<-1, 0>>, <<1, 0>>, <<0, -1>>, <<0, 1>>}
Actions == {"left", "straight", "right"}
Outcomes == {"empty", "food", "wall", "snake", "max_moves", "board_filled"}

-----------------------------------------------------------------------------
Cells(s) == {s[i] : i \in DOMAIN s}

\* Mutant of RandomFree: the new head does not count as occupied.
RandomFreeOfBody(s) ==
    LET free == Board \ Cells(Tail(s)) IN IF free = {} THEN {NoFood} ELSE free

\* What random_free_position may return for a board with this snake on it.
RandomFree(s) ==
    LET free == Board \ Cells(s) IN IF free = {} THEN {NoFood} ELSE free

Turned(d, action) ==
    CASE action = "left" -> <<d[2], -d[1]>>
      [] action = "right" -> <<-d[2], d[1]>>
      [] action = "straight" -> d

NewHead(action) ==
    LET d == Turned(direction, action) IN <<snake[1][1] + d[1], snake[1][2] + d[2]>>

\* Mutant of Occupied: the last two cells of the body are left out.
OccupiedTooLittle(eats) ==
    Cells(IF eats THEN Tail(snake) ELSE SubSeq(snake, 2, Len(snake) - 2))

\* Mutant of Occupied: the tail counts although it leaves its cell.
OccupiedTooMuch(eats) == Cells(Tail(snake))

\* The body that a head that moves must avoid: the tail leaves its cell, unless
\* the snake grows.
Occupied(eats) ==
    Cells(IF eats THEN Tail(snake) ELSE SubSeq(snake, 2, Len(snake) - 1))

\* would_collide, and the two tests of step that it repeats.
Collides(action) ==
    LET head == NewHead(action)
    IN ~Contains(head) \/ head \in Occupied(head = food)

\* Mutant of OutOfMoves: the limit is compared to the moves made before.
OutOfMovesLate == move_count > MaxMovesMultiplier * Len(snake)

OutOfMoves == move_count + 1 > MaxMovesMultiplier * Len(snake)

-----------------------------------------------------------------------------
\* _new_state: the snake lies in the middle row with its head to the right.
NewSnake ==
    LET x == IF Width \div 2 >= InitialLength - 1 THEN Width \div 2 ELSE InitialLength - 1
    IN [i \in 1..InitialLength |-> <<x - (i - 1), Height \div 2>>]

Init ==
    /\ snake = NewSnake /\ direction = <<1, 0>> /\ food \in RandomFree(NewSnake)
    /\ score = 0 /\ move_count = 0
    /\ done = FALSE /\ outcome = "none"

Reset ==
    /\ snake' = NewSnake /\ direction' = <<1, 0>> /\ food' \in RandomFree(NewSnake)
    /\ score' = 0 /\ move_count' = 0
    /\ done' = FALSE /\ outcome' = "none"

\* The game ends where it is: only the move is counted.
End(result) ==
    /\ done' = TRUE /\ outcome' = result /\ move_count' = move_count + 1
    /\ UNCHANGED <<snake, direction, food, score>>

RunOut(action) == ~done /\ OutOfMoves /\ End("max_moves")

HitWall(action) ==
    /\ ~done /\ ~OutOfMoves /\ ~Contains(NewHead(action))
    /\ End("wall")

HitSnake(action) ==
    /\ ~done /\ ~OutOfMoves /\ Contains(NewHead(action)) /\ Collides(action)
    /\ End("snake")

\* Mutant of Moves: the move is not counted.
MovesUncounted(action) ==
    /\ ~done /\ ~OutOfMoves /\ ~Collides(action)
    /\ direction' = Turned(direction, action) /\ UNCHANGED move_count

Moves(action) ==
    /\ ~done /\ ~OutOfMoves /\ ~Collides(action)
    /\ direction' = Turned(direction, action) /\ move_count' = move_count + 1

Eat(action) ==
    /\ Moves(action) /\ NewHead(action) = food
    /\ snake' = <<NewHead(action)>> \o snake
    /\ food' \in RandomFree(snake')
    /\ score' = score + 1
    /\ done' = (food' = NoFood)
    /\ outcome' = IF food' = NoFood THEN "board_filled" ELSE "food"

\* Mutant of Glide: the tail stays.
GlideAndGrow(action) ==
    /\ Moves(action) /\ NewHead(action) # food
    /\ snake' = <<NewHead(action)>> \o snake
    /\ outcome' = "empty"
    /\ UNCHANGED <<food, score, done>>

Glide(action) ==
    /\ Moves(action) /\ NewHead(action) # food
    /\ snake' = <<NewHead(action)>> \o SubSeq(snake, 1, Len(snake) - 1)
    /\ outcome' = "empty"
    /\ UNCHANGED <<food, score, done>>

Step(action) ==
    RunOut(action) \/ HitWall(action) \/ HitSnake(action) \/ Eat(action) \/ Glide(action)

Next == Reset \/ \E action \in Actions : Step(action)

Spec == Init /\ [][Next]_vars

\* The simulation plays its game on.
FairSpec == Spec /\ WF_vars(\E action \in Actions : Step(action))

-----------------------------------------------------------------------------
\* Every variable has the shape the code gives it; the snake is on the board.
TypeOK ==
    /\ snake \in Seq(Board) /\ Len(snake) > 0
    /\ direction \in Directions
    /\ food \in Board \union {NoFood}
    /\ score \in Nat /\ move_count \in Nat
    /\ done \in BOOLEAN /\ outcome \in Outcomes \union {"none"}

\* The snake never covers a cell twice and never breaks: each cell follows the
\* one before it by one move, and the head left its neck in its direction.
SnakeIsAPath ==
    /\ \A i, j \in DOMAIN snake : snake[i] = snake[j] => i = j
    /\ \A i \in 2..Len(snake) :
         <<snake[i - 1][1] - snake[i][1], snake[i - 1][2] - snake[i][2]>> \in Directions
    /\ Len(snake) > 1 =>
         <<snake[1][1] - snake[2][1], snake[1][2] - snake[2][2]>> = direction

\* Food never lies under the snake, and lacks only when the snake is everywhere,
\* which ends the game: no game waits for a food it cannot reach.
FoodIsFree ==
    /\ food \notin Cells(snake)
    /\ food = NoFood <=> Cells(snake) = Board
    /\ food = NoFood => done

\* The score is what the snake has grown by (the body and the score are kept
\* apart), so that it fits on the board.
ScoreIsGrowth ==
    Len(snake) = InitialLength + score /\ score <= Width * Height - InitialLength

\* No game lasts longer than its snake earns: the limit grows with the snake, and
\* the one move past it ends the game.
MovesAreBounded ==
    /\ move_count <= MaxMovesMultiplier * Len(snake) + 1
    /\ move_count > MaxMovesMultiplier * Len(snake) => done /\ outcome = "max_moves"

\* A snake of at most four cells cannot bite itself: the only cell of its own
\* that its head can reach is the one its tail is leaving.
ShortSnakesDoNotBite == outcome = "snake" => Len(snake) > 4

\* What a move shows is a board of the game: a snake in one piece, a food it can reach
\* and a score that is its growth; and no game is lost to a bite that cannot happen.
BoardIsSound ==
    TypeOK /\ SnakeIsAPath /\ FoodIsFree /\ ScoreIsGrowth /\ ShortSnakesDoNotBite

\* A game that is not given up for a new one ends.
GamesEnd == []<><<Reset>>_vars \/ []<>done
================================================================================
