---------------------------- MODULE SimulatorProofs ----------------------------
(***************************************************************************)
(* Theorems about Simulator and its ReplayMemory, for any number of         *)
(* episodes of any length, any schedule and a memory of any size.           *)
(***************************************************************************)
EXTENDS Simulator, FiniteSetTheorems, WellFoundedInduction, TLAPS

-----------------------------------------------------------------------------
(* Recursion up to a bound: the functions by which Total, Eligible and Power *)
(* are defined exist, and are determined by their equations.                 *)

\* Some set of numbers that is not empty has a least one.
LEMMA Least ==
  ASSUME NEW S \in SUBSET Nat, S # {}
  PROVE  \E i \in S : \A j \in S : ~ (j < i)
<1> DEFINE R == OpToRel(<, Nat)
<1>1. IsWellFoundedOn(R, Nat)
  BY NatLessThanWellFounded
<1>2. \A i, j \in S : j < i => <<j, i>> \in R
  BY DEF OpToRel
<1> HIDE DEF R
<1>3. PICK i \in S : \A j \in S : ~ (<<j, i>> \in R)
  BY <1>1, WFMin
<1> QED
  BY <1>2, <1>3

Follows(f, a, F, n, V) ==
    /\ f \in [0..n -> V]
    /\ f[0] = a
    /\ \A k \in 1..n : f[k] = F[<<k, f[k - 1]>>]

LEMMA RecursionExists ==
  ASSUME NEW V, NEW a \in V, NEW F \in [Nat \X V -> V], NEW N \in Nat
  PROVE  \E f : Follows(f, a, F, N, V)
<1> DEFINE B == {n \in Nat : ~ \E f : Follows(f, a, F, n, V)}
<1> SUFFICES ASSUME B # {} PROVE FALSE
  OBVIOUS
<1>1. PICK m \in B : \A j \in B : ~ (j < m)
  <2>1. B \in SUBSET Nat
    OBVIOUS
  <2> HIDE DEF B
  <2> QED
    BY <2>1, Least
<1>2. m \in Nat /\ ~ \E f : Follows(f, a, F, m, V)
  BY <1>1
<1>3. CASE m = 0
  <2>1. Follows([k \in 0..0 |-> a], a, F, 0, V)
    BY DEF Follows
  <2> QED
    BY <1>2, <1>3, <2>1
<1>4. CASE m # 0
  <2>1. m - 1 \in Nat /\ m - 1 < m
    BY <1>2, <1>4
  <2>2. PICK f : Follows(f, a, F, m - 1, V)
    BY <1>1, <2>1
  <2> HIDE DEF B
  <2>3. f[m - 1] \in V
    BY <1>2, <2>1, <2>2 DEF Follows
  <2>10. <<m, f[m - 1]>> \in Nat \X V
    BY <1>2, <2>3
  <2>11. PICK x \in V : x = F[<<m, f[m - 1]>>]
    BY <2>10
  <2> PICK g : g = [k \in 0..m |-> IF k = m THEN x ELSE f[k]]
    OBVIOUS
  <2>4. \A k \in 0..m : k # m => k \in 0..(m - 1)
    BY <1>2
  <2>5. g \in [0..m -> V]
    BY <2>2, <2>11, <2>4 DEF Follows
  <2>6. g[0] = a
    BY <1>2, <1>4, <2>2 DEF Follows
  <2>7. ASSUME NEW k \in 1..m
        PROVE  g[k] = F[<<k, g[k - 1]>>]
    <3>1. k \in 0..m /\ k - 1 \in 0..m /\ k - 1 # m
      BY <1>2
    <3>2. g[k - 1] = f[k - 1]
      BY <3>1
    <3>3. CASE k = m
      <4>1. g[k] = x
        BY <3>1, <3>3
      <4> QED
        BY <3>2, <3>3, <4>1, <2>11
    <3>4. CASE k # m
      <4>1. k \in 1..(m - 1)
        BY <1>2, <3>4
      <4>2. f[k] = F[<<k, f[k - 1]>>]
        BY <2>2, <4>1 DEF Follows
      <4>3. g[k] = f[k]
        BY <3>1, <3>4
      <4> QED
        BY <3>2, <4>2, <4>3
    <3> QED
      BY <3>3, <3>4
  <2>8. Follows(g, a, F, m, V)
    BY <2>5, <2>6, <2>7 DEF Follows
  <2> QED
    BY <1>2, <2>8
<1> QED
  BY <1>3, <1>4

SameRule(F, G, n, V) == \A k \in 1..n, x \in V : F[<<k, x>>] = G[<<k, x>>]

\* Two functions that follow the same rule agree as far as they both go.
LEMMA RecursionIsUnique ==
  ASSUME NEW V, NEW a, NEW F, NEW G, NEW N \in Nat, NEW M \in Nat, N <= M,
         NEW f, Follows(f, a, F, N, V), NEW g, Follows(g, a, G, M, V),
         SameRule(F, G, N, V)
  PROVE  \A k \in 0..N : f[k] = g[k]
<1> DEFINE B == {k \in 0..N : f[k] # g[k]}
<1> SUFFICES ASSUME B # {} PROVE FALSE
  OBVIOUS
<1>1. PICK m \in B : \A j \in B : ~ (j < m)
  <2>1. B \in SUBSET Nat
    OBVIOUS
  <2> HIDE DEF B
  <2> QED
    BY <2>1, Least
<1>2. m \in 0..N /\ f[m] # g[m]
  BY <1>1
<1>3. m # 0
  BY <1>2 DEF Follows
<1>4. m \in 1..N /\ m \in 1..M /\ m - 1 \in 0..N /\ m - 1 < m
  BY <1>2, <1>3
<1>5. f[m - 1] = g[m - 1]
  BY <1>1, <1>4
<1> HIDE DEF B
<1>6. f[m - 1] \in V
  BY <1>4 DEF Follows
<1>7. f[m] = F[<<m, f[m - 1]>>] /\ g[m] = G[<<m, g[m - 1]>>]
  BY <1>4 DEF Follows
<1>8. F[<<m, f[m - 1]>>] = G[<<m, f[m - 1]>>]
  BY <1>4, <1>6 DEF SameRule
<1> QED
  BY <1>2, <1>5, <1>7, <1>8
-----------------------------------------------------------------------------
(* Total                                                                    *)

Adds(s) == [p \in Nat \X Nat |-> IF p[1] \in 1..Len(s) THEN p[2] + s[p[1]] ELSE 0]

LEMMA AddsType ==
  ASSUME NEW s \in Seq(Nat)
  PROVE  /\ Adds(s) \in [Nat \X Nat -> Nat]
         /\ \A k \in 1..Len(s), x \in Nat : Adds(s)[<<k, x>>] = x + s[k]
<1>1. ASSUME NEW p \in Nat \X Nat
      PROVE  (IF p[1] \in 1..Len(s) THEN p[2] + s[p[1]] ELSE 0) \in Nat
  <2>1. p[1] \in Nat /\ p[2] \in Nat
    OBVIOUS
  <2>2. \A i \in 1..Len(s) : s[i] \in Nat
    OBVIOUS
  <2> QED
    BY <2>1, <2>2
<1>2. Adds(s) \in [Nat \X Nat -> Nat]
  BY <1>1 DEF Adds
<1>3. ASSUME NEW k \in 1..Len(s), NEW x \in Nat
      PROVE  Adds(s)[<<k, x>>] = x + s[k]
  <2>1. <<k, x>> \in Nat \X Nat
    OBVIOUS
  <2> QED
    BY <2>1 DEF Adds
<1> QED
  BY <1>2, <1>3

LEMMA TotalFollows ==
  ASSUME NEW s \in Seq(Nat)
  PROVE  \E f : Follows(f, 0, Adds(s), Len(s), Nat) /\ Replay!Total(s) = f[Len(s)]
<1> DEFINE rule(f) == f = [n \in 0..Len(s) |-> IF n = 0 THEN 0 ELSE f[n - 1] + s[n]]
           sum == CHOOSE f : rule(f)
<1>1. Replay!Total(s) = sum[Len(s)]
  BY DEF Replay!Total
<1>2. Len(s) \in Nat
  OBVIOUS
<1>3. PICK f : Follows(f, 0, Adds(s), Len(s), Nat)
  BY <1>2, AddsType, RecursionExists
<1>4. \A n \in 0..Len(s) : f[n] = IF n = 0 THEN 0 ELSE f[n - 1] + s[n]
  <2> SUFFICES ASSUME NEW n \in 0..Len(s), n # 0 PROVE f[n] = f[n - 1] + s[n]
    BY <1>3 DEF Follows
  <2>1. n \in 1..Len(s) /\ n - 1 \in 0..Len(s)
    BY <1>2
  <2>2. f[n] = Adds(s)[<<n, f[n - 1]>>] /\ f[n - 1] \in Nat
    BY <1>3, <2>1 DEF Follows
  <2> QED
    BY <2>1, <2>2, AddsType
<1>5. rule(f)
  BY <1>3, <1>4 DEF Follows
<1>6. rule(sum)
  BY <1>5
<1> HIDE DEF sum
<1>7. \A n \in 0..Len(s) : sum[n] = IF n = 0 THEN 0 ELSE sum[n - 1] + s[n]
  BY <1>6
<1>8. \A n \in 0..Len(s) : sum[n] = f[n]
  <2> DEFINE B == {n \in 0..Len(s) : sum[n] # f[n]}
  <2> SUFFICES ASSUME B # {} PROVE FALSE
    OBVIOUS
  <2>1. PICK m \in B : \A j \in B : ~ (j < m)
    <3>1. B \in SUBSET Nat
      OBVIOUS
    <3> HIDE DEF B
    <3> QED
      BY <3>1, Least
  <2>2. m \in 0..Len(s) /\ sum[m] # f[m]
    BY <2>1
  <2>3. m # 0
    BY <1>4, <1>7, <2>2
  <2>4. m - 1 \in 0..Len(s) /\ m - 1 < m
    BY <1>2, <2>2, <2>3
  <2>5. sum[m - 1] = f[m - 1]
    BY <2>1, <2>4
  <2> QED
    BY <1>4, <1>7, <2>2, <2>3, <2>5
<1>9. Replay!Total(s) = f[Len(s)]
  BY <1>1, <1>2, <1>8
<1> QED
  BY <1>3, <1>9

\* The sum of a sequence that is one longer is the sum of the sequence and of the rest.
LEMMA TotalGrows ==
  ASSUME NEW s \in Seq(Nat), NEW t \in Seq(Nat), Len(t) = Len(s) + 1,
         \A i \in 1..Len(s) : t[i] = s[i]
  PROVE  Replay!Total(s) \in Nat /\ Replay!Total(t) = Replay!Total(s) + t[Len(t)]
<1>1. PICK f : Follows(f, 0, Adds(s), Len(s), Nat) /\ Replay!Total(s) = f[Len(s)]
  BY TotalFollows
<1>2. PICK g : Follows(g, 0, Adds(t), Len(t), Nat) /\ Replay!Total(t) = g[Len(t)]
  BY TotalFollows
<1>3. Len(s) \in Nat /\ Len(t) \in Nat /\ Len(s) <= Len(t)
  OBVIOUS
<1>4. \A k \in 1..Len(s), x \in Nat : Adds(s)[<<k, x>>] = Adds(t)[<<k, x>>]
  <2> SUFFICES ASSUME NEW k \in 1..Len(s), NEW x \in Nat
               PROVE  Adds(s)[<<k, x>>] = Adds(t)[<<k, x>>]
    OBVIOUS
  <2>1. k \in 1..Len(t) /\ t[k] = s[k]
    BY <1>3, SMTT(30)
  <2> QED
    BY <2>1, AddsType, ZenonT(30)
<1>5. \A k \in 0..Len(s) : f[k] = g[k]
  <2> PICK F, G, N, M : F = Adds(s) /\ G = Adds(t) /\ N = Len(s) /\ M = Len(t)
    OBVIOUS
  <2>1. /\ N \in Nat /\ M \in Nat /\ N <= M /\ Follows(f, 0, F, N, Nat) /\ Follows(g, 0, G, M, Nat)
        /\ SameRule(F, G, N, Nat)
    BY <1>1, <1>2, <1>3, <1>4 DEF SameRule
  <2>2. \A k \in 0..N : f[k] = g[k]
    BY ONLY <2>1, RecursionIsUnique
  <2> QED
    BY <2>2
<1>6. f[Len(s)] = g[Len(s)]
  BY <1>3, <1>5
<1>7. Len(t) \in 1..Len(t) /\ Len(t) - 1 = Len(s)
  BY <1>3
<1>8. g[Len(t)] = Adds(t)[<<Len(t), g[Len(s)]>>] /\ f[Len(s)] \in Nat
  <2>1. /\ \A k \in 1..Len(t) : g[k] = Adds(t)[<<k, g[k - 1]>>]
        /\ f \in [0..Len(s) -> Nat]
    BY <1>1, <1>2 DEF Follows
  <2>2. Len(s) \in 0..Len(s)
    BY <1>3
  <2> QED
    BY <2>1, <2>2, <1>7
<1>9. Adds(t)[<<Len(t), g[Len(s)]>>] = g[Len(s)] + t[Len(t)]
  BY <1>6, <1>7, <1>8, AddsType
<1> QED
  BY <1>1, <1>2, <1>6, <1>8, <1>9

LEMMA TotalOfNothing == Replay!Total(<<>>) = 0
<1> PICK s : s = <<>>
  OBVIOUS
<1>0. s \in Seq(Nat)
  OBVIOUS
<1>1. PICK f : Follows(f, 0, Adds(s), Len(s), Nat) /\ Replay!Total(s) = f[Len(s)]
  BY <1>0, TotalFollows
<1> QED
  BY <1>1 DEF Follows

-----------------------------------------------------------------------------
(* Power                                                                    *)

Multiplies(d) == [p \in Nat \X Nat |-> d * p[2]]

LEMMA MultipliesType ==
  ASSUME NEW d \in Nat
  PROVE  /\ Multiplies(d) \in [Nat \X Nat -> Nat]
         /\ \A k, x \in Nat : Multiplies(d)[<<k, x>>] = d * x
<1>1. \A p \in Nat \X Nat : d * p[2] \in Nat
  OBVIOUS
<1>2. Multiplies(d) \in [Nat \X Nat -> Nat]
  BY <1>1 DEF Multiplies
<1>3. ASSUME NEW k \in Nat, NEW x \in Nat
      PROVE  Multiplies(d)[<<k, x>>] = d * x
  <2>1. <<k, x>> \in Nat \X Nat
    OBVIOUS
  <2> QED
    BY <2>1 DEF Multiplies
<1> QED
  BY <1>2, <1>3

LEMMA PowerFollows ==
  ASSUME NEW d \in Nat, NEW N \in Nat
  PROVE  \E f : Follows(f, 1, Multiplies(d), N, Nat) /\ Power(d, N) = f[N]
<1> DEFINE rule(f) == f = [k \in 0..N |-> IF k = 0 THEN 1 ELSE d * f[k - 1]]
           power == CHOOSE f : rule(f)
<1>1. Power(d, N) = power[N]
  BY DEF Power
<1>3. PICK f : Follows(f, 1, Multiplies(d), N, Nat)
  BY MultipliesType, RecursionExists
<1>4. \A n \in 0..N : f[n] = IF n = 0 THEN 1 ELSE d * f[n - 1]
  <2> SUFFICES ASSUME NEW n \in 0..N, n # 0 PROVE f[n] = d * f[n - 1]
    BY <1>3 DEF Follows
  <2>1. n \in 1..N /\ n - 1 \in 0..N /\ n \in Nat
    OBVIOUS
  <2>2. f[n] = Multiplies(d)[<<n, f[n - 1]>>] /\ f[n - 1] \in Nat
    BY <1>3, <2>1 DEF Follows
  <2> QED
    BY <2>1, <2>2, MultipliesType
<1>5. rule(f)
  BY <1>3, <1>4 DEF Follows
<1>6. rule(power)
  BY <1>5
<1> HIDE DEF power
<1>7. \A n \in 0..N : power[n] = IF n = 0 THEN 1 ELSE d * power[n - 1]
  BY <1>6
<1>8. \A n \in 0..N : power[n] = f[n]
  <2> DEFINE B == {n \in 0..N : power[n] # f[n]}
  <2> SUFFICES ASSUME B # {} PROVE FALSE
    OBVIOUS
  <2>1. PICK m \in B : \A j \in B : ~ (j < m)
    <3>1. B \in SUBSET Nat
      OBVIOUS
    <3> HIDE DEF B
    <3> QED
      BY <3>1, Least
  <2>2. m \in 0..N /\ power[m] # f[m]
    BY <2>1
  <2>3. m # 0
    BY <1>4, <1>7, <2>2
  <2>4. m - 1 \in 0..N /\ m - 1 < m
    BY <2>2, <2>3
  <2>5. power[m - 1] = f[m - 1]
    BY <2>1, <2>4
  <2>6. power[m] = d * power[m - 1] /\ f[m] = d * f[m - 1]
    BY <1>4, <1>7, <2>2, <2>3
  <2> QED
    BY <2>2, <2>5, <2>6
<1>9. Power(d, N) = f[N]
  BY <1>1, <1>8
<1> QED
  BY <1>3, <1>9

LEMMA PowerGrows ==
  ASSUME NEW d \in Nat \ {0}, NEW n \in Nat
  PROVE  Power(d, 0) = 1 /\ Power(d, n) \in Nat \ {0} /\ Power(d, n + 1) = d * Power(d, n)
<1>1. Power(d, 0) = 1
  <2>1. PICK f : Follows(f, 1, Multiplies(d), 0, Nat) /\ Power(d, 0) = f[0]
    BY PowerFollows
  <2> QED
    BY <2>1 DEF Follows
<1>2. ASSUME NEW k \in Nat
      PROVE  Power(d, k) \in Nat /\ Power(d, k + 1) = d * Power(d, k)
  <2>1. PICK f : Follows(f, 1, Multiplies(d), k, Nat) /\ Power(d, k) = f[k]
    BY PowerFollows
  <2>2. PICK g : Follows(g, 1, Multiplies(d), k + 1, Nat) /\ Power(d, k + 1) = g[k + 1]
    BY PowerFollows
  <2>3. \A j \in 0..k : f[j] = g[j]
    <3> PICK F : F = Multiplies(d)
      OBVIOUS
    <3>1. /\ k \in Nat /\ k + 1 \in Nat /\ k <= k + 1
          /\ Follows(f, 1, F, k, Nat) /\ Follows(g, 1, F, k + 1, Nat)
          /\ SameRule(F, F, k, Nat)
      BY <2>1, <2>2 DEF SameRule
    <3> QED
      BY ONLY <3>1, RecursionIsUnique
  <2>4. f[k] = g[k] /\ f[k] \in Nat
    BY <2>1, <2>3 DEF Follows
  <2>5. g[k + 1] = Multiplies(d)[<<k + 1, g[k]>>]
    <3>1. k + 1 \in 1..(k + 1) /\ (k + 1) - 1 = k
      OBVIOUS
    <3> QED
      BY <2>2, <3>1 DEF Follows
  <2> QED
    BY <2>1, <2>2, <2>4, <2>5, MultipliesType
<1>3. Power(d, n) # 0
  <2> DEFINE B == {k \in Nat : Power(d, k) = 0}
  <2> SUFFICES ASSUME B # {} PROVE FALSE
    OBVIOUS
  <2>1. PICK m \in B : \A j \in B : ~ (j < m)
    <3>1. B \in SUBSET Nat
      OBVIOUS
    <3> HIDE DEF B
    <3> QED
      BY <3>1, Least
  <2>2. m \in Nat /\ Power(d, m) = 0 /\ m # 0
    BY <1>1, <2>1
  <2>3. m - 1 \in Nat /\ m - 1 < m /\ (m - 1) + 1 = m
    BY <2>2
  <2>4. Power(d, m - 1) # 0
    BY <2>1, <2>3
  <2>5. Power(d, m - 1) \in Nat /\ Power(d, m) = d * Power(d, m - 1)
    BY <1>2, <2>3
  <2> HIDE DEF B
  <2>6. ASSUME NEW x \in Nat, x # 0 PROVE d * x # 0
    BY <2>6
  <2> QED
    BY <2>2, <2>4, <2>5, <2>6
<1> QED
  BY <1>1, <1>2, <1>3
-----------------------------------------------------------------------------
(* The invariants                                                           *)

Frame == [episode : Nat, move_count : Nat, score : Nat]
Game == [frames : Seq(Frame), injections : Nat]
Reported == [episode : Nat, score : Nat, steps : Nat, epsilon : Nat, epsilon_injections : Nat]

\* The boards of a game, one for every move, with a score that never falls.
IsGame(f) ==
    /\ f \in Seq(Frame) /\ f # <<>>
    /\ \A i \in 1..Len(f) : f[i].episode # 0 /\ f[i].move_count = i - 1
    /\ \A i, j \in 1..Len(f) : i <= j => f[i].score <= f[j].score

\* The first board of f with the score that f ends with.
IsFirstBest(board, f) ==
    \E k \in 1..Len(f) :
        /\ board = f[k] /\ f[k].score = f[Len(f)].score
        /\ \A i \in 1..Len(f) : f[i].score = f[Len(f)].score => k <= i

\* What an epsilon of 0 and one of 1 say of the injections of the game f.
IsInjected(e, n, f) ==
    /\ e = 0 => n = 0
    /\ e = Scale => n = Len(f) - 1

\* Where run is, how many games there are, and what the one that is played looks like.
GamesArePlayed ==
    /\ place \in {"between", "playing", "over", "left"}
    /\ state.completed_epochs \in Nat
    /\ epsilon \in Nat /\ injections \in Nat
    /\ games \in Seq(Game)
    /\ Len(games) \in {state.completed_epochs, state.completed_epochs + 1}
    /\ \A i \in 1..Len(games) : IsGame(games[i].frames)
    /\ place \in {"between", "playing"} => Len(games) = state.completed_epochs
    /\ place = "between" => injections = 0
    /\ place \in {"playing", "over"} =>
          /\ IsGame(frames) /\ IsFirstBest(current_board, frames)
          /\ episode_epsilon = epsilon /\ IsInjected(epsilon, injections, frames)
    /\ place = "over" =>
          /\ Len(games) = state.completed_epochs + 1
          /\ games[Len(games)] = [frames |-> frames, injections |-> injections]

\* g[b] is the most recent of the first n games in g with the highest score.
IsBest(b, g, n) ==
    \A i \in 1..n : /\ Score(g[i]) <= Score(g[b])
                    /\ Score(g[i]) = Score(g[b]) => i <= b

\* What is kept, and of which game.
IsKept(kept, g, n) ==
    /\ n = 0 => kept.snapshot = NoBoard /\ kept.high_score = 0
    /\ n # 0 => \E b \in 1..n :
                  /\ IsBest(b, g, n)
                  /\ kept.frames = g[b].frames
                  /\ IsFirstBest(kept.snapshot, g[b].frames)
                  /\ kept.high_score = Score(g[b])

\* A result and the game it reports.
IsOf(result, game) ==
    /\ result.score = Score(game) /\ result.steps = Len(game.frames) - 1
    /\ result.epsilon_injections = game.injections
    /\ IsInjected(result.epsilon, game.injections, game.frames)

Steps(results) == [i \in DOMAIN results |-> results[i].steps]
Injections(results) == [i \in DOMAIN results |-> results[i].epsilon_injections]

\* Every episode is reported, and the totals are those of the reports.
AreReported(kept, g, n) ==
    /\ kept.episodes \in Seq(Reported) /\ Len(kept.episodes) = n
    /\ \A i \in 1..n : IsOf(kept.episodes[i], g[i])
    /\ kept.total_steps = Replay!Total(Steps(kept.episodes))
    /\ kept.total_epsilon_injections = Replay!Total(Injections(kept.episodes))

IInv ==
    /\ GamesArePlayed
    /\ IsKept(state, games, state.completed_epochs)
    /\ AreReported(state, games, state.completed_epochs)

\* The schedule, and where it is.
EInv ==
    /\ schedule \in [initial : Nat, minimum : Nat, divisor : Nat \ {0}]
    /\ state.completed_epochs \in Nat
    /\ EpsilonIsScheduled
-----------------------------------------------------------------------------
(* Whole quotients                                                          *)

\* What a quotient is.
LEMMA DivBounds ==
  ASSUME NEW a \in Nat, NEW b \in Nat \ {0}
  PROVE  a \div b \in Nat /\ b * (a \div b) <= a /\ a < b * (a \div b) + b
OBVIOUS

\* A product is larger by its factor when the other one is larger by 1.
LEMMA ProductGrows ==
  ASSUME NEW b \in Nat, NEW x \in Nat, NEW y \in Nat, x < y
  PROVE  b * x + b <= b * y
<1>1. PICK z \in Nat : y = x + 1 + z
  <2>1. y - x - 1 \in Nat /\ y = x + 1 + (y - x - 1)
    OBVIOUS
  <2> QED
    BY <2>1
<1>2. b * y = b * x + b + b * z
  BY <1>1
<1>3. b * z \in Nat
  OBVIOUS
<1>4. b * x \in Nat /\ b * y \in Nat
  OBVIOUS
<1> QED
  BY <1>2, <1>3, <1>4

\* A quotient is determined by its bounds.
LEMMA DivUnique ==
  ASSUME NEW a \in Nat, NEW b \in Nat \ {0}, NEW q \in Nat, b * q <= a, a < b * q + b
  PROVE  a \div b = q
<1> PICK p : p = a \div b
  OBVIOUS
<1>1. p \in Nat /\ b * p <= a /\ a < b * p + b
  BY DivBounds
<1>2. CASE p < q
  <2>1. b * p + b <= b * q
    BY <1>1, <1>2, ProductGrows
  <2>2. b * p \in Nat /\ b * q \in Nat
    BY <1>1
  <2> QED
    BY <1>1, <2>1, <2>2
<1>3. CASE q < p
  <2>1. b * q + b <= b * p
    BY <1>1, <1>3, ProductGrows
  <2>2. b * p \in Nat /\ b * q \in Nat
    BY <1>1
  <2> QED
    BY <1>1, <2>1, <2>2
<1> QED
  BY <1>1, <1>2, <1>3

\* Dividing twice is dividing by the product.
LEMMA DivDiv ==
  ASSUME NEW a \in Nat, NEW b \in Nat \ {0}, NEW d \in Nat \ {0}
  PROVE  (a \div b) \div d = a \div (d * b)
<1> PICK q, r : q = a \div b /\ r = q \div d
  OBVIOUS
<1>1. q \in Nat /\ b * q <= a /\ a < b * q + b
  BY DivBounds
<1>2. r \in Nat /\ d * r <= q /\ q < d * r + d
  BY <1>1, DivBounds
<1>3. d * b \in Nat \ {0}
  OBVIOUS
<1>5. d * r \in Nat /\ d * r + d \in Nat
  BY <1>2
<1>4. b * (d * r) <= b * q
  <2>1. CASE d * r = q
    BY <2>1, <1>1
  <2>2. CASE d * r < q
    <3>1. b * (d * r) + b <= b * q
      BY <1>1, <1>5, <2>2, ProductGrows
    <3>2. b * (d * r) \in Nat /\ b * q \in Nat
      BY <1>1, <1>5
    <3> QED
      BY <3>1, <3>2
  <2> QED
    BY <1>1, <1>2, <1>5, <2>1, <2>2
<1>6. b * q + b <= b * (d * r + d)
  BY <1>1, <1>2, <1>5, ProductGrows
<1>7. b * (d * r) = (d * b) * r /\ b * (d * r + d) = (d * b) * r + d * b
  BY <1>2
<1>8. b * q \in Nat /\ (d * b) * r \in Nat
  BY <1>1, <1>2
<1>9. (d * b) * r <= a /\ a < (d * b) * r + d * b
  BY <1>1, <1>4, <1>6, <1>7, <1>8, <1>3
<1>10. a \div (d * b) = r
  BY <1>2, <1>3, <1>9, DivUnique
<1> QED
  BY <1>10

LEMMA DivSmaller ==
  ASSUME NEW a \in Nat, NEW d \in Nat \ {0}
  PROVE  a \div d <= a /\ a \div 1 = a /\ 0 \div d = 0
<1>1. a \div d <= a
  <2> PICK q : q = a \div d
    OBVIOUS
  <2>1. q \in Nat /\ d * q <= a
    BY DivBounds
  <2>2. q <= d * q
    <3>1. PICK e \in Nat : d = e + 1
      <4>1. d - 1 \in Nat /\ d = (d - 1) + 1
        OBVIOUS
      <4> QED
        BY <4>1
    <3>2. d * q = e * q + q /\ e * q \in Nat
      BY <2>1, <3>1
    <3> QED
      BY <2>1, <3>2
  <2>3. d * q \in Nat
    BY <2>1
  <2> QED
    BY <2>1, <2>2, <2>3
<1>2. a \div 1 = a
  BY DivUnique
<1>3. 0 \div d = 0
  BY DivUnique
<1> QED
  BY <1>1, <1>2, <1>3

LEMMA MaxOfTwo ==
  ASSUME NEW a \in Nat, NEW b \in Nat
  PROVE  Max({a, b}) = IF a <= b THEN b ELSE a
<1>1. \E x \in {a, b} : \A y \in {a, b} : x >= y
  OBVIOUS
<1>2. Max({a, b}) \in {a, b} /\ \A y \in {a, b} : Max({a, b}) >= y
  BY <1>1 DEF Max
<1> QED
  BY <1>2

-----------------------------------------------------------------------------
(* The schedule                                                             *)

\* One decay takes the value of the formula to its next value.
LEMMA ScheduleStep ==
  ASSUME NEW n \in Nat, EInv, SimulatorAssumption, n = state.completed_epochs
  PROVE  NextEpsilon(schedule, epsilon) = Scheduled(n + 1)
<1> PICK i, m, d, P : /\ i = schedule.initial /\ m = schedule.minimum
                      /\ d = schedule.divisor /\ P = Power(d, n)
  OBVIOUS
<1>1. i \in Nat /\ m \in Nat /\ d \in Nat \ {0} /\ Cutoff \in Nat \ {0}
  BY DEF EInv, SimulatorAssumption
<1>2. P \in Nat \ {0} /\ Power(d, 0) = 1 /\ Power(d, n + 1) = d * P
  BY <1>1, PowerGrows
<1> PICK q, r : q = i \div P /\ r = q \div d
  OBVIOUS
<1>3. q \in Nat /\ r \in Nat /\ r <= q /\ i \div (d * P) = r
  <2>1. q \in Nat
    BY <1>1, <1>2, DivBounds
  <2>2. r \in Nat /\ r <= q
    BY <1>1, <2>1, DivBounds, DivSmaller
  <2>3. (i \div P) \div d = i \div (d * P)
    BY <1>1, <1>2, DivDiv
  <2> QED
    BY <2>1, <2>2, <2>3
<1>4. Scheduled(n + 1) = IF r < Cutoff /\ m = 0 THEN 0 ELSE Max({m, r})
  <2>1. n + 1 # 0 /\ schedule.initial \div Power(schedule.divisor, n + 1) = r
    BY <1>2, <1>3
  <2> QED
    BY <2>1 DEF Scheduled
<1>5. n = 0 => epsilon = i /\ q = i
  BY <1>1, <1>2, DivSmaller DEF EInv, EpsilonIsScheduled, Scheduled
<1>6. n # 0 => epsilon = IF q < Cutoff /\ m = 0 THEN 0 ELSE Max({m, q})
  BY DEF EInv, EpsilonIsScheduled, Scheduled
<1>7. NextEpsilon(schedule, epsilon) =
        IF m = 0 /\ Max({m, epsilon \div d}) < Cutoff THEN 0 ELSE Max({m, epsilon \div d})
  BY DEF NextEpsilon
<1>8. /\ 0 \div d = 0
      /\ m \div d \in Nat /\ m \div d <= m
  BY <1>1, DivBounds, DivSmaller
<1>9. \A x \in Nat : Max({m, x}) = IF m <= x THEN x ELSE m
  BY <1>1, MaxOfTwo
<1>10. CASE epsilon = q
  <2>1. epsilon \div d = r
    BY <1>10
  <2> QED
    BY <1>1, <1>3, <1>4, <1>7, <1>9, <2>1
<1>11. CASE n # 0 /\ q < Cutoff /\ m = 0
  <2>1. epsilon \div d = 0
    BY <1>6, <1>8, <1>11
  <2>2. Max({m, 0}) = 0
    BY <1>9, <1>11
  <2>3. NextEpsilon(schedule, epsilon) = 0
    BY <1>7, <2>1, <2>2
  <2>4. Scheduled(n + 1) = 0
    BY <1>1, <1>3, <1>4, <1>11
  <2> QED
    BY <2>3, <2>4
<1>12. CASE n # 0 /\ m # 0
  <2>1. CASE m <= q
    <3>1. epsilon = q
      BY <1>3, <1>6, <1>9, <1>12, <2>1
    <3> QED
      BY <1>10, <3>1
  <2>2. CASE q < m
    <3>1. epsilon = m
      BY <1>1, <1>3, <1>6, <1>9, <1>12, <2>2
    <3>2. epsilon \div d \in Nat /\ epsilon \div d <= m
      BY <1>8, <3>1
    <3>3. Max({m, epsilon \div d}) = m
      BY <1>1, <1>9, <3>2
    <3>4. Max({m, r}) = m
      BY <1>1, <1>3, <1>9, <2>2
    <3>5. NextEpsilon(schedule, epsilon) = m
      BY <1>7, <1>12, <3>3
    <3>6. Scheduled(n + 1) = m
      BY <1>4, <1>12, <3>4
    <3> QED
      BY <3>5, <3>6
  <2> QED
    BY <1>1, <1>3, <2>1, <2>2
<1>13. n # 0 /\ ~ (q < Cutoff /\ m = 0) /\ m = 0 => epsilon = q
  BY <1>3, <1>6, <1>9
<1> QED
  BY <1>5, <1>10, <1>11, <1>12, <1>13

LEMMA InitHasSchedule == Init => EInv
<1> SUFFICES ASSUME Init PROVE EInv
  OBVIOUS
<1>1. schedule \in [initial : Nat, minimum : Nat, divisor : Nat \ {0}]
  <2>1. schedule \in [initial : Initials, minimum : Minimums, divisor : Divisors]
    BY DEF Init
  <2>2. Initials \subseteq Nat /\ Minimums \subseteq Nat /\ Divisors \subseteq Nat \ {0}
    BY SimulatorAssumption DEF SimulatorAssumption
  <2> QED
    BY <2>1, <2>2
<1>2. state.completed_epochs = 0 /\ epsilon = schedule.initial
  BY DEF Init
<1>3. EpsilonIsScheduled
  BY <1>2 DEF EpsilonIsScheduled, Scheduled
<1> QED
  BY <1>1, <1>2, <1>3 DEF EInv

LEMMA NextHasSchedule == EInv /\ [Next]_vars => EInv'
<1> SUFFICES ASSUME EInv, [Next]_vars PROVE EInv'
  OBVIOUS
<1>1. CASE UNCHANGED <<schedule, epsilon, state>>
  BY <1>1 DEF EInv, EpsilonIsScheduled, Scheduled
<1>2. CASE EndEpisode
  <2>1. schedule' = schedule /\ epsilon' = NextEpsilon(schedule, epsilon)
    BY <1>2 DEF EndEpisode
  <2>2. state'.completed_epochs = state.completed_epochs + 1
    BY <1>2 DEF EndEpisode, Recorded
  <2>3. state.completed_epochs \in Nat
    BY DEF EInv
  <2>4. epsilon' = Scheduled(state.completed_epochs + 1)
    BY <2>1, <2>3, ScheduleStep, SimulatorAssumption
  <2>5. EpsilonIsScheduled'
    BY <2>1, <2>2, <2>4 DEF EpsilonIsScheduled, Scheduled
  <2> QED
    BY <2>1, <2>2, <2>3, <2>5 DEF EInv
<1>3. CASE StartEpisode \/ Leave \/ \E inject, ate, done \in BOOLEAN : Step(inject, ate, done)
  <2>1. UNCHANGED <<schedule, epsilon, state>>
    BY <1>3 DEF StartEpisode, Leave, Step
  <2> QED
    BY <1>1, <2>1
<1>4. CASE UNCHANGED vars
  <2>1. UNCHANGED <<schedule, epsilon, state>>
    BY <1>4 DEF vars
  <2> QED
    BY <1>1, <2>1
<1> QED
  BY <1>2, <1>3, <1>4 DEF Next

\* After any number of episodes, and for any schedule, the epsilon that the steps arrived
\* at is the one of the formula: exponential down to the floor, and 0 for good once it
\* falls below the cutoff and there is no floor (EpsilonAlgo.played_game).
THEOREM ScheduleIsItsFormula == Spec => []EpsilonIsScheduled
<1>1. EInv => EpsilonIsScheduled
  BY DEF EInv
<1> QED
  BY <1>1, InitHasSchedule, NextHasSchedule, PTL DEF Spec

-----------------------------------------------------------------------------
(* Games                                                                    *)

LEMMA GameStarts ==
  ASSUME NEW e \in Nat \ {0}, NEW b, b = [episode |-> e, move_count |-> 0, score |-> 0]
  PROVE  IsGame(<<b>>) /\ IsFirstBest(b, <<b>>)
<1>1. b \in Frame
  BY DEF Frame
<1>2. <<b>> \in Seq(Frame) /\ <<b>> # <<>> /\ Len(<<b>>) = 1 /\ <<b>>[1] = b
  BY <1>1
<1> PICK f : f = <<b>>
  OBVIOUS
<1>3. IsGame(f)
  BY <1>2 DEF IsGame
<1>4. 1 \in 1..Len(f) /\ b = f[1]
  BY <1>2
<1>5. IsFirstBest(b, f)
  BY <1>2, <1>4 DEF IsFirstBest
<1> QED
  BY <1>3, <1>5

\* One move more, with one point more or none.
LEMMA GameGrows ==
  ASSUME NEW f, IsGame(f), NEW b \in Frame, NEW c, IsFirstBest(c, f),
         b.episode # 0, b.move_count = Len(f), f[Len(f)].score <= b.score
  PROVE  /\ IsGame(Append(f, b))
         /\ IsFirstBest(IF b.score > c.score THEN b ELSE c, Append(f, b))
<1> PICK g : g = Append(f, b)
  OBVIOUS
<1>1. f \in Seq(Frame) /\ Len(f) \in Nat \ {0}
  BY DEF IsGame
<1>2. /\ g \in Seq(Frame) /\ g # <<>> /\ Len(g) = Len(f) + 1 /\ g[Len(g)] = b
      /\ \A i \in 1..Len(f) : g[i] = f[i]
  BY <1>1
<1>3. \A i \in 1..Len(f) : f[i] \in Frame
  BY <1>1
<1>4. \A i \in 1..Len(f) : f[i].score \in Nat /\ f[i].score <= f[Len(f)].score
  BY <1>1, <1>3 DEF IsGame, Frame
<1>5. b.score \in Nat
  BY DEF Frame
<1>6. \A i \in 1..Len(g) : i \in 1..Len(f) \/ i = Len(g)
  BY <1>1, <1>2
<1>7. \A i \in 1..Len(g) : g[i].episode # 0 /\ g[i].move_count = i - 1
  BY <1>1, <1>2, <1>6 DEF IsGame
<1>8. ASSUME NEW i \in 1..Len(g), NEW j \in 1..Len(g), i <= j
      PROVE  g[i].score <= g[j].score
  <2>1. CASE j \in 1..Len(f)
    <3>1. i \in 1..Len(f)
      BY <1>1, <1>8, <2>1
    <3> QED
      BY <1>2, <1>8, <2>1, <3>1 DEF IsGame
  <2>2. CASE j = Len(g) /\ i = Len(g)
    BY <1>2, <1>5, <2>2
  <2>3. CASE j = Len(g) /\ i \in 1..Len(f)
    <3>1. f[i].score <= f[Len(f)].score /\ f[i].score \in Nat /\ f[Len(f)].score \in Nat
      BY <1>1, <1>4, <2>3
    <3>2. g[j].score = b.score /\ g[i].score = f[i].score
      BY <1>2, <2>3
    <3> QED
      BY <1>5, <3>1, <3>2
  <2> QED
    BY <1>6, <2>1, <2>2, <2>3
<1>9. IsGame(g)
  BY <1>2, <1>7, <1>8 DEF IsGame
<1> PICK k \in 1..Len(f) : /\ c = f[k] /\ f[k].score = f[Len(f)].score
                           /\ \A i \in 1..Len(f) : f[i].score = f[Len(f)].score => k <= i
  BY DEF IsFirstBest
<1>10. CASE b.score > c.score
  <2>1. Len(g) \in 1..Len(g) /\ g[Len(g)].score = b.score
    BY <1>1, <1>2
  <2>2. \A i \in 1..Len(g) : g[i].score = b.score => Len(g) <= i
    <3> SUFFICES ASSUME NEW i \in 1..Len(g), g[i].score = b.score PROVE i = Len(g)
      BY <1>1, <1>2
    <3> SUFFICES ASSUME i \in 1..Len(f) PROVE FALSE
      BY <1>6
    <3>1. g[i] = f[i] /\ f[i].score \in Nat /\ f[i].score <= c.score /\ c.score \in Nat
      BY <1>2, <1>4
    <3> QED
      BY <1>5, <1>10, <3>1
  <2>3. IsFirstBest(b, g)
    BY <1>2, <2>1, <2>2 DEF IsFirstBest
  <2> QED
    BY <1>9, <1>10, <2>3
<1>11. CASE ~ (b.score > c.score)
  <2>1. b.score = c.score
    BY <1>1, <1>4, <1>5, <1>11
  <2>2. k \in 1..Len(g) /\ c = g[k] /\ g[k].score = g[Len(g)].score
    BY <1>1, <1>2, <2>1
  <2>3. \A i \in 1..Len(g) : g[i].score = g[Len(g)].score => k <= i
    <3> SUFFICES ASSUME NEW i \in 1..Len(g), g[i].score = g[Len(g)].score PROVE k <= i
      OBVIOUS
    <3>1. CASE i = Len(g)
      BY <1>1, <1>2, <3>1
    <3>2. CASE i \in 1..Len(f)
      <4>1. f[i].score = f[Len(f)].score
        BY <1>2, <2>1, <3>2
      <4> QED
        BY <3>2, <4>1
    <3> QED
      BY <1>6, <3>1, <3>2
  <2>4. IsFirstBest(c, g)
    BY <2>2, <2>3 DEF IsFirstBest
  <2> QED
    BY <1>9, <1>11, <2>4
<1> QED
  BY <1>10, <1>11

\* The first of the boards with the game's score is determined.
LEMMA FirstBestIsBestBoard ==
  ASSUME NEW game, IsGame(game.frames), NEW board, IsFirstBest(board, game.frames)
  PROVE  BestBoard(game) = board /\ board.score = Score(game) /\ board # NoBoard
<1> PICK f : f = game.frames
  OBVIOUS
<1>1. f \in Seq(Frame) /\ Len(f) \in Nat \ {0} /\ IsGame(f) /\ IsFirstBest(board, f)
  BY DEF IsGame
<1>2. Score(game) = f[Len(f)].score
  BY <1>1 DEF Score, Last
<1>3. ToSet(f) = {f[i] : i \in 1..Len(f)}
  BY <1>1 DEF ToSet
<1> PICK k \in 1..Len(f) : /\ board = f[k] /\ f[k].score = f[Len(f)].score
                           /\ \A i \in 1..Len(f) : f[i].score = f[Len(f)].score => k <= i
  BY <1>1 DEF IsFirstBest
<1>4. \A i \in 1..Len(f) : f[i].move_count = i - 1 /\ f[i].episode # 0
  BY <1>1 DEF IsGame
<1>5. board # NoBoard
  BY <1>4 DEF NoBoard
<1> DEFINE P(b) == b.score = Score(game)
                   /\ \A other \in ToSet(f) :
                         other.score = Score(game) => b.move_count <= other.move_count
<1>6. board \in ToSet(f)
  BY <1>3
<1>7. P(board)
  <2> SUFFICES ASSUME NEW other \in ToSet(f), other.score = Score(game)
               PROVE  board.move_count <= other.move_count
    BY <1>2
  <2>1. PICK i \in 1..Len(f) : other = f[i]
    BY <1>3
  <2>2. k <= i
    BY <1>2, <2>1
  <2>3. board.move_count = k - 1 /\ other.move_count = i - 1
    BY <1>4, <2>1
  <2> QED
    BY <1>1, <2>2, <2>3
<1>8. ASSUME NEW b \in ToSet(f), P(b)
      PROVE  b = board
  <2>1. PICK i \in 1..Len(f) : b = f[i]
    BY <1>3
  <2>2. k <= i
    BY <1>2, <1>8, <2>1
  <2>3. b.move_count <= board.move_count
    BY <1>2, <1>6, <1>8
  <2>4. board.move_count = k - 1 /\ b.move_count = i - 1
    BY <1>4, <2>1
  <2>5. i = k
    BY <1>1, <2>2, <2>3, <2>4
  <2> QED
    BY <2>1, <2>5
<1>9. BestBoard(game) = CHOOSE b \in ToSet(f) : P(b)
  BY DEF BestBoard
<1> HIDE DEF P
<1>10. BestBoard(game) = board
  BY <1>6, <1>7, <1>8, <1>9
<1> QED
  BY <1>2, <1>5, <1>10

\* The most recent of the best games is determined.
LEMMA BestIsBestGame ==
  ASSUME NEW n \in Nat \ {0}, n = state.completed_epochs, games \in Seq(Game), n <= Len(games),
         NEW b \in 1..n, IsBest(b, games, n),
         \A i \in 1..n : Score(games[i]) \in Nat
  PROVE  BestGame = b /\ Finished[BestGame] = games[b]
<1>1. /\ Finished \in Seq(Game) /\ Len(Finished) = n
      /\ \A i \in 1..n : Finished[i] = games[i]
  BY DEF Finished
<1>2. DOMAIN Finished = 1..n
  BY <1>1
<1> DEFINE P(k) == \A i \in DOMAIN Finished :
                     /\ Score(Finished[i]) <= Score(Finished[k])
                     /\ Score(Finished[i]) = Score(Finished[k]) => i <= k
<1>3. P(b)
  BY <1>1, <1>2 DEF IsBest
<1>4. ASSUME NEW k \in 1..n, P(k)
      PROVE  k = b
  <2>1. Score(games[b]) <= Score(games[k]) /\ Score(games[k]) <= Score(games[b])
    BY <1>1, <1>2, <1>4 DEF IsBest
  <2>2. Score(games[b]) \in Nat /\ Score(games[k]) \in Nat
    OBVIOUS
  <2>3. Score(games[b]) = Score(games[k])
    BY <2>1, <2>2
  <2>4. b <= k
    BY <1>1, <1>2, <1>4, <2>3
  <2>5. k <= b
    BY <2>3 DEF IsBest
  <2> QED
    BY <2>4, <2>5
<1>5. BestGame = CHOOSE k \in 1..n : P(k)
  BY <1>2 DEF BestGame
<1> HIDE DEF P
<1>6. BestGame = b
  BY <1>3, <1>4, <1>5
<1> QED
  BY <1>1, <1>6

LEMMA ScoreOfGame ==
  ASSUME NEW game, IsGame(game.frames)
  PROVE  Score(game) = game.frames[Len(game.frames)].score /\ Score(game) \in Nat
<1> PICK f : f = game.frames
  OBVIOUS
<1>1. f \in Seq(Frame) /\ Len(f) \in 1..Len(f)
  BY DEF IsGame
<1>2. f[Len(f)] \in Frame
  BY <1>1
<1>3. Score(game) = f[Len(f)].score
  BY DEF Score, Last
<1> QED
  BY <1>2, <1>3 DEF Frame

-----------------------------------------------------------------------------
(* The end of an episode                                                    *)

\* What the next game does to what is kept of the games before it.
LEMMA KeptIsKept ==
  ASSUME NEW g, NEW n \in Nat, NEW s, NEW t, NEW board,
         \A i \in 1..(n + 1) : IsGame(g[i].frames),
         IsKept(s, g, n), IsFirstBest(board, g[n + 1].frames),
         t.high_score = Max({s.high_score, Score(g[n + 1])}),
         s.snapshot = NoBoard \/ Score(g[n + 1]) >= s.high_score
            => t.snapshot = board /\ t.frames = g[n + 1].frames,
         ~ (s.snapshot = NoBoard \/ Score(g[n + 1]) >= s.high_score)
            => t.snapshot = s.snapshot /\ t.frames = s.frames
  PROVE  IsKept(t, g, n + 1)
<1> PICK new : new = Score(g[n + 1])
  OBVIOUS
<1>1. \A i \in 1..(n + 1) : Score(g[i]) \in Nat
  BY ScoreOfGame
<1>2. new \in Nat /\ n + 1 \in 1..(n + 1)
  BY <1>1
<1>3. \A i \in 1..(n + 1) : i \in 1..n \/ i = n + 1
  OBVIOUS
<1>4. CASE n = 0
  <2>1. s.snapshot = NoBoard /\ s.high_score = 0
    BY <1>4 DEF IsKept
  <2>2. t.snapshot = board /\ t.frames = g[n + 1].frames /\ t.high_score = new
    BY <1>2, <2>1, MaxOfTwo
  <2>3. IsBest(n + 1, g, n + 1)
    <3> SUFFICES ASSUME NEW i \in 1..(n + 1)
                 PROVE  i = n + 1 /\ Score(g[i]) <= Score(g[n + 1])
      BY DEF IsBest
    <3> QED
      BY <1>2, <1>4
  <2> QED
    BY <1>2, <2>2, <2>3 DEF IsKept
<1>5. CASE n # 0
  <2> PICK b \in 1..n : /\ IsBest(b, g, n) /\ s.frames = g[b].frames
                        /\ IsFirstBest(s.snapshot, g[b].frames)
                        /\ s.high_score = Score(g[b])
    BY <1>5 DEF IsKept
  <2>1. b \in 1..(n + 1) /\ s.high_score \in Nat
    BY <1>1
  <2>2. s.snapshot # NoBoard
    BY <2>1, FirstBestIsBestBoard
  <2>3. CASE new >= s.high_score
    <3>1. t.snapshot = board /\ t.frames = g[n + 1].frames
      BY <2>3
    <3>2. t.high_score = new
      BY <1>2, <2>1, <2>3, MaxOfTwo
    <3>3. ASSUME NEW i \in 1..n
          PROVE  Score(g[i]) <= new
      <4>1. Score(g[i]) <= s.high_score /\ Score(g[i]) \in Nat
        BY <1>1 DEF IsBest
      <4> QED
        BY <1>2, <2>1, <2>3, <4>1
    <3>4. IsBest(n + 1, g, n + 1)
      <4> SUFFICES ASSUME NEW i \in 1..(n + 1)
                   PROVE  Score(g[i]) <= Score(g[n + 1]) /\ i <= n + 1
        BY DEF IsBest
      <4> QED
        BY <1>2, <1>3, <3>3
    <3> QED
      <4>1. /\ IsBest(n + 1, g, n + 1) /\ t.frames = g[n + 1].frames
            /\ IsFirstBest(t.snapshot, g[n + 1].frames)
            /\ t.high_score = Score(g[n + 1])
        BY <3>1, <3>2, <3>4
      <4>2. n + 1 # 0
        OBVIOUS
      <4> QED
        BY <1>2, <4>1, <4>2 DEF IsKept
  <2>4. CASE ~ (new >= s.high_score)
    <3>1. t.snapshot = s.snapshot /\ t.frames = s.frames
      BY <2>2, <2>4
    <3>2. t.high_score = s.high_score
      BY <1>2, <2>1, <2>4, MaxOfTwo
    <3>3. IsBest(b, g, n + 1)
      <4> SUFFICES ASSUME NEW i \in 1..(n + 1)
                   PROVE  /\ Score(g[i]) <= Score(g[b])
                          /\ Score(g[i]) = Score(g[b]) => i <= b
        BY DEF IsBest
      <4>1. CASE i \in 1..n
        BY <4>1 DEF IsBest
      <4>2. CASE i = n + 1
        BY <1>2, <2>1, <2>4, <4>2
      <4> QED
        BY <1>3, <4>1, <4>2
    <3> QED
      <4>1. /\ IsBest(b, g, n + 1) /\ t.frames = g[b].frames
            /\ IsFirstBest(t.snapshot, g[b].frames)
            /\ t.high_score = Score(g[b])
        BY <3>1, <3>2, <3>3
      <4>2. n + 1 # 0
        OBVIOUS
      <4> QED
        BY <2>1, <4>1, <4>2 DEF IsKept
  <2> QED
    BY <2>3, <2>4
<1> QED
  BY <1>4, <1>5

\* What the next report does to the totals.
LEMMA ReportsAreReported ==
  ASSUME NEW g, NEW n \in Nat, NEW s, NEW t, NEW result \in Reported,
         AreReported(s, g, n), IsOf(result, g[n + 1]),
         t.episodes = Append(s.episodes, result),
         t.total_steps = s.total_steps + result.steps,
         t.total_epsilon_injections = s.total_epsilon_injections + result.epsilon_injections
  PROVE  AreReported(t, g, n + 1)
<1> PICK p, q : p = s.episodes /\ q = t.episodes
  OBVIOUS
<1>1. p \in Seq(Reported) /\ Len(p) = n
  BY DEF AreReported
<1>2. /\ q \in Seq(Reported) /\ Len(q) = n + 1 /\ q[n + 1] = result
      /\ \A i \in 1..n : q[i] = p[i]
  BY <1>1
<1>3. \A i \in 1..(n + 1) : IsOf(q[i], g[i])
  <2> SUFFICES ASSUME NEW i \in 1..(n + 1) PROVE IsOf(q[i], g[i])
    OBVIOUS
  <2>1. i \in 1..n \/ i = n + 1
    OBVIOUS
  <2> QED
    BY <1>2, <2>1 DEF AreReported
<1>4. ASSUME NEW u \in Seq(Reported)
      PROVE  /\ Steps(u) \in Seq(Nat) /\ Injections(u) \in Seq(Nat)
             /\ Len(Steps(u)) = Len(u) /\ Len(Injections(u)) = Len(u)
             /\ \A i \in 1..Len(u) : /\ Steps(u)[i] = u[i].steps
                                     /\ Injections(u)[i] = u[i].epsilon_injections
  <2>1. \A i \in 1..Len(u) : u[i].steps \in Nat /\ u[i].epsilon_injections \in Nat
    <3>1. \A i \in 1..Len(u) : u[i] \in Reported
      OBVIOUS
    <3> QED
      BY <3>1 DEF Reported
  <2>2. Steps(u) = [i \in 1..Len(u) |-> u[i].steps]
    BY DEF Steps
  <2>3. Injections(u) = [i \in 1..Len(u) |-> u[i].epsilon_injections]
    BY DEF Injections
  <2> HIDE DEF Reported
  <2> QED
    BY <2>1, <2>2, <2>3
<1>5. Replay!Total(Steps(q)) = Replay!Total(Steps(p)) + result.steps
  <2> PICK a, b : a = Steps(p) /\ b = Steps(q)
    OBVIOUS
  <2>1. /\ a \in Seq(Nat) /\ Len(a) = n
        /\ \A i \in 1..n : a[i] = p[i].steps
    BY <1>1, <1>4
  <2>5. /\ b \in Seq(Nat) /\ Len(b) = n + 1
        /\ \A i \in 1..(n + 1) : b[i] = q[i].steps
    BY <1>2, <1>4
  <2>2. \A i \in 1..Len(a) : b[i] = a[i]
    <3> SUFFICES ASSUME NEW i \in 1..n PROVE b[i] = a[i]
      BY <2>1
    <3>1. i \in 1..(n + 1)
      OBVIOUS
    <3>2. q[i] = p[i]
      BY <1>2
    <3> QED
      BY <2>1, <2>5, <3>1, <3>2
  <2>3. b[Len(b)] = result.steps
    <3>1. n + 1 \in 1..(n + 1)
      OBVIOUS
    <3>2. b[n + 1] = q[n + 1].steps
      BY <2>5, <3>1
    <3> QED
      BY <1>2, <2>5, <3>2
  <2>4. Replay!Total(b) = Replay!Total(a) + b[Len(b)]
    BY <2>1, <2>2, <2>5, TotalGrows
  <2> QED
    BY <2>3, <2>4
<1>6. Replay!Total(Injections(q)) = Replay!Total(Injections(p)) + result.epsilon_injections
  <2> PICK a, b : a = Injections(p) /\ b = Injections(q)
    OBVIOUS
  <2>1. /\ a \in Seq(Nat) /\ Len(a) = n
        /\ \A i \in 1..n : a[i] = p[i].epsilon_injections
    BY <1>1, <1>4
  <2>5. /\ b \in Seq(Nat) /\ Len(b) = n + 1
        /\ \A i \in 1..(n + 1) : b[i] = q[i].epsilon_injections
    BY <1>2, <1>4
  <2>2. \A i \in 1..Len(a) : b[i] = a[i]
    <3> SUFFICES ASSUME NEW i \in 1..n PROVE b[i] = a[i]
      BY <2>1
    <3>1. i \in 1..(n + 1)
      OBVIOUS
    <3>2. q[i] = p[i]
      BY <1>2
    <3> QED
      BY <2>1, <2>5, <3>1, <3>2
  <2>3. b[Len(b)] = result.epsilon_injections
    <3>1. n + 1 \in 1..(n + 1)
      OBVIOUS
    <3>2. b[n + 1] = q[n + 1].epsilon_injections
      BY <2>5, <3>1
    <3> QED
      BY <1>2, <2>5, <3>2
  <2>4. Replay!Total(b) = Replay!Total(a) + b[Len(b)]
    BY <2>1, <2>2, <2>5, TotalGrows
  <2> QED
    BY <2>3, <2>4
<1>7. /\ s.total_steps = Replay!Total(Steps(p))
      /\ s.total_epsilon_injections = Replay!Total(Injections(p))
  BY DEF AreReported
<1> HIDE DEF Reported, Steps, Injections, IsOf
<1> QED
  BY <1>2, <1>3, <1>5, <1>6, <1>7 DEF AreReported

-----------------------------------------------------------------------------
(* The invariant holds                                                      *)

LEMMA InitIsSound == Init => IInv
<1> SUFFICES ASSUME Init PROVE IInv
  OBVIOUS
<1>1. /\ place = "between" /\ injections = 0 /\ games = <<>> /\ epsilon = schedule.initial
      /\ state = [completed_epochs |-> 0, total_steps |-> 0, high_score |-> 0,
                  total_epsilon_injections |-> 0, episodes |-> <<>>,
                  snapshot |-> NoBoard, frames |-> <<>>]
  BY DEF Init
<1>2. epsilon \in Nat
  <2>1. schedule.initial \in Initials
    BY DEF Init
  <2> QED
    <3>1. Initials \subseteq Nat
      BY SimulatorAssumption DEF SimulatorAssumption
    <3> QED
      BY <1>1, <2>1, <3>1
<1>3. GamesArePlayed
  BY <1>1, <1>2 DEF GamesArePlayed
<1>4. IsKept(state, games, state.completed_epochs)
  BY <1>1 DEF IsKept
<1>5. Steps(<<>>) = <<>> /\ Injections(<<>>) = <<>>
  BY DEF Steps, Injections
<1>6. AreReported(state, games, state.completed_epochs)
  BY <1>1, <1>5, TotalOfNothing DEF AreReported
<1> QED
  BY <1>3, <1>4, <1>6 DEF IInv

\* A state that keeps its games keeps what is said of them.
LEMMA OnlyTheGameChanges ==
  ASSUME IInv, GamesArePlayed', UNCHANGED state,
         \A i \in 1..state.completed_epochs : games'[i] = games[i]
  PROVE  IInv'
<1> PICK n : n = state.completed_epochs
  OBVIOUS
<1>1. n \in Nat /\ state' = state /\ \A i \in 1..n : games'[i] = games[i]
  BY DEF IInv, GamesArePlayed
<1>2. IsKept(state, games', n)
  <2>1. IsKept(state, games, n)
    BY DEF IInv
  <2>2. CASE n = 0
    BY <2>1, <2>2 DEF IsKept
  <2>3. CASE n # 0
    <3> PICK b \in 1..n : /\ IsBest(b, games, n) /\ state.frames = games[b].frames
                          /\ IsFirstBest(state.snapshot, games[b].frames)
                          /\ state.high_score = Score(games[b])
      BY <2>1, <2>3 DEF IsKept
    <3>1. games'[b] = games[b]
      BY <1>1
    <3>2. IsBest(b, games', n)
      BY <1>1, <3>1 DEF IsBest
    <3>3. /\ IsBest(b, games', n) /\ state.frames = games'[b].frames
          /\ IsFirstBest(state.snapshot, games'[b].frames)
          /\ state.high_score = Score(games'[b])
      BY <3>1, <3>2
    <3> QED
      BY <2>3, <3>3 DEF IsKept
  <2> QED
    BY <2>2, <2>3
<1>3. AreReported(state, games', n)
  BY <1>1 DEF IInv, AreReported
<1> QED
  BY <1>1, <1>2, <1>3 DEF IInv

LEMMA StartEpisodeIsSound ==
  ASSUME IInv, StartEpisode
  PROVE  IInv'
<1> PICK b : b = [episode |-> Episode, move_count |-> 0, score |-> 0]
  OBVIOUS
<1>1. /\ place = "between" /\ place' = "playing" /\ current_board' = b /\ frames' = <<b>>
      /\ episode_epsilon' = epsilon
      /\ UNCHANGED <<epsilon, injections, state, games>>
  BY DEF StartEpisode
<1>2. Episode \in Nat \ {0} /\ state.completed_epochs \in Nat
  BY DEF Episode, IInv, GamesArePlayed
<1>3. IsGame(frames') /\ IsFirstBest(current_board', frames')
  BY <1>1, <1>2, GameStarts
<1>4. IsInjected(epsilon', injections', frames')
  <2>1. injections' = 0
    BY <1>1 DEF IInv, GamesArePlayed
  <2>2. Len(frames') - 1 = 0
    BY <1>1
  <2> QED
    BY <2>1, <2>2 DEF IsInjected
<1>5. GamesArePlayed'
  BY <1>1, <1>3, <1>4 DEF IInv, GamesArePlayed
<1> QED
  BY <1>1, <1>5, OnlyTheGameChanges

LEMMA StepIsSound ==
  ASSUME IInv, NEW inject \in BOOLEAN, NEW ate \in BOOLEAN, NEW done \in BOOLEAN,
         Step(inject, ate, done)
  PROVE  IInv'
<1> PICK board : board = [Last(frames) EXCEPT !.move_count = @ + 1,
                                              !.score = IF ate THEN @ + 1 ELSE @]
  OBVIOUS
<1>1. /\ place = "playing" /\ MayInject(inject)
      /\ injections' = injections + IF inject THEN 1 ELSE 0
      /\ frames' = Append(frames, board)
      /\ current_board' = IF board.score > current_board.score THEN board ELSE current_board
      /\ place' = IF done THEN "over" ELSE "playing"
      /\ games' = IF done THEN Append(games, [frames |-> frames', injections |-> injections'])
                          ELSE games
      /\ UNCHANGED <<epsilon, episode_epsilon, state>>
  BY DEF Step
<1>2. /\ GamesArePlayed /\ epsilon \in Nat /\ injections \in Nat
      /\ IsGame(frames) /\ IsFirstBest(current_board, frames)
      /\ episode_epsilon = epsilon /\ IsInjected(epsilon, injections, frames)
      /\ Len(games) = state.completed_epochs /\ state.completed_epochs \in Nat
      /\ games \in Seq(Game) /\ \A i \in 1..Len(games) : IsGame(games[i].frames)
  BY <1>1 DEF IInv, GamesArePlayed
<1>3. /\ frames \in Seq(Frame) /\ Len(frames) \in 1..Len(frames)
      /\ Last(frames) = frames[Len(frames)]
  BY <1>2 DEF IsGame, Last
<1>4. /\ board \in Frame /\ board.episode # 0 /\ board.move_count = Len(frames)
      /\ frames[Len(frames)].score <= board.score
  <2> PICK last : last = frames[Len(frames)]
    OBVIOUS
  <2>1. last \in Frame
    BY <1>3
  <2>2. last.episode # 0 /\ last.move_count = Len(frames) - 1
    BY <1>2, <1>3 DEF IsGame
  <2>3. /\ last.episode \in Nat /\ last.move_count \in Nat /\ last.score \in Nat
        /\ board = [episode |-> last.episode, move_count |-> last.move_count + 1,
                    score |-> IF ate THEN last.score + 1 ELSE last.score]
    BY <1>3, <2>1 DEF Frame
  <2> PICK points : points = IF ate THEN last.score + 1 ELSE last.score
    OBVIOUS
  <2>6. points \in Nat /\ last.score <= points
    <3>1. CASE ate
      <4>1. points = last.score + 1
        BY <3>1
      <4> QED
        BY <2>3, <4>1
    <3>2. CASE ~ ate
      <4>1. points = last.score
        BY <3>2
      <4> QED
        BY <2>3, <4>1
    <3> QED
      BY <3>1, <3>2
  <2>9. board = [episode |-> last.episode, move_count |-> last.move_count + 1,
                 score |-> points]
    BY <2>3
  <2>7. /\ board.episode = last.episode /\ board.move_count = last.move_count + 1
        /\ board.score = points
    BY ONLY <2>9
  <2>8. board.move_count \in Nat /\ board.episode \in Nat
    BY <2>3, <2>7
  <2>4. board \in Frame
    BY <2>6, <2>7, <2>8, <2>9 DEF Frame
  <2>5. board.episode # 0 /\ board.move_count = Len(frames) /\ last.score <= board.score
    BY <1>3, <2>2, <2>6, <2>7
  <2> QED
    BY <2>4, <2>5
<1>5. IsGame(frames') /\ IsFirstBest(current_board', frames')
  BY <1>1, <1>2, <1>4, GameGrows
<1>6. Len(frames') = Len(frames) + 1 /\ frames' \in Seq(Frame)
  BY <1>1, <1>3, <1>4
<1>7. injections' \in Nat
  BY <1>1, <1>2
<1>8. IsInjected(epsilon', injections', frames')
  <2>1. epsilon = 0 => ~ inject
    BY <1>1 DEF MayInject
  <2>2. epsilon = Scale => inject
    BY <1>1, SimulatorAssumption DEF MayInject, SimulatorAssumption
  <2>3. epsilon = 0 => injections' = 0
    BY <1>1, <1>2, <2>1 DEF IsInjected
  <2>4. epsilon = Scale => injections' = Len(frames') - 1
    BY <1>1, <1>2, <1>3, <1>6, <2>2 DEF IsInjected
  <2>5. epsilon' = epsilon
    BY <1>1
  <2> QED
    BY <2>3, <2>4, <2>5 DEF IsInjected
<1>9. CASE done
  <2> PICK game : game = [frames |-> frames', injections |-> injections']
    OBVIOUS
  <2>1. game \in Game /\ game.frames = frames'
    BY <1>6, <1>7 DEF Game
  <2>2. games' = Append(games, game) /\ place' = "over"
    BY <1>1, <1>9
  <2>3. /\ games' \in Seq(Game) /\ Len(games') = Len(games) + 1 /\ games'[Len(games')] = game
        /\ \A i \in 1..Len(games) : games'[i] = games[i]
    BY <1>2, <2>1, <2>2
  <2>4. \A i \in 1..Len(games') : IsGame(games'[i].frames)
    <3> SUFFICES ASSUME NEW i \in 1..Len(games') PROVE IsGame(games'[i].frames)
      OBVIOUS
    <3>1. i \in 1..Len(games) \/ i = Len(games')
      BY <1>2, <2>3
    <3> QED
      BY <1>2, <1>5, <2>1, <2>3, <3>1
  <2>5. GamesArePlayed'
    <3>1. state' = state /\ epsilon' = epsilon /\ episode_epsilon' = epsilon'
      BY <1>1, <1>2
    <3> QED
      BY <1>2, <1>5, <1>7, <1>8, <2>2, <2>3, <2>4, <3>1 DEF GamesArePlayed
  <2> QED
    BY <1>1, <1>2, <2>3, <2>5, OnlyTheGameChanges
<1>10. CASE ~ done
  <2>1. games' = games /\ place' = "playing"
    BY <1>1, <1>10
  <2>2. GamesArePlayed'
    <3>1. state' = state /\ epsilon' = epsilon /\ episode_epsilon' = epsilon'
      BY <1>1, <1>2
    <3> QED
      BY <1>2, <1>5, <1>7, <1>8, <2>1, <3>1 DEF GamesArePlayed
  <2> QED
    BY <1>1, <2>1, <2>2, OnlyTheGameChanges
<1> QED
  BY <1>9, <1>10

LEMMA EndEpisodeIsSound ==
  ASSUME IInv, EInv, EndEpisode
  PROVE  IInv'
<1> PICK n, game : n = state.completed_epochs /\ game = games[n + 1]
  OBVIOUS
<1>1. /\ place = "over" /\ place' = "between" /\ state' = Recorded(Result)
      /\ injections' = 0 /\ games' = games
  BY DEF EndEpisode
<1>2. /\ n \in Nat /\ Len(games) = n + 1 /\ games \in Seq(Game)
      /\ epsilon \in Nat /\ injections \in Nat
      /\ \A i \in 1..(n + 1) : IsGame(games[i].frames)
      /\ game = [frames |-> frames, injections |-> injections]
      /\ IsGame(frames) /\ IsFirstBest(current_board, frames)
      /\ episode_epsilon = epsilon /\ IsInjected(epsilon, injections, frames)
      /\ IsKept(state, games, n) /\ AreReported(state, games, n)
  BY <1>1 DEF IInv, GamesArePlayed
<1>3. game.frames = frames /\ game.injections = injections /\ Score(game) = Last(frames).score
  BY <1>2 DEF Score
<1>4. frames \in Seq(Frame) /\ Len(frames) \in 1..Len(frames)
  BY <1>2 DEF IsGame
<1>5. /\ Last(frames).episode \in Nat /\ Last(frames).score \in Nat
      /\ Last(frames).move_count = Len(frames) - 1
  <2>1. Last(frames) = frames[Len(frames)] /\ frames[Len(frames)] \in Frame
    BY <1>4 DEF Last
  <2> QED
    BY <1>2, <1>4, <2>1 DEF Frame, IsGame
<1> PICK result : result = Result
  OBVIOUS
<1>6. /\ result = [episode |-> n + 1, score |-> Last(frames).score,
                   steps |-> Last(frames).move_count, epsilon |-> epsilon,
                   epsilon_injections |-> injections]
  BY <1>2 DEF Result, Episode
<1>7. /\ result.score = Score(game) /\ result.steps = Len(game.frames) - 1
      /\ result.epsilon_injections = game.injections /\ result.epsilon = epsilon
      /\ result \in Reported
  <2>1. Len(frames) - 1 \in Nat
    BY <1>4
  <2> QED
    BY <1>2, <1>3, <1>5, <1>6, <2>1 DEF Reported
<1>8. IsOf(result, game)
  BY <1>2, <1>3, <1>7 DEF IsOf
<1>9. /\ state'.completed_epochs = n + 1
      /\ state'.total_steps = state.total_steps + result.steps
      /\ state'.high_score = Max({state.high_score, result.score})
      /\ state'.total_epsilon_injections
           = state.total_epsilon_injections + result.epsilon_injections
      /\ state'.episodes = Append(state.episodes, result)
      /\ state'.snapshot = IF Captures THEN current_board ELSE state.snapshot
      /\ state'.frames = IF Captures THEN frames ELSE state.frames
  BY <1>1 DEF Recorded
<1>10. Captures <=> (state.snapshot = NoBoard \/ Score(game) >= state.high_score)
  BY <1>3 DEF Captures
<1>11. IsKept(state', games, n + 1)
  <2> PICK s, t, g : s = state /\ t = state' /\ g = games
    OBVIOUS
  <2>1. /\ IsKept(s, g, n) /\ IsFirstBest(current_board, g[n + 1].frames)
        /\ \A i \in 1..(n + 1) : IsGame(g[i].frames)
    BY <1>2, <1>3
  <2>2. t.high_score = Max({s.high_score, Score(g[n + 1])})
    BY <1>7, <1>9
  <2>3. /\ s.snapshot = NoBoard \/ Score(g[n + 1]) >= s.high_score
             => t.snapshot = current_board /\ t.frames = g[n + 1].frames
        /\ ~ (s.snapshot = NoBoard \/ Score(g[n + 1]) >= s.high_score)
             => t.snapshot = s.snapshot /\ t.frames = s.frames
    BY <1>3, <1>9, <1>10
  <2>4. IsKept(t, g, n + 1)
    BY <1>2, <2>1, <2>2, <2>3, KeptIsKept
  <2> QED
    BY <2>4
<1>12. AreReported(state', games, n + 1)
  BY <1>2, <1>7, <1>8, <1>9, ReportsAreReported
<1>13. GamesArePlayed'
  <2>1. epsilon' \in Nat
    <3>1. schedule.minimum \in Nat /\ schedule.divisor \in Nat \ {0}
      BY DEF EInv
    <3>2. epsilon \div schedule.divisor \in Nat
      BY <1>2, <3>1, DivBounds
    <3>3. Max({schedule.minimum, epsilon \div schedule.divisor}) \in Nat
      BY <3>1, <3>2, MaxOfTwo
    <3>4. epsilon' = NextEpsilon(schedule, epsilon)
      BY DEF EndEpisode
    <3> QED
      BY <3>3, <3>4 DEF NextEpsilon
  <2> QED
    BY <1>1, <1>2, <1>9, <2>1 DEF GamesArePlayed
<1> QED
  BY <1>1, <1>9, <1>11, <1>12, <1>13 DEF IInv

\* The invariants of both, by which every step is covered.
LEMMA NextIsSound ==
  ASSUME IInv, EInv, [Next]_vars
  PROVE  IInv'
<1>1. CASE StartEpisode
  BY <1>1, StartEpisodeIsSound
<1>2. CASE EndEpisode
  BY <1>2, EndEpisodeIsSound
<1>3. CASE Leave
  <2>1. /\ place' = "left"
        /\ UNCHANGED <<epsilon, injections, state, games>>
    BY <1>3 DEF Leave
  <2>2. GamesArePlayed'
    BY <2>1 DEF IInv, GamesArePlayed
  <2> QED
    BY <2>1, <2>2, OnlyTheGameChanges
<1>4. CASE \E inject, ate, done \in BOOLEAN : Step(inject, ate, done)
  BY <1>4, StepIsSound
<1>5. CASE UNCHANGED vars
  <2>1. /\ UNCHANGED <<epsilon, injections, state, games, place>>
        /\ UNCHANGED <<frames, current_board, episode_epsilon>>
    BY <1>5 DEF vars, game_vars
  <2>2. GamesArePlayed'
    BY <2>1 DEF IInv, GamesArePlayed
  <2> QED
    BY <2>1, <2>2, OnlyTheGameChanges
<1> QED
  BY <1>1, <1>2, <1>3, <1>4, <1>5 DEF Next

LEMMA BestIsKept == IInv => BestGameIsKept
<1> SUFFICES ASSUME IInv, Finished # <<>>
             PROVE  /\ state.frames = Finished[BestGame].frames
                    /\ state.snapshot = BestBoard(Finished[BestGame])
                    /\ state.high_score = state.snapshot.score
  BY DEF BestGameIsKept
<1> PICK n : n = state.completed_epochs
  OBVIOUS
<1>1. /\ n \in Nat /\ games \in Seq(Game) /\ n <= Len(games)
      /\ \A i \in 1..n : IsGame(games[i].frames)
  BY DEF IInv, GamesArePlayed
<1>2. n # 0
  BY <1>1 DEF Finished
<1> PICK b \in 1..n : /\ IsBest(b, games, n)
                      /\ state.frames = games[b].frames
                      /\ IsFirstBest(state.snapshot, games[b].frames)
                      /\ state.high_score = Score(games[b])
  BY <1>2 DEF IInv, IsKept
<1>3. \A i \in 1..n : Score(games[i]) \in Nat
  BY <1>1, ScoreOfGame
<1>4. Finished[BestGame] = games[b]
  BY <1>1, <1>2, <1>3, BestIsBestGame
<1>5. BestBoard(games[b]) = state.snapshot /\ state.snapshot.score = Score(games[b])
  BY <1>1, FirstBestIsBestBoard
<1> QED
  BY <1>4, <1>5

LEMMA ResultsMatch == IInv => ResultsAreOfTheirGame
<1> SUFFICES ASSUME IInv PROVE ResultsAreOfTheirGame
  OBVIOUS
<1> PICK n : n = state.completed_epochs
  OBVIOUS
<1>1. /\ n \in Nat /\ games \in Seq(Game) /\ n <= Len(games)
      /\ AreReported(state, games, n)
  BY DEF IInv, GamesArePlayed
<1>2. /\ state.episodes \in Seq(Reported) /\ Len(state.episodes) = n
      /\ DOMAIN state.episodes = 1..n
  BY <1>1 DEF AreReported
<1>3. \A i \in 1..n : Finished[i] = games[i]
  BY <1>1 DEF Finished
<1>4. ASSUME NEW i \in 1..n
      PROVE  /\ state.episodes[i].score = Score(Finished[i])
             /\ state.episodes[i].steps = Len(Finished[i].frames) - 1
             /\ state.episodes[i].epsilon_injections = Finished[i].injections
             /\ state.episodes[i].epsilon = 0 => state.episodes[i].epsilon_injections = 0
             /\ state.episodes[i].epsilon = Scale
                  => state.episodes[i].epsilon_injections = state.episodes[i].steps
  <2>1. IsOf(state.episodes[i], Finished[i])
    BY <1>1, <1>3 DEF AreReported
  <2> QED
    BY <2>1 DEF IsOf, IsInjected
<1>5. /\ state.total_steps = Replay!Total([i \in DOMAIN state.episodes |-> state.episodes[i]["steps"]])
      /\ state.total_epsilon_injections =
           Replay!Total([i \in DOMAIN state.episodes |-> state.episodes[i]["epsilon_injections"]])
  BY <1>1 DEF AreReported, Steps, Injections
<1> QED
  BY <1>2, <1>4, <1>5 DEF ResultsAreOfTheirGame

\* Whatever was played, what is kept is the whole of the most recent of the best games
\* and its first position with the high score (SimulationState.record and _run_episode).
THEOREM KeepsTheBestGame == Spec => []BestGameIsKept
<1>1. Init => EInv /\ IInv
  BY InitIsSound, InitHasSchedule
<1>2. EInv /\ IInv /\ [Next]_vars => EInv' /\ IInv'
  BY NextIsSound, NextHasSchedule
<1> QED
  BY <1>1, <1>2, BestIsKept, PTL DEF Spec

\* However long the run, every episode is reported with what its own game was, and the
\* totals are the sums of the reports (SimulationState.record).
THEOREM ReportsTheGames == Spec => []ResultsAreOfTheirGame
<1>1. Init => EInv /\ IInv
  BY InitIsSound, InitHasSchedule
<1>2. EInv /\ IInv /\ [Next]_vars => EInv' /\ IInv'
  BY NextIsSound, NextHasSchedule
<1> QED
  BY <1>1, <1>2, ResultsMatch, PTL DEF Spec

-----------------------------------------------------------------------------
(* Sums of parts of a sequence                                              *)

\* The sum of s[a], ..., s[b].
Part(s, a, b) == Replay!Total(SubSeq(s, a, b))

LEMMA PartOfSequence ==
  ASSUME NEW S, NEW s \in Seq(S), NEW a \in 1..(Len(s) + 1), NEW b \in (a - 1)..Len(s)
  PROVE  /\ SubSeq(s, a, b) \in Seq(S) /\ Len(SubSeq(s, a, b)) = b - a + 1
         /\ \A i \in 1..(b - a + 1) : SubSeq(s, a, b)[i] = s[a + i - 1]
<1>1. \A i \in a..b : i \in 1..Len(s)
  OBVIOUS
<1>2. CASE a <= b
  <2>1. Len(SubSeq(s, a, b)) = b - a + 1
    BY <1>2
  <2>2. \A i \in 1..(b - a + 1) : SubSeq(s, a, b)[i] = s[a + i - 1]
    BY <1>2
  <2> QED
    BY <1>1, <1>2, <2>1, <2>2
<1>3. CASE b = a - 1
  BY <1>3
<1> QED
  BY <1>2, <1>3

LEMMA PartGrows ==
  ASSUME NEW s \in Seq(Nat), NEW a \in 1..(Len(s) + 1), NEW b \in (a - 1)..Len(s)
  PROVE  /\ Part(s, a, b) \in Nat
         /\ b < Len(s) => Part(s, a, b + 1) = Part(s, a, b) + s[b + 1]
         /\ b = a - 1 => Part(s, a, b) = 0
<1> PICK p : p = SubSeq(s, a, b)
  OBVIOUS
<1>1. /\ p \in Seq(Nat) /\ Len(p) = b - a + 1
      /\ \A i \in 1..(b - a + 1) : p[i] = s[a + i - 1]
  BY PartOfSequence
<1>2. Replay!Total(p) \in Nat
  <2>1. PICK f : Follows(f, 0, Adds(p), Len(p), Nat) /\ Replay!Total(p) = f[Len(p)]
    BY <1>1, TotalFollows
  <2>2. Len(p) \in 0..Len(p)
    BY <1>1
  <2> QED
    BY <2>1, <2>2 DEF Follows
<1>3. ASSUME b < Len(s)
      PROVE  Part(s, a, b + 1) = Replay!Total(p) + s[b + 1]
  <2> PICK q : q = SubSeq(s, a, b + 1)
    OBVIOUS
  <2>1. /\ q \in Seq(Nat) /\ Len(q) = b - a + 2
        /\ \A i \in 1..(b - a + 2) : q[i] = s[a + i - 1]
    <3> PICK c : c = b + 1
      OBVIOUS
    <3>1. c \in (a - 1)..Len(s) /\ b - a + 2 = c - a + 1
      BY <1>3
    <3> QED
      BY <3>1, PartOfSequence
  <2>2. Len(q) = Len(p) + 1 /\ Len(p) \in Nat
    BY <1>1, <2>1
  <2>3. \A i \in 1..Len(p) : q[i] = p[i]
    <3> SUFFICES ASSUME NEW i \in 1..Len(p) PROVE q[i] = p[i]
      OBVIOUS
    <3>1. i \in 1..(b - a + 1) /\ i \in 1..(b - a + 2)
      BY <1>1
    <3> QED
      BY <1>1, <2>1, <3>1
  <2>4. q[Len(q)] = s[b + 1]
    <3>1. b - a + 2 \in 1..(b - a + 2) /\ a + (b - a + 2) - 1 = b + 1
      OBVIOUS
    <3> QED
      BY <2>1, <3>1
  <2>5. Replay!Total(q) = Replay!Total(p) + q[Len(q)]
    BY <1>1, <2>1, <2>2, <2>3, TotalGrows
  <2> QED
    BY <2>4, <2>5 DEF Part
<1>4. ASSUME b = a - 1
      PROVE  Replay!Total(p) = 0
  <2>1. p = <<>>
    BY <1>1, <1>4
  <2> QED
    BY <2>1, TotalOfNothing
<1> QED
  BY <1>2, <1>3, <1>4 DEF Part

\* A part is the sum of its two parts.
LEMMA PartSplits ==
  ASSUME NEW s \in Seq(Nat), NEW a \in 1..(Len(s) + 1), NEW k \in (a - 1)..Len(s),
         NEW b \in k..Len(s)
  PROVE  Part(s, a, b) = Part(s, a, k) + Part(s, k + 1, b)
<1> DEFINE B == {m \in k..Len(s) : Part(s, a, m) # Part(s, a, k) + Part(s, k + 1, m)}
<1> SUFFICES ASSUME B # {} PROVE FALSE
  OBVIOUS
<1>1. PICK m \in B : \A j \in B : ~ (j < m)
  <2>1. B \in SUBSET Nat
    OBVIOUS
  <2> HIDE DEF B
  <2> QED
    BY <2>1, Least
<1>2. m \in k..Len(s) /\ Part(s, a, m) # Part(s, a, k) + Part(s, k + 1, m)
  BY <1>1
<1>3. k + 1 \in 1..(Len(s) + 1) /\ k \in (k + 1 - 1)..Len(s) /\ k = k + 1 - 1
  OBVIOUS
<1>4. m # k
  <2>1. Part(s, k + 1, k) = 0
    <3> PICK c : c = k + 1
      OBVIOUS
    <3>1. c \in 1..(Len(s) + 1) /\ k \in (c - 1)..Len(s) /\ k = c - 1
      BY <1>3
    <3> QED
      BY <3>1, PartGrows
  <2>2. Part(s, a, k) \in Nat
    BY PartGrows
  <2> QED
    BY <1>2, <2>1, <2>2
<1>5. m - 1 \in k..Len(s) /\ m - 1 < m
  BY <1>2, <1>4
<1>6. Part(s, a, m - 1) = Part(s, a, k) + Part(s, k + 1, m - 1)
  BY <1>1, <1>5
<1> HIDE DEF B
<1>7. m - 1 < Len(s) /\ (m - 1) + 1 = m /\ m - 1 \in (a - 1)..Len(s)
      /\ m - 1 \in (k + 1 - 1)..Len(s)
  BY <1>2, <1>5
<1>8. /\ Part(s, a, m) = Part(s, a, m - 1) + s[m]
      /\ Part(s, k + 1, m) = Part(s, k + 1, m - 1) + s[m]
      /\ Part(s, k + 1, m - 1) \in Nat
  <2> PICK c, j : c = k + 1 /\ j = m - 1
    OBVIOUS
  <2>1. /\ c \in 1..(Len(s) + 1) /\ j \in (c - 1)..Len(s) /\ j \in (a - 1)..Len(s)
        /\ j < Len(s) /\ j + 1 = m
    BY <1>3, <1>7
  <2>2. Part(s, c, j + 1) = Part(s, c, j) + s[j + 1] /\ Part(s, c, j) \in Nat
    BY <2>1, PartGrows
  <2>3. Part(s, a, j + 1) = Part(s, a, j) + s[j + 1]
    BY <2>1, PartGrows
  <2> QED
    BY <2>1, <2>2, <2>3
<1>9. Part(s, a, k) \in Nat /\ s[m] \in Nat
  <2>1. m \in 1..Len(s)
    BY <1>2, <1>4
  <2> QED
    BY <2>1, PartGrows
<1> QED
  BY <1>2, <1>6, <1>8, <1>9

\* A sum of numbers of which none is 0 is no less than their count.
LEMMA PartIsLong ==
  ASSUME NEW s \in Seq(Nat), NEW a \in 1..(Len(s) + 1), NEW b \in (a - 1)..Len(s),
         \A i \in 1..Len(s) : s[i] # 0
  PROVE  b - a + 1 <= Part(s, a, b)
<1> DEFINE B == {m \in (a - 1)..Len(s) : ~ (m - a + 1 <= Part(s, a, m))}
<1> SUFFICES ASSUME B # {} PROVE FALSE
  OBVIOUS
<1>1. PICK m \in B : \A j \in B : ~ (j < m)
  <2>1. B \in SUBSET Nat
    OBVIOUS
  <2> HIDE DEF B
  <2> QED
    BY <2>1, Least
<1>2. m \in (a - 1)..Len(s) /\ ~ (m - a + 1 <= Part(s, a, m))
  BY <1>1
<1>3. m # a - 1
  BY <1>2, PartGrows
<1>4. m - 1 \in (a - 1)..Len(s) /\ m - 1 < m
  BY <1>2, <1>3
<1>5. (m - 1) - a + 1 <= Part(s, a, m - 1)
  BY <1>1, <1>4
<1> HIDE DEF B
<1>6. m - 1 < Len(s) /\ (m - 1) + 1 = m
  BY <1>2
<1>7. Part(s, a, m) = Part(s, a, m - 1) + s[m] /\ Part(s, a, m - 1) \in Nat
  BY <1>4, <1>6, PartGrows
<1>8. s[m] \in Nat /\ s[m] # 0
  <2>1. m \in 1..Len(s)
    BY <1>2, <1>3
  <2> QED
    BY <2>1
<1> QED
  BY <1>2, <1>5, <1>7, <1>8

-----------------------------------------------------------------------------
(* The index                                                                *)

LEMMA MemoryConstants ==
  /\ sequence_length \in Nat \ {0} /\ batch_size \in Nat \ {0} /\ max_frames \in Nat \ {0}
  /\ MaxMoves \in Nat \ {0}
<1>1. Replay!ReplayAssumption /\ MaxMoves \in Nat \ {0}
  BY SimulatorAssumption DEF SimulatorAssumption
<1>2. /\ sequence_length \in Nat \ {0} /\ batch_size \in Nat \ {0}
      /\ max_frames \in Nat /\ max_frames >= sequence_length * batch_size
  BY <1>1 DEF Replay!ReplayAssumption
<1>3. ASSUME NEW a \in Nat \ {0}, NEW b \in Nat \ {0}
      PROVE  a * b \in Nat \ {0}
  BY <1>3
<1>4. sequence_length * batch_size \in Nat \ {0}
  BY <1>2, <1>3
<1> QED
  BY <1>1, <1>2, <1>4

\* No two of the episodes have one identity.
AreDistinct(s) == \A i, j \in 1..Len(s) : s[i].id = s[j].id => i = j

\* c lists those of the first n episodes of s that are long enough for a window.
IsChosen(c, s, n) ==
    /\ c \in Seq(Replay!Episode) /\ AreDistinct(c)
    /\ \A k \in 1..Len(c) : \E i \in 1..n : c[k] = s[i] /\ s[i].size >= sequence_length
    /\ \A i \in 1..n : s[i].size >= sequence_length => \E k \in 1..Len(c) : c[k] = s[i]

LEMMA ChosenGrows ==
  ASSUME NEW s \in Seq(Replay!Episode), AreDistinct(s), NEW n \in Nat, n < Len(s),
         NEW c, IsChosen(c, s, n)
  PROVE  IsChosen(IF s[n + 1].size >= sequence_length THEN Append(c, s[n + 1]) ELSE c, s, n + 1)
<1> PICK e : e = s[n + 1]
  OBVIOUS
<1>1. /\ n + 1 \in 1..Len(s) /\ e \in Replay!Episode
      /\ \A i \in 1..(n + 1) : i \in 1..n \/ i = n + 1
      /\ \A i \in 1..n : i \in 1..(n + 1) /\ i \in 1..Len(s) /\ i # n + 1
  OBVIOUS
<1>2. c \in Seq(Replay!Episode) /\ Len(c) \in Nat
  BY DEF IsChosen
<1>3. CASE ~ (e.size >= sequence_length)
  <2>1. \A k \in 1..Len(c) : \E i \in 1..(n + 1) : c[k] = s[i] /\ s[i].size >= sequence_length
    BY <1>1 DEF IsChosen
  <2>2. \A i \in 1..(n + 1) :
          s[i].size >= sequence_length => \E k \in 1..Len(c) : c[k] = s[i]
    BY <1>1, <1>3 DEF IsChosen
  <2>3. IsChosen(c, s, n + 1)
    BY <2>1, <2>2 DEF IsChosen
  <2> QED
    BY <1>3, <2>3
<1>4. CASE e.size >= sequence_length
  <2> PICK d : d = Append(c, e)
    OBVIOUS
  <2>1. /\ d \in Seq(Replay!Episode) /\ Len(d) = Len(c) + 1 /\ d[Len(c) + 1] = e
        /\ \A k \in 1..Len(c) : d[k] = c[k]
    BY <1>1, <1>2
  <2>2. /\ \A k \in 1..Len(d) : k \in 1..Len(c) \/ k = Len(c) + 1
        /\ \A k \in 1..Len(c) : k \in 1..Len(d)
        /\ Len(c) + 1 \in 1..Len(d)
    BY <1>2, <2>1
  <2>3. \A k \in 1..Len(d) : \E i \in 1..(n + 1) : d[k] = s[i] /\ s[i].size >= sequence_length
    <3> SUFFICES ASSUME NEW k \in 1..Len(d)
                 PROVE  \E i \in 1..(n + 1) : d[k] = s[i] /\ s[i].size >= sequence_length
      OBVIOUS
    <3>1. CASE k \in 1..Len(c)
      BY <1>1, <2>1, <3>1 DEF IsChosen
    <3>2. CASE k = Len(c) + 1
      BY <1>1, <1>4, <2>1, <3>2
    <3> QED
      BY <2>2, <3>1, <3>2
  <2>4. \A i \in 1..(n + 1) :
          s[i].size >= sequence_length => \E k \in 1..Len(d) : d[k] = s[i]
    <3> SUFFICES ASSUME NEW i \in 1..(n + 1), s[i].size >= sequence_length
                 PROVE  \E k \in 1..Len(d) : d[k] = s[i]
      OBVIOUS
    <3>1. CASE i \in 1..n
      <4>1. PICK k \in 1..Len(c) : c[k] = s[i]
        BY <3>1 DEF IsChosen
      <4> QED
        BY <2>1, <2>2, <4>1
    <3>2. CASE i = n + 1
      BY <2>1, <2>2, <3>2
    <3> QED
      BY <1>1, <3>1, <3>2
  <2>5. ASSUME NEW k \in 1..Len(c)
        PROVE  c[k].id # e.id
    <3>1. PICK i \in 1..n : c[k] = s[i]
      BY DEF IsChosen
    <3> QED
      BY <1>1, <3>1 DEF AreDistinct
  <2>6. AreDistinct(d)
    <3> SUFFICES ASSUME NEW k \in 1..Len(d), NEW l \in 1..Len(d), d[k].id = d[l].id
                 PROVE  k = l
      BY DEF AreDistinct
    <3>1. CASE k \in 1..Len(c) /\ l \in 1..Len(c)
      BY <2>1, <3>1 DEF IsChosen, AreDistinct
    <3>2. CASE k = Len(c) + 1 /\ l \in 1..Len(c)
      BY <2>1, <2>5, <3>2
    <3>3. CASE l = Len(c) + 1 /\ k \in 1..Len(c)
      BY <2>1, <2>5, <3>3
    <3> QED
      BY <2>2, <3>1, <3>2, <3>3
  <2>7. IsChosen(d, s, n + 1)
    BY <2>1, <2>3, <2>4, <2>6 DEF IsChosen
  <2> QED
    BY <1>4, <2>7
<1> QED
  BY <1>3, <1>4

\* The list of the episodes that are long enough has each of them once, and no other.
LEMMA EligibleIsChosen ==
  ASSUME NEW s \in Seq(Replay!Episode), AreDistinct(s)
  PROVE  IsChosen(Replay!Eligible(s), s, Len(s))
<1> DEFINE V == Seq(Replay!Episode)
           N == Len(s)
           step(n, c) == IF s[n].size >= sequence_length THEN Append(c, s[n]) ELSE c
           F == [p \in Nat \X V |-> IF p[1] \in 1..N THEN step(p[1], p[2]) ELSE <<>>]
           rule(f) == f = [n \in 0..N |-> IF n = 0 THEN <<>>
                                           ELSE IF s[n].size >= sequence_length
                                                THEN Append(f[n - 1], s[n])
                                           ELSE f[n - 1]]
           chosen == CHOOSE f : rule(f)
<1>1. Replay!Eligible(s) = chosen[N]
  BY DEF Replay!Eligible
<1>2. N \in Nat /\ \A n \in 1..N : s[n] \in Replay!Episode
  OBVIOUS
<1>3. <<>> \in V /\ \A n \in 1..N, c \in V : step(n, c) \in V
  <2>1. \A c \in V, e \in Replay!Episode : Append(c, e) \in V
    OBVIOUS
  <2> QED
    BY <1>2, <2>1
<1> HIDE DEF step, V
<1>4. F \in [Nat \X V -> V]
  <2>1. ASSUME NEW p \in Nat \X V
        PROVE  (IF p[1] \in 1..N THEN step(p[1], p[2]) ELSE <<>>) \in V
    <3>1. p[2] \in V
      OBVIOUS
    <3> QED
      BY <1>3, <3>1
  <2> QED
    BY <2>1
<1>5. PICK f : Follows(f, <<>>, F, N, V)
  <2> HIDE DEF F, N
  <2> QED
    BY <1>2, <1>3, <1>4, RecursionExists
<1>6. \A n \in 0..N : f[n] = IF n = 0 THEN <<>> ELSE step(n, f[n - 1])
  <2> SUFFICES ASSUME NEW n \in 0..N, n # 0 PROVE f[n] = step(n, f[n - 1])
    BY <1>5 DEF Follows
  <2>1. n \in 1..N /\ n - 1 \in 0..N /\ n \in Nat
    BY <1>2
  <2>2. f[n] = F[<<n, f[n - 1]>>] /\ f[n - 1] \in V
    <3> HIDE DEF F
    <3> QED
      BY <1>5, <2>1 DEF Follows
  <2>3. <<n, f[n - 1]>> \in Nat \X V
    BY <2>1, <2>2
  <2> QED
    BY <2>1, <2>2, <2>3
<1>7. rule(f)
  <2>1. f = [n \in 0..N |-> f[n]]
    <3> HIDE DEF F, N
    <3> QED
      BY <1>5 DEF Follows
  <2>2. \A n \in 0..N : f[n] = IF n = 0 THEN <<>>
                                ELSE IF s[n].size >= sequence_length
                                     THEN Append(f[n - 1], s[n])
                                ELSE f[n - 1]
    BY <1>6 DEF step
  <2> QED
    BY <2>1, <2>2
<1>8. rule(chosen)
  BY <1>7
<1> HIDE DEF chosen, F
<1>9. \A n \in 0..N : chosen[n] = IF n = 0 THEN <<>> ELSE step(n, chosen[n - 1])
  BY <1>8 DEF step
<1> DEFINE B == {n \in 0..N : ~ IsChosen(chosen[n], s, n)}
<1>10. B = {}
  <2> SUFFICES ASSUME B # {} PROVE FALSE
    OBVIOUS
  <2>1. PICK m \in B : \A j \in B : ~ (j < m)
    <3>1. B \in SUBSET Nat
      BY <1>2
    <3> HIDE DEF B
    <3> QED
      BY <3>1, Least
  <2>2. m \in 0..N /\ ~ IsChosen(chosen[m], s, m)
    BY <2>1
  <2>3. CASE m = 0
    <3>1. chosen[0] = <<>>
      BY <1>2, <1>9
    <3>2. IsChosen(<<>>, s, 0)
      BY DEF IsChosen, AreDistinct
    <3> QED
      BY <2>2, <2>3, <3>1, <3>2
  <2>4. CASE m # 0
    <3> PICK n : n = m - 1
      OBVIOUS
    <3>1. n \in Nat /\ n \in 0..N /\ n < m /\ n < N /\ m = n + 1
      BY <1>2, <2>2, <2>4
    <3>2. IsChosen(chosen[n], s, n)
      BY <2>1, <3>1
    <3>3. chosen[m] = step(m, chosen[n])
      BY <1>9, <2>2, <2>4
    <3>4. IsChosen(step(m, chosen[n]), s, m)
      BY <3>1, <3>2, ChosenGrows DEF step
    <3> QED
      BY <2>2, <3>3, <3>4
  <2> QED
    BY <2>3, <2>4
<1>11. IsChosen(chosen[N], s, N)
  <2>1. N \in 0..N
    BY <1>2
  <2> QED
    BY <1>10, <2>1
<1> QED
  BY <1>1, <1>11

\* The numbers of windows of the episodes of e.
Counts(e) == [i \in 1..Len(e) |-> Replay!Windows(e[i])]

\* The windows of the first k episodes of e.
Before(e, k) == Part(Counts(e), 1, k)

LongEnough(e) == \A k \in 1..Len(e) : e[k].size \in Nat /\ e[k].size >= sequence_length

LEMMA CountsType ==
  ASSUME NEW e \in Seq(Replay!Episode), LongEnough(e)
  PROVE  /\ Counts(e) \in Seq(Nat) /\ Len(Counts(e)) = Len(e)
         /\ \A k \in 1..Len(e) : Counts(e)[k] # 0 /\ Counts(e)[k] = Replay!Windows(e[k])
<1> PICK n : n = Len(e)
  OBVIOUS
<1>1. n \in Nat
  OBVIOUS
<1>2. ASSUME NEW k \in 1..n
      PROVE  Replay!Windows(e[k]) \in Nat \ {0}
  <2>1. e[k].size \in Nat /\ e[k].size >= sequence_length
    BY DEF LongEnough
  <2> PICK x : x = e[k].size
    OBVIOUS
  <2>2. x - sequence_length + 1 \in Nat \ {0}
    BY <2>1, MemoryConstants
  <2> QED
    BY <2>2 DEF Replay!Windows
<1>3. Counts(e) = [i \in 1..n |-> Replay!Windows(e[i])]
  BY DEF Counts
<1> QED
  BY <1>1, <1>2, <1>3

\* The sums of the first counts grow with every episode.
LEMMA BeforeGrows ==
  ASSUME NEW e \in Seq(Replay!Episode), LongEnough(e)
  PROVE  /\ Before(e, 0) = 0
         /\ \A k \in 0..Len(e) : Before(e, k) \in Nat
         /\ \A k \in 1..Len(e) : Before(e, k) = Before(e, k - 1) + Replay!Windows(e[k])
         /\ \A j, k \in 0..Len(e) : j <= k => Before(e, j) <= Before(e, k)
         /\ \A j, k \in 0..Len(e) : j < k => Before(e, j) < Before(e, k)
<1> PICK s, n : s = Counts(e) /\ n = Len(e)
  OBVIOUS
<1>1. /\ s \in Seq(Nat) /\ Len(s) = n /\ n \in Nat
      /\ \A k \in 1..n : s[k] # 0 /\ s[k] = Replay!Windows(e[k])
  BY CountsType
<1>2. \A k \in 0..n : Before(e, k) = Part(s, 1, k)
  BY DEF Before
<1>3. \A k \in 0..n : Part(s, 1, k) \in Nat
  <2> SUFFICES ASSUME NEW k \in 0..n PROVE Part(s, 1, k) \in Nat
    OBVIOUS
  <2>1. 1 \in 1..(Len(s) + 1) /\ k \in (1 - 1)..Len(s)
    BY <1>1
  <2> QED
    BY <1>1, <2>1, PartGrows
<1>4. Part(s, 1, 0) = 0
  <2>1. 1 \in 1..(Len(s) + 1) /\ 0 \in (1 - 1)..Len(s) /\ 0 = 1 - 1
    BY <1>1
  <2> QED
    BY <1>1, <2>1, PartGrows
<1>5. \A k \in 1..n : Part(s, 1, k) = Part(s, 1, k - 1) + s[k]
  <2> SUFFICES ASSUME NEW k \in 1..n PROVE Part(s, 1, k) = Part(s, 1, k - 1) + s[k]
    OBVIOUS
  <2> PICK j : j = k - 1
    OBVIOUS
  <2>1. 1 \in 1..(Len(s) + 1) /\ j \in (1 - 1)..Len(s) /\ j < Len(s) /\ k = j + 1
    BY <1>1
  <2> QED
    BY <1>1, <2>1, PartGrows
<1>6. ASSUME NEW j \in 0..n, NEW k \in 0..n, j <= k
      PROVE  Part(s, 1, k) = Part(s, 1, j) + Part(s, j + 1, k) /\ Part(s, j + 1, k) \in Nat
             /\ k - j <= Part(s, j + 1, k)
  <2> PICK i : i = j + 1
    OBVIOUS
  <2>1. /\ 1 \in 1..(Len(s) + 1) /\ j \in (1 - 1)..Len(s) /\ k \in j..Len(s)
        /\ i \in 1..(Len(s) + 1) /\ k \in (i - 1)..Len(s)
    BY <1>1, <1>6
  <2>2. Part(s, 1, k) = Part(s, 1, j) + Part(s, i, k)
    BY <1>1, <2>1, PartSplits
  <2>3. Part(s, i, k) \in Nat
    BY <1>1, <2>1, PartGrows
  <2>4. k - i + 1 <= Part(s, i, k)
    BY <1>1, <2>1, PartIsLong
  <2>5. k - i + 1 = k - j
    BY <1>1
  <2> QED
    BY <2>2, <2>3, <2>4, <2>5
<1>7. /\ \A j, k \in 0..n : j <= k => Part(s, 1, j) <= Part(s, 1, k)
      /\ \A j, k \in 0..n : j < k => Part(s, 1, j) < Part(s, 1, k)
  <2> SUFFICES ASSUME NEW j \in 0..n, NEW k \in 0..n, j <= k
               PROVE  /\ Part(s, 1, j) <= Part(s, 1, k)
                      /\ j < k => Part(s, 1, j) < Part(s, 1, k)
    BY <1>1
  <2> PICK x, y, z : x = Part(s, 1, j) /\ y = Part(s, j + 1, k) /\ z = Part(s, 1, k)
    OBVIOUS
  <2>1. x \in Nat
    BY <1>3
  <2>2. z = x + y /\ y \in Nat /\ k - j <= y
    BY <1>6
  <2>3. x <= z /\ (j < k => x < z)
    <3>1. j \in Nat /\ k \in Nat
      BY <1>1
    <3> QED
      BY ONLY <2>1, <2>2, <3>1
  <2> QED
    BY <2>3
<1>8. \A k \in 1..n : k - 1 \in 0..n /\ k \in 0..n
  BY <1>1
<1> QED
  BY <1>1, <1>2, <1>3, <1>4, <1>5, <1>7, <1>8, SMTT(30)

\* accumulate makes these sums.
LEMMA AccumulatedIsBefore ==
  ASSUME NEW e \in Seq(Replay!Episode), LongEnough(e)
  PROVE  /\ Replay!Accumulated(e) \in Seq(Nat) /\ Len(Replay!Accumulated(e)) = Len(e)
         /\ \A k \in 1..Len(e) : Replay!Accumulated(e)[k] = Before(e, k)
<1> PICK n, c : n = Len(e) /\ c = Replay!Accumulated(e)
  OBVIOUS
<1>1. n \in Nat /\ DOMAIN e = 1..n
  OBVIOUS
<1>2. c = [k \in 1..n |-> Replay!Total([i \in 1..k |-> Replay!Windows(e[i])])]
  BY <1>1 DEF Replay!Accumulated
<1>3. ASSUME NEW k \in 1..n
      PROVE  Replay!Total([i \in 1..k |-> Replay!Windows(e[i])]) = Before(e, k)
  <2> PICK s, p : s = Counts(e) /\ p = [i \in 1..k |-> Replay!Windows(e[i])]
    OBVIOUS
  <2>1. /\ s \in Seq(Nat) /\ Len(s) = n
        /\ \A i \in 1..n : s[i] = Replay!Windows(e[i])
    BY CountsType
  <2>2. 1 \in 1..(Len(s) + 1) /\ k \in (1 - 1)..Len(s) /\ k - 1 + 1 = k
    BY <2>1
  <2> PICK q : q = SubSeq(s, 1, k)
    OBVIOUS
  <2>3. /\ q \in Seq(Nat) /\ Len(q) = k - 1 + 1
        /\ \A i \in 1..(k - 1 + 1) : q[i] = s[1 + i - 1]
    BY <2>1, <2>2, PartOfSequence
  <2>4. Len(q) = k /\ \A i \in 1..k : i \in 1..n /\ q[i] = s[i]
    BY <2>2, <2>3
  <2>5. \A i \in 1..k : q[i] = p[i]
    BY <2>1, <2>4
  <2>6. q = [i \in 1..k |-> q[i]] /\ p = [i \in 1..k |-> p[i]]
    BY <2>3, <2>4
  <2>7. p = q
    BY <2>5, <2>6
  <2> QED
    BY <2>7 DEF Before, Part
<1>4. \A k \in 1..n : Before(e, k) \in Nat
  BY <1>1, BeforeGrows
<1>5. c = [k \in 1..n |-> Before(e, k)]
  BY <1>2, <1>3
<1> QED
  BY <1>1, <1>4, <1>5

\* Every number below the last sum belongs to one episode.
LEMMA OwnerExists ==
  ASSUME NEW e \in Seq(Replay!Episode), LongEnough(e),
         NEW w \in Nat, w < Before(e, Len(e))
  PROVE  \E k \in 1..Len(e) : Before(e, k - 1) <= w /\ w < Before(e, k)
<1> DEFINE S == {k \in 0..Len(e) : w < Before(e, k)}
<1>1. Len(e) \in Nat /\ Len(e) \in S
  OBVIOUS
<1>2. PICK m \in S : \A j \in S : ~ (j < m)
  <2>1. S \in SUBSET Nat
    OBVIOUS
  <2> HIDE DEF S
  <2> QED
    BY <1>1, <2>1, Least
<1>3. m \in 0..Len(e) /\ w < Before(e, m)
  BY <1>2
<1>4. m # 0
  BY <1>3, BeforeGrows
<1>5. m \in 1..Len(e) /\ m - 1 \in 0..Len(e) /\ m - 1 < m
  BY <1>1, <1>3, <1>4
<1>6. ~ (w < Before(e, m - 1))
  BY <1>2, <1>5
<1>7. Before(e, m - 1) \in Nat
  BY <1>5, BeforeGrows
<1>8. Before(e, m - 1) <= w
  BY <1>6, <1>7
<1> QED
  BY <1>3, <1>5, <1>8

\* It is the episode that the bisection finds.
LEMMA BisectionFindsOwner ==
  ASSUME NEW e \in Seq(Replay!Episode), LongEnough(e),
         NEW w \in Nat, NEW k \in 1..Len(e), Before(e, k - 1) <= w, w < Before(e, k)
  PROVE  Cardinality({j \in 1..Len(e) : Before(e, j) <= w}) = k - 1
<1> PICK n : n = Len(e)
  OBVIOUS
<1>1. n \in Nat /\ k \in 1..n /\ k - 1 \in 0..n /\ k \in 0..n
  OBVIOUS
<1>2. ASSUME NEW j \in 1..n
      PROVE  Before(e, j) <= w <=> j \in 1..(k - 1)
  <2>1. j \in 0..n /\ Before(e, j) \in Nat /\ Before(e, k) \in Nat /\ Before(e, k - 1) \in Nat
    BY <1>1, BeforeGrows
  <2>2. CASE j <= k - 1
    <3>1. Before(e, j) <= Before(e, k - 1)
      BY <1>1, <2>1, <2>2, BeforeGrows
    <3>2. Before(e, j) <= w
      BY <2>1, <3>1
    <3> QED
      BY <1>1, <2>2, <3>2
  <2>3. CASE k <= j
    <3>1. Before(e, k) <= Before(e, j)
      BY <1>1, <2>1, <2>3, BeforeGrows
    <3>2. ~ (Before(e, j) <= w)
      BY <2>1, <3>1
    <3> QED
      BY <1>1, <2>3, <3>2
  <2> QED
    BY <1>1, <2>2, <2>3
<1>3. {j \in 1..n : Before(e, j) <= w} = 1..(k - 1)
  <2>1. \A j \in 1..(k - 1) : j \in 1..n
    BY <1>1
  <2> QED
    BY <1>2, <2>1
<1>4. Cardinality(1..(k - 1)) = k - 1
  <2>1. 1 \in Int /\ k - 1 \in Int
    BY <1>1
  <2>2. Cardinality(1..(k - 1)) = IF 1 > k - 1 THEN 0 ELSE (k - 1) - 1 + 1
    BY <2>1, FS_Interval
  <2> QED
    BY <1>1, <2>2
<1> QED
  BY <1>3, <1>4
\* The memory counts as this module does.
LEMMA SameCardinality == \A S : Replay!Cardinality(S) = Cardinality(S)
  BY DEF Replay!Cardinality, Cardinality

\* The index that _finalize_episode makes of the episodes.
IndexFits ==
    /\ episodes \in Seq(Replay!Episode) /\ AreDistinct(episodes)
    /\ eligible = Replay!Eligible(episodes) /\ cumulative = Replay!Accumulated(eligible)

\* What the index is made of.
LEMMA IndexType ==
  ASSUME IndexFits
  PROVE  /\ eligible \in Seq(Replay!Episode) /\ LongEnough(eligible)
         /\ AreDistinct(eligible)
         /\ \A k \in 1..Len(eligible) : \E i \in 1..Len(episodes) :
               eligible[k] = episodes[i] /\ episodes[i].size >= sequence_length
         /\ \A i \in 1..Len(episodes) : episodes[i].size >= sequence_length =>
               \E k \in 1..Len(eligible) : eligible[k] = episodes[i]
         /\ Len(cumulative) = Len(eligible) /\ cumulative \in Seq(Nat)
         /\ \A k \in 1..Len(eligible) : cumulative[k] = Before(eligible, k)
<1> PICK c : c = Replay!Eligible(episodes)
  OBVIOUS
<1>1. eligible = c /\ cumulative = Replay!Accumulated(c)
      /\ episodes \in Seq(Replay!Episode) /\ AreDistinct(episodes)
  BY DEF IndexFits
<1>2. IsChosen(c, episodes, Len(episodes))
  BY <1>1, EligibleIsChosen
<1>3. c \in Seq(Replay!Episode) /\ AreDistinct(c)
      /\ (\A k \in 1..Len(c) : \E i \in 1..Len(episodes) :
             c[k] = episodes[i] /\ episodes[i].size >= sequence_length)
      /\ (\A i \in 1..Len(episodes) :
             episodes[i].size >= sequence_length => \E k \in 1..Len(c) : c[k] = episodes[i])
  BY <1>2 DEF IsChosen
<1>4. LongEnough(c)
  <2> SUFFICES ASSUME NEW k \in 1..Len(c)
               PROVE  c[k].size \in Nat /\ c[k].size >= sequence_length
    BY DEF LongEnough
  <2>1. c[k].size >= sequence_length
    BY <1>3
  <2>2. c[k] \in Replay!Episode
    <3>1. c \in Seq(Replay!Episode)
      BY <1>3
    <3> QED
      BY <3>1
  <2>3. \A x \in Replay!Episode : x.size \in Nat
    BY MemoryConstants DEF Replay!Episode
  <2> QED
    BY <2>1, <2>2, <2>3
<1>5. /\ Replay!Accumulated(c) \in Seq(Nat) /\ Len(Replay!Accumulated(c)) = Len(c)
      /\ \A k \in 1..Len(c) : Replay!Accumulated(c)[k] = Before(c, k)
  BY <1>3, <1>4, AccumulatedIsBefore
<1> QED
  BY <1>1, <1>3, <1>4, <1>5

\* total_windows counts the windows of all the episodes of the index.
LEMMA TotalWindowsIsBefore ==
  ASSUME IndexFits
  PROVE  Replay!total_windows = Before(eligible, Len(eligible))
         /\ Replay!total_windows \in Nat
<1> PICK c, s, n : c = eligible /\ s = cumulative /\ n = Len(c)
  OBVIOUS
<1>1. /\ c \in Seq(Replay!Episode) /\ LongEnough(c) /\ Len(s) = n /\ s \in Seq(Nat)
      /\ \A k \in 1..n : s[k] = Before(c, k)
  BY IndexType
<1>2. n \in Nat /\ n \in 0..n
  BY <1>1
<1>3. Before(c, 0) = 0 /\ Before(c, n) \in Nat
  BY <1>1, <1>2, BeforeGrows
<1>4. CASE n = 0
  <2>1. s = <<>>
    BY <1>1, <1>4
  <2> QED
    BY <1>3, <1>4, <2>1 DEF Replay!total_windows
<1>5. CASE n # 0
  <2>1. s # <<>> /\ n \in 1..n
    BY <1>1, <1>2, <1>5
  <2>2. Replay!total_windows = s[n]
    BY <1>1, <2>1 DEF Replay!total_windows, Replay!Last
  <2> QED
    BY <1>1, <1>3, <2>1, <2>2
<1> QED
  BY <1>4, <1>5

\* The bisection leads from a window_id to the window of the episode it belongs to.
LEMMA LocatedIsOwned ==
  ASSUME IndexFits, NEW w \in Nat, NEW k \in 1..Len(eligible),
         Before(eligible, k - 1) <= w, w < Before(eligible, k)
  PROVE  Replay!Located(w) = [id |-> eligible[k].id, start |-> w - Before(eligible, k - 1)]
<1> PICK c, s, n, j : c = eligible /\ s = cumulative /\ n = Len(c) /\ j = k - 1
  OBVIOUS
<1>1. /\ c \in Seq(Replay!Episode) /\ LongEnough(c) /\ Len(s) = n /\ s \in Seq(Nat)
      /\ \A i \in 1..n : s[i] = Before(c, i)
  BY IndexType
<1>2. Cardinality({i \in 1..n : Before(c, i) <= w}) = j
  BY <1>1, BisectionFindsOwner
<1>3. DOMAIN s = 1..n
  BY <1>1
<1>4. {i \in DOMAIN s : s[i] <= w} = {i \in 1..n : Before(c, i) <= w}
  BY <1>1, <1>3
<1>5. Replay!Located(w) = [id |-> c[j + 1].id, start |-> w - (IF j = 0 THEN 0 ELSE s[j])]
  BY <1>1, <1>2, <1>4, SameCardinality DEF Replay!Located
<1>6. j + 1 = k /\ (j = 0 \/ j \in 1..n)
  BY <1>1
<1>7. (IF j = 0 THEN 0 ELSE s[j]) = Before(c, j)
  <2>1. Before(c, 0) = 0
    BY <1>1, BeforeGrows
  <2> QED
    BY <1>1, <1>6, <2>1
<1> QED
  BY <1>5, <1>6, <1>7
\* Every window_id stands for a window in memory, and one that no other stands for.
LEMMA LocatedIsStored ==
  ASSUME IndexFits
  PROVE  /\ \A w \in 0..(Replay!total_windows - 1) : Replay!Located(w) \in Replay!Stored
         /\ \A v, w \in 0..(Replay!total_windows - 1) :
               Replay!Located(v) = Replay!Located(w) => v = w
<1> PICK c, n : c = eligible /\ n = Len(c)
  OBVIOUS
<1>1. /\ c \in Seq(Replay!Episode) /\ LongEnough(c) /\ AreDistinct(c)
      /\ \A k \in 1..n : \E i \in 1..Len(episodes) :
            c[k] = episodes[i] /\ episodes[i].size >= sequence_length
  BY IndexType
<1>2. n \in Nat /\ Replay!total_windows = Before(c, n) /\ Replay!total_windows \in Nat
  BY <1>1, TotalWindowsIsBefore
<1>3. ASSUME NEW w \in 0..(Replay!total_windows - 1)
      PROVE  \E k \in 1..n : \E x \in 0..(Replay!Windows(c[k]) - 1) :
                /\ Replay!Located(w) = [id |-> c[k].id, start |-> x]
                /\ x = w - Before(c, k - 1) /\ Before(c, k - 1) \in Nat
  <2>1. w \in Nat /\ w < Before(c, n)
    BY <1>2
  <2>2. PICK k \in 1..n : Before(c, k - 1) <= w /\ w < Before(c, k)
    BY <1>1, <2>1, OwnerExists
  <2>3. Replay!Located(w) = [id |-> c[k].id, start |-> w - Before(c, k - 1)]
    BY <2>1, <2>2, LocatedIsOwned
  <2>4. Before(c, k) = Before(c, k - 1) + Replay!Windows(c[k])
        /\ Before(c, k) \in Nat /\ Before(c, k - 1) \in Nat
    <3>1. k \in 1..n /\ k \in 0..n /\ k - 1 \in 0..n
      BY <1>2
    <3> QED
      BY <1>1, <3>1, BeforeGrows
  <2>5. Replay!Windows(c[k]) \in Nat
    <3> PICK q : q = Counts(c)
      OBVIOUS
    <3>1. q \in Seq(Nat) /\ Len(q) = n /\ q[k] = Replay!Windows(c[k])
      BY <1>1, CountsType
    <3> QED
      BY <3>1
  <2> PICK x, y, z, a : x = w - Before(c, k - 1) /\ y = Before(c, k - 1) /\ z = Before(c, k)
                        /\ a = Replay!Windows(c[k])
    OBVIOUS
  <2>6. x \in 0..(a - 1)
    BY <2>1, <2>2, <2>4, <2>5
  <2> QED
    BY <2>3, <2>4, <2>6
<1>4. ASSUME NEW k \in 1..n, NEW x \in 0..(Replay!Windows(c[k]) - 1)
      PROVE  [id |-> c[k].id, start |-> x] \in Replay!Stored
  <2>1. PICK i \in 1..Len(episodes) : c[k] = episodes[i] /\ episodes[i].size >= sequence_length
    BY <1>1
  <2>2. DOMAIN episodes = 1..Len(episodes)
    BY DEF IndexFits
  <2> QED
    BY <2>1, <2>2 DEF Replay!Stored
<1>5. ASSUME NEW v \in 0..(Replay!total_windows - 1), NEW w \in 0..(Replay!total_windows - 1),
             Replay!Located(v) = Replay!Located(w)
      PROVE  v = w
  <2>1. PICK k \in 1..n : \E x \in 0..(Replay!Windows(c[k]) - 1) :
           /\ Replay!Located(v) = [id |-> c[k].id, start |-> x]
           /\ x = v - Before(c, k - 1) /\ Before(c, k - 1) \in Nat
    BY <1>3
  <2>2. PICK x \in 0..(Replay!Windows(c[k]) - 1) :
           /\ Replay!Located(v) = [id |-> c[k].id, start |-> x]
           /\ x = v - Before(c, k - 1) /\ Before(c, k - 1) \in Nat
    BY <2>1
  <2>3. PICK l \in 1..n : \E y \in 0..(Replay!Windows(c[l]) - 1) :
           /\ Replay!Located(w) = [id |-> c[l].id, start |-> y]
           /\ y = w - Before(c, l - 1) /\ Before(c, l - 1) \in Nat
    BY <1>3
  <2>4. PICK y \in 0..(Replay!Windows(c[l]) - 1) :
           /\ Replay!Located(w) = [id |-> c[l].id, start |-> y]
           /\ y = w - Before(c, l - 1) /\ Before(c, l - 1) \in Nat
    BY <2>3
  <2>5. [id |-> c[k].id, start |-> x] = [id |-> c[l].id, start |-> y]
    BY <1>5, <2>2, <2>4
  <2>6. c[k].id = c[l].id /\ x = y
    BY <2>5
  <2>7. k = l
    BY <1>1, <2>6 DEF AreDistinct
  <2>8. v - Before(c, k - 1) = w - Before(c, k - 1) /\ Before(c, k - 1) \in Nat
    BY <2>2, <2>4, <2>6, <2>7
  <2> QED
    BY <2>8
<1> QED
  BY <1>3, <1>4, <1>5

\* Every window in memory has a window_id.
LEMMA StoredIsLocated ==
  ASSUME IndexFits, NEW x \in Replay!Stored
  PROVE  \E w \in 0..(Replay!total_windows - 1) : x = Replay!Located(w)
<1> PICK c, n : c = eligible /\ n = Len(c)
  OBVIOUS
<1>1. /\ c \in Seq(Replay!Episode) /\ LongEnough(c)
      /\ \A i \in 1..Len(episodes) : episodes[i].size >= sequence_length =>
            \E k \in 1..n : c[k] = episodes[i]
  BY IndexType
<1>2. n \in Nat /\ Replay!total_windows = Before(c, n) /\ Replay!total_windows \in Nat
  BY <1>1, TotalWindowsIsBefore
<1>3. PICK i \in 1..Len(episodes) : \E s \in 0..(Replay!Windows(episodes[i]) - 1) :
         episodes[i].size >= sequence_length /\ x = [id |-> episodes[i].id, start |-> s]
  <2>1. DOMAIN episodes = 1..Len(episodes)
    BY DEF IndexFits
  <2> QED
    BY <2>1 DEF Replay!Stored
<1>4. PICK s \in 0..(Replay!Windows(episodes[i]) - 1) :
         episodes[i].size >= sequence_length /\ x = [id |-> episodes[i].id, start |-> s]
  BY <1>3
<1>5. PICK k \in 1..n : c[k] = episodes[i]
  BY <1>1, <1>4
<1>6. /\ Before(c, k) = Before(c, k - 1) + Replay!Windows(c[k])
      /\ Before(c, k) \in Nat /\ Before(c, k - 1) \in Nat /\ Before(c, k) <= Before(c, n)
  <2>1. k \in 1..n /\ k \in 0..n /\ k - 1 \in 0..n /\ n \in 0..n /\ k <= n
    BY <1>2
  <2> QED
    BY <1>1, <2>1, BeforeGrows
<1>7. Replay!Windows(c[k]) \in Nat /\ s \in 0..(Replay!Windows(c[k]) - 1)
  <2> PICK q : q = Counts(c)
    OBVIOUS
  <2>1. q \in Seq(Nat) /\ Len(q) = n /\ q[k] = Replay!Windows(c[k])
    BY <1>1, CountsType
  <2>2. s \in 0..(Replay!Windows(c[k]) - 1)
    BY <1>5
  <2> QED
    BY <2>1, <2>2
<1> PICK w, a, b, d, e : w = Before(c, k - 1) + s /\ a = Before(c, k - 1) /\ b = Before(c, k)
                         /\ d = Before(c, n) /\ e = Replay!Windows(c[k])
  OBVIOUS
<1>8. w \in Nat /\ a <= w /\ w < b /\ w \in 0..(d - 1) /\ w - a = s
  <2>1. b = a + e /\ b \in Nat /\ a \in Nat /\ b <= d /\ d \in Nat
    BY <1>2, <1>6
  <2>2. e \in Nat /\ s \in 0..(e - 1) /\ w = a + s
    BY <1>7
  <2> QED
    BY ONLY <2>1, <2>2
<1>9. Replay!Located(w) = [id |-> c[k].id, start |-> w - Before(c, k - 1)]
  BY <1>8, LocatedIsOwned
<1> QED
  BY <1>2, <1>4, <1>5, <1>8, <1>9

\* What different window_ids stand for is different.
LEMMA ImageIsAsLarge ==
  ASSUME IndexFits, NEW S \in SUBSET (0..(Replay!total_windows - 1))
  PROVE  Cardinality({Replay!Located(w) : w \in S}) = Cardinality(S)
<1> PICK T, N : T = {Replay!Located(w) : w \in S} /\ N = 0..(Replay!total_windows - 1)
  OBVIOUS
<1>1. IsFiniteSet(S)
  <2>1. 0 \in Int /\ Replay!total_windows - 1 \in Int
    BY TotalWindowsIsBefore
  <2>2. IsFiniteSet(N)
    BY <2>1, FS_Interval
  <2> QED
    BY <2>2, FS_Subset
<1> PICK f : f = [w \in S |-> Replay!Located(w)]
  OBVIOUS
<1>2. \A v, w \in S : f[v] = f[w] => v = w
  BY LocatedIsStored
<1>3. f \in Bijection(S, T)
  <2>1. f \in [S -> T]
    OBVIOUS
  <2>2. \A t \in T : \E w \in S : f[w] = t
    OBVIOUS
  <2>3. f \in Injection(S, T)
    BY <1>2, <2>1 DEF Injection, IsInjective
  <2>4. f \in Surjection(S, T)
    BY <2>1, <2>2 DEF Surjection
  <2> QED
    BY <2>3, <2>4 DEF Bijection
<1>4. ExistsBijection(S, T)
  BY <1>3 DEF ExistsBijection
<1> QED
  BY <1>1, <1>4, FS_Bijection

LEMMA FitIndexIsExact ==
  ASSUME IndexFits
  PROVE  IndexIsExact
<1> PICK t, N : t = Replay!total_windows /\ N = 0..(t - 1)
  OBVIOUS
<1>1. t \in Nat
  BY TotalWindowsIsBefore
<1>2. {Replay!Located(w) : w \in N} = Replay!Stored
  BY LocatedIsStored, StoredIsLocated
<1>3. Cardinality(Replay!Stored) = Cardinality(N)
  <2>1. N \in SUBSET N
    OBVIOUS
  <2> QED
    BY <1>2, <2>1, ImageIsAsLarge
<1>4. Cardinality(N) = t
  <2>1. 0 \in Int /\ t - 1 \in Int
    BY <1>1
  <2>2. Cardinality(N) = IF 0 > t - 1 THEN 0 ELSE (t - 1) - 0 + 1
    BY <2>1, FS_Interval
  <2> QED
    BY <1>1, <2>2
<1> QED
  BY <1>2, <1>3, <1>4, SameCardinality DEF IndexIsExact, Replay!IndexIsExact
\* What training draws is in memory, and as much as it asked for.
LEMMA SampleIsStored ==
  ASSUME IndexFits, Replay!Sample
  PROVE  batch' \subseteq Replay!Stored /\ Cardinality(batch') = batch_size
<1> PICK S : /\ S \in Replay!kSubset(batch_size, 0..(Replay!total_windows - 1))
             /\ batch' = {Replay!Located(w) : w \in S}
  BY DEF Replay!Sample
<1>1. S \in SUBSET (0..(Replay!total_windows - 1)) /\ Cardinality(S) = batch_size
  BY SameCardinality DEF Replay!kSubset, Replay!Cardinality
<1>2. Cardinality(batch') = batch_size
  BY <1>1, ImageIsAsLarge
<1>3. \A w \in S : Replay!Located(w) \in Replay!Stored
  BY <1>1, LocatedIsStored
<1> QED
  BY <1>2, <1>3

-----------------------------------------------------------------------------
(* The memory                                                               *)

\* The moves of the games.
GameSizes == [i \in DOMAIN games |-> Len(games[i].frames) - 1]

\* The identity that was given a episodes before the next one.
IdOfAge(next, a) == IF next >= a THEN next - a ELSE next + (max_frames + 2) - a

\* Every episode has the identity of its age.
HasIdsByAge(s, next) == \A i \in 1..Len(s) : s[i].id = IdOfAge(next, Len(s) + 1 - i)

\* s has the sizes from the nth on, as many as fit the memory.
HoldsLatest(s, count, sizes, n) ==
    /\ Replay!Sizes(s) = SubSeq(sizes, n, Len(sizes))
    /\ count = Part(sizes, n, Len(sizes)) /\ count <= max_frames
    /\ n > 1 => Part(sizes, n - 1, Len(sizes)) > max_frames

\* The memory is that of the games, and the index that of the memory.
MInv ==
    /\ GameSizes \in Seq(1..MaxMoves)
    /\ \E n \in 1..(Len(GameSizes) + 1) : HoldsLatest(episodes, frame_count, GameSizes, n)
    /\ next_id \in Replay!Ids /\ HasIdsByAge(episodes, next_id)
    /\ IndexFits
    /\ current \in 0..(MaxMoves - 1)
    /\ place = "playing" => current = Len(frames) - 1
    /\ place \in {"over", "between"} => current = 0
    /\ batch \subseteq [id : Replay!Ids, start : 0..(MaxMoves - 1)]

\* The number of injections there may be.
Injectable ==
    IF place \in {"playing", "over"} THEN state.completed_epochs * MaxMoves + injections
    ELSE IF place = "between" THEN state.completed_epochs * MaxMoves
    ELSE Epochs * MaxMoves

\* Nothing exceeds what the configuration allows.
BInv ==
    /\ epsilon \in 0..Scale /\ episode_epsilon \in 0..Scale
    /\ state.completed_epochs \in 0..Epochs
    /\ state.snapshot \in Board \union {NoBoard} /\ current_board \in Board \union {NoBoard}
    /\ frames \in Seq(Board)
    /\ \A i \in 1..Len(frames) : frames[i].score <= frames[i].move_count
    /\ injections \in 0..MaxMoves
    /\ total_injections \in 0..Injectable
    /\ place \in {"playing", "over"} =>
          /\ state.completed_epochs < Epochs
          /\ Len(frames) - 1 \in 0..MaxMoves /\ injections <= Len(frames) - 1
    /\ place = "playing" => Len(frames) <= MaxMoves
    /\ place = "over" => Len(frames) > 1
-----------------------------------------------------------------------------
(* Bounds                                                                   *)

LEMMA NextProduct ==
  ASSUME NEW k \in Nat, NEW n \in Nat, k < n, NEW m \in Nat
  PROVE  /\ k * m \in Nat /\ n * m \in Nat /\ k * m + m <= n * m
         /\ (k + 1) * m = k * m + m
<1>1. m * k + m <= m * n
  BY ProductGrows
<1>2. k * m = m * k /\ n * m = m * n /\ k * m \in Nat /\ n * m \in Nat
  OBVIOUS
<1>3. (k + 1) * m = k * m + m
  OBVIOUS
<1> QED
  BY <1>1, <1>2, <1>3

LEMMA BoundConstants ==
  /\ Epochs \in Nat \ {0} /\ Scale \in Nat \ {0} /\ MaxMoves \in Nat \ {0} /\ Cutoff \in 1..Scale
  /\ Initials \subseteq 0..Scale /\ Minimums \subseteq 0..Scale /\ Divisors \subseteq Nat \ {0}
BY SimulatorAssumption DEF SimulatorAssumption

LEMMA InitIsBounded == Init => BInv
<1> SUFFICES ASSUME Init PROVE BInv
  OBVIOUS
<1>1. /\ place = "between" /\ injections = 0 /\ total_injections = 0 /\ epsilon = schedule.initial
      /\ frames = <<>> /\ current_board = NoBoard /\ episode_epsilon = 0
      /\ state.completed_epochs = 0 /\ state.snapshot = NoBoard
  BY DEF Init
<1>2. epsilon \in 0..Scale
  <2>1. schedule.initial \in Initials
    BY DEF Init
  <2> QED
    BY <1>1, <2>1, BoundConstants
<1>3. Injectable \in Nat
  BY <1>1, BoundConstants, NextProduct DEF Injectable
<1> QED
  BY <1>1, <1>2, <1>3, BoundConstants DEF BInv

LEMMA StartEpisodeIsBounded ==
  ASSUME IInv, BInv, StartEpisode
  PROVE  BInv'
<1> PICK b, k : b = [episode |-> Episode, move_count |-> 0, score |-> 0]
                /\ k = state.completed_epochs
  OBVIOUS
<1>1. /\ place = "between" /\ k < Epochs /\ place' = "playing"
      /\ current_board' = b /\ frames' = <<b>> /\ episode_epsilon' = epsilon
      /\ UNCHANGED <<epsilon, injections, total_injections, state>>
  BY DEF StartEpisode
<1>2. injections = 0 /\ k \in Nat
  BY <1>1 DEF IInv, GamesArePlayed
<1>3. b \in Board /\ b.score = 0 /\ b.move_count = 0
  BY <1>1, <1>2, BoundConstants DEF Board, Episode
<1>4. frames' \in Seq(Board) /\ Len(frames') = 1 /\ frames'[1] = b
  BY <1>1, <1>3
<1>5. Injectable' = k * MaxMoves + 0 /\ Injectable = k * MaxMoves
  BY <1>1, <1>2 DEF Injectable
<1>6. Injectable' = Injectable
  BY <1>2, <1>5, BoundConstants, NextProduct
<1>7. \A i \in 1..Len(frames') : frames'[i].score <= frames'[i].move_count
  BY <1>3, <1>4
<1>8. /\ epsilon \in 0..Scale /\ state.completed_epochs \in 0..Epochs
      /\ state.snapshot \in Board \union {NoBoard}
      /\ total_injections \in 0..Injectable
  BY DEF BInv
<1>9. /\ Len(frames') - 1 \in 0..MaxMoves /\ injections' <= Len(frames') - 1
      /\ Len(frames') <= MaxMoves /\ injections' \in 0..MaxMoves
  BY <1>1, <1>2, <1>4, BoundConstants
<1> QED
  BY <1>1, <1>3, <1>4, <1>6, <1>7, <1>8, <1>9 DEF BInv

LEMMA StepIsBounded ==
  ASSUME IInv, BInv, NEW inject \in BOOLEAN, NEW ate \in BOOLEAN, NEW done \in BOOLEAN,
         Step(inject, ate, done)
  PROVE  BInv'
<1> PICK board : board = [Last(frames) EXCEPT !.move_count = @ + 1,
                                              !.score = IF ate THEN @ + 1 ELSE @]
  OBVIOUS
<1> PICK k, x, y, n : /\ k = state.completed_epochs /\ n = Len(frames)
                      /\ x = injections /\ y = total_injections
  OBVIOUS
<1>1. /\ place = "playing" /\ (board.move_count = MaxMoves => done)
      /\ injections' = x + IF inject THEN 1 ELSE 0
      /\ total_injections' = y + IF inject THEN 1 ELSE 0
      /\ frames' = Append(frames, board)
      /\ current_board' = IF board.score > current_board.score THEN board ELSE current_board
      /\ place' = IF done THEN "over" ELSE "playing"
      /\ UNCHANGED <<epsilon, episode_epsilon, state>>
  BY DEF Step
<1>2. /\ IsGame(frames) /\ x \in Nat /\ k \in Nat
  BY <1>1 DEF IInv, GamesArePlayed
<1>3. /\ epsilon \in 0..Scale /\ episode_epsilon \in 0..Scale
      /\ state.completed_epochs \in 0..Epochs
      /\ state.snapshot \in Board \union {NoBoard} /\ current_board \in Board \union {NoBoard}
      /\ frames \in Seq(Board)
      /\ (\A i \in 1..n : frames[i].score <= frames[i].move_count)
      /\ y \in 0..Injectable /\ k < Epochs /\ n <= MaxMoves /\ x <= n - 1
  BY <1>1 DEF BInv
<1>4. n \in Nat \ {0} /\ n \in 1..n /\ Last(frames) = frames[n]
  BY <1>2, <1>3 DEF IsGame, Last
<1>5. board \in Board /\ board.move_count = n /\ board.score <= board.move_count
  <2> PICK last : last = frames[n]
    OBVIOUS
  <2>1. last \in Board /\ last.score <= last.move_count
    BY <1>3, <1>4
  <2>2. last.move_count = n - 1
    BY <1>2, <1>4 DEF IsGame
  <2>3. /\ last.episode \in 1..Epochs /\ last.move_count \in Nat /\ last.score \in Nat
        /\ board = [episode |-> last.episode, move_count |-> last.move_count + 1,
                    score |-> IF ate THEN last.score + 1 ELSE last.score]
    <3>1. last.episode \in 1..Epochs /\ last.move_count \in Nat /\ last.score \in Nat
      BY <2>1, BoundConstants DEF Board
    <3>2. last = [episode |-> last.episode, move_count |-> last.move_count, score |-> last.score]
      BY <2>1 DEF Board
    <3>3. board = [last EXCEPT !.move_count = @ + 1, !.score = IF ate THEN @ + 1 ELSE @]
      BY <1>4
    <3>4. board = [episode |-> last.episode, move_count |-> last.move_count + 1,
                   score |-> IF ate THEN last.score + 1 ELSE last.score]
      BY ONLY <3>2, <3>3
    <3> QED
      BY <3>1, <3>4
  <2> PICK points : points = IF ate THEN last.score + 1 ELSE last.score
    OBVIOUS
  <2>4. points \in Nat /\ points <= n
    <3>1. ate \/ ~ ate
      OBVIOUS
    <3>2. CASE ate
      <4>1. points = last.score + 1
        BY <3>2
      <4> QED
        BY <1>4, <2>1, <2>2, <2>3, <4>1
    <3>3. CASE ~ ate
      <4>1. points = last.score
        BY <3>3
      <4> QED
        BY <1>4, <2>1, <2>2, <2>3, <4>1
    <3> QED
      BY <3>2, <3>3
  <2>5. board = [episode |-> last.episode, move_count |-> last.move_count + 1, score |-> points]
    BY <2>3
  <2>6. board.episode = last.episode /\ board.move_count = last.move_count + 1
        /\ board.score = points
    BY ONLY <2>5
  <2>7. board.move_count = n
    BY <1>4, <2>2, <2>3, <2>6
  <2>8. n \in 0..MaxMoves /\ points \in 0..MaxMoves
    BY <1>3, <1>4, <2>4, BoundConstants
  <2>9. board \in Board
    BY <2>3, <2>5, <2>6, <2>7, <2>8 DEF Board
  <2> QED
    BY <2>4, <2>6, <2>7, <2>9
<1>6. /\ frames' \in Seq(Board) /\ Len(frames') = n + 1 /\ frames'[n + 1] = board
      /\ \A i \in 1..n : frames'[i] = frames[i]
  BY <1>1, <1>3, <1>4, <1>5
<1>7. \A i \in 1..Len(frames') : frames'[i].score <= frames'[i].move_count
  <2> SUFFICES ASSUME NEW i \in 1..Len(frames')
               PROVE  frames'[i].score <= frames'[i].move_count
    OBVIOUS
  <2>1. i \in 1..n \/ i = n + 1
    BY <1>4, <1>6
  <2> QED
    BY <1>3, <1>5, <1>6, <2>1
<1>8. current_board' \in Board \union {NoBoard}
  BY <1>1, <1>3, <1>5
<1>9. /\ injections' \in Nat /\ injections' <= n
      /\ \E d \in {0, 1} : injections' = x + d /\ total_injections' = y + d
  <2>1. CASE inject
    <3>1. injections' = x + 1 /\ total_injections' = y + 1
      BY <1>1, <2>1
    <3> QED
      BY <1>2, <1>3, <1>4, <3>1
  <2>2. CASE ~ inject
    <3>1. injections' = x + 0 /\ total_injections' = y + 0
      BY <1>1, <2>2
    <3> QED
      BY <1>2, <1>3, <1>4, <3>1
  <2> QED
    BY <2>1, <2>2
<1>10. total_injections' \in 0..Injectable'
  <2> PICK d \in {0, 1} : injections' = x + d /\ total_injections' = y + d
    BY <1>9
  <2>1. Injectable = k * MaxMoves + x
    BY <1>1 DEF Injectable
  <2>2. Injectable' = k * MaxMoves + (x + d)
    <3>1. place' \in {"playing", "over"} /\ state' = state
      BY <1>1
    <3> QED
      BY <3>1 DEF Injectable
  <2>3. k * MaxMoves \in Nat
    BY <1>2, <1>3, BoundConstants, NextProduct
  <2> PICK p, b, c, w : /\ p = k * MaxMoves /\ b = Injectable
                        /\ c = Injectable' /\ w = total_injections'
    OBVIOUS
  <2>4. /\ p \in Nat /\ b = p + x /\ c = p + (x + d) /\ w = y + d
        /\ y \in 0..b /\ x \in Nat /\ d \in {0, 1}
    BY <1>2, <1>3, <2>1, <2>2, <2>3
  <2>5. w \in 0..c
    BY ONLY <2>4
  <2> QED
    BY <2>5
<1>11. place' = "playing" => n + 1 <= MaxMoves
  <2>1. place' = "playing" => n # MaxMoves
    BY <1>1, <1>5
  <2> QED
    BY <1>3, <1>4, <2>1, BoundConstants
<1>12. /\ Len(frames') - 1 \in 0..MaxMoves /\ injections' <= Len(frames') - 1
       /\ Len(frames') > 1 /\ injections' \in 0..MaxMoves
  BY <1>3, <1>4, <1>6, <1>9, BoundConstants
<1>13. state'.completed_epochs < Epochs /\ state' = state
       /\ epsilon' = epsilon /\ episode_epsilon' = episode_epsilon
       /\ (place' = "playing" => Len(frames') <= MaxMoves)
  BY <1>1, <1>3, <1>6, <1>11
<1> QED
  BY <1>3, <1>6, <1>7, <1>8, <1>10, <1>12, <1>13 DEF BInv
LEMMA EndEpisodeIsBounded ==
  ASSUME IInv, EInv, BInv, EndEpisode, schedule.minimum \in 0..Scale
  PROVE  BInv'
<1> PICK k : k = state.completed_epochs
  OBVIOUS
<1>1. /\ place = "over" /\ place' = "between" /\ state' = Recorded(Result)
      /\ injections' = 0 /\ epsilon' = NextEpsilon(schedule, epsilon)
      /\ UNCHANGED <<total_injections, frames, current_board, episode_epsilon>>
  BY DEF EndEpisode, game_vars
<1>2. k \in Nat /\ injections \in Nat
  BY DEF IInv, GamesArePlayed
<1>3. /\ epsilon \in 0..Scale /\ episode_epsilon \in 0..Scale
      /\ state.snapshot \in Board \union {NoBoard} /\ current_board \in Board \union {NoBoard}
      /\ frames \in Seq(Board)
      /\ (\A i \in 1..Len(frames) : frames[i].score <= frames[i].move_count)
      /\ total_injections \in 0..Injectable
      /\ k < Epochs /\ Len(frames) - 1 \in 0..MaxMoves /\ injections <= Len(frames) - 1
  BY <1>1 DEF BInv
<1>4. /\ state'.completed_epochs = k + 1
      /\ state'.snapshot = IF Captures THEN current_board ELSE state.snapshot
  BY <1>1 DEF Recorded
<1>5. state'.completed_epochs \in 0..Epochs /\ state'.snapshot \in Board \union {NoBoard}
  BY <1>2, <1>3, <1>4, BoundConstants
<1>6. epsilon' \in 0..Scale
  <2> PICK m, d, q : m = schedule.minimum /\ d = schedule.divisor /\ q = epsilon \div d
    OBVIOUS
  <2>1. m \in 0..Scale /\ d \in Nat \ {0} /\ epsilon \in Nat
    BY <1>3, BoundConstants DEF EInv
  <2>2. q \in Nat /\ q <= epsilon
    BY <2>1, DivBounds
  <2>3. q \in 0..Scale
    BY <1>3, <2>2, BoundConstants
  <2>4. Max({m, q}) \in 0..Scale
    <3>1. m \in Nat /\ q \in Nat
      BY <2>1, <2>2, BoundConstants
    <3>2. Max({m, q}) \in {m, q}
      BY <3>1, MaxOfTwo
    <3> QED
      BY <2>1, <2>3, <3>2
  <2>5. 0 \in 0..Scale
    BY BoundConstants
  <2>6. epsilon' = 0 \/ epsilon' = Max({m, q})
    BY <1>1 DEF NextEpsilon
  <2> QED
    BY <2>4, <2>5, <2>6
<1>7. total_injections' \in 0..Injectable'
  <2>1. Injectable = k * MaxMoves + injections
    BY <1>1 DEF Injectable
  <2>2. Injectable' = (k + 1) * MaxMoves
    BY <1>1, <1>4 DEF Injectable
  <2>3. (k + 1) * MaxMoves = k * MaxMoves + MaxMoves /\ k * MaxMoves \in Nat
    BY <1>2, <1>3, BoundConstants, NextProduct
  <2> PICK p, q : p = k * MaxMoves /\ q = (k + 1) * MaxMoves
    OBVIOUS
  <2>4. q = p + MaxMoves /\ p \in Nat /\ injections <= MaxMoves
    BY <1>2, <1>3, <2>3, BoundConstants
  <2>5. total_injections \in 0..(p + injections) /\ total_injections' = total_injections
    BY <1>1, <1>3, <2>1
  <2>6. total_injections' \in 0..q
    BY <1>2, <2>4, <2>5, BoundConstants
  <2> QED
    BY <2>2, <2>6
<1>8. injections' \in 0..MaxMoves
  BY <1>1, BoundConstants
<1> QED
  BY <1>1, <1>3, <1>5, <1>6, <1>7, <1>8 DEF BInv

LEMMA InjectableIsBounded ==
  ASSUME IInv, BInv
  PROVE  /\ Injectable <= Epochs * MaxMoves /\ Injectable \in Nat
         /\ Epochs * MaxMoves \in Nat
<1> PICK k : k = state.completed_epochs
  OBVIOUS
<1>1. /\ k \in Nat /\ injections \in Nat
      /\ place \in {"between", "playing", "over", "left"}
  BY DEF IInv, GamesArePlayed
<1>2. k \in 0..Epochs /\ injections \in 0..MaxMoves
  BY DEF BInv
<1>3. Epochs * MaxMoves \in Nat
  <2>1. 0 < Epochs
    BY BoundConstants
  <2> QED
    BY <2>1, BoundConstants, NextProduct
<1>4. Injectable <= Epochs * MaxMoves /\ Injectable \in Nat
  <2>1. CASE k < Epochs
    <3>1. k * MaxMoves \in Nat /\ k * MaxMoves + MaxMoves <= Epochs * MaxMoves
      BY <1>1, <2>1, BoundConstants, NextProduct
    <3>2. \/ Injectable = k * MaxMoves + injections
          \/ Injectable = k * MaxMoves + 0
          \/ Injectable = Epochs * MaxMoves
      BY <1>1, <3>1 DEF Injectable
    <3> PICK p, q : p = k * MaxMoves /\ q = Epochs * MaxMoves
      OBVIOUS
    <3>3. /\ p \in Nat /\ p + MaxMoves <= q /\ q \in Nat
          /\ Injectable = p + injections \/ Injectable = p + 0 \/ Injectable = q
      BY <1>3, <3>1, <3>2
    <3>4. Injectable <= q /\ Injectable \in Nat
      BY <1>1, <1>2, <3>3, BoundConstants
    <3> QED
      BY <3>4
  <2>2. CASE ~ (k < Epochs)
    <3>1. k = Epochs
      BY <1>2, <2>2, BoundConstants
    <3>2. place \notin {"playing", "over"}
      BY <2>2 DEF BInv
    <3>3. Injectable = Epochs * MaxMoves
      BY <1>1, <3>1, <3>2 DEF Injectable
    <3> QED
      BY <1>3, <3>3
  <2> QED
    BY <2>1, <2>2
<1> QED
  BY <1>3, <1>4

LEMMA LeaveIsBounded ==
  ASSUME IInv, BInv, Leave
  PROVE  BInv'
<1> PICK k : k = state.completed_epochs
  OBVIOUS
<1>1. /\ place # "left" /\ place' = "left"
      /\ UNCHANGED <<epsilon, injections, total_injections, state, frames, current_board,
                     episode_epsilon>>
  BY DEF Leave, game_vars
<1>2. /\ k \in Nat /\ injections \in Nat
      /\ place \in {"between", "playing", "over", "left"}
  BY DEF IInv, GamesArePlayed
<1>3. k \in 0..Epochs /\ total_injections \in 0..Injectable /\ injections \in 0..MaxMoves
  BY DEF BInv
<1>4. Injectable' = Epochs * MaxMoves
  BY <1>1 DEF Injectable
<1>5. Injectable <= Epochs * MaxMoves /\ Injectable \in Nat /\ Epochs * MaxMoves \in Nat
  BY InjectableIsBounded
<1>6. total_injections' \in 0..Injectable'
  BY <1>1, <1>3, <1>4, <1>5
<1> QED
  BY <1>1, <1>6 DEF BInv

LEMMA NextIsBounded ==
  ASSUME IInv, EInv, BInv, schedule.minimum \in 0..Scale, [Next]_vars
  PROVE  BInv'
<1>1. CASE UNCHANGED vars
  BY <1>1 DEF vars, game_vars, BInv, Injectable
<1> QED
  BY <1>1, StartEpisodeIsBounded, StepIsBounded, EndEpisodeIsBounded, LeaveIsBounded DEF Next
-----------------------------------------------------------------------------
(* Eviction                                                                 *)

LEMMA SameSequence ==
  ASSUME NEW S, NEW p \in Seq(S), NEW q \in Seq(S), Len(p) = Len(q),
         \A i \in 1..Len(p) : p[i] = q[i]
  PROVE  p = q
<1>1. p = [i \in 1..Len(p) |-> p[i]]
  OBVIOUS
<1>2. q = [i \in 1..Len(q) |-> q[i]]
  OBVIOUS
<1> QED
  BY <1>1, <1>2

\* The places of a part.
LEMMA PlacesOfPart ==
  ASSUME NEW L \in Nat, NEW a \in 1..(L + 1), NEW b \in (a - 1)..L
  PROVE  /\ b - a + 1 \in Nat
         /\ \A i \in 1..(b - a + 1) : a + i - 1 \in 1..L
OBVIOUS

\* A longer sequence has the parts of a shorter one.
LEMMA PartOfLonger ==
  ASSUME NEW s \in Seq(Nat), NEW t \in Seq(Nat), Len(s) <= Len(t),
         \A i \in 1..Len(s) : t[i] = s[i],
         NEW a \in 1..(Len(s) + 1), NEW b \in (a - 1)..Len(s)
  PROVE  SubSeq(t, a, b) = SubSeq(s, a, b) /\ Part(t, a, b) = Part(s, a, b)
<1> PICK p, q, n : p = SubSeq(s, a, b) /\ q = SubSeq(t, a, b) /\ n = b - a + 1
  OBVIOUS
<1>1. p \in Seq(Nat) /\ Len(p) = n /\ \A i \in 1..n : p[i] = s[a + i - 1]
  BY PartOfSequence
<1>2. q \in Seq(Nat) /\ Len(q) = n /\ \A i \in 1..n : q[i] = t[a + i - 1]
  <2>1. a \in 1..(Len(t) + 1) /\ b \in (a - 1)..Len(t)
    OBVIOUS
  <2> QED
    BY <2>1, PartOfSequence, ZenonT(30)
<1>3. \A i \in 1..n : a + i - 1 \in 1..Len(s)
  <2>1. Len(s) \in Nat
    OBVIOUS
  <2> QED
    BY <2>1, PlacesOfPart
<1>4. \A i \in 1..n : q[i] = p[i]
  BY <1>1, <1>2, <1>3
<1>5. p = q
  BY <1>1, <1>2, <1>4, SameSequence
<1> QED
  BY <1>5 DEF Part

\* The sizes of a part of the episodes are that part of their sizes.
LEMMA SizesOfPart ==
  ASSUME NEW s \in Seq(Replay!Episode), NEW a \in 1..(Len(s) + 1), NEW b \in (a - 1)..Len(s)
  PROVE  /\ Replay!Sizes(s) \in Seq(1..MaxMoves) /\ Len(Replay!Sizes(s)) = Len(s)
         /\ \A i \in 1..Len(s) : Replay!Sizes(s)[i] = s[i].size
         /\ Replay!Sizes(SubSeq(s, a, b)) = SubSeq(Replay!Sizes(s), a, b)
<1>1. ASSUME NEW u \in Seq(Replay!Episode)
      PROVE  /\ Replay!Sizes(u) = [i \in 1..Len(u) |-> u[i].size]
             /\ Replay!Sizes(u) \in Seq(1..MaxMoves) /\ Len(Replay!Sizes(u)) = Len(u)
             /\ \A i \in 1..Len(u) : Replay!Sizes(u)[i] = u[i].size
  <2>1. DOMAIN u = 1..Len(u)
    OBVIOUS
  <2>2. \A i \in 1..Len(u) : u[i].size \in 1..MaxMoves
    <3>1. \A x \in Replay!Episode : x.size \in 1..MaxMoves
      BY DEF Replay!Episode
    <3>2. \A i \in 1..Len(u) : u[i] \in Replay!Episode
      OBVIOUS
    <3> QED
      BY <3>1, <3>2
  <2>3. Replay!Sizes(u) = [i \in 1..Len(u) |-> u[i].size]
    BY <2>1 DEF Replay!Sizes
  <2> HIDE DEF Replay!Episode
  <2> QED
    BY <2>2, <2>3
<1> PICK n, p, q, r : /\ n = b - a + 1 /\ p = SubSeq(s, a, b)
                      /\ q = Replay!Sizes(s) /\ r = SubSeq(q, a, b)
  OBVIOUS
<1>2. p \in Seq(Replay!Episode) /\ Len(p) = n /\ \A i \in 1..n : p[i] = s[a + i - 1]
  BY PartOfSequence
<1>3. q \in Seq(1..MaxMoves) /\ Len(q) = Len(s) /\ \A i \in 1..Len(s) : q[i] = s[i].size
  BY <1>1
<1>4. r \in Seq(1..MaxMoves) /\ Len(r) = n /\ \A i \in 1..n : r[i] = q[a + i - 1]
  <2> PICK S : S = 1..MaxMoves
    OBVIOUS
  <2>1. a \in 1..(Len(q) + 1) /\ b \in (a - 1)..Len(q) /\ q \in Seq(S)
    BY <1>3
  <2>2. /\ SubSeq(q, a, b) \in Seq(S) /\ Len(SubSeq(q, a, b)) = b - a + 1
        /\ \A i \in 1..(b - a + 1) : SubSeq(q, a, b)[i] = q[a + i - 1]
    BY ONLY <2>1, PartOfSequence
  <2> QED
    BY <2>2
<1> PICK o : o = Replay!Sizes(p)
  OBVIOUS
<1>5. o \in Seq(1..MaxMoves) /\ Len(o) = n /\ \A i \in 1..n : o[i] = p[i].size
  BY <1>1, <1>2
<1>6. \A i \in 1..n : a + i - 1 \in 1..Len(s)
  <2>1. Len(s) \in Nat
    OBVIOUS
  <2> QED
    BY <2>1, PlacesOfPart
<1>7. \A i \in 1..n : r[i] = o[i]
  BY <1>2, <1>3, <1>4, <1>5, <1>6
<1>8. o = r
  BY <1>4, <1>5, <1>7, SameSequence
<1> QED
  BY <1>3, <1>8

\* A part of a part.
LEMMA PartOfPart ==
  ASSUME NEW t \in Seq(Nat), NEW n \in 1..(Len(t) + 1), NEW p, p = SubSeq(t, n, Len(t)),
         NEW a \in 1..(Len(p) + 1), NEW b \in (a - 1)..Len(p)
  PROVE  /\ p \in Seq(Nat) /\ Len(p) = Len(t) - n + 1
         /\ SubSeq(p, a, b) = SubSeq(t, n + a - 1, n + b - 1)
<1> PICK L, m, x, y : L = Len(t) /\ m = b - a + 1 /\ x = n + a - 1 /\ y = n + b - 1
  OBVIOUS
<1>1. p \in Seq(Nat) /\ Len(p) = L - n + 1 /\ \A i \in 1..(L - n + 1) : p[i] = t[n + i - 1]
  <2>1. L \in (n - 1)..Len(t)
    OBVIOUS
  <2>2. /\ SubSeq(t, n, L) \in Seq(Nat) /\ Len(SubSeq(t, n, L)) = L - n + 1
        /\ \A i \in 1..(L - n + 1) : SubSeq(t, n, L)[i] = t[n + i - 1]
    BY <2>1, PartOfSequence, SMTT(30)
  <2>3. p = SubSeq(t, n, L)
    OBVIOUS
  <2> QED
    BY ONLY <2>2, <2>3
<1>2. /\ x \in 1..(Len(t) + 1) /\ y \in (x - 1)..Len(t) /\ y - x + 1 = m
      /\ a \in 1..(L - n + 1 + 1) /\ b \in (a - 1)..(L - n + 1) /\ L - n + 1 \in Nat
  BY <1>1
<1> PICK q, r : q = SubSeq(p, a, b) /\ r = SubSeq(t, x, y)
  OBVIOUS
<1>3. q \in Seq(Nat) /\ Len(q) = m /\ \A i \in 1..m : q[i] = p[a + i - 1]
  <2>1. a \in 1..(Len(p) + 1) /\ b \in (a - 1)..Len(p) /\ p \in Seq(Nat)
    BY <1>1
  <2>2. /\ SubSeq(p, a, b) \in Seq(Nat) /\ Len(SubSeq(p, a, b)) = b - a + 1
        /\ \A i \in 1..(b - a + 1) : SubSeq(p, a, b)[i] = p[a + i - 1]
    BY ONLY <2>1, PartOfSequence
  <2> QED
    BY <2>2
<1>4. r \in Seq(Nat) /\ Len(r) = m /\ \A i \in 1..m : r[i] = t[x + i - 1]
  BY <1>2, PartOfSequence, SMTT(30)
<1>5. \A i \in 1..m : q[i] = r[i]
  <2> SUFFICES ASSUME NEW i \in 1..m PROVE q[i] = r[i]
    OBVIOUS
  <2> PICK j : j = a + i - 1
    OBVIOUS
  <2>1. j \in 1..(L - n + 1)
    BY <1>2, PlacesOfPart
  <2>2. n + j - 1 = x + i - 1
    BY <1>2, <2>1
  <2> QED
    BY <1>1, <1>3, <1>4, <2>1, <2>2
<1>6. q = r
  BY <1>3, <1>4, <1>5, SameSequence
<1> QED
  BY <1>1, <1>6
LEMMA MinIsLeast ==
  ASSUME NEW S \in SUBSET Nat, S # {}
  PROVE  Replay!Min(S) \in S /\ \A j \in S : Replay!Min(S) <= j
<1>1. \E x \in S : \A y \in S : x =< y
  BY Least
<1> QED
  BY <1>1 DEF Replay!Min

\* u holds the sizes from the nth on of t, which has x more than s.
IsStoredWith(t, u, n, total, s, x) ==
    /\ t \in Seq(Nat) /\ Len(t) = Len(s) + 1 /\ u \in Seq(Replay!Episode)
    /\ Len(u) = Len(t) - n + 1 /\ Replay!Sizes(u) = SubSeq(t, n, Len(t))
    /\ total = Part(t, n, Len(t))
    /\ \A a \in 1..n : Part(t, a, Len(t)) = Part(s, a, Len(s)) + x

\* With one game more, the memory holds the games from n on and the new one, before any
\* is evicted.
LEMMA NewGameIsStored ==
  ASSUME NEW s \in Seq(Nat), NEW e \in Seq(Replay!Episode), NEW count,
         NEW n \in 1..(Len(s) + 1), HoldsLatest(e, count, s, n),
         NEW ep \in Replay!Episode, NEW t, t = Append(s, ep.size)
  PROVE  IsStoredWith(t, Append(e, ep), n, count + ep.size, s, ep.size)
<1> PICK L, M, x, u : L = Len(s) /\ M = Len(e) /\ x = ep.size /\ u = Append(e, ep)
  OBVIOUS
<1>1. x \in Nat /\ x \in 1..MaxMoves
  BY MemoryConstants DEF Replay!Episode
<1>2. /\ t \in Seq(Nat) /\ Len(t) = L + 1 /\ t[L + 1] = x
      /\ \A i \in 1..L : t[i] = s[i]
  BY <1>1
<1>3. L \in Nat /\ M \in Nat /\ L \in (n - 1)..Len(s)
  OBVIOUS
<1>4. Replay!Sizes(e) = SubSeq(s, n, L) /\ count = Part(s, n, L)
  BY DEF HoldsLatest
<1>5. /\ Len(SubSeq(s, n, L)) = L - n + 1
      /\ \A i \in 1..(L - n + 1) : SubSeq(s, n, L)[i] = s[n + i - 1]
  BY <1>3, PartOfSequence, SMTT(30)
<1>6. Len(Replay!Sizes(e)) = M /\ \A i \in 1..M : Replay!Sizes(e)[i] = e[i].size
  <2>1. 1 \in 1..(Len(e) + 1) /\ 0 \in (1 - 1)..Len(e)
    BY <1>3
  <2> QED
    BY <2>1, SizesOfPart
<1>7. M = L - n + 1 /\ \A i \in 1..M : e[i].size = s[n + i - 1]
  BY <1>4, <1>5, <1>6
<1>8. /\ u \in Seq(Replay!Episode) /\ Len(u) = M + 1 /\ u[M + 1] = ep
      /\ \A i \in 1..M : u[i] = e[i]
  OBVIOUS
<1> PICK p, q : p = Replay!Sizes(u) /\ q = SubSeq(t, n, Len(t))
  OBVIOUS
<1>9. p \in Seq(Nat) /\ Len(p) = M + 1 /\ \A i \in 1..(M + 1) : p[i] = u[i].size
  <2>1. 1 \in 1..(Len(u) + 1) /\ 0 \in (1 - 1)..Len(u)
    BY <1>3, <1>8
  <2>2. /\ p \in Seq(1..MaxMoves) /\ Len(p) = Len(u)
        /\ \A i \in 1..Len(u) : p[i] = u[i].size
    BY <1>8, <2>1, SizesOfPart
  <2>3. p \in Seq(Nat)
    BY <2>2, MemoryConstants
  <2> QED
    BY <1>8, <2>2, <2>3
<1>10. q \in Seq(Nat) /\ Len(q) = M + 1 /\ \A i \in 1..(M + 1) : q[i] = t[n + i - 1]
  <2>1. n \in 1..(Len(t) + 1) /\ Len(t) \in (n - 1)..Len(t) /\ t \in Seq(Nat)
    BY <1>2, <1>3
  <2>2. /\ SubSeq(t, n, Len(t)) \in Seq(Nat) /\ Len(SubSeq(t, n, Len(t))) = Len(t) - n + 1
        /\ \A i \in 1..(Len(t) - n + 1) : SubSeq(t, n, Len(t))[i] = t[n + i - 1]
    BY ONLY <2>1, PartOfSequence
  <2>3. Len(t) - n + 1 = M + 1
    BY <1>2, <1>3, <1>7
  <2> QED
    BY <2>2, <2>3
<1>11. \A i \in 1..(M + 1) : p[i] = q[i]
  <2> SUFFICES ASSUME NEW i \in 1..(M + 1) PROVE p[i] = q[i]
    OBVIOUS
  <2>1. CASE i \in 1..M
    <3>1. n + i - 1 \in 1..L
      BY <1>3, <1>7, <2>1
    <3> QED
      BY <1>2, <1>7, <1>8, <1>9, <1>10, <2>1, <3>1, SMTT(30)
  <2>2. CASE i = M + 1
    <3>1. n + i - 1 = L + 1
      BY <1>3, <1>7, <2>2, SMTT(30)
    <3> QED
      BY <1>2, <1>8, <1>9, <1>10, <2>2, <3>1
  <2>3. i \in 1..M \/ i = M + 1
    BY <1>3
  <2> QED
    BY <2>1, <2>2, <2>3
<1>12. p = q
  <2>1. /\ p \in Seq(Nat) /\ q \in Seq(Nat) /\ Len(p) = Len(q)
        /\ \A i \in 1..Len(p) : p[i] = q[i]
    BY <1>9, <1>10, <1>11
  <2> QED
    BY ONLY <2>1, SameSequence
<1>13. ASSUME NEW a \in 1..n
       PROVE  Part(t, a, L + 1) = Part(s, a, L) + x
  <2>1. /\ a \in 1..(Len(s) + 1) /\ L \in (a - 1)..Len(s) /\ Len(s) <= Len(t)
        /\ a \in 1..(Len(t) + 1) /\ L \in (a - 1)..Len(t) /\ L < Len(t)
    BY <1>2, <1>3
  <2>2. Part(t, a, L) = Part(s, a, L)
    BY <1>2, <2>1, PartOfLonger
  <2>3. Part(t, a, L + 1) = Part(t, a, L) + t[L + 1]
    BY <1>2, <2>1, PartGrows
  <2> QED
    BY <1>2, <2>2, <2>3
<1>14. count + x = Part(t, n, Len(t))
  BY <1>2, <1>3, <1>4, <1>13
<1>15. M + 1 = Len(t) - n + 1
  BY <1>2, <1>3, <1>7
<1> QED
  BY <1>2, <1>8, <1>12, <1>13, <1>14, <1>15 DEF IsStoredWith

\* The loop of evictions ends with the most recent games that fit.
LEMMA EvictionKeepsLatest ==
  ASSUME NEW t \in Seq(Nat), NEW n \in 1..(Len(t) + 1), NEW u \in Seq(Replay!Episode),
         Len(u) = Len(t) - n + 1, Replay!Sizes(u) = SubSeq(t, n, Len(t)),
         NEW total, total = Part(t, n, Len(t)),
         n > 1 => Part(t, n - 1, Len(t)) > max_frames,
         NEW k, k = Replay!Evicted(u, total)
  PROVE  /\ k \in 0..Len(u)
         /\ n + k \in 1..(Len(t) + 1)
         /\ HoldsLatest(SubSeq(u, k + 1, Len(u)), total - Replay!Frames(SubSeq(u, 1, k)), t, n + k)
<1> PICK L, M, p : L = Len(t) /\ M = Len(u) /\ p = SubSeq(t, n, L)
  OBVIOUS
<1>1. L \in Nat /\ M \in Nat /\ M = L - n + 1 /\ n \in 1..(L + 1)
  OBVIOUS
<1>2. p \in Seq(Nat) /\ Len(p) = M /\ p = Replay!Sizes(u) /\ p = SubSeq(t, n, Len(t))
  <2>1. L \in (n - 1)..Len(t)
    BY <1>1
  <2> QED
    BY <1>1, <2>1, PartOfSequence
<1>3. ASSUME NEW m \in 0..M
      PROVE  /\ Replay!Frames(SubSeq(u, 1, m)) = Part(t, n, n + m - 1)
             /\ Part(t, n, n + m - 1) \in Nat /\ Part(t, n + m, L) \in Nat
             /\ total - Replay!Frames(SubSeq(u, 1, m)) = Part(t, n + m, L)
  <2> PICK c, d : c = n + m - 1 /\ d = n + m
    OBVIOUS
  <2>1. /\ 1 \in 1..(Len(u) + 1) /\ m \in (1 - 1)..Len(u)
        /\ 1 \in 1..(Len(p) + 1) /\ m \in (1 - 1)..Len(p) /\ n + 1 - 1 = n
        /\ c \in (n - 1)..Len(t) /\ L \in c..Len(t) /\ c + 1 = d
        /\ d \in 1..(Len(t) + 1) /\ L \in (d - 1)..Len(t)
    BY <1>1, <1>2
  <2>2. Replay!Sizes(SubSeq(u, 1, m)) = SubSeq(p, 1, m)
    BY <1>2, <2>1, SizesOfPart
  <2>3. SubSeq(p, 1, m) = SubSeq(t, n, c)
    <3>1. SubSeq(p, 1, m) = SubSeq(t, n + 1 - 1, n + m - 1)
      BY <1>2, <2>1, PartOfPart
    <3> QED
      BY <2>1, <3>1
  <2>4. Replay!Frames(SubSeq(u, 1, m)) = Part(t, n, c)
    BY <2>2, <2>3 DEF Replay!Frames, Part
  <2>5. Part(t, n, L) = Part(t, n, c) + Part(t, c + 1, L)
    BY <2>1, PartSplits
  <2>6. Part(t, n, c) \in Nat
    BY <2>1, PartGrows
  <2>7. Part(t, d, L) \in Nat
    BY <2>1, PartGrows
  <2> PICK f, g, h : f = Part(t, n, c) /\ g = Part(t, d, L) /\ h = Part(t, n, L)
    OBVIOUS
  <2>8. h = f + g
    BY <2>1, <2>5
  <2>9. h - f = g
    BY <2>6, <2>7, <2>8
  <2> QED
    BY <2>4, <2>6, <2>7, <2>9
<1> DEFINE S == {m \in 0..M : total - Replay!Frames(SubSeq(u, 1, m)) <= max_frames}
<1>4. \A m \in 0..M : m \in S <=> Part(t, n + m, L) <= max_frames
  BY <1>3
<1>5. M \in S
  <2> PICK d : d = n + M
    OBVIOUS
  <2>1. M \in 0..M /\ d \in 1..(Len(t) + 1) /\ L \in (d - 1)..Len(t) /\ L = d - 1
    BY <1>1
  <2>2. Part(t, d, L) = 0
    BY <2>1, PartGrows
  <2> QED
    BY <1>4, <2>1, <2>2, MemoryConstants
<1>6. k = Replay!Min(S)
  BY DEF Replay!Evicted
<1>7. S \in SUBSET Nat
  BY <1>1
<1> HIDE DEF S
<1>8. k \in S /\ \A j \in S : k <= j
  BY <1>5, <1>6, <1>7, MinIsLeast, SMTT(30)
<1>9. k \in 0..M
  BY <1>8 DEF S
<1>10. PICK d : d = n + k
  OBVIOUS
<1> PICK kept : kept = SubSeq(u, k + 1, M)
  OBVIOUS
<1>11. /\ d \in 1..(Len(t) + 1) /\ k + 1 \in 1..(Len(u) + 1) /\ M \in (k + 1 - 1)..Len(u)
       /\ k + 1 \in 1..(Len(p) + 1) /\ M \in (k + 1 - 1)..Len(p)
       /\ n + (k + 1) - 1 = d /\ n + M - 1 = L
  <2>1. Len(u) = M /\ Len(t) = L /\ Len(p) = M
    BY <1>2
  <2>2. /\ d \in 1..(L + 1) /\ k + 1 \in 1..(M + 1) /\ M \in (k + 1 - 1)..M
        /\ n + (k + 1) - 1 = d /\ n + M - 1 = L
    BY ONLY <1>1, <1>9, <1>10
  <2> QED
    BY ONLY <2>1, <2>2
<1>12. Replay!Sizes(kept) = SubSeq(t, d, L)
  <2>1. PICK a : a = k + 1
    OBVIOUS
  <2>2. /\ a \in 1..(Len(u) + 1) /\ M \in (a - 1)..Len(u) /\ u \in Seq(Replay!Episode)
        /\ a \in 1..(Len(p) + 1) /\ M \in (a - 1)..Len(p) /\ t \in Seq(Nat)
        /\ n \in 1..(Len(t) + 1) /\ p = SubSeq(t, n, Len(t))
    BY <1>2, <1>11, <2>1
  <2>3. Replay!Sizes(SubSeq(u, a, M)) = SubSeq(Replay!Sizes(u), a, M)
    BY ONLY <2>2, SizesOfPart
  <2>4. SubSeq(p, a, M) = SubSeq(t, n + a - 1, n + M - 1)
    BY ONLY <2>2, PartOfPart
  <2> QED
    BY <1>2, <1>11, <2>1, <2>3, <2>4
<1>13. total - Replay!Frames(SubSeq(u, 1, k)) = Part(t, d, L)
  BY <1>3, <1>9, <1>10
<1>14. Part(t, d, L) <= max_frames
  BY <1>4, <1>8, <1>9, <1>10
<1>15. ASSUME d > 1
       PROVE  Part(t, d - 1, L) > max_frames
  <2>1. CASE k = 0
    <3>1. d = n
      BY ONLY <1>1, <1>10, <2>1
    <3> QED
      BY <1>15, <3>1
  <2>2. CASE k # 0
    <3>1. PICK j : j = k - 1
      OBVIOUS
    <3>2. j \in 0..M /\ ~ (k <= j) /\ n + j = d - 1
      BY ONLY <1>1, <1>9, <1>10, <2>2, <3>1
    <3>3. j \notin S
      BY <1>8, <3>2
    <3>4. ~ (Part(t, n + j, L) <= max_frames) /\ Part(t, n + j, L) \in Nat
      BY <1>3, <1>4, <3>2, <3>3
    <3> PICK f : f = Part(t, n + j, L)
      OBVIOUS
    <3>5. f > max_frames
      BY <3>4, MemoryConstants
    <3> QED
      BY <3>2, <3>5
  <2> QED
    BY <2>1, <2>2
<1>16. HoldsLatest(kept, Part(t, d, L), t, d)
  BY <1>12, <1>14, <1>15 DEF HoldsLatest
<1> QED
  BY <1>9, <1>11, <1>13, <1>16, <1>10
-----------------------------------------------------------------------------
(* Identities                                                               *)

LEMMA Remainder ==
  ASSUME NEW c \in Nat \ {0}, NEW a \in 0..(c - 1)
  PROVE  (a + 1) % c = IF a + 1 = c THEN 0 ELSE a + 1
<1>1. CASE a + 1 = c
  <2>1. c % c = 0
    OBVIOUS
  <2> QED
    BY <1>1, <2>1
<1>2. CASE a + 1 # c
  <2>1. ASSUME NEW x \in 0..(c - 1)
        PROVE  x % c = x
    OBVIOUS
  <2>2. a + 1 \in 0..(c - 1)
    BY <1>2
  <2> QED
    BY <1>2, <2>1, <2>2
<1> QED
  BY <1>1, <1>2

\* The identities that next_id goes through.
LEMMA IdsAreInterval ==
  /\ Replay!Ids = 0..(max_frames + 1)
  /\ \A next \in Replay!Ids :
        (next + 1) % Replay!Cardinality(Replay!Ids)
          = IF next = max_frames + 1 THEN 0 ELSE next + 1
<1> PICK m : m = max_frames + 1
  OBVIOUS
<1>1. m \in Nat /\ m + 1 \in Nat \ {0} /\ m = (m + 1) - 1
  BY MemoryConstants
<1>2. Replay!Ids = 0..m
  BY DEF Replay!Ids
<1>3. Cardinality(0..m) = m + 1
  <2>1. 0 \in Int /\ m \in Int
    BY <1>1
  <2>2. Cardinality(0..m) = IF 0 > m THEN 0 ELSE m - 0 + 1
    BY <2>1, FS_Interval
  <2> QED
    BY <1>1, <2>2
<1>4. Replay!Cardinality(Replay!Ids) = m + 1
  BY <1>2, <1>3, SameCardinality
<1>5. ASSUME NEW next \in 0..m
      PROVE  (next + 1) % (m + 1) = IF next = m THEN 0 ELSE next + 1
  <2> PICK c : c = m + 1
    OBVIOUS
  <2>1. c \in Nat \ {0} /\ next \in 0..(c - 1)
    BY <1>1
  <2>2. (next + 1) % c = IF next + 1 = c THEN 0 ELSE next + 1
    BY <2>1, Remainder
  <2>3. next + 1 = c <=> next = m
    BY <1>1
  <2> QED
    BY <2>2, <2>3
<1> QED
  BY <1>2, <1>4, <1>5

\* An identity goes with its age, and within max_frames ages there is no other.
LEMMA IdsOfAges ==
  ASSUME NEW next \in 0..(max_frames + 1), NEW succ,
         succ = IF next = max_frames + 1 THEN 0 ELSE next + 1
  PROVE  /\ succ \in 0..(max_frames + 1) /\ IdOfAge(succ, 1) = next
         /\ \A a \in 1..(max_frames + 1) :
               /\ IdOfAge(next, a) \in 0..(max_frames + 1)
               /\ IdOfAge(succ, a + 1) = IdOfAge(next, a)
         /\ \A a, b \in 1..(max_frames + 1) : IdOfAge(next, a) = IdOfAge(next, b) => a = b
BY MemoryConstants DEF IdOfAge

\* The new episode has the next identity.
LEMMA NewIdByAge ==
  ASSUME NEW e \in Seq(Replay!Episode), Len(e) <= max_frames, NEW next \in Replay!Ids,
         HasIdsByAge(e, next), NEW ep \in Replay!Episode, ep.id = next,
         NEW succ, succ = (next + 1) % Replay!Cardinality(Replay!Ids)
  PROVE  succ \in Replay!Ids /\ HasIdsByAge(Append(e, ep), succ)
<1> PICK n, u : n = Len(e) /\ u = Append(e, ep)
  OBVIOUS
<1>1. n \in Nat /\ Len(u) = n + 1 /\ u[n + 1] = ep /\ \A i \in 1..n : u[i] = e[i]
  OBVIOUS
<1>2. next \in 0..(max_frames + 1) /\ succ = IF next = max_frames + 1 THEN 0 ELSE next + 1
  BY IdsAreInterval
<1>3. /\ succ \in 0..(max_frames + 1) /\ IdOfAge(succ, 1) = next
      /\ \A a \in 1..(max_frames + 1) : IdOfAge(succ, a + 1) = IdOfAge(next, a)
  BY <1>2, IdsOfAges
<1>4. ASSUME NEW i \in 1..(n + 1)
      PROVE  u[i].id = IdOfAge(succ, n + 1 + 1 - i)
  <2>1. CASE i = n + 1
    <3>1. n + 1 + 1 - i = 1
      BY <1>1, <2>1
    <3> QED
      BY <1>1, <1>3, <2>1, <3>1
  <2>2. CASE i \in 1..n
    <3> PICK a : a = n + 1 - i
      OBVIOUS
    <3>1. a \in 1..(max_frames + 1) /\ n + 1 + 1 - i = a + 1
      BY <1>1, <2>2, MemoryConstants
    <3>2. e[i].id = IdOfAge(next, a)
      BY <2>2 DEF HasIdsByAge
    <3>3. IdOfAge(succ, a + 1) = IdOfAge(next, a)
      BY <1>3, <3>1
    <3> QED
      BY <1>1, <2>2, <3>1, <3>2, <3>3
  <2>3. i = n + 1 \/ i \in 1..n
    BY <1>1
  <2> QED
    BY <2>1, <2>2, <2>3
<1>5. HasIdsByAge(u, succ)
  BY <1>1, <1>4 DEF HasIdsByAge
<1> QED
  BY <1>3, <1>5, IdsAreInterval

\* Evictions change no age.
LEMMA KeptIdsByAge ==
  ASSUME NEW u \in Seq(Replay!Episode), NEW next, HasIdsByAge(u, next), NEW k \in 0..Len(u)
  PROVE  HasIdsByAge(SubSeq(u, k + 1, Len(u)), next)
<1> PICK n, a, v : n = Len(u) /\ a = k + 1 /\ v = SubSeq(u, k + 1, Len(u))
  OBVIOUS
<1>1. n \in Nat /\ a \in 1..(Len(u) + 1) /\ n \in (a - 1)..Len(u) /\ n - a + 1 = n - k
      /\ k \in Nat /\ k <= n
  OBVIOUS
<1>2. Len(v) = n - k /\ \A i \in 1..(n - k) : v[i] = u[a + i - 1]
  <2>1. /\ Len(SubSeq(u, a, n)) = n - a + 1
        /\ \A i \in 1..(n - a + 1) : SubSeq(u, a, n)[i] = u[a + i - 1]
    BY <1>1, PartOfSequence
  <2> QED
    BY <1>1, <2>1
<1>3. ASSUME NEW i \in 1..(n - k)
      PROVE  v[i].id = IdOfAge(next, n - k + 1 - i)
  <2> PICK j : j = a + i - 1
    OBVIOUS
  <2>1. j \in 1..n /\ n + 1 - j = n - k + 1 - i
    BY <1>1
  <2>2. u[j].id = IdOfAge(next, n + 1 - j)
    BY <2>1 DEF HasIdsByAge
  <2> QED
    BY <1>2, <2>1, <2>2
<1> QED
  BY <1>2, <1>3 DEF HasIdsByAge

\* As many as fit the memory are distinct.
LEMMA IdsByAgeAreDistinct ==
  ASSUME NEW e \in Seq(Replay!Episode), Len(e) <= max_frames, NEW next \in Replay!Ids,
         HasIdsByAge(e, next)
  PROVE  AreDistinct(e)
<1> SUFFICES ASSUME NEW i \in 1..Len(e), NEW j \in 1..Len(e), e[i].id = e[j].id
             PROVE  i = j
  BY DEF AreDistinct
<1> PICK n, a, b : n = Len(e) /\ a = n + 1 - i /\ b = n + 1 - j
  OBVIOUS
<1>1. n \in Nat /\ a \in 1..(max_frames + 1) /\ b \in 1..(max_frames + 1)
  BY MemoryConstants
<1>2. e[i].id = IdOfAge(next, a) /\ e[j].id = IdOfAge(next, b)
  BY DEF HasIdsByAge
<1>3. a = b
  <2>1. next \in 0..(max_frames + 1)
    BY IdsAreInterval
  <2>2. PICK succ : succ = IF next = max_frames + 1 THEN 0 ELSE next + 1
    OBVIOUS
  <2>3. \A x, y \in 1..(max_frames + 1) : IdOfAge(next, x) = IdOfAge(next, y) => x = y
    BY <2>1, <2>2, IdsOfAges
  <2> QED
    BY <1>1, <1>2, <2>3
<1> QED
  BY <1>1, <1>3
-----------------------------------------------------------------------------
(* The memory is that of the games                                          *)

LEMMA WindowsHaveTypes ==
  ASSUME IndexFits
  PROVE  Replay!Stored \subseteq [id : Replay!Ids, start : 0..(MaxMoves - 1)]
<1> SUFFICES ASSUME NEW i \in 1..Len(episodes), episodes[i].size >= sequence_length,
                    NEW k \in 0..(Replay!Windows(episodes[i]) - 1)
             PROVE  [id |-> episodes[i].id, start |-> k]
                      \in [id : Replay!Ids, start : 0..(MaxMoves - 1)]
  <2>1. DOMAIN episodes = 1..Len(episodes)
    BY DEF IndexFits
  <2> QED
    BY <2>1 DEF Replay!Stored
<1> PICK e : e = episodes[i]
  OBVIOUS
<1>1. e \in Replay!Episode
  BY DEF IndexFits
<1>2. e.id \in Replay!Ids /\ e.size \in 1..MaxMoves
  BY <1>1 DEF Replay!Episode
<1>3. k \in 0..(MaxMoves - 1)
  <2>1. Replay!Windows(e) = e.size - sequence_length + 1
    BY DEF Replay!Windows
  <2> PICK x, w : x = e.size /\ w = Replay!Windows(e)
    OBVIOUS
  <2>2. w <= MaxMoves /\ w \in Int
    BY <1>2, <2>1, MemoryConstants
  <2> QED
    BY <2>2, MemoryConstants
<1> QED
  BY <1>2, <1>3

LEMMA InitHasMemory == Init => MInv
<1> SUFFICES ASSUME Init PROVE MInv
  OBVIOUS
<1>1. /\ place = "between" /\ games = <<>> /\ episodes = <<>> /\ current = 0 /\ frame_count = 0
      /\ eligible = <<>> /\ cumulative = <<>> /\ next_id = 0 /\ batch = {}
  BY DEF Init, Replay!Init
<1>2. GameSizes = <<>> /\ GameSizes \in Seq(1..MaxMoves)
  BY <1>1 DEF GameSizes
<1>3. 0 \in Replay!Ids /\ 0 \in 0..(MaxMoves - 1)
  BY IdsAreInterval, MemoryConstants
<1>4. AreDistinct(<<>>) /\ HasIdsByAge(<<>>, 0)
  BY DEF AreDistinct, HasIdsByAge
<1>5. Replay!Eligible(<<>>) = <<>>
  <2> PICK s : s = <<>>
    OBVIOUS
  <2>1. s \in Seq(Replay!Episode) /\ Len(s) = 0
    OBVIOUS
  <2>2. IsChosen(Replay!Eligible(s), s, 0)
    BY <1>4, <2>1, EligibleIsChosen
  <2> PICK c : c = Replay!Eligible(s)
    OBVIOUS
  <2>3. c \in Seq(Replay!Episode) /\ \A k \in 1..Len(c) : \E i \in 1..0 : c[k] = s[i]
    BY <2>2 DEF IsChosen
  <2>4. Len(c) = 0
    <3>1. Len(c) \in Nat /\ 1..0 = {}
      BY <2>3
    <3>2. Len(c) # 0 => 1 \in 1..Len(c)
      BY <3>1
    <3> QED
      BY <2>3, <3>1, <3>2
  <2> QED
    BY <2>3, <2>4
<1>6. Replay!Accumulated(<<>>) = <<>>
  BY DEF Replay!Accumulated
<1>7. IndexFits
  BY <1>1, <1>4, <1>5, <1>6 DEF IndexFits
<1>8. HoldsLatest(<<>>, 0, <<>>, 1)
  <2>1. Replay!Sizes(<<>>) = <<>>
    BY DEF Replay!Sizes
  <2>2. SubSeq(<<>>, 1, Len(<<>>)) = <<>>
    OBVIOUS
  <2>3. Part(<<>>, 1, Len(<<>>)) = 0
    BY <2>2, TotalOfNothing DEF Part
  <2>4. 0 <= max_frames /\ ~ (1 > 1)
    BY MemoryConstants
  <2> QED
    BY <2>1, <2>2, <2>3, <2>4 DEF HoldsLatest
<1>9. \E n \in 1..(Len(GameSizes) + 1) : HoldsLatest(episodes, frame_count, GameSizes, n)
  <2>1. 1 \in 1..(Len(GameSizes) + 1)
    BY <1>2
  <2> QED
    BY <1>1, <1>2, <1>8, <2>1
<1> QED
  BY <1>1, <1>2, <1>3, <1>4, <1>7, <1>9 DEF MInv

\* What the games and the memory say of each other stays while neither changes.
LEMMA MemoryStays ==
  ASSUME MInv, UNCHANGED <<games, episodes, frame_count, eligible, cumulative, next_id>>
  PROVE  /\ GameSizes' \in Seq(1..MaxMoves)
         /\ \E n \in 1..(Len(GameSizes') + 1) : HoldsLatest(episodes', frame_count', GameSizes', n)
         /\ next_id' \in Replay!Ids /\ HasIdsByAge(episodes', next_id')
         /\ IndexFits'
<1>1. GameSizes' = GameSizes
  BY DEF GameSizes
<1>2. IndexFits'
  BY DEF MInv, IndexFits
<1> QED
  BY <1>1, <1>2 DEF MInv

LEMMA StartEpisodeKeepsMemory ==
  ASSUME MInv, StartEpisode
  PROVE  MInv'
<1>1. /\ place = "between" /\ place' = "playing" /\ Len(frames') = 1
      /\ UNCHANGED <<games, episodes, frame_count, eligible, cumulative, next_id, current, batch>>
  BY DEF StartEpisode, replay_vars
<1>2. current' = Len(frames') - 1 /\ current' \in 0..(MaxMoves - 1)
  BY <1>1 DEF MInv
<1>3. batch' \subseteq [id : Replay!Ids, start : 0..(MaxMoves - 1)]
  BY <1>1 DEF MInv
<1> QED
  BY <1>1, <1>2, <1>3, MemoryStays DEF MInv

LEMMA MoveKeepsMemory ==
  ASSUME IInv, MInv, NEW inject \in BOOLEAN, NEW ate \in BOOLEAN, Step(inject, ate, FALSE)
  PROVE  MInv'
<1>1. /\ place = "playing" /\ place' = "playing" /\ Replay!AppendTransition
      /\ \E board : frames' = Append(frames, board)
      /\ UNCHANGED games
  BY DEF Step
<1>2. /\ current + 1 < MaxMoves /\ current' = current + 1
      /\ UNCHANGED <<episodes, frame_count, eligible, cumulative, next_id, batch>>
  BY <1>1 DEF Replay!AppendTransition
<1>3. current \in 0..(MaxMoves - 1) /\ current = Len(frames) - 1
  BY <1>1 DEF MInv
<1>4. frames \in Seq(Frame)
  BY <1>1 DEF IInv, GamesArePlayed, IsGame
<1>5. Len(frames') = Len(frames) + 1
  BY <1>1, <1>4
<1>6. current' = Len(frames') - 1 /\ current' \in 0..(MaxMoves - 1)
  BY <1>2, <1>3, <1>4, <1>5, MemoryConstants
<1>7. batch' \subseteq [id : Replay!Ids, start : 0..(MaxMoves - 1)]
  BY <1>2 DEF MInv
<1> QED
  BY <1>1, <1>2, <1>6, <1>7, MemoryStays DEF MInv
\* Every episode has a move, so there are no more of them than frames.
LEMMA HeldAreFew ==
  ASSUME NEW s \in Seq(1..MaxMoves), NEW e \in Seq(Replay!Episode), NEW count,
         NEW n \in 1..(Len(s) + 1), HoldsLatest(e, count, s, n)
  PROVE  Len(e) <= max_frames
<1> PICK L, M : L = Len(s) /\ M = Len(e)
  OBVIOUS
<1>1. /\ s \in Seq(Nat) /\ L \in Nat /\ M \in Nat /\ L \in (n - 1)..Len(s)
      /\ \A i \in 1..Len(s) : s[i] # 0
  BY MemoryConstants
<1>2. Part(s, n, L) <= max_frames /\ Replay!Sizes(e) = SubSeq(s, n, L)
  BY DEF HoldsLatest
<1>3. Len(SubSeq(s, n, L)) = L - n + 1
  BY <1>1, PartOfSequence
<1>4. Len(Replay!Sizes(e)) = M
  <2>1. 1 \in 1..(Len(e) + 1) /\ 0 \in (1 - 1)..Len(e)
    BY <1>1
  <2> QED
    BY <2>1, SizesOfPart
<1>5. L - n + 1 <= Part(s, n, L) /\ Part(s, n, L) \in Nat
  BY <1>1, PartIsLong, PartGrows
<1> PICK p : p = Part(s, n, L)
  OBVIOUS
<1>6. M = L - n + 1 /\ M <= p /\ p <= max_frames /\ p \in Nat
  BY <1>2, <1>3, <1>4, <1>5
<1> QED
  BY <1>1, <1>6, MemoryConstants

LEMMA KeptIsSequence ==
  ASSUME NEW u \in Seq(Replay!Episode), NEW k \in 0..Len(u)
  PROVE  SubSeq(u, k + 1, Len(u)) \in Seq(Replay!Episode)
<1> PICK a : a = k + 1
  OBVIOUS
<1>1. a \in 1..(Len(u) + 1) /\ Len(u) \in (a - 1)..Len(u)
  OBVIOUS
<1>2. SubSeq(u, a, Len(u)) \in Seq(Replay!Episode)
  BY <1>1, PartOfSequence
<1> QED
  BY <1>2

LEMMA FinishKeepsMemory ==
  ASSUME IInv, BInv, MInv, NEW inject \in BOOLEAN, NEW ate \in BOOLEAN, Step(inject, ate, TRUE)
  PROVE  MInv'
<1> PICK s, e, x : s = GameSizes /\ e = episodes /\ x = Len(frames)
  OBVIOUS
<1>1. PICK board : frames' = Append(frames, board)
  BY DEF Step
<1>2. /\ place = "playing" /\ place' = "over" /\ Replay!FinishEpisode
      /\ games' = Append(games, [frames |-> frames', injections |-> injections'])
  BY DEF Step
<1>3. /\ frames \in Seq(Frame) /\ x \in Nat \ {0} /\ games \in Seq(Game)
  BY <1>2 DEF IInv, GamesArePlayed, IsGame
<1>4. x \in 1..MaxMoves /\ current + 1 = x
  <2>1. Len(frames) <= MaxMoves
    BY <1>2 DEF BInv
  <2>2. current = Len(frames) - 1 /\ current \in 0..(MaxMoves - 1)
    BY <1>2 DEF MInv
  <2> QED
    BY <1>3, <2>1, <2>2, MemoryConstants
<1>5. /\ s \in Seq(1..MaxMoves) /\ e \in Seq(Replay!Episode) /\ next_id \in Replay!Ids
      /\ HasIdsByAge(e, next_id) /\ AreDistinct(e)
  BY DEF MInv, IndexFits
<1>6. PICK n \in 1..(Len(s) + 1) : HoldsLatest(e, frame_count, s, n)
  BY DEF MInv
<1>7. PICK t : t = Append(s, x)
  OBVIOUS
<1>8. GameSizes' = t
  <2>1. Len(frames') - 1 = x
    BY <1>1, <1>3
  <2> PICK g, game, L : g = games' /\ game = [frames |-> frames', injections |-> injections']
                        /\ L = Len(games)
    OBVIOUS
  <2>2. /\ L \in Nat /\ Len(g) = L + 1 /\ DOMAIN g = 1..(L + 1) /\ DOMAIN games = 1..L
        /\ g[L + 1] = game /\ game.frames = frames'
        /\ \A i \in 1..L : g[i] = games[i]
    BY <1>2, <1>3
  <2>3. /\ GameSizes' = [i \in 1..(L + 1) |-> Len(g[i].frames) - 1]
        /\ s = [i \in 1..L |-> Len(games[i].frames) - 1]
    BY <2>2 DEF GameSizes
  <2>4. Len(s) = L
    BY <1>5, <2>2, <2>3
  <2>5. t = [i \in 1..(L + 1) |-> IF i = L + 1 THEN x ELSE s[i]]
    <3>1. /\ t \in Seq(1..MaxMoves) /\ Len(t) = L + 1 /\ t[L + 1] = x
          /\ \A i \in 1..L : t[i] = s[i]
      BY <1>4, <1>5, <1>7, <2>4
    <3>2. t = [i \in 1..(L + 1) |-> t[i]]
      BY <3>1
    <3>3. \A i \in 1..(L + 1) : i \in 1..L \/ i = L + 1
      BY <2>2
    <3>4. \A i \in 1..L : i # L + 1
      BY <2>2
    <3>5. \A i \in 1..(L + 1) : t[i] = IF i = L + 1 THEN x ELSE s[i]
      BY <3>1, <3>3, <3>4
    <3> QED
      BY <3>2, <3>5
  <2>6. \A i \in 1..(L + 1) : Len(g[i].frames) - 1 = IF i = L + 1 THEN x ELSE s[i]
    <3> SUFFICES ASSUME NEW i \in 1..(L + 1)
                 PROVE  Len(g[i].frames) - 1 = IF i = L + 1 THEN x ELSE s[i]
      OBVIOUS
    <3>1. CASE i = L + 1
      BY <2>1, <2>2, <3>1
    <3>2. CASE i # L + 1
      <4>1. i \in 1..L
        BY <2>2, <3>2
      <4> QED
        BY <2>2, <2>3, <3>2, <4>1
    <3> QED
      BY <3>1, <3>2
  <2> QED
    BY <2>3, <2>5, <2>6
<1>9. PICK ep : ep = [id |-> next_id, size |-> x]
  OBVIOUS
<1>10. ep \in Replay!Episode /\ ep.id = next_id /\ ep.size = x
  BY <1>4, <1>5, <1>9 DEF Replay!Episode
<1>11. PICK u, total, k : /\ u = Append(e, ep) /\ total = frame_count + x
                          /\ k = Replay!Evicted(u, total)
  OBVIOUS
<1>12. s \in Seq(Nat) /\ n \in 1..(Len(s) + 1) /\ x \in Nat
  BY <1>4, <1>5, <1>6, MemoryConstants
<1>13. /\ t \in Seq(Nat) /\ Len(t) = Len(s) + 1 /\ u \in Seq(Replay!Episode)
       /\ Len(u) = Len(t) - n + 1 /\ Replay!Sizes(u) = SubSeq(t, n, Len(t))
       /\ total = Part(t, n, Len(t))
       /\ \A a \in 1..n : Part(t, a, Len(t)) = Part(s, a, Len(s)) + x
  <2>1. t = Append(s, ep.size)
    BY <1>7, <1>10
  <2>2. PICK c : c = frame_count
    OBVIOUS
  <2>3. /\ s \in Seq(Nat) /\ e \in Seq(Replay!Episode) /\ n \in 1..(Len(s) + 1)
        /\ HoldsLatest(e, c, s, n) /\ ep \in Replay!Episode
    BY <1>5, <1>6, <1>10, <1>12, <2>2
  <2>4. IsStoredWith(t, Append(e, ep), n, c + ep.size, s, ep.size)
    BY ONLY <2>1, <2>3, NewGameIsStored
  <2>5. IsStoredWith(t, u, n, total, s, x)
    BY <1>10, <1>11, <2>2, <2>4
  <2> QED
    BY <2>5 DEF IsStoredWith
<1>14. n \in 1..(Len(t) + 1)
  BY <1>12, <1>13
<1>15. n > 1 => Part(t, n - 1, Len(t)) > max_frames
  <2> SUFFICES ASSUME n > 1 PROVE Part(t, n - 1, Len(t)) > max_frames
    OBVIOUS
  <2>1. PICK a : a = n - 1
    OBVIOUS
  <2>2. a \in 1..n /\ a \in 1..(Len(s) + 1) /\ Len(s) \in (a - 1)..Len(s)
    BY <1>12, <2>1
  <2>3. Part(s, a, Len(s)) > max_frames /\ Part(s, a, Len(s)) \in Nat
    BY <1>6, <1>12, <2>1, <2>2, PartGrows DEF HoldsLatest
  <2>4. Part(t, a, Len(t)) = Part(s, a, Len(s)) + x
    BY <1>13, <2>2
  <2> PICK y, z : y = Part(t, a, Len(t)) /\ z = Part(s, a, Len(s))
    OBVIOUS
  <2>5. y > max_frames
    BY <1>12, <2>3, <2>4, MemoryConstants
  <2> QED
    BY <2>1, <2>5
<1>16. PICK kept, count : /\ kept = SubSeq(u, k + 1, Len(u))
                          /\ count = total - Replay!Frames(SubSeq(u, 1, k))
  OBVIOUS
<1>17. /\ k \in 0..Len(u) /\ n + k \in 1..(Len(t) + 1)
       /\ HoldsLatest(kept, count, t, n + k)
  <2>1. /\ k \in 0..Len(u)
        /\ n + k \in 1..(Len(t) + 1)
        /\ HoldsLatest(SubSeq(u, k + 1, Len(u)), total - Replay!Frames(SubSeq(u, 1, k)),
                       t, n + k)
    BY ONLY <1>11, <1>13, <1>14, <1>15, EvictionKeepsLatest
  <2> QED
    BY <1>16, <2>1
<1>18. /\ episodes' = kept /\ frame_count' = count
       /\ eligible' = Replay!Eligible(kept) /\ cumulative' = Replay!Accumulated(eligible')
       /\ current' = 0 /\ next_id' = (next_id + 1) % Replay!Cardinality(Replay!Ids)
       /\ batch' = batch
  <2>1. frame_count \in Nat
    <3>1. Len(s) \in (n - 1)..Len(s)
      BY <1>12
    <3>2. Part(s, n, Len(s)) \in Nat
      BY <1>12, <3>1, PartGrows
    <3> QED
      BY <1>6, <3>2 DEF HoldsLatest
  <2>2. [id |-> next_id, size |-> current + 1] = ep /\ frame_count + current + 1 = total
    <3>1. current \in Nat
      BY <1>4, MemoryConstants DEF MInv
    <3> QED
      BY <1>4, <1>9, <1>11, <2>1, <3>1
  <2>3. /\ episodes' = SubSeq(u, Replay!Evicted(u, total) + 1, Len(u))
        /\ frame_count' = total - Replay!Frames(SubSeq(u, 1, Replay!Evicted(u, total)))
        /\ eligible' = Replay!Eligible(episodes')
        /\ cumulative' = Replay!Accumulated(eligible')
        /\ current' = 0 /\ next_id' = (next_id + 1) % Replay!Cardinality(Replay!Ids)
        /\ batch' = batch
    BY <1>2, <1>11, <2>2 DEF Replay!FinishEpisode
  <2> QED
    BY <1>11, <1>16, <2>3
<1>19. Len(e) <= max_frames
  BY <1>5, <1>6, <1>12, HeldAreFew
<1>20. next_id' \in Replay!Ids /\ HasIdsByAge(u, next_id')
  BY <1>5, <1>10, <1>11, <1>18, <1>19, NewIdByAge
<1>21. HasIdsByAge(kept, next_id')
  BY <1>13, <1>16, <1>17, <1>20, KeptIdsByAge
<1>22. kept \in Seq(Replay!Episode)
  BY <1>13, <1>16, <1>17, KeptIsSequence
<1>23. t \in Seq(1..MaxMoves)
  BY <1>4, <1>5, <1>7
<1>24. Len(kept) <= max_frames
  BY <1>13, <1>17, <1>22, <1>23, HeldAreFew
<1>25. AreDistinct(kept)
  BY <1>20, <1>21, <1>22, <1>24, IdsByAgeAreDistinct
<1>26. IndexFits'
  BY <1>18, <1>22, <1>25 DEF IndexFits
<1>27. \E m \in 1..(Len(GameSizes') + 1) : HoldsLatest(episodes', frame_count', GameSizes', m)
  BY <1>8, <1>17, <1>18
<1>28. current' \in 0..(MaxMoves - 1) /\ batch' \subseteq [id : Replay!Ids, start : 0..(MaxMoves - 1)]
  BY <1>18, MemoryConstants DEF MInv
<1> QED
  BY <1>2, <1>8, <1>18, <1>20, <1>21, <1>23, <1>26, <1>27, <1>28 DEF MInv
LEMMA EndEpisodeKeepsMemory ==
  ASSUME MInv, EndEpisode
  PROVE  MInv'
<1>1. place = "over" /\ place' = "between" /\ Train /\ UNCHANGED games
  BY DEF EndEpisode
<1>2. /\ UNCHANGED <<episodes, frame_count, eligible, cumulative, next_id, current>>
      /\ batch' = batch \/ batch' \subseteq Replay!Stored
  <2>1. CASE Replay!total_windows >= batch_size
    <3>1. Replay!Sample /\ IndexFits
      BY <1>1, <2>1 DEF Train, MInv
    <3> QED
      BY <3>1, SampleIsStored DEF Replay!Sample
  <2>2. CASE ~ (Replay!total_windows >= batch_size)
    BY <1>1, <2>2 DEF Train, replay_vars
  <2> QED
    BY <2>1, <2>2
<1>3. batch' \subseteq [id : Replay!Ids, start : 0..(MaxMoves - 1)]
  BY <1>2, WindowsHaveTypes DEF MInv
<1>4. current' = 0 /\ current' \in 0..(MaxMoves - 1)
  BY <1>1, <1>2 DEF MInv
<1> QED
  BY <1>1, <1>2, <1>3, <1>4, MemoryStays DEF MInv

LEMMA LeaveKeepsMemory ==
  ASSUME MInv, Leave
  PROVE  MInv'
<1>1. /\ place' = "left"
      /\ UNCHANGED <<games, episodes, frame_count, eligible, cumulative, next_id, current, batch>>
  BY DEF Leave, replay_vars
<1>2. /\ current' \in 0..(MaxMoves - 1)
      /\ batch' \subseteq [id : Replay!Ids, start : 0..(MaxMoves - 1)]
  BY <1>1 DEF MInv
<1> QED
  BY <1>1, <1>2, MemoryStays DEF MInv

LEMMA NextKeepsMemory ==
  ASSUME IInv, BInv, MInv, [Next]_vars
  PROVE  MInv'
<1>1. CASE UNCHANGED vars
  <2>1. UNCHANGED <<games, episodes, frame_count, eligible, cumulative, next_id, current, batch,
                    place, frames>>
    BY <1>1 DEF vars, replay_vars, game_vars
  <2> QED
    BY <2>1, MemoryStays DEF MInv
<1>2. ASSUME NEW inject \in BOOLEAN, NEW ate \in BOOLEAN, NEW done \in BOOLEAN,
             Step(inject, ate, done)
      PROVE  MInv'
  <2>1. CASE done = TRUE
    BY <1>2, <2>1, FinishKeepsMemory
  <2>2. CASE done = FALSE
    BY <1>2, <2>2, MoveKeepsMemory
  <2> QED
    BY <2>1, <2>2
<1> QED
  BY <1>1, <1>2, StartEpisodeKeepsMemory, EndEpisodeKeepsMemory, LeaveKeepsMemory DEF Next

\* The invariants together.
AllInv == IInv /\ EInv /\ BInv /\ MInv /\ schedule.minimum \in 0..Scale

LEMMA AllIsInductive ==
  /\ Init => AllInv
  /\ AllInv /\ [Next]_vars => AllInv'
<1>1. ASSUME Init
      PROVE  AllInv
  <2>1. schedule.minimum \in Minimums
    BY <1>1 DEF Init
  <2>2. schedule.minimum \in 0..Scale
    BY <2>1, BoundConstants
  <2> QED
    BY <1>1, <2>2, InitIsSound, InitHasSchedule, InitIsBounded, InitHasMemory DEF AllInv
<1>2. ASSUME AllInv, [Next]_vars
      PROVE  AllInv'
  <2>1. IInv /\ EInv /\ BInv /\ MInv /\ schedule.minimum \in 0..Scale
    BY <1>2 DEF AllInv
  <2>2. schedule' = schedule
    BY <1>2 DEF Next, vars, StartEpisode, EndEpisode, Leave, Step
  <2>3. IInv' /\ EInv' /\ BInv' /\ MInv'
    BY <1>2, <2>1, NextIsSound, NextHasSchedule, NextIsBounded, NextKeepsMemory
  <2> QED
    BY <2>1, <2>2, <2>3 DEF AllInv
<1> QED
  BY <1>1, <1>2

LEMMA AllHasTypes == AllInv => TypeOK
<1> SUFFICES ASSUME IInv, BInv, MInv PROVE TypeOK
  BY DEF AllInv
<1>1. /\ epsilon \in 0..Scale /\ episode_epsilon \in 0..Scale /\ injections \in 0..MaxMoves
      /\ current_board \in Board \union {NoBoard} /\ state.snapshot \in Board \union {NoBoard}
      /\ state.completed_epochs \in 0..Epochs
  BY DEF BInv
<1>2. total_injections \in 0..(Epochs * MaxMoves)
  <2>1. total_injections \in 0..Injectable
    BY DEF BInv
  <2> QED
    BY <2>1, InjectableIsBounded
<1>3. \A i \in DOMAIN frames : frames[i] \in Board
  BY DEF BInv
<1>4. place \in {"between", "playing", "over", "left"}
  BY DEF IInv, GamesArePlayed
<1>5. Len(state.episodes) \in 0..Epochs
  <2>1. Len(state.episodes) = state.completed_epochs
    BY DEF IInv, AreReported
  <2> QED
    BY <1>1, <2>1
<1>6. Replay!TypeOK
  <2>1. IndexFits /\ GameSizes \in Seq(1..MaxMoves) /\ next_id \in Replay!Ids
        /\ current \in 0..(MaxMoves - 1) /\ episodes \in Seq(Replay!Episode)
        /\ batch \subseteq [id : Replay!Ids, start : 0..(MaxMoves - 1)]
    BY DEF MInv, IndexFits
  <2>2. frame_count \in Nat
    <3> PICK s : s = GameSizes
      OBVIOUS
    <3>1. s \in Seq(Nat)
      BY <2>1, MemoryConstants
    <3>2. PICK n \in 1..(Len(s) + 1) : HoldsLatest(episodes, frame_count, s, n)
      BY DEF MInv
    <3>3. Len(s) \in (n - 1)..Len(s)
      BY <3>1
    <3>4. Part(s, n, Len(s)) \in Nat
      BY <3>1, <3>3, PartGrows
    <3> QED
      BY <3>2, <3>4 DEF HoldsLatest
  <2>3. /\ eligible \in Seq(Replay!Episode)
        /\ Len(cumulative) = Len(eligible) /\ cumulative \in Seq(Nat)
    BY <2>1, IndexType
  <2> QED
    BY <2>1, <2>2, <2>3 DEF Replay!TypeOK
<1> QED
  BY <1>1, <1>2, <1>3, <1>4, <1>5, <1>6 DEF TypeOK

LEMMA AllIsOfLatestGames == AllInv => MemoryIsOfLatestGames
<1> SUFFICES ASSUME MInv PROVE MemoryIsOfLatestGames
  BY DEF AllInv
<1>1. \E n \in 1..(Len(GameSizes) + 1) : HoldsLatest(episodes, frame_count, GameSizes, n)
  BY DEF MInv
<1>2. /\ place = "playing" => current = Len(frames) - 1
      /\ place = "over" => current = 0
  BY DEF MInv
<1> QED
  BY <1>1, <1>2 DEF MemoryIsOfLatestGames, HoldsLatest, GameSizes, Part, Replay!Sizes

\* After every step, the memory has the most recent of the games that fit its limit of
\* frames, whole, its counter has their frames, and its index names every window in it
\* once (ReplayMemory.append, _finalize_episode and _locate).
THEOREM MemoryIsOfTheGames == Spec => []MemoryIsExact
<1>1. AllInv => MemoryIsExact
  <2> SUFFICES ASSUME AllInv PROVE MemoryIsExact
    OBVIOUS
  <2>1. IndexFits
    BY DEF AllInv, MInv
  <2> QED
    BY <2>1, AllHasTypes, AllIsOfLatestGames, FitIndexIsExact DEF MemoryIsExact
<1> QED
  BY <1>1, AllIsInductive, PTL DEF Spec

\* What training draws is, when it draws it, as many different windows as it asked for,
\* each in one game in memory (ReplayMemory.sample, called by Trainer.train).
THEOREM DrawsFromMemory == Spec => BatchesAreStored
<1>1. AllInv /\ [Next]_vars
        => [batch' # batch =>
              batch' \subseteq Replay!Stored /\ Cardinality(batch') = batch_size]_vars
  <2> SUFFICES ASSUME AllInv, [Next]_vars, batch' # batch
               PROVE  batch' \subseteq Replay!Stored /\ Cardinality(batch') = batch_size
    OBVIOUS
  <2>1. IndexFits
    BY DEF AllInv, MInv
  <2>2. CASE EndEpisode
    <3>1. Train
      BY <2>2 DEF EndEpisode
    <3>2. Replay!Sample
      BY <3>1 DEF Train, replay_vars
    <3> QED
      BY <2>1, <3>2, SampleIsStored
  <2>3. ASSUME NEW inject \in BOOLEAN, NEW ate \in BOOLEAN, NEW done \in BOOLEAN,
               Step(inject, ate, done)
        PROVE  FALSE
    <3>1. Replay!FinishEpisode \/ Replay!AppendTransition
      BY <2>3 DEF Step
    <3>2. batch' = batch
      BY <3>1 DEF Replay!FinishEpisode, Replay!AppendTransition
    <3> QED
      BY <3>2
  <2>4. CASE StartEpisode \/ Leave \/ UNCHANGED vars
    <3>1. batch' = batch
      BY <2>4 DEF StartEpisode, Leave, vars, replay_vars
    <3> QED
      BY <3>1
  <2> QED
    BY <2>2, <2>3, <2>4 DEF Next
<1> QED
  BY <1>1, AllIsInductive, PTL DEF Spec, BatchesAreStored

=============================================================================
