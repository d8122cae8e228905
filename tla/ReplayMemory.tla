----------------------------- MODULE ReplayMemory -----------------------------
(***************************************************************************)
(* ReplayMemory: complete episodes within a limit of frames, and the index  *)
(* by which training draws windows of consecutive frames from them.  What a *)
(* frame holds is left out: an episode is an identity and a size, a window  *)
(* the episode it lies in and the frame it starts at.                       *)
(***************************************************************************)
EXTENDS Naturals, FiniteSets, Sequences, SequencesExt, FiniteSetsExt

CONSTANTS
    sequence_length, batch_size, max_frames,
    MaxSteps     \* bound: transitions of an episode

\* What the constructor demands.
ReplayAssumption ==
    /\ sequence_length \in Nat \ {0} /\ batch_size \in Nat \ {0}
    /\ max_frames \in Nat /\ max_frames >= sequence_length * batch_size
    /\ MaxSteps \in Nat \ {0}

VARIABLES
    episodes,     \* _episodes, oldest first
    current,      \* the number of transitions in _current
    frame_count,  \* _frame_count
    eligible,     \* _eligible_episodes
    cumulative,   \* _cumulative_windows
    next_id,      \* the identity of the next episode
    batch         \* the windows in the batch buffers

\* Objects may be given the identity of one that is gone.
Ids == 0..(max_frames + 1)
Episode == [id : Ids, size : 1..MaxSteps]

\* The sum of a sequence of numbers.
Total(s) ==
    LET sum[n \in 0..Len(s)] == IF n = 0 THEN 0 ELSE sum[n - 1] + s[n]
    IN sum[Len(s)]

Sizes(s) == [i \in DOMAIN s |-> s[i].size]
Frames(s) == Total(Sizes(s))
total_windows == IF cumulative = <<>> THEN 0 ELSE Last(cumulative)

-----------------------------------------------------------------------------
Windows(e) == e.size - sequence_length + 1

\* Mutant of Eligible: an episode as long as one window is left out.
EligibleTooFew(s) == SelectSeq(s, LAMBDA e : e.size > sequence_length)

\* The episodes of s, in their order, that are long enough for a window.
Eligible(s) ==
    LET chosen[n \in 0..Len(s)] ==
          IF n = 0 THEN <<>>
          ELSE IF s[n].size >= sequence_length THEN Append(chosen[n - 1], s[n])
          ELSE chosen[n - 1]
    IN chosen[Len(s)]

\* accumulate(window_counts).
Accumulated(s) == [k \in DOMAIN s |-> Total([i \in 1..k |-> Windows(s[i])])]

\* Mutant of Evicted: the memory may not be full.
EvictedTooMany(s, frames) ==
    Min({n \in 0..Len(s) : frames - Frames(SubSeq(s, 1, n)) < max_frames})

\* How often the loop calls popleft.
Evicted(s, frames) ==
    Min({n \in 0..Len(s) : frames - Frames(SubSeq(s, 1, n)) <= max_frames})

Init ==
    /\ episodes = <<>> /\ current = 0 /\ frame_count = 0
    /\ eligible = <<>> /\ cumulative = <<>>
    /\ next_id = 0 /\ batch = {}

\* append, of a transition that ends no episode.
AppendTransition ==
    /\ current + 1 < MaxSteps
    /\ current' = current + 1
    /\ UNCHANGED <<episodes, frame_count, eligible, cumulative, next_id, batch>>

\* Mutant of FinishEpisode: the episode is not cleared.
FinishTwice ==
    LET stored == Append(episodes, [id |-> next_id, size |-> current + 1])
        frames == frame_count + current + 1
        kept == SubSeq(stored, Evicted(stored, frames) + 1, Len(stored))
    IN /\ episodes' = kept
       /\ frame_count' = Frames(kept)
       /\ eligible' = Eligible(kept) /\ cumulative' = Accumulated(eligible')
       /\ current' = current + 1 /\ next_id' = (next_id + 1) % Cardinality(Ids)
       /\ UNCHANGED batch

\* Mutant of FinishEpisode: an evicted episode still counts.
FinishLeaking ==
    LET stored == Append(episodes, [id |-> next_id, size |-> current + 1])
        frames == frame_count + current + 1
        kept == SubSeq(stored, Evicted(stored, frames) + 1, Len(stored))
    IN /\ episodes' = kept
       /\ frame_count' = IF Len(kept) < Len(stored) THEN max_frames ELSE frames
       /\ eligible' = Eligible(kept) /\ cumulative' = Accumulated(eligible')
       /\ current' = 0 /\ next_id' = (next_id + 1) % Cardinality(Ids)
       /\ UNCHANGED batch

\* append of a terminal transition: _finalize_episode.
FinishEpisode ==
    LET stored == Append(episodes, [id |-> next_id, size |-> current + 1])
        frames == frame_count + current + 1
        n == Evicted(stored, frames)
    IN /\ episodes' = SubSeq(stored, n + 1, Len(stored))
       /\ frame_count' = frames - Frames(SubSeq(stored, 1, n))
       /\ eligible' = Eligible(episodes') /\ cumulative' = Accumulated(eligible')
       /\ current' = 0 /\ next_id' = (next_id + 1) % Cardinality(Ids)
       /\ UNCHANGED batch

\* Mutant of Located: bisect_left for bisect_right.
LocatedLeft(w) ==
    LET k == Cardinality({j \in DOMAIN cumulative : cumulative[j] < w})
    IN [id |-> eligible[k + 1].id, start |-> w - (IF k = 0 THEN 0 ELSE cumulative[k])]

\* The window that a window_id stands for.
Located(w) ==
    LET k == Cardinality({j \in DOMAIN cumulative : cumulative[j] <= w})
    IN [id |-> eligible[k + 1].id, start |-> w - (IF k = 0 THEN 0 ELSE cumulative[k])]

\* Without enough windows sample returns None and leaves the buffers alone.
Sample ==
    /\ total_windows >= batch_size
    /\ \E window_ids \in kSubset(batch_size, 0..(total_windows - 1)) :
         batch' = {Located(w) : w \in window_ids}
    /\ UNCHANGED <<episodes, current, frame_count, eligible, cumulative, next_id>>

-----------------------------------------------------------------------------
\* Every variable has the shape the code gives it.
TypeOK ==
    /\ episodes \in Seq(Episode) /\ eligible \in Seq(Episode)
    /\ current \in 0..(MaxSteps - 1) /\ frame_count \in Nat
    /\ cumulative \in Seq(Nat) /\ Len(cumulative) = Len(eligible)
    /\ next_id \in Ids
    /\ batch \subseteq [id : Ids, start : 0..(MaxSteps - 1)]

\* Every sequence_length consecutive frames of one stored episode.
Stored ==
    UNION {{[id |-> episodes[i].id, start |-> k] : k \in 0..(Windows(episodes[i]) - 1)} :
           i \in {j \in DOMAIN episodes : episodes[j].size >= sequence_length}}

\* The index, kept apart from the episodes and searched by bisection, names every
\* window in memory once, and none that is gone or crosses two episodes: the
\* choice is uniform.
IndexIsExact ==
    /\ total_windows = Cardinality(Stored)
    /\ {Located(w) : w \in 0..(total_windows - 1)} = Stored
================================================================================
