----------------------------- MODULE LadderPromise -----------------------------
(* What the retry ladder of a house promises: it accounts for all that eligible   *)
(* attempts did, and for nothing else.  Insights implements it.                   *)
EXTENDS Integers, Sequences, FiniteSets

CONSTANTS Eligible,    \* the attempts loadEligibleAttempts returns
          MaxExamples  \* 5 in the code

VARIABLES bk,      \* counters and samples of each block
          st,      \* puzzleMetricState of each attempt
          wv,      \* placements, falls and entered attempts of each wave
          cur,     \* the attempt whose rows are being read, then flushed
          seen     \* history: what the rows said

\* applyPuzzleMedians: the sample size reported with a block's ladder.
Rungs(b) == LET l == bk[b].ladder IN l[1] + l[2] + l[3] + l[4]
LadderSamples(b) == Rungs(b) + bk[b].never

\* The eligible attempts that are at block b, and those that hold it.
Trying(b) == {a \in Eligible : st[a].active = b}
Holding(b) == {a \in Eligible : st[a].active = b /\ st[a].open}
--------------------------------------------------------------------------------
\* The retry ladder loses no chain and counts none twice: the chains begun at a
\* block by eligible attempts are those that ended on a rung, those that never
\* succeeded, and those still open.  Takes, placements without a take,
\* abandonments, block switches and the final flush all feed it.
LadderAccountsForEveryChain ==
    \A b \in DOMAIN bk : LadderSamples(b) + Cardinality(Trying(b)) = seen.begun[b]

\* Every take of an eligible attempt is either resolved by a placement, reported
\* as incomplete, or still open: a missing terminal event is never dropped and
\* never becomes a very long placement.
TakesAccountedFor ==
    \A b \in DOMAIN bk :
        seen.closed[b] + bk[b].incomplete + Cardinality(Holding(b)) = seen.takes[b]

\* A hint is charged to a block at most once per fall of that block, of any kind:
\* a fall for want of a rule is blamed though no counter of the block has it.
HintsFollowFalls == \A b \in DOMAIN bk : bk[b].hints <= seen.falls[b]

\* A tries sample exists for every rung counted, and a time sample for at most as
\* many, none of them negative; few attempts are named as examples.
SamplesMatchLadder ==
    \A b \in DOMAIN bk : /\ Len(bk[b].tries) = Rungs(b)
                         /\ Len(bk[b].times) <= Len(bk[b].tries)
                         /\ \A i \in DOMAIN bk[b].times : bk[b].times[i] >= 0
                         /\ Len(bk[b].examples) <= MaxExamples

\* The figures of every block account for each chain and each take of the eligible
\* attempts, charge hints to falls, and have a sample for each rung
\* (applyPuzzleInsights, flushAttemptChain).
LadderIsExact == /\ LadderAccountsForEveryChain /\ TakesAccountedFor
                 /\ HintsFollowFalls /\ SamplesMatchLadder

LeavesNoSample ==
    cur \notin Eligible =>
      /\ \A b \in DOMAIN bk : /\ bk'[b].ladder = bk[b].ladder /\ bk'[b].never = bk[b].never
                              /\ bk'[b].incomplete = bk[b].incomplete
                              /\ bk'[b].times = bk[b].times /\ bk'[b].tries = bk[b].tries
                              /\ bk'[b].examples = bk[b].examples
      /\ \A w \in DOMAIN wv : wv'[w].attempts = wv[w].attempts

\* Rows of an attempt that is not eligible move only the per-event figures:
\* ladder, samples, incomplete takes, examples and wave entries stay as they are
\* (applyPlacementInsight, flushAttemptChain).
IneligibleLeavesNoSample == [][LeavesNoSample]_<<bk, wv>>
================================================================================
