------------------------------ MODULE Insights ------------------------------
(***************************************************************************)
(* The retry ladder and the time-to-place figures of a house               *)
(* (src/internal/analytics/puzzle_insights.go).                            *)
(*                                                                         *)
(* One query returns the takes, placements, hints and abandonments of a    *)
(* house, sorted by attempt; one pass over the rows keeps a small state    *)
(* per attempt (the block being tried, the tries so far, an open take, the *)
(* block that failed last) and adds to the counters of the blocks and of   *)
(* the waves.  Whole-attempt figures count only the attempts that are      *)
(* eligible under the traffic scope; per-event figures count every row.    *)
(*                                                                         *)
(* A rate is kept as its numerator: the division is left out.  active_     *)
(* elapsed_ms is a member of a small set, -1 standing for a missing or     *)
(* unreadable one.  seen is a history variable and not part of the code.   *)
(***************************************************************************)
EXTENDS LadderPromise, SequencesExt

CONSTANTS Blocks,       \* the blocks of the house
          NumAttempts,  \* attempts are 1..NumAttempts, in the query's order
          Waves,        \* the wave indexes
          Elapsed,      \* values of active_elapsed_ms
          MinSamples,   \* minPlacementsForRate
          MaxEvents,    \* bound: rows the query returns
          NoBlock       \* no block (-1 in the code)

Attempts == 1..NumAttempts

Configured == /\ NumAttempts \in Nat \ {0} /\ Eligible \subseteq Attempts
              /\ NoBlock \notin Blocks /\ Elapsed \subseteq Int /\ MaxExamples \in Nat

\* The outcomes with the prefix "fell_"; only the first two have a counter.
Fallen == {"fell_no_snap_target", "fell_missing_support", "fell_missing_rule"}
Outcomes == Fallen \cup {"placed", "returned"}

VARIABLES read,    \* rows read
          done     \* the last row has been read

vars == <<bk, st, wv, cur, read, done, seen>>

NoChain == [tries |-> 0, takenAt |-> -1, open |-> FALSE,
            active |-> NoBlock, lastFailed |-> NoBlock]

NoFigures == [first |-> 0, firstFail |-> 0, noSnap |-> 0, missing |-> 0,
              placed |-> 0, hints |-> 0, ladder |-> [i \in 1..4 |-> 0], never |-> 0,
              incomplete |-> 0, tries |-> <<>>, times |-> <<>>, examples |-> <<>>]

Init == /\ bk = [b \in Blocks |-> NoFigures]
        /\ st = [a \in Attempts |-> NoChain]
        /\ wv = [w \in Waves |-> [placements |-> 0, falls |-> 0, attempts |-> {}]]
        /\ cur = 1 /\ read = 0 /\ done = FALSE
        /\ seen = [begun |-> [b \in Blocks |-> 0], takes |-> [b \in Blocks |-> 0],
                   closed |-> [b \in Blocks |-> 0], falls |-> [b \in Blocks |-> 0]]

-----------------------------------------------------------------------------
\* Wrong: the list of example attempts is not cut off.
ExamplesUnbounded(figs, b, a) == [figs EXCEPT ![b].examples = Append(@, a)]

recordExampleAttempt(figs, b, a) ==
    [figs EXCEPT ![b].examples =
        IF a \in ToSet(@) \/ Len(@) >= MaxExamples THEN @ ELSE Append(@, a)]

\* One more take that no placement resolved.
CountIncomplete(figs, b, a) ==
    recordExampleAttempt([figs EXCEPT ![b].incomplete = @ + 1], b, a)

\* Wrong: only a chain with an open take counts as one that never succeeded.
FlushOnlyOpenTakes(figs, s, a) ==
    IF s.active = NoBlock \/ a \notin Eligible \/ ~s.open THEN figs
    ELSE CountIncomplete([figs EXCEPT ![s.active].never = @ + 1], s.active, a)

\* Wrong: the open take of a flushed chain is forgotten.
FlushForgetsTake(figs, s, a) ==
    IF s.active = NoBlock \/ a \notin Eligible THEN figs ELSE [figs EXCEPT ![s.active].never = @ + 1]

\* flushAttemptChain: the chain of attempt a ends without a placement.  The
\* counters of the block ...
FlushFigures(figs, s, a) ==
    IF s.active = NoBlock \/ a \notin Eligible THEN figs
    ELSE LET failed == IF s.tries > 0 \/ s.open
                       THEN recordExampleAttempt([figs EXCEPT ![s.active].never = @ + 1],
                                                 s.active, a)
                       ELSE figs
         IN  IF s.open THEN CountIncomplete(failed, s.active, a) ELSE failed

\* ... and what is left of the attempt's state.
FlushState(s) == IF s.active = NoBlock THEN s ELSE NoChain

\* The block blamed for the next hint is forgotten once a hint is used.
applyHintPressure(figs, s) ==
    IF s.lastFailed = NoBlock THEN figs ELSE [figs EXCEPT ![s.lastFailed].hints = @ + 1]

\* The history of a chain that starts at block b in attempt a, or goes on.
Began(s, b, a) == IF s.active # b /\ a \in Eligible THEN 1 ELSE 0

Read == read < MaxEvents /\ ~done /\ read' = read + 1

-----------------------------------------------------------------------------
\* A row is skipped when its payload or attempt is unreadable, or its block is
\* not one of the house's.
SkipEvent == Read /\ UNCHANGED <<bk, st, wv, cur, done, seen>>

\* Wrong: the blamed block is kept for the next hint.
HintKeepsBlame ==
    /\ Read
    /\ bk' = applyHintPressure(bk, st[cur])
    /\ UNCHANGED <<st, wv, cur, done, seen>>

HintUsed ==
    /\ Read
    /\ bk' = applyHintPressure(bk, st[cur])
    /\ st' = [st EXCEPT ![cur].lastFailed = NoBlock]
    /\ UNCHANGED <<wv, cur, done, seen>>

InteractionAbandoned ==
    /\ Read
    /\ LET s == st[cur]
           ends == s.active # NoBlock /\ s.open
       IN  /\ bk' = IF ends /\ cur \in Eligible THEN CountIncomplete(bk, s.active, cur) ELSE bk
           /\ st' = IF ends THEN [st EXCEPT ![cur] = [s EXCEPT !.open = FALSE, !.takenAt = -1,
                                                               !.tries = @ + 1]]
                    ELSE st
    /\ UNCHANGED <<wv, cur, done, seen>>

DetailTaken(b, t) ==
    /\ Read
    /\ LET s == st[cur]
           again == s.active = b /\ s.open
           kept == IF s.active = b THEN s ELSE FlushState(s)
       IN  /\ bk' = IF s.active # b THEN FlushFigures(bk, s, cur)
                    ELSE IF again /\ cur \in Eligible THEN CountIncomplete(bk, b, cur)
                    ELSE bk
           /\ st' = [st EXCEPT ![cur] =
                       [kept EXCEPT !.tries = IF again THEN @ + 1 ELSE @, !.active = b,
                                    !.takenAt = t, !.open = TRUE]]
           /\ seen' = [seen EXCEPT !.begun[b] = @ + Began(s, b, cur),
                                   !.takes[b] = IF cur \in Eligible THEN @ + 1 ELSE @]
    /\ UNCHANGED <<wv, cur, done>>

\* Wrong: a placement earlier than its take is sampled too.
AnyTimeCounts(s, t) == s.takenAt >= 0

\* A time sample needs the time of the take, and the placement after it.
TimeCounts(s, t) == t >= s.takenAt /\ s.takenAt >= 0

\* What a placement adds to the figures f of its block, given the chain s with
\* this try counted: the counters of every placement ...
CountPlacement(f, outcome, s) ==
    [f EXCEPT !.first     = IF s.tries = 1 THEN @ + 1 ELSE @,
              !.firstFail = IF s.tries = 1 /\ outcome # "placed" THEN @ + 1 ELSE @,
              !.noSnap    = IF outcome = "fell_no_snap_target" THEN @ + 1 ELSE @,
              !.missing   = IF outcome = "fell_missing_support" THEN @ + 1 ELSE @,
              !.placed    = IF outcome = "placed" THEN @ + 1 ELSE @]

\* ... and the rung and samples of one that succeeds.
CountSuccess(f, s, t) ==
    [f EXCEPT !.ladder[IF s.tries <= 3 THEN s.tries ELSE 4] = @ + 1,
              !.tries = Append(@, s.tries),
              !.times = IF TimeCounts(s, t) THEN Append(@, t - s.takenAt) ELSE @]

PlacementFigures(figs, b, outcome, s, t, a) ==
    LET counted == [figs EXCEPT ![b] = CountPlacement(@, outcome, s)]
        sampled == [counted EXCEPT ![b] = CountSuccess(@, s, t)]
    IN  CASE a \notin Eligible   -> counted
          [] a \in Eligible /\ outcome # "placed" -> recordExampleAttempt(counted, b, a)
          [] a \in Eligible /\ outcome = "placed" -> recordExampleAttempt(sampled, b, a)

\* Wrong: an attempt out of scope enters the wave too.
EntersAlways(entered, a) == entered \cup {a}

\* The attempts that entered a wave, among those in scope.
Enters(entered, a) == IF a \in Eligible THEN entered \cup {a} ELSE entered

CountInWave(f, outcome, a) ==
    [f EXCEPT !.placements = @ + 1,
              !.falls = IF outcome \in Fallen THEN @ + 1 ELSE @,
              !.attempts = Enters(@, a)]

\* applyPlacementInsight: placement_resolved for block b in wave w.
PlacementResolved(b, w, outcome, t) ==
    /\ Read
    /\ LET s == st[cur]
           kept == IF s.active = b THEN s
                   ELSE [FlushState(s) EXCEPT !.tries = 0, !.takenAt = -1, !.open = FALSE,
                                              !.active = b]
           tried == [kept EXCEPT !.tries = @ + 1,
                                 !.lastFailed = IF outcome \in Fallen THEN b ELSE @]
       IN  /\ bk' = PlacementFigures(IF s.active = b THEN bk ELSE FlushFigures(bk, s, cur),
                                     b, outcome, tried, t, cur)
           /\ st' = [st EXCEPT ![cur] = IF outcome = "placed" THEN NoChain
                                        ELSE [tried EXCEPT !.open = FALSE]]
           /\ seen' = [seen EXCEPT
                  !.begun[b] = @ + Began(s, b, cur),
                  !.closed[b] = IF s.active = b /\ s.open /\ cur \in Eligible THEN @ + 1 ELSE @,
                  !.falls[b] = IF outcome \in Fallen THEN @ + 1 ELSE @]
    /\ wv' = [wv EXCEPT ![w] = CountInWave(@, outcome, cur)]
    /\ UNCHANGED <<cur, done>>

\* The rows of one attempt end and those of the next begin.
NextAttempt == /\ ~done /\ cur < NumAttempts /\ cur' = cur + 1
               /\ UNCHANGED <<bk, st, wv, read, done, seen>>

\* After the last row every attempt's open chain is flushed, in order.
EndOfRows == /\ ~done /\ done' = TRUE /\ cur' = 1
             /\ UNCHANGED <<bk, st, wv, read, seen>>

FlushAttempt ==
    /\ done /\ cur <= NumAttempts /\ cur' = cur + 1
    /\ bk' = FlushFigures(bk, st[cur], cur)
    /\ st' = [st EXCEPT ![cur] = FlushState(@)]
    /\ UNCHANGED <<wv, read, done, seen>>

Next == \/ SkipEvent \/ HintUsed \/ InteractionAbandoned
        \/ NextAttempt \/ EndOfRows \/ FlushAttempt
        \/ \E b \in Blocks, t \in Elapsed : DetailTaken(b, t)
        \/ \E b \in Blocks, w \in Waves, o \in Outcomes, t \in Elapsed :
              PlacementResolved(b, w, o, t)

Spec == Init /\ [][Next]_vars

-----------------------------------------------------------------------------
(* applyPuzzleMedians: what is reported for a block.                       *)
\* Wrong: the index is one too low.
LowPercentile(values, pct) ==
    IF values = <<>> THEN 0
    ELSE LET idx == ((Len(values) * pct) \div 100) - 1
         IN  SortSeq(values, <)[(IF idx < 0 THEN 0 ELSE idx) + 1]

intPercentile(values, pct) ==
    IF values = <<>> THEN 0
    ELSE LET sorted == SortSeq(values, <)
             idx == (Len(values) * pct) \div 100
         IN  sorted[(IF idx >= Len(values) THEN Len(values) - 1 ELSE idx) + 1]

medianInts(values) == IF values = <<>> THEN 0 ELSE SortSeq(values, <)[(Len(values) \div 2) + 1]

\* Median, p75 and p90; the last two only of a sufficient sample.
Distribution(values) ==
    IF Len(values) >= MinSamples
    THEN <<intPercentile(values, 50), intPercentile(values, 75), intPercentile(values, 90)>>
    ELSE <<medianInts(values), 0, 0>>

-----------------------------------------------------------------------------
(* p75 and p90 bound at least that share of the samples from above, and the *)
(* three figures are in order; with too few samples both are zero.          *)
PercentilesBoundSamples ==
    \A b \in Blocks :
        LET d == Distribution(bk[b].tries)
            size == Len(bk[b].tries)
            AtMost(v) == Cardinality({i \in 1..size : bk[b].tries[i] <= v})
        IN  IF size < MinSamples THEN d[2] = 0 /\ d[3] = 0
            ELSE /\ d[1] <= d[2] /\ d[2] <= d[3]
                 /\ AtMost(d[2]) * 100 >= 75 * size /\ AtMost(d[3]) * 100 >= 90 * size

-----------------------------------------------------------------------------
(* The inductive invariant (module AnalyticsProofs).                       *)
Figures == [first : Nat, firstFail : Nat, noSnap : Nat, missing : Nat, placed : Nat,
            hints : Nat, ladder : [1..4 -> Nat], never : Nat, incomplete : Nat,
            tries : Seq(Nat), times : Seq(Nat), examples : Seq(Attempts)]
Chain == [tries : Nat, takenAt : Int, open : BOOLEAN,
          active : Blocks \cup {NoBlock}, lastFailed : Blocks \cup {NoBlock}]
WaveFigures == [placements : Nat, falls : Nat, attempts : SUBSET Eligible]
Histories == [begun : [Blocks -> Nat], takes : [Blocks -> Nat], closed : [Blocks -> Nat],
              falls : [Blocks -> Nat]]

TypeOK ==
    /\ bk \in [Blocks -> Figures]
    /\ st \in [Attempts -> Chain]
    /\ wv \in [Waves -> WaveFigures]
    /\ cur \in 1..(NumAttempts + 1) /\ done \in BOOLEAN
    /\ ~done => cur \in Attempts
    /\ seen \in Histories

\* A chain has been tried or is being tried: a flush counts every one of them.
Begun(s) == s.active # NoBlock => s.tries > 0 \/ s.open

\* A fall that is still to be blamed for a hint has not been charged.
Blamed(b) == {a \in Attempts : st[a].lastFailed = b}
FallsCoverBlame ==
    \A b \in Blocks : bk[b].hints + Cardinality(Blamed(b)) <= seen.falls[b]

IInv == /\ TypeOK
        /\ \A a \in Attempts : Begun(st[a])
        /\ LadderAccountsForEveryChain /\ TakesAccountedFor
        /\ FallsCoverBlame /\ SamplesMatchLadder
=============================================================================
