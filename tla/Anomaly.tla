------------------------------- MODULE Anomaly ---------------------------------
(* GetAnomalies for one event name: today's count so far against the trailing   *)
(* days, each cut off at the same time of day, by a modified z-score.  The day  *)
(* has TicksPerDay instants, TicksPerSecond of which make a second: the cutoff  *)
(* is formatted with seconds.  Counts are integers; a median is carried twice   *)
(* its value and the deviation four times, so that halves stay exact.  Asking   *)
(* changes nothing: the answer is an operator of the state.                     *)
EXTENDS Integers, FiniteSetsExt, SequencesExt

CONSTANTS anomalyBaselineDays,
          TicksPerDay, TicksPerSecond,
          MaxAhead,     \* how far a trusted client clock runs ahead, in ticks
          MaxPerTick    \* bound: events of an instant

Today == anomalyBaselineDays + 1     \* the days before it are the baseline
Days == 1 .. Today
Ticks == 0 .. TicksPerDay - 1
anomalyMinBaselineVolume == anomalyBaselineDays

VARIABLES count,   \* [Days -> [Ticks -> Nat]], events by effective_at
          day, at  \* now

vars == <<count, day, at>>

Init == /\ count = [d \in Days |-> [t \in Ticks |-> 0]]
        /\ day = 1 /\ at = 0

\* A batch commits an event whose effective time is now or slightly later.
CommitEvent == \E t \in Ticks :
                  /\ at <= t /\ t <= at + MaxAhead
                  /\ count[day][t] < MaxPerTick
                  /\ count' = [count EXCEPT ![day][t] = @ + 1]
                  /\ UNCHANGED <<day, at>>

Tick == /\ day < Today \/ at < TicksPerDay - 1
        /\ at' = (at + 1) % TicksPerDay
        /\ day' = IF at' = 0 THEN day + 1 ELSE day
        /\ UNCHANGED count

Next == CommitEvent \/ Tick

Spec == Init /\ [][Next]_vars
------------------------------------------------------------------------------
\* now.Format("15:04:05")
cutoff == (at \div TicksPerSecond) * TicksPerSecond

\* Wrong: baseline days are whole days.
wholeDays(d) == MapThenSumSet(LAMBDA t : count[d][t], Ticks)

\* The count of a day: all of today, the others up to the cutoff.
queryDailyCounts(d) ==
    MapThenSumSet(LAMBDA t : count[d][t], {t \in Ticks : d = Today \/ t < cutoff})

\* Wrong: the middle of the days in calendar order.
medianUnsorted(values) ==
    LET n == Len(values)
    IN  IF n % 2 = 1 THEN 2 * values[n \div 2 + 1] ELSE values[n \div 2] + values[n \div 2 + 1]

\* Twice the median.
medianOf(values) ==
    LET sorted == SortSeq(values, <)
        n == Len(sorted)
    IN  IF n % 2 = 1 THEN 2 * sorted[n \div 2 + 1] ELSE sorted[n \div 2] + sorted[n \div 2 + 1]

distance(a, b) == IF a < b THEN b - a ELSE a - b

\* Four times the median absolute deviation.
medianAbsDeviation(values, median) ==
    medianOf([i \in DOMAIN values |-> distance(2 * values[i], median)])

\* |0.6745 (value - median) / mad| > 3.5; a flat baseline flags every difference.
exceedsThreshold(value, median, mad) ==
    IF mad = 0 THEN 2 * value # median
    ELSE 6745 * 2 * distance(2 * value, median) > 35000 * mad

Baseline == [d \in 1 .. anomalyBaselineDays |-> queryDailyCounts(d)]

BaselineTotal == MapThenSumSet(LAMBDA d : Baseline[d], DOMAIN Baseline)

\* Flagged today, now.
Flagged ==
    /\ BaselineTotal >= anomalyMinBaselineVolume
    /\ LET median == medianOf(Baseline)
       IN  exceedsThreshold(queryDailyCounts(Today), median, medianAbsDeviation(Baseline, median))
------------------------------------------------------------------------------
\* Of two days, the events at the times of day in T are as many, one by one.
Alike(d, e, T) == \A t \in T : count[d][t] = count[e][t]

\* An event that has come today exactly as on each day of the baseline, up to the
\* second of the question and nothing since, is never reported, whatever the rest
\* of those days held: a partial today is not a dip.  (queryDailyCounts)
SteadyIsQuiet ==
    /\ day = Today
    /\ \A d \in Days : Alike(d, Today, {t \in Ticks : t < cutoff})
    /\ \A t \in Ticks : t >= cutoff => count[Today][t] = 0
    => ~Flagged

\* Bursts on fewer than half of the days neither hide a change nor make one up: if
\* most days have the same count, today is reported exactly when it differs, once
\* there is volume enough; so a steady event that stops is.  (modifiedZScore)
BurstsDoNotMask ==
    \A c \in 0 .. TicksPerDay * MaxPerTick :
        /\ day = Today
        /\ 2 * Cardinality({d \in DOMAIN Baseline : Baseline[d] = c}) > anomalyBaselineDays
        /\ BaselineTotal >= anomalyMinBaselineVolume
        => (Flagged <=> queryDailyCounts(Today) # c)
==============================================================================
