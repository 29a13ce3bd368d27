-------------------------------- MODULE Volume ---------------------------------
(* The volume figures of GetCatalog for one event name: accepted events are     *)
(* counted at their own instants, rejections by UTC day, which is all that      *)
(* recordRejectionStats keeps.  Time runs in DayTicks ticks a day.  The bounds  *)
(* of a range carry the offset they were written with (RFC 3339), and become    *)
(* dates in that offset.  Asking changes nothing, so answers are operators.     *)
EXTENDS Integers, FiniteSetsExt

CONSTANTS DayTicks,
          Horizon,    \* bound: ticks of a behaviour
          Offsets,    \* the offsets of the ranges that are asked for, in ticks
          MaxEvents   \* bound: events accepted and refused

Times == 0 .. Horizon - 1
Dates == -2 .. Horizon \div DayTicks + 2

VARIABLES now,
          accepted,    \* [Times -> Nat], rows of events by effective_at
          pending,     \* receive times of refused events not yet recorded
          stats,       \* [Dates -> Nat], event_rejection_stats
          occurrences  \* [Times -> Nat], event_rejection_occurrences by received_at

vars == <<now, accepted, pending, stats, occurrences>>

Total(f) == MapThenSumSet(LAMBDA t : f[t], DOMAIN f)

Init == /\ now = 0
        /\ accepted = [t \in Times |-> 0]
        /\ pending = {}
        /\ stats = [d \in Dates |-> 0]
        /\ occurrences = [t \in Times |-> 0]

DateOf(t, offset) == (t + offset) \div DayTicks

Tick == /\ now < Horizon - 1
        /\ now' = now + 1
        /\ UNCHANGED <<accepted, pending, stats, occurrences>>

\* A batch received now: an event is stored, or refused and recorded later.
Accept == /\ Total(accepted) < MaxEvents
          /\ accepted' = [accepted EXCEPT ![now] = @ + 1]
          /\ UNCHANGED <<now, pending, stats, occurrences>>

Refuse == /\ Total(occurrences) + Cardinality(pending) < MaxEvents
          /\ pending' = pending \cup {now}
          /\ UNCHANGED <<now, accepted, stats, occurrences>>

\* After the batch's transaction, with the time the batch was received.
recordRejectionStats ==
    \E t \in pending :
       /\ pending' = pending \ {t}
       /\ occurrences' = [occurrences EXCEPT ![t] = @ + 1]
       /\ stats' = [stats EXCEPT ![DateOf(t, 0)] = @ + 1]
       /\ UNCHANGED <<now, accepted>>

Next == Tick \/ Accept \/ Refuse \/ recordRejectionStats

Spec == Init /\ [][Next]_vars
------------------------------------------------------------------------------
EventCount(from, to) == MapThenSumSet(LAMBDA t : accepted[t], {t \in Times : from <= t /\ t < to})

\* Wrong: the range's own dates.
exactDates(from, to, offset) ==
    MapThenSumSet(LAMBDA d : stats[d],
                  {d \in Dates : DateOf(from, offset) <= d /\ d < DateOf(to, offset)})

\* Days from the one before from's to the one of to, each in the offset it came with.
rejectionsByName(from, to, offset) ==
    MapThenSumSet(LAMBDA d : stats[d],
                  {d \in Dates : DateOf(from, offset) - 1 <= d /\ d < DateOf(to, offset) + 1})

Ranges == {r \in Times \X (1 .. Horizon) : r[1] < r[2]}

RefusedIn(r) == MapThenSumSet(LAMBDA t : occurrences[t], {t \in Times : r[1] <= t /\ t < r[2]})

------------------------------------------------------------------------------
\* What the widened range reaches: all but the UTC day of `to` where the caller's
\* date lags behind it, as it may west of UTC.
Reached(r, offset) ==
    <<r[1], IF DateOf(r[2], offset) < DateOf(r[2], 0) THEN DateOf(r[2], 0) * DayTicks ELSE r[2]>>

\* "a UTC-day bucket that straddles the caller's local-timezone range isn't
\* dropped": what was refused within a range, even if recorded after midnight, is
\* among the rejections shown for it, but for the UTC day the range ends in where it
\* is a day earlier for the caller.  (rejectionsByName, recordRejectionStats)
RejectionsCovered ==
    \A r \in Ranges, o \in Offsets : RefusedIn(Reached(r, o)) <= rejectionsByName(r[1], r[2], o)
==============================================================================
