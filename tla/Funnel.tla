------------------------------- MODULE Funnel ---------------------------------
(* The conversion funnel (analytics/funnel.go): one pass over the step events    *)
(* of all installations, in the order the database returns them, counts how far  *)
(* each installation got within a window of its first step.  Events are stored   *)
(* late and in any order; events of one instant come back in either order; the   *)
(* fetch is cut at a limit.  Instants and windows are in the clock's unit, of    *)
(* which Second make a second, and durations wrap at Width bits.                 *)
EXTENDS Integers, Sequences, FiniteSets, FiniteSetsExt, SequencesExt

CONSTANTS Installs,       \* 1..n, ordered as the database orders them
          NSteps,         \* steps of the funnel
          Times, From, To,
          Second, HourSeconds, DaySeconds, Width,
          Requested,      \* values of window_seconds that are asked for
          Absent,         \* no window_seconds
          FetchLimit,     \* maxFunnelEventsFetched
          MaxEvents       \* bound: events stored

VARIABLES events,   \* step events: [i |-> installation, n |-> step, t |-> effective_at]
          asked,    \* window_seconds of the last answer
          answer    \* the last answer

vars == <<events, asked, answer>>

NoAnswer == [status |-> 0, window |-> 0, counts |-> <<>>, truncated |-> FALSE]

Refusal == [NoAnswer EXCEPT !.status = 400]

\* A product of durations in a machine word.
Wrap(x) == ((x + 2^(Width - 1)) % 2^Width) - 2^(Width - 1)

ParseCompletionWindow(raw) ==
    IF raw = Absent THEN HourSeconds * Second
    ELSE Wrap(raw * Second)

windowRefused(raw) ==
    raw # Absent /\ (raw <= 0 \/ ParseCompletionWindow(raw) > DaySeconds * Second)
------------------------------------------------------------------------------
\* The rows of the query: step events up to a window after the end of the range.
fetched(window) == {e \in events : e.t >= From /\ e.t <= To + window}

\* ORDER BY install_id, effective_at leaves the order within an instant open.
inOrder(s) == \A a, b \in DOMAIN s :
                  a < b => s[a].i < s[b].i \/ (s[a].i = s[b].i /\ s[a].t <= s[b].t)

\* Wrong: the window starts again at every step.
scanSliding(acc, e, window) ==
    LET cur == IF e.i = acc.i THEN acc ELSE [acc EXCEPT !.i = e.i, !.want = 1]
        hit == /\ e.n = cur.want
               /\ IF cur.want = 1 THEN e.t >= From /\ e.t < To ELSE e.t <= cur.firstAt + window
    IN IF hit THEN [cur EXCEPT !.want = @ + 1, !.firstAt = e.t, !.counts[cur.want] = @ + 1]
              ELSE cur

\* One row: a new installation starts over; a row counts when it is the wanted step.
scan(acc, e, window) ==
    LET cur == IF e.i = acc.i THEN acc ELSE [acc EXCEPT !.i = e.i, !.want = 1]
        hit == /\ e.n = cur.want
               /\ IF cur.want = 1 THEN e.t >= From /\ e.t < To ELSE e.t <= cur.firstAt + window
    IN IF hit THEN [cur EXCEPT !.want = @ + 1,
                               !.firstAt = IF cur.want = 1 THEN e.t ELSE @,
                               !.counts[cur.want] = @ + 1]
              ELSE cur

countSteps(rows, window) ==
    FoldLeft(LAMBDA acc, e : scan(acc, e, window),
             [i |-> 0, want |-> 1, firstAt |-> 0, counts |-> [k \in 1..NSteps |-> 0]],
             rows).counts

Cut(s, n) == SubSeq(s, 1, Min({n, Len(s)}))

GetFunnel(rows, window) ==
    LET read == Cut(rows, FetchLimit + 1)
    IN [status |-> 200, window |-> window, truncated |-> Len(read) > FetchLimit,
        counts |-> countSteps(Cut(read, FetchLimit), window)]

Init == events = {} /\ asked = Absent /\ answer = NoAnswer

Store(i, n, t) == /\ Cardinality(events) < MaxEvents
                  /\ events' = events \cup {[i |-> i, n |-> n, t |-> t]}
                  /\ answer' = NoAnswer /\ asked' = Absent

Ask(raw) == /\ asked' = raw
            /\ \/ windowRefused(raw) /\ answer' = Refusal
               \/ /\ ~windowRefused(raw)
                  /\ \E rows \in SetToSeqs(fetched(ParseCompletionWindow(raw))) :
                        /\ inOrder(rows)
                        /\ answer' = GetFunnel(rows, ParseCompletionWindow(raw))
            /\ UNCHANGED events

Next == \/ \E i \in Installs, n \in 1..NSteps, t \in Times : Store(i, n, t)
        \/ answer = NoAnswer /\ \E raw \in Requested : Ask(raw)

Spec == Init /\ [][Next]_vars
------------------------------------------------------------------------------
Starts(i) == {e.t : e \in {f \in events : f.i = i /\ f.n = 1 /\ f.t >= From /\ f.t < To}}

\* The installations with a chain of events for the steps 1..k, in order of time
\* and within the window of their first start; `before` says whether two steps may
\* share an instant.
Reached(k, window, before(_, _)) ==
    {i \in Installs :
        /\ Starts(i) # {}
        /\ \E at \in [1..k -> Times] :
              /\ at[1] = Min(Starts(i))
              /\ \A n \in 2..k : /\ [i |-> i, n |-> n, t |-> at[n]] \in events
                                 /\ before(at[n - 1], at[n])
                                 /\ at[n] <= at[1] + window}

AtLeast(k, window) == Cardinality(Reached(k, window, LAMBDA a, b : a < b))

AtMost(k, window) == Cardinality(Reached(k, window, LAMBDA a, b : a <= b))

\* The single pass counts exactly the installations with such a chain, up to the
\* order of events of one instant; a cut fetch only loses some, and says so.
CountsAreChains ==
    answer.status = 200 =>
        \A k \in 1..NSteps :
            /\ answer.counts[k] <= AtMost(k, answer.window)
            /\ answer.counts[k] >= AtLeast(k, answer.window) \/ answer.truncated
==============================================================================
