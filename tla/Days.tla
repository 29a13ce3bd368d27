-------------------------------- MODULE Days ----------------------------------
(* The calendar-day metrics: the overview's week of daily tiles (overview.go,    *)
(* overview_daily.go) and the retention cohorts (retention.go).  A page is a     *)
(* list of queries, each its own statement on its own snapshot, so batches are   *)
(* stored between them.  Days are local days of a zone with one change of its    *)
(* offset (Shift; 0 when the zone has none): Go adds hours, the database casts   *)
(* local times to dates.  The scale is smaller: Day ticks to 24 hours, WeekDays  *)
(* to a week, MonthDays to a month, LastReturn to the thirty days of retention.  *)
(* The tiles of new installations, ingestion and durations are scattered by the  *)
(* same days, between the two groups of queries kept here, and are left out.     *)
EXTENDS Integers, Sequences, FiniteSets, FiniteSetsExt

CONSTANTS Installs,
          Day, WeekDays, MonthDays, LastReturn,
          Shift, ShiftAt,     \* the offset of the zone grows by Shift at ShiftAt
          Times,              \* effective times that occur
          Ends,               \* the ends a page is asked for
          MaxEvents           \* bound: events stored

Never == -1

VARIABLES events,   \* product events: [i |-> installation, t |-> effective_at]
          first,    \* installations.first_product_event_at
          todo,     \* queries the page has still to run
          page,     \* the answers so far, by query
          asked     \* the page's range and what was stored when it was asked

vars == <<events, first, todo, page, asked>>
------------------------------------------------------------------------------
Local(t) == t + (IF t >= ShiftAt THEN Shift ELSE 0)

\* (effective_at AT TIME ZONE tz)::date
LocalDay(t) == Local(t) \div Day

\* time.Date(year, month, day, 0, 0, 0, 0, loc)
Midnight(d) == CHOOSE t \in (d - 1) * Day .. (d + 1) * Day : Local(t) = d * Day

Within(lo, hi) == {e \in events : e.t >= lo /\ e.t < hi}

InstallsOf(E) == {e.i : e \in E}

\* Distinct installations with a product event in [lo, hi).
activeInstallations(lo, hi) == Cardinality(InstallsOf(Within(lo, hi)))

dayEndOf(to) == Midnight(LocalDay(to)) + Day

weekStart(to) == dayEndOf(to) - WeekDays * Day

\* Wrong: the tiles start a day late.
indexLate(to) == [k \in 1..WeekDays |-> LocalDay(weekStart(to) + k * Day)]

\* The keys of the tiles, oldest first: 24-hour steps from the start of the week.
newDailyIndex(to) == [k \in 1..WeekDays |-> LocalDay(weekStart(to) + (k - 1) * Day)]

\* fillActiveWindowsDaily: two round trips for each tile.
activeWindows(to) ==
    [n \in 1..2 * WeekDays |->
        LET k  == (n + 1) \div 2
            hi == weekStart(to) + k * Day
        IN IF n % 2 = 1 THEN [what |-> "wau", k |-> k, lo |-> hi - WeekDays * Day, hi |-> hi]
                        ELSE [what |-> "mau", k |-> k, lo |-> hi - MonthDays * Day, hi |-> hi]]

dailyEvents(to) == [what |-> "daily", k |-> 0, lo |-> weekStart(to), hi |-> dayEndOf(to)]

\* Wrong: the windows of the tiles are read before the days.
windowsFirst(to) == activeWindows(to) \o <<dailyEvents(to)>>

\* queryOverviewDaily: the days of every tile first, then their windows.
queryOverviewDaily(to) == <<dailyEvents(to)>> \o activeWindows(to)

\* Wrong: a month after the end, though the last cohort returns a month after its day.
retentionMonth(from, to) ==
    <<[what |-> "retained", k |-> 0, lo |-> from, hi |-> to + LastReturn * Day]>>

GetRetention(from, to) ==
    <<[what |-> "retained", k |-> 0, lo |-> from, hi |-> to + (LastReturn + 1) * Day]>>
------------------------------------------------------------------------------
\* Rows scattered by their day; a day with no tile is skipped.  Two tiles with one
\* key cannot be told apart by the map, which keeps the later one.
scatter(to, E) ==
    LET index == newDailyIndex(to)
        tile(d) == Max({k \in DOMAIN index : index[k] = d})
    IN [k \in DOMAIN index |->
          IF tile(index[k]) = k
            THEN [events |-> Cardinality({e \in E : LocalDay(e.t) = index[k]}),
                  dau |-> Cardinality(InstallsOf({e \in E : LocalDay(e.t) = index[k]}))]
            ELSE [events |-> 0, dau |-> 0]]

cohort(d, from, to) == {i \in Installs : first[i] >= from /\ first[i] < to /\ LocalDay(first[i]) = d}

\* Who of a cohort has an event, in the rows read, n days after its day.
returned(C, d, n, E) == {i \in C : \E e \in E : e.i = i /\ LocalDay(e.t) = d + n}

AllDays == {LocalDay(t) : t \in Times}

Answer(q) ==
    CASE q.what = "daily" -> scatter(asked.to, Within(q.lo, q.hi))
      [] q.what \in {"wau", "mau"} -> activeInstallations(q.lo, q.hi)
      [] q.what = "retained" ->
           [d \in AllDays |->
              [n \in {1, LastReturn} |->
                 Cardinality(returned(cohort(d, asked.from, asked.to), d, n, Within(q.lo, q.hi)))]]

Key(q) == <<q.what, q.k>>

Nobody == [from |-> 0, to |-> 0, events |-> {}]

Init == /\ events = {} /\ first = [i \in Installs |-> Never]
        /\ todo = <<>> /\ page = <<>> /\ asked = Nobody

\* A batch with one product event is stored; the installation's first one stays.
Store(i, t) == /\ Cardinality(events) < MaxEvents
               /\ events' = events \cup {[i |-> i, t |-> t]}
               /\ first' = [first EXCEPT ![i] = IF @ = Never THEN t ELSE @]
               /\ UNCHANGED <<todo, page, asked>>

Ask(queries, from, to) == /\ asked = Nobody
                          /\ todo' = queries
                          /\ asked' = [from |-> from, to |-> to, events |-> events]
                          /\ UNCHANGED <<events, first, page>>

AskOverview(to) == Ask(queryOverviewDaily(to), to - WeekDays * Day, to)

AskRetention(to) == Ask(GetRetention(to - WeekDays * Day, to), to - WeekDays * Day, to)

RunQuery == /\ todo # <<>>
            /\ page' = Append(page, [key |-> Key(Head(todo)), answer |-> Answer(Head(todo))])
            /\ todo' = Tail(todo)
            /\ UNCHANGED <<events, first, asked>>

Next == \/ \E i \in Installs, t \in Times : Store(i, t)
        \/ \E to \in Ends : AskOverview(to) \/ AskRetention(to)
        \/ RunQuery

Spec == Init /\ [][Next]_vars
------------------------------------------------------------------------------
Has(what, k) == \E n \in DOMAIN page : page[n].key = <<what, k>>

The(what, k) == page[CHOOSE n \in DOMAIN page : page[n].key = <<what, k>>].answer

TheWeek == {LocalDay(asked.to) - n : n \in 0..WeekDays - 1}

OnDay(d, E) == {e \in E : LocalDay(e.t) = d}

\* Every event of the last seven local days that was stored when the page was asked
\* for is counted in the tile of its own day: newDailyIndex, which counts hours, and
\* the database, which casts to dates, agree on what a day is.
EveryEventInItsTile ==
    Has("daily", 0) =>
        \A d \in TheWeek \cap {LocalDay(e.t) : e \in asked.events} : \E k \in 1..WeekDays :
            /\ newDailyIndex(asked.to)[k] = d
            /\ The("daily", 0)[k].events >= Cardinality(OnDay(d, asked.events))
            /\ The("daily", 0)[k].events <= Cardinality(OnDay(d, events))

\* In the answer a day's installations are among its week's and those among its
\* month's, although three queries read them while batches are stored.
DailyNested ==
    \A k \in 1..WeekDays :
        /\ Has("daily", 0) /\ Has("wau", k) => The("daily", 0)[k].dau <= The("wau", k)
        /\ Has("wau", k) /\ Has("mau", k) => The("wau", k) <= The("mau", k)

\* The rows a retention page reads reach far enough: whoever of a cohort came back
\* on the last day it is asked about is counted, wherever in a day the range ends.
ReturnsAreFound ==
    Has("retained", 0) =>
        \A d \in AllDays, n \in {1, LastReturn} :
            The("retained", 0)[d][n] >=
                Cardinality({i \in cohort(d, asked.from, asked.to) :
                                \E e \in OnDay(d + n, asked.events) : e.i = i})
==============================================================================
