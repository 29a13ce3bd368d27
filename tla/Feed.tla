--------------------------------- MODULE Feed ----------------------------------
(* The live event feed: GetRecentEvents, the keyset-paginated query behind it,  *)
(* and useRecentEventsFeed, the browser's side, which polls the first page and  *)
(* appends a page per "Load older".  Requests are in flight together and their  *)
(* answers may arrive in any order; the hook neither cancels nor numbers them.  *)
(* A filter stands for the project and the four filter fields.                  *)
EXTENDS PagePromise

CONSTANTS Events,       \* event ids, numbers so that they have the order of the text column
          Filters,      \* the selections a user switches between
          PageSize,     \* the query's limit
          Slots         \* bound: requests in flight

VARIABLES stored,          \* the committed events of the table
          filter, paused,  \* the page's controls
          stale,           \* the rest of the hook's state
          flight           \* [Slots -> request]

vars == <<stored, filter, paused, events, cursor, stale, flight, asOf, fits>>
list == <<events, cursor, asOf, fits>>

Configured == /\ Events \subseteq Int \ {None} /\ ReceivedAt \in [Events -> Int]
              /\ PageSize \in Nat \ {0}

\* --- the server ---------------------------------------------------------------
\* ORDER BY received_at DESC, event_id DESC LIMIT: row i has i - 1 newer ones.
Rank(e, rows) == Cardinality({d \in rows : Older(e, d)})
Newest(rows) == LET n == Cardinality(rows)
                IN  [i \in 1..(IF n < PageSize THEN n ELSE PageSize) |-> CHOOSE e \in rows : Rank(e, rows) = i - 1]

\* Wrong: the cursor's own row is on the next page too.
PageWithCursorRow(from, f, before) ==
    Newest({e \in from : NameOf[e] = f /\ (before = None \/ e = before \/ Older(e, before))})

\* Wrong: the cursor is the time alone.
PageByTime(from, f, before) ==
    Newest({e \in from : NameOf[e] = f /\ (before = None \/ ReceivedAt[e] < ReceivedAt[before])})

\* The query: matching rows below the cursor, newest first, at most a page.
Page(from, f, before) ==
    Newest({e \in from : NameOf[e] = f /\ (before = None \/ Older(e, before))})

\* The cursor of the next page is sent with a full page only.
NextBefore(page) == IF Len(page) = PageSize THEN Last(page) ELSE None

\* --- the browser --------------------------------------------------------------
Idle == [kind |-> "idle"]
Free(s) == flight[s] = Idle
Sent(kind, f, before) ==
    [kind |-> kind, filter |-> f, before |-> before, state |-> "sent", from |-> {}]

\* The page that the answer of request q holds.
Answer(q) == Page(q.from, q.filter, q.before)

fetchEventsPage(s, kind, f, before) == flight' = [flight EXCEPT ![s] = Sent(kind, f, before)]

\* The hook mounts and asks for its first page.
Init == /\ stored = {}
        /\ filter \in Filters
        /\ paused = FALSE
        /\ events = <<>> /\ cursor = None /\ stale = FALSE
        /\ asOf = [filter |-> filter, stored |-> {}] /\ fits = TRUE
        /\ \E s \in Slots :
              flight = [t \in Slots |-> IF t = s THEN Sent("refresh", filter, None) ELSE Idle]

\* A batch commits; received_at was taken before its transaction, so rows do not
\* become visible in the order of the feed.
CommitEvent == /\ \E e \in Events \ stored : stored' = stored \cup {e}
               /\ UNCHANGED <<filter, paused, stale, flight, list>>

\* Wrong: the timer keeps the refresh of the filters it was created with.
PollFirstFilter(s) == /\ Free(s) /\ ~paused
                      /\ fetchEventsPage(s, "refresh", CHOOSE f \in Filters : TRUE, None)
                      /\ UNCHANGED <<stored, filter, paused, stale, list>>

\* The interval timer, running with the current refresh unless paused.
Poll(s) == /\ Free(s) /\ ~paused
           /\ fetchEventsPage(s, "refresh", filter, None)
           /\ UNCHANGED <<stored, filter, paused, stale, list>>

\* A changed filter is a new refresh, whose effect runs it at once; the old
\* events stay on the screen and what is in flight stays in flight.
SetFilter(s) == /\ Free(s)
                /\ filter' \in Filters \ {filter}
                /\ fetchEventsPage(s, "refresh", filter', None)
                /\ UNCHANGED <<stored, paused, stale, list>>

TogglePause == /\ paused' = ~paused
               /\ UNCHANGED <<stored, filter, stale, flight, list>>

\* The button, shown while there is a cursor.
loadOlder(s) == /\ Free(s)
                /\ cursor # None
                /\ fetchEventsPage(s, "older", filter, cursor)
                /\ UNCHANGED <<stored, filter, paused, stale, list>>

GetRecentEvents(s) ==
    /\ ~Free(s) /\ flight[s].state = "sent"
    /\ flight' = [flight EXCEPT ![s] = [@ EXCEPT !.state = "answered", !.from = stored]]
    /\ UNCHANGED <<stored, filter, paused, stale, list>>

\* The first page replaces the list.
refresh(s) == /\ ~Free(s) /\ flight[s].kind = "refresh" /\ flight[s].state = "answered"
              /\ events' = Answer(flight[s])
              /\ cursor' = NextBefore(Answer(flight[s]))
              /\ stale' = FALSE
              /\ asOf' = [filter |-> flight[s].filter, stored |-> flight[s].from]
              /\ fits' = TRUE
              /\ flight' = [flight EXCEPT ![s] = Idle]
              /\ UNCHANGED <<stored, filter, paused>>

\* A request for what is below the list as it is now, read since its first page was.
AskedForThis(q) == q.filter = asOf.filter /\ q.before = cursor /\ asOf.stored \subseteq q.from

\* A later page is appended to whatever the list is by now.
appendOlder(s) == /\ ~Free(s) /\ flight[s].kind = "older" /\ flight[s].state = "answered"
                  /\ events' = events \o Answer(flight[s])
                  /\ cursor' = NextBefore(Answer(flight[s]))
                  /\ fits' = (fits /\ AskedForThis(flight[s]))
                  /\ flight' = [flight EXCEPT ![s] = Idle]
                  /\ UNCHANGED <<stored, filter, paused, stale, asOf>>

\* A request fails, on the way, in the query or on the way back: a refresh marks
\* the list stale, a later page is dropped without a word.
FailRequest(s) == /\ ~Free(s)
                  /\ stale' = (stale \/ flight[s].kind = "refresh")
                  /\ flight' = [flight EXCEPT ![s] = Idle]
                  /\ UNCHANGED <<stored, filter, paused, list>>

Respond(s) == GetRecentEvents(s) \/ refresh(s) \/ appendOlder(s) \/ FailRequest(s)

Next == \/ CommitEvent
        \/ TogglePause
        \/ \E s \in Slots : Poll(s) \/ SetFilter(s) \/ loadOlder(s) \/ Respond(s)

\* The timer fires however often the button is pressed, hence strongly fair where
\* Slots bounds both; the server's query timeout ends every request.
Fairness == /\ SF_vars(\E s \in Slots : Poll(s))
            /\ \A s \in Slots : WF_vars(Respond(s))

Spec == Init /\ [][Next]_vars /\ Fairness
------------------------------------------------------------------------------
(* The inductive invariant (module AnalyticsProofs).                            *)
\* A request for a first page has no cursor, one for a later page has one.
RequestOK(q) == q.from \subseteq stored /\ (q.kind = "refresh" <=> q.before = None)

IInv == /\ IsFiniteSet(stored) /\ stored \subseteq Events /\ asOf.stored \subseteq stored
        /\ events \in Seq(stored)
        /\ cursor # None => events # <<>> /\ cursor = events[Len(events)]
        /\ flight = [s \in Slots |-> flight[s]]
        /\ \A s \in Slots : Free(s) \/ RequestOK(flight[s])
        /\ NewestFirst /\ NothingSkipped

\* Once the user has settled on a filter and the feed is running, and whatever
\* answers of earlier requests still arrive, it comes to show the newest page of
\* that filter and nothing of another, or says that it is stale.
Running(f) == filter = f /\ ~paused
ShowsNewest(f) == \/ stale
                  \/ /\ IsPrefix(Page(stored, f, None), events)
                     /\ \A i \in DOMAIN events : NameOf[events[i]] = f
FeedSettles == \A f \in Filters : <>[]Running(f) => <>[]ShowsNewest(f)
==============================================================================
