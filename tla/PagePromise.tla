------------------------------ MODULE PagePromise ------------------------------
(* What the event feed promises about pages that are loaded one by one: they are *)
(* in order and leave nothing out.  Feed implements it.                          *)
EXTENDS Integers, FiniteSets, SequencesExt

CONSTANTS ReceivedAt,   \* event -> time
          NameOf        \* event -> the filter it passes

None == 0

VARIABLES events, cursor,  \* the hook's state
          asOf,    \* history: the filter of the first page shown, and what was stored
                   \* when it was read
          fits     \* history: every later page was asked for below this very list

\* (received_at, event_id) < (received_at, event_id)
Older(e, d) == \/ ReceivedAt[e] < ReceivedAt[d]
               \/ ReceivedAt[e] = ReceivedAt[d] /\ e < d
------------------------------------------------------------------------------
\* "Newest events first", also over pages that were loaded one by one while events
\* arrived: no event twice and none above a newer one.  (events, loadOlder)
NewestFirst ==
    fits => \A i, j \in DOMAIN events : i < j => Older(events[j], events[i])

\* Paging leaves nothing out: of the matching events that were there when the
\* first page was read, all down to the last one shown are shown, ties in
\* received_at and page boundaries included, and all of them once "Load older" is
\* gone.
NothingSkipped ==
    fits => \A e \in asOf.stored :
                /\ NameOf[e] = asOf.filter
                /\ cursor # None => ~Older(e, cursor)
                => \E i \in DOMAIN events : events[i] = e

\* Whatever requests overlap: unless a later page was appended to another list than
\* the one it was asked for, the list shows no event twice, none above a newer one,
\* and leaves none out that was there when its first page was read
\* (useRecentEventsFeed).
PagesAreWhole == NewestFirst /\ NothingSkipped
==============================================================================
