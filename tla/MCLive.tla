-------------------------------- MODULE MCLive -------------------------------
(***************************************************************************)
(* What must happen in the end, checked in one run.  A behaviour is one of  *)
(* the parts: `part` says which.  A part's module has the variables its     *)
(* promise is about and the first of v1 .. v9; the others are off, and the  *)
(* promises of the others are empty.  The fairness is that of the modules,  *)
(* for the part that runs.                                                  *)
(***************************************************************************)
EXTENDS Integers, SchemaPromise, LoginPromise

CONSTANT Off

VARIABLES part, v1, v2, v3, v4, v5, v6, v7, v8, v9

-----------------------------------------------------------------------------
\* FrontEnd: two connections and one slot, a disk that is fine or full by
\* either measure.
Connections == {"p1", "p2"}
Body(gzip, wire, inflated) == [gzip |-> gzip, wire |-> wire, inflated |-> inflated, declared |-> wire]
Disks == {[used |-> 50, free |-> 99], [used |-> 86, free |-> 99], [used |-> 50, free |-> 8]}

\* Migrations: four files, one of them released later than the one that sorts
\* after it.
Files == <<"0001", "0002", "0014_a", "0014_b">>

-----------------------------------------------------------------------------
Server == INSTANCE FrontEnd WITH
    Procs <- Connections, Slots <- 1, Bodies <- {Body(TRUE, 4, 12), Body(FALSE, 4, 4)},
    MaxWire <- 8, MaxInflated <- 12, Usages <- Disks, MaxRestarts <- 1, pc <- v1,
    kind <- v2, body <- v3, data <- v4, sem <- v5, usage <- v6, current <- v7, up <- v8,
    restarts <- v9
Schema == INSTANCE Migrations WITH
    Runners <- {"r1", "r2"}, Names <- Files, First <- {"0001", "0014_b"},
    MaxFailures <- 2, files <- v1, run <- v2, failures <- v3
Single == INSTANCE McpClient WITH
    Callers <- {"c1"}, MaxCalls <- 5, MaxExpiries <- 5, session <- v1, live <- v2,
    issued <- v3, calls <- v4, token <- v5
\* Two callers: how a call ends is not promised.
Shared == INSTANCE McpClient WITH
    Callers <- {"c1", "c2"}, MaxCalls <- 2, MaxExpiries <- 2, session <- v1, live <- v2,
    issued <- v3, calls <- v4, token <- v5, outcome <- v6
Feeds == INSTANCE Feed WITH
    Events <- 1..2, ReceivedAt <- <<1, 2>>, NameOf <- <<"move", "move">>,
    Filters <- {"move", "start"}, PageSize <- 1, Slots <- {1, 2},
    stored <- v1, filter <- v2, paused <- v3, events <- v4, cursor <- v5, stale <- v6,
    flight <- v7, asOf <- v8, fits <- v9

-----------------------------------------------------------------------------
\* The variables after the first k, off and unchanged.
Off6 == v7 = Off /\ v8 = Off /\ v9 = Off
Off5 == v6 = Off /\ Off6
Off3 == v4 = Off /\ v5 = Off /\ Off5
Rest6 == <<v7, v8, v9>>
Rest5 == <<v6, Rest6>>
Rest3 == <<v4, v5, Rest5>>

\* What the promises are about, and what it is in the other parts.
applied == <<recorded, effects>>
asked == <<expired, pc, attempt, held, outcome, refused, mark>>
Unapplied == recorded = {} /\ effects = <<>>
Unasked == /\ expired = 0 /\ pc = <<>> /\ attempt = <<>> /\ held = <<>> /\ outcome = <<>>
           /\ refused = <<>> /\ mark = <<>>

Init ==
    \/ part = "front" /\ Server!Init /\ Unapplied /\ Unasked
    \/ part = "schema" /\ Schema!Init /\ Off3 /\ Unasked
    \/ part = "single" /\ Single!Init /\ Off5 /\ Unapplied
    \/ part = "shared" /\ Shared!Init /\ Off6 /\ outcome = <<>> /\ Unapplied
    \/ part = "feed" /\ Feeds!Init /\ Unapplied /\ Unasked

\* A step of one part leaves the rest alone.
InFront == part = "front" /\ UNCHANGED <<part, applied, asked>>
InSchema == part = "schema" /\ UNCHANGED <<part, Rest3, asked>>
InSingle == part = "single" /\ UNCHANGED <<part, Rest5, applied>>
InShared == part = "shared" /\ UNCHANGED <<part, Rest6, outcome, applied>>
InFeed == part = "feed" /\ UNCHANGED <<part, applied, asked>>

Next ==
    \/ InFront /\ Server!Next
    \/ InSchema /\ Schema!Next
    \/ InSingle /\ Single!Next
    \/ InShared /\ Shared!Next
    \/ InFeed /\ Feeds!Next

vars == <<part, applied, asked, v1, v2, v3, v4, v5, v6, v7, v8, v9>>

\* Handlers run, waiters of a channel are served in turn, the ticker fires and
\* not every reading fails, a process told to stop stops and is started again;
\* deploys are repeated; requests have an answer or an error; the feed polls
\* and its requests end.
Fairness ==
    /\ \A p \in Connections : WF_vars(InFront /\ Server!Step(p)) /\ SF_vars(InFront /\ Server!Acquire(p))
    /\ SF_vars(InFront /\ Server!Check)
    /\ WF_vars(InFront /\ Server!Exit)
    /\ WF_vars(InFront /\ Server!Start)
    /\ \A r \in {"r1", "r2"} : WF_vars(InSchema /\ Schema!Work(r))
    /\ \A c \in {"c1", "c2"} : WF_vars(InShared /\ Shared!Step(c))
    /\ SF_vars(InFeed /\ \E s \in {1, 2} : Feeds!Poll(s))
    /\ \A s \in {1, 2} : WF_vars(InFeed /\ Feeds!Respond(s))

Spec == Init /\ [][Next]_vars /\ Fairness

-----------------------------------------------------------------------------
\* Whoever waits is served: a request that waits for a slot gets it or is cut off
\* by the end of the process (FrontEnd), and every tool call of the MCP server
\* returns, whatever expires while it runs (McpClient).
EveryoneIsServed ==
    /\ \A p \in Connections : (part = "front" /\ Server!Waiting(p)) ~> ~(part = "front" /\ Server!Waiting(p))
    /\ \A c \in {"c1", "c2"} : (part = "shared" /\ pc[c] = "read") ~> (part = "shared" /\ pc[c] = "idle")

\* FrontEnd: the cached state follows the disk, down as well as up, and if the
\* disk stays full, ingestion stops.
MonitorConverges ==
    /\ \A s \in {"normal", "critical", "rejecting"} :
           <>[](part = "front" /\ Server!classify(v6) = s) => <>[](part = "front" /\ Server!Shows(s))
    /\ <>[](part = "front" /\ Server!classify(v6) = "rejecting") => <>[]~(part = "front" /\ Server!Ingesting)

\* No file takes effect before one that the same release sorts before it, and
\* deploys repeated until they succeed bring the schema up to the release.
SchemaCatchesUp ==
    /\ [][part = "schema" => Schema!AppliesInOrder]_vars
    /\ \A i \in DOMAIN Files : (part = "schema" /\ Files[i] \in v1) ~> (part = "schema" /\ Files[i] \in recorded)

\* Feed: once the user has settled on a filter it comes to show the newest page
\* of it, or says that it is stale.
FeedSettles ==
    \A f \in {"move", "start"} :
        <>[](part = "feed" /\ Feeds!Running(f)) => <>[](part = "feed" /\ Feeds!ShowsNewest(f))
=============================================================================
