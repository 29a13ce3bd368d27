----------------------------- MODULE MCAnalytics -----------------------------
(***************************************************************************)
(* The dashboard's queries and folds, checked in one run.  A behaviour is   *)
(* one of the parts: `part` says which, and its module's variables are those *)
(* of its promise, if it has one, and the first of v1 .. v13; the others are *)
(* off, and the promises of the others empty.  Below, the data each part     *)
(* works on, the instances, and their properties.                            *)
(***************************************************************************)
EXTENDS CatalogPromise, PagePromise, LadderPromise, TLC

CONSTANTS c1, c2, Off

VARIABLES part, v1, v2, v3, v4, v5, v6, v7, v8, v9, v10, v11, v12, v13

-----------------------------------------------------------------------------
\* Quality: one clean game in four batches: a natural house run with a fall,
\* a return, a background pause and a recovery in a second session, then two
\* developer commands on another run.  The second batch lies outside the
\* window: its clock was not trusted.
Unset == "none"
NoIndex == -2
EventRow == [in |-> TRUE, session |-> "s1", seq |-> 0, run |-> "h1", hidx |-> NoIndex, attempt |-> Unset,
        aidx |-> NoIndex, inter |-> Unset, act |-> Unset, schema |-> "2", rev |-> "r1",
        space |-> Unset, name |-> Unset, outcome |-> Unset, hashOK |-> TRUE, natural |-> TRUE,
        late |-> FALSE]

\* Event e of the natural attempt: its sequence, indexes, interaction and name.
Play(ses, seq, hidx, inter, name, outcome) ==
    [EventRow EXCEPT !.session = ses, !.seq = seq, !.hidx = hidx, !.attempt = "a1", !.aidx = hidx - 1,
                !.inter = inter, !.name = name, !.outcome = outcome, !.in = hidx \notin 5..8,
                !.space = IF name \in {"placement_resolved", "detail_released"}
                          THEN "house_local" ELSE Unset,
                !.late = hidx > 12]

Dev(seq, act, name, outcome) ==
    [EventRow EXCEPT !.session = "s2", !.seq = seq, !.run = "h2", !.hidx = seq - 8, !.act = act,
                !.name = name, !.outcome = outcome, !.natural = FALSE]

Game ==
  [b1 |-> {[EventRow EXCEPT !.seq = 1, !.hidx = 0, !.name = "house_run_started"],
           Play("s1", 2, 1, Unset, "wave_attempt_started", Unset),
           Play("s1", 3, 2, "i1", "detail_taken", Unset),
           Play("s1", 4, 3, "i1", "detail_released", Unset),
           Play("s1", 5, 4, "i1", "placement_resolved", "fell_no_snap_target")},
   b2 |-> {Play("s1", 6, 5, "i1", "detail_returned", Unset),
           Play("s1", 7, 6, "i2", "detail_taken", Unset),
           Play("s1", 8, 7, "i2", "interaction_abandoned", Unset),
           Play("s1", 9, 8, Unset, "app_backgrounded", Unset)},
   b3 |-> {Play("s1", 10, 9, Unset, "app_backgrounded", Unset),
           Play("s1", 11, 10, Unset, "app_foregrounded", Unset),
           Play("s2", 0, 11, Unset, "attempt_recovered", Unset),
           Play("s2", 1, 12, "i3", "detail_taken", Unset),
           Play("s2", 2, 13, "i3", "detail_released", Unset),
           Play("s2", 3, 14, "i3", "placement_resolved", "fell_missing_support"),
           Play("s2", 4, 15, "i3", "detail_returned", Unset),
           Play("s2", 5, 16, Unset, "state_checkpoint", Unset),
           Play("s2", 6, 17, Unset, "wave_completed", Unset),
           Play("s2", 7, 18, Unset, "house_completed", Unset)},
   b4 |-> {Dev(8, "c1", "developer_command_started", Unset),
           Dev(9, "c1", "developer_progress_mutated", Unset),
           Dev(10, "c1", "developer_command_completed", "complete"),
           Dev(11, "c2", "developer_command_started", Unset),
           Dev(12, "c2", "developer_progress_mutated", Unset),
           Dev(13, "c2", "developer_command_completed", "reset"),
           Dev(14, Unset, "house_completed", Unset)}]

\* The first and the last batch only, for the runs with faults.
ShortGame == [b \in {"b1", "b4"} |-> Game[b]]

\* Replay: rows of one attempt over two blocks and one interaction.
NoIds == {-1}
Played(name, outcome, block, ids, inter) ==
    [name |-> name, outcome |-> outcome, block |-> block, ids |-> ids, inter |-> inter,
     target |-> 1, v2 |-> FALSE, rev |-> "r1", hashOK |-> TRUE]
HouseShapes == {Played("placement_resolved", o, b, ids, "") :
            o \in {"placed", "returned"}, b \in {1}, ids \in {NoIds, {2}}}
        \cup {Played("placement_resolved", "placed", 1, {}, "")}
        \cup {Played("state_checkpoint", "", -1, ids, "") : ids \in {{}, {1, 2}}}
        \cup {[Played("state_checkpoint", "", -1, {1}, "") EXCEPT !.hashOK = FALSE]}
ChainShapes == {Played(n, "", -1, NoIds, x) : n \in {"detail_taken", "detail_returned"}, x \in {"", "x"}}
         \cup {Played("placement_resolved", o, 1, NoIds, "x") : o \in {"placed", "fell"}}
VersionShapes == {[Played("house_run_started", "", -1, NoIds, "") EXCEPT !.v2 = v, !.rev = r] :
                v \in BOOLEAN, r \in {"", "r1", "r2"}}
ReplayGroups == [r \in {"r1", "r2"} |-> [t \in {1} |-> IF r = "r1" THEN {{2}} ELSE {{1}, {2}}]]

\* Drops: one house with two slots in two imported revisions; rows release on,
\* near and far from them on either axis, of known and unknown revisions and
\* targets, one of schema v2 whose revision was never imported.
DropPosition == [r1 |-> [t \in {1, 2} |-> <<10 * t, 5>>], r2 |-> [t \in {1, 2} |-> <<10 * t, 9>>]]
NoTarget == -1
DropRow(rev, legacy, cand, near, outcome, release) ==
    [rev |-> rev, legacy |-> legacy, cand |-> cand, near |-> near, outcome |-> outcome,
     release |-> release, sent |-> IF near = NoTarget THEN -1000 ELSE 7]
DropRows == {DropRow("old", TRUE, 1, 1, "placed", p) : p \in {<<10, 9>>, <<10, 18>>, <<19, 9>>}}
          \cup {DropRow("old", TRUE, 2, 2, "placed", <<23, 6>>),
                DropRow("old", TRUE, NoTarget, 1, "fell", <<14, 8>>),
                DropRow("old", TRUE, 3, 1, "fell", <<14, 8>>),
                DropRow("old", TRUE, NoTarget, NoTarget, "fell", <<40, 0>>),
                DropRow("old", FALSE, 1, 1, "placed", <<10, 5>>),
                DropRow("r1", FALSE, 1, 1, "placed", <<10, 5>>),
                DropRow("r1", FALSE, NoTarget, 2, "fell", <<13, 9>>)}

\* Catalog: one house of two blocks, sound and with a flaw of each kind; two
\* uploads of its shapes in opposite orders, one for a block it does not have.
SoundHouse == [id |-> 1, blocks |-> <<1, 2>>,
          waves |-> <<[id |-> 1, blocks |-> {1}], [id |-> 2, blocks |-> {1, 2}]>>,
          groups |-> <<[id |-> "g", blocks |-> {1}]>>,
          targets |-> <<[id |-> 1, wave |-> 1, blocks |-> {1}]>>,
          rules |-> <<[id |-> 1, groups |-> {{2}}]>>]
Doc(rev, h) == [rev |-> rev, cities |-> <<[id |-> 1, houses |-> <<h>>]>>]
Flawed == {[SoundHouse EXCEPT !.blocks = <<1, 2, 2>>], [SoundHouse EXCEPT !.waves[1].blocks = {3}],
           [SoundHouse EXCEPT !.groups[1].id = ""], [SoundHouse EXCEPT !.targets[1].wave = 3],
           [SoundHouse EXCEPT !.rules[1].groups = {{3}}], [SoundHouse EXCEPT !.rules[1].id = 2]}
CatalogDocs == {Doc("a", SoundHouse), Doc("a", [SoundHouse EXCEPT !.waves[2].blocks = {1}])}
          \cup {Doc("b", h) : h \in Flawed}
          \cup {[rev |-> "b", cities |-> <<>>]}

Shape(n) == [lo |-> 0, hi |-> n, outline |-> <<0, 1, n>>]
Block(i, s) == [city |-> 1, house |-> 1, id |-> i, shape |-> s]
CatalogGeometries == {[rev |-> "a", blocks |-> <<Block(1, Shape(2)), Block(2, Shape(2))>>],
                 [rev |-> "a", blocks |-> <<Block(2, Shape(3)), Block(1, Shape(3))>>],
                 [rev |-> "a", blocks |-> <<Block(1, Shape(4)), Block(2, Shape(4)), Block(9, Shape(4))>>],
                 [rev |-> "a", blocks |-> <<Block(1, [Shape(2) EXCEPT !.outline = <<0, 5, 1>>])>>]}
CatalogArts == {[rev |-> "a", houses |-> <<[city |-> 1, house |-> 1, image |-> 1, valid |-> TRUE],
                                      [city |-> 1, house |-> 2, image |-> 1, valid |-> v]>>] : v \in BOOLEAN}
          \cup {[rev |-> "a", houses |-> <<>>]}

\* Feed: four events, two of a filter received at the same time, at the end of a
\* page and at the start of the next.
FeedTimes == <<1, 1, 2, 2>>
FeedNames == <<"move", "move", "move", "start">>

-----------------------------------------------------------------------------
Ladder == INSTANCE Insights WITH
    Blocks <- {"b1", "b2"}, NumAttempts <- 2, Waves <- {0},
    Elapsed <- {1, 2}, MinSamples <- 2, MaxEvents <- 4,
    NoBlock <- "none", read <- v1, done <- v2
Samples == INSTANCE Insights WITH
    Blocks <- {"b1"}, NumAttempts <- 1, Waves <- {0},
    Elapsed <- {-1, 1, 2}, MinSamples <- 2, MaxEvents <- 7,
    NoBlock <- "none", read <- v1, done <- v2
Faults == INSTANCE Quality WITH
    Batches <- ShortGame, Revisions <- {"r1"}, MinEvents <- 20, MaxFaults <- 3,
    log <- v1, arrived <- v2, dup <- v3, rej <- v4, revs <- v5, aged <- v6, pc <- v7,
    q <- v8, c <- v9, atStart <- v10
Gate == INSTANCE Quality WITH
    Batches <- Game, Revisions <- {"r1"}, MinEvents <- 20, MaxFaults <- 0, log <- v1,
    arrived <- v2, dup <- v3, rej <- v4, revs <- v5, aged <- v6, pc <- v7, q <- v8,
    c <- v9, atStart <- v10
House == INSTANCE Replay WITH
    Shapes <- HouseShapes, MaxIndex <- 0, MaxRows <- 4, Limit <- 3, Revisions <- {"r1"},
    Groups <- ReplayGroups, pc <- v1, rows <- v2, revision <- v3, truncated <- v4,
    imported <- v5, catalog <- v6, fallback <- v7, steps <- v8, standing <- v9,
    open <- v10, last <- v11, figures <- v12, table <- v13
Chains == INSTANCE Replay WITH
    Shapes <- ChainShapes, MaxIndex <- 3, MaxRows <- 4, Limit <- 3, Revisions <- {},
    Groups <- ReplayGroups, pc <- v1, rows <- v2, revision <- v3, truncated <- v4,
    imported <- v5, catalog <- v6, fallback <- v7, steps <- v8, standing <- v9,
    open <- v10, last <- v11, figures <- v12, table <- v13
Versions == INSTANCE Replay WITH
    Shapes <- VersionShapes, MaxIndex <- 1, MaxRows <- 3, Limit <- 2,
    Revisions <- {"r1", "r2"}, Groups <- ReplayGroups, pc <- v1, rows <- v2,
    revision <- v3, truncated <- v4, imported <- v5, catalog <- v6, fallback <- v7,
    steps <- v8, standing <- v9, open <- v10, last <- v11, figures <- v12, table <- v13
Line == INSTANCE Timeline WITH
    Names <- {"memory_sample", "app_backgrounded", "app_foregrounded"},
    Builds <- {"", "b1", "b2"}, MaxGap <- 2, Cap <- 1, Limit <- 4, first <- v1,
    lastAt <- v2, active <- v3, background <- v4, build <- v5, samples <- v6,
    points <- v7
Map == INSTANCE Drops WITH
    Rows <- DropRows, Position <- DropPosition, Latest <- "r2", MaxRows <- 5,
    MinPlaced <- 3, Snap <- 2, pc <- v1, read <- v2, drops <- v3, unresolved <- v4,
    offset <- v5, spread <- v6, aligned <- v7, trusted <- v8, issue <- v9
Page == INSTANCE Days WITH
    Installs <- {"i1", "i2"}, Day <- 4, WeekDays <- 3, MonthDays <- 4, LastReturn <- 3,
    Shift <- 0, ShiftAt <- 0, Times <- {12, 15, 19, 20, 23, 35}, Ends <- {20, 22, 24},
    MaxEvents <- 3, events <- v1, first <- v2, todo <- v3, page <- v4, asked <- v5
Steps == INSTANCE Funnel WITH
    Installs <- 1..2, NSteps <- 3, Times <- 0..3, From <- 0, To <- 2, Second <- 1,
    HourSeconds <- 1, DaySeconds <- 2, Width <- 6, Absent <- -1,
    Requested <- {-1, 0, 1, 2, 3}, FetchLimit <- 3, MaxEvents <- 4, events <- v1,
    asked <- v2, answer <- v3
Alarm == INSTANCE Anomaly WITH
    anomalyBaselineDays <- 3, TicksPerDay <- 4, TicksPerSecond <- 2, MaxAhead <- 1,
    MaxPerTick <- 1, count <- v1, day <- v2, at <- v3
Bars == INSTANCE Volume WITH
    DayTicks <- 4, Horizon <- 8, Offsets <- {-2, 0, 2}, MaxEvents <- 2, now <- v1,
    accepted <- v2, pending <- v3, stats <- v4, occurrences <- v5
Pages == INSTANCE Feed WITH
    Events <- 1..4, Filters <- {"move", "start"}, PageSize <- 2, Slots <- {1, 2},
    stored <- v1, filter <- v2, paused <- v3, stale <- v4, flight <- v5
Tables == INSTANCE Catalog WITH
    Procs <- {c1, c2}, Docs <- CatalogDocs, Arts <- CatalogArts, tx <- v1, answer <- v2

ASSUME PagesConfigured == Pages!Configured
ASSUME LadderConfigured == Ladder!Configured /\ Samples!Configured
ASSUME TablesConfigured == Tables!Configured

-----------------------------------------------------------------------------
\* Neither the ladder, the catalogue nor the feed.
NoHouse == bk = <<>> /\ st = Off /\ wv = <<>> /\ cur = 1 /\ seen = Off
HouseFigures == <<bk, st, wv, cur, seen>>
NoRevision == rows = Tables!NoRows
NoPage == events = <<>> /\ cursor = None /\ asOf = Off /\ fits = FALSE
Unread == <<events, cursor, asOf, fits>>

\* The variables after the first k, off and unchanged.
Off10 == v11 = Off /\ v12 = Off /\ v13 = Off
Off9 == v10 = Off /\ Off10
Off8 == v9 = Off /\ Off9
Off7 == v8 = Off /\ Off8
Off5 == v6 = Off /\ v7 = Off /\ Off7
Off3 == v4 = Off /\ v5 = Off /\ Off5
Off2 == v3 = Off /\ Off3
Rest10 == <<v11, v12, v13>>
Rest9 == <<v10, Rest10>>
Rest8 == <<v9, Rest9>>
Rest7 == <<v8, Rest8>>
Rest5 == <<v6, v7, Rest7>>
Rest3 == <<v4, v5, Rest5>>
Rest2 == <<v3, Rest3>>

Init ==
    \/ part = "ladder" /\ Ladder!Init /\ Off2 /\ NoRevision /\ NoPage
    \/ part = "samples" /\ Samples!Init /\ Off2 /\ NoRevision /\ NoPage
    \/ part = "faults" /\ Faults!Init /\ Off10 /\ NoRevision /\ NoPage /\ NoHouse
    \/ part = "gate" /\ Gate!Init /\ Off10 /\ NoRevision /\ NoPage /\ NoHouse
    \/ part = "house" /\ House!Init /\ NoRevision /\ NoPage /\ NoHouse
    \/ part = "chains" /\ Chains!Init /\ NoRevision /\ NoPage /\ NoHouse
    \/ part = "versions" /\ Versions!Init /\ NoRevision /\ NoPage /\ NoHouse
    \/ part = "timeline" /\ Line!Init /\ Off7 /\ NoRevision /\ NoPage /\ NoHouse
    \/ part = "drops" /\ Map!Init /\ Off9 /\ NoRevision /\ NoPage /\ NoHouse
    \/ part = "days" /\ Page!Init /\ Off5 /\ NoRevision /\ NoPage /\ NoHouse
    \/ part = "funnel" /\ Steps!Init /\ Off3 /\ NoRevision /\ NoPage /\ NoHouse
    \/ part = "anomaly" /\ Alarm!Init /\ Off3 /\ NoRevision /\ NoPage /\ NoHouse
    \/ part = "volume" /\ Bars!Init /\ Off5 /\ NoRevision /\ NoPage /\ NoHouse
    \/ part = "feed" /\ Pages!Init /\ Off5 /\ NoRevision /\ NoHouse
    \/ part = "catalog" /\ Tables!Init /\ Off2 /\ NoPage /\ NoHouse

Next ==
    /\ UNCHANGED part
    /\ \/ part = "ladder" /\ Ladder!Next /\ UNCHANGED <<Rest2, rows, Unread>>
       \/ part = "samples" /\ Samples!Next /\ UNCHANGED <<Rest2, rows, Unread>>
       \/ part = "faults" /\ Faults!Next /\ UNCHANGED <<Rest10, rows, Unread, HouseFigures>>
       \/ part = "gate" /\ Gate!Next /\ UNCHANGED <<Rest10, rows, Unread, HouseFigures>>
       \/ part = "house" /\ House!Next /\ UNCHANGED <<rows, Unread, HouseFigures>>
       \/ part = "chains" /\ Chains!Next /\ UNCHANGED <<rows, Unread, HouseFigures>>
       \/ part = "versions" /\ Versions!Next /\ UNCHANGED <<rows, Unread, HouseFigures>>
       \/ part = "timeline" /\ Line!Next /\ UNCHANGED <<Rest7, rows, Unread, HouseFigures>>
       \/ part = "drops" /\ Map!Next /\ UNCHANGED <<Rest9, rows, Unread, HouseFigures>>
       \/ part = "days" /\ Page!Next /\ UNCHANGED <<Rest5, rows, Unread, HouseFigures>>
       \/ part = "funnel" /\ Steps!Next /\ UNCHANGED <<Rest3, rows, Unread, HouseFigures>>
       \/ part = "anomaly" /\ Alarm!Next /\ UNCHANGED <<Rest3, rows, Unread, HouseFigures>>
       \/ part = "volume" /\ Bars!Next /\ UNCHANGED <<Rest5, rows, Unread, HouseFigures>>
       \/ part = "feed" /\ Pages!Next /\ UNCHANGED <<Rest5, rows, HouseFigures>>
       \/ part = "catalog" /\ Tables!Next /\ UNCHANGED <<Rest2, Unread, HouseFigures>>

vars == <<part, rows, Unread, HouseFigures, v1, v2, v3, v4, v5, v6, v7, v8, v9, v10, v11, v12, v13>>

Spec == Init /\ [][Next]_vars

\* The importers of the catalogue are interchangeable.
Symmetry == Permutations({c1, c2})

-----------------------------------------------------------------------------
\* Quality: the window-function queries count exactly the missing indexes, late
\* or reordered delivery does not turn the card red, and card, alerts and smoke
\* check agree on a build.
GateIsFair ==
    /\ part = "faults" => Faults!GapsAreMissingIndexes
    /\ part = "gate" => Gate!LateDeliveryIsNotRed /\ Gate!VerdictsAgree

\* Replay and timeline: each step's house is the last one reported plus the
\* verdicts since, as in the attempt table up to the first placement that reports
\* an empty house; gaps, duplicates and orphans are exact; a schema-v2 attempt is
\* resolved against its own catalogue only; active time is the capped time spent
\* in the foreground and never runs ahead of wall time; there is one update
\* marker per change of build.
AttemptIsRetold ==
    /\ part = "house" => House!HouseIsReportedPlusVerdicts /\ House!MirrorsAttemptTable
    /\ part = "chains" => Chains!GapsAreExact /\ Chains!OrphansAreOpenTakes
    /\ part = "versions" => Versions!OwnCatalogOrSaysSo
    /\ part = "timeline" => /\ Line!ActiveIsForegroundTime
                            /\ Line!ActiveWithinWall
                            /\ Line!BuildUpdatesAreChanges

\* Drops: two coordinate spaces are never plotted together, a fit that is shown
\* holds on each axis for more than half of the placed drops, distances are those of the
\* points shown, and every row read is shown, counted as unresolved or withheld
\* with a reason (alignDrops).
MapIsConsistent ==
    part = "drops" => /\ Map!OneCoordinateSpace
                      /\ Map!FitHoldsForTheMajority
                      /\ Map!DistanceMatchesPlot
                      /\ Map!EveryRowAccountedFor

\* Days, volumes, funnel, anomalies and percentiles: in a zone without a change of
\* its offset every event is in the tile of its day, a day's installations are
\* among its week's and those among its month's, whoever came back on the last day
\* asked about is counted; what was refused within a range is among the rejections
\* shown for it, but for the UTC day it ends in where that is a day earlier for the
\* caller; the single pass of the funnel counts exactly the installations
\* with a chain (scanFunnel); a day like the others, so far, is never reported,
\* and bursts on fewer than half of the days neither hide nor make up a change;
\* the percentiles of a block bound their share of its samples (intPercentile).
ChartsAgree ==
    /\ part = "days" => Page!EveryEventInItsTile /\ Page!DailyNested /\ Page!ReturnsAreFound
    /\ part = "volume" => Bars!RejectionsCovered
    /\ part = "funnel" => Steps!CountsAreChains
    /\ part = "anomaly" => Alarm!SteadyIsQuiet /\ Alarm!BurstsDoNotMask
    /\ part = "samples" => Samples!PercentilesBoundSamples
=============================================================================
