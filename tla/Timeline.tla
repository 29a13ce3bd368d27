------------------------------ MODULE Timeline ------------------------------
(***************************************************************************)
(* The memory timeline of one install                                      *)
(* (src/internal/analytics/puzzle_memory_timeline.go): lifecycle rows in   *)
(* time order become points with the wall time and the active time so far, *)
(* background gaps left out and long foreground gaps capped.  Memory       *)
(* figures, labels and the house and wave shown are left out.              *)
(***************************************************************************)
EXTENDS Integers, Sequences, FiniteSets, FiniteSetsExt

CONSTANTS Names,      \* the event names of memoryTimelineSQL
          Builds,     \* build numbers, "" for none
          MaxGap,     \* bound: the longest time between two rows
          Cap,        \* pauseGapCapMS
          Limit       \* LIMIT 1000

VARIABLES first, lastAt,   \* timelineState: firstAt (-1: zero), lastAt
          active,          \* cumActiveMS
          background,      \* isBackgrounded
          build,           \* lastBuild
          samples,         \* sampleCount
          points           \* Points, with the row each one came from

vars == <<first, lastAt, active, background, build, samples, points>>

Init == /\ first = -1 /\ lastAt = -1 /\ active = 0 /\ background = FALSE /\ build = ""
        /\ samples = 0 /\ points = <<>>

-----------------------------------------------------------------------------
\* Wrong: a gap in the background counts too.
ActiveCountsBackground(at) == IF first < 0 THEN 0 ELSE active + Min({at - lastAt, Cap})

\* Wrong: the gap is taken from the first row instead of the last one.
ActiveFromFirst(at) == IF first < 0 \/ background THEN active ELSE active + Min({at - first, Cap})

updateActiveTime(at) ==
    IF first < 0 \/ background THEN active ELSE active + Min({at - lastAt, Cap})

\* Wrong: a row without a build number is an update as well.
MarksEveryDifference(name, b) == IF build # "" /\ b # build THEN "build_update" ELSE name

classifyMarker(name, b) ==
    CASE build # "" /\ b # "" /\ b # build                   -> "build_update"
      [] name \in {"house_run_started", "house_opened"}      -> "house_start"
      [] name \in {"wave_attempt_started", "wave_presented"} -> "wave_start"
      [] name = "state_checkpoint"                           -> "checkpoint"
      [] name = "app_backgrounded"                           -> "background"
      [] name = "app_foregrounded"                           -> "foreground"
      [] name = "attempt_recovered"                          -> "recovery"
      [] name = "memory_sample"                              -> "memory_sample"
      [] OTHER                                               -> "event"

createTimelinePoint(name, b, at) ==
    /\ Len(points) < Limit
    /\ LET start == IF first < 0 THEN at ELSE first
           now == updateActiveTime(at)
       IN  /\ first' = start /\ lastAt' = at /\ active' = now
           /\ points' = Append(points, [active |-> now, wall |-> at - start,
                                        marker |-> classifyMarker(name, b),
                                        name |-> name, build |-> b, at |-> at])
    /\ build' = IF b # "" THEN b ELSE build
    /\ background' = CASE name = "app_backgrounded" -> TRUE
                       [] name = "app_foregrounded" -> FALSE
                       [] OTHER                     -> background
    /\ samples' = samples + (IF name = "memory_sample" THEN 1 ELSE 0)

Next == \E name \in Names, b \in Builds, gap \in 0..MaxGap :
            createTimelinePoint(name, b, IF first < 0 THEN gap ELSE lastAt + gap)

Spec == Init /\ [][Next]_vars

-----------------------------------------------------------------------------
(* The time between two rows that counts: what lies between a background    *)
(* row and the next foreground row does not, and no single gap counts for   *)
(* more than the cap.  The active time of every point is the sum of these.  *)
InBackground(i) == LET turns == {k \in 1..i : points[k].name \in {"app_backgrounded", "app_foregrounded"}}
                   IN  turns # {} /\ points[Max(turns)].name = "app_backgrounded"
ActiveIsForegroundTime ==
    \A n \in DOMAIN points :
        points[n].active = MapThenSumSet(LAMBDA i : Min({points[i + 1].at - points[i].at, Cap}),
                                         {i \in 1..(n - 1) : ~InBackground(i)})

(* Active time never runs backwards nor ahead of wall time, so the totals   *)
(* (the last point's) bound every point (GetPuzzleMemoryTimeline).          *)
ActiveWithinWall ==
    \A n \in DOMAIN points : /\ points[n].active <= points[n].wall
                             /\ n > 1 => /\ points[n - 1].active <= points[n].active
                                         /\ points[n].active - points[n - 1].active
                                              <= points[n].wall - points[n - 1].wall

(* There is one update marker per change of build, rows without a build     *)
(* number ignored, and every other sample keeps its own marker.             *)
BuildUpdatesAreChanges ==
    LET named == {i \in DOMAIN points : points[i].build # ""}
        before(i) == {k \in named : k < i}
        changes == {i \in named : before(i) # {} /\ points[Max(before(i))].build # points[i].build}
    IN  /\ {i \in DOMAIN points : points[i].marker = "build_update"} = changes
        /\ samples = Quantify(DOMAIN points, LAMBDA i : points[i].marker = "memory_sample")
                     + Quantify(changes, LAMBDA i : points[i].name = "memory_sample")
=============================================================================
