------------------------------- MODULE Drops --------------------------------
(***************************************************************************)
(* The drop map of one house (src/internal/analytics/puzzle_drops.go):     *)
(* releases joined to the positions of their targets, and legacy releases  *)
(* fitted into house space by the median offset of the placed ones.        *)
(*                                                                         *)
(* A point is a pair <<x, y>>. The medians are taken of each axis alone.    *)
(***************************************************************************)
EXTENDS Integers, Sequences, FiniteSets, FiniteSetsExt

CONSTANTS Rows,          \* the rows the query may return, most recent first
          Position,      \* [Revisions -> [target ids -> point]], the imported layouts
          Latest,        \* latestPuzzleRevision
          MaxRows,       \* bound on the rows enumerated
          MinPlaced,     \* minPlacedForAlignment
          Snap           \* snapDistanceMilli

None == -1         \* no target: nothing in range, or the row names none
Unresolved == -2   \* a candidate without a position
NoPlace == <<>>    \* NULL: a position that is not there
Axes == {1, 2}

VARIABLES pc, read, drops,      \* PuzzleDropMap, and the rows read
          unresolved, offset, spread, aligned, trusted, issue

vars == <<pc, read, drops, unresolved, offset, spread, aligned, trusted, issue>>

Init == /\ pc = "scan" /\ read = <<>> /\ drops = <<>> /\ unresolved = 0 /\ offset = <<0, 0>> /\ spread = 0
        /\ aligned = FALSE /\ trusted = FALSE /\ issue = ""

Count(s, P(_)) == Quantify(DOMAIN s, LAMBDA i : P(s[i]))
Abs(n) == IF n < 0 THEN -n ELSE n
Minus(p, q) == <<p[1] - q[1], p[2] - q[2]>>

-----------------------------------------------------------------------------
(* The joins: the row's own revision when it is imported, else the latest.  *)
Layout(r) == IF r.rev \in DOMAIN Position THEN r.rev ELSE Latest
Place(r, t) == IF t \in DOMAIN Position[Layout(r)] THEN Position[Layout(r)][t] ELSE NoPlace

\* Wrong: an unknown candidate falls back on the nearest target.
ResolveNearest(r) ==
    IF Place(r, r.cand) # NoPlace THEN r.cand
    ELSE IF Place(r, r.near) # NoPlace THEN r.near ELSE None

\* The target of a row.
resolveDropTarget(r) ==
    IF r.cand # None THEN IF Place(r, r.cand) # NoPlace THEN r.cand ELSE Unresolved
    ELSE IF r.near # None /\ Place(r, r.near) # NoPlace THEN r.near ELSE None

\* The rounded Euclidean distance of two points.
Distance(p, q) ==
    LET d == Minus(p, q)
    IN  Min({k \in 0..Abs(d[1]) + Abs(d[2]) : 4 * (d[1] * d[1] + d[2] * d[2]) < (2 * k + 1) * (2 * k + 1)})

computeDropDistance(release, near, sent) == IF near # NoPlace THEN Distance(release, near) ELSE sent

Drop(r) == LET near == Place(r, r.near)
               t == resolveDropTarget(r)
           IN  [target |-> t, at |-> IF t = None THEN <<0, 0>> ELSE Place(r, t), release |-> r.release,
                near |-> near, distance |-> computeDropDistance(r.release, near, r.sent),
                outcome |-> r.outcome, legacy |-> r.legacy, rev |-> r.rev]

Scan(r) == /\ pc = "scan" /\ Len(read) < MaxRows /\ read' = Append(read, r)
           /\ IF resolveDropTarget(r) = Unresolved
              THEN unresolved' = unresolved + 1 /\ UNCHANGED drops
              ELSE drops' = Append(drops, Drop(r)) /\ UNCHANGED unresolved
           /\ UNCHANGED <<pc, offset, spread, aligned, trusted, issue>>

-----------------------------------------------------------------------------
(* alignDrops.                                                              *)
Legacy(d) == d.legacy
allDropRevisionsKnown == drops # <<>> /\ Count(drops, Legacy) = 0

\* Wrong: a map with any legacy drop is fitted as a whole.
NeverMixed == FALSE

hasMixedCoordinates == Count(drops, Legacy) \notin {0, Len(drops)}

Withhold(why, s) == /\ drops' = <<>> /\ issue' = why /\ spread' = s
                    /\ UNCHANGED <<offset, aligned>>

\* intMedian: the upper median of the values of a function.
intMedian(val) ==
    LET half == Cardinality(DOMAIN val) \div 2
        ranked(i) == /\ Quantify(DOMAIN val, LAMBDA j : val[j] < val[i]) <= half
                     /\ Quantify(DOMAIN val, LAMBDA j : val[j] <= val[i]) > half
    IN  val[CHOOSE i \in DOMAIN val : ranked(i)]

\* Wrong: the distances keep the values of the uncorrected releases.
ShiftReleaseOnly(d, by) == [d EXCEPT !.release = Minus(@, by)]

Shift(d, by) == [d EXCEPT !.release = Minus(@, by),
                          !.distance = computeDropDistance(Minus(d.release, by), d.near, @)]

Deviation(d, a) == d.release[a] - d.at[a]
dropSpread(ix, a, centre) == intMedian([i \in ix |-> Abs(Deviation(drops[i], a) - centre)])

\* Wrong: the smaller of the two spreads decides.
SmallerSpread(ix, by) == Min({dropSpread(ix, a, by[a]) : a \in Axes})

Spread(ix, by) == Max({dropSpread(ix, a, by[a]) : a \in Axes})

Placed == {i \in DOMAIN drops : drops[i].outcome = "placed" /\ drops[i].target # None}

fitLegacyDrops ==
    LET by == [a \in Axes |-> intMedian([i \in Placed |-> Deviation(drops[i], a)])]
        s == Spread(Placed, by)
    IN  IF Cardinality(Placed) < MinPlaced THEN Withhold("too_few_placed", 0)
        ELSE IF s > Snap THEN Withhold("inconsistent", s)
        ELSE /\ aligned' = TRUE /\ offset' = by /\ spread' = s
             /\ drops' = [i \in DOMAIN drops |-> Shift(drops[i], by)]
             /\ UNCHANGED issue

alignDrops ==
    /\ pc = "scan" /\ pc' = "done" /\ trusted' = allDropRevisionsKnown
    /\ IF trusted' \/ drops = <<>> THEN aligned' = TRUE /\ UNCHANGED <<drops, offset, spread, issue>>
       ELSE IF hasMixedCoordinates THEN Withhold("mixed_coordinate_spaces", 0)
       ELSE fitLegacyDrops
    /\ UNCHANGED <<read, unresolved>>

Next == (\E r \in Rows : Scan(r)) \/ alignDrops
Spec == Init /\ [][Next]_vars

-----------------------------------------------------------------------------
Done == pc = "done"

(* Two coordinate spaces are never plotted together, and releases that are  *)
(* shown from world space have been fitted (alignDrops).                    *)
OneCoordinateSpace ==
    Done => /\ Count(drops, Legacy) \in {0, Len(drops)}
            /\ Count(drops, Legacy) > 0 => aligned /\ ~trusted

(* A fit that is shown is a fit of at least the minimum of placed drops, and *)
(* on each axis more than half of them lie within the snap distance of their *)
(* target once corrected: not the same half on both, so no drop need be      *)
(* within the snap distance of its target on both axes (fitLegacyDrops).     *)
FitHoldsForTheMajority ==
    Done /\ drops # <<>> /\ ~trusted =>
        /\ Cardinality(Placed) >= MinPlaced
        /\ \A a \in Axes :
              2 * Quantify(Placed, LAMBDA i : Abs(Deviation(drops[i], a)) <= Snap) > Cardinality(Placed)

(* The distance shown is the one between the two points shown, after the    *)
(* correction as before it.                                                 *)
DistanceMatchesPlot ==
    Done => \A i \in DOMAIN drops :
        drops[i].near # NoPlace => drops[i].distance = Distance(drops[i].release, drops[i].near)

(* Every row read is shown, counted as unresolved, or withheld with a       *)
(* reason; a drop shown with a target shows its candidate's when it has one. *)
EveryRowAccountedFor ==
    Done => /\ Len(drops) + unresolved = Len(read) \/ issue # ""
            /\ \A i \in DOMAIN read :
                 unresolved = 0 /\ issue = "" /\ read[i].cand # None => drops[i].target = read[i].cand
=============================================================================
