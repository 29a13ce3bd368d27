------------------------------ MODULE Quality -------------------------------
(***************************************************************************)
(* The data-quality card, its alerts and the release smoke check           *)
(* (src/internal/analytics/puzzle_quality*.go, puzzle_smoke_eval.go).      *)
(*                                                                         *)
(* Gameplay rows reach the event log in batches, late, in any order, more  *)
(* than once or with a row rejected.  A report is a sequence of separate   *)
(* queries, each on the log as it is at that moment; from the numbers come *)
(* a status, alerts, and the verdict of the 13-point smoke check.  The log *)
(* may grow between two queries: no transaction holds them together.       *)
(*                                                                         *)
(* A row keeps what the queries tell apart.  Every row is of one project,  *)
(* install and build and of kind product, the install is activated and the *)
(* build named (items 1 and 3 hold once there are rows); in says whether its effective    *)
(* time lies in the report's window.  Lists that are only shown (builds,   *)
(* rejections by name, distinct counts) are left out.                      *)
(***************************************************************************)
EXTENDS Integers, FiniteSets, FiniteSetsExt

CONSTANTS Batches,     \* a function: batch id -> set of rows
          Revisions,   \* content revisions that may be imported
          MinEvents,   \* minPlacementsForRate
          MaxFaults    \* bound: duplicate deliveries plus rejected rows

None == "none"      \* a property the row does not carry
Invalid == -1       \* an index that is not a number
Absent == -2        \* an index the row does not carry

VARIABLES log,        \* rows of the events table
          arrived,    \* batches delivered at least once
          dup, rej,   \* ingestion_stats: duplicate and rejected counts
          revs,       \* imported content revisions
          aged,       \* the newest row is older than lostThresholdHours
          pc,         \* the next query of the report, or "idle" / "done"
          q, c,       \* PuzzleQuality and smokeCounts so far
          atStart     \* history: the log when the report began

env == <<log, arrived, dup, rej, revs, aged>>
vars == <<log, arrived, dup, rej, revs, aged, pc, q, c, atStart>>

NoQuality == [rejected |-> 0, duplicate |-> 0, total |-> 0, v2 |-> 0, noVersion |-> 0,
              badVersion |-> 0, unknownRev |-> 0, badSpace |-> 0, seqGaps |-> 0, seqDups |-> 0,
              houseGaps |-> 0, houseDups |-> 0, tryGaps |-> 0, tryDups |-> 0, badIndex |-> 0,
              orphans |-> 0, badHash |-> 0, openRecent |-> 0, openStale |-> 0,
              unpairedCommands |-> 0, unpairedMutations |-> 0, slow |-> FALSE]

NoCounts == [natural |-> FALSE, evidence |-> FALSE, commands |-> FALSE, returns |-> 0]

Init == /\ log = {} /\ arrived = {} /\ dup = 0 /\ rej = 0 /\ revs = {} /\ aged = FALSE
        /\ pc = "idle" /\ q = NoQuality /\ c = NoCounts /\ atStart = {}

-----------------------------------------------------------------------------
(* The world: deliveries, imports and the passing of time.                 *)
Deliver(b) == /\ dup + rej + (IF b \in arrived THEN Cardinality(Batches[b]) ELSE 0) <= MaxFaults
              /\ log' = log \cup Batches[b] /\ arrived' = arrived \cup {b}
              /\ dup' = dup + Cardinality(Batches[b] \cap log)
              /\ UNCHANGED <<rej, revs, aged, pc, q, c, atStart>>

DeliverRejecting(b, r) ==
    /\ b \notin arrived /\ r \in Batches[b] /\ dup + rej < MaxFaults
    /\ log' = log \cup (Batches[b] \ {r}) /\ arrived' = arrived \cup {b} /\ rej' = rej + 1
    /\ UNCHANGED <<dup, revs, aged, pc, q, c, atStart>>

ImportRevision(v) == /\ v \notin revs /\ revs' = revs \cup {v}
                     /\ UNCHANGED <<log, arrived, dup, rej, aged, pc, q, c, atStart>>

Age == /\ ~aged /\ log # {} /\ aged' = TRUE
       /\ UNCHANGED <<log, arrived, dup, rej, revs, pc, q, c, atStart>>

-----------------------------------------------------------------------------
InWindow == {r \in log : r.in}
Num(P(_)) == Quantify(InWindow, P)

\* Wrong: only the rows of the window, also for an id that reaches beyond it.
RowsOfWindow(key, id) == {r \in InWindow : r[key] = id}

\* The ids a row in the window carries under key, and the rows of one id,
\* also those outside the window ("touched").
Touched(key) == {r[key] : r \in InWindow} \ {None}
RowsOf(key, id) == {r \in log : r[key] = id}

\* LAG() in index order: the row before holds the largest smaller index, or the
\* same one.  A first index has no predecessor.
Indexes(S, ix) == {r[ix] : r \in {r \in S : r[ix] >= 0}}
Prev(I, n) == Max({k \in I : k < n})

\* Wrong: an off-by-one, the index that ends a gap counts as missing too.
GapsOffByOne(I) == MapThenSumSet(LAMBDA n : IF Prev(I, n) < n - 1 THEN n - Prev(I, n) ELSE 0,
                                 {n \in I : \E k \in I : k < n})

GapsIn(I) == MapThenSumSet(LAMBDA n : n - Prev(I, n) - 1, {n \in I : \E k \in I : k < n})
RepeatsIn(S, ix) == MapThenSumSet(LAMBDA n : Quantify(S, LAMBDA r : r[ix] = n) - 1, Indexes(S, ix))

\* querySequenceIntegrity and queryPropertyIndexIntegrity: one partition per id.
Gaps(key, ix) == MapThenSumSet(LAMBDA id : GapsIn(Indexes(RowsOf(key, id), ix)), Touched(key))
Repeats(key, ix) == MapThenSumSet(LAMBDA id : RepeatsIn(RowsOf(key, id), ix), Touched(key))
BadIndexes(key, ix) == Quantify(UNION {RowsOf(key, id) : id \in Touched(key)},
                                LAMBDA r : r[ix] = Invalid)

Names(S) == {r.name : r \in S}
Placed(S) == \E r \in S : r.name = "placement_resolved" /\ r.outcome = "placed"

\* loadQualityOrphanInteractions: taken, not abandoned, and not carried through.
Orphan(S) == /\ "detail_taken" \in Names(S) /\ "interaction_abandoned" \notin Names(S)
             /\ ~ ( /\ {"detail_released", "placement_resolved"} \subseteq Names(S)
                    /\ (Placed(S) \/ "detail_returned" \in Names(S)) )

CommandEnds == {"developer_command_completed", "developer_command_failed", "developer_command_noop"}
Unpaired(S) == LET started == "developer_command_started" \in Names(S)
                   ended == Names(S) \cap CommandEnds # {}
               IN  started # ended
UnpairedMutation(S) == /\ "developer_progress_mutated" \in Names(S)
                       /\ "developer_command_started" \notin Names(S)

Open(key, terminal) == Quantify(Touched(key), LAMBDA id : Names(RowsOf(key, id)) \cap terminal = {})

\* PERCENTILE_CONT(0.9) of the delays exceeds ten seconds, every delay being
\* either far below or far above it.
SlowP90 == LET late == Num(LAMBDA r : r.late)
               all == Cardinality(InWindow)
           IN  late > 0 /\ 9 * (all - 1) > 10 * (all - late - 1)

-----------------------------------------------------------------------------
(* The queries of GetPuzzleQuality, in the order it issues them.           *)
StartReport == /\ pc \in {"idle", "done"}
               /\ pc' = "ingestion" /\ q' = NoQuality /\ c' = NoCounts /\ atStart' = log
               /\ UNCHANGED env

Load(here, then, val) == /\ pc = here /\ pc' = then /\ q' = val
                         /\ UNCHANGED <<c, atStart>> /\ UNCHANGED env

loadQualityIngestion ==
    Load("ingestion", "schema", [q EXCEPT !.duplicate = dup, !.rejected = rej])

loadQualitySchemaVersion ==
    Load("schema", "content",
         [q EXCEPT !.total = Cardinality(InWindow), !.v2 = Num(LAMBDA r : r.schema = "2"),
                   !.noVersion = Num(LAMBDA r : r.schema = None),
                   !.badVersion = Num(LAMBDA r : r.schema = "bad")])

loadQualityRevisionAndCoordinateSpace ==
    Load("content", "index",
         [q EXCEPT !.unknownRev = Num(LAMBDA r : r.rev # None /\ r.rev \notin revs),
                   !.badSpace = Num(LAMBDA r : /\ r.name \in {"placement_resolved", "detail_released"}
                                               /\ r.space # "house_local")])

loadQualityIndexIntegrity ==
    Load("index", "chains",
         [q EXCEPT !.seqGaps = Gaps("session", "seq"), !.seqDups = Repeats("session", "seq"),
                   !.houseGaps = Gaps("run", "hidx"), !.houseDups = Repeats("run", "hidx"),
                   !.tryGaps = Gaps("attempt", "aidx"), !.tryDups = Repeats("attempt", "aidx"),
                   !.badIndex = BadIndexes("run", "hidx") + BadIndexes("attempt", "aidx")])

loadQualityInteractionAndCheckpointIntegrity ==
    Load("chains", "open",
         [q EXCEPT !.orphans = Quantify(Touched("inter"), LAMBDA id : Orphan(RowsOf("inter", id))),
                   !.badHash = Num(LAMBDA r : r.name = "state_checkpoint" /\ ~r.hashOK)])

loadQualityRecoveredAndOpenRuns ==
    LET left == Open("run", {"house_completed"})
                + Open("attempt", {"wave_completed", "house_completed", "attempt_closed"})
    IN  Load("open", "developer", [q EXCEPT !.openRecent = IF aged THEN 0 ELSE left,
                                            !.openStale = IF aged THEN left ELSE 0])

loadQualityDeveloperPairing ==
    Load("developer", "delay",
         [q EXCEPT !.unpairedCommands = Quantify(Touched("act"), LAMBDA id : Unpaired(RowsOf("act", id))),
                   !.unpairedMutations =
                       Quantify(Touched("act"), LAMBDA id : UnpairedMutation(RowsOf("act", id)))])

loadQualityDeliveryDelay == Load("delay", "counts", [q EXCEPT !.slow = SlowP90])

-----------------------------------------------------------------------------
(* computeStatus: red, grey, amber and green, in this order.               *)

\* Wrong: interaction chains without an end do not count.
RedForgetsOrphans(v) ==
    {k \in {"rejected", "unknownRev", "badSpace", "seqGaps", "seqDups", "badHash", "openStale"} : v[k] > 0}

RedReasons(v) ==
    {k \in {"rejected", "unknownRev", "badSpace", "seqGaps", "seqDups", "houseGaps", "houseDups",
            "tryGaps", "tryDups", "badVersion", "badIndex", "orphans", "badHash",
            "unpairedCommands", "unpairedMutations", "openStale"} : v[k] > 0}

Amber(v) == \/ v.total < MinEvents \/ v.openRecent > 0 \/ v.noVersion > 0
            \/ v.v2 < v.total - v.noVersion

Status(v) == CASE RedReasons(v) # {} -> "red"
               [] v.total = 0        -> "grey"
               [] Amber(v)           -> "amber"
               [] OTHER              -> "green"

(* ComputeQualityAlerts: the alerts marked critical, and the warnings.     *)
Critical(v) ==
    {k \in {"rejected", "unknownRev", "badSpace", "seqGaps", "seqDups", "houseGaps", "houseDups",
            "tryGaps", "tryDups", "orphans", "badHash", "unpairedCommands", "unpairedMutations"} :
        v[k] > 0}
LowV2Share(v) == v.v2 * 100 < 95 * v.total
Warnings(v) == {k \in {"schema_share_drop", "missing_schema_version", "delivery_delay_anomaly"} :
                  CASE k = "schema_share_drop" -> v.total > 0 /\ LowV2Share(v)
                    [] k = "missing_schema_version" -> v.noVersion > 0
                    [] OTHER -> v.slow}

-----------------------------------------------------------------------------
(* The smoke check reads its own counts after the quality report, and the  *)
(* natural metrics after those.                                            *)
Named(name) == Num(LAMBDA r : r.name = name)
Fell(outcome) == Num(LAMBDA r : r.name = "placement_resolved" /\ r.outcome = outcome)

querySmokeEventCounts ==
    /\ pc = "counts" /\ pc' = "natural"
    /\ c' = [c EXCEPT
         !.evidence = /\ Named("house_run_started") > 0 /\ Named("wave_attempt_started") > 0
                      /\ Num(LAMBDA r : r.name \in {"wave_completed", "house_completed"} /\ r.natural) > 0
                      /\ Fell("fell_no_snap_target") > 0 /\ Fell("fell_missing_support") > 0
                      /\ Named("app_backgrounded") > 0 /\ Named("app_foregrounded") > 0
                      /\ Named("attempt_recovered") > 0,
         !.commands = /\ Named("developer_command_started") >= 2
                      /\ Named("developer_progress_mutated") >= 2
                      /\ Num(LAMBDA r : r.name \in CommandEnds) >= 2,
         !.returns = Named("detail_returned")]
    /\ UNCHANGED <<q, atStart>> /\ UNCHANGED env

\* checkNaturalMetricsIgnoreCheats: a natural run completed, a completing and a
\* resetting command, and a run the classification view marks as touched.
Natural(id) == \A r \in RowsOf("run", id) : r.natural
checkNaturalMetricsIgnoreCheats ==
    /\ pc = "natural" /\ pc' = "done"
    /\ c' = [c EXCEPT !.natural =
         /\ \E id \in Touched("run") : Natural(id) /\ "house_completed" \in Names(RowsOf("run", id))
         /\ \A kind \in {"reset", "complete"} :
               \E r \in InWindow : r.name = "developer_command_completed" /\ r.outcome = kind
         /\ \E id \in Touched("run") : ~Natural(id)]
    /\ UNCHANGED <<q, atStart>> /\ UNCHANGED env

\* Items 2, 7, 10, 11 and 12 of evalItems*: what the quality numbers must say.

Clean(v) ==
    /\ v.total > 0 /\ ~LowV2Share(v)
    /\ \A k \in {"seqGaps", "seqDups", "badIndex", "orphans", "unpairedCommands",
                 "unpairedMutations", "rejected", "unknownRev", "badSpace", "badHash",
                 "houseGaps", "houseDups", "tryGaps", "tryDups", "noVersion", "badVersion",
                 "duplicate"} : v[k] = 0

Passed == pc = "done" /\ Clean(q) /\ c.evidence /\ c.commands /\ c.returns > 0 /\ c.natural

Next == \/ \E b \in DOMAIN Batches : Deliver(b) \/ \E r \in Batches[b] : DeliverRejecting(b, r)
        \/ \E v \in Revisions : ImportRevision(v)
        \/ Age \/ StartReport \/ loadQualityIngestion \/ loadQualitySchemaVersion
        \/ loadQualityRevisionAndCoordinateSpace \/ loadQualityIndexIntegrity
        \/ loadQualityInteractionAndCheckpointIntegrity \/ loadQualityRecoveredAndOpenRuns
        \/ loadQualityDeveloperPairing \/ loadQualityDeliveryDelay
        \/ querySmokeEventCounts \/ checkNaturalMetricsIgnoreCheats

Spec == Init /\ [][Next]_vars

-----------------------------------------------------------------------------
(* The gap and duplicate counts of the window-function queries are exactly  *)
(* the indexes missing between the first and the last one received, and the *)
(* rows beyond one per index, session by session and attempt by attempt.    *)
GapsAreMissingIndexes ==
    \A k \in {<<"session", "seq">>, <<"run", "hidx">>, <<"attempt", "aidx">>} :
        \A id \in Touched(k[1]) :
            LET rows == {r \in RowsOf(k[1], id) : r[k[2]] >= 0}
                have == {r[k[2]] : r \in rows}
            IN  have # {} =>
                  /\ GapsIn(have) = Cardinality((Min(have)..Max(have)) \ have)
                  /\ RepeatsIn(rows, k[2]) = Cardinality(rows) - Cardinality(have)

(* Late or reordered delivery is not a failure: a report that begins        *)
(* when every batch of a clean game is in the log, nothing rejected and its *)
(* revision imported, is red at most for runs left open too long.           *)
LateDeliveryIsNotRed ==
    pc \in {"counts", "natural", "done"} /\ rej = 0 /\ q.unknownRev = 0
       /\ atStart = UNION {Batches[b] : b \in DOMAIN Batches}
    => RedReasons(q) \subseteq {"openStale"}

(* The three verdicts agree: a critical alert means a red card, a passing   *)
(* smoke check raises no critical alert and no warning but a slow delivery, *)
(* and if the card of a passing build is red it is for stale runs alone.    *)
VerdictsAgree ==
    pc = "done" => /\ Critical(q) # {} => Status(q) = "red"
                   /\ Passed => Critical(q) = {} /\ Warnings(q) \subseteq {"delivery_delay_anomaly"}
                   /\ Passed /\ Status(q) = "red" => RedReasons(q) = {"openStale"}
=============================================================================
