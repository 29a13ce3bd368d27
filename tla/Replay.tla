------------------------------- MODULE Replay -------------------------------
(***************************************************************************)
(* One attempt played back step by step, and the attempt table it mirrors  *)
(* (src/internal/analytics/puzzle_replay.go, puzzle_attempt.go).           *)
(*                                                                         *)
(* The rows of the attempt are read in index order, rows without a numeric *)
(* index last, up to a limit; the catalogue of the attempt's revision is   *)
(* loaded while administrators may import another; then each row becomes a *)
(* step that carries the house as it stands.  Coordinates, names and times *)
(* are left out.                                                           *)
(***************************************************************************)
EXTENDS Integers, Sequences, FiniteSets, FiniteSetsExt, TLC

CONSTANTS Shapes,      \* the rows the attempt may have, but for their index
          MaxIndex, MaxRows,    \* bounds on the rows enumerated
          Limit,       \* 10000 in the code
          Revisions,
          Groups       \* [Revisions -> [Targets -> SUBSET SUBSET Blocks]]: the placement rules

Missing == -1     \* no attempt_event_index
Malformed == -2   \* one that is not a number: sorted last, read as 0
NoIds == {-1}     \* placed_block_ids is not in the row
NoRevision == ""

VARIABLES pc, rows, revision, truncated,   \* GameplayAttempt
          imported,                        \* puzzle_content_revisions, oldest first
          catalog, fallback,               \* the revision resolved against
          steps,                           \* PuzzleReplay.Steps
          standing, open, last, figures,   \* installed, openInteractions, lastEventIndex
          table                            \* GetGameplayAttempt: the set standing, the groups shown

vars == <<pc, rows, revision, truncated, imported, catalog, fallback, steps, standing, open, last,
          figures, table>>
attempt == <<rows, revision, truncated>>
resolved == <<catalog, fallback>>
fold == <<steps, standing, open, last, figures, table>>

Init == /\ pc = "load" /\ rows = <<>> /\ revision = NoRevision /\ truncated = FALSE
        /\ imported = <<>> /\ catalog = NoRevision /\ fallback = FALSE
        /\ steps = <<>> /\ standing = {} /\ open = {} /\ last = -1
        /\ figures = [gaps |-> 0, dups |-> 0, hashes |-> 0]
        /\ table = [standing |-> {}, groups |-> <<>>]

Known(v) == \E i \in DOMAIN imported : imported[i] = v

ImportRevision(v) == /\ ~Known(v) /\ imported' = Append(imported, v)
                     /\ UNCHANGED <<pc, attempt, resolved, fold>>

-----------------------------------------------------------------------------
(* loadGameplayAttemptEvents: one row more than the limit is read.          *)
SortKey(e) == IF e.idx >= 0 THEN e.idx ELSE MaxIndex + 1

Read(e) == /\ pc = "load" /\ Len(rows) < MaxRows /\ Len(rows) <= Limit
           /\ rows # <<>> => SortKey(rows[Len(rows)]) <= SortKey(e)
           /\ rows' = Append(rows, e)
           /\ revision' = IF revision = NoRevision THEN e.rev ELSE revision
           /\ UNCHANGED <<pc, truncated, imported, resolved, fold>>

EndOfRows == /\ pc = "load" /\ rows # <<>> /\ pc' = "catalog"
             /\ truncated' = (Len(rows) > Limit)
             /\ rows' = SubSeq(rows, 1, Min({Limit, Len(rows)}))
             /\ UNCHANGED <<revision, imported, resolved, fold>>

UsesSchemaV2 == \E i \in DOMAIN rows : rows[i].v2

\* Wrong: every replay may fall back on the newest catalogue.
FallbackAlways == /\ pc = "catalog" /\ ~Known(revision)
                  /\ pc' = "latest"
                  /\ UNCHANGED <<attempt, imported, resolved, fold>>

(* loadReplayCatalog: the attempt's own revision; for a schema-v2 attempt   *)
(* nothing else, for a legacy one the newest imported, in a second query.   *)
LoadOwn == /\ pc = "catalog" /\ Known(revision)
           /\ pc' = "fold" /\ catalog' = revision
           /\ UNCHANGED <<attempt, imported, fallback, fold>>

LoadUnknown == /\ pc = "catalog" /\ ~Known(revision)
               /\ pc' = IF UsesSchemaV2 THEN "conflict" ELSE "latest"
               /\ UNCHANGED <<attempt, imported, resolved, fold>>

LoadLatest == /\ pc = "latest" /\ pc' = "fold" /\ fallback' = TRUE
              /\ catalog' = IF imported = <<>> THEN NoRevision ELSE imported[Len(imported)]
              /\ UNCHANGED <<attempt, imported, fold>>

-----------------------------------------------------------------------------
(* buildReplay: one row at a time.                                          *)
Number(i) == IF i = Malformed THEN 0 ELSE i

\* Wrong: an index the row does not carry is compared as well.
SequenceCountsMissing(f, i) ==
    [f EXCEPT !.dups = IF i = last THEN @ + 1 ELSE @,
              !.gaps = IF last >= 0 /\ i > last + 1 THEN @ + i - last ELSE @]

updateReplaySequence(f, i) ==
    [f EXCEPT !.dups = IF i >= 0 /\ i = last THEN @ + 1 ELSE @,
              !.gaps = IF last >= 0 /\ i > last + 1 THEN @ + i - last - 1 ELSE @]

Closes(e) == \/ e.name \in {"detail_returned", "interaction_abandoned"}
             \/ e.name = "placement_resolved" /\ e.outcome = "placed"

\* Wrong: a fall ends the interaction too.
InteractionEndsOnFall(e) ==
    IF e.name = "detail_taken" THEN open \cup {e.inter}
    ELSE IF Closes(e) \/ e.name = "placement_resolved" THEN open \ {e.inter} ELSE open

updateReplayInteraction(e) ==
    CASE e.inter = ""             -> open
      [] e.name = "detail_taken"  -> open \cup {e.inter}
      [] Closes(e)                -> open \ {e.inter}
      [] OTHER                    -> open

\* missingGroups: what each alternative of the target's rule still lacks.
missingGroups(v, target, have) ==
    IF v = NoRevision \/ target \notin DOMAIN Groups[v] THEN {}
    ELSE {g \ have : g \in Groups[v][target]}

\* The set before the verdict, as a placement reports it.
ReplayBase(e) == IF e.ids \notin {NoIds, {}} THEN e.ids ELSE standing

\* Wrong: the table carries the blocks on although the row reports them.
TableBaseCarried(e, S) == S

TableBase(e, S) == IF e.ids # NoIds THEN e.ids ELSE S

Verdict(e, S) == CASE e.outcome = "placed"   -> S \cup {e.block}
                   [] e.outcome = "returned" -> S \ {e.block}
                   [] OTHER                  -> S

\* Wrong: a checkpoint adds to the house instead of replacing it.
CheckpointAdds(e) ==
    CASE e.name = "placement_resolved" -> Verdict(e, ReplayBase(e))
      [] e.name = "state_checkpoint" /\ e.ids # NoIds -> standing \cup e.ids
      [] OTHER -> standing

applyReplayEvent(e) ==
    CASE e.name = "placement_resolved" -> Verdict(e, ReplayBase(e))
      [] e.name = "state_checkpoint" /\ e.ids # NoIds -> e.ids
      [] OTHER -> standing

\* populateMissingSupportGroups and applyPlacementState, the attempt table.
applyPlacementState(e) ==
    CASE e.name = "placement_resolved" -> Verdict(e, TableBase(e, table.standing))
      [] e.name = "state_checkpoint" -> TableBase(e, table.standing)
      [] OTHER -> table.standing

Shown(v, e, base) == IF e.name = "placement_resolved" THEN missingGroups(v, e.target, base) ELSE {}

\* GetGameplayAttempt has no fallback: without its own revision it shows no groups.
TableCatalog == IF fallback THEN NoRevision ELSE catalog

Step == /\ pc = "fold" /\ Len(steps) < Len(rows)
        /\ LET e == rows[Len(steps) + 1]
               i == Number(e.idx)
           IN  /\ figures' = [updateReplaySequence(figures, i) EXCEPT
                    !.hashes = IF e.name = "state_checkpoint" /\ e.ids # NoIds /\ ~e.hashOK
                               THEN @ + 1 ELSE @]
               /\ last' = IF i < 0 THEN last ELSE i
               /\ open' = updateReplayInteraction(e)
               /\ standing' = applyReplayEvent(e)
               /\ steps' = Append(steps, [placed |-> standing', missing |-> Shown(catalog, e, ReplayBase(e))])
               /\ table' = [standing |-> applyPlacementState(e),
                            groups |-> Append(table.groups,
                                             Shown(TableCatalog, e, TableBase(e, table.standing)))]
        /\ UNCHANGED <<pc, attempt, imported, resolved>>

Done == /\ pc = "fold" /\ Len(steps) = Len(rows) /\ pc' = "done"
        /\ UNCHANGED <<attempt, imported, resolved, fold>>

Next == \/ \E s \in Shapes, i \in {Malformed, Missing} \cup (0..MaxIndex) : Read([idx |-> i] @@ s)
        \/ EndOfRows \/ LoadOwn \/ LoadUnknown \/ LoadLatest \/ Step \/ Done
        \/ \E v \in Revisions : ImportRevision(v)

Spec == Init /\ [][Next]_vars

-----------------------------------------------------------------------------
Indexes == {rows[i].idx : i \in {j \in DOMAIN rows : rows[j].idx >= 0}}

(* The running comparison with the previous index finds exactly the indexes *)
(* missing from the attempt and, malformed ones aside, the repeated rows.   *)
GapsAreExact ==
    pc = "done" =>
        LET I == Indexes IN
        /\ I # {} => figures.gaps = Cardinality((Min(I)..Max(I)) \ I)
        /\ (\A j \in DOMAIN rows : rows[j].idx # Malformed) =>
              figures.dups = Quantify(DOMAIN rows, LAMBDA j : rows[j].idx >= 0) - Cardinality(I)

(* Each step's house is the last one the client reported (a checkpoint, or  *)
(* a placement that names the blocks standing) with the verdicts since; the *)
(* steps already emitted are snapshots, later rows do not change them.      *)
Reports(e) == \/ e.name = "state_checkpoint" /\ e.ids # NoIds
              \/ e.name = "placement_resolved" /\ e.ids \notin {NoIds, {}}
HouseIsReportedPlusVerdicts ==
    \A n \in DOMAIN steps : \A b \in UNION {e.ids \cup {e.block} : e \in Shapes} \ NoIds :
        LET by(j) == /\ rows[j].name = "placement_resolved" /\ rows[j].block = b
                     /\ rows[j].outcome \in {"placed", "returned"}
            turns == {j \in 1..n : by(j) \/ Reports(rows[j])}
        IN  b \in steps[n].placed <=>
              turns # {} /\ LET j == Max(turns)
                            IN  IF by(j) THEN rows[j].outcome = "placed" ELSE b \in rows[j].ids

(* An interaction is reported as an orphan exactly when a take of it has no *)
(* terminal event (a return, an abandonment, a successful placement; not a  *)
(* fall) after it in the attempt (updateReplayInteraction).                 *)
OrphansAreOpenTakes ==
    pc = "done" =>
        open = {rows[j].inter : j \in {k \in DOMAIN rows :
                  /\ rows[k].name = "detail_taken" /\ rows[k].inter # ""
                  /\ \A m \in k..Len(rows) : rows[m].inter = rows[k].inter => ~Closes(rows[m])}}

(* A schema-v2 attempt is never resolved against a catalogue other than its *)
(* own revision's, whatever is imported meanwhile; a legacy one that is     *)
(* says so (loadReplayCatalog).                                             *)
OwnCatalogOrSaysSo ==
    pc \in {"fold", "done"} => \/ catalog = revision /\ Known(revision)
                               \/ fallback /\ ~UsesSchemaV2

(* applyReplayPlacement "mirrors applyPlacementState": where both resolve   *)
(* the attempt's own revision, the replay and the attempt table show the    *)
(* same missing supports, up to the first placement that reports an empty   *)
(* house, which only the table takes at its word.                           *)
MirrorsAttemptTable ==
    ~fallback => \A n \in DOMAIN steps :
        \/ \E j \in 1..n : rows[j].name = "placement_resolved" /\ rows[j].ids = {}
        \/ steps[n].missing = table.groups[n]
=============================================================================
