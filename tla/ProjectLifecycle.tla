-------------------------- MODULE ProjectLifecycle --------------------------
(***************************************************************************)
(* One project from creation over archive and restore to its permanent     *)
(* removal: owners whose purge transactions delete one table after the     *)
(* other, while registrations, batches, statistics and administrators go   *)
(* on writing to those tables.                                             *)
(*                                                                         *)
(* A table is in rows while it holds a committed row of the project.  Row  *)
(* locks matter on the project's row, which an insert into a table that    *)
(* references projects locks for key share, and on the existing rows that  *)
(* a writer updates.  Two writers need not be of one installation, and     *)
(* never wait for each other here.                                         *)
(***************************************************************************)
EXTENDS Naturals, Sequences, FiniteSets

CONSTANTS
    Owners,    \* owners' purge requests running at the same time
    Writers,   \* SDK requests running at the same time
    InUse      \* those of AdminTables that the project has rows in

\* projectPurgeQueries, in order.
PurgeQueries ==
    <<"event_rejection_occurrences", "ingestion_stats", "daily_registration_counters",
      "client_policy_rules", "event_catalog", "events", "installations",
      "admin_user_projects", "admin_audit_log", "projects">>

\* Tables with a foreign key to projects, over all migrations.
References ==
    {"installations", "event_catalog", "client_policy_rules", "admin_user_projects",
     "daily_registration_counters", "ingestion_stats", "puzzle_content_revisions",
     "event_rejection_stats", "event_property_drift", "event_rejection_occurrences"}

Tables == References \cup {"events", "admin_audit_log"}

\* What Batch writes after its commit, each in a statement of its own;
\* Register writes the first.
AfterCommit ==
    <<"admin_audit_log", "ingestion_stats", "event_rejection_occurrences",
      "event_rejection_stats", "event_property_drift">>

\* Tables written by administrators, and by the puzzle catalog import.
AdminTables == {"client_policy_rules", "admin_user_projects", "puzzle_content_revisions"}

ASSUME InUseAssumption == InUse \subseteq AdminTables

VARIABLES
    project,   \* "absent", "active", "archived" or "purged"
    rows,      \* tables with committed rows of the project
    auditing,  \* an archive or restore has yet to write its audit row
    purge,     \* the owners' purge transactions
    writer     \* the SDK requests

vars == <<project, rows, auditing, purge, writer>>

\* step: the purge query to run next; cleared: tables whose committed rows
\* this transaction has deleted.
IdlePurge == [pc |-> "idle", step |-> 1, cleared |-> {}]

\* step, last: the statement after the commit to run next, and the last one;
\* key: holds the project's row for key share; held: tables of existing rows
\* it has locked; wrote: tables it has new rows in.
IdleWriter == [pc |-> "idle", step |-> 1, last |-> 1, key |-> FALSE, held |-> {}, wrote |-> {}]

PurgeType ==
    [pc : {"idle", "lock", "delete", "commit"},
     step : 1..Len(PurgeQueries), cleared : SUBSET Tables]

WriterType ==
    [pc : {"idle", "register", "install", "update", "event", "catalog", "commit", "after"},
     step : 1..Len(AfterCommit), last : {1, Len(AfterCommit)}, key : BOOLEAN,
     held : SUBSET Tables, wrote : SUBSET Tables]

TypeOK ==
    /\ project \in {"absent", "active", "archived", "purged"}
    /\ rows \subseteq Tables /\ auditing \in BOOLEAN
    /\ purge \in [Owners -> PurgeType]
    /\ writer \in [Writers -> WriterType]

Init ==
    /\ project = "absent" /\ rows = {} /\ auditing = FALSE
    /\ purge = [o \in Owners |-> IdlePurge]
    /\ writer = [w \in Writers |-> IdleWriter]

(***************************************************************************)
(* Locks.                                                                  *)
(***************************************************************************)

\* Wrong: the purge reads archived_at without FOR UPDATE.
HoldsProjectUnlocked(o) == FALSE

\* SELECT ... FOR UPDATE of the purge, until its transaction ends.
HoldsProject(o) == purge[o].pc \in {"delete", "commit"}

ProjectFree == \A o \in Owners : ~HoldsProject(o)

\* There is a row to lock, and no open purge has deleted it.
Lockable(t) == t \in rows /\ \A o \in Owners : t \notin purge[o].cleared

SetPurge(o, p) == purge' = [purge EXCEPT ![o] = p]
SetWriter(w, x) == writer' = [writer EXCEPT ![w] = x]

(***************************************************************************)
(* Owners.                                                                 *)
(***************************************************************************)

\* The project and its audit row in one transaction.
CreateProject ==
    /\ project = "absent" /\ project' = "active"
    /\ rows' = {"admin_audit_log"}
    /\ UNCHANGED <<auditing, purge, writer>>

\* One UPDATE each; it waits for a purge, but not for key share locks.
ArchiveState(from, to) ==
    /\ project = from /\ ProjectFree /\ project' = to
    /\ auditing' = TRUE
    /\ UNCHANGED <<rows, purge, writer>>

HandleProjectArchive == ArchiveState("active", "archived")
HandleProjectRestore == ArchiveState("archived", "active")

\* Rows committed after a DELETE are not among those it cleared.
Store(T) ==
    /\ rows' = rows \cup T
    /\ purge' = [o \in Owners |-> [purge[o] EXCEPT !.cleared = @ \ T]]

\* The audit row comes in a statement of its own, whose error is ignored.
AuditArchiveState ==
    /\ auditing /\ auditing' = FALSE
    /\ Store({"admin_audit_log"}) \/ UNCHANGED <<rows, purge>>
    /\ UNCHANGED <<project, writer>>

HandleProjectPurge(o) ==
    /\ project # "absent" /\ purge[o].pc = "idle"
    /\ SetPurge(o, [IdlePurge EXCEPT !.pc = "lock"])
    /\ UNCHANGED <<project, rows, auditing, writer>>

\* Wrong: purges whatever state the project is in.
PurgeLockAnyState(o) ==
    /\ purge[o].pc = "lock" /\ ProjectFree /\ \A w \in Writers : ~writer[w].key
    /\ SetPurge(o, IF project # "purged" THEN [IdlePurge EXCEPT !.pc = "delete"] ELSE IdlePurge)
    /\ UNCHANGED <<project, rows, auditing, writer>>

\* purgeProject up to its check: no row, or not archived, is a 400.
PurgeLock(o) ==
    /\ purge[o].pc = "lock"
    /\ ProjectFree
    /\ \A w \in Writers : ~writer[w].key
    /\ SetPurge(o, IF project = "archived" THEN [IdlePurge EXCEPT !.pc = "delete"] ELSE IdlePurge)
    /\ UNCHANGED <<project, rows, auditing, writer>>

\* Tables that still hold rows as the purge's statements see them.
Left(o) == rows \ purge[o].cleared

\* Rows that forbid deleting from table t.
Blocking(o, t) ==
    CASE t = "installations" -> Left(o) \cap {"events"}
      [] t = "projects" -> Left(o) \cap References
      [] OTHER -> {}

\* The next DELETE, which a foreign key may fail: then all is rolled back.
PurgeDelete(o) ==
    LET t == PurgeQueries[purge[o].step] IN
    /\ purge[o].pc = "delete"
    /\ \A w \in Writers : t \notin writer[w].held
    /\ SetPurge(o,
          IF Blocking(o, t) # {} THEN IdlePurge
          ELSE IF t = "projects" THEN [purge[o] EXCEPT !.pc = "commit"]
          ELSE [purge[o] EXCEPT !.step = @ + 1, !.cleared = @ \cup (rows \cap {t})])
    /\ UNCHANGED <<project, rows, auditing, writer>>

PurgeCommit(o) ==
    /\ purge[o].pc = "commit"
    /\ project' = "purged"
    /\ rows' = Left(o)
    /\ SetPurge(o, IdlePurge)
    /\ UNCHANGED <<auditing, writer>>

\* A statement fails, or the owner's disconnect cancels it.
PurgeFails(o) ==
    /\ purge[o].pc # "idle"
    /\ SetPurge(o, IdlePurge)
    /\ UNCHANGED <<project, rows, auditing, writer>>

(***************************************************************************)
(* Writers.                                                                *)
(***************************************************************************)

\* registrationEnvironment finds the project enabled.
Register(w) ==
    /\ writer[w].pc = "idle" /\ project = "active"
    /\ SetWriter(w, [IdleWriter EXCEPT !.pc = "register"])
    /\ UNCHANGED <<project, rows, auditing, purge>>

\* createOrVerifyInstallation finds the row, and locks it.
VerifyInstallation(w) ==
    /\ writer[w].pc = "register" /\ Lockable("installations")
    /\ SetWriter(w, [writer[w] EXCEPT !.pc = "commit", !.held = {"installations"}])
    /\ UNCHANGED <<project, rows, auditing, purge>>

\* An insert that references the project: fails once there is none.
InsertReferencing(w, t, next) ==
    /\ ProjectFree
    /\ SetWriter(w, IF project = "purged" THEN IdleWriter
                    ELSE [writer[w] EXCEPT !.pc = next, !.key = TRUE, !.wrote = @ \cup {t}])

\* An upsert that finds its row locks that and leaves the project alone.
Upsert(w, t, next) ==
    \/ InsertReferencing(w, t, next)
    \/ Lockable(t) /\ SetWriter(w, [writer[w] EXCEPT !.pc = next, !.held = @ \cup {t}])

UpsertCounter(w) ==
    /\ writer[w].pc = "register"
    /\ Upsert(w, "daily_registration_counters", "install")
    /\ UNCHANGED <<project, rows, auditing, purge>>

InsertInstallation(w) ==
    /\ writer[w].pc = "install"
    /\ InsertReferencing(w, "installations", "commit")
    /\ UNCHANGED <<project, rows, auditing, purge>>

\* authorizeBatch reads the committed rows, before the transaction, which a
\* batch with nothing to store does without.
AuthorizeBatch(w) ==
    /\ writer[w].pc = "idle" /\ project = "active" /\ "installations" \in rows
    /\ \E next \in {"update", "after"} :
          SetWriter(w, [IdleWriter EXCEPT !.pc = next, !.last = Len(AfterCommit)])
    /\ UNCHANGED <<project, rows, auditing, purge>>

\* A row that is gone is not an error here.
UpdateBatchInstallation(w) ==
    /\ writer[w].pc = "update"
    /\ "installations" \in rows => Lockable("installations")
    /\ SetWriter(w, [writer[w] EXCEPT !.pc = "event", !.held = rows \cap {"installations"}])
    /\ UNCHANGED <<project, rows, auditing, purge>>

\* The event references the installation, not the project.  Without its
\* installation the batch fails; a strict project's batch, or one of system
\* events, leaves the catalog alone, and one of duplicates stores nothing.
InsertPreparedEvent(w) ==
    /\ writer[w].pc = "event"
    /\ "installations" \in rows => Lockable("installations")
    /\ \/ "installations" \notin rows /\ SetWriter(w, IdleWriter)
       \/ /\ "installations" \in rows
          /\ \E next \in {"catalog", "commit"} :
                SetWriter(w, [writer[w] EXCEPT !.pc = next, !.held = {"installations"},
                                               !.wrote = {"events"}])
       \/ "events" \in rows /\ SetWriter(w, [writer[w] EXCEPT !.pc = "commit"])
    /\ UNCHANGED <<project, rows, auditing, purge>>

TrackProductEvent(w) ==
    /\ writer[w].pc = "catalog"
    /\ Upsert(w, "event_catalog", "commit")
    /\ UNCHANGED <<project, rows, auditing, purge>>

WriterCommit(w) ==
    /\ writer[w].pc = "commit"
    /\ Store(writer[w].wrote)
    /\ SetWriter(w, [IdleWriter EXCEPT !.pc = "after", !.last = writer[w].last])
    /\ UNCHANGED <<project, auditing>>

\* MatchPolicyAudited and the statistics of a batch.  A statement may have
\* nothing to record or find its row there; ingestion_stats gets a new one
\* from every batch, and the audit log references no project.
WriteAfterCommit(w) ==
    LET t == AfterCommit[writer[w].step]
        next == IF writer[w].step = writer[w].last THEN IdleWriter
                ELSE [writer[w] EXCEPT !.step = @ + 1]
    IN
    /\ writer[w].pc = "after"
    /\ \/ /\ t # "ingestion_stats"
          /\ SetWriter(w, next) /\ UNCHANGED <<rows, purge>>
       \/ /\ t \in References /\ ProjectFree /\ project = "purged"
          /\ SetWriter(w, IdleWriter) /\ UNCHANGED <<rows, purge>>
       \/ /\ t \in References => ProjectFree /\ project # "purged"
          /\ SetWriter(w, next) /\ Store({t})
    /\ UNCHANGED <<project, auditing>>

\* An administrator's or an import's insert that references the project.
AdminWrite(t) ==
    /\ t \notin rows
    /\ project \in {"active", "archived"} /\ ProjectFree
    /\ Store({t})
    /\ UNCHANGED <<project, auditing, writer>>

WriterFails(w) ==
    /\ writer[w].pc # "idle"
    /\ SetWriter(w, IdleWriter)
    /\ UNCHANGED <<project, rows, auditing, purge>>

(***************************************************************************)
(* A request that holds a row the purge must delete and needs the project, *)
(* and a purge that holds the project and needs that row, wait for each    *)
(* other.                                                                  *)
(***************************************************************************)

Deadlocked(o, w) ==
    /\ purge[o].pc = "delete" /\ PurgeQueries[purge[o].step] \in writer[w].held
    /\ writer[w].pc \in {"install", "catalog"}

\* Wrong: PostgreSQL's deadlock check never fires.
AbortDeadlockNever(o, w) == FALSE /\ UNCHANGED vars

AbortDeadlock(o, w) ==
    /\ Deadlocked(o, w)
    /\ \/ SetPurge(o, IdlePurge) /\ UNCHANGED writer
       \/ SetWriter(w, IdleWriter) /\ UNCHANGED purge
    /\ UNCHANGED <<project, rows, auditing>>

Crash ==
    /\ auditing' = FALSE
    /\ purge' = [o \in Owners |-> IdlePurge]
    /\ writer' = [w \in Writers |-> IdleWriter]
    /\ UNCHANGED <<project, rows>>

(***************************************************************************)
(* Specification.                                                          *)
(***************************************************************************)

PurgeStep(o) == PurgeLock(o) \/ PurgeDelete(o) \/ PurgeCommit(o)

WriterStep(w) ==
    \/ VerifyInstallation(w) \/ UpsertCounter(w) \/ InsertInstallation(w)
    \/ UpdateBatchInstallation(w) \/ InsertPreparedEvent(w) \/ TrackProductEvent(w)
    \/ WriterCommit(w) \/ WriteAfterCommit(w)

Abort == \E o \in Owners, w \in Writers : AbortDeadlock(o, w)

Next ==
    \/ CreateProject \/ HandleProjectArchive \/ HandleProjectRestore \/ AuditArchiveState
    \/ \E o \in Owners : HandleProjectPurge(o) \/ PurgeStep(o) \/ PurgeFails(o)
    \/ \E w \in Writers : Register(w) \/ AuthorizeBatch(w) \/ WriterStep(w) \/ WriterFails(w)
    \/ \E t \in InUse : AdminWrite(t)
    \/ Abort \/ Crash

\* Go runs every handler; PostgreSQL looks for deadlocks.
Fairness ==
    /\ \A o \in Owners : WF_vars(PurgeStep(o))
    /\ \A w \in Writers : WF_vars(WriterStep(w))
    /\ WF_vars(Abort)

Spec == Init /\ [][Next]_vars /\ Fairness

(***************************************************************************)
(* Properties.                                                             *)
(***************************************************************************)

\* Once a project is purged no table but the audit log holds a row of it,
\* although batches and registrations admitted before it was archived may
\* still be inserting.  Audit rows are written outside any transaction and
\* reference no project, so a late one may come after the purge.
NothingLeftBehind == project = "purged" => rows \subseteq {"admin_audit_log"}

\* A project is only ever removed from the archive: a restore that races the
\* purge's check either comes first and stops it, or waits and finds nothing.
PurgedFromArchive ==
    [][project' = "purged" => project \in {"archived", "purged"}]_vars

\* A purge that has the project's lock ends, whatever transactions hold the
\* installation it must delete.
PurgeEnds ==
    \A o \in Owners : purge[o].pc \in {"delete", "commit"} ~> purge[o].pc = "idle"

\* What access-control.md promises of DELETE /api/v1/projects/{id}: when the
\* purge comes to the project's row, nothing is left that refers to it.
PurgeRemovesAllData ==
    \A o \in Owners :
        purge[o].pc = "delete" /\ PurgeQueries[purge[o].step] = "projects" =>
            Left(o) \cap References = {}

(***************************************************************************)
(* The inductive invariant.                                                *)
(***************************************************************************)

\* One purge at a time has the project, and then no writer has it too.
PurgeInv ==
    /\ \A o, p \in Owners : HoldsProject(o) /\ HoldsProject(p) => o = p
    /\ \A o \in Owners : HoldsProject(o) =>
          project = "archived" /\ \A w \in Writers : ~writer[w].key
    /\ \A o \in Owners : purge[o].cleared # {} => HoldsProject(o)
    /\ \A o \in Owners : purge[o].cleared \subseteq rows

\* A writer's new rows are covered by the lock on what they reference.
Covered(x) ==
    /\ x.wrote \cap References # {} => x.key
    /\ "events" \in x.wrote => "installations" \in x.held
    /\ "admin_audit_log" \notin x.wrote
    /\ \A t \in x.held : Lockable(t)
    /\ x.key => project \in {"active", "archived"}
    /\ x.step <= x.last

WriterInv == \A w \in Writers : Covered(writer[w])

\* Nothing refers to a row that a purge has deleted, or is about to.
ClearedInv ==
    /\ "events" \in rows => "installations" \in rows
    /\ project = "absent" => rows = {} /\ ~auditing /\ \A w \in Writers : writer[w].pc = "idle"
    /\ \A o \in Owners :
          /\ "installations" \in purge[o].cleared => "events" \notin Left(o)
          /\ purge[o].pc = "commit" => Left(o) \subseteq {"admin_audit_log"}

IInv == TypeOK /\ PurgeInv /\ WriterInv /\ ClearedInv /\ NothingLeftBehind

=============================================================================
