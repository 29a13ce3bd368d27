------------------------------- MODULE Ingest -------------------------------
(***************************************************************************)
(* POST /v1/events/batch for one project, end to end: SDK clients that     *)
(* queue events and retry, concurrent batch handlers stepping through the  *)
(* statements of Service.Batch against a READ COMMITTED database, the      *)
(* hourly maintenance runner that deletes unactivated installations and    *)
(* expired events, crashes, cancelled requests and lost answers.           *)
(*                                                                         *)
(* Registration is one atomic step here; Registration.tla opens it up.     *)
(***************************************************************************)
EXTENDS Naturals, Sequences, FiniteSets

CONSTANTS
    Handlers,      \* requests admitted by the ingestion semaphore
    Installs,      \* registered identities, one SDK client each
    Events,        \* event_id values
    Owner,         \* event -> the install whose client queued it
    Name,          \* event -> its event name
    ReservedSystemEvents,  \* names whose events are of kind 'system'
    Malformed,     \* events that ValidateEvent or the decoder rejects
    Declared,      \* names with an event_catalog row at the start
    EffectiveAt,   \* event -> the effective time the clock rule gives it
    MaxBatch,      \* bound: events per request
    MaxFaults,     \* bound: crashes, failures, refusals, timeouts, ageings
    None

ASSUME ConstantsAssumption ==
    /\ Owner \in [Events -> Installs]
    /\ EffectiveAt \in [Events -> Nat]
    /\ Malformed \subseteq Events
    /\ Declared \subseteq {Name[e] : e \in Events}
    /\ MaxBatch \in Nat /\ MaxFaults \in Nat
    /\ IsFiniteSet(Handlers)
    /\ None \notin Handlers /\ None \notin Nat

Names == {Name[e] : e \in Events}
Product == {e \in Events : Name[e] \notin ReservedSystemEvents}

VARIABLES
    \* projects and the cached disk state
    enabled, strictCatalog, rejecting,
    \* installations: the rows there are, and three of their columns
    registered, activated, firstProduct, aged,
    \* events, event_catalog, ingestion_stats, event_rejection_occurrences
    events, oldEvents, catalog, tally, noted,
    \* batch handlers and the maintenance runner
    hs, sweep,
    \* SDK clients
    queue, mode, waiting,
    \* history: times stored, events acknowledged; disturbances so far
    stored, acked, faults

project == <<enabled, strictCatalog, rejecting>>
installs == <<registered, activated, firstProduct, aged>>
tables == <<events, oldEvents, catalog, tally, noted>>
clients == <<queue, mode, waiting, acked>>
vars == <<project, installs, tables, hs, sweep, clients, stored, faults>>

\* Events stored at least once, and counted as accepted at least once.
ever == {e \in Events : stored[e] > 0}
counted == {e \in Events : tally[e] > 0}

Stages == {"idle", "admit", "authorize", "prepare", "lock", "insert", "catalog",
           "commit", "stats", "rejections", "done"}

\* Stages inside the persistBatch transaction, after its first row lock.
InTx == {"insert", "catalog", "commit"}

\* "ok" 200; "unauthorized" 401; "invalid" 400; "limited" 429;
\* "pressure" 503; "failed" 500.
Codes == {"ok", "unauthorized", "invalid", "limited", "pressure", "failed"}

HandlerType ==
    [pc : Stages, install : Installs \cup {None}, todo : Seq(Events),
     prepared : Seq(Events), strict : BOOLEAN, rejected : SUBSET Events,
     fresh : SUBSET Events, duplicates : SUBSET Events, names : SUBSET Names,
     row : {"none", "share", "update"}, code : Codes \cup {None}]

IdleHandler ==
    [pc |-> "idle", install |-> None, todo |-> <<>>, prepared |-> <<>>,
     strict |-> FALSE, rejected |-> {}, fresh |-> {}, duplicates |-> {},
     names |-> {}, row |-> "none", code |-> None]

IdleSweep == [pc |-> "idle", cand |-> {}, deleted |-> {}]

TypeOK ==
    /\ enabled \in BOOLEAN /\ strictCatalog \in BOOLEAN /\ rejecting \in BOOLEAN
    /\ registered \subseteq Installs /\ activated \subseteq Installs /\ aged \subseteq Installs
    /\ firstProduct \in [Installs -> Nat \cup {None}]
    /\ events \subseteq Events /\ oldEvents \subseteq Events /\ catalog \subseteq Names
    /\ tally \in [Events -> Nat] /\ stored \in [Events -> Nat] /\ noted \subseteq Events
    /\ hs \in [Handlers -> HandlerType]
    /\ sweep \in [pc : {"idle", "deleting", "retention"},
                  cand : SUBSET Installs, deleted : SUBSET Installs]
    /\ queue \in [Installs -> SUBSET Events]
    /\ mode \in [Installs -> {"register", "send"}]
    /\ waiting \in [Installs -> Handlers \cup {None}]
    /\ acked \subseteq Events
    /\ faults \in Nat

Init ==
    /\ enabled = TRUE /\ strictCatalog \in BOOLEAN /\ rejecting = FALSE
    /\ registered = {} /\ activated = {} /\ aged = {}
    /\ firstProduct = [i \in Installs |-> None]
    /\ events = {} /\ oldEvents = {} /\ noted = {}
    /\ tally = [e \in Events |-> 0] /\ stored = [e \in Events |-> 0]
    /\ catalog = Declared
    /\ hs = [h \in Handlers |-> IdleHandler]
    /\ sweep = IdleSweep
    /\ queue = [i \in Installs |-> {e \in Events : Owner[e] = i}]
    /\ mode = [i \in Installs |-> "register"]
    /\ waiting = [i \in Installs |-> None]
    /\ acked = {} /\ faults = 0

(***************************************************************************)
(* Row locks.  A lock is held until its transaction ends.                  *)
(***************************************************************************)

Others(h) == Handlers \ {h}

\* A row lock taken by UPDATE installations.
Updates(o, i) == hs[o].install = i /\ hs[o].row = "update"

\* Any lock on the row: the UPDATE's, or the key-share lock of the foreign
\* key check of an inserted event.  A DELETE waits for both.
Holds(o, i) == hs[o].install = i /\ hs[o].row # "none"

\* An event_id inserted by a transaction that has not ended.
Claims(o, e) == hs[o].pc \in InTx /\ e \in hs[o].fresh

\* An event_catalog row written by a transaction that has not ended.
Writes(o, n) == hs[o].pc \in InTx /\ n \in hs[o].names

\* One more of each event of S.
Bump(f, S) == [e \in Events |-> IF e \in S THEN f[e] + 1 ELSE f[e]]

MinTime(S) == CHOOSE t \in S : \A u \in S : t <= u

(***************************************************************************)
(* Steps of a batch request.                                               *)
(***************************************************************************)

Set(h, record) == hs' = [hs EXCEPT ![h] = record]

\* An answer other than "ok": the deferred Rollback drops what the transaction did.
Refuse(h, c) ==
    Set(h, [hs[h] EXCEPT !.pc = "done", !.code = c, !.fresh = {}, !.duplicates = {},
                         !.rejected = {}, !.names = {}, !.row = "none"])

Disturb == faults < MaxFaults /\ faults' = faults + 1

rest == <<project, installs, tables, sweep, clients, stored>>

\* admitBatch: the cached disk state first, then the three limiters.
AdmitBatch(h) ==
    /\ hs[h].pc = "admit"
    /\ IF rejecting THEN Refuse(h, "pressure")
                    ELSE Set(h, [hs[h] EXCEPT !.pc = "authorize"])
    /\ UNCHANGED <<rest, faults>>

LimitBatch(h) ==
    /\ hs[h].pc = "admit" /\ ~rejecting
    /\ Refuse(h, "limited")
    /\ Disturb /\ UNCHANGED rest

\* authorizeBatch: one read, whose answer may be stale a step later.
AuthorizeBatch(h) ==
    /\ hs[h].pc = "authorize"
    /\ \/ hs[h].install \notin registered /\ Refuse(h, "unauthorized")
       \/ hs[h].install \in registered /\ ~enabled /\ Refuse(h, "invalid")
       \/ /\ hs[h].install \in registered /\ enabled
          /\ Set(h, [hs[h] EXCEPT !.pc = "prepare", !.strict = strictCatalog])
    /\ UNCHANGED <<rest, faults>>

\* Wrong: enforceCatalogStrict left out.
RejectsMalformedOnly(h, e) == e \in Malformed

\* prepareEvent: each product event reads its catalog row on its own.
Rejects(h, e) ==
    e \in Malformed \/ (e \in Product /\ hs[h].strict /\ Name[e] \notin catalog)

PrepareEvent(h) ==
    LET e == Head(hs[h].todo) IN
    /\ hs[h].pc = "prepare" /\ hs[h].todo # <<>>
    /\ IF Rejects(h, e)
       THEN Set(h, [hs[h] EXCEPT !.todo = Tail(@), !.rejected = @ \cup {e}])
       ELSE Set(h, [hs[h] EXCEPT !.todo = Tail(@), !.prepared = Append(@, e)])
    /\ UNCHANGED <<rest, faults>>

\* With nothing to store, persistBatch returns before it opens a transaction.
PersistBatch(h) ==
    /\ hs[h].pc = "prepare" /\ hs[h].todo = <<>>
    /\ Set(h, [hs[h] EXCEPT !.pc = IF hs[h].prepared = <<>> THEN "stats" ELSE "lock",
                            !.todo = hs[h].prepared])
    /\ UNCHANGED <<rest, faults>>

\* The UPDATE locks the row if there is one; no row is not an error here.
UpdateBatchInstallation(h) ==
    LET i == hs[h].install IN
    /\ hs[h].pc = "lock"
    /\ i \in registered => /\ \A o \in Others(h) : ~Updates(o, i)
                           /\ i \notin sweep.deleted
    /\ Set(h, [hs[h] EXCEPT !.pc = "insert",
                            !.row = IF i \in registered THEN "update" ELSE "none"])
    /\ UNCHANGED <<rest, faults>>

\* Wrong: a conflicting event_id is skipped and not reported as a duplicate.
InsertDuplicateSilent(h) ==
    /\ hs[h].pc = "insert" /\ hs[h].todo # <<>> /\ Head(hs[h].todo) \in events
    /\ Set(h, [hs[h] EXCEPT !.todo = Tail(@)])
    /\ UNCHANGED <<rest, faults>>

\* ON CONFLICT DO NOTHING waits for an uncommitted event_id, then skips a
\* committed one; a new row's foreign key needs the installation.
InsertDuplicate(h) ==
    LET e == Head(hs[h].todo) IN
    /\ hs[h].pc = "insert" /\ hs[h].todo # <<>>
    /\ e \in events
    /\ Set(h, [hs[h] EXCEPT !.todo = Tail(@), !.duplicates = @ \cup {e}])
    /\ UNCHANGED <<rest, faults>>

\* Wrong: looks for the event_id first, then inserts without ON CONFLICT's wait.
InsertPreparedEventNoWait(h) ==
    LET e == Head(hs[h].todo) IN
    /\ hs[h].pc = "insert" /\ hs[h].todo # <<>>
    /\ e \notin events /\ hs[h].install \in registered \ sweep.deleted
    /\ Set(h, [hs[h] EXCEPT !.todo = Tail(@), !.fresh = @ \cup {e},
                            !.row = IF @ = "none" THEN "share" ELSE @])
    /\ UNCHANGED <<rest, faults>>

InsertPreparedEvent(h) ==
    LET e == Head(hs[h].todo)  i == hs[h].install IN
    /\ hs[h].pc = "insert" /\ hs[h].todo # <<>>
    /\ e \notin events
    /\ \A o \in Others(h) : ~Claims(o, e)
    /\ i \in registered
    /\ i \notin sweep.deleted
    /\ Set(h, [hs[h] EXCEPT !.pc = IF e \in Product /\ ~hs[h].strict THEN "catalog" ELSE "insert",
                            !.todo = IF e \in Product /\ ~hs[h].strict THEN @ ELSE Tail(@),
                            !.fresh = @ \cup {e},
                            !.row = IF @ = "none" THEN "share" ELSE @])
    /\ UNCHANGED <<rest, faults>>

\* The installation was swept after authorizeBatch read it: a 500, retried.
InsertOrphan(h) ==
    LET e == Head(hs[h].todo) IN
    /\ hs[h].pc = "insert" /\ hs[h].todo # <<>>
    /\ e \notin events
    /\ \A o \in Others(h) : ~Claims(o, e)
    /\ hs[h].install \notin registered
    /\ Refuse(h, "failed")
    /\ UNCHANGED <<rest, faults>>

\* trackProductEvent's upsert waits for other writers of the same name.
TrackProductEvent(h) ==
    LET n == Name[Head(hs[h].todo)] IN
    /\ hs[h].pc = "catalog"
    /\ \A o \in Others(h) : ~Writes(o, n)
    /\ Set(h, [hs[h] EXCEPT !.pc = "insert", !.todo = Tail(@), !.names = @ \cup {n}])
    /\ UNCHANGED <<rest, faults>>

\* Only a batch that stored something activates its installation.
ActivateInstallation(h) ==
    LET i == hs[h].install IN
    /\ hs[h].pc = "insert" /\ hs[h].todo = <<>>
    /\ hs[h].fresh # {} => \A o \in Others(h) : ~Updates(o, i)
    /\ Set(h, [hs[h] EXCEPT !.pc = "commit",
                            !.row = IF hs[h].fresh = {} THEN @ ELSE "update"])
    /\ UNCHANGED <<rest, faults>>

\* Wrong: system events count towards first_product_event_at.
CommitAnyKind(h) ==
    LET i == hs[h].install
        times == {EffectiveAt[e] : e \in hs[h].fresh}
    IN
    /\ hs[h].pc = "commit"
    /\ events' = events \cup hs[h].fresh
    /\ stored' = Bump(stored, hs[h].fresh)
    /\ catalog' = catalog \cup hs[h].names
    /\ activated' = IF hs[h].fresh = {} THEN activated ELSE activated \cup {i}
    /\ firstProduct' = IF times # {} /\ firstProduct[i] = None
                       THEN [firstProduct EXCEPT ![i] = MinTime(times)] ELSE firstProduct
    /\ Set(h, [hs[h] EXCEPT !.pc = "stats", !.names = {}, !.row = "none"])
    /\ UNCHANGED <<project, registered, aged, oldEvents, tally, noted, sweep, clients, faults>>

Commit(h) ==
    LET i == hs[h].install
        fresh == hs[h].fresh
        times == {EffectiveAt[e] : e \in fresh \cap Product}
    IN
    /\ hs[h].pc = "commit"
    /\ events' = events \cup fresh
    /\ stored' = Bump(stored, fresh)
    /\ catalog' = catalog \cup hs[h].names
    /\ activated' = IF fresh = {} THEN activated ELSE activated \cup {i}
    /\ firstProduct' = IF times # {} /\ firstProduct[i] = None
                       THEN [firstProduct EXCEPT ![i] = MinTime(times)] ELSE firstProduct
    /\ Set(h, [hs[h] EXCEPT !.pc = "stats", !.names = {}, !.row = "none"])
    /\ UNCHANGED <<project, registered, aged, oldEvents, tally, noted, sweep, clients, faults>>

\* Wrong: a retried event is counted as accepted again.
RecordBatchStatsAgain(h) ==
    /\ hs[h].pc = "stats"
    /\ tally' = Bump(tally, hs[h].fresh \cup hs[h].duplicates)
    /\ Set(h, [hs[h] EXCEPT !.pc = "rejections"])
    /\ UNCHANGED <<project, installs, events, oldEvents, catalog, noted, sweep, clients, stored, faults>>

\* MatchPolicyAudited and recordBatchStats, outside the transaction.
RecordBatchStats(h) ==
    /\ hs[h].pc = "stats"
    /\ tally' = Bump(tally, hs[h].fresh)
    /\ Set(h, [hs[h] EXCEPT !.pc = "rejections"])
    /\ UNCHANGED <<project, installs, events, oldEvents, catalog, noted, sweep, clients, stored, faults>>

\* recordRejectionStats and recordDriftStats, then the 200.
RecordRejectionStats(h) ==
    /\ hs[h].pc = "rejections"
    /\ noted' = noted \cup hs[h].rejected
    /\ Set(h, [hs[h] EXCEPT !.pc = "done", !.code = "ok"])
    /\ UNCHANGED <<project, installs, events, oldEvents, catalog, tally, sweep, clients, stored, faults>>

\* Wrong: the error of a statement or of the commit is dropped.
FailUnnoticed(h) ==
    /\ hs[h].pc \in InTx
    /\ Set(h, [hs[h] EXCEPT !.pc = "done", !.code = "ok", !.names = {}, !.row = "none"])
    /\ Disturb
    /\ UNCHANGED <<project, installs, tables, sweep, clients, stored>>

\* A statement fails or the client's disconnect cancels it: before the commit
\* nothing is kept, after it the events and part of the statistics are.
Fail(h) ==
    /\ hs[h].pc \notin {"idle", "admit", "done"}
    /\ IF hs[h].pc = "stats" THEN \E S \in SUBSET hs[h].fresh : tally' = Bump(tally, S)
                             ELSE UNCHANGED tally
    /\ IF hs[h].pc = "rejections" THEN \E S \in SUBSET hs[h].rejected : noted' = noted \cup S
                                  ELSE UNCHANGED noted
    /\ Refuse(h, "failed")
    /\ Disturb
    /\ UNCHANGED <<project, installs, events, oldEvents, catalog, sweep, clients, stored>>

(***************************************************************************)
(* Lock cycles.  PostgreSQL aborts a transaction it finds on one.          *)
(***************************************************************************)

WaitsFor(h, o) ==
    /\ h # o
    /\ \/ hs[h].pc = "lock" /\ Updates(o, hs[h].install)
       \/ hs[h].pc = "insert" /\ hs[h].todo # <<>> /\ Claims(o, Head(hs[h].todo))
       \/ hs[h].pc = "catalog" /\ Writes(o, Name[Head(hs[h].todo)])
       \/ /\ hs[h].pc = "insert" /\ hs[h].todo = <<>> /\ hs[h].fresh # {}
          /\ Updates(o, hs[h].install)

Stuck(S) == S # {} /\ \A h \in S : \E o \in S : WaitsFor(h, o)

\* A smallest set whose members all wait for one another is a cycle.
Cycle(S) == Stuck(S) /\ \A T \in SUBSET S : T # S => ~Stuck(T)

\* Wrong: no transaction on a cycle is ever aborted.
AbortDeadlockNever(h) == FALSE /\ UNCHANGED vars

AbortDeadlock(h) ==
    /\ \E S \in SUBSET Handlers : h \in S /\ Cycle(S)
    /\ Refuse(h, "failed")
    /\ UNCHANGED <<rest, faults>>

(***************************************************************************)
(* The SDK client (external; docs/client-integration.md).                  *)
(***************************************************************************)

Register(i) ==
    /\ mode[i] = "register" /\ waiting[i] = None /\ enabled
    /\ registered' = registered \cup {i}
    /\ mode' = [mode EXCEPT ![i] = "send"]
    /\ UNCHANGED <<project, activated, firstProduct, aged, tables, hs, sweep,
                   queue, waiting, acked, stored, faults>>

Batches(i) ==
    {b \in UNION {[1..n -> queue[i]] : n \in 1..MaxBatch} :
        \A j, k \in DOMAIN b : b[j] = b[k] => j = k}

Send(i, h) ==
    /\ mode[i] = "send" /\ waiting[i] = None /\ hs[h].pc = "idle"
    /\ \E b \in Batches(i) :
          Set(h, [IdleHandler EXCEPT !.pc = "admit", !.install = i, !.todo = b])
    /\ waiting' = [waiting EXCEPT ![i] = h]
    /\ UNCHANGED <<project, installs, tables, sweep, queue, mode, acked, stored, faults>>

Acks(h) == hs[h].fresh \cup hs[h].duplicates \cup hs[h].rejected

\* The answer arrives, unless its client gave up on the request before.
Deliver(h) ==
    LET i == hs[h].install
        heard == waiting[i] = h
        ok == heard /\ hs[h].code = "ok"
    IN
    /\ hs[h].pc = "done"
    /\ queue' = IF ok THEN [queue EXCEPT ![i] = @ \ Acks(h)] ELSE queue
    /\ acked' = IF ok THEN acked \cup Acks(h) ELSE acked
    /\ mode' = IF heard /\ hs[h].code = "unauthorized"
               THEN [mode EXCEPT ![i] = "register"] ELSE mode
    /\ waiting' = IF heard THEN [waiting EXCEPT ![i] = None] ELSE waiting
    /\ Set(h, IdleHandler)
    /\ UNCHANGED <<project, installs, tables, sweep, stored, faults>>

\* The client gives up; its handler may go on, commit, and answer nobody.
ClientTimeout(i) ==
    /\ waiting[i] # None
    /\ waiting' = [waiting EXCEPT ![i] = None]
    /\ Disturb
    /\ UNCHANGED <<project, installs, tables, hs, sweep, queue, mode, acked, stored>>

(***************************************************************************)
(* The maintenance runner: cleanup, then retention, in one goroutine.      *)
(***************************************************************************)

\* Wrong: activated_at IS NULL left out of the subquery.
StartCleanupAllAged ==
    /\ sweep.pc = "idle"
    /\ sweep' = [sweep EXCEPT !.pc = "deleting", !.cand = registered \cap aged]
    /\ UNCHANGED <<project, installs, tables, hs, clients, stored, faults>>

\* The DELETE's subquery picks its rows once, on the statement's snapshot.
StartCleanup ==
    /\ sweep.pc = "idle"
    /\ sweep' = [sweep EXCEPT !.pc = "deleting",
                    !.cand = (registered \cap aged) \ activated]
    /\ UNCHANGED <<project, installs, tables, hs, clients, stored, faults>>

\* A row that was locked meanwhile is deleted once the lock is released; only
\* the IN test is repeated on its new version, not the subquery's conditions.
DeleteRow(i) ==
    /\ sweep.pc = "deleting" /\ i \in sweep.cand
    /\ \A h \in Handlers : ~Holds(h, i)
    /\ sweep' = [sweep EXCEPT !.cand = @ \ {i}, !.deleted = @ \cup {i}]
    /\ UNCHANGED <<project, installs, tables, hs, clients, stored, faults>>

References(i) == \E e \in events : Owner[e] = i

\* Wrong: no foreign key stops the DELETE.
CleanupWithoutForeignKey ==
    /\ sweep.pc = "deleting" /\ sweep.cand = {}
    /\ registered' = registered \ sweep.deleted
    /\ activated' = activated \ sweep.deleted
    /\ aged' = aged \ sweep.deleted
    /\ firstProduct' = [i \in Installs |->
                          IF i \in sweep.deleted THEN None ELSE firstProduct[i]]
    /\ sweep' = [IdleSweep EXCEPT !.pc = "retention"]
    /\ UNCHANGED <<project, tables, hs, clients, stored, faults>>

\* Wrong: repeats the failed statement at once instead of in an hour.
CleanupRepeats ==
    /\ sweep.pc = "deleting" /\ sweep.cand = {}
    /\ sweep' = IF \E i \in sweep.deleted : References(i)
                THEN [sweep EXCEPT !.cand = sweep.deleted, !.deleted = {}]
                ELSE [IdleSweep EXCEPT !.pc = "retention"]
    /\ registered' = registered \ {i \in sweep.deleted : ~References(i)}
    /\ UNCHANGED <<project, activated, firstProduct, aged, tables, hs, clients, stored, faults>>

\* The foreign key of events is checked at the end: one referenced row fails
\* the whole statement, and the next hour tries again.
DeleteUnactivatedInstallations ==
    /\ sweep.pc = "deleting" /\ sweep.cand = {}
    /\ IF \E i \in sweep.deleted : References(i)
       THEN UNCHANGED installs
       ELSE /\ registered' = registered \ sweep.deleted
            /\ activated' = activated \ sweep.deleted
            /\ aged' = aged \ sweep.deleted
            /\ firstProduct' = [i \in Installs |->
                                  IF i \in sweep.deleted THEN None ELSE firstProduct[i]]
    /\ sweep' = [IdleSweep EXCEPT !.pc = "retention"]
    /\ UNCHANGED <<project, tables, hs, clients, stored, faults>>

\* Batches of expired events go one by one; an error leaves the rest.
DeleteExpiredEvents ==
    /\ sweep.pc = "retention"
    /\ \E S \in SUBSET (oldEvents \cap events) :
          /\ events' = events \ S
          /\ oldEvents' = oldEvents \ S
    /\ sweep' = IdleSweep
    /\ UNCHANGED <<project, installs, catalog, tally, noted, hs, clients, stored, faults>>

\* The DELETE fails or is cancelled; the runner goes on with retention.
CleanupFails ==
    /\ sweep.pc = "deleting"
    /\ sweep' = [IdleSweep EXCEPT !.pc = "retention"]
    /\ Disturb
    /\ UNCHANGED <<project, installs, tables, hs, clients, stored>>

(***************************************************************************)
(* The rest of the world.                                                  *)
(***************************************************************************)

\* Seven days pass since a registration; retention_days since an event.
AgeInstall(i) ==
    /\ i \in registered \ aged /\ aged' = aged \cup {i}
    /\ Disturb
    /\ UNCHANGED <<project, registered, activated, firstProduct, tables, hs, sweep, clients, stored>>

AgeEvent(e) ==
    /\ e \in events \ oldEvents /\ oldEvents' = oldEvents \cup {e}
    /\ Disturb
    /\ UNCHANGED <<project, installs, events, catalog, tally, noted, hs, sweep, clients, stored>>

\* The disk monitor stores a new state; an owner edits, archives or restores.
ChangeProject ==
    /\ \/ rejecting' = ~rejecting /\ UNCHANGED <<enabled, strictCatalog>>
       \/ enabled' = ~enabled /\ UNCHANGED <<rejecting, strictCatalog>>
       \/ strictCatalog' = ~strictCatalog /\ UNCHANGED <<rejecting, enabled>>
    /\ Disturb
    /\ UNCHANGED <<installs, tables, hs, sweep, clients, stored>>

\* The process dies: transactions roll back, connections reset, the disk
\* monitor starts over at Normal.
Crash ==
    /\ hs' = [h \in Handlers |-> IdleHandler]
    /\ sweep' = IdleSweep
    /\ waiting' = [i \in Installs |-> None]
    /\ rejecting' = FALSE
    /\ Disturb
    /\ UNCHANGED <<enabled, strictCatalog, installs, tables, queue, mode, acked, stored>>

(***************************************************************************)
(* Specification.                                                          *)
(***************************************************************************)

Step(h) ==
    \/ AdmitBatch(h) \/ AuthorizeBatch(h) \/ PrepareEvent(h) \/ PersistBatch(h)
    \/ UpdateBatchInstallation(h) \/ InsertDuplicate(h) \/ InsertPreparedEvent(h)
    \/ InsertOrphan(h) \/ TrackProductEvent(h) \/ ActivateInstallation(h) \/ Commit(h)
    \/ RecordBatchStats(h) \/ RecordRejectionStats(h) \/ AbortDeadlock(h) \/ Deliver(h)

Sweep ==
    \/ StartCleanup \/ (\E i \in Installs : DeleteRow(i))
    \/ DeleteUnactivatedInstallations \/ DeleteExpiredEvents

Next ==
    \/ \E h \in Handlers : Step(h) \/ LimitBatch(h) \/ Fail(h)
    \/ \E i \in Installs : Register(i) \/ ClientTimeout(i) \/ AgeInstall(i)
    \/ \E i \in Installs, h \in Handlers : Send(i, h)
    \/ \E e \in Events : AgeEvent(e)
    \/ Sweep \/ CleanupFails \/ ChangeProject \/ Crash

\* Go runs every handler and the runner, and a client keeps retrying.
\* PostgreSQL queues lock waiters in order of arrival, so a transaction that
\* waits for its second catalog row gets it before the one just aborted for
\* it comes back.
Fairness ==
    /\ \A h \in Handlers : SF_vars(Step(h)) /\ SF_vars(hs[h].names # {} /\ TrackProductEvent(h))
    /\ WF_vars(Sweep)
    /\ \A i \in Installs : /\ SF_vars(\E h \in Handlers : Send(i, h))
                           /\ WF_vars(Register(i))

Spec == Init /\ [][Next]_vars /\ Fairness

(***************************************************************************)
(* Properties.                                                             *)
(***************************************************************************)

\* An acknowledged event was committed, or its rejection was recorded: no
\* crash, failure after the commit, retry or late answer makes a client drop
\* an event the server never kept.
AckedIsDurable == acked \subseteq ever \cup noted

\* Every stored event has its installation, though the installation is read
\* before the transaction, may be swept before the insert, and a sweep works
\* on a snapshot that a commit may have overtaken.
NoOrphans == \A e \in events : Owner[e] \in registered

\* A stored event's installation is activated, and a stored product event's
\* installation has its first_product_event_at and its name a catalog row:
\* the three tables agree whatever was retried, swept or registered again.
ActivationComplete ==
    \A e \in events :
        /\ Owner[e] \in activated
        /\ e \in Product => firstProduct[Owner[e]] # None /\ Name[e] \in catalog

\* The cleanup never removes an installation that has been activated, not
\* even one activated while the DELETE was waiting for its row.
ActivatedNeverSwept ==
    [][\A i \in Installs : i \in activated => i \in registered']_vars

\* ingestion_stats never counts an event as accepted more often than it was
\* committed, though handlers of one event's retries race, fail between the
\* commit and the count, and count outside the transaction; and a 200 goes out
\* only after its accepted and rejected events were recorded.
StatsFollowCommit ==
    /\ \A e \in Events : tally[e] <= stored[e]
    /\ \A h \in Handlers : hs[h].pc = "done" /\ hs[h].code = "ok" =>
          hs[h].fresh \subseteq counted /\ hs[h].rejected \subseteq noted

\* What the comment on DeleteUnactivatedInstallations says: the cleanup goes
\* for every registration that sent no product event within seven days.  The
\* code goes by activated_at, which a batch of system events sets as well.
SweepTakesAllWithoutProduct ==
    [][sweep.pc = "idle" /\ sweep'.pc = "deleting" =>
          \A i \in registered \cap aged : firstProduct[i] = None => i \in sweep'.cand]_vars

\* first_product_event_at is the effective time of a product event of this
\* installation that was really stored: no rolled-back, rejected or system
\* event, and no event of before a sweep and a new registration, leaves its
\* time there.
FirstProductIsReal ==
    \A i \in Installs : firstProduct[i] # None =>
        \E e \in ever \cap Product : Owner[e] = i /\ EffectiveAt[e] = firstProduct[i]

\* The whole system implements the promise of EventLog.
Log == INSTANCE EventLog WITH log <- events, refused <- noted
ImplementsEventLog == Log!LogSpec

\* Once the project is enabled and the disk has room for good, every queued
\* event is acknowledged: neither lock waits, deadlock aborts, sweeps under a
\* running batch, nor retries strand it.
EventuallyAcked ==
    <>[](enabled /\ ~rejecting) => \A e \in Events : <>(e \in acked)

\* The maintenance runner always gets through its run: no batch and no lock
\* cycle holds the cleanup's DELETE for ever.
SweepEnds == sweep.pc = "deleting" ~> sweep.pc # "deleting"

(***************************************************************************)
(* The inductive invariant.                                                *)
(***************************************************************************)

Owned(q, s) == \A k \in 1..Len(s) : Owner[s[k]] = q.install

\* Names a strict batch let through have their catalog row.
Declares(s) == \A k \in 1..Len(s) : s[k] \in Product => Name[s[k]] \in catalog

\* What holds of a handler with local state q, whatever the others do.
HandlerInv(q) ==
    /\ q.pc # "idle" => q.install \in Installs
    /\ Owned(q, q.todo) /\ Owned(q, q.prepared)
    /\ \A e \in q.fresh : Owner[e] = q.install
    /\ q.pc \in {"idle", "admit", "authorize", "prepare", "lock"} =>
          q.fresh = {} /\ q.duplicates = {}
    /\ q.pc \in {"admit", "authorize"} => q.prepared = <<>>
    \* Inside the transaction: the locks it holds, what it has inserted.
    /\ q.row # "none" => /\ q.pc \in InTx
                         /\ q.install \in registered /\ q.install \notin sweep.deleted
    /\ q.names # {} => q.pc \in InTx
    /\ q.pc \in InTx => /\ q.fresh \cap events = {}
                        /\ q.fresh # {} => q.row # "none"
    /\ q.pc = "catalog" => q.todo # <<>> /\ Head(q.todo) \in q.fresh
    /\ \A e \in q.fresh \cap Product :
          q.pc \in InTx => \/ Name[e] \in catalog \cup q.names
                           \/ q.pc = "catalog" /\ e = Head(q.todo)
    /\ q.strict /\ q.pc = "prepare" => Declares(q.prepared)
    /\ q.strict /\ q.pc \in {"lock"} \cup InTx => Declares(q.todo)
    \* After it: committed, then counted, then noted.
    /\ q.duplicates \subseteq ever
    /\ q.pc \in {"stats", "rejections", "done"} => q.fresh \subseteq ever
    /\ q.pc \in {"rejections", "done"} => q.fresh \subseteq counted
    /\ q.pc = "done" => q.rejected \subseteq noted

HandlersInv == \A h \in Handlers : HandlerInv(hs[h])

\* An event_id is claimed by one open transaction at most.
ClaimsDisjoint ==
    \A h, o \in Handlers : \A e \in Events : Claims(h, e) /\ Claims(o, e) => h = o

\* A row the sweep picked and a batch activated since has an event to show.
SweepInv ==
    /\ sweep.cand \subseteq registered /\ sweep.deleted \subseteq registered
    /\ sweep.pc # "deleting" => sweep.cand = {} /\ sweep.deleted = {}
    /\ \A i \in (sweep.cand \cup sweep.deleted) \cap activated : References(i)

TablesInv ==
    /\ events \subseteq ever /\ counted \subseteq ever
    /\ activated \subseteq registered
    /\ \A i \in Installs : \A e \in queue[i] : Owner[e] = i
    /\ \A i \in Installs : i \notin registered => firstProduct[i] = None

CoreInv ==
    /\ TypeOK /\ HandlersInv /\ ClaimsDisjoint /\ SweepInv /\ TablesInv
    /\ NoOrphans /\ ActivationComplete /\ AckedIsDurable

\* Handlers that committed event e and have yet to count it.
Uncounted(e) == {h \in Handlers : hs[h].pc = "stats" /\ e \in hs[h].fresh}

\* Each commit of an event pays for one count of it, made or still to come.
TallyInv == \A e \in Events : tally[e] + Cardinality(Uncounted(e)) <= stored[e]

\* What every reachable state satisfies, and every step preserves.
IInv == CoreInv /\ TallyInv

=============================================================================
