# Mortris: a TLA+ model of the event ingestion server

Mortris is a Go service over PostgreSQL. Game clients register an installation
and send it batches of events; administrators manage projects, client policies
and accounts; a dashboard reads analytics. This directory models the parts whose
correctness depends on what happens at the same time or goes wrong in between,
checks them with TLC on small instances, and proves their main properties with
TLAPS for every size.

## 1. Inventory

| Part (source) | State | Operations | What is hard | What makes it correct |
|---|---|---|---|---|
| Registration (`internal/ingest/register*.go`) | `installations`, `daily_registration_counters` | `Register`: admit, read the project, `SELECT ... FOR UPDATE`, counter upsert, insert, commit, match policy | two first registrations at once; a cap tested on a shared counter; a row swept between read and commit; midnight | cap never exceeded; a credential is never replaced; success only to its owner; every request answered |
| Batch ingestion (`internal/ingest/batch*.go`) | `events`, `event_catalog`, columns of `installations`, four statistics tables | `Batch`: admit, authorize, prepare each event, one transaction, policy, statistics | reads before the transaction; retries racing the original; catalog lock order; statistics outside the transaction | acknowledged means durable; stored once per life; the tables agree; no event stuck |
| Maintenance (`internal/maintenance`) | none of its own | hourly cleanup of unactivated installations, retention of events | its DELETE works on a snapshot and waits for row locks; one foreign key failure fails the statement | never removes an activated installation, leaves no orphan, always ends |
| Project lifecycle (`internal/httpapi/project_handlers*.go`) | `projects` and every table that references it | create, archive, restore, purge, update | purge against requests admitted before the archive; two locks in opposite orders | purges only from the archive, leaves nothing, ends |
| SDK client (`sdk/`, `docs/client-integration.md`) | event queue | send, retry, re-register on 401, delete what is acknowledged | lost answers | external; the server's promise is made to it |
| Policy matching and administration (`ingest/policy*.go`, `internal/policyadmin`) | `client_policy_rules`, audit rows | create, delete, match | ties between rules; rows changing under a match | a live kill switch takes effect; decisions are audited |
| Disk state (`internal/diskstate`, `maintenance/diskmonitor.go`) | cached state | sample every 30 s, read by every batch | a stale state; thresholds on two measures | rejects exactly in the last state |
| Rate limits (`internal/ratelimit`) | token buckets by key | `Allow` | refill at the boundary | never more than burst plus refill |
| Sessions, accounts, members (`internal/adminauth`, `project_handlers_accounts/members.go`) | `admin_users`, `admin_sessions`, `admin_user_projects` | login, validate, logout, create, update, grant, revoke | an update, the end of its sessions and the COMMIT are statements of their own; names are tested before they are inserted | nothing is done on a right that was gone before; no ended session comes back; a session outlives a password, and names collide, only in the known ways |
| SDK test mode (`internal/sdktest`) | fault scenario, installations already failed once | scenario, first 401 | once per installation under concurrency | one fault per installation |
| Wire contracts (`internal/contracts`) | none | decode and validate | duplicate ids, limits | a batch is split into valid events and rejections |
| Analytics (`internal/analytics`) | none of its own (SQL, and algorithms in Go) | overview, retention, funnel, anomalies, catalog volume, recent events; per house: retry ladder, replay, drops, memory timeline, quality card, smoke check | calendar days, time zones, ties, gaps and late rows; a page is several statements on several snapshots | agreement with a reference definition |
| Puzzle catalog (`puzzle_catalog_*.go`, `puzzle_geometry.go`, `puzzle_art.go`) | `puzzle_content_*` tables | import a revision, attach geometry, attach art | concurrent imports, a retry of what is there | a revision is immutable, its references resolve |
| HTTP front end (`internal/httpapi/server.go`, `handlers.go`, `cmd/.../serve.go`) | ingestion slots, process state | read the body, take a slot, drain, restart | one slot too few, a restart with a full disk | every request answered, bodies whole |
| Migration runner (`internal/store/migrate.go`) | `schema_migrations` | apply what is not recorded | overlapping deploys, a death between two statements | each file once, in order |
| MCP server (`cmd/mcp-analytics`) | a shared login session | tool call: log in, ask, on 401 once more | calls that refresh and clear the session at once | one expiry costs one login |
| Live feed (`dashboard/src/hooks/useRecentEventsFeed.ts`) | the list shown, a cursor | poll, change filter, load older | answers out of order | newest first, nothing skipped |
| Other commands, configuration, the rest of the dashboard, deployment | - | - | - | - |

Components share the database and little else: a batch and a registration meet in
the installation's row and the catalog; the runner deletes rows that batches
hold; the purge deletes rows that all of them write; the disk monitor's state is
read by `admitBatch`. Concurrency control is PostgreSQL's READ COMMITTED with row
locks, unique keys and foreign keys, so the modules model statements, and which
lock each takes and waits for.

## 2. Modules

**`Registration`**: one project, any number of requests. `req[r]` is where a
request stands in `Service.Register` and what it has read. `installations` and
`counters` are committed rows; `chargedOn` is a history variable (the day whose
counter paid for a row). Locks are derived from positions: a request past the
`FOR UPDATE` holds the row (`LocksRow`), one past the counter upsert the counter
(`LocksCounter`), one past its INSERT the key (`InsertsRow`). A request that
waits is a request whose action is disabled. `StartCounting` is separate from
`UpsertCounter` because the day is computed before the upsert waits.

**`Ingest`**: clients, batch handlers and the maintenance runner.
`hs[h]` steps through `Batch`: `AdmitBatch`/`LimitBatch`, `AuthorizeBatch`,
`PrepareEvent` once per event, `PersistBatch`, then inside the transaction
`UpdateBatchInstallation`, per event `InsertPreparedEvent`, `InsertDuplicate` or
`InsertOrphan` and `TrackProductEvent`, `ActivateInstallation`, `Commit`; after it
`RecordBatchStats` and `RecordRejectionStats`. What a transaction did is local
(`fresh`, `duplicates`, `names`) until `Commit`. `Fail` is any failing or
cancelled statement, `AbortDeadlock` PostgreSQL's victim on a cycle of waits,
`Crash` the death of the process. The runner's DELETE is three actions: its
subquery's snapshot (`StartCleanup`), a row at a time as it gets the locks
(`DeleteRow`), and the foreign key check and commit
(`DeleteUnactivatedInstallations`). `stored` counts how often an event was
committed and `tally` how often it was counted as accepted. Registration is one
step here.

**`EventLog`** is the promise to the client: an event enters the log at most once
while it is there, is acknowledged only after it entered or was refused, and
leaves by retention only. `Ingest` implements it (`ImplementsEventLog`), with
`events` as the log and the recorded rejections as the refused.

**`ProjectLifecycle`**: one project, owners' purges and SDK requests. The data is
abstracted to which tables hold a committed row of the project (`rows`), which of
them an open purge has deleted (`cleared`), and which rows a request has locked
(`held`) or newly written (`wrote`). An insert that references `projects` needs
its row for key share and so waits for a purge (`InsertReferencing`); an upsert
that finds its row does not (`Upsert`). Audit rows reference nothing.

**`Access`**: accounts, sessions and memberships. Every dashboard request first
validates its session (a SELECT, an UPDATE of `last_seen_at`, a SELECT of the
memberships) and then runs its handler's statements with what it has read. One
action per statement, so that other requests run in between; a password is a
version number, a session carries the version it was opened with. A member's update is
`UpdateRole`, `UpdatePassword`, `EndSessions` and `CommitUpdate`, with the row locks it
gathers (`HoldsMember`, `HoldsAccount`, `HoldsSession`) and what it has written seen by
nobody before the COMMIT. History: `since` is what was added while a request stands at its
stage (sessions opened, accounts made), `late` and `spared` say
how a session came to outlive its password, `beside` which accounts were made between an
account's look for its names and its INSERT.

**`ClientPolicy`**: kill-switch rules, the policy an SDK request is answered with,
its audit row, and the fault scenarios of the protected test project. Two rules of
one specificity may be picked in either order. `Restart` forgets which
installations have met the scripted 401.

**`Contracts`**, **`RateLimit`**, **`Clock`** and **`FrontEnd`** are what a request
meets on its way. `Contracts` is the order of the decoder's and validators' checks,
with an event reduced to its id, depth and flaws. `RateLimit` has the token buckets
in fractions of a token, with finding a bucket and spending from it as two steps,
and the order in which handlers consult them. `Clock` files an event under a time,
given a device clock that is off. `FrontEnd` has the slots, the body limits, the
disk monitor's cached state and the life of the process.

**`Catalog`** has the catalog tables as one map of rows by primary key; what a
transaction has written is its own until it commits. **`Migrations`** has overlapping
deploys over the files of successive releases.

**`Insights`**, **`Replay`**, **`Timeline`**, **`Drops`**, **`Funnel`** and **`Anomaly`**
translate the algorithms written in Go: rows arrive one by one (or the log grows),
the code's state per attempt or installation is the module's state, and properties
compare it with a definition that looks at the whole history at once. **`Quality`**,
**`Days`** and **`Volume`** are pages built from several queries: a batch may be stored
between between two of them. **`Feed`** is the keyset query and the browser's hook with its
requests in flight, in any number and order; the history variable `asOf` is what was
stored when the first page of the list was read, `fits` whether every later page was asked
for below the very list it was appended to. **`Drops`** keeps points as pairs, since the
medians are taken of each axis alone. **`McpClient`** is a shared session behind a mutex that covers
single reads and writes only.

`MC*.tla` give the instances, `*Proofs.tla` the proofs (section 4): `LiveProofs` is about
`RateLimit`, `Migrations` and `McpClient`, `AnalyticsProofs` about `Catalog`, `Feed`
and `Insights`, `SdkPathProofs` about `FrontEnd` and `Clock`, the others about the module they are named
after. `MCAccess` extends `Access`
with four scenarios, one of which a behaviour picks at its start. `MCSdkPath`,
`MCAnalytics` and `MCLive` check several independent modules in one run: a behaviour
picks one of the parts at its start (`part`), the part's module is instantiated with
`v1`, `v2`, ... for its variables, and the variables it does not need keep the value
`Off`. Nothing is shared between parts, so the run checks each of them by itself;
their properties are those of the instance, under the guard that its part is running.

Where such a property is also proved, it is stated once, in a module that both sides
extend: `RatePromise`, `FilingPromise`, `PolicyPromise`, `SchemaPromise`, `LoginPromise`,
`CatalogPromise`, `PagePromise` and `LadderPromise` declare what the promise of `RateLimit`,
`Clock`, `ClientPolicy`, `Migrations`, `McpClient`, `Catalog`, `Feed` and `Insights` is about
(its variables, and the constants it names) and define the promise.
The component extends its promise and adds the rest of its state and its actions; the
MC module extends it too, so that the run and the theorem name one definition. In the
other parts of a run a promise's variables are empty, so that it says nothing there.

Definitions marked "Wrong:" or "Faulty:" are not part of the specification: each is a
plausible mistake that a property is shown to catch.

## 3. Runs

| Run | Instance | Shows |
|---|---|---|
| `registration_safety` | two requests, two days, failures, sweeps and crashes | `CapRespected`, `CommitsOnlyForOwner`, `CredentialImmutable`, `EveryRequestAnswered` |
| `registration_retry` | two requests with one credential | *violated*: a matching retry that races the first registration gets a 500 from the primary key; the comment in `register.go` promises the same success |
| `ingest_safety` | two clients, two names in opposite orders, strict and open catalog | `EventuallyAcked` with catalog deadlocks |
| `ingest_faults` | one client, two handlers (a timed-out request and its retry), two disturbances | `AckedIsDurable`, `NoOrphans`, `StatsFollowCommit`, `FirstProductIsReal`, `ActivationComplete`, `ActivatedNeverSwept`, `ImplementsEventLog`: retries, sweeps, new registrations and changed settings between the statements of a batch |
| `ingest_liveness` | one client, a malformed event, one disturbance | `EventuallyAcked`, `SweepEnds` |
| `ingest_cleanup` | as `ingest_faults` | *violated*: an installation with system events only counts as activated; the comment in `retention.go` says only a product event saves it |
| `project_purge` | one owner, two requests, an administrator, all tables | `NothingLeftBehind`, `PurgedFromArchive`, `PurgeEnds` |
| `project_purge_fails` | one owner, one request | *violated*: rows in `event_rejection_stats`, `event_property_drift` or `puzzle_content_revisions` survive the purge's queries, whose last DELETE then fails; `access-control.md` promises that the data is removed |
| `access` | an owner, an admin and a viewer; the scenarios below | `GrantedWhenEntitled`, `StaleSessionsExplained`, `DeadStaysDead`, `LoginNamesApart` |
| `sdk_path` | the parts below | `RequestContract`, `RateHolds`, `FiledNearTheTruth`, `AnswersFollowPolicy`: what a request meets before its handler |
| `analytics` | the parts below | `LadderIsExact`, `GateIsFair`, `AttemptIsRetold`, `MapIsConsistent`, `ChartsAgree`, `PagesAreWhole`, `CatalogIsWhole`, `RevisionsStay`, `IneligibleLeavesNoSample`: the dashboard's queries and folds agree with what is stored |
| `live` | the parts below | `EveryoneIsServed`, `MonitorConverges`, `SchemaCatchesUp`, `FeedSettles`, `RecordedIffEffective`, `ReloginRecovers`: what must happen in the end |

Scenarios of `access`: *rights*, two requests at once while the right they need is taken
away; *sessions*, logins against password changes
and both timeouts; *race*, one name asked for over both endpoints and in both columns at
once; *members*, accounts and memberships that come and change. Two requests act at once
in each. `LoginNamesApart` is of accounts made over the API (`create-admin` gives names
without looking). User names never collide, a unique index decides; a user name and an
e-mail of two accounts do collide when the creations overlap (section 5), and the property
says that they do in no other case: not after the INSERT of one was visible to the other's
look, whatever was changed since.

The properties of the other three runs are conjunctions of those of the modules:

| Part | Instance | Property and its conjuncts |
|---|---|---|
| `sdk_path`: limits | bodies around both limits, disk usages at each threshold | `RequestContract`: `BodyIsWhole`, `SlotsAccounted` |
| contracts | batches of up to four events, a limit of three, a flaw of each stage | `RequestContract`: `AnsweredOnce`, `StoredIffFlawless`, `RefusedForTheWhole` |
| rates | two goroutines, seven limiters, four calls | `RateHolds`; `RequestContract`: `ChargedInTurn` |
| clock | devices on time, off by the tolerance, off by far | `FiledNearTheTruth`: `EffectiveIsPlausible`, `OrderWithinTolerance`, `TrustedIsNearTheTruth` |
| rules | rules of two projects, two of them tied, an invalid one | `AnswersFollowPolicy`, here mainly `KillSwitchTakesEffect`, `DecisionsAreAudited` |
| faults | two requests, one restart, one error | `AnswersFollowPolicy`, here mainly `FaultsOnlyWhereChosen`, `FaultsKeepTheStore`, `OnceInALife` |
| `analytics`: ladder, samples | four rows of two attempts; seven of one block | `LadderIsExact`: `LadderAccountsForEveryChain`, `TakesAccountedFor`, `HintsFollowFalls`, `SamplesMatchLadder`. `IneligibleLeavesNoSample`. `ChartsAgree`: `PercentilesBoundSamples` |
| faults, gate | a game in four batches, any order, lost, repeated and late rows | `GateIsFair`: `GapsAreMissingIndexes`; `LateDeliveryIsNotRed`, `VerdictsAgree` |
| house, chains, versions | attempts of up to four rows, repeats and gaps, imports under way | `AttemptIsRetold`: `HouseIsReportedPlusVerdicts`, `MirrorsAttemptTable`; `GapsAreExact`, `OrphansAreOpenTakes`; `OwnCatalogOrSaysSo` |
| timeline | four rows, gaps around the cap | `AttemptIsRetold`: `ActiveIsForegroundTime`, `ActiveWithinWall`, `BuildUpdatesAreChanges` |
| drops | up to five drops over two slots in two layouts, off on one axis or both; a corrected drop of a revision not imported | `MapIsConsistent`: `OneCoordinateSpace`, `FitHoldsForTheMajority`, `DistanceMatchesPlot`, `EveryRowAccountedFor` |
| days | a scaled week without a clock change, ranges that end within a day | `ChartsAgree`: `EveryEventInItsTile`, `DailyNested`, `ReturnsAreFound` |
| volume | ranges in UTC, east and west of it | `ChartsAgree`: `RejectionsCovered` |
| funnel | two installations, ties, a cut fetch | `ChartsAgree`: `CountsAreChains` |
| anomaly | three baseline days | `ChartsAgree`: `SteadyIsQuiet`, `BurstsDoNotMask` |
| feed | four events, two filters, pages of two, two requests in flight | `PagesAreWhole`: `NewestFirst`, `NothingSkipped` |
| catalog | two transactions that may fail anywhere; a sound house and six flawed ones | `CatalogIsWhole`: `StoredReferencesResolve`, `ShapesOfOneUpload`. `RevisionsStay` |
| `live`: front | two connections, one slot, one restart | `EveryoneIsServed`: no request starves. `MonitorConverges`, and pressure stops ingestion |
| schema | two deploys, two failures, a file released late | `RecordedIffEffective`; `SchemaCatchesUp`, and files are applied in order |
| single, shared | one caller and five calls; two callers at once | `ReloginRecovers` (with two callers its conjunct `NoTokenRefusedTwice` only); `EveryoneIsServed`: every call returns |
| feed | two requests in flight | `FeedSettles` |

Each *violated* run is a disagreement between the code and a comment, document or
text of the repository; `PROJECT.json` quotes the line under "findings".

**Bounds.** Two requests are enough for every conflict on a row, since each lock
has one holder and the statements conflict in pairs; two names and two handlers
give the catalog deadlock. `MaxFaults` bounds crashes, failures, refusals,
timeouts, ageing and setting changes together: two of them give a timed-out
request that commits late beside its retry, a sweep of an installation that a
batch has read, or a crash after a failure. `MaxBatch` is two because order inside
a batch matters only through the catalog and the first product event. `LastDay`
is one past midnight. The proofs have none of these bounds.

In `Access`, three calls give a login, the change it races with and a request on the
session; who may call what is fixed per scenario so that each race is in one of them. In the algorithm modules the number of rows is the least in which each
state of the code is entered, left and entered again (two chains of one block, a gap
after a repeat, a block left and taken up). Sizes the code fixes (fourteen baseline
days, a thirty-day cohort, 24 hours, a page of a hundred) are constants given small
values with the same relations among them. Times take the values on both sides of each threshold and on it.
`MaxFaults`, `MaxFailures`, `MaxRestarts`, `MaxErrors` and `MaxExpiries` bound faults:
one that is recovered from and, where retries exist, one that meets the recovery.
`Slots` in `Feed` bounds requests in flight: two suffice for any pair out of order.

**Fairness.** Go runs every runnable goroutine, so steps of handlers, of the
runner and of a purge are fair. Lock waits need strong fairness (`Registration`,
`Ingest`): a waiter's action is enabled and disabled again as holders come and
go, and PostgreSQL serves waiters of a row in order of arrival. The extra
conjunct for `TrackProductEvent` says that a transaction waiting for its second
catalog row gets it before one that was aborted for it comes back. The client
retries for ever, as its integration guide tells it. Failures, timeouts, ageing,
crashes and administrators are never fair. `EventuallyAcked` assumes that the
project stays enabled and the disk has room from some time on: otherwise the
server rightly refuses.

In `FrontEnd` a slot is a channel operation, served in order, hence strong fairness of
`Acquire`; the monitor's ticker fires for ever and not every reading fails; systemd
starts a process that has exited. In `Migrations` a deploy that failed is run again. In
`McpClient` and `Feed` every request has an answer or an error: neither client sets a
timeout, but the server ends every request by its own; the feed's timer fires however often the button is pressed, hence strong
fairness of `Poll`, which the bound on requests would otherwise starve. Filters, pauses
and expiries are never fair. `MCLive` states each of these conditions for the part that
runs; the other runs are safety checks without fairness, except those of section 3 that
name a liveness property.

Deadlock checking is off where the modelled code ends by itself (all rows read, all
calls made, the last tick of a bounded clock) and on elsewhere.

## 4. Proofs

TLAPS proves, for every value of the constants that satisfies the named
assumptions:

* `RegistrationProofs`: `CapHolds`, `CommitHoldsForOwner`, `CredentialNeverReplaced`.
  The cap alone is not inductive: a transaction past the upsert has been told
  there is room and commits later. `IInv` adds that at most one transaction
  holds a day's counter (`OneCounter`), that the holder still has room
  (`HasRoom`), that the rows charged to a day number at most its counter
  (`CountersCoverRows`), that a request which saw a row holds it with its own
  credential (`HoldsWhatItSaw`), and that one insert of a key is open at a time
  and finds no row (`OneInserter`).
* `IngestProofs`: the six safety properties of the ingestion runs and the refinement
  of `EventLog`. `HandlerInv` says what each stage knows: inside the transaction
  inserted events are not yet stored and their installation's row is locked,
  hence registered and not deleted by the sweep; after it they are stored, then
  counted, then noted. `SweepInv` carries the argument for the cleanup: a row
  that was picked and has been activated since has an event to show, so the
  foreign key stops the DELETE. `TallyInv` needs the number of handlers that
  committed an event and have yet to count it, so `Handlers` is assumed finite.
* `ProjectLifecycleProofs`: `PurgeLeavesNothing`, `PurgeOnlyArchived`. One purge
  has the project and then no request does (`PurgeInv`); new rows are covered by
  a lock on what they reference (`WriterInv`); nothing refers to what a purge
  has deleted (`ClearedInv`). When the last DELETE goes through nothing but
  audit rows is left, and no request can add to it.

* `AccessProofs`: `GrantsAreEarned`, `StaleSessionsHaveAnOrigin`, `SessionsStayDead`,
  `NamesCollideOnlyInRaces`.
  Each is about several statements of one request with others between them. `IInv`
  says what a request may rely on at each stage: a login knows an account that is there
  (`RowsAreThere`; accounts are disabled, never deleted), a request past `validate` has the
  owner and role of its session (`CallerIsKnown`), the session and then the right it
  needs were good at some time since it came (`SeenByStage`). The last is also what
  `DeadStaysDead` rests on: the UPDATE of `last_seen_at` does not test again, so a session
  that has been idle too long may come back, but only by a request that found it good;
  a revoked or expired one never does. `StaleExplained` widens
  `StaleSessionsExplained` to sessions that have timed out, because a refresh in flight
  may count for them.
  `ResetSawTheRest` carries the member's update: of the sessions with the old password
  those it has not ended were opened after its UPDATE of sessions.
  `NamesCollideOnlyInRaces`, for any creations at once: a creation that has looked for its
  names and not yet inserted finds them free but for accounts made since (`StillFree`),
  which its row then remembers (`beside`); within the column the unique index decides.
* `ClientPolicyProofs`: `PolicyIsFollowed`. `RuleFits` says that a rule picked from the
  rows of one statement is at least as specific as every rule that was there from the
  request's first statement on, `ScenarioChosen` and `ScenarioEarned` that a scenario in
  effect was the owner's choice since the request came and was asked for with the
  token, `FirstsRemembered` that scripted 401s are counted by what the process remembers.
* `LiveProofs`: `RateIsKept`, `ChargesInTurn`. The rate is a statement about a
  window; `WithinBudget` says what the bucket still holds in terms of every earlier
  request of its key, so that a refill that is cut at the burst and a spending that
  comes long after the lookup both keep it. `InTurn` ties the checks still to come to
  those paid. `EachFileOnce`, with the effects counted against the finite set of
  recorded versions; `RefusedTokensAreNotResent`, for any callers: a token that is not
  stored yet is known to its owner only (`UnstoredIsUnknown`), a refused one is cleared and
  never comes back (`RefusedIsGone`).
* `SdkPathProofs`: `EventsAreFiledNearTheTruth`, for any offset, tolerance and age. The
  lemma `OneEvent` says what `effectiveTime` makes of one event; `InOrder` and `SentFirst`
  that stamps were put on in order and before the batch left. `BodiesAreWhole` and
  `SlotsAreNotLost`: the slots taken are as many as the requests past `Acquire` of an
  endpoint that needs one (`Holding`), for which the set of connections must be finite.
* `AnalyticsProofs`, on the catalogue: `CatalogStaysWhole`, `RevisionsAreFinal`. The rows
  of an imported revision are those of one valid document (`RevisionsWhole`), and a shape
  is one of an upload (`ShapesUploaded`); `Fits` says what a transaction at each statement
  has read and written, so that a commit adds a whole document or the shapes of a whole
  upload, and `OneImport` that the key of a revision has one inserter. On the feed:
  `PagesLeaveNothingOut`, for any requests in flight together. The list reaches down to its
  cursor without a gap (`NothingSkipped`), and an answer that was asked for below it, and
  read since its first page was, continues it (`AppendPreserves`); for that `Rank` is shown
  to place each row of a page once. The theorem has no hypothesis about overlap: where a
  later page meets another list than the one it was asked for, `fits` becomes false, the
  promise is off until the next first page, and the code does break the list (section 5). On the
  ladder: `LadderStaysExact`, `IneligibleIsLeftOut`. A chain has been tried or is being
  tried (`Begun`), so a flush counts every one; a fall that may still be blamed for a hint
  has not been charged (`FallsCoverBlame`), where a fall is any outcome with the prefix the
  code tests, counted by the history `seen`: the block's own counters leave one out
  (section 5). Each action is shown to move the figures of a
  block by some amounts (`Moves`) and the one attempt it is about by the same
  (`Balances`); `BalancePreserves` then counts attempts, of which one changes.

The hypothesis `Configured` of a component says of its constants what the code says of
its configuration: rates and bursts are natural numbers (`RateLimit`); rules, scenarios
and the default policy are different things (`ClientPolicy`); the body limit before
inflation is at most the one after (`FrontEnd`); an upload lists its blocks in a sequence
(`Catalog`); event ids are numbers, not the one that stands for no cursor, and pages are
not empty (`Feed`); eligible attempts are among those of the house, and the marker for no
block is not a block (`Insights`); and a device's clock is less than Go's
largest `time.Duration` away and after the zero time, so that `Sub` does not saturate into
the tolerated window (`Clock`). `MCSdkPath` and `MCAnalytics` have TLC evaluate them on
their instances.
TLC also checked every `IInv` on the instances of section 3 before it was proved.

Only model-checked:

* liveness (`EveryRequestAnswered`, `EventuallyAcked`, `SweepEnds`, `PurgeEnds`,
  `EveryoneIsServed`, `MonitorConverges`, `SchemaCatchesUp`, `FeedSettles`),
  which needs fairness and ENABLED;
* what recursive and folded definitions compute, which needs induction over data: in the
  `analytics` run `GateIsFair`, `AttemptIsRetold`, `MapIsConsistent` and `ChartsAgree`; the
  contracts part of `RequestContract`; and that migrations are applied in order
  (`SelectSeq` keeps the order of what it selects);
* `ReloginRecovers`: its second conjunct, of calls made one after the other. Of concurrent
  calls it does not hold (section 5), and only `NoTokenRefusedTwice` is claimed and proved.

## 5. Where code and text part

Three disagreements have a run of their own (section 3). The others below were met while
modelling; the modules follow the code, and the properties are stated for the cases in
which it keeps what the text says (the instances say which).

* `puzzle_insights.go:152`: a chain is flushed into the bucket "never succeeded in the
  observed attempt" whenever another block is taken, also when the block is placed later.
* `puzzle_insights.go:287`: every outcome that begins with `fell_` is a fall of its wave and
  may be charged with the next hint, but the block counts two of them (lines 281-286):
  `fell_missing_rule` (`puzzle-gravity-playtest-handoff.md:44`) is in no counter of the block,
  which may so show hints after falls without showing a fall.
* `puzzle_drops.go:183`: a fit is accepted when the larger of two medians, one of each axis,
  is within the snap distance. The majorities may be different drops: of five drops off by
  nothing, by far up, down, left and right, one is near its target once corrected, and the
  map is shown as aligned.
* `puzzle_drops.go:276`: a schema-v2 drop of a revision that is not imported joins the
  latest layout and counts as trusted; the comment at line 63 calls such rows legacy.
* `puzzle_replay.go:250`: "mirrors applyPlacementState", which takes an empty reported block
  list where `applyReplayPlacement` ignores it (`MirrorsAttemptTable` holds up to there).
* `puzzle_smoke_eval.go:57`: the gate's queries are separate statements; rows that arrive
  after the gap query still supply later evidence, so a build may pass on a log with a gap
  that `puzzle-release-smoke-gate.md:74` rejects.
* `overview_daily.go:52`: tiles step back 24 hours; in a week with a 23-hour day that day
  has none. `metrics.md:9` asks for days that are not always 24 hours.
* `anomalies.go:104`: today is not cut off, baseline days are, at whole seconds; an event of
  the current second makes the two differ. The comment at line 93 says "the same".
* `catalog.go:215`: the widened bounds are dates in the caller's offset; west of UTC the
  last UTC day of the range is missed (comment at line 209). `catalog.go:134`: the
  rejection rate divides rejections of whole days by events of the range (line 29).
* `funnel.go:19` and `cmd/mcp-analytics/main.go:202`: the tool says the default window is a
  day, the server uses an hour. `funnel.go:68`: the window is multiplied before it is
  compared with "cannot exceed 86400", and the product may wrap.
* `useRecentEventsFeed.ts:79`: an answer to "Load older" is appended to whatever list there
  is by then, and the button stays enabled: two presses list a page twice, a poll or a
  change of filter in between puts a page under a first page it does not follow. The list
  stays so until the next first page, which a paused feed does not ask for.
* `cmd/mcp-analytics/main.go:125`: a call clears whatever session is stored after a 401,
  also one that another call has just obtained (`ReloginRecovers` is for calls in turn).
* `project_handlers_members.go:216`, `265-277`: a reset sets the password, ends the sessions and
  commits; a login that tested the old password may insert its session between the last two
  and keep it (`StaleSessionsExplained` names this way).
* `adminauth/service.go:188`: the session is refreshed at the time of the UPDATE, which does
  not repeat the test: a session whose idle timeout passes between the two is good again.
* `project_handlers_accounts.go:179`: name and e-mail are tested in a SELECT and no index
  spans both columns; two concurrent requests can give one name to two accounts.
  `project_handlers_members.go:240`: the count that makes a login exclusive is read before
  the reset. `createadmin.go:93`: a second owner can be made, and a name that is taken;
  `access-control.md:3` says there is one owner.
* `contracts/decode_scan.go:36`: the envelope's scan applies the depth limit to the events
  too, so one event that is too deep refuses its siblings (`decode.go:50` says it cannot).
  `httpapi/errors.go:27`: a wrong batch size or repeated id is answered with the generic
  code, `docs/errors.md:21` gives them their own.
* `ingest/batch.go:16`: "the error case is unreachable", but a month 13 passes the pattern
  and becomes the zero time; the event is then filed at its reception.
* `httpapi/server.go:131`: `threat-model.md:39` says reads are degraded before ingestion; no
  read asks for the disk state.
* `sdktest/controller.go:52`: "once per installation" (`sdk-test-mode.md`) is once per
  installation and process.
* `puzzle_catalog_import.go:40`: a revision is said to be its document's SHA-256
  (`puzzle_geometry.go:14`), which is not compared; another document under an imported
  revision is answered 201 and discarded.

## 6. Not modelled

* Drift observations and property lists of the catalog, JSON syntax, gzip streams,
  credentials and hashes as bytes: data no property tells apart.
* `maintenance_runs`: written by the runner, read by the dashboard only.
* Two writers waiting for each other in `ProjectLifecycle`: they may be of
  different installations, and `Ingest` has the case in which they are not.
* Queries that are one SELECT which lists or sums (houses, devices, cohorts, traffic,
  dimensions, property values, system health, the wave funnel, the event explorer):
  their meaning is PostgreSQL's, and a model would repeat the SQL.
* The digest and the natural-language query: an external language model chooses the
  text or the parameters; the queries behind them are modelled.
* Export and the parity report: one read-only statement or a list of sums, printed.
* The demonstration fixture, configuration, code generation, load test: data and I/O.
* The rest of the dashboard: a page shows what one request returned; `useApiData`
  drops answers of pages that are gone.
* Deployment: configuration of nginx, systemd, backups and CI.

## 7. State of the plan

The modules and proofs planned are done. What would extend them:

1. the folds of `Replay`, `Timeline` and `Quality` as state machines over single rows, the
   way `Insights` flushes one attempt per step, so that their invariants need no induction
   over a sequence;
2. what a call of several concurrent ones may still expect of its second login, as a theorem
   beside `RefusedTokensAreNotResent`;
3. liveness, once the prover has rules for fairness and ENABLED.
