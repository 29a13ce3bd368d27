---------------------------- MODULE Registration ----------------------------
(***************************************************************************)
(* POST /v1/register for one project: concurrent registration requests as  *)
(* READ COMMITTED transactions over the installations table and the daily  *)
(* registration counter, with the admission checks before the transaction  *)
(* and the policy lookup after it.                                         *)
(*                                                                         *)
(* Each request steps through the statements of Service.Register.  Row     *)
(* locks are derived from where a request stands: a request that waits for *)
(* a lock has its action disabled until the holder ends.                   *)
(***************************************************************************)
EXTENDS Naturals, FiniteSets

CONSTANTS
    Requests,              \* request handlers running at the same time
    Installs,              \* install_id values
    Credentials,           \* installation credentials (their hashes)
    None,                  \* absence of a row, a day or an answer
    DailyRegistrationCap,  \* Service.DailyRegistrationCap
    LastDay                \* bound: the last UTC day the model reaches

ASSUME ConstantsAssumption ==
    /\ DailyRegistrationCap \in Nat
    /\ LastDay \in Nat
    /\ IsFiniteSet(Installs)
    /\ None \notin Credentials /\ None \notin Installs /\ None \notin Nat

VARIABLES
    enabled,        \* projects.enabled (false: the project is archived)
    installations,  \* install_id -> credential_hash of the committed row, or None
    chargedOn,      \* install_id -> day whose counter paid for the row, or None
    counters,       \* daily_registration_counters.count, committed
    day,            \* the UTC day of clock_timestamp()
    req             \* the request handlers

vars == <<enabled, installations, chargedOn, counters, day, req>>

Days == 0..LastDay

Stages == {"idle", "admit", "environment", "select", "count", "upsert",
           "insert", "commit", "policy", "done"}

\* "registered" 200; "limited" 429; "invalid" 400; "conflict" 409;
\* "duplicate_key" and "failed" are both rendered as 500 internal_error.
Answers == {"registered", "limited", "invalid", "conflict", "duplicate_key", "failed"}

RequestType ==
    [pc : Stages, install : Installs \cup {None}, cred : Credentials \cup {None},
     day : Days \cup {None}, creates : BOOLEAN, answer : Answers \cup {None}]

IdleRequest == [pc |-> "idle", install |-> None, cred |-> None,
                day |-> None, creates |-> FALSE, answer |-> None]

TypeOK ==
    /\ enabled \in BOOLEAN
    /\ installations \in [Installs -> Credentials \cup {None}]
    /\ chargedOn \in [Installs -> Days \cup {None}]
    /\ counters \in [Days -> Nat]
    /\ day \in Days
    /\ req \in [Requests -> RequestType]

Init ==
    /\ enabled = TRUE
    /\ installations = [i \in Installs |-> None]
    /\ chargedOn = [i \in Installs |-> None]
    /\ counters = [d \in Days |-> 0]
    /\ day = 0
    /\ req = [r \in Requests |-> IdleRequest]

(***************************************************************************)
(* Locks.                                                                  *)
(***************************************************************************)

\* Faulty: the SELECT drops FOR UPDATE, so the row it saw is not held.
LocksRowUnlocked(r, i) == FALSE

\* SELECT ... FOR UPDATE found the row and holds it until the commit.
LocksRow(r, i) == req[r].install = i /\ req[r].pc = "commit" /\ ~req[r].creates

\* The counter upsert holds the row of its day until the transaction ends.
LocksCounter(r, d) == req[r].day = d /\ req[r].pc \in {"insert", "commit"}

\* An INSERT of install i that has not committed: a second one waits for it.
InsertsRow(r, i) == req[r].install = i /\ req[r].pc = "commit" /\ req[r].creates

Others(r) == Requests \ {r}

(***************************************************************************)
(* Steps of a request.                                                     *)
(***************************************************************************)

Goto(r, stage) == req' = [req EXCEPT ![r].pc = stage]

\* The transaction, if one is open, is rolled back by the deferred Rollback.
AnswerWith(r, a) ==
    req' = [req EXCEPT ![r].pc = "done", ![r].answer = a,
                       ![r].day = None, ![r].creates = FALSE]

tables == <<enabled, installations, chargedOn, counters, day>>

\* Faulty: the count before this registration is compared with the cap.
UpsertCounterOffByOne(r) ==
    LET d == req[r].day IN
    /\ req[r].pc = "upsert"
    /\ \A o \in Others(r) : ~LocksCounter(o, d)
    /\ IF counters[d] > DailyRegistrationCap
       THEN AnswerWith(r, "limited")
       ELSE Goto(r, "insert")
    /\ UNCHANGED tables

\* Faulty: INSERT ... ON CONFLICT DO UPDATE overwrites the row it meets.
InsertInstallationUpsert(r) ==
    /\ req[r].pc = "insert"
    /\ req' = [req EXCEPT ![r].pc = "commit", ![r].creates = TRUE]
    /\ UNCHANGED tables

\* Faulty: a duplicate key is retried in place instead of being reported.
InsertInstallationRetry(r) ==
    LET i == req[r].install IN
    /\ req[r].pc = "insert"
    /\ \A o \in Others(r) : ~InsertsRow(o, i)
    /\ IF installations[i] # None
       THEN Goto(r, "insert")
       ELSE req' = [req EXCEPT ![r].pc = "commit", ![r].creates = TRUE]
    /\ UNCHANGED tables

Receive(r, i, c) ==
    /\ req[r].pc = "idle"
    /\ req' = [req EXCEPT ![r] = [IdleRequest EXCEPT !.pc = "admit", !.install = i, !.cred = c]]
    /\ UNCHANGED tables

\* Either limiter may be empty, and the body may be invalid.
AdmitRegistration(r) ==
    /\ req[r].pc = "admit"
    /\ \/ Goto(r, "environment")
       \/ AnswerWith(r, "limited")
       \/ AnswerWith(r, "invalid")
    /\ UNCHANGED tables

RegistrationEnvironment(r) ==
    /\ req[r].pc = "environment"
    /\ IF enabled THEN Goto(r, "select") ELSE AnswerWith(r, "invalid")
    /\ UNCHANGED tables

\* Uncommitted inserts are invisible here: only a lock on a committed row waits.
CreateOrVerifyInstallation(r) ==
    LET i == req[r].install IN
    /\ req[r].pc = "select"
    /\ \A o \in Others(r) : ~LocksRow(o, i)
    /\ \/ installations[i] = None /\ Goto(r, "count")
       \/ installations[i] = req[r].cred /\ Goto(r, "commit")
       \/ installations[i] \notin {None, req[r].cred} /\ AnswerWith(r, "conflict")
    /\ UNCHANGED tables

\* The counter's day is computed when the upsert starts, before it waits.
StartCounting(r) ==
    /\ req[r].pc = "count"
    /\ req' = [req EXCEPT ![r].pc = "upsert", ![r].day = day]
    /\ UNCHANGED tables

\* The increment is visible to others only once the transaction commits.
UpsertCounter(r) ==
    LET d == req[r].day IN
    /\ req[r].pc = "upsert"
    /\ \A o \in Others(r) : ~LocksCounter(o, d)
    /\ IF counters[d] + 1 > DailyRegistrationCap
       THEN AnswerWith(r, "limited")
       ELSE Goto(r, "insert")
    /\ UNCHANGED tables

InsertInstallation(r) ==
    LET i == req[r].install IN
    /\ req[r].pc = "insert"
    /\ \A o \in Others(r) : ~InsertsRow(o, i)
    /\ IF installations[i] # None
       THEN AnswerWith(r, "duplicate_key")
       ELSE req' = [req EXCEPT ![r].pc = "commit", ![r].creates = TRUE]
    /\ UNCHANGED tables

Commit(r) ==
    LET i == req[r].install  d == req[r].day IN
    /\ req[r].pc = "commit"
    /\ IF req[r].creates
       THEN /\ installations' = [installations EXCEPT ![i] = req[r].cred]
            /\ chargedOn' = [chargedOn EXCEPT ![i] = d]
            /\ counters' = [counters EXCEPT ![d] = @ + 1]
       ELSE UNCHANGED <<installations, chargedOn, counters>>
    /\ req' = [req EXCEPT ![r].pc = "policy", ![r].day = None, ![r].creates = FALSE]
    /\ UNCHANGED <<enabled, day>>

\* The policy is matched on the pool, after the registration has committed.
MatchPolicyAudited(r) ==
    /\ req[r].pc = "policy"
    /\ AnswerWith(r, "registered")
    /\ UNCHANGED tables

\* A statement fails: database error, or the client's disconnect cancels ctx.
Fail(r) ==
    /\ req[r].pc \in Stages \ {"idle", "admit", "done"}
    /\ AnswerWith(r, "failed")
    /\ UNCHANGED tables

\* The answer is written (or lost on the way) and the handler returns.
Reply(r) ==
    /\ req[r].pc = "done"
    /\ req' = [req EXCEPT ![r] = IdleRequest]
    /\ UNCHANGED tables

(***************************************************************************)
(* The rest of the system, as registration sees it.                        *)
(***************************************************************************)

\* The process dies: open transactions roll back, handlers are gone.
Crash ==
    /\ req' = [r \in Requests |-> IdleRequest]
    /\ UNCHANGED tables

\* DeleteUnactivatedInstallations removes the row; it waits for row locks.
SweepInstallation(i) ==
    /\ installations[i] # None
    /\ \A r \in Requests : ~LocksRow(r, i)
    /\ installations' = [installations EXCEPT ![i] = None]
    /\ chargedOn' = [chargedOn EXCEPT ![i] = None]
    /\ UNCHANGED <<enabled, counters, day, req>>

\* Archive and restore of the project by an owner.
SetEnabled ==
    /\ enabled' = ~enabled
    /\ UNCHANGED <<installations, chargedOn, counters, day, req>>

NextDay ==
    /\ day < LastDay
    /\ day' = day + 1
    /\ UNCHANGED <<enabled, installations, chargedOn, counters, req>>

Step(r) ==
    \/ AdmitRegistration(r)
    \/ RegistrationEnvironment(r)
    \/ CreateOrVerifyInstallation(r)
    \/ StartCounting(r)
    \/ UpsertCounter(r)
    \/ InsertInstallation(r)
    \/ Commit(r)
    \/ MatchPolicyAudited(r)
    \/ Reply(r)

Next ==
    \/ \E r \in Requests : Step(r) \/ Fail(r)
    \/ \E r \in Requests, i \in Installs, c \in Credentials : Receive(r, i, c)
    \/ \E i \in Installs : SweepInstallation(i)
    \/ Crash
    \/ SetEnabled
    \/ NextDay

\* Go schedules every handler, and PostgreSQL queues lock waiters in order of
\* arrival: a waiter that is released again and again gets its turn.
Fairness == \A r \in Requests : SF_vars(Step(r))

Spec == Init /\ [][Next]_vars /\ Fairness

(***************************************************************************)
(* Properties.                                                             *)
(***************************************************************************)

ChargedTo(d) == {i \in Installs : chargedOn[i] = d}

\* The rows a day's counter paid for never exceed the daily cap, however many
\* registrations race for the last places, roll back, or cross midnight.
CapRespected == \A d \in Days : Cardinality(ChargedTo(d)) <= DailyRegistrationCap

\* A registration commits only when the row carries the credential presented:
\* neither a racing registration with another credential nor a sweep between
\* the SELECT ... FOR UPDATE and the commit makes the success a false one.
CommitsOnlyForOwner ==
    [][\A r \in Requests :
         (req[r].pc = "commit" /\ req'[r].pc = "policy")
            => installations'[req[r].install] = req[r].cred]_vars

\* A stored credential is never replaced: an install_id changes hands only
\* after its row has been swept, whatever the interleaving of registrations.
CredentialImmutable ==
    [][\A i \in Installs :
         installations[i] # None => installations'[i] \in {installations[i], None}]_vars

\* Every request is answered: the row, counter and key locks that register
\* takes can never form a cycle or strand a handler.
EveryRequestAnswered ==
    \A r \in Requests : req[r].pc # "idle" ~> req[r].pc = "idle"

\* register.go says that "a matching-credential retry returns the same
\* success": a request that presents the credential of the committed row is
\* never turned away by the row's existence.
MatchingRetrySucceeds ==
    [][\A r \in Requests :
         (req[r].pc = "insert" /\ installations[req[r].install] = req[r].cred)
            => req'[r].answer # "duplicate_key"]_vars

(***************************************************************************)
(* The inductive invariant behind the safety properties.                   *)
(***************************************************************************)

\* A request that found its row holds it; one that inserts a row is alone.
HoldsWhatItSaw ==
    \A r \in Requests : req[r].pc = "commit" =>
        /\ req[r].install \in Installs
        /\ installations[req[r].install] = IF req[r].creates THEN None ELSE req[r].cred

OneInserter ==
    \A i \in Installs, r, o \in Requests :
        InsertsRow(r, i) /\ InsertsRow(o, i) => r = o

\* The holder of a counter row has room left under the cap.
HasRoom ==
    \A r \in Requests :
        req[r].pc = "insert" \/ (req[r].pc = "commit" /\ req[r].creates) =>
            /\ req[r].day \in Days
            /\ counters[req[r].day] < DailyRegistrationCap

OneCounter ==
    \A d \in Days, r, o \in Requests :
        LocksCounter(r, d) /\ LocksCounter(o, d) => r = o

CountersCoverRows ==
    \A d \in Days : /\ Cardinality(ChargedTo(d)) <= counters[d]
                    /\ counters[d] <= DailyRegistrationCap

Charged == \A i \in Installs : (chargedOn[i] = None) <=> (installations[i] = None)

\* What a request carries at each stage.
Carries ==
    \A r \in Requests :
        /\ req[r].pc \notin {"idle", "done"} =>
              req[r].install \in Installs /\ req[r].cred \in Credentials
        /\ req[r].pc \in {"upsert", "insert"} => req[r].day \in Days
        /\ req[r].pc \in {"environment", "select", "count"} => req[r].day = None
        /\ req[r].pc = "admit" => req[r].day = None
        /\ req[r].creates => req[r].pc = "commit"
        /\ req[r].pc = "commit" /\ ~req[r].creates => req[r].day = None

IInv == /\ TypeOK /\ Carries /\ HoldsWhatItSaw /\ OneInserter
        /\ HasRoom /\ OneCounter /\ CountersCoverRows /\ Charged

=============================================================================
