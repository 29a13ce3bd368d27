---------------------------- MODULE ClientPolicy ----------------------------
(***************************************************************************)
(* Client policies and SDK fault scenarios: the kill-switch rules          *)
(* administrators create and delete, the policy each SDK request is        *)
(* answered with, and the fault a protected test project asks for          *)
(* (src/internal/policyadmin, internal/ingest/policy*.go,                  *)
(* internal/sdktest, internal/httpapi policy and SDK-test handlers).       *)
(*                                                                         *)
(* A request is a sequence of separate statements, and rules, scenarios    *)
(* and projects change between them.  A batch's own transaction is one     *)
(* step here; module Ingest takes it apart.  Roles and CSRF are Access's.  *)
(***************************************************************************)
EXTENDS PolicyPromise

CONSTANTS Requests, Installs, Values,
          Projects,      \* named projects; a request may also name none
          Chosen,        \* the scenarios the owner selects, "" for none
          MaxRestarts, MaxErrors   \* bounds: process restarts, database errors

VARIABLES rules,      \* client_policy_rules: the drafts inserted and not deleted
          scenario,   \* projects.sdk_test_scenario
          archived,   \* archived (and so disabled) projects
          seen401,    \* Controller.seen401, in memory
          errors

vars == <<rules, scenario, archived, seen401, req, audited, since, chosen, count401, restarts, errors>>
admin == <<rules, scenario, archived>>
marks == <<since, chosen>>

Scenarios == {"lost_acknowledgement", "unauthorized_once", "payload_too_large", "rate_limited",
              "policy_active", "policy_pause_upload", "policy_disable_collection"}
Idle == [pc |-> "idle", kind |-> "policy", project |-> NoProject, install |-> Default,
         token |-> FALSE, header |-> "", scen |-> "", rule |-> Default, stored |-> FALSE,
         answer |-> "", policy |-> Default]

Init == /\ rules = {} /\ scenario = [p \in TestProjects |-> ""] /\ archived = {}
        /\ seen401 = {} /\ req = [r \in Requests |-> Idle] /\ audited = {}
        /\ since = [r \in Requests |-> {}] /\ chosen = [r \in Requests |-> {}]
        /\ count401 = [k \in (Projects \cup {NoProject}) \X Installs |-> 0] /\ restarts = 0 /\ errors = 0

\* A database in order: rules have ids of their own, projects names, and the
\* owner selects scenarios there are.
Configured == /\ Drafts \cap (PolicyScenarios \cup {Default}) = {}
              /\ NoProject \notin Projects /\ TestProjects \subseteq Projects
              /\ Chosen \subseteq Scenarios \cup {""}

Serving == {r \in Requests : req[r].pc \notin {"idle", "done"}}

-----------------------------------------------------------------------------
(* The administrator: policyadmin.Create and Delete, each a transaction     *)
(* with its audit row, the owner's scenario, archiving and restoring.       *)
Valid(d) == /\ RuleOf[d].mode \in {"active", "pause_upload", "disable_collection"}
            /\ RuleOf[d].seconds > 0 /\ RuleOf[d].reason # ""

Create(d) == /\ d \notin rules /\ Valid(d) /\ rules' = rules \cup {d}
             /\ UNCHANGED <<scenario, archived, seen401, req, audited, marks, count401, restarts, errors>>

\* Scoped by project: another project's rule is "not found".
Delete(p, d) == /\ d \in rules /\ RuleOf[d].project = p /\ rules' = rules \ {d}
                /\ since' = [r \in Requests |-> since[r] \ {d}]
                /\ UNCHANGED <<scenario, archived, seen401, req, audited, chosen, count401, restarts, errors>>

handleSDKTestControl(p, s) ==
    /\ p \in TestProjects \ archived /\ s \in Scenarios \cup {""} /\ s # scenario[p]
    /\ scenario' = [scenario EXCEPT ![p] = s]
    /\ chosen' = [r \in Requests |-> IF r \in Serving /\ req[r].project = p
                                     THEN chosen[r] \cup {s} ELSE chosen[r]]
    /\ UNCHANGED <<rules, archived, seen401, req, audited, since, count401, restarts, errors>>

ArchiveOrRestore(p) ==
    /\ archived' = (archived \cup {p}) \ (archived \cap {p})
    /\ UNCHANGED <<rules, scenario, seen401, req, audited, marks, count401, restarts, errors>>

-----------------------------------------------------------------------------
(* The SDK request.                                                         *)
At(r, here, upd) == req[r].pc = here /\ req' = [req EXCEPT ![r] = upd]
Answer(r, code) == [req[r] EXCEPT !.pc = "done", !.answer = code]
MayFail == errors < MaxErrors /\ errors' = errors + 1
Kept == <<admin, marks, restarts>>

Begin(r, kind, p, i, token, header) ==
    /\ At(r, "idle", [Idle EXCEPT !.pc = "scenario", !.kind = kind, !.project = p,
                                  !.install = i, !.token = token, !.header = header])
    /\ since' = [since EXCEPT ![r] = rules]
    /\ chosen' = [chosen EXCEPT ![r] = IF p \in TestProjects THEN {scenario[p]} ELSE {}]
    /\ UNCHANGED <<admin, seen401, audited, count401, restarts, errors>>

\* Controller.Scenario: NewServer creates the fallback controller for the empty
\* project and the empty token; it takes the scenario from a header.
ControllerScenario(r) ==
    IF req[r].project = NoProject /\ ~req[r].token /\ req[r].header \in Scenarios
    THEN req[r].header ELSE ""

\* Wrong: the controls apply without the token, and once archived.
ScenarioAnyToken(r) ==
    IF req[r].project \in TestProjects THEN scenario[req[r].project] ELSE ControllerScenario(r)

\* The project's own controls; a project without them falls back.
sdkTestScenario(r) ==
    IF req[r].project \in TestProjects \ archived
    THEN IF req[r].token THEN scenario[req[r].project] ELSE ""
    ELSE ControllerScenario(r)

ReadScenario(r) ==
    /\ \E s \in {sdkTestScenario(r), ControllerScenario(r)} :
          /\ At(r, "scenario", [req[r] EXCEPT !.scen = s,
                                  !.pc = IF req[r].kind = "batch" THEN "fault" ELSE "authorize"])
          /\ (s = sdkTestScenario(r) /\ UNCHANGED errors) \/ (s = ControllerScenario(r) /\ MayFail)
    /\ UNCHANGED <<Kept, seen401, audited, count401>>

\* Wrong: the first 401 of an install is not remembered.
ForgetFirstUnauthorized(r) == UNCHANGED seen401

\* LoadOrStore: one atomic step, so two requests at once cannot both be first.
FirstUnauthorized(r) == seen401' = seen401 \cup {<<req[r].project, req[r].install>>}

BatchTestFailure(r) ==
    LET first == /\ req[r].scen = "unauthorized_once"
                 /\ <<req[r].project, req[r].install>> \notin seen401
        code == CASE first -> "test_401"
                  [] req[r].scen = "payload_too_large" -> "test_413"
                  [] req[r].scen = "rate_limited" -> "test_429"
                  [] OTHER -> ""
    IN  /\ At(r, "fault", IF code = "" THEN [req[r] EXCEPT !.pc = "authorize"] ELSE Answer(r, code))
        /\ IF req[r].scen = "unauthorized_once" THEN FirstUnauthorized(r) ELSE UNCHANGED seen401
        /\ count401' = [count401 EXCEPT ![<<req[r].project, req[r].install>>] = IF first THEN @ + 1 ELSE @]
        /\ UNCHANGED <<Kept, audited, errors>>

\* Limits, validation, the bearer and the installation lookup may each refuse.
Refuse(r) == /\ At(r, "authorize", Answer(r, "refused"))
             /\ UNCHANGED <<Kept, seen401, audited, count401, errors>>

Authorize(r) == /\ req[r].project \in Projects \ archived
                /\ At(r, "authorize", [req[r] EXCEPT !.pc = "match", !.stored = (req[r].kind = "batch")])
                /\ UNCHANGED <<Kept, seen401, audited, count401, errors>>

\* Wrong: the least specific rule first.
LeastSpecific(r) ==
    LET found == {d \in rules : Matches(d, r)}
    IN  IF found = {} THEN {Default}
        ELSE {d \in found : \A e \in found : Specificity(d) <= Specificity(e)}

\* ORDER BY specificity DESC LIMIT 1: any of the rules that share the highest.
matchPolicyRow(r) ==
    LET found == {d \in rules : Matches(d, r)}
    IN  IF found = {} THEN {Default}
        ELSE {d \in found : \A e \in found : Specificity(d) >= Specificity(e)}

MatchPolicy(r) == /\ \E d \in matchPolicyRow(r) :
                        At(r, "match", [req[r] EXCEPT !.rule = d,
                                          !.pc = IF d = Default THEN "finish" ELSE "audit"])
                  /\ UNCHANGED <<Kept, seen401, audited, count401, errors>>

\* Wrong: a failed insert of the audit row is ignored.
MatchPolicyUnaudited(r) ==
    /\ At(r, "audit", [req[r] EXCEPT !.pc = "finish"])
    /\ (audited' = audited \cup {r} /\ UNCHANGED errors) \/ (MayFail /\ UNCHANGED audited)
    /\ UNCHANGED <<Kept, seen401, count401>>

MatchPolicyAudited(r) ==
    /\ \/ /\ At(r, "audit", [req[r] EXCEPT !.pc = "finish"])
          /\ audited' = audited \cup {r} /\ UNCHANGED errors
       \/ /\ At(r, "audit", Answer(r, "failed")) /\ MayFail /\ UNCHANGED audited
    /\ UNCHANGED <<Kept, seen401, count401>>

\* The statements after the match: last_seen_at, or the batch's statistics.
Finish(r) == /\ \/ At(r, "finish", [req[r] EXCEPT !.pc = "respond"]) /\ UNCHANGED errors
                \/ At(r, "finish", Answer(r, "failed")) /\ MayFail
             /\ UNCHANGED <<Kept, seen401, audited, count401>>

\* Wrong: a policy probe, which stores nothing, is aborted too.
LostAnyKind(r) == req[r].scen = "lost_acknowledgement"

Lost(r) == req[r].kind = "batch" /\ req[r].scen = "lost_acknowledgement"

Respond(r) ==
    /\ At(r, "respond", IF Lost(r) THEN Answer(r, "aborted")
                        ELSE [Answer(r, "ok") EXCEPT !.policy =
                                IF req[r].scen \in PolicyScenarios THEN req[r].scen ELSE req[r].rule])
    /\ UNCHANGED <<Kept, seen401, audited, count401, errors>>

\* The process restarts: requests under way fail, the in-memory marks are lost.
Restart == /\ restarts < MaxRestarts /\ restarts' = restarts + 1 /\ seen401' = {}
           /\ req' = [r \in Requests |-> IF r \in Serving THEN Answer(r, "failed") ELSE req[r]]
           /\ UNCHANGED <<admin, audited, marks, count401, errors>>

Next == \/ \E d \in Drafts : Create(d) \/ \E p \in Projects : Delete(p, d)
        \/ \E p \in Projects : ArchiveOrRestore(p) \/ \E s \in Chosen : handleSDKTestControl(p, s)
        \/ \E r \in Requests :
             \/ \E kind \in {"batch", "policy"}, p \in Projects \cup {NoProject}, i \in Installs,
                   token \in BOOLEAN : \E header \in IF p = NoProject THEN Chosen ELSE {""} :
                      Begin(r, kind, p, i, token, header)
             \/ ReadScenario(r) \/ BatchTestFailure(r) \/ Refuse(r) \/ Authorize(r)
             \/ MatchPolicy(r) \/ MatchPolicyAudited(r) \/ Finish(r) \/ Respond(r)
        \/ Restart

Spec == Init /\ [][Next]_vars

-----------------------------------------------------------------------------
\* The inductive invariant (module ClientPolicyProofs).

RequestType ==
    [pc : {"idle", "scenario", "fault", "authorize", "match", "audit", "finish", "respond", "done"},
     kind : {"batch", "policy"}, project : Projects \cup {NoProject}, install : Installs \cup {Default},
     token : BOOLEAN, header : Chosen \cup {""}, scen : Scenarios \cup {""}, rule : Drafts \cup {Default},
     stored : BOOLEAN,
     answer : FaultAnswers \cup {"", "ok", "failed", "refused"},
     policy : Drafts \cup {Default} \cup PolicyScenarios]

TypeOK == /\ rules \subseteq Drafts
          /\ scenario \in [TestProjects -> Scenarios \cup {""}]
          /\ req \in [Requests -> RequestType]
          /\ audited \subseteq Requests
          /\ since \in [Requests -> SUBSET rules]
          /\ chosen \in [Requests -> SUBSET (Scenarios \cup {""})]
          /\ count401 \in [(Projects \cup {NoProject}) \X Installs -> Nat]
          /\ restarts \in Nat

\* A request's scenario may still be read, and is then one of those chosen.
ScenarioChosen ==
    \A r \in Serving : req[r].install \in Installs
                       /\ (req[r].project \in TestProjects => scenario[req[r].project] \in chosen[r])

\* The scenario a request that names a project has read.
ScenarioEarned ==
    \A r \in Requests :
        req[r].scen # "" /\ req[r].project # NoProject =>
            req[r].project \in TestProjects /\ req[r].token /\ req[r].scen \in chosen[r]

\* Nobody has an answer or a policy before the end, and faults are scripted.
AnswersLast ==
    \A r \in Requests :
        /\ req[r].pc # "done" => req[r].answer = "" /\ req[r].policy = Default
        /\ req[r].answer \in FaultAnswers => req[r].scen # ""
        /\ ~Answered(r) => req[r].policy = Default
        /\ Answered(r) => req[r].policy = IF req[r].scen \in PolicyScenarios THEN req[r].scen ELSE req[r].rule

\* The rule that was matched is the most specific of those in force throughout,
\* and is audited before the request goes on.
RuleFits ==
    \A r \in Requests : (req[r].pc \in {"audit", "finish", "respond"} \/ Answered(r)) =>
        /\ \A d \in since[r] : Matches(d, r) =>
              req[r].rule # Default /\ Specificity(req[r].rule) >= Specificity(d)
        /\ req[r].rule # Default => Matches(req[r].rule, r)
        /\ req[r].rule # Default /\ req[r].pc # "audit" => r \in audited

\* What is stored at which stage.
StoredByStage ==
    \A r \in Requests :
        /\ req[r].pc \in {"idle", "scenario", "fault", "authorize"} => ~req[r].stored
        /\ req[r].pc \in {"match", "audit", "finish", "respond"} /\ req[r].kind = "batch" => req[r].stored

\* An install that met the scripted 401 in this life is remembered.
FirstsRemembered ==
    \A k \in DOMAIN count401 : count401[k] <= restarts + (IF k \in seen401 THEN 1 ELSE 0)

-----------------------------------------------------------------------------
IInv == /\ TypeOK /\ ScenarioChosen /\ ScenarioEarned /\ AnswersLast /\ RuleFits /\ StoredByStage
        /\ FaultsKeepTheStore /\ FirstsRemembered
=============================================================================
