---------------------------- MODULE PolicyPromise ----------------------------
(* What the answers to SDK requests promise about the rules and scenarios in  *)
(* force while they were made.  ClientPolicy implements it.                   *)
EXTENDS Integers, FiniteSets, FiniteSetsExt

CONSTANTS Fields,        \* what a rule may match on
          TestProjects,  \* environment 'test', controls enabled, token stored
          Drafts,        \* rules an administrator may ask for
          RuleOf,        \* [Drafts -> [project, match, mode, seconds, reason]]
          Dims           \* [Installs -> [Fields -> Values]]: what its requests carry

Wildcard == "any"       \* a NULL match field
NoProject == ""         \* an empty project_id
Default == "default"    \* DefaultPolicy: no rule matched

VARIABLES req,        \* the SDK requests under way
          audited,    \* requests with a client_policy_applied row
          since,      \* history: rules present ever since the request began
          chosen,     \* history: scenarios selected at some time since then
          count401,   \* history: the scripted 401s of each install
          restarts    \* of the process

FaultAnswers == {"test_401", "test_413", "test_429", "aborted"}
PolicyScenarios == {"policy_active", "policy_pause_upload", "policy_disable_collection"}

Matches(d, r) == /\ RuleOf[d].project = req[r].project
                 /\ \A f \in Fields : RuleOf[d].match[f] \in {Wildcard, Dims[req[r].install][f]}
Specificity(d) == Quantify(Fields, LAMBDA f : RuleOf[d].match[f] # Wildcard)

Answered(r) == req[r].pc = "done" /\ req[r].answer = "ok"

-----------------------------------------------------------------------------
(* A kill switch takes effect: a request that began after a rule was        *)
(* created and ended before its deletion is not answered with the default   *)
(* or a less specific rule (matchPolicyRow), unless its test scenario       *)
(* replaces the policy; and the rule it gets is its own project's.          *)
KillSwitchTakesEffect ==
    \A r \in DOMAIN req : Answered(r) /\ req[r].scen \notin PolicyScenarios =>
        /\ \A d \in since[r] : Matches(d, r) =>
              req[r].policy # Default /\ Specificity(req[r].policy) >= Specificity(d)
        /\ req[r].policy # Default => Matches(req[r].policy, r)

(* Every policy decision an operator's rule made is in the audit log before *)
(* the client hears of it, a failed insert included (MatchPolicyAudited).   *)
DecisionsAreAudited ==
    \A r \in DOMAIN req : Answered(r) /\ req[r].policy \in Drafts => r \in audited

(* A request that names a project meets a fault or a scripted policy only   *)
(* with the token of that project, a test project, and a scenario its owner *)
(* had selected at some time while the request ran (sdkTestScenario).       *)
FaultsOnlyWhereChosen ==
    \A r \in DOMAIN req :
        req[r].project # NoProject /\ (req[r].answer \in FaultAnswers \/ req[r].policy \in PolicyScenarios)
        => req[r].project \in TestProjects /\ req[r].token /\ req[r].scen \in chosen[r]

(* A scripted refusal stores nothing, and a lost acknowledgement is only    *)
(* lost after the batch is stored (processBatch, docs/sdk-test-mode.md).    *)
FaultsKeepTheStore ==
    \A r \in DOMAIN req :
        /\ req[r].answer \in {"test_401", "test_413", "test_429"} => ~req[r].stored
        /\ req[r].answer = "aborted" => req[r].stored

(* In one life of the process an install meets the scripted 401 at most     *)
(* once, whatever requests race (FirstUnauthorized).                        *)
OnceInALife == \A k \in DOMAIN count401 : count401[k] <= 1 + restarts

(* Answers follow the policy in force: all of the above (matchPolicy,       *)
(* sdkTestScenario, processBatch).                                          *)
AnswersFollowPolicy ==
    /\ KillSwitchTakesEffect /\ DecisionsAreAudited
    /\ FaultsOnlyWhereChosen /\ FaultsKeepTheStore /\ OnceInALife
==============================================================================
