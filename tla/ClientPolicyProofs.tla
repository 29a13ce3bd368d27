-------------------------- MODULE ClientPolicyProofs --------------------------
(* Proofs about ClientPolicy, for any rules, projects, installations and      *)
(* scenarios and any number of requests, restarts and failures.               *)
EXTENDS ClientPolicy, TLAPS

\* What the inductive invariant says of one request.
Sound(r) ==
    /\ req[r].pc \notin {"idle", "done"} =>
          /\ req[r].install \in Installs
          /\ req[r].project \in TestProjects => scenario[req[r].project] \in chosen[r]
    /\ req[r].scen # "" /\ req[r].project # NoProject =>
          req[r].project \in TestProjects /\ req[r].token /\ req[r].scen \in chosen[r]
    /\ req[r].pc # "done" => req[r].answer = "" /\ req[r].policy = Default
    /\ req[r].answer \in FaultAnswers => req[r].scen # ""
    /\ ~Answered(r) => req[r].policy = Default
    /\ Answered(r) => req[r].policy = IF req[r].scen \in PolicyScenarios THEN req[r].scen ELSE req[r].rule
    /\ (req[r].pc \in {"audit", "finish", "respond"} \/ Answered(r)) =>
          /\ \A d \in since[r] : Matches(d, r) =>
                req[r].rule # Default /\ Specificity(req[r].rule) >= Specificity(d)
          /\ req[r].rule # Default => Matches(req[r].rule, r)
          /\ req[r].rule # Default /\ req[r].pc # "audit" => r \in audited
    /\ req[r].pc \in {"idle", "scenario", "fault", "authorize"} => ~req[r].stored
    /\ req[r].pc \in {"match", "audit", "finish", "respond"} /\ req[r].kind = "batch" => req[r].stored
    /\ req[r].answer \in {"test_401", "test_413", "test_429"} => ~req[r].stored
    /\ req[r].answer = "aborted" => req[r].stored

\* The inductive invariant is about the requests one by one, but for the types
\* and the count of scripted 401s.
LEMMA SoundRequests == IInv <=> TypeOK /\ FirstsRemembered /\ \A r \in Requests : Sound(r)
  <1>1. TypeOK => DOMAIN req = Requests BY DEF TypeOK
  <1> QED BY <1>1 DEF IInv, Sound, Serving, ScenarioChosen, ScenarioEarned, AnswersLast, RuleFits,
                      StoredByStage, FaultsKeepTheStore

\* The same of the next state.
LEMMA SoundRequestsNext ==
    ASSUME TypeOK', FirstsRemembered', \A r \in Requests : Sound(r)'
    PROVE  IInv'
  <1>1. DOMAIN req' = Requests BY DEF TypeOK
  <1> QED BY <1>1 DEF IInv, Sound, Serving, ScenarioChosen, ScenarioEarned, AnswersLast, RuleFits,
                      StoredByStage, FaultsKeepTheStore

\* A request that does not move stays sound: of the rules in force throughout
\* only fewer remain, of the scenarios chosen meanwhile there are only more.
LEMMA OthersStaySound ==
    ASSUME NEW o \in Requests, Sound(o), req'[o] = req[o], since'[o] \subseteq since[o],
           chosen[o] \subseteq chosen'[o], audited \subseteq audited',
           req[o].pc \notin {"idle", "done"} /\ req[o].project \in TestProjects =>
              scenario'[req[o].project] \in chosen'[o]
    PROVE  Sound(o)'
  <1>1. \A d : Matches(d, o)' <=> Matches(d, o) BY DEF Matches
  <1> QED BY <1>1 DEF Sound, Answered

\* A step of one request that leaves what administrators change alone.
LEMMA RequestStep ==
    ASSUME IInv, NEW r \in Requests, NEW u \in RequestType,
           req' = [req EXCEPT ![r] = u], UNCHANGED <<admin, marks, restarts>>,
           audited \subseteq audited', audited' \subseteq Requests,
           count401' \in [(Projects \cup {NoProject}) \X Installs -> Nat],
           FirstsRemembered', Sound(r)'
    PROVE  IInv'
  <1>1. TypeOK /\ \A o \in Requests : Sound(o) BY SoundRequests
  <1>2. UNCHANGED <<rules, scenario, since, chosen, restarts>> BY DEF admin, marks
  <1>3. TypeOK' BY <1>1, <1>2 DEF TypeOK
  <1>4. \A o \in Requests : o # r => Sound(o)'
    <2> TAKE o \in Requests
    <2> HAVE o # r
    <2>1. req'[o] = req[o] BY DEF TypeOK
    <2>2. Sound(o) BY <1>1
    <2>3. req[o].pc \notin {"idle", "done"} /\ req[o].project \in TestProjects =>
              scenario'[req[o].project] \in chosen'[o]
      BY <1>2, <2>2 DEF Sound
    <2> QED BY <1>2, <2>1, <2>2, <2>3, OthersStaySound
  <1> QED BY <1>3, <1>4, SoundRequestsNext

\* An administrator's step moves no request.
LEMMA AdminStep ==
    ASSUME IInv, TypeOK', UNCHANGED <<seen401, req, audited, count401, restarts>>,
           \A o \in Requests : since'[o] \subseteq since[o] /\ chosen[o] \subseteq chosen'[o],
           \A o \in Requests : req[o].pc \notin {"idle", "done"} /\ req[o].project \in TestProjects =>
              scenario'[req[o].project] \in chosen'[o]
    PROVE  IInv'
  <1>1. FirstsRemembered /\ \A o \in Requests : Sound(o) BY SoundRequests
  <1>2. FirstsRemembered' BY <1>1 DEF FirstsRemembered
  <1>3. \A o \in Requests : Sound(o)' BY <1>1, OthersStaySound
  <1> QED BY <1>2, <1>3, SoundRequestsNext

\* At the start nobody asks for anything.
LEMMA InitEstablishes == ASSUME Configured, Init PROVE IInv
  <1>1. Idle \in RequestType
    BY DEF Idle, RequestType, FaultAnswers, Scenarios, PolicyScenarios, Default, NoProject
  <1>2. TypeOK BY <1>1 DEF Init, TypeOK
  <1>3. FirstsRemembered
    <2>1. \A k \in DOMAIN count401 : count401[k] = 0 BY DEF Init
    <2>2. restarts = 0 /\ seen401 = {} BY DEF Init
    <2> QED BY <2>1, <2>2 DEF FirstsRemembered
  <1>4. \A r \in Requests : Sound(r)
    <2> TAKE r \in Requests
    <2>1. req[r] = Idle BY DEF Init
    <2>2. /\ Idle.pc = "idle" /\ Idle.scen = "" /\ Idle.answer = "" /\ Idle.policy = Default
          /\ Idle.stored = FALSE
      BY DEF Idle
    <2> QED BY <2>1, <2>2 DEF Sound, Answered, FaultAnswers
  <1> QED BY <1>2, <1>3, <1>4, SoundRequests

\* Creating a rule: it was not in force throughout any request under way.
LEMMA CreatePreserves == ASSUME IInv, NEW d \in Drafts, Create(d) PROVE IInv'
  <1>1. /\ rules' = rules \cup {d}
        /\ UNCHANGED <<scenario, seen401, req, audited, since, chosen, count401, restarts>>
    BY DEF Create, marks
  <1>2. TypeOK /\ \A o \in Requests : Sound(o) BY SoundRequests
  <1>3. since' \in [Requests -> SUBSET rules'] BY <1>1, <1>2 DEF TypeOK
  <1>4. TypeOK' BY <1>1, <1>2, <1>3 DEF TypeOK
  <1>5. \A o \in Requests : req[o].pc \notin {"idle", "done"} /\ req[o].project \in TestProjects =>
              scenario'[req[o].project] \in chosen'[o]
    BY <1>1, <1>2 DEF Sound
  <1> QED BY <1>1, <1>4, <1>5, AdminStep

\* Deleting a rule ends its time in force.
LEMMA DeletePreserves == ASSUME IInv, NEW p \in Projects, NEW d \in Drafts, Delete(p, d) PROVE IInv'
  <1>1. /\ rules' = rules \ {d} /\ since' = [r \in Requests |-> since[r] \ {d}]
        /\ UNCHANGED <<scenario, seen401, req, audited, chosen, count401, restarts>>
    BY DEF Delete
  <1>2. TypeOK /\ \A o \in Requests : Sound(o) BY SoundRequests
  <1>3. since' \in [Requests -> SUBSET rules'] BY <1>1, <1>2 DEF TypeOK
  <1>4. TypeOK' BY <1>1, <1>2, <1>3 DEF TypeOK
  <1>5. \A o \in Requests : req[o].pc \notin {"idle", "done"} /\ req[o].project \in TestProjects =>
              scenario'[req[o].project] \in chosen'[o]
    BY <1>1, <1>2 DEF Sound
  <1> QED BY <1>1, <1>4, <1>5, AdminStep

\* A scenario the owner selects is one of those chosen during every request of
\* the project that is under way.
LEMMA ControlPreserves ==
    ASSUME IInv, NEW p \in Projects, NEW s \in Chosen, handleSDKTestControl(p, s) PROVE IInv'
  <1>1. /\ s \in Scenarios \cup {""} /\ scenario' = [scenario EXCEPT ![p] = s]
        /\ chosen' = [r \in Requests |-> IF r \in Serving /\ req[r].project = p
                                         THEN chosen[r] \cup {s} ELSE chosen[r]]
        /\ UNCHANGED <<rules, seen401, req, audited, since, count401, restarts>>
    BY DEF handleSDKTestControl
  <1>2. TypeOK /\ \A o \in Requests : Sound(o) BY SoundRequests
  <1>3. TypeOK' BY <1>1, <1>2 DEF TypeOK
  <1>4. \A o \in Requests : req[o].pc \notin {"idle", "done"} /\ req[o].project \in TestProjects =>
              scenario'[req[o].project] \in chosen'[o]
    <2> SUFFICES ASSUME NEW o \in Requests, req[o].pc \notin {"idle", "done"},
                        req[o].project \in TestProjects
                 PROVE  scenario'[req[o].project] \in chosen'[o]
      OBVIOUS
    <2>1. o \in Serving BY DEF Serving
    <2>2. scenario[req[o].project] \in chosen[o] BY <1>2 DEF Sound
    <2> QED BY <1>1, <1>2, <2>1, <2>2 DEF TypeOK
  <1> QED BY <1>1, <1>3, <1>4, AdminStep

\* Archiving decides only which scenario is read later.
LEMMA ArchivePreserves == ASSUME IInv, NEW p \in Projects, ArchiveOrRestore(p) PROVE IInv'
  <1>1. UNCHANGED <<rules, scenario, seen401, req, audited, since, chosen, count401, restarts>>
    BY DEF ArchiveOrRestore, marks
  <1>2. TypeOK /\ \A o \in Requests : Sound(o) BY SoundRequests
  <1>3. TypeOK' BY <1>1, <1>2 DEF TypeOK
  <1>4. \A o \in Requests : req[o].pc \notin {"idle", "done"} /\ req[o].project \in TestProjects =>
              scenario'[req[o].project] \in chosen'[o]
    BY <1>1, <1>2 DEF Sound
  <1> QED BY <1>1, <1>3, <1>4, AdminStep

\* A request begins: the rules of this moment are in force, the scenario of this
\* moment is chosen.
LEMMA BeginPreserves ==
    ASSUME Configured, IInv, NEW r \in Requests, NEW kind \in {"batch", "policy"},
           NEW p \in Projects \cup {NoProject}, NEW i \in Installs, NEW token \in BOOLEAN,
           NEW header \in Chosen \cup {""}, Begin(r, kind, p, i, token, header)
    PROVE  IInv'
  <1> DEFINE u == [Idle EXCEPT !.pc = "scenario", !.kind = kind, !.project = p,
                               !.install = i, !.token = token, !.header = header]
  <1>1. /\ req' = [req EXCEPT ![r] = u]
        /\ since' = [since EXCEPT ![r] = rules]
        /\ chosen' = [chosen EXCEPT ![r] = IF p \in TestProjects THEN {scenario[p]} ELSE {}]
        /\ UNCHANGED <<rules, scenario, seen401, audited, count401, restarts>>
    BY DEF Begin, At, admin
  <1>2. /\ u \in RequestType /\ u.pc = "scenario" /\ u.install = i /\ u.project = p
        /\ u.scen = "" /\ u.answer = "" /\ u.policy = Default /\ u.stored = FALSE
    BY DEF Idle, RequestType, FaultAnswers, Scenarios, PolicyScenarios, Default, NoProject
  <1> HIDE DEF u
  <1>3. TypeOK /\ FirstsRemembered /\ \A o \in Requests : Sound(o) BY SoundRequests
  <1>4. TypeOK'
    <2>1. chosen' \in [Requests -> SUBSET (Scenarios \cup {""})] BY <1>1, <1>3 DEF TypeOK
    <2>2. since' \in [Requests -> SUBSET rules'] BY <1>1, <1>3 DEF TypeOK
    <2> QED BY <1>1, <1>2, <1>3, <2>1, <2>2 DEF TypeOK
  <1>5. FirstsRemembered' BY <1>1, <1>3 DEF FirstsRemembered
  <1>6. Sound(r)'
    <2>1. req'[r] = u /\ (p \in TestProjects => scenario'[p] \in chosen'[r]) BY <1>1, <1>3 DEF TypeOK
    <2> QED BY <1>2, <2>1 DEF Sound, Answered, FaultAnswers
  <1>7. \A o \in Requests : o # r => Sound(o)'
    <2> TAKE o \in Requests
    <2> HAVE o # r
    <2>1. req'[o] = req[o] /\ since'[o] = since[o] /\ chosen'[o] = chosen[o] BY <1>1, <1>3 DEF TypeOK
    <2>2. Sound(o) BY <1>3
    <2>3. req[o].pc \notin {"idle", "done"} /\ req[o].project \in TestProjects =>
              scenario'[req[o].project] \in chosen'[o]
      BY <1>1, <2>1, <2>2 DEF Sound
    <2> QED BY <1>1, <2>1, <2>2, <2>3, OthersStaySound
  <1> QED BY <1>4, <1>5, <1>6, <1>7, SoundRequestsNext

\* A request that moves on with what it is: whose it is, which rule and scenario
\* it has do not change.
LEMMA SameMatches ==
    ASSUME NEW r \in Requests, req'[r].project = req[r].project, req'[r].install = req[r].install
    PROVE  \A d : Matches(d, r)' <=> Matches(d, r)
  BY DEF Matches

\* A step that counts no 401 and forgets none.
LEMMA SameFirsts ==
    ASSUME IInv, UNCHANGED <<seen401, count401, restarts>>
    PROVE  FirstsRemembered' /\ count401' \in [(Projects \cup {NoProject}) \X Installs -> Nat]
  BY DEF IInv, TypeOK, FirstsRemembered

\* The scenario a request reads is its project's of this moment, read with the
\* project's token, or the header's if it names no project.
LEMMA ReadScenarioPreserves ==
    ASSUME Configured, IInv, NEW r \in Requests, ReadScenario(r) PROVE IInv'
  <1>1. TypeOK /\ Sound(r) BY SoundRequests
  <1>2. PICK s \in {sdkTestScenario(r), ControllerScenario(r)} :
          At(r, "scenario", [req[r] EXCEPT !.scen = s,
                              !.pc = IF req[r].kind = "batch" THEN "fault" ELSE "authorize"])
    BY DEF ReadScenario
  <1> DEFINE w == IF req[r].kind = "batch" THEN "fault" ELSE "authorize"
             u == [req[r] EXCEPT !.scen = s, !.pc = w]
  <1>3. /\ req[r].pc = "scenario" /\ req' = [req EXCEPT ![r] = u]
        /\ UNCHANGED <<admin, marks, restarts, rules, scenario, since, chosen, seen401, audited, count401>>
    BY <1>2 DEF ReadScenario, At, Kept, admin, marks
  <1>4. req[r] \in RequestType /\ scenario \in [TestProjects -> Scenarios \cup {""}] BY <1>1 DEF TypeOK
  <1>5. /\ s \in Scenarios \cup {""}
        /\ s # "" /\ req[r].project # NoProject =>
              req[r].project \in TestProjects /\ req[r].token /\ s \in chosen[r]
    <2>1. s # "" /\ req[r].project # NoProject =>
              s = scenario[req[r].project] /\ req[r].project \in TestProjects /\ req[r].token
      BY <1>2 DEF sdkTestScenario, ControllerScenario
    <2>2. s \in Scenarios \cup {""} BY <1>2, <1>4 DEF sdkTestScenario, ControllerScenario
    <2> QED BY <1>1, <1>3, <2>1, <2>2 DEF Sound
  <1>6. /\ u \in RequestType /\ u.pc \in {"fault", "authorize"} /\ u.scen = s
        /\ u.project = req[r].project /\ u.install = req[r].install /\ u.token = req[r].token
        /\ u.answer = req[r].answer /\ u.policy = req[r].policy /\ u.stored = req[r].stored
    <2>1. w \in {"fault", "authorize"} OBVIOUS
    <2> HIDE DEF w
    <2>2. u = [[req[r] EXCEPT !.scen = s] EXCEPT !.pc = w] OBVIOUS
    <2>3. [req[r] EXCEPT !.scen = s] \in RequestType BY <1>4, <1>5 DEF RequestType
    <2>4. u \in RequestType BY <2>1, <2>2, <2>3 DEF RequestType
    <2>5. u.pc = w /\ u.scen = s BY <1>4, <2>2 DEF RequestType
    <2> QED BY <1>4, <2>1, <2>2, <2>4, <2>5 DEF RequestType
  <1> HIDE DEF u
  <1>7. req'[r] = u BY <1>1, <1>3 DEF TypeOK
  <1>8. Sound(r)' BY <1>1, <1>3, <1>5, <1>6, <1>7 DEF Sound, Answered, FaultAnswers
  <1>9. FirstsRemembered' /\ count401' \in [(Projects \cup {NoProject}) \X Installs -> Nat]
    BY <1>3, SameFirsts
  <1>10. audited \subseteq audited' /\ audited' \subseteq Requests BY <1>1, <1>3 DEF TypeOK
  <1> QED BY <1>3, <1>6, <1>8, <1>9, <1>10, RequestStep

\* A scripted refusal comes before anything is stored; the first 401 of an
\* installation is counted when it is remembered.
LEMMA BatchTestFailurePreserves ==
    ASSUME Configured, IInv, NEW r \in Requests, BatchTestFailure(r) PROVE IInv'
  <1> DEFINE k == <<req[r].project, req[r].install>>
             first == req[r].scen = "unauthorized_once" /\ k \notin seen401
             code == CASE first -> "test_401"
                       [] req[r].scen = "payload_too_large" -> "test_413"
                       [] req[r].scen = "rate_limited" -> "test_429"
                       [] OTHER -> ""
             u == IF code = "" THEN [req[r] EXCEPT !.pc = "authorize"] ELSE Answer(r, code)
  <1>1. TypeOK /\ FirstsRemembered /\ Sound(r) BY SoundRequests
  <1>2. /\ req[r].pc = "fault" /\ req' = [req EXCEPT ![r] = u]
        /\ IF req[r].scen = "unauthorized_once" THEN FirstUnauthorized(r) ELSE UNCHANGED seen401
        /\ count401' = [count401 EXCEPT ![k] = IF first THEN @ + 1 ELSE @]
        /\ UNCHANGED <<admin, marks, restarts, rules, scenario, since, chosen, audited>>
    <2>1. /\ At(r, "fault", u)
          /\ IF req[r].scen = "unauthorized_once" THEN FirstUnauthorized(r) ELSE UNCHANGED seen401
          /\ count401' = [count401 EXCEPT ![k] = IF first THEN @ + 1 ELSE @]
          /\ UNCHANGED <<Kept, audited, errors>>
      BY Zenon DEF BatchTestFailure
    <2>2. UNCHANGED <<admin, marks, restarts, rules, scenario, since, chosen, audited>>
      BY <2>1 DEF Kept, admin, marks
    <2>3. req[r].pc = "fault" /\ req' = [req EXCEPT ![r] = u] BY <2>1 DEF At
    <2> QED BY <2>1, <2>2, <2>3
  <1>3. req[r] \in RequestType /\ req[r].install \in Installs /\ k \in (Projects \cup {NoProject}) \X Installs
    BY <1>1, <1>2 DEF TypeOK, Sound, RequestType
  <1>4. /\ code \in {"", "test_401", "test_413", "test_429"}
        /\ code # "" => req[r].scen # ""
    BY DEF Scenarios
  <1>5. seen401' = IF req[r].scen = "unauthorized_once" THEN seen401 \cup {k} ELSE seen401
    BY <1>2 DEF FirstUnauthorized
  <1>6. count401 \in [(Projects \cup {NoProject}) \X Installs -> Nat] /\ restarts \in Nat BY <1>1 DEF TypeOK
  <1> HIDE DEF k
  <1>7. count401' \in [(Projects \cup {NoProject}) \X Installs -> Nat]
    <2>1. count401[k] \in Nat BY <1>3, <1>6
    <2>2. (IF first THEN count401[k] + 1 ELSE count401[k]) \in Nat BY <2>1
    <2> QED BY <1>2, <1>3, <1>6, <2>2
  <1>8. FirstsRemembered'
    <2> SUFFICES ASSUME NEW x \in (Projects \cup {NoProject}) \X Installs
                 PROVE  count401'[x] <= restarts + (IF x \in seen401' THEN 1 ELSE 0)
      BY <1>2, <1>7 DEF FirstsRemembered
    <2>1. count401[x] <= restarts + (IF x \in seen401 THEN 1 ELSE 0) /\ count401[x] \in Nat
      BY <1>1, <1>6 DEF FirstsRemembered
    <2>2. CASE x = k /\ first
      <3>1. count401'[x] = count401[x] + 1 /\ x \notin seen401 /\ x \in seen401'
        BY <1>2, <1>5, <1>6, <2>2
      <3> QED BY <1>6, <2>1, <3>1
    <2>3. CASE ~(x = k /\ first)
      <3>1. count401'[x] = count401[x] /\ (x \in seen401 => x \in seen401')
        BY <1>2, <1>5, <1>6, <2>3
      <3> QED BY <1>6, <2>1, <3>1
    <2> QED BY <2>2, <2>3
  <1> HIDE DEF code
  <1>9. CASE code = ""
    <2>1. u = [req[r] EXCEPT !.pc = "authorize"] BY <1>9
    <2>2. /\ u \in RequestType /\ u.pc = "authorize" /\ u.scen = req[r].scen
          /\ u.project = req[r].project /\ u.install = req[r].install /\ u.token = req[r].token
          /\ u.answer = req[r].answer /\ u.policy = req[r].policy /\ u.stored = req[r].stored
      BY <1>3, <2>1 DEF RequestType
    <2> HIDE DEF u
    <2>3. req'[r] = u BY <1>1, <1>2 DEF TypeOK
    <2>4. Sound(r)' BY <1>1, <1>2, <2>2, <2>3 DEF Sound, Answered, FaultAnswers
    <2>5. audited \subseteq audited' /\ audited' \subseteq Requests BY <1>1, <1>2 DEF TypeOK
    <2> QED BY <1>2, <1>7, <1>8, <2>2, <2>4, <2>5, RequestStep
  <1>10. CASE code # ""
    <2>1. u = [req[r] EXCEPT !.pc = "done", !.answer = code] BY <1>10 DEF Answer
    <2>2. /\ u \in RequestType /\ u.pc = "done" /\ u.scen = req[r].scen /\ u.answer = code
          /\ u.project = req[r].project /\ u.install = req[r].install /\ u.token = req[r].token
          /\ u.policy = req[r].policy /\ u.stored = req[r].stored
      BY <1>3, <1>4, <2>1 DEF RequestType, FaultAnswers
    <2> HIDE DEF u
    <2>3. req'[r] = u BY <1>1, <1>2 DEF TypeOK
    <2>4. Sound(r)' BY <1>1, <1>2, <1>4, <1>10, <2>2, <2>3 DEF Sound, Answered, FaultAnswers
    <2>5. audited \subseteq audited' /\ audited' \subseteq Requests BY <1>1, <1>2 DEF TypeOK
    <2> QED BY <1>2, <1>7, <1>8, <2>2, <2>4, <2>5, RequestStep
  <1> QED BY <1>9, <1>10

\* A request's record when it has ended, and when its answer carries a policy.
Ended(q, code) == [q EXCEPT !.pc = "done", !.answer = code]
Carrying(q, pol) == [q EXCEPT !.policy = pol]
Answers == FaultAnswers \cup {"", "ok", "failed", "refused"}
Policies == Drafts \cup {Default} \cup PolicyScenarios

\* The type of a request's record, with what an answer may be kept as it is.
LEMMA RecordType ==
    RequestType =
      [pc : {"idle", "scenario", "fault", "authorize", "match", "audit", "finish", "respond", "done"},
       kind : {"batch", "policy"}, project : Projects \cup {NoProject}, install : Installs \cup {Default},
       token : BOOLEAN, header : Chosen \cup {""}, scen : Scenarios \cup {""}, rule : Drafts \cup {Default},
       stored : BOOLEAN, answer : Answers, policy : Policies]
  BY DEF RequestType, Answers, Policies

\* What the end of a request leaves of its record.
LEMMA EndedRecord ==
    ASSUME NEW q \in RequestType, NEW code \in Answers
    PROVE  /\ Ended(q, code) \in RequestType
           /\ Ended(q, code).pc = "done" /\ Ended(q, code).answer = code
           /\ Ended(q, code).rule = q.rule /\ Ended(q, code).scen = q.scen
           /\ Ended(q, code).project = q.project /\ Ended(q, code).token = q.token
           /\ Ended(q, code).install = q.install
           /\ Ended(q, code).policy = q.policy /\ Ended(q, code).stored = q.stored
  <1>1. Ended(q, code) \in RequestType BY RecordType DEF Ended
  <1> QED BY <1>1, RecordType DEF Ended

\* What a policy leaves of it.
LEMMA CarryingRecord ==
    ASSUME NEW q \in RequestType, NEW pol \in Policies
    PROVE  /\ Carrying(q, pol) \in RequestType
           /\ Carrying(q, pol).pc = q.pc /\ Carrying(q, pol).answer = q.answer
           /\ Carrying(q, pol).policy = pol
           /\ Carrying(q, pol).rule = q.rule /\ Carrying(q, pol).scen = q.scen
           /\ Carrying(q, pol).project = q.project /\ Carrying(q, pol).token = q.token
           /\ Carrying(q, pol).install = q.install /\ Carrying(q, pol).stored = q.stored
  <1>1. Carrying(q, pol) \in RequestType BY RecordType DEF Carrying
  <1> QED BY <1>1, RecordType DEF Carrying

\* A request under way that is refused or fails.
LEMMA AnswerIsSound ==
    ASSUME TypeOK, NEW r \in Requests, Sound(r), NEW code \in {"refused", "failed"},
           req[r].pc # "done", req'[r] = Answer(r, code), chosen' = chosen
    PROVE  Answer(r, code) \in RequestType /\ Sound(r)'
  <1>1. req[r] \in RequestType BY DEF TypeOK
  <1> DEFINE u == Answer(r, code)
  <1>2. /\ u \in RequestType /\ u.pc = "done" /\ u.scen = req[r].scen /\ u.answer = code
        /\ u.project = req[r].project /\ u.token = req[r].token
        /\ u.policy = req[r].policy /\ u.stored = req[r].stored
    <2>1. u = Ended(req[r], code) BY DEF Answer, Ended
    <2> HIDE DEF u
    <2>2. code \in Answers BY DEF Answers
    <2> QED BY <1>1, <2>1, <2>2, EndedRecord
  <1> HIDE DEF u
  <1>3. req'[r] = u BY DEF u
  <1>4. Sound(r)' BY <1>2, <1>3 DEF Sound, Answered, FaultAnswers
  <1> QED BY <1>2, <1>4 DEF u

\* Any of the checks before the store refuses.
LEMMA RefusePreserves == ASSUME IInv, NEW r \in Requests, Refuse(r) PROVE IInv'
  <1>1. TypeOK /\ Sound(r) BY SoundRequests
  <1>2. /\ req[r].pc = "authorize" /\ req' = [req EXCEPT ![r] = Answer(r, "refused")]
        /\ UNCHANGED <<admin, marks, restarts, chosen, seen401, audited, count401>>
    BY DEF Refuse, At, Kept, marks
  <1>3. req'[r] = Answer(r, "refused") BY <1>1, <1>2 DEF TypeOK
  <1>4. Answer(r, "refused") \in RequestType /\ Sound(r)' BY <1>1, <1>2, <1>3, AnswerIsSound
  <1>5. audited \subseteq audited' /\ audited' \subseteq Requests BY <1>1, <1>2 DEF TypeOK
  <1> QED BY <1>2, <1>4, <1>5, SameFirsts, RequestStep

\* What a batch stores it stores here.
LEMMA AuthorizePreserves == ASSUME IInv, NEW r \in Requests, Authorize(r) PROVE IInv'
  <1> DEFINE b == (req[r].kind = "batch")
             u == [req[r] EXCEPT !.pc = "match", !.stored = b]
  <1>1. TypeOK /\ Sound(r) BY SoundRequests
  <1>2. /\ req[r].pc = "authorize" /\ req' = [req EXCEPT ![r] = u]
        /\ UNCHANGED <<admin, marks, restarts, scenario, chosen, seen401, audited, count401>>
    BY DEF Authorize, At, Kept, admin, marks
  <1>3. req[r] \in RequestType BY <1>1 DEF TypeOK
  <1>4. b \in BOOLEAN OBVIOUS
  <1>5. /\ u \in RequestType /\ u.pc = "match" /\ u.scen = req[r].scen /\ u.answer = req[r].answer
        /\ u.project = req[r].project /\ u.token = req[r].token /\ u.install = req[r].install
        /\ u.policy = req[r].policy /\ u.stored = b /\ u.kind = req[r].kind
    <2> HIDE DEF b
    <2> QED BY <1>3, <1>4 DEF RequestType
  <1> HIDE DEF u
  <1>6. req'[r] = u BY <1>1, <1>2 DEF TypeOK
  <1>7. Sound(r)' BY <1>1, <1>2, <1>5, <1>6 DEF Sound, Answered, FaultAnswers
  <1>8. audited \subseteq audited' /\ audited' \subseteq Requests BY <1>1, <1>2 DEF TypeOK
  <1> QED BY <1>2, <1>5, <1>7, <1>8, SameFirsts, RequestStep

\* The rule that is matched is the most specific of those there are, and so at
\* least as specific as any that was there all the time.
LEMMA MatchPolicyPreserves == ASSUME Configured, IInv, NEW r \in Requests, MatchPolicy(r) PROVE IInv'
  <1>1. TypeOK /\ Sound(r) BY SoundRequests
  <1>2. PICK d \in matchPolicyRow(r) :
          At(r, "match", [req[r] EXCEPT !.rule = d, !.pc = IF d = Default THEN "finish" ELSE "audit"])
    BY DEF MatchPolicy
  <1> DEFINE w == IF d = Default THEN "finish" ELSE "audit"
             u == [req[r] EXCEPT !.rule = d, !.pc = w]
  <1>3. /\ req[r].pc = "match" /\ req' = [req EXCEPT ![r] = u]
        /\ UNCHANGED <<admin, marks, restarts, scenario, since, chosen, seen401, audited, count401>>
    BY <1>2 DEF MatchPolicy, At, Kept, admin, marks
  <1>4. req[r] \in RequestType /\ since[r] \subseteq rules /\ rules \subseteq Drafts BY <1>1 DEF TypeOK
  <1>5. /\ d \in Drafts \cup {Default} /\ (d # Default => d \in rules /\ Matches(d, r))
        /\ \A e \in rules : Matches(e, r) => d # Default /\ Specificity(d) >= Specificity(e)
    <2> DEFINE found == {e \in rules : Matches(e, r)}
    <2>1. CASE found = {}
      <3>1. d = Default BY <1>2, <2>1 DEF matchPolicyRow
      <3> QED BY <2>1, <3>1
    <2>2. CASE found # {}
      <3>1. d \in found /\ \A e \in found : Specificity(d) >= Specificity(e)
        BY <1>2, <2>2 DEF matchPolicyRow
      <3>2. Default \notin Drafts BY DEF Configured
      <3> QED BY <1>4, <3>1, <3>2
    <2> QED BY <2>1, <2>2
  <1>6. w \in {"finish", "audit"} /\ (w = "finish" <=> d = Default) OBVIOUS
  <1>7. /\ u \in RequestType /\ u.pc = w /\ u.rule = d /\ u.scen = req[r].scen /\ u.answer = req[r].answer
        /\ u.project = req[r].project /\ u.token = req[r].token /\ u.install = req[r].install
        /\ u.policy = req[r].policy /\ u.stored = req[r].stored /\ u.kind = req[r].kind
    <2> HIDE DEF w
    <2>1. [req[r] EXCEPT !.rule = d] \in RequestType BY <1>4, <1>5 DEF RequestType
    <2>2. u = [[req[r] EXCEPT !.rule = d] EXCEPT !.pc = w] OBVIOUS
    <2>3. u \in RequestType BY <1>6, <2>1, <2>2 DEF RequestType
    <2> QED BY <1>4, <2>2, <2>3 DEF RequestType
  <1> HIDE DEF u, w
  <1>8. req'[r] = u BY <1>1, <1>3 DEF TypeOK
  <1>9. \A e : Matches(e, r)' <=> Matches(e, r) BY <1>7, <1>8, SameMatches
  <1>10. Sound(r)'
    BY <1>1, <1>3, <1>4, <1>5, <1>6, <1>7, <1>8, <1>9 DEF Sound, Answered, FaultAnswers
  <1>11. audited \subseteq audited' /\ audited' \subseteq Requests BY <1>1, <1>3 DEF TypeOK
  <1> QED BY <1>3, <1>7, <1>10, <1>11, SameFirsts, RequestStep

\* The decision is in the audit log before the request goes on.
LEMMA MatchPolicyAuditedPreserves ==
    ASSUME IInv, NEW r \in Requests, MatchPolicyAudited(r) PROVE IInv'
  <1>1. TypeOK /\ Sound(r) BY SoundRequests
  <1>2. req[r] \in RequestType /\ req[r].pc = "audit" /\ req \in [Requests -> RequestType]
    BY <1>1 DEF TypeOK, MatchPolicyAudited, At
  <1>3. UNCHANGED <<admin, marks, restarts, scenario, since, chosen, seen401, count401>>
    BY DEF MatchPolicyAudited, Kept, admin, marks
  <1>4. audited \subseteq audited' /\ audited' \subseteq Requests BY <1>1 DEF TypeOK, MatchPolicyAudited
  <1> DEFINE u == [req[r] EXCEPT !.pc = "finish"]
  <1>5. CASE req' = [req EXCEPT ![r] = u] /\ audited' = audited \cup {r}
    <2>1. /\ u \in RequestType /\ u.pc = "finish" /\ u.rule = req[r].rule /\ u.scen = req[r].scen
          /\ u.project = req[r].project /\ u.token = req[r].token /\ u.install = req[r].install
          /\ u.policy = req[r].policy /\ u.stored = req[r].stored /\ u.kind = req[r].kind
          /\ u.answer = req[r].answer
      BY <1>2 DEF RequestType
    <2> HIDE DEF u
    <2>2. req'[r] = u BY <1>2, <1>5
    <2>3. \A e : Matches(e, r)' <=> Matches(e, r) BY <2>1, <2>2, SameMatches
    <2>4. Sound(r)' BY <1>1, <1>2, <1>3, <1>5, <2>1, <2>2, <2>3 DEF Sound, Answered, FaultAnswers
    <2> QED BY <1>3, <1>4, <1>5, <2>1, <2>4, SameFirsts, RequestStep
  <1>6. CASE req' = [req EXCEPT ![r] = Answer(r, "failed")]
    <2>1. req'[r] = Answer(r, "failed") BY <1>2, <1>6
    <2>2. Answer(r, "failed") \in RequestType /\ Sound(r)' BY <1>1, <1>2, <1>3, <2>1, AnswerIsSound
    <2> QED BY <1>3, <1>4, <1>6, <2>2, SameFirsts, RequestStep
  <1> QED BY <1>5, <1>6 DEF MatchPolicyAudited, At

\* The statements after the match decide nothing about the policy.
LEMMA FinishPreserves == ASSUME IInv, NEW r \in Requests, Finish(r) PROVE IInv'
  <1>1. TypeOK /\ Sound(r) BY SoundRequests
  <1>2. req[r] \in RequestType /\ req[r].pc = "finish" /\ req \in [Requests -> RequestType]
    BY <1>1 DEF TypeOK, Finish, At
  <1>3. UNCHANGED <<admin, marks, restarts, scenario, since, chosen, seen401, count401, audited>>
    BY DEF Finish, Kept, admin, marks
  <1>4. audited \subseteq audited' /\ audited' \subseteq Requests BY <1>1, <1>3 DEF TypeOK
  <1> DEFINE u == [req[r] EXCEPT !.pc = "respond"]
  <1>5. CASE req' = [req EXCEPT ![r] = u]
    <2>1. /\ u \in RequestType /\ u.pc = "respond" /\ u.rule = req[r].rule /\ u.scen = req[r].scen
          /\ u.project = req[r].project /\ u.token = req[r].token /\ u.install = req[r].install
          /\ u.policy = req[r].policy /\ u.stored = req[r].stored /\ u.kind = req[r].kind
          /\ u.answer = req[r].answer
      BY <1>2 DEF RequestType
    <2> HIDE DEF u
    <2>2. req'[r] = u BY <1>2, <1>5
    <2>3. \A e : Matches(e, r)' <=> Matches(e, r) BY <2>1, <2>2, SameMatches
    <2>4. Sound(r)' BY <1>1, <1>2, <1>3, <1>5, <2>1, <2>2, <2>3 DEF Sound, Answered, FaultAnswers
    <2> QED BY <1>3, <1>4, <1>5, <2>1, <2>4, SameFirsts, RequestStep
  <1>6. CASE req' = [req EXCEPT ![r] = Answer(r, "failed")]
    <2>1. req'[r] = Answer(r, "failed") BY <1>2, <1>6
    <2>2. Answer(r, "failed") \in RequestType /\ Sound(r)' BY <1>1, <1>2, <1>3, <2>1, AnswerIsSound
    <2> QED BY <1>3, <1>4, <1>6, <2>2, SameFirsts, RequestStep
  <1> QED BY <1>5, <1>6 DEF Finish, At

\* The answer: the scripted policy, or the rule that was matched and audited; an
\* acknowledgement is lost only when the batch is stored.
LEMMA RespondPreserves == ASSUME Configured, IInv, NEW r \in Requests, Respond(r) PROVE IInv'
  <1> DEFINE pol == IF req[r].scen \in PolicyScenarios THEN req[r].scen ELSE req[r].rule
             ok == [Answer(r, "ok") EXCEPT !.policy = pol]
             u == IF Lost(r) THEN Answer(r, "aborted") ELSE ok
  <1>1. TypeOK /\ Sound(r) BY SoundRequests
  <1>2. /\ req[r].pc = "respond" /\ req' = [req EXCEPT ![r] = u]
        /\ UNCHANGED <<admin, marks, restarts, scenario, since, chosen, seen401, audited, count401>>
    BY DEF Respond, At, Kept, admin, marks
  <1>3. req[r] \in RequestType /\ req \in [Requests -> RequestType] BY <1>1 DEF TypeOK
  <1>4. audited \subseteq audited' /\ audited' \subseteq Requests BY <1>1, <1>2 DEF TypeOK
  <1>5. CASE Lost(r)
    <2>1. u = Ended(req[r], "aborted") BY <1>5 DEF Answer, Ended
    <2>2. /\ u \in RequestType /\ u.pc = "done" /\ u.scen = req[r].scen /\ u.answer = "aborted"
          /\ u.project = req[r].project /\ u.token = req[r].token
          /\ u.policy = req[r].policy /\ u.stored = req[r].stored
      <3> HIDE DEF u
      <3>1. "aborted" \in Answers BY DEF FaultAnswers, Answers
      <3> QED BY <1>3, <2>1, <3>1, EndedRecord
    <2> HIDE DEF u
    <2>3. req'[r] = u BY <1>2, <1>3
    <2>4. Sound(r)' BY <1>1, <1>2, <1>5, <2>2, <2>3 DEF Sound, Answered, FaultAnswers, Lost
    <2> QED BY <1>2, <1>4, <2>2, <2>4, SameFirsts, RequestStep
  <1>6. CASE ~Lost(r)
    <2>1. pol \in Policies BY <1>3 DEF RequestType, Policies
    <2>2. /\ u \in RequestType /\ u.pc = "done" /\ u.answer = "ok" /\ u.policy = pol
          /\ u.rule = req[r].rule /\ u.scen = req[r].scen /\ u.project = req[r].project
          /\ u.token = req[r].token /\ u.install = req[r].install /\ u.stored = req[r].stored
      <3> HIDE DEF pol
      <3>1. u = Carrying(Ended(req[r], "ok"), pol) BY <1>6 DEF Answer, Ended, Carrying
      <3> HIDE DEF u
      <3>2. "ok" \in Answers BY DEF Answers
      <3> DEFINE v == Ended(req[r], "ok")
      <3>3. /\ v \in RequestType /\ v.pc = "done" /\ v.answer = "ok" /\ v.rule = req[r].rule
            /\ v.scen = req[r].scen /\ v.project = req[r].project /\ v.token = req[r].token
            /\ v.install = req[r].install /\ v.stored = req[r].stored
        BY <1>3, <3>2, EndedRecord
      <3> HIDE DEF v
      <3>4. u = Carrying(v, pol) BY <3>1 DEF v
      <3>5. /\ u \in RequestType /\ u.pc = v.pc /\ u.answer = v.answer /\ u.policy = pol
            /\ u.rule = v.rule /\ u.scen = v.scen /\ u.project = v.project
            /\ u.token = v.token /\ u.install = v.install /\ u.stored = v.stored
        BY <2>1, <3>3, <3>4, CarryingRecord
      <3> QED BY <3>3, <3>5
    <2> HIDE DEF u
    <2>3. req'[r] = u BY <1>2, <1>3
    <2>4. \A e : Matches(e, r)' <=> Matches(e, r) BY <2>2, <2>3, SameMatches
    <2>5. Sound(r)' BY <1>1, <1>2, <2>2, <2>3, <2>4 DEF Sound, Answered, FaultAnswers
    <2> QED BY <1>2, <1>4, <2>2, <2>5, SameFirsts, RequestStep
  <1> QED BY <1>5, <1>6

\* A restart forgets who met the scripted 401, and counts itself.
LEMMA RestartPreserves == ASSUME IInv, Restart PROVE IInv'
  <1>1. TypeOK /\ FirstsRemembered /\ \A o \in Requests : Sound(o) BY SoundRequests
  <1>2. /\ restarts' = restarts + 1
        /\ req' = [r \in Requests |-> IF r \in Serving THEN Answer(r, "failed") ELSE req[r]]
        /\ UNCHANGED <<rules, scenario, audited, since, chosen, count401>>
    BY DEF Restart, admin, marks
  <1>3. \A o \in Requests : req'[o] \in RequestType /\ Sound(o)'
    <2> TAKE o \in Requests
    <2>1. CASE o \in Serving
      <3>1. req'[o] = Answer(o, "failed") /\ req[o].pc # "done" BY <1>2, <2>1 DEF Serving
      <3> QED BY <1>1, <1>2, <3>1, AnswerIsSound
    <2>2. CASE o \notin Serving
      <3>1. req'[o] = req[o] /\ req[o].pc \in {"idle", "done"} BY <1>2, <2>2 DEF Serving
      <3> QED BY <1>1, <1>2, <3>1, OthersStaySound DEF TypeOK
    <2> QED BY <2>1, <2>2
  <1>4. restarts' \in Nat
    <2>1. restarts \in Nat BY <1>1 DEF TypeOK
    <2>2. restarts' = restarts + 1 BY <1>2
    <2> QED BY <2>1, <2>2
  <1>5. req' \in [Requests -> RequestType] BY <1>2, <1>3
  <1>6. TypeOK' BY <1>1, <1>2, <1>4, <1>5 DEF TypeOK
  <1>7. FirstsRemembered'
    <2> SUFFICES ASSUME NEW k \in DOMAIN count401
                 PROVE  count401[k] <= restarts' + (IF k \in seen401' THEN 1 ELSE 0)
      BY <1>2 DEF FirstsRemembered
    <2>1. count401[k] <= restarts + (IF k \in seen401 THEN 1 ELSE 0) BY <1>1 DEF FirstsRemembered
    <2>2. count401[k] \in Nat /\ restarts \in Nat BY <1>1 DEF TypeOK
    <2> QED BY <1>2, <2>1, <2>2
  <1> QED BY <1>3, <1>6, <1>7, SoundRequestsNext

\* A stutter.
LEMMA StutterPreserves == ASSUME IInv, UNCHANGED vars PROVE IInv'
  <1>1. UNCHANGED <<rules, scenario, seen401, req, audited, since, chosen, count401, restarts>> BY DEF vars
  <1>2. TypeOK /\ \A o \in Requests : Sound(o) BY SoundRequests
  <1>3. TypeOK' BY <1>1, <1>2 DEF TypeOK
  <1>4. \A o \in Requests : req[o].pc \notin {"idle", "done"} /\ req[o].project \in TestProjects =>
              scenario'[req[o].project] \in chosen'[o]
    BY <1>1, <1>2 DEF Sound
  <1> QED BY <1>1, <1>3, <1>4, AdminStep

\* The inductive step: one case per action.
LEMMA NextPreserves == ASSUME Configured, IInv, [Next]_vars PROVE IInv'
  <1>1. ASSUME NEW d \in Drafts, Create(d) \/ \E p \in Projects : Delete(p, d) PROVE IInv'
    BY <1>1, CreatePreserves, DeletePreserves
  <1>2. ASSUME NEW p \in Projects, ArchiveOrRestore(p) \/ \E s \in Chosen : handleSDKTestControl(p, s)
        PROVE  IInv'
    BY <1>2, ArchivePreserves, ControlPreserves
  <1>3. ASSUME NEW r \in Requests, NEW kind \in {"batch", "policy"}, NEW p \in Projects \cup {NoProject},
               NEW i \in Installs, NEW token \in BOOLEAN,
               NEW header \in IF p = NoProject THEN Chosen ELSE {""},
               Begin(r, kind, p, i, token, header)
        PROVE  IInv'
    <2>1. header \in Chosen \cup {""} OBVIOUS
    <2> QED BY <1>3, <2>1, BeginPreserves
  <1>4. ASSUME NEW r \in Requests,
               \/ ReadScenario(r) \/ BatchTestFailure(r) \/ Refuse(r) \/ Authorize(r)
               \/ MatchPolicy(r) \/ MatchPolicyAudited(r) \/ Finish(r) \/ Respond(r)
        PROVE  IInv'
    BY <1>4, ReadScenarioPreserves, BatchTestFailurePreserves, RefusePreserves, AuthorizePreserves,
       MatchPolicyPreserves, MatchPolicyAuditedPreserves, FinishPreserves, RespondPreserves
  <1> QED BY <1>1, <1>2, <1>3, <1>4, RestartPreserves, StutterPreserves DEF Next

\* The inductive invariant holds of every reachable state of a database in order
\* (Configured): the state between any two statements of any requests, while rules,
\* scenarios and projects change and the process restarts.
THEOREM Invariance == ASSUME Configured PROVE Spec => []IInv
  <1>1. Init => IInv BY InitEstablishes
  <1>2. IInv /\ [Next]_vars => IInv' BY NextPreserves
  <1> QED BY <1>1, <1>2, PTL DEF Spec

\* What the inductive invariant is for.
LEMMA SoundAnswers == ASSUME Configured, IInv PROVE AnswersFollowPolicy
  <1>1. TypeOK /\ FirstsRemembered /\ \A r \in Requests : Sound(r) BY SoundRequests
  <1>d. DOMAIN req = Requests BY <1>1 DEF TypeOK
  <1>2. ASSUME NEW r \in Requests, Answered(r), req[r].scen \notin PolicyScenarios
        PROVE  req[r].policy = req[r].rule
    BY <1>1, <1>2 DEF Sound
  <1>3. KillSwitchTakesEffect BY <1>1, <1>2, <1>d DEF KillSwitchTakesEffect, Sound
  <1>4. DecisionsAreAudited
    <2> SUFFICES ASSUME NEW r \in Requests, Answered(r), req[r].policy \in Drafts
                 PROVE  r \in audited
      BY <1>d DEF DecisionsAreAudited
    <2>1. req[r].policy # Default /\ req[r].policy \notin PolicyScenarios BY DEF Configured
    <2>2. req[r].policy = req[r].rule BY <1>1, <2>1 DEF Sound
    <2> QED BY <1>1, <2>1, <2>2 DEF Sound, Answered
  <1>5. FaultsOnlyWhereChosen
    <2> SUFFICES ASSUME NEW r \in Requests, req[r].project # NoProject,
                        req[r].answer \in FaultAnswers \/ req[r].policy \in PolicyScenarios
                 PROVE  req[r].project \in TestProjects /\ req[r].token /\ req[r].scen \in chosen[r]
      BY <1>d DEF FaultsOnlyWhereChosen
    <2>1. req[r].scen # ""
      <3>1. CASE req[r].answer \in FaultAnswers BY <1>1, <3>1 DEF Sound
      <3>2. CASE req[r].policy \in PolicyScenarios
        <4>1. req[r].policy # Default BY <3>2 DEF PolicyScenarios, Default
        <4>2. Answered(r) BY <1>1, <4>1 DEF Sound
        <4>3. req[r].rule \in Drafts \cup {Default} BY <1>1 DEF TypeOK, RequestType
        <4>4. req[r].rule \notin PolicyScenarios BY <4>3 DEF Configured, PolicyScenarios, Default
        <4>5. req[r].scen \in PolicyScenarios BY <1>1, <3>2, <4>2, <4>4 DEF Sound
        <4> QED BY <4>5 DEF PolicyScenarios
      <3> QED BY <3>1, <3>2
    <2> QED BY <1>1, <2>1 DEF Sound
  <1>6. FaultsKeepTheStore BY <1>1, <1>d DEF FaultsKeepTheStore, Sound
  <1>7. OnceInALife
    <2> SUFFICES ASSUME NEW k \in DOMAIN count401 PROVE count401[k] <= 1 + restarts BY DEF OnceInALife
    <2>1. count401[k] <= restarts + (IF k \in seen401 THEN 1 ELSE 0) /\ count401[k] \in Nat /\ restarts \in Nat
      BY <1>1 DEF FirstsRemembered, TypeOK
    <2> QED BY <2>1
  <1> QED BY <1>3, <1>4, <1>5, <1>6, <1>7 DEF AnswersFollowPolicy

\* Answers follow the policy in force, for any rules, any number of requests, any
\* restarts and any failing statement: a kill switch that was there from the
\* beginning of a request to its end takes effect on it, the decision is audited
\* first, faults are met only by the token and the scenario of a test project, a
\* refusal stores nothing, a lost answer follows the store, and an installation
\* meets the scripted 401 at most once in a life of the process.
THEOREM PolicyIsFollowed == ASSUME Configured PROVE Spec => []AnswersFollowPolicy
  <1>1. Configured /\ IInv => AnswersFollowPolicy BY SoundAnswers
  <1> QED BY <1>1, Invariance, PTL
=============================================================================
