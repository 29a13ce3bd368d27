---------------------------- MODULE AccessProofs ----------------------------
(***************************************************************************)
(* Proofs about Access, for any accounts, projects, tokens and calls, any  *)
(* number of requests at once and any timeouts.                            *)
(***************************************************************************)
EXTENDS Access, FiniteSetTheorems, TLAPS

\* What IInv says of one request about to commit a new password.
ResetOK(r) ==
    At(r, "commit") /\ req[r].call.reset =>
        \A t \in SessionsOf(req[r].call.user) :
            session[t].revoked \/ t \in req[r].ended \cup since[r].opened

\* What IInv says of one request.
RequestOK(r) ==
    /\ req[r].pc \in {"loadLogin", "insertSession"} => req[r].who # None /\ account[req[r].who].here
    /\ req[r].pc # "idle" => req[r].call \in Calls
    /\ req[r].pc \in {"lookup", "loadLogin", "insertSession", "auditLogin"} => Op(r) = "login"
    /\ req[r].pc \in {"validate", "touch", "load", "act", "auditLogout", "revoke"} \cup Updating =>
          req[r].call.token # None
    /\ req[r].pc = "revoke" => Op(r) = "accountUpdate"
    /\ req[r].pc \in Updating => Op(r) = "memberUpdate"
    /\ req[r].pc = "insert" => Op(r) \in {"accountCreate", "memberCreate", "createAdmin"}
    /\ req[r].pc = "role" \/ req[r].found => req[r].call.op = "memberUpdate" /\ req[r].call.role # None
    /\ ResetOK(r)
    /\ req[r].pc \in {"touch", "load"} =>
          /\ req[r].who = session[req[r].call.token].user
          /\ req[r].who # None
          /\ req[r].role = account[req[r].who].role
    /\ req[r].pc \in {"touch", "load", "act", "auditLogout", "revoke", "insert", "done"} \cup Updating
          /\ req[r].call.token # None => "session" \in held[r]
    /\ req[r].pc \in {"act", "auditLogout", "revoke", "insert", "done"} \cup Updating
          /\ req[r].call.token # None => "right" \in held[r]

\* What no step takes back: an account that is there and its role, the owner
\* of a session, and its end.
Lasting ==
    /\ \A u \in Users : account[u].here => account'[u].here /\ account'[u].role = account[u].role
    /\ \A t \in Tokens : session[t].user # None =>
          session'[t].user = session[t].user /\ (session[t].revoked => session'[t].revoked)

\* Sessions belong to accounts that are there.
SessionsBelong == \A t \in Tokens : session[t].user # None => account[session[t].user].here

\* The invariant, request by request.
LEMMA IInvByRequest ==
    IInv <=> TypeOK /\ SessionsBelong /\ StaleExplained /\ \A r \in Requests : RequestOK(r)
  BY DEF IInv, RowsAreThere, StagesFit, CallerIsKnown, SeenByStage, ResetSawTheRest, ResetOK,
         RequestOK, SessionsBelong, At

\* The same, of the next state.
LEMMA IInvByRequestNext ==
    ASSUME TypeOK', SessionsBelong', StaleExplained', \A r \in Requests : RequestOK(r)'
    PROVE  IInv'
  BY DEF IInv, RowsAreThere, StagesFit, CallerIsKnown, SeenByStage, ResetSawTheRest, ResetOK,
         RequestOK, SessionsBelong, At

\* A call that is made has the fields its operation needs.
LEMMA CallFacts ==
    ASSUME NEW call \in Calls
    PROVE  call \in CallType /\ WellFormed(call)
  BY CallsAssumption

\* Moving a request on changes its stage and nothing else.
LEMMA GotoFacts ==
    ASSUME TypeOK, NEW r \in Requests, NEW s \in Stages, Goto(r, s)
    PROVE  /\ req' \in [Requests -> RequestType]
           /\ req'[r] = [req[r] EXCEPT !.pc = s]
           /\ req'[r].pc = s /\ req'[r].call = req[r].call
           /\ req'[r].who = req[r].who /\ req'[r].role = req[r].role
           /\ req'[r].found = req[r].found /\ req'[r].ended = req[r].ended
           /\ \A o \in Requests : o # r => req'[o] = req[o]
  BY DEF TypeOK, Goto, RequestType

\* held never forgets while a request is open, and takes in what holds now.
LEMMA WitnessFacts ==
    ASSUME TypeOK, req' \in [Requests -> RequestType], Witness
    PROVE  /\ held' \in [Requests -> SUBSET {"session", "right"}]
           /\ \A r \in Requests : req'[r].pc # "idle" /\ req'[r].call.token # None =>
                 held'[r] = held[r] \cup HoldsNow(r)'
           /\ since' \in [Requests -> [opened : SUBSET Tokens, made : SUBSET Users]]
  <1>1. held' = [r \in Requests |->
                   IF req'[r].pc = "idle" \/ req'[r].call.token = None THEN {}
                   ELSE held[r] \cup HoldsNow(r)']
    BY DEF Witness
  <1>2. /\ held' \in [Requests -> SUBSET {"session", "right"}]
        /\ \A r \in Requests : req'[r].pc # "idle" /\ req'[r].call.token # None =>
              held'[r] = held[r] \cup HoldsNow(r)'
    BY <1>1 DEF TypeOK, HoldsNow
  <1>3. since' \in [Requests -> [opened : SUBSET Tokens, made : SUBSET Users]]
    BY DEF TypeOK, Witness, Nothing
  <1> QED BY <1>2, <1>3

\* What since takes in while a request stays at its COMMIT or its INSERT.
LEMMA SinceFacts ==
    ASSUME TypeOK, Witness, NEW r \in Requests, req[r].pc \in {"commit", "insert"},
           req'[r].pc = req[r].pc
    PROVE  /\ since'[r].opened = since[r].opened \cup
                {t \in Tokens : session[t].user = None /\ session'[t].user # None}
           /\ since'[r].made = since[r].made \cup
                {u \in Users : ~account[u].here /\ account'[u].here}
  BY DEF TypeOK, Witness

\* A reset that waits for its COMMIT still knows of every session it has not
\* ended: one that is opened meanwhile is taken in by since.
LEMMA ResetKeeps ==
    ASSUME TypeOK, Witness, Lasting, NEW o \in Requests, RequestOK(o), req'[o] = req[o]
    PROVE  ResetOK(o)'
  <1> SUFFICES ASSUME At(o, "commit"), req[o].call.reset, NEW t \in Tokens,
                      session'[t].user = req[o].call.user
               PROVE  session'[t].revoked \/ t \in req[o].ended \cup since'[o].opened
    BY DEF ResetOK, At, SessionsOf
  <1>1. req[o].pc = "commit" BY DEF At
  <1>2. Op(o) = "memberUpdate" /\ req[o].call \in Calls BY <1>1 DEF RequestOK, Updating
  <1>3. req[o].call.user # None BY <1>2, CallFacts DEF WellFormed, Op
  <1>4. since'[o].opened = since[o].opened \cup
                {x \in Tokens : session[x].user = None /\ session'[x].user # None}
    BY <1>1, SinceFacts
  <1>5. CASE session[t].user = None BY <1>3, <1>4, <1>5
  <1>6. CASE session[t].user # None
    <2>1. session[t].user = req[o].call.user /\ (session[t].revoked => session'[t].revoked)
      BY <1>6 DEF Lasting
    <2>2. session[t].revoked \/ t \in req[o].ended \cup since[o].opened
      BY <2>1 DEF RequestOK, ResetOK, SessionsOf
    <2> QED BY <1>4, <2>1, <2>2
  <1> QED BY <1>5, <1>6

\* A request that does not move keeps its part of the invariant.
LEMMA OthersKeep ==
    ASSUME TypeOK, TypeOK', Witness, Lasting, now' = now, SessionsBelong,
           NEW o \in Requests, RequestOK(o), req'[o] = req[o]
    PROVE  RequestOK(o)'
  <1>1. req' \in [Requests -> RequestType] /\ req[o] \in RequestType BY DEF TypeOK
  <1>2. req[o].pc # "idle" /\ req[o].call.token # None => held[o] \subseteq held'[o]
    BY <1>1, WitnessFacts
  <1>3. req[o].pc # "idle" /\ req[o].call.token # None =>
          req[o].call.token \in Tokens
    BY CallFacts DEF RequestOK, CallType
  <1>4. req[o].who # None => req[o].who \in Users BY <1>1 DEF RequestType
  <1>6. req[o].pc \in {"touch", "load"} =>
          /\ session[req[o].call.token].user # None
          /\ req[o].call.token \in Tokens
          /\ account[req[o].who].here /\ req[o].who \in Users
    BY <1>3, <1>4 DEF RequestOK, SessionsBelong
  <1>7. req[o].pc \in {"touch", "load"} =>
          /\ req[o].who = session'[req[o].call.token].user
          /\ req[o].role = account'[req[o].who].role
    BY <1>6 DEF RequestOK, Lasting
  <1>8. req[o].pc \in {"loadLogin", "insertSession"} => account'[req[o].who].here
    BY <1>4 DEF RequestOK, Lasting
  <1>9. ResetOK(o)' BY ResetKeeps
  <1> QED BY <1>2, <1>7, <1>8, <1>9 DEF RequestOK, Op, Updating

\* A request that moves on to a stage that has read nothing new: what has been
\* seen of its caller stays seen.
LEMMA GotoRequest ==
    ASSUME TypeOK, TypeOK', Witness, NEW r \in Requests, RequestOK(r),
           NEW s \in {"failed", "done", "insert", "role", "password", "sessions",
                      "auditLogin", "auditLogout", "revoke"},
           Goto(r, s),
           req[r].pc # "idle",
           s # "failed" => \/ req[r].pc \in {"act", "auditLogout", "revoke", "insert", "password", "commit"}
                          \/ Op(r) = "login",
           s = "auditLogin" => Op(r) = "login",
           s = "auditLogout" => req[r].pc = "act",
           s = "revoke" => req[r].pc = "act" /\ Op(r) = "accountUpdate",
           s \in {"role", "password", "sessions"} =>
               req[r].pc \in {"act", "password"} /\ Op(r) = "memberUpdate",
           s = "role" => req[r].call.role # None,
           s = "insert" => Op(r) \in {"accountCreate", "memberCreate"}
    PROVE  RequestOK(r)'
  <1>1. /\ req' \in [Requests -> RequestType] /\ req'[r].pc = s /\ req'[r].call = req[r].call
        /\ req'[r].found = req[r].found
    BY GotoFacts DEF Stages
  <1>2. req[r].call.token # None => held[r] \subseteq held'[r]
    BY <1>1, WitnessFacts
  <1>3. Op(r) = "login" => req[r].call.token = None
    BY CallFacts DEF RequestOK, WellFormed, Op
  <1>4. ResetOK(r)' BY <1>1 DEF ResetOK, At
  <1>5. s = "commit" => FALSE OBVIOUS
  <1> QED BY <1>1, <1>2, <1>3, <1>4, <1>5 DEF RequestOK, Op, Updating

\* A step that leaves accounts, sessions and the clock alone.
LEMMA QuietStep ==
    ASSUME IInv, NEW r \in Requests, Witness, UNCHANGED <<account, session, now>>,
           member' \in [Users -> [Projects -> AccessRoles \cup {"none"}]],
           archived' \in SUBSET Projects, calls' \in 0..MaxCalls,
           req' \in [Requests -> RequestType],
           \A o \in Requests : o # r => req'[o] = req[o],
           req[r].pc # "revoke",
           TypeOK' => RequestOK(r)'
    PROVE  IInv'
  <1>1. TypeOK /\ SessionsBelong /\ StaleExplained /\ \A o \in Requests : RequestOK(o)
    BY IInvByRequest
  <1>2. TypeOK' BY <1>1, WitnessFacts DEF TypeOK
  <1>3. Lasting BY <1>1 DEF Lasting, TypeOK, SessionType
  <1>4. \A o \in Requests : RequestOK(o)' BY <1>1, <1>2, <1>3, OthersKeep
  <1>5. SessionsBelong' BY <1>1 DEF SessionsBelong
  <1>6. StaleExplained'
    <2>1. \A o \in Requests : At(o, "revoke") => At(o, "revoke")' /\ req'[o].call = req[o].call
      BY DEF At
    <2> QED BY <1>1, <2>1 DEF StaleExplained
  <1> QED BY <1>2, <1>4, <1>5, <1>6, IInvByRequestNext

\* The same, when all the request does is move on.
LEMMA QuietGoto ==
    ASSUME IInv, NEW r \in Requests, Witness, UNCHANGED <<account, session, now, calls>>,
           member' \in [Users -> [Projects -> AccessRoles \cup {"none"}]],
           archived' \in SUBSET Projects,
           NEW s \in {"failed", "done", "insert", "role", "password", "sessions", "auditLogout"},
           Goto(r, s),
           req[r].pc \notin {"idle", "revoke"},
           s # "failed" => \/ req[r].pc \in {"act", "auditLogout", "insert", "password", "commit"}
                          \/ Op(r) = "login",
           s = "auditLogout" => req[r].pc = "act",
           s \in {"role", "password", "sessions"} =>
               req[r].pc \in {"act", "password"} /\ Op(r) = "memberUpdate",
           s = "role" => req[r].call.role # None,
           s = "insert" => Op(r) \in {"accountCreate", "memberCreate"}
    PROVE  IInv'
  <1>1. TypeOK /\ RequestOK(r) BY IInvByRequest
  <1>2. /\ req' \in [Requests -> RequestType]
        /\ \A o \in Requests : o # r => req'[o] = req[o]
    BY <1>1, GotoFacts DEF Stages
  <1>3. TypeOK' => RequestOK(r)' BY <1>1, GotoRequest
  <1>4. calls' \in 0..MaxCalls BY <1>1 DEF TypeOK
  <1> QED BY <1>2, <1>3, <1>4, QuietStep

-----------------------------------------------------------------------------
\* The steps that change neither accounts nor sessions.

\* loadProjects returns a role, or none, for every project.
LEMMA LoadProjectsType ==
    ASSUME TypeOK, NEW u \in Users, NEW role
    PROVE  LoadProjects(u, role) \in [Projects -> AccessRoles \cup {"none"}]
  BY DEF TypeOK, LoadProjects, AccessRoles

\* A request that has not come is well-formed.
LEMMA IdleRequestType ==
    IdleRequest \in RequestType /\ IdleRequest.pc = "idle" /\ ~IdleRequest.found
  BY BoundsAssumption DEF IdleRequest, RequestType, Stages

\* A request comes: with its first stage, and nothing seen yet.
LEMMA ReceivePreserves ==
    ASSUME IInv, NEW r \in Requests, Receive(r), Witness
    PROVE  IInv'
  <1>1. TypeOK BY IInvByRequest
  <1>2. PICK call \in Calls :
          req' = [req EXCEPT ![r] = [IdleRequest EXCEPT !.call = call,
                   !.pc = CASE call.op = "login" -> "lookup"
                            [] call.op = "createAdmin" -> "insert"
                            [] OTHER -> "validate"]]
    BY DEF Receive
  <1> DEFINE s == CASE call.op = "login" -> "lookup"
                    [] call.op = "createAdmin" -> "insert"
                    [] OTHER -> "validate"
             q == [IdleRequest EXCEPT !.call = call, !.pc = s]
  <1>3. /\ s \in {"lookup", "insert", "validate"}
        /\ s = "lookup" => call.op = "login"
        /\ s = "insert" => call.op = "createAdmin"
        /\ s = "validate" => call.op \notin {"login", "createAdmin"}
    OBVIOUS
  <1> HIDE DEF s
  <1>4. q \in RequestType /\ q.pc = s /\ q.call = call /\ ~q.found
    BY <1>3, IdleRequestType DEF RequestType, Stages
  <1> HIDE DEF q
  <1>5. req' = [req EXCEPT ![r] = q] BY <1>2 DEF q, s
  <1>6. /\ req' \in [Requests -> RequestType] /\ req'[r] = q
        /\ \A o \in Requests : o # r => req'[o] = req[o]
    BY <1>1, <1>4, <1>5 DEF TypeOK
  <1>7. call.op = "createAdmin" => call.token = None BY CallFacts DEF WellFormed
  <1>8. call.op \notin {"login", "createAdmin"} => call.token # None BY CallFacts DEF WellFormed
  <1>9. RequestOK(r)' BY <1>3, <1>4, <1>6, <1>7, <1>8 DEF RequestOK, ResetOK, Op, At, Updating
  <1>10. /\ calls' \in 0..MaxCalls /\ UNCHANGED <<account, session, now>> /\ req[r].pc = "idle"
         /\ member' \in [Users -> [Projects -> AccessRoles \cup {"none"}]]
         /\ archived' \in SUBSET Projects
    BY <1>1, BoundsAssumption DEF Receive, TypeOK, db, At
  <1> QED BY <1>6, <1>9, <1>10, QuietStep

\* Login's SELECT of the account: the request knows a row that is there, or ends.
LEMMA LookupPreserves ==
    ASSUME IInv, NEW r \in Requests, Lookup(r), Witness
    PROVE  IInv'
  <1> DEFINE u == req[r].call.user
             a == account[u]
  <1>1. TypeOK /\ RequestOK(r) BY IInvByRequest
  <1>2. /\ UNCHANGED <<account, session, now, calls>> /\ req[r].pc = "lookup"
        /\ member' \in [Users -> [Projects -> AccessRoles \cup {"none"}]]
        /\ archived' \in SUBSET Projects /\ calls' \in 0..MaxCalls
    BY <1>1 DEF Lookup, TypeOK, db, At
  <1>3. CASE ~(a.here /\ ~a.disabled /\ a.password = req[r].call.password)
    <2>1. Goto(r, "failed") BY <1>3 DEF Lookup
    <2> QED BY <1>2, <2>1, QuietGoto
  <1>4. CASE a.here /\ ~a.disabled /\ a.password = req[r].call.password
    <2> DEFINE q == [req[r] EXCEPT !.pc = "loadLogin", !.who = u, !.role = a.role, !.password = a.password]
    <2>1. u \in Users /\ a \in AccountType /\ u # None
      BY <1>1, <1>2, CallFacts DEF RequestOK, WellFormed, CallType, Op, TypeOK
    <2>2. /\ q \in RequestType /\ q.pc = "loadLogin" /\ q.who = u /\ q.call = req[r].call
          /\ q.found = req[r].found
      <3>1. req[r] \in RequestType BY <1>1 DEF TypeOK
      <3>2. a.role \in {"owner", "member", None} /\ a.password \in 0..MaxPassword
        BY <2>1 DEF AccountType
      <3> HIDE DEF a, u
      <3> QED BY <2>1, <3>1, <3>2 DEF RequestType, Stages
    <2>3. req' = [req EXCEPT ![r] = q] BY <1>1, <1>4 DEF Lookup, TypeOK
    <2> HIDE DEF q
    <2>4. /\ req' \in [Requests -> RequestType] /\ req'[r] = q
          /\ \A o \in Requests : o # r => req'[o] = req[o]
      BY <1>1, <2>2, <2>3 DEF TypeOK
    <2>5. RequestOK(r)'
      BY <1>1, <1>2, <1>4, <2>1, <2>2, <2>4 DEF RequestOK, ResetOK, Op, At, Updating
    <2> QED BY <1>2, <2>4, <2>5, QuietStep
  <1> QED BY <1>3, <1>4

\* Login reads the memberships of the account it found.
LEMMA LoadLoginPreserves ==
    ASSUME IInv, NEW r \in Requests, LoadLogin(r), Witness
    PROVE  IInv'
  <1> DEFINE ps == LoadProjects(req[r].who, req[r].role)
             q == [req[r] EXCEPT !.pc = "insertSession", !.projects = ps]
  <1>1. TypeOK /\ RequestOK(r) BY IInvByRequest
  <1>2. /\ UNCHANGED <<account, session, now, calls>> /\ req[r].pc = "loadLogin"
        /\ member' \in [Users -> [Projects -> AccessRoles \cup {"none"}]]
        /\ archived' \in SUBSET Projects /\ calls' \in 0..MaxCalls
    BY <1>1 DEF LoadLogin, TypeOK, db, At
  <1>3. req[r].who \in Users BY <1>1, <1>2 DEF RequestOK, TypeOK, RequestType
  <1>4. ps \in [Projects -> AccessRoles \cup {"none"}] BY <1>1, <1>3, LoadProjectsType
  <1> HIDE DEF ps
  <1>5. /\ q \in RequestType /\ q.pc = "insertSession" /\ q.who = req[r].who /\ q.call = req[r].call
        /\ q.found = req[r].found
    <2>1. req[r] \in RequestType BY <1>1 DEF TypeOK
    <2> QED BY <1>4, <2>1 DEF RequestType, Stages
  <1>6. req' = [req EXCEPT ![r] = q] BY <1>1 DEF LoadLogin, TypeOK, ps
  <1> HIDE DEF q
  <1>7. /\ req' \in [Requests -> RequestType] /\ req'[r] = q
        /\ \A o \in Requests : o # r => req'[o] = req[o]
    BY <1>1, <1>5, <1>6 DEF TypeOK
  <1>8. RequestOK(r)' BY <1>1, <1>2, <1>5, <1>7 DEF RequestOK, ResetOK, Op, At, Updating
  <1> QED BY <1>2, <1>7, <1>8, QuietStep

\* The session was good when it was read, so "session" is held from here on.
LEMMA ValidatePreserves ==
    ASSUME IInv, NEW r \in Requests, ValidateSession(r), Witness
    PROVE  IInv'
  <1> DEFINE t == req[r].call.token
             s == session[t]
  <1>1. TypeOK /\ RequestOK(r) /\ SessionsBelong BY IInvByRequest
  <1>2. /\ UNCHANGED <<account, session, now, calls>> /\ req[r].pc = "validate"
        /\ member' \in [Users -> [Projects -> AccessRoles \cup {"none"}]]
        /\ archived' \in SUBSET Projects /\ calls' \in 0..MaxCalls
    BY <1>1 DEF ValidateSession, TypeOK, db, At
  <1>3. CASE ~(Alive(t) /\ ~account[s.user].disabled)
    <2>1. Goto(r, "failed") BY <1>3 DEF ValidateSession
    <2> QED BY <1>2, <2>1, QuietGoto
  <1>4. CASE Alive(t) /\ ~account[s.user].disabled
    <2> DEFINE q == [req[r] EXCEPT !.pc = "touch", !.who = s.user, !.role = account[s.user].role]
    <2>1. t \in Tokens /\ t # None BY <1>1, <1>2, CallFacts DEF RequestOK, CallType
    <2>2. s \in SessionType /\ s.user # None /\ s.user \in Users /\ account[s.user] \in AccountType
      BY <1>1, <1>4, <2>1 DEF TypeOK, SessionType, Alive
    <2>3. /\ q \in RequestType /\ q.pc = "touch" /\ q.who = s.user /\ q.role = account[s.user].role
          /\ q.call = req[r].call /\ q.found = req[r].found
      <3>1. req[r] \in RequestType BY <1>1 DEF TypeOK
      <3>2. account[s.user].role \in {"owner", "member", None} BY <2>2 DEF AccountType
      <3> HIDE DEF s
      <3> QED BY <2>2, <3>1, <3>2 DEF RequestType, Stages
    <2>4. req' = [req EXCEPT ![r] = q] BY <1>1, <1>4 DEF ValidateSession, TypeOK
    <2> HIDE DEF q
    <2>5. /\ req' \in [Requests -> RequestType] /\ req'[r] = q
          /\ \A o \in Requests : o # r => req'[o] = req[o]
      BY <1>1, <2>3, <2>4 DEF TypeOK
    <2>6. "session" \in HoldsNow(r)'
      BY <1>2, <1>4, <2>3, <2>5 DEF HoldsNow, Alive
    <2>7. "session" \in held'[r]
      BY <1>1, <2>1, <2>3, <2>5, <2>6, WitnessFacts
    <2>8. RequestOK(r)'
      BY <1>1, <1>2, <1>4, <2>1, <2>2, <2>3, <2>5, <2>7
      DEF RequestOK, ResetOK, Op, Alive, At, Updating
    <2> QED BY <1>2, <2>5, <2>8, QuietStep
  <1> QED BY <1>3, <1>4

\* The handler's test of the memberships read just now with the role read
\* before is a test of the rights of this moment: the role has not changed.
LEMMA LoadMembershipsPreserves ==
    ASSUME IInv, NEW r \in Requests, LoadMemberships(r), Witness
    PROVE  IInv'
  <1> DEFINE t == req[r].call.token
             ps == LoadProjects(req[r].who, req[r].role)
             ok == Entitled(req[r].call, req[r].role, ps)
             q == [req[r] EXCEPT !.projects = ps, !.pc = IF ok THEN "act" ELSE "failed"]
  <1>1. TypeOK /\ RequestOK(r) BY IInvByRequest
  <1>2. /\ UNCHANGED db /\ UNCHANGED <<now, calls>> /\ req[r].pc = "load"
        /\ member' \in [Users -> [Projects -> AccessRoles \cup {"none"}]]
        /\ archived' \in SUBSET Projects /\ calls' \in 0..MaxCalls
    BY <1>1 DEF LoadMemberships, TypeOK, db, At
  <1>3. req[r].who \in Users BY <1>1, <1>2 DEF RequestOK, TypeOK, RequestType
  <1>4. ps \in [Projects -> AccessRoles \cup {"none"}] BY <1>1, <1>3, LoadProjectsType
  <1>5. /\ q \in RequestType /\ q.pc = (IF ok THEN "act" ELSE "failed") /\ q.call = req[r].call
        /\ q.found = req[r].found
    <2>1. req[r] \in RequestType BY <1>1 DEF TypeOK
    <2> DEFINE s == IF ok THEN "act" ELSE "failed"
    <2>2. s \in Stages BY DEF Stages
    <2> HIDE DEF ps, s
    <2>3. [req[r] EXCEPT !.projects = ps, !.pc = s] \in RequestType BY <1>4, <2>1, <2>2 DEF RequestType
    <2>4. /\ [req[r] EXCEPT !.projects = ps, !.pc = s].pc = s
          /\ [req[r] EXCEPT !.projects = ps, !.pc = s].call = req[r].call
          /\ [req[r] EXCEPT !.projects = ps, !.pc = s].found = req[r].found
      BY <2>1 DEF RequestType
    <2> QED BY <2>3, <2>4 DEF s
  <1>6. req' = [req EXCEPT ![r] = q]
    <2> HIDE DEF ps, ok
    <2>1. req' = [req EXCEPT ![r].projects = ps, ![r].pc = IF ok THEN "act" ELSE "failed"]
      BY DEF LoadMemberships, ps, ok
    <2> QED BY <1>1, <2>1 DEF TypeOK
  <1> HIDE DEF q
  <1>7. /\ req' \in [Requests -> RequestType] /\ req'[r] = q
        /\ \A o \in Requests : o # r => req'[o] = req[o]
    BY <1>1, <1>5, <1>6 DEF TypeOK
  <1>8. ASSUME ok PROVE "right" \in HoldsNow(r)'
    <2>1. /\ req[r].who = session[t].user /\ req[r].who # None
          /\ req[r].role = account[req[r].who].role
      BY <1>1, <1>2 DEF RequestOK
    <2>2. Entitled(req[r].call, account[session[t].user].role,
                   LoadProjects(session[t].user, account[session[t].user].role))
      BY <1>8, <2>1
    <2>3. /\ LoadProjects(session[t].user, account[session[t].user].role)
               = LoadProjects(session[t].user, account[session[t].user].role)'
      BY <1>2, <1>5, <1>7 DEF LoadProjects, db
    <2> QED BY <1>2, <1>5, <1>7, <2>1, <2>2, <2>3 DEF HoldsNow, db
  <1>9. q.call.token # None /\ "session" \in held[r]
    BY <1>1, <1>2, <1>5 DEF RequestOK
  <1>10. held'[r] = held[r] \cup HoldsNow(r)'
    <2>1. q.pc # "idle" BY <1>5
    <2> QED BY <1>1, <1>7, <1>9, <2>1, WitnessFacts
  <1>11. ok => {"session", "right"} \subseteq held'[r] BY <1>8, <1>9, <1>10
  <1>12. RequestOK(r)'
    <2> HIDE DEF ok
    <2> QED BY <1>1, <1>2, <1>5, <1>7, <1>9, <1>11 DEF RequestOK, ResetOK, Op, At, Updating
  <1> QED BY <1>2, <1>7, <1>12, QuietStep DEF db

\* The steps that only move on: the audits, reads, checks and refusals.
LEMMA MovePreserves ==
    ASSUME IInv, NEW r \in Requests, Witness,
           AuditLogin(r) \/ HandleRead(r) \/ AuditLogout(r) \/ CheckTaken(r) \/ CheckMember(r)
             \/ UpdatePassword(r) \/ Refuse(r)
    PROVE  IInv'
  <1>1. TypeOK /\ RequestOK(r) BY IInvByRequest
  <1>2. /\ UNCHANGED <<account, session, now, calls>>
        /\ member' \in [Users -> [Projects -> AccessRoles \cup {"none"}]]
        /\ archived' \in SUBSET Projects
    BY <1>1 DEF AuditLogin, HandleRead, AuditLogout, CheckTaken, CheckMember, UpdatePassword, Refuse,
                TypeOK, db
  <1>3. CASE AuditLogin(r)
    BY <1>1, <1>2, <1>3, QuietGoto DEF AuditLogin, At, RequestOK
  <1>4. CASE HandleRead(r)
    BY <1>2, <1>4, QuietGoto DEF HandleRead, At
  <1>5. CASE AuditLogout(r)
    BY <1>2, <1>5, QuietGoto DEF AuditLogout, At
  <1>6. CASE CheckTaken(r)
    <2>1. Goto(r, "failed") \/ Goto(r, "insert") BY <1>6 DEF CheckTaken
    <2> QED BY <1>2, <1>6, <2>1, QuietGoto DEF CheckTaken, At
  <1>7. CASE CheckMember(r)
    <2>1. \/ Goto(r, "failed") \/ Goto(r, "password")
          \/ Goto(r, "role") /\ req[r].call.role # None
      BY <1>7 DEF CheckMember
    <2> QED BY <1>2, <1>7, <2>1, QuietGoto DEF CheckMember, At
  <1>8. CASE Refuse(r)
    BY <1>2, <1>8, QuietGoto DEF Refuse
  <1>9. CASE UpdatePassword(r)
    <2>1. req[r].pc = "password" /\ Goto(r, "sessions") BY <1>9 DEF UpdatePassword, At
    <2>2. Op(r) = "memberUpdate" /\ req[r].pc \in Updating BY <1>1, <2>1 DEF RequestOK, Updating
    <2> QED BY <1>2, <2>1, <2>2, QuietGoto
  <1> QED BY <1>3, <1>4, <1>5, <1>6, <1>7, <1>8, <1>9

\* The UPDATE of the role and the end of the sessions change nothing others
\* see; the second sees every session of the account that is not ended.
LEMMA StagedPreserves ==
    ASSUME IInv, NEW r \in Requests, Witness, UpdateRole(r) \/ EndSessions(r)
    PROVE  IInv'
  <1> DEFINE call == req[r].call
             s == IF UpdateRole(r) /\ call.reset THEN "password" ELSE "commit"
  <1>1. TypeOK /\ RequestOK(r) BY IInvByRequest
  <1>2. /\ UNCHANGED <<account, session, now, calls>> /\ req[r].pc \in {"role", "sessions"}
        /\ member' \in [Users -> [Projects -> AccessRoles \cup {"none"}]]
        /\ archived' \in SUBSET Projects /\ calls' \in 0..MaxCalls
    BY <1>1 DEF UpdateRole, EndSessions, TypeOK, db, At
  <1>3. Op(r) = "memberUpdate" /\ call.token # None /\ call \in Calls
    BY <1>1, <1>2 DEF RequestOK, Updating
  <1>4. call \in CallType /\ WellFormed(call) BY <1>3, CallFacts
  <1>5. req[r] \in RequestType /\ req \in [Requests -> RequestType] BY <1>1 DEF TypeOK
  <1>6. ASSUME req' \in [Requests -> RequestType], req'[r].pc \in Updating, req'[r].call = call
        PROVE  {"session", "right"} \subseteq held'[r]
    <2>1. {"session", "right"} \subseteq held[r] BY <1>1, <1>2, <1>3 DEF RequestOK, Updating
    <2> QED BY <1>1, <1>3, <1>6, <2>1, WitnessFacts DEF Updating
  <1>7. CASE UpdateRole(r)
    <2> DEFINE x == member[call.user][call.project] # "none"
               q == [req[r] EXCEPT !.pc = s, !.found = x]
    <2>1. s \in {"password", "commit"} /\ (s = "commit" => ~call.reset) BY <1>7
    <2>2. req' = [req EXCEPT ![r] = q]
      <3>1. req' = [req EXCEPT ![r].pc = IF call.reset THEN "password" ELSE "commit", ![r].found = x]
        BY <1>7 DEF UpdateRole
      <3> QED BY <1>5, <1>7, <3>1
    <2>3. call.role # None
      BY <1>1, <1>7 DEF RequestOK, UpdateRole, At
    <2> HIDE DEF s, x
    <2>4. x \in BOOLEAN BY DEF x
    <2>5. q \in RequestType /\ q.pc = s /\ q.call = call
      BY <1>5, <2>1, <2>4 DEF RequestType, Stages
    <2> HIDE DEF q
    <2>6. /\ req' \in [Requests -> RequestType] /\ req'[r] = q
          /\ \A o \in Requests : o # r => req'[o] = req[o]
      BY <1>5, <2>2, <2>5
    <2>7. RequestOK(r)'
      BY <1>3, <1>6, <2>1, <2>3, <2>5, <2>6 DEF RequestOK, ResetOK, Op, At, Updating
    <2> QED BY <1>2, <2>6, <2>7, QuietStep
  <1>8. CASE EndSessions(r)
    <2> DEFINE ts == {t \in SessionsOf(call.user) : ~session[t].revoked}
               q == [req[r] EXCEPT !.pc = "commit", !.ended = ts]
    <2>1. req' = [req EXCEPT ![r] = q] BY <1>5, <1>8 DEF EndSessions
    <2>2. q \in RequestType /\ q.pc = "commit" /\ q.call = call /\ q.ended = ts /\ q.found = req[r].found
      BY <1>5 DEF RequestType, Stages, SessionsOf
    <2> HIDE DEF q
    <2>3. /\ req' \in [Requests -> RequestType] /\ req'[r] = q
          /\ \A o \in Requests : o # r => req'[o] = req[o]
      BY <1>5, <2>1, <2>2
    <2>4. ResetOK(r)'
      <3>1. \A t \in SessionsOf(call.user) : session[t].revoked \/ t \in ts OBVIOUS
      <3>2. SessionsOf(call.user)' = SessionsOf(call.user) BY <1>2, <2>2, <2>3 DEF SessionsOf
      <3> HIDE DEF ts
      <3> QED BY <1>2, <2>2, <2>3, <3>1, <3>2 DEF ResetOK
    <2> HIDE DEF ts
    <2>5. RequestOK(r)'
      BY <1>1, <1>3, <1>6, <2>2, <2>3, <2>4 DEF RequestOK, Op, Updating
    <2> QED BY <1>2, <2>3, <2>5, QuietStep
  <1> QED BY <1>7, <1>8

\* Archive, restore and the other settings change one project and end the request.
LEMMA SettingsPreserves ==
    ASSUME IInv, NEW r \in Requests, HandleSettings(r), Witness
    PROVE  IInv'
  <1>1. TypeOK /\ RequestOK(r) BY IInvByRequest
  <1>2. req[r].call.project \in Projects
    BY <1>1, CallFacts DEF HandleSettings, At, Op, RequestOK, WellFormed, CallType
  <1>3. /\ UNCHANGED <<account, session, now, calls>> /\ req[r].pc = "act"
        /\ member' \in [Users -> [Projects -> AccessRoles \cup {"none"}]]
        /\ archived' \in SUBSET Projects
    BY <1>1, <1>2 DEF HandleSettings, TypeOK, At
  <1>4. Goto(r, "failed") \/ Goto(r, "done") BY DEF HandleSettings
  <1> QED BY <1>3, <1>4, QuietGoto

\* A membership is granted or deleted; whoever relied on it has been seen to hold it.
LEMMA MembershipPreserves ==
    ASSUME IInv, NEW r \in Requests, Witness, GrantMembership(r) \/ DeleteMembership(r)
    PROVE  IInv'
  <1> DEFINE call == req[r].call
  <1>1. TypeOK /\ RequestOK(r) BY IInvByRequest
  <1>2. /\ UNCHANGED <<account, session, archived, now, calls>> /\ req[r].pc = "act"
        /\ Op(r) \in {"memberCreate", "memberDelete"}
        /\ Goto(r, "failed") \/ Goto(r, "done")
    BY DEF GrantMembership, DeleteMembership, At
  <1>3. call \in CallType /\ WellFormed(call) BY <1>1, <1>2, CallFacts DEF RequestOK
  <1>4. call.project \in Projects
    BY <1>2, <1>3 DEF WellFormed, CallType, Op
  <1>5. member' \in [Users -> [Projects -> AccessRoles \cup {"none"}]]
    <2>1. CASE GrantMembership(r)
      <3>1. call.user \in Users /\ call.role \in AccessRoles
        BY <1>3, <2>1 DEF GrantMembership, WellFormed, CallType, Op
      <3>2. member' = member \/ member' = [member EXCEPT ![call.user][call.project] = call.role]
        BY <2>1 DEF GrantMembership
      <3>3. member \in [Users -> [Projects -> AccessRoles \cup {"none"}]] BY <1>1 DEF TypeOK
      <3> HIDE DEF call
      <3> QED BY <1>4, <3>1, <3>2, <3>3
    <2>2. CASE DeleteMembership(r)
      <3>1. call.user \in Users
        BY <1>3, <2>2 DEF DeleteMembership, WellFormed, CallType, Op
      <3>2. member' = [member EXCEPT ![call.user][call.project] = "none"] BY <2>2 DEF DeleteMembership
      <3>3. member \in [Users -> [Projects -> AccessRoles \cup {"none"}]] BY <1>1 DEF TypeOK
      <3> HIDE DEF call
      <3> QED BY <1>4, <3>1, <3>2, <3>3
    <2> QED BY <2>1, <2>2
  <1>6. archived' \in SUBSET Projects BY <1>1, <1>2 DEF TypeOK
  <1> QED BY <1>2, <1>5, <1>6, QuietGoto

\* An answer ends a request that is not about to revoke sessions.
LEMMA AnswerPreserves ==
    ASSUME IInv, NEW r \in Requests, Answer(r), Witness
    PROVE  IInv'
  <1>1. TypeOK BY IInvByRequest
  <1>2. /\ UNCHANGED <<account, session, now>> /\ req[r].pc # "revoke"
        /\ member' \in [Users -> [Projects -> AccessRoles \cup {"none"}]]
        /\ archived' \in SUBSET Projects /\ calls' \in 0..MaxCalls
    BY <1>1 DEF Answer, TypeOK, db
  <1>3. /\ req' \in [Requests -> RequestType] /\ req'[r].pc = "idle" /\ ~req'[r].found
        /\ \A o \in Requests : o # r => req'[o] = req[o]
    BY <1>1, IdleRequestType DEF Answer, TypeOK
  <1>4. RequestOK(r)' BY <1>3 DEF RequestOK, ResetOK, At, Updating
  <1> QED BY <1>2, <1>3, <1>4, QuietStep

-----------------------------------------------------------------------------
\* The steps that change accounts, sessions or the clock.

\* Such a step of a request that moves on, put together.
LEMMA ChangeStep ==
    ASSUME IInv, NEW r \in Requests, Witness, now' = now,
           req' \in [Requests -> RequestType],
           \A o \in Requests : o # r => req'[o] = req[o],
           account' \in [Users -> AccountType], session' \in [Tokens -> SessionType],
           member' \in [Users -> [Projects -> AccessRoles \cup {"none"}]],
           UNCHANGED <<archived, calls>>,
           Lasting, SessionsBelong', StaleExplained',
           TypeOK' => RequestOK(r)'
    PROVE  IInv'
  <1>1. TypeOK /\ SessionsBelong /\ \A o \in Requests : RequestOK(o) BY IInvByRequest
  <1>2. TypeOK' BY <1>1, WitnessFacts DEF TypeOK
  <1>3. \A o \in Requests : RequestOK(o)' BY <1>1, <1>2, OthersKeep
  <1> QED BY <1>2, <1>3, IInvByRequestNext

\* Requests at "revoke" other than r stay there.
LEMMA RevokersStay ==
    ASSUME NEW r \in Requests, req[r].pc # "revoke",
           \A o \in Requests : o # r => req'[o] = req[o]
    PROVE  \A o \in Requests : At(o, "revoke") => At(o, "revoke")' /\ req'[o].call = req[o].call
  BY DEF At

\* A session that needs an explanation after a step needed one before.
LEMMA StaleKeeps ==
    ASSUME StaleExplained, NEW r \in Requests, req[r].pc # "revoke",
           \A o \in Requests : o # r => req'[o] = req[o],
           \A t \in Tokens :
               /\ session'[t].user # None /\ ~session'[t].revoked
               /\ session'[t].password # account'[session'[t].user].password
               /\ ~session'[t].late /\ ~session'[t].spared
               => /\ session[t].user = session'[t].user /\ ~session[t].revoked
                  /\ session[t].password # account[session[t].user].password
                  /\ ~session[t].late /\ ~session[t].spared
    PROVE  StaleExplained'
  <1> SUFFICES ASSUME NEW t \in Tokens,
                      session'[t].user # None, ~session'[t].revoked,
                      session'[t].password # account'[session'[t].user].password,
                      ~session'[t].late, ~session'[t].spared
               PROVE  \E o \in Requests : At(o, "revoke")' /\ req'[o].call.user = session'[t].user
    BY DEF StaleExplained
  <1>1. PICK o \in Requests : At(o, "revoke") /\ req[o].call.user = session[t].user
    BY DEF StaleExplained
  <1>2. At(o, "revoke")' /\ req'[o].call = req[o].call BY <1>1, RevokersStay
  <1> QED BY <1>1, <1>2

\* The UPDATE of last_seen_at after the test: it refreshes a session that was in
\* time when it was tested, or one that was revoked or timed out since.
LEMMA TouchPreserves ==
    ASSUME IInv, NEW r \in Requests, TouchSession(r), Witness
    PROVE  IInv'
  <1> DEFINE t == req[r].call.token
  <1>1. TypeOK /\ RequestOK(r) /\ SessionsBelong /\ StaleExplained BY IInvByRequest
  <1>2. /\ UNCHANGED <<account, member, archived, now, calls>> /\ req[r].pc = "touch"
        /\ Goto(r, "load") /\ session' = [session EXCEPT ![t].seen = now]
    BY DEF TouchSession, At
  <1>3. t \in Tokens BY <1>1, <1>2, CallFacts DEF RequestOK, CallType
  <1>4. now \in Nat BY BoundsAssumption, <1>1 DEF TypeOK
  <1>5. /\ session' \in [Tokens -> SessionType]
        /\ \A x \in Tokens : /\ session'[x].user = session[x].user
                             /\ session'[x].expires = session[x].expires
                             /\ session'[x].revoked = session[x].revoked
                             /\ session'[x].password = session[x].password
                             /\ session'[x].late = session[x].late
                             /\ session'[x].spared = session[x].spared
                             /\ session'[x].seen \in {session[x].seen, now}
    <2>1. session \in [Tokens -> SessionType] BY <1>1 DEF TypeOK
    <2> QED BY <1>2, <1>3, <1>4, <2>1 DEF SessionType
  <1>6. /\ req' \in [Requests -> RequestType] /\ req'[r].pc = "load" /\ req'[r].call = req[r].call
        /\ req'[r].who = req[r].who /\ req'[r].role = req[r].role
        /\ req'[r].found = req[r].found
        /\ \A o \in Requests : o # r => req'[o] = req[o]
    BY <1>1, <1>2, GotoFacts DEF Stages
  <1>7. Lasting BY <1>2, <1>5 DEF Lasting
  <1>8. SessionsBelong' BY <1>1, <1>2, <1>5 DEF SessionsBelong
  <1>9. StaleExplained' BY <1>1, <1>2, <1>5, <1>6, StaleKeeps
  <1>10. "session" \in held'[r]
    <2>1. req[r].call.token # None /\ "session" \in held[r] BY <1>1, <1>2 DEF RequestOK
    <2> QED BY <1>1, <1>6, <2>1, WitnessFacts
  <1>11. RequestOK(r)'
    <2>1. /\ req[r].who = session'[t].user /\ req[r].who # None
          /\ req[r].role = account'[req[r].who].role /\ req[r].call \in Calls /\ t # None
          /\ (req[r].found => req[r].call.op = "memberUpdate" /\ req[r].call.role # None)
      BY <1>1, <1>2, <1>3, <1>5 DEF RequestOK
    <2> QED BY <1>6, <1>10, <2>1 DEF RequestOK, ResetOK, Op, At, Updating
  <1>12. account' \in [Users -> AccountType] /\ member' \in [Users -> [Projects -> AccessRoles \cup {"none"}]]
    BY <1>1, <1>2 DEF TypeOK
  <1> QED BY <1>2, <1>5, <1>6, <1>7, <1>8, <1>9, <1>11, <1>12, ChangeStep

\* Login inserts its session; one whose password was changed since the SELECT is
\* marked late.
LEMMA InsertSessionPreserves ==
    ASSUME IInv, NEW r \in Requests, InsertSession(r), Witness
    PROVE  IInv'
  <1> DEFINE u == req[r].who
             fresh == [user |-> u, expires |-> now + Absolute, seen |-> now, revoked |-> FALSE,
                       password |-> req[r].password,
                       late |-> account[u].password # req[r].password, spared |-> FALSE]
  <1>1. TypeOK /\ RequestOK(r) /\ SessionsBelong /\ StaleExplained BY IInvByRequest
  <1>2. /\ UNCHANGED <<account, member, archived, now, calls>> /\ req[r].pc = "insertSession"
        /\ Goto(r, "auditLogin")
    BY DEF InsertSession, At
  <1>3. PICK t \in Tokens : session[t].user = None /\ session' = [session EXCEPT ![t] = fresh]
    BY DEF InsertSession
  <1>4. u \in Users /\ account[u].here /\ req[r].password \in 0..MaxPassword
    BY <1>1, <1>2 DEF RequestOK, TypeOK, RequestType
  <1>5. fresh \in SessionType
    <2>1. now + Absolute \in Nat /\ now \in Nat BY <1>1, BoundsAssumption DEF TypeOK
    <2> QED BY <1>4, <2>1 DEF SessionType
  <1>6. /\ fresh.user = u /\ (fresh.late \/ fresh.password = account[u].password)
    OBVIOUS
  <1> HIDE DEF fresh
  <1>7. /\ session' \in [Tokens -> SessionType] /\ session'[t] = fresh
        /\ \A x \in Tokens : x # t => session'[x] = session[x]
    BY <1>1, <1>3, <1>5 DEF TypeOK
  <1>8. /\ req' \in [Requests -> RequestType]
        /\ \A o \in Requests : o # r => req'[o] = req[o]
    BY <1>1, <1>2, GotoFacts DEF Stages
  <1>9. Lasting
    <2>1. \A x \in Tokens : session[x].user # None => session'[x] = session[x] BY <1>3, <1>7
    <2> QED BY <1>2, <2>1 DEF Lasting
  <1>10. SessionsBelong' BY <1>1, <1>2, <1>4, <1>6, <1>7 DEF SessionsBelong
  <1>11. StaleExplained' BY <1>1, <1>2, <1>6, <1>7, <1>8, StaleKeeps
  <1>12. TypeOK' => RequestOK(r)'
    BY <1>1, <1>2, GotoRequest DEF RequestOK
  <1>13. account' \in [Users -> AccountType] /\ member' \in [Users -> [Projects -> AccessRoles \cup {"none"}]]
    BY <1>1, <1>2 DEF TypeOK
  <1> QED BY <1>2, <1>7, <1>8, <1>9, <1>10, <1>11, <1>12, <1>13, ChangeStep

\* Revoking a session changes nothing else of it.
LEMMA RevokedFacts ==
    ASSUME NEW x \in SessionType
    PROVE  LET y == [x EXCEPT !.revoked = TRUE]
           IN  /\ y \in SessionType /\ y.revoked
               /\ y.user = x.user /\ y.expires = x.expires /\ y.seen = x.seen
               /\ y.password = x.password /\ y.late = x.late /\ y.spared = x.spared
  BY DEF SessionType

\* A logout revokes its own session and no other.
LEMMA LogoutPreserves ==
    ASSUME IInv, NEW r \in Requests, Logout(r), Witness
    PROVE  IInv'
  <1> DEFINE t == req[r].call.token
             s == IF session[t].revoked THEN "done" ELSE "auditLogout"
  <1>1. TypeOK /\ RequestOK(r) /\ SessionsBelong /\ StaleExplained BY IInvByRequest
  <1>2. /\ UNCHANGED <<account, member, archived, now, calls>> /\ req[r].pc = "act"
        /\ Goto(r, s) /\ session' = [session EXCEPT ![t].revoked = TRUE] /\ s \in {"done", "auditLogout"}
    BY DEF Logout, At
  <1> HIDE DEF s
  <1>3. t \in Tokens BY <1>1, <1>2, CallFacts DEF RequestOK, CallType
  <1>4. session \in [Tokens -> SessionType] BY <1>1 DEF TypeOK
  <1>5. /\ session' \in [Tokens -> SessionType]
        /\ \A x \in Tokens : /\ session'[x].user = session[x].user
                             /\ session'[x].expires = session[x].expires
                             /\ session'[x].seen = session[x].seen
                             /\ session[x].revoked => session'[x].revoked
                             /\ session'[x].password = session[x].password
                             /\ session'[x].late = session[x].late
                             /\ session'[x].spared = session[x].spared
    <2> DEFINE y == [session[t] EXCEPT !.revoked = TRUE]
    <2>1. session' = [session EXCEPT ![t] = y] BY <1>2, <1>3, <1>4
    <2>2. y \in SessionType /\ y.user = session[t].user /\ y.expires = session[t].expires
          /\ y.seen = session[t].seen /\ y.revoked /\ y.password = session[t].password
          /\ y.late = session[t].late /\ y.spared = session[t].spared
      BY <1>3, <1>4, RevokedFacts
    <2> HIDE DEF t, y
    <2> QED BY <1>3, <1>4, <2>1, <2>2
  <1>6. /\ req' \in [Requests -> RequestType]
        /\ \A o \in Requests : o # r => req'[o] = req[o]
    BY <1>1, <1>2, GotoFacts DEF Stages
  <1>7. Lasting BY <1>2, <1>5 DEF Lasting
  <1>8. SessionsBelong' BY <1>1, <1>2, <1>5 DEF SessionsBelong
  <1>9. StaleExplained' BY <1>1, <1>2, <1>5, <1>6, StaleKeeps
  <1>10. TypeOK' => RequestOK(r)' BY <1>1, <1>2, GotoRequest
  <1>11. account' \in [Users -> AccountType] /\ member' \in [Users -> [Projects -> AccessRoles \cup {"none"}]]
    BY <1>1, <1>2 DEF TypeOK
  <1> QED BY <1>2, <1>5, <1>6, <1>7, <1>8, <1>9, <1>10, <1>11, ChangeStep

\* The account changes first: the sessions that this leaves with an older
\* password are those the request, now at "revoke", has yet to end.
LEMMA UpdateAccountPreserves ==
    ASSUME IInv, NEW r \in Requests, UpdateAccount(r), Witness
    PROVE  IInv'
  <1> DEFINE call == req[r].call
             u == call.user
             s == IF call.reset \/ call.disabled = TRUE THEN "revoke" ELSE "done"
             pw == IF call.reset THEN account[u].password + 1 ELSE account[u].password
             dis == IF call.disabled = None THEN account[u].disabled ELSE call.disabled
             row == [account[u] EXCEPT !.password = pw, !.disabled = dis]
  <1>1. TypeOK /\ RequestOK(r) /\ SessionsBelong /\ StaleExplained BY IInvByRequest
  <1>2. /\ UNCHANGED <<member, session, archived, now, calls>> /\ req[r].pc = "act"
        /\ Op(r) = "accountUpdate"
    BY DEF UpdateAccount, At
  <1>3. member' \in [Users -> [Projects -> AccessRoles \cup {"none"}]] /\ archived' \in SUBSET Projects
    BY <1>1, <1>2 DEF TypeOK
  <1>4. CASE ~account[u].here
    <2>1. Goto(r, "failed") /\ UNCHANGED account BY <1>4 DEF UpdateAccount
    <2> QED BY <1>2, <1>3, <2>1, QuietGoto
  <1>5. CASE account[u].here
    <2>1. call \in CallType /\ u \in Users
      BY <1>1, <1>2, CallFacts DEF RequestOK, WellFormed, CallType, Op
    <2>2. account[u] \in AccountType /\ account \in [Users -> AccountType] BY <1>1, <2>1 DEF TypeOK
    <2>3. pw \in 0..MaxPassword /\ (call.reset \/ pw = account[u].password)
      BY <2>1, <2>2, BoundsAssumption DEF UpdateAccount, AccountType, CallType
    <2>4. dis \in BOOLEAN BY <2>1, <2>2 DEF AccountType, CallType
    <2>5. Goto(r, s) /\ s \in {"revoke", "done"} /\ (call.reset => s = "revoke")
      BY <1>5 DEF UpdateAccount
    <2>6. account' = [account EXCEPT ![u] = row]
      <3>1. account' = [account EXCEPT
                 ![u].password = IF call.reset THEN @ + 1 ELSE @,
                 ![u].disabled = IF call.disabled = None THEN @ ELSE call.disabled]
        BY <1>5 DEF UpdateAccount
      <3> QED BY <2>2, <3>1 DEF AccountType
    <2> HIDE DEF pw, dis, s, u, call
    <2>7. /\ row \in AccountType /\ row.here = account[u].here /\ row.role = account[u].role /\ row.password = pw
      BY <2>2, <2>3, <2>4 DEF AccountType
    <2> HIDE DEF row
    <2>8. /\ account' \in [Users -> AccountType] /\ account'[u] = row
          /\ \A x \in Users : x # u => account'[x] = account[x]
      BY <2>1, <2>2, <2>6, <2>7
    <2>9. /\ req' \in [Requests -> RequestType] /\ req'[r].pc = s /\ req'[r].call = call
          /\ \A o \in Requests : o # r => req'[o] = req[o]
      BY <1>1, <2>5, GotoFacts DEF Stages, call
    <2>10. Lasting
      <3>1. \A t \in Tokens : session'[t] = session[t] BY <1>2
      <3>2. \A x \in Users : account[x].here => account'[x].here /\ account'[x].role = account[x].role
        BY <1>5, <2>7, <2>8
      <3> QED BY <3>1, <3>2 DEF Lasting
    <2>11. SessionsBelong'
      <3>1. \A t \in Tokens : session[t].user # None => session[t].user \in Users
        BY <1>1 DEF TypeOK, SessionType
      <3> QED BY <1>1, <1>2, <2>10, <3>1 DEF SessionsBelong, Lasting
    <2>12. StaleExplained'
      <3>1. CASE call.reset
        <4> SUFFICES ASSUME NEW t \in Tokens, session[t].user # None, ~session[t].revoked,
                            session[t].password # account'[session[t].user].password,
                            ~session[t].late, ~session[t].spared
                     PROVE  \E o \in Requests : At(o, "revoke")' /\ req'[o].call.user = session[t].user
          BY <1>2 DEF StaleExplained
        <4>1. session[t].user \in Users BY <1>1 DEF TypeOK, SessionType
        <4>2. CASE session[t].user = u
          BY <2>5, <2>9, <3>1, <4>2 DEF At, u
        <4>3. CASE session[t].user # u
          <5>1. session[t].password # account[session[t].user].password BY <2>8, <4>1, <4>3
          <5>2. PICK o \in Requests : At(o, "revoke") /\ req[o].call.user = session[t].user
            BY <1>1, <5>1 DEF StaleExplained
          <5>3. At(o, "revoke")' /\ req'[o].call = req[o].call BY <1>2, <2>9, <5>2, RevokersStay
          <5> QED BY <5>2, <5>3
        <4> QED BY <4>2, <4>3
      <3>2. CASE ~call.reset
        <4>1. \A x \in Users : account'[x].password = account[x].password BY <2>3, <2>7, <2>8, <3>2
        <4>2. \A t \in Tokens : session[t].user # None => session[t].user \in Users
          BY <1>1 DEF TypeOK, SessionType
        <4> QED BY <1>1, <1>2, <2>9, <4>1, <4>2, StaleKeeps
      <3> QED BY <3>1, <3>2
    <2>13. TypeOK' => RequestOK(r)' BY <1>1, <1>2, <2>5, GotoRequest
    <2>14. session' \in [Tokens -> SessionType] BY <1>1, <1>2 DEF TypeOK
    <2> QED BY <1>2, <1>3, <2>8, <2>9, <2>10, <2>11, <2>12, <2>13, <2>14, ChangeStep
  <1> QED BY <1>4, <1>5

\* The second statement of updateAccount ends the sessions of the account or
\* fails and marks all of them: none is left without an explanation.
LEMMA RevokePreserves ==
    ASSUME IInv, NEW r \in Requests, RevokeAccountSessions(r), Witness
    PROVE  IInv'
  <1> DEFINE u == req[r].call.user
  <1>1. TypeOK /\ RequestOK(r) /\ SessionsBelong /\ StaleExplained BY IInvByRequest
  <1>2. /\ UNCHANGED <<account, member, archived, now, calls>> /\ req[r].pc = "revoke"
        /\ Goto(r, "done")
    BY DEF RevokeAccountSessions, At
  <1>3. /\ session' \in [Tokens -> SessionType]
        /\ \A t \in Tokens : /\ session'[t].user = session[t].user
                             /\ session'[t].expires = session[t].expires
                             /\ session'[t].seen = session[t].seen
                             /\ session[t].revoked => session'[t].revoked
                             /\ session'[t].password = session[t].password
                             /\ session'[t].late = session[t].late
                             /\ session[t].spared => session'[t].spared
                             /\ session[t].user = u => session'[t].revoked \/ session'[t].spared
    <2>1. CASE session' = [t \in Tokens |-> IF t \in SessionsOf(u) THEN [session[t] EXCEPT !.revoked = TRUE]
                                             ELSE session[t]]
      <3>1. session \in [Tokens -> SessionType] BY <1>1 DEF TypeOK
      <3>2. session' = [t \in Tokens |-> IF session[t].user = u THEN [session[t] EXCEPT !.revoked = TRUE]
                                          ELSE session[t]]
        BY <2>1 DEF SessionsOf
      <3> HIDE DEF u
      <3> QED BY <3>1, <3>2, RevokedFacts
    <2>2. CASE session' = [t \in Tokens |-> IF t \in SessionsOf(u) THEN [session[t] EXCEPT !.spared = TRUE]
                                             ELSE session[t]]
      <3>1. session \in [Tokens -> SessionType] BY <1>1 DEF TypeOK
      <3> HIDE DEF u
      <3> QED BY <2>2, <3>1 DEF SessionType, SessionsOf
    <2> QED BY <2>1, <2>2 DEF RevokeAccountSessions
  <1>4. /\ req' \in [Requests -> RequestType]
        /\ \A o \in Requests : o # r => req'[o] = req[o]
    BY <1>1, <1>2, GotoFacts DEF Stages
  <1>5. Lasting BY <1>2, <1>3 DEF Lasting
  <1>6. SessionsBelong' BY <1>1, <1>2, <1>3 DEF SessionsBelong
  <1>7. StaleExplained'
    <2> SUFFICES ASSUME NEW t \in Tokens, session'[t].user # None, ~session'[t].revoked,
                        session'[t].password # account'[session'[t].user].password,
                        ~session'[t].late, ~session'[t].spared
                 PROVE  \E o \in Requests : At(o, "revoke")' /\ req'[o].call.user = session'[t].user
      BY DEF StaleExplained
    <2>1. session[t].user # u /\ session'[t].user = session[t].user BY <1>3
    <2>2. /\ session[t].user # None /\ ~session[t].revoked
          /\ session[t].password # account[session[t].user].password
          /\ ~session[t].late /\ ~session[t].spared
      BY <1>2, <1>3
    <2>3. PICK o \in Requests : At(o, "revoke") /\ req[o].call.user = session[t].user
      BY <1>1, <2>2 DEF StaleExplained
    <2>4. o # r BY <2>1, <2>3
    <2>5. At(o, "revoke")' /\ req'[o].call = req[o].call BY <1>4, <2>3, <2>4 DEF At
    <2> QED BY <2>1, <2>3, <2>5
  <1>8. TypeOK' => RequestOK(r)' BY <1>1, <1>2, GotoRequest
  <1>9. account' \in [Users -> AccountType] /\ member' \in [Users -> [Projects -> AccessRoles \cup {"none"}]]
    BY <1>1, <1>2 DEF TypeOK
  <1> QED BY <1>2, <1>3, <1>4, <1>5, <1>6, <1>7, <1>8, <1>9, ChangeStep

\* A new row takes an id nobody has a session of.
LEMMA InsertRowPreserves ==
    ASSUME IInv, NEW r \in Requests, req[r].pc = "insert", InsertRow(r), Witness
    PROVE  IInv'
  <1> DEFINE call == req[r].call
             role == IF call.role = "owner" THEN "project_admin" ELSE call.role
             row == [here |-> TRUE, role |-> GlobalRole(call.role), disabled |-> FALSE, password |-> 0,
                     username |-> call.username, email |-> call.email, beside |-> since[r].made]
  <1>1. TypeOK /\ RequestOK(r) /\ SessionsBelong /\ StaleExplained BY IInvByRequest
  <1>2. UNCHANGED <<session, archived, now, calls>> BY DEF InsertRow
  <1>3. archived' \in SUBSET Projects BY <1>1, <1>2 DEF TypeOK
  <1>4. CASE Goto(r, "failed") /\ UNCHANGED <<account, member>>
    <2>1. member' \in [Users -> [Projects -> AccessRoles \cup {"none"}]] BY <1>1, <1>4 DEF TypeOK
    <2> QED BY <1>2, <1>3, <1>4, <2>1, QuietGoto
  <1>5. CASE /\ Goto(r, "done")
             /\ \E u \in Users :
                   /\ ~account[u].here
                   /\ account' = [account EXCEPT ![u] = row]
                   /\ member' = IF call.project = None THEN member
                                ELSE [member EXCEPT ![u][call.project] = role]
    <2>1. PICK u \in Users :
             /\ ~account[u].here
             /\ account' = [account EXCEPT ![u] = row]
             /\ member' = IF call.project = None THEN member
                          ELSE [member EXCEPT ![u][call.project] = role]
      BY <1>5
    <2>2. call \in CallType /\ WellFormed(call) BY <1>1, CallFacts DEF RequestOK
    <2>3. row \in AccountType
      <3>1. since[r].made \in SUBSET Users BY <1>1 DEF TypeOK
      <3> QED BY <2>2, <3>1, BoundsAssumption DEF AccountType, CallType, GlobalRole
    <2>4. call.project # None => call.project \in Projects /\ role \in AccessRoles
      BY <1>1, <2>2 DEF WellFormed, CallType, AccessRoles, RequestOK, Op
    <2> HIDE DEF row, role, call
    <2>5. /\ account' \in [Users -> AccountType]
          /\ \A x \in Users : account[x].here => account'[x] = account[x]
      BY <1>1, <2>1, <2>3 DEF TypeOK
    <2>6. member' \in [Users -> [Projects -> AccessRoles \cup {"none"}]]
      <3>1. member \in [Users -> [Projects -> AccessRoles \cup {"none"}]] BY <1>1 DEF TypeOK
      <3> QED BY <2>1, <2>4, <3>1
    <2>7. /\ req' \in [Requests -> RequestType]
          /\ \A o \in Requests : o # r => req'[o] = req[o]
      BY <1>1, <1>5, GotoFacts DEF Stages
    <2>8. \A t \in Tokens : session[t].user # None =>
             /\ session[t].user \in Users
             /\ account'[session[t].user] = account[session[t].user]
      BY <1>1, <2>5 DEF TypeOK, SessionType, SessionsBelong
    <2>9. Lasting
      <3>1. \A t \in Tokens : session'[t] = session[t] BY <1>2
      <3> QED BY <2>5, <3>1 DEF Lasting
    <2>10. SessionsBelong' BY <1>1, <1>2, <2>8 DEF SessionsBelong
    <2>11. StaleExplained' BY <1>1, <1>2, <2>7, <2>8, StaleKeeps
    <2>12. TypeOK' => RequestOK(r)' BY <1>1, <1>5, GotoRequest
    <2>13. session' \in [Tokens -> SessionType] BY <1>1, <1>2 DEF TypeOK
    <2> QED BY <1>2, <2>5, <2>6, <2>7, <2>9, <2>10, <2>11, <2>12, <2>13, ChangeStep
  <1> QED BY <1>4, <1>5 DEF InsertRow

\* The COMMIT of the password and of the end of the sessions its transaction
\* saw; the sessions it did not see are marked late.
LEMMA CommitPreserves ==
    ASSUME IInv, NEW r \in Requests, CommitUpdate(r), Witness
    PROVE  IInv'
  <1> DEFINE call == req[r].call
             u == call.user
             pw == IF call.reset THEN account[u].password + 1 ELSE account[u].password
             row == [account[u] EXCEPT !.password = pw]
             late == SessionsOf(u) \cap since[r].opened
             After(x, t) == [x EXCEPT !.revoked = @ \/ t \in req[r].ended,
                                      !.late = @ \/ (call.reset /\ t \in late)]
  <1>1. TypeOK /\ RequestOK(r) /\ SessionsBelong /\ StaleExplained BY IInvByRequest
  <1>2. /\ UNCHANGED <<archived, now, calls>> /\ req[r].pc = "commit" /\ Goto(r, "done")
        /\ member' = IF req[r].found THEN [member EXCEPT ![u][call.project] = call.role] ELSE member
        /\ call.reset => account[u].password < MaxPassword
        /\ account' = [account EXCEPT ![u].password = IF call.reset THEN @ + 1 ELSE @]
        /\ session' = [t \in Tokens |-> After(session[t], t)]
    BY DEF CommitUpdate, At
  <1>3. call \in CallType /\ WellFormed(call) /\ Op(r) = "memberUpdate"
    BY <1>1, <1>2, CallFacts DEF RequestOK, Updating
  <1>4. /\ u \in Users /\ u # None /\ call.project \in Projects
        /\ req[r].found => call.role \in AccessRoles
    BY <1>1, <1>3 DEF WellFormed, CallType, Op, RequestOK
  <1>5. member' \in [Users -> [Projects -> AccessRoles \cup {"none"}]]
    <2>1. member \in [Users -> [Projects -> AccessRoles \cup {"none"}]] BY <1>1 DEF TypeOK
    <2> HIDE DEF call, u
    <2> QED BY <1>2, <1>4, <2>1
  <1>6. /\ account' \in [Users -> AccountType]
        /\ \A x \in Users : /\ account'[x].here = account[x].here
                            /\ account'[x].role = account[x].role
                            /\ x # u \/ ~call.reset => account'[x].password = account[x].password
    <2>1. account \in [Users -> AccountType] BY <1>1 DEF TypeOK
    <2>2. pw \in 0..MaxPassword /\ (~call.reset => pw = account[u].password)
      <3>1. call.reset \in BOOLEAN /\ MaxPassword \in Nat BY <1>3, BoundsAssumption DEF CallType
      <3>2. account[u].password \in 0..MaxPassword BY <1>4, <2>1 DEF AccountType
      <3>3. call.reset => account[u].password < MaxPassword BY <1>2
      <3>4. pw = IF call.reset THEN account[u].password + 1 ELSE account[u].password OBVIOUS
      <3> DEFINE x == account[u].password
                 b == call.reset
      <3> HIDE DEF x, b, pw
      <3>5. x \in 0..MaxPassword /\ b \in BOOLEAN /\ (b => x < MaxPassword)
            /\ pw = (IF b THEN x + 1 ELSE x)
        BY <3>1, <3>2, <3>3, <3>4 DEF x, b
      <3>6. pw \in 0..MaxPassword /\ (~b => pw = x) BY <3>1, <3>5
      <3> QED BY <3>6 DEF x, b
    <2>3. account' = [account EXCEPT ![u] = row] BY <1>2, <1>4, <2>1 DEF AccountType
    <2> HIDE DEF u, pw, call
    <2>4. row \in AccountType /\ row.here = account[u].here /\ row.role = account[u].role /\ row.password = pw
      BY <1>4, <2>1, <2>2 DEF AccountType
    <2> HIDE DEF row
    <2> QED BY <1>4, <2>1, <2>2, <2>3, <2>4
  <1>7. /\ session' \in [Tokens -> SessionType]
        /\ \A t \in Tokens : /\ session'[t].user = session[t].user
                             /\ session[t].revoked \/ t \in req[r].ended => session'[t].revoked
                             /\ ~session'[t].revoked => ~session[t].revoked
                             /\ session'[t].password = session[t].password
                             /\ session[t].late \/ (call.reset /\ t \in late) => session'[t].late
                             /\ session'[t].spared = session[t].spared
    <2>1. session \in [Tokens -> SessionType] /\ call.reset \in BOOLEAN BY <1>1, <1>3 DEF TypeOK, CallType
    <2> HIDE DEF u, call, late
    <2>2. ASSUME NEW x \in SessionType, NEW t
          PROVE  /\ After(x, t) \in SessionType
                 /\ After(x, t).user = x.user /\ After(x, t).password = x.password
                 /\ After(x, t).spared = x.spared
                 /\ After(x, t).revoked = (x.revoked \/ t \in req[r].ended)
                 /\ After(x, t).late = (x.late \/ (call.reset /\ t \in late))
      BY <2>1 DEF SessionType
    <2> HIDE DEF After
    <2>3. \A t \in Tokens : session'[t] = After(session[t], t) /\ session[t] \in SessionType
      BY <1>2, <2>1
    <2> QED BY <1>2, <2>2, <2>3
  <1> HIDE DEF After, pw, row
  <1>8. /\ req' \in [Requests -> RequestType]
        /\ \A o \in Requests : o # r => req'[o] = req[o]
    BY <1>1, <1>2, GotoFacts DEF Stages
  <1>9. Lasting BY <1>6, <1>7 DEF Lasting
  <1>10. \A t \in Tokens : session[t].user # None => session[t].user \in Users
    BY <1>1 DEF TypeOK, SessionType
  <1>11. SessionsBelong' BY <1>1, <1>6, <1>7, <1>10 DEF SessionsBelong
  <1>12. ASSUME NEW t \in Tokens, session'[t].user = u, call.reset, ~session'[t].revoked
         PROVE  session'[t].late
    <2>1. t \in SessionsOf(u) /\ ~session[t].revoked /\ t \notin req[r].ended
      BY <1>7, <1>12 DEF SessionsOf
    <2>2. t \in since[r].opened
      BY <1>1, <1>2, <1>12, <2>1 DEF RequestOK, ResetOK, At
    <2> QED BY <1>7, <1>12, <2>1, <2>2
  <1>13. StaleExplained'
    <2> HIDE DEF u, call, late
    <2>1. ASSUME NEW t \in Tokens, session'[t].user # None, ~session'[t].revoked,
                 session'[t].password # account'[session'[t].user].password,
                 ~session'[t].late, ~session'[t].spared
          PROVE  /\ session[t].user = session'[t].user /\ ~session[t].revoked
                 /\ session[t].password # account[session[t].user].password
                 /\ ~session[t].late /\ ~session[t].spared
      <3>1. session'[t].user # u \/ ~call.reset BY <1>12, <2>1
      <3>2. account'[session[t].user].password = account[session[t].user].password
        BY <1>6, <1>7, <1>10, <2>1, <3>1
      <3> QED BY <1>7, <2>1, <3>2
    <2> QED BY <1>1, <1>2, <1>8, <2>1, StaleKeeps
  <1>14. TypeOK' => RequestOK(r)'
    <2>1. req[r].pc \in Updating BY <1>2 DEF Updating
    <2> QED BY <1>1, <1>2, <2>1, GotoRequest DEF Updating
  <1> QED BY <1>2, <1>5, <1>6, <1>7, <1>8, <1>9, <1>11, <1>13, <1>14, ChangeStep

\* Time passes: no stage of a request relies on a timeout not having passed.
LEMMA TickPreserves ==
    ASSUME IInv, Tick, Witness
    PROVE  IInv'
  <1>1. TypeOK /\ SessionsBelong /\ StaleExplained /\ \A r \in Requests : RequestOK(r)
    BY IInvByRequest
  <1>2. UNCHANGED <<account, member, session, archived, req, calls>>
    BY DEF Tick, db
  <1>3. now' \in 0..LastTime BY <1>1, BoundsAssumption DEF Tick, TypeOK
  <1>4. req' \in [Requests -> RequestType] BY <1>1, <1>2 DEF TypeOK
  <1>5. /\ held' \in [Requests -> SUBSET {"session", "right"}]
        /\ \A r \in Requests : req[r].pc # "idle" /\ req[r].call.token # None => held[r] \subseteq held'[r]
    BY <1>1, <1>2, <1>4, WitnessFacts
  <1>6. TypeOK' BY <1>1, <1>2, <1>3, <1>4, <1>5, WitnessFacts DEF TypeOK
  <1>7. SessionsBelong' BY <1>1, <1>2 DEF SessionsBelong
  <1>8. StaleExplained' BY <1>1, <1>2 DEF StaleExplained, At
  <1>9. \A r \in Requests : RequestOK(r)'
    <2>1. Lasting BY <1>2 DEF Lasting
    <2>2. \A r \in Requests : ResetOK(r)' BY <1>1, <1>2, <2>1, ResetKeeps
    <2> QED BY <1>1, <1>2, <1>5, <2>2 DEF RequestOK, Op, Updating
  <1> QED BY <1>6, <1>7, <1>8, <1>9, IInvByRequestNext

-----------------------------------------------------------------------------
\* The inductive invariant holds at the start.
LEMMA InitEstablishes == Init => IInv
  <1> SUFFICES ASSUME Init PROVE IInv OBVIOUS
  <1>1. /\ req \in [Requests -> RequestType]
        /\ \A r \in Requests : req[r].pc = "idle" /\ ~req[r].found
    BY IdleRequestType DEF Init
  <1>2. TypeOK BY <1>1, FirstAssumption, BoundsAssumption DEF Init, TypeOK, Nothing
  <1>3. SessionsBelong BY FirstAssumption DEF Init, SessionsBelong
  <1>4. StaleExplained BY FirstAssumption DEF Init, StaleExplained
  <1>5. \A r \in Requests : RequestOK(r) BY <1>1 DEF RequestOK, ResetOK, At, Updating
  <1> QED BY <1>2, <1>3, <1>4, <1>5, IInvByRequest

\* Every step preserves the invariant.
LEMMA NextPreserves == IInv /\ [Next]_vars => IInv'
  <1>1. ASSUME IInv, Next PROVE IInv'
    <2>1. Witness BY <1>1 DEF Next
    <2>2. CASE Tick BY <1>1, <2>1, <2>2, TickPreserves
    <2>3. ASSUME NEW r \in Requests, Receive(r) \/ Step(r) \/ Refuse(r) \/ Answer(r) PROVE IInv'
      <3>1. CASE Receive(r) BY <1>1, <2>1, <3>1, ReceivePreserves
      <3>2. CASE Answer(r) BY <1>1, <2>1, <3>2, AnswerPreserves
      <3>3. CASE Refuse(r) BY <1>1, <2>1, <3>3, MovePreserves
      <3>4. CASE Lookup(r) BY <1>1, <2>1, <3>4, LookupPreserves
      <3>5. CASE LoadLogin(r) BY <1>1, <2>1, <3>5, LoadLoginPreserves
      <3>6. CASE InsertSession(r) BY <1>1, <2>1, <3>6, InsertSessionPreserves
      <3>7. CASE ValidateSession(r) BY <1>1, <2>1, <3>7, ValidatePreserves
      <3>8. CASE TouchSession(r) BY <1>1, <2>1, <3>8, TouchPreserves
      <3>9. CASE LoadMemberships(r) BY <1>1, <2>1, <3>9, LoadMembershipsPreserves
      <3>10. CASE HandleSettings(r) BY <1>1, <2>1, <3>10, SettingsPreserves
      <3>11. CASE Logout(r) BY <1>1, <2>1, <3>11, LogoutPreserves
      <3>12. CASE UpdateAccount(r) BY <1>1, <2>1, <3>12, UpdateAccountPreserves
      <3>13. CASE RevokeAccountSessions(r) BY <1>1, <2>1, <3>13, RevokePreserves
      <3>14. CASE InsertAccount(r) \/ CreateAdmin(r)
        BY <1>1, <2>1, <3>14, InsertRowPreserves DEF InsertAccount, CreateAdmin, At
      <3>15. CASE GrantMembership(r) \/ DeleteMembership(r) BY <1>1, <2>1, <3>15, MembershipPreserves
      <3>16. CASE CommitUpdate(r) BY <1>1, <2>1, <3>16, CommitPreserves
      <3>17. CASE AuditLogin(r) \/ HandleRead(r) \/ AuditLogout(r) \/ CheckTaken(r) \/ CheckMember(r)
                  \/ UpdatePassword(r)
        BY <1>1, <2>1, <3>17, MovePreserves
      <3>18. CASE UpdateRole(r) \/ EndSessions(r) BY <1>1, <2>1, <3>18, StagedPreserves
      <3> QED BY <2>3, <3>1, <3>2, <3>3, <3>4, <3>5, <3>6, <3>7, <3>8, <3>9, <3>10, <3>11, <3>12,
                 <3>13, <3>14, <3>15, <3>16, <3>17, <3>18 DEF Step
    <2> QED BY <1>1, <2>2, <2>3 DEF Next
  <1>2. ASSUME IInv, UNCHANGED vars PROVE IInv'
    BY <1>2 DEF vars, IInv, TypeOK, RowsAreThere, StagesFit, CallerIsKnown, SeenByStage,
                ResetSawTheRest, SessionsOf, StaleExplained, At, Op
  <1> QED BY <1>1, <1>2

\* The inductive invariant holds in every reachable state, whatever requests
\* are made and however their statements interleave.
THEOREM Invariance == Spec => []IInv
  <1>1. Init => IInv BY InitEstablishes
  <1>2. IInv /\ [Next]_vars => IInv' BY NextPreserves
  <1> QED BY <1>1, <1>2, PTL DEF Spec

\* The accounts, sessions and requests of Access keep their types (TypeOK).
THEOREM TypeCorrect == Spec => []TypeOK
  <1>1. IInv => TypeOK BY DEF IInv
  <1> QED BY <1>1, Invariance, PTL

\* A request acts only with a session and a right that its caller had at some
\* time since it came (requireSession, requireProjectAdmin): for any number of
\* concurrent requests, however the account, the membership, the session or the
\* project is taken away between the statements.
THEOREM GrantsAreEarned == Spec => []GrantedWhenEntitled
  <1>1. IInv => GrantedWhenEntitled
    BY DEF IInv, TypeOK, SeenByStage, GrantedWhenEntitled
  <1> QED BY <1>1, Invariance, PTL

\* Every good session with an outdated password has one of the three known
\* origins (Login against either change, updateAccount): there is no fourth way
\* to outlive a password, however the statements of changes and logins interleave.
THEOREM StaleSessionsHaveAnOrigin == Spec => []StaleSessionsExplained
  <1>1. IInv => StaleSessionsExplained
    BY DEF IInv, StaleExplained, StaleSessionsExplained, Alive
  <1> QED BY <1>1, Invariance, PTL

\* The refresh by r of the session t that it found good.
LateRefresh(t, r) == /\ ~session[t].revoked /\ now <= session[t].expires
                     /\ At(r, "touch") /\ req[r].call.token = t /\ "session" \in held[r]

\* A session that is over before a step is over after it, or was idle too long
\* and is refreshed late.
LEMMA DeadStep ==
    ASSUME IInv, Next, NEW t \in Tokens, session[t].user # None, ~Alive(t)
    PROVE  ~Alive(t)' \/ \E r \in Requests : LateRefresh(t, r)
  <1>1. TypeOK /\ \A r \in Requests : RequestOK(r) BY IInvByRequest
  <1>2. /\ session \in [Tokens -> SessionType] /\ session[t] \in SessionType
        /\ now \in Nat /\ Idle \in Nat
    BY <1>1, BoundsAssumption DEF TypeOK
  <1>3. ASSUME UNCHANGED <<session, now>> PROVE ~Alive(t)' BY <1>3 DEF Alive
  <1>4. ASSUME UNCHANGED session, Tick PROVE ~Alive(t)'
    BY <1>2, <1>4 DEF Alive, Tick, SessionType
  <1>5. ASSUME now' = now, session[t].revoked => session'[t].revoked,
               session'[t].user = session[t].user,
               session'[t].expires = session[t].expires, session'[t].seen = session[t].seen
        PROVE  ~Alive(t)'
    BY <1>5 DEF Alive
  <1>6. ASSUME NEW r \in Requests, TouchSession(r)
         PROVE  ~Alive(t)' \/ LateRefresh(t, r)
    <2> DEFINE x == req[r].call.token
    <2>1. session' = [session EXCEPT ![x].seen = now] /\ now' = now /\ req[r].pc = "touch"
      BY <1>6 DEF TouchSession, At
    <2>2. x \in Tokens BY <1>1, <2>1, CallFacts DEF RequestOK, CallType
    <2>3. CASE t # x
      <3>1. session'[t] = session[t] BY <1>2, <2>1, <2>3
      <3> QED BY <2>1, <3>1 DEF Alive
    <2>4. CASE t = x
      <3>1. session'[t].revoked = session[t].revoked /\ session'[t].expires = session[t].expires
        BY <1>2, <2>1, <2>2, <2>4 DEF SessionType
      <3>2. "session" \in held[r] BY <1>1, <2>1 DEF RequestOK
      <3> QED BY <2>1, <2>4, <3>1, <3>2 DEF Alive, LateRefresh, At
    <2> QED BY <2>3, <2>4
  <1>7. ASSUME NEW r \in Requests, InsertSession(r) PROVE ~Alive(t)'
    <2>1. PICK x \in Tokens : session[x].user = None /\ session'[t] = session[t]
      BY <1>2, <1>7 DEF InsertSession
    <2>2. now' = now BY <1>7 DEF InsertSession
    <2> QED BY <2>1, <2>2 DEF Alive
  <1>8. ASSUME NEW r \in Requests, Logout(r) PROVE ~Alive(t)'
    <2> DEFINE x == req[r].call.token
    <2>1. session' = [session EXCEPT ![x].revoked = TRUE] /\ now' = now BY <1>8 DEF Logout
    <2> HIDE DEF x
    <2> QED BY <1>2, <1>5, <2>1 DEF SessionType
  <1>10. ASSUME NEW r \in Requests, RevokeAccountSessions(r) PROVE ~Alive(t)'
    <2> DEFINE S == SessionsOf(req[r].call.user)
    <2>1. now' = now BY <1>10 DEF RevokeAccountSessions
    <2>2. CASE session' = [y \in Tokens |-> IF y \in S THEN [session[y] EXCEPT !.revoked = TRUE]
                                             ELSE session[y]]
      BY <1>2, <1>5, <2>1, <2>2, RevokedFacts
    <2>3. CASE session' = [y \in Tokens |-> IF y \in S THEN [session[y] EXCEPT !.spared = TRUE]
                                             ELSE session[y]]
      BY <1>2, <1>5, <2>1, <2>3 DEF SessionType
    <2> QED BY <1>10, <2>2, <2>3 DEF RevokeAccountSessions
  <1>11. ASSUME NEW r \in Requests, CommitUpdate(r) PROVE ~Alive(t)'
    <2> DEFINE x == t \in req[r].ended
               y == req[r].call.reset /\ t \in SessionsOf(req[r].call.user) \cap since[r].opened
    <2>1. now' = now /\ session'[t] = [session[t] EXCEPT !.revoked = @ \/ x, !.late = @ \/ y]
      BY <1>11 DEF CommitUpdate
    <2> HIDE DEF x, y
    <2> QED BY <1>2, <1>5, <2>1 DEF SessionType
  <1>12. ASSUME NEW r \in Requests,
               \/ Receive(r) \/ Refuse(r) \/ Answer(r) \/ Lookup(r) \/ LoadLogin(r) \/ AuditLogin(r)
               \/ ValidateSession(r) \/ LoadMemberships(r) \/ HandleRead(r) \/ HandleSettings(r)
               \/ AuditLogout(r) \/ UpdateAccount(r) \/ CheckTaken(r) \/ InsertAccount(r)
               \/ CreateAdmin(r) \/ GrantMembership(r) \/ DeleteMembership(r) \/ CheckMember(r)
               \/ UpdateRole(r) \/ UpdatePassword(r) \/ EndSessions(r)
         PROVE UNCHANGED <<session, now>>
    BY <1>12 DEF Receive, Refuse, Answer, Lookup, LoadLogin, AuditLogin, ValidateSession, LoadMemberships,
         HandleRead, HandleSettings, AuditLogout, UpdateAccount, CheckTaken, InsertAccount, CreateAdmin,
         InsertRow, GrantMembership, DeleteMembership, CheckMember, UpdateRole, UpdatePassword,
         EndSessions, db
  <1>13. Tick => UNCHANGED session BY DEF Tick, db
  <1> QED BY <1>3, <1>4, <1>6, <1>7, <1>8, <1>10, <1>11, <1>12, <1>13 DEF Next, Step

\* A session that has been revoked or has passed its absolute timeout never comes
\* back, and an idle one only by a request that found it good since it came
\* (ValidateSession), whatever other requests do in between.
THEOREM SessionsStayDead == Spec => DeadStaysDead
  <1> DEFINE Kept == \A t \in Tokens : (session[t].user # None /\ ~Alive(t) /\ Alive(t)') =>
                        /\ ~session[t].revoked /\ now <= session[t].expires
                        /\ \E r \in Requests : /\ At(r, "touch") /\ req[r].call.token = t
                                              /\ "session" \in held[r]
  <1>1. IInv /\ [Next]_vars => [Kept]_vars
    BY DeadStep DEF LateRefresh
  <1> QED BY <1>1, Invariance, PTL DEF Spec, DeadStaysDead


-----------------------------------------------------------------------------
\* The names accounts answer to at the login form.

\* The accounts of this state are those of the next, under the same names.
NamesStay ==
    \A u \in Users : /\ account'[u].here = account[u].here
                     /\ account'[u].username = account[u].username
                     /\ account'[u].email = account[u].email
                     /\ account'[u].beside = account[u].beside

\* Whoever answers to a name that a request is about to give an account has
\* come since the request found the name free.
StillFree ==
    \A r \in Requests : At(r, "insert") /\ Op(r) # "createAdmin" =>
        \A u \in Users :
            Answers(u, req[r].call.username) \/ Answers(u, req[r].call.email) => u \in since[r].made

\* Accounts answer to what they answered to.
LEMMA AnswersStay ==
    ASSUME NamesStay, NEW u \in Users, NEW n
    PROVE  Answers(u, n)' <=> Answers(u, n)
  BY DEF NamesStay, Answers

\* A change of the password or of the disabled flag leaves the names.
LEMMA ChangeKeepsNames ==
    ASSUME TypeOK, NEW u \in Users, NEW x, NEW y,
           \/ account' = [account EXCEPT ![u].password = x]
           \/ account' = [account EXCEPT ![u].password = x, ![u].disabled = y]
    PROVE  NamesStay
  <1>1. account \in [Users -> AccountType] BY DEF TypeOK
  <1>2. CASE account' = [account EXCEPT ![u].password = x]
    BY <1>1, <1>2 DEF AccountType, NamesStay
  <1>3. CASE account' = [account EXCEPT ![u].password = x, ![u].disabled = y]
    BY <1>1, <1>3 DEF AccountType, NamesStay
  <1> QED BY <1>2, <1>3

\* Only the INSERT of a request changes the accounts' names.
LEMMA WhoNames ==
    ASSUME IInv, Next
    PROVE  \/ NamesStay
           \/ \E r \in Requests : At(r, "insert") /\ InsertRow(r)
  <1> SUFFICES ASSUME ~\E r \in Requests : At(r, "insert") /\ InsertRow(r) PROVE NamesStay
    OBVIOUS
  <1>1. TypeOK /\ \A r \in Requests : RequestOK(r) BY IInvByRequest
  <1>2. CASE UNCHANGED account BY <1>2 DEF NamesStay
  <1>3. ASSUME NEW r \in Requests, UpdateAccount(r), account' # account PROVE NamesStay
    <2>1. req[r].call.user \in Users
      BY <1>1, <1>3, CallFacts DEF UpdateAccount, RequestOK, At, Op, WellFormed, CallType
    <2>2. account' = [account EXCEPT
             ![req[r].call.user].password = IF req[r].call.reset THEN @ + 1 ELSE @,
             ![req[r].call.user].disabled = IF req[r].call.disabled = None THEN @ ELSE req[r].call.disabled]
      BY <1>3 DEF UpdateAccount
    <2> DEFINE u == req[r].call.user
               x == IF req[r].call.reset THEN account[u].password + 1 ELSE account[u].password
               y == IF req[r].call.disabled = None THEN account[u].disabled ELSE req[r].call.disabled
    <2>3. account' = [account EXCEPT ![u].password = x, ![u].disabled = y] BY <1>1, <2>1, <2>2 DEF TypeOK, AccountType
    <2> HIDE DEF u, x, y
    <2> QED BY <1>1, <2>1, <2>3, ChangeKeepsNames DEF u
  <1>4. ASSUME NEW r \in Requests, CommitUpdate(r), account' # account PROVE NamesStay
    <2> DEFINE u == req[r].call.user
               x == IF req[r].call.reset THEN account[u].password + 1 ELSE account[u].password
    <2>1. u \in Users
      <3>1. req[r].call \in Calls /\ Op(r) = "memberUpdate"
        BY <1>1, <1>4 DEF CommitUpdate, RequestOK, At, Updating
      <3> QED BY <3>1, CallFacts DEF Op, WellFormed, CallType
    <2>2. account' = [account EXCEPT ![u].password = IF req[r].call.reset THEN @ + 1 ELSE @]
      BY <1>4 DEF CommitUpdate
    <2>3. account' = [account EXCEPT ![u].password = x] BY <1>1, <2>1, <2>2 DEF TypeOK, AccountType
    <2> HIDE DEF u, x
    <2> QED BY <1>1, <2>1, <2>3, ChangeKeepsNames
  <1>5. CASE Tick BY <1>2, <1>5 DEF Tick, db
  <1>6. ASSUME NEW r \in Requests, Receive(r) \/ Step(r) \/ Refuse(r) \/ Answer(r) PROVE NamesStay
    <2>1. CASE Receive(r) \/ Refuse(r) \/ Answer(r) BY <1>2, <2>1 DEF Receive, Refuse, Answer, db
    <2>2. CASE Lookup(r) \/ LoadLogin(r) \/ InsertSession(r) \/ AuditLogin(r) \/ ValidateSession(r)
               \/ TouchSession(r) \/ LoadMemberships(r)
      BY <1>2, <2>2 DEF Lookup, LoadLogin, InsertSession, AuditLogin, ValidateSession, TouchSession,
                        LoadMemberships, db
    <2>3. CASE HandleRead(r) \/ HandleSettings(r) \/ Logout(r) \/ AuditLogout(r)
               \/ RevokeAccountSessions(r) \/ CheckTaken(r)
      BY <1>2, <2>3 DEF HandleRead, HandleSettings, Logout, AuditLogout, RevokeAccountSessions,
                        CheckTaken, db
    <2>4. CASE GrantMembership(r) \/ DeleteMembership(r) \/ CheckMember(r) \/ UpdateRole(r)
               \/ UpdatePassword(r) \/ EndSessions(r)
      BY <1>2, <2>4 DEF GrantMembership, DeleteMembership, CheckMember, UpdateRole, UpdatePassword,
                        EndSessions, db
    <2>5. CASE UpdateAccount(r) BY <1>2, <1>3, <2>5
    <2>6. CASE CommitUpdate(r) BY <1>2, <1>4, <2>6
    <2>7. ~(InsertAccount(r) \/ CreateAdmin(r)) BY DEF InsertAccount, CreateAdmin
    <2> QED BY <1>6, <2>1, <2>2, <2>3, <2>4, <2>5, <2>6, <2>7 DEF Step
  <1> QED BY <1>5, <1>6 DEF Next

\* The row that an INSERT adds, if it adds one: an id that was free, under the
\* names the request asks for, with a user name no account had.
LEMMA InsertedRow ==
    ASSUME IInv, NEW r \in Requests, At(r, "insert"), InsertRow(r)
    PROVE  \/ NamesStay
           \/ \E u \in Users :
                /\ ~account[u].here
                /\ \A x \in Users : x # u => account'[x] = account[x]
                /\ account'[u].username = req[r].call.username
                /\ account'[u].email = req[r].call.email
                /\ account'[u].here /\ account'[u].beside = since[r].made
                /\ req[r].call.username # None =>
                     \A x \in Users : account[x].here => account[x].username # req[r].call.username
  <1>1. account \in [Users -> AccountType] BY DEF IInv, TypeOK
  <1>2. CASE UNCHANGED <<account, member>> BY <1>2 DEF NamesStay
  <1>3. ASSUME ~UNCHANGED <<account, member>>,
               \E u \in Users :
                   /\ ~account[u].here
                   /\ account' = [account EXCEPT ![u] =
                        [here |-> TRUE, role |-> GlobalRole(req[r].call.role),
                         disabled |-> FALSE, password |-> 0,
                         username |-> req[r].call.username, email |-> req[r].call.email,
                         beside |-> since[r].made]],
               ~HasName(req[r].call.username)
        PROVE  \E u \in Users :
                /\ ~account[u].here
                /\ \A x \in Users : x # u => account'[x] = account[x]
                /\ account'[u].username = req[r].call.username
                /\ account'[u].email = req[r].call.email
                /\ account'[u].here /\ account'[u].beside = since[r].made
                /\ req[r].call.username # None =>
                     \A x \in Users : account[x].here => account[x].username # req[r].call.username
    BY <1>1, <1>3 DEF HasName
  <1> QED BY <1>2, <1>3 DEF InsertRow

\* A request is about to insert because it was before, or has just looked for
\* the name and found it free, or came from the command line.
LEMMA WhoInserts ==
    ASSUME IInv, Next, NEW r \in Requests, At(r, "insert")', Op(r)' # "createAdmin"
    PROVE  /\ req'[r].call = req[r].call
           /\ \/ At(r, "insert") /\ req' [r] = req[r]
              \/ CheckTaken(r) /\ ~Taken(req[r].call.username, req[r].call.email)
  <1>1. TypeOK BY IInvByRequest
  <1>2. req \in [Requests -> RequestType] BY <1>1 DEF TypeOK
  <1>3. CASE Tick BY <1>3 DEF Tick, At
  <1>4. ASSUME NEW o \in Requests, Receive(o) \/ Step(o) \/ Refuse(o) \/ Answer(o),
               o # r
        PROVE  req'[r] = req[r]
    <2> USE <1>2
    <2>1. CASE Receive(o) \/ Refuse(o) \/ Answer(o) BY <1>4, <2>1 DEF Receive, Refuse, Answer, Goto
    <2>2. CASE Lookup(o) \/ LoadLogin(o) \/ InsertSession(o) \/ AuditLogin(o)
      BY <1>4, <2>2 DEF Lookup, LoadLogin, InsertSession, AuditLogin, Goto
    <2>3. CASE ValidateSession(o) \/ TouchSession(o) \/ LoadMemberships(o)
      BY <1>4, <2>3 DEF ValidateSession, TouchSession, LoadMemberships, Goto
    <2>4. CASE HandleRead(o) \/ HandleSettings(o) \/ Logout(o) \/ AuditLogout(o)
      BY <1>4, <2>4 DEF HandleRead, HandleSettings, Logout, AuditLogout, Goto
    <2>5. CASE UpdateAccount(o) \/ RevokeAccountSessions(o) \/ CheckTaken(o)
      BY <1>4, <2>5 DEF UpdateAccount, RevokeAccountSessions, CheckTaken, Goto
    <2>6. CASE InsertAccount(o) \/ CreateAdmin(o)
      BY <1>4, <2>6 DEF InsertAccount, CreateAdmin, InsertRow, Goto
    <2>7. CASE GrantMembership(o) \/ DeleteMembership(o) \/ CheckMember(o)
      BY <1>4, <2>7 DEF GrantMembership, DeleteMembership, CheckMember, Goto
    <2>8. CASE UpdateRole(o) \/ UpdatePassword(o) \/ EndSessions(o) \/ CommitUpdate(o)
      BY <1>4, <2>8 DEF UpdateRole, UpdatePassword, EndSessions, CommitUpdate, Goto
    <2> QED BY <1>4, <2>1, <2>2, <2>3, <2>4, <2>5, <2>6, <2>7, <2>8 DEF Step
  <1>5. ASSUME Receive(r) \/ Step(r) \/ Refuse(r) \/ Answer(r)
        PROVE  /\ CheckTaken(r) /\ req'[r].call = req[r].call
               /\ ~Taken(req[r].call.username, req[r].call.email)
    <2>1. req[r] \in RequestType BY <1>2
    <2>2. ASSUME NEW s \in Stages, Goto(r, s) PROVE s = "insert"
      BY <1>1, <2>2, GotoFacts DEF At
    <2>3. ~(Refuse(r) \/ AuditLogin(r) \/ TouchSession(r) \/ HandleRead(r) \/ HandleSettings(r)
             \/ Logout(r) \/ AuditLogout(r) \/ InsertSession(r) \/ RevokeAccountSessions(r))
      BY <2>2 DEF Refuse, AuditLogin, TouchSession, HandleRead, HandleSettings, Logout, AuditLogout,
                  InsertSession, RevokeAccountSessions, Stages
    <2>4. ~(UpdateAccount(r) \/ InsertAccount(r) \/ CreateAdmin(r) \/ GrantMembership(r)
             \/ DeleteMembership(r) \/ CheckMember(r) \/ UpdatePassword(r) \/ CommitUpdate(r)
             \/ UpdateRole(r) \/ EndSessions(r))
      <3>1. ~(UpdateAccount(r) \/ InsertAccount(r) \/ CreateAdmin(r) \/ GrantMembership(r)
               \/ DeleteMembership(r) \/ CheckMember(r) \/ UpdatePassword(r) \/ CommitUpdate(r))
        BY <2>2 DEF UpdateAccount, InsertAccount, CreateAdmin, InsertRow, GrantMembership,
                    DeleteMembership, CheckMember, UpdatePassword, CommitUpdate, Stages
      <3>2. ~UpdateRole(r) BY <1>2, <2>1 DEF UpdateRole, At, RequestType
      <3>3. ~EndSessions(r) BY <1>2, <2>1 DEF EndSessions, At, RequestType
      <3> QED BY <3>1, <3>2, <3>3
    <2>5. ~Answer(r) BY <1>2, IdleRequestType DEF Answer, At
    <2>6. ~Lookup(r)
      <3>1. SUFFICES ASSUME Lookup(r) PROVE FALSE OBVIOUS
      <3>2. CASE Goto(r, "failed") BY <2>2, <3>2 DEF Stages
      <3>3. CASE ~Goto(r, "failed") BY <1>2, <2>1, <3>1, <3>3 DEF Lookup, At, RequestType
      <3> QED BY <3>2, <3>3
    <2>7. ~ValidateSession(r)
      <3>1. SUFFICES ASSUME ValidateSession(r) PROVE FALSE OBVIOUS
      <3>2. CASE Goto(r, "failed") BY <2>2, <3>2 DEF Stages
      <3>3. CASE ~Goto(r, "failed") BY <1>2, <2>1, <3>1, <3>3 DEF ValidateSession, At, RequestType
      <3> QED BY <3>2, <3>3
    <2>8. ~LoadLogin(r) BY <1>2, <2>1 DEF LoadLogin, At, RequestType
    <2>9. ~LoadMemberships(r) BY <1>2, <2>1 DEF LoadMemberships, At, RequestType
    <2>10. ~Receive(r)
      <3> SUFFICES ASSUME Receive(r) PROVE FALSE OBVIOUS
      <3>1. PICK call \in Calls :
              req' = [req EXCEPT ![r] = [IdleRequest EXCEPT !.call = call,
                   !.pc = CASE call.op = "login" -> "lookup"
                            [] call.op = "createAdmin" -> "insert"
                            [] OTHER -> "validate"]]
        BY DEF Receive
      <3> DEFINE s == CASE call.op = "login" -> "lookup"
                        [] call.op = "createAdmin" -> "insert"
                        [] OTHER -> "validate"
      <3>2. s = "insert" => call.op = "createAdmin" OBVIOUS
      <3> HIDE DEF s
      <3>3. req' = [req EXCEPT ![r] = [IdleRequest EXCEPT !.call = call, !.pc = s]] BY <3>1 DEF s
      <3>4. req'[r].pc = s /\ req'[r].call = call BY <1>2, <3>3 DEF IdleRequest
      <3> QED BY <3>2, <3>4 DEF At, Op
    <2>11. CheckTaken(r)
      BY <1>5, <2>3, <2>4, <2>5, <2>6, <2>7, <2>8, <2>9, <2>10 DEF Step
    <2>12. CASE Taken(req[r].call.username, req[r].call.email)
      <3>1. Goto(r, "failed") BY <2>11, <2>12 DEF CheckTaken
      <3> QED BY <2>2, <3>1 DEF Stages
    <2>13. CASE ~Taken(req[r].call.username, req[r].call.email)
      <3>1. Goto(r, "insert") BY <2>11, <2>13 DEF CheckTaken
      <3> QED BY <1>1, <2>11, <2>13, <3>1, GotoFacts DEF Stages
    <2> QED BY <2>12, <2>13
  <1> QED BY <1>3, <1>4, <1>5 DEF Next, At

\* A step that gives no account a name: a request that has just looked for its
\* names found nobody, one that waits to insert knows whoever it knew.
LEMMA NamesStep ==
    ASSUME IInv, StillFree, LoginNamesApart, Next, NamesStay
    PROVE  StillFree' /\ LoginNamesApart'
  <1>1. TypeOK /\ Witness BY IInvByRequest DEF Next
  <1>2. LoginNamesApart'
    <2> SUFFICES ASSUME NEW u \in Users, NEW v \in Users, u # v,
                        account'[u].here, account'[u].username # None,
                        account'[v].here, account'[v].username # None
                 PROVE  /\ account'[u].username # account'[v].username
                        /\ (\E n \in Names : Answers(u, n)' /\ Answers(v, n)') =>
                              u \in account'[v].beside \/ v \in account'[u].beside
      BY DEF LoginNamesApart
    <2>1. \A n \in Names : (Answers(u, n)' <=> Answers(u, n)) /\ (Answers(v, n)' <=> Answers(v, n))
      BY AnswersStay
    <2>2. /\ account[u].here /\ account[u].username # None
          /\ account[v].here /\ account[v].username # None
      BY DEF NamesStay
    <2>3. /\ account[u].username # account[v].username
          /\ (\E n \in Names : Answers(u, n) /\ Answers(v, n)) =>
                u \in account[v].beside \/ v \in account[u].beside
      BY <2>2 DEF LoginNamesApart
    <2> QED BY <2>1, <2>3 DEF NamesStay
  <1>3. ASSUME NEW r \in Requests, At(r, "insert")', Op(r)' # "createAdmin", NEW u \in Users,
               Answers(u, req[r].call.username)' \/ Answers(u, req[r].call.email)'
        PROVE  u \in since'[r].made
    <2>1. req'[r].call = req[r].call BY <1>3, WhoInserts
    <2>2. Answers(u, req[r].call.username) \/ Answers(u, req[r].call.email)
      BY <1>3, <2>1 DEF NamesStay, Answers
    <2>3. ~Taken(req[r].call.username, req[r].call.email) => FALSE BY <2>2 DEF Taken
    <2>4. At(r, "insert") /\ req'[r] = req[r] BY <1>3, <2>3, WhoInserts
    <2>5. u \in since[r].made BY <1>3, <2>2, <2>4 DEF StillFree, Op
    <2> QED BY <1>1, <2>4, <2>5, SinceFacts DEF At
  <1> QED BY <1>2, <1>3 DEF StillFree

\* The INSERT of an account: those that took one of its names since its request
\* looked for them stand beside it, and requests that wait to insert take it in.
LEMMA InsertStep ==
    ASSUME IInv, StillFree, LoginNamesApart, Next, ~NamesStay
    PROVE  StillFree' /\ LoginNamesApart'
  <1>1. TypeOK /\ Witness /\ \A r \in Requests : RequestOK(r) BY IInvByRequest DEF Next
  <1>2. PICK r \in Requests : At(r, "insert") /\ InsertRow(r) BY WhoNames
  <1>3. PICK u \in Users :
                /\ ~account[u].here
                /\ \A x \in Users : x # u => account'[x] = account[x]
                /\ account'[u].username = req[r].call.username
                /\ account'[u].email = req[r].call.email
                /\ account'[u].here /\ account'[u].beside = since[r].made
                /\ req[r].call.username # None =>
                     \A x \in Users : account[x].here => account[x].username # req[r].call.username
    BY <1>2, InsertedRow
  <1>4. \A x \in Users : x # u => \A n \in Names : (Answers(x, n)' <=> Answers(x, n))
    BY <1>3 DEF Answers
  <1>5. ASSUME NEW x \in Users, x # u, account[x].here, account[x].username # None,
               account'[u].username # None
        PROVE  /\ account[x].username # account'[u].username
               /\ (\E n \in Names : Answers(x, n) /\ Answers(u, n)') => x \in account'[u].beside
    <2>1. Op(r) # "createAdmin"
      BY <1>1, <1>2, <1>3, <1>5, CallFacts DEF RequestOK, WellFormed, Op, At
    <2>2. ASSUME NEW n \in Names, Answers(x, n), Answers(u, n)' PROVE x \in since[r].made
      <3>1. n \in {req[r].call.username, req[r].call.email} BY <1>3, <2>2 DEF Answers
      <3> QED BY <1>2, <2>1, <2>2, <3>1 DEF StillFree
    <2> QED BY <1>3, <1>5, <2>2
  <1>6. LoginNamesApart'
    <2> SUFFICES ASSUME NEW x \in Users, NEW y \in Users, x # y,
                        account'[x].here, account'[x].username # None,
                        account'[y].here, account'[y].username # None
                 PROVE  /\ account'[x].username # account'[y].username
                        /\ (\E n \in Names : Answers(x, n)' /\ Answers(y, n)') =>
                              x \in account'[y].beside \/ y \in account'[x].beside
      BY DEF LoginNamesApart
    <2>1. CASE x = u BY <1>3, <1>4, <1>5, <2>1
    <2>2. CASE y = u BY <1>3, <1>4, <1>5, <2>2
    <2>3. CASE x # u /\ y # u
      <3>1. account'[x] = account[x] /\ account'[y] = account[y] BY <1>3, <2>3
      <3>2. /\ account[x].username # account[y].username
            /\ (\E n \in Names : Answers(x, n) /\ Answers(y, n)) =>
                  x \in account[y].beside \/ y \in account[x].beside
        BY <3>1 DEF LoginNamesApart
      <3> QED BY <1>4, <2>3, <3>1, <3>2
    <2> QED BY <2>1, <2>2, <2>3
  <1>7. ASSUME NEW o \in Requests, At(o, "insert")', Op(o)' # "createAdmin", NEW x \in Users,
               Answers(x, req[o].call.username)' \/ Answers(x, req[o].call.email)'
        PROVE  x \in since'[o].made
    <2>1. ~CheckTaken(o)
      <3> SUFFICES ASSUME CheckTaken(o) PROVE FALSE OBVIOUS
      <3>1. UNCHANGED account BY DEF CheckTaken, db
      <3> QED BY <3>1 DEF NamesStay
    <2>2. At(o, "insert") /\ req'[o] = req[o] BY <1>7, <2>1, WhoInserts
    <2>3. since'[o].made = since[o].made \cup {z \in Users : ~account[z].here /\ account'[z].here}
      BY <1>1, <2>2, SinceFacts DEF At
    <2>4. CASE x = u BY <1>3, <2>3, <2>4
    <2>5. CASE x # u
      <3>1. Answers(x, req[o].call.username) \/ Answers(x, req[o].call.email)
        BY <1>3, <1>7, <2>2, <2>5 DEF Answers
      <3>2. x \in since[o].made BY <1>7, <2>2, <3>1 DEF StillFree, Op
      <3> QED BY <2>3, <3>2
    <2> QED BY <2>4, <2>5
  <1> QED BY <1>6, <1>7 DEF StillFree

\* Whatever creations overlap, two accounts made over the API have different user
\* names, and a name in different columns only if each came while the other was
\* between its look and its INSERT, or one did (createNamedAccount).
THEOREM NamesCollideOnlyInRaces == Spec => []LoginNamesApart
  <1>1. Init => StillFree /\ LoginNamesApart
    <2> SUFFICES ASSUME Init PROVE StillFree /\ LoginNamesApart OBVIOUS
    <2>1. \A r \in Requests : req[r].pc = "idle" BY IdleRequestType DEF Init
    <2>2. StillFree BY <2>1 DEF StillFree, At
    <2>3. LoginNamesApart
      <3> SUFFICES ASSUME NEW u \in Users, NEW v \in Users, u # v,
                          account[u].here, account[u].username # None,
                          account[v].here, account[v].username # None,
                          \/ account[u].username = account[v].username
                          \/ \E n \in Names : Answers(u, n) /\ Answers(v, n)
                   PROVE  FALSE
        BY DEF LoginNamesApart
      <3> DEFINE a == FirstAccounts[u]
                 b == FirstAccounts[v]
      <3>1. account[u] = a /\ account[v] = b BY DEF Init
      <3>2. PICK n : n \in ({a.username, a.email} \cap {b.username, b.email}) \ {None}
        BY <3>1 DEF Answers
      <3>3. a.here /\ b.here /\ a.username # None /\ b.username # None BY <3>1
      <3> QED BY <3>2, <3>3, FirstAssumption
    <2> QED BY <2>2, <2>3
  <1>2. IInv /\ StillFree /\ LoginNamesApart /\ [Next]_vars => StillFree' /\ LoginNamesApart'
    <2>1. ASSUME UNCHANGED vars, StillFree, LoginNamesApart PROVE StillFree' /\ LoginNamesApart'
      BY <2>1 DEF vars, StillFree, LoginNamesApart, Answers, At, Op
    <2> QED BY <2>1, NamesStep, InsertStep
  <1> QED BY <1>1, <1>2, Invariance, PTL DEF Spec
=============================================================================
