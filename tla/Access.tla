------------------------------- MODULE Access -------------------------------
(***************************************************************************)
(* Who may use the dashboard: accounts, sessions and project memberships,  *)
(* and the requests that read and change them.  Every dashboard request    *)
(* first validates its session (one SELECT, one UPDATE, one SELECT of the  *)
(* memberships) and then runs its handler's statements with what it has    *)
(* read; other requests run in between.                                    *)
(*                                                                         *)
(* A password is a version number, a name stands for all its spellings in  *)
(* upper and lower case.  A session is created by the login that inserts   *)
(* its row; tokens are never reused.  A unit of time is long compared with *)
(* the time between two statements of ValidateSession.                     *)
(***************************************************************************)
EXTENDS Naturals, FiniteSets

CONSTANTS
    Users, Projects, Tokens, Requests,
    Names,         \* user names and e-mail addresses for new accounts
    None,
    Calls,         \* what clients ask for: see CallType
    FirstAccounts, \* the accounts, memberships and sessions at the start
    FirstMembers,
    FirstSessions,
    MaxPassword,   \* bound on password changes
    Idle,          \* IdleTimeout
    Absolute,      \* AbsoluteTimeout
    LastTime,      \* bound on the clock
    MaxCalls       \* bound on the number of requests

AccessRoles == {"viewer", "project_admin"}

\* token: the session cookie; user: the account asked for or changed;
\* password: what is typed at login; reset: a new password is set.
CallType ==
    [op : {"login", "logout", "view", "settings", "accountUpdate", "accountCreate",
           "memberCreate", "memberUpdate", "memberDelete", "createAdmin"},
     token : Tokens \cup {None}, user : Users \cup {None}, project : Projects \cup {None},
     role : AccessRoles \cup {"owner", None}, password : Nat, reset : BOOLEAN,
     disabled : BOOLEAN \cup {None}, username : Names \cup {None}, email : Names \cup {None}]

\* A dashboard request carries a cookie, its path names the project and the
\* account it is about, and validation refuses a role that is not one.  The
\* command line gives an account an e-mail address and no user name.
WellFormed(call) ==
    /\ call.token = None <=> call.op \in {"login", "createAdmin"}
    /\ call.op \in {"login", "accountUpdate", "memberUpdate", "memberDelete"} => call.user # None
    /\ call.op \in {"view", "settings", "memberCreate", "memberUpdate", "memberDelete"} =>
          call.project # None
    /\ call.op = "memberUpdate" =>
          call.role \in AccessRoles \cup {None} /\ (call.role # None \/ call.reset)
    /\ call.op = "memberCreate" => call.role \in AccessRoles
    /\ call.project # None /\ call.op \in {"accountCreate", "createAdmin"} => call.role # None
    /\ call.op = "createAdmin" => call.username = None

ASSUME CallsAssumption ==
    /\ Calls \subseteq CallType
    /\ \A call \in Calls : WellFormed(call)
    /\ None \notin Users \cup Projects \cup Tokens \cup Names

ASSUME BoundsAssumption ==
    MaxPassword \in Nat /\ Idle \in Nat /\ Absolute \in Nat /\ LastTime \in Nat /\ MaxCalls \in Nat

AccountType == [here : BOOLEAN, role : {"owner", "member"}, disabled : BOOLEAN,
                password : 0..MaxPassword, username : Names \cup {None}, email : Names \cup {None},
                beside : SUBSET Users]
SessionType == [user : Users \cup {None}, expires : Nat, seen : Nat, revoked : BOOLEAN,
                password : 0..MaxPassword, late : BOOLEAN, spared : BOOLEAN]

\* The sessions at the start were opened with the passwords of their accounts,
\* and no two of the accounts with a user name share a name.
ASSUME FirstAssumption ==
    /\ FirstAccounts \in [Users -> AccountType]
    /\ FirstMembers \in [Users -> [Projects -> AccessRoles \cup {"none"}]]
    /\ FirstSessions \in [Tokens -> SessionType]
    /\ \A t \in Tokens : FirstSessions[t].user # None =>
          LET a == FirstAccounts[FirstSessions[t].user]
          IN  a.here /\ a.password = FirstSessions[t].password
    /\ \A u, v \in Users :
          LET a == FirstAccounts[u]
              b == FirstAccounts[v]
          IN  (a.here /\ b.here /\ a.username # None /\ b.username # None
                 /\ ({a.username, a.email} \cap {b.username, b.email}) \ {None} # {}) => u = v

VARIABLES
    account,   \* admin_users; beside, history: accounts made while its name was settled
    member,    \* admin_user_projects: access_role or "none"
    session,   \* admin_sessions, and the password version that opened each; late
               \* and spared, history: why a change of the password passed it by
    archived,  \* projects with archived_at set
    now,
    req,       \* the requests
    calls,     \* number of requests so far
    held,      \* history: what was true of a request's caller since it came
    since      \* history: what was added while a request is at its stage

vars == <<account, member, session, archived, now, req, calls, held, since>>
db == <<account, member, session, archived>>

\* found: the membership's row was there to update; ended: the sessions a
\* transaction has ended and not committed.
IdleRequest == [pc |-> "idle", call |-> None, who |-> None, role |-> None,
                projects |-> [p \in Projects |-> "none"], password |-> 0,
                found |-> FALSE, ended |-> {}]

Stages ==
    {"idle", "lookup", "loadLogin", "insertSession", "auditLogin", "validate", "touch", "load", "act",
     "auditLogout", "revoke", "insert", "role", "password", "sessions", "commit",
     "done", "failed"}

\* The statements of updateProjectMember's transaction after its check.
Updating == {"role", "password", "sessions", "commit"}

RequestType ==
    [pc : Stages, call : Calls \cup {None}, who : Users \cup {None}, role : {"owner", "member", None},
     projects : [Projects -> AccessRoles \cup {"none"}], password : 0..MaxPassword,
     found : BOOLEAN, ended : SUBSET Tokens]

Nothing == [opened |-> {}, made |-> {}]

TypeOK ==
    /\ account \in [Users -> AccountType]
    /\ member \in [Users -> [Projects -> AccessRoles \cup {"none"}]]
    /\ session \in [Tokens -> SessionType]
    /\ archived \in SUBSET Projects
    /\ now \in 0..LastTime
    /\ req \in [Requests -> RequestType]
    /\ calls \in 0..MaxCalls
    /\ held \in [Requests -> SUBSET {"session", "right"}]
    /\ since \in [Requests -> [opened : SUBSET Tokens, made : SUBSET Users]]

Init ==
    /\ account = FirstAccounts
    /\ member = FirstMembers
    /\ session = FirstSessions
    /\ archived = {}
    /\ now = 0
    /\ req = [r \in Requests |-> IdleRequest]
    /\ calls = 0
    /\ held = [r \in Requests |-> {}]
    /\ since = [r \in Requests |-> Nothing]

-----------------------------------------------------------------------------
\* Sessions and rights.

Op(r) == req[r].call.op

\* revoked_at, expires_at and last_seen_at as ValidateSession tests them.
Alive(t) ==
    /\ session[t].user # None
    /\ ~session[t].revoked
    /\ now <= session[t].expires
    /\ now - session[t].seen <= Idle

\* loadProjects: an archived project is in nobody's list.
LoadProjects(u, role) ==
    [p \in Projects |-> IF p \in archived THEN "none"
                        ELSE IF role = "owner" THEN "project_admin"
                        ELSE member[u][p]]

HasProjectAccess(projects, p) == projects[p] # "none"
CanManageProject(role, projects, p) == role = "owner" \/ projects[p] = "project_admin"

\* What the handlers require of a session: requireOwner,
\* requireProjectAdmin, requireProjectAccess, and that only an owner
\* assigns an existing account.
Entitled(call, role, projects) ==
    CASE call.op = "accountUpdate" -> role = "owner"
      [] call.op = "accountCreate" -> role = "owner"
      [] call.op \in {"settings", "memberUpdate", "memberDelete"} ->
            CanManageProject(role, projects, call.project)
      [] call.op = "memberCreate" ->
            /\ CanManageProject(role, projects, call.project)
            /\ call.user # None => role = "owner"
      [] call.op = "view" -> HasProjectAccess(projects, call.project)
      [] OTHER -> TRUE

\* What is true now of the caller of an open request.
HoldsNow(r) ==
    LET t == req[r].call.token
        u == session[t].user
    IN  {f \in {"session", "right"} :
            \/ f = "session" /\ Alive(t) /\ ~account[u].disabled
            \/ f = "right" /\ u # None
                 /\ Entitled(req[r].call, account[u].role, LoadProjects(u, account[u].role))}

\* held collects HoldsNow over the states since the request came; since, the
\* sessions opened and the accounts made while it waits to commit or insert.
Witness ==
    /\ held' = [r \in Requests |->
                 IF req'[r].pc = "idle" \/ req'[r].call.token = None THEN {}
                 ELSE held[r] \cup HoldsNow(r)']
    /\ since' = [r \in Requests |->
                  IF req[r].pc \notin {"commit", "insert"} \/ req'[r].pc # req[r].pc THEN Nothing
                  ELSE [opened |-> since[r].opened \cup
                          {t \in Tokens : session[t].user = None /\ session'[t].user # None},
                        made |-> since[r].made \cup
                          {u \in Users : ~account[u].here /\ account'[u].here}]]

At(r, pc) == req[r].pc = pc
Goto(r, pc) == req' = [req EXCEPT ![r].pc = pc]

-----------------------------------------------------------------------------
\* The rows updateProjectMember's transaction holds until its COMMIT: others
\* read them as they were and wait to write them.  A session is inserted
\* beside the UPDATE of its account, whose key does not change.

HoldsMember(o, u, p) ==
    /\ req[o].pc \in Updating \ {"role"}
    /\ req[o].found /\ req[o].call.user = u /\ req[o].call.project = p

HoldsAccount(o, u) ==
    /\ req[o].pc \in {"sessions", "commit"}
    /\ req[o].call.reset /\ req[o].call.user = u

HoldsSession(o, t) == At(o, "commit") /\ t \in req[o].ended

FreeMember(u, p) == \A o \in Requests : ~HoldsMember(o, u, p)
FreeAccount(u) == \A o \in Requests : ~HoldsAccount(o, u)
FreeSessions(S) == \A o \in Requests : \A t \in S : ~HoldsSession(o, t)
SessionsOf(u) == {t \in Tokens : session[t].user = u}

-----------------------------------------------------------------------------
\* Login.

Receive(r) ==
    /\ At(r, "idle")
    /\ calls < MaxCalls
    /\ calls' = calls + 1
    /\ \E call \in Calls :
         req' = [req EXCEPT ![r] = [IdleRequest EXCEPT !.call = call,
                   !.pc = CASE call.op = "login" -> "lookup"
                            [] call.op = "createAdmin" -> "insert"
                            [] OTHER -> "validate"]]
    /\ UNCHANGED <<db, now>>

\* The account's row is read once; disabled and password are tested on what
\* was read.  The throttle may refuse (Refuse).
Lookup(r) ==
    LET call == req[r].call
        a == account[call.user]
    IN  /\ At(r, "lookup")
        /\ IF a.here /\ ~a.disabled /\ a.password = call.password
           THEN req' = [req EXCEPT ![r].pc = "loadLogin", ![r].who = call.user,
                                   ![r].role = a.role, ![r].password = a.password]
           ELSE Goto(r, "failed")
        /\ UNCHANGED <<db, now, calls>>

LoadLogin(r) ==
    /\ At(r, "loadLogin")
    /\ req' = [req EXCEPT ![r].pc = "insertSession",
                          ![r].projects = LoadProjects(req[r].who, req[r].role)]
    /\ UNCHANGED <<db, now, calls>>

InsertSession(r) ==
    /\ At(r, "insertSession")
    /\ \E t \in Tokens :
         /\ session[t].user = None
         /\ session' = [session EXCEPT ![t] =
              [user |-> req[r].who, expires |-> now + Absolute, seen |-> now, revoked |-> FALSE,
               password |-> req[r].password,
               late |-> account[req[r].who].password # req[r].password, spared |-> FALSE]]
    /\ Goto(r, "auditLogin")
    /\ UNCHANGED <<account, member, archived, now, calls>>

AuditLogin(r) ==
    /\ At(r, "auditLogin")
    /\ Goto(r, "done")
    /\ UNCHANGED <<db, now, calls>>

-----------------------------------------------------------------------------
\* requireSession.

\* Wrong: only the absolute timeout is tested.
ValidateSessionAbsolute(r) ==
    LET s == session[req[r].call.token]
    IN  /\ At(r, "validate")
        /\ IF s.user # None /\ ~s.revoked /\ now <= s.expires /\ ~account[s.user].disabled
           THEN req' = [req EXCEPT ![r].pc = "touch", ![r].who = s.user,
                                   ![r].role = account[s.user].role]
           ELSE Goto(r, "failed")
        /\ UNCHANGED <<db, now, calls>>

ValidateSession(r) ==
    LET s == session[req[r].call.token]
    IN  /\ At(r, "validate")
        /\ IF Alive(req[r].call.token) /\ ~account[s.user].disabled
           THEN req' = [req EXCEPT ![r].pc = "touch", ![r].who = s.user,
                                   ![r].role = account[s.user].role]
           ELSE Goto(r, "failed")
        /\ UNCHANGED <<db, now, calls>>

TouchSession(r) ==
    /\ At(r, "touch")
    /\ FreeSessions({req[r].call.token})
    /\ session' = [session EXCEPT ![req[r].call.token].seen = now]
    /\ Goto(r, "load")
    /\ UNCHANGED <<account, member, archived, now, calls>>

\* Wrong: the memberships as they were at the start are never read again.
LoadMembershipsCached(r) ==
    LET ps == FirstMembers[req[r].who]
    IN  /\ At(r, "load")
        /\ req' = [req EXCEPT ![r].projects = ps,
                     ![r].pc = IF Entitled(req[r].call, req[r].role, ps) THEN "act" ELSE "failed"]
        /\ UNCHANGED <<db, now, calls>>

\* The memberships, and the handler's test of them.
LoadMemberships(r) ==
    LET ps == LoadProjects(req[r].who, req[r].role)
    IN  /\ At(r, "load")
        /\ req' = [req EXCEPT ![r].projects = ps,
                     ![r].pc = IF Entitled(req[r].call, req[r].role, ps) THEN "act" ELSE "failed"]
        /\ UNCHANGED <<db, now, calls>>

-----------------------------------------------------------------------------
\* Handlers.

\* Reads: session info, settings, lists and analytics of a project.
HandleRead(r) ==
    /\ At(r, "act") /\ Op(r) = "view"
    /\ Goto(r, "done")
    /\ UNCHANGED <<db, now, calls>>

\* Settings of a project, the archive flag among them.
HandleSettings(r) ==
    /\ At(r, "act") /\ Op(r) = "settings"
    /\ \/ /\ Goto(r, IF req[r].call.project \in archived THEN "failed" ELSE "done")
          /\ UNCHANGED archived
       \/ /\ req[r].role = "owner"
          /\ archived' = IF req[r].call.project \in archived THEN archived \ {req[r].call.project}
                         ELSE archived \cup {req[r].call.project}
          /\ Goto(r, "done")
    /\ UNCHANGED <<account, member, session, now, calls>>

Logout(r) ==
    LET t == req[r].call.token
    IN  /\ At(r, "act") /\ Op(r) = "logout"
        /\ FreeSessions({t})
        /\ session' = [session EXCEPT ![t].revoked = TRUE]
        /\ Goto(r, IF session[t].revoked THEN "done" ELSE "auditLogout")
        /\ UNCHANGED <<account, member, archived, now, calls>>

AuditLogout(r) ==
    /\ At(r, "auditLogout")
    /\ Goto(r, "done")
    /\ UNCHANGED <<db, now, calls>>

\* updateAccount: the row first, by itself.
UpdateAccount(r) ==
    LET call == req[r].call
    IN  /\ At(r, "act") /\ Op(r) = "accountUpdate"
        /\ FreeAccount(call.user)
        /\ call.reset => account[call.user].password < MaxPassword
        /\ IF ~account[call.user].here
           THEN Goto(r, "failed") /\ UNCHANGED account
           ELSE /\ account' = [account EXCEPT
                     ![call.user].password = IF call.reset THEN @ + 1 ELSE @,
                     ![call.user].disabled = IF call.disabled = None THEN @ ELSE call.disabled]
                /\ Goto(r, IF call.reset \/ call.disabled = TRUE THEN "revoke" ELSE "done")
        /\ UNCHANGED <<member, session, archived, now, calls>>

\* updateAccount: the end of its sessions, whose failure is ignored.
RevokeAccountSessions(r) ==
    LET u == req[r].call.user
    IN  /\ At(r, "revoke")
        /\ \/ /\ FreeSessions(SessionsOf(u))
              /\ session' = [t \in Tokens |-> IF t \in SessionsOf(u) THEN [session[t] EXCEPT !.revoked = TRUE]
                                              ELSE session[t]]
           \/ session' = [t \in Tokens |-> IF t \in SessionsOf(u) THEN [session[t] EXCEPT !.spared = TRUE]
                                           ELSE session[t]]
        /\ Goto(r, "done")
        /\ UNCHANGED <<account, member, archived, now, calls>>

\* createNamedAccount: no account answers to the user name or the e-mail.
Answers(u, n) == account[u].here /\ n # None /\ n \in {account[u].username, account[u].email}

\* Wrong: user names against user names only.
TakenByUsername(username, email) ==
    \E u \in Users : account[u].here /\ account[u].username = username

Taken(username, email) == \E u \in Users : Answers(u, username) \/ Answers(u, email)

CheckTaken(r) ==
    LET call == req[r].call
    IN  /\ At(r, "act")
        /\ Op(r) \in {"accountCreate", "memberCreate"} /\ call.user = None
        /\ Goto(r, IF Taken(call.username, call.email) THEN "failed" ELSE "insert")
        /\ UNCHANGED <<db, now, calls>>

\* globalRole: the command line's roles as admin_users knows them; accounts
\* made over the API are members.
GlobalRole(role) == IF role = "owner" THEN "owner" ELSE "member"

\* Wrong: without the unique index on user names.
HasNameNever(n) == FALSE

\* An account with the user name, as the unique index finds it.
HasName(n) == \E u \in Users : account[u].here /\ n # None /\ account[u].username = n

\* The INSERT and the rest of its transaction, under the unique index on
\* the folded user name and the one on the e-mail as it is spelled, which
\* lets another spelling pass.
InsertRow(r) ==
    LET call == req[r].call
        nameTaken == HasName(call.username)
        mailTaken == \E u \in Users : account[u].here /\ call.email # None
                                      /\ account[u].email = call.email
    IN  /\ \/ /\ nameTaken \/ mailTaken
              /\ Goto(r, "failed")
              /\ UNCHANGED <<account, member>>
           \/ /\ ~nameTaken
              /\ \E u \in Users :
                   /\ ~account[u].here
                   /\ account' = [account EXCEPT ![u] =
                        [here |-> TRUE, role |-> GlobalRole(call.role),
                         disabled |-> FALSE, password |-> 0,
                         username |-> call.username, email |-> call.email,
                         beside |-> since[r].made]]
                   /\ member' = IF call.project = None THEN member
                                ELSE [member EXCEPT ![u][call.project] =
                                       IF call.role = "owner" THEN "project_admin" ELSE call.role]
              /\ Goto(r, "done")
        /\ UNCHANGED <<session, archived, now, calls>>

\* createNamedAccount's INSERT, and the new account's membership.
InsertAccount(r) == At(r, "insert") /\ Op(r) # "createAdmin" /\ InsertRow(r)

\* The command line inserts without a check of the name.
CreateAdmin(r) == At(r, "insert") /\ Op(r) = "createAdmin" /\ InsertRow(r)

\* createProjectMember with an existing account.
GrantMembership(r) ==
    LET call == req[r].call
    IN  /\ At(r, "act") /\ Op(r) = "memberCreate" /\ call.user # None
        /\ FreeMember(call.user, call.project)
        /\ IF account[call.user].here
           THEN member' = [member EXCEPT ![call.user][call.project] = call.role] /\ Goto(r, "done")
           ELSE UNCHANGED member /\ Goto(r, "failed")
        /\ UNCHANGED <<account, session, archived, now, calls>>

DeleteMembership(r) ==
    LET call == req[r].call
    IN  /\ At(r, "act") /\ Op(r) = "memberDelete"
        /\ FreeMember(call.user, call.project)
        /\ member' = [member EXCEPT ![call.user][call.project] = "none"]
        /\ Goto(r, IF member[call.user][call.project] = "none" THEN "failed" ELSE "done")
        /\ UNCHANGED <<account, session, archived, now, calls>>

\* canChangeProjectMember: what a project admin may change is an account
\* with this membership only.
Memberships(u) == {p \in Projects : member[u][p] # "none"}

CanChangeProjectMember(r) ==
    LET call == req[r].call
    IN  /\ call.project \in Memberships(call.user)
        /\ \/ req[r].role = "owner"
           \/ account[call.user].role = "member" /\ Cardinality(Memberships(call.user)) = 1

CheckMember(r) ==
    /\ At(r, "act") /\ Op(r) = "memberUpdate"
    /\ Goto(r, IF ~CanChangeProjectMember(r) THEN "failed"
               ELSE IF req[r].call.role # None THEN "role" ELSE "password")
    /\ UNCHANGED <<db, now, calls>>

\* applyMemberUpdate: the UPDATE of the role, which finds no row when the
\* membership is gone; that is no error.
UpdateRole(r) ==
    LET call == req[r].call
    IN  /\ At(r, "role")
        /\ FreeMember(call.user, call.project)
        /\ req' = [req EXCEPT ![r].pc = IF call.reset THEN "password" ELSE "commit",
                              ![r].found = member[call.user][call.project] # "none"]
        /\ UNCHANGED <<db, now, calls>>

\* applyMemberUpdate: the UPDATE of the password.
UpdatePassword(r) ==
    /\ At(r, "password")
    /\ FreeAccount(req[r].call.user)
    /\ Goto(r, "sessions")
    /\ UNCHANGED <<db, now, calls>>

\* Wrong: the sessions of the account are left as they are.
EndSessionsNone(r) ==
    /\ At(r, "sessions")
    /\ FreeSessions(SessionsOf(req[r].call.user))
    /\ Goto(r, "commit")
    /\ UNCHANGED <<db, now, calls>>

\* applyMemberUpdate: the end of the sessions this statement sees.
EndSessions(r) ==
    LET ts == SessionsOf(req[r].call.user)
    IN  /\ At(r, "sessions")
        /\ FreeSessions(ts)
        /\ req' = [req EXCEPT ![r].pc = "commit",
                              ![r].ended = {t \in ts : ~session[t].revoked}]
        /\ UNCHANGED <<db, now, calls>>

\* updateProjectMember: audit and COMMIT.
CommitUpdate(r) ==
    LET call == req[r].call
        late == SessionsOf(call.user) \cap since[r].opened
    IN  /\ At(r, "commit")
        /\ call.reset => account[call.user].password < MaxPassword
        /\ member' = IF req[r].found THEN [member EXCEPT ![call.user][call.project] = call.role]
                     ELSE member
        /\ account' = [account EXCEPT ![call.user].password = IF call.reset THEN @ + 1 ELSE @]
        /\ session' = [t \in Tokens |->
             [session[t] EXCEPT !.revoked = @ \/ t \in req[r].ended,
                                !.late = @ \/ (call.reset /\ t \in late)]]
        /\ Goto(r, "done")
        /\ UNCHANGED <<archived, now, calls>>

\* The throttle, CSRF check, decoding or validation refuses, or a statement
\* fails; what a transaction did is undone.
Refuse(r) ==
    /\ req[r].pc \notin {"idle", "revoke", "done", "failed"}
    /\ Goto(r, "failed")
    /\ UNCHANGED <<db, now, calls>>

Answer(r) ==
    /\ req[r].pc \in {"done", "failed"}
    /\ req' = [req EXCEPT ![r] = IdleRequest]
    /\ UNCHANGED <<db, now, calls>>

\* Time passes, also between the check of a session and its refresh.
Tick ==
    /\ now < LastTime
    /\ now' = now + 1
    /\ UNCHANGED <<db, req, calls>>

Step(r) ==
    \/ Lookup(r) \/ LoadLogin(r) \/ InsertSession(r) \/ AuditLogin(r)
    \/ ValidateSession(r) \/ TouchSession(r) \/ LoadMemberships(r)
    \/ HandleRead(r) \/ HandleSettings(r) \/ Logout(r) \/ AuditLogout(r)
    \/ UpdateAccount(r) \/ RevokeAccountSessions(r)
    \/ CheckTaken(r) \/ InsertAccount(r) \/ CreateAdmin(r)
    \/ GrantMembership(r) \/ DeleteMembership(r) \/ CheckMember(r)
    \/ UpdateRole(r) \/ UpdatePassword(r) \/ EndSessions(r) \/ CommitUpdate(r)

Next ==
    /\ (\E r \in Requests : Receive(r) \/ Step(r) \/ Refuse(r) \/ Answer(r)) \/ Tick
    /\ Witness

Spec == Init /\ [][Next]_vars

-----------------------------------------------------------------------------
\* The inductive invariant (module AccessProofs): TypeOK and the following.

\* Accounts that own a session or are logging in are there, and stay there.
RowsAreThere ==
    /\ \A t \in Tokens : session[t].user # None => account[session[t].user].here
    /\ \A r \in Requests : req[r].pc \in {"loadLogin", "insertSession"} =>
          req[r].who # None /\ account[req[r].who].here

\* The stage of a request is one of its operation.
StagesFit ==
    \A r \in Requests :
        /\ req[r].pc # "idle" => req[r].call \in Calls
        /\ req[r].pc \in {"lookup", "loadLogin", "insertSession", "auditLogin"} => Op(r) = "login"
        /\ req[r].pc \in {"validate", "touch", "load", "act", "auditLogout", "revoke"} \cup Updating =>
              req[r].call.token # None
        /\ req[r].pc = "revoke" => Op(r) = "accountUpdate"
        /\ req[r].pc \in Updating => Op(r) = "memberUpdate"
        /\ req[r].pc = "insert" => Op(r) \in {"accountCreate", "memberCreate", "createAdmin"}
        /\ req[r].pc = "role" \/ req[r].found => req[r].call.op = "memberUpdate" /\ req[r].call.role # None

\* What a request has read of its caller is still so: a session keeps its
\* owner and an account its role.
CallerIsKnown ==
    \A r \in Requests : req[r].pc \in {"touch", "load"} =>
        /\ req[r].who = session[req[r].call.token].user
        /\ req[r].who # None
        /\ req[r].role = account[req[r].who].role

\* What has been seen of the caller by the stage the request has reached.
SeenByStage ==
    \A r \in Requests :
        /\ req[r].pc \in {"touch", "load", "act", "auditLogout", "revoke", "insert", "done"} \cup Updating
              /\ req[r].call.token # None => "session" \in held[r]
        /\ req[r].pc \in {"act", "auditLogout", "revoke", "insert", "done"} \cup Updating
              /\ req[r].call.token # None => "right" \in held[r]

\* A session that a reset about to commit has not ended came after its UPDATE.
ResetSawTheRest ==
    \A r \in Requests : At(r, "commit") /\ req[r].call.reset =>
        \A t \in SessionsOf(req[r].call.user) :
            session[t].revoked \/ t \in req[r].ended \cup since[r].opened

\* StaleSessionsExplained, of the sessions that have timed out as well.
StaleExplained ==
    \A t \in Tokens :
        LET s == session[t]
        IN  (s.user # None /\ ~s.revoked /\ s.password # account[s.user].password)
                => \/ s.late \/ s.spared
                   \/ \E r \in Requests : At(r, "revoke") /\ req[r].call.user = s.user

IInv ==
    TypeOK /\ RowsAreThere /\ StagesFit /\ CallerIsKnown /\ SeenByStage
      /\ ResetSawTheRest /\ StaleExplained

-----------------------------------------------------------------------------
\* Properties.

\* A request acts for its caller only if, since the request came, the
\* session was good at some time and the right it needs was held at some
\* time: what was taken away before (a membership, the account, the session,
\* the project by its archive) is refused, although the parts are read by
\* different statements (requireSession, requireProjectAdmin).
GrantedWhenEntitled ==
    \A r \in Requests :
        (req[r].pc \in {"act", "auditLogout", "revoke", "done"} \cup Updating /\ req[r].call.token # None)
            => held[r] = {"session", "right"}

\* A session that was revoked or has passed its absolute timeout never becomes
\* good again, although last_seen_at is refreshed by requests that tested it
\* earlier; one that has passed its idle timeout does so only by such a request,
\* which found it good since it came (ValidateSession tests and then updates).
DeadStaysDead ==
    [][\A t \in Tokens : (session[t].user # None /\ ~Alive(t) /\ Alive(t)') =>
          /\ ~session[t].revoked /\ now <= session[t].expires
          /\ \E r \in Requests : /\ At(r, "touch") /\ req[r].call.token = t
                                /\ "session" \in held[r]]_vars

\* A good session of an account whose password has changed since has one of
\* three origins.  Its login had tested the old password and inserted its row
\* too late for the change: after it, or between the statement of the change's
\* transaction that ends sessions and the COMMIT (applyMemberUpdate).  Or the
\* ignored failure of updateAccount's second statement left it.  Or that
\* statement has yet to end it.
StaleSessionsExplained ==
    \A t \in Tokens :
        (Alive(t) /\ session[t].password # account[session[t].user].password)
            => \/ session[t].late
               \/ session[t].spared
               \/ \E r \in Requests : At(r, "revoke") /\ req[r].call.user = session[t].user

\* Two accounts made over the API, whichever endpoint made them, never have one
\* user name; and they answer to one name at the login form, as the user name of
\* one and the e-mail of the other, only if one was made between the other's
\* look for its names and its INSERT (createNamedAccount does both under no
\* lock).  The command line, whose accounts have no user name, does not look.
LoginNamesApart ==
    \A u, v \in Users :
        (u # v /\ \A x \in {u, v} : account[x].here /\ account[x].username # None) =>
            /\ account[u].username # account[v].username
            /\ (\E n \in Names : Answers(u, n) /\ Answers(v, n)) =>
                  u \in account[v].beside \/ v \in account[u].beside
=============================================================================
