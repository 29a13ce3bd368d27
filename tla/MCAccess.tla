------------------------------ MODULE MCAccess ------------------------------
(* Four small scenarios of Access in one run: each names the calls that are *)
(* made, by which requests, how many of them and how far the clock goes.    *)
EXTENDS Access

CONSTANTS own, adm, mem, new, p, q, t1, t2, t3, t4, n1, n2, r1, r2

VARIABLE scenario

Call(op) ==
    [op |-> op, token |-> None, user |-> None, project |-> None, role |-> None,
     password |-> 0, reset |-> FALSE, disabled |-> None, username |-> None, email |-> None]

Row(role, here) ==
    [here |-> here, role |-> role, disabled |-> FALSE, password |-> 0,
     username |-> None, email |-> None, beside |-> {}]

\* An owner, an admin of p, a viewer of p, and ids not yet used.
MCAccounts ==
    [u \in Users |-> Row(IF u = own THEN "owner" ELSE "member", u \in {own, adm, mem})]

MCMembers ==
    [u \in Users |-> [x \in Projects |->
        IF x # p THEN "none" ELSE IF u = adm THEN "project_admin"
        ELSE IF u = mem THEN "viewer" ELSE "none"]]

\* The owner and the admin have logged in.
MCSessions ==
    [t \in Tokens |->
        [user |-> CASE t = t1 -> own [] t = t2 -> adm [] OTHER -> None,
         expires |-> Absolute, seen |-> 0, revoked |-> FALSE, password |-> 0,
         late |-> FALSE, spared |-> FALSE]]

\* Rights that are taken away while their holder's request is running.
MCRightsCalls ==
    {[Call("view") EXCEPT !.token = t2, !.project = p],
     [Call("settings") EXCEPT !.token = t1, !.project = p],
     [Call("settings") EXCEPT !.token = t2, !.project = p],
     [Call("memberDelete") EXCEPT !.token = t1, !.user = adm, !.project = p],
     [Call("memberCreate") EXCEPT !.token = t1, !.user = adm, !.project = p, !.role = "viewer"],
     [Call("memberCreate") EXCEPT !.token = t2, !.user = mem, !.project = p, !.role = "project_admin"],
     [Call("accountUpdate") EXCEPT !.token = t1, !.user = adm, !.disabled = TRUE],
     [Call("accountUpdate") EXCEPT !.token = t1, !.user = adm, !.disabled = FALSE],
     [Call("accountUpdate") EXCEPT !.token = t1, !.user = new, !.disabled = TRUE],
     [Call("logout") EXCEPT !.token = t2]}

\* Logins against changes of the password.
MCSessionCalls ==
    {[Call("login") EXCEPT !.user = mem, !.password = 0],
     [Call("login") EXCEPT !.user = mem, !.password = 1],
     [Call("logout") EXCEPT !.token = t3],
     [Call("view") EXCEPT !.token = t3, !.project = p],
     [Call("accountUpdate") EXCEPT !.token = t1, !.user = mem, !.reset = TRUE],
     [Call("memberUpdate") EXCEPT !.token = t2, !.user = mem, !.project = p, !.reset = TRUE]}

\* Accounts and memberships that come and change.
MCMemberCalls ==
    {[Call("accountCreate") EXCEPT !.token = t1, !.username = n1, !.email = n2],
     [Call("accountCreate") EXCEPT !.token = t1, !.username = n2],
     [Call("memberCreate") EXCEPT !.token = t2, !.project = p, !.role = "viewer", !.username = n1],
     [Call("memberCreate") EXCEPT !.token = t1, !.user = mem, !.project = q, !.role = "viewer"],
     [Call("memberUpdate") EXCEPT !.token = t2, !.user = mem, !.project = p, !.reset = TRUE, !.role = "project_admin"],
     [Call("memberCreate") EXCEPT !.token = t1, !.user = new, !.project = q, !.role = "viewer"],
     [Call("memberUpdate") EXCEPT !.token = t1, !.user = mem, !.project = q, !.role = "project_admin"],
     [Call("memberDelete") EXCEPT !.token = t1, !.user = mem, !.project = p]}

\* One name, asked for over both endpoints and in both columns at once.
MCRaceCalls ==
    {[Call("accountCreate") EXCEPT !.token = t1, !.username = n1],
     [Call("accountCreate") EXCEPT !.token = t1, !.username = n2, !.email = n1],
     [Call("memberCreate") EXCEPT !.token = t2, !.project = p, !.role = "viewer", !.username = n1]}

\* The command line creates owners and project admins.
MCAdminCalls ==
    {[Call("createAdmin") EXCEPT !.email = n1, !.role = "owner"],
     [Call("createAdmin") EXCEPT !.email = n2, !.role = "project_admin", !.project = p]}

MCCalls == MCRightsCalls \cup MCSessionCalls \cup MCMemberCalls \cup MCRaceCalls \cup MCAdminCalls

\* Two requests at once in each.
Scenarios ==
    [rights   |-> [calls |-> MCRightsCalls, by |-> {r1, r2}, most |-> 3, clock |-> 0],
     sessions |-> [calls |-> MCSessionCalls, by |-> {r1, r2}, most |-> 3, clock |-> 3],
     race     |-> [calls |-> MCRaceCalls, by |-> {r1, r2}, most |-> 2, clock |-> 0],
     members  |-> [calls |-> MCMemberCalls \cup MCAdminCalls, by |-> {r1, r2}, most |-> 3, clock |-> 0]]

MCInit == Init /\ scenario \in DOMAIN Scenarios

MCNext ==
    /\ Next
    /\ UNCHANGED scenario
    /\ LET s == Scenarios[scenario]
       IN  /\ calls' <= s.most /\ now' <= s.clock
           /\ \A r \in Requests : At(r, "idle")' \/ (r \in s.by /\ req'[r].call \in s.calls)

MCSpec == MCInit /\ [][MCNext]_<<vars, scenario>>

=============================================================================
