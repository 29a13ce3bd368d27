------------------------------ MODULE McpClient -------------------------------
(* The analytics client of cmd/mcp-analytics: tool calls run concurrently and   *)
(* share one login session behind a mutex.  The mutex covers one read or one    *)
(* write of the session, so every such access is a step of its own, and so are  *)
(* the requests to the server.  A call tries at most twice: a first 401 clears  *)
(* the shared session and goes round again.  (The error after the loop is dead  *)
(* code: the second round always returns.)                                      *)
EXTENDS LoginPromise, FiniteSets

CONSTANTS Callers,      \* goroutines that serve tool calls
          MaxCalls,     \* bound: tool calls of a behaviour
          MaxExpiries   \* bound: sessions the server ends

VARIABLES session,   \* apiClient.session
          live,      \* tokens the server accepts
          issued,    \* tokens issued so far
          calls,     \* calls started so far
          token      \* of the login each caller makes

vars == <<session, live, issued, expired, calls, pc, attempt, held, token, outcome, refused, mark>>

Init == /\ session = NoSession /\ live = {} /\ issued = 0 /\ expired = 0 /\ calls = 0
        /\ pc = [c \in Callers |-> "idle"]
        /\ attempt = [c \in Callers |-> 0]
        /\ held = [c \in Callers |-> NoSession]
        /\ token = [c \in Callers |-> NoSession]
        /\ outcome = [c \in Callers |-> "none"]
        /\ refused = [c \in Callers |-> {}]
        /\ mark = [c \in Callers |-> 0]

goto(c, label) == pc' = [pc EXCEPT ![c] = label]

return(c, result) == goto(c, "idle") /\ outcome' = [outcome EXCEPT ![c] = result]

Call(c) == /\ pc[c] = "idle" /\ calls < MaxCalls
           /\ calls' = calls + 1
           /\ goto(c, "read")
           /\ attempt' = [attempt EXCEPT ![c] = 0]
           /\ outcome' = [outcome EXCEPT ![c] = "none"]
           /\ refused' = [refused EXCEPT ![c] = {}]
           /\ UNCHANGED <<session, live, issued, expired, held, token, mark>>

\* The head of a round: the shared session, or a login first when there is none.
ReadSession(c) == /\ pc[c] = "read"
                  /\ held' = [held EXCEPT ![c] = session]
                  /\ goto(c, IF session = NoSession THEN "login" ELSE "get")
                  /\ UNCHANGED <<session, live, issued, expired, calls, attempt, token, outcome, refused, mark>>

Login(c) == /\ pc[c] = "login"
            /\ issued' = issued + 1
            /\ live' = live \cup {issued'}
            /\ token' = [token EXCEPT ![c] = issued']
            /\ goto(c, "store")
            /\ UNCHANGED <<session, expired, calls, attempt, held, outcome, refused, mark>>

StoreSession(c) == /\ pc[c] = "store"
                   /\ session' = token[c]
                   /\ goto(c, "reread")
                   /\ UNCHANGED <<live, issued, expired, calls, attempt, held, token, outcome, refused, mark>>

\* Wrong: the request is sent with what was read before the login.
SendAsRead(c) == /\ pc[c] = "reread"
                 /\ goto(c, "get")
                 /\ UNCHANGED <<session, live, issued, expired, calls, attempt, held, token, outcome, refused, mark>>

RereadSession(c) == /\ pc[c] = "reread"
                    /\ held' = [held EXCEPT ![c] = session]
                    /\ goto(c, "get")
                    /\ UNCHANGED <<session, live, issued, expired, calls, attempt, token, outcome, refused, mark>>

Answered(c) == /\ pc[c] = "get" /\ held[c] \in live
               /\ return(c, "ok")
               /\ UNCHANGED <<session, live, issued, expired, calls, attempt, held, token, refused, mark>>

Refused(c) == /\ pc[c] = "get" /\ held[c] \notin live
              /\ refused' = [refused EXCEPT ![c] = @ \cup {held[c]}]
              /\ \/ /\ attempt[c] = 0
                    /\ goto(c, "clear")
                    /\ mark' = [mark EXCEPT ![c] = expired]
                    /\ UNCHANGED outcome
                 \/ /\ attempt[c] = 1
                    /\ return(c, "unauthorized")
                    /\ UNCHANGED mark
              /\ UNCHANGED <<session, live, issued, expired, calls, attempt, held, token>>

\* Wrong: the refused session stays for the second round.
KeepSession(c) == /\ pc[c] = "clear"
                  /\ attempt' = [attempt EXCEPT ![c] = 1]
                  /\ goto(c, "read")
                  /\ UNCHANGED <<session, live, issued, expired, calls, held, token, outcome, refused, mark>>

\* Wrong: and the round is not counted.
KeepTrying(c) == /\ pc[c] = "clear"
                 /\ goto(c, "read")
                 /\ UNCHANGED <<session, live, issued, expired, calls, attempt, held, token, outcome, refused, mark>>

ClearSession(c) == /\ pc[c] = "clear"
                   /\ session' = NoSession
                   /\ attempt' = [attempt EXCEPT ![c] = 1]
                   /\ goto(c, "read")
                   /\ UNCHANGED <<live, issued, expired, calls, held, token, outcome, refused, mark>>

\* A request or a login that does not come back with an answer.
Fail(c) == /\ pc[c] \in {"login", "get"}
           /\ return(c, "error")
           /\ UNCHANGED <<session, live, issued, expired, calls, attempt, held, token, refused, mark>>

\* The server ends a session (idle or absolute timeout, revocation).
Expire == /\ expired < MaxExpiries
          /\ \E t \in live : live' = live \ {t}
          /\ expired' = expired + 1
          /\ UNCHANGED <<session, issued, calls, pc, attempt, held, token, outcome, refused, mark>>

Step(c) == \/ ReadSession(c) \/ Login(c) \/ StoreSession(c) \/ RereadSession(c)
           \/ Answered(c) \/ Refused(c) \/ ClearSession(c)

Next == Expire \/ \E c \in Callers : Call(c) \/ Step(c) \/ Fail(c)

\* Every request has an answer or an error, and a mutex is always given back.
Fairness == \A c \in Callers : WF_vars(Step(c))

Spec == Init /\ [][Next]_vars /\ Fairness
------------------------------------------------------------------------------
\* The inductive invariant for any number of callers (module LiveProofs).  Tokens
\* are numbered as they are issued.
TypeOK ==
    /\ issued \in Nat /\ session \in 0..issued /\ live \subseteq 1..issued
    /\ expired \in Nat
    /\ pc \in [Callers -> {"idle", "read", "login", "store", "reread", "get", "clear"}]
    /\ attempt \in [Callers -> {0, 1}]
    /\ held \in [Callers -> 0..issued] /\ token \in [Callers -> 0..issued]
    /\ outcome \in [Callers -> {"none", "ok", "error", "unauthorized"}]
    /\ refused \in [Callers -> SUBSET (0..issued)]
    /\ mark \in [Callers -> Nat]

\* Nobody but its caller knows a token that is not stored yet.
UnstoredIsUnknown ==
    \A c \in Callers : pc[c] = "store" =>
        /\ token[c] # NoSession /\ token[c] # session
        /\ \A d \in Callers : /\ token[c] # held[d] /\ token[c] \notin refused[d]
                              /\ pc[d] = "store" /\ d # c => token[d] # token[c]

\* A token refused in the first round is cleared before the second and never
\* comes back.
RefusedIsGone ==
    \A c \in Callers :
        /\ pc[c] # "idle" /\ attempt[c] = 0 => refused[c] = IF pc[c] = "clear" THEN {held[c]} ELSE {}
        /\ pc[c] = "clear" => attempt[c] = 0
        /\ pc[c] # "idle" /\ attempt[c] = 1 => session \notin refused[c] \ {NoSession}

IInv == TypeOK /\ UnstoredIsUnknown /\ RefusedIsGone /\ NoTokenRefusedTwice

\* A call always returns, whatever expires while it runs.
EveryCallReturns == \A c \in Callers : pc[c] = "read" ~> pc[c] = "idle"
==============================================================================
