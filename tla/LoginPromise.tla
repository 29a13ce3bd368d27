----------------------------- MODULE LoginPromise ----------------------------
(* What a tool call of the MCP server promises when its session has ended.    *)
(* McpClient implements it.                                                   *)
EXTENDS Naturals

NoSession == 0

VARIABLES expired,             \* sessions ended so far
          pc, attempt, held, outcome,  \* of the call each caller serves
          refused,   \* tokens a 401 was the answer to, in this call
          mark       \* what expired was at the call's first 401

\* A token the server refused is not sent a second time by the same call, whatever
\* other calls store and clear in between: only the absence of a session can be
\* (apiClient.get).
NoTokenRefusedTwice ==
    \A c \in DOMAIN pc :
        pc[c] = "get" /\ attempt[c] = 1 /\ held[c] # NoSession => held[c] \notin refused[c]

\* "re-logging in once on a 401" recovers: no refused token is sent again, and a
\* call whose first round was refused ends unauthorized only when another session
\* has expired since (apiClient.get).
ReloginRecovers ==
    /\ NoTokenRefusedTwice
    /\ \A c \in DOMAIN outcome : outcome[c] = "unauthorized" => expired > mark[c]
==============================================================================
