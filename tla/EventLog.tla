------------------------------ MODULE EventLog ------------------------------
(***************************************************************************)
(* What event ingestion promises its clients, with no handler, lock or     *)
(* transaction in sight: a log that takes an event in at most once while   *)
(* it is kept, forgets events by retention only, and acknowledges an event *)
(* only after it was taken in or its refusal was recorded.                 *)
(***************************************************************************)
EXTENDS Naturals

CONSTANT Events

VARIABLES
    log,      \* events kept now
    stored,   \* event -> how often it was taken in
    refused,  \* events whose refusal was recorded
    acked     \* events whose client was told to forget them

logVars == <<log, stored, refused, acked>>

ever == {e \in Events : stored[e] > 0}

LogInit == log = {} /\ stored = [e \in Events |-> 0] /\ refused = {} /\ acked = {}

\* A set of new events enters the log in one piece.
Accept(S) ==
    /\ S # {} /\ S \cap log = {}
    /\ log' = log \cup S
    /\ stored' = [e \in Events |-> IF e \in S THEN stored[e] + 1 ELSE stored[e]]
    /\ UNCHANGED <<refused, acked>>

Refuse(S) ==
    /\ refused' = refused \cup S
    /\ UNCHANGED <<log, stored, acked>>

Acknowledge(S) ==
    /\ S \subseteq ever \cup refused
    /\ acked' = acked \cup S
    /\ UNCHANGED <<log, stored, refused>>

Expire(S) ==
    /\ log' = log \ S
    /\ UNCHANGED <<stored, refused, acked>>

LogNext ==
    \E S \in SUBSET Events : Accept(S) \/ Refuse(S) \/ Acknowledge(S) \/ Expire(S)

LogSpec == LogInit /\ [][LogNext]_logVars

=============================================================================
