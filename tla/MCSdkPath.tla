------------------------------ MODULE MCSdkPath ------------------------------
(***************************************************************************)
(* What a request of the SDK passes on its way to a handler, checked in one *)
(* run.  A behaviour is one of the parts: `part` says which.  A part's      *)
(* module has the variables its promise is about and the first of v1 .. v9; *)
(* the others are off, and the promises of the others are empty.            *)
(***************************************************************************)
EXTENDS RatePromise, FilingPromise, PolicyPromise, TLC

CONSTANTS p1, p2, f1, Off

VARIABLES part, v1, v2, v3, v4, v5, v6, v7, v8, v9

-----------------------------------------------------------------------------
\* FrontEnd: bodies at and around the limits (8 bytes on the wire, 12
\* inflated) and disks at and around every threshold.
Body(gzip, wire, inflated, declared) ==
    [gzip |-> gzip, wire |-> wire, inflated |-> inflated, declared |-> declared]
EdgeBodies == {Body(TRUE, 4, n, 4) : n \in {1, 12, 13, 14}}
              \cup UNION {{Body(TRUE, w, 12, -1), Body(TRUE, w, 12, w)} : w \in {8, 9}}
              \cup {Body(FALSE, w, w, -1) : w \in {8, 9}}
EdgeUsages == [used : {69, 70, 80, 85, 90}, free : {99}]
              \cup [used : {50}, free : {10, 11, 16, 21, 31}]

\* Contracts: events that fail at each of the stages, alone and next to sound
\* ones; a depth limit of three stands for sixty-four (a flat event has two).
Sample(id, depth, flaws) == [id |-> id, depth |-> depth, flaws |-> flaws]
EventSamples ==
    {Sample(id, 2, {}) : id \in {"u1", "u2", "x", ""}}
    \cup {Sample("u1", 2, {"duplicateKey"}), Sample("u2", 2, {"unknownField", "session_id"}),
          Sample("u2", 2, {"name", "key"}), Sample("u3", 2, {"valueSize", "valueType"}),
          Sample("u3", 2, {"encodedSize"}), Sample("u3", 3, {"valueType"}),
          Sample("u3", 2, {"utf8"}), Sample("", 4, {"wrongType"}), Sample("", 2, {"wrongType"})}
EnvelopeFlaws ==
    {{}} \cup {{f} : f \in {"utf8", "duplicateKey", "unknownField", "wrongType", "schema",
                            "install", "sdk", "sentAt", "credential"}}

\* RateLimit: two sources and two installations of one project; a burst of two
\* requests or one and a half, a refill of half a request per tick.
Limited(k, s, i, v) == [kind |-> k, source |-> s, project |-> "p", install |-> i, valid |-> v]
LimitedCalls ==
    {Limited("batch", "a", "i", TRUE), Limited("batch", "b", "j", TRUE),
     Limited("batch", "a", "j", FALSE), Limited("policy", "a", "i", TRUE),
     Limited("register", "a", "i", TRUE), Limited("login", "a", "e", TRUE)}
Wide == {"ingestProject", "regProject", "byIP"}
Narrow == {"regIP", "ingestIP", "ingestInstall", "byEmail"}
Refill == [l \in Wide \cup Narrow |-> 1]
Capacity == [l \in Wide \cup Narrow |-> IF l \in Wide THEN 3 ELSE 2]

\* ClientPolicy: three rules for one project (one for everybody, two that tie
\* on different fields), one of another project, one invalid draft.
PolicyFields == {"environment", "build_number"}
Rule(p, env, build, mode) ==
    [project |-> p, match |-> [f \in PolicyFields |-> IF f = "environment" THEN env ELSE build],
     mode |-> mode, seconds |-> 300, reason |-> "incident"]
Drafted == [all |-> Rule("game", "any", "any", "pause_upload"),
            env |-> Rule("game", "test", "any", "disable_collection"),
            old |-> Rule("game", "any", "b1", "active"),
            bad |-> Rule("game", "any", "any", "stop"),
            other |-> Rule("shop", "any", "any", "disable_collection")]
Named == DOMAIN Drafted
Carried == [i \in {"i1"} |-> [f \in PolicyFields |-> IF f = "environment" THEN "test" ELSE "b1"]]

-----------------------------------------------------------------------------
Limits == INSTANCE FrontEnd WITH
    Procs <- {f1}, Slots <- 1, Bodies <- EdgeBodies, MaxWire <- 8, MaxInflated <- 12,
    Usages <- EdgeUsages, MaxRestarts <- 0, pc <- v1, kind <- v2, body <- v3,
    data <- v4, sem <- v5, usage <- v6, current <- v7, up <- v8, restarts <- v9
Wire == INSTANCE Contracts WITH
    Samples <- EventSamples, Envelopes <- EnvelopeFlaws, Ids <- {"u1", "u2", "u3"},
    MaxEvents <- 3, MaxDepth <- 3, MaxComposed <- 4, kind <- v1, envelope <- v2,
    body <- v3, phase <- v4, events <- v5, prepared <- v6, rejected <- v7, code <- v8
Buckets == INSTANCE RateLimit WITH
    Procs <- {p1, p2}, Calls <- LimitedCalls, MaxTime <- 2, MaxCalls <- 4, now <- v1,
    buckets <- v2, call <- v3, chain <- v4, found <- v5, charged <- v6, calls <- v7
Stamps == INSTANCE Clock WITH
    Offsets <- {-9, -3, -2, 0, 2, 3, 9}, MaxTime <- 10, MaxEvents <- 3,
    ZeroTime <- -100, MaxDuration <- 60, now <- v1, offset <- v2, queue <- v3
Rules == INSTANCE ClientPolicy WITH
    Requests <- {f1}, Installs <- {"i1"}, Values <- {"test", "b1"},
    Projects <- {"game", "shop"}, Chosen <- {""}, MaxRestarts <- 0, MaxErrors <- 1,
    rules <- v1, scenario <- v2, archived <- v3, seen401 <- v4, errors <- v5
Faults == INSTANCE ClientPolicy WITH
    Requests <- {p1, p2}, Installs <- {"i1"}, Values <- {"test", "b1"}, Drafts <- {},
    Projects <- {"game"}, Chosen <- {"", "unauthorized_once", "lost_acknowledgement"},
    MaxRestarts <- 1, MaxErrors <- 1,
    rules <- v1, scenario <- v2, archived <- v3, seen401 <- v4, errors <- v5

\* What the proofs assume of the configuration.
ASSUME LimitsConfigured == Limits!Configured
ASSUME RatesConfigured == Buckets!Configured
ASSUME ClockConfigured == Stamps!Configured
ASSUME PoliciesConfigured == Rules!Configured /\ Faults!Configured

-----------------------------------------------------------------------------
\* The variables after the first k, off and unchanged.
Off8 == v9 = Off
Off7 == v8 = Off /\ Off8
Off5 == v6 = Off /\ v7 = Off /\ Off7
Off3 == v4 = Off /\ v5 = Off /\ Off5
Rest8 == <<v9>>
Rest7 == <<v8, Rest8>>
Rest5 == <<v6, v7, Rest7>>
Rest3 == <<v4, v5, Rest5>>

\* What the promises are about, and what it is in the other parts.
rated == <<spent>>
filed == <<sent, stored>>
answered == <<req, audited, since, chosen, count401, restarts>>
Unrated == spent = <<>>
Unfiled == sent = Off /\ stored = <<>>
Unanswered == /\ req = <<>> /\ audited = {} /\ since = <<>> /\ chosen = <<>>
              /\ count401 = <<>> /\ restarts = 0

Init ==
    \/ part = "limits" /\ Limits!Init /\ Unrated /\ Unfiled /\ Unanswered
    \/ part = "contracts" /\ Wire!Init /\ Off8 /\ Unrated /\ Unfiled /\ Unanswered
    \/ part = "rates" /\ Buckets!Init /\ Off7 /\ Unfiled /\ Unanswered
    \/ part = "clock" /\ Stamps!Init /\ Off3 /\ Unrated /\ Unanswered
    \/ part = "rules" /\ Rules!Init /\ Off5 /\ Unrated /\ Unfiled
    \/ part = "faults" /\ Faults!Init /\ Off5 /\ Unrated /\ Unfiled

Next ==
    /\ UNCHANGED part
    /\ \/ part = "limits" /\ Limits!Next /\ UNCHANGED <<rated, filed, answered>>
       \/ part = "contracts" /\ Wire!Next /\ UNCHANGED <<Rest8, rated, filed, answered>>
       \/ part = "rates" /\ Buckets!Next /\ UNCHANGED <<Rest7, filed, answered>>
       \/ part = "clock" /\ Stamps!Next /\ UNCHANGED <<Rest3, rated, answered>>
       \/ part = "rules" /\ Rules!Next /\ UNCHANGED <<Rest5, rated, filed>>
       \/ part = "faults" /\ Faults!Next /\ UNCHANGED <<Rest5, rated, filed>>

vars == <<part, rated, filed, answered, v1, v2, v3, v4, v5, v6, v7, v8, v9>>

Spec == Init /\ [][Next]_vars

\* Goroutines are interchangeable.
Symmetry == Permutations({p1, p2})

-----------------------------------------------------------------------------
\* What reaches a handler is what was sent, or the request is refused: a body
\* is never cut short and taken for a whole one (readBodyWithLimits), and no way
\* out of a handler loses its slot (the deferred receive from sem); every event
\* of an answered batch is answered exactly once, stored if and only if it has no
\* flaw, and the batch is refused as a whole only for what is wrong with the
\* whole (DecodeBatchIngestRequest, Validate); and nobody pays for a request that
\* could never be stored (admitBatch, admitRegistration).
RequestContract ==
    /\ part = "limits" => Limits!BodyIsWhole /\ Limits!SlotsAccounted
    /\ part = "contracts" => Wire!AnsweredOnce /\ Wire!StoredIffFlawless /\ Wire!RefusedForTheWhole
    /\ part = "rates" => Buckets!ChargedInTurn
=============================================================================
