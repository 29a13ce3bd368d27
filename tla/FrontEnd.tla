------------------------------ MODULE FrontEnd -------------------------------
(* The HTTP front end around the SDK endpoints: the slots that bound          *)
(* concurrent ingestion, the body limits, the disk monitor whose cached state *)
(* gates batches, dashboard reads, and the start, drain and end of the        *)
(* process.  What the rate limiters and the contract refuse is in RateLimit   *)
(* and Contracts: here either may refuse any request.                         *)
EXTENDS Integers, Sequences, FiniteSets, FiniteSetsExt

CONSTANTS Procs,                 \* connections, one goroutine each
          Slots,                 \* ingestSemaphoreSize
          Bodies,                \* [gzip, wire, inflated, declared]; declared = -1: unknown length
          MaxWire, MaxInflated,  \* maxCompressedBody, maxDecompressedBody
          Usages,                \* [used, free]: percent used, free space in half GiB
          MaxRestarts            \* bound: restarts of a behaviour

VARIABLES pc,        \* where each connection's handler is
          kind,      \* the endpoint it serves
          body,      \* the body it was sent
          data,      \* how many bytes of it the decoder is given
          sem,       \* occupied slots
          usage,     \* the disk
          current,   \* DiskMonitor.current
          up,        \* serving, draining (SIGTERM received) or down
          restarts   \* restarts so far

vars == <<pc, kind, body, data, sem, usage, current, up, restarts>>

\* The limits are those of one configuration: what may come over the wire may
\* also be handed on.
Configured == /\ IsFiniteSet(Procs) /\ Slots \in Nat
              /\ MaxWire \in Nat /\ MaxInflated \in Nat /\ MaxWire <= MaxInflated
              /\ Bodies \subseteq [gzip : BOOLEAN, wire : Nat, inflated : Nat, declared : Int]

NoBody == [gzip |-> FALSE, wire |-> 0, inflated |-> 0, declared |-> 0]
States == <<"normal", "warning", "high", "critical", "rejecting">>
Slotted(k) == k \in {"batch", "register"}

Init == /\ pc = [p \in Procs |-> "idle"] /\ kind = [p \in Procs |-> "none"]
        /\ body = [p \in Procs |-> NoBody] /\ data = [p \in Procs |-> 0]
        /\ sem = 0 /\ usage \in Usages
        /\ current = "normal" /\ up = "serving" /\ restarts = 0
------------------------------------------------------------------------------
(* Disk state.                                                               *)

classify(u) == IF u.used >= 90 \/ u.free <= 10 THEN "rejecting"
               ELSE IF u.used >= 85 \/ u.free <= 15 THEN "critical"
               ELSE IF u.used >= 80 \/ u.free <= 20 THEN "high"
               ELSE IF u.used >= 70 \/ u.free <= 30 THEN "warning"
               ELSE "normal"

\* The disk fills and is freed by others.
Fill(u) == usage' = u /\ u # usage /\ UNCHANGED <<pc, kind, body, data, sem, current, up, restarts>>

\* Wrong: the state is only ever raised.
CheckRaises == /\ up = "serving" /\ current = "normal"
               /\ current' = classify(usage)
               /\ UNCHANGED <<pc, kind, body, data, sem, usage, up, restarts>>

\* A reading of the monitor that succeeds; one that fails changes nothing.
Check == /\ up = "serving"
         /\ current' = classify(usage)
         /\ UNCHANGED <<pc, kind, body, data, sem, usage, up, restarts>>
------------------------------------------------------------------------------
(* Requests.                                                                 *)

Receive(p, k, b) ==
    /\ up = "serving" /\ pc[p] = "idle"
    /\ kind' = [kind EXCEPT ![p] = k] /\ body' = [body EXCEPT ![p] = b]
    /\ pc' = [pc EXCEPT ![p] = IF Slotted(k) THEN "waiting" ELSE "reading"]
    /\ UNCHANGED <<data, sem, usage, current, up, restarts>>

\* A dashboard read: neither a slot nor the disk state is asked for.
ReadAnalytics(p) == /\ up = "serving" /\ pc[p] = "idle"
                    /\ pc' = [pc EXCEPT ![p] = "querying"]
                    /\ kind' = [kind EXCEPT ![p] = "read"]
                    /\ UNCHANGED <<body, data, sem, usage, current, up, restarts>>

Acquire(p) == /\ pc[p] = "waiting" /\ sem < Slots
              /\ sem' = sem + 1 /\ pc' = [pc EXCEPT ![p] = "reading"]
              /\ UNCHANGED <<kind, body, data, usage, current, up, restarts>>

\* Wrong: the slot is given back on the way out of a successful request only.
FinishLeaks(p) == /\ pc' = [pc EXCEPT ![p] = "idle"] /\ kind' = [kind EXCEPT ![p] = "none"]
                  /\ body' = [body EXCEPT ![p] = NoBody] /\ data' = [data EXCEPT ![p] = 0]
                  /\ sem' = IF Slotted(kind[p]) /\ pc[p] = "working" THEN sem - 1 ELSE sem

\* The handler returns or panics; its deferred function gives the slot back.
Finish(p) == /\ pc' = [pc EXCEPT ![p] = "idle"] /\ kind' = [kind EXCEPT ![p] = "none"]
             /\ body' = [body EXCEPT ![p] = NoBody] /\ data' = [data EXCEPT ![p] = 0]
             /\ sem' = IF Slotted(kind[p]) THEN sem - 1 ELSE sem

\* Wrong: the reader is cut at the limit, and a cut body looks like a whole one.
readBodyCut(b) == LET n == IF b.gzip THEN Min({b.inflated, MaxInflated}) ELSE b.wire
                  IN  IF b.declared > MaxWire \/ b.wire > MaxWire THEN -1 ELSE n

\* The number of bytes read, -1 if the body is too large.  The reader of an
\* inflated body is cut one byte past the limit, so that the cut shows.
readBodyWithLimits(b) == LET n == IF b.gzip THEN Min({b.inflated, MaxInflated + 1}) ELSE b.wire
                         IN  IF b.declared > MaxWire \/ b.wire > MaxWire \/ (b.gzip /\ n > MaxInflated)
                               THEN -1 ELSE n

ReadBody(p) == /\ pc[p] = "reading"
               /\ IF (kind[p] = "batch" /\ ~body[p].gzip) \/ readBodyWithLimits(body[p]) = -1
                    THEN Finish(p)
                    ELSE /\ data' = [data EXCEPT ![p] = readBodyWithLimits(body[p])]
                         /\ pc' = [pc EXCEPT ![p] = "decoded"]
                         /\ UNCHANGED <<kind, body, sem>>
               /\ UNCHANGED <<usage, current, up, restarts>>

\* Wrong: the disk state is asked for, but only Rejecting's predecessor counts.
PressuredAtCritical(p) == kind[p] = "batch" /\ current = "critical"

\* Only batches are gated on the disk.
Pressured(p) == kind[p] = "batch" /\ current = "rejecting"

Admit(p) == /\ pc[p] = "decoded" /\ ~Pressured(p)
            /\ pc' = [pc EXCEPT ![p] = "working"]
            /\ UNCHANGED <<kind, body, data, sem, usage, current, up, restarts>>

\* Refused: under disk pressure, by a limiter, or by the contract.
Refuse(p) == /\ pc[p] = "decoded"
             /\ Finish(p)
             /\ UNCHANGED <<usage, current, up, restarts>>

\* The answer is written, or the handler panics (a lost acknowledgement in test mode).
Answer(p) == /\ pc[p] \in {"working", "querying"}
             /\ Finish(p)
             /\ UNCHANGED <<usage, current, up, restarts>>
------------------------------------------------------------------------------
(* The process.                                                              *)

\* SIGTERM: no new requests, the monitor and the maintenance runner stop.
Shutdown == /\ up = "serving" /\ restarts < MaxRestarts
            /\ up' = "draining"
            /\ UNCHANGED <<pc, kind, body, data, sem, usage, current, restarts>>

\* Every request answered, or ten seconds gone: whatever is left is cut off.
Exit == /\ up = "draining"
        /\ up' = "down"
        /\ pc' = [p \in Procs |-> "idle"] /\ kind' = [p \in Procs |-> "none"]
        /\ body' = [p \in Procs |-> NoBody] /\ data' = [p \in Procs |-> 0] /\ sem' = 0
        /\ UNCHANGED <<usage, current, restarts>>

\* The new process serves before its monitor has read the disk.
Start == /\ up = "down"
         /\ up' = "serving" /\ current' = "normal" /\ restarts' = restarts + 1
         /\ UNCHANGED <<pc, kind, body, data, sem, usage>>

Step(p) == ReadBody(p) \/ Admit(p) \/ Refuse(p) \/ Answer(p)

Next == \/ \E p \in Procs : \/ \E k \in {"batch", "register", "policy"}, b \in Bodies : Receive(p, k, b)
                            \/ ReadAnalytics(p) \/ Acquire(p) \/ Step(p)
        \/ \E u \in Usages : Fill(u)
        \/ Check \/ Shutdown \/ Exit \/ Start

\* Handlers run; a channel serves its waiters in turn; the ticker fires and not
\* every reading fails; a process told to stop stops and is started again.
Fairness == /\ \A p \in Procs : WF_vars(Step(p)) /\ SF_vars(Acquire(p))
            /\ SF_vars(Check) /\ WF_vars(Exit) /\ WF_vars(Start)

Spec == Init /\ [][Next]_vars /\ Fairness
------------------------------------------------------------------------------
\* What the decoder is given is the whole body and within the limits; a body is
\* never cut short and taken for a whole one.
BodyIsWhole ==
    \A p \in Procs : pc[p] \in {"decoded", "working"} =>
       data[p] = (IF body[p].gzip THEN body[p].inflated ELSE body[p].wire) /\ data[p] <= MaxInflated

\* As many slots are taken as requests hold one, and never more than there are:
\* no refusal, oversized body, panic or restart loses one or gives one back twice.
Holding == {p \in Procs : Slotted(kind[p]) /\ pc[p] # "waiting"}
SlotsAccounted == sem = Cardinality(Holding) /\ sem <= Slots

\* The inductive invariant (module SdkPathProofs).
TypeOK == /\ pc \in [Procs -> {"idle", "waiting", "reading", "decoded", "working", "querying"}]
          /\ kind \in [Procs -> {"none", "batch", "register", "policy", "read"}]
          /\ body \in [Procs -> Bodies \cup {NoBody}]
          /\ data \in [Procs -> Nat]

\* An endpoint is served between the receipt and the answer, and whoever waits
\* for a slot needs one.
KindByStage == \A p \in Procs : /\ pc[p] = "idle" => kind[p] = "none"
                                /\ pc[p] = "waiting" => Slotted(kind[p])

IInv == TypeOK /\ KindByStage /\ BodyIsWhole /\ SlotsAccounted

\* Every request that waits for a slot gets one (or is cut off by the end of the
\* process): no refusal, oversized body or panic loses a slot.
Waiting(p) == pc[p] = "waiting"
NoRequestStarves == \A p \in Procs : Waiting(p) ~> ~Waiting(p)

\* If the disk stays full, ingestion stops, whatever was under way and however
\* often the process was restarted before.
Ingesting == \E p \in Procs : pc[p] = "working" /\ kind[p] = "batch"
PressureStopsIngestion == <>[](classify(usage) = "rejecting") => <>[]~Ingesting

\* The cached state follows the disk, down as well as up.
Shows(s) == up = "serving" => current = s
MonitorConverges ==
    \A i \in DOMAIN States : <>[](classify(usage) = States[i]) => <>[]Shows(States[i])
==============================================================================
