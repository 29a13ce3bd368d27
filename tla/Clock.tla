------------------------------- MODULE Clock ---------------------------------
(* The clock rule of batch ingestion (internal/ingest/batch.go): which time an *)
(* event is filed under, given the stamps of a device whose clock is off and   *)
(* a batch that was under way for a while.  The device's clock is off by a     *)
(* fixed amount; a stamp that has the right shape but names no time (a month   *)
(* 13) is possible, and is read as Go's zero time.                             *)
EXTENDS FilingPromise, FiniteSets

CONSTANTS Offsets,      \* by how much a device's clock may be off
          MaxTime,      \* bound: the length of a behaviour
          MaxEvents,    \* bound: events of a batch
          ZeroTime,     \* Go's zero time, long before the others
          MaxDuration   \* the longest time.Duration; Sub saturates

VARIABLES now,      \* true time
          offset,   \* the device's clock is now + offset
          queue     \* queued events: the true time and the stamp of each

vars == <<now, offset, queue, sent, stored>>

\* Go's zero time is further back than the longest duration reaches, and that is
\* longer than anything else measured: no device's clock is centuries off.
Configured ==
    /\ MaxSkew \in Nat /\ MaxAge \in Nat /\ MaxTime \in Nat /\ MaxDuration \in Nat
    /\ ZeroTime \in Int /\ Offsets \subseteq Int
    /\ MaxSkew < MaxDuration /\ ZeroTime + MaxDuration < -MaxAge
    /\ \A o \in Offsets : ZeroTime + MaxAge < o /\ MaxTime + MaxSkew - o < MaxDuration

NotSent == [at |-> -1, stamp |-> [parses |-> FALSE, t |-> 0]]

\* What isValidTimestamp lets through: a stamp of the device, or one that matches
\* the pattern and names no time.
Stamps(t) == {[parses |-> TRUE, t |-> t], [parses |-> FALSE, t |-> t]}

Init == /\ now = 0 /\ offset \in Offsets
        /\ queue = <<>> /\ sent = NotSent /\ stored = <<>>

Tick == now < MaxTime /\ now' = now + 1 /\ UNCHANGED <<offset, queue, sent, stored>>

Occur == /\ sent = NotSent /\ Len(queue) < MaxEvents
         /\ \E s \in Stamps(now + offset) : queue' = Append(queue, [at |-> now, stamp |-> s])
         /\ UNCHANGED <<now, offset, sent, stored>>

Send == /\ sent = NotSent /\ queue # <<>>
        /\ \E s \in Stamps(now + offset) : sent' = [at |-> now, stamp |-> s]
        /\ UNCHANGED <<now, offset, queue, stored>>
------------------------------------------------------------------------------
parseTimestamp(s) == IF s.parses THEN s.t ELSE ZeroTime

Sub(a, b) == IF a - b > MaxDuration THEN MaxDuration ELSE a - b

\* Wrong: a time is only too old, never too far ahead.
plausiblePast(t, receivedAt) == t >= receivedAt - MaxAge

plausible(t, receivedAt) == t >= receivedAt - MaxAge /\ t <= receivedAt + MaxSkew

\* Wrong: the skew is not consulted before the device's clock is believed.
effectiveUnskewed(occurred, receivedAt, skew) ==
    IF plausible(occurred, receivedAt) THEN [effective |-> occurred, quality |-> "client"]
    ELSE IF plausible(occurred + skew, receivedAt)
      THEN [effective |-> occurred + skew, quality |-> "batch_adjusted"]
    ELSE [effective |-> receivedAt, quality |-> "untrusted"]

effectiveTime(occurred, receivedAt, skew) ==
    IF Abs(skew) <= MaxSkew /\ plausible(occurred, receivedAt)
      THEN [effective |-> occurred, quality |-> "client"]
    ELSE IF plausible(occurred + skew, receivedAt)
      THEN [effective |-> occurred + skew, quality |-> "batch_adjusted"]
    ELSE [effective |-> receivedAt, quality |-> "untrusted"]

\* Wrong: the times are matched with the events from the other end.
prepareReversed ==
    /\ sent # NotSent /\ stored = <<>>
    /\ LET skew == Sub(now, parseTimestamp(sent.stamp))
           E(i) == effectiveTime(parseTimestamp(queue[Len(queue) + 1 - i].stamp), now, skew)
       IN  stored' = [i \in DOMAIN queue |-> [at |-> queue[i].at, received |-> now,
                                               effective |-> E(i).effective, quality |-> E(i).quality]]
    /\ UNCHANGED <<now, offset, queue, sent>>

\* prepareBatch: one skew for the batch, one effective time for each event.
prepareBatch ==
    /\ sent # NotSent /\ stored = <<>>
    /\ LET skew == Sub(now, parseTimestamp(sent.stamp))
           E(i) == effectiveTime(parseTimestamp(queue[i].stamp), now, skew)
       IN  stored' = [i \in DOMAIN queue |-> [at |-> queue[i].at, received |-> now,
                                               effective |-> E(i).effective, quality |-> E(i).quality]]
    /\ UNCHANGED <<now, offset, queue, sent>>

Next == Tick \/ Occur \/ Send \/ prepareBatch

Spec == Init /\ [][Next]_vars
------------------------------------------------------------------------------
\* The inductive invariant (module SdkPathProofs): stamps are the device's, events
\* are queued in the order in which they happen, and filed once the batch is sent.
Stamped(e, t) == /\ e.at \in 0..t
                 /\ e.stamp.parses \in BOOLEAN /\ e.stamp.t = e.at + offset

InOrder == /\ queue \in Seq([at : Nat, stamp : [parses : BOOLEAN, t : Int]])
           /\ \A i \in DOMAIN queue : Stamped(queue[i], now)
           /\ \A i, j \in DOMAIN queue : i < j => queue[i].at <= queue[j].at

SentFirst == /\ sent = NotSent \/ Stamped(sent, now)
             /\ sent = NotSent => stored = <<>>

IInv == /\ now \in 0..MaxTime /\ offset \in Offsets
        /\ InOrder /\ SentFirst /\ FiledNearTheTruth
==============================================================================
