---------------------------- MODULE SdkPathProofs ----------------------------
(* Proofs about what a request of the SDK passes: the front end, for any      *)
(* connections, slots and bodies, and the time its events are filed under,    *)
(* for any device.                                                            *)
EXTENDS FrontEnd, FilingPromise, SequenceTheorems, FiniteSetTheorems, TLAPS

CONSTANTS Offsets, MaxTime, MaxEvents, ZeroTime, MaxDuration

VARIABLES now, offset, queue

Filing == INSTANCE Clock

-----------------------------------------------------------------------------
(* Clock.                                                                    *)

\* The time and the quality an event q of the batch s is filed under.
FiledAs(r, s, q) ==
    Filing!effectiveTime(Filing!parseTimestamp(q.stamp), r, Filing!Sub(r, Filing!parseTimestamp(s.stamp)))

\* What effectiveTime makes of one event, given the true times of the event, of
\* the batch and of its reception: the time filed is in the window; a device's
\* clock that is believed is off by little; a corrected time is late by the
\* batch's delay; and a stamp that names no time is never trusted.
LEMMA OneEvent ==
    ASSUME Filing!Configured, offset \in Offsets, NEW r \in 0..MaxTime,
           NEW s, Filing!Stamped(s, r), NEW q, Filing!Stamped(q, r)
    PROVE  LET e == FiledAs(r, s, q)
           IN  /\ e.effective \in Int /\ e.effective <= r + MaxSkew /\ e.effective >= r - MaxAge
               /\ e.quality \in {"client", "batch_adjusted", "untrusted"}
               /\ e.quality = "client" =>
                     /\ e.effective = q.at + offset
                     /\ (r - s.at) - offset <= MaxSkew /\ offset - (r - s.at) <= MaxSkew
               /\ e.quality = "batch_adjusted" => e.effective = q.at + (r - s.at)
  <1> DEFINE o == offset
             b == s.at
             a == q.at
             bs == s.stamp
             as == q.stamp
             B == Filing!parseTimestamp(bs)
             A == Filing!parseTimestamp(as)
             skew == Filing!Sub(r, B)
             e == FiledAs(r, s, q)
  <1>0. /\ b \in 0..r /\ bs.parses \in BOOLEAN /\ bs.t = b + o
        /\ a \in 0..r /\ as.parses \in BOOLEAN /\ as.t = a + o
        /\ e = Filing!effectiveTime(A, r, skew)
    BY DEF Filing!Stamped, FiledAs
  <1> HIDE DEF a, b, as, bs, e
  <1>1. /\ MaxSkew \in Nat /\ MaxAge \in Nat /\ MaxTime \in Nat /\ MaxDuration \in Nat
        /\ ZeroTime \in Int /\ o \in Int
        /\ MaxSkew < MaxDuration /\ ZeroTime + MaxDuration < -MaxAge
        /\ ZeroTime + MaxAge < o /\ MaxTime + MaxSkew - o < MaxDuration
    BY DEF Filing!Configured
  <1>2. /\ bs.parses => B = b + o
        /\ ~bs.parses => B = ZeroTime
        /\ as.parses => A = a + o
        /\ ~as.parses => A = ZeroTime
    BY <1>0 DEF Filing!parseTimestamp
  <1> HIDE DEF A, B, o
  <1>3. A \in Int /\ B \in Int
    <2>1. a + o \in Int /\ b + o \in Int BY <1>0, <1>1
    <2>2. (A = a + o \/ A = ZeroTime) /\ (B = b + o \/ B = ZeroTime) BY <1>2
    <2> QED BY <1>0, <1>1, <2>1, <2>2
  <1>4. skew \in Int /\ (bs.parses => skew = r - (b + o)) /\ (~bs.parses => skew = MaxDuration)
    BY <1>0, <1>1, <1>2, <1>3 DEF Filing!Sub
  <1> HIDE DEF skew
  <1>5. CASE -MaxSkew <= skew /\ skew <= MaxSkew /\ A >= r - MaxAge /\ A <= r + MaxSkew
    <2>1. e = [effective |-> A, quality |-> "client"]
      BY <1>0, <1>1, <1>3, <1>4, <1>5 DEF Filing!effectiveTime, Filing!plausible, Filing!Abs
    <2>2. bs.parses
      <3>1. skew # MaxDuration BY <1>0, <1>1, <1>4, <1>5
      <3> QED BY <1>4, <3>1
    <2>3. as.parses
      <3>1. A # ZeroTime BY <1>0, <1>1, <1>5
      <3> QED BY <1>2, <3>1
    <2> QED BY <1>0, <1>1, <1>2, <1>3, <1>4, <1>5, <2>1, <2>2, <2>3 DEF a, b, o, e
  <1>6. CASE ~(-MaxSkew <= skew /\ skew <= MaxSkew /\ A >= r - MaxAge /\ A <= r + MaxSkew)
    <2>1. CASE A + skew >= r - MaxAge /\ A + skew <= r + MaxSkew
      <3>1. e = [effective |-> A + skew, quality |-> "batch_adjusted"]
        BY <1>0, <1>1, <1>3, <1>4, <1>6, <2>1 DEF Filing!effectiveTime, Filing!plausible, Filing!Abs
      <3>2. as.parses
        <4>1. A # ZeroTime
          <5>1. CASE skew = MaxDuration BY <1>0, <1>1, <2>1, <5>1
          <5>2. CASE skew = r - (b + o) BY <1>0, <1>1, <2>1, <5>2
          <5> QED BY <1>4, <5>1, <5>2
        <4> QED BY <1>2, <4>1
      <3>3. bs.parses
        <4>1. A = a + o BY <1>2, <3>2
        <4>2. skew # MaxDuration BY <1>0, <1>1, <2>1, <4>1
        <4> QED BY <1>4, <4>2
      <3> QED BY <1>0, <1>1, <1>2, <1>3, <1>4, <2>1, <3>1, <3>2, <3>3 DEF a, b, o, e
    <2>2. CASE ~(A + skew >= r - MaxAge /\ A + skew <= r + MaxSkew)
      <3>1. e = [effective |-> r, quality |-> "untrusted"]
        BY <1>0, <1>1, <1>3, <1>4, <1>6, <2>2 DEF Filing!effectiveTime, Filing!plausible, Filing!Abs
      <3> QED BY <1>0, <1>1, <3>1 DEF a, b, o, e
    <2> QED BY <2>1, <2>2
  <1> QED BY <1>5, <1>6

\* What is stamped stays stamped as time goes by.
LEMMA StampsKeep ==
    ASSUME NEW t \in Nat, NEW u \in Nat, t <= u, NEW e, Filing!Stamped(e, t)
    PROVE  Filing!Stamped(e, u)
  BY DEF Filing!Stamped

\* Filing a batch that is under way.
LEMMA prepareBatchFiles ==
    ASSUME Filing!Configured, Filing!IInv, Filing!prepareBatch
    PROVE  Filing!FiledNearTheTruth'
  <1> DEFINE skew == Filing!Sub(now, Filing!parseTimestamp(sent.stamp))
             E(i) == Filing!effectiveTime(Filing!parseTimestamp(queue[i].stamp), now, skew)
  <1>1. /\ now \in 0..MaxTime /\ offset \in Offsets /\ offset \in Int /\ MaxSkew \in Nat /\ MaxTime \in Nat
        /\ Filing!InOrder /\ Filing!SentFirst
    BY DEF Filing!IInv, Filing!Configured
  <1>2. /\ sent # Filing!NotSent /\ UNCHANGED <<now, offset, queue, sent>>
        /\ stored' = [i \in DOMAIN queue |-> [at |-> queue[i].at, received |-> now,
                                               effective |-> E(i).effective, quality |-> E(i).quality]]
    BY DEF Filing!prepareBatch
  <1>3. Filing!Stamped(sent, now) BY <1>1, <1>2 DEF Filing!SentFirst
  <1>4. /\ sent.at \in 0..now /\ sent.stamp.parses \in BOOLEAN /\ sent.stamp.t = sent.at + offset
        /\ now \in Nat /\ now - sent.at \in Nat
    BY <1>1, <1>3 DEF Filing!Stamped
  <1>5. ASSUME NEW i \in DOMAIN queue
        PROVE  /\ queue[i].at \in 0..now
               /\ E(i).effective \in Int
               /\ E(i).effective <= now + MaxSkew /\ E(i).effective >= now - MaxAge
               /\ E(i).quality \in {"client", "batch_adjusted", "untrusted"}
               /\ E(i).quality = "client" =>
                     /\ E(i).effective = queue[i].at + offset
                     /\ (now - sent.at) - offset <= MaxSkew /\ offset - (now - sent.at) <= MaxSkew
               /\ E(i).quality = "batch_adjusted" => E(i).effective = queue[i].at + (now - sent.at)
    <2>1. Filing!Stamped(queue[i], now) BY <1>1 DEF Filing!InOrder
    <2>2. /\ queue[i].at \in 0..now /\ queue[i].stamp.parses \in BOOLEAN
          /\ queue[i].stamp.t = queue[i].at + offset
      BY <2>1 DEF Filing!Stamped
    <2> HIDE DEF E
    <2>3. E(i) = FiledAs(now, sent, queue[i]) BY DEF E, FiledAs
    <2> DEFINE e == FiledAs(now, sent, queue[i])
    <2>4. /\ e.effective \in Int /\ e.effective <= now + MaxSkew /\ e.effective >= now - MaxAge
          /\ e.quality \in {"client", "batch_adjusted", "untrusted"}
          /\ e.quality = "client" =>
                /\ e.effective = queue[i].at + offset
                /\ (now - sent.at) - offset <= MaxSkew /\ offset - (now - sent.at) <= MaxSkew
          /\ e.quality = "batch_adjusted" => e.effective = queue[i].at + (now - sent.at)
      BY <1>1, <1>3, <2>1, OneEvent
    <2> QED BY <2>2, <2>3, <2>4
  <1>6. \A i, j \in DOMAIN queue : i < j => queue[i].at <= queue[j].at BY <1>1 DEF Filing!InOrder
  <1> HIDE DEF E, skew
  <1>7. DOMAIN stored' = DOMAIN queue BY <1>2
  <1>8. \A i \in DOMAIN queue : /\ stored'[i].at = queue[i].at /\ stored'[i].received = now
                                /\ stored'[i].effective = E(i).effective
                                /\ stored'[i].quality = E(i).quality
    BY <1>2
  <1>9. Filing!EffectiveIsPlausible' BY <1>5, <1>7, <1>8 DEF Filing!EffectiveIsPlausible
  <1>10. Filing!TrustedIsNearTheTruth'
    <2> SUFFICES ASSUME NEW i \in DOMAIN queue, E(i).quality # "untrusted"
                 PROVE  Filing!Abs(E(i).effective - queue[i].at) <= MaxSkew + (now - sent.at)
      BY <1>2, <1>7, <1>8 DEF Filing!TrustedIsNearTheTruth, Filing!Trusted
    <2> DEFINE d == now - sent.at
               a == queue[i].at
    <2>1. d \in Nat /\ a \in Nat BY <1>4, <1>5
    <2>2. CASE E(i).quality = "client"
      <3>1. E(i).effective = a + offset /\ d - offset <= MaxSkew /\ offset - d <= MaxSkew BY <1>5, <2>2
      <3> HIDE DEF d, a
      <3>2. E(i).effective - a = offset BY <1>1, <2>1, <3>1
      <3>3. Filing!Abs(offset) <= MaxSkew + d BY <1>1, <2>1, <3>1 DEF Filing!Abs
      <3> QED BY <3>2, <3>3 DEF a, d
    <2>3. CASE E(i).quality = "batch_adjusted"
      <3>1. E(i).effective = a + d BY <1>5, <2>3
      <3> HIDE DEF d, a
      <3>2. E(i).effective - a = d BY <2>1, <3>1
      <3>3. Filing!Abs(d) <= MaxSkew + d BY <1>1, <2>1 DEF Filing!Abs
      <3> QED BY <3>2, <3>3 DEF a, d
    <2> QED BY <1>5, <2>2, <2>3
  <1>11. Filing!OrderWithinTolerance'
    <2> SUFFICES ASSUME NEW i \in DOMAIN queue, NEW j \in DOMAIN queue, i < j,
                        E(i).quality # "untrusted", E(j).quality # "untrusted"
                 PROVE  IF E(i).quality = E(j).quality THEN E(i).effective <= E(j).effective
                        ELSE E(i).effective <= E(j).effective + MaxSkew
      BY <1>7, <1>8 DEF Filing!OrderWithinTolerance, Filing!Trusted
    <2> DEFINE d == now - sent.at
               a == queue[i].at
               b == queue[j].at
               x == E(i).effective
               y == E(j).effective
    <2>1. d \in Nat /\ a \in Nat /\ b \in Nat /\ a <= b BY <1>4, <1>5, <1>6
    <2>2. /\ E(i).quality = "client" \/ E(i).quality = "batch_adjusted"
          /\ E(j).quality = "client" \/ E(j).quality = "batch_adjusted"
      BY <1>5
    <2>3. /\ E(i).quality = "client" => x = a + offset /\ d - offset <= MaxSkew /\ offset - d <= MaxSkew
          /\ E(j).quality = "client" => y = b + offset /\ d - offset <= MaxSkew /\ offset - d <= MaxSkew
          /\ E(i).quality = "batch_adjusted" => x = a + d
          /\ E(j).quality = "batch_adjusted" => y = b + d
      BY <1>5
    <2>4. IF E(i).quality = E(j).quality THEN x <= y ELSE x <= y + MaxSkew
      <3> HIDE DEF d, a, b, x, y
      <3> QED BY <1>1, <2>1, <2>2, <2>3
    <2> QED BY <2>4 DEF x, y
  <1> QED BY <1>9, <1>10, <1>11 DEF Filing!FiledNearTheTruth

\* A step that files nothing keeps what is filed: of the batch, only the time it was
\* sent counts, and that is set once.
LEMMA FiledKeeps ==
    ASSUME Filing!FiledNearTheTruth, stored' = stored, sent' = sent \/ stored = <<>>
    PROVE  Filing!FiledNearTheTruth'
  <1>1. CASE sent' = sent
    BY <1>1 DEF Filing!FiledNearTheTruth, Filing!EffectiveIsPlausible, Filing!TrustedIsNearTheTruth,
                Filing!OrderWithinTolerance, Filing!Trusted
  <1>2. CASE stored = <<>>
    <2>1. DOMAIN stored' = {} BY <1>2
    <2> QED BY <2>1 DEF Filing!FiledNearTheTruth, Filing!EffectiveIsPlausible,
                        Filing!TrustedIsNearTheTruth, Filing!OrderWithinTolerance
  <1> QED BY <1>1, <1>2

\* A stamp names the device's time, or has its shape only.
LEMMA StampFacts ==
    ASSUME NEW x \in Int, NEW s \in Filing!Stamps(x)
    PROVE  s \in [parses : BOOLEAN, t : Int] /\ s.parses \in BOOLEAN /\ s.t = x
  <1>1. CASE s = [parses |-> TRUE, t |-> x]
    <2>1. s.parses = TRUE /\ s.t = x BY <1>1
    <2> QED BY <1>1, <2>1
  <1>2. CASE s = [parses |-> FALSE, t |-> x]
    <2>1. s.parses = FALSE /\ s.t = x BY <1>2
    <2> QED BY <1>2, <2>1
  <1> QED BY <1>1, <1>2 DEF Filing!Stamps

\* Time passes.
LEMMA TickFiles == ASSUME Filing!Configured, Filing!IInv, Filing!Tick PROVE Filing!IInv'
  <1>1. /\ now \in 0..MaxTime /\ offset \in Offsets /\ MaxTime \in Nat
        /\ Filing!InOrder /\ Filing!SentFirst /\ Filing!FiledNearTheTruth
    BY DEF Filing!IInv, Filing!Configured
  <1>2. now < MaxTime /\ now' = now + 1 /\ UNCHANGED <<offset, queue, sent, stored>> BY DEF Filing!Tick
  <1>3. now' \in 0..MaxTime /\ now \in Nat /\ now' \in Nat /\ now <= now' BY <1>1, <1>2
  <1>4. Filing!InOrder'
    <2>1. \A i \in DOMAIN queue : Filing!Stamped(queue[i], now') BY <1>1, <1>3, StampsKeep DEF Filing!InOrder
    <2> QED BY <1>1, <1>2, <2>1 DEF Filing!InOrder, Filing!Stamped
  <1>5. Filing!SentFirst'
    <2>1. sent = Filing!NotSent \/ Filing!Stamped(sent, now')
      BY <1>1, <1>3, StampsKeep DEF Filing!SentFirst
    <2> QED BY <1>1, <1>2, <2>1 DEF Filing!SentFirst, Filing!Stamped, Filing!NotSent
  <1>6. Filing!FiledNearTheTruth' BY <1>1, <1>2, FiledKeeps
  <1> QED BY <1>1, <1>2, <1>3, <1>4, <1>5, <1>6 DEF Filing!IInv

\* An event happens: it is the last of the queue.
LEMMA OccurFiles == ASSUME Filing!Configured, Filing!IInv, Filing!Occur PROVE Filing!IInv'
  <1>1. /\ now \in 0..MaxTime /\ offset \in Offsets /\ offset \in Int /\ MaxTime \in Nat
        /\ Filing!InOrder /\ Filing!SentFirst /\ Filing!FiledNearTheTruth
    BY DEF Filing!IInv, Filing!Configured
  <1> DEFINE Queued == [at : Nat, stamp : [parses : BOOLEAN, t : Int]]
  <1>2. PICK s \in Filing!Stamps(now + offset) : queue' = Append(queue, [at |-> now, stamp |-> s])
    BY DEF Filing!Occur
  <1>3. sent = Filing!NotSent /\ UNCHANGED <<now, offset, sent, stored>> BY DEF Filing!Occur
  <1> DEFINE e == [at |-> now, stamp |-> s]
  <1>4. e \in Queued /\ Filing!Stamped(e, now) /\ e.at = now
    <2>1. now \in Nat /\ now + offset \in Int /\ now \in 0..now BY <1>1
    <2>2. s \in [parses : BOOLEAN, t : Int] /\ s.parses \in BOOLEAN /\ s.t = now + offset
      BY <2>1, StampFacts
    <2> QED BY <2>1, <2>2 DEF Filing!Stamped
  <1> HIDE DEF e
  <1>5. queue \in Seq(Queued) BY <1>1 DEF Filing!InOrder
  <1>6. /\ queue' \in Seq(Queued) /\ Len(queue') = Len(queue) + 1
        /\ \A i \in 1..Len(queue) : queue'[i] = queue[i]
        /\ queue'[Len(queue) + 1] = e
    BY <1>2, <1>4, <1>5, AppendProperties DEF e
  <1>7. Len(queue) \in Nat /\ DOMAIN queue = 1..Len(queue) /\ DOMAIN queue' = 1..(Len(queue) + 1)
    BY <1>5, <1>6, LenProperties
  <1> HIDE DEF Queued
  <1>8. \A i \in DOMAIN queue : Filing!Stamped(queue[i], now) /\ queue[i].at <= now
    BY <1>1 DEF Filing!InOrder, Filing!Stamped
  <1>9. \A i \in DOMAIN queue' : Filing!Stamped(queue'[i], now)
    <2> TAKE i \in DOMAIN queue'
    <2>1. CASE i \in 1..Len(queue) BY <1>6, <1>7, <1>8, <2>1
    <2>2. CASE i = Len(queue) + 1 BY <1>4, <1>6, <2>2
    <2> QED BY <1>7, <2>1, <2>2
  <1>10. \A i, j \in DOMAIN queue' : i < j => queue'[i].at <= queue'[j].at
    <2> SUFFICES ASSUME NEW i \in DOMAIN queue', NEW j \in DOMAIN queue', i < j
                 PROVE  queue'[i].at <= queue'[j].at
      OBVIOUS
    <2>1. i \in 1..Len(queue) BY <1>7
    <2>2. CASE j \in 1..Len(queue) BY <1>1, <1>6, <1>7, <2>1, <2>2 DEF Filing!InOrder
    <2>3. CASE j = Len(queue) + 1 BY <1>4, <1>6, <1>7, <1>8, <2>1, <2>3
    <2> QED BY <1>7, <2>2, <2>3
  <1>11. Filing!InOrder' BY <1>3, <1>6, <1>9, <1>10 DEF Filing!InOrder, Filing!Stamped, Queued
  <1>12. Filing!SentFirst' BY <1>1, <1>3 DEF Filing!SentFirst, Filing!NotSent
  <1>13. Filing!FiledNearTheTruth' BY <1>1, <1>3, FiledKeeps
  <1> QED BY <1>1, <1>3, <1>11, <1>12, <1>13 DEF Filing!IInv

\* The batch is sent: nothing is filed yet.
LEMMA SendFiles == ASSUME Filing!Configured, Filing!IInv, Filing!Send PROVE Filing!IInv'
  <1>1. /\ now \in 0..MaxTime /\ offset \in Offsets /\ offset \in Int /\ MaxTime \in Nat
        /\ Filing!InOrder /\ Filing!SentFirst /\ Filing!FiledNearTheTruth
    BY DEF Filing!IInv, Filing!Configured
  <1>2. PICK s \in Filing!Stamps(now + offset) : sent' = [at |-> now, stamp |-> s] BY DEF Filing!Send
  <1>3. sent = Filing!NotSent /\ UNCHANGED <<now, offset, queue, stored>> BY DEF Filing!Send
  <1>4. stored = <<>> BY <1>1, <1>3 DEF Filing!SentFirst
  <1>5. s.parses \in BOOLEAN /\ s.t = now + offset
    <2>1. now + offset \in Int BY <1>1
    <2> QED BY <2>1, StampFacts
  <1>6. now \in 0..now BY <1>1
  <1>7. sent'.at = now /\ sent'.stamp = s BY <1>2
  <1>8. Filing!SentFirst' BY <1>3, <1>4, <1>5, <1>6, <1>7 DEF Filing!SentFirst, Filing!Stamped
  <1>9. Filing!InOrder' BY <1>1, <1>3 DEF Filing!InOrder, Filing!Stamped
  <1>10. Filing!FiledNearTheTruth' BY <1>1, <1>3, <1>4, FiledKeeps
  <1> QED BY <1>1, <1>3, <1>8, <1>9, <1>10 DEF Filing!IInv

\* Every event of any batch, from a device whose clock is off by any amount, is
\* filed in the window around its reception; if its time is trusted, near the true
\* time and in order, up to the tolerated skew and the batch's delay.
THEOREM EventsAreFiledNearTheTruth ==
    ASSUME Filing!Configured PROVE Filing!Spec => []FiledNearTheTruth
  <1>1. Filing!Init => Filing!IInv
    <2> SUFFICES ASSUME Filing!Init PROVE Filing!IInv OBVIOUS
    <2>1. now = 0 /\ offset \in Offsets /\ queue = <<>> /\ sent = Filing!NotSent /\ stored = <<>>
      BY DEF Filing!Init
    <2>2. now \in 0..MaxTime BY <2>1 DEF Filing!Configured
    <2>3. Filing!InOrder BY <2>1 DEF Filing!InOrder
    <2>4. Filing!SentFirst BY <2>1 DEF Filing!SentFirst
    <2>5. DOMAIN stored = {} BY <2>1
    <2>6. Filing!FiledNearTheTruth
      BY <2>5 DEF Filing!FiledNearTheTruth, Filing!EffectiveIsPlausible,
                  Filing!TrustedIsNearTheTruth, Filing!OrderWithinTolerance
    <2> QED BY <2>1, <2>2, <2>3, <2>4, <2>6 DEF Filing!IInv
  <1>2. Filing!IInv /\ [Filing!Next]_(Filing!vars) => Filing!IInv'
    <2> SUFFICES ASSUME Filing!IInv, [Filing!Next]_(Filing!vars) PROVE Filing!IInv' OBVIOUS
    <2>1. CASE Filing!prepareBatch
      <3>1. /\ sent # Filing!NotSent /\ UNCHANGED <<now, offset, queue, sent>> BY <2>1 DEF Filing!prepareBatch
      <3>2. Filing!FiledNearTheTruth' BY <2>1, prepareBatchFiles
      <3> QED BY <3>1, <3>2 DEF Filing!IInv, Filing!InOrder, Filing!SentFirst, Filing!Stamped, Filing!NotSent
    <2>2. CASE UNCHANGED Filing!vars
      <3>1. UNCHANGED <<now, offset, queue, sent, stored>> BY <2>2 DEF Filing!vars
      <3>2. Filing!FiledNearTheTruth' BY <3>1, FiledKeeps DEF Filing!IInv
      <3> QED BY <3>1, <3>2 DEF Filing!IInv, Filing!InOrder, Filing!SentFirst, Filing!Stamped, Filing!NotSent
    <2> QED BY <2>1, <2>2, TickFiles, OccurFiles, SendFiles DEF Filing!Next
  <1>3. Filing!IInv => FiledNearTheTruth
    BY DEF Filing!IInv, Filing!FiledNearTheTruth, Filing!EffectiveIsPlausible, Filing!TrustedIsNearTheTruth,
           Filing!OrderWithinTolerance, Filing!Trusted, Filing!Abs, FiledNearTheTruth, EffectiveIsPlausible,
           TrustedIsNearTheTruth, OrderWithinTolerance, Trusted, Abs
  <1> QED BY <1>1, <1>2, <1>3, PTL DEF Filing!Spec

-----------------------------------------------------------------------------
(* The front end.                                                            *)

\* The lesser of two numbers.
LEMMA MinOfTwo ==
    ASSUME NEW x \in Int, NEW y \in Int
    PROVE  Min({x, y}) = IF x <= y THEN x ELSE y
  <1> DEFINE P(m) == m \in {x, y} /\ \A z \in {x, y} : m <= z
             m == IF x <= y THEN x ELSE y
  <1>1. P(m) OBVIOUS
  <1>2. Min({x, y}) = CHOOSE v \in {x, y} : \A z \in {x, y} : v <= z BY DEF Min
  <1>3. P(Min({x, y})) BY <1>1, <1>2
  <1> QED BY <1>1, <1>3

\* What the reader hands on is the whole body, within the limit.
LEMMA WholeBody ==
    ASSUME Configured, NEW b \in Bodies \cup {NoBody}, readBodyWithLimits(b) # -1
    PROVE  /\ readBodyWithLimits(b) = IF b.gzip THEN b.inflated ELSE b.wire
           /\ readBodyWithLimits(b) \in Nat /\ readBodyWithLimits(b) <= MaxInflated
  <1>1. b.gzip \in BOOLEAN /\ b.wire \in Nat /\ b.inflated \in Nat /\ b.declared \in Int
    <2>1. CASE b = NoBody
      <3>1. b.gzip \in BOOLEAN BY <2>1 DEF NoBody
      <3>2. b.wire \in Nat /\ b.inflated \in Nat /\ b.declared \in Int BY <2>1 DEF NoBody
      <3> QED BY <3>1, <3>2
    <2>2. CASE b \in Bodies BY <2>2 DEF Configured
    <2> QED BY <2>1, <2>2
  <1>2. MaxWire \in Nat /\ MaxInflated \in Nat /\ MaxWire <= MaxInflated BY DEF Configured
  <1>3. Min({b.inflated, MaxInflated + 1}) =
          IF b.inflated <= MaxInflated + 1 THEN b.inflated ELSE MaxInflated + 1
    BY <1>1, <1>2, MinOfTwo
  <1>4. CASE b.gzip
    <2>1. Min({b.inflated, MaxInflated + 1}) <= MaxInflated /\ readBodyWithLimits(b) = Min({b.inflated, MaxInflated + 1})
      BY <1>1, <1>2, <1>3, <1>4 DEF readBodyWithLimits
    <2> QED BY <1>1, <1>2, <1>3, <1>4, <2>1
  <1>5. CASE ~b.gzip
    <2>1. b.wire <= MaxWire /\ readBodyWithLimits(b) = b.wire BY <1>1, <1>2, <1>5 DEF readBodyWithLimits
    <2> QED BY <1>1, <1>2, <1>5, <2>1
  <1> QED BY <1>1, <1>4, <1>5

\* The slots are few and so are the requests that hold them.
LEMMA HoldingIsFinite == ASSUME Configured PROVE IsFiniteSet(Holding) /\ Cardinality(Holding) \in Nat
  <1>1. Holding \subseteq Procs /\ IsFiniteSet(Procs) BY DEF Holding, Configured
  <1>2. IsFiniteSet(Holding) BY <1>1, FS_Subset
  <1> QED BY <1>2, FS_CardinalityType

\* A step that takes and gives back no slot.
LEMMA SameHolding ==
    ASSUME SlotsAccounted, sem' = sem, Holding' = Holding
    PROVE  SlotsAccounted'
  BY DEF SlotsAccounted

\* The handler returns: if it had a slot, that one is free, and no other.
LEMMA FinishPreserves ==
    ASSUME Configured, IInv, NEW p \in Procs, pc[p] \notin {"idle", "waiting"}, Finish(p)
    PROVE  IInv'
  <1>1. TypeOK /\ KindByStage /\ BodyIsWhole /\ SlotsAccounted BY DEF IInv
  <1>2. TypeOK' BY <1>1 DEF TypeOK, Finish
  <1>3. KindByStage' BY <1>1 DEF TypeOK, KindByStage, Finish, Slotted
  <1>4. BodyIsWhole' BY <1>1 DEF TypeOK, BodyIsWhole, Finish
  <1>5. Holding' = Holding \ {p} BY <1>1 DEF TypeOK, Holding, Finish, Slotted
  <1>6. SlotsAccounted'
    <2>1. IsFiniteSet(Holding) /\ Cardinality(Holding) \in Nat BY HoldingIsFinite
    <2>2. Slots \in Nat BY DEF Configured
    <2>3. CASE Slotted(kind[p])
      <3>1. p \in Holding BY <2>3 DEF Holding
      <3>2. Cardinality(Holding \ {p}) = Cardinality(Holding) - 1 BY <2>1, <3>1, FS_RemoveElement
      <3>3. sem' = sem - 1 BY <2>3 DEF Finish
      <3> QED BY <1>1, <1>5, <2>1, <2>2, <3>2, <3>3 DEF SlotsAccounted
    <2>4. CASE ~Slotted(kind[p])
      <3>1. p \notin Holding BY <2>4 DEF Holding
      <3>2. sem' = sem BY <2>4 DEF Finish
      <3> QED BY <1>1, <1>5, <3>1, <3>2, SameHolding
    <2> QED BY <2>3, <2>4
  <1> QED BY <1>2, <1>3, <1>4, <1>6 DEF IInv

\* A request begins with nothing: no slot, nothing read.
LEMMA ReceivePreserves ==
    ASSUME Configured, IInv, NEW p \in Procs, NEW k \in {"batch", "register", "policy"}, NEW b \in Bodies,
           Receive(p, k, b)
    PROVE  IInv'
  <1> DEFINE w == IF Slotted(k) THEN "waiting" ELSE "reading"
  <1>1. TypeOK /\ KindByStage /\ BodyIsWhole /\ SlotsAccounted BY DEF IInv
  <1>2. /\ pc[p] = "idle" /\ kind' = [kind EXCEPT ![p] = k] /\ body' = [body EXCEPT ![p] = b]
        /\ pc' = [pc EXCEPT ![p] = w] /\ UNCHANGED <<data, sem>>
    BY DEF Receive
  <1>3. w \in {"waiting", "reading"} /\ (w = "waiting" <=> Slotted(k)) OBVIOUS
  <1> HIDE DEF w
  <1>4. TypeOK' BY <1>1, <1>2, <1>3 DEF TypeOK
  <1>5. KindByStage' BY <1>1, <1>2, <1>3 DEF TypeOK, KindByStage, Slotted
  <1>6. BodyIsWhole' BY <1>1, <1>2, <1>3 DEF TypeOK, BodyIsWhole
  <1>7. Holding' = Holding
    <2>1. kind[p] = "none" BY <1>1, <1>2 DEF KindByStage
    <2> QED BY <1>1, <1>2, <1>3, <2>1 DEF TypeOK, Holding, Slotted
  <1> QED BY <1>1, <1>2, <1>4, <1>5, <1>6, <1>7, SameHolding DEF IInv

\* A slot is taken while one is free.
LEMMA AcquirePreserves == ASSUME Configured, IInv, NEW p \in Procs, Acquire(p) PROVE IInv'
  <1>1. TypeOK /\ KindByStage /\ BodyIsWhole /\ SlotsAccounted BY DEF IInv
  <1>2. /\ pc[p] = "waiting" /\ sem < Slots /\ sem' = sem + 1 /\ pc' = [pc EXCEPT ![p] = "reading"]
        /\ UNCHANGED <<kind, body, data>>
    BY DEF Acquire
  <1>3. TypeOK' BY <1>1, <1>2 DEF TypeOK
  <1>4. KindByStage' BY <1>1, <1>2 DEF TypeOK, KindByStage, Slotted
  <1>5. BodyIsWhole' BY <1>1, <1>2 DEF TypeOK, BodyIsWhole
  <1>6. p \notin Holding /\ Holding' = Holding \cup {p}
    <2>1. Slotted(kind[p]) BY <1>1, <1>2 DEF KindByStage
    <2> QED BY <1>1, <1>2, <2>1 DEF TypeOK, Holding, Slotted
  <1>7. SlotsAccounted'
    <2>1. IsFiniteSet(Holding) /\ Cardinality(Holding) \in Nat /\ Slots \in Nat
      BY HoldingIsFinite DEF Configured
    <2>2. Cardinality(Holding \cup {p}) = Cardinality(Holding) + 1 BY <1>6, <2>1, FS_AddElement
    <2> QED BY <1>1, <1>2, <1>6, <2>1, <2>2 DEF SlotsAccounted
  <1> QED BY <1>3, <1>4, <1>5, <1>7 DEF IInv

\* The body is read: the decoder gets the whole of it, or the request ends.
LEMMA ReadBodyPreserves == ASSUME Configured, IInv, NEW p \in Procs, ReadBody(p) PROVE IInv'
  <1> DEFINE n == readBodyWithLimits(body[p])
  <1>1. TypeOK /\ KindByStage /\ BodyIsWhole /\ SlotsAccounted BY DEF IInv
  <1>2. pc[p] = "reading" BY DEF ReadBody
  <1>3. CASE Finish(p) BY <1>2, <1>3, FinishPreserves
  <1>4. CASE ~Finish(p)
    <2>1. /\ n # -1 /\ data' = [data EXCEPT ![p] = n] /\ pc' = [pc EXCEPT ![p] = "decoded"]
          /\ UNCHANGED <<kind, body, sem>>
      BY <1>4 DEF ReadBody
    <2>2. body[p] \in Bodies \cup {NoBody} BY <1>1 DEF TypeOK
    <2>3. n \in Nat /\ n = (IF body[p].gzip THEN body[p].inflated ELSE body[p].wire) /\ n <= MaxInflated
      BY <2>1, <2>2, WholeBody
    <2> HIDE DEF n
    <2>4. TypeOK' BY <1>1, <2>1, <2>3 DEF TypeOK
    <2>5. KindByStage' BY <1>1, <1>2, <2>1 DEF TypeOK, KindByStage, Slotted
    <2>6. BodyIsWhole' BY <1>1, <2>1, <2>3 DEF TypeOK, BodyIsWhole
    <2>7. Holding' = Holding BY <1>1, <1>2, <2>1 DEF TypeOK, Holding, Slotted
    <2> QED BY <1>1, <2>1, <2>4, <2>5, <2>6, <2>7, SameHolding DEF IInv
  <1> QED BY <1>3, <1>4

\* Steps in which nobody takes a slot or reads: a dashboard read begins, a request
\* is admitted, the disk and its monitor change, the process is told to stop or
\* starts again.
LEMMA QuietStep ==
    ASSUME IInv, UNCHANGED <<kind, body, data, sem>>,
           pc' \in [Procs -> {"idle", "waiting", "reading", "decoded", "working", "querying"}],
           \A p \in Procs : pc'[p] = pc[p] \/ (pc[p] = "decoded" /\ pc'[p] = "working")
    PROVE  IInv'
  <1>1. TypeOK /\ KindByStage /\ BodyIsWhole /\ SlotsAccounted BY DEF IInv
  <1>2. TypeOK' BY <1>1 DEF TypeOK
  <1>3. KindByStage' BY <1>1 DEF KindByStage, Slotted
  <1>4. BodyIsWhole' BY <1>1 DEF BodyIsWhole
  <1>5. Holding' = Holding BY DEF Holding, Slotted
  <1> QED BY <1>1, <1>2, <1>3, <1>4, <1>5, SameHolding DEF IInv

\* A dashboard read holds no slot.
LEMMA ReadAnalyticsPreserves == ASSUME IInv, NEW p \in Procs, ReadAnalytics(p) PROVE IInv'
  <1>1. TypeOK /\ KindByStage /\ BodyIsWhole /\ SlotsAccounted BY DEF IInv
  <1>2. /\ pc[p] = "idle" /\ pc' = [pc EXCEPT ![p] = "querying"] /\ kind' = [kind EXCEPT ![p] = "read"]
        /\ UNCHANGED <<body, data, sem>>
    BY DEF ReadAnalytics
  <1>3. TypeOK' BY <1>1, <1>2 DEF TypeOK
  <1>4. KindByStage' BY <1>1, <1>2 DEF TypeOK, KindByStage, Slotted
  <1>5. BodyIsWhole' BY <1>1, <1>2 DEF TypeOK, BodyIsWhole
  <1>6. Holding' = Holding
    <2>1. kind[p] = "none" BY <1>1, <1>2 DEF KindByStage
    <2> QED BY <1>1, <1>2, <2>1 DEF TypeOK, Holding, Slotted
  <1> QED BY <1>1, <1>2, <1>3, <1>4, <1>5, <1>6, SameHolding DEF IInv

\* The end of the process frees every slot.
LEMMA ExitPreserves == ASSUME Configured, Exit PROVE IInv'
  <1>1. /\ pc' = [p \in Procs |-> "idle"] /\ kind' = [p \in Procs |-> "none"]
        /\ body' = [p \in Procs |-> NoBody] /\ data' = [p \in Procs |-> 0] /\ sem' = 0
    BY DEF Exit
  <1>2. TypeOK' BY <1>1 DEF TypeOK
  <1>3. KindByStage' BY <1>1 DEF KindByStage
  <1>4. BodyIsWhole' BY <1>1 DEF BodyIsWhole
  <1>5. Holding' = {} BY <1>1 DEF Holding, Slotted
  <1>6. SlotsAccounted' BY <1>1, <1>5, FS_EmptySet DEF SlotsAccounted, Configured
  <1> QED BY <1>2, <1>3, <1>4, <1>6 DEF IInv

\* The inductive step: one case per action.
LEMMA FrontPreserves == ASSUME Configured, IInv, [Next]_vars PROVE IInv'
  <1>1. TypeOK BY DEF IInv
  <1>2. ASSUME NEW p \in Procs, Admit(p) PROVE IInv'
    <2>1. pc[p] = "decoded" /\ pc' = [pc EXCEPT ![p] = "working"] /\ UNCHANGED <<kind, body, data, sem>>
      BY <1>2 DEF Admit
    <2> QED BY <1>1, <2>1, QuietStep DEF TypeOK
  <1>3. ASSUME NEW p \in Procs, Refuse(p) \/ Answer(p) PROVE IInv'
    BY <1>3, FinishPreserves DEF Refuse, Answer
  <1>4. CASE UNCHANGED <<pc, kind, body, data, sem>> BY <1>1, <1>4, QuietStep DEF TypeOK
  <1>5. ASSUME NEW u \in Usages, Fill(u) PROVE IInv' BY <1>4, <1>5 DEF Fill
  <1>6. CASE Check \/ Shutdown \/ Start \/ UNCHANGED vars BY <1>4, <1>6 DEF Check, Shutdown, Start, vars
  <1> QED BY <1>2, <1>3, <1>5, <1>6, ReceivePreserves, ReadAnalyticsPreserves, AcquirePreserves,
             ReadBodyPreserves, ExitPreserves DEF Next, Step

\* The inductive invariant of the front end.
THEOREM FrontInvariance == ASSUME Configured PROVE Spec => []IInv
  <1>1. Init => IInv
    <2> SUFFICES ASSUME Init PROVE IInv OBVIOUS
    <2>1. TypeOK BY DEF Init, TypeOK
    <2>2. KindByStage BY DEF Init, KindByStage
    <2>3. BodyIsWhole BY DEF Init, BodyIsWhole
    <2>4. Holding = {} BY DEF Init, Holding, Slotted
    <2>5. SlotsAccounted BY <2>4, FS_EmptySet DEF Init, SlotsAccounted, Configured
    <2> QED BY <2>1, <2>2, <2>3, <2>5 DEF IInv
  <1>2. IInv /\ [Next]_vars => IInv' BY FrontPreserves
  <1> QED BY <1>1, <1>2, PTL DEF Spec

\* What the decoder is given is the whole body and within the limits, for any bodies,
\* declared lengths and limits (readBodyWithLimits cuts one byte past the limit).
THEOREM BodiesAreWhole == ASSUME Configured PROVE Spec => []BodyIsWhole
  <1>1. IInv => BodyIsWhole BY DEF IInv
  <1> QED BY <1>1, FrontInvariance, PTL

\* For any number of connections and slots, as many slots are taken as requests hold
\* one and never more than there are: no way out of a handler loses a slot or gives
\* one back twice, and a new process begins with all of them.
THEOREM SlotsAreNotLost == ASSUME Configured PROVE Spec => []SlotsAccounted
  <1>1. IInv => SlotsAccounted BY DEF IInv
  <1> QED BY <1>1, FrontInvariance, PTL
=============================================================================
