------------------------------ MODULE Contracts ------------------------------
(* The wire contract (internal/contracts) as the SDK endpoints apply it: a    *)
(* request is decoded strictly, its envelope validated, and, in a batch, every *)
(* event decoded and validated on its own so that it is answered on its own.  *)
(* A flaw is named for the check that refuses it.  An event is its id, the     *)
(* depth of its deepest value (the event itself is at depth 0) and its other  *)
(* flaws.                                                                     *)
EXTENDS Naturals, Sequences, FiniteSets, SequencesExt

CONSTANTS Samples,      \* the events a client may send
          Envelopes,    \* the sets of envelope flaws a client may commit
          Ids,          \* canonical UUIDs; "" is an id that is absent or null
          MaxEvents,    \* maxEventsPerBatch
          MaxDepth,     \* maxJSONDepth
          MaxComposed   \* bound: the longest body a client composes

VARIABLES kind,       \* the endpoint the request is sent to
          envelope,   \* the flaws of its envelope
          body,       \* its events
          phase,      \* composing, decoded, admitted, answered or refused
          events,     \* BatchIngestRequest.Events: decoded, not yet prepared
          prepared,   \* the ids of the events that will be stored
          rejected,   \* RejectedEvent: the id and the check that refused it
          code        \* ErrorResponse.code of a refused request

vars == <<kind, envelope, body, phase, events, prepared, rejected, code>>

Kinds == {"register", "policy", "batch"}

Init == /\ kind \in Kinds
        /\ envelope \in Envelopes
        /\ body = <<>> /\ phase = "composing"
        /\ events = <<>> /\ prepared = <<>> /\ rejected = <<>> /\ code = ""

Compose(e) == /\ phase = "composing" /\ kind = "batch" /\ Len(body) < MaxComposed
              /\ body' = Append(body, e)
              /\ UNCHANGED <<kind, envelope, phase, events, prepared, rejected, code>>
------------------------------------------------------------------------------
Repeated(s) == \E i, j \in DOMAIN s : i < j /\ s[i] = s[j]

\* The scan of the envelope skips the events array (depth 0) and so meets the
\* values of an event one level deeper than the event's own scan does.
skipJSONValue(e) == e.depth + 1 <= MaxDepth

decodeBatchEnvelope == /\ "utf8" \notin envelope
                       /\ \A i \in DOMAIN body : /\ "utf8" \notin body[i].flaws
                                                 /\ skipJSONValue(body[i])
                       /\ "duplicateKey" \notin envelope

\* The fields of an envelope decode: every field known and of its type.
decodeJSON == envelope \cap {"unknownField", "wrongType"} = {}

\* How the handler renders whatever the decoder returned; the code of a
\* ValidationError is not looked at.
decodeErr(scanned) == IF scanned /\ "unknownField" \in envelope THEN "unknown_field" ELSE "invalid_request"

Refuse(c) == phase' = "refused" /\ code' = c

\* Wrong: only the fields are checked, so the last of two equal keys wins.
decodeFields(e) == IF e.flaws \cap {"unknownField", "wrongType"} # {} THEN {"malformed"} ELSE {}

\* The flaw that makes an event undecodable, if any.
decodeStrict(e) == IF e.depth > MaxDepth \/ "duplicateKey" \in e.flaws THEN {"scan"}
                   ELSE IF e.flaws \cap {"unknownField", "wrongType"} # {} THEN {"malformed"}
                   ELSE {}

Decodable(e) == decodeStrict(e) = {}
BatchSize(n) == n \in 1..MaxEvents

bestEffortEventID(e) == e.id

\* Wrong: ids are compared among the events that decode only.
RepeatedDecoded == Repeated([i \in DOMAIN SelectSeq(body, Decodable) |-> SelectSeq(body, Decodable)[i].id])

RepeatedIds == \E i, j \in DOMAIN body :
                  /\ i < j
                  /\ bestEffortEventID(body[i]) = bestEffortEventID(body[j])
                  /\ bestEffortEventID(body[i]) # ""

BestEffortRejections == LET bad == SelectSeq(body, LAMBDA e : ~Decodable(e))
                        IN  [i \in DOMAIN bad |-> [id |-> bestEffortEventID(bad[i]),
                                                   code |-> CHOOSE c \in decodeStrict(bad[i]) : TRUE]]

DecodeBatchIngestRequest ==
    /\ phase = "composing" /\ kind = "batch"
    /\ IF decodeBatchEnvelope /\ decodeJSON /\ BatchSize(Len(body)) /\ ~RepeatedIds
         THEN /\ phase' = "decoded"
              /\ events' = SelectSeq(body, Decodable)
              /\ rejected' = BestEffortRejections
              /\ UNCHANGED code
         ELSE Refuse(decodeErr(decodeBatchEnvelope)) /\ UNCHANGED <<events, rejected>>
    /\ UNCHANGED <<kind, envelope, body, prepared>>

\* DecodeRegisterRequest and DecodePolicyRequest: one strict decode, no events.
DecodeRequest == /\ phase = "composing" /\ kind # "batch"
                 /\ LET scanned == envelope \cap {"utf8", "duplicateKey"} = {}
                    IN  IF scanned /\ decodeJSON THEN phase' = "decoded" /\ UNCHANGED code
                        ELSE Refuse(decodeErr(scanned))
                 /\ UNCHANGED <<kind, envelope, body, events, prepared, rejected>>
------------------------------------------------------------------------------
\* The checks of each Validate, in order, and the code each answers with.
Required == [register |-> <<"schema", "project", "install", "credential", "sdk", "platform">>,
             policy   |-> <<"schema", "project", "install", "sdk">>,
             batch    |-> <<"schema", "project", "install", "sdk", "sentAt">>]
CodeOf(check) == CASE check = "install"    -> "invalid_uuid"
                   [] check = "credential" -> "invalid_credential"
                   [] check = "sentAt"     -> "invalid_timestamp"
                   [] OTHER                -> "invalid_request"

Failed(checks, flaws) == SelectSeq(checks, LAMBDA c : c \in flaws)

\* Wrong: the size check looks at the events that decoded.
ValidateDecodedSize ==
    LET failed == Failed(Required[kind], envelope)
    IN  IF failed # <<>> THEN CodeOf(Head(failed))
        ELSE IF kind = "batch" /\ ~BatchSize(Len(events)) THEN "invalid_batch_size"
        ELSE ""

\* The code of the first check that fails, "" if none does.  EventCount keeps
\* the size of the body, whatever decoded.
Validate ==
    LET failed == Failed(Required[kind], envelope)
    IN  IF failed # <<>> THEN CodeOf(Head(failed))
        ELSE IF kind = "batch" /\ ~BatchSize(Len(body)) THEN "invalid_batch_size"
        ELSE IF kind = "batch" /\ Repeated([i \in DOMAIN events |-> events[i].id])
               THEN "duplicate_event_id_in_batch"
        ELSE ""

Admit == /\ phase = "decoded"
         /\ IF Validate # "" THEN Refuse(Validate)
            ELSE phase' = (IF kind = "batch" THEN "admitted" ELSE "answered") /\ UNCHANGED code
         /\ UNCHANGED <<kind, envelope, body, events, prepared, rejected>>

FieldChecks == <<"event_id", "session_id", "sequence", "elapsed", "name", "reserved", "occurredAt", "tooMany">>

\* Properties are a Go map: which of several flawed ones is met first varies.
validateProperties(flaws) ==
    IF flaws \cap {"key", "valueSize", "valueType"} # {}
      THEN flaws \cap {"key", "valueSize", "valueType"} ELSE flaws \cap {"encodedSize"}

\* The check that may refuse the event; none if it passes them all.
ValidateEvent(e) ==
    LET flaws == e.flaws \cup (IF e.id \in Ids THEN {} ELSE {"event_id"})
        met   == Failed(FieldChecks, flaws)
    IN  IF met # <<>> THEN {Head(met)} ELSE validateProperties(flaws)

prepareEvent ==
    /\ phase = "admitted" /\ events # <<>>
    /\ events' = Tail(events)
    /\ IF ValidateEvent(Head(events)) = {}
         THEN prepared' = Append(prepared, Head(events).id) /\ UNCHANGED rejected
         ELSE \E c \in ValidateEvent(Head(events)) :
                 rejected' = Append(rejected, [id |-> Head(events).id, code |-> c]) /\ UNCHANGED prepared
    /\ UNCHANGED <<kind, envelope, body, phase, code>>

Answer == /\ phase = "admitted" /\ events = <<>>
          /\ phase' = "answered"
          /\ UNCHANGED <<kind, envelope, body, events, prepared, rejected, code>>

Next == \/ \E e \in Samples : Compose(e)
        \/ DecodeBatchIngestRequest \/ DecodeRequest \/ Admit \/ prepareEvent \/ Answer

Spec == Init /\ [][Next]_vars
------------------------------------------------------------------------------
Flawless(e) == /\ e.id \in Ids /\ e.flaws = {} /\ e.depth < MaxDepth

\* Every event of an answered batch is answered exactly once: as many answers
\* as events, and no id both stored and rejected or answered twice, so that the
\* client can tell from the answer what to delete (decode-time rejections and
\* validation-time rejections are gathered on two different paths).
AnsweredOnce ==
    phase = "answered" =>
       /\ Len(prepared) + Len(rejected) = Len(body)
       /\ LET ids == prepared \o SelectSeq([i \in DOMAIN rejected |-> rejected[i].id], LAMBDA x : x # "")
          IN  ~Repeated(ids)

\* What is stored is flawless and what is flawless is stored, whatever the
\* flaws of the other events of the batch.
StoredIffFlawless ==
    phase = "answered" =>
       \A i \in DOMAIN body : body[i].id \in Ids =>
          (body[i].id \in ToSet(prepared) <=> Flawless(body[i]))

\* A batch whose events are all bad is still answered; a request is refused as
\* a whole only for its envelope, its size, its ids or what the scan of the
\* whole body finds, and never answered when its envelope is wrong.
RefusedForTheWhole ==
    LET wrong == \/ envelope # {}
                 \/ kind = "batch" /\ \/ ~BatchSize(Len(body))
                                      \/ Repeated([i \in DOMAIN body |-> body[i].id])
                                      \/ \E i \in DOMAIN body : "utf8" \in body[i].flaws \/ ~skipJSONValue(body[i])
    IN  /\ phase = "refused" => wrong
        /\ phase = "answered" => Failed(Required[kind], envelope) = <<>>
==============================================================================
