---------------------------- MODULE FilingPromise ----------------------------
(* What the clock rule promises of the events of one batch, in terms of when  *)
(* they happened, were sent and received.  Clock implements it.               *)
EXTENDS Integers, Sequences

CONSTANTS MaxSkew,      \* five minutes
          MaxAge        \* eight days

VARIABLES sent,     \* the batch under way: its true time and stamp
          stored    \* what the server filed: [at, received, effective, quality] of each event

Abs(n) == IF n < 0 THEN -n ELSE n
Trusted(i) == stored[i].quality # "untrusted"

\* An event is never filed in the future or before the oldest time accepted:
\* every effective time is within the window around its reception.
EffectiveIsPlausible ==
    \A i \in DOMAIN stored : /\ stored[i].effective <= stored[i].received + MaxSkew
                             /\ stored[i].effective >= stored[i].received - MaxAge

\* A trusted time is the true time, up to the tolerated skew and the time the
\* batch was under way, however far off the device's clock is.
TrustedIsNearTheTruth ==
    \A i \in DOMAIN stored :
       Trusted(i) => Abs(stored[i].effective - stored[i].at) <= MaxSkew + (stored[i].received - sent.at)

\* Two trusted events of one batch are filed in the order in which they happened;
\* up to the tolerated skew if the device's clock is believed for one of them and
\* corrected for the other.
OrderWithinTolerance ==
    \A i, j \in DOMAIN stored : i < j /\ Trusted(i) /\ Trusted(j) =>
       IF stored[i].quality = stored[j].quality THEN stored[i].effective <= stored[j].effective
       ELSE stored[i].effective <= stored[j].effective + MaxSkew

\* All of the above (effectiveTime, prepareBatch).
FiledNearTheTruth == EffectiveIsPlausible /\ TrustedIsNearTheTruth /\ OrderWithinTolerance
==============================================================================
