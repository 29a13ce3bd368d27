----------------------------- MODULE RatePromise -----------------------------
(* What the token buckets promise, in terms of the requests let through only. *)
(* RateLimit implements it.                                                   *)
EXTENDS Integers, Sequences

CONSTANTS Rate,       \* limiter -> fractions added per tick
          Burst,      \* limiter -> capacity in fractions
          Unit        \* fractions one request costs

VARIABLE spent    \* history: <<limiter, key>> -> times of the requests let through

\* Between any two requests a key was let through for, no more were let through
\* than its burst and the refill of the time between them pay for, whichever
\* goroutines handled them and whoever created the bucket (Limiter.Allow).
RateHolds ==
    \A k \in DOMAIN spent : \A i, j \in DOMAIN spent[k] :
       i <= j => Unit * (j - i + 1) <= Burst[k[1]] + Rate[k[1]] * (spent[k][j] - spent[k][i])
==============================================================================
