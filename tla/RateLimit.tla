------------------------------ MODULE RateLimit ------------------------------
(* The keyed token buckets of internal/ratelimit and the order in which the   *)
(* SDK endpoints and the administrator login consult them.  A bucket belongs  *)
(* to a limiter and a key (a source address, project, installation or email); *)
(* it is created full on its first use and never removed.  Finding the bucket *)
(* and spending from it are two critical sections.  Tokens are counted in     *)
(* fractions: one request costs Unit of them.                                 *)
EXTENDS RatePromise, FiniteSets, SequencesExt

CONSTANTS Procs,      \* requests being handled at once
          Calls,      \* the requests: [kind, source, project, install, valid];
                      \* a login carries its email in place of an installation
          MaxTime, MaxCalls   \* bounds: ticks, requests of a behaviour

VARIABLES now,      \* the clock
          buckets,  \* <<limiter, key>> -> fractions left, for the keys seen
          call,     \* the request each goroutine handles, or none
          chain,    \* the checks it has still to pass
          found,    \* the bucket it has looked up, or none
          charged,  \* history: the limiters each goroutine's request was charged by
          calls     \* requests so far

vars == <<now, buckets, call, chain, found, spent, charged, calls>>

None == [kind |-> "none"]
NoBucket == <<>>

Limiters == {"regIP", "regProject", "ingestIP", "ingestProject", "ingestInstall", "byEmail", "byIP"}

\* Wrong: the envelope is validated after the project has paid for it.
ChecksValidateLate == [register |-> <<"regIP", "regProject", "valid">>,
                       batch    |-> <<"ingestIP", "ingestProject", "valid", "ingestInstall">>,
                       policy   |-> <<"ingestIP", "valid", "ingestInstall">>,
                       login    |-> <<"byEmail", "byIP">>]

\* The limiters each endpoint consults, in order; "valid" is req.Validate().
Checks == [register |-> <<"regIP", "valid", "regProject">>,
           batch    |-> <<"ingestIP", "valid", "ingestProject", "ingestInstall">>,
           policy   |-> <<"ingestIP", "valid", "ingestInstall">>,
           login    |-> <<"byEmail", "byIP">>]

Key(l, c) == CASE l \in {"regIP", "ingestIP", "byIP"} -> <<c.source>>
               [] l \in {"regProject", "ingestProject"} -> <<c.project>>
               [] l = "ingestInstall"                   -> <<c.project, c.install>>
               [] l = "byEmail"                         -> <<c.install>>

\* Requests as the handlers decode them, and limits as the configuration gives
\* them: none is negative.
Configured == /\ Unit \in Nat
              /\ Rate \in [Limiters -> Nat] /\ Burst \in [Limiters -> Nat]
              /\ \A c \in Calls : c.kind \in DOMAIN Checks /\ c.valid \in BOOLEAN

\* The buckets there can be.
BucketKeys == {<<l, Key(l, c)>> : l \in Limiters, c \in Calls}

Init == /\ now = 0 /\ calls = 0
        /\ buckets = <<>> /\ spent = <<>>
        /\ call = [p \in Procs |-> None]
        /\ chain = [p \in Procs |-> <<>>]
        /\ found = [p \in Procs |-> NoBucket]
        /\ charged = [p \in Procs |-> {}]

Put(f, k, v) == [x \in DOMAIN f \cup {k} |-> IF x = k THEN v ELSE f[x]]
At(f, k, d) == IF k \in DOMAIN f THEN f[k] ELSE d
------------------------------------------------------------------------------
Receive(p, c) == /\ call[p] = None /\ calls < MaxCalls
                 /\ call' = [call EXCEPT ![p] = c]
                 /\ chain' = [chain EXCEPT ![p] = Checks[c.kind]]
                 /\ charged' = [charged EXCEPT ![p] = {}]
                 /\ calls' = calls + 1
                 /\ UNCHANGED <<now, buckets, found, spent>>

\* Wrong: the new bucket replaces the one another goroutine has just stored.
LookupAfresh(p) == /\ chain[p] # <<>> /\ Head(chain[p]) # "valid" /\ found[p] = NoBucket
                   /\ LET k == <<Head(chain[p]), Key(Head(chain[p]), call[p])>>
                      IN  /\ buckets' = Put(buckets, k, Burst[k[1]])
                          /\ found' = [found EXCEPT ![p] = k]
                   /\ UNCHANGED <<now, call, chain, spent, charged, calls>>

\* Allow, under the limiter's mutex: the bucket of the key, a full one if new.
Lookup(p) == /\ chain[p] # <<>> /\ Head(chain[p]) # "valid" /\ found[p] = NoBucket
             /\ LET k == <<Head(chain[p]), Key(Head(chain[p]), call[p])>>
                IN  /\ buckets' = Put(buckets, k, At(buckets, k, Burst[k[1]]))
                    /\ found' = [found EXCEPT ![p] = k]
             /\ UNCHANGED <<now, call, chain, spent, charged, calls>>

Finish(p) == call' = [call EXCEPT ![p] = None] /\ chain' = [chain EXCEPT ![p] = <<>>]

\* Whether a bucket holds a whole request.
Enough(b) == b >= Unit

\* Allow, after the mutex: the bucket's own decision, under its own lock.
Spend(p) == /\ found[p] # NoBucket
            /\ LET k == found[p]
               IN  IF Enough(buckets[k])
                     THEN /\ buckets' = [buckets EXCEPT ![k] = @ - Unit]
                          /\ spent' = Put(spent, k, Append(At(spent, k, <<>>), now))
                          /\ charged' = [charged EXCEPT ![p] = @ \cup {k[1]}]
                          /\ chain' = [chain EXCEPT ![p] = Tail(@)]
                          /\ UNCHANGED call
                     ELSE Finish(p) /\ UNCHANGED <<buckets, spent, charged>>
            /\ found' = [found EXCEPT ![p] = NoBucket]
            /\ UNCHANGED <<now, calls>>

Validate(p) == /\ chain[p] # <<>> /\ Head(chain[p]) = "valid"
               /\ IF call[p].valid THEN chain' = [chain EXCEPT ![p] = Tail(@)] /\ UNCHANGED call
                                   ELSE Finish(p)
               /\ UNCHANGED <<now, buckets, found, spent, charged, calls>>

\* Every check passed: the request goes on to authentication and storage.
Admitted(p) == /\ call[p] # None /\ chain[p] = <<>>
               /\ Finish(p)
               /\ UNCHANGED <<now, buckets, found, spent, charged, calls>>

Refill(k) == IF buckets[k] + Rate[k[1]] > Burst[k[1]] THEN Burst[k[1]] ELSE buckets[k] + Rate[k[1]]

Tick == /\ now < MaxTime
        /\ now' = now + 1
        /\ buckets' = [k \in DOMAIN buckets |-> Refill(k)]
        /\ UNCHANGED <<call, chain, found, spent, charged, calls>>

Step(p) == Lookup(p) \/ Spend(p) \/ Validate(p) \/ Admitted(p)

Next == \/ \E p \in Procs, c \in Calls : Receive(p, c)
        \/ \E p \in Procs : Step(p)
        \/ Tick

Spec == Init /\ [][Next]_vars
------------------------------------------------------------------------------
\* The inductive invariant (module LiveProofs).

TypeOK ==
    /\ now \in Nat
    /\ DOMAIN buckets \subseteq BucketKeys
    /\ \A k \in DOMAIN buckets : buckets[k] \in 0..Burst[k[1]]
    /\ DOMAIN spent \subseteq DOMAIN buckets
    /\ \A k \in DOMAIN spent : spent[k] \in Seq(0..now)
    /\ call \in [Procs -> Calls \cup {None}]
    /\ chain \in [Procs -> Seq(Limiters \cup {"valid"})]
    /\ found \in [Procs -> BucketKeys \cup {NoBucket}]
    /\ charged \in [Procs -> SUBSET Limiters]

\* What is left in a bucket and what it has paid for since any of its requests
\* is covered by a full bucket then and the refill since.
WithinBudget ==
    \A k \in DOMAIN spent : \A i \in DOMAIN spent[k] :
        Unit * (Len(spent[k]) - i + 1) + buckets[k] <= Burst[k[1]] + Rate[k[1]] * (now - spent[k][i])

\* What the first n checks of an endpoint charge to.
Paid(kind, n) == {Checks[kind][i] : i \in 1..n} \ {"valid"}

\* A request has passed the first n checks of its endpoint and has the others to
\* pass; the bucket it has looked up is the next check's.
InTurn ==
    \A p \in Procs :
        /\ call[p] = None => chain[p] = <<>> /\ found[p] = NoBucket
        /\ call[p] # None =>
              LET order == Checks[call[p].kind]
              IN  \E n \in 0..Len(order) :
                    /\ chain[p] = SubSeq(order, n + 1, Len(order))
                    /\ charged[p] = Paid(call[p].kind, n)
                    /\ (\E i \in 1..n : order[i] = "valid") => call[p].valid
        /\ found[p] # NoBucket =>
              /\ chain[p] # <<>> /\ Head(chain[p]) # "valid"
              /\ found[p] \in DOMAIN buckets /\ found[p][1] = Head(chain[p])

\* A request is charged to its project or installation only after its source
\* paid and its envelope was found valid; the budget of a project is not used up
\* by requests that could never be stored.
ChargedInTurn ==
    \A p \in Procs : call[p] # None =>
       LET order == Checks[call[p].kind]
           done  == SubSeq(order, 1, Len(order) - Len(chain[p]))
       IN  /\ charged[p] = ToSet(done) \ {"valid"}
           /\ charged[p] \cap {"regProject", "ingestProject", "ingestInstall"} # {} => call[p].valid

IInv == TypeOK /\ WithinBudget /\ InTurn /\ RateHolds
==============================================================================
