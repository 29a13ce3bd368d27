------------------------------ MODULE LiveProofs ------------------------------
(* Proofs about what several processes share: the buckets of the rate limiters,*)
(* for any rates, bursts and requests, the migration runner, for any files and *)
(* any deploys, and the session of the MCP server, for any callers and any     *)
(* expiries.                                                                   *)
EXTENDS RateLimit, SchemaPromise, LoginPromise, SequenceTheorems, FiniteSetTheorems, TLAPS

CONSTANTS Callers, MaxExpiries, Runners, Names, First, MaxFailures

VARIABLES session, live, issued, token, files, run, failures

Client == INSTANCE McpClient
Schema == INSTANCE Migrations

-----------------------------------------------------------------------------
(* The rate limiters.                                                        *)

Kinds == {"register", "batch", "policy", "login"}

\* The four chains of checks: sequences of limiters, in which whatever is
\* charged to a project or an installation comes after the validation.
LEMMA ChecksFacts ==
    ASSUME NEW kind \in Kinds
    PROVE  /\ Checks[kind] \in Seq(Limiters \cup {"valid"})
           /\ \A i \in 1..Len(Checks[kind]) :
                Checks[kind][i] \in {"regProject", "ingestProject", "ingestInstall"} =>
                  2 < i /\ Checks[kind][2] = "valid"
  <1>1. CASE kind = "register"
    <2>1. Checks[kind] = <<"regIP", "valid", "regProject">> BY <1>1 DEF Checks
    <2> QED BY <2>1 DEF Limiters
  <1>2. CASE kind = "batch"
    <2>1. Checks[kind] = <<"ingestIP", "valid", "ingestProject", "ingestInstall">> BY <1>2 DEF Checks
    <2> QED BY <2>1 DEF Limiters
  <1>3. CASE kind = "policy"
    <2>1. Checks[kind] = <<"ingestIP", "valid", "ingestInstall">> BY <1>3 DEF Checks
    <2> QED BY <2>1 DEF Limiters
  <1>4. CASE kind = "login"
    <2>1. Checks[kind] = <<"byEmail", "byIP">> BY <1>4 DEF Checks
    <2> QED BY <2>1 DEF Limiters
  <1> QED BY <1>1, <1>2, <1>3, <1>4 DEF Kinds

\* Every call is of one of the four endpoints.
LEMMA KindsOfCalls ==
    ASSUME Configured, NEW c \in Calls
    PROVE  c.kind \in Kinds /\ c.valid \in BOOLEAN /\ c # None
  <1>1. DOMAIN Checks = Kinds BY DEF Checks, Kinds
  <1> QED BY <1>1 DEF Configured, Kinds, None

\* A bucket's key names its limiter.
LEMMA KeyFacts ==
    ASSUME Configured, NEW k \in BucketKeys
    PROVE  k[1] \in Limiters /\ k # NoBucket /\ Rate[k[1]] \in Nat /\ Burst[k[1]] \in Nat /\ Unit \in Nat
  <1>1. PICK l \in Limiters, c \in Calls : k = <<l, Key(l, c)>> BY DEF BucketKeys
  <1>2. k[1] = l /\ k # NoBucket BY <1>1 DEF NoBucket
  <1> QED BY <1>2 DEF Configured

\* What is left of a chain after n of its checks.
LEMMA RestOfChain ==
    ASSUME NEW S, NEW order \in Seq(S), NEW n \in 0..Len(order)
    PROVE  LET rest == SubSeq(order, n + 1, Len(order))
           IN  /\ rest \in Seq(S)
               /\ Len(rest) = Len(order) - n
               /\ n = Len(order) => rest = <<>>
               /\ rest # <<>> => /\ n < Len(order)
                                 /\ Head(rest) = order[n + 1]
                                 /\ Tail(rest) = SubSeq(order, n + 2, Len(order))
  BY SubSeqProperties, SubSeqEmpty, HeadTailOfSubSeq

\* The times in a history.
LEMMA TimesFacts ==
    ASSUME NEW n \in Nat, NEW s \in Seq(0..n), NEW i \in DOMAIN s
    PROVE  Len(s) \in Nat /\ i \in 1..Len(s) /\ s[i] \in 0..n
  <1>1. Len(s) \in Nat /\ DOMAIN s = 1..Len(s) BY LenProperties
  <1> QED BY <1>1, ElementOfSeq

\* One check more charges to one limiter more, unless it is the validation.
LEMMA PaidNext ==
    ASSUME NEW kind, NEW n \in Nat
    PROVE  Paid(kind, n + 1) = (Paid(kind, n) \cup {Checks[kind][n + 1]}) \ {"valid"}
  <1>1. 1..(n + 1) = 1..n \cup {n + 1} OBVIOUS
  <1>2. {Checks[kind][i] : i \in 1..n \cup {n + 1}} = {Checks[kind][i] : i \in 1..n} \cup {Checks[kind][n + 1]}
    BY Zenon
  <1> QED BY <1>1, <1>2 DEF Paid

\* The inductive invariant holds at the start: no bucket, no request.
LEMMA InitEstablishes == ASSUME Configured, Init PROVE IInv
  <1>1. TypeOK BY DEF Init, TypeOK, None, NoBucket
  <1>2. WithinBudget /\ RateHolds BY DEF Init, WithinBudget, RateHolds
  <1>3. InTurn BY DEF Init, InTurn
  <1> QED BY <1>1, <1>2, <1>3 DEF IInv

\* What InTurn says of one goroutine.
TurnOf(p) ==
    /\ call[p] = None => chain[p] = <<>> /\ found[p] = NoBucket
    /\ call[p] # None =>
          \E n \in 0..Len(Checks[call[p].kind]) :
             /\ chain[p] = SubSeq(Checks[call[p].kind], n + 1, Len(Checks[call[p].kind]))
             /\ charged[p] = Paid(call[p].kind, n)
             /\ (\E i \in 1..n : Checks[call[p].kind][i] = "valid") => call[p].valid
    /\ found[p] # NoBucket =>
          /\ chain[p] # <<>> /\ Head(chain[p]) # "valid"
          /\ found[p] \in DOMAIN buckets /\ found[p][1] = Head(chain[p])

\* InTurn is about the goroutines one by one.
LEMMA InTurnOf == InTurn <=> \A p \in Procs : TurnOf(p)
  BY DEF InTurn, TurnOf

\* The same for the next state.
LEMMA InTurnOfNext == ASSUME \A p \in Procs : TurnOf(p)' PROVE InTurn'
  BY DEF InTurn, TurnOf

\* A goroutine that does not move keeps its turn; buckets are never removed.
LEMMA OthersKeepTurn ==
    ASSUME NEW o \in Procs, TurnOf(o), DOMAIN buckets \subseteq DOMAIN buckets',
           call'[o] = call[o], chain'[o] = chain[o], found'[o] = found[o], charged'[o] = charged[o]
    PROVE  TurnOf(o)'
  BY DEF TurnOf

\* A goroutine with nothing to do is in turn.
LEMMA FinishedInTurn ==
    ASSUME TypeOK, NEW p \in Procs, Finish(p), found' = [found EXCEPT ![p] = NoBucket]
    PROVE  TurnOf(p)' /\ call' \in [Procs -> Calls \cup {None}]
           /\ chain' \in [Procs -> Seq(Limiters \cup {"valid"})]
  <1>1. call'[p] = None /\ chain'[p] = <<>> /\ found'[p] = NoBucket BY DEF TypeOK, Finish
  <1>2. call' \in [Procs -> Calls \cup {None}] BY DEF TypeOK, Finish
  <1>3. chain' \in [Procs -> Seq(Limiters \cup {"valid"})]
    <2>1. <<>> \in Seq(Limiters \cup {"valid"}) OBVIOUS
    <2> QED BY <2>1 DEF TypeOK, Finish
  <1> QED BY <1>1, <1>2, <1>3 DEF TurnOf

\* One check passed: the next one is the head of what is left.
LEMMA AdvanceInTurn ==
    ASSUME Configured, TypeOK, NEW p \in Procs, TurnOf(p), chain[p] # <<>>,
           call' = call, chain' = [chain EXCEPT ![p] = Tail(@)],
           found' = [found EXCEPT ![p] = NoBucket],
           charged' \in [Procs -> SUBSET Limiters],
           charged'[p] = (charged[p] \cup {Head(chain[p])}) \ {"valid"},
           Head(chain[p]) = "valid" => call[p].valid
    PROVE  TurnOf(p)' /\ chain' \in [Procs -> Seq(Limiters \cup {"valid"})]
  <1> DEFINE S == Limiters \cup {"valid"}
             kind == call[p].kind
             order == Checks[kind]
  <1>1. call[p] # None /\ call[p] \in Calls BY DEF TurnOf, TypeOK
  <1>2. order \in Seq(S) BY <1>1, KindsOfCalls, ChecksFacts
  <1>3. PICK n \in 0..Len(order) :
          /\ chain[p] = SubSeq(order, n + 1, Len(order))
          /\ charged[p] = Paid(kind, n)
          /\ (\E i \in 1..n : order[i] = "valid") => call[p].valid
    BY <1>1 DEF TurnOf
  <1> HIDE DEF order, kind, S
  <1>4. /\ n < Len(order) /\ Head(chain[p]) = order[n + 1]
        /\ Tail(chain[p]) = SubSeq(order, n + 2, Len(order))
    BY <1>2, <1>3, RestOfChain
  <1>5. n + 1 \in 0..Len(order) /\ n \in Nat /\ (n + 1) + 1 = n + 2 BY <1>2, <1>4
  <1>6. SubSeq(order, (n + 1) + 1, Len(order)) \in Seq(S)
    BY <1>2, <1>5, RestOfChain
  <1>7. chain' \in [Procs -> Seq(S)] /\ chain'[p] = SubSeq(order, (n + 1) + 1, Len(order))
    BY <1>4, <1>5, <1>6 DEF TypeOK, S
  <1>8. charged'[p] = Paid(kind, n + 1)
    <2>1. Paid(kind, n + 1) = (Paid(kind, n) \cup {order[n + 1]}) \ {"valid"} 
      BY <1>5, PaidNext DEF order
    <2> QED BY <1>3, <1>4, <2>1
  <1>9. (\E i \in 1..(n + 1) : order[i] = "valid") => call[p].valid
    BY <1>3, <1>4, <1>5
  <1>10. found'[p] = NoBucket /\ call'[p] = call[p] BY DEF TypeOK
  <1>11. TurnOf(p)'
    <2>1. \E m \in 0..Len(order) :
             /\ chain'[p] = SubSeq(order, m + 1, Len(order))
             /\ charged'[p] = Paid(kind, m)
             /\ (\E i \in 1..m : order[i] = "valid") => call[p].valid
      BY <1>5, <1>7, <1>8, <1>9
    <2> QED BY <1>1, <1>10, <2>1 DEF TurnOf, order, kind
  <1> QED BY <1>7, <1>11 DEF S

\* A step that spends nothing and leaves the clock alone keeps the budget.
LEMMA BudgetKeeps ==
    ASSUME WithinBudget, RateHolds, spent' = spent, now' = now,
           \A k \in DOMAIN spent : buckets'[k] = buckets[k]
    PROVE  WithinBudget' /\ RateHolds'
  BY DEF WithinBudget, RateHolds

\* A request comes with its endpoint's chain of checks, none of them paid.
LEMMA ReceivePreserves ==
    ASSUME Configured, IInv, NEW p \in Procs, NEW c \in Calls, Receive(p, c)
    PROVE  IInv'
  <1> DEFINE order == Checks[c.kind]
  <1>1. TypeOK /\ WithinBudget /\ InTurn /\ RateHolds BY DEF IInv
  <1>2. /\ call[p] = None /\ call' = [call EXCEPT ![p] = c]
        /\ chain' = [chain EXCEPT ![p] = order]
        /\ charged' = [charged EXCEPT ![p] = {}]
        /\ UNCHANGED <<now, buckets, found, spent>>
    BY DEF Receive
  <1>3. c.kind \in Kinds /\ c # None BY KindsOfCalls
  <1>4. order \in Seq(Limiters \cup {"valid"}) BY <1>3, ChecksFacts
  <1> HIDE DEF order
  <1>5. TypeOK' BY <1>1, <1>2, <1>4 DEF TypeOK
  <1>6. WithinBudget' /\ RateHolds' BY <1>1, <1>2, BudgetKeeps
  <1>7. TurnOf(p)'
    <2>1. call'[p] = c /\ chain'[p] = order /\ charged'[p] = {} /\ found'[p] = NoBucket
      BY <1>1, <1>2 DEF TypeOK, InTurn
    <2>2. 0 \in 0..Len(order) /\ order = SubSeq(order, 0 + 1, Len(order)) /\ Paid(c.kind, 0) = {}
      BY <1>4, SubSeqFull DEF Paid
    <2> QED BY <1>3, <2>1, <2>2 DEF TurnOf, order
  <1>8. \A o \in Procs : o # p => TurnOf(o)'
    <2> TAKE o \in Procs
    <2> HAVE o # p
    <2>1. TurnOf(o) BY <1>1, InTurnOf
    <2> QED BY <1>1, <1>2, <2>1, OthersKeepTurn DEF TypeOK
  <1> QED BY <1>5, <1>6, <1>7, <1>8, InTurnOfNext DEF IInv

\* The bucket of the next check is found, or made full: a new key has nothing spent.
LEMMA LookupPreserves ==
    ASSUME Configured, IInv, NEW p \in Procs, Lookup(p)
    PROVE  IInv'
  <1> DEFINE l == Head(chain[p])
             k == <<l, Key(l, call[p])>>
  <1>1. TypeOK /\ WithinBudget /\ InTurn /\ RateHolds BY DEF IInv
  <1>2. /\ chain[p] # <<>> /\ l # "valid" /\ found[p] = NoBucket
        /\ buckets' = Put(buckets, k, At(buckets, k, Burst[k[1]]))
        /\ found' = [found EXCEPT ![p] = k]
        /\ UNCHANGED <<now, call, chain, spent, charged, calls>>
    BY DEF Lookup
  <1>3. call[p] \in Calls /\ call[p] # None BY <1>1, <1>2 DEF InTurn, TypeOK
  <1>4. l \in Limiters
    <2>1. chain[p] \in Seq(Limiters \cup {"valid"}) BY <1>1 DEF TypeOK
    <2> QED BY <1>2, <2>1, HeadTailProperties
  <1>5. k \in BucketKeys BY <1>3, <1>4 DEF BucketKeys
  <1>6. k[1] = l OBVIOUS
  <1> HIDE DEF k, l
  <1>7. Burst[k[1]] \in Nat /\ k # NoBucket BY <1>5, KeyFacts
  <1>8. /\ DOMAIN buckets' = DOMAIN buckets \cup {k}
        /\ \A x \in DOMAIN buckets : buckets'[x] = buckets[x]
        /\ k \notin DOMAIN buckets => buckets'[k] = Burst[k[1]]
    BY <1>2 DEF Put, At
  <1>9. \A x \in DOMAIN buckets' : buckets'[x] \in 0..Burst[x[1]]
    BY <1>1, <1>7, <1>8 DEF TypeOK
  <1>10. TypeOK' BY <1>1, <1>2, <1>5, <1>8, <1>9 DEF TypeOK
  <1>11. WithinBudget' /\ RateHolds'
    <2>1. \A x \in DOMAIN spent : buckets'[x] = buckets[x] BY <1>1, <1>8 DEF TypeOK
    <2> QED BY <1>1, <1>2, <2>1, BudgetKeeps
  <1>12. TurnOf(p)'
    <2>1. found'[p] = k /\ k \in DOMAIN buckets' BY <1>1, <1>2, <1>8 DEF TypeOK
    <2>2. TurnOf(p) BY <1>1, InTurnOf
    <2> QED BY <1>2, <1>3, <1>6, <2>1, <2>2 DEF TurnOf, l
  <1>13. \A o \in Procs : o # p => TurnOf(o)'
    <2> TAKE o \in Procs
    <2> HAVE o # p
    <2>1. TurnOf(o) BY <1>1, InTurnOf
    <2>2. found'[o] = found[o] BY <1>1, <1>2 DEF TypeOK
    <2> QED BY <1>2, <1>8, <2>1, <2>2, OthersKeepTurn
  <1> QED BY <1>10, <1>11, <1>12, <1>13, InTurnOfNext DEF IInv

\* Steps that touch neither the buckets nor the clock: a goroutine ends or passes
\* the validation.
LEMMA TurnStep ==
    ASSUME IInv, NEW p \in Procs, UNCHANGED <<now, buckets, spent>>,
           call' \in [Procs -> Calls \cup {None}],
           chain' \in [Procs -> Seq(Limiters \cup {"valid"})],
           found' \in [Procs -> BucketKeys \cup {NoBucket}],
           charged' \in [Procs -> SUBSET Limiters],
           TurnOf(p)',
           \A o \in Procs : o # p => /\ call'[o] = call[o] /\ chain'[o] = chain[o]
                                     /\ found'[o] = found[o] /\ charged'[o] = charged[o]
    PROVE  IInv'
  <1>1. TypeOK /\ WithinBudget /\ InTurn /\ RateHolds BY DEF IInv
  <1>2. TypeOK' BY <1>1 DEF TypeOK
  <1>3. WithinBudget' /\ RateHolds' BY <1>1, BudgetKeeps
  <1>4. \A o \in Procs : o # p => TurnOf(o)' BY <1>1, InTurnOf, OthersKeepTurn
  <1> QED BY <1>2, <1>3, <1>4, InTurnOfNext DEF IInv

\* The envelope is decoded between the checks; a request that is not valid ends.
LEMMA ValidatePreserves ==
    ASSUME Configured, IInv, NEW p \in Procs, Validate(p)
    PROVE  IInv'
  <1>1. TypeOK /\ InTurn BY DEF IInv
  <1>2. /\ chain[p] # <<>> /\ Head(chain[p]) = "valid"
        /\ UNCHANGED <<now, buckets, found, spent, charged>>
    BY DEF Validate
  <1>3. TurnOf(p) BY <1>1, InTurnOf
  <1>4. found[p] = NoBucket BY <1>2, <1>3 DEF TurnOf
  <1>5. /\ found' \in [Procs -> BucketKeys \cup {NoBucket}] /\ charged' \in [Procs -> SUBSET Limiters]
        /\ found' = [found EXCEPT ![p] = NoBucket]
    BY <1>1, <1>2, <1>4 DEF TypeOK
  <1>6. CASE call[p].valid
    <2>1. call' = call /\ chain' = [chain EXCEPT ![p] = Tail(@)] BY <1>6 DEF Validate
    <2>2. charged'[p] = (charged[p] \cup {Head(chain[p])}) \ {"valid"}
      <3>1. charged[p] \subseteq Limiters BY <1>1 DEF TypeOK
      <3> QED BY <1>2, <3>1 DEF Limiters
    <2>3. TurnOf(p)' /\ chain' \in [Procs -> Seq(Limiters \cup {"valid"})]
      BY <1>1, <1>2, <1>3, <1>5, <1>6, <2>1, <2>2, AdvanceInTurn
    <2>4. call' \in [Procs -> Calls \cup {None}] BY <1>1, <2>1 DEF TypeOK
    <2>5. \A o \in Procs : o # p => chain'[o] = chain[o] BY <1>1, <2>1 DEF TypeOK
    <2> QED BY <1>2, <1>5, <2>1, <2>3, <2>4, <2>5, TurnStep
  <1>7. CASE ~call[p].valid
    <2>1. Finish(p) BY <1>7 DEF Validate
    <2>2. \A o \in Procs : o # p => chain'[o] = chain[o] /\ call'[o] = call[o]
      BY <1>1, <2>1 DEF TypeOK, Finish
    <2> QED BY <1>1, <1>2, <1>5, <2>1, <2>2, FinishedInTurn, TurnStep
  <1> QED BY <1>6, <1>7

\* A request that has passed all checks leaves; what it spent stays spent.
LEMMA AdmittedPreserves ==
    ASSUME Configured, IInv, NEW p \in Procs, Admitted(p)
    PROVE  IInv'
  <1>1. TypeOK /\ InTurn BY DEF IInv
  <1>2. Finish(p) /\ chain[p] = <<>> /\ UNCHANGED <<now, buckets, found, spent, charged>>
    BY DEF Admitted
  <1>3. found[p] = NoBucket BY <1>1, <1>2 DEF InTurn
  <1>4. /\ found' \in [Procs -> BucketKeys \cup {NoBucket}] /\ charged' \in [Procs -> SUBSET Limiters]
        /\ found' = [found EXCEPT ![p] = NoBucket]
    BY <1>1, <1>2, <1>3 DEF TypeOK
  <1>5. \A o \in Procs : o # p => chain'[o] = chain[o] /\ call'[o] = call[o]
    BY <1>1, <1>2 DEF TypeOK, Finish
  <1> QED BY <1>1, <1>2, <1>4, <1>5, FinishedInTurn, TurnStep

\* One tick more is worth one rate more.
LEMMA OneTickMore ==
    ASSUME NEW r \in Int, NEW n \in Int, NEW x \in Int
    PROVE  r * ((n + 1) - x) = r * (n - x) + r
  OBVIOUS

\* Refilling adds to a bucket no more than the time that passed is worth.
LEMMA TickPreserves ==
    ASSUME Configured, IInv, Tick
    PROVE  IInv'
  <1>1. TypeOK /\ WithinBudget /\ InTurn /\ RateHolds BY DEF IInv
  <1>2. /\ now' = now + 1 /\ now \in Nat /\ now' \in Nat
        /\ buckets' = [k \in DOMAIN buckets |-> Refill(k)]
        /\ UNCHANGED <<call, chain, found, spent, charged>>
    BY <1>1 DEF Tick, TypeOK
  <1>3. ASSUME NEW k \in DOMAIN buckets
        PROVE  /\ buckets[k] \in Nat /\ Rate[k[1]] \in Nat /\ Burst[k[1]] \in Nat /\ Unit \in Nat
               /\ buckets'[k] \in 0..Burst[k[1]] /\ buckets'[k] <= buckets[k] + Rate[k[1]]
    <2>1. buckets[k] \in 0..Burst[k[1]] /\ Rate[k[1]] \in Nat /\ Burst[k[1]] \in Nat /\ Unit \in Nat
      BY <1>1, <1>3, KeyFacts DEF TypeOK
    <2>2. buckets'[k] = Refill(k) BY <1>2
    <2> QED BY <2>1, <2>2 DEF Refill
  <1>4. DOMAIN buckets' = DOMAIN buckets BY <1>2
  <1>5. \A k \in DOMAIN spent : spent[k] \in Seq(0..now')
    <2> TAKE k \in DOMAIN spent
    <2>1. spent[k] \in Seq(0..now) BY <1>1 DEF TypeOK
    <2>2. 0..now \subseteq 0..now' BY <1>2
    <2> QED BY <2>1, <2>2, SeqMonotonic
  <1>6. TypeOK' BY <1>1, <1>2, <1>3, <1>4, <1>5 DEF TypeOK
  <1>7. WithinBudget'
    <2> SUFFICES ASSUME NEW k \in DOMAIN spent, NEW i \in DOMAIN spent[k]
                 PROVE  Unit * (Len(spent[k]) - i + 1) + buckets'[k]
                          <= Burst[k[1]] + Rate[k[1]] * (now' - spent[k][i])
      BY <1>2 DEF WithinBudget
    <2>1. k \in DOMAIN buckets /\ spent[k] \in Seq(0..now) BY <1>1 DEF TypeOK
    <2>2. Len(spent[k]) \in Nat /\ i \in Int /\ spent[k][i] \in Int
      BY <1>2, <2>1, TimesFacts
    <2> DEFINE r == Rate[k[1]]
               m == Len(spent[k]) - i + 1
               x == spent[k][i]
               a == Unit * m
               b == r * (now - x)
    <2>3. a + buckets[k] <= Burst[k[1]] + b BY <1>1 DEF WithinBudget
    <2>4. r \in Int /\ x \in Int /\ m \in Int /\ now \in Int /\ Unit \in Int BY <1>2, <1>3, <2>1, <2>2
    <2> HIDE DEF r, m, x
    <2>5. r * (now' - x) = b + r BY <1>2, <2>4, OneTickMore
    <2>6. a \in Int /\ b \in Int BY <2>4
    <2> HIDE DEF a, b
    <2>7. a + buckets'[k] <= Burst[k[1]] + (b + r)
      <3> DEFINE y == buckets'[k]
                 z == buckets[k]
                 B == Burst[k[1]]
      <3>1. y \in Int /\ z \in Int /\ B \in Int /\ y <= z + r BY <1>3, <2>1 DEF r
      <3>2. a + z <= B + b BY <2>3
      <3> HIDE DEF y, z, B
      <3>3. a + y <= B + (b + r) BY <2>4, <2>6, <3>1, <3>2
      <3> QED BY <3>3 DEF y, B
    <2> QED BY <2>5, <2>7 DEF a, m, r, x
  <1>8. RateHolds' BY <1>1, <1>2 DEF RateHolds
  <1>9. InTurn' BY <1>1, <1>2, <1>4 DEF InTurn
  <1> QED BY <1>6, <1>7, <1>8, <1>9 DEF IInv

\* One request more costs one unit more.
LEMMA OneRequestMore ==
    ASSUME NEW u \in Int, NEW n \in Int
    PROVE  u * (n + 1) = u * n + u
  OBVIOUS

\* What a history looks like after a request was let through.
LEMMA SpentFacts ==
    ASSUME TypeOK, NEW k \in DOMAIN buckets,
           spent' = Put(spent, k, Append(At(spent, k, <<>>), now))
    PROVE  LET old == At(spent, k, <<>>)
           IN  /\ DOMAIN spent' = DOMAIN spent \cup {k}
               /\ \A x \in DOMAIN spent : x # k => spent'[x] = spent[x]
               /\ old \in Seq(0..now) /\ spent'[k] \in Seq(0..now)
               /\ Len(old) \in Nat /\ Len(spent'[k]) = Len(old) + 1
               /\ DOMAIN spent'[k] = 1..(Len(old) + 1)
               /\ spent'[k][Len(old) + 1] = now
               /\ \A i \in 1..Len(old) : /\ k \in DOMAIN spent /\ i \in DOMAIN spent[k]
                                         /\ spent'[k][i] = spent[k][i]
  <1> DEFINE old == At(spent, k, <<>>)
  <1>1. now \in Nat /\ now \in 0..now BY DEF TypeOK
  <1>2. /\ DOMAIN spent' = DOMAIN spent \cup {k}
        /\ \A x \in DOMAIN spent : x # k => spent'[x] = spent[x]
        /\ spent'[k] = Append(old, now)
    BY DEF Put
  <1>3. old \in Seq(0..now)
    <2>1. CASE k \in DOMAIN spent BY <2>1 DEF At, TypeOK
    <2>2. CASE k \notin DOMAIN spent
      <3>1. old = <<>> BY <2>2 DEF At
      <3> QED BY <3>1, EmptySeq
    <2> QED BY <2>1, <2>2
  <1>4. old = <<>> \/ (k \in DOMAIN spent /\ old = spent[k]) BY DEF At
  <1> HIDE DEF old
  <1>5. /\ Append(old, now) \in Seq(0..now) /\ Len(Append(old, now)) = Len(old) + 1
        /\ \A i \in 1..Len(old) : Append(old, now)[i] = old[i]
        /\ Append(old, now)[Len(old) + 1] = now
    BY <1>1, <1>3, AppendProperties
  <1>6. Len(old) \in Nat /\ DOMAIN old = 1..Len(old) BY <1>3, LenProperties
  <1>7. DOMAIN Append(old, now) = 1..(Len(old) + 1) BY <1>5, LenProperties
  <1>8. \A i \in 1..Len(old) : k \in DOMAIN spent /\ i \in DOMAIN spent[k] /\ old[i] = spent[k][i]
    BY <1>4, <1>6
  <1> QED BY <1>2, <1>3, <1>5, <1>6, <1>7, <1>8 DEF old

\* A bucket that pays stays within its budget, and so does every window that
\* ends with the request it paid for.
LEMMA SpendBudget ==
    ASSUME Configured, TypeOK, WithinBudget, RateHolds, NEW k \in DOMAIN buckets, buckets[k] >= Unit,
           buckets' = [buckets EXCEPT ![k] = @ - Unit], now' = now,
           spent' = Put(spent, k, Append(At(spent, k, <<>>), now))
    PROVE  WithinBudget' /\ RateHolds' /\ TypeOK!2' /\ TypeOK!3' /\ TypeOK!4' /\ TypeOK!5'
  <1> DEFINE old == At(spent, k, <<>>)
             B == Burst[k[1]]
             R == Rate[k[1]]
             L == Len(old)
             z == buckets[k]
  <1>1. /\ DOMAIN spent' = DOMAIN spent \cup {k}
        /\ \A x \in DOMAIN spent : x # k => spent'[x] = spent[x]
        /\ old \in Seq(0..now) /\ spent'[k] \in Seq(0..now)
        /\ L \in Nat /\ Len(spent'[k]) = L + 1
        /\ DOMAIN spent'[k] = 1..(L + 1)
        /\ spent'[k][L + 1] = now
        /\ \A i \in 1..L : /\ k \in DOMAIN spent /\ i \in DOMAIN spent[k]
                           /\ spent'[k][i] = spent[k][i]
    BY SpentFacts
  <1>2. R \in Nat /\ B \in Nat /\ Unit \in Nat /\ z \in 0..B /\ now \in Nat
    BY KeyFacts DEF TypeOK
  <1>3. /\ DOMAIN buckets' = DOMAIN buckets /\ buckets'[k] = z - Unit
        /\ \A x \in DOMAIN buckets : x # k => buckets'[x] = buckets[x]
    OBVIOUS
  <1>4. TypeOK!2' /\ TypeOK!3' /\ TypeOK!4'
    BY <1>1, <1>2, <1>3 DEF TypeOK
  <1>5. TypeOK!5' BY <1>1 DEF TypeOK
  <1>6. k \in DOMAIN spent => L = Len(spent[k]) BY DEF At
  <1> HIDE DEF old, L
  <1>7. ASSUME NEW i \in 1..(L + 1)
        PROVE  /\ spent'[k][i] \in 0..now
               /\ Unit * ((L + 1) - i + 1) + (z - Unit) <= B + R * (now - spent'[k][i])
    <2>1. CASE i = L + 1
      <3>1. spent'[k][i] = now BY <1>1, <2>1
      <3>2. (L + 1) - i + 1 = 1 /\ now - now = 0 BY <1>1, <1>2, <2>1
      <3>3. Unit * 1 = Unit /\ R * 0 = 0 BY <1>2
      <3>4. Unit * ((L + 1) - i + 1) + (z - Unit) = z BY <1>2, <3>2, <3>3
      <3> QED BY <1>2, <3>1, <3>2, <3>3, <3>4
    <2>2. CASE i # L + 1
      <3>1. i \in 1..L BY <1>1, <2>2
      <3>2. k \in DOMAIN spent /\ i \in DOMAIN spent[k] /\ spent'[k][i] = spent[k][i] BY <1>1, <3>1
      <3>3. spent[k][i] \in 0..now BY <3>2, TimesFacts DEF TypeOK
      <3> DEFINE m == L - i + 1
                 b == R * (now - spent[k][i])
      <3>4. Unit * m + z <= B + b BY <1>6, <3>2 DEF WithinBudget
      <3>5. m \in Int /\ (L + 1) - i + 1 = m + 1 BY <1>1, <3>1
      <3>6. b \in Int BY <1>2, <3>3
      <3> HIDE DEF m, b, B, R, z
      <3>7. Unit * (m + 1) = Unit * m + Unit /\ Unit * m \in Int
        <4>1. Unit \in Int BY <1>2
        <4>2. m \in Int BY <3>5
        <4>3. Unit * (m + 1) = Unit * m + Unit BY <4>1, <4>2, OneRequestMore
        <4> QED BY <4>1, <4>2, <4>3
      <3> DEFINE a == Unit * m
      <3> HIDE DEF a
      <3>8. a + z <= B + b /\ a \in Int BY <3>4, <3>7 DEF a
      <3>9. (a + Unit) + (z - Unit) <= B + b BY <1>2, <3>6, <3>8
      <3> QED BY <3>2, <3>3, <3>5, <3>7, <3>9 DEF a, b
    <2> QED BY <2>1, <2>2
  <1>8. WithinBudget'
    <2> SUFFICES ASSUME NEW x \in DOMAIN spent', NEW i \in DOMAIN spent'[x]
                 PROVE  Unit * (Len(spent'[x]) - i + 1) + buckets'[x]
                          <= Burst[x[1]] + Rate[x[1]] * (now - spent'[x][i])
      BY DEF WithinBudget
    <2>1. CASE x = k BY <1>1, <1>3, <1>7, <2>1
    <2>2. CASE x # k
      <3>1. x \in DOMAIN spent /\ spent'[x] = spent[x] BY <1>1, <2>2
      <3>2. x \in DOMAIN buckets /\ buckets'[x] = buckets[x] BY <1>3, <2>2, <3>1 DEF TypeOK
      <3> QED BY <3>1, <3>2 DEF WithinBudget
    <2> QED BY <2>1, <2>2
  <1>9. RateHolds'
    <2> SUFFICES ASSUME NEW x \in DOMAIN spent', NEW i \in DOMAIN spent'[x], NEW j \in DOMAIN spent'[x], i <= j
                 PROVE  Unit * (j - i + 1) <= Burst[x[1]] + Rate[x[1]] * (spent'[x][j] - spent'[x][i])
      BY DEF RateHolds
    <2>1. CASE x # k
      <3>1. x \in DOMAIN spent /\ spent'[x] = spent[x] BY <1>1, <2>1
      <3> QED BY <3>1 DEF RateHolds
    <2>2. CASE x = k /\ j # L + 1
      <3>1. i \in 1..L /\ j \in 1..L BY <1>1, <2>2
      <3> QED BY <1>1, <2>2, <3>1 DEF RateHolds
    <2>3. CASE x = k /\ j = L + 1
      <3>1. i \in 1..(L + 1) /\ spent'[x][j] = now BY <1>1, <2>3
      <3> DEFINE a == Unit * (j - i + 1)
                 b == R * (now - spent'[k][i])
      <3>2. a + (z - Unit) <= B + b /\ spent'[k][i] \in 0..now BY <1>7, <2>3, <3>1
      <3>3. a \in Int /\ b \in Int
        <4>1. j - i + 1 \in Int /\ now - spent'[k][i] \in Int /\ Unit \in Int /\ R \in Int
          <5>1. i \in Int /\ j \in Int BY <1>1, <2>3, <3>1
          <5>2. spent'[k][i] \in Int /\ now \in Int BY <1>2, <3>2
          <5> QED BY <1>2, <5>1, <5>2
        <4> QED BY <4>1
      <3> HIDE DEF a, b, B, R, z
      <3>4. z - Unit >= 0 /\ z \in Int /\ Unit \in Int /\ B \in Int BY <1>2 DEF z
      <3>5. a <= B + b BY <3>2, <3>3, <3>4
      <3> QED BY <2>3, <3>1, <3>5 DEF a, b, B, R
    <2> QED BY <2>1, <2>2, <2>3
  <1> QED BY <1>4, <1>5, <1>8, <1>9

\* The refill and the spending of one call, in the second critical section.
LEMMA SpendPreserves ==
    ASSUME Configured, IInv, NEW p \in Procs, Spend(p)
    PROVE  IInv'
  <1> DEFINE k == found[p]
  <1>1. TypeOK /\ WithinBudget /\ InTurn /\ RateHolds BY DEF IInv
  <1>2. k # NoBucket /\ found' = [found EXCEPT ![p] = NoBucket] /\ UNCHANGED now BY DEF Spend
  <1>3. TurnOf(p) BY <1>1, InTurnOf
  <1>4. /\ k \in DOMAIN buckets /\ k \in BucketKeys /\ k[1] \in Limiters
        /\ chain[p] # <<>> /\ Head(chain[p]) # "valid" /\ Head(chain[p]) = k[1]
    BY <1>1, <1>2, <1>3, KeyFacts DEF TurnOf, TypeOK
  <1>5. found' \in [Procs -> BucketKeys \cup {NoBucket}] /\ \A o \in Procs : o # p => found'[o] = found[o]
    BY <1>1, <1>2 DEF TypeOK
  <1>6. CASE ~Enough(buckets[k])
    <2>1. Finish(p) /\ UNCHANGED <<buckets, spent, charged>> BY <1>6 DEF Spend
    <2>2. charged' \in [Procs -> SUBSET Limiters] BY <1>1, <2>1 DEF TypeOK
    <2>3. \A o \in Procs : o # p => chain'[o] = chain[o] /\ call'[o] = call[o]
      BY <1>1, <2>1 DEF TypeOK, Finish
    <2> QED BY <1>1, <1>2, <1>5, <2>1, <2>2, <2>3, FinishedInTurn, TurnStep
  <1>7. CASE Enough(buckets[k])
    <2>1. /\ buckets' = [buckets EXCEPT ![k] = @ - Unit]
          /\ spent' = Put(spent, k, Append(At(spent, k, <<>>), now))
          /\ charged' = [charged EXCEPT ![p] = @ \cup {k[1]}]
          /\ chain' = [chain EXCEPT ![p] = Tail(@)]
          /\ call' = call
      BY <1>7 DEF Spend
    <2>2. buckets[k] >= Unit BY <1>7 DEF Enough
    <2>3. WithinBudget' /\ RateHolds' /\ TypeOK!2' /\ TypeOK!3' /\ TypeOK!4' /\ TypeOK!5'
      BY <1>1, <1>2, <1>4, <2>1, <2>2, SpendBudget
    <2>4. /\ charged' \in [Procs -> SUBSET Limiters]
          /\ charged'[p] = (charged[p] \cup {Head(chain[p])}) \ {"valid"}
          /\ \A o \in Procs : o # p => charged'[o] = charged[o] /\ chain'[o] = chain[o]
      <3>1. "valid" \notin Limiters BY DEF Limiters
      <3>2. charged[p] \subseteq Limiters BY <1>1 DEF TypeOK
      <3>3. charged'[p] = charged[p] \cup {k[1]} /\ charged' \in [Procs -> SUBSET Limiters]
        <4>1. charged \in [Procs -> SUBSET Limiters] /\ charged[p] \cup {k[1]} \in SUBSET Limiters
          BY <1>1, <1>4, <3>2 DEF TypeOK
        <4> HIDE DEF k
        <4> QED BY <2>1, <4>1
      <3> QED BY <1>1, <1>4, <2>1, <3>1, <3>2, <3>3 DEF TypeOK
    <2>5. TurnOf(p)' /\ chain' \in [Procs -> Seq(Limiters \cup {"valid"})]
      BY <1>1, <1>2, <1>3, <1>4, <2>1, <2>4, AdvanceInTurn
    <2>6. DOMAIN buckets' = DOMAIN buckets BY <2>1
    <2>7. \A o \in Procs : o # p => TurnOf(o)'
      BY <1>1, <1>5, <2>1, <2>4, <2>6, InTurnOf, OthersKeepTurn
    <2>8. TypeOK' BY <1>1, <1>2, <1>5, <2>1, <2>3, <2>4, <2>5 DEF TypeOK
    <2> QED BY <2>3, <2>5, <2>7, <2>8, InTurnOfNext DEF IInv
  <1> QED BY <1>6, <1>7

\* Every step preserves the invariant.
LEMMA NextPreserves == ASSUME Configured, IInv, [Next]_vars PROVE IInv'
  <1>1. CASE Tick BY <1>1, TickPreserves
  <1>2. CASE \E p \in Procs, c \in Calls : Receive(p, c) BY <1>2, ReceivePreserves
  <1>3. CASE \E p \in Procs : Step(p)
    BY <1>3, LookupPreserves, SpendPreserves, ValidatePreserves, AdmittedPreserves DEF Step
  <1>4. CASE UNCHANGED vars
    BY <1>4 DEF vars, IInv, TypeOK, WithinBudget, InTurn, RateHolds
  <1> QED BY <1>1, <1>2, <1>3, <1>4 DEF Next

\* The inductive invariant holds of every limiter the server can be configured with.
THEOREM Invariance == ASSUME Configured PROVE Spec => []IInv
  <1>1. Init => IInv BY InitEstablishes
  <1>2. IInv /\ [Next]_vars => IInv' BY NextPreserves
  <1> QED BY <1>1, <1>2, PTL DEF Spec

\* In every window between two requests of a key that were let through there are
\* no more of them than its burst and the refill of that time pay for
\* (Limiter.Allow), for any rate and burst and any number of goroutines,
\* although finding a bucket and spending from it are two critical sections.
THEOREM RateIsKept == ASSUME Configured PROVE Spec => []RateHolds
  <1>1. IInv => RateHolds BY DEF IInv
  <1> QED BY <1>1, Invariance, PTL

\* Every request is charged in the order of its endpoint's checks, and nothing is
\* charged to a project or an installation for a request that is not valid.
THEOREM ChargesInTurn == ASSUME Configured PROVE Spec => []ChargedInTurn
  <1>1. IInv => ChargedInTurn
    <2> SUFFICES ASSUME IInv, NEW p \in Procs, call[p] # None
                 PROVE  LET order == Checks[call[p].kind]
                            done  == SubSeq(order, 1, Len(order) - Len(chain[p]))
                        IN  /\ charged[p] = ToSet(done) \ {"valid"}
                            /\ charged[p] \cap {"regProject", "ingestProject", "ingestInstall"} # {} => call[p].valid
      BY DEF ChargedInTurn
    <2> DEFINE kind == call[p].kind
               order == Checks[kind]
    <2>1. call[p] \in Calls /\ kind \in Kinds BY KindsOfCalls DEF IInv, TypeOK
    <2>2. order \in Seq(Limiters \cup {"valid"})
          /\ \A i \in 1..Len(order) :
                order[i] \in {"regProject", "ingestProject", "ingestInstall"} => 2 < i /\ order[2] = "valid"
      BY <2>1, ChecksFacts
    <2>3. PICK n \in 0..Len(order) :
            /\ chain[p] = SubSeq(order, n + 1, Len(order))
            /\ charged[p] = Paid(kind, n)
            /\ (\E i \in 1..n : order[i] = "valid") => call[p].valid
      BY DEF IInv, InTurn
    <2>4. charged[p] = {order[i] : i \in 1..n} \ {"valid"} BY <2>3 DEF Paid
    <2> HIDE DEF order, kind
    <2>5. Len(chain[p]) = Len(order) - n /\ n \in Nat /\ Len(order) \in Nat /\ n <= Len(order)
      BY <2>2, <2>3, RestOfChain, LenProperties
    <2>6. Len(order) - Len(chain[p]) = n BY <2>5
    <2> DEFINE done == SubSeq(order, 1, n)
    <2>7. /\ done \in Seq(Limiters \cup {"valid"}) /\ Len(done) = n
          /\ \A i \in 1..n : done[i] = order[i]
      <3>1. \A i \in 1..n : order[i] \in Limiters \cup {"valid"} BY <2>2, <2>5, ElementOfSeq
      <3> QED BY <2>5, <3>1, SubSeqProperties
    <2>8. DOMAIN done = 1..n BY <2>7, LenProperties
    <2> HIDE DEF done
    <2>9. ToSet(done) = {order[i] : i \in 1..n} BY <2>7, <2>8 DEF ToSet
    <2>10. charged[p] \cap {"regProject", "ingestProject", "ingestInstall"} # {} => call[p].valid
      <3> SUFFICES ASSUME NEW x \in charged[p], x \in {"regProject", "ingestProject", "ingestInstall"}
                   PROVE  call[p].valid
        OBVIOUS
      <3>1. PICK i \in 1..n : order[i] = x BY <2>4
      <3>2. 2 \in 1..n /\ order[2] = "valid" BY <2>2, <2>5, <3>1
      <3> QED BY <2>3, <3>2
    <2> QED BY <2>4, <2>6, <2>9, <2>10 DEF order, kind, done
  <1> QED BY <1>1, Invariance, PTL

-----------------------------------------------------------------------------
(* Migrations.                                                               *)

\* What Migrations counts and lists is what this module counts and lists.
LEMMA SchemaSets ==
    /\ \A S : Schema!IsFiniteSet(S) <=> IsFiniteSet(S)
    /\ \A S : Schema!Cardinality(S) = Cardinality(S)
    /\ \A s : Schema!ToSet(s) = ToSet(s)
  <1>1. ASSUME NEW S PROVE Schema!IsFiniteSet(S) <=> IsFiniteSet(S)
    BY Zenon DEF Schema!IsFiniteSet, IsFiniteSet
  <1>2. ASSUME NEW S PROVE Schema!Cardinality(S) = Cardinality(S)
    BY Zenon DEF Schema!Cardinality, Cardinality
  <1>3. ASSUME NEW s PROVE Schema!ToSet(s) = ToSet(s) BY DEF Schema!ToSet, ToSet
  <1> QED BY <1>1, <1>2, <1>3

\* Migrations' promise is the promise of SchemaPromise.
LEMMA SchemaPromises == Schema!RecordedIffEffective <=> RecordedIffEffective
  BY SchemaSets DEF Schema!RecordedIffEffective, RecordedIffEffective

\* One file more takes effect.
LEMMA EffectsOfOneMore ==
    ASSUME NEW S, NEW s \in Seq(S), NEW f
    PROVE  /\ Append(s, f) \in Seq(S \cup {f}) /\ Len(Append(s, f)) = Len(s) + 1
           /\ ToSet(Append(s, f)) = ToSet(s) \cup {f}
  <1>1. s \in Seq(S \cup {f}) BY SeqMonotonic
  <1>2. /\ Append(s, f) \in Seq(S \cup {f}) /\ Len(Append(s, f)) = Len(s) + 1
        /\ \A i \in 1..Len(s) : Append(s, f)[i] = s[i]
        /\ Append(s, f)[Len(s) + 1] = f
    BY <1>1, AppendProperties
  <1>3. Len(s) \in Nat /\ DOMAIN s = 1..Len(s) /\ DOMAIN Append(s, f) = 1..(Len(s) + 1)
    BY <1>1, <1>2, LenProperties
  <1> DEFINE t == Append(s, f)
             n == Len(s)
  <1>4. {t[i] : i \in 1..(n + 1)} = {s[i] : i \in 1..n} \cup {f}
    <2> HIDE DEF t, n
    <2>1. n \in Nat /\ (\A i \in 1..n : t[i] = s[i]) /\ t[n + 1] = f BY <1>2, <1>3 DEF t, n
    <2>2. 1..(n + 1) = 1..n \cup {n + 1} BY <2>1
    <2> QED BY <2>1, <2>2
  <1> QED BY <1>2, <1>3, <1>4 DEF ToSet

\* The only step that records a version commits its effect with it, and does so
\* once: the key refuses a second time.
LEMMA SchemaPreserves ==
    ASSUME Schema!IInv, [Schema!Next]_(Schema!vars)
    PROVE  Schema!IInv'
  <1>1. CASE UNCHANGED <<recorded, effects>>
    BY <1>1 DEF Schema!IInv, Schema!RecordedIffEffective, ToSet
  <1>2. ASSUME NEW f, f \notin recorded, recorded' = recorded \cup {f}, effects' = Append(effects, f)
        PROVE  Schema!IInv'
    <2>1. IsFiniteSet(recorded) /\ effects \in Seq(recorded) BY SchemaSets DEF Schema!IInv
    <2>2. ToSet(effects) = recorded /\ Len(effects) = Cardinality(recorded)
      BY SchemaSets DEF Schema!IInv, Schema!RecordedIffEffective
    <2>3. IsFiniteSet(recorded') /\ Cardinality(recorded') = Cardinality(recorded) + 1
      BY <1>2, <2>1, FS_AddElement
    <2>4. /\ effects' \in Seq(recorded') /\ Len(effects') = Len(effects) + 1
          /\ ToSet(Append(effects, f)) = recorded \cup {f}
      BY <1>2, <2>1, <2>2, EffectsOfOneMore
    <2>5. Schema!RecordedIffEffective'
      BY <1>2, <2>2, <2>3, <2>4, SchemaSets DEF Schema!RecordedIffEffective
    <2> QED BY <2>3, <2>4, <2>5, SchemaSets DEF Schema!IInv
  <1>3. ASSUME NEW r \in Runners, Schema!Record(r) PROVE Schema!IInv'
    BY <1>1, <1>2, <1>3 DEF Schema!Record
  <1>4. ASSUME NEW f, Schema!Release(f) PROVE Schema!IInv' BY <1>1, <1>4 DEF Schema!Release
  <1>5. ASSUME NEW r \in Runners,
               Schema!Begin(r) \/ Schema!Execute(r) \/ Schema!Done(r) \/ Schema!Fail(r)
        PROVE  Schema!IInv'
    BY <1>1, <1>5 DEF Schema!Begin, Schema!Execute, Schema!Done, Schema!Fail
  <1>6. CASE UNCHANGED Schema!vars BY <1>1, <1>6 DEF Schema!vars
  <1> QED BY <1>3, <1>4, <1>5, <1>6 DEF Schema!Next, Schema!Work

\* A file took effect exactly once if it is recorded and not at all if not, however
\* many deploys overlap and wherever each of them dies.
THEOREM EachFileOnce == Schema!Spec => []RecordedIffEffective
  <1>1. Schema!Init => Schema!IInv
    <2>1. SUFFICES ASSUME Schema!Init PROVE Schema!IInv OBVIOUS
    <2>2. recorded = {} /\ effects = <<>> BY <2>1 DEF Schema!Init
    <2>3. IsFiniteSet(recorded) /\ Cardinality(recorded) = 0 BY <2>2, FS_EmptySet
    <2>4. effects \in Seq(recorded) /\ Len(effects) = 0 /\ DOMAIN effects = {} BY <2>2
    <2> QED BY <2>2, <2>3, <2>4, SchemaSets DEF Schema!IInv, Schema!RecordedIffEffective, ToSet
  <1>2. Schema!IInv /\ [Schema!Next]_(Schema!vars) => Schema!IInv' BY SchemaPreserves
  <1>3. Schema!IInv => RecordedIffEffective
    BY SchemaPromises DEF Schema!IInv
  <1> QED BY <1>1, <1>2, <1>3, PTL DEF Schema!Spec

-----------------------------------------------------------------------------
(* The session that concurrent tool calls share.                             *)

\* McpClient's promise is the promise of LoginPromise.
LEMMA ClientPromises == Client!NoTokenRefusedTwice <=> NoTokenRefusedTwice
  BY DEF Client!NoTokenRefusedTwice, NoTokenRefusedTwice, Client!NoSession, NoSession

\* Types: one case per action.
LEMMA ClientTypes ==
    ASSUME Client!TypeOK, [Client!Next]_(Client!vars)
    PROVE  Client!TypeOK'
  <1> USE DEF Client!TypeOK, Client!goto, Client!return, Client!NoSession
  <1>1. CASE Client!Expire
    <2>1. expired' = expired + 1 /\ expired \in Nat BY <1>1 DEF Client!Expire
    <2>2. expired' \in Nat BY <2>1
    <2> QED BY <1>1, <2>2 DEF Client!Expire
  <1>2. ASSUME NEW c \in Callers, Client!Call(c) PROVE Client!TypeOK' BY <1>2 DEF Client!Call
  <1>3. ASSUME NEW c \in Callers, Client!ReadSession(c) PROVE Client!TypeOK'
    <2>1. (IF session = Client!NoSession THEN "login" ELSE "get") \in {"login", "get"} OBVIOUS
    <2> QED BY <1>3, <2>1 DEF Client!ReadSession
  <1>4. ASSUME NEW c \in Callers, Client!Login(c) PROVE Client!TypeOK'
    <2>1. issued \in Nat /\ issued' = issued + 1 BY <1>4 DEF Client!Login
    <2>2. issued' \in Nat /\ 0..issued \subseteq 0..issued' /\ issued' \in 0..issued' /\ issued' \in 1..issued'
          /\ 1..issued \subseteq 1..issued'
      BY <2>1
    <2>3. live' = live \cup {issued'} /\ token' = [token EXCEPT ![c] = issued'] BY <1>4 DEF Client!Login
    <2>4. live' \subseteq 1..issued' /\ token' \in [Callers -> 0..issued'] BY <2>2, <2>3
    <2> QED BY <1>4, <2>2, <2>4 DEF Client!Login
  <1>5. ASSUME NEW c \in Callers, Client!StoreSession(c) PROVE Client!TypeOK' BY <1>5 DEF Client!StoreSession
  <1>6. ASSUME NEW c \in Callers, Client!RereadSession(c) PROVE Client!TypeOK' BY <1>6 DEF Client!RereadSession
  <1>7. ASSUME NEW c \in Callers, Client!Answered(c) PROVE Client!TypeOK' BY <1>7 DEF Client!Answered
  <1>8. ASSUME NEW c \in Callers, Client!Refused(c) PROVE Client!TypeOK'
    <2>1. refused' \in [Callers -> SUBSET (0..issued)] BY <1>8 DEF Client!Refused
    <2>2. pc' \in [Callers -> {"idle", "read", "login", "store", "reread", "get", "clear"}]
          /\ outcome' \in [Callers -> {"none", "ok", "error", "unauthorized"}]
          /\ mark' \in [Callers -> Nat]
      BY <1>8 DEF Client!Refused
    <2> QED BY <1>8, <2>1, <2>2 DEF Client!Refused
  <1>9. ASSUME NEW c \in Callers, Client!ClearSession(c) PROVE Client!TypeOK' BY <1>9 DEF Client!ClearSession
  <1>10. ASSUME NEW c \in Callers, Client!Fail(c) PROVE Client!TypeOK' BY <1>10 DEF Client!Fail
  <1>11. CASE UNCHANGED Client!vars BY <1>11 DEF Client!vars
  <1> QED BY <1>1, <1>2, <1>3, <1>4, <1>5, <1>6, <1>7, <1>8, <1>9, <1>10, <1>11 DEF Client!Next, Client!Step

\* A token that is not stored yet stays unknown: only its caller's own store makes
\* it the session, from which the others read.
LEMMA UnstoredStaysUnknown ==
    ASSUME Client!IInv, [Client!Next]_(Client!vars)
    PROVE  Client!UnstoredIsUnknown'
  <1> USE DEF Client!TypeOK, Client!goto, Client!return, Client!NoSession, Client!UnstoredIsUnknown
  <1>0. Client!TypeOK /\ Client!UnstoredIsUnknown /\ Client!RefusedIsGone BY DEF Client!IInv
  <1>1. CASE Client!Expire BY <1>0, <1>1 DEF Client!Expire
  <1>2. ASSUME NEW c \in Callers, Client!Call(c) PROVE Client!UnstoredIsUnknown'
    BY <1>0, <1>2 DEF Client!Call
  <1>3. ASSUME NEW c \in Callers, Client!ReadSession(c) PROVE Client!UnstoredIsUnknown'
    BY <1>0, <1>3 DEF Client!ReadSession
  <1>4. ASSUME NEW c \in Callers, Client!Login(c) PROVE Client!UnstoredIsUnknown'
    <2>1. issued \in Nat /\ issued' = issued + 1 /\ token' = [token EXCEPT ![c] = issued']
          /\ pc' = [pc EXCEPT ![c] = "store"] /\ UNCHANGED <<session, held, refused>>
      BY <1>0, <1>4 DEF Client!Login
    <2>2. issued' # 0 /\ issued' \notin 0..issued BY <2>1
    <2>3. /\ issued' # session
          /\ \A d \in Callers : issued' # held[d] /\ issued' # token[d] /\ issued' \notin refused[d]
      BY <1>0, <2>2
    <2> QED BY <1>0, <2>1, <2>2, <2>3
  <1>5. ASSUME NEW c \in Callers, Client!StoreSession(c) PROVE Client!UnstoredIsUnknown'
    BY <1>0, <1>5 DEF Client!StoreSession
  <1>6. ASSUME NEW c \in Callers, Client!RereadSession(c) PROVE Client!UnstoredIsUnknown'
    BY <1>0, <1>6 DEF Client!RereadSession
  <1>7. ASSUME NEW c \in Callers, Client!Answered(c) PROVE Client!UnstoredIsUnknown'
    BY <1>0, <1>7 DEF Client!Answered
  <1>8. ASSUME NEW c \in Callers, Client!Refused(c) PROVE Client!UnstoredIsUnknown'
    BY <1>0, <1>8 DEF Client!Refused
  <1>9. ASSUME NEW c \in Callers, Client!ClearSession(c) PROVE Client!UnstoredIsUnknown'
    BY <1>0, <1>9 DEF Client!ClearSession
  <1>10. ASSUME NEW c \in Callers, Client!Fail(c) PROVE Client!UnstoredIsUnknown'
    BY <1>0, <1>10 DEF Client!Fail
  <1>11. CASE UNCHANGED Client!vars BY <1>0, <1>11 DEF Client!vars
  <1> QED BY <1>1, <1>2, <1>3, <1>4, <1>5, <1>6, <1>7, <1>8, <1>9, <1>10, <1>11 DEF Client!Next, Client!Step

\* A refused token is cleared before the second round, and as it was stored before
\* it was read, nobody is about to store it again.
LEMMA RefusedStaysGone ==
    ASSUME Client!IInv, [Client!Next]_(Client!vars)
    PROVE  Client!RefusedIsGone' /\ Client!NoTokenRefusedTwice'
  <1> USE DEF Client!TypeOK, Client!goto, Client!return, Client!NoSession, Client!UnstoredIsUnknown,
              Client!RefusedIsGone, Client!NoTokenRefusedTwice
  <1> DEFINE Goal == Client!RefusedIsGone' /\ Client!NoTokenRefusedTwice'
  <1>0. Client!TypeOK /\ Client!UnstoredIsUnknown /\ Client!RefusedIsGone /\ Client!NoTokenRefusedTwice
    BY DEF Client!IInv
  <1>d. DOMAIN pc = Callers /\ DOMAIN pc' = Callers BY <1>0, ClientTypes
  <1>1. CASE Client!Expire BY <1>0, <1>1 DEF Client!Expire
  <1>2. ASSUME NEW c \in Callers, Client!Call(c) PROVE Goal
    BY <1>0, <1>2 DEF Client!Call
  <1>3. ASSUME NEW c \in Callers, Client!ReadSession(c) PROVE Goal
    BY <1>0, <1>3 DEF Client!ReadSession
  <1>4. ASSUME NEW c \in Callers, Client!Login(c) PROVE Goal
    BY <1>0, <1>4 DEF Client!Login
  <1>5. ASSUME NEW c \in Callers, Client!StoreSession(c) PROVE Goal
    BY <1>0, <1>5 DEF Client!StoreSession
  <1>6. ASSUME NEW c \in Callers, Client!RereadSession(c) PROVE Goal
    BY <1>0, <1>6 DEF Client!RereadSession
  <1>7. ASSUME NEW c \in Callers, Client!Answered(c) PROVE Goal
    BY <1>0, <1>7 DEF Client!Answered
  <1>8. ASSUME NEW c \in Callers, Client!Refused(c) PROVE Goal
    <2>1. /\ pc[c] = "get" /\ UNCHANGED <<session, attempt, held>>
          /\ \A d \in Callers : d # c => pc'[d] = pc[d] /\ refused'[d] = refused[d]
          /\ refused'[c] = refused[c] \cup {held[c]}
      BY <1>0, <1>8 DEF Client!Refused
    <2>2. CASE attempt[c] = 0
      <3>1. pc'[c] = "clear" BY <1>0, <1>8, <2>2 DEF Client!Refused
      <3>2. refused'[c] = {held[c]} BY <1>0, <2>1, <2>2
      <3>3. Client!RefusedIsGone'
        <4> SUFFICES ASSUME NEW d \in Callers
                     PROVE  /\ pc'[d] # "idle" /\ attempt[d] = 0 =>
                                 refused'[d] = IF pc'[d] = "clear" THEN {held[d]} ELSE {}
                            /\ pc'[d] = "clear" => attempt[d] = 0
                            /\ pc'[d] # "idle" /\ attempt[d] = 1 => session \notin refused'[d] \ {0}
          BY <2>1
        <4>1. CASE d = c BY <2>2, <3>1, <3>2, <4>1
        <4>2. CASE d # c BY <1>0, <2>1, <4>2
        <4> QED BY <4>1, <4>2
      <3>4. Client!NoTokenRefusedTwice' BY <1>0, <1>d, <2>1, <3>1
      <3> QED BY <3>3, <3>4
    <2>3. CASE attempt[c] = 1
      <3>1. pc'[c] = "idle" BY <1>0, <1>8, <2>3 DEF Client!Refused
      <3> QED BY <1>0, <1>d, <2>1, <2>3, <3>1
    <2>4. attempt[c] \in {0, 1} BY <1>0
    <2> QED BY <2>2, <2>3, <2>4
  <1>9. ASSUME NEW c \in Callers, Client!ClearSession(c) PROVE Goal
    BY <1>0, <1>9 DEF Client!ClearSession
  <1>10. ASSUME NEW c \in Callers, Client!Fail(c) PROVE Goal
    BY <1>0, <1>10 DEF Client!Fail
  <1>11. CASE UNCHANGED Client!vars BY <1>0, <1>11 DEF Client!vars
  <1> QED BY <1>1, <1>2, <1>3, <1>4, <1>5, <1>6, <1>7, <1>8, <1>9, <1>10, <1>11 DEF Client!Next, Client!Step

\* Whatever other calls store and clear in between, a call does not send a token
\* in its second round that was refused in its first: for any callers, calls and
\* expiries.
THEOREM RefusedTokensAreNotResent == Client!Spec => []NoTokenRefusedTwice
  <1>1. Client!Init => Client!IInv
    BY DEF Client!Init, Client!IInv, Client!TypeOK, Client!UnstoredIsUnknown, Client!RefusedIsGone,
           Client!NoTokenRefusedTwice, Client!NoSession
  <1>2. Client!IInv /\ [Client!Next]_(Client!vars) => Client!IInv'
    BY ClientTypes, UnstoredStaysUnknown, RefusedStaysGone DEF Client!IInv
  <1>3. Client!IInv => NoTokenRefusedTwice BY ClientPromises DEF Client!IInv
  <1> QED BY <1>1, <1>2, <1>3, PTL DEF Client!Spec
=============================================================================
