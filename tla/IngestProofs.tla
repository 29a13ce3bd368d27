---------------------------- MODULE IngestProofs ----------------------------
(***************************************************************************)
(* Proofs about Ingest, for any sets of handlers, installations and events *)
(* and any bounds.                                                         *)
(***************************************************************************)
EXTENDS Ingest, FiniteSetTheorems, WellFoundedInduction, TLAPS

USE DEF ever, counted

\* The minimum of a non-empty set of effective times is one of them.
LEMMA MinTimeIsMember ==
    ASSUME NEW S \in SUBSET Nat, S # {}
    PROVE  MinTime(S) \in S
  <1>1. PICK x \in S : \A y \in S : ~(<<y, x>> \in OpToRel(<, Nat))
    BY WFMin, NatLessThanWellFounded
  <1>2. \A y \in S : ~(y < x) BY <1>1 DEF OpToRel
  <1>3. \A y \in S : x <= y BY <1>2
  <1> QED BY <1>3 DEF MinTime

\* Elements of the tail, the head and an extension of a batch.
LEMMA TailElements ==
    ASSUME NEW s \in Seq(Events), s # <<>>
    PROVE  /\ Head(s) = s[1] /\ 1 \in 1..Len(s) /\ Head(s) \in Events /\ Tail(s) \in Seq(Events)
           /\ \A k \in 1..Len(Tail(s)) : k + 1 \in 1..Len(s) /\ Tail(s)[k] = s[k + 1]
  OBVIOUS

\* The elements of a batch with one event appended.
LEMMA AppendElements ==
    ASSUME NEW s \in Seq(Events), NEW e \in Events
    PROVE  /\ Append(s, e) \in Seq(Events)
           /\ \A k \in 1..Len(Append(s, e)) :
                 \/ k \in 1..Len(s) /\ Append(s, e)[k] = s[k]
                 \/ Append(s, e)[k] = e
  OBVIOUS

\* Counting a set of events once more adds it to the events counted.
LEMMA BumpCounts ==
    ASSUME NEW f \in [Events -> Nat], NEW S \in SUBSET Events
    PROVE  /\ Bump(f, S) \in [Events -> Nat]
           /\ {e \in Events : Bump(f, S)[e] > 0} = {e \in Events : f[e] > 0} \cup S
  BY DEF Bump

\* A resting handler satisfies what is asked of every handler.
LEMMA IdleHandlerIsGood ==
    IdleHandler \in HandlerType /\ HandlerInv(IdleHandler)
  <1>1. IdleHandler \in HandlerType
    BY DEF IdleHandler, HandlerType, Stages
  <1>2. HandlerInv(IdleHandler)
    BY DEF IdleHandler, HandlerInv, Owned, Declares, InTx
  <1> QED BY <1>1, <1>2

\* The parts of the invariant that no handler's local state touches.
LEMMA StaticParts ==
    ASSUME CoreInv, UNCHANGED rest, faults' \in Nat, hs' \in [Handlers -> HandlerType]
    PROVE  TypeOK' /\ SweepInv' /\ TablesInv' /\ NoOrphans' /\ ActivationComplete' /\ AckedIsDurable'
  <1> USE DEF CoreInv, rest, project, installs, tables, clients
  <1>1. TypeOK' BY DEF TypeOK
  <1>2. SweepInv' BY DEF SweepInv, References
  <1>3. TablesInv' BY DEF TablesInv
  <1>4. NoOrphans' BY DEF NoOrphans
  <1>5. ActivationComplete' BY DEF ActivationComplete
  <1>6. AckedIsDurable' BY DEF AckedIsDurable
  <1> QED BY <1>1, <1>2, <1>3, <1>4, <1>5, <1>6

\* A handler's step that changes its local state only.
LEMMA HandlerStep ==
    ASSUME CoreInv, NEW h \in Handlers, NEW q \in HandlerType, Set(h, q),
           UNCHANGED rest, faults' \in Nat, HandlerInv(q),
           q.pc \in InTx => \A o \in Others(h) : \A e \in q.fresh : ~Claims(o, e)
    PROVE  CoreInv'
  <1>0. hs \in [Handlers -> HandlerType] BY DEF CoreInv, TypeOK
  <1>1. /\ hs' \in [Handlers -> HandlerType] /\ hs'[h] = q
        /\ \A o \in Handlers : o # h => hs'[o] = hs[o]
    BY <1>0 DEF Set
  <1>2. HandlersInv'
    <2> SUFFICES ASSUME NEW o \in Handlers PROVE HandlerInv(hs[o])'
      BY DEF HandlersInv
    <2>1. UNCHANGED <<registered, sweep, events, catalog, stored, tally, noted>>
      BY DEF rest, installs, tables
    <2>2. CASE o = h
      BY <1>1, <2>1, <2>2 DEF HandlerInv, Owned, Declares
    <2>3. CASE o # h
      <3>1. hs'[o] = hs[o] /\ HandlerInv(hs[o]) BY <1>1, <2>3 DEF CoreInv, HandlersInv
      <3> QED BY <2>1, <3>1 DEF HandlerInv, Owned, Declares
    <2> QED BY <2>2, <2>3
  <1>3. ClaimsDisjoint'
    BY <1>1 DEF CoreInv, ClaimsDisjoint, Claims, Others
  <1> QED BY <1>1, <1>2, <1>3, StaticParts DEF CoreInv

\* An answer other than 200 gives up everything the request had done.
LEMMA RefusePreserves ==
    ASSUME CoreInv, NEW h \in Handlers, NEW c \in Codes, Refuse(h, c), hs[h].pc # "idle",
           UNCHANGED rest, faults' \in Nat
    PROVE  CoreInv'
  <1> DEFINE q == [hs[h] EXCEPT !.pc = "done", !.code = c, !.fresh = {}, !.duplicates = {},
                                !.rejected = {}, !.names = {}, !.row = "none"]
  <1>0. hs[h] \in HandlerType /\ HandlerInv(hs[h])
    BY DEF CoreInv, TypeOK, HandlersInv
  <1>1. q \in HandlerType BY <1>0 DEF HandlerType, Stages, Codes
  <1>2. /\ q.pc = "done" /\ q.install = hs[h].install /\ q.todo = hs[h].todo
        /\ q.prepared = hs[h].prepared /\ q.fresh = {} /\ q.duplicates = {}
        /\ q.rejected = {} /\ q.names = {} /\ q.row = "none"
    BY <1>0 DEF HandlerType
  <1>3. Set(h, q) BY DEF Refuse
  <1> HIDE DEF q
  <1>4. HandlerInv(q) BY <1>0, <1>2 DEF HandlerInv, Owned, InTx
  <1> QED BY <1>1, <1>2, <1>3, <1>4, HandlerStep DEF InTx

\* Admission and authorization change the stage, and remember strict_catalog.
LEMMA AdmitPreserves ==
    ASSUME CoreInv, NEW h \in Handlers, AdmitBatch(h) \/ LimitBatch(h) \/ AuthorizeBatch(h)
    PROVE  CoreInv'
  <1>0. /\ hs[h] \in HandlerType /\ HandlerInv(hs[h]) /\ faults \in Nat
        /\ strictCatalog \in BOOLEAN
    BY DEF CoreInv, TypeOK, HandlersInv
  <1>1. UNCHANGED rest /\ faults' \in Nat /\ hs[h].pc \in {"admit", "authorize"}
    BY <1>0 DEF AdmitBatch, LimitBatch, AuthorizeBatch, Disturb
  <1>2. CASE \E c \in Codes : Refuse(h, c) BY <1>1, <1>2, RefusePreserves
  <1>3. ASSUME NEW p \in {"authorize", "prepare"}, NEW b \in BOOLEAN, hs[h].prepared = <<>>,
               Set(h, [hs[h] EXCEPT !.pc = p, !.strict = b])
        PROVE  CoreInv'
    <2> DEFINE q == [hs[h] EXCEPT !.pc = p, !.strict = b]
    <2>1. q \in HandlerType BY <1>0 DEF HandlerType, Stages
    <2>2. /\ q.pc = p /\ q.install = hs[h].install /\ q.todo = hs[h].todo
          /\ q.prepared = hs[h].prepared /\ q.fresh = hs[h].fresh
          /\ q.duplicates = hs[h].duplicates
          /\ q.rejected = hs[h].rejected /\ q.names = hs[h].names /\ q.row = hs[h].row
      BY <1>0 DEF HandlerType
    <2>3. Set(h, q) BY <1>3
    <2> HIDE DEF q
    <2>4. HandlerInv(q) BY <1>0, <1>1, <1>3, <2>2 DEF HandlerInv, Owned, InTx, Declares
    <2> QED BY <1>1, <2>1, <2>2, <2>3, <2>4, HandlerStep DEF InTx
  <1>4. hs[h].prepared = <<>> BY <1>0, <1>1 DEF HandlerInv
  <1>5. CASE Set(h, [hs[h] EXCEPT !.pc = "authorize"])
    <2>1. hs[h].strict \in BOOLEAN
          /\ [hs[h] EXCEPT !.pc = "authorize"]
               = [hs[h] EXCEPT !.pc = "authorize", !.strict = hs[h].strict]
      BY <1>0 DEF HandlerType
    <2> QED BY <1>3, <1>4, <1>5, <2>1
  <1>6. CASE Set(h, [hs[h] EXCEPT !.pc = "prepare", !.strict = strictCatalog])
    BY <1>0, <1>3, <1>4, <1>6
  <1> QED BY <1>2, <1>5, <1>6 DEF AdmitBatch, LimitBatch, AuthorizeBatch, Codes

\* prepareEvent keeps the prepared events those of the sender, and declared
\* where the project is strict.
LEMMA PreparePreserves ==
    ASSUME CoreInv, NEW h \in Handlers, PrepareEvent(h)
    PROVE  CoreInv'
  <1> DEFINE e == Head(hs[h].todo)
             r == [hs[h] EXCEPT !.todo = Tail(@), !.rejected = @ \cup {e}]
             p == [hs[h] EXCEPT !.todo = Tail(@), !.prepared = Append(@, e)]
  <1>0. /\ hs[h] \in HandlerType /\ HandlerInv(hs[h]) /\ faults \in Nat
        /\ hs[h].pc = "prepare" /\ hs[h].todo # <<>>
        /\ UNCHANGED rest /\ UNCHANGED faults
    BY DEF CoreInv, TypeOK, HandlersInv, PrepareEvent
  <1>1. /\ hs[h].todo \in Seq(Events) /\ hs[h].prepared \in Seq(Events)
        /\ e \in Events /\ Tail(hs[h].todo) \in Seq(Events)
        /\ Append(hs[h].prepared, e) \in Seq(Events)
    BY <1>0 DEF HandlerType
  <1>2. /\ Owner[e] = hs[h].install
        /\ \A k \in 1..Len(Tail(hs[h].todo)) : Owner[Tail(hs[h].todo)[k]] = hs[h].install
        /\ \A k \in 1..Len(Append(hs[h].prepared, e)) :
               Owner[Append(hs[h].prepared, e)[k]] = hs[h].install
    <2>1. Owner[e] = hs[h].install
      BY <1>0, <1>1, TailElements DEF HandlerInv, Owned
    <2>2. \A k \in 1..Len(Tail(hs[h].todo)) : Owner[Tail(hs[h].todo)[k]] = hs[h].install
      BY <1>0, <1>1, TailElements DEF HandlerInv, Owned
    <2>3. \A k \in 1..Len(hs[h].prepared) : Owner[hs[h].prepared[k]] = hs[h].install
      BY <1>0 DEF HandlerInv, Owned
    <2>4. \A k \in 1..Len(Append(hs[h].prepared, e)) :
             Owner[Append(hs[h].prepared, e)[k]] = hs[h].install
      <3> HIDE DEF e
      <3> QED BY <1>1, <2>1, <2>3, AppendElements
    <2> QED BY <2>1, <2>2, <2>4
  <1>3. CASE Rejects(h, e)
    <2>1. r \in HandlerType BY <1>0, <1>1 DEF HandlerType
    <2>2. /\ r.pc = "prepare" /\ r.install = hs[h].install /\ r.todo = Tail(hs[h].todo)
          /\ r.prepared = hs[h].prepared /\ r.fresh = hs[h].fresh
          /\ r.duplicates = hs[h].duplicates /\ r.strict = hs[h].strict
          /\ r.names = hs[h].names /\ r.row = hs[h].row
      BY <1>0 DEF HandlerType
    <2>3. Set(h, r) BY <1>3 DEF PrepareEvent
    <2> HIDE DEF r, e
    <2>4. HandlerInv(r) BY <1>0, <1>2, <2>2 DEF HandlerInv, Owned, InTx
    <2> QED BY <1>0, <2>1, <2>2, <2>3, <2>4, HandlerStep DEF InTx
  <1>4. CASE ~Rejects(h, e)
    <2>1. p \in HandlerType BY <1>0, <1>1 DEF HandlerType
    <2>2. /\ p.pc = "prepare" /\ p.install = hs[h].install /\ p.todo = Tail(hs[h].todo)
          /\ p.prepared = Append(hs[h].prepared, e) /\ p.fresh = hs[h].fresh
          /\ p.duplicates = hs[h].duplicates /\ p.strict = hs[h].strict
          /\ p.names = hs[h].names /\ p.row = hs[h].row
      BY <1>0 DEF HandlerType
    <2>3. Set(h, p) BY <1>4 DEF PrepareEvent
    <2>4. hs[h].strict => Declares(Append(hs[h].prepared, e))
      BY <1>0, <1>1, <1>4 DEF Declares, Rejects, HandlerInv
    <2> HIDE DEF p, e
    <2>5. HandlerInv(p) BY <1>0, <1>2, <2>2, <2>4 DEF HandlerInv, Owned, InTx
    <2> QED BY <1>0, <2>1, <2>2, <2>3, <2>5, HandlerStep DEF InTx
  <1> QED BY <1>3, <1>4

\* Opening the transaction, or skipping it, changes the stage only.
LEMMA PersistPreserves ==
    ASSUME CoreInv, NEW h \in Handlers, PersistBatch(h)
    PROVE  CoreInv'
  <1> DEFINE st == IF hs[h].prepared = <<>> THEN "stats" ELSE "lock"
             q == [hs[h] EXCEPT !.pc = st, !.todo = hs[h].prepared]
  <1>0. /\ hs[h] \in HandlerType /\ HandlerInv(hs[h]) /\ faults \in Nat
        /\ hs[h].pc = "prepare" /\ UNCHANGED rest /\ UNCHANGED faults
    BY DEF CoreInv, TypeOK, HandlersInv, PersistBatch
  <1>1. q \in HandlerType BY <1>0 DEF HandlerType, Stages
  <1>2. /\ q.pc \in {"stats", "lock"} /\ q.install = hs[h].install
        /\ q.todo = hs[h].prepared /\ q.prepared = hs[h].prepared
        /\ q.fresh = hs[h].fresh /\ q.duplicates = hs[h].duplicates
        /\ q.strict = hs[h].strict /\ q.names = hs[h].names /\ q.row = hs[h].row
    BY <1>0 DEF HandlerType
  <1>3. Set(h, q) BY DEF PersistBatch
  <1> HIDE DEF q
  <1>4. HandlerInv(q) BY <1>0, <1>2 DEF HandlerInv, Owned, InTx, Declares
  <1> QED BY <1>0, <1>1, <1>2, <1>3, <1>4, HandlerStep DEF InTx

\* The first row lock: taken only on a row that the sweep has not deleted.
LEMMA LockPreserves ==
    ASSUME CoreInv, NEW h \in Handlers, UpdateBatchInstallation(h)
    PROVE  CoreInv'
  <1> DEFINE rw == IF hs[h].install \in registered THEN "update" ELSE "none"
             q == [hs[h] EXCEPT !.pc = "insert", !.row = rw]
  <1>0. /\ hs[h] \in HandlerType /\ HandlerInv(hs[h]) /\ faults \in Nat
        /\ hs[h].pc = "lock" /\ UNCHANGED rest /\ UNCHANGED faults
        /\ hs[h].install \in registered => hs[h].install \notin sweep.deleted
    BY DEF CoreInv, TypeOK, HandlersInv, UpdateBatchInstallation
  <1>1. q \in HandlerType BY <1>0 DEF HandlerType, Stages
  <1>2. /\ q.pc = "insert" /\ q.install = hs[h].install
        /\ q.todo = hs[h].todo /\ q.prepared = hs[h].prepared
        /\ q.fresh = hs[h].fresh /\ q.duplicates = hs[h].duplicates
        /\ q.strict = hs[h].strict /\ q.names = hs[h].names /\ q.row = rw
    BY <1>0 DEF HandlerType
  <1>3. Set(h, q) BY DEF UpdateBatchInstallation
  <1> HIDE DEF q
  <1>4. HandlerInv(q) BY <1>0, <1>2 DEF HandlerInv, Owned, InTx, Declares
  <1>5. q.fresh = {} BY <1>0, <1>2 DEF HandlerInv
  <1> QED BY <1>0, <1>1, <1>2, <1>3, <1>4, <1>5, HandlerStep

\* What an open transaction claims stays claimed by it alone.
LEMMA OwnClaims ==
    ASSUME CoreInv, NEW h \in Handlers, hs[h].pc \in InTx
    PROVE  \A o \in Others(h) : \A e \in hs[h].fresh : ~Claims(o, e)
  <1>1. hs[h].fresh \subseteq Events BY DEF CoreInv, TypeOK, HandlerType
  <1> QED BY <1>1 DEF CoreInv, ClaimsDisjoint, Claims, Others

\* A duplicate joins the answer of its request, and was stored before.
LEMMA InsertDuplicatePreserves ==
    ASSUME CoreInv, NEW h \in Handlers, InsertDuplicate(h)
    PROVE  CoreInv'
  <1> DEFINE e == Head(hs[h].todo)
             q == [hs[h] EXCEPT !.todo = Tail(@), !.duplicates = @ \cup {e}]
  <1>0. /\ hs[h] \in HandlerType /\ HandlerInv(hs[h]) /\ faults \in Nat
        /\ hs[h].pc = "insert" /\ hs[h].todo # <<>> /\ e \in events
        /\ UNCHANGED rest /\ UNCHANGED faults /\ events \subseteq ever
    BY DEF CoreInv, TypeOK, HandlersInv, InsertDuplicate, TablesInv
  <1>1. hs[h].todo \in Seq(Events) /\ e \in Events /\ Tail(hs[h].todo) \in Seq(Events)
    BY <1>0, TailElements DEF HandlerType
  <1>2. q \in HandlerType BY <1>0, <1>1 DEF HandlerType
  <1>3. /\ q.pc = "insert" /\ q.install = hs[h].install
        /\ q.todo = Tail(hs[h].todo) /\ q.prepared = hs[h].prepared
        /\ q.fresh = hs[h].fresh /\ q.duplicates = hs[h].duplicates \cup {e}
        /\ q.strict = hs[h].strict /\ q.names = hs[h].names /\ q.row = hs[h].row
    BY <1>0 DEF HandlerType
  <1>4. Set(h, q) BY DEF InsertDuplicate
  <1>5. /\ Owned(hs[h], Tail(hs[h].todo))
        /\ Declares(hs[h].todo) => Declares(Tail(hs[h].todo))
    BY <1>0, <1>1, TailElements DEF HandlerInv, Owned, Declares
  <1> HIDE DEF q, e
  <1>6. HandlerInv(q) BY <1>0, <1>3, <1>5 DEF HandlerInv, Owned, InTx
  <1>7. \A o \in Others(h) : \A x \in q.fresh : ~Claims(o, x)
    BY <1>0, <1>3, OwnClaims DEF InTx
  <1> QED BY <1>0, <1>2, <1>4, <1>6, <1>7, HandlerStep

\* A new event is claimed by nobody else, and its foreign key holds the row.
LEMMA InsertPreserves ==
    ASSUME CoreInv, NEW h \in Handlers, InsertPreparedEvent(h)
    PROVE  CoreInv'
  <1> DEFINE e == Head(hs[h].todo)
             upsert == e \in Product /\ ~hs[h].strict
             p == IF upsert THEN "catalog" ELSE "insert"
             t == IF upsert THEN hs[h].todo ELSE Tail(hs[h].todo)
             w == IF hs[h].row = "none" THEN "share" ELSE hs[h].row
             q == [hs[h] EXCEPT !.pc = p, !.todo = t, !.fresh = hs[h].fresh \cup {e}, !.row = w]
  <1>0. /\ hs[h] \in HandlerType /\ HandlerInv(hs[h]) /\ faults \in Nat
        /\ hs[h].pc = "insert" /\ hs[h].todo # <<>> /\ e \notin events
        /\ UNCHANGED rest /\ UNCHANGED faults
        /\ hs[h].install \in registered /\ hs[h].install \notin sweep.deleted
        /\ \A o \in Others(h) : ~Claims(o, e)
    BY DEF CoreInv, TypeOK, HandlersInv, InsertPreparedEvent
  <1>1. hs[h].todo \in Seq(Events) /\ e \in Events /\ Tail(hs[h].todo) \in Seq(Events)
    BY <1>0, TailElements DEF HandlerType
  <1>2. q \in HandlerType
    <2>1. p \in Stages /\ t \in Seq(Events) /\ w \in {"none", "share", "update"}
      BY <1>0, <1>1 DEF HandlerType, Stages
    <2>2. hs[h].fresh \cup {e} \in SUBSET Events BY <1>0, <1>1 DEF HandlerType
    <2> HIDE DEF p, t, w, e
    <2> QED BY <1>0, <2>1, <2>2 DEF HandlerType
  <1>3. /\ q.pc = p /\ q.install = hs[h].install
        /\ q.todo = t /\ q.prepared = hs[h].prepared
        /\ q.fresh = hs[h].fresh \cup {e} /\ q.duplicates = hs[h].duplicates
        /\ q.strict = hs[h].strict /\ q.names = hs[h].names /\ q.row = w
    <2> HIDE DEF p, t, w, e
    <2> QED BY <1>0 DEF HandlerType
  <1>4. Set(h, q)
    <2>1. Set(h, [hs[h] EXCEPT !.pc = p, !.todo = IF upsert THEN @ ELSE Tail(@),
                               !.fresh = @ \cup {e}, !.row = IF @ = "none" THEN "share" ELSE @])
      BY DEF InsertPreparedEvent
    <2> QED BY <2>1
  <1>5. /\ Owned(hs[h], t) /\ Owner[e] = hs[h].install
        /\ Declares(hs[h].todo) => Declares(t) /\ (e \in Product => Name[e] \in catalog)
    BY <1>0, <1>1, TailElements DEF HandlerInv, Owned, Declares
  <1>6. p \in {"insert", "catalog"} /\ (p = "catalog" => t = hs[h].todo /\ ~hs[h].strict)
        /\ (p = "insert" => hs[h].strict \/ e \notin Product)
        /\ (p = "catalog" => Head(t) = e) /\ w # "none"
    BY <1>0 DEF HandlerType
  <1> HIDE DEF q, p, t, w
  <1>7. HandlerInv(q)
    <2> HIDE DEF e
    <2> QED BY <1>0, <1>3, <1>5, <1>6 DEF HandlerInv, Owned, InTx
  <1>8. \A o \in Others(h) : \A x \in q.fresh : ~Claims(o, x)
    BY <1>0, <1>3, OwnClaims DEF InTx
  <1> QED BY <1>0, <1>2, <1>4, <1>7, <1>8, HandlerStep

\* The catalog upsert names what the transaction will declare.
LEMMA TrackPreserves ==
    ASSUME CoreInv, NEW h \in Handlers, TrackProductEvent(h)
    PROVE  CoreInv'
  <1> DEFINE e == Head(hs[h].todo)
             q == [hs[h] EXCEPT !.pc = "insert", !.todo = Tail(@), !.names = @ \cup {Name[e]}]
  <1>0. /\ hs[h] \in HandlerType /\ HandlerInv(hs[h]) /\ faults \in Nat
        /\ hs[h].pc = "catalog" /\ UNCHANGED rest /\ UNCHANGED faults
    BY DEF CoreInv, TypeOK, HandlersInv, TrackProductEvent
  <1>1. /\ hs[h].todo \in Seq(Events) /\ e \in Events /\ Tail(hs[h].todo) \in Seq(Events)
        /\ hs[h].todo # <<>> /\ Name[e] \in Names
    BY <1>0, TailElements DEF HandlerType, HandlerInv, Names
  <1>2. q \in HandlerType BY <1>0, <1>1 DEF HandlerType, Stages
  <1>3. /\ q.pc = "insert" /\ q.install = hs[h].install
        /\ q.todo = Tail(hs[h].todo) /\ q.prepared = hs[h].prepared
        /\ q.fresh = hs[h].fresh /\ q.duplicates = hs[h].duplicates
        /\ q.strict = hs[h].strict /\ q.names = hs[h].names \cup {Name[e]} /\ q.row = hs[h].row
    BY <1>0 DEF HandlerType
  <1>4. Set(h, q) BY DEF TrackProductEvent
  <1>5. /\ Owned(hs[h], Tail(hs[h].todo))
        /\ Declares(hs[h].todo) => Declares(Tail(hs[h].todo))
    BY <1>0, <1>1, TailElements DEF HandlerInv, Owned, Declares
  <1> HIDE DEF q
  <1>6. HandlerInv(q) BY <1>0, <1>3, <1>5 DEF HandlerInv, Owned, InTx
  <1>7. \A o \in Others(h) : \A x \in q.fresh : ~Claims(o, x)
    BY <1>0, <1>3, OwnClaims DEF InTx
  <1> QED BY <1>0, <1>2, <1>4, <1>6, <1>7, HandlerStep

\* Activation keeps the row lock that protects the inserted events.
LEMMA ActivatePreserves ==
    ASSUME CoreInv, NEW h \in Handlers, ActivateInstallation(h)
    PROVE  CoreInv'
  <1> DEFINE w == IF hs[h].fresh = {} THEN hs[h].row ELSE "update"
             q == [hs[h] EXCEPT !.pc = "commit", !.row = w]
  <1>0. /\ hs[h] \in HandlerType /\ HandlerInv(hs[h]) /\ faults \in Nat
        /\ hs[h].pc = "insert" /\ UNCHANGED rest /\ UNCHANGED faults
    BY DEF CoreInv, TypeOK, HandlersInv, ActivateInstallation
  <1>1. q \in HandlerType BY <1>0 DEF HandlerType, Stages
  <1>2. /\ q.pc = "commit" /\ q.install = hs[h].install
        /\ q.todo = hs[h].todo /\ q.prepared = hs[h].prepared
        /\ q.fresh = hs[h].fresh /\ q.duplicates = hs[h].duplicates
        /\ q.strict = hs[h].strict /\ q.names = hs[h].names /\ q.row = w
    BY <1>0 DEF HandlerType
  <1>3. Set(h, q) BY DEF ActivateInstallation
  <1> HIDE DEF q
  <1>4. HandlerInv(q) BY <1>0, <1>2 DEF HandlerInv, Owned, InTx
  <1>5. \A o \in Others(h) : \A x \in q.fresh : ~Claims(o, x)
    BY <1>0, <1>2, OwnClaims DEF InTx
  <1> QED BY <1>0, <1>1, <1>3, <1>4, <1>5, HandlerStep

\* A foreign-key failure and a deadlock abort both answer 500.
LEMMA AbortPreserves ==
    ASSUME CoreInv, NEW h \in Handlers, InsertOrphan(h) \/ AbortDeadlock(h)
    PROVE  CoreInv'
  <1>0. faults \in Nat BY DEF CoreInv, TypeOK
  <1>1. CASE InsertOrphan(h)
    BY <1>0, <1>1, RefusePreserves DEF InsertOrphan, Codes
  <1>2. CASE AbortDeadlock(h)
    <2>1. hs[h].pc # "idle"
      BY <1>2 DEF AbortDeadlock, Cycle, Stuck, WaitsFor
    <2> QED BY <1>0, <1>2, <2>1, RefusePreserves DEF AbortDeadlock, Codes
  <1> QED BY <1>1, <1>2

\* The commit: what was claimed becomes visible, with its installation
\* activated, its names in the catalog, and nobody else's claim disturbed.
LEMMA CommitPreserves ==
    ASSUME CoreInv, NEW h \in Handlers, Commit(h)
    PROVE  CoreInv'
  <1> DEFINE i == hs[h].install
             fresh == hs[h].fresh
             times == {EffectiveAt[e] : e \in fresh \cap Product}
             q == [hs[h] EXCEPT !.pc = "stats", !.names = {}, !.row = "none"]
  <1>0. /\ hs \in [Handlers -> HandlerType] /\ hs[h] \in HandlerType /\ HandlerInv(hs[h])
        /\ hs[h].pc = "commit" /\ i \in Installs /\ fresh \subseteq Events
    BY DEF CoreInv, TypeOK, HandlersInv, Commit, HandlerType, HandlerInv
  <1>1. /\ events' = events \cup fresh /\ stored' = Bump(stored, fresh)
        /\ catalog' = catalog \cup hs[h].names
        /\ activated' = IF fresh = {} THEN activated ELSE activated \cup {i}
        /\ firstProduct' = IF times # {} /\ firstProduct[i] = None
                           THEN [firstProduct EXCEPT ![i] = MinTime(times)] ELSE firstProduct
        /\ hs' = [hs EXCEPT ![h] = q]
        /\ UNCHANGED <<project, registered, aged, oldEvents, tally, noted, sweep, clients, faults>>
    BY DEF Commit, Set
  <1>a. /\ stored' \in [Events -> Nat] /\ ever' = ever \cup fresh
    BY <1>0, <1>1, BumpCounts DEF CoreInv, TypeOK
  <1> HIDE DEF ever
  <1>2. times # {} => MinTime(times) \in Nat
    <2>1. times \subseteq Nat BY <1>0, ConstantsAssumption
    <2> HIDE DEF times
    <2> QED BY <2>1, MinTimeIsMember
  <1>3. q \in HandlerType BY <1>0 DEF HandlerType, Stages
  <1>4. /\ q.pc = "stats" /\ q.install = i /\ q.todo = hs[h].todo
        /\ q.prepared = hs[h].prepared /\ q.fresh = fresh
        /\ q.duplicates = hs[h].duplicates /\ q.strict = hs[h].strict
        /\ q.names = {} /\ q.row = "none"
    BY <1>0 DEF HandlerType
  <1> HIDE DEF q
  <1>5. /\ hs'[h] = q
        /\ \A o \in Handlers : o # h => hs'[o] = hs[o]
    BY <1>0, <1>1
  <1>6. fresh # {} => i \in registered /\ i \notin sweep.deleted
    BY <1>0 DEF HandlerInv, InTx
  <1>7. \A e \in fresh : Owner[e] = i BY <1>0 DEF HandlerInv
  <1>8. \A e \in fresh \cap Product : Name[e] \in catalog'
    BY <1>0, <1>1 DEF HandlerInv, InTx
  <1>9. TypeOK'
    <2>1. hs' \in [Handlers -> HandlerType] BY <1>0, <1>1, <1>3
    <2>2. firstProduct' \in [Installs -> Nat \cup {None}]
      <3> HIDE DEF times
      <3> QED BY <1>0, <1>1, <1>2 DEF CoreInv, TypeOK
    <2>3. catalog' \subseteq Names BY <1>0, <1>1 DEF CoreInv, TypeOK, HandlerType
    <2>4. events' \subseteq Events /\ activated' \subseteq Installs
      BY <1>0, <1>1 DEF CoreInv, TypeOK
    <2> QED BY <1>1, <1>a, <2>1, <2>2, <2>3, <2>4 DEF CoreInv, TypeOK, project, clients
  <1>10. HandlersInv'
    <2> SUFFICES ASSUME NEW o \in Handlers PROVE HandlerInv(hs[o])'
      BY DEF HandlersInv
    <2>1. CASE o = h
      BY <1>0, <1>1, <1>a, <1>4, <1>5, <2>1 DEF HandlerInv, Owned, Declares, InTx
    <2>2. CASE o # h
      <3>1. hs'[o] = hs[o] /\ HandlerInv(hs[o]) BY <1>5, <2>2 DEF CoreInv, HandlersInv
      <3>2. hs[o].pc \in InTx => hs[o].fresh \cap fresh = {}
        BY <1>0, <2>2 DEF CoreInv, ClaimsDisjoint, Claims, InTx
      <3>3. /\ events' = events \cup fresh /\ ever \subseteq ever' /\ catalog \subseteq catalog'
            /\ UNCHANGED <<registered, sweep, tally, noted>>
        BY <1>1, <1>a
      <3> HIDE DEF fresh
      <3> QED BY <3>1, <3>2, <3>3 DEF HandlerInv, Owned, Declares
    <2> QED BY <2>1, <2>2
  <1>11. ClaimsDisjoint'
    BY <1>4, <1>5 DEF CoreInv, ClaimsDisjoint, Claims, InTx
  <1>12. SweepInv'
    BY <1>0, <1>1, <1>6, <1>7 DEF CoreInv, SweepInv, References
  <1>13. TablesInv'
    <2>1. events' \subseteq ever' /\ counted' \subseteq ever' BY <1>1, <1>a DEF CoreInv, TablesInv
    <2>2. activated' \subseteq registered' BY <1>1, <1>6 DEF CoreInv, TablesInv
    <2>3. \A j \in Installs : j \notin registered => firstProduct'[j] = None
      <3>1. times # {} => fresh # {} OBVIOUS
      <3> HIDE DEF times
      <3> QED BY <1>0, <1>1, <1>6, <3>1 DEF CoreInv, TablesInv, TypeOK
    <2> QED BY <1>1, <2>1, <2>2, <2>3 DEF CoreInv, TablesInv, clients
  <1>14. NoOrphans' BY <1>1, <1>6, <1>7 DEF CoreInv, NoOrphans
  <1>15. ActivationComplete'
    <2> SUFFICES ASSUME NEW e \in events'
                 PROVE  /\ Owner[e] \in activated'
                        /\ e \in Product => firstProduct'[Owner[e]] # None /\ Name[e] \in catalog'
      BY DEF ActivationComplete
    <2>0. e \in Events /\ Owner[e] \in Installs
      BY <1>0, <1>1, ConstantsAssumption DEF CoreInv, TypeOK
    <2>1. \A j \in Installs : firstProduct[j] # None => firstProduct'[j] # None
      <3> HIDE DEF times
      <3> QED BY <1>0, <1>1, <1>2, ConstantsAssumption DEF CoreInv, TypeOK
    <2>2. CASE e \in events
      BY <1>1, <2>0, <2>1, <2>2 DEF CoreInv, ActivationComplete
    <2>3. CASE e \in fresh
      <3>1. e \in Product => times # {} BY <2>3
      <3>2. e \in Product => firstProduct'[i] # None
        <4> HIDE DEF times
        <4> QED BY <1>0, <1>1, <1>2, <3>1, ConstantsAssumption DEF CoreInv, TypeOK
      <3> QED BY <1>1, <1>7, <1>8, <2>3, <3>2
    <2> QED BY <1>1, <2>2, <2>3
  <1>16. AckedIsDurable' BY <1>1, <1>a DEF CoreInv, AckedIsDurable, clients
  <1> QED BY <1>9, <1>10, <1>11, <1>12, <1>13, <1>14, <1>15, <1>16 DEF CoreInv

\* After the commit a request writes statistics, and ends with a 200 or a 500.
LEMMA StatsStep ==
    ASSUME CoreInv, NEW h \in Handlers, hs[h].pc # "idle", NEW q \in HandlerType, Set(h, q),
           q.pc \in {"rejections", "done"}, q.install = hs[h].install,
           q.todo = hs[h].todo, q.prepared = hs[h].prepared,
           q.fresh \subseteq hs[h].fresh, q.duplicates \subseteq hs[h].duplicates,
           q.names = {}, q.row = "none",
           q.fresh \subseteq ever, q.fresh \subseteq counted',
           q.pc = "done" => q.rejected \subseteq noted',
           tally' \in [Events -> Nat], counted \subseteq counted', counted' \subseteq ever,
           noted \subseteq noted', noted' \subseteq Events, faults' \in Nat,
           UNCHANGED <<project, installs, events, oldEvents, catalog, sweep, clients, stored>>
    PROVE  CoreInv'
  <1>0. hs \in [Handlers -> HandlerType] /\ HandlerInv(hs[h])
    BY DEF CoreInv, TypeOK, HandlersInv
  <1>1. /\ hs' \in [Handlers -> HandlerType] /\ hs'[h] = q
        /\ \A o \in Handlers : o # h => hs'[o] = hs[o]
    BY <1>0 DEF Set
  <1>2. TypeOK' BY <1>1 DEF CoreInv, TypeOK, project, installs, clients
  <1>3. HandlersInv'
    <2> SUFFICES ASSUME NEW o \in Handlers PROVE HandlerInv(hs[o])'
      BY DEF HandlersInv
    <2>1. UNCHANGED <<registered, sweep, events, catalog, stored>> BY DEF installs
    <2>2. CASE o = h
      BY <1>0, <1>1, <2>1, <2>2 DEF HandlerInv, Owned, Declares, InTx
    <2>3. CASE o # h
      <3>1. hs'[o] = hs[o] /\ HandlerInv(hs[o]) BY <1>1, <2>3 DEF CoreInv, HandlersInv
      <3> QED BY <2>1, <3>1 DEF HandlerInv, Owned, Declares
    <2> QED BY <2>2, <2>3
  <1>4. ClaimsDisjoint' BY <1>1 DEF CoreInv, ClaimsDisjoint, Claims, InTx
  <1>5. SweepInv' BY DEF CoreInv, SweepInv, References, installs
  <1>6. TablesInv' BY DEF CoreInv, TablesInv, installs, clients
  <1>7. NoOrphans' BY DEF CoreInv, NoOrphans, installs
  <1>8. ActivationComplete' BY DEF CoreInv, ActivationComplete, installs
  <1>9. AckedIsDurable' BY DEF CoreInv, AckedIsDurable, clients
  <1> QED BY <1>2, <1>3, <1>4, <1>5, <1>6, <1>7, <1>8, <1>9 DEF CoreInv

\* The statistics are written for events committed before.
LEMMA RecordPreserves ==
    ASSUME CoreInv, NEW h \in Handlers, RecordBatchStats(h) \/ RecordRejectionStats(h)
    PROVE  CoreInv'
  <1>0. /\ hs[h] \in HandlerType /\ HandlerInv(hs[h]) /\ faults \in Nat
        /\ tally \in [Events -> Nat] /\ counted \subseteq ever /\ noted \subseteq Events
        /\ hs[h].pc \in {"stats", "rejections"}
    BY DEF CoreInv, TypeOK, HandlersInv, TablesInv, RecordBatchStats, RecordRejectionStats
  <1>1. /\ hs[h].names = {} /\ hs[h].row = "none" /\ hs[h].fresh \subseteq ever
        /\ hs[h].pc = "rejections" => hs[h].fresh \subseteq counted
        /\ hs[h].rejected \subseteq Events /\ hs[h].fresh \subseteq Events
    BY <1>0 DEF HandlerInv, InTx, HandlerType
  <1>2. CASE RecordBatchStats(h)
    <2> DEFINE q == [hs[h] EXCEPT !.pc = "rejections"]
    <2>1. q \in HandlerType BY <1>0 DEF HandlerType, Stages
    <2>2. /\ q.pc = "rejections" /\ q.install = hs[h].install /\ q.todo = hs[h].todo
          /\ q.prepared = hs[h].prepared /\ q.fresh = hs[h].fresh
          /\ q.duplicates = hs[h].duplicates /\ q.names = {} /\ q.row = "none"
      BY <1>0, <1>1 DEF HandlerType
    <2>3. Set(h, q) BY <1>2 DEF RecordBatchStats
    <2> HIDE DEF q
    <2>4. /\ tally' \in [Events -> Nat] /\ counted' = counted \cup hs[h].fresh
      BY <1>0, <1>1, <1>2, BumpCounts DEF RecordBatchStats
    <2>5. /\ noted' = noted /\ faults' \in Nat
          /\ UNCHANGED <<project, installs, events, oldEvents, catalog, sweep, clients, stored>>
      BY <1>0, <1>2 DEF RecordBatchStats
    <2> HIDE DEF ever, counted
    <2> QED BY <1>0, <1>1, <2>1, <2>2, <2>3, <2>4, <2>5, StatsStep
  <1>3. CASE RecordRejectionStats(h)
    <2> DEFINE q == [hs[h] EXCEPT !.pc = "done", !.code = "ok"]
    <2>1. q \in HandlerType BY <1>0 DEF HandlerType, Stages, Codes
    <2>2. /\ q.pc = "done" /\ q.install = hs[h].install /\ q.todo = hs[h].todo
          /\ q.prepared = hs[h].prepared /\ q.fresh = hs[h].fresh /\ q.rejected = hs[h].rejected
          /\ q.duplicates = hs[h].duplicates /\ q.names = {} /\ q.row = "none"
      BY <1>0, <1>1 DEF HandlerType
    <2>3. Set(h, q) BY <1>3 DEF RecordRejectionStats
    <2> HIDE DEF q
    <2>4. /\ noted' = noted \cup hs[h].rejected /\ tally' = tally /\ faults' \in Nat
          /\ UNCHANGED <<project, installs, events, oldEvents, catalog, sweep, clients, stored>>
          /\ hs[h].pc = "rejections"
      BY <1>0, <1>3 DEF RecordRejectionStats
    <2> QED BY <1>0, <1>1, <2>1, <2>2, <2>3, <2>4, StatsStep
  <1> QED BY <1>2, <1>3

\* A failure keeps what was committed and drops what was not.
LEMMA FailPreserves ==
    ASSUME CoreInv, NEW h \in Handlers, Fail(h)
    PROVE  CoreInv'
  <1> DEFINE q == [hs[h] EXCEPT !.pc = "done", !.code = "failed", !.fresh = {}, !.duplicates = {},
                                !.rejected = {}, !.names = {}, !.row = "none"]
  <1>0. /\ hs[h] \in HandlerType /\ HandlerInv(hs[h]) /\ faults \in Nat
        /\ tally \in [Events -> Nat] /\ counted \subseteq ever /\ noted \subseteq Events
        /\ hs[h].pc # "idle"
    BY DEF CoreInv, TypeOK, HandlersInv, TablesInv, Fail
  <1>1. q \in HandlerType BY <1>0 DEF HandlerType, Stages, Codes
  <1>2. /\ q.pc = "done" /\ q.install = hs[h].install /\ q.todo = hs[h].todo
        /\ q.prepared = hs[h].prepared /\ q.fresh = {} /\ q.rejected = {}
        /\ q.duplicates = {} /\ q.names = {} /\ q.row = "none"
    BY <1>0 DEF HandlerType
  <1>3. Set(h, q) BY DEF Fail, Refuse
  <1> HIDE DEF q
  <1>4. hs[h].pc = "stats" => hs[h].fresh \subseteq ever BY <1>0 DEF HandlerInv
  <1>5. /\ tally' \in [Events -> Nat] /\ counted \subseteq counted' /\ counted' \subseteq ever
    <2>1. hs[h].fresh \subseteq Events BY <1>0 DEF HandlerType
    <2>2. CASE \E S \in SUBSET hs[h].fresh : hs[h].pc = "stats" /\ tally' = Bump(tally, S)
      BY <1>0, <1>4, <2>1, <2>2, BumpCounts
    <2>3. CASE tally' = tally BY <1>0, <2>3
    <2> QED BY <2>2, <2>3 DEF Fail
  <1>6. noted \subseteq noted' /\ noted' \subseteq Events BY <1>0 DEF Fail, HandlerType
  <1>7. /\ faults' \in Nat
        /\ UNCHANGED <<project, installs, events, oldEvents, catalog, sweep, clients, stored>>
    BY <1>0 DEF Fail, Disturb
  <1> QED BY <1>0, <1>1, <1>2, <1>3, <1>5, <1>6, <1>7, StatsStep

(***************************************************************************)
(* Clients.                                                                *)
(***************************************************************************)

\* A client's batch consists of its own events.
LEMMA SendPreserves ==
    ASSUME CoreInv, NEW i \in Installs, NEW h \in Handlers, Send(i, h)
    PROVE  CoreInv'
  <1>1. PICK b \in Batches(i) :
          Set(h, [IdleHandler EXCEPT !.pc = "admit", !.install = i, !.todo = b])
    BY DEF Send
  <1> DEFINE q == [IdleHandler EXCEPT !.pc = "admit", !.install = i, !.todo = b]
  <1>2. PICK n \in 1..MaxBatch : b \in [1..n -> queue[i]] BY DEF Batches
  <1>3. b \in Seq(Events) /\ \A k \in 1..Len(b) : Owner[b[k]] = i
    <2>1. n \in Nat BY ConstantsAssumption
    <2>2. queue[i] \subseteq Events /\ \A e \in queue[i] : Owner[e] = i
      BY DEF CoreInv, TypeOK, TablesInv
    <2>3. b \in [1..n -> Events] BY <1>2, <2>2
    <2>4. b \in Seq(Events) /\ Len(b) = n BY <2>1, <2>3
    <2> QED BY <1>2, <2>2, <2>4
  <1>4. q \in HandlerType BY <1>3, IdleHandlerIsGood DEF HandlerType, Stages
  <1>5. /\ q.pc = "admit" /\ q.install = i /\ q.todo = b /\ q.prepared = <<>>
        /\ q.fresh = {} /\ q.duplicates = {} /\ q.names = {} /\ q.row = "none"
    BY DEF IdleHandler
  <1> HIDE DEF q
  <1>6. HandlerInv(q) BY <1>3, <1>5 DEF HandlerInv, Owned, InTx
  <1>7. /\ hs \in [Handlers -> HandlerType] /\ waiting \in [Installs -> Handlers \cup {None}]
        /\ hs' = [hs EXCEPT ![h] = q]
    BY <1>1 DEF CoreInv, TypeOK, Set, q
  <1>8. /\ hs' \in [Handlers -> HandlerType] /\ hs'[h] = q
        /\ \A o \in Handlers : o # h => hs'[o] = hs[o]
    BY <1>4, <1>7
  <1>9. /\ waiting' = [waiting EXCEPT ![i] = h]
        /\ UNCHANGED <<project, installs, tables, sweep, queue, mode, acked, stored, faults>>
    BY DEF Send
  <1>10. TypeOK' BY <1>7, <1>8, <1>9 DEF CoreInv, TypeOK, project, installs, tables
  <1>11. HandlersInv'
    <2> SUFFICES ASSUME NEW o \in Handlers PROVE HandlerInv(hs[o])'
      BY DEF HandlersInv
    <2>1. UNCHANGED <<registered, sweep, events, catalog, stored, tally, noted>>
      BY <1>9 DEF installs, tables
    <2>2. CASE o = h BY <1>6, <1>8, <2>1, <2>2 DEF HandlerInv, Owned, Declares
    <2>3. CASE o # h
      <3>1. hs'[o] = hs[o] /\ HandlerInv(hs[o]) BY <1>8, <2>3 DEF CoreInv, HandlersInv
      <3> QED BY <2>1, <3>1 DEF HandlerInv, Owned, Declares
    <2> QED BY <2>2, <2>3
  <1>12. ClaimsDisjoint' BY <1>5, <1>8 DEF CoreInv, ClaimsDisjoint, Claims, InTx
  <1>13. SweepInv' BY <1>9 DEF CoreInv, SweepInv, References, installs, tables
  <1>14. TablesInv' BY <1>9 DEF CoreInv, TablesInv, installs, tables
  <1>15. NoOrphans' BY <1>9 DEF CoreInv, NoOrphans, installs, tables
  <1>16. ActivationComplete' BY <1>9 DEF CoreInv, ActivationComplete, installs, tables
  <1>17. AckedIsDurable' BY <1>9 DEF CoreInv, AckedIsDurable, tables
  <1> QED BY <1>10, <1>11, <1>12, <1>13, <1>14, <1>15, <1>16, <1>17 DEF CoreInv

\* The answer frees the handler; a heard 200 moves its events to acked.
LEMMA DeliverPreserves ==
    ASSUME CoreInv, NEW h \in Handlers, Deliver(h)
    PROVE  CoreInv'
  <1> DEFINE i == hs[h].install
  <1>0. /\ hs \in [Handlers -> HandlerType] /\ hs[h] \in HandlerType /\ HandlerInv(hs[h])
        /\ hs[h].pc = "done" /\ i \in Installs
        /\ waiting \in [Installs -> Handlers \cup {None}]
        /\ mode \in [Installs -> {"register", "send"}]
        /\ queue \in [Installs -> SUBSET Events]
    BY DEF CoreInv, TypeOK, HandlersInv, Deliver, HandlerInv
  <1>1. /\ hs' = [hs EXCEPT ![h] = IdleHandler]
        /\ UNCHANGED <<project, installs, tables, sweep, stored, faults>>
    BY DEF Deliver, Set
  <1>2. /\ hs' \in [Handlers -> HandlerType] /\ hs'[h] = IdleHandler
        /\ \A o \in Handlers : o # h => hs'[o] = hs[o]
    BY <1>0, <1>1, IdleHandlerIsGood
  <1>3. Acks(h) \subseteq ever \cup noted /\ Acks(h) \subseteq Events
    BY <1>0 DEF Acks, HandlerInv, HandlerType
  <1>4. /\ waiting' \in [Installs -> Handlers \cup {None}]
        /\ mode' \in [Installs -> {"register", "send"}]
        /\ queue' \in [Installs -> SUBSET Events]
        /\ \A j \in Installs : queue'[j] \subseteq queue[j]
        /\ acked' \subseteq acked \cup Acks(h)
    BY <1>0 DEF Deliver
  <1>5. TypeOK' BY <1>1, <1>2, <1>3, <1>4 DEF CoreInv, TypeOK, project, installs, tables
  <1>6. HandlersInv'
    <2> SUFFICES ASSUME NEW o \in Handlers PROVE HandlerInv(hs[o])'
      BY DEF HandlersInv
    <2>1. UNCHANGED <<registered, sweep, events, catalog, stored, tally, noted>>
      BY <1>1 DEF installs, tables
    <2>2. CASE o = h
      BY <1>2, <2>1, <2>2, IdleHandlerIsGood DEF HandlerInv, Owned, Declares
    <2>3. CASE o # h
      <3>1. hs'[o] = hs[o] /\ HandlerInv(hs[o]) BY <1>2, <2>3 DEF CoreInv, HandlersInv
      <3> QED BY <2>1, <3>1 DEF HandlerInv, Owned, Declares
    <2> QED BY <2>2, <2>3
  <1>7. ClaimsDisjoint' BY <1>2 DEF CoreInv, ClaimsDisjoint, Claims, InTx, IdleHandler
  <1>8. SweepInv' BY <1>1 DEF CoreInv, SweepInv, References, installs, tables
  <1>9. TablesInv' BY <1>1, <1>4 DEF CoreInv, TablesInv, installs, tables
  <1>10. NoOrphans' BY <1>1 DEF CoreInv, NoOrphans, installs, tables
  <1>11. ActivationComplete' BY <1>1 DEF CoreInv, ActivationComplete, installs, tables
  <1>12. AckedIsDurable' BY <1>1, <1>3, <1>4 DEF CoreInv, AckedIsDurable, tables
  <1> QED BY <1>5, <1>6, <1>7, <1>8, <1>9, <1>10, <1>11, <1>12 DEF CoreInv

\* Handlers are undisturbed while what they hold and have seen remains.
LEMMA HandlersKeep ==
    ASSUME CoreInv, UNCHANGED <<hs, catalog, stored, tally, noted>>, events' \subseteq events,
           \A h \in Handlers : hs[h].row # "none" =>
               hs[h].install \in registered' /\ hs[h].install \notin sweep'.deleted
    PROVE  HandlersInv' /\ ClaimsDisjoint'
  <1>1. HandlersInv'
    <2> SUFFICES ASSUME NEW h \in Handlers PROVE HandlerInv(hs[h])'
      BY DEF HandlersInv
    <2>1. HandlerInv(hs[h]) BY DEF CoreInv, HandlersInv
    <2> QED BY <2>1 DEF HandlerInv, Owned, Declares
  <1>2. ClaimsDisjoint' BY DEF CoreInv, ClaimsDisjoint, Claims
  <1> QED BY <1>1, <1>2

\* A row that an open batch holds is registered, and the sweep has not
\* deleted it.
LEMMA HeldRows ==
    ASSUME CoreInv
    PROVE  \A h \in Handlers : hs[h].row # "none" =>
               hs[h].install \in registered /\ hs[h].install \notin sweep.deleted
  BY DEF CoreInv, HandlersInv, HandlerInv

\* A registration adds a row, or finds it.
LEMMA RegisterPreserves ==
    ASSUME CoreInv, NEW i \in Installs, Register(i)
    PROVE  CoreInv'
  <1>1. /\ registered' = registered \cup {i} /\ mode' = [mode EXCEPT ![i] = "send"]
        /\ UNCHANGED <<project, activated, firstProduct, aged, tables, hs, sweep,
                       queue, waiting, acked, stored, faults>>
    BY DEF Register
  <1>2. TypeOK' BY <1>1 DEF CoreInv, TypeOK, project, tables
  <1>3. HandlersInv' /\ ClaimsDisjoint' BY <1>1, HeldRows, HandlersKeep DEF tables
  <1>4. SweepInv' BY <1>1 DEF CoreInv, SweepInv, References, tables
  <1>5. TablesInv' BY <1>1 DEF CoreInv, TablesInv, tables
  <1>6. NoOrphans' BY <1>1 DEF CoreInv, NoOrphans, tables
  <1>7. ActivationComplete' BY <1>1 DEF CoreInv, ActivationComplete, tables
  <1>8. AckedIsDurable' BY <1>1 DEF CoreInv, AckedIsDurable, tables
  <1> QED BY <1>2, <1>3, <1>4, <1>5, <1>6, <1>7, <1>8 DEF CoreInv

(***************************************************************************)
(* Maintenance.                                                            *)
(***************************************************************************)

\* The cleanup picks rows that are not activated.
LEMMA StartCleanupPreserves ==
    ASSUME CoreInv, StartCleanup
    PROVE  CoreInv'
  <1>0. /\ sweep \in [pc : {"idle", "deleting", "retention"},
                      cand : SUBSET Installs, deleted : SUBSET Installs]
        /\ registered \subseteq Installs /\ sweep.pc = "idle" /\ sweep.deleted = {}
    BY DEF CoreInv, TypeOK, SweepInv, StartCleanup
  <1>1. /\ sweep' = [sweep EXCEPT !.pc = "deleting", !.cand = (registered \cap aged) \ activated]
        /\ UNCHANGED <<project, installs, tables, hs, clients, stored, faults>>
    BY DEF StartCleanup
  <1>2. /\ sweep'.pc = "deleting" /\ sweep'.cand = (registered \cap aged) \ activated
        /\ sweep'.deleted = {}
        /\ sweep' \in [pc : {"idle", "deleting", "retention"},
                       cand : SUBSET Installs, deleted : SUBSET Installs]
    BY <1>0, <1>1
  <1>3. TypeOK' BY <1>1, <1>2 DEF CoreInv, TypeOK, project, installs, tables, clients
  <1>4. HandlersInv' /\ ClaimsDisjoint' BY <1>1, <1>2, HeldRows, HandlersKeep DEF tables, installs
  <1>5. SweepInv' BY <1>1, <1>2 DEF SweepInv, installs
  <1>6. TablesInv' BY <1>1 DEF CoreInv, TablesInv, tables, installs, clients
  <1>7. NoOrphans' BY <1>1 DEF CoreInv, NoOrphans, tables, installs
  <1>8. ActivationComplete' BY <1>1 DEF CoreInv, ActivationComplete, tables, installs
  <1>9. AckedIsDurable' BY <1>1 DEF CoreInv, AckedIsDurable, tables, clients
  <1> QED BY <1>3, <1>4, <1>5, <1>6, <1>7, <1>8, <1>9 DEF CoreInv

\* The DELETE takes a row only when no transaction holds it.
LEMMA DeleteRowPreserves ==
    ASSUME CoreInv, NEW i \in Installs, DeleteRow(i)
    PROVE  CoreInv'
  <1>0. /\ sweep \in [pc : {"idle", "deleting", "retention"},
                      cand : SUBSET Installs, deleted : SUBSET Installs]
        /\ sweep.pc = "deleting" /\ i \in sweep.cand /\ \A h \in Handlers : ~Holds(h, i)
    BY DEF CoreInv, TypeOK, DeleteRow
  <1>1. /\ sweep' = [sweep EXCEPT !.cand = @ \ {i}, !.deleted = @ \cup {i}]
        /\ UNCHANGED <<project, installs, tables, hs, clients, stored, faults>>
    BY DEF DeleteRow
  <1>2. /\ sweep'.pc = "deleting" /\ sweep'.cand = sweep.cand \ {i}
        /\ sweep'.deleted = sweep.deleted \cup {i}
        /\ sweep' \in [pc : {"idle", "deleting", "retention"},
                       cand : SUBSET Installs, deleted : SUBSET Installs]
    BY <1>0, <1>1
  <1>3. TypeOK' BY <1>1, <1>2 DEF CoreInv, TypeOK, project, installs, tables, clients
  <1>4. HandlersInv' /\ ClaimsDisjoint'
    BY <1>0, <1>1, <1>2, HeldRows, HandlersKeep DEF tables, installs, Holds
  <1>5. SweepInv' BY <1>0, <1>1, <1>2 DEF CoreInv, SweepInv, References, installs, tables
  <1>6. TablesInv' BY <1>1 DEF CoreInv, TablesInv, tables, installs, clients
  <1>7. NoOrphans' BY <1>1 DEF CoreInv, NoOrphans, tables, installs
  <1>8. ActivationComplete' BY <1>1 DEF CoreInv, ActivationComplete, tables, installs
  <1>9. AckedIsDurable' BY <1>1 DEF CoreInv, AckedIsDurable, tables, clients
  <1> QED BY <1>3, <1>4, <1>5, <1>6, <1>7, <1>8, <1>9 DEF CoreInv

\* The cleanup succeeds only if no deleted row is referenced.
LEMMA EndCleanupPreserves ==
    ASSUME CoreInv, DeleteUnactivatedInstallations \/ CleanupFails
    PROVE  CoreInv'
  <1>0. /\ sweep' = [IdleSweep EXCEPT !.pc = "retention"] /\ faults' \in Nat
        /\ UNCHANGED <<project, tables, hs, clients, stored>>
    BY DEF DeleteUnactivatedInstallations, CleanupFails, Disturb, CoreInv, TypeOK
  <1>1. /\ sweep'.pc = "retention" /\ sweep'.cand = {} /\ sweep'.deleted = {}
        /\ sweep' \in [pc : {"idle", "deleting", "retention"},
                       cand : SUBSET Installs, deleted : SUBSET Installs]
    BY <1>0 DEF IdleSweep
  <1>2. CASE UNCHANGED installs
    <2>1. TypeOK' BY <1>0, <1>1, <1>2 DEF CoreInv, TypeOK, project, installs, tables, clients
    <2>2. HandlersInv' /\ ClaimsDisjoint'
      BY <1>0, <1>1, <1>2, HeldRows, HandlersKeep DEF tables, installs
    <2>3. SweepInv' BY <1>1 DEF SweepInv
    <2>4. TablesInv' BY <1>0, <1>2 DEF CoreInv, TablesInv, tables, installs, clients
    <2>5. NoOrphans' BY <1>0, <1>2 DEF CoreInv, NoOrphans, tables, installs
    <2>6. ActivationComplete' BY <1>0, <1>2 DEF CoreInv, ActivationComplete, tables, installs
    <2>7. AckedIsDurable' BY <1>0 DEF CoreInv, AckedIsDurable, tables, clients
    <2> QED BY <2>1, <2>2, <2>3, <2>4, <2>5, <2>6, <2>7 DEF CoreInv
  <1>3. CASE /\ \A i \in sweep.deleted : ~References(i)
             /\ registered' = registered \ sweep.deleted
             /\ activated' = activated \ sweep.deleted
             /\ aged' = aged \ sweep.deleted
             /\ firstProduct' = [i \in Installs |->
                                   IF i \in sweep.deleted THEN None ELSE firstProduct[i]]
    <2>1. TypeOK' BY <1>0, <1>1, <1>3 DEF CoreInv, TypeOK, project, tables, clients
    <2>2. HandlersInv' /\ ClaimsDisjoint'
      BY <1>0, <1>1, <1>3, HeldRows, HandlersKeep DEF tables
    <2>3. SweepInv' BY <1>1 DEF SweepInv
    <2>4. TablesInv' BY <1>0, <1>3 DEF CoreInv, TablesInv, tables, clients
    <2>5. NoOrphans' BY <1>0, <1>3 DEF CoreInv, NoOrphans, References, tables
    <2>6. ActivationComplete'
      <3>1. \A e \in events : Owner[e] \in Installs /\ Owner[e] \notin sweep.deleted
        BY <1>3, ConstantsAssumption DEF References, CoreInv, TypeOK
      <3> QED BY <1>0, <1>3, <3>1 DEF CoreInv, ActivationComplete, tables
    <2>7. AckedIsDurable' BY <1>0 DEF CoreInv, AckedIsDurable, tables, clients
    <2> QED BY <2>1, <2>2, <2>3, <2>4, <2>5, <2>6, <2>7 DEF CoreInv
  <1> QED BY <1>2, <1>3 DEF DeleteUnactivatedInstallations, CleanupFails

\* Retention removes events and nothing they refer to.
LEMMA RetentionPreserves ==
    ASSUME CoreInv, DeleteExpiredEvents
    PROVE  CoreInv'
  <1>1. /\ sweep' = IdleSweep
        /\ events' \subseteq events /\ oldEvents' \subseteq oldEvents
        /\ UNCHANGED <<project, installs, catalog, tally, noted, hs, clients, stored, faults>>
    BY DEF DeleteExpiredEvents
  <1>2. /\ sweep'.pc = "idle" /\ sweep'.cand = {} /\ sweep'.deleted = {}
        /\ sweep' \in [pc : {"idle", "deleting", "retention"},
                       cand : SUBSET Installs, deleted : SUBSET Installs]
    BY <1>1 DEF IdleSweep
  <1>3. TypeOK' BY <1>1, <1>2 DEF CoreInv, TypeOK, project, installs, clients
  <1>4. HandlersInv' /\ ClaimsDisjoint'
    BY <1>1, <1>2, HeldRows, HandlersKeep DEF installs
  <1>5. SweepInv' BY <1>2 DEF SweepInv
  <1>6. TablesInv' BY <1>1 DEF CoreInv, TablesInv, installs, clients
  <1>7. NoOrphans' BY <1>1 DEF CoreInv, NoOrphans, installs
  <1>8. ActivationComplete' BY <1>1 DEF CoreInv, ActivationComplete, installs
  <1>9. AckedIsDurable' BY <1>1 DEF CoreInv, AckedIsDurable, clients
  <1> QED BY <1>3, <1>4, <1>5, <1>6, <1>7, <1>8, <1>9 DEF CoreInv

(***************************************************************************)
(* The rest of the world.                                                  *)
(***************************************************************************)

\* Timeouts, ageing and owners' edits leave what the invariant speaks of.
LEMMA WorldPreserves ==
    ASSUME CoreInv, TypeOK',
           UNCHANGED <<registered, activated, firstProduct, events, catalog, tally, noted,
                       hs, sweep, queue, acked, stored>>
    PROVE  CoreInv'
  <1>1. HandlersInv' /\ ClaimsDisjoint' BY HeldRows, HandlersKeep
  <1>2. SweepInv' BY DEF CoreInv, SweepInv, References
  <1>3. TablesInv' BY DEF CoreInv, TablesInv
  <1>4. NoOrphans' BY DEF CoreInv, NoOrphans
  <1>5. ActivationComplete' BY DEF CoreInv, ActivationComplete
  <1>6. AckedIsDurable' BY DEF CoreInv, AckedIsDurable
  <1> QED BY <1>1, <1>2, <1>3, <1>4, <1>5, <1>6 DEF CoreInv

\* A client that gives up changes nothing on the server.
LEMMA TimeoutPreserves ==
    ASSUME CoreInv, NEW i \in Installs, ClientTimeout(i)
    PROVE  CoreInv'
  <1>1. /\ faults' \in Nat /\ waiting' \in [Installs -> Handlers \cup {None}]
        /\ UNCHANGED <<project, installs, tables, hs, sweep, queue, mode, acked, stored>>
    BY DEF CoreInv, TypeOK, ClientTimeout, Disturb
  <1>2. TypeOK' BY <1>1 DEF CoreInv, TypeOK, project, installs, tables
  <1> QED BY <1>1, <1>2, WorldPreserves DEF installs, tables

\* Time passing for an installation changes no row.
LEMMA AgeInstallPreserves ==
    ASSUME CoreInv, NEW i \in Installs, AgeInstall(i)
    PROVE  CoreInv'
  <1>1. /\ faults' \in Nat /\ aged' \subseteq Installs
        /\ UNCHANGED <<project, registered, activated, firstProduct, tables, hs, sweep, clients, stored>>
    BY DEF CoreInv, TypeOK, AgeInstall, Disturb
  <1>2. TypeOK' BY <1>1 DEF CoreInv, TypeOK, project, tables, clients
  <1> QED BY <1>1, <1>2, WorldPreserves DEF tables, clients

\* Time passing for an event changes no row.
LEMMA AgeEventPreserves ==
    ASSUME CoreInv, NEW e \in Events, AgeEvent(e)
    PROVE  CoreInv'
  <1>1. /\ faults' \in Nat /\ oldEvents' \subseteq Events
        /\ UNCHANGED <<project, installs, events, catalog, tally, noted, hs, sweep, clients, stored>>
    BY DEF CoreInv, TypeOK, AgeEvent, Disturb
  <1>2. TypeOK' BY <1>1 DEF CoreInv, TypeOK, project, installs, clients
  <1> QED BY <1>1, <1>2, WorldPreserves DEF installs, clients

\* Settings may change under a running batch, which read them before.
LEMMA ChangeProjectPreserves ==
    ASSUME CoreInv, ChangeProject
    PROVE  CoreInv'
  <1>1. faults' \in Nat /\ UNCHANGED <<installs, tables, hs, sweep, clients, stored>>
    BY DEF CoreInv, TypeOK, ChangeProject, Disturb
  <1>2. enabled' \in BOOLEAN /\ strictCatalog' \in BOOLEAN /\ rejecting' \in BOOLEAN
    BY Zenon DEF CoreInv, TypeOK, ChangeProject
  <1>3. TypeOK' BY <1>1, <1>2 DEF CoreInv, TypeOK, installs, tables, clients
  <1> QED BY <1>1, <1>3, WorldPreserves DEF installs, tables, clients

\* A crash forgets the handlers, and with them every uncommitted claim.
LEMMA CrashPreserves ==
    ASSUME CoreInv, Crash
    PROVE  CoreInv'
  <1>1. /\ hs' = [h \in Handlers |-> IdleHandler] /\ sweep' = IdleSweep /\ faults' \in Nat
        /\ waiting' = [i \in Installs |-> None] /\ rejecting' = FALSE
        /\ UNCHANGED <<enabled, strictCatalog, installs, tables, queue, mode, acked, stored>>
    BY DEF CoreInv, TypeOK, Crash, Disturb
  <1>2. /\ sweep'.cand = {} /\ sweep'.deleted = {}
        /\ sweep' \in [pc : {"idle", "deleting", "retention"},
                       cand : SUBSET Installs, deleted : SUBSET Installs]
    BY <1>1 DEF IdleSweep
  <1>3. TypeOK' BY <1>1, <1>2, IdleHandlerIsGood DEF CoreInv, TypeOK, installs, tables
  <1>4. HandlersInv'
    <2> SUFFICES ASSUME NEW h \in Handlers PROVE HandlerInv(hs[h])'
      BY DEF HandlersInv
    <2>1. hs'[h] = IdleHandler BY <1>1
    <2> QED BY <2>1 DEF IdleHandler, HandlerInv, Owned, Declares, InTx
  <1>5. ClaimsDisjoint' BY <1>1 DEF ClaimsDisjoint, Claims, InTx, IdleHandler
  <1>6. SweepInv' BY <1>2 DEF SweepInv
  <1>7. TablesInv' BY <1>1 DEF CoreInv, TablesInv, installs, tables
  <1>8. NoOrphans' BY <1>1 DEF CoreInv, NoOrphans, installs, tables
  <1>9. ActivationComplete' BY <1>1 DEF CoreInv, ActivationComplete, installs, tables
  <1>10. AckedIsDurable' BY <1>1 DEF CoreInv, AckedIsDurable, tables
  <1> QED BY <1>3, <1>4, <1>5, <1>6, <1>7, <1>8, <1>9, <1>10 DEF CoreInv

(***************************************************************************)
(* The theorems.                                                           *)
(***************************************************************************)

\* The initial states satisfy the core invariant.
LEMMA InitEstablishes == Init => CoreInv
  <1> SUFFICES ASSUME Init PROVE CoreInv
    OBVIOUS
  <1>1. /\ hs = [h \in Handlers |-> IdleHandler] /\ sweep.cand = {} /\ sweep.deleted = {}
        /\ sweep \in [pc : {"idle", "deleting", "retention"},
                      cand : SUBSET Installs, deleted : SUBSET Installs]
    BY DEF Init, IdleSweep
  <1>2. enabled \in BOOLEAN /\ strictCatalog \in BOOLEAN /\ rejecting \in BOOLEAN
    BY Zenon DEF Init
  <1>3. TypeOK
    BY <1>1, <1>2, IdleHandlerIsGood, ConstantsAssumption DEF Init, TypeOK, Names
  <1>4. HandlersInv BY <1>1, IdleHandlerIsGood DEF HandlersInv
  <1>5. ClaimsDisjoint BY <1>1 DEF ClaimsDisjoint, Claims, InTx, IdleHandler
  <1>6. SweepInv BY <1>1 DEF SweepInv
  <1>7. TablesInv BY DEF Init, TablesInv
  <1>8. NoOrphans /\ ActivationComplete /\ AckedIsDurable
    BY DEF Init, NoOrphans, ActivationComplete, AckedIsDurable
  <1> QED BY <1>3, <1>4, <1>5, <1>6, <1>7, <1>8 DEF CoreInv

\* Every step of a handler preserves the core invariant.
LEMMA StepPreserves ==
    ASSUME CoreInv, NEW h \in Handlers, Step(h)
    PROVE  CoreInv'
  BY AdmitPreserves, PreparePreserves, PersistPreserves, LockPreserves,
     InsertDuplicatePreserves, InsertPreserves, TrackPreserves, ActivatePreserves,
     AbortPreserves, CommitPreserves, RecordPreserves, DeliverPreserves
  DEF Step

\* Every step of the system preserves the core invariant.
LEMMA NextPreserves == CoreInv /\ [Next]_vars => CoreInv'
  <1> SUFFICES ASSUME CoreInv, [Next]_vars PROVE CoreInv'
    OBVIOUS
  <1>1. CASE \E h \in Handlers : Step(h) \/ LimitBatch(h) \/ Fail(h)
    BY <1>1, StepPreserves, AdmitPreserves, FailPreserves
  <1>2. CASE \E i \in Installs : Register(i) \/ ClientTimeout(i) \/ AgeInstall(i)
    BY <1>2, RegisterPreserves, TimeoutPreserves, AgeInstallPreserves
  <1>3. CASE \E i \in Installs, h \in Handlers : Send(i, h)
    BY <1>3, SendPreserves
  <1>4. CASE \E e \in Events : AgeEvent(e)
    BY <1>4, AgeEventPreserves
  <1>5. CASE Sweep \/ CleanupFails
    BY <1>5, StartCleanupPreserves, DeleteRowPreserves, EndCleanupPreserves,
       RetentionPreserves DEF Sweep
  <1>6. CASE ChangeProject \/ Crash
    BY <1>6, ChangeProjectPreserves, CrashPreserves
  <1>7. CASE UNCHANGED vars
    <2>1. TypeOK' BY <1>7 DEF CoreInv, TypeOK, vars, project, installs, tables, clients
    <2> QED BY <1>7, <2>1, WorldPreserves DEF vars, installs, tables, clients
  <1> QED BY <1>1, <1>2, <1>3, <1>4, <1>5, <1>6, <1>7 DEF Next

\* The core invariant holds in every reachable state.
LEMMA CoreInvariance == Spec => []CoreInv
  BY InitEstablishes, NextPreserves, PTL DEF Spec

(***************************************************************************)
(* Counting: a commit lets its handler count each stored event once.       *)
(***************************************************************************)

\* While the counts stand still and no handler enters "stats", all is well.
LEMMA TallyKeep ==
    ASSUME CoreInv, TallyInv, UNCHANGED <<tally, stored>>,
           \A e \in Events : Uncounted(e)' \subseteq Uncounted(e)
    PROVE  TallyInv'
  <1> SUFFICES ASSUME NEW e \in Events
               PROVE  tally'[e] + Cardinality(Uncounted(e)') <= stored'[e]
    BY DEF TallyInv
  <1>1. IsFiniteSet(Uncounted(e))
    BY FS_Subset, ConstantsAssumption DEF Uncounted
  <1>2. /\ Cardinality(Uncounted(e)) \in Nat /\ Cardinality(Uncounted(e)') \in Nat
        /\ Cardinality(Uncounted(e)') <= Cardinality(Uncounted(e))
    BY <1>1, FS_Subset, FS_CardinalityType
  <1>3. tally[e] + Cardinality(Uncounted(e)) <= stored[e] BY DEF TallyInv
  <1>4. tally[e] \in Nat /\ stored[e] \in Nat BY DEF CoreInv, TypeOK
  <1> QED BY <1>2, <1>3, <1>4

\* A handler's step that neither commits nor counts.
LEMMA TallyHandlerStep ==
    ASSUME CoreInv, TallyInv, UNCHANGED <<tally, stored>>, NEW h \in Handlers, NEW q, Set(h, q),
           q.pc = "stats" => q.fresh = {}
    PROVE  TallyInv'
  <1>1. \A o \in Handlers : o # h => hs'[o] = hs[o]
    BY DEF Set, CoreInv, TypeOK
  <1>2. hs'[h] = q BY DEF Set, CoreInv, TypeOK
  <1> QED BY <1>1, <1>2, TallyKeep DEF Uncounted

\* A commit stores each of its events once more and owes one count of each.
LEMMA CommitTally ==
    ASSUME CoreInv, TallyInv, NEW h \in Handlers, Commit(h)
    PROVE  TallyInv'
  <1> SUFFICES ASSUME NEW e \in Events
               PROVE  tally'[e] + Cardinality(Uncounted(e)') <= stored'[e]
    BY DEF TallyInv
  <1>1. /\ hs \in [Handlers -> HandlerType] /\ hs[h] \in HandlerType
        /\ tally[e] \in Nat /\ stored[e] \in Nat
    BY DEF CoreInv, TypeOK
  <1>2. /\ hs[h].pc = "commit" /\ tally' = tally /\ stored' = Bump(stored, hs[h].fresh)
        /\ hs' = [hs EXCEPT ![h] = [hs[h] EXCEPT !.pc = "stats", !.names = {}, !.row = "none"]]
    BY DEF Commit, Set
  <1>3. /\ \A o \in Handlers : o # h => hs'[o] = hs[o]
        /\ hs'[h].fresh = hs[h].fresh /\ hs'[h].pc = "stats"
    BY <1>1, <1>2 DEF HandlerType
  <1>4. IsFiniteSet(Uncounted(e)) /\ Cardinality(Uncounted(e)) \in Nat
    BY FS_Subset, FS_CardinalityType, ConstantsAssumption DEF Uncounted
  <1>5. tally[e] + Cardinality(Uncounted(e)) <= stored[e] BY DEF TallyInv
  <1>6. CASE e \in hs[h].fresh
    <2>1. Uncounted(e)' = Uncounted(e) \cup {h} BY <1>3, <1>6 DEF Uncounted
    <2>2. h \notin Uncounted(e) BY <1>2 DEF Uncounted
    <2>3. Cardinality(Uncounted(e)') = Cardinality(Uncounted(e)) + 1
      BY <1>4, <2>1, <2>2, FS_AddElement
    <2>4. stored'[e] = stored[e] + 1 BY <1>2, <1>6 DEF Bump
    <2> QED BY <1>1, <1>2, <1>4, <1>5, <2>3, <2>4
  <1>7. CASE e \notin hs[h].fresh
    <2>1. Uncounted(e)' = Uncounted(e) BY <1>2, <1>3, <1>7 DEF Uncounted
    <2>2. stored'[e] = stored[e] BY <1>2, <1>7 DEF Bump
    <2> QED BY <1>2, <1>5, <2>1, <2>2
  <1> QED BY <1>6, <1>7

\* The whole count, or after a failure part of it, of what was committed.
LEMMA CountTally ==
    ASSUME CoreInv, TallyInv, NEW h \in Handlers, hs[h].pc = "stats", NEW S \in SUBSET hs[h].fresh,
           tally' = Bump(tally, S), UNCHANGED stored, NEW q, Set(h, q), q.pc # "stats"
    PROVE  TallyInv'
  <1> SUFFICES ASSUME NEW e \in Events
               PROVE  tally'[e] + Cardinality(Uncounted(e)') <= stored'[e]
    BY DEF TallyInv
  <1>1. tally[e] \in Nat /\ stored[e] \in Nat BY DEF CoreInv, TypeOK
  <1>2. hs'[h] = q /\ \A o \in Handlers : o # h => hs'[o] = hs[o]
    BY DEF Set, CoreInv, TypeOK
  <1>3. IsFiniteSet(Uncounted(e)) /\ Cardinality(Uncounted(e)) \in Nat
    BY FS_Subset, FS_CardinalityType, ConstantsAssumption DEF Uncounted
  <1>4. tally[e] + Cardinality(Uncounted(e)) <= stored[e] BY DEF TallyInv
  <1>5. Uncounted(e)' = Uncounted(e) \ {h} BY <1>2 DEF Uncounted
  <1>6. CASE e \in hs[h].fresh
    <2>1. h \in Uncounted(e) BY <1>6 DEF Uncounted
    <2>2. Cardinality(Uncounted(e)') = Cardinality(Uncounted(e)) - 1
      BY <1>3, <1>5, <2>1, FS_RemoveElement
    <2>3. tally'[e] <= tally[e] + 1 /\ tally'[e] \in Nat BY <1>1 DEF Bump
    <2> QED BY <1>1, <1>3, <1>4, <2>2, <2>3
  <1>7. CASE e \notin hs[h].fresh
    <2>1. Uncounted(e)' = Uncounted(e) BY <1>5, <1>7 DEF Uncounted
    <2>2. tally'[e] = tally[e] BY <1>7 DEF Bump
    <2> QED BY <1>4, <2>1, <2>2
  <1> QED BY <1>6, <1>7

\* Every step of a handler keeps each count paid for.
LEMMA StepTally ==
    ASSUME CoreInv, TallyInv, NEW h \in Handlers, Step(h) \/ LimitBatch(h) \/ Fail(h)
    PROVE  TallyInv'
  <1>0. hs \in [Handlers -> HandlerType] /\ hs[h] \in HandlerType /\ HandlerInv(hs[h])
    BY DEF CoreInv, TypeOK, HandlersInv
  <1>1. CASE Commit(h) BY <1>1, CommitTally
  <1>2. CASE RecordBatchStats(h)
    <2>1. hs[h].fresh \in SUBSET hs[h].fresh OBVIOUS
    <2>2. [hs[h] EXCEPT !.pc = "rejections"].pc # "stats" BY <1>0 DEF HandlerType
    <2> QED BY <1>2, <2>1, <2>2, CountTally DEF RecordBatchStats
  <1> DEFINE r(c) == [hs[h] EXCEPT !.pc = "done", !.code = c, !.fresh = {}, !.duplicates = {},
                                   !.rejected = {}, !.names = {}, !.row = "none"]
  <1>3. \A c \in Codes : r(c).pc = "done" BY <1>0 DEF HandlerType
  <1>4. ASSUME NEW c \in Codes, Refuse(h, c) PROVE Set(h, r(c)) BY <1>4 DEF Refuse
  <1> HIDE DEF r
  <1>5. ASSUME NEW c \in Codes, Refuse(h, c), UNCHANGED <<tally, stored>> PROVE TallyInv'
    BY <1>3, <1>4, <1>5, TallyHandlerStep
  <1>6. CASE Fail(h)
    <2>1. Refuse(h, "failed") /\ "failed" \in Codes /\ UNCHANGED stored
      BY <1>6 DEF Fail, Codes
    <2>2. CASE hs[h].pc = "stats"
      <3>1. PICK S \in SUBSET hs[h].fresh : tally' = Bump(tally, S) BY <1>6, <2>2 DEF Fail
      <3> QED BY <1>3, <1>4, <2>1, <2>2, <3>1, CountTally
    <2>3. CASE hs[h].pc # "stats"
      <3>1. UNCHANGED tally BY <1>6, <2>3 DEF Fail
      <3> QED BY <1>5, <2>1, <3>1
    <2> QED BY <2>2, <2>3
  <1>7. CASE Deliver(h)
    BY <1>7, TallyHandlerStep DEF Deliver, IdleHandler, tables
  <1>8. CASE RecordRejectionStats(h)
    <2>1. [hs[h] EXCEPT !.pc = "done", !.code = "ok"].pc = "done" BY <1>0 DEF HandlerType
    <2> QED BY <1>8, <2>1, TallyHandlerStep DEF RecordRejectionStats
  <1>9. CASE \/ LimitBatch(h) \/ AdmitBatch(h) \/ AuthorizeBatch(h) \/ InsertOrphan(h)
             \/ AbortDeadlock(h)
    <2>1. UNCHANGED <<tally, stored>>
      BY <1>9 DEF LimitBatch, AdmitBatch, AuthorizeBatch, InsertOrphan, AbortDeadlock, rest, tables
    <2>2. CASE \E c \in Codes : Refuse(h, c) BY <1>5, <2>1, <2>2
    <2>3. CASE Set(h, [hs[h] EXCEPT !.pc = "authorize"])
      <3>1. [hs[h] EXCEPT !.pc = "authorize"].pc = "authorize" BY <1>0 DEF HandlerType
      <3> QED BY <2>1, <2>3, <3>1, TallyHandlerStep
    <2>4. CASE Set(h, [hs[h] EXCEPT !.pc = "prepare", !.strict = strictCatalog])
      <3>1. [hs[h] EXCEPT !.pc = "prepare", !.strict = strictCatalog].pc = "prepare"
        BY <1>0 DEF HandlerType
      <3> QED BY <2>1, <2>4, <3>1, TallyHandlerStep
    <2> QED BY <1>9, <2>2, <2>3, <2>4
        DEF LimitBatch, AdmitBatch, AuthorizeBatch, InsertOrphan, AbortDeadlock, Codes
  <1>10. CASE \/ PrepareEvent(h) \/ PersistBatch(h) \/ UpdateBatchInstallation(h)
              \/ InsertDuplicate(h) \/ InsertPreparedEvent(h) \/ TrackProductEvent(h)
              \/ ActivateInstallation(h)
    <2>1. /\ UNCHANGED <<tally, stored>> /\ hs[h].pc # "stats"
          /\ \A o \in Handlers : o # h => hs'[o] = hs[o]
      BY <1>0, <1>10 DEF PrepareEvent, PersistBatch, UpdateBatchInstallation, InsertDuplicate,
         InsertPreparedEvent, TrackProductEvent, ActivateInstallation, Set, rest, tables
    <2>2. CASE PersistBatch(h)
      <3>1. hs[h].fresh = {} BY <1>0, <2>2 DEF PersistBatch, HandlerInv
      <3>2. hs'[h].fresh = {} BY <1>0, <2>2, <3>1 DEF PersistBatch, Set, HandlerType
      <3> QED BY <2>1, <3>2, TallyKeep DEF Uncounted
    <2>3. CASE PrepareEvent(h)
      <3>1. hs'[h].pc = "prepare" BY <1>0, <2>3 DEF PrepareEvent, Set, HandlerType
      <3> QED BY <2>1, <3>1, TallyKeep DEF Uncounted
    <2>4. CASE \/ UpdateBatchInstallation(h) \/ InsertDuplicate(h) \/ TrackProductEvent(h)
               \/ ActivateInstallation(h)
      <3>1. hs'[h].pc \in {"insert", "commit"}
        <4>1. CASE UpdateBatchInstallation(h)
          BY <1>0, <4>1 DEF UpdateBatchInstallation, Set, HandlerType
        <4>2. CASE InsertDuplicate(h) BY <1>0, <4>2 DEF InsertDuplicate, Set, HandlerType
        <4>3. CASE TrackProductEvent(h) BY <1>0, <4>3 DEF TrackProductEvent, Set, HandlerType
        <4>4. CASE ActivateInstallation(h)
          BY <1>0, <4>4 DEF ActivateInstallation, Set, HandlerType
        <4> QED BY <2>4, <4>1, <4>2, <4>3, <4>4
      <3> QED BY <2>1, <3>1, TallyKeep DEF Uncounted
    <2>5. CASE InsertPreparedEvent(h)
      <3>1. hs'[h].pc \in {"insert", "catalog"}
        BY <1>0, <2>5 DEF InsertPreparedEvent, Set, HandlerType
      <3> QED BY <2>1, <3>1, TallyKeep DEF Uncounted
    <2> QED BY <1>10, <2>2, <2>3, <2>4, <2>5
  <1> QED BY <1>1, <1>2, <1>6, <1>7, <1>8, <1>9, <1>10 DEF Step

\* Every step of the system keeps each count paid for.
LEMMA TallyPreserved == CoreInv /\ TallyInv /\ [Next]_vars => TallyInv'
  <1> SUFFICES ASSUME CoreInv, TallyInv, [Next]_vars PROVE TallyInv'
    OBVIOUS
  <1>1. CASE \E h \in Handlers : Step(h) \/ LimitBatch(h) \/ Fail(h)
    BY <1>1, StepTally
  <1>2. CASE \E i \in Installs, h \in Handlers : Send(i, h)
    <2>1. PICK i \in Installs, h \in Handlers : Send(i, h) BY <1>2
    <2>2. PICK b : Set(h, [IdleHandler EXCEPT !.pc = "admit", !.install = i, !.todo = b])
      BY <2>1 DEF Send
    <2>3. [IdleHandler EXCEPT !.pc = "admit", !.install = i, !.todo = b].pc = "admit"
      BY DEF IdleHandler
    <2> QED BY <2>1, <2>2, <2>3, TallyHandlerStep DEF Send, tables
  <1>3. CASE Crash
    BY <1>3, TallyKeep DEF Crash, Uncounted, IdleHandler, tables
  <1>4. CASE UNCHANGED <<hs, tally, stored>> BY <1>4, TallyKeep DEF Uncounted
  <1> QED BY <1>1, <1>2, <1>3, <1>4
      DEF Next, Sweep, Register, ClientTimeout, AgeInstall, AgeEvent, StartCleanup, DeleteRow,
          DeleteUnactivatedInstallations, DeleteExpiredEvents, CleanupFails, ChangeProject,
          vars, tables

\* Nothing is stored and nothing counted at the start.
LEMMA InitTally == Init => TallyInv
  <1> SUFFICES ASSUME Init, NEW e \in Events PROVE tally[e] + Cardinality(Uncounted(e)) <= stored[e]
    BY DEF TallyInv
  <1>1. Uncounted(e) = {} BY DEF Init, Uncounted, IdleHandler
  <1>2. Cardinality({}) = 0 BY FS_EmptySet
  <1> QED BY <1>1, <1>2 DEF Init

\* The inductive invariant holds of every reachable state.
THEOREM Invariance == Spec => []IInv
  BY InitTally, TallyPreserved, CoreInvariance, PTL DEF Spec, IInv

\* No client is told to drop an event that was neither committed nor recorded
\* as rejected, whatever crashed, failed or answered late.
THEOREM AcksAreDurable == Spec => []AckedIsDurable
  <1>1. CoreInv => AckedIsDurable BY DEF CoreInv
  <1> QED BY <1>1, CoreInvariance, PTL

\* Every stored event has its installation row, sweeps and batches overlapping
\* as they may.
THEOREM EventsKeepTheirInstallation == Spec => []NoOrphans
  <1>1. CoreInv => NoOrphans BY DEF CoreInv
  <1> QED BY <1>1, CoreInvariance, PTL

\* Stored events, activation columns and the event catalog agree.
THEOREM ActivationIsComplete == Spec => []ActivationComplete
  <1>1. CoreInv => ActivationComplete BY DEF CoreInv
  <1> QED BY <1>1, CoreInvariance, PTL

\* No event is counted as accepted more often than it was committed, and no
\* 200 precedes its statistics.
THEOREM StatsNeverLead == Spec => []StatsFollowCommit
  <1>1. IInv => StatsFollowCommit
    <2> SUFFICES ASSUME IInv PROVE StatsFollowCommit
      OBVIOUS
    <2>1. ASSUME NEW e \in Events PROVE tally[e] <= stored[e]
      <3>1. tally[e] \in Nat /\ stored[e] \in Nat BY DEF IInv, CoreInv, TypeOK
      <3>2. Cardinality(Uncounted(e)) \in Nat
        BY FS_Subset, FS_CardinalityType, ConstantsAssumption DEF Uncounted
      <3>3. tally[e] + Cardinality(Uncounted(e)) <= stored[e] BY DEF IInv, TallyInv
      <3> QED BY <3>1, <3>2, <3>3
    <2>2. \A h \in Handlers : hs[h].pc = "done" /\ hs[h].code = "ok" =>
             hs[h].fresh \subseteq counted /\ hs[h].rejected \subseteq noted
      BY DEF IInv, CoreInv, HandlersInv, HandlerInv
    <2> QED BY <2>1, <2>2 DEF StatsFollowCommit
  <1> QED BY <1>1, Invariance, PTL

\* Every step leaves in first_product_event_at only times of stored product
\* events.
LEMMA FirstProductStep == CoreInv /\ FirstProductIsReal /\ [Next]_vars => FirstProductIsReal'
  <1> SUFFICES ASSUME CoreInv, FirstProductIsReal, [Next]_vars,
                      NEW i \in Installs, firstProduct'[i] # None
               PROVE  \E e \in ever' \cap Product : Owner[e] = i /\ EffectiveAt[e] = firstProduct'[i]
    BY DEF FirstProductIsReal
  <1>1. ASSUME NEW h \in Handlers, Commit(h), firstProduct'[i] # firstProduct[i]
        PROVE  \E e \in ever' \cap Product : Owner[e] = i /\ EffectiveAt[e] = firstProduct'[i]
    <2> DEFINE fresh == hs[h].fresh
               times == {EffectiveAt[e] : e \in fresh \cap Product}
    <2>1. fresh \in SUBSET Events /\ \A e \in fresh : Owner[e] = hs[h].install
      BY DEF CoreInv, TypeOK, HandlerType, HandlersInv, HandlerInv
    <2>2. times \in SUBSET Nat BY <2>1, ConstantsAssumption
    <2>3. /\ times # {} /\ firstProduct' = [firstProduct EXCEPT ![hs[h].install] = MinTime(times)]
          /\ stored' = Bump(stored, fresh)
      BY <1>1 DEF Commit
    <2>4. i = hs[h].install /\ firstProduct'[i] = MinTime(times)
      <3> HIDE DEF times
      <3> QED BY <1>1, <2>3 DEF CoreInv, TypeOK
    <2>5. MinTime(times) \in times
      <3> HIDE DEF times
      <3> QED BY <2>2, <2>3, MinTimeIsMember
    <2>6. PICK e \in fresh \cap Product : EffectiveAt[e] = MinTime(times) BY <2>5
    <2>7. e \in ever' BY <2>1, <2>3, <2>6, BumpCounts DEF CoreInv, TypeOK
    <2> QED BY <2>1, <2>4, <2>6, <2>7
  <1>2. ever \subseteq ever'
    <2>1. CASE \E h \in Handlers : Commit(h)
      <3>1. PICK h \in Handlers : Commit(h) BY <2>1
      <3>2. hs[h].fresh \in SUBSET Events /\ stored \in [Events -> Nat]
        BY DEF CoreInv, TypeOK, HandlerType
      <3> QED BY <3>1, <3>2, BumpCounts DEF Commit
    <2>2. CASE UNCHANGED stored BY <2>2
    <2> QED BY <2>1, <2>2 DEF Next, Step, Sweep, LimitBatch, Fail, AdmitBatch, AuthorizeBatch,
        PrepareEvent, PersistBatch, UpdateBatchInstallation, InsertDuplicate,
        InsertPreparedEvent, InsertOrphan, TrackProductEvent, ActivateInstallation,
        RecordBatchStats, RecordRejectionStats, AbortDeadlock, Deliver, Register,
        ClientTimeout, AgeInstall, Send, AgeEvent, StartCleanup, DeleteRow,
        DeleteUnactivatedInstallations, DeleteExpiredEvents, CleanupFails, ChangeProject,
        Crash, rest, vars
  <1>3. CASE firstProduct'[i] = firstProduct[i]
    BY <1>2, <1>3 DEF FirstProductIsReal
  <1>4. CASE DeleteUnactivatedInstallations
    BY <1>3, <1>4 DEF DeleteUnactivatedInstallations, installs
  <1>5. \/ \E h \in Handlers : Commit(h)
        \/ DeleteUnactivatedInstallations
        \/ UNCHANGED firstProduct
    BY DEF Next, Step, Sweep, LimitBatch, Fail, AdmitBatch, AuthorizeBatch,
       PrepareEvent, PersistBatch, UpdateBatchInstallation, InsertDuplicate,
       InsertPreparedEvent, InsertOrphan, TrackProductEvent, ActivateInstallation,
       RecordBatchStats, RecordRejectionStats, AbortDeadlock, Deliver, Register,
       ClientTimeout, AgeInstall, Send, AgeEvent, StartCleanup, DeleteRow,
       DeleteExpiredEvents, CleanupFails, ChangeProject, Crash, rest, vars, installs
  <1> QED BY <1>1, <1>3, <1>4, <1>5

\* first_product_event_at never shows a time no stored product event has.
THEOREM FirstProductHolds == Spec => []FirstProductIsReal
  <1>1. Init => FirstProductIsReal BY DEF Init, FirstProductIsReal
  <1> QED BY <1>1, FirstProductStep, CoreInvariance, PTL DEF Spec

\* No activated installation leaves the table: a row activated while the
\* DELETE waited for it is referenced, and its foreign key undoes the DELETE.
THEOREM SweepSparesActivated == Spec => ActivatedNeverSwept
  <1>1. CoreInv /\ [Next]_vars => [\A i \in Installs : i \in activated => i \in registered']_vars
    <2> SUFFICES ASSUME CoreInv, Next, NEW i \in Installs, i \in activated PROVE i \in registered'
      BY Zenon
    <2>1. i \in registered BY DEF CoreInv, TablesInv
    <2>2. CASE DeleteUnactivatedInstallations
      BY <2>1, <2>2 DEF CoreInv, SweepInv, DeleteUnactivatedInstallations, installs
    <2>3. CASE \E j \in Installs : Register(j)
      BY <2>1, <2>3 DEF Register
    <2>4. CASE UNCHANGED registered BY <2>1, <2>4
    <2>5. ASSUME NEW h \in Handlers, Step(h) PROVE UNCHANGED registered
      BY <2>5 DEF Step, AdmitBatch, AuthorizeBatch, PrepareEvent, PersistBatch,
         UpdateBatchInstallation, InsertDuplicate, InsertPreparedEvent, InsertOrphan,
         TrackProductEvent, ActivateInstallation, Commit, RecordBatchStats,
         RecordRejectionStats, AbortDeadlock, Deliver, rest, installs
    <2>6. \/ UNCHANGED registered \/ DeleteUnactivatedInstallations
          \/ \E j \in Installs : Register(j)
      BY <2>5 DEF Next, Sweep, LimitBatch, Fail, ClientTimeout, AgeInstall, Send, AgeEvent,
         StartCleanup, DeleteRow, DeleteExpiredEvents, CleanupFails, ChangeProject, Crash,
         rest, installs
    <2> QED BY <2>2, <2>3, <2>4, <2>6
  <1> QED BY <1>1, CoreInvariance, PTL DEF Spec, ActivatedNeverSwept

(***************************************************************************)
(* Refinement: every step is a step of EventLog, or leaves its state alone. *)
(***************************************************************************)

\* Every step of a handler is a step of the event log, or leaves it alone.
LEMMA StepImplements ==
    ASSUME CoreInv, NEW h \in Handlers, Step(h) \/ LimitBatch(h) \/ Fail(h)
    PROVE  [Log!LogNext]_(Log!logVars)
  <1>0. hs[h] \in HandlerType /\ HandlerInv(hs[h]) /\ TypeOK
    BY DEF CoreInv, TypeOK, HandlersInv
  <1>1. CASE Commit(h)
    <2> DEFINE S == hs[h].fresh
    <2>1. /\ S \in SUBSET Events /\ S \cap events = {}
          /\ events' = events \cup S /\ stored' = Bump(stored, S) /\ UNCHANGED <<noted, acked>>
      BY <1>0, <1>1 DEF Commit, HandlerInv, HandlerType, InTx, clients
    <2>2. CASE S = {}
      <3>1. stored' = stored BY <1>0, <2>1, <2>2 DEF Bump, TypeOK
      <3> QED BY <2>1, <2>2, <3>1 DEF Log!logVars
    <2>3. CASE S # {}
      BY <2>1, <2>3 DEF Log!LogNext, Log!Accept, Bump
    <2> QED BY <2>2, <2>3
  <1>2. CASE Deliver(h)
    <2>1. /\ Acks(h) \in SUBSET Events /\ Acks(h) \subseteq ever \cup noted
          /\ UNCHANGED <<events, stored, noted>>
      BY <1>0, <1>2 DEF Acks, HandlerInv, HandlerType, Deliver, tables
    <2>2. acked' = acked \/ acked' = acked \cup Acks(h)
      BY <1>2 DEF Deliver
    <2> QED BY <2>1, <2>2 DEF Log!LogNext, Log!Acknowledge, Log!ever, Log!logVars
  <1>3. CASE RecordRejectionStats(h) \/ Fail(h)
    <2>1. \E S \in SUBSET Events : noted' = noted \cup S
      <3>1. hs[h].rejected \in SUBSET Events BY <1>0 DEF HandlerType
      <3>2. noted' = noted => noted' = noted \cup {} OBVIOUS
      <3> QED BY <1>3, <3>1, <3>2 DEF RecordRejectionStats, Fail
    <2>2. UNCHANGED <<events, stored, acked>>
      BY <1>3 DEF RecordRejectionStats, Fail, clients
    <2> QED BY <2>1, <2>2 DEF Log!LogNext, Log!Refuse
  <1>4. CASE /\ ~(Commit(h) \/ Deliver(h) \/ RecordRejectionStats(h) \/ Fail(h))
             /\ Step(h) \/ LimitBatch(h)
    <2>1. UNCHANGED <<events, stored, noted, acked>>
      BY <1>4 DEF Step, LimitBatch, AdmitBatch, AuthorizeBatch, PrepareEvent, PersistBatch,
         UpdateBatchInstallation, InsertDuplicate, InsertPreparedEvent, InsertOrphan,
         TrackProductEvent, ActivateInstallation, RecordBatchStats, AbortDeadlock,
         rest, tables, clients
    <2> QED BY <2>1 DEF Log!logVars
  <1> QED BY <1>1, <1>2, <1>3, <1>4

\* Batches, retries, faults and maintenance together do no more than take new
\* events in once, record refusals, acknowledge those, and expire.
THEOREM RefinesEventLog == Spec => ImplementsEventLog
  <1>1. Init => Log!LogInit
    BY DEF Init, Log!LogInit
  <1>2. CoreInv /\ [Next]_vars => [Log!LogNext]_(Log!logVars)
    <2> SUFFICES ASSUME CoreInv, [Next]_vars PROVE [Log!LogNext]_(Log!logVars)
      OBVIOUS
    <2>1. CASE \E h \in Handlers : Step(h) \/ LimitBatch(h) \/ Fail(h)
      BY <2>1, StepImplements
    <2>2. CASE DeleteExpiredEvents
      <3>1. PICK S \in SUBSET (oldEvents \cap events) : events' = events \ S
        BY <2>2 DEF DeleteExpiredEvents
      <3>2. S \in SUBSET Events BY DEF CoreInv, TypeOK
      <3> QED BY <2>2, <3>1, <3>2 DEF DeleteExpiredEvents, Log!LogNext, Log!Expire, clients
    <2>3. CASE ~DeleteExpiredEvents /\ ~(\E h \in Handlers : Step(h) \/ LimitBatch(h) \/ Fail(h))
      <3>1. UNCHANGED <<events, stored, noted, acked>>
        BY <2>3 DEF Next, Sweep, Register, ClientTimeout, AgeInstall, Send, AgeEvent,
           StartCleanup, DeleteRow, DeleteUnactivatedInstallations, CleanupFails,
           ChangeProject, Crash, vars, tables, clients
      <3> QED BY <3>1 DEF Log!logVars
    <2> QED BY <2>1, <2>2, <2>3
  <1> QED BY <1>1, <1>2, CoreInvariance, PTL DEF Spec, ImplementsEventLog, Log!LogSpec

=============================================================================
