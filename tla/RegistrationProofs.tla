------------------------- MODULE RegistrationProofs -------------------------
(***************************************************************************)
(* Proofs about Registration, for any number of handlers, install ids,     *)
(* credentials and days, and any cap.                                      *)
(***************************************************************************)
EXTENDS Registration, FiniteSetTheorems, TLAPS

\* What a step of request r does to the tables it does not write: the parts
\* of the invariant about rows and counters survive any step that leaves the
\* tables alone and moves r to a stage where it holds nothing.
LEMMA ReleasePreserves ==
    ASSUME IInv, NEW r \in Requests, UNCHANGED tables,
           NEW q \in RequestType, req' = [req EXCEPT ![r] = q],
           q.pc \notin {"insert", "commit"},
           q.pc \notin {"idle", "done"} => q.install \in Installs /\ q.cred \in Credentials,
           q.pc = "upsert" => q.day \in Days,
           q.pc \in {"admit", "environment", "select", "count"} => q.day = None,
           ~q.creates
    PROVE  IInv'
  <1>1. TypeOK' BY DEF IInv, TypeOK, tables
  <1>2. /\ req'[r] = q
        /\ \A o \in Requests : o # r => req'[o] = req[o]
    BY DEF IInv, TypeOK
  <1>3. Carries' BY <1>2 DEF IInv, Carries
  <1>4. HoldsWhatItSaw' BY <1>2 DEF IInv, HoldsWhatItSaw, tables
  <1>5. OneInserter' BY <1>2 DEF IInv, OneInserter, InsertsRow
  <1>6. HasRoom' BY <1>2 DEF IInv, HasRoom, tables
  <1>7. OneCounter' BY <1>2 DEF IInv, OneCounter, LocksCounter
  <1>8. CountersCoverRows' BY DEF IInv, CountersCoverRows, ChargedTo, tables
  <1>9. Charged' BY DEF IInv, Charged, tables
  <1> QED BY <1>1, <1>3, <1>4, <1>5, <1>6, <1>7, <1>8, <1>9 DEF IInv

\* A request that is answered holds nothing any more.
LEMMA AnswerPreserves ==
    ASSUME IInv, NEW r \in Requests, NEW a \in Answers, UNCHANGED tables, AnswerWith(r, a)
    PROVE  IInv'
  <1> DEFINE q == [req[r] EXCEPT !.pc = "done", !.answer = a, !.day = None, !.creates = FALSE]
  <1>1. req \in [Requests -> RequestType] BY DEF IInv, TypeOK
  <1>2. q \in RequestType /\ q.pc = "done" /\ ~q.creates BY <1>1 DEF RequestType, Stages, Answers
  <1>3. req' = [req EXCEPT ![r] = q] BY <1>1 DEF AnswerWith
  <1> QED BY <1>2, <1>3, ReleasePreserves

\* Moving on to a stage that holds no lock.
LEMMA GotoPreserves ==
    ASSUME IInv, NEW r \in Requests, UNCHANGED tables,
           NEW s \in {"environment", "select", "count"}, Goto(r, s),
           req[r].pc \in {"admit", "environment", "select"}
    PROVE  IInv'
  <1> DEFINE q == [req[r] EXCEPT !.pc = s]
  <1>1. req \in [Requests -> RequestType] BY DEF IInv, TypeOK
  <1>2. q \in RequestType /\ q.pc = s /\ q.install = req[r].install
        /\ q.cred = req[r].cred /\ q.day = req[r].day /\ q.creates = req[r].creates
    BY <1>1 DEF RequestType, Stages
  <1>3. req' = [req EXCEPT ![r] = q] BY <1>1 DEF Goto
  <1>4. q.install \in Installs /\ q.cred \in Credentials /\ q.day = None /\ ~q.creates
    BY <1>1, <1>2 DEF IInv, Carries, RequestType, Stages
  <1> QED BY <1>2, <1>3, <1>4, ReleasePreserves

\* A new request holds nothing.
LEMMA ReceivePreserves ==
    ASSUME IInv, NEW r \in Requests, NEW i \in Installs, NEW c \in Credentials, Receive(r, i, c)
    PROVE  IInv'
  <1> DEFINE q == [IdleRequest EXCEPT !.pc = "admit", !.install = i, !.cred = c]
  <1>1. /\ q \in RequestType /\ q.pc = "admit"
        /\ q.install = i /\ q.cred = c /\ q.day = None /\ ~q.creates
    BY DEF RequestType, IdleRequest, Stages, Answers
  <1>2. req' = [req EXCEPT ![r] = q] /\ UNCHANGED tables BY DEF Receive
  <1> QED BY <1>1, <1>2, ReleasePreserves

\* A handler that returns holds nothing.
LEMMA ReplyPreserves ==
    ASSUME IInv, NEW r \in Requests, Reply(r)
    PROVE  IInv'
  <1>1. IdleRequest \in RequestType /\ IdleRequest.pc = "idle" /\ ~IdleRequest.creates
    BY DEF RequestType, IdleRequest, Stages
  <1> QED BY <1>1, ReleasePreserves DEF Reply

\* createOrVerifyInstallation locks the row it found, and only with its
\* credential.
LEMMA SelectPreserves ==
    ASSUME IInv, NEW r \in Requests, CreateOrVerifyInstallation(r)
    PROVE  IInv'
  <1> DEFINE i == req[r].install
  <1>0. /\ req \in [Requests -> RequestType]
        /\ i \in Installs /\ req[r].pc = "select" /\ UNCHANGED tables
    BY DEF IInv, TypeOK, Carries, CreateOrVerifyInstallation
  <1>1. CASE installations[i] = None /\ Goto(r, "count")
    BY <1>0, <1>1, GotoPreserves DEF Stages
  <1>2. CASE installations[i] \notin {None, req[r].cred} /\ AnswerWith(r, "conflict")
    BY <1>0, <1>2, AnswerPreserves DEF Answers
  <1>3. CASE installations[i] = req[r].cred /\ Goto(r, "commit")
    <2>1. PICK q \in RequestType : /\ q = [req[r] EXCEPT !.pc = "commit"]
                                   /\ req' = [req EXCEPT ![r] = q]
      BY <1>0, <1>3 DEF Goto, RequestType, Stages
    <2>2. /\ req'[r].pc = "commit"
          /\ req'[r].install = i /\ req'[r].cred = req[r].cred
          /\ req'[r].creates = req[r].creates /\ req'[r].day = req[r].day
          /\ \A o \in Requests : o # r => req'[o] = req[o]
      BY <1>0, <2>1 DEF RequestType
    <2>3. req[r].creates = FALSE /\ req[r].day = None
      BY <1>0 DEF IInv, Carries, RequestType
    <2>4. TypeOK' BY <1>0, <2>1 DEF IInv, TypeOK, tables
    <2>5. Carries' BY <1>0, <2>2, <2>3 DEF IInv, Carries
    <2>6. HoldsWhatItSaw' BY <1>0, <1>3, <2>2, <2>3 DEF IInv, HoldsWhatItSaw, tables
    <2>7. OneInserter' BY <2>2, <2>3 DEF IInv, OneInserter, InsertsRow
    <2>8. HasRoom' BY <1>0, <2>2, <2>3 DEF IInv, HasRoom, tables
    <2>9. OneCounter'
      BY <2>2, <2>3, ConstantsAssumption DEF IInv, OneCounter, LocksCounter, Days
    <2>10. CountersCoverRows' BY <1>0 DEF IInv, CountersCoverRows, ChargedTo, tables
    <2>11. Charged' BY <1>0 DEF IInv, Charged, tables
    <2> QED BY <2>4, <2>5, <2>6, <2>7, <2>8, <2>9, <2>10, <2>11 DEF IInv
  <1> QED BY <1>1, <1>2, <1>3 DEF CreateOrVerifyInstallation

\* Choosing the day takes no lock.
LEMMA StartCountingPreserves ==
    ASSUME IInv, NEW r \in Requests, StartCounting(r)
    PROVE  IInv'
  <1> DEFINE q == [req[r] EXCEPT !.pc = "upsert", !.day = day]
  <1>1. req \in [Requests -> RequestType] /\ day \in Days BY DEF IInv, TypeOK
  <1>2. /\ q \in RequestType /\ q.pc = "upsert" /\ q.day \in Days
        /\ q.install = req[r].install /\ q.cred = req[r].cred /\ q.creates = req[r].creates
    BY <1>1 DEF RequestType, Stages
  <1>3. req' = [req EXCEPT ![r] = q] /\ UNCHANGED tables /\ req[r].pc = "count"
    BY <1>1 DEF StartCounting
  <1>4. q.install \in Installs /\ q.cred \in Credentials /\ ~q.creates
    BY <1>1, <1>2, <1>3 DEF IInv, Carries, RequestType
  <1> QED BY <1>2, <1>3, <1>4, ReleasePreserves

\* The counter has room for the transaction that holds it.
LEMMA UpsertPreserves ==
    ASSUME IInv, NEW r \in Requests, UpsertCounter(r)
    PROVE  IInv'
  <1> DEFINE d == req[r].day
  <1>0. /\ req \in [Requests -> RequestType] /\ req[r].pc = "upsert"
        /\ UNCHANGED tables /\ d \in Days /\ ~req[r].creates
        /\ counters \in [Days -> Nat]
    BY DEF IInv, TypeOK, Carries, UpsertCounter, RequestType
  <1>1. CASE AnswerWith(r, "limited")
    BY <1>0, <1>1, AnswerPreserves DEF Answers
  <1>2. CASE ~(counters[d] + 1 > DailyRegistrationCap) /\ Goto(r, "insert")
    <2>1. PICK q \in RequestType : /\ q = [req[r] EXCEPT !.pc = "insert"]
                                   /\ req' = [req EXCEPT ![r] = q]
      BY <1>0, <1>2 DEF Goto, RequestType, Stages
    <2>2. /\ req'[r].pc = "insert"
          /\ req'[r].install = req[r].install /\ req'[r].cred = req[r].cred
          /\ req'[r].creates = req[r].creates /\ req'[r].day = req[r].day
          /\ \A o \in Requests : o # r => req'[o] = req[o]
      BY <1>0, <2>1 DEF RequestType
    <2>3. \A o \in Others(r) : ~LocksCounter(o, d) BY DEF UpsertCounter
    <2>4. TypeOK' BY <1>0, <2>1 DEF IInv, TypeOK, tables
    <2>5. Carries' BY <1>0, <2>2 DEF IInv, Carries
    <2>6. HoldsWhatItSaw' BY <1>0, <2>2 DEF IInv, HoldsWhatItSaw, tables
    <2>7. OneInserter' BY <1>0, <2>2 DEF IInv, OneInserter, InsertsRow
    <2>8. HasRoom' BY <1>0, <1>2, <2>2, ConstantsAssumption DEF IInv, HasRoom, tables
    <2>9. OneCounter' BY <1>0, <2>2, <2>3 DEF IInv, OneCounter, LocksCounter, Others
    <2>10. CountersCoverRows' BY <1>0 DEF IInv, CountersCoverRows, ChargedTo, tables
    <2>11. Charged' BY <1>0 DEF IInv, Charged, tables
    <2> QED BY <2>4, <2>5, <2>6, <2>7, <2>8, <2>9, <2>10, <2>11 DEF IInv
  <1> QED BY <1>1, <1>2 DEF UpsertCounter

\* An insert goes on only where there is no row and no other insert.
LEMMA InsertPreserves ==
    ASSUME IInv, NEW r \in Requests, InsertInstallation(r)
    PROVE  IInv'
  <1> DEFINE i == req[r].install
  <1>0. /\ req \in [Requests -> RequestType] /\ req[r].pc = "insert"
        /\ UNCHANGED tables /\ i \in Installs
    BY DEF IInv, TypeOK, Carries, InsertInstallation
  <1>1. CASE AnswerWith(r, "duplicate_key")
    BY <1>0, <1>1, AnswerPreserves DEF Answers
  <1>2. CASE /\ installations[i] = None
             /\ req' = [req EXCEPT ![r].pc = "commit", ![r].creates = TRUE]
    <2> DEFINE q == [req[r] EXCEPT !.pc = "commit", !.creates = TRUE]
    <2>1. q \in RequestType /\ req' = [req EXCEPT ![r] = q]
      <3>1. q \in RequestType BY <1>0 DEF RequestType, Stages
      <3>2. req' = [req EXCEPT ![r] = q] BY <1>0, <1>2
      <3> QED BY <3>1, <3>2
    <2>2. /\ req'[r].pc = "commit" /\ req'[r].creates
          /\ req'[r].install = i /\ req'[r].cred = req[r].cred /\ req'[r].day = req[r].day
          /\ \A o \in Requests : o # r => req'[o] = req[o]
      BY <1>0, <2>1 DEF RequestType
    <2> HIDE DEF q
    <2>3. \A o \in Others(r) : ~InsertsRow(o, i) BY DEF InsertInstallation
    <2>4. TypeOK' BY <1>0, <2>1 DEF IInv, TypeOK, tables
    <2>5. Carries' BY <1>0, <2>2 DEF IInv, Carries
    <2>6. HoldsWhatItSaw' BY <1>0, <1>2, <2>2 DEF IInv, HoldsWhatItSaw, tables
    <2>7. OneInserter' BY <1>0, <2>2, <2>3 DEF IInv, OneInserter, InsertsRow, Others
    <2>8. HasRoom' BY <1>0, <2>2 DEF IInv, HasRoom, tables
    <2>9. OneCounter' BY <1>0, <2>2 DEF IInv, OneCounter, LocksCounter
    <2>10. CountersCoverRows' BY <1>0 DEF IInv, CountersCoverRows, ChargedTo, tables
    <2>11. Charged' BY <1>0 DEF IInv, Charged, tables
    <2> QED BY <2>4, <2>5, <2>6, <2>7, <2>8, <2>9, <2>10, <2>11 DEF IInv
  <1> QED BY <1>1, <1>2 DEF InsertInstallation

\* The commit writes the row and its counter together: one more row charged to
\* the day, one more on the day's counter, which had room and is locked.
LEMMA CommitPreserves ==
    ASSUME IInv, NEW r \in Requests, Commit(r)
    PROVE  IInv'
  <1> DEFINE i == req[r].install
             d == req[r].day
             q == [req[r] EXCEPT !.pc = "policy", !.day = None, !.creates = FALSE]
  <1>0. /\ req \in [Requests -> RequestType] /\ req[r].pc = "commit"
        /\ i \in Installs /\ req[r].cred \in Credentials
        /\ counters \in [Days -> Nat] /\ UNCHANGED <<enabled, day>>
    BY DEF IInv, TypeOK, Carries, Commit
  <1>1. q \in RequestType /\ q.pc = "policy" /\ ~q.creates /\ q.day = None
        /\ q.install = i /\ q.cred = req[r].cred
    BY <1>0 DEF RequestType, Stages
  <1>2. req' = [req EXCEPT ![r] = q] BY <1>0 DEF Commit
  <1> HIDE DEF q
  <1>3. CASE ~req[r].creates
    <2>1. UNCHANGED tables BY <1>0, <1>3 DEF Commit, tables
    <2> QED BY <1>0, <1>1, <1>2, <2>1, ReleasePreserves
  <1>4. CASE req[r].creates
    <2>1. /\ installations' = [installations EXCEPT ![i] = req[r].cred]
          /\ chargedOn' = [chargedOn EXCEPT ![i] = d]
          /\ counters' = [counters EXCEPT ![d] = @ + 1]
      BY <1>4 DEF Commit
    <2>2. /\ req'[r] = q
          /\ \A o \in Requests : o # r => req'[o] = req[o]
      BY <1>0, <1>2
    <2>3. /\ installations[i] = None /\ chargedOn[i] = None
          /\ d \in Days /\ counters[d] < DailyRegistrationCap
      BY <1>0, <1>4 DEF IInv, HoldsWhatItSaw, HasRoom, Charged
    <2>4. \A o \in Requests : o # r => ~LocksCounter(o, d) /\ ~InsertsRow(o, i)
      BY <1>0, <1>4, <2>3 DEF IInv, OneCounter, LocksCounter, OneInserter, InsertsRow
    <2>5. \A o \in Requests : o # r => ~LocksRow(o, i)
      BY <1>0, <2>3, ConstantsAssumption DEF IInv, HoldsWhatItSaw, LocksRow, Carries
    <2>6. TypeOK'
      <3>1. req' \in [Requests -> RequestType] BY <1>0, <1>1, <1>2
      <3>2. /\ installations' \in [Installs -> Credentials \cup {None}]
            /\ chargedOn' \in [Installs -> Days \cup {None}]
            /\ counters' \in [Days -> Nat]
        BY <1>0, <2>1, <2>3 DEF IInv, TypeOK
      <3> QED BY <1>0, <3>1, <3>2 DEF IInv, TypeOK
    <2>7. Carries' BY <1>0, <1>1, <2>2 DEF IInv, Carries
    <2>8. HoldsWhatItSaw'
      <3>1. SUFFICES ASSUME NEW o \in Requests, req'[o].pc = "commit"
                     PROVE  /\ req'[o].install \in Installs
                            /\ installations'[req'[o].install]
                                  = IF req'[o].creates THEN None ELSE req'[o].cred
        BY DEF HoldsWhatItSaw
      <3>2. o # r /\ req'[o] = req[o] BY <1>1, <2>2, <3>1
      <3>3. req[o].install # i BY <2>4, <2>5, <3>1, <3>2 DEF LocksRow, InsertsRow
      <3>4. installations'[req[o].install] = installations[req[o].install]
        BY <1>0, <2>1, <3>1, <3>2, <3>3 DEF IInv, TypeOK, HoldsWhatItSaw
      <3> QED BY <3>1, <3>2, <3>4 DEF IInv, HoldsWhatItSaw
    <2>9. OneInserter' BY <1>1, <2>2 DEF IInv, OneInserter, InsertsRow
    <2>10. HasRoom'
      <3>1. SUFFICES ASSUME NEW o \in Requests,
                            req'[o].pc = "insert" \/ (req'[o].pc = "commit" /\ req'[o].creates)
                     PROVE  /\ req'[o].day \in Days
                            /\ counters'[req'[o].day] < DailyRegistrationCap
        BY DEF HasRoom
      <3>2. o # r /\ req'[o] = req[o] BY <1>1, <2>2, <3>1
      <3>3. req[o].day # d /\ req[o].day \in Days
        BY <2>4, <3>1, <3>2 DEF LocksCounter, IInv, HasRoom
      <3>4. counters'[req[o].day] = counters[req[o].day] BY <1>0, <2>1, <3>3
      <3> QED BY <3>1, <3>2, <3>3, <3>4 DEF IInv, HasRoom
    <2>11. OneCounter' BY <1>1, <2>2 DEF IInv, OneCounter, LocksCounter
    <2>12. CountersCoverRows'
      <3>1. SUFFICES ASSUME NEW e \in Days
                     PROVE  /\ Cardinality(ChargedTo(e)') <= counters'[e]
                            /\ counters'[e] <= DailyRegistrationCap
        BY DEF CountersCoverRows
      <3>2. IsFiniteSet(ChargedTo(e)) /\ Cardinality(ChargedTo(e)) \in Nat
        BY ConstantsAssumption, FS_Subset, FS_CardinalityType DEF ChargedTo
      <3>3. CASE e = d
        <4>1. ChargedTo(e)' = ChargedTo(e) \cup {i} /\ i \notin ChargedTo(e)
          BY <1>0, <2>1, <2>3, <3>3, ConstantsAssumption DEF ChargedTo, IInv, TypeOK, Days
        <4>2. Cardinality(ChargedTo(e)') = Cardinality(ChargedTo(e)) + 1
          BY <3>2, <4>1, FS_AddElement
        <4>3. counters'[e] = counters[e] + 1 BY <1>0, <2>1, <2>3, <3>3
        <4> QED BY <1>0, <2>3, <3>2, <3>3, <4>2, <4>3, ConstantsAssumption DEF IInv, CountersCoverRows
      <3>4. CASE e # d
        <4>1. ChargedTo(e)' = ChargedTo(e)
          BY <1>0, <2>1, <2>3, <3>4, ConstantsAssumption DEF ChargedTo, IInv, TypeOK, Days
        <4>2. counters'[e] = counters[e] BY <1>0, <2>1, <3>4
        <4> QED BY <4>1, <4>2 DEF IInv, CountersCoverRows
      <3> QED BY <3>3, <3>4
    <2>13. Charged'
      BY <1>0, <2>1, <2>3, ConstantsAssumption DEF IInv, TypeOK, Charged, Days
    <2> QED BY <2>6, <2>7, <2>8, <2>9, <2>10, <2>11, <2>12, <2>13 DEF IInv
  <1> QED BY <1>3, <1>4

\* A sweep takes a row away that no request holds; counters keep counting it.
LEMMA SweepPreserves ==
    ASSUME IInv, NEW i \in Installs, SweepInstallation(i)
    PROVE  IInv'
  <1>1. /\ installations' = [installations EXCEPT ![i] = None]
        /\ chargedOn' = [chargedOn EXCEPT ![i] = None]
        /\ UNCHANGED <<enabled, counters, day, req>>
        /\ \A r \in Requests : ~LocksRow(r, i)
    BY DEF SweepInstallation
  <1>2. TypeOK' BY <1>1 DEF IInv, TypeOK
  <1>3. Carries' BY <1>1 DEF IInv, Carries
  <1>4. HoldsWhatItSaw' BY <1>1 DEF IInv, TypeOK, HoldsWhatItSaw, LocksRow
  <1>5. OneInserter' BY <1>1 DEF IInv, OneInserter, InsertsRow
  <1>6. HasRoom' BY <1>1 DEF IInv, HasRoom
  <1>7. OneCounter' BY <1>1 DEF IInv, OneCounter, LocksCounter
  <1>8. CountersCoverRows'
    <2>1. SUFFICES ASSUME NEW d \in Days
                   PROVE  /\ Cardinality(ChargedTo(d)') <= counters[d]
                          /\ counters[d] <= DailyRegistrationCap
      BY <1>1 DEF CountersCoverRows
    <2>2. IsFiniteSet(ChargedTo(d)) /\ Cardinality(ChargedTo(d)) \in Nat
      BY ConstantsAssumption, FS_Subset, FS_CardinalityType DEF ChargedTo
    <2>3. ChargedTo(d)' \subseteq ChargedTo(d)
      BY <1>1, ConstantsAssumption DEF ChargedTo, IInv, TypeOK, Days
    <2>4. /\ Cardinality(ChargedTo(d)') <= Cardinality(ChargedTo(d))
          /\ IsFiniteSet(ChargedTo(d)')
      BY <2>2, <2>3, FS_Subset
    <2>5. Cardinality(ChargedTo(d)') \in Nat BY <2>4, FS_CardinalityType
    <2> QED BY <2>2, <2>4, <2>5 DEF IInv, TypeOK, CountersCoverRows
  <1>9. Charged' BY <1>1 DEF IInv, TypeOK, Charged
  <1> QED BY <1>2, <1>3, <1>4, <1>5, <1>6, <1>7, <1>8, <1>9 DEF IInv

\* A crash gives up every lock.
LEMMA CrashPreserves ==
    ASSUME IInv, Crash
    PROVE  IInv'
  <1>1. /\ \A r \in Requests : req'[r] = IdleRequest
        /\ IdleRequest.pc = "idle" /\ ~IdleRequest.creates
    BY DEF Crash, IdleRequest
  <1>2. IdleRequest \in RequestType BY DEF RequestType, IdleRequest, Stages
  <1>3. TypeOK' BY <1>2 DEF IInv, TypeOK, Crash, tables
  <1>4. Carries' BY <1>1 DEF Carries
  <1>5. HoldsWhatItSaw' BY <1>1 DEF HoldsWhatItSaw
  <1>6. OneInserter' BY <1>1 DEF OneInserter, InsertsRow
  <1>7. HasRoom' BY <1>1 DEF HasRoom
  <1>8. OneCounter' BY <1>1 DEF OneCounter, LocksCounter
  <1>9. CountersCoverRows' BY DEF IInv, CountersCoverRows, ChargedTo, Crash, tables
  <1>10. Charged' BY DEF IInv, Charged, Crash, tables
  <1> QED BY <1>3, <1>4, <1>5, <1>6, <1>7, <1>8, <1>9, <1>10 DEF IInv

\* The clock and the project switch touch neither rows nor requests.
LEMMA EnvironmentPreserves ==
    ASSUME IInv, SetEnabled \/ NextDay \/ UNCHANGED vars
    PROVE  IInv'
  <1>1. /\ UNCHANGED <<installations, chargedOn, counters, req>>
        /\ enabled' \in BOOLEAN /\ day' \in Days
    <2>1. UNCHANGED <<installations, chargedOn, counters, req>>
      BY DEF SetEnabled, NextDay, vars
    <2>2. enabled' \in BOOLEAN BY Zenon DEF IInv, TypeOK, SetEnabled, NextDay, vars
    <2>3. day' \in Days
      BY ConstantsAssumption DEF IInv, TypeOK, SetEnabled, NextDay, vars, Days
    <2> QED BY <2>1, <2>2, <2>3
  <1>2. TypeOK' BY <1>1 DEF IInv, TypeOK
  <1>3. Carries' BY <1>1 DEF IInv, Carries
  <1>4. HoldsWhatItSaw' BY <1>1 DEF IInv, HoldsWhatItSaw
  <1>5. OneInserter' BY <1>1 DEF IInv, OneInserter, InsertsRow
  <1>6. HasRoom' BY <1>1 DEF IInv, HasRoom
  <1>7. OneCounter' BY <1>1 DEF IInv, OneCounter, LocksCounter
  <1>8. CountersCoverRows' BY <1>1 DEF IInv, CountersCoverRows, ChargedTo
  <1>9. Charged' BY <1>1 DEF IInv, Charged
  <1> QED BY <1>2, <1>3, <1>4, <1>5, <1>6, <1>7, <1>8, <1>9 DEF IInv

\* The initial state satisfies the inductive invariant.
LEMMA InitEstablishes == Init => IInv
  <1> SUFFICES ASSUME Init PROVE IInv OBVIOUS
  <1>1. IdleRequest \in RequestType /\ IdleRequest.pc = "idle" /\ ~IdleRequest.creates
    BY DEF IdleRequest, RequestType, Stages
  <1>2. \A r \in Requests : req[r] = IdleRequest BY DEF Init
  <1>3. TypeOK BY <1>1, ConstantsAssumption DEF Init, TypeOK, Days
  <1>4. Carries BY <1>1, <1>2 DEF Carries
  <1>5. HoldsWhatItSaw /\ HasRoom BY <1>1, <1>2 DEF HoldsWhatItSaw, HasRoom
  <1>6. OneInserter BY <1>1, <1>2 DEF OneInserter, InsertsRow
  <1>7. OneCounter BY <1>1, <1>2 DEF OneCounter, LocksCounter
  <1>8. CountersCoverRows
    <2>1. \A d \in Days : ChargedTo(d) = {}
      BY ConstantsAssumption DEF Init, ChargedTo, Days
    <2>2. Cardinality({}) = 0 BY FS_EmptySet
    <2> QED BY <2>1, <2>2, ConstantsAssumption DEF Init, CountersCoverRows
  <1>9. Charged BY DEF Init, Charged
  <1> QED BY <1>3, <1>4, <1>5, <1>6, <1>7, <1>8, <1>9 DEF IInv

\* Every step of a request preserves the inductive invariant.
LEMMA StepPreserves ==
    ASSUME IInv, [Next]_vars
    PROVE  IInv'
  <1>1. ASSUME NEW r \in Requests, Step(r) PROVE IInv'
    <2>1. CASE AdmitRegistration(r)
      BY <2>1, GotoPreserves, AnswerPreserves DEF AdmitRegistration, Answers
    <2>2. CASE RegistrationEnvironment(r)
      BY <2>2, GotoPreserves, AnswerPreserves DEF RegistrationEnvironment, Answers
    <2>3. CASE CreateOrVerifyInstallation(r) BY <2>3, SelectPreserves
    <2>4. CASE StartCounting(r) BY <2>4, StartCountingPreserves
    <2>5. CASE UpsertCounter(r) BY <2>5, UpsertPreserves
    <2>6. CASE InsertInstallation(r) BY <2>6, InsertPreserves
    <2>7. CASE Commit(r) BY <2>7, CommitPreserves
    <2>8. CASE MatchPolicyAudited(r) BY <2>8, AnswerPreserves DEF MatchPolicyAudited, Answers
    <2>9. CASE Reply(r) BY <2>9, ReplyPreserves
    <2> QED BY <1>1, <2>1, <2>2, <2>3, <2>4, <2>5, <2>6, <2>7, <2>8, <2>9 DEF Step
  <1>2. ASSUME NEW r \in Requests, Fail(r) PROVE IInv'
    BY <1>2, AnswerPreserves DEF Fail, Answers
  <1> QED BY <1>1, <1>2, ReceivePreserves, SweepPreserves, CrashPreserves,
             EnvironmentPreserves DEF Next

\* Every reachable state satisfies the inductive invariant, the type
\* invariant among its parts.
THEOREM Invariance == Spec => []IInv
  BY InitEstablishes, StepPreserves, PTL DEF Spec

\* However many registrations race, roll back or cross midnight, the rows
\* charged to a day never exceed DailyRegistrationCap.
THEOREM CapHolds == Spec => []CapRespected
  <1>1. IInv => CapRespected
    <2> SUFFICES ASSUME IInv, NEW d \in Days
                 PROVE  Cardinality(ChargedTo(d)) <= DailyRegistrationCap
      BY DEF CapRespected
    <2>1. Cardinality(ChargedTo(d)) \in Nat
      BY ConstantsAssumption, FS_Subset, FS_CardinalityType DEF ChargedTo
    <2> QED BY <2>1, ConstantsAssumption DEF IInv, TypeOK, CountersCoverRows
  <1> QED BY <1>1, Invariance, PTL

\* Only its own commit takes a request from "commit" to "policy".
LEMMA OnlyCommitCommits ==
    ASSUME TypeOK, Next, NEW r \in Requests, req[r].pc = "commit", req'[r].pc = "policy"
    PROVE  Commit(r)
  <1>0. req \in [Requests -> RequestType] BY DEF TypeOK
  <1>1. ASSUME NEW o \in Requests, Step(o) PROVE Commit(r)
    <2>1. CASE AdmitRegistration(o)
      BY <1>0, <2>1 DEF AdmitRegistration, Goto, AnswerWith, RequestType
    <2>2. CASE RegistrationEnvironment(o)
      BY <1>0, <2>2 DEF RegistrationEnvironment, Goto, AnswerWith, RequestType
    <2>3. CASE CreateOrVerifyInstallation(o)
      BY <1>0, <2>3 DEF CreateOrVerifyInstallation, Goto, AnswerWith, RequestType
    <2>4. CASE StartCounting(o) BY <1>0, <2>4 DEF StartCounting, RequestType
    <2>5. CASE UpsertCounter(o)
      BY <1>0, <2>5 DEF UpsertCounter, Goto, AnswerWith, RequestType
    <2>6. CASE InsertInstallation(o)
      BY <1>0, <2>6 DEF InsertInstallation, AnswerWith, RequestType
    <2>7. CASE Commit(o)
      <3>1. CASE o = r BY <2>7, <3>1
      <3>2. CASE o # r
        <4>1. req'[r] = req[r] BY <1>0, <2>7, <3>2 DEF Commit
        <4> QED BY <4>1
      <3> QED BY <3>1, <3>2
    <2>8. CASE MatchPolicyAudited(o)
      BY <1>0, <2>8 DEF MatchPolicyAudited, AnswerWith, RequestType
    <2>9. CASE Reply(o) BY <1>0, <2>9 DEF Reply, IdleRequest
    <2> QED BY <1>1, <2>1, <2>2, <2>3, <2>4, <2>5, <2>6, <2>7, <2>8, <2>9 DEF Step
  <1>2. ASSUME NEW o \in Requests, Fail(o) PROVE FALSE
    BY <1>0, <1>2 DEF Fail, AnswerWith, RequestType
  <1>3. ASSUME NEW o \in Requests, NEW i \in Installs, NEW c \in Credentials, Receive(o, i, c)
        PROVE  FALSE
    BY <1>0, <1>3 DEF Receive, IdleRequest
  <1>4. ~Crash BY DEF Crash, IdleRequest
  <1>5. ASSUME NEW i \in Installs, SweepInstallation(i) PROVE FALSE
    BY <1>5 DEF SweepInstallation
  <1>6. ~SetEnabled /\ ~NextDay BY DEF SetEnabled, NextDay
  <1> QED BY <1>1, <1>2, <1>3, <1>4, <1>5, <1>6 DEF Next

\* A committed registration finds the credential it presented in the row:
\* no racing registration and no sweep makes its success a false one.
THEOREM CommitHoldsForOwner == Spec => CommitsOnlyForOwner
  <1>1. IInv /\ [Next]_vars =>
          [\A r \in Requests :
             (req[r].pc = "commit" /\ req'[r].pc = "policy")
                => installations'[req[r].install] = req[r].cred]_vars
    <2> SUFFICES ASSUME IInv, Next, NEW r \in Requests,
                        req[r].pc = "commit", req'[r].pc = "policy"
                 PROVE  installations'[req[r].install] = req[r].cred
      BY DEF vars
    <2>1. Commit(r) BY OnlyCommitCommits DEF IInv
    <2> QED BY <2>1 DEF Commit, IInv, TypeOK, HoldsWhatItSaw
  <1> QED BY <1>1, Invariance, PTL DEF CommitsOnlyForOwner, Spec

\* A stored credential is never replaced, only swept with its row.
THEOREM CredentialNeverReplaced == Spec => CredentialImmutable
  <1>1. IInv /\ [Next]_vars =>
          [\A i \in Installs :
             installations[i] # None => installations'[i] \in {installations[i], None}]_vars
    <2> SUFFICES ASSUME IInv, Next, NEW i \in Installs, installations[i] # None
                 PROVE  installations'[i] \in {installations[i], None}
      BY DEF vars
    <2>1. ASSUME NEW r \in Requests, Commit(r)
          PROVE  installations'[i] \in {installations[i], None}
      BY <2>1 DEF Commit, IInv, TypeOK, HoldsWhatItSaw
    <2>2. ASSUME NEW r \in Requests, Step(r) \/ Fail(r), ~Commit(r)
          PROVE  UNCHANGED installations
      BY <2>2 DEF Step, Fail, AdmitRegistration, RegistrationEnvironment,
           CreateOrVerifyInstallation, StartCounting, UpsertCounter, InsertInstallation,
           MatchPolicyAudited, Reply, tables
    <2>3. ASSUME NEW o \in Installs, SweepInstallation(o)
          PROVE  installations'[i] \in {installations[i], None}
      BY <2>3 DEF SweepInstallation, IInv, TypeOK
    <2>4. ASSUME \/ \E r \in Requests, j \in Installs, c \in Credentials : Receive(r, j, c)
                 \/ Crash \/ SetEnabled \/ NextDay
          PROVE  UNCHANGED installations
      BY <2>4 DEF Receive, Crash, SetEnabled, NextDay, tables
    <2> QED BY <2>1, <2>2, <2>3, <2>4 DEF Next
  <1> QED BY <1>1, Invariance, PTL DEF CredentialImmutable, Spec

=============================================================================
