----------------------- MODULE ProjectLifecycleProofs -----------------------
(* Proofs about ProjectLifecycle, for any number of owners and writers. *)
EXTENDS ProjectLifecycle, TLAPS

\* The lists by position: what the provers need of the two sequences.
LEMMA Lists ==
    /\ Len(PurgeQueries) = 10 /\ PurgeQueries[10] = "projects"
    /\ \A k \in 1..9 : PurgeQueries[k] \in Tables
    /\ Len(AfterCommit) = 5
    /\ \A k \in 1..5 : AfterCommit[k] \in Tables
  BY DEF PurgeQueries, AfterCommit, Tables, References

\* Which tables reference projects, and which do not.
LEMMA TableKinds ==
    /\ Tables = References \cup {"events", "admin_audit_log"}
    /\ "events" \notin References /\ "admin_audit_log" \notin References
    /\ "installations" \in References /\ "projects" \notin Tables
    /\ "daily_registration_counters" \in References /\ "event_catalog" \in References
  BY DEF Tables, References

\* The resting states are well typed.
LEMMA IdleTypes == IdlePurge \in PurgeType /\ IdleWriter \in WriterType
  BY Lists DEF IdlePurge, IdleWriter, PurgeType, WriterType

\* A step of one writer that commits nothing: all that matters is what it
\* has locked by then.
LEMMA WriterMoves ==
    ASSUME IInv, NEW w \in Writers, NEW x \in WriterType, SetWriter(w, x),
           UNCHANGED <<project, rows, auditing, purge>>,
           Covered(x), x.pc # "idle" => project # "absent",
           x.key => ProjectFree \/ writer[w].key
    PROVE  IInv'
<1>1. TypeOK'
  BY DEF IInv, TypeOK, SetWriter
<1>2. writer' = [writer EXCEPT ![w] = x] /\ \A v \in Writers \ {w} : writer'[v] = writer[v]
  BY DEF IInv, TypeOK, SetWriter
<1>3. writer'[w] = x
  BY <1>2 DEF IInv, TypeOK
<1>4. PurgeInv'
  BY <1>2, <1>3 DEF IInv, PurgeInv, HoldsProject, ProjectFree
<1>5. WriterInv'
  BY <1>2, <1>3 DEF IInv, WriterInv, Covered, Lockable
<1>6. ClearedInv' /\ NothingLeftBehind'
  BY <1>2, <1>3 DEF IInv, ClearedInv, NothingLeftBehind, Left
<1> QED
  BY <1>1, <1>4, <1>5, <1>6 DEF IInv

\* From x to y a writer keeps its locks and uncommitted rows, or gives up all.
Settles(x, y) ==
    /\ y.step <= y.last
    /\ \/ y.held = x.held /\ y.wrote = x.wrote /\ y.key = x.key
       \/ y.held = {} /\ y.wrote = {} /\ ~y.key

\* Any step that commits new rows, of a writer that then holds no lock or of
\* a statement on its own.
LEMMA StoreStep ==
    ASSUME IInv, NEW T \in SUBSET Tables, Store(T), project' = project,
           project # "absent", auditing' \in BOOLEAN,
           writer' \in [Writers -> WriterType],
           \A v \in Writers : Settles(writer[v], writer'[v]),
           T \cap References # {} => ProjectFree /\ project # "purged",
           "events" \in T => Lockable("installations")
    PROVE  IInv'
<1>1. /\ rows' = rows \cup T
      /\ purge' \in [Owners -> PurgeType]
      /\ \A o \in Owners : /\ purge'[o].pc = purge[o].pc
                           /\ purge'[o].cleared = purge[o].cleared \ T
  BY DEF IInv, TypeOK, Store, PurgeType
<1>2. TypeOK'
  BY <1>1 DEF IInv, TypeOK
<1>3. PurgeInv'
  BY <1>1 DEF IInv, PurgeInv, HoldsProject, Settles
<1>4. WriterInv'
  BY <1>1 DEF IInv, WriterInv, Covered, Lockable, Settles
<1>5. \A o \in Owners : HoldsProject(o) => T \subseteq {"events", "admin_audit_log"}
  BY TableKinds DEF ProjectFree
<1>6. ("events" \in rows => "installations" \in rows)'
  BY <1>1 DEF IInv, ClearedInv, Lockable
<1>7. ASSUME NEW o \in Owners, "installations" \in purge'[o].cleared PROVE "events" \notin Left(o)'
  BY <1>1, <1>7 DEF IInv, ClearedInv, Lockable, Left
<1>8. ASSUME NEW o \in Owners, purge'[o].pc = "commit" PROVE Left(o)' \subseteq {"admin_audit_log"}
  <2>1. HoldsProject(o) /\ Left(o) \subseteq {"admin_audit_log"}
    BY <1>1, <1>8 DEF IInv, ClearedInv, HoldsProject
  <2>2. "events" \notin T
    BY <2>1 DEF Lockable, Left
  <2> QED
    BY <1>1, <1>5, <2>1, <2>2 DEF Left
<1>9. NothingLeftBehind'
  BY <1>1, TableKinds DEF IInv, NothingLeftBehind, Lockable
<1> QED
  BY <1>2, <1>3, <1>4, <1>6, <1>7, <1>8, <1>9 DEF IInv, ClearedInv

\* A writer that does not move keeps its locks.
LEMMA Unmoved == IInv => \A v \in Writers : Settles(writer[v], writer[v])
  BY DEF IInv, WriterInv, Covered, Settles

\* A writer that fails, or has nothing left to do.
LEMMA WriterResets ==
    ASSUME IInv, NEW w \in Writers, SetWriter(w, IdleWriter),
           UNCHANGED <<project, rows, auditing, purge>>
    PROVE  IInv'
<1>1. Covered(IdleWriter) /\ ~IdleWriter.key /\ IdleWriter.pc = "idle"
  BY DEF Covered, IdleWriter
<1> QED
  BY <1>1, IdleTypes, WriterMoves

\* An insert into a table that references projects.
LEMMA InsertReferencingStep ==
    ASSUME IInv, NEW w \in Writers, NEW t \in References,
           NEW next \in {"install", "commit"}, writer[w].pc # "idle",
           InsertReferencing(w, t, next), UNCHANGED <<project, rows, auditing, purge>>
    PROVE  IInv'
<1> DEFINE x == [writer[w] EXCEPT !.pc = next, !.key = TRUE, !.wrote = @ \cup {t}]
<1>1. CASE project = "purged"
  BY <1>1, WriterResets DEF InsertReferencing
<1>2. CASE project # "purged"
  <2>1. writer[w] \in WriterType /\ Covered(writer[w]) /\ project \in {"active", "archived"}
    BY <1>2 DEF IInv, TypeOK, WriterInv, ClearedInv
  <2>2. /\ x \in WriterType /\ x.held = writer[w].held /\ x.wrote = writer[w].wrote \cup {t}
        /\ x.step = writer[w].step /\ x.last = writer[w].last
    BY <2>1, TableKinds DEF WriterType
  <2>3. Covered(x)
    BY <2>1, <2>2, TableKinds DEF Covered, WriterType
  <2>4. SetWriter(w, x) /\ ProjectFree
    BY <1>2 DEF InsertReferencing
  <2> QED
    BY <2>1, <2>2, <2>3, <2>4, WriterMoves
<1> QED
  BY <1>1, <1>2

\* An upsert, which may find its row there.
LEMMA UpsertStep ==
    ASSUME IInv, NEW w \in Writers, NEW t \in References,
           NEW next \in {"install", "commit"}, writer[w].pc # "idle",
           Upsert(w, t, next), UNCHANGED <<project, rows, auditing, purge>>
    PROVE  IInv'
<1> DEFINE x == [writer[w] EXCEPT !.pc = next, !.held = @ \cup {t}]
<1>1. CASE InsertReferencing(w, t, next)
  BY <1>1, InsertReferencingStep
<1>2. CASE Lockable(t) /\ SetWriter(w, x)
  <2>1. writer[w] \in WriterType /\ Covered(writer[w]) /\ project # "absent"
    BY DEF IInv, TypeOK, WriterInv, ClearedInv
  <2>2. /\ x \in WriterType /\ x.held = writer[w].held \cup {t} /\ x.wrote = writer[w].wrote
        /\ x.key = writer[w].key /\ x.step = writer[w].step /\ x.last = writer[w].last
    BY <2>1, TableKinds DEF WriterType
  <2>3. Covered(x)
    BY <1>2, <2>1, <2>2 DEF Covered
  <2> QED
    BY <1>2, <2>1, <2>2, <2>3, WriterMoves
<1> QED
  BY <1>1, <1>2 DEF Upsert

\* The initial state satisfies the inductive invariant.
LEMMA InitIInv == Init => IInv
<1>1. SUFFICES ASSUME Init PROVE IInv
  OBVIOUS
<1>2. TypeOK
  BY <1>1, IdleTypes DEF Init, TypeOK
<1>3. PurgeInv /\ WriterInv
  BY <1>1 DEF Init, PurgeInv, WriterInv, Covered, IdlePurge, IdleWriter, HoldsProject
<1>4. ClearedInv /\ NothingLeftBehind
  BY <1>1 DEF Init, ClearedInv, NothingLeftBehind, IdlePurge, IdleWriter, Left
<1> QED
  BY <1>2, <1>3, <1>4 DEF IInv

\* Every step of a purge, of a writer, of an owner preserves it.
LEMMA NextIInv == IInv /\ [Next]_vars => IInv'
<1>1. SUFFICES ASSUME IInv, [Next]_vars PROVE IInv'
  OBVIOUS
<1> USE <1>1
<1> USE Lists, TableKinds
<1>2. ASSUME UNCHANGED vars PROVE IInv'
  BY <1>2 DEF vars, IInv, TypeOK, PurgeType, PurgeInv, WriterInv, Covered, ClearedInv, NothingLeftBehind,
     HoldsProject, Lockable, Left
<1>3. CASE CreateProject
  BY <1>3 DEF CreateProject, IInv, TypeOK, PurgeType, PurgeInv, WriterInv, Covered, ClearedInv, NothingLeftBehind,
     HoldsProject, ProjectFree, Lockable, Left, SetPurge, SetWriter
<1>4. CASE HandleProjectArchive
  BY <1>4 DEF HandleProjectArchive, ArchiveState, IInv, TypeOK, PurgeType, PurgeInv, WriterInv, Covered, ClearedInv, NothingLeftBehind,
     HoldsProject, ProjectFree, Lockable, Left, SetPurge, SetWriter
<1>5. CASE HandleProjectRestore
  BY <1>5 DEF HandleProjectRestore, ArchiveState, IInv, TypeOK, PurgeType, PurgeInv, WriterInv, Covered, ClearedInv, NothingLeftBehind,
     HoldsProject, ProjectFree, Lockable, Left, SetPurge, SetWriter
<1>6. CASE AuditArchiveState
  <2>1. project # "absent"
    BY <1>6 DEF IInv, ClearedInv, AuditArchiveState
  <2>2. CASE UNCHANGED <<rows, purge>>
    BY <1>6, <2>2 DEF AuditArchiveState, IInv, TypeOK, PurgeInv, WriterInv, Covered, ClearedInv,
       NothingLeftBehind, HoldsProject, Lockable, Left
  <2>3. CASE Store({"admin_audit_log"})
    <3>1. /\ writer' \in [Writers -> WriterType] /\ writer' = writer
          /\ auditing' \in BOOLEAN /\ project' = project
      BY <1>6 DEF AuditArchiveState, IInv, TypeOK
    <3>2. {"admin_audit_log"} \in SUBSET Tables /\ {"admin_audit_log"} \cap References = {}
      OBVIOUS
    <3> QED
      BY <2>1, <2>3, <3>1, <3>2, StoreStep, Unmoved
  <2> QED
    BY <1>6, <2>2, <2>3 DEF AuditArchiveState
<1>7. ASSUME NEW o \in Owners, HandleProjectPurge(o) PROVE IInv'
  BY <1>7 DEF HandleProjectPurge, IdlePurge, IInv, TypeOK, PurgeType, PurgeInv, WriterInv, Covered, ClearedInv, NothingLeftBehind,
     HoldsProject, ProjectFree, Lockable, Left, SetPurge, SetWriter
<1>8. ASSUME NEW o \in Owners, PurgeLock(o) PROVE IInv'
  BY <1>8 DEF PurgeLock, IdlePurge, IInv, TypeOK, PurgeType, PurgeInv, WriterInv, Covered, ClearedInv, NothingLeftBehind,
     HoldsProject, ProjectFree, Lockable, Left, SetPurge, SetWriter
<1>9. ASSUME NEW o \in Owners, PurgeDelete(o) PROVE IInv'
  <2> DEFINE t == PurgeQueries[purge[o].step]
  <2>1. HoldsProject(o) /\ t \in Tables \cup {"projects"}
    BY <1>9 DEF PurgeDelete, HoldsProject, IInv, TypeOK, PurgeType, PurgeQueries, Tables, References
  <2>2. CASE Blocking(o, t) # {}
    BY <1>9, <2>2, IdleTypes DEF PurgeDelete, IdlePurge, IInv, TypeOK, PurgeInv, WriterInv, Covered,
       ClearedInv, NothingLeftBehind, HoldsProject, Lockable, Left, SetPurge
  <2>3. CASE Blocking(o, t) = {} /\ t = "projects"
    <3>1. /\ purge' = [purge EXCEPT ![o].pc = "commit"]
          /\ UNCHANGED <<project, rows, auditing, writer>>
      BY <1>9, <2>3 DEF PurgeDelete, SetPurge
    <3>2. /\ \A p \in Owners : purge'[p].cleared = purge[p].cleared
          /\ \A p \in Owners : HoldsProject(p)' = HoldsProject(p)
          /\ \A p \in Owners \ {o} : purge'[p] = purge[p]
          /\ TypeOK'
      BY <2>1, <3>1 DEF IInv, TypeOK, PurgeType, HoldsProject
    <3>3. Left(o) \cap References = {}
      BY <2>3 DEF Blocking
    <3>4. "events" \notin Left(o)
      BY <3>3 DEF IInv, ClearedInv, Left
    <3>5. Left(o) \subseteq {"admin_audit_log"}
      BY <3>3, <3>4 DEF IInv, TypeOK, Left
    <3>6. PurgeInv' /\ WriterInv'
      BY <3>1, <3>2 DEF IInv, PurgeInv, WriterInv, Covered, Lockable
    <3> QED
      BY <3>1, <3>2, <3>5, <3>6 DEF IInv, ClearedInv, NothingLeftBehind, Left
  <2>4. CASE Blocking(o, t) = {} /\ t # "projects"
    <3>1. /\ SetPurge(o, [purge[o] EXCEPT !.step = @ + 1, !.cleared = @ \cup (rows \cap {t})])
          /\ \A w \in Writers : t \notin writer[w].held
          /\ UNCHANGED <<project, rows, auditing, writer>>
      BY <1>9, <2>4 DEF PurgeDelete
    <3>2. purge[o].step \in 1..9
      BY <2>4 DEF IInv, TypeOK, PurgeType
    <3>3. purge' \in [Owners -> PurgeType]
      <4> DEFINE C == purge[o].cleared \cup (rows \cap {t})
      <4>1. purge[o] \in PurgeType /\ C \in SUBSET Tables /\ purge[o].step + 1 \in 1..10
        BY <3>2 DEF IInv, TypeOK, PurgeType
      <4>2. [purge[o] EXCEPT !.step = @ + 1, !.cleared = @ \cup (rows \cap {t})] \in PurgeType
        <5> HIDE DEF C
        <5>1. [purge[o] EXCEPT !.step = purge[o].step + 1, !.cleared = C] \in PurgeType
          BY <4>1 DEF PurgeType
        <5> QED
          BY <5>1 DEF C
      <4> QED
        BY <3>1, <4>2 DEF IInv, TypeOK, SetPurge
    <3>4. /\ purge'[o].cleared = purge[o].cleared \cup (rows \cap {t})
          /\ \A p \in Owners : purge'[p].pc = purge[p].pc
          /\ \A p \in Owners \ {o} : purge'[p] = purge[p]
      BY <3>1 DEF IInv, TypeOK, PurgeType, SetPurge
    <3>5. PurgeInv'
      BY <2>1, <3>1, <3>4 DEF IInv, PurgeInv, HoldsProject
    <3>6. WriterInv'
      BY <3>1, <3>4 DEF IInv, WriterInv, Covered, Lockable
    <3>7. t = "installations" => "events" \notin Left(o)
      BY <2>4 DEF Blocking
    <3>8. ClearedInv'
      BY <3>1, <3>4, <3>7 DEF IInv, ClearedInv, Left
    <3> QED
      BY <3>1, <3>3, <3>5, <3>6, <3>8 DEF IInv, TypeOK, NothingLeftBehind
  <2> QED
    BY <2>2, <2>3, <2>4
<1>10. ASSUME NEW o \in Owners, PurgeCommit(o) PROVE IInv'
  BY <1>10 DEF PurgeCommit, IdlePurge, IInv, TypeOK, PurgeType, PurgeInv, WriterInv, Covered, ClearedInv, NothingLeftBehind,
     HoldsProject, ProjectFree, Lockable, Left, SetPurge, SetWriter
<1>11. ASSUME NEW o \in Owners, PurgeFails(o) PROVE IInv'
  BY <1>11 DEF PurgeFails, IdlePurge, IInv, TypeOK, PurgeType, PurgeInv, WriterInv, Covered, ClearedInv, NothingLeftBehind,
     HoldsProject, ProjectFree, Lockable, Left, SetPurge, SetWriter
<1>12. ASSUME NEW w \in Writers, Register(w) PROVE IInv'
  <2> DEFINE x == [IdleWriter EXCEPT !.pc = "register"]
  <2>1. writer[w] \in WriterType /\ Covered(writer[w]) /\ project # "absent"
    BY <1>12 DEF Register, IInv, TypeOK, WriterInv, ClearedInv
  <2>2. /\ x \in WriterType
        /\ x.key = FALSE /\ x.held = {} /\ x.wrote = {} /\ x.step = 1 /\ x.last = 1
    BY <2>1, IdleTypes DEF WriterType, IdleWriter
  <2>3. Covered(x)
    BY <1>12, <2>1, <2>2 DEF Register, Covered, Lockable
  <2>4. SetWriter(w, x) /\ UNCHANGED <<project, rows, auditing, purge>>
    BY <1>12 DEF Register
  <2> QED
    BY <2>1, <2>2, <2>3, <2>4, WriterMoves
<1>13. ASSUME NEW w \in Writers, VerifyInstallation(w) PROVE IInv'
  <2> DEFINE x == [writer[w] EXCEPT !.pc = "commit", !.held = {"installations"}]
  <2>1. writer[w] \in WriterType /\ Covered(writer[w]) /\ project # "absent"
    BY <1>13 DEF VerifyInstallation, IInv, TypeOK, WriterInv, ClearedInv
  <2>2. /\ x \in WriterType
        /\ x.key = writer[w].key /\ x.held = {"installations"} /\ x.wrote = writer[w].wrote
        /\ x.step = writer[w].step /\ x.last = writer[w].last
    BY <2>1, IdleTypes DEF WriterType
  <2>3. Covered(x)
    BY <1>13, <2>1, <2>2 DEF VerifyInstallation, Covered, Lockable
  <2>4. SetWriter(w, x) /\ UNCHANGED <<project, rows, auditing, purge>>
    BY <1>13 DEF VerifyInstallation
  <2> QED
    BY <2>1, <2>2, <2>3, <2>4, WriterMoves
<1>14. ASSUME NEW w \in Writers, UpsertCounter(w) PROVE IInv'
  BY <1>14, UpsertStep DEF UpsertCounter
<1>15. ASSUME NEW w \in Writers, InsertInstallation(w) PROVE IInv'
  BY <1>15, InsertReferencingStep DEF InsertInstallation
<1>16. ASSUME NEW w \in Writers, AuthorizeBatch(w) PROVE IInv'
  <2>1. PICK next \in {"update", "after"} :
          SetWriter(w, [IdleWriter EXCEPT !.pc = next, !.last = Len(AfterCommit)])
    BY <1>16 DEF AuthorizeBatch
  <2> DEFINE x == [IdleWriter EXCEPT !.pc = next, !.last = Len(AfterCommit)]
  <2>2. x \in WriterType /\ ~x.key /\ x.held = {} /\ x.wrote = {} /\ x.step = 1 /\ x.last = 5
    BY IdleTypes DEF WriterType, IdleWriter
  <2>3. Covered(x)
    BY <2>2 DEF Covered
  <2>4. UNCHANGED <<project, rows, auditing, purge>> /\ project # "absent"
    BY <1>16 DEF AuthorizeBatch
  <2> QED
    BY <2>1, <2>2, <2>3, <2>4, WriterMoves
<1>17. ASSUME NEW w \in Writers, UpdateBatchInstallation(w) PROVE IInv'
  <2> DEFINE x == [writer[w] EXCEPT !.pc = "event", !.held = rows \cap {"installations"}]
  <2>1. writer[w] \in WriterType /\ Covered(writer[w]) /\ project # "absent"
    BY <1>17 DEF UpdateBatchInstallation, IInv, TypeOK, WriterInv, ClearedInv
  <2>2. /\ x \in WriterType
        /\ x.key = writer[w].key /\ x.held = rows \cap {"installations"} /\ x.wrote = writer[w].wrote
        /\ x.step = writer[w].step /\ x.last = writer[w].last
    BY <2>1, IdleTypes DEF WriterType
  <2>3. Covered(x)
    BY <1>17, <2>1, <2>2 DEF UpdateBatchInstallation, Covered, Lockable
  <2>4. SetWriter(w, x) /\ UNCHANGED <<project, rows, auditing, purge>>
    BY <1>17 DEF UpdateBatchInstallation
  <2> QED
    BY <2>1, <2>2, <2>3, <2>4, WriterMoves
<1>18. ASSUME NEW w \in Writers, InsertPreparedEvent(w) PROVE IInv'
  <2>1. writer[w] \in WriterType /\ Covered(writer[w]) /\ project # "absent"
    BY <1>18 DEF InsertPreparedEvent, IInv, TypeOK, WriterInv, ClearedInv
  <2>2. UNCHANGED <<project, rows, auditing, purge>>
    BY <1>18 DEF InsertPreparedEvent
  <2>3. CASE SetWriter(w, IdleWriter)
    BY <2>2, <2>3, WriterResets
  <2>4. ASSUME "installations" \in rows, NEW next \in {"catalog", "commit"},
               SetWriter(w, [writer[w] EXCEPT !.pc = next, !.held = {"installations"},
                                              !.wrote = {"events"}])
        PROVE  IInv'
    <3> DEFINE x == [writer[w] EXCEPT !.pc = next, !.held = {"installations"},
                                      !.wrote = {"events"}]
    <3>1. /\ x \in WriterType /\ x.key = writer[w].key
          /\ x.held = {"installations"} /\ x.wrote = {"events"}
          /\ x.step = writer[w].step /\ x.last = writer[w].last
      BY <2>1 DEF WriterType
    <3>2. Covered(x)
      BY <1>18, <2>1, <2>4, <3>1 DEF Covered, InsertPreparedEvent
    <3> QED
      BY <2>1, <2>2, <2>4, <3>1, <3>2, WriterMoves
  <2>5. CASE SetWriter(w, [writer[w] EXCEPT !.pc = "commit"])
    <3> DEFINE x == [writer[w] EXCEPT !.pc = "commit"]
    <3>1. /\ x \in WriterType /\ x.key = writer[w].key
          /\ x.held = writer[w].held /\ x.wrote = writer[w].wrote
          /\ x.step = writer[w].step /\ x.last = writer[w].last
      BY <2>1 DEF WriterType
    <3>2. Covered(x)
      BY <2>1, <3>1 DEF Covered
    <3> QED
      BY <2>1, <2>2, <2>5, <3>1, <3>2, WriterMoves
  <2> QED
    BY <1>18, <2>3, <2>4, <2>5 DEF InsertPreparedEvent
<1>19. ASSUME NEW w \in Writers, TrackProductEvent(w) PROVE IInv'
  BY <1>19, UpsertStep DEF TrackProductEvent
<1>20. ASSUME NEW w \in Writers, WriterCommit(w) PROVE IInv'
  <2> DEFINE T == writer[w].wrote
             x == [IdleWriter EXCEPT !.pc = "after", !.last = writer[w].last]
  <2>1. writer[w] \in WriterType /\ Covered(writer[w]) /\ project # "absent"
    BY <1>20 DEF WriterCommit, IInv, TypeOK, WriterInv, ClearedInv
  <2>2. x \in WriterType /\ Settles(writer[w], x)
    <3>1. /\ x \in WriterType /\ ~x.key /\ x.held = {} /\ x.wrote = {}
          /\ x.step = 1 /\ x.last = writer[w].last
      BY <2>1, IdleTypes DEF WriterType, IdleWriter
    <3>2. writer[w].last \in {1, 5}
      BY <2>1 DEF WriterType
    <3> QED
      BY <3>1, <3>2 DEF Settles
  <2>3. /\ writer' \in [Writers -> WriterType]
        /\ \A v \in Writers : Settles(writer[v], writer'[v])
    BY <1>20, <2>2, Unmoved DEF WriterCommit, SetWriter, IInv, TypeOK
  <2>4. T \in SUBSET Tables /\ ("events" \in T => Lockable("installations"))
    BY <2>1 DEF WriterType, Covered
  <2>5. T \cap References # {} => ProjectFree /\ project # "purged"
    BY <2>1 DEF Covered, IInv, PurgeInv, ProjectFree
  <2>6. Store(T) /\ project' = project /\ auditing' \in BOOLEAN
    BY <1>20 DEF WriterCommit, IInv, TypeOK
  <2> QED
    BY <2>1, <2>3, <2>4, <2>5, <2>6, StoreStep
<1>21. ASSUME NEW w \in Writers, WriteAfterCommit(w) PROVE IInv'
  <2> DEFINE t == AfterCommit[writer[w].step]
             next == IF writer[w].step = writer[w].last THEN IdleWriter
                     ELSE [writer[w] EXCEPT !.step = @ + 1]
  <2>1. writer[w] \in WriterType /\ Covered(writer[w]) /\ project # "absent"
    BY <1>21 DEF WriteAfterCommit, IInv, TypeOK, WriterInv, ClearedInv
  <2>2. t \in Tables /\ t # "events"
    BY <2>1 DEF WriterType, AfterCommit, Tables, References
  <2>3. UNCHANGED <<project, auditing>> /\ auditing' \in BOOLEAN
    BY <1>21 DEF WriteAfterCommit, IInv, TypeOK
  <2>4. next \in WriterType /\ Settles(writer[w], next)
    <3>1. CASE writer[w].step = writer[w].last
      BY <3>1, IdleTypes DEF IdleWriter, Settles
    <3>2. CASE writer[w].step # writer[w].last
      <4>1. writer[w].step + 1 \in 1..5 /\ writer[w].step + 1 <= writer[w].last
        BY <2>1, <3>2 DEF WriterType, Covered
      <4> QED
        BY <2>1, <3>2, <4>1 DEF WriterType, Settles
    <3> QED
      BY <3>1, <3>2
  <2>5. CASE SetWriter(w, next) /\ UNCHANGED <<rows, purge>>
    <3>1. Covered(next) /\ (next.key => writer[w].key)
      BY <2>1, <2>4 DEF Settles, Covered
    <3> QED
      BY <2>1, <2>3, <2>4, <2>5, <3>1, WriterMoves
  <2>6. CASE SetWriter(w, IdleWriter) /\ UNCHANGED <<rows, purge>>
    BY <2>3, <2>6, WriterResets
  <2>7. CASE /\ t \in References => ProjectFree /\ project # "purged"
             /\ SetWriter(w, next) /\ Store({t})
    <3>1. /\ writer' \in [Writers -> WriterType]
          /\ \A v \in Writers : Settles(writer[v], writer'[v])
      BY <2>4, <2>7, Unmoved DEF SetWriter, IInv, TypeOK
    <3>2. {t} \in SUBSET Tables /\ "events" \notin {t} /\ Store({t}) /\ project' = project
      BY <2>2, <2>3, <2>7
    <3>3. {t} \cap References # {} => ProjectFree /\ project # "purged"
      BY <2>7
    <3> QED
      BY <2>1, <2>3, <3>1, <3>2, <3>3, StoreStep
  <2> QED
    BY <1>21, <2>5, <2>6, <2>7 DEF WriteAfterCommit
<1>22. ASSUME NEW t \in InUse, AdminWrite(t) PROVE IInv'
  <2>1. t \in References
    BY InUseAssumption DEF AdminTables, References
  <2>2. writer' \in [Writers -> WriterType] /\ writer' = writer /\ auditing' \in BOOLEAN
    BY <1>22 DEF AdminWrite, IInv, TypeOK
  <2>3. /\ {t} \in SUBSET Tables /\ "events" \notin {t} /\ Store({t}) /\ project' = project
        /\ project # "absent" /\ project # "purged" /\ ProjectFree
    BY <1>22, <2>1 DEF AdminWrite
  <2> QED
    BY <2>2, <2>3, StoreStep, Unmoved
<1>23. ASSUME NEW w \in Writers, WriterFails(w) PROVE IInv'
  BY <1>23, WriterResets DEF WriterFails
<1>24. ASSUME NEW o \in Owners, NEW w \in Writers, AbortDeadlock(o, w) PROVE IInv'
  <2>1. CASE SetWriter(w, IdleWriter) /\ UNCHANGED purge
    BY <1>24, <2>1, WriterResets DEF AbortDeadlock
  <2>2. CASE SetPurge(o, IdlePurge) /\ UNCHANGED writer
    BY <1>24, <2>2, IdleTypes DEF AbortDeadlock, IdlePurge, IInv, TypeOK, PurgeInv, WriterInv,
       Covered, ClearedInv, NothingLeftBehind, HoldsProject, Lockable, Left, SetPurge
  <2> QED
    BY <1>24, <2>1, <2>2 DEF AbortDeadlock
<1>25. CASE Crash
  <2>1. TypeOK'
    BY <1>25, IdleTypes DEF Crash, IInv, TypeOK
  <2>2. PurgeInv' /\ WriterInv'
    BY <1>25 DEF Crash, PurgeInv, WriterInv, Covered, HoldsProject, IdlePurge, IdleWriter
  <2>3. ClearedInv' /\ NothingLeftBehind'
    BY <1>25 DEF Crash, IInv, ClearedInv, NothingLeftBehind, Left, IdlePurge, IdleWriter
  <2> QED
    BY <2>1, <2>2, <2>3 DEF IInv
<1> QED
  BY <1>2, <1>3, <1>4, <1>5, <1>6, <1>7, <1>8, <1>9, <1>10, <1>11, <1>12, <1>13, <1>14, <1>15, <1>16, <1>17, <1>18, <1>19, <1>20, <1>21, <1>22, <1>23, <1>24, <1>25 DEF Next, PurgeStep, WriterStep, Abort
\* The inductive invariant holds in every reachable state, for any owners,
\* writers and tables in use.
THEOREM Invariance == Spec => []IInv
<1>1. Init => IInv
  BY InitIInv
<1>2. IInv /\ [Next]_vars => IInv'
  BY NextIInv
<1> QED
  BY <1>1, <1>2, PTL DEF Spec

\* A purge leaves nothing of the project but late audit rows, whatever was
\* being written while it ran.
THEOREM PurgeLeavesNothing == Spec => []NothingLeftBehind
<1>1. IInv => NothingLeftBehind
  BY DEF IInv
<1> QED
  BY <1>1, Invariance, PTL

\* A project is removed from the archive only: purgeProject's row lock keeps
\* a restore from coming between its check and its commit.
THEOREM PurgeOnlyArchived == Spec => PurgedFromArchive
<1>1. IInv /\ [Next]_vars => [project' = "purged" => project \in {"archived", "purged"}]_vars
  <2>1. SUFFICES ASSUME IInv, Next, project' = "purged", project # "purged"
                 PROVE  project = "archived"
    BY DEF vars
  <2>2. PICK o \in Owners : PurgeCommit(o)
    BY <2>1 DEF Next, CreateProject, HandleProjectArchive, HandleProjectRestore, ArchiveState,
       AuditArchiveState, HandleProjectPurge, PurgeStep, PurgeLock, PurgeDelete, PurgeFails,
       Register, AuthorizeBatch, WriterStep, VerifyInstallation, UpsertCounter,
       InsertInstallation, UpdateBatchInstallation, InsertPreparedEvent, TrackProductEvent,
       WriterCommit, WriteAfterCommit, WriterFails, AdminWrite, Abort, AbortDeadlock, Crash
  <2> QED
    BY <2>1, <2>2 DEF PurgeCommit, IInv, PurgeInv, HoldsProject
<1> QED
  BY <1>1, Invariance, PTL DEF Spec, PurgedFromArchive

=============================================================================
