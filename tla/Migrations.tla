----------------------------- MODULE Migrations ------------------------------
(* The migration runner (store.ApplyMigrations) as deploy steps run it: the   *)
(* versions already recorded are read once, then every other file is executed *)
(* and recorded, one transaction each, in the order of the names.  Two        *)
(* deploys may overlap, and each may die between any two statements.          *)
EXTENDS SchemaPromise

CONSTANTS Runners,     \* deploys under way at once
          Names,       \* the files of the final release, in name order
          First,       \* the files of the first release
          MaxFailures  \* bound: failures of a behaviour

VARIABLES files,     \* the migration files of the release being deployed
          run,       \* each runner: [stage, todo, executed] - executed: in its open transaction
          failures

vars == <<files, recorded, effects, run, failures>>

Idle == [stage |-> "idle", todo |-> <<>>, executed |-> FALSE]

Init == /\ files = First /\ recorded = {} /\ effects = <<>> /\ failures = 0
        /\ run = [r \in Runners |-> Idle]

\* A release adds a file, not always at the end of the order.
Release(f) == /\ f \notin files /\ files' = files \cup {f}
              /\ UNCHANGED <<recorded, effects, run, failures>>

\* Wrong: the files come in the order of the directory.
filesUnsorted == Reverse(SelectSeq(Names, LAMBDA f : f \in files))

migrationFiles == SelectSeq(Names, LAMBDA f : f \in files)

\* Wrong: only the files that sort after every recorded one are applied.
BeginPastLast(r) ==
    LET After(f) == \A g \in recorded : \E i, j \in DOMAIN Names : i < j /\ Names[i] = g /\ Names[j] = f
    IN  /\ run[r] = Idle /\ ~(files \subseteq recorded)
        /\ run' = [run EXCEPT ![r] = [stage |-> "file", executed |-> FALSE,
                                      todo |-> SelectSeq(migrationFiles, After)]]
        /\ UNCHANGED <<files, recorded, effects, failures>>

\* The directory and the recorded versions are read once, at the start.
Begin(r) == /\ run[r] = Idle /\ ~(files \subseteq recorded)
            /\ run' = [run EXCEPT ![r] = [stage |-> "file", executed |-> FALSE,
                                          todo |-> SelectSeq(migrationFiles, LAMBDA f : f \notin recorded)]]
            /\ UNCHANGED <<files, recorded, effects, failures>>

\* The file is executed in its transaction.
Execute(r) == /\ run[r].stage = "file" /\ run[r].todo # <<>> /\ ~run[r].executed
              /\ run' = [run EXCEPT ![r].executed = TRUE]
              /\ UNCHANGED <<files, recorded, effects, failures>>

\* Wrong: the version is recorded first, in a transaction of its own.
RecordFirst(r) == /\ run[r].stage = "file" /\ run[r].executed
                  /\ LET f == Head(run[r].todo)
                     IN  IF f \in recorded /\ f \notin ToSet(effects)
                           THEN /\ effects' = Append(effects, f) /\ UNCHANGED recorded
                                /\ run' = [run EXCEPT ![r].todo = Tail(@), ![r].executed = FALSE]
                           ELSE /\ recorded' = recorded \cup {f} /\ UNCHANGED <<effects, run>>
                  /\ UNCHANGED <<files, failures>>

\* The version is recorded in the same transaction and both are committed.  The
\* insert waits for another transaction of the same version and fails on its
\* key once that has committed: the runner stops with an error.
Record(r) == /\ run[r].stage = "file" /\ run[r].executed
             /\ LET f == Head(run[r].todo)
                IN  IF f \in recorded THEN run' = [run EXCEPT ![r] = Idle] /\ UNCHANGED <<recorded, effects>>
                    ELSE /\ recorded' = recorded \cup {f} /\ effects' = Append(effects, f)
                         /\ run' = [run EXCEPT ![r].todo = Tail(@), ![r].executed = FALSE]
             /\ UNCHANGED <<files, failures>>

Done(r) == /\ run[r].stage = "file" /\ run[r].todo = <<>>
           /\ run' = [run EXCEPT ![r] = Idle]
           /\ UNCHANGED <<files, recorded, effects, failures>>

\* A statement fails or the process dies: the open transaction is rolled back.
Fail(r) == /\ run[r] # Idle /\ failures < MaxFailures
           /\ run' = [run EXCEPT ![r] = Idle] /\ failures' = failures + 1
           /\ UNCHANGED <<files, recorded, effects>>

Work(r) == Begin(r) \/ Execute(r) \/ Record(r) \/ Done(r)

Next == (\E f \in ToSet(Names) : Release(f)) \/ \E r \in Runners : Work(r) \/ Fail(r)

\* A deploy that failed is run again, and a runner that runs gets on.
Spec == Init /\ [][Next]_vars /\ \A r \in Runners : WF_vars(Work(r))
------------------------------------------------------------------------------
\* The inductive invariant (module LiveProofs): every effect is recorded.
IInv == IsFiniteSet(recorded) /\ effects \in Seq(recorded) /\ RecordedIffEffective

\* A file never takes effect before one that the same release sorts before it.
AppliesInOrder ==
    \A f \in recorded' \ recorded : \E r \in Runners :
       /\ run[r].todo # <<>> /\ Head(run[r].todo) = f
       /\ \A g \in ToSet(run[r].todo) \ {f} :
             \E i, j \in DOMAIN Names : i < j /\ Names[i] = f /\ Names[j] = g

\* Deploys that are repeated until they succeed bring the schema up to date with
\* the release, files that sort before applied ones included.
SchemaCatchesUp == \A f \in ToSet(Names) : f \in files ~> f \in recorded
==============================================================================
