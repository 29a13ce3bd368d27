---------------------------- MODULE SchemaPromise ----------------------------
(* What the migration runner promises: the record of what was applied is true.*)
(* Migrations implements it.                                                  *)
EXTENDS Naturals, Sequences, FiniteSets, SequencesExt

VARIABLES recorded,  \* schema_migrations
          effects    \* history: the files whose effect was committed, in order

\* A file took effect exactly once if it is recorded, and not at all if not:
\* neither overlapping deploys nor a death in between separate the two
\* (store.ApplyMigrations).
RecordedIffEffective == /\ ToSet(effects) = recorded
                        /\ Len(effects) = Cardinality(recorded)
==============================================================================
