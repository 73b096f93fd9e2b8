-------------------------- MODULE MCMigrationRunner --------------------------
(* Instances of MigrationRunner for TLC. *)
EXTENDS MigrationRunner

CONSTANTS table, data, column, index, extra   \* what the operations touch

Op(kind, on) == [kind |-> kind, on |-> on]

\* A schema change with the data migration it needs, a rebuild, a non-atomic
\* migration whose operations are guarded, one of them a rebuild.
ThreeFiles == <<
  [name |-> "0001", atomic |-> TRUE, ops |-> <<Op("plain", table), Op("python", data)>>],
  [name |-> "0002", atomic |-> TRUE, ops |-> <<Op("guarded", index), Op("rebuild", column)>>],
  [name |-> "0003", atomic |-> FALSE, ops |-> <<Op("rebuild", column), Op("guarded", extra)>>] >>

\* The first of them alone.
OneFile == SubSeq(ThreeFiles, 1, 1)

\* What the theorems assume of the operations.
ASSUME InstanceTouchesOnce == TouchedOnce
=============================================================================
