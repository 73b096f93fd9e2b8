------------------------- MODULE MCTransactionScope -------------------------
(* Instances of TransactionScope for TLC. *)
EXTENDS TransactionScope

\* Spawned tasks are interchangeable, so only one of them is enough for a race.
CONSTANTS main, child

OneTask  == {main}
TwoTasks == {main, child}
=============================================================================
