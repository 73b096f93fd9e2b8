----------------------------- MODULE MCTxGuard -----------------------------
(* Instances of TxGuard for TLC. *)
EXTENDS TxGuard, TLC

CONSTANTS t, s, r, k, p   \* calls

\* One transaction with two statements and a commit or rollback, and one caller of
\* the pool that competes for its connection.
OneTxRoles ==
  (t :> {"begin"}) @@ (s :> {"stmt"}) @@ (r :> {"stmt"}) @@ (k :> {"commit", "rollback"})
    @@ (p :> {"auto", "many", "script"})
OneTxCalls == DOMAIN OneTxRoles

\* One transaction, one statement, one control call: what is left of it.
SmallRoles == (t :> {"begin"}) @@ (s :> {"stmt"}) @@ (k :> {"commit", "rollback"})
SmallCalls == DOMAIN SmallRoles

\* The same with a caller of the pool.
PairRoles == SmallRoles @@ (p :> {"begin", "auto", "many", "script"})
PairCalls == DOMAIN PairRoles
=============================================================================
