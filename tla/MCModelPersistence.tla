------------------------- MODULE MCModelPersistence -------------------------
(***************************************************************************)
(* Two tasks, two keys, one related row; one model on a dialect with      *)
(* RETURNING, one on MySQL, one on Oracle.                                 *)
(***************************************************************************)
EXTENDS ModelPersistence, TLC

CONSTANTS t1, t2, k1, k2, a1, a2

MCDeclarations ==
  {[returning |-> TRUE,  multirow |-> TRUE,  advances |-> FALSE, fetch |-> FALSE, unique |-> FALSE, stamp |-> "now"],
   [returning |-> FALSE, multirow |-> TRUE,  advances |-> TRUE,  fetch |-> TRUE,  unique |-> TRUE,  stamp |-> "add"],
   [returning |-> TRUE,  multirow |-> FALSE, advances |-> FALSE, fetch |-> TRUE,  unique |-> TRUE,  stamp |-> "both"]}

Rec(i, k, a, s, p) == [id |-> i, key |-> k, author |-> a, state |-> s, stamp |-> p]

\* The stamp of a backdated row, nothing else beside the key; the calls with defaults leave
\* the stamp out.
MCNewRecords == {Rec(None, k, None, None, 0) : k \in Keys}

MCLookups == {Rec(None, k, a1, None, None) : k \in Keys}

\* One key twice, or two keys; the second record may bring a state or a primary key.
MCBatches ==
  {<<Rec(None, k, a1, None, None), Rec(None, k, None, "shut", None)>> : k \in Keys}
  \cup {b \in {<<Rec(None, k, a1, None, None), Rec(i[1], l, None, i[2], None)>> :
                k \in Keys, l \in Keys,
                i \in {<<None, None>>, <<None, "shut">>, <<OwnId, None>>}} : b[1].key # b[2].key}

\* The relation, or the column of the database default.
MCPartial == {{"author"}, {"state"}}

Symmetry == Permutations({t1, t2}) \cup Permutations({k1, k2})

=============================================================================
