------------------------------ MODULE AtomicTx ------------------------------
(***************************************************************************)
(* What the engine promises about a transaction, whatever is cancelled,    *)
(* lost or dropped: its writes become durable together, once, or never;    *)
(* and what the caller was told is what happened.                          *)
(***************************************************************************)
CONSTANT Owners  \* transactions

VARIABLES
  durable,      \* the writes that survive: records whose field "of" is the owner
  ended,        \* the transactions that can change nothing any more
  told          \* told[o]: what the caller learnt: "nothing", "committed", "rolledback"

vars == <<durable, ended, told>>

WritesOf(o) == {w \in durable : w.of = o}

Init ==
  /\ durable = {}
  /\ ended = {}
  /\ told = [o \in Owners |-> "nothing"]

\* All the writes the transaction is going to have survive, at once.
Commit(o) ==
  /\ o \notin ended
  /\ durable \subseteq durable'
  /\ \A w \in durable' \ durable : w.of = o
  /\ ended' = ended \cup {o}
  /\ UNCHANGED told

Rollback(o) ==
  /\ o \notin ended
  /\ ended' = ended \cup {o}
  /\ UNCHANGED <<durable, told>>

\* The caller learns the outcome; "rolledback" is only said of no effect at all.
Tell(o, v) ==
  /\ told[o] = "nothing"
  /\ v = "rolledback" => WritesOf(o) = {}
  /\ told' = [told EXCEPT ![o] = v]
  /\ ended' = ended \cup {o}
  /\ UNCHANGED durable

Next == \E o \in Owners :
  Commit(o) \/ Rollback(o) \/ \E v \in {"committed", "rolledback"} : Tell(o, v)

Spec == Init /\ [][Next]_vars
=============================================================================
