------------------------ MODULE MCConnectionRegistry ------------------------
(* Two connections, a router that splits reads from writes or none, and   *)
(* two tasks that register, close and create schemas; one of them runs    *)
(* transactions.                                                           *)
EXTENDS ConnectionRegistry, TLC

CONSTANTS t1, t2

MCNames == {"replica"}
MCModels == <<"team", "tournament", "event">>
MCReferences == {<<"team", "tournament">>, <<"tournament", "event">>, <<"event", "event">>}
MCJoins == [event_tournament |-> [owner |-> "event", target |-> "tournament"]]
MCRouters ==
  {("team" :> [read |-> "replica", write |-> "default"]
    @@ [m \in ToSet(MCModels) |-> [read |-> "replica", write |-> None]])}
MCMeta == [m \in ToSet(MCModels) |-> IF m = "team" THEN "replica" ELSE None]
MCTasks == {t1, t2}
MCWorkers == {t1}
\* What the theorem on the order of the tables assumes.
ASSUME InstanceIsAcyclic == Acyclic

Symmetry == Permutations(Dialects) \cup Permutations(Zones)
=============================================================================
